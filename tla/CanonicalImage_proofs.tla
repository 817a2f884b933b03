----------------------- MODULE CanonicalImage_proofs -----------------------
(* Proofs about CanonicalImage, for any stores, priorities and workers.    *)
EXTENDS CanonicalImage, TLAPS

\* Between the page and the end of the product a worker carries an image of
\* its store, which from the second commit on has an image of its own.
Carried(w) ==
  /\ pc[w] # "idle" => found[w] \in Shows[store[w]]
  /\ pc[w] \in {"product", "commit"} => storeImage[store[w]] # NoImage

IInv == TypeOK /\ CanonicalIsKnown /\ \A w \in Workers : Carried(w)

LEMMA ShownAreImages == \A s \in Stores : \A i \in Shows[s] : i \in Images /\ i # NoImage
  BY ImageAssumption DEF Images

LEMMA SeededAreImages ==
  ASSUME NEW d \in Seeds
  PROVE  /\ d.product \in SeedImages \cup {NoImage} /\ d.product \in Images \cup {NoImage}
         /\ d.stores \in [Stores -> Images \cup {NoImage}]
  BY ImageAssumption DEF Images, SeedImages

LEMMA InvInit == Init => IInv
  BY SeededAreImages DEF Init, IInv, TypeOK, CanonicalIsKnown, Carried

\* Once a store has an image it keeps one.
LEMMA StoreImageStays ==
  ASSUME IInv, Next
  PROVE  \A s \in Stores : storeImage[s] # NoImage => storeImage'[s] # NoImage
<1>1. ASSUME NEW w \in Workers, UpdateStoreProduct(w)
      PROVE  \A s \in Stores : storeImage[s] # NoImage => storeImage'[s] # NoImage
  BY <1>1, ShownAreImages DEF IInv, TypeOK, Carried, UpdateStoreProduct
<1>2. ASSUME NEW d \in Seeds, Seed(d)
      PROVE  \A s \in Stores : storeImage[s] # NoImage => storeImage'[s] # NoImage
  BY <1>2 DEF Seed
<1>3. \/ storeImage' = storeImage
      \/ \E w \in Workers : UpdateStoreProduct(w)
      \/ \E d \in Seeds : Seed(d)
  BY DEF Next, Update, Scrape, ReadProduct, CommitProduct, Crash
<1> QED
  BY <1>1, <1>2, <1>3

LEMMA InvNext == IInv /\ [Next]_vars => IInv'
<1> SUFFICES ASSUME IInv, [Next]_vars PROVE IInv'
  OBVIOUS
<1> USE DEF IInv
<1>1. CASE UNCHANGED vars
  BY <1>1 DEF vars, TypeOK, CanonicalIsKnown, Carried
<1>2. ASSUME NEW w \in Workers, NEW s \in Stores, NEW i \in Shows[s], Scrape(w, s, i)
      PROVE  IInv'
  BY <1>2, ShownAreImages DEF Scrape, TypeOK, CanonicalIsKnown, Carried
<1>3. ASSUME NEW w \in Workers, UpdateStoreProduct(w)
      PROVE  IInv'
  <2>1. found[w] \in Shows[store[w]] /\ store[w] \in Stores
    BY <1>3 DEF UpdateStoreProduct, TypeOK, Carried
  <2>2. Next
    BY <1>3 DEF Next, Update
  <2>3. TypeOK'
    BY <1>3, <2>1, ShownAreImages DEF UpdateStoreProduct, TypeOK
  <2>4. CanonicalIsKnown'
    BY <1>3, <2>2, StoreImageStays DEF UpdateStoreProduct, CanonicalIsKnown
  <2>5. ASSUME NEW v \in Workers
        PROVE  Carried(v)'
    BY <1>3, <2>1, <2>2, StoreImageStays, ShownAreImages DEF UpdateStoreProduct, TypeOK, Carried
  <2> QED
    BY <2>3, <2>4, <2>5
<1>4. ASSUME NEW w \in Workers, ReadProduct(w)
      PROVE  IInv'
  BY <1>4 DEF ReadProduct, Done, TypeOK, CanonicalIsKnown, Carried
<1>5. ASSUME NEW w \in Workers, CommitProduct(w)
      PROVE  IInv'
  <2>1. found[w] \in Shows[store[w]] /\ store[w] \in Stores /\ storeImage[store[w]] # NoImage
    BY <1>5 DEF CommitProduct, TypeOK, Carried
  <2>2. TypeOK'
    BY <1>5, <2>1, ShownAreImages DEF CommitProduct, Done, TypeOK
  <2>3. CanonicalIsKnown'
    BY <1>5, <2>1 DEF CommitProduct, Done, CanonicalIsKnown
  <2>4. ASSUME NEW v \in Workers
        PROVE  Carried(v)'
    BY <1>5 DEF CommitProduct, Done, TypeOK, Carried
  <2> QED
    BY <2>2, <2>3, <2>4
<1>6. ASSUME NEW w \in Workers, Crash(w)
      PROVE  IInv'
  BY <1>6 DEF Crash, Done, TypeOK, CanonicalIsKnown, Carried
<1>7. ASSUME NEW d \in Seeds, Seed(d)
      PROVE  IInv'
  <2>1. Next
    BY <1>7 DEF Next
  <2>2. TypeOK'
    BY <1>7, SeededAreImages DEF Seed, TypeOK
  <2>3. CanonicalIsKnown'
    BY <1>7, <2>1, SeededAreImages, StoreImageStays DEF Seed, CanonicalIsKnown
  <2>4. ASSUME NEW v \in Workers
        PROVE  Carried(v)'
    BY <1>7, <2>1, StoreImageStays DEF Seed, TypeOK, Carried
  <2> QED
    BY <2>2, <2>3, <2>4
<1> QED
  BY <1>1, <1>2, <1>3, <1>4, <1>5, <1>6, <1>7 DEF Next, Update

\* Every variable keeps its type.
THEOREM ImageTypes == Spec => []TypeOK
<1>1. IInv => TypeOK
  BY DEF IInv
<1> QED
  BY InvInit, InvNext, <1>1, PTL DEF Spec

\* The canonical image comes from a store whose own image is committed, however
\* the workers of several stores overlap and crash.
THEOREM ImageKnown == Spec => []CanonicalIsKnown
<1>1. IInv => CanonicalIsKnown
  BY DEF IInv
<1> QED
  BY InvInit, InvNext, <1>1, PTL DEF Spec
=============================================================================
