-------------------------- MODULE Catalogue_proofs --------------------------
(***************************************************************************)
(* Proofs about Catalogue for any products, stores, observations and page  *)
(* size: its types, that a reader of the list misses nothing, that the     *)
(* list, the detail and the dashboard show the same offers, that each      *)
(* breakdown adds up to 100.00, and that the parts of the dashboard, each  *)
(* computed on its own, do not contradict each other.                      *)
(***************************************************************************)
EXTENDS Catalogue, Shares_proofs

-----------------------------------------------------------------------------
(* Types                                                                   *)

\* An observation of an association that satisfies the constraints.
Admitted(o) ==
  /\ o.product \in Products /\ o.store \in Stores /\ <<o.product, o.store>> \in Sells
  /\ o.at \in Nat
  /\ Constrained(o)

\* Observations are finitely many, and no two have the instant of capture.
ObservationsOK ==
  /\ IsFiniteSet(observations)
  /\ \A o \in observations : Admitted(o) /\ (o.at \in Times \/ o \in Demo)
  /\ \A o, x \in observations : o.at = x.at => o = x

TypeInv == TypeOK /\ ObservationsOK

\* The demonstrative observations satisfy the constraints.
LEMMA DemoAdmitted == \A o \in Demo : Admitted(o) /\ o.at \notin Times
<1> SUFFICES ASSUME NEW o \in Demo
             PROVE  Admitted(o) /\ o.at \notin Times
  OBVIOUS
<1>1. <<o.product, o.store>> \in Sells /\ o.at \in Nat \ Times /\ Constrained(o)
  BY CatalogueAssumption
<1>2. o.product \in Products /\ o.store \in Stores
  BY <1>1, CatalogueAssumption
<1>3. QED
  BY <1>1, <1>2 DEF Admitted

\* So does what a worker inserts.
LEMMA InsertAdmitted ==
  ASSUME NEW p \in Products, NEW s \in Stores, NEW k \in Kinds, NEW at \in Times,
         <<p, s>> \in Sells
  PROVE  Admitted(Observation(k, p, s, at)) /\ Observation(k, p, s, at).at = at
<1>1. Constrained(k) /\ at \in Nat
  BY CatalogueAssumption
<1>2. QED
  BY <1>1 DEF Admitted, Observation, Constrained

\* The list of products is part of the products.
LEMMA ListedFinite ==
  /\ IsFiniteSet(Listed) /\ Cardinality(Listed) \in Nat
  /\ Cardinality(Listed) <= Cardinality(Products) /\ Cardinality(Products) \in Nat
<1>1. IsFiniteSet(Products)
  BY CatalogueAssumption
<1>2. Listed \in SUBSET Products
  BY DEF Listed
<1>3. QED
  BY <1>1, <1>2, FS_Subset, FS_CardinalityType

\* A page begins at its number, or later.
LEMMA PageGrows ==
  ASSUME NEW n \in Nat
  PROVE  n <= n * PageSize
<1>1. PageSize \in Nat /\ PageSize >= 1
  BY CatalogueAssumption
<1>2. QED
  BY <1>1

\* Only seeded observations at the start.
LEMMA TypeInit == Init => TypeInv
<1> SUFFICES ASSUME Init
             PROVE  TypeInv
  OBVIOUS
<1>1. Cardinality(Products) \in Nat
  BY ListedFinite
<1>2. TypeOK
  BY <1>1, CatalogueAssumption DEF Init, TypeOK
<1>3. ObservationsOK
  BY FS_EmptySet DEF Init, ObservationsOK
<1>4. QED
  BY <1>2, <1>3 DEF TypeInv

\* Every step keeps the types and the constraints of the observations.
LEMMA TypeStep == TypeInv /\ [Next]_vars => TypeInv'
<1> SUFFICES ASSUME TypeInv, [Next]_vars
             PROVE  TypeInv'
  OBVIOUS
<1> USE DEF TypeInv
<1>1. ASSUME NEW p \in Products, NEW s \in Stores, NEW k \in Kinds, NEW at \in Times,
             Insert(p, s, k, at)
      PROVE  TypeInv'
  <2> DEFINE new == Observation(k, p, s, at)
  <2>1. Admitted(new) /\ new.at = at /\ <<p, s>> \in Sells
    BY <1>1, InsertAdmitted DEF Insert
  <2>2. observations' = observations \cup {new} /\ \A o \in observations : o.at # at
    BY <1>1 DEF Insert
  <2>3. IsFiniteSet(observations')
    BY <2>2, FS_AddElement DEF ObservationsOK
  <2>4. \A o \in observations' : Admitted(o) /\ (o.at \in Times \/ o \in Demo)
    BY <2>1, <2>2 DEF ObservationsOK
  <2>5. \A o, x \in observations' : o.at = x.at => o = x
    BY <2>1, <2>2 DEF ObservationsOK
  <2>6. ObservationsOK'
    BY <2>3, <2>4, <2>5 DEF ObservationsOK, Admitted
  <2>7. new = Observation(k, new.product, new.store, at) /\ <<new.product, new.store>> \in Sells
    BY <2>1 DEF Observation
  <2>8. TypeOK'
    BY <1>1, <2>2, <2>7 DEF TypeOK, Insert, readerVars
  <2>9. QED
    BY <2>6, <2>8
<1>2. ASSUME NEW demo \in BOOLEAN, Seed(demo)
      PROVE  TypeInv'
  <2>1. PICK D \in SUBSET Demo : observations' = observations \cup D
    BY <1>2 DEF Seed
  <2>2. IsFiniteSet(observations')
    <3>1. IsFiniteSet(D)
      BY FS_Subset, CatalogueAssumption
    <3>2. QED
      BY <2>1, <3>1, FS_Union DEF ObservationsOK
  <2>3. \A o \in observations' : Admitted(o) /\ (o.at \in Times \/ o \in Demo)
    BY <2>1, DemoAdmitted DEF ObservationsOK
  <2>4. \A o, x \in observations' : o.at = x.at => o = x
    <3>1. \A o, x \in Demo : o.at = x.at => o = x
      BY CatalogueAssumption
    <3>2. QED
      BY <2>1, <3>1, DemoAdmitted DEF ObservationsOK
  <2>5. ObservationsOK'
    BY <2>2, <2>3, <2>4 DEF ObservationsOK, Admitted
  <2>6. active' \subseteq Stores
    BY <1>2, CatalogueAssumption DEF Seed
  <2>7. TypeOK'
    BY <1>2, <2>1, <2>6 DEF TypeOK, Seed
  <2>8. QED
    BY <2>5, <2>7
<1>3. ASSUME NEW s \in Switchable, Switch(s)
      PROVE  TypeInv'
  <2>1. s \in Stores
    BY CatalogueAssumption
  <2>2. TypeOK'
    BY <1>3, <2>1 DEF TypeOK, Switch
  <2>3. ObservationsOK'
    BY <1>3 DEF Switch, ObservationsOK, Admitted
  <2>4. QED
    BY <2>2, <2>3
<1>4. ASSUME Open
      PROVE  TypeInv'
  <2>1. Listed \subseteq Products
    BY DEF Listed
  <2>2. QED
    BY <1>4, <2>1 DEF Open, TypeOK, ObservationsOK, Admitted
<1>5. ASSUME ListProducts
      PROVE  TypeInv'
  <2>1. Page(page) \subseteq Products
    BY DEF Page, Listed
  <2>2. page' \in 1..(Cardinality(Products) + 1)
    <3>1. page \in Nat /\ page * PageSize \in Nat
      BY CatalogueAssumption, ListedFinite DEF TypeOK
    <3>2. page * PageSize < Cardinality(Listed) => page < Cardinality(Products)
      BY <3>1, ListedFinite, PageGrows
    <3>3. QED
      BY <1>5, <3>1, <3>2, ListedFinite DEF ListProducts, TypeOK
  <2>3. TypeOK'
    BY <1>5, <2>1, <2>2 DEF ListProducts, TypeOK
  <2>4. QED
    BY <1>5, <2>3 DEF ListProducts, ObservationsOK, Admitted
<1>6. ASSUME UNCHANGED vars
      PROVE  TypeInv'
  BY <1>6 DEF vars, TypeOK, ObservationsOK, Admitted
<1>7. QED
  BY <1>1, <1>2, <1>3, <1>4, <1>5, <1>6 DEF Next

\* The catalogue keeps its types, and its observations the constraints of their
\* table: one instant of capture belongs to one observation.
THEOREM TypeCorrect == Spec => []TypeOK
<1>1. TypeInv => TypeOK
  BY DEF TypeInv
<1>2. QED
  BY <1>1, TypeInit, TypeStep, PTL DEF Spec

-----------------------------------------------------------------------------
(* Reading the list                                                        *)

\* The products in the list before p.
Ahead(p) == {x \in Listed : x < p}

\* What a reader is owed stays in the list, and is on a page to come if it has
\* not been shown: insertions only push a product to later pages.
ReaderInv ==
  /\ due \subseteq Listed
  /\ reading = "no" => page = 1
  /\ reading = "yes" =>
       \A p \in due \ seen : (page - 1) * PageSize <= Cardinality(Ahead(p))
  /\ reading = "done" => due \subseteq seen

\* No fewer products are ahead of one when the list grows.
LEMMA AheadGrows ==
  ASSUME Listed \subseteq Listed', NEW p,
         IsFiniteSet(Listed')
  PROVE  Cardinality(Ahead(p)) <= Cardinality(Ahead(p)')
<1>1. Ahead(p) \in SUBSET Ahead(p)' /\ Ahead(p)' \in SUBSET Listed'
  BY DEF Ahead
<1>2. IsFiniteSet(Ahead(p)')
  BY <1>1, FS_Subset
<1>3. QED
  BY <1>1, <1>2, FS_Subset

\* A product of the list is not ahead of itself.
LEMMA AheadIsLess ==
  ASSUME NEW p \in Listed
  PROVE  Cardinality(Ahead(p)) \in Nat /\ Cardinality(Ahead(p)) < Cardinality(Listed)
<1>1. Ahead(p) \in SUBSET (Listed \ {p})
  <2>1. p \in Nat
    BY CatalogueAssumption DEF Listed
  <2>2. QED
    BY <2>1 DEF Ahead
<1>2. IsFiniteSet(Listed \ {p}) /\ Cardinality(Listed \ {p}) = Cardinality(Listed) - 1
  BY ListedFinite, FS_RemoveElement
<1>3. IsFiniteSet(Ahead(p)) /\ Cardinality(Ahead(p)) <= Cardinality(Listed \ {p})
  BY <1>1, <1>2, FS_Subset
<1>4. QED
  BY <1>2, <1>3, ListedFinite, FS_CardinalityType

\* Where the list keeps what it has and the reader does nothing, it is owed the
\* same products or none.
LEMMA ReaderWaits ==
  ASSUME TypeInv, TypeInv', ReaderInv, UNCHANGED <<reading, page, seen>>,
         due' = {} \/ (due' = due /\ Listed \subseteq Listed')
  PROVE  ReaderInv'
<1>1. CASE due' = {}
  BY <1>1 DEF ReaderInv
<1>2. CASE due' = due /\ Listed \subseteq Listed'
  <2>1. ASSUME NEW p \in due \ seen, reading = "yes"
        PROVE  (page - 1) * PageSize <= Cardinality(Ahead(p)')
    <3>1. IsFiniteSet(Listed') /\ IsFiniteSet(Listed)
      <4>1. IsFiniteSet(Products) /\ Listed' \in SUBSET Products
        BY CatalogueAssumption DEF Listed
      <4>2. QED
        BY <4>1, FS_Subset, ListedFinite
    <3>2. Cardinality(Ahead(p)) <= Cardinality(Ahead(p)')
      BY <1>2, <3>1, AheadGrows
    <3>3. Cardinality(Ahead(p)) \in Nat /\ Cardinality(Ahead(p)') \in Nat
      <4>1. Ahead(p) \in SUBSET Listed /\ Ahead(p)' \in SUBSET Listed'
        BY DEF Ahead
      <4>2. QED
        BY <3>1, <4>1, FS_Subset, FS_CardinalityType
    <3>4. (page - 1) * PageSize \in Nat
      <4>1. page - 1 \in Nat /\ PageSize \in Nat
        BY ListedFinite, CatalogueAssumption DEF TypeInv, TypeOK
      <4>2. QED
        BY <4>1
    <3>5. QED
      BY <2>1, <3>2, <3>3, <3>4 DEF ReaderInv
  <2>2. QED
    BY <1>2, <2>1 DEF ReaderInv
<1>3. QED
  BY <1>1, <1>2

\* What is due on the page that is asked for is shown.
LEMMA PageIsShown ==
  ASSUME TypeInv, ReaderInv, ListProducts, NEW p \in due \ seen'
  PROVE  page * PageSize <= Cardinality(Ahead(p))
<1>1. p \in Listed /\ p \notin Page(page) /\ p \notin seen /\ reading = "yes"
  BY DEF ListProducts, ReaderInv
<1>2. (page - 1) * PageSize <= Cardinality(Ahead(p))
  BY <1>1 DEF ReaderInv
<1>3. ~(Cardinality(Ahead(p)) < page * PageSize)
  BY <1>1, <1>2 DEF Page, Ahead
<1>4. page * PageSize \in Nat /\ Cardinality(Ahead(p)) \in Nat
  <2>1. page \in Nat /\ PageSize \in Nat
    BY ListedFinite, CatalogueAssumption DEF TypeInv, TypeOK
  <2>2. QED
    BY <1>1, <2>1, AheadIsLess
<1>5. QED
  BY <1>3, <1>4

\* Every step keeps what the reader is owed.
LEMMA ReaderStep == TypeInv /\ TypeInv' /\ ReaderInv /\ [Next]_vars => ReaderInv'
<1> SUFFICES ASSUME TypeInv, TypeInv', ReaderInv, [Next]_vars
             PROVE  ReaderInv'
  OBVIOUS
<1>1. ASSUME active' = active, observations \subseteq observations'
      PROVE  Listed \subseteq Listed'
  BY <1>1 DEF Listed
<1>2. ASSUME NEW p \in Products, NEW s \in Stores, NEW k \in Kinds, NEW at \in Times,
             Insert(p, s, k, at)
      PROVE  ReaderInv'
  BY <1>1, <1>2, ReaderWaits DEF Insert, readerVars
<1>3. ASSUME NEW demo \in BOOLEAN, Seed(demo)
      PROVE  ReaderInv'
  BY <1>1, <1>3, ReaderWaits DEF Seed
<1>4. ASSUME NEW s \in Switchable, Switch(s)
      PROVE  ReaderInv'
  BY <1>4, ReaderWaits DEF Switch
<1>5. ASSUME Open
      PROVE  ReaderInv'
  <2>1. Listed' = Listed /\ due' = Listed /\ page' = 1 /\ reading' = "yes"
    BY <1>5 DEF Open, ReaderInv, Listed
  <2>2. \A p \in Listed : Ahead(p)' = Ahead(p)
    BY <2>1 DEF Ahead
  <2>3. \A p \in Listed : (1 - 1) * PageSize <= Cardinality(Ahead(p))
    BY AheadIsLess, CatalogueAssumption
  <2>4. QED
    BY <2>1, <2>2, <2>3 DEF ReaderInv
<1>6. ASSUME ListProducts
      PROVE  ReaderInv'
  <2>1. Listed' = Listed /\ due' = due /\ \A p : Ahead(p)' = Ahead(p)
    BY <1>6 DEF ListProducts, Listed, Ahead
  <2>2. page \in Nat
    BY ListedFinite DEF TypeInv, TypeOK
  <2>3. CASE page * PageSize < Cardinality(Listed)
    <3>1. page' - 1 = page /\ reading' = "yes"
      BY <1>6, <2>2, <2>3 DEF ListProducts
    <3>2. \A p \in due' \ seen' : (page' - 1) * PageSize <= Cardinality(Ahead(p)')
      BY <1>6, <2>1, <3>1, PageIsShown
    <3>3. QED
      BY <2>1, <3>1, <3>2 DEF ReaderInv
  <2>4. CASE ~(page * PageSize < Cardinality(Listed))
    <3>1. ASSUME NEW p \in due \ seen'
          PROVE  FALSE
      <4>1. page * PageSize <= Cardinality(Ahead(p))
        BY <1>6, PageIsShown
      <4>2. Cardinality(Ahead(p)) < Cardinality(Listed) /\ Cardinality(Ahead(p)) \in Nat
        BY AheadIsLess DEF ReaderInv
      <4>3. page * PageSize \in Nat
        BY <2>2, CatalogueAssumption
      <4>4. QED
        BY <2>4, <4>1, <4>2, <4>3, ListedFinite
    <3>2. reading' = "done"
      BY <1>6, <2>4 DEF ListProducts
    <3>3. QED
      BY <2>1, <3>1, <3>2 DEF ReaderInv
  <2>5. QED
    BY <2>3, <2>4
<1>7. ASSUME UNCHANGED vars
      PROVE  ReaderInv'
  BY <1>7, <1>1, ReaderWaits DEF vars
<1>8. QED
  BY <1>2, <1>3, <1>4, <1>5, <1>6, <1>7 DEF Next

\* A client that reads the list page by page is shown every product that was in
\* it when it began, unless a store was switched, whatever workers insert.
THEOREM ReaderMissesNothing == Spec => []ListingMissesNothing
<1>1. Init => ReaderInv
  BY DEF Init, ReaderInv
<1>2. ReaderInv => ListingMissesNothing
  BY DEF ReaderInv, ListingMissesNothing
<1>3. QED
  BY <1>1, <1>2, TypeInit, TypeStep, ReaderStep, PTL DEF Spec

-----------------------------------------------------------------------------
(* Offers                                                                  *)

\* The last capture of some observations.
Newest(S) == {o \in S : \A x \in S \ {o} : o.at > x.at}

\* A set of observations at distinct instants has one that is newest.
LEMMA NewestIsOne ==
  ASSUME TypeInv, NEW S \in SUBSET observations, S # {}
  PROVE  \E o \in S : Newest(S) = {o} /\ \A x \in S : x.at <= o.at
<1> DEFINE R == {ab \in S \X S : ab[1].at > ab[2].at}
<1>1. IsFiniteSet(S)
  BY FS_Subset DEF TypeInv, ObservationsOK
<1>2. \A a \in S : a.at \in Nat
  BY DEF TypeInv, ObservationsOK, Admitted
<1>3. \A a, b \in S : a.at = b.at => a = b
  BY DEF TypeInv, ObservationsOK
<1>4. \A a, b \in S : <<a, b>> \in R <=> a.at > b.at
  OBVIOUS
<1> HIDE DEF R
<1>5. \A a, b \in S : a # b => <<a, b>> \in R \/ <<b, a>> \in R
  BY <1>2, <1>3, <1>4
<1>6. \A a, b, c \in S : <<a, b>> \in R /\ <<b, c>> \in R => <<a, c>> \in R
  BY <1>2, <1>4
<1>7. PICK o \in S : \A x \in S \ {o} : <<o, x>> \in R
  BY <1>1, <1>5, <1>6, FirstExists
<1>8. \A x \in S \ {o} : o.at > x.at
  BY <1>4, <1>7
<1>9. Newest(S) = {o}
  BY <1>2, <1>8 DEF Newest
<1>10. QED
  BY <1>2, <1>8, <1>9

\* The same, for one of the observations.
LEMMA NewestIs ==
  ASSUME TypeInv, NEW S \in SUBSET observations, NEW o \in S
  PROVE  /\ o \in Newest(S) <=> \A x \in S : x.at <= o.at
         /\ o \in Newest(S) => Newest(S) = {o}
<1>1. PICK n \in S : Newest(S) = {n} /\ \A x \in S : x.at <= n.at
  BY NewestIsOne
<1>2. \A a \in S : a.at \in Nat
  BY DEF TypeInv, ObservationsOK, Admitted
<1>3. \A a, b \in S : a.at = b.at => a = b
  BY DEF TypeInv, ObservationsOK
<1>4. QED
  BY <1>1, <1>2, <1>3

\* The observations of an association are observations.
LEMMA OfIsObserved == \A p, s : Of(p, s) \in SUBSET observations
BY DEF Of

\* The subquery that groups by association finds the last capture.
LEMMA MaxCapturedIs ==
  ASSUME TypeInv, NEW p, NEW s, NEW o \in Of(p, s)
  PROVE  o.at = MaxCaptured(p, s) <=> \A x \in Of(p, s) : x.at <= o.at
<1>1. PICK n \in Of(p, s) : \A x \in Of(p, s) : x.at <= n.at
  BY OfIsObserved, NewestIsOne
<1>2. \A a \in Of(p, s) : a.at \in Nat
  BY OfIsObserved DEF TypeInv, ObservationsOK, Admitted
<1> DEFINE Ats == {x.at : x \in Of(p, s)}
<1>3. n.at \in Ats /\ \A y \in Ats : n.at >= y
  BY <1>1, <1>2
<1>4. Max(Ats) \in Ats /\ \A y \in Ats : Max(Ats) >= y
  BY <1>3 DEF Max
<1>5. Max(Ats) = n.at
  <2>1. \A y \in Ats : y \in Nat
    BY <1>2
  <2> HIDE DEF Ats
  <2>2. Max(Ats) >= n.at /\ n.at >= Max(Ats) /\ Max(Ats) \in Nat /\ n.at \in Nat
    BY <1>3, <1>4, <2>1
  <2>3. QED
    BY <2>2
<1>6. QED
  BY <1>1, <1>2, <1>5 DEF MaxCaptured

\* What the best price is chosen from: the last capture of each association,
\* if it is valid.
LEMMA CurrentOffersAre ==
  ASSUME TypeInv, NEW p
  PROVE  CurrentOffers(p) =
           {o \in observations : o.product = p /\ Valid(o) /\ \A x \in Of(p, o.store) : x.at <= o.at}
<1>1. ASSUME NEW o \in observations, o.product = p
      PROVE  o.at = MaxCaptured(p, o.store) <=> \A x \in Of(p, o.store) : x.at <= o.at
  BY <1>1, MaxCapturedIs DEF Of
<1>2. QED
  BY <1>1 DEF CurrentOffers

\* The rows of the dashboard are the last captures of the associations.
LEMMA SnapshotIs ==
  ASSUME TypeInv
  PROVE  /\ SnapshotRows \in SUBSET observations
         /\ \A o \in observations :
              o \in SnapshotRows <=> \A x \in Of(o.product, o.store) : x.at <= o.at
         /\ \A a, b \in SnapshotRows : a.product = b.product /\ a.store = b.store => a = b
<1>1. ASSUME NEW o \in observations
      PROVE  o \in SnapshotRows <=> \A x \in Of(o.product, o.store) : x.at <= o.at
  <2>1. <<o.product, o.store>> \in Sells /\ o \in Of(o.product, o.store)
    BY DEF TypeInv, ObservationsOK, Admitted, Of
  <2>2. o \in SnapshotRows <=> \E x \in Sells : o \in Newest(Of(x[1], x[2]))
    BY DEF SnapshotRows, FirstBy, Newest
  <2>3. \A x \in Sells : o \in Newest(Of(x[1], x[2])) => x[1] = o.product /\ x[2] = o.store
    BY DEF Newest, Of
  <2>4. o \in SnapshotRows <=> o \in Newest(Of(o.product, o.store))
    BY <2>1, <2>2, <2>3
  <2>5. QED
    BY <2>1, <2>4, OfIsObserved, NewestIs
<1>2. SnapshotRows \in SUBSET observations
  BY DEF SnapshotRows, FirstBy, Of
<1>3. ASSUME NEW a \in SnapshotRows, NEW b \in SnapshotRows, a.product = b.product, a.store = b.store
      PROVE  a = b
  <2>1. a.at <= b.at /\ b.at <= a.at
    BY <1>1, <1>2, <1>3 DEF Of
  <2>2. a.at \in Nat /\ b.at \in Nat
    BY <1>2 DEF TypeInv, ObservationsOK, Admitted
  <2>3. a.at = b.at
    BY <2>1, <2>2
  <2>4. QED
    BY <1>2, <2>3 DEF TypeInv, ObservationsOK
<1>4. QED
  BY <1>1, <1>2, <1>3

\* The dashboard chooses from the same.
LEMMA SameOffers ==
  ASSUME TypeInv, NEW p
  PROVE  ValidOffers(p) = CurrentOffers(p)
<1>1. ValidOffers(p) =
        {o \in observations : o.product = p /\ Valid(o) /\ \A x \in Of(p, o.store) : x.at <= o.at}
  BY SnapshotIs DEF ValidOffers
<1>2. QED
  BY <1>1, CurrentOffersAre

\* A store has one offer of a product, so that counting stores counts offers.
LEMMA OffersCounted ==
  ASSUME TypeInv, NEW p
  PROVE  /\ IsFiniteSet(CurrentOffers(p)) /\ OffersCount(p) = Cardinality(CurrentOffers(p))
         /\ OffersCount(p) \in Nat
<1> DEFINE C == CurrentOffers(p)
           T == {o.store : o \in C}
           f == [o \in C |-> o.store]
<1>1. IsFiniteSet(C)
  <2>1. C \in SUBSET observations
    BY DEF CurrentOffers
  <2>2. QED
    BY <2>1, FS_Subset DEF TypeInv, ObservationsOK
<1>2. \A a, b \in C : a.store = b.store => a = b
  <2>1. \A a, b \in C : a.store = b.store => a.at = b.at /\ a \in observations /\ b \in observations
    BY DEF CurrentOffers
  <2>2. QED
    BY <2>1 DEF TypeInv, ObservationsOK
<1>3. f \in [C -> T] /\ \A a \in C : f[a] = a.store
  OBVIOUS
<1>4. \A t \in T : \E a \in C : f[a] = t
  OBVIOUS
<1> HIDE DEF C, f, T
<1>5. f \in Surjection(C, T)
  BY <1>3, <1>4 DEF Surjection
<1>6. f \in Injection(C, T)
  <2>1. \A a, b \in C : f[a] = f[b] => a = b
    BY <1>2, <1>3
  <2>2. QED
    BY <1>3, <2>1 DEF Injection, IsInjective
<1>7. Cardinality(T) = Cardinality(C)
  BY <1>1, <1>5, <1>6, FS_Surjection
<1>8. Cardinality(C) \in Nat
  BY <1>1, FS_CardinalityType
<1>9. QED
  BY <1>1, <1>7, <1>8 DEF OffersCount, C, T

\* If there are offers, one of them is the best: prices, instants and stores
\* leave no tie.
LEMMA BestPriceIs ==
  ASSUME TypeInv, NEW p, CurrentOffers(p) # {}
  PROVE  BestPrice(p) # {}
<1> DEFINE C == CurrentOffers(p)
           R == {ab \in C \X C : Cheaper(ab[1], ab[2])}
<1>1. IsFiniteSet(C)
  BY OffersCounted
<1>2. \A a \in C : a.price \in Nat /\ a.at \in Nat /\ a.store \in Nat
  <2>1. \A a \in C : a \in observations
    BY DEF CurrentOffers
  <2>2. QED
    BY <2>1, CatalogueAssumption DEF TypeInv, ObservationsOK, Admitted, Constrained
<1>3. \A a, b \in C : a.at = b.at => a = b
  BY DEF CurrentOffers, TypeInv, ObservationsOK
<1>4. \A a, b \in C : <<a, b>> \in R <=> Cheaper(a, b)
  OBVIOUS
<1> HIDE DEF C, R
<1>5. \A a, b \in C : a # b => <<a, b>> \in R \/ <<b, a>> \in R
  BY <1>2, <1>3, <1>4 DEF Cheaper
<1>6. \A a, b, c \in C : <<a, b>> \in R /\ <<b, c>> \in R => <<a, c>> \in R
  BY <1>2, <1>4 DEF Cheaper
<1>7. PICK o \in C : \A x \in C \ {o} : <<o, x>> \in R
  BY <1>1, <1>5, <1>6, FirstExists DEF C
<1>8. \A x \in C \ {o} : Cheaper(o, x)
  BY <1>4, <1>7
<1>9. QED
  BY <1>8 DEF BestPrice, FirstBy, C

\* What a best price is.
LEMMA BestOffer ==
  ASSUME TypeInv, NEW p, NEW o \in BestPrice(p)
  PROVE  /\ o \in observations /\ o.product = p /\ Valid(o)
         /\ \A x \in Of(p, o.store) : x.at <= o.at
         /\ \A x \in CurrentOffers(p) : x.price >= o.price
<1>1. o \in CurrentOffers(p) /\ \A x \in CurrentOffers(p) \ {o} : Cheaper(o, x)
  BY DEF BestPrice, FirstBy
<1>2. \A x \in CurrentOffers(p) : x.price \in Nat
  <2>1. \A a \in CurrentOffers(p) : a \in observations
    BY DEF CurrentOffers
  <2>2. QED
    BY <2>1 DEF TypeInv, ObservationsOK, Admitted, Constrained
<1>3. \A x \in CurrentOffers(p) : x.price >= o.price
  BY <1>1, <1>2 DEF Cheaper
<1>4. QED
  BY <1>1, <1>3, CurrentOffersAre

\* The detail of a product shows the last capture of each of its stores.
LEMMA DetailIs ==
  ASSUME NEW p
  PROVE  /\ DOMAIN Detail(p).stores = {s \in Stores : <<p, s>> \in Sells}
         /\ \A s \in DOMAIN Detail(p).stores :
              /\ Detail(p).stores[s].latest_price = Newest(Of(p, s))
              /\ Detail(p).stores[s].is_store_active <=> s \in active
BY DEF Detail, FirstBy, Newest

\* A product's best price in each view.
LEMMA BestPriceAgrees ==
  ASSUME TypeInv, NEW p \in Products, NEW o \in BestPrice(p)
  PROVE  /\ p \in Listed
         /\ \A x \in Of(p, o.store) : x.at <= o.at
         /\ Detail(p).stores[o.store].latest_price = {o}
         /\ \A x \in LatestPrice(p) : x.at >= o.at
         /\ \A s \in DOMAIN Detail(p).stores : Detail(p).stores[s].is_store_active =>
              \A x \in Detail(p).stores[s].latest_price :
                x.availability = "in_stock" /\ x.currency = "PEN" => x.price >= o.price
<1>1. /\ o \in observations /\ o.product = p /\ Valid(o)
      /\ \A x \in Of(p, o.store) : x.at <= o.at
      /\ \A x \in CurrentOffers(p) : x.price >= o.price
  BY BestOffer
<1>2. p \in Listed
  BY <1>1 DEF Listed, Valid
<1>3. Detail(p).stores[o.store].latest_price = {o}
  <2>1. o.store \in Stores /\ <<p, o.store>> \in Sells /\ o \in Of(p, o.store)
    BY <1>1 DEF TypeInv, ObservationsOK, Admitted, Of
  <2>2. Newest(Of(p, o.store)) = {o}
    BY <1>1, <2>1, OfIsObserved, NewestIs
  <2>3. QED
    BY <2>1, <2>2, DetailIs
<1>4. \A x \in LatestPrice(p) : x.at >= o.at
  <2> DEFINE V == {x \in observations : x.product = p /\ Valid(x)}
  <2>1. LatestPrice(p) = Newest(V)
    BY DEF LatestPrice, FirstBy, Newest
  <2>2. V \in SUBSET observations /\ o \in V
    BY <1>1
  <2>3. PICK n \in V : Newest(V) = {n} /\ \A x \in V : x.at <= n.at
    BY <2>2, NewestIsOne
  <2>4. n.at \in Nat /\ o.at \in Nat /\ o.at <= n.at
    BY <2>2, <2>3 DEF TypeInv, ObservationsOK, Admitted
  <2>5. QED
    BY <2>1, <2>3, <2>4
<1>5. ASSUME NEW s \in DOMAIN Detail(p).stores, Detail(p).stores[s].is_store_active,
             NEW x \in Detail(p).stores[s].latest_price,
             x.availability = "in_stock", x.currency = "PEN"
      PROVE  x.price >= o.price
  <2>1. s \in active /\ x \in Newest(Of(p, s))
    BY <1>5, DetailIs
  <2>2. x \in observations /\ x.product = p /\ x.store = s /\ \A y \in Of(p, s) : y.at <= x.at
    BY <2>1, OfIsObserved, NewestIs DEF Newest, Of
  <2>3. x.price > 0
    <3>1. Constrained(x)
      BY <2>2 DEF TypeInv, ObservationsOK, Admitted
    <3>2. x.price \in Nat /\ x.price # 0
      BY <1>5, <3>1 DEF Constrained
    <3>3. QED
      BY <3>2
  <2>4. x \in CurrentOffers(p)
    BY <1>5, <2>1, <2>2, <2>3, CurrentOffersAre DEF Valid
  <2>5. QED
    BY <1>1, <2>4
<1>6. QED
  BY <1>1, <1>2, <1>3, <1>4, <1>5

\* The list, the detail and the dashboard compute their offers in four ways and
\* show the same ones, whatever was observed in whatever order of capture.
THEOREM OffersAgree == Spec => []ViewsAgree
<1>1. ASSUME TypeInv
      PROVE  ViewsAgree
  <2>1. ASSUME NEW p \in Products
        PROVE  /\ BestPrice(p) = FirstBy(ValidOffers(p), Cheaper)
               /\ OffersCount(p) = Cardinality(ValidOffers(p))
               /\ BestPrice(p) # {} <=> OffersCount(p) > 0
               /\ OffersCount(p) >= 2 <=> p \in Comparable
    <3>1. BestPrice(p) = FirstBy(ValidOffers(p), Cheaper)
      BY <1>1, SameOffers DEF BestPrice
    <3>2. OffersCount(p) = Cardinality(ValidOffers(p)) /\ OffersCount(p) \in Nat
      BY <1>1, SameOffers, OffersCounted
    <3>3. CurrentOffers(p) = {} <=> OffersCount(p) = 0
      BY <1>1, OffersCounted, FS_EmptySet
    <3>4. BestPrice(p) # {} <=> CurrentOffers(p) # {}
      BY <1>1, BestPriceIs DEF BestPrice, FirstBy
    <3>5. QED
      BY <3>1, <3>2, <3>3, <3>4 DEF Comparable
  <2>2. ASSUME NEW p \in Products
        PROVE  /\ Item(p).best_price = BestPrice(p) /\ Item(p).latest_price = LatestPrice(p)
               /\ Item(p).active_offers_count = OffersCount(p)
               /\ Item(p).has_multiple_offers <=> OffersCount(p) >= 2
    BY DEF Item
  <2>3. ASSUME NEW p \in Products
        PROVE  LET item == Item(p)
                   detail == Detail(p)
                   best == item.best_price
               IN /\ best = FirstBy(ValidOffers(p), Cheaper)
                  /\ item.active_offers_count = Cardinality(ValidOffers(p))
                  /\ (best # {}) <=> (item.active_offers_count > 0)
                  /\ item.has_multiple_offers <=> p \in Comparable
                  /\ best # {} => p \in Listed
    BY <1>1, <2>1, <2>2, BestPriceAgrees
  <2>4. ASSUME NEW p \in Products, NEW o \in Item(p).best_price
        PROVE  /\ \A x \in Of(p, o.store) : x.at <= o.at
               /\ Detail(p).stores[o.store].latest_price = {o}
               /\ \A x \in Item(p).latest_price : x.at >= o.at
               /\ \A s \in DOMAIN Detail(p).stores : Detail(p).stores[s].is_store_active =>
                    \A x \in Detail(p).stores[s].latest_price :
                      x.availability = "in_stock" /\ x.currency = "PEN" => x.price >= o.price
    BY <1>1, <2>2, BestPriceAgrees
  <2>5. QED
    BY <2>3, <2>4 DEF ViewsAgree
<1>2. QED
  BY <1>1, TypeInit, TypeStep, PTL DEF Spec

-----------------------------------------------------------------------------
(* History and trend                                                       *)

\* The points of a series end with its last capture.
LEMMA LastInOrder ==
  ASSUME TypeInv, NEW S \in SUBSET observations, NEW o \in S, \A x \in S : x.at <= o.at
  PROVE  Last(InOrder(S)) = o
<1> DEFINE n == Cardinality(S)
           f == InOrder(S)
           R == {ab \in S \X S : ab[1].at < ab[2].at}
<1>1. IsFiniteSet(S) /\ n \in Nat /\ n # 0
  BY FS_Subset, FS_CardinalityType, FS_EmptySet DEF TypeInv, ObservationsOK
<1>2. \A x \in S : x.at \in Nat
  BY DEF TypeInv, ObservationsOK, Admitted
<1>3. \A a, b \in S : a # b => a.at # b.at
  BY DEF TypeInv, ObservationsOK
<1>4. \A a, b \in S : <<a, b>> \in R <=> a.at < b.at
  OBVIOUS
<1> HIDE DEF R
<1>5. /\ \A a \in S : <<a, a>> \notin R
      /\ \A a, b \in S : a # b => <<a, b>> \in R \/ <<b, a>> \in R
      /\ \A a, b, c \in S : <<a, b>> \in R /\ <<b, c>> \in R => <<a, c>> \in R
  BY <1>2, <1>3, <1>4
<1>6. f \in [1..n -> S] /\ \A i, j \in 1..n : i < j => f[i].at < f[j].at
  <2>1. PICK h : Lists(h, n, S, R)
    BY <1>1, <1>5, OrderExists
  <2>2. h \in [1..n -> S] /\ \A i, j \in 1..n : i < j => h[i].at < h[j].at
    BY <1>4, <2>1 DEF Lists
  <2>3. QED
    BY <2>2 DEF InOrder, OrderedBy
<1> HIDE DEF f
<1>7. Lists(f, n, S, R)
  BY <1>4, <1>6 DEF Lists
<1>8. PICK k \in 1..n : f[k] = o
  BY <1>1, <1>5, <1>7, OrderCovers
<1>9. k = n
  <2>1. f[n] \in S /\ f[n].at <= o.at /\ n \in 1..n
    BY <1>1, <1>6
  <2>2. k < n => o.at < f[n].at
    BY <1>6, <1>8, <2>1
  <2>3. QED
    BY <1>1, <1>2, <2>1, <2>2
<1>10. Len(f) = n
  BY <1>1, <1>6
<1>11. QED
  BY <1>8, <1>9, <1>10 DEF Last, f

\* The prices of a point are bounded by its least and its greatest.
LEMMA TrendBounds ==
  ASSUME TypeInv, NEW o \in DailyLatest
  PROVE  TrendPoint(Day(o)).min_price <= o.price /\ o.price <= TrendPoint(Day(o)).max_price
<1> DEFINE S == {x \in DailyLatest : Day(x) = Day(o)}
           Prices == {x.price : x \in S}
           R == {ab \in S \X S : ab[1].price <= ab[2].price}
           Q == {ab \in S \X S : ab[1].price >= ab[2].price}
<1>1. S \in SUBSET observations /\ o \in S
  BY DEF DailyLatest
<1>2. IsFiniteSet(S) /\ \A x \in S : x.price \in Nat
  BY <1>1, FS_Subset DEF TypeInv, ObservationsOK, Admitted, Constrained
<1>3. \A a, b \in S : /\ <<a, b>> \in R <=> a.price <= b.price
                      /\ <<a, b>> \in Q <=> a.price >= b.price
  OBVIOUS
<1>4. \A x \in S : x.price \in Prices
  OBVIOUS
<1>5. \A y \in Prices : y \in Nat /\ \E x \in S : y = x.price
  BY <1>2
<1>6. TrendPoint(Day(o)).min_price = Min(Prices) /\ TrendPoint(Day(o)).max_price = Max(Prices)
  BY DEF TrendPoint
<1> HIDE DEF S, Prices, R, Q
<1>7. PICK l \in S : \A x \in S : l.price <= x.price
  <2>1. \A a, b \in S : a # b => <<a, b>> \in R \/ <<b, a>> \in R
    BY <1>2, <1>3
  <2>2. \A a, b, c \in S : <<a, b>> \in R /\ <<b, c>> \in R => <<a, c>> \in R
    BY <1>2, <1>3
  <2>3. IsFiniteSet(S) /\ S # {}
    BY <1>1, <1>2
  <2>4. PICK l \in S : \A x \in S \ {l} : <<l, x>> \in R
    BY <2>1, <2>2, <2>3, FirstExists
  <2>5. ASSUME NEW x \in S
        PROVE  l.price <= x.price
    <3>1. CASE x = l
      BY <1>2, <3>1
    <3>2. CASE x # l
      BY <1>3, <2>4, <3>2
    <3>3. QED
      BY <3>1, <3>2
  <2>6. QED
    BY <2>5
<1>8. PICK h \in S : \A x \in S : h.price >= x.price
  <2>1. \A a, b \in S : a # b => <<a, b>> \in Q \/ <<b, a>> \in Q
    BY <1>2, <1>3
  <2>2. \A a, b, c \in S : <<a, b>> \in Q /\ <<b, c>> \in Q => <<a, c>> \in Q
    BY <1>2, <1>3
  <2>3. IsFiniteSet(S) /\ S # {}
    BY <1>1, <1>2
  <2>4. PICK h \in S : \A x \in S \ {h} : <<h, x>> \in Q
    BY <2>1, <2>2, <2>3, FirstExists
  <2>5. ASSUME NEW x \in S
        PROVE  h.price >= x.price
    <3>1. CASE x = h
      BY <1>2, <3>1
    <3>2. CASE x # h
      BY <1>3, <2>4, <3>2
    <3>3. QED
      BY <3>1, <3>2
  <2>6. QED
    BY <2>5
<1>9. (\A y \in Prices : l.price <= y) /\ (\A y \in Prices : h.price >= y)
  BY <1>5, <1>7, <1>8
<1>10. (\A y \in Prices : Min(Prices) <= y) /\ (\A y \in Prices : Max(Prices) >= y)
  BY <1>4, <1>9 DEF Min, Max
<1>11. Min(Prices) <= o.price /\ Max(Prices) >= o.price
  BY <1>1, <1>4, <1>10
<1>12. Max(Prices) \in Nat
  BY <1>4, <1>5, <1>9 DEF Max
<1>13. QED
  BY <1>1, <1>2, <1>6, <1>11, <1>12

\* A point has as many associations as products, or more.
LEMMA TrendCounts ==
  ASSUME TypeInv, NEW day
  PROVE  TrendPoint(day).associations_count >= TrendPoint(day).products_count
<1> DEFINE S == {x \in DailyLatest : Day(x) = day}
           A == {<<x.product, x.store>> : x \in S}
           B == {x.product : x \in S}
           f == [x \in S |-> <<x.product, x.store>>]
           g == [a \in A |-> a[1]]
<1>1. IsFiniteSet(S)
  <2>1. S \in SUBSET observations
    BY DEF DailyLatest
  <2>2. QED
    BY <2>1, FS_Subset DEF TypeInv, ObservationsOK
<1>2. f \in Surjection(S, A)
  BY DEF Surjection
<1>3. g \in Surjection(A, B)
  <2>1. \A x \in S : <<x.product, x.store>> \in A /\ g[<<x.product, x.store>>] = x.product
    OBVIOUS
  <2>2. g \in [A -> B]
    OBVIOUS
  <2>3. \A b \in B : \E a \in A : g[a] = b
    BY <2>1
  <2>4. QED
    BY <2>2, <2>3 DEF Surjection
<1>4. TrendPoint(day).associations_count = Cardinality(A) /\ TrendPoint(day).products_count = Cardinality(B)
  BY DEF TrendPoint
<1> HIDE DEF S, A, B, f, g
<1>5. IsFiniteSet(A)
  BY <1>1, <1>2, FS_Surjection
<1>6. IsFiniteSet(B) /\ Cardinality(B) <= Cardinality(A)
  BY <1>3, <1>5, FS_Surjection
<1>7. QED
  BY <1>4, <1>5, <1>6, FS_CardinalityType

\* What is offered now ends the history of its store and lies in the trend of
\* the day it was captured, although each view takes its own observations.
THEOREM OffersEndHistory == Spec => []OffersAreInHistory
<1>1. ASSUME TypeInv
      PROVE  OffersAreInHistory
  <2> SUFFICES ASSUME NEW p \in Products, NEW o \in CurrentOffers(p)
               PROVE  /\ Last(History(p)[o.store]) = o
                      /\ TrendPoint(Day(o)).min_price <= o.price
                      /\ o.price <= TrendPoint(Day(o)).max_price
                      /\ TrendPoint(Day(o)).associations_count >= TrendPoint(Day(o)).products_count
    BY DEF OffersAreInHistory
  <2>1. o \in observations /\ o.product = p /\ Valid(o) /\ \A x \in Of(p, o.store) : x.at <= o.at
    BY <1>1, CurrentOffersAre
  <2> DEFINE S == {x \in Of(p, o.store) : Valid(x)}
  <2>2. S \in SUBSET observations /\ o \in S /\ \A x \in S : x.at <= o.at
    BY <2>1 DEF Of
  <2>3. History(p)[o.store] = InOrder(S)
    BY <1>1, <2>1 DEF History, Valid, TypeInv, ObservationsOK, Admitted
  <2>4. o \in DailyLatest
    BY <2>1 DEF DailyLatest
  <2> HIDE DEF S
  <2>5. QED
    BY <1>1, <2>2, <2>3, <2>4, LastInOrder, TrendBounds, TrendCounts
<1>2. QED
  BY <1>1, TypeInit, TypeStep, PTL DEF Spec

-----------------------------------------------------------------------------
(* The breakdowns of the dashboard                                         *)

\* The observations with the best price of a product.
BestOnes == UNION {FirstBy(ValidOffers(p), Cheaper) : p \in WithOffer}

\* Counts of best prices are counts, for finitely many stores.
LEMMA BestCountsAre ==
  ASSUME TypeInv
  PROVE  /\ DOMAIN BestCounts = active /\ IsFiniteSet(active) /\ active \subseteq Int
         /\ BestOnes \in SUBSET observations /\ IsFiniteSet(BestOnes)
         /\ \A s \in active : /\ BestCounts[s] = Cardinality({o \in BestOnes : o.store = s})
                              /\ BestCounts[s] \in Nat
<1>1. /\ DOMAIN BestCounts = active
      /\ \A s \in active : BestCounts[s] = Cardinality({o \in BestOnes : o.store = s})
  BY DEF BestCounts, BestOnes
<1>2. active \in SUBSET Stores /\ Stores \subseteq Nat /\ IsFiniteSet(Stores)
  BY CatalogueAssumption DEF TypeInv, TypeOK
<1>3. IsFiniteSet(active) /\ active \subseteq Int
  <2>1. IsFiniteSet(active)
    BY <1>2, FS_Subset
  <2>2. QED
    BY <1>2, <2>1
<1>4. BestOnes \in SUBSET observations
  <2>1. \A p : FirstBy(ValidOffers(p), Cheaper) \subseteq observations
    BY SnapshotIs DEF FirstBy, ValidOffers
  <2>2. QED
    BY <2>1 DEF BestOnes
<1>5. IsFiniteSet(BestOnes)
  BY <1>4, FS_Subset DEF TypeInv, ObservationsOK
<1>6. \A s : {o \in BestOnes : o.store = s} \in SUBSET BestOnes
  OBVIOUS
<1>7. QED
  BY <1>1, <1>3, <1>4, <1>5, <1>6, FS_Subset, FS_CardinalityType

\* The associations that are not observed are not fewer than none: an
\* association has one row, which is not both in stock and out of stock.
LEMMA AvailabilityCountsAre ==
  ASSUME TypeInv, NEW s
  PROVE  /\ DOMAIN AvailabilityCounts(s) = 1..3
         /\ \A k \in 1..3 : AvailabilityCounts(s)[k] \in Nat
<1> DEFINE R == RowsOf(s)
           A == {o \in R : o.availability = "in_stock" /\ o.price > 0}
           B == {o \in R : o.availability = "out_of_stock"}
           X == {x \in Sells : x[2] = s}
           f == [o \in R |-> <<o.product, o.store>>]
<1>1. AvailabilityCounts(s) =
        <<Cardinality(A), Cardinality(B), Cardinality(X) - Cardinality(A) - Cardinality(B)>>
  BY DEF AvailabilityCounts
<1>2. IsFiniteSet(R)
  <2>1. R \in SUBSET observations
    BY SnapshotIs DEF RowsOf
  <2>2. QED
    BY <2>1, FS_Subset DEF TypeInv, ObservationsOK
<1>3. IsFiniteSet(X)
  <2>1. IsFiniteSet(Products \X Stores) /\ X \in SUBSET (Products \X Stores)
    BY CatalogueAssumption, FS_Product
  <2>2. QED
    BY <2>1, FS_Subset
<1>4. f \in Injection(R, X)
  <2>1. \A o \in R : o \in SnapshotRows /\ o.store = s /\ <<o.product, o.store>> \in Sells
    BY SnapshotIs DEF RowsOf, TypeInv, ObservationsOK, Admitted
  <2>2. f \in [R -> X]
    BY <2>1
  <2>3. \A a, b \in R : f[a] = f[b] => a = b
    BY <2>1, SnapshotIs
  <2>4. QED
    BY <2>2, <2>3 DEF Injection, IsInjective
<1>5. A \in SUBSET R /\ B \in SUBSET R /\ A \cap B = {} /\ A \cup B \in SUBSET R
  OBVIOUS
<1> HIDE DEF R, A, B, X, f
<1>6. Cardinality(R) <= Cardinality(X)
  BY <1>3, <1>4, FS_Injection
<1>7. /\ IsFiniteSet(A) /\ IsFiniteSet(B) /\ IsFiniteSet(A \cup B)
      /\ Cardinality(A \cup B) <= Cardinality(R)
  BY <1>2, <1>5, FS_Subset
<1>8. Cardinality(A \cup B) = Cardinality(A) + Cardinality(B)
  <2>1. Cardinality(A \cup B) = Cardinality(A) + Cardinality(B) - Cardinality(A \cap B)
    BY <1>7, FS_Union
  <2>2. Cardinality(A \cap B) = 0
    BY <1>5, FS_EmptySet
  <2>3. Cardinality(A) \in Nat /\ Cardinality(B) \in Nat
    BY <1>7, FS_CardinalityType
  <2>4. QED
    BY <2>1, <2>2, <2>3
<1>9. /\ Cardinality(A) \in Nat /\ Cardinality(B) \in Nat
      /\ Cardinality(R) \in Nat /\ Cardinality(X) \in Nat
  BY <1>2, <1>3, <1>7, FS_CardinalityType
<1>10. Cardinality(X) - Cardinality(A) - Cardinality(B) \in Nat
  BY <1>6, <1>7, <1>8, <1>9
<1>11. QED
  BY <1>1, <1>9, <1>10

\* The percentages of the breakdowns add up to 100.00 and none is off by a
\* hundredth, whatever stores there are and whatever was observed.
THEOREM SharesAlwaysAddUp == Spec => []SharesAddUp
<1>1. ASSUME TypeInv
      PROVE  SharesAddUp
  <2>1. AddUp(BestPriceShares, BestCounts)
    BY <1>1, BestCountsAre, BreakdownAddsUp DEF BestPriceShares
  <2>2. ASSUME NEW s \in Stores
        PROVE  AddUp(AvailabilityShares(s), AvailabilityCounts(s))
    <3> DEFINE counts == AvailabilityCounts(s)
    <3>1. DOMAIN counts = 1..3 /\ \A k \in 1..3 : counts[k] \in Nat
      BY <1>1, AvailabilityCountsAre
    <3>2. IsFiniteSet(1..3) /\ \A k \in 1..3 : k \in Int
      <4>0. 1 \in Int /\ 3 \in Int
        OBVIOUS
      <4>1. IsFiniteSet(1..3)
        BY <4>0, FS_Interval, Zenon
      <4>2. \A k \in 1..3 : k \in Int
        OBVIOUS
      <4>3. QED
        BY <4>1, <4>2
    <3> HIDE DEF counts
    <3>3. AddUp(DistributePercentages(counts), counts)
      BY <3>1, <3>2, BreakdownAddsUp
    <3>4. QED
      BY <3>3 DEF counts, AvailabilityShares
  <2>3. QED
    BY <2>1, <2>2 DEF SharesAddUp
<1>2. QED
  BY <1>1, TypeInit, TypeStep, PTL DEF Spec

-----------------------------------------------------------------------------
(* The parts of the dashboard                                              *)

\* The offers of a product, with what they are compared by.
LEMMA OffersTyped ==
  ASSUME TypeInv, NEW p
  PROVE  /\ IsFiniteSet(ValidOffers(p)) /\ Cardinality(ValidOffers(p)) \in Nat
         /\ \A o \in ValidOffers(p) :
              /\ o \in observations /\ o.product = p /\ o.store \in active
              /\ o.price \in Nat /\ o.price > 0 /\ o.at \in Nat /\ o.store \in Nat
         /\ \A a, b \in ValidOffers(p) : a.at = b.at => a = b
<1>1. IsFiniteSet(ValidOffers(p)) /\ Cardinality(ValidOffers(p)) \in Nat
  BY SameOffers, OffersCounted, FS_CardinalityType
<1>2. \A o \in ValidOffers(p) : o \in observations /\ o.product = p /\ Valid(o)
  BY SnapshotIs DEF ValidOffers
<1>3. \A o \in observations :
        o.price \in Nat /\ o.at \in Nat /\ o.store \in Nat
  BY CatalogueAssumption DEF TypeInv, ObservationsOK, Admitted, Constrained
<1>4. \A a, b \in observations : a.at = b.at => a = b
  BY DEF TypeInv, ObservationsOK
<1>5. QED
  BY <1>1, <1>2, <1>3, <1>4 DEF Valid

\* A product with offers has one that is best.
LEMMA BestIsOne ==
  ASSUME TypeInv, NEW p, ValidOffers(p) # {}
  PROVE  \E o \in ValidOffers(p) : FirstBy(ValidOffers(p), Cheaper) = {o}
<1>1. PICK o \in ValidOffers(p) : \A x \in ValidOffers(p) \ {o} : Cheaper(o, x)
  BY SameOffers, BestPriceIs DEF BestPrice, FirstBy
<1>2. o \in ValidOffers(p)
  OBVIOUS
<1>3. ASSUME NEW x \in ValidOffers(p) \ {o}
      PROVE  ~Cheaper(x, o)
  <2>1. Cheaper(o, x) /\ x \in ValidOffers(p)
    BY <1>1
  <2>2. /\ x.price \in Nat /\ x.at \in Nat /\ x.store \in Nat
        /\ o.price \in Nat /\ o.at \in Nat /\ o.store \in Nat
    BY <2>1, OffersTyped
  <2>3. QED
    BY <2>1, <2>2 DEF Cheaper
<1>4. FirstBy(ValidOffers(p), Cheaper) = {o}
  BY <1>1, <1>2, <1>3 DEF FirstBy
<1>5. QED
  BY <1>2, <1>4

\* And one that is worst.
LEMMA WorstExists ==
  ASSUME TypeInv, NEW p, ValidOffers(p) # {}
  PROVE  FirstBy(ValidOffers(p), Dearer) # {}
<1> DEFINE C == ValidOffers(p)
           R == {ab \in C \X C : Dearer(ab[1], ab[2])}
<1>1. IsFiniteSet(C)
  BY OffersTyped
<1>2. \A a \in C : a.price \in Nat /\ a.at \in Nat /\ a.store \in Nat
  BY OffersTyped
<1>3. \A a, b \in C : a.at = b.at => a = b
  BY OffersTyped
<1>4. \A a, b \in C : <<a, b>> \in R <=> Dearer(a, b)
  OBVIOUS
<1>5. C # {}
  OBVIOUS
<1> HIDE DEF C, R
<1>6. \A a, b \in C : a # b => <<a, b>> \in R \/ <<b, a>> \in R
  BY <1>2, <1>3, <1>4 DEF Dearer
<1>7. \A a, b, c \in C : <<a, b>> \in R /\ <<b, c>> \in R => <<a, c>> \in R
  BY <1>2, <1>4 DEF Dearer
<1>8. PICK o \in C : \A x \in C \ {o} : <<o, x>> \in R
  BY <1>1, <1>5, <1>6, <1>7, FirstExists
<1>9. \A x \in C \ {o} : Dearer(o, x)
  BY <1>4, <1>8
<1>10. QED
  BY <1>9 DEF FirstBy, C

\* The savings of the products that can be compared.
Spread == {Savings(p) : p \in Comparable}

\* Savings are integers, one for each product that can be compared.
LEMMA SpreadIs ==
  ASSUME TypeInv
  PROVE  /\ \A x \in Spread : /\ x.product \in Comparable /\ x = Savings(x.product)
                              /\ x.amount \in Int /\ x.percentage \in Int
         /\ IsFiniteSet(Spread) /\ Cardinality(Spread) = Cardinality(Comparable)
         /\ Cardinality(Spread) \in Nat
         /\ Comparable \subseteq Products
<1>1. ASSUME NEW p \in Comparable
      PROVE  Savings(p).product = p /\ Savings(p).amount \in Int /\ Savings(p).percentage \in Int
  <2> DEFINE best == CHOOSE o \in FirstBy(ValidOffers(p), Cheaper) : TRUE
             worst == CHOOSE o \in FirstBy(ValidOffers(p), Dearer) : TRUE
             diff == worst.price - best.price
  <2>1. ValidOffers(p) # {}
    BY FS_EmptySet DEF Comparable
  <2>2. best \in ValidOffers(p)
    BY <2>1, BestIsOne
  <2>3. worst \in ValidOffers(p)
    <3>1. worst \in FirstBy(ValidOffers(p), Dearer)
      BY <2>1, WorstExists
    <3>2. QED
      BY <3>1 DEF FirstBy
  <2>4. diff \in Int /\ worst.price \in Int /\ worst.price > 0
    BY <2>2, <2>3, OffersTyped
  <2>5. Savings(p) = [product |-> p, amount |-> diff, percentage |-> RoundedRatio(diff, worst.price)]
    BY DEF Savings
  <2> HIDE DEF best, worst, diff
  <2>6. RoundedRatio(diff, worst.price) \in Int
    BY <2>4, DivMod DEF RoundedRatio, Hundred
  <2>7. QED
    BY <2>4, <2>5, <2>6
<1>2. Comparable \in SUBSET Products
  BY DEF Comparable
<1>3. IsFiniteSet(Comparable)
  BY <1>2, FS_Subset, CatalogueAssumption
<1> DEFINE f == [p \in Comparable |-> Savings(p)]
<1>4. f \in [Comparable -> Spread] /\ \A p \in Comparable : f[p] = Savings(p)
  BY DEF Spread
<1>5. \A x \in Spread : \E p \in Comparable : f[p] = x
  BY DEF Spread
<1>6. \A x \in Spread : /\ x.product \in Comparable /\ x = Savings(x.product)
                       /\ x.amount \in Int /\ x.percentage \in Int
  BY <1>1 DEF Spread
<1> HIDE DEF f
<1>7. f \in Surjection(Comparable, Spread)
  BY <1>4, <1>5 DEF Surjection
<1>8. f \in Injection(Comparable, Spread)
  <2>1. \A a, b \in Comparable : f[a] = f[b] => a = b
    BY <1>1, <1>4
  <2>2. QED
    BY <1>4, <2>1 DEF Injection, IsInjective
<1>9. IsFiniteSet(Spread) /\ Cardinality(Spread) = Cardinality(Comparable)
  BY <1>3, <1>7, <1>8, FS_Surjection
<1>10. QED
  BY <1>2, <1>6, <1>9, FS_CardinalityType

\* The ranking has every product that can be compared and begins with the
\* greatest savings.
LEMMA SpreadRanked ==
  ASSUME TypeInv
  PROVE  /\ Len(PriceSpread) = Cardinality(Comparable)
         /\ PriceSpread = <<>> <=> Spread = {}
         /\ Spread # {} => /\ PriceSpread[1] \in Spread
                           /\ \A x \in Spread : x.amount <= PriceSpread[1].amount
<1> DEFINE S == Spread
           n == Cardinality(S)
           f == PriceSpread
           R == {ab \in S \X S : MoreSavings(ab[1], ab[2])}
<1>1. /\ IsFiniteSet(S) /\ n \in Nat /\ n = Cardinality(Comparable)
      /\ \A a \in S : a.amount \in Int /\ a.percentage \in Int /\ a.product \in Nat
      /\ \A a, b \in S : a.product = b.product => a = b
  BY SpreadIs, CatalogueAssumption
<1>2. \A a, b \in S : <<a, b>> \in R <=> MoreSavings(a, b)
  OBVIOUS
<1>3. f = OrderedBy(S, MoreSavings)
  BY DEF PriceSpread, Spread
<1> HIDE DEF S, R, f
<1>4. \A a \in S : <<a, a>> \notin R
  BY <1>1, <1>2 DEF MoreSavings
<1>5. /\ \A a, b \in S : a # b => <<a, b>> \in R \/ <<b, a>> \in R
      /\ \A a, b, c \in S : <<a, b>> \in R /\ <<b, c>> \in R => <<a, c>> \in R
  BY <1>1, <1>2 DEF MoreSavings
<1>6. f \in [1..n -> S] /\ \A i, j \in 1..n : i < j => MoreSavings(f[i], f[j])
  <2>1. PICK h : Lists(h, n, S, R)
    BY <1>1, <1>5, OrderExists
  <2>2. h \in [1..n -> S] /\ \A i, j \in 1..n : i < j => MoreSavings(h[i], h[j])
    BY <1>2, <2>1 DEF Lists
  <2>3. QED
    BY <1>3, <2>2 DEF OrderedBy
<1>7. Lists(f, n, S, R)
  BY <1>2, <1>6 DEF Lists
<1>8. \A x \in S : \E k \in 1..n : f[k] = x
  BY <1>1, <1>4, <1>7, OrderCovers
<1>9. Len(f) = n /\ f \in Seq(S)
  <2> HIDE DEF n
  <2>1. QED
    BY <1>1, <1>6
<1>10. S = {} <=> n = 0
  BY <1>1, FS_EmptySet
<1>11. f = <<>> <=> S = {}
  <2> HIDE DEF n
  <2>1. QED
    BY <1>9, <1>10
<1>12. ASSUME S # {}
       PROVE  f[1] \in S /\ \A x \in S : x.amount <= f[1].amount
  <2>1. 1 \in 1..n
    BY <1>1, <1>10, <1>12
  <2>2. f[1] \in S
    BY <1>6, <2>1
  <2>3. ASSUME NEW x \in S
        PROVE  x.amount <= f[1].amount
    <3>1. PICK k \in 1..n : f[k] = x
      BY <1>8
    <3>2. CASE k = 1
      BY <1>1, <3>1, <3>2
    <3>3. CASE k # 1
      <4>1. 1 < k
        BY <1>1, <3>3
      <4>2. MoreSavings(f[1], x)
        BY <1>6, <2>1, <3>1, <4>1
      <4>3. QED
        BY <1>1, <2>2, <4>2 DEF MoreSavings
    <3>4. QED
      BY <3>2, <3>3
  <2>4. QED
    BY <2>2, <2>3
<1>13. QED
  BY <1>1, <1>9, <1>11, <1>12 DEF S, f

\* The summary shows one of the greatest savings, if there are any.
LEMMA TopSavings ==
  ASSUME TypeInv
  PROVE  /\ FirstBy(Spread, MoreSavingsById) = {} <=> Spread = {}
         /\ \A x \in FirstBy(Spread, MoreSavingsById) :
              x \in Spread /\ \A y \in Spread : y.amount <= x.amount
<1> DEFINE S == Spread
           R == {ab \in S \X S : MoreSavingsById(ab[1], ab[2])}
<1>1. /\ IsFiniteSet(S)
      /\ \A a \in S : a.amount \in Int /\ a.percentage \in Int /\ ProductId[a.product] \in Nat
      /\ \A a, b \in S : a # b => ProductId[a.product] # ProductId[b.product]
  <2>1. \A a, b \in Products : ProductId[a] = ProductId[b] => a = b
    BY CatalogueAssumption DEF IsInjective
  <2>2. QED
    BY <2>1, SpreadIs, CatalogueAssumption
<1>2. \A a, b \in S : <<a, b>> \in R <=> MoreSavingsById(a, b)
  OBVIOUS
<1> HIDE DEF S, R
<1>3. /\ \A a, b \in S : a # b => <<a, b>> \in R \/ <<b, a>> \in R
      /\ \A a, b, c \in S : <<a, b>> \in R /\ <<b, c>> \in R => <<a, c>> \in R
  BY <1>1, <1>2 DEF MoreSavingsById
<1>4. ASSUME S # {}
      PROVE  FirstBy(S, MoreSavingsById) # {}
  <2>1. PICK o \in S : \A x \in S \ {o} : <<o, x>> \in R
    BY SMTT(30), <1>1, <1>3, <1>4, FirstExists
  <2>2. QED
    BY <1>2, <2>1 DEF FirstBy
<1>5. ASSUME NEW x, x \in FirstBy(S, MoreSavingsById)
      PROVE  x \in S /\ \A y \in S : y.amount <= x.amount
  <2>1. x \in S /\ \A y \in S \ {x} : MoreSavingsById(x, y)
    BY <1>5 DEF FirstBy
  <2>2. ASSUME NEW y \in S
        PROVE  y.amount <= x.amount
    <3>1. x.amount \in Int /\ y.amount \in Int
      BY <1>1, <2>1
    <3>2. y = x \/ MoreSavingsById(x, y)
      BY <2>1
    <3>3. QED
      BY <3>1, <3>2 DEF MoreSavingsById
  <2>3. QED
    BY <2>1, <2>2
<1>6. S = {} => FirstBy(S, MoreSavingsById) = {}
  BY DEF FirstBy
<1>7. QED
  BY <1>4, <1>5, <1>6 DEF S

\* The counts of best prices add up to the products with an offer: each of them
\* has one best offer, at one active store.
LEMMA CountsAddUp ==
  ASSUME TypeInv
  PROVE  /\ Sum(BestCounts, active) = Cardinality(WithOffer)
         /\ Cardinality(WithOffer) \in Nat
<1> DEFINE B == BestOnes
           group == [o \in B |-> o.store]
           name == [o \in B |-> o.product]
<1>1. \A o \in B : o.product \in WithOffer /\ o \in FirstBy(ValidOffers(o.product), Cheaper)
                   /\ o.store \in active
  <2> SUFFICES ASSUME NEW o \in B
               PROVE  o.product \in WithOffer /\ o \in FirstBy(ValidOffers(o.product), Cheaper)
                      /\ o.store \in active
    OBVIOUS
  <2>1. PICK p \in WithOffer : o \in FirstBy(ValidOffers(p), Cheaper)
    BY DEF BestOnes
  <2>2. o \in ValidOffers(p)
    BY <2>1 DEF FirstBy
  <2>3. o.product = p /\ o.store \in active
    BY <2>2, OffersTyped
  <2>4. QED
    BY <2>1, <2>3
<1>2. IsFiniteSet(B) /\ IsFiniteSet(active)
  BY BestCountsAre
<1>3. group \in [B -> active] /\ \A o \in B : group[o] = o.store
  BY <1>1
<1>4. Sum([s \in active |-> Cardinality({o \in B : group[o] = s})], active) = Cardinality(B)
  <2> HIDE DEF B, group
  <2>1. QED
    BY <1>2, <1>3, SumOfGroups
<1>5. BestCounts = [s \in active |-> Cardinality({o \in B : group[o] = s})]
  <2>1. \A s \in active : {o \in B : group[o] = s} = {o \in B : o.store = s}
    BY <1>3
  <2>2. BestCounts = [s \in active |-> Cardinality({o \in B : o.store = s})]
    BY DEF BestCounts, BestOnes
  <2>3. QED
    BY <2>1, <2>2
<1>6. name \in [B -> WithOffer] /\ \A o \in B : name[o] = o.product
  BY <1>1
<1>7. \A a, b \in B : name[a] = name[b] => a = b
  <2>1. ASSUME NEW a \in B, NEW b \in B, a.product = b.product
        PROVE  a = b
    <3>1. /\ a \in FirstBy(ValidOffers(a.product), Cheaper)
          /\ b \in FirstBy(ValidOffers(a.product), Cheaper)
      BY <1>1, <2>1
    <3>2. ValidOffers(a.product) # {}
      BY <3>1 DEF FirstBy
    <3>3. PICK o \in ValidOffers(a.product) : FirstBy(ValidOffers(a.product), Cheaper) = {o}
      BY <3>2, BestIsOne
    <3>4. QED
      BY <3>1, <3>3
  <2>2. QED
    BY <1>6, <2>1
<1>8. \A p \in WithOffer : \E o \in B : name[o] = p
  <2> SUFFICES ASSUME NEW p \in WithOffer
               PROVE  \E o \in B : o.product = p
    BY <1>6
  <2>1. PICK o \in ValidOffers(p) : FirstBy(ValidOffers(p), Cheaper) = {o}
    BY BestIsOne DEF WithOffer
  <2>2. o \in B
    BY <2>1 DEF BestOnes
  <2>3. o.product = p
    BY OffersTyped
  <2>4. QED
    BY <2>2, <2>3
<1> HIDE DEF B, group, name
<1>9. name \in Surjection(B, WithOffer) /\ name \in Injection(B, WithOffer)
  BY <1>6, <1>7, <1>8 DEF Surjection, Injection, IsInjective
<1>10. Cardinality(B) = Cardinality(WithOffer)
  BY <1>2, <1>9, FS_Surjection
<1>11. QED
  BY <1>2, <1>4, <1>5, <1>10, FS_CardinalityType

\* There is a most competitive store as soon as a product has an offer, and no
\* store has more best prices.
LEMMA MostCompetitiveIs ==
  ASSUME TypeInv
  PROVE  /\ MostCompetitive(BestCounts) = {} <=> Cardinality(WithOffer) = 0
         /\ \A m \in MostCompetitive(BestCounts) :
              m \in active /\ \A s \in active : BestCounts[s] <= BestCounts[m]
<1> DEFINE counts == BestCounts
           A == active
           b == Cardinality(BestOnes)
           Beats(s, t) == \/ counts[s] > counts[t]
                          \/ counts[s] = counts[t] /\ StoreInitial[s] <= StoreInitial[t]
           R == {st \in A \X A : Beats(st[1], st[2])}
<1>1. /\ IsFiniteSet(A) /\ b \in Nat
      /\ \A s \in A : counts[s] \in Nat /\ counts[s] <= b /\ StoreInitial[s] \in Nat
  <2>1. IsFiniteSet(A) /\ IsFiniteSet(BestOnes) /\ b \in Nat
    BY BestCountsAre, FS_CardinalityType
  <2>2. ASSUME NEW s \in A
        PROVE  counts[s] \in Nat /\ counts[s] <= b
    <3>1. {o \in BestOnes : o.store = s} \in SUBSET BestOnes
      OBVIOUS
    <3>2. counts[s] \in Nat /\ counts[s] = Cardinality({o \in BestOnes : o.store = s})
      BY BestCountsAre
    <3>3. QED
      BY <2>1, <3>1, <3>2, FS_Subset
  <2>3. A \subseteq Stores
    BY DEF TypeInv, TypeOK
  <2>4. QED
    BY <2>1, <2>2, <2>3, CatalogueAssumption
<1>3. \A s, t \in A : <<s, t>> \in R <=> Beats(s, t)
  <2> HIDE DEF Beats, A
  <2>1. QED
    OBVIOUS
<1>4. \A m : m \in MostCompetitive(counts) <=>
         m \in A /\ counts[m] > 0 /\ \A x \in A \ {m} : Beats(m, x)
  BY DEF MostCompetitive
<1>5. Sum(counts, A) = Cardinality(WithOffer) /\ Cardinality(WithOffer) \in Nat
  BY CountsAddUp
<1> HIDE DEF counts, A, b, R
<1>6. \A m \in MostCompetitive(counts) : m \in A /\ \A s \in A : counts[s] <= counts[m]
  <2> SUFFICES ASSUME NEW m \in MostCompetitive(counts), NEW s \in A
               PROVE  m \in A /\ counts[s] <= counts[m]
    BY <1>4
  <2>1. m \in A
    BY <1>4
  <2>2. s = m \/ counts[m] > counts[s] \/ counts[m] = counts[s]
    BY <1>4
  <2>3. QED
    BY <1>1, <2>1, <2>2
<1>7. \A s \in A : counts[s] <= Sum(counts, A)
  <2>1. \A s \in A : counts[s] \in 0..b
    BY <1>1
  <2>2. QED
    BY <1>1, <2>1, SumBounded
<1>8. ASSUME Cardinality(WithOffer) = 0
      PROVE  MostCompetitive(counts) = {}
  <2>1. \A s \in A : ~(counts[s] > 0)
    BY <1>1, <1>5, <1>7, <1>8
  <2>2. QED
    BY <1>4, <2>1
<1>9. ASSUME Cardinality(WithOffer) # 0
      PROVE  MostCompetitive(counts) # {}
  <2>1. {s \in A : counts[s] > 0} # {}
    <3>1. \A s \in A : counts[s] \in 0..b
      BY <1>1
    <3>2. Sum(counts, A) <= b * Cardinality({s \in A : counts[s] > 0})
      BY <1>1, <3>1, SumBounded
    <3>3. SUFFICES ASSUME {s \in A : counts[s] > 0} = {}
                   PROVE  FALSE
      OBVIOUS
    <3>4. Cardinality({s \in A : counts[s] > 0}) = 0
      BY <3>3, FS_EmptySet
    <3>5. b * 0 = 0
      BY <1>1
    <3>6. QED
      BY <1>5, <1>9, <3>2, <3>4, <3>5
  <2>2. \A s, t \in A : s # t => <<s, t>> \in R \/ <<t, s>> \in R
    BY <1>1, <1>3
  <2>3. \A s, t, u \in A : <<s, t>> \in R /\ <<t, u>> \in R => <<s, u>> \in R
    BY <1>1, <1>3
  <2>4. PICK m \in A : \A x \in A \ {m} : <<m, x>> \in R
    BY <1>1, <2>1, <2>2, <2>3, FirstExists
  <2>5. PICK s \in A : counts[s] > 0
    BY <2>1
  <2>6. \A x \in A \ {m} : Beats(m, x)
    BY <1>3, <2>4
  <2>7. counts[m] > 0
    <3>1. s = m \/ counts[m] > counts[s] \/ counts[m] = counts[s]
      BY <2>6
    <3>2. QED
      BY <1>1, <2>5, <3>1
  <2>8. QED
    BY <1>4, <2>6, <2>7
<1>10. QED
  BY <1>6, <1>8, <1>9 DEF counts, A

\* A percentage that is rounded on its own is at most a hundredth from one that
\* is off by less than a hundredth.
LEMMA RoundedIsClose ==
  ASSUME NEW n \in Nat, NEW total \in Nat, total > 0, NEW share \in Int,
         (share - 1) * total < Hundred * n, Hundred * n < (share + 1) * total
  PROVE  RoundedRatio(n, total) - share \in -1..1
<1> DEFINE h == Hundred * n
           a == 2 * Hundred * n + total
           d == 2 * total
           r == a \div d
           p == Prod(total, share)
           q == Prod(total, r)
<1>1. h \in Nat /\ a = 2 * h + total /\ a \in Int /\ d \in Int /\ d > 0
  BY DEF Hundred
<1>2. RoundedRatio(n, total) = r
  BY DEF RoundedRatio
<1>3. r \in Int /\ a % d \in 0..(d - 1) /\ a = d * r + (a % d)
  <2> HIDE DEF a, d
  <2>1. QED
    BY <1>1, DivMod
<1>4. p \in Int /\ q \in Int /\ d * r = 2 * q
  <2>1. (2 * total) * r = 2 * (total * r) /\ total * r \in Int /\ total * share \in Int
    BY <1>3
  <2>2. QED
    BY <2>1 DEF Prod
<1>5. p - total < h /\ h < p + total
  <2>1. (share - 1) * total = total * share - total /\ (share + 1) * total = total * share + total
    OBVIOUS
  <2>2. QED
    BY <2>1 DEF Prod
<1> HIDE DEF a, h, r, p, q
<1>6. 2 * q <= 2 * h + total /\ 2 * h + total < 2 * q + 2 * total
  BY <1>1, <1>3, <1>4
<1>7. q - p < 2 * total /\ p - q < 2 * total
  BY <1>1, <1>4, <1>5, <1>6
<1>8. ASSUME NEW x \in Int, NEW y \in Int, x - y >= 2
      PROVE  Prod(total, x) - Prod(total, y) >= 2 * total
  <2>1. total * (x - y) >= total * 2
    BY <1>8
  <2>2. total * (x - y) = total * x - total * y
    OBVIOUS
  <2>3. QED
    BY <2>1, <2>2 DEF Prod
<1>9. ~(r - share >= 2) /\ ~(share - r >= 2)
  <2>1. r - share >= 2 => q - p >= 2 * total
    BY <1>3, <1>8 DEF p, q
  <2>2. share - r >= 2 => p - q >= 2 * total
    BY <1>3, <1>8 DEF p, q
  <2>3. QED
    BY <1>4, <1>7, <2>1, <2>2
<1>10. QED
  BY <1>2, <1>3, <1>9

\* Who has no more of the total has no greater share but for a hundredth.
LEMMA SharesFollowCounts ==
  ASSUME NEW m \in Nat, NEW n \in Nat, m <= n, NEW total \in Nat, total > 0,
         NEW x \in Int, NEW y \in Int,
         (x - 1) * total < Hundred * m, Hundred * n < (y + 1) * total
  PROVE  x <= y + 1
<1>1. Hundred * m <= Hundred * n /\ Hundred * m \in Nat /\ Hundred * n \in Nat
  BY DEF Hundred
<1>2. (x - 1) * total \in Int /\ (y + 1) * total \in Int
  OBVIOUS
<1>3. (x - 1) * total < (y + 1) * total
  BY <1>1, <1>2
<1>4. ASSUME x - 1 >= y + 1
      PROVE  FALSE
  <2>1. (x - 1) * total >= (y + 1) * total
    BY <1>4
  <2>2. QED
    BY <1>2, <1>3, <2>1
<1>5. QED
  BY <1>4

\* The share of the most competitive store in the summary and the shares of the
\* breakdown.
LEMMA TopShare ==
  ASSUME TypeInv, NEW m \in active, Cardinality(WithOffer) > 0,
         \A s \in active : BestCounts[s] <= BestCounts[m]
  PROVE  /\ \A s \in active : BestPriceShares[s] <= BestPriceShares[m] + 1
         /\ RoundedRatio(BestCounts[m], Cardinality(WithOffer)) - BestPriceShares[m] \in -1..1
<1> DEFINE counts == BestCounts
           shares == BestPriceShares
           total == Cardinality(WithOffer)
<1>1. /\ DOMAIN counts = active /\ IsFiniteSet(DOMAIN counts) /\ DOMAIN counts \subseteq Int
      /\ \A k \in DOMAIN counts : counts[k] \in Nat
  BY BestCountsAre
<1>2. Sum(counts, DOMAIN counts) = total /\ total \in Nat /\ total > 0
  BY <1>1, CountsAddUp
<1>3. shares = DistributePercentages(counts)
  BY DEF BestPriceShares
<1> HIDE DEF counts, shares, total
<1>4. DOMAIN shares = DOMAIN counts /\ \A s \in active : shares[s] \in Int
  BY <1>1, <1>2, <1>3, ShareIs
<1>5. \A s \in active : /\ (shares[s] - 1) * total < Hundred * counts[s]
                        /\ Hundred * counts[s] < (shares[s] + 1) * total
  <2>1. AddUp(shares, counts)
    BY <1>1, <1>3, BreakdownAddsUp
  <2>2. QED
    BY <1>1, <1>2, <1>4, <2>1 DEF AddUp, Sum
<1>6. ASSUME NEW s \in active
      PROVE  shares[s] <= shares[m] + 1
  <2>1. counts[s] \in Nat /\ counts[m] \in Nat /\ counts[s] <= counts[m]
    BY <1>1 DEF counts
  <2>2. /\ shares[s] \in Int /\ shares[m] \in Int
        /\ (shares[s] - 1) * total < Hundred * counts[s]
        /\ Hundred * counts[m] < (shares[m] + 1) * total
    BY <1>4, <1>5
  <2>3. QED
    BY <1>2, <2>1, <2>2, SharesFollowCounts
<1>7. RoundedRatio(counts[m], total) - shares[m] \in -1..1
  <2>1. /\ shares[m] \in Int /\ counts[m] \in Nat
        /\ (shares[m] - 1) * total < Hundred * counts[m]
        /\ Hundred * counts[m] < (shares[m] + 1) * total
    BY <1>1, <1>4, <1>5
  <2>2. QED
    BY <1>2, <2>1, RoundedIsClose
<1>8. QED
  BY <1>6, <1>7 DEF counts, shares, total

\* The parts of the dashboard tell the same story although each is computed on
\* its own: the summary, the ranking of savings and the breakdown by store.
THEOREM DashboardTellsOneStory == Spec => []DashboardAgrees
<1>1. ASSUME TypeInv
      PROVE  DashboardAgrees
  <2> DEFINE products == Cardinality(WithOffer)
             top == FirstBy(Spread, MoreSavingsById)
             counts == BestCounts
             shares == BestPriceShares
             spread == PriceSpread
             competitive ==
               {[store |-> s, count |-> counts[s], share |-> RoundedRatio(counts[s], products)] :
                  s \in MostCompetitive(counts)}
  <2>1. /\ Summary.products_with_valid_offer_count = products
        /\ Summary.comparable_products_count = Cardinality(Comparable)
        /\ Summary.max_savings_product = top
        /\ Summary.most_competitive_store = competitive
    BY DEF Summary, Spread
  <2>2. Len(spread) = Cardinality(Comparable) /\ (spread = <<>> <=> Spread = {})
    BY <1>1, SpreadRanked
  <2>3. top = {} <=> spread = <<>>
    BY <1>1, <2>2, TopSavings
  <2>4. ASSUME NEW x, x \in top
        PROVE  x.amount = spread[1].amount
    <3>1. x \in Spread /\ \A y \in Spread : y.amount <= x.amount
      BY <1>1, <2>4, TopSavings
    <3>2. spread[1] \in Spread /\ \A y \in Spread : y.amount <= spread[1].amount
      BY <1>1, <3>1, SpreadRanked
    <3>3. x.amount \in Int /\ spread[1].amount \in Int
      BY <1>1, <3>1, <3>2, SpreadIs
    <3>4. x.amount <= spread[1].amount /\ spread[1].amount <= x.amount
      BY <3>1, <3>2
    <3>5. QED
      BY <3>3, <3>4
  <2>5. competitive = {} <=> products = 0
    BY <1>1, MostCompetitiveIs
  <2>6. ASSUME NEW x \in competitive
        PROVE  /\ \A s \in active : counts[s] <= x.count /\ shares[s] <= shares[x.store] + 1
               /\ x.share - shares[x.store] \in -1..1
    <3>1. PICK m \in MostCompetitive(counts) :
            x = [store |-> m, count |-> counts[m], share |-> RoundedRatio(counts[m], products)]
      OBVIOUS
    <3>2. m \in active /\ \A s \in active : counts[s] <= counts[m]
      BY <1>1, MostCompetitiveIs
    <3>3. products > 0
      BY <1>1, MostCompetitiveIs, CountsAddUp
    <3>4. /\ \A s \in active : shares[s] <= shares[m] + 1
          /\ RoundedRatio(counts[m], products) - shares[m] \in -1..1
      BY <1>1, <3>2, <3>3, TopShare
    <3>5. x.store = m /\ x.count = counts[m] /\ x.share = RoundedRatio(counts[m], products)
      BY <3>1
    <3> HIDE DEF counts, shares, products, competitive
    <3>6. QED
      BY <3>2, <3>4, <3>5
  <2>7. MapThenSumSet(LAMBDA s : counts[s], active) = products
    BY <1>1, CountsAddUp DEF Sum
  <2> HIDE DEF products, top, counts, shares, spread, competitive
  <2>8. QED
    BY <2>1, <2>2, <2>3, <2>4, <2>5, <2>6, <2>7 DEF DashboardAgrees, counts, shares, spread
<1>2. QED
  BY <1>1, TypeInit, TypeStep, PTL DEF Spec
=============================================================================
