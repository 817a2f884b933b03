--------------------------- MODULE CanonicalImage ---------------------------
(***************************************************************************)
(* The image of one product.  Every store that sells it may show one; the  *)
(* workers keep the last image of each store and choose the canonical one  *)
(* of the product by a priority of domains.  The product is read without a *)
(* lock and written at the commit, so workers of two stores can overlap.   *)
(* The seed, which every start of the system runs, puts its own images     *)
(* over those of the workers.                                              *)
(***************************************************************************)
EXTENDS Naturals, FiniteSets

CONSTANTS
  Stores,
  Hosts,        \* of image URLs
  HomeOf,       \* Store.domain, a function from Stores to Hosts
  Shows,        \* the images the page of a store may show, once validated
  Priority,     \* STORE_IMAGE_DOMAIN_PRIORITY, 0 for a host that is not in it
  Seeds,        \* what the seed may say of the product and of its stores
  MaxSeeds,     \* bound on the starts modelled
  Workers,
  Mortal,       \* the workers that may be killed
  NoImage

\* The images the data of the seed name; a product or a store may have none.
SeedImages ==
  ({d.product : d \in Seeds} \cup {d.stores[s] : d \in Seeds, s \in Stores}) \ {NoImage}

\* An image URL: its host and the rest of it.
Images == SeedImages \cup UNION {Shows[s] : s \in Stores}

ASSUME ImageAssumption ==
  /\ HomeOf \in [Stores -> Hosts] /\ Priority \in [Hosts -> Nat]
  /\ \A s \in Stores : \A i \in Shows[s] : i.host \in Hosts
  /\ \A d \in Seeds : d.stores \in [Stores -> SeedImages \cup {NoImage}]
  /\ \A i \in SeedImages : i.host \in Hosts
  /\ MaxSeeds \in Nat
  /\ Mortal \subseteq Workers
  /\ NoImage \notin Images

\* validate_store_image_url admits the hosts of the store only, and they have
\* the priority of the store.
ASSUME ValidatedAssumption ==
  \A s \in Stores : \A i \in Shows[s] :
    Priority[HomeOf[s]] > 0 => Priority[i.host] = Priority[HomeOf[s]]

VARIABLES
  storeImage,   \* StoreProduct.image_url of each store
  image,        \* Product.image_url
  seeds,        \* how often the seed has run
  pc,           \* of each worker
  store,        \* whose page it has scraped
  found         \* the image on that page

vars == <<storeImage, image, seeds, pc, store, found>>

Init ==
  /\ \E d \in Seeds : storeImage = d.stores /\ image = d.product
  /\ seeds = 1
  /\ pc = [w \in Workers |-> "idle"]
  /\ store \in [Workers -> Stores]
  /\ found = [w \in Workers |-> NoImage]

-----------------------------------------------------------------------------

\* A start with the data d.  What they name replaces what is there; the rest
\* stays.
Seed(d) ==
  /\ seeds < MaxSeeds
  /\ seeds' = seeds + 1
  /\ image' = IF d.product = NoImage THEN image ELSE d.product
  /\ storeImage' = [s \in Stores |-> IF d.stores[s] = NoImage THEN storeImage[s] ELSE d.stores[s]]
  /\ UNCHANGED <<pc, store, found>>

\* fetch_product_price has returned; without an image there is nothing to do
Scrape(w, s, i) ==
  /\ pc[w] = "idle"
  /\ pc' = [pc EXCEPT ![w] = "store_product"]
  /\ store' = [store EXCEPT ![w] = s]
  /\ found' = [found EXCEPT ![w] = i]
  /\ UNCHANGED <<storeImage, image, seeds>>

\* update_store_product_image_url
UpdateStoreProduct(w) ==
  /\ pc[w] = "store_product"
  /\ storeImage' = [storeImage EXCEPT ![store[w]] = found[w]]
  /\ pc' = [pc EXCEPT ![w] = "product"]
  /\ UNCHANGED <<image, seeds, store, found>>

Done(w) ==
  /\ pc' = [pc EXCEPT ![w] = "idle"]
  /\ found' = [found EXCEPT ![w] = NoImage]
  /\ UNCHANGED store

NewPriority(s, i) ==
  IF Priority[i.host] > Priority[HomeOf[s]] THEN Priority[i.host] ELSE Priority[HomeOf[s]]

\* Mutant: the first image stays.
ReplacesNothing(s, i) == image = NoImage

\* The rule of update_product_canonical_image, on the product as it reads it.
Replaces(s, i) ==
  \/ image = NoImage
  \/ image # i /\ NewPriority(s, i) > Priority[image.host]

\* Mutant: the product does not wait for the image of the store.
ReadProductFirst(w) ==
  /\ pc[w] \in {"store_product", "product"}
  /\ IF Replaces(store[w], found[w])
     THEN pc' = [pc EXCEPT ![w] = "commit"] /\ UNCHANGED <<store, found>>
     ELSE Done(w)
  /\ UNCHANGED <<storeImage, image, seeds>>

ReadProduct(w) ==
  /\ pc[w] = "product"
  /\ IF Replaces(store[w], found[w])
     THEN pc' = [pc EXCEPT ![w] = "commit"] /\ UNCHANGED <<store, found>>
     ELSE Done(w)
  /\ UNCHANGED <<storeImage, image, seeds>>

\* The UPDATE names the primary key alone, whatever the image is by now.
CommitProduct(w) ==
  /\ pc[w] = "commit"
  /\ image' = found[w]
  /\ Done(w)
  /\ UNCHANGED <<storeImage, seeds>>

Crash(w) ==
  /\ w \in Mortal /\ pc[w] # "idle"
  /\ Done(w)
  /\ UNCHANGED <<storeImage, image, seeds>>

-----------------------------------------------------------------------------

Update(w) == UpdateStoreProduct(w) \/ ReadProduct(w) \/ CommitProduct(w)

Next ==
  \/ \E d \in Seeds : Seed(d)
  \/ \E w \in Workers :
       \/ \E s \in Stores : \E i \in Shows[s] : Scrape(w, s, i)
       \/ Update(w)
       \/ Crash(w)

Spec == Init /\ [][Next]_vars

\* The dispatcher makes jobs of every store again and again, and workers that
\* are not killed finish what they have begun.
FairSpec ==
  /\ Spec
  /\ \A w \in Workers \ Mortal : WF_vars(Update(w))
  /\ \A s \in Stores :
       SF_vars(\E w \in Workers \ Mortal : \E i \in Shows[s] : Scrape(w, s, i))

-----------------------------------------------------------------------------

\* Every variable has its type.
TypeOK ==
  /\ storeImage \in [Stores -> Images \cup {NoImage}]
  /\ image \in Images \cup {NoImage}
  /\ seeds \in Nat
  /\ pc \in [Workers -> {"idle", "store_product", "product", "commit"}]
  /\ store \in [Workers -> Stores]
  /\ found \in [Workers -> Images \cup {NoImage}]

\* A canonical image that is not the seed's was found at the store of a known
\* image: it never comes from a store whose own image was not committed before.
CanonicalIsKnown ==
  image \notin SeedImages \cup {NoImage} =>
    \E s \in Stores : image \in Shows[s] /\ storeImage[s] # NoImage

Best(i) == \A s \in Stores : \A k \in Shows[s] : NewPriority(s, k) <= Priority[i.host]

\* Whatever the seed and workers of other stores have overwritten meanwhile, the
\* product ends up with an image of the store that comes first, for good.
BestImageStays == <>[](image # NoImage /\ Best(image))
=============================================================================
