---------------------------- MODULE MCCatalogue ----------------------------
(* An instance of Catalogue for TLC. *)
EXTENDS Catalogue, TLC

\* The orders of ids and of names are opposite; the stores share an initial.
MCProductId == [p \in Products |-> 10 - p]
MCStoreInitial == [s \in Stores |-> 1]

\* Two products can be compared, the third is sold by one store.
MCSells == ({1, 2} \X {1, 2}) \cup {<<3, 1>>}

Kind(price, currency, availability) ==
  [price |-> price, currency |-> currency, availability |-> availability]

\* Each store is the cheaper one of a product.
MCDemo == {Observation(Kind(2, "PEN", "in_stock"), 1, 1, 2),
           Observation(Kind(3, "PEN", "in_stock"), 1, 2, 3),
           Observation(Kind(3, "PEN", "in_stock"), 2, 1, 4),
           Observation(Kind(2, "PEN", "in_stock"), 2, 2, 5),
           Observation(Kind(2, "PEN", "in_stock"), 3, 1, 6)}

\* Two prices that compete, one in dollars, a product sold out and one whose
\* stock is to be asked for.
MCKinds == {Kind(2, "PEN", "in_stock"), Kind(4, "PEN", "in_stock"), Kind(1, "USD", "in_stock"),
            Kind(1, "PEN", "out_of_stock"), Kind(0, "none", "unknown")}
=============================================================================
