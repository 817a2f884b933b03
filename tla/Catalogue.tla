----------------------------- MODULE Catalogue -----------------------------
(***************************************************************************)
(* What users see of the observations: the list of products, a product and *)
(* its history, and the dashboard, all computed from price_observations    *)
(* whenever they are asked for, while workers insert observations, not     *)
(* always in the order of capture, and stores are switched on and off.     *)
(*                                                                         *)
(* Products are numbered in the order of their names and stores in the     *)
(* order of their ids; neither names nor the instants of capture coincide. *)
(* A price of 0 is NULL.                                                   *)
(***************************************************************************)
EXTENDS Shares, SequencesExt

CONSTANTS
  Products, Stores,
  ProductId,     \* the place of each product in the order of the ids
  StoreInitial,  \* the first character of each store's name; two may share one
  Sells,         \* the pairs with an active StoreProduct
  SeededActive,  \* the stores the seed switches on
  Demo,          \* the demonstrative observations of the seed
  Kinds,         \* what an observation may say: price, currency, availability
  Times,         \* bound: the instants of capture of workers
  MaxInserted,   \* bound: observations inserted by workers
  Switchable,    \* bound: the stores that an operator switches on and off
  DayLength,     \* instants in a day
  PageSize

Observation(kind, p, s, at) ==
  [product |-> p, store |-> s, at |-> at, price |-> kind.price,
   currency |-> kind.currency, availability |-> kind.availability]

\* The check constraint of price_observations, on the values adapters return.
Constrained(k) ==
  /\ k.price \in Nat
  /\ k.currency \in {"PEN", "USD", "none"}
  /\ k.availability \in {"in_stock", "out_of_stock", "unknown"}
  /\ k.price = 0 <=> k.currency = "none"

ASSUME CatalogueAssumption ==
  /\ Products \subseteq Nat /\ Stores \subseteq Nat
  /\ IsFiniteSet(Products) /\ IsFiniteSet(Stores)
  /\ ProductId \in [Products -> Nat] /\ IsInjective(ProductId)
  /\ StoreInitial \in [Stores -> Nat]
  /\ Sells \subseteq Products \X Stores
  /\ SeededActive \subseteq Stores /\ Switchable \subseteq Stores
  /\ \A k \in Kinds \cup Demo : Constrained(k)
  /\ IsFiniteSet(Demo)
  /\ \A o \in Demo : /\ o = Observation(o, o.product, o.store, o.at)
                     /\ <<o.product, o.store>> \in Sells /\ o.at \in Nat \ Times
  /\ \A o, x \in Demo : o.at = x.at => o = x
  /\ Times \subseteq Nat /\ MaxInserted \in Nat
  /\ DayLength \in Nat \ {0} /\ PageSize \in Nat \ {0}

VARIABLES
  observations,   \* price_observations
  active,         \* the stores with is_active
  reading,        \* a client that reads the list of products page by page
  page,           \* the page it asks for next
  seen,           \* the products it has been shown
  due             \* those in the list when it began; {} if a store was switched since

vars == <<observations, active, reading, page, seen, due>>
readerVars == <<reading, page, seen, due>>

Init ==
  /\ observations = {}
  /\ active = SeededActive
  /\ reading = "no" /\ page = 1 /\ seen = {} /\ due = {}

-----------------------------------------------------------------------------
(* The list: product_repository                                            *)

Of(p, s) == {o \in observations : o.product = p /\ o.store = s}

MaxCaptured(p, s) == Max({o.at : o \in Of(p, s)})

Valid(o) ==
  o.store \in active /\ o.price > 0 /\ o.currency = "PEN" /\ o.availability = "in_stock"

\* Mutant: the last of the valid observations is taken.
CurrentOffersResurrected(p) ==
  {o \in observations :
     o.product = p /\ Valid(o) /\ \A x \in Of(p, o.store) : Valid(x) => x.at <= o.at}

\* The observations a best price is chosen from.
CurrentOffers(p) ==
  {o \in observations :
     o.product = p /\ o.at = MaxCaptured(p, o.store) /\ Valid(o)}

Cheaper(a, b) ==
  \/ a.price < b.price
  \/ a.price = b.price /\ a.at > b.at
  \/ a.price = b.price /\ a.at = b.at /\ a.store < b.store

FirstBy(offers, Before(_, _)) == {o \in offers : \A x \in offers \ {o} : Before(o, x)}

BestPrice(p) == FirstBy(CurrentOffers(p), Cheaper)

OffersCount(p) == Cardinality({o.store : o \in CurrentOffers(p)})

\* Of all observations, in PEN and in stock.
LatestPrice(p) ==
  FirstBy({o \in observations : o.product = p /\ Valid(o)}, LAMBDA a, b : a.at > b.at)

\* Mutant: only products with a current offer are listed.
ListedWithOffer == {p \in Products : CurrentOffers(p) # {}}

\* with_offers_only: some observation is in stock, in any currency, however old.
Listed ==
  {p \in Products : \E o \in observations :
     o.product = p /\ o.store \in active /\ o.price > 0 /\ o.availability = "in_stock"}

Page(n) ==
  {p \in Listed :
     LET before == Cardinality({x \in Listed : x < p})
     IN (n - 1) * PageSize <= before /\ before < n * PageSize}

Item(p) ==
  [best_price |-> BestPrice(p), latest_price |-> LatestPrice(p),
   active_offers_count |-> OffersCount(p), has_multiple_offers |-> OffersCount(p) >= 2]

Detail(p) ==
  [best_price |-> BestPrice(p),
   active_offers_count |-> OffersCount(p),
   stores |-> [s \in {x \in Stores : <<p, x>> \in Sells} |->
                 [is_store_active |-> s \in active,
                  latest_price |-> FirstBy(Of(p, s), LAMBDA a, b : a.at > b.at)]]]

\* A set in a strict order.
OrderedBy(S, Before(_, _)) ==
  CHOOSE seq \in [1..Cardinality(S) -> S] :
    \A i, j \in 1..Cardinality(S) : i < j => Before(seq[i], seq[j])

\* ORDER BY captured_at
InOrder(S) == OrderedBy(S, LAMBDA a, b : a.at < b.at)

\* The points of each series.
History(p) ==
  [s \in {x \in active : <<p, x>> \in Sells} |-> InOrder({o \in Of(p, s) : Valid(o)})]

-----------------------------------------------------------------------------
(* The dashboard: analytics_repository and analytics_service               *)

\* DISTINCT ON the association, the last capture first, over every store
SnapshotRows ==
  UNION {FirstBy(Of(x[1], x[2]), LAMBDA a, b : a.at > b.at) : x \in Sells}

ValidOffers(p) == {o \in SnapshotRows : o.product = p /\ Valid(o)}

Dearer(a, b) ==
  \/ a.price > b.price
  \/ a.price = b.price /\ a.at < b.at
  \/ a.price = b.price /\ a.at = b.at /\ a.store < b.store

WithOffer == {p \in Products : ValidOffers(p) # {}}
Comparable == {p \in Products : Cardinality(ValidOffers(p)) >= 2}

\* savings of a comparable product, and its percentage
Savings(p) ==
  LET best == CHOOSE o \in FirstBy(ValidOffers(p), Cheaper) : TRUE
      worst == CHOOSE o \in FirstBy(ValidOffers(p), Dearer) : TRUE
      diff == worst.price - best.price
  IN [product |-> p, amount |-> diff, percentage |-> RoundedRatio(diff, worst.price)]

MoreSavings(a, b) ==
  \/ a.amount > b.amount
  \/ a.amount = b.amount /\ a.percentage > b.percentage
  \/ a.amount = b.amount /\ a.percentage = b.percentage /\ a.product > b.product

\* the same but that ids decide last
MoreSavingsById(a, b) ==
  \/ a.amount > b.amount
  \/ a.amount = b.amount /\ a.percentage > b.percentage
  \/ /\ a.amount = b.amount /\ a.percentage = b.percentage
     /\ ProductId[a.product] > ProductId[b.product]

\* best_price_store_counts: of how many products an active store has the best price
BestCounts ==
  LET best == UNION {FirstBy(ValidOffers(p), Cheaper) : p \in WithOffer}
  IN [s \in active |-> Cardinality({o \in best : o.store = s})]

\* Mutant: of the stores with a best price, the first by its initial.
MostCompetitiveFirst(counts) ==
  {s \in active : counts[s] > 0 /\ \A x \in active : counts[x] > 0 => StoreInitial[s] <= StoreInitial[x]}

\* The possible answers: stores with the same initial keep the order in which
\* the rows of the snapshot have named them, which the query leaves open.
MostCompetitive(counts) ==
  {s \in active : counts[s] > 0 /\ \A x \in active \ {s} :
     counts[s] > counts[x] \/ (counts[s] = counts[x] /\ StoreInitial[s] <= StoreInitial[x])}

Summary ==
  LET counts == BestCounts
      products == Cardinality(WithOffer)
  IN [products_with_valid_offer_count |-> products,
      comparable_products_count |-> Cardinality(Comparable),
      max_savings_product |-> FirstBy({Savings(p) : p \in Comparable}, MoreSavingsById),
      most_competitive_store |->
        {[store |-> s, count |-> counts[s], share |-> RoundedRatio(counts[s], products)] :
           s \in MostCompetitive(counts)}]

\* The names order the products of equal savings.
PriceSpread == OrderedBy({Savings(p) : p \in Comparable}, MoreSavings)

\* best_price_share_percentage of the active stores
BestPriceShares == DistributePercentages(BestCounts)

RowsOf(s) == {o \in SnapshotRows : o.store = s}

\* in_stock, out_of_stock and unknown, where nothing observed is unknown
AvailabilityCounts(s) ==
  LET in_stock == Cardinality({o \in RowsOf(s) : o.availability = "in_stock" /\ o.price > 0})
      out_of_stock == Cardinality({o \in RowsOf(s) : o.availability = "out_of_stock"})
      associations == Cardinality({x \in Sells : x[2] = s})
  IN <<in_stock, out_of_stock, associations - in_stock - out_of_stock>>

AvailabilityShares(s) == DistributePercentages(AvailabilityCounts(s))

Day(o) == o.at \div DayLength

\* Mutant: the first observation of the day is taken.
DailyFirst ==
  {o \in observations : Valid(o) /\
     \A x \in Of(o.product, o.store) : Valid(x) /\ Day(x) = Day(o) => x.at >= o.at}

\* the last valid observation of an association on each day
DailyLatest ==
  {o \in observations : Valid(o) /\
     \A x \in Of(o.product, o.store) : Valid(x) /\ Day(x) = Day(o) => x.at <= o.at}

TrendPoint(day) ==
  LET points == {o \in DailyLatest : Day(o) = day} IN
  [associations_count |-> Cardinality({<<o.product, o.store>> : o \in points}),
   products_count |-> Cardinality({o.product : o \in points}),
   min_price |-> Min({o.price : o \in points}),
   max_price |-> Max({o.price : o \in points})]

-----------------------------------------------------------------------------
(* Steps                                                                   *)

\* A worker inserts what an adapter stamped with the time of its capture; workers
\* overtake each other, and a store may have been switched off since.
Insert(p, s, k, at) ==
  /\ <<p, s>> \in Sells
  /\ at \notin {o.at : o \in observations}
  /\ Cardinality(observations \ Demo) < MaxInserted
  /\ observations' = observations \cup {Observation(k, p, s, at)}
  /\ UNCHANGED <<active, readerVars>>

\* The platform is started again: the switches are put back, and with
\* SEED_DEMO_OBSERVATIONS the demonstrative observations too.
Seed(demo) ==
  /\ active' = SeededActive
  /\ observations' = observations \cup (IF demo THEN Demo ELSE {})
  /\ due' = IF active' = active THEN due ELSE {}
  /\ UNCHANGED <<reading, page, seen>>

Switch(s) ==
  /\ active' = IF s \in active THEN active \ {s} ELSE active \cup {s}
  /\ due' = {}
  /\ UNCHANGED <<observations, reading, page, seen>>

\* The first request of a client.
Open ==
  /\ reading = "no"
  /\ reading' = "yes"
  /\ due' = Listed
  /\ UNCHANGED <<observations, active, page, seen>>

\* The client goes on while the total says that there is more.
ListProducts ==
  /\ reading = "yes"
  /\ seen' = seen \cup Page(page)
  /\ IF page * PageSize < Cardinality(Listed)
     THEN page' = page + 1 /\ UNCHANGED reading
     ELSE reading' = "done" /\ UNCHANGED page
  /\ UNCHANGED <<observations, active, due>>

Next ==
  \/ \E p \in Products, s \in Stores, k \in Kinds, at \in Times : Insert(p, s, k, at)
  \/ \E demo \in BOOLEAN : Seed(demo)
  \/ \E s \in Switchable : Switch(s)
  \/ Open \/ ListProducts

Spec == Init /\ [][Next]_vars

-----------------------------------------------------------------------------
(* Properties                                                              *)

\* Every variable has its type.
TypeOK ==
  /\ \A o \in observations \ Demo : \E k \in Kinds, at \in Times :
       o = Observation(k, o.product, o.store, at) /\ <<o.product, o.store>> \in Sells
  /\ active \subseteq Stores
  /\ reading \in {"no", "yes", "done"}
  /\ page \in 1..(Cardinality(Products) + 1)
  /\ seen \subseteq Products /\ due \subseteq Products

\* The list, the detail and the dashboard compute their offers in four ways and
\* show the same ones; an offer that a later capture has replaced is never
\* shown, and the latest price is never older than the best one.
ViewsAgree ==
  \A p \in Products :
    LET item == Item(p)
        detail == Detail(p)
        best == item.best_price
    IN /\ best = FirstBy(ValidOffers(p), Cheaper)
       /\ item.active_offers_count = Cardinality(ValidOffers(p))
       /\ (best # {}) <=> (item.active_offers_count > 0)
       /\ item.has_multiple_offers <=> p \in Comparable
       /\ best # {} => p \in Listed
       /\ \A o \in best :
            /\ \A x \in Of(p, o.store) : x.at <= o.at
            /\ detail.stores[o.store].latest_price = {o}
            /\ \A x \in item.latest_price : x.at >= o.at
            /\ \A s \in DOMAIN detail.stores : detail.stores[s].is_store_active =>
                 \A x \in detail.stores[s].latest_price :
                   x.availability = "in_stock" /\ x.currency = "PEN" => x.price >= o.price

\* What is offered now ends the history of its store and lies in the trend of
\* the day it was captured.
OffersAreInHistory ==
  \A p \in Products : \A o \in CurrentOffers(p) :
    LET point == TrendPoint(Day(o)) IN
    /\ Last(History(p)[o.store]) = o
    /\ point.min_price <= o.price /\ o.price <= point.max_price
    /\ point.associations_count >= point.products_count

\* In the breakdowns of the dashboard, by best price and by availability, the
\* percentages add up to 100.00 and none is off by one hundredth or more.
SharesAddUp ==
  /\ AddUp(BestPriceShares, BestCounts)
  /\ \A s \in Stores : AddUp(AvailabilityShares(s), AvailabilityCounts(s))

\* The parts of the dashboard, computed one by one, tell the same story: as many
\* comparable products, the same top savings, and a most competitive store that
\* no other store beats and whose share is that of the breakdown but for rounding.
DashboardAgrees ==
  LET summary == Summary
      spread == PriceSpread
      counts == BestCounts
      shares == BestPriceShares
  IN /\ summary.comparable_products_count = Len(spread)
     /\ (summary.max_savings_product = {}) <=> (spread = <<>>)
     /\ \A x \in summary.max_savings_product : x.amount = spread[1].amount
     /\ (summary.most_competitive_store = {}) <=> (summary.products_with_valid_offer_count = 0)
     /\ \A x \in summary.most_competitive_store :
          /\ \A s \in active : counts[s] <= x.count /\ shares[s] <= shares[x.store] + 1
          /\ x.share - shares[x.store] \in -1..1
     /\ MapThenSumSet(LAMBDA s : counts[s], active) = summary.products_with_valid_offer_count

\* A client that reads the list page by page is shown every product that was in
\* it when it began, whatever is inserted meanwhile.
ListingMissesNothing == reading = "done" => due \subseteq seen
=============================================================================
