----------------------------- MODULE Extraction -----------------------------
(***************************************************************************)
(* One product of one store: the adapter is taken from the registry, the   *)
(* page is fetched through redirects that are validated one by one, parsed *)
(* and stored, and what happened decides how the consumer settles the job. *)
(* A domain stands for itself and its www alias.                           *)
(***************************************************************************)
EXTENDS StorePages

CONSTANTS
  MaxRedirects,   \* max_redirects of SafeHttpClient
  PagesOf,        \* the pages of each store, a function on Enabled \cup Disabled
  FakePrices,     \* what FakeStoreAdapter computes
  Switched,       \* the domains an operator disables and enables
  OtherDomain

\* store_capabilities.py
Enabled == {"necs.pe", "memorykings.pe", "computershopperu.com", "cyccomputer.pe"}
Disabled == {"sercoplus.com"}
Offline == {"fake"}
Domains == Enabled \cup Disabled \cup Offline \cup {OtherDomain}

ASSUME ExtractionAssumption ==
  /\ MaxRedirects \in Nat
  /\ DOMAIN PagesOf = Enabled \cup Disabled
  /\ OtherDomain \notin Enabled \cup Disabled \cup Offline
  /\ Switched \subseteq Domains

\* The adapters that look for words about cards.
PrestaShops == {"computershopperu.com", "cyccomputer.pe"}

AtMostOne(S) == \A x, y \in S : x = y
Elements == [current : BOOLEAN, dot : BOOLEAN, pen : Seq(Prices), card : BOOLEAN, after : Seq(Prices)]
Pages == [named : BOOLEAN, offer : SUBSET [price : SUBSET Prices, currency : STRING, stock : STRING],
          prices : Seq(Elements), stock : STRING]

\* What the selectors find on the pages of each store.  A column for prices has
\* room for more than a thousand, and what is computed has two decimals.
ASSUME PagesAssumption ==
  /\ \A d \in DOMAIN PagesOf : \A p \in PagesOf[d] :
       /\ p \in Pages
       /\ AtMostOne(p.offer) /\ \A o \in p.offer : AtMostOne(o.price)
       /\ d \notin PrestaShops => \A i \in DOMAIN p.prices : ~p.prices[i].card
  /\ MaxPrice % 10 = 0 /\ MaxPrice > 1000000
  /\ \A v \in FakePrices : v \in Nat /\ v % 10 = 0

\* The domains the constructor registers an adapter for.
Registered == {"necs.pe", "memorykings.pe", "computershopperu.com", "cyccomputer.pe",
               "sercoplus.com", "fake"}

Urls == [https : BOOLEAN, host : Domains]
NoUrl == [https |-> FALSE, host |-> "none"]
NoPage == [named |-> FALSE, offer |-> {}, prices |-> <<>>, stock |-> "none"]
Unsettled == "unsettled"

VARIABLES
  disabled,   \* disabled_domains of the registry
  pc,         \* of the worker
  domain,     \* of the store of the job
  url,        \* current_url
  hops,       \* redirect_count
  asked,      \* hosts that were sent a request for this product
  page,       \* the page received
  result,     \* the ScrapedPriceResult
  outcome     \* how the job is settled

vars == <<disabled, pc, domain, url, hops, asked, page, result, outcome>>

Init ==
  /\ disabled = Disabled
  /\ pc = "idle"
  /\ domain = OtherDomain
  /\ url = NoUrl
  /\ hops = 0
  /\ asked = {}
  /\ page = NoPage
  /\ result = Fatal
  /\ outcome = Unsettled

-----------------------------------------------------------------------------
(* The registry                                                            *)

DisableDomain(d) ==
  /\ disabled' = disabled \cup {d}
  /\ UNCHANGED <<pc, domain, url, hops, asked, page, result, outcome>>

EnableDomain(d) ==
  /\ disabled' = disabled \ {d}
  /\ UNCHANGED <<pc, domain, url, hops, asked, page, result, outcome>>

-----------------------------------------------------------------------------
(* Settlement: each class of error has an except clause of the consumer    *)

SettlementOf(error) ==
  CASE error = "none" -> "completed"
    [] error \in {"disabled", "blocked"} -> "skipped"
    [] error = "transient" -> "retrying"
    [] error = "fatal" -> "dead_letter"

Settle(error) ==
  /\ outcome' = SettlementOf(error)
  /\ pc' = "settled"

GoOn(step) ==
  /\ pc' = step
  /\ UNCHANGED outcome

\* get_adapter: a disabled domain is refused before an unknown one.
GetAdapter(d) ==
  \/ d \in disabled /\ Settle("disabled")
  \/ d \notin disabled \cup Registered /\ Settle("fatal")
  \/ d \in Registered \ disabled /\ GoOn(IF d \in Offline THEN "faking" ELSE "validating")

Begin(d, u) ==
  /\ pc = "idle"
  /\ domain' = d
  /\ url' = u
  /\ GetAdapter(d)
  /\ UNCHANGED <<disabled, hops, asked, page, result>>

-----------------------------------------------------------------------------
(* SafeHttpClient.get                                                      *)

\* Mutant: only the first URL is validated.
ValidFirst(u) == hops > 0 \/ (u.https /\ u.host = domain)

Valid(u) == u.https /\ u.host = domain

\* The URL is refused, or its host has no address or one that is not public.
RejectUrl ==
  /\ pc = "validating"
  /\ Settle("fatal")
  /\ UNCHANGED <<disabled, domain, url, hops, asked, page, result>>

Request ==
  /\ pc = "validating"
  /\ Valid(url)
  /\ asked' = asked \cup {url.host}
  /\ GoOn("waiting")
  /\ UNCHANGED <<disabled, domain, url, hops, page, result>>

\* Mutant: the counter starts again.
FollowedForgotten == 0

Followed == hops + 1
TooMany == Followed > MaxRedirects

RefuseRedirect ==
  /\ pc = "waiting"
  /\ Settle("fatal")
  /\ UNCHANGED <<disabled, domain, url, hops, asked, page, result>>

\* A redirect without a Location, or one too many, is fatal.
Redirect ==
  /\ pc = "waiting"
  /\ ~TooMany
  /\ url' \in Urls
  /\ hops' = Followed
  /\ GoOn("validating")
  /\ UNCHANGED <<disabled, domain, asked, page, result>>

ErrorOf(answer) ==
  CASE answer \in {"timeout", "unreachable", "429", "5xx"} -> "transient"
    [] answer = "403 challenge" -> "blocked"
    [] answer \in {"404", "403", "4xx"} -> "fatal"

Refuse ==
  /\ pc = "waiting"
  /\ \E answer \in {"timeout", "unreachable", "404", "403", "403 challenge", "429", "5xx", "4xx"} :
       Settle(ErrorOf(answer))
  /\ UNCHANGED <<disabled, domain, url, hops, asked, page, result>>

Receive ==
  /\ pc = "waiting"
  /\ page' \in PagesOf[domain]
  /\ GoOn("parsing")
  /\ UNCHANGED <<disabled, domain, url, hops, asked, result>>

-----------------------------------------------------------------------------
(* parse_html and process_job                                              *)

Parsed(p) ==
  CASE domain = "necs.pe" -> Necs(p)
    [] domain = "memorykings.pe" -> MemoryKings(p)
    [] domain = "computershopperu.com" -> ComputerShop(p)
    [] domain = "cyccomputer.pe" -> Cyc(p)
    [] domain = "sercoplus.com" -> Sercoplus(p)

Parse ==
  /\ pc = "parsing"
  /\ result' = Parsed(page)
  /\ IF result' = Fatal THEN Settle("fatal") ELSE GoOn("storing")
  /\ UNCHANGED <<disabled, domain, url, hops, asked, page>>

\* The URL of the fake store chooses an error or a price.
Fake ==
  /\ pc = "faking"
  /\ \/ \E error \in {"transient", "fatal"} : Settle(error) /\ UNCHANGED result
     \/ \E v \in FakePrices : result' = Result({v}, "PEN", "in_stock") /\ GoOn("storing")
  /\ UNCHANGED <<disabled, domain, url, hops, asked, page>>

\* insert_observation_idempotent of a row that satisfies its constraints
Store ==
  /\ pc = "storing"
  /\ Settle("none")
  /\ UNCHANGED <<disabled, domain, url, hops, asked, page, result>>

\* the next job
Again ==
  /\ pc = "settled"
  /\ pc' = "idle"
  /\ domain' = OtherDomain /\ url' = NoUrl /\ hops' = 0 /\ asked' = {}
  /\ page' = NoPage /\ result' = Fatal /\ outcome' = Unsettled
  /\ UNCHANGED disabled

-----------------------------------------------------------------------------

Fetch ==
  \/ RejectUrl \/ Request \/ RefuseRedirect \/ Redirect \/ Refuse \/ Receive
  \/ Parse \/ Fake \/ Store

Next ==
  \/ \E d \in Domains, u \in Urls : Begin(d, u)
  \/ \E d \in Switched : DisableDomain(d) \/ EnableDomain(d)
  \/ Fetch
  \/ Again

Spec == Init /\ [][Next]_vars

\* The worker goes on, and the client has a timeout.
FairSpec == Spec /\ WF_vars(Fetch)

-----------------------------------------------------------------------------

\* Every variable has its type; redirect_count never passes max_redirects.
TypeOK ==
  /\ disabled \subseteq Domains
  /\ pc \in {"idle", "validating", "waiting", "parsing", "faking", "storing", "settled"}
  /\ domain \in Domains
  /\ url \in Urls \cup {NoUrl}
  /\ hops \in 0..MaxRedirects
  /\ asked \subseteq Domains
  /\ page = NoPage \/ page \in PagesOf[domain]
  /\ result.availability \in Availabilities
  /\ outcome \in {Unsettled, "completed", "skipped", "retrying", "dead_letter"}

\* Numeric(12, 2) rounds half up.
Rounded(v) == (v + 5) \div 10

\* What process_job is about to insert satisfies the check constraint of
\* price_observations: a row the database refuses would abort the transaction
\* in which the consumer then tries to settle the job.
RowIsAdmitted ==
  pc = "storing" =>
    \/ result.price = {} /\ result.currency = {}
    \/ /\ result.price # {} /\ result.currency # {}
       /\ \A v \in result.price : Rounded(v) > 0 /\ Rounded(v) * 10 < MaxPrice

\* An observation of a page.
Observed == outcome = "completed" /\ page # NoPage

\* The ways to write an amount that the adapter of a domain supports: those
\* parse_pen_price documents, whole amounts, and the thousands comma where the
\* adapter tells it from a decimal one.
Supported(d) ==
  Documented \cup {<<"", "">>, Torn, NoDigits} \cup
    IF d \in PrestaShops THEN {} ELSE {<<",", "">>}

Shown(e) == Range(e.pen \o e.after)

\* Every amount is in a supported style, of the price elements of the class that
\* is looked for the first is about cash or another says nothing of cards, and an
\* offer with a currency has a price.
Regular(p) ==
  /\ \A x \in OfferPrice(p) \cup UNION {Shown(e) : e \in Range(p.prices)} : x.style \in Supported(domain)
  /\ \A e \in FirstThat(p.prices, LAMBDA x : x.current) :
       Cash(e) \/ \E f \in Range(p.prices) : f.current /\ ~f.card
  /\ \A o \in p.offer : o.currency # "none" => o.price # {}

\* The prices for cash that a page shows, with their currencies.
Published(p) ==
  {[price |-> {x.amount * 10}, currency |-> {"PEN"}] :
     x \in UNION {Range(CashText(e)) : e \in {f \in Range(p.prices) : Cash(f)}}}
  \cup {[price |-> {x.amount * 10}, currency |-> First(OfferCurrency(p), {"PEN"})] : x \in OfferPrice(p)}

\* The price of an observation is one that the page shows for cash, in the
\* currency it is shown in, however the amount is written.
PriceIsPublished ==
  Observed /\ Regular(page) /\ result.price # {} =>
    \E x \in Published(page) : result.price = x.price /\ result.currency = x.currency

\* What the adapter of a domain itself lists for out of stock.
OutOfStockWordings(d) ==
  CASE d = "necs.pe" -> {"Agotado", "Sin stock", "No disponible", "disabled button"}
    [] d = "memorykings.pe" -> {"Agotado", "Sin stock", "No disponible"}
    [] d = "computershopperu.com" -> {"0 en stock", "Agotado"}
    [] d = "cyccomputer.pe" -> {"0 en stock", "Agotado", "Sin stock", "No disponible"}
    [] d = "sercoplus.com" -> {"Agotado", "Sin stock", "No disponible", "disabled button"}

\* A page with a wording that its adapter lists for out of stock makes no offer
\* that is in stock (docs/REQUIREMENTS.md:35); the code does not keep this.
UnavailableIsNoOffer ==
  Observed /\ OfferStock(page) = {} /\ page.stock \in OutOfStockWordings(domain)
  => result.availability # "in_stock"

\* Through any redirects, only the store itself is sent a request.
OnlyTheStoreIsAsked == asked \subseteq {domain}

\* Every fetch ends, whatever the server answers.
FetchEnds == pc \in {"validating", "waiting", "parsing", "faking", "storing"} ~> pc = "settled"
=============================================================================
