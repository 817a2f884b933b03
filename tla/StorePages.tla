----------------------------- MODULE StorePages -----------------------------
(***************************************************************************)
(* What the adapters make of a product page.  A page is reduced to what    *)
(* their selectors find on it:                                             *)
(*   named  - a name, a SKU or both                                        *)
(*   offer  - of the Product in JSON-LD, a set of at most one record with  *)
(*            a set of at most one price, a currency and a stock wording   *)
(*   prices - the price elements in document order: whether it is one of   *)
(*            class current-price, the amounts in PEN up to the words that *)
(*            announce a surcharge for cards, whether there are such words *)
(*            and the amounts after them, and whether they are announced   *)
(*            by "S/." and a space instead of "S/"                         *)
(*   stock  - the wording of the stock element or the cart button          *)
(***************************************************************************)
EXTENDS PriceText

Availabilities == {"in_stock", "out_of_stock", "unknown"}

Fatal == [error |-> "fatal", price |-> {}, currency |-> {}, availability |-> "unknown"]

\* Mutant: the currency is kept without a price.
ResultKeepsCurrency(price, currency, availability) ==
  IF \/ price # {} /\ (currency \notin {"PEN", "USD"} \/ \E v \in price : v <= 0 \/ v >= MaxPrice)
     \/ price = {} /\ availability = "in_stock"
  THEN Fatal
  ELSE [error |-> "none", price |-> price, availability |-> availability, currency |-> {currency}]

\* ScrapedPriceResult: a price has a currency, and what is in stock a price.
Result(price, currency, availability) ==
  IF \/ price # {} /\ (currency \notin {"PEN", "USD"} \/ \E v \in price : v <= 0 \/ v >= MaxPrice)
     \/ price = {} /\ availability = "in_stock"
  THEN Fatal
  ELSE [error |-> "none", price |-> price, availability |-> availability,
        currency |-> IF price = {} THEN {} ELSE {currency}]

First(a, b) == IF a # {} THEN a ELSE b

Positive(values) == {v \in values : v > 0}

OfferPrice(page) == UNION {o.price : o \in page.offer}
OfferCurrency(page) == {o.currency : o \in page.offer} \ {"none"}
OfferStock(page) == {o.stock : o \in page.offer} \ {"none"}
StockText(page) == {page.stock} \ {"none"}

\* An element is about cash if no word about cards comes before its prices.
Cash(e) == e.card => e.pen # <<>> /\ e.after # <<>>

\* What follows the words about cards is cut off if a price is left.
CashText(e) == IF e.card /\ e.pen # <<>> THEN e.pen ELSE e.pen \o e.after

\* the first element of a sequence, the first that passes a test
FirstOf(s) == {s[i] : i \in DOMAIN s \cap {1}}
FirstThat(s, Test(_)) ==
  {s[i] : i \in {j \in DOMAIN s : Test(s[j]) /\ \A k \in 1 .. j - 1 : ~Test(s[k])}}

\* the first amount of a price element that has digits
FirstAmount(e) == FirstThat(e.pen \o e.after, LAMBDA p : p.style # NoDigits)

\* Where the patterns of Necs and Memory Kings take the dot of "S/." for the
\* amount, there is something to read and no digits in it.
Dot == [amount |-> 0, style |-> NoDigits]

LooseAmount(e) == IF e.dot /\ e.pen \o e.after # <<>> THEN {Dot} ELSE FirstAmount(e)

Unstructured(page, price, stock) == ~page.named /\ price = {} /\ stock = {}

-----------------------------------------------------------------------------
(* necs.pe                                                                 *)

\* The wording "out_of_stock" that parse_html makes of a disabled button is
\* none of those that _normalize_availability looks for.
NecsAvailability(stock) ==
  IF stock \cap {"OutOfStock", "Agotado", "Sin stock", "No disponible"} # {}
  THEN "out_of_stock" ELSE "in_stock"

Necs(page) ==
  LET shown == UNION {LooseAmount(e) : e \in FirstOf(page.prices)}
      price == First(OfferPrice(page), shown)
      stock == First(OfferStock(page), StockText(page))
      currency == CHOOSE c \in First(OfferCurrency(page), {"PEN"}) : TRUE
      availability == NecsAvailability(stock)
      value == Positive(UNION {ReadLoosely(Written(x)) : x \in price})
  IN IF Unstructured(page, price, stock) \/ currency \notin {"PEN", "USD"}
     THEN Fatal
     ELSE Result(value, currency, availability)

-----------------------------------------------------------------------------
(* memorykings.pe                                                          *)

\* "in stock" is looked for first, and is in "sin stock", as "disponible" is
\* in "no disponible".
MemoryKingsAvailability(stock) ==
  IF stock \cap {"OutOfStock", "Agotado"} # {} THEN "out_of_stock" ELSE "in_stock"

\* Only amounts in PEN are taken from the page, whatever currency the offer has.
MemoryKings(page) ==
  LET offered == OfferPrice(page)
      shown == FirstThat(page.prices, LAMBDA e : LooseAmount(e) # {})
      price == First(offered, UNION {LooseAmount(e) : e \in shown})
      stock == First(OfferStock(page), StockText(page))
      currency == IF offered = {} /\ price # {} THEN {"PEN"} ELSE First(OfferCurrency(page), {"PEN"})
      value == UNION {ReadLoosely(Written(x)) : x \in price}
  IN IF \/ Unstructured(page, price, stock)
        \/ currency # {"PEN"}
        \/ price # {} /\ value = {}
     THEN Fatal
     ELSE Result(Positive(value), "PEN", MemoryKingsAvailability(stock))

-----------------------------------------------------------------------------
(* computershopperu.com and cyccomputer.pe, two PrestaShop pages           *)

\* Mutant: any current-price element will do.
CashElementAny(page) ==
  First(FirstThat(page.prices, LAMBDA e : e.current),
        FirstThat(page.prices, LAMBDA e : ~e.card /\ e.pen # <<>>))

\* The element that shows the price for cash or bank transfer: the first one of
\* class current-price that does not speak of cards, else the first of them,
\* else another price element in PEN that does not speak of cards.
CashElement(page) ==
  First(FirstThat(page.prices, LAMBDA e : e.current /\ ~e.card),
        First(FirstThat(page.prices, LAMBDA e : e.current),
              FirstThat(page.prices, LAMBDA e : ~e.card /\ e.pen # <<>>)))

PrestaShop(page, availability) ==
  LET elements == CashElement(page)
      texts == {CashText(e) : e \in elements}
      value == UNION {ParsePenPrice(t) : t \in texts}
      unread == availability = "in_stock" \/ ~page.named \/ \E t \in texts : t # <<>>
  IN IF value = {} /\ unread
     THEN Fatal
     ELSE Result(value, "PEN", availability)

\* units in stock, else out of stock if explicit, else unknown
ComputerShopAvailability(stock) ==
  CASE stock \in {"0 en stock", "Agotado"} -> "out_of_stock"
    [] stock = "En stock" -> "in_stock"
    [] OTHER -> "unknown"

ComputerShop(page) == PrestaShop(page, ComputerShopAvailability(page.stock))

CycAvailability(stock) ==
  CASE stock \in {"0 en stock", "Agotado", "Sin stock", "No disponible"} -> "out_of_stock"
    [] stock = "En stock" -> "in_stock"
    [] OTHER -> "unknown"

\* The template shows prices of its own when the stock is to be asked for.
Cyc(page) ==
  LET availability == CycAvailability(page.stock)
  IN IF availability # "unknown" THEN PrestaShop(page, availability)
     ELSE IF page.named THEN Result({}, "PEN", availability) ELSE Fatal

-----------------------------------------------------------------------------
(* sercoplus.com                                                           *)

SercoplusAvailability(page) ==
  LET words == IF page.stock \in {"Agotado", "Sin stock", "No disponible", "disabled button"}
               THEN {"out_of_stock"}
               ELSE IF page.stock \in {"En stock", "0 en stock", "Disponible"} THEN {"in_stock"} ELSE {}
      offered == {IF s = "OutOfStock" THEN "out_of_stock" ELSE "in_stock" :
                    s \in OfferStock(page) \cap {"InStock", "OutOfStock"}}
  IN First(words, offered)

\* Elements that cannot be read are passed over, one that is not positive ends
\* the search with an error.
Sercoplus(page) ==
  LET availability == SercoplusAvailability(page)
      Read(e) == UNION {ReadLoosely(Written(p)) : p \in FirstAmount(e)}
      value == UNION {Read(e) : e \in FirstThat(page.prices, LAMBDA x : Read(x) # {})}
  IN IF \/ ~page.named /\ value = {} /\ availability = {}
        \/ value # {} /\ Positive(value) = {}
     THEN Fatal
     ELSE Result(value, "PEN", CHOOSE a \in First(availability, {"in_stock"}) : TRUE)
=============================================================================
