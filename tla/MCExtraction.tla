---------------------------- MODULE MCExtraction ----------------------------
EXTENDS Extraction, TLC

MCFakePrices == {499900, 509800}

\* Every supported way to write an amount, and two that are not to be read.
MCAmounts ==
  {[amount |-> 25313, style |-> s] : s \in Documented}
  \cup {[amount |-> 109760, style |-> s] : s \in Documented \cup {Torn}}
  \cup {[amount |-> 109700, style |-> s] : s \in Whole \cup {NoDigits}}
  \cup {[amount |-> 0, style |-> <<"", ".">>]}

Cents == [amount |-> 109760, style |-> <<",", ".">>]
Surcharged == [amount |-> 115248, style |-> <<".", ",">>]

Element(current, pen, card, after) ==
  [current |-> current, dot |-> FALSE, pen |-> pen, card |-> card, after |-> after]

Only == Element(TRUE, <<Cents>>, FALSE, <<>>)
ForCards == Element(TRUE, <<Surcharged>>, TRUE, <<>>)
Bundled == Element(TRUE, <<Cents>>, TRUE, <<Surcharged>>)
Dotted == [Only EXCEPT !.dot = TRUE]
Other == Element(FALSE, <<Cents>>, FALSE, <<>>)
NoAmount == Element(TRUE, <<>>, FALSE, <<>>)
Two == Element(TRUE, <<Cents, Surcharged>>, FALSE, <<>>)

\* Stores with one price for every payment, and those with a surcharge for cards.
Plain == {<<>>, <<Only>>, <<NoAmount, Only>>, <<Dotted>>, <<Dotted, Other>>, <<Other>>}
          \cup {<<Element(TRUE, <<a>>, FALSE, <<>>), Other>> : a \in MCAmounts}
WithCards == Plain \cup {<<Two>>, <<Bundled>>, <<Only, ForCards>>, <<ForCards, Only>>, <<ForCards, Other>>}

DomWordings == {"En stock", "0 en stock", "Disponible", "Agotado", "Sin stock", "No disponible",
                "Consultar", "disabled button", "none"}

Offers == {{[price |-> {a}, currency |-> "PEN", stock |-> "InStock"]} : a \in MCAmounts}
  \cup {{[price |-> p, currency |-> c, stock |-> s]} :
          p \in {{}, {Cents}}, c \in {"PEN", "USD", "EUR", "none"}, s \in {"InStock", "OutOfStock", "none"}}

Page(named, offer, prices, stock) ==
  [named |-> named, offer |-> offer, prices |-> prices, stock |-> stock]

\* The offers of a page with and without a price of its own, and pages without
\* an offer in every wording.
PagesWith(elements) ==
  {Page(TRUE, o, p, s) : o \in Offers, p \in {<<>>, <<Only>>}, s \in {"none", "Agotado"}}
  \cup {Page(n, {}, p, s) : n \in BOOLEAN, p \in elements, s \in DomWordings}

MCPagesOf ==
  [d \in Enabled \cup Disabled |->
     PagesWith(IF d \in PrestaShops THEN WithCards ELSE Plain)]
=============================================================================
