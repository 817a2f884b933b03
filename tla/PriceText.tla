------------------------------ MODULE PriceText ------------------------------
(***************************************************************************)
(* How amounts are written on pages and read by the scraper.  A numeral is *)
(* groups of digits between separators; what is read is a set of at most   *)
(* one value, in thousandths of the unit: no group after a decimal         *)
(* separator has more than three digits.                                   *)
(***************************************************************************)
EXTENDS Naturals, Sequences, FiniteSetsExt, SequencesExt

CONSTANT MaxPrice   \* MAX_PRICE_ALLOWED, in thousandths

ASSUME MaxPriceAssumption == MaxPrice \in Nat \ {0}

Group(n, len) == [n |-> n, len |-> len]
Numeral(groups, seps) == [groups |-> groups, seps |-> seps]

Length(n) == CHOOSE k \in 1..6 : n < 10 ^ k /\ (k = 1 \/ n >= 10 ^ (k - 1))

\* A price on a page: an amount in hundredths and the style it is written in,
\* a pair of the thousands separator and the decimal separator.
Documented == {<<"", ".">>, <<",", ".">>, <<"", ",">>, <<".", ",">>}
Whole == {<<"", "">>, <<",", "">>, <<".", "">>}
Torn == <<"torn", "torn">>    \* two decimal separators of one kind
NoDigits == <<"none", "none">>
Styles == Documented \cup Whole \cup {Torn, NoDigits}

\* Up to 999,999.99, in no more than two groups of thousands; only an amount
\* without cents can leave them out.
Largest == 99999999
Prices == {p \in [amount : 0..Largest, style : Styles] : p.style \in Whole => p.amount % 100 = 0}

\* The numeral a store writes for a price.
Written(p) ==
  LET units == p.amount \div 100
      whole == IF units >= 1000 /\ p.style[1] \in {",", "."}
               THEN <<Group(units \div 1000, Length(units \div 1000)), Group(units % 1000, 3)>>
               ELSE <<Group(units, Length(units))>>
      thousands == IF Len(whole) = 2 THEN <<p.style[1]>> ELSE <<>>
      cents == Group(p.amount % 100, 2)
  IN CASE p.style = NoDigits -> Numeral(<<>>, <<>>)
       [] p.style = Torn -> Numeral(whole \o <<cents, cents>>, <<",", ",">>)
       [] p.style \in Whole -> Numeral(whole, thousands)
       [] p.style \in Documented -> Numeral(Append(whole, cents), Append(thousands, p.style[2]))

-----------------------------------------------------------------------------
(* Decimal() of what the replacements leave                                *)

Count(x, s) == Cardinality({i \in DOMAIN x.seps : x.seps[i] = s})

Digits(x) ==
  LET upTo[i \in DOMAIN x.groups] ==
        IF i = 1 THEN x.groups[1].n ELSE upTo[i - 1] * 10 ^ x.groups[i].len + x.groups[i].n
  IN upTo[Len(x.groups)]

\* The last k digits are decimals.
Fixed(x, k) == {Digits(x) * 10 ^ (3 - k)}

\* s separates the decimals, the other separator has been removed.
DecimalsAfter(x, s) == IF Count(x, s) = 1 THEN Fixed(x, Last(x.groups).len) ELSE {}

\* rfind
DecimalSeparator(x) == Last(x.seps)

\* _parse_numeric_amount
ReadStrictly(x) ==
  IF x.groups = <<>> THEN {}
  ELSE IF x.seps = <<>> THEN Fixed(x, 0)
  ELSE DecimalsAfter(x, DecimalSeparator(x))

\* The adapters that do not use price_parser take a lone comma for a decimal
\* one only before two digits.
ReadLoosely(x) ==
  IF Count(x, ".") = 0 /\ Count(x, ",") > 0 /\ Last(x.groups).len # 2
  THEN Fixed(x, 0)
  ELSE ReadStrictly(x)

\* parse_pen_price of a text with these amounts in PEN; no value is an error
ParsePenPrice(prices) ==
  LET numerals == {Written(prices[i]) : i \in DOMAIN prices}
      candidates == {x \in numerals : x.groups # <<>>}
      values == UNION {ReadStrictly(x) : x \in candidates}
  IN IF /\ \A x \in candidates : ReadStrictly(x) # {}
        /\ \E v \in values : values = {v}
     THEN {v \in values : v > 0 /\ v < MaxPrice}
     ELSE {}
=============================================================================
