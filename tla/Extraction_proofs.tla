-------------------------- MODULE Extraction_proofs --------------------------
(***************************************************************************)
(* Proofs about Extraction for any pages, redirects and switched stores:   *)
(* its types with the bound on redirects, that only the store of the job   *)
(* is sent requests, that a price is stored with its currency and in the   *)
(* range of its column once rounded, and that it is a price the page shows *)
(* for cash.  The last rests on what is read of an amount in each way to   *)
(* write it, and on which amount of a page each adapter reads.             *)
(***************************************************************************)
EXTENDS Extraction, FiniteSetTheorems, SequenceTheorems, WellFoundedInduction, TLAPS

-----------------------------------------------------------------------------
(* Tuples                                                                  *)

\* An element more makes a longer tuple.
LEMMA TuplesAppend ==
  ASSUME NEW a, NEW b, NEW c
  PROVE  /\ Append(<<>>, a) = <<a>>
         /\ Append(<<a>>, b) = <<a, b>>
         /\ Append(<<a, b>>, c) = <<a, b, c>>
<1> DEFINE S == {a, b, c}
<1>1. <<>> \in Seq(S) /\ <<a>> \in Seq(S) /\ <<a, b>> \in Seq(S) /\ <<a, b, c>> \in Seq(S)
  OBVIOUS
<1>2. Len(<<>>) = 0 /\ Len(<<a>>) = 1 /\ Len(<<a, b>>) = 2 /\ Len(<<a, b, c>>) = 3
  OBVIOUS
<1>3. /\ Append(<<>>, a) \in Seq(S) /\ Len(Append(<<>>, a)) = 1
      /\ Append(<<a>>, b) \in Seq(S) /\ Len(Append(<<a>>, b)) = 2
      /\ Append(<<a, b>>, c) \in Seq(S) /\ Len(Append(<<a, b>>, c)) = 3
  BY <1>1, <1>2, AppendProperties
<1>4. /\ \A i \in 1..1 : Append(<<>>, a)[i] = <<a>>[i]
      /\ \A i \in 1..2 : Append(<<a>>, b)[i] = <<a, b>>[i]
      /\ \A i \in 1..3 : Append(<<a, b>>, c)[i] = <<a, b, c>>[i]
  BY <1>1, <1>2, AppendProperties
<1>5. \A s, t \in Seq(S) : Len(s) = Len(t) /\ (\A i \in 1..Len(s) : s[i] = t[i]) => s = t
  BY SeqEqual
<1>6. QED
  <2> DEFINE s1 == Append(<<>>, a)
             s2 == Append(<<a>>, b)
             s3 == Append(<<a, b>>, c)
  <2>1. /\ s1 \in Seq(S) /\ Len(s1) = 1 /\ \A i \in 1..1 : s1[i] = <<a>>[i]
        /\ s2 \in Seq(S) /\ Len(s2) = 2 /\ \A i \in 1..2 : s2[i] = <<a, b>>[i]
        /\ s3 \in Seq(S) /\ Len(s3) = 3 /\ \A i \in 1..3 : s3[i] = <<a, b, c>>[i]
    BY <1>3, <1>4
  <2> HIDE DEF s1, s2, s3
  <2>2. s1 = <<a>>
    BY <1>1, <1>2, <1>5, <2>1
  <2>3. s2 = <<a, b>>
    BY <1>1, <1>2, <1>5, <2>1
  <2>4. s3 = <<a, b, c>>
    BY <1>1, <1>2, <1>5, <2>1
  <2>5. QED
    BY <2>2, <2>3, <2>4 DEF s1, s2, s3

\* A pair more makes a longer tuple.
LEMMA TuplesConcat ==
  ASSUME NEW a, NEW b, NEW c
  PROVE  /\ <<a>> \o <<c, c>> = <<a, c, c>>
         /\ <<a, b>> \o <<c, c>> = <<a, b, c, c>>
<1> DEFINE S == {a, b, c}
<1>1. /\ <<a>> \in Seq(S) /\ <<a, b>> \in Seq(S) /\ <<c, c>> \in Seq(S)
      /\ <<a, c, c>> \in Seq(S) /\ <<a, b, c, c>> \in Seq(S)
  OBVIOUS
<1>2. /\ Len(<<a>>) = 1 /\ Len(<<a, b>>) = 2 /\ Len(<<c, c>>) = 2
      /\ Len(<<a, c, c>>) = 3 /\ Len(<<a, b, c, c>>) = 4
  OBVIOUS
<1>3. /\ <<a>> \o <<c, c>> \in Seq(S) /\ Len(<<a>> \o <<c, c>>) = 3
      /\ <<a, b>> \o <<c, c>> \in Seq(S) /\ Len(<<a, b>> \o <<c, c>>) = 4
  BY <1>1, <1>2, ConcatProperties
<1>4. /\ \A i \in 1..3 : (<<a>> \o <<c, c>>)[i] = <<a, c, c>>[i]
      /\ \A i \in 1..4 : (<<a, b>> \o <<c, c>>)[i] = <<a, b, c, c>>[i]
  BY <1>1, <1>2, ConcatProperties
<1>5. QED
  BY ZenonT(40), <1>1, <1>2, <1>3, <1>4, SeqEqual

-----------------------------------------------------------------------------
(* Numerals                                                                *)

\* f holds the running totals of Digits.
Runs(g, f) ==
  f = [i \in DOMAIN g |-> IF i = 1 THEN g[1].n ELSE f[i - 1] * 10 ^ g[i].len + g[i].n]

\* Digits is the last of the running totals, when there are any.
LEMMA DigitsAre ==
  ASSUME NEW x, NEW f, Runs(x.groups, f)
  PROVE  \E h : Runs(x.groups, h) /\ Digits(x) = h[Len(x.groups)]
BY DEF Digits, Runs

\* The weights of up to three digits.
LEMMA Powers == 10 ^ 0 = 1 /\ 10 ^ 1 = 10 /\ 10 ^ 2 = 100 /\ 10 ^ 3 = 1000
OBVIOUS

\* How often a separator occurs among at most two.
LEMMA CountIs ==
  ASSUME NEW x, NEW a, NEW b, NEW s
  PROVE  /\ x.seps = <<>> => Count(x, s) = 0
         /\ x.seps = <<a>> => Count(x, s) = IF a = s THEN 1 ELSE 0
         /\ x.seps = <<a, b>> /\ a = s /\ b = s => Count(x, s) = 2
         /\ x.seps = <<a, b>> /\ a = s /\ b # s => Count(x, s) = 1
         /\ x.seps = <<a, b>> /\ a # s /\ b = s => Count(x, s) = 1
         /\ x.seps = <<a, b>> /\ a # s /\ b # s => Count(x, s) = 0
<1> DEFINE I == {i \in DOMAIN x.seps : x.seps[i] = s}
<1>1. Count(x, s) = Cardinality(I)
  BY DEF Count
<1>2. Cardinality({}) = 0 /\ Cardinality({1}) = 1 /\ Cardinality({2}) = 1 /\ Cardinality({1, 2}) = 2
  <2>1. Cardinality({}) = 0 /\ IsFiniteSet({1}) /\ Cardinality({1}) = 1 /\ Cardinality({2}) = 1
    BY FS_EmptySet, FS_Singleton
  <2>2. {1, 2} = {1} \cup {2} /\ 2 \notin {1}
    OBVIOUS
  <2>3. Cardinality({1} \cup {2}) = 2
    BY <2>1, <2>2, FS_AddElement
  <2>4. QED
    BY <2>1, <2>2, <2>3
<1>3. x.seps = <<>> => I = {}
  OBVIOUS
<1>4. x.seps = <<a>> => I = IF a = s THEN {1} ELSE {}
  OBVIOUS
<1>5. x.seps = <<a, b>> => I = (IF a = s THEN {1} ELSE {}) \cup (IF b = s THEN {2} ELSE {})
  OBVIOUS
<1>6. QED
  <2> HIDE DEF I
  <2>1. {1} \cup {2} = {1, 2} /\ {1} \cup {} = {1} /\ {} \cup {2} = {2} /\ {} \cup {} = {}
    OBVIOUS
  <2>2. QED
    BY <1>1, <1>2, <1>3, <1>4, <1>5, <2>1

\* The styles, told apart by their separators.
LEMMA StylesDiffer ==
  /\ NoDigits[1] = "none" /\ Torn[1] = "torn"
  /\ \A s \in Whole : s[1] \in {"", ",", "."} /\ s[2] = ""
  /\ \A s \in Documented : s[1] \in {"", ",", "."} /\ s[2] \in {",", "."} /\ s[1] # s[2]
<1>1. NoDigits[1] = "none" /\ Torn[1] = "torn"
  BY DEF NoDigits, Torn
<1>2. ASSUME NEW s, NEW a, NEW b, s = <<a, b>>
      PROVE  s[1] = a /\ s[2] = b
  BY <1>2
<1>3. ASSUME NEW s \in Whole
      PROVE  s[1] \in {"", ",", "."} /\ s[2] = ""
  <2>1. s = <<"", "">> \/ s = <<",", "">> \/ s = <<".", "">>
    BY <1>3 DEF Whole
  <2>2. QED
    BY <1>2, <2>1
<1>4. ASSUME NEW s \in Documented
      PROVE  s[1] \in {"", ",", "."} /\ s[2] \in {",", "."} /\ s[1] # s[2]
  <2>1. s = <<"", ".">> \/ s = <<",", ".">> \/ s = <<"", ",">> \/ s = <<".", ",">>
    BY <1>4 DEF Documented
  <2>2. /\ s = <<"", ".">> => s[1] = "" /\ s[2] = "."
        /\ s = <<",", ".">> => s[1] = "," /\ s[2] = "."
        /\ s = <<"", ",">> => s[1] = "" /\ s[2] = ","
        /\ s = <<".", ",">> => s[1] = "." /\ s[2] = ","
    BY <1>2
  <2>3. QED
    BY <2>1, <2>2
<1>5. QED
  BY <1>1, <1>3, <1>4

-----------------------------------------------------------------------------
(* Amounts as they are written                                             *)

\* The parts of an amount.
Units(x) == x.amount \div 100
Parted(x) == Units(x) >= 1000 /\ x.style[1] \in {",", "."}
UnitsGroup(x) == Group(Units(x), Length(Units(x)))
ThousandsGroup(x) == Group(Units(x) \div 1000, Length(Units(x) \div 1000))
RestGroup(x) == Group(Units(x) % 1000, 3)
CentsGroup(x) == Group(x.amount % 100, 2)

\* The numeral of an amount, style by style.
LEMMA WrittenIs ==
  ASSUME NEW x \in Prices
  PROVE  /\ x.style = NoDigits => Written(x) = Numeral(<<>>, <<>>)
         /\ x.style = Torn =>
              \/ Written(x) = Numeral(<<UnitsGroup(x), CentsGroup(x), CentsGroup(x)>>, <<",", ",">>)
              \/ Written(x) = Numeral(<<ThousandsGroup(x), RestGroup(x), CentsGroup(x), CentsGroup(x)>>, <<",", ",">>)
         /\ x.style \in Whole => Written(x) =
              IF Parted(x) THEN Numeral(<<ThousandsGroup(x), RestGroup(x)>>, <<x.style[1]>>)
              ELSE Numeral(<<UnitsGroup(x)>>, <<>>)
         /\ x.style \in Documented => Written(x) =
              IF Parted(x) THEN Numeral(<<ThousandsGroup(x), RestGroup(x), CentsGroup(x)>>, <<x.style[1], x.style[2]>>)
              ELSE Numeral(<<UnitsGroup(x), CentsGroup(x)>>, <<x.style[2]>>)
<1> DEFINE whole == IF Parted(x) THEN <<ThousandsGroup(x), RestGroup(x)>> ELSE <<UnitsGroup(x)>>
           thousands == IF Len(whole) = 2 THEN <<x.style[1]>> ELSE <<>>
           torn == Numeral(whole \o <<CentsGroup(x), CentsGroup(x)>>, <<",", ",">>)
           decimal == Numeral(Append(whole, CentsGroup(x)), Append(thousands, x.style[2]))
<1>1. Written(x) =
        CASE x.style = NoDigits -> Numeral(<<>>, <<>>)
          [] x.style = Torn -> torn
          [] x.style \in Whole -> Numeral(whole, thousands)
          [] x.style \in Documented -> decimal
  BY SMT DEF Written, Parted, Units, UnitsGroup, ThousandsGroup, RestGroup, CentsGroup
<1>2. thousands = IF Parted(x) THEN <<x.style[1]>> ELSE <<>>
  OBVIOUS
<1>3. whole \o <<CentsGroup(x), CentsGroup(x)>> =
        IF Parted(x) THEN <<ThousandsGroup(x), RestGroup(x), CentsGroup(x), CentsGroup(x)>>
        ELSE <<UnitsGroup(x), CentsGroup(x), CentsGroup(x)>>
  BY TuplesConcat
<1>4. Append(whole, CentsGroup(x)) =
        IF Parted(x) THEN <<ThousandsGroup(x), RestGroup(x), CentsGroup(x)>>
        ELSE <<UnitsGroup(x), CentsGroup(x)>>
  BY TuplesAppend
<1>5. Append(thousands, x.style[2]) = IF Parted(x) THEN <<x.style[1], x.style[2]>> ELSE <<x.style[2]>>
  BY <1>2, TuplesAppend
<1> HIDE DEF thousands
<1>6. /\ x.style = NoDigits => x.style # Torn /\ x.style \notin Whole /\ x.style \notin Documented
      /\ x.style = Torn => x.style \notin Whole /\ x.style \notin Documented
      /\ x.style \in Whole => x.style \notin Documented
  BY StylesDiffer
<1> HIDE DEF whole, torn, decimal
<1>7. ASSUME x.style = NoDigits
      PROVE  Written(x) = Numeral(<<>>, <<>>)
  BY SMT, <1>1, <1>6, <1>7
<1>8. ASSUME x.style = Torn
      PROVE  Written(x) = torn
  BY SMT, <1>1, <1>6, <1>8
<1>9. ASSUME x.style \in Whole
      PROVE  Written(x) = Numeral(whole, thousands)
  BY SMT, <1>1, <1>6, <1>9
<1>10. ASSUME x.style \in Documented
       PROVE  Written(x) = decimal
  BY SMT, <1>1, <1>6, <1>10
<1>11. ASSUME x.style = Torn
      PROVE  \/ Written(x) = Numeral(<<UnitsGroup(x), CentsGroup(x), CentsGroup(x)>>, <<",", ",">>)
             \/ Written(x) = Numeral(<<ThousandsGroup(x), RestGroup(x), CentsGroup(x), CentsGroup(x)>>, <<",", ",">>)
  BY <1>3, <1>8, <1>11 DEF torn
<1>12. ASSUME x.style \in Whole
       PROVE  Written(x) =
                IF Parted(x) THEN Numeral(<<ThousandsGroup(x), RestGroup(x)>>, <<x.style[1]>>)
                ELSE Numeral(<<UnitsGroup(x)>>, <<>>)
  BY <1>2, <1>9, <1>12 DEF whole
<1>13. ASSUME x.style \in Documented
       PROVE  Written(x) =
                IF Parted(x) THEN Numeral(<<ThousandsGroup(x), RestGroup(x), CentsGroup(x)>>, <<x.style[1], x.style[2]>>)
                ELSE Numeral(<<UnitsGroup(x), CentsGroup(x)>>, <<x.style[2]>>)
  BY <1>4, <1>5, <1>10, <1>13 DEF decimal
<1>14. QED
  BY <1>7, <1>11, <1>12, <1>13

\* The value of one group, of two and of three.
LEMMA DigitsOfOne ==
  ASSUME NEW x, NEW g, x.groups = <<g>>
  PROVE  Digits(x) = g.n
<1> DEFINE f == [i \in {1} |-> g.n]
<1>1. DOMAIN x.groups = {1} /\ Len(x.groups) = 1 /\ x.groups[1] = g
  OBVIOUS
<1>2. Runs(x.groups, f)
  BY <1>1 DEF Runs
<1>3. PICK h : Runs(x.groups, h) /\ Digits(x) = h[Len(x.groups)]
  BY <1>2, DigitsAre
<1>4. QED
  BY <1>1, <1>3 DEF Runs

\* Two groups.
LEMMA DigitsOfTwo ==
  ASSUME NEW x, NEW g, NEW g2, x.groups = <<g, g2>>
  PROVE  Digits(x) = g.n * 10 ^ g2.len + g2.n
<1> DEFINE f == [i \in {1, 2} |-> IF i = 1 THEN g.n ELSE g.n * 10 ^ g2.len + g2.n]
<1>1. DOMAIN x.groups = {1, 2} /\ Len(x.groups) = 2 /\ x.groups[1] = g /\ x.groups[2] = g2
  OBVIOUS
<1>2. Runs(x.groups, f)
  BY <1>1 DEF Runs
<1>3. PICK h : Runs(x.groups, h) /\ Digits(x) = h[Len(x.groups)]
  BY <1>2, DigitsAre
<1>4. h[1] = g.n /\ h[2] = h[2 - 1] * 10 ^ g2.len + g2.n
  BY <1>1, <1>3 DEF Runs
<1>5. QED
  BY <1>1, <1>3, <1>4

\* Three groups.
LEMMA DigitsOfThree ==
  ASSUME NEW x, NEW g, NEW g2, NEW g3, x.groups = <<g, g2, g3>>
  PROVE  Digits(x) = (g.n * 10 ^ g2.len + g2.n) * 10 ^ g3.len + g3.n
<1> DEFINE f == [i \in {1, 2, 3} |->
                   IF i = 1 THEN g.n ELSE IF i = 2 THEN g.n * 10 ^ g2.len + g2.n
                   ELSE (g.n * 10 ^ g2.len + g2.n) * 10 ^ g3.len + g3.n]
<1>1. /\ DOMAIN x.groups = {1, 2, 3} /\ Len(x.groups) = 3
      /\ x.groups[1] = g /\ x.groups[2] = g2 /\ x.groups[3] = g3
  OBVIOUS
<1>2. Runs(x.groups, f)
  BY <1>1 DEF Runs
<1>3. PICK h : Runs(x.groups, h) /\ Digits(x) = h[Len(x.groups)]
  BY <1>2, DigitsAre
<1>4. h[1] = g.n /\ h[2] = h[2 - 1] * 10 ^ g2.len + g2.n /\ h[3] = h[3 - 1] * 10 ^ g3.len + g3.n
  BY <1>1, <1>3 DEF Runs
<1>5. QED
  BY <1>1, <1>3, <1>4

\* None, two or three decimals.
LEMMA FixedIs ==
  ASSUME NEW x
  PROVE  Fixed(x, 0) = {Digits(x) * 1000} /\ Fixed(x, 2) = {Digits(x) * 10} /\ Fixed(x, 3) = {Digits(x) * 1}
<1>1. 3 - 0 = 3 /\ 3 - 2 = 1 /\ 3 - 3 = 0
  OBVIOUS
<1>2. QED
  BY <1>1, Powers DEF Fixed

\* Less than a thousand thousands.
UnitsBound == 999999

\* An amount is what its parts add up to.
LEMMA AmountsAre ==
  ASSUME NEW x \in Prices
  PROVE  /\ x.amount \in Nat /\ x.amount % 100 \in Nat
         /\ Units(x) \in Nat /\ Units(x) <= UnitsBound
         /\ Units(x) \div 1000 \in Nat /\ Units(x) % 1000 \in Nat
         /\ x.amount = Units(x) * 100 + (x.amount % 100)
         /\ Units(x) = (Units(x) \div 1000) * 1000 + (Units(x) % 1000)
         /\ x.style \in Styles
         /\ x.style \in Whole => x.amount % 100 = 0
<1>1. x.amount \in 0..Largest /\ x.style \in Styles /\ (x.style \in Whole => x.amount % 100 = 0)
  BY DEF Prices
<1>2. \A n \in Nat : n \div 100 \in Nat /\ n % 100 \in Nat /\ n = (n \div 100) * 100 + (n % 100)
  BY SMT
<1>3. \A n \in Nat : n \div 1000 \in Nat /\ n % 1000 \in Nat /\ n = (n \div 1000) * 1000 + (n % 1000)
  BY SMT
<1>4. \A n \in Nat : n <= Largest => n \div 100 <= UnitsBound
  BY SMT DEF Largest, UnitsBound
<1>5. \A n \in 0..Largest : n \in Nat /\ n <= Largest
  <2>1. Largest \in Nat
    BY SMT DEF Largest
  <2>2. QED
    BY <2>1
<1>6. QED
  BY <1>1, <1>2, <1>3, <1>4, <1>5 DEF Units

\* The digits of a numeral are those of the amount, without its cents or with them.
LEMMA DigitsWritten ==
  ASSUME NEW x \in Prices
  PROVE  /\ x.style \in Whole => Digits(Written(x)) = Units(x)
         /\ x.style \in Documented => Digits(Written(x)) = x.amount
<1> DEFINE w == Written(x)
           u == Units(x)
           c == x.amount % 100
           k == u \div 1000
           r == u % 1000
<1>1. /\ x.amount \in Nat /\ u \in Nat /\ c \in Nat /\ k \in Nat /\ r \in Nat
      /\ x.amount = u * 100 + c /\ u = k * 1000 + r
  BY AmountsAre
<1>2. /\ UnitsGroup(x).n = u
      /\ ThousandsGroup(x).n = k
      /\ RestGroup(x).n = r /\ RestGroup(x).len = 3
      /\ CentsGroup(x).n = c /\ CentsGroup(x).len = 2
  BY DEF UnitsGroup, ThousandsGroup, RestGroup, CentsGroup, Group
<1>3. \A groups, seps : Numeral(groups, seps).groups = groups
  BY DEF Numeral
<1> HIDE DEF w, u, c, k, r
<1>4. CASE x.style \in Whole /\ ~Parted(x)
  <2>1. w.groups = <<UnitsGroup(x)>>
    BY <1>3, <1>4, WrittenIs DEF w
  <2>2. Digits(w) = u
    BY <1>2, <2>1, DigitsOfOne
  <2>3. QED
    BY <1>4, <2>2, StylesDiffer DEF w, u
<1>5. CASE x.style \in Whole /\ Parted(x)
  <2>1. w.groups = <<ThousandsGroup(x), RestGroup(x)>>
    BY <1>3, <1>5, WrittenIs DEF w
  <2>2. Digits(w) = k * 10 ^ 3 + r
    BY <1>2, <2>1, DigitsOfTwo
  <2>3. Digits(w) = u
    BY <1>1, <2>2, Powers
  <2>4. QED
    BY <1>5, <2>3, StylesDiffer DEF w, u
<1>6. CASE x.style \in Documented /\ ~Parted(x)
  <2>1. w.groups = <<UnitsGroup(x), CentsGroup(x)>>
    BY <1>3, <1>6, WrittenIs DEF w
  <2>2. Digits(w) = u * 10 ^ 2 + c
    BY <1>2, <2>1, DigitsOfTwo
  <2>3. Digits(w) = x.amount
    BY <1>1, <2>2, Powers
  <2>4. QED
    BY <1>6, <2>3, StylesDiffer DEF w
<1>7. CASE x.style \in Documented /\ Parted(x)
  <2>1. w.groups = <<ThousandsGroup(x), RestGroup(x), CentsGroup(x)>>
    BY <1>3, <1>7, WrittenIs DEF w
  <2>2. Digits(w) = (ThousandsGroup(x).n * 10 ^ RestGroup(x).len + RestGroup(x).n) * 10 ^ CentsGroup(x).len
                      + CentsGroup(x).n
    BY <2>1, DigitsOfThree
  <2>3. Digits(w) = (k * 1000 + r) * 100 + c
    BY <1>2, <2>2, Powers
  <2>4. Digits(w) = x.amount
    BY <1>1, <2>3
  <2>5. QED
    BY <1>7, <2>4, StylesDiffer DEF w
<1>8. QED
  BY <1>4, <1>5, <1>6, <1>7

-----------------------------------------------------------------------------
(* Amounts as they are read                                                *)

\* A tuple is not empty and has a last element.
LEMMA TuplesLast ==
  /\ \A a : <<a>> # <<>> /\ Last(<<a>>) = a
  /\ \A a, b : <<a, b>> # <<>> /\ Last(<<a, b>>) = b
  /\ \A a, b, c : <<a, b, c>> # <<>> /\ Last(<<a, b, c>>) = c
  /\ \A a, b, c, d : <<a, b, c, d>> # <<>> /\ Last(<<a, b, c, d>>) = d
BY DEF Last

\* CountIs, separator by separator.
LEMMA CountsAre ==
  ASSUME NEW x, NEW s
  PROVE  /\ x.seps = <<>> => Count(x, s) = 0
         /\ \A a : x.seps = <<a>> => Count(x, s) = IF a = s THEN 1 ELSE 0
         /\ \A a, b : x.seps = <<a, b>> /\ a = s /\ b = s => Count(x, s) = 2
         /\ \A a, b : x.seps = <<a, b>> /\ a # s /\ b = s => Count(x, s) = 1
BY CountIs

\* The fields of a numeral.
LEMMA NumeralIs ==
  ASSUME NEW groups, NEW seps
  PROVE  Numeral(groups, seps).groups = groups /\ Numeral(groups, seps).seps = seps
BY DEF Numeral

\* What is written with a decimal separator is read as it is meant.
LEMMA StrictDocumented ==
  ASSUME NEW x \in Prices, x.style \in Documented
  PROVE  /\ ReadStrictly(Written(x)) = {x.amount * 10}
         /\ Last(Written(x).groups).len = 2
         /\ Count(Written(x), x.style[2]) = 1
<1> DEFINE w == Written(x)
           s == x.style[2]
<1>1. x.style[1] \in {"", ",", "."} /\ s \in {",", "."} /\ x.style[1] # s
  BY StylesDiffer
<1>2. CentsGroup(x).len = 2
  BY DEF CentsGroup, Group
<1> HIDE DEF w, s
<1>3. w.groups # <<>> /\ w.seps # <<>> /\ Last(w.groups) = CentsGroup(x) /\ Last(w.seps) = s /\ Count(w, s) = 1
  <2>1. CASE Parted(x)
    <3>1. w = Numeral(<<ThousandsGroup(x), RestGroup(x), CentsGroup(x)>>, <<x.style[1], s>>)
      BY <2>1, WrittenIs DEF w, s
    <3>2. w.groups = <<ThousandsGroup(x), RestGroup(x), CentsGroup(x)>> /\ w.seps = <<x.style[1], s>>
      BY <3>1, NumeralIs
    <3>3. Count(w, s) = 1
      BY <1>1, <3>2, CountsAre
    <3>4. QED
      BY <3>2, <3>3, TuplesLast
  <2>2. CASE ~Parted(x)
    <3>1. w = Numeral(<<UnitsGroup(x), CentsGroup(x)>>, <<s>>)
      BY <2>2, WrittenIs DEF w, s
    <3>2. w.groups = <<UnitsGroup(x), CentsGroup(x)>> /\ w.seps = <<s>>
      BY <3>1, NumeralIs
    <3>3. Count(w, s) = 1
      BY <3>2, CountsAre
    <3>4. QED
      BY <3>2, <3>3, TuplesLast
  <2>3. QED
    BY <2>1, <2>2
<1>4. ReadStrictly(w) = Fixed(w, 2)
  BY <1>2, <1>3 DEF ReadStrictly, DecimalsAfter, DecimalSeparator
<1>5. QED
  BY <1>2, <1>3, <1>4, FixedIs, DigitsWritten DEF w, s

\* A lone separator before three digits is taken for a decimal one.
LEMMA StrictWhole ==
  ASSUME NEW x \in Prices, x.style \in Whole
  PROVE  /\ Parted(x) => /\ ReadStrictly(Written(x)) = {Units(x)}
                         /\ Last(Written(x).groups).len = 3
                         /\ \A s : Count(Written(x), s) = IF x.style[1] = s THEN 1 ELSE 0
         /\ ~Parted(x) => /\ ReadStrictly(Written(x)) = {x.amount * 10}
                          /\ \A s : Count(Written(x), s) = 0
         /\ Fixed(Written(x), 0) = {x.amount * 10}
<1> DEFINE w == Written(x)
           u == Units(x)
<1>1. Digits(w) = u /\ u \in Nat
  BY DigitsWritten, AmountsAre
<1>2. RestGroup(x).len = 3
  BY DEF RestGroup, Group
<1>3. x.amount = u * 100
  BY AmountsAre
<1> HIDE DEF w, u
<1>4. Fixed(w, 0) = {x.amount * 10} /\ Fixed(w, 3) = {u}
  BY <1>1, <1>3, FixedIs
<1>5. CASE Parted(x)
  <2>1. w.groups = <<ThousandsGroup(x), RestGroup(x)>> /\ w.seps = <<x.style[1]>>
    <3>1. w = Numeral(<<ThousandsGroup(x), RestGroup(x)>>, <<x.style[1]>>)
      BY <1>5, WrittenIs DEF w
    <3>2. QED
      BY <3>1, NumeralIs
  <2>2. w.groups # <<>> /\ w.seps # <<>> /\ Last(w.groups) = RestGroup(x) /\ Last(w.seps) = x.style[1]
    BY <2>1, TuplesLast
  <2>3. \A s : Count(w, s) = IF x.style[1] = s THEN 1 ELSE 0
    BY <2>1, CountsAre
  <2>4. ReadStrictly(w) = Fixed(w, 3)
    BY <1>2, <2>2, <2>3 DEF ReadStrictly, DecimalsAfter, DecimalSeparator
  <2>5. QED
    BY <1>2, <1>4, <1>5, <2>2, <2>3, <2>4 DEF w, u
<1>6. CASE ~Parted(x)
  <2>1. w.groups = <<UnitsGroup(x)>> /\ w.seps = <<>>
    <3>1. w = Numeral(<<UnitsGroup(x)>>, <<>>)
      BY <1>6, WrittenIs DEF w
    <3>2. QED
      BY <3>1, NumeralIs
  <2>2. w.groups # <<>>
    BY <2>1, TuplesLast
  <2>3. \A s : Count(w, s) = 0
    BY <2>1, CountsAre
  <2>4. ReadStrictly(w) = Fixed(w, 0)
    BY <2>1, <2>2 DEF ReadStrictly
  <2>5. QED
    BY <1>4, <1>6, <2>3, <2>4 DEF w
<1>7. QED
  BY <1>5, <1>6

\* What is no number is not read.
LEMMA StrictNone ==
  ASSUME NEW x \in Prices, x.style \in {Torn, NoDigits}
  PROVE  /\ ReadStrictly(Written(x)) = {}
         /\ x.style = Torn => Written(x).groups # <<>> /\ Last(Written(x).groups).len = 2
         /\ x.style = NoDigits => \A s : Count(Written(x), s) = 0
<1> DEFINE w == Written(x)
<1>1. CentsGroup(x).len = 2
  BY DEF CentsGroup, Group
<1> HIDE DEF w
<1>2. CASE x.style = Torn
  <2>1. ASSUME NEW groups, NEW g, NEW h, w = Numeral(groups, <<",", ",">>),
               \/ groups = <<g, CentsGroup(x), CentsGroup(x)>>
               \/ groups = <<g, h, CentsGroup(x), CentsGroup(x)>>
        PROVE  w.groups # <<>> /\ Last(w.groups) = CentsGroup(x) /\ w.seps = <<",", ",">>
    <3>1. w.groups = groups /\ w.seps = <<",", ",">>
      BY <2>1, NumeralIs
    <3>2. groups # <<>> /\ Last(groups) = CentsGroup(x)
      <4>1. ASSUME NEW c
            PROVE  /\ <<g, c, c>> # <<>> /\ Last(<<g, c, c>>) = c
                   /\ <<g, h, c, c>> # <<>> /\ Last(<<g, h, c, c>>) = c
        BY TuplesLast
      <4>2. QED
        BY <2>1, <4>1
    <3>3. QED
      BY <3>1, <3>2
  <2>2. w.groups # <<>> /\ Last(w.groups) = CentsGroup(x) /\ w.seps = <<",", ",">>
    BY <1>2, <2>1, WrittenIs DEF w
  <2>3. \A s : w.seps = <<s, s>> => w.seps # <<>> /\ Last(w.seps) = s /\ Count(w, s) = 2
    BY TuplesLast, CountsAre
  <2>4. ReadStrictly(w) = {}
    <3>1. PICK s : w.seps = <<s, s>>
      BY <2>2
    <3>2. ReadStrictly(w) = DecimalsAfter(w, s) /\ Count(w, s) = 2
      BY <2>2, <2>3, <3>1 DEF ReadStrictly, DecimalSeparator
    <3>3. QED
      BY <3>2 DEF DecimalsAfter
  <2>5. x.style # NoDigits
    BY <1>2, StylesDiffer
  <2>6. QED
    BY <1>1, <2>2, <2>4, <2>5 DEF w
<1>3. CASE x.style = NoDigits
  <2>1. w.groups = <<>> /\ w.seps = <<>>
    <3>1. w = Numeral(<<>>, <<>>)
      BY <1>3, WrittenIs DEF w
    <3>2. QED
      BY <3>1, NumeralIs
  <2>2. x.style # Torn
    BY <1>3, StylesDiffer
  <2>3. \A s : Count(w, s) = 0
    BY <2>1, CountsAre
  <2>4. QED
    BY <2>1, <2>2, <2>3 DEF ReadStrictly, w
<1>4. QED
  BY <1>2, <1>3

\* A lone comma before three digits is no decimal one to some adapters.
LEMMA LooseIs ==
  ASSUME NEW x \in Prices
  PROVE  ReadLoosely(Written(x)) =
           IF x.style \in Whole /\ Parted(x) /\ x.style[1] = "," THEN {x.amount * 10}
           ELSE ReadStrictly(Written(x))
<1> DEFINE w == Written(x)
           len == Last(w.groups).len
           commas == Count(w, ",")
           dots == Count(w, ".")
<1>1. ReadLoosely(w) = IF dots = 0 /\ commas > 0 /\ len # 2 THEN Fixed(w, 0) ELSE ReadStrictly(w)
  BY DEF ReadLoosely
<1> SUFFICES ReadLoosely(w) =
               IF x.style \in Whole /\ Parted(x) /\ x.style[1] = "," THEN {x.amount * 10} ELSE ReadStrictly(w)
  OBVIOUS
<1>2. /\ x.style \in Documented => x.style \notin Whole /\ len = 2
      /\ x.style = Torn => x.style \notin Whole /\ len = 2
      /\ x.style = NoDigits => x.style \notin Whole /\ commas = 0
  <2>1. x.style \in Documented => len = 2
    BY StrictDocumented
  <2>2. /\ x.style = Torn => len = 2
        /\ x.style = NoDigits => commas = 0
    BY StrictNone
  <2>3. QED
    BY <2>1, <2>2, StylesDiffer
<1>3. ASSUME x.style \in Whole
      PROVE  /\ Fixed(w, 0) = {x.amount * 10}
             /\ ~Parted(x) => commas = 0
             /\ Parted(x) => /\ len = 3
                             /\ dots = IF x.style[1] = "." THEN 1 ELSE 0
                             /\ commas = IF x.style[1] = "," THEN 1 ELSE 0
  BY <1>3, StrictWhole
<1> HIDE DEF w, len, commas, dots
<1>4. CASE x.style \in Whole /\ Parted(x) /\ x.style[1] = ","
  <2>1. dots = 0 /\ commas = 1 /\ len = 3 /\ Fixed(w, 0) = {x.amount * 10}
    BY <1>3, <1>4
  <2>2. ReadLoosely(w) = Fixed(w, 0)
    BY <1>1, <2>1
  <2>3. QED
    BY <1>4, <2>1, <2>2
<1>5. CASE ~(x.style \in Whole /\ Parted(x) /\ x.style[1] = ",")
  <2>1. x.style \in Documented \cup Whole \cup {Torn, NoDigits}
    BY AmountsAre DEF Styles
  <2>2. dots # 0 \/ commas = 0 \/ len = 2
    <3>1. CASE x.style \in Whole
      <4>1. x.style[1] \in {"", ",", "."} /\ (Parted(x) => x.style[1] \in {",", "."})
        BY <3>1, StylesDiffer DEF Parted
      <4>2. QED
        BY <1>3, <1>5, <3>1, <4>1
    <3>2. CASE x.style \notin Whole
      BY <1>2, <2>1, <3>2
    <3>3. QED
      BY <3>1, <3>2
  <2>3. ReadLoosely(w) = ReadStrictly(w)
    BY <1>1, <2>2
  <2>4. QED
    BY <1>5, <2>3
<1>6. QED
  BY <1>4, <1>5

-----------------------------------------------------------------------------
(* Elements of a page                                                      *)

\* Of some positions one is the first.
LEMMA SmallestExists ==
  ASSUME NEW J, J \subseteq Nat, J # {}
  PROVE  \E j \in J : \A k \in J : j <= k
<1> DEFINE Less == {ss \in Nat \X Nat : ss[1] < ss[2]}
<1>1. IsWellFoundedOn(Less, Nat)
  BY NatLessThanWellFounded DEF OpToRel
<1> HIDE DEF Less
<1>2. PICK j \in J : \A k \in J : <<k, j>> \notin Less
  BY <1>1, WFMin
<1>3. \A k \in J : ~(k < j)
  BY <1>2 DEF Less
<1>4. QED
  BY <1>2, <1>3

\* The first elements at the positions of a set, one or none.
FirstAt(s, J) == {s[i] : i \in {j \in J : \A k \in 1 .. j - 1 : k \notin J}}

\* The first element at some positions is one of them, and the only one.
LEMMA FirstAtIs ==
  ASSUME NEW S, NEW s \in Seq(S), NEW J, J \subseteq DOMAIN s
  PROVE  /\ \A e \in FirstAt(s, J) : e \in S /\ \E j \in J : e = s[j]
         /\ AtMostOne(FirstAt(s, J))
         /\ J # {} => FirstAt(s, J) # {}
<1>1. DOMAIN s = 1..Len(s) /\ Len(s) \in Nat /\ \A j \in DOMAIN s : s[j] \in S
  OBVIOUS
<1>2. \A e \in FirstAt(s, J) : e \in S /\ \E j \in J : e = s[j]
  BY <1>1 DEF FirstAt
<1>3. AtMostOne(FirstAt(s, J))
  <2>1. ASSUME NEW i \in J, NEW j \in J,
               \A k \in 1 .. i - 1 : k \notin J, \A k \in 1 .. j - 1 : k \notin J
        PROVE  i = j
    <3>1. i \in Nat /\ j \in Nat /\ 1 <= i /\ 1 <= j
      BY <1>1
    <3>2. ~(i < j) /\ ~(j < i)
      BY <2>1, <3>1
    <3>3. QED
      BY <3>1, <3>2
  <2>2. QED
    BY <2>1 DEF FirstAt, AtMostOne
<1>4. ASSUME J # {}
      PROVE  FirstAt(s, J) # {}
  <2>1. J \subseteq Nat
    BY <1>1
  <2>2. PICK j \in J : \A k \in J : j <= k
    BY <1>4, <2>1, SmallestExists
  <2>3. \A k \in 1 .. j - 1 : k \notin J
    BY <2>1, <2>2
  <2>4. QED
    BY <2>3 DEF FirstAt
<1>5. QED
  BY <1>2, <1>3, <1>4

\* The first element of a sequence is one of it, and the only one.
LEMMA FirstOfIs ==
  ASSUME NEW S, NEW s \in Seq(S)
  PROVE  /\ \A e \in FirstOf(s) : e \in S /\ \E j \in DOMAIN s : e = s[j]
         /\ AtMostOne(FirstOf(s))
BY DEF FirstOf, AtMostOne

\* The amounts of a price element.
LEMMA ShownIs ==
  ASSUME NEW e \in Elements
  PROVE  /\ e.pen \o e.after \in Seq(Prices)
         /\ CashText(e) \in Seq(Prices)
         /\ Shown(e) \subseteq Prices
         /\ Range(CashText(e)) \subseteq Shown(e)
<1>1. e.pen \in Seq(Prices) /\ e.after \in Seq(Prices)
  BY DEF Elements
<1>2. e.pen \o e.after \in Seq(Prices)
  BY <1>1, ConcatProperties
<1>3. \A s \in Seq(Prices) : Range(s) \subseteq Prices
  BY DEF Range
<1>4. Range(e.pen) \subseteq Range(e.pen \o e.after)
  BY <1>1, RangeConcatenation
<1>5. QED
  BY <1>1, <1>2, <1>3, <1>4 DEF CashText, Shown

\* The first amount of a price element is one it shows.
LEMMA FirstAmountIs ==
  ASSUME NEW e \in Elements
  PROVE  /\ FirstAmount(e) \subseteq Prices /\ FirstAmount(e) \subseteq Shown(e)
         /\ AtMostOne(FirstAmount(e))
<1> DEFINE s == e.pen \o e.after
           J == {j \in DOMAIN s : s[j].style # NoDigits}
<1>1. s \in Seq(Prices)
  BY ShownIs
<1>2. FirstAmount(e) = FirstAt(s, J)
  <2>1. FirstAmount(e) = {s[i] : i \in {j \in DOMAIN s : s[j].style # NoDigits /\ \A k \in 1 .. j - 1 : ~(s[k].style # NoDigits)}}
    BY DEF FirstAmount, FirstThat
  <2> HIDE DEF s
  <2>2. DOMAIN s = 1..Len(s) /\ Len(s) \in Nat
    BY <1>1
  <2>3. \A j \in DOMAIN s : \A k \in 1 .. j - 1 : k \in DOMAIN s
    BY <2>2
  <2>4. QED
    BY <2>1, <2>3 DEF FirstAt
<1> HIDE DEF s
<1>3. /\ \A x \in FirstAt(s, J) : x \in Prices /\ \E j \in J : x = s[j]
      /\ AtMostOne(FirstAt(s, J))
  BY <1>1, FirstAtIs
<1>4. QED
  BY <1>2, <1>3 DEF Shown, Range, s

-----------------------------------------------------------------------------
(* Values                                                                  *)

\* What an adapter can make of an amount: its value or, where a whole amount has
\* a separator that is taken for a decimal one, less than a thousand.
Values == {v \in Nat : v % 10 = 0 \/ (1000 <= v /\ v <= UnitsBound)}

\* Every amount is read as one of the Values, if at all.
LEMMA ReadValues ==
  ASSUME NEW x \in Prices
  PROVE  ReadStrictly(Written(x)) \subseteq Values /\ ReadLoosely(Written(x)) \subseteq Values
<1>1. x.amount \in Nat /\ Units(x) \in Nat /\ Units(x) <= UnitsBound
  BY AmountsAre
<1>2. x.amount * 10 \in Values
  <2>1. x.amount * 10 \in Nat /\ (x.amount * 10) % 10 = 0
    BY <1>1
  <2>2. QED
    BY <2>1 DEF Values
<1>3. Parted(x) => Units(x) \in Values
  BY <1>1 DEF Parted, Values
<1>4. ReadStrictly(Written(x)) \subseteq Values
  <2>1. CASE x.style \in Documented
    BY <1>2, <2>1, StrictDocumented
  <2>2. CASE x.style \in Whole
    BY <1>2, <1>3, <2>2, StrictWhole
  <2>3. CASE x.style \in {Torn, NoDigits}
    BY <2>3, StrictNone
  <2>4. QED
    BY <2>1, <2>2, <2>3, AmountsAre DEF Styles
<1>5. QED
  BY <1>2, <1>4, LooseIs

\* The components of a pair.
LEMMA PairIs == \A s, a, b : s = <<a, b>> => s[1] = a /\ s[2] = b
OBVIOUS

\* An amount in a way to write it that is supported is read as it is meant or not.
LEMMA SupportedIsRead ==
  ASSUME NEW x \in Prices
  PROVE  /\ x.style \in Documented \cup {<<"", "">>, Torn, NoDigits} =>
              ReadStrictly(Written(x)) \subseteq {x.amount * 10}
         /\ x.style \in Documented \cup {<<"", "">>, Torn, NoDigits} \cup {<<",", "">>} =>
              ReadLoosely(Written(x)) \subseteq {x.amount * 10}
<1>1. x.style \in Documented => ReadStrictly(Written(x)) \subseteq {x.amount * 10}
  BY StrictDocumented
<1>2. x.style \in {Torn, NoDigits} => ReadStrictly(Written(x)) \subseteq {x.amount * 10}
  BY StrictNone
<1>3. x.style = <<"", "">> => ReadStrictly(Written(x)) \subseteq {x.amount * 10}
  <2>1. ASSUME x.style = <<"", "">>
        PROVE  x.style \in Whole /\ ~Parted(x)
    <3>1. x.style \in Whole
      BY <2>1 DEF Whole
    <3>2. x.style[1] = ""
      BY <2>1, PairIs
    <3>3. QED
      BY <3>1, <3>2 DEF Parted
  <2>2. QED
    BY <2>1, StrictWhole
<1>4. x.style = <<",", "">> => ReadLoosely(Written(x)) \subseteq {x.amount * 10}
  <2>1. ASSUME x.style = <<",", "">>
        PROVE  x.style \in Whole /\ x.style[1] = ","
    <3>1. x.style \in Whole
      BY <2>1 DEF Whole
    <3>2. QED
      BY <2>1, <3>1, PairIs
  <2>2. QED
    BY <2>1, StrictWhole, LooseIs
<1>5. ReadLoosely(Written(x)) \subseteq {x.amount * 10} \cup ReadStrictly(Written(x))
  BY LooseIs
<1>6. QED
  BY <1>1, <1>2, <1>3, <1>4, <1>5

-----------------------------------------------------------------------------
(* What the adapters read                                                  *)

\* The pages of a store.
WellFormed(p) == p \in Pages /\ AtMostOne(p.offer) /\ \A o \in p.offer : AtMostOne(o.price)
NoCards(p) == \A i \in DOMAIN p.prices : ~p.prices[i].card

\* The parts of Regular.
StrictStyles == Documented \cup {<<"", "">>, Torn, NoDigits}
LooseStyles == StrictStyles \cup {<<",", "">>}
Legible(p, styles) ==
  \A x \in OfferPrice(p) \cup UNION {Shown(e) : e \in Range(p.prices)} : x.style \in styles
Priced(p) == \A o \in p.offer : o.currency # "none" => o.price # {}

IsPublished(r, p) == \E x \in Published(p) : r.price = x.price /\ r.currency = x.currency

\* A result with a published price in its currency.
LEMMA PublishedWhen ==
  ASSUME NEW r, NEW p, [price |-> r.price, currency |-> r.currency] \in Published(p)
  PROVE  IsPublished(r, p)
BY DEF IsPublished

\* A page makes at most one offer, of Prices.
LEMMA OfferIs ==
  ASSUME NEW p, WellFormed(p)
  PROVE  /\ OfferPrice(p) \subseteq Prices /\ AtMostOne(OfferPrice(p)) /\ AtMostOne(OfferCurrency(p))
         /\ Priced(p) /\ OfferPrice(p) = {} => OfferCurrency(p) = {}
<1>1. \A o \in p.offer : o.price \subseteq Prices
  BY DEF WellFormed, Pages
<1>2. AtMostOne(p.offer) /\ \A o \in p.offer : AtMostOne(o.price)
  BY DEF WellFormed
<1>3. OfferPrice(p) \subseteq Prices
  BY <1>1 DEF OfferPrice
<1>4. AtMostOne(OfferPrice(p)) /\ AtMostOne(OfferCurrency(p))
  BY <1>2 DEF OfferPrice, OfferCurrency, AtMostOne
<1>5. ASSUME Priced(p), OfferPrice(p) = {}
      PROVE  OfferCurrency(p) = {}
  BY <1>5 DEF Priced, OfferPrice, OfferCurrency
<1>6. QED
  BY <1>3, <1>4, <1>5

\* The price elements of a page.
LEMMA ElementsAre ==
  ASSUME NEW p, WellFormed(p)
  PROVE  p.prices \in Seq(Elements) /\ \A e \in Range(p.prices) : e \in Elements
<1>1. p.prices \in Seq(Elements)
  BY DEF WellFormed, Pages
<1>2. QED
  BY <1>1, RangeOfSeq

\* The amount of an offer is published.
LEMMA OfferPublished ==
  ASSUME NEW p, NEW x \in OfferPrice(p)
  PROVE  [price |-> {x.amount * 10}, currency |-> First(OfferCurrency(p), {"PEN"})] \in Published(p)
BY DEF Published

\* So is an amount that an element about cash shows before words about cards.
LEMMA CashPublished ==
  ASSUME NEW p, NEW e \in Range(p.prices), Cash(e), NEW x \in Range(CashText(e))
  PROVE  [price |-> {x.amount * 10}, currency |-> {"PEN"}] \in Published(p)
BY DEF Published

\* So is any amount of an element without such words.
LEMMA ShownPublished ==
  ASSUME NEW p, NEW e \in Range(p.prices), ~e.card, NEW x \in Shown(e)
  PROVE  [price |-> {x.amount * 10}, currency |-> {"PEN"}] \in Published(p)
<1>1. Cash(e) /\ Shown(e) = Range(CashText(e))
  BY DEF Cash, Shown, CashText
<1>2. QED
  BY <1>1, CashPublished

\* What is read of at most one amount.
LEMMA OneIsRead ==
  ASSUME NEW A, A \subseteq Prices, AtMostOne(A), NEW v, v = UNION {ReadLoosely(Written(x)) : x \in A}
  PROVE  /\ v \subseteq Values
         /\ (\A x \in A : x.style \in LooseStyles) /\ v # {} => \E x \in A : v = {x.amount * 10}
<1>1. v \subseteq Values
  BY ReadValues
<1>2. ASSUME \A x \in A : x.style \in LooseStyles, v # {}
      PROVE  \E x \in A : v = {x.amount * 10}
  <2>1. PICK x \in A : ReadLoosely(Written(x)) # {}
    BY <1>2
  <2>2. A = {x}
    BY DEF AtMostOne
  <2>3. v = ReadLoosely(Written(x))
    BY <2>2
  <2>4. ReadLoosely(Written(x)) \subseteq {x.amount * 10}
    <3>1. x \in Prices /\ x.style \in LooseStyles
      BY <1>2
    <3>2. QED
      BY <3>1, SupportedIsRead DEF LooseStyles, StrictStyles
  <2>5. QED
    BY <2>1, <2>3, <2>4
<1>3. QED
  BY <1>1, <1>2

\* What passes the checks is what was passed to them.
LEMMA ResultIs ==
  ASSUME NEW price, NEW currency, NEW availability
  PROVE  /\ Result(price, currency, availability).price \subseteq price
         /\ Result(price, currency, availability).price # {} =>
              /\ Result(price, currency, availability).price = price
              /\ Result(price, currency, availability).currency = {currency}
BY DEF Result, Fatal

\* An error has no price.
LEMMA FatalIs == Fatal.price = {}
BY DEF Fatal

\* A dot is no value.
LEMMA DotIs ==
  /\ Dot \in Prices /\ Dot.style \in LooseStyles
  /\ ReadLoosely(Written(Dot)) = {}
<1>1. Dot.amount = 0 /\ Dot.style = NoDigits
  BY DEF Dot
<1>2. NoDigits \in Styles /\ NoDigits \in LooseStyles
  BY DEF Styles, LooseStyles, StrictStyles
<1>3. NoDigits \notin Whole
  BY DEF Whole, NoDigits
<1>4. 0 \in 0..Largest
  <2>1. Largest \in Nat
    BY SMT DEF Largest
  <2>2. QED
    BY <2>1
<1>5. Dot \in [amount : 0..Largest, style : Styles]
  BY <1>2, <1>4 DEF Dot
<1>6. Dot \in Prices
  BY <1>1, <1>3, <1>5 DEF Prices
<1>7. QED
  BY <1>1, <1>2, <1>3, <1>6, LooseIs, StrictNone

\* What Necs and Memory Kings take from a price element is an amount it shows, or
\* a dot.
LEMMA LooseAmountIs ==
  ASSUME NEW e \in Elements
  PROVE  /\ LooseAmount(e) \subseteq Prices /\ AtMostOne(LooseAmount(e))
         /\ \A x \in LooseAmount(e) : x = Dot \/ x \in Shown(e)
BY DotIs, FirstAmountIs DEF LooseAmount, AtMostOne

\* NECS: the price of the offer, else the first amount of the first element.
LEMMA NecsReads ==
  ASSUME NEW p, WellFormed(p), NoCards(p)
  PROVE  /\ Necs(p).price \subseteq Values
         /\ Legible(p, LooseStyles) /\ Priced(p) /\ Necs(p).price # {} => IsPublished(Necs(p), p)
<1> DEFINE shown == UNION {LooseAmount(e) : e \in FirstOf(p.prices)}
           price == First(OfferPrice(p), shown)
           stock == First(OfferStock(p), StockText(p))
           currency == CHOOSE c \in First(OfferCurrency(p), {"PEN"}) : TRUE
           read == UNION {ReadLoosely(Written(x)) : x \in price}
           value == Positive(read)
<1>1. Necs(p) = IF Unstructured(p, price, stock) \/ currency \notin {"PEN", "USD"}
                THEN Fatal ELSE Result(value, currency, NecsAvailability(stock))
  BY DEF Necs
<1>2. /\ \A e \in FirstOf(p.prices) : e \in Elements /\ e \in Range(p.prices) /\ ~e.card
      /\ AtMostOne(FirstOf(p.prices))
  <2>1. /\ \A e \in FirstOf(p.prices) : e \in Elements /\ \E j \in DOMAIN p.prices : e = p.prices[j]
        /\ AtMostOne(FirstOf(p.prices))
    BY ElementsAre, FirstOfIs
  <2>2. QED
    BY <2>1 DEF NoCards, Range
<1>3. /\ shown \subseteq Prices /\ AtMostOne(shown)
      /\ \A x \in shown : x = Dot \/ \E e \in Range(p.prices) : ~e.card /\ x \in Shown(e)
  <2>1. \A e \in FirstOf(p.prices) : LooseAmount(e) \subseteq Prices
                                     /\ AtMostOne(LooseAmount(e))
                                     /\ \A x \in LooseAmount(e) : x = Dot \/ x \in Shown(e)
    BY <1>2, LooseAmountIs
  <2>2. QED
    BY <1>2, <2>1 DEF AtMostOne
<1>4. price \subseteq Prices /\ AtMostOne(price)
  BY <1>3, OfferIs DEF First
<1>5. Necs(p).price \subseteq read
  BY <1>1, ResultIs, FatalIs DEF Positive
<1>6. read \subseteq Values
  BY <1>4, OneIsRead
<1>7. ASSUME Legible(p, LooseStyles), Priced(p), Necs(p).price # {}
      PROVE  IsPublished(Necs(p), p)
  <2>1. Necs(p).price = value /\ Necs(p).currency = {currency}
    <3> HIDE DEF value, currency, stock, price
    <3>1. QED
      BY <1>1, <1>7, ResultIs, FatalIs
  <2>2. \A x \in price : x.style \in LooseStyles
    BY <1>3, <1>7, DotIs DEF Legible, First
  <2>3. value # {} /\ value \subseteq read
    BY <1>7, <2>1 DEF Positive
  <2>4. PICK x \in price : read = {x.amount * 10}
    BY <1>4, <2>2, <2>3, OneIsRead
  <2>9. x # Dot
    BY <1>4, <2>4, DotIs DEF AtMostOne
  <2>5. Necs(p).price = {x.amount * 10}
    BY <2>1, <2>3, <2>4
  <2>6. CASE OfferPrice(p) # {}
    <3>1. x \in OfferPrice(p)
      BY <2>6 DEF First
    <3>2. First(OfferCurrency(p), {"PEN"}) = {currency}
      BY OfferIs DEF First, AtMostOne
    <3>3. QED
      <4> HIDE DEF currency
      <4>1. [price |-> Necs(p).price, currency |-> Necs(p).currency] \in Published(p)
        BY <2>1, <2>5, <3>1, <3>2, OfferPublished
      <4>2. QED
        BY <4>1, PublishedWhen
  <2>7. CASE OfferPrice(p) = {}
    <3>1. PICK e \in Range(p.prices) : ~e.card /\ x \in Shown(e)
      BY <1>3, <2>7, <2>9 DEF First
    <3>2. currency = "PEN"
      BY <1>7, <2>7, OfferIs DEF First
    <3>3. QED
      <4> HIDE DEF currency
      <4>1. [price |-> Necs(p).price, currency |-> Necs(p).currency] \in Published(p)
        BY <2>1, <2>5, <3>1, <3>2, ShownPublished
      <4>2. QED
        BY <4>1, PublishedWhen
  <2>8. QED
    BY <2>6, <2>7
<1>8. QED
  BY <1>5, <1>6, <1>7

\* The positions of a sequence that pass a test.
LEMMA FirstAtThat ==
  ASSUME NEW S, NEW s \in Seq(S), NEW J, J \subseteq DOMAIN s
  PROVE  FirstAt(s, J) = {s[i] : i \in {j \in DOMAIN s : j \in J /\ \A k \in 1 .. j - 1 : k \in DOMAIN s => k \notin J}}
<1>1. DOMAIN s = 1..Len(s) /\ Len(s) \in Nat
  OBVIOUS
<1>2. \A j \in DOMAIN s : \A k \in 1 .. j - 1 : k \in DOMAIN s
  BY <1>1
<1>3. QED
  BY <1>2 DEF FirstAt

\* Memory Kings: the price of the offer, else the first amount there is.
LEMMA MemoryKingsReads ==
  ASSUME NEW p, WellFormed(p), NoCards(p)
  PROVE  /\ MemoryKings(p).price \subseteq Values
         /\ Legible(p, LooseStyles) /\ MemoryKings(p).price # {} => IsPublished(MemoryKings(p), p)
<1> DEFINE offered == OfferPrice(p)
           first == FirstThat(p.prices, LAMBDA e : LooseAmount(e) # {})
           shown == UNION {LooseAmount(e) : e \in first}
           price == First(offered, shown)
           stock == First(OfferStock(p), StockText(p))
           currency == IF offered = {} /\ price # {} THEN {"PEN"} ELSE First(OfferCurrency(p), {"PEN"})
           read == UNION {ReadLoosely(Written(x)) : x \in price}
           value == Positive(read)
<1>1. MemoryKings(p) = IF \/ Unstructured(p, price, stock)
                          \/ currency # {"PEN"}
                          \/ price # {} /\ read = {}
                       THEN Fatal ELSE Result(value, "PEN", MemoryKingsAvailability(stock))
  BY DEF MemoryKings
<1>2. /\ \A e \in first : e \in Elements /\ e \in Range(p.prices) /\ ~e.card
      /\ AtMostOne(first)
  <2> DEFINE J == {j \in DOMAIN p.prices : LooseAmount(p.prices[j]) # {}}
  <2>1. p.prices \in Seq(Elements) /\ J \subseteq DOMAIN p.prices
    BY ElementsAre
  <2>2. first = FirstAt(p.prices, J)
    <3>1. FirstAt(p.prices, J) =
            {p.prices[i] : i \in {j \in DOMAIN p.prices :
                                    j \in J /\ \A k \in 1 .. j - 1 : k \in DOMAIN p.prices => k \notin J}}
      <4> HIDE DEF J, first
      <4>1. QED
        BY <2>1, FirstAtThat
    <3>2. DOMAIN p.prices = 1..Len(p.prices) /\ Len(p.prices) \in Nat
      BY <2>1
    <3>3. \A j \in DOMAIN p.prices : \A k \in 1 .. j - 1 : k \in DOMAIN p.prices
      BY <3>2
    <3>4. {j \in DOMAIN p.prices :
             LooseAmount(p.prices[j]) # {} /\ \A k \in 1 .. j - 1 : ~(LooseAmount(p.prices[k]) # {})}
          = {j \in DOMAIN p.prices :
               j \in J /\ \A k \in 1 .. j - 1 : k \in DOMAIN p.prices => k \notin J}
      BY ZenonT(40), <3>3
    <3>5. QED
      BY ZenonT(40), <3>1, <3>4 DEF FirstThat
  <2> HIDE DEF J, first
  <2>3. /\ \A e \in first : e \in Elements /\ \E j \in J : e = p.prices[j]
        /\ AtMostOne(first)
    BY <2>1, <2>2, FirstAtIs
  <2>4. QED
    BY <2>1, <2>3 DEF NoCards, Range
<1> HIDE DEF first
<1>3. /\ shown \subseteq Prices /\ AtMostOne(shown)
      /\ \A x \in shown : x = Dot \/ \E e \in Range(p.prices) : ~e.card /\ x \in Shown(e)
  <2>1. \A e \in first : LooseAmount(e) \subseteq Prices
                         /\ AtMostOne(LooseAmount(e))
                         /\ \A x \in LooseAmount(e) : x = Dot \/ x \in Shown(e)
    BY <1>2, LooseAmountIs
  <2>2. QED
    BY <1>2, <2>1 DEF AtMostOne
<1>4. price \subseteq Prices /\ AtMostOne(price)
  BY <1>3, OfferIs DEF First
<1>5. MemoryKings(p).price \subseteq read
  <2> HIDE DEF currency, stock, price, read
  <2>1. QED
    BY <1>1, ResultIs, FatalIs DEF Positive
<1>6. read \subseteq Values
  BY <1>4, OneIsRead
<1>7. ASSUME Legible(p, LooseStyles), MemoryKings(p).price # {}
      PROVE  IsPublished(MemoryKings(p), p)
  <2>1. MemoryKings(p).price = value /\ MemoryKings(p).currency = {"PEN"} /\ currency = {"PEN"}
    <3> HIDE DEF value, currency, stock, price, read
    <3>1. QED
      BY <1>1, <1>7, ResultIs, FatalIs
  <2>2. \A x \in price : x.style \in LooseStyles
    BY <1>3, <1>7, DotIs DEF Legible, First
  <2>3. value # {} /\ value \subseteq read
    BY <1>7, <2>1 DEF Positive
  <2>4. PICK x \in price : read = {x.amount * 10}
    BY <1>4, <2>2, <2>3, OneIsRead
  <2>9. x # Dot
    BY <1>4, <2>4, DotIs DEF AtMostOne
  <2>5. MemoryKings(p).price = {x.amount * 10}
    BY <2>1, <2>3, <2>4
  <2>6. [price |-> MemoryKings(p).price, currency |-> MemoryKings(p).currency] \in Published(p)
    <3>1. CASE offered # {}
      <4>1. x \in OfferPrice(p) /\ First(OfferCurrency(p), {"PEN"}) = {"PEN"}
        BY <2>1, <3>1 DEF First
      <4>2. QED
        BY <2>1, <2>5, <4>1, OfferPublished
    <3>2. CASE offered = {}
      <4>1. PICK e \in Range(p.prices) : ~e.card /\ x \in Shown(e)
        BY <1>3, <2>9, <3>2 DEF First
      <4>2. QED
        BY <2>1, <2>5, <4>1, ShownPublished
    <3>3. QED
      BY <3>1, <3>2
  <2>7. QED
    BY <2>6, PublishedWhen
<1>8. QED
  BY <1>5, <1>6, <1>7

\* Sercoplus: the first element that can be read.
LEMMA SercoplusReads ==
  ASSUME NEW p, WellFormed(p), NoCards(p)
  PROVE  /\ Sercoplus(p).price \subseteq Values
         /\ Legible(p, LooseStyles) /\ Sercoplus(p).price # {} => IsPublished(Sercoplus(p), p)
<1> DEFINE availability == SercoplusAvailability(p)
           Read(e) == UNION {ReadLoosely(Written(x)) : x \in FirstAmount(e)}
           first == FirstThat(p.prices, LAMBDA e : Read(e) # {})
           value == UNION {Read(e) : e \in first}
           chosen == CHOOSE a \in First(availability, {"in_stock"}) : TRUE
<1>1. Sercoplus(p) = IF \/ ~p.named /\ value = {} /\ availability = {}
                        \/ value # {} /\ Positive(value) = {}
                     THEN Fatal ELSE Result(value, "PEN", chosen)
  BY DEF Sercoplus
<1>2. /\ \A e \in first : e \in Elements /\ e \in Range(p.prices) /\ ~e.card
      /\ AtMostOne(first)
  <2> DEFINE J == {j \in DOMAIN p.prices : Read(p.prices[j]) # {}}
  <2>1. p.prices \in Seq(Elements) /\ J \subseteq DOMAIN p.prices
    BY ElementsAre
  <2>2. first = FirstAt(p.prices, J)
    <3>1. FirstAt(p.prices, J) =
            {p.prices[i] : i \in {j \in DOMAIN p.prices :
                                    j \in J /\ \A k \in 1 .. j - 1 : k \in DOMAIN p.prices => k \notin J}}
      BY <2>1, FirstAtThat
    <3>2. DOMAIN p.prices = 1..Len(p.prices) /\ Len(p.prices) \in Nat
      BY <2>1
    <3>3. \A j \in DOMAIN p.prices : \A k \in 1 .. j - 1 : k \in DOMAIN p.prices
      BY <3>2
    <3> HIDE DEF Read
    <3>4. QED
      BY <3>1, <3>3 DEF FirstThat
  <2> HIDE DEF J, first
  <2>3. /\ \A e \in first : e \in Elements /\ \E j \in J : e = p.prices[j]
        /\ AtMostOne(first)
    BY <2>1, <2>2, FirstAtIs
  <2>4. QED
    BY <2>1, <2>3 DEF NoCards, Range
<1> HIDE DEF first
<1>3. \A e \in first : FirstAmount(e) \subseteq Prices /\ FirstAmount(e) \subseteq Shown(e)
                       /\ AtMostOne(FirstAmount(e))
  BY <1>2, FirstAmountIs
<1>4. Sercoplus(p).price \subseteq value
  BY <1>1, ResultIs, FatalIs
<1>5. value \subseteq Values
  <2>1. \A e \in first : Read(e) \subseteq Values
    BY <1>3, OneIsRead
  <2>2. QED
    BY <2>1
<1>6. ASSUME Legible(p, LooseStyles), Sercoplus(p).price # {}
      PROVE  IsPublished(Sercoplus(p), p)
  <2>1. Sercoplus(p).price = value /\ Sercoplus(p).currency = {"PEN"}
    <3> HIDE DEF value, availability, chosen
    <3>1. QED
      BY <1>1, <1>6, ResultIs, FatalIs
  <2>2. PICK e \in first : Read(e) # {}
    BY <1>6, <2>1
  <2>3. first = {e}
    BY <1>2 DEF AtMostOne
  <2>4. value = Read(e)
    BY <2>3
  <2>5. e \in Elements /\ e \in Range(p.prices) /\ ~e.card
    BY <1>2
  <2>6. \A x \in FirstAmount(e) : x.style \in LooseStyles
    BY <1>3, <1>6, <2>5 DEF Legible
  <2>7. PICK x \in FirstAmount(e) : Read(e) = {x.amount * 10}
    BY <1>3, <2>2, <2>6, OneIsRead
  <2>8. [price |-> Sercoplus(p).price, currency |-> Sercoplus(p).currency] \in Published(p)
    <3> HIDE DEF value, Read
    <3>1. x \in Shown(e)
      BY <1>3
    <3>2. [price |-> {x.amount * 10}, currency |-> {"PEN"}] \in Published(p)
      BY <2>5, <3>1, ShownPublished
    <3>3. QED
      BY <2>1, <2>4, <2>7, <3>2
  <2>9. QED
    BY <2>8, PublishedWhen
<1>7. QED
  BY <1>4, <1>5, <1>6

\* parse_pen_price of some amounts.
LEMMA ParsePenPriceIs ==
  ASSUME NEW t \in Seq(Prices)
  PROVE  /\ ParsePenPrice(t) \subseteq Values
         /\ (\A x \in Range(t) : x.style \in StrictStyles) /\ ParsePenPrice(t) # {} =>
              \E x \in Range(t) : ParsePenPrice(t) = {x.amount * 10}
<1> DEFINE numerals == {Written(t[i]) : i \in DOMAIN t}
           candidates == {x \in numerals : x.groups # <<>>}
           values == UNION {ReadStrictly(x) : x \in candidates}
<1>1. /\ ParsePenPrice(t) \subseteq values
      /\ ParsePenPrice(t) # {} => \E v \in values : values = {v}
  BY DEF ParsePenPrice
<1>2. \A i \in DOMAIN t : t[i] \in Prices /\ t[i] \in Range(t)
  BY DEF Range
<1>3. \A v \in values : \E x \in Range(t) : x \in Prices /\ v \in ReadStrictly(Written(x))
  BY <1>2
<1> HIDE DEF values
<1>4. ParsePenPrice(t) \subseteq Values
  BY <1>1, <1>3, ReadValues
<1>5. ASSUME \A x \in Range(t) : x.style \in StrictStyles, ParsePenPrice(t) # {}
      PROVE  \E x \in Range(t) : ParsePenPrice(t) = {x.amount * 10}
  <2>1. PICK v \in values : values = {v}
    BY <1>1, <1>5
  <2>2. PICK x \in Range(t) : x \in Prices /\ v \in ReadStrictly(Written(x))
    BY <1>3
  <2>3. v = x.amount * 10
    BY <1>5, <2>2, SupportedIsRead DEF StrictStyles
  <2>4. ParsePenPrice(t) = {v}
    BY <1>1, <1>5, <2>1
  <2>5. QED
    BY <2>2, <2>3, <2>4
<1>6. QED
  BY <1>4, <1>5

\* A PrestaShop page has a current-price element that is about cash before the
\* others, or one that does not speak of cards.
CashFirst(p) ==
  \A e \in FirstThat(p.prices, LAMBDA x : x.current) :
    Cash(e) \/ \E f \in Range(p.prices) : f.current /\ ~f.card

\* The price element that is chosen.
LEMMA CashElementIs ==
  ASSUME NEW p, WellFormed(p)
  PROVE  /\ \A e \in CashElement(p) : e \in Elements /\ e \in Range(p.prices)
         /\ AtMostOne(CashElement(p))
         /\ CashFirst(p) => \A e \in CashElement(p) : Cash(e)
<1> DEFINE s == p.prices
           JCash == {j \in DOMAIN s : s[j].current /\ ~s[j].card}
           JCurrent == {j \in DOMAIN s : s[j].current}
           JOther == {j \in DOMAIN s : ~s[j].card /\ s[j].pen # <<>>}
           cash == FirstThat(s, LAMBDA e : e.current /\ ~e.card)
           current == FirstThat(s, LAMBDA e : e.current)
           other == FirstThat(s, LAMBDA e : ~e.card /\ e.pen # <<>>)
<1>1. s \in Seq(Elements) /\ JCash \subseteq DOMAIN s /\ JCurrent \subseteq DOMAIN s /\ JOther \subseteq DOMAIN s
  BY ElementsAre
<1>2. cash = FirstAt(s, JCash) /\ current = FirstAt(s, JCurrent) /\ other = FirstAt(s, JOther)
  <2>1. DOMAIN s = 1..Len(s) /\ Len(s) \in Nat
    BY <1>1
  <2>2. \A j \in DOMAIN s : \A k \in 1 .. j - 1 : k \in DOMAIN s
    BY <2>1
  <2>3. cash = FirstAt(s, JCash)
    BY <2>2 DEF FirstThat, FirstAt
  <2>4. current = FirstAt(s, JCurrent)
    BY <2>2 DEF FirstThat, FirstAt
  <2>5. other = FirstAt(s, JOther)
    BY <2>2 DEF FirstThat, FirstAt
  <2>6. QED
    BY <2>3, <2>4, <2>5
<1>3. CashElement(p) = First(cash, First(current, other))
  BY DEF CashElement
<1>4. CashFirst(p) => \A e \in current : Cash(e) \/ \E f \in Range(s) : f.current /\ ~f.card
  BY DEF CashFirst
<1> HIDE DEF cash, current, other
<1>5. /\ \A e \in cash : e \in Elements /\ \E j \in JCash : e = s[j]
      /\ AtMostOne(cash)
      /\ JCash # {} => cash # {}
  <2> HIDE DEF JCash
  <2>1. QED
    BY <1>1, <1>2, FirstAtIs
<1>6. /\ \A e \in current : e \in Elements /\ \E j \in JCurrent : e = s[j]
      /\ AtMostOne(current)
  <2> HIDE DEF JCurrent
  <2>1. QED
    BY <1>1, <1>2, FirstAtIs
<1>7. /\ \A e \in other : e \in Elements /\ \E j \in JOther : e = s[j]
      /\ AtMostOne(other)
  <2> HIDE DEF JOther
  <2>1. QED
    BY <1>1, <1>2, FirstAtIs
<1>8. \A e \in CashElement(p) : e \in Elements /\ e \in Range(p.prices)
  BY <1>3, <1>5, <1>6, <1>7 DEF First, Range
<1>9. AtMostOne(CashElement(p))
  BY <1>3, <1>5, <1>6, <1>7 DEF First
<1>10. ASSUME CashFirst(p), NEW e \in CashElement(p)
       PROVE  Cash(e)
  <2>1. CASE e \in cash \/ e \in other
    <3>1. ~e.card
      BY <1>5, <1>7, <2>1
    <3>2. QED
      BY <3>1 DEF Cash
  <2>2. CASE e \notin cash /\ e \in current
    <3>1. cash = {}
      BY <1>3, <1>10, <2>2 DEF First
    <3>2. ~\E f \in Range(s) : f.current /\ ~f.card
      BY <1>5, <3>1 DEF Range
    <3>3. QED
      BY <1>4, <1>10, <2>2, <3>2
  <2>3. QED
    BY <1>3, <1>10, <2>1, <2>2 DEF First
<1>11. QED
  BY <1>8, <1>9, <1>10

\* What the two PrestaShop adapters share reads the amounts for cash.
LEMMA PrestaShopReads ==
  ASSUME NEW p, WellFormed(p), NEW availability
  PROVE  /\ PrestaShop(p, availability).price \subseteq Values
         /\ Legible(p, StrictStyles) /\ CashFirst(p) /\ PrestaShop(p, availability).price # {} =>
              IsPublished(PrestaShop(p, availability), p)
<1> DEFINE r == PrestaShop(p, availability)
           elements == CashElement(p)
           texts == {CashText(e) : e \in elements}
           value == UNION {ParsePenPrice(t) : t \in texts}
           unread == availability = "in_stock" \/ ~p.named \/ \E t \in texts : t # <<>>
<1>1. r = IF value = {} /\ unread THEN Fatal ELSE Result(value, "PEN", availability)
  BY DEF PrestaShop
<1>2. \A e \in elements : /\ e \in Elements /\ e \in Range(p.prices)
                          /\ CashText(e) \in Seq(Prices) /\ Range(CashText(e)) \subseteq Shown(e)
  BY CashElementIs, ShownIs
<1>3. value \subseteq Values
  BY <1>2, ParsePenPriceIs
<1>4. r.price \subseteq value
  <2> HIDE DEF r, value, unread
  <2>1. QED
    BY <1>1, ResultIs, FatalIs
<1>5. ASSUME Legible(p, StrictStyles), CashFirst(p), r.price # {}
      PROVE  IsPublished(r, p)
  <2>1. r.price = value /\ r.currency = {"PEN"}
    <3> HIDE DEF r, value, unread
    <3>1. QED
      BY <1>1, <1>5, ResultIs, FatalIs
  <2>2. PICK e \in elements : ParsePenPrice(CashText(e)) # {}
    BY <1>5, <2>1
  <2>3. elements = {e}
    BY CashElementIs DEF AtMostOne
  <2>4. value = ParsePenPrice(CashText(e))
    BY <2>3
  <2>5. \A x \in Range(CashText(e)) : x.style \in StrictStyles
    BY <1>2, <1>5 DEF Legible
  <2>6. PICK x \in Range(CashText(e)) : ParsePenPrice(CashText(e)) = {x.amount * 10}
    BY <1>2, <2>2, <2>5, ParsePenPriceIs
  <2>7. Cash(e)
    BY <1>5, CashElementIs
  <2>8. [price |-> r.price, currency |-> r.currency] \in Published(p)
    <3>1. [price |-> {x.amount * 10}, currency |-> {"PEN"}] \in Published(p)
      BY <1>2, <2>7, CashPublished
    <3> HIDE DEF r, value
    <3>2. QED
      BY <2>1, <2>4, <2>6, <3>1
  <2>9. QED
    BY <2>8, PublishedWhen
<1>6. QED
  BY <1>3, <1>4, <1>5

\* Computer Shop.
LEMMA ComputerShopReads ==
  ASSUME NEW p, WellFormed(p)
  PROVE  /\ ComputerShop(p).price \subseteq Values
         /\ Legible(p, StrictStyles) /\ CashFirst(p) /\ ComputerShop(p).price # {} =>
              IsPublished(ComputerShop(p), p)
BY PrestaShopReads DEF ComputerShop

\* CyC: without a price when the stock is to be asked for.
LEMMA CycReads ==
  ASSUME NEW p, WellFormed(p)
  PROVE  /\ Cyc(p).price \subseteq Values
         /\ Legible(p, StrictStyles) /\ CashFirst(p) /\ Cyc(p).price # {} => IsPublished(Cyc(p), p)
<1> DEFINE availability == CycAvailability(p.stock)
<1>1. \/ Cyc(p) = PrestaShop(p, availability)
      \/ Cyc(p) = Result({}, "PEN", availability)
      \/ Cyc(p) = Fatal
  BY DEF Cyc
<1> HIDE DEF availability
<1>2. Result({}, "PEN", availability).price = {} /\ Fatal.price = {}
  BY ResultIs, FatalIs
<1>3. QED
  BY <1>1, <1>2, PrestaShopReads

-----------------------------------------------------------------------------
(* The worker                                                              *)

\* Where the worker is: between jobs nothing has been asked, and a page is
\* fetched for a store that has one.
PlaceInv ==
  /\ pc = "idle" => asked = {} /\ hops = 0 /\ page = NoPage
  /\ pc \in {"validating", "waiting", "parsing"} => domain \in Enabled \cup Disabled
  /\ pc = "parsing" => page \in PagesOf[domain]
  /\ pc \in {"idle", "validating", "waiting", "faking"} => page = NoPage

\* What the checks of ScrapedPriceResult leave: a currency exactly where there is
\* a price, which is positive and fits its column.
Checked(r) ==
  /\ r.availability \in Availabilities
  /\ \/ r.price = {} /\ r.currency = {}
     \/ /\ r.price # {} /\ r.currency \in {{"PEN"}, {"USD"}}
        /\ \A v \in r.price : ~(v <= 0) /\ ~(v >= MaxPrice)

Inv == TypeOK /\ PlaceInv /\ OnlyTheStoreIsAsked /\ Checked(result)

-----------------------------------------------------------------------------
(* Results of the adapters                                                 *)

\* What a fatal error leaves passes the checks: it has no price.
LEMMA FatalChecked == Checked(Fatal)
BY DEF Checked, Fatal, Availabilities

\* The constructor makes the checks, so does every adapter that ends with it.
LEMMA ResultChecked ==
  ASSUME NEW price, NEW currency, NEW availability \in Availabilities
  PROVE  Checked(Result(price, currency, availability))
BY FatalChecked DEF Result, Checked

\* NECS.
LEMMA NecsChecked == \A p : Checked(Necs(p))
<1> SUFFICES ASSUME NEW p
             PROVE  Checked(Necs(p))
  OBVIOUS
<1>1. \A s : NecsAvailability(s) \in Availabilities
  BY DEF NecsAvailability, Availabilities
<1>2. QED
  BY <1>1, FatalChecked, ResultChecked DEF Necs

\* Memory Kings.
LEMMA MemoryKingsChecked == \A p : Checked(MemoryKings(p))
<1> SUFFICES ASSUME NEW p
             PROVE  Checked(MemoryKings(p))
  OBVIOUS
<1>1. \A s : MemoryKingsAvailability(s) \in Availabilities
  BY DEF MemoryKingsAvailability, Availabilities
<1>2. QED
  BY <1>1, FatalChecked, ResultChecked DEF MemoryKings

\* What the two PrestaShop adapters share.
LEMMA PrestaShopChecked ==
  ASSUME NEW p, NEW availability \in Availabilities
  PROVE  Checked(PrestaShop(p, availability))
BY FatalChecked, ResultChecked DEF PrestaShop

\* Computer Shop.
LEMMA ComputerShopChecked == \A p : Checked(ComputerShop(p))
<1>1. \A s : ComputerShopAvailability(s) \in Availabilities
  BY DEF ComputerShopAvailability, Availabilities
<1>2. QED
  BY <1>1, PrestaShopChecked DEF ComputerShop

\* CyC.
LEMMA CycChecked == \A p : Checked(Cyc(p))
<1>1. \A s : CycAvailability(s) \in Availabilities
  BY DEF CycAvailability, Availabilities
<1>2. QED
  BY <1>1, PrestaShopChecked, FatalChecked, ResultChecked DEF Cyc

\* Sercoplus.
LEMMA SercoplusChecked == \A p : Checked(Sercoplus(p))
<1> SUFFICES ASSUME NEW p
             PROVE  Checked(Sercoplus(p))
  OBVIOUS
<1>1. SercoplusAvailability(p) \subseteq Availabilities
  BY DEF SercoplusAvailability, First, Availabilities
<1>2. (CHOOSE a \in First(SercoplusAvailability(p), {"in_stock"}) : TRUE) \in Availabilities
  BY <1>1 DEF First, Availabilities
<1>3. QED
  BY <1>2, FatalChecked, ResultChecked DEF Sercoplus

\* Every adapter returns a result that has passed the checks.
LEMMA ParsedChecked ==
  ASSUME NEW p, domain \in Enabled \cup Disabled
  PROVE  Checked(Parsed(p))
BY NecsChecked, MemoryKingsChecked, ComputerShopChecked, CycChecked, SercoplusChecked
   DEF Parsed, Enabled, Disabled

-----------------------------------------------------------------------------
(* Steps                                                                   *)

\* A settlement ends the job of the worker with one of the outcomes.
LEMMA Settled ==
  ASSUME NEW error \in {"none", "disabled", "blocked", "transient", "fatal"}, Settle(error)
  PROVE  pc' = "settled" /\ outcome' \in {"completed", "skipped", "retrying", "dead_letter"}
BY DEF Settle, SettlementOf

\* The classes of errors of the client.
LEMMA ErrorsAreSettled ==
  \A answer \in {"timeout", "unreachable", "404", "403", "403 challenge", "429", "5xx", "4xx"} :
    ErrorOf(answer) \in {"transient", "blocked", "fatal"}
BY DEF ErrorOf

\* Nothing has been asked or read at the start.
LEMMA InvInit == Init => Inv
<1> SUFFICES ASSUME Init
             PROVE  Inv
  OBVIOUS
<1>1. TypeOK
  BY FatalChecked, ExtractionAssumption
     DEF Init, TypeOK, Checked, Domains, Enabled, Disabled, Offline
<1>2. QED
  BY <1>1, FatalChecked DEF Init, Inv, PlaceInv, OnlyTheStoreIsAsked

\* The registry sends a job of a store to the client, and one of the fake store
\* to its adapter.
LEMMA BeginStep ==
  ASSUME Inv, NEW d \in Domains, NEW u \in Urls, Begin(d, u)
  PROVE  Inv'
<1>1. /\ pc' \in {"settled", "faking", "validating"}
      /\ pc' = "validating" => d \in Enabled \cup Disabled
      /\ outcome' \in {Unsettled, "completed", "skipped", "retrying", "dead_letter"}
  BY Settled DEF Begin, GetAdapter, GoOn, Inv, TypeOK, Registered, Enabled, Disabled, Offline
<1>2. pc = "idle" /\ domain' = d /\ url' = u /\ UNCHANGED <<disabled, hops, asked, page, result>>
  BY DEF Begin
<1>3. asked = {} /\ page = NoPage
  BY <1>2 DEF Inv, PlaceInv
<1>4. TypeOK'
  BY <1>1, <1>2, <1>3 DEF Inv, TypeOK
<1>5. PlaceInv'
  BY <1>1, <1>2, <1>3 DEF PlaceInv
<1>6. QED
  BY <1>2, <1>3, <1>4, <1>5 DEF Inv, OnlyTheStoreIsAsked, Checked

\* A step of a fetch that settles the job.
LEMMA SettleStep ==
  ASSUME Inv, NEW error \in {"none", "disabled", "blocked", "transient", "fatal"}, Settle(error),
         Checked(result)', UNCHANGED <<disabled, domain, url, hops, asked, page>>
  PROVE  Inv'
<1>1. pc' = "settled" /\ outcome' \in {"completed", "skipped", "retrying", "dead_letter"}
  BY Settled
<1>2. TypeOK'
  BY <1>1 DEF Inv, TypeOK, Checked
<1>3. QED
  BY <1>1, <1>2 DEF Inv, PlaceInv, OnlyTheStoreIsAsked

\* The URL is validated against the domain of the store before each request.
LEMMA RequestStep ==
  ASSUME Inv, Request
  PROVE  Inv'
<1>1. /\ pc = "validating" /\ pc' = "waiting" /\ url.host = domain /\ asked' = asked \cup {domain}
      /\ UNCHANGED <<outcome, disabled, domain, url, hops, page, result>>
  BY DEF Request, Valid, GoOn
<1>2. asked' = {domain}
  BY <1>1 DEF Inv, OnlyTheStoreIsAsked
<1>3. TypeOK'
  BY <1>1, <1>2 DEF Inv, TypeOK
<1>4. QED
  BY <1>1, <1>2, <1>3 DEF Inv, PlaceInv, OnlyTheStoreIsAsked, Checked

\* A redirect is followed at most as often as the limit allows.
LEMMA RedirectStep ==
  ASSUME Inv, Redirect
  PROVE  Inv'
<1>1. hops' \in 0..MaxRedirects
  BY ExtractionAssumption DEF Redirect, TooMany, Followed, Inv, TypeOK
<1>2. TypeOK'
  BY <1>1 DEF Redirect, GoOn, Inv, TypeOK
<1>3. QED
  BY <1>2 DEF Redirect, GoOn, Inv, PlaceInv, OnlyTheStoreIsAsked, Checked

\* The steps of a fetch, one by one.
LEMMA FetchStep ==
  ASSUME Inv, Fetch
  PROVE  Inv'
<1>1. CASE RejectUrl \/ RefuseRedirect
  BY <1>1, SettleStep DEF RejectUrl, RefuseRedirect, Inv, Checked
<1>2. CASE Request
  BY <1>2, RequestStep
<1>3. CASE Redirect
  BY <1>3, RedirectStep
<1>4. CASE Refuse
  <2>1. PICK error \in {"transient", "blocked", "fatal"} : Settle(error)
    BY <1>4, ErrorsAreSettled DEF Refuse
  <2>2. QED
    BY <1>4, <2>1, SettleStep DEF Refuse, Inv, Checked
<1>5. CASE Receive
  <2>1. pc' = "parsing" /\ UNCHANGED <<outcome, disabled, domain, url, hops, asked, result>>
        /\ page' \in PagesOf[domain] /\ domain \in Enabled \cup Disabled
    BY <1>5 DEF Receive, GoOn, Inv, PlaceInv
  <2>2. TypeOK'
    BY <2>1 DEF Inv, TypeOK
  <2>3. QED
    BY <2>1, <2>2 DEF Inv, PlaceInv, OnlyTheStoreIsAsked, Checked
<1>6. CASE Parse
  <2>1. domain \in Enabled \cup Disabled /\ page \in PagesOf[domain]
    BY <1>6 DEF Parse, Inv, PlaceInv
  <2>2. Checked(result')
    BY <1>6, <2>1, ParsedChecked DEF Parse
  <2>3. CASE Settle("fatal")
    BY <1>6, <2>2, <2>3, SettleStep DEF Parse, Checked
  <2>4. CASE GoOn("storing")
    <3>1. TypeOK'
      BY <1>6, <2>2, <2>4 DEF Parse, GoOn, Inv, TypeOK, Checked
    <3>2. QED
      BY <1>6, <2>2, <2>4, <3>1 DEF Parse, GoOn, Inv, PlaceInv, OnlyTheStoreIsAsked, Checked
  <2>5. QED
    BY <1>6, <2>3, <2>4 DEF Parse
<1>7. CASE Fake
  <2>1. CASE \E error \in {"transient", "fatal"} : Settle(error) /\ UNCHANGED result
    BY <1>7, <2>1, SettleStep DEF Fake, Inv, Checked
  <2>2. CASE \E v \in FakePrices : result' = Result({v}, "PEN", "in_stock") /\ GoOn("storing")
    <3>1. Checked(result')
      BY <2>2, ResultChecked DEF Availabilities
    <3>2. TypeOK'
      BY <1>7, <2>2, <3>1 DEF Fake, GoOn, Inv, TypeOK, Checked
    <3>3. QED
      BY <1>7, <2>2, <3>1, <3>2 DEF Fake, GoOn, Inv, PlaceInv, OnlyTheStoreIsAsked, Checked
  <2>3. QED
    BY <1>7, <2>1, <2>2 DEF Fake
<1>8. CASE Store
  BY <1>8, SettleStep DEF Store, Inv, Checked
<1>9. QED
  BY <1>1, <1>2, <1>3, <1>4, <1>5, <1>6, <1>7, <1>8 DEF Fetch

\* Every step keeps the invariant.
LEMMA InvStep == Inv /\ [Next]_vars => Inv'
<1> SUFFICES ASSUME Inv, [Next]_vars
             PROVE  Inv'
  OBVIOUS
<1>1. ASSUME NEW d \in Switched, DisableDomain(d) \/ EnableDomain(d)
      PROVE  Inv'
  <2>1. d \in Domains
    BY ExtractionAssumption
  <2>2. TypeOK'
    BY <1>1, <2>1 DEF DisableDomain, EnableDomain, Inv, TypeOK
  <2>3. QED
    BY <1>1, <2>2 DEF DisableDomain, EnableDomain, Inv, PlaceInv, OnlyTheStoreIsAsked, Checked
<1>2. ASSUME Again
      PROVE  Inv'
  <2>1. TypeOK'
    BY <1>2, FatalChecked, ExtractionAssumption
       DEF Again, Inv, TypeOK, Checked, Domains, Enabled, Disabled, Offline
  <2>2. QED
    BY <1>2, <2>1, FatalChecked DEF Again, Inv, PlaceInv, OnlyTheStoreIsAsked, Checked
<1>3. ASSUME UNCHANGED vars
      PROVE  Inv'
  BY <1>3 DEF vars, Inv, TypeOK, PlaceInv, OnlyTheStoreIsAsked, Checked
<1>4. QED
  BY <1>1, <1>2, <1>3, BeginStep, FetchStep DEF Next

-----------------------------------------------------------------------------
(* The theorems                                                            *)

\* Every reachable state is well typed, and redirect_count never passes
\* max_redirects.
THEOREM TypeCorrect == Spec => []TypeOK
<1>1. Inv => TypeOK
  BY DEF Inv
<1>2. QED
  BY <1>1, InvInit, InvStep, PTL DEF Spec

\* Whatever the redirects, no host but the store of the job is sent a request.
THEOREM RequestsStayAtTheStore == Spec => []OnlyTheStoreIsAsked
<1>1. Inv => OnlyTheStoreIsAsked
  BY DEF Inv
<1>2. QED
  BY <1>1, InvInit, InvStep, PTL DEF Spec

\* Whatever a page holds, what is stored has a currency exactly where it has a
\* price, and the price is positive and below MAX_PRICE_ALLOWED.
THEOREM StoredIsChecked == Spec => [](pc = "storing" => Checked(result))
<1>1. Inv => (pc = "storing" => Checked(result))
  BY DEF Inv
<1>2. QED
  BY <1>1, InvInit, InvStep, PTL DEF Spec

-----------------------------------------------------------------------------
(* What is stored is what the page shows                                   *)

\* What is about to be stored, or has been, is what the adapter of the store
\* made of the page received.
ReadInv ==
  /\ pc # "settled" => outcome = Unsettled
  /\ pc = "storing" => result.price \subseteq Values
  /\ page # NoPage /\ (pc = "storing" \/ outcome = "completed") =>
       domain \in Enabled \cup Disabled /\ page \in PagesOf[domain] /\ result = Parsed(page)

\* The pages of each store are as PagesAssumption has them.
LEMMA PagesAre ==
  ASSUME NEW d \in Enabled \cup Disabled, NEW p \in PagesOf[d]
  PROVE  WellFormed(p) /\ (d \notin PrestaShops => NoCards(p))
BY ExtractionAssumption, PagesAssumption, SMT DEF WellFormed, NoCards

\* The stores with pages, PrestaShop ones and others.
LEMMA DomainsDiffer ==
  /\ Enabled \cup Disabled = {"necs.pe", "memorykings.pe", "sercoplus.com"} \cup PrestaShops
  /\ {"necs.pe", "memorykings.pe", "sercoplus.com"} \cap PrestaShops = {}
BY DEF Enabled, Disabled, PrestaShops

\* The parts of Regular, for the adapter of each store.
LEMMA RegularIs ==
  ASSUME NEW p, domain \in Enabled \cup Disabled, Regular(p)
  PROVE  /\ Priced(p) /\ CashFirst(p)
         /\ Legible(p, IF domain \in PrestaShops THEN StrictStyles ELSE LooseStyles)
<1>1. Supported(domain) = IF domain \in PrestaShops THEN StrictStyles ELSE LooseStyles
  BY DEF Supported, StrictStyles, LooseStyles
<1>2. CashFirst(p)
  BY DEF Regular, CashFirst
<1>3. Priced(p) /\ Legible(p, Supported(domain))
  BY DEF Regular, Priced, Legible
<1>4. QED
  BY <1>1, <1>2, <1>3

\* Every adapter reads one of the Values, and on a regular page a published one.
LEMMA ParsedReads ==
  ASSUME NEW p, domain \in Enabled \cup Disabled, p \in PagesOf[domain]
  PROVE  /\ Parsed(p).price \subseteq Values
         /\ Regular(p) /\ Parsed(p).price # {} => IsPublished(Parsed(p), p)
<1>1. WellFormed(p) /\ (domain \notin PrestaShops => NoCards(p))
  BY PagesAre
<1>2. Regular(p) => /\ Priced(p) /\ CashFirst(p)
                    /\ Legible(p, IF domain \in PrestaShops THEN StrictStyles ELSE LooseStyles)
  BY RegularIs
<1>3. CASE domain = "necs.pe"
  <2>1. domain \notin PrestaShops /\ Parsed(p) = Necs(p)
    BY <1>3 DEF Parsed, PrestaShops
  <2>2. QED
    BY <1>1, <1>2, <2>1, NecsReads
<1>4. CASE domain = "memorykings.pe"
  <2>1. domain \notin PrestaShops /\ Parsed(p) = MemoryKings(p)
    BY <1>4 DEF Parsed, PrestaShops
  <2>2. QED
    BY <1>1, <1>2, <2>1, MemoryKingsReads
<1>5. CASE domain = "sercoplus.com"
  <2>1. domain \notin PrestaShops /\ Parsed(p) = Sercoplus(p)
    BY <1>5 DEF Parsed, PrestaShops
  <2>2. QED
    BY <1>1, <1>2, <2>1, SercoplusReads
<1>6. CASE domain = "computershopperu.com"
  <2>1. domain \in PrestaShops /\ Parsed(p) = ComputerShop(p)
    BY <1>6 DEF Parsed, PrestaShops
  <2>2. QED
    BY <1>1, <1>2, <2>1, ComputerShopReads
<1>7. CASE domain = "cyccomputer.pe"
  <2>1. domain \in PrestaShops /\ Parsed(p) = Cyc(p)
    BY <1>7 DEF Parsed, PrestaShops
  <2>2. QED
    BY <1>1, <1>2, <2>1, CycReads
<1>8. QED
  BY <1>3, <1>4, <1>5, <1>6, <1>7, DomainsDiffer DEF PrestaShops

\* What is made of a page depends on the store only.
LEMMA ParsedSame ==
  ASSUME domain' = domain, page' = page
  PROVE  Parsed(page)' = Parsed(page)
BY DEF Parsed

\* Nothing has been stored at the start.
LEMMA ReadInit == Init => ReadInv
BY DEF Init, ReadInv

\* Only the settlement of a stored observation completes a job.
LEMMA NotCompleted ==
  ASSUME NEW error \in {"disabled", "blocked", "transient", "fatal"}, Settle(error)
  PROVE  pc' = "settled" /\ outcome' # "completed"
BY DEF Settle, SettlementOf

\* A step that ends with an error.
LEMMA ErrorStep ==
  ASSUME NEW error \in {"disabled", "blocked", "transient", "fatal"}, Settle(error)
  PROVE  ReadInv'
BY NotCompleted DEF ReadInv

\* Every step keeps the page, the domain and the result together.
LEMMA ReadStep == Inv /\ ReadInv /\ [Next]_vars => ReadInv'
<1> SUFFICES ASSUME Inv, ReadInv, [Next]_vars
             PROVE  ReadInv'
  OBVIOUS
<1>1. ASSUME NEW d \in Domains, NEW u \in Urls, Begin(d, u)
      PROVE  ReadInv'
  <2>1. pc = "idle" /\ outcome = Unsettled
    BY <1>1 DEF Begin, ReadInv
  <2>2. CASE Settle("disabled") \/ Settle("fatal")
    BY <2>2, ErrorStep
  <2>3. CASE GoOn("faking") \/ GoOn("validating")
    BY <2>1, <2>3 DEF GoOn, ReadInv, Unsettled
  <2>4. QED
    BY <1>1, <2>2, <2>3 DEF Begin, GetAdapter
<1>2. ASSUME UNCHANGED <<pc, domain, page, result, outcome>>
      PROVE  ReadInv'
  BY <1>2, ParsedSame DEF ReadInv
<1>3. CASE RejectUrl \/ RefuseRedirect
  BY <1>3, ErrorStep DEF RejectUrl, RefuseRedirect
<1>4. CASE Request \/ Redirect \/ Receive
  <2>1. pc \in {"validating", "waiting"} /\ pc' \in {"waiting", "validating", "parsing"} /\ outcome' = outcome
    BY <1>4 DEF Request, Redirect, Receive, GoOn
  <2>2. QED
    BY <2>1 DEF ReadInv, Unsettled
<1>5. CASE Refuse
  <2>1. PICK error \in {"transient", "blocked", "fatal"} : Settle(error)
    BY <1>5, ErrorsAreSettled DEF Refuse
  <2>2. QED
    BY <2>1, ErrorStep
<1>6. CASE Parse
  <2>1. /\ pc = "parsing" /\ result' = Parsed(page) /\ UNCHANGED <<domain, page>>
        /\ Settle("fatal") \/ GoOn("storing")
    BY <1>6 DEF Parse
  <2>2. domain \in Enabled \cup Disabled /\ page \in PagesOf[domain]
    BY <2>1 DEF Inv, PlaceInv
  <2>3. CASE GoOn("storing")
    <3>1. pc' = "storing" /\ outcome' = Unsettled
      BY <2>1, <2>3 DEF GoOn, ReadInv
    <3>2. Parsed(page).price \subseteq Values
      BY <2>2, ParsedReads
    <3>3. Parsed(page)' = Parsed(page)
      BY <2>1, ParsedSame
    <3>4. QED
      BY <2>1, <2>2, <3>1, <3>2, <3>3 DEF ReadInv, Unsettled
  <2>4. QED
    BY <2>1, <2>3, ErrorStep
<1>7. CASE Fake
  <2>1. pc = "faking" /\ page = NoPage /\ page' = page /\ outcome = Unsettled
    BY <1>7 DEF Fake, Inv, PlaceInv, ReadInv
  <2>2. CASE \E error \in {"transient", "fatal"} : Settle(error)
    BY <2>2, ErrorStep
  <2>3. CASE \E v \in FakePrices : result' = Result({v}, "PEN", "in_stock") /\ GoOn("storing")
    <3>1. PICK v \in FakePrices : result' = Result({v}, "PEN", "in_stock") /\ GoOn("storing")
      BY <2>3
    <3>2. v \in Values
      BY PagesAssumption, SMT DEF Values
    <3>3. result'.price \subseteq Values
      BY <3>1, <3>2, ResultIs
    <3>4. pc' = "storing" /\ outcome' = Unsettled
      BY <2>1, <3>1 DEF GoOn
    <3>5. QED
      BY <2>1, <3>3, <3>4 DEF ReadInv
  <2>4. QED
    BY <1>7, <2>2, <2>3 DEF Fake
<1>8. CASE Store
  <2>1. pc = "storing" /\ pc' = "settled" /\ UNCHANGED <<domain, page, result>>
    BY <1>8 DEF Store, Settle
  <2>2. Parsed(page)' = Parsed(page)
    BY <2>1, ParsedSame
  <2>3. QED
    BY <2>1, <2>2 DEF ReadInv
<1>9. CASE Again
  BY <1>9 DEF Again, ReadInv
<1>10. ASSUME NEW d \in Switched, DisableDomain(d) \/ EnableDomain(d)
       PROVE  ReadInv'
  BY <1>2, <1>10 DEF DisableDomain, EnableDomain
<1>11. CASE UNCHANGED vars
  BY <1>2, <1>11 DEF vars
<1>12. QED
  BY <1>1, <1>3, <1>4, <1>5, <1>6, <1>7, <1>8, <1>9, <1>10, <1>11 DEF Next, Fetch

\* What is about to be inserted satisfies the check constraint of its table,
\* rounding included, so the transaction that settles the job is not aborted.
THEOREM RowsAreAdmitted == Spec => []RowIsAdmitted
<1>1. ASSUME NEW v \in Values, v > 0, v < MaxPrice
      PROVE  Rounded(v) > 0 /\ Rounded(v) * 10 < MaxPrice
  <2>1. v \in Nat /\ MaxPrice \in Nat /\ MaxPrice % 10 = 0 /\ MaxPrice > 1000000
    BY MaxPriceAssumption, PagesAssumption, SMT DEF Values
  <2>2. CASE v % 10 = 0
    BY <1>1, <2>1, <2>2, SMT DEF Rounded
  <2>3. CASE 1000 <= v /\ v <= 999999
    BY <2>1, <2>3, SMT DEF Rounded
  <2>4. QED
    BY <2>2, <2>3, SMT DEF Values, UnitsBound
<1>2. Inv /\ ReadInv => RowIsAdmitted
  <2> SUFFICES ASSUME Inv, ReadInv, pc = "storing", ~(result.price = {} /\ result.currency = {})
               PROVE  /\ result.price # {} /\ result.currency # {}
                      /\ \A v \in result.price : Rounded(v) > 0 /\ Rounded(v) * 10 < MaxPrice
    BY DEF RowIsAdmitted
  <2>1. /\ result.price # {} /\ result.currency \in {{"PEN"}, {"USD"}}
        /\ \A v \in result.price : ~(v <= 0) /\ ~(v >= MaxPrice)
    BY DEF Inv, Checked
  <2>2. \A v \in result.price : v \in Values
    BY DEF ReadInv
  <2>3. \A v \in result.price : v > 0 /\ v < MaxPrice
    BY <2>1, <2>2, MaxPriceAssumption DEF Values
  <2>4. QED
    BY <1>1, <2>1, <2>2, <2>3
<1>3. Inv /\ ReadInv /\ [Next]_vars => (Inv /\ ReadInv)'
  BY InvStep, ReadStep
<1>4. Init => Inv /\ ReadInv
  BY InvInit, ReadInit
<1>5. QED
  BY <1>2, <1>3, <1>4, PTL DEF Spec

\* The price of an observation is one that the page shows for cash, in the
\* currency it is shown in, whichever adapter read it and however it is written.
THEOREM PricesArePublished == Spec => []PriceIsPublished
<1>1. Inv /\ ReadInv => PriceIsPublished
  <2> SUFFICES ASSUME ReadInv, Observed, Regular(page), result.price # {}
               PROVE  \E x \in Published(page) : result.price = x.price /\ result.currency = x.currency
    BY DEF PriceIsPublished
  <2>1. domain \in Enabled \cup Disabled /\ page \in PagesOf[domain] /\ result = Parsed(page)
    BY DEF Observed, ReadInv
  <2>2. IsPublished(result, page)
    BY <2>1, ParsedReads
  <2>3. QED
    BY <2>2 DEF IsPublished
<1>2. Inv /\ ReadInv /\ [Next]_vars => (Inv /\ ReadInv)'
  BY InvStep, ReadStep
<1>3. Init => Inv /\ ReadInv
  BY InvInit, ReadInit
<1>4. QED
  BY <1>1, <1>2, <1>3, PTL DEF Spec
=============================================================================
