---------------------------- MODULE Shares_proofs ----------------------------
(***************************************************************************)
(* The largest remainder method for any finite set of counts: percentages  *)
(* add up to 100.00 and none is off by a hundredth.  It rests on facts     *)
(* about sums over finite sets and about ranks in a finite order, which    *)
(* are proved by looking at a smallest subset without the fact.            *)
(***************************************************************************)
EXTENDS Shares, FiniteSetTheorems, WellFoundedInduction, TLAPS

-----------------------------------------------------------------------------
(* Sums over finite sets                                                   *)

\* Among the subsets of a finite set, some of which are bad, a bad one has no
\* smaller bad one.
LEMMA SmallestSubset ==
  ASSUME NEW S, NEW Bad, Bad \subseteq FiniteSubsetsOf(S), Bad # {}
  PROVE  \E U \in Bad : \A V \in SUBSET U : V # U => V \notin Bad
<1>1. PICK U \in Bad : \A V \in Bad : <<V, U>> \notin StrictSubsetOrdering(S)
  BY FS_StrictSubsetOrderingWellFounded, WFMin
<1>2. U \in SUBSET S
  BY DEF FiniteSubsetsOf
<1>3. ASSUME NEW V \in SUBSET U, V # U, V \in Bad
      PROVE  FALSE
  <2>1. V \in SUBSET S /\ V \subseteq U
    BY <1>2, <1>3
  <2>2. <<V, U>> \in StrictSubsetOrdering(S)
    BY <1>2, <1>3, <2>1 DEF StrictSubsetOrdering
  <2>3. QED
    BY <1>1, <1>3, <2>2
<1>4. QED
  BY <1>3

\* The element the recursion takes out.
Chosen(s) == CHOOSE x \in s : TRUE

\* MapThenSumSet with the function as a value.
Sum(f, S) == MapThenSumSet(LAMBDA k : f[k], S)

\* g is what the recursion of Sum computes for each subset.
IsIter(S, f, g) ==
  g = [s \in SUBSET S |-> IF s = {} THEN 0 ELSE f[Chosen(s)] + g[s \ {Chosen(s)}]]

Iter(S, f) == CHOOSE g : IsIter(S, f, g)

\* A sum is the value of the recursion for the whole set.
LEMMA SumIsIter == \A S, f : Sum(f, S) = Iter(S, f)[S]
BY DEF Sum, Iter, IsIter, Chosen, MapThenSumSet, MapThenFoldSet

\* The recursion leaves one value for each finite set.
LEMMA IterAgree ==
  ASSUME NEW S, NEW T, NEW f, NEW g, NEW h, IsIter(S, f, g), IsIter(T, f, h),
         NEW U, U \in SUBSET S, U \in SUBSET T, IsFiniteSet(U)
  PROVE  g[U] = h[U]
<1> DEFINE Bad == {V \in FiniteSubsetsOf(U) : g[V] # h[V]}
<1> SUFFICES ASSUME Bad # {}
             PROVE  FALSE
  BY DEF FiniteSubsetsOf
<1>1. PICK V \in Bad : \A W \in SUBSET V : W # V => W \notin Bad
  <2> HIDE DEF Bad
  <2>1. Bad \subseteq FiniteSubsetsOf(U)
    BY DEF Bad
  <2>2. QED
    BY <2>1, SmallestSubset
<1>2. V \in SUBSET U /\ IsFiniteSet(V)
  BY <1>1 DEF FiniteSubsetsOf
<1>3. /\ g[V] = IF V = {} THEN 0 ELSE f[Chosen(V)] + g[V \ {Chosen(V)}]
      /\ h[V] = IF V = {} THEN 0 ELSE f[Chosen(V)] + h[V \ {Chosen(V)}]
  BY <1>2 DEF IsIter
<1>4. CASE V = {}
  BY <1>1, <1>3, <1>4
<1>5. CASE V # {}
  <2>1. Chosen(V) \in V
    BY <1>5 DEF Chosen
  <2>2. V \ {Chosen(V)} \in FiniteSubsetsOf(U)
    BY <1>2, FS_RemoveElement DEF FiniteSubsetsOf
  <2>3. g[V \ {Chosen(V)}] = h[V \ {Chosen(V)}]
    BY <1>1, <2>1, <2>2
  <2>4. QED
    BY <1>1, <1>3, <1>5, <2>3
<1>6. QED
  BY <1>4, <1>5

\* The recursion is well defined.
LEMMA IterExists ==
  ASSUME NEW S, IsFiniteSet(S), NEW f
  PROVE  IsIter(S, f, Iter(S, f))
<1> DEFINE Has(U) == \E g : IsIter(U, f, g)
           Bad == {U \in FiniteSubsetsOf(S) : ~Has(U)}
<1> SUFFICES ASSUME Bad # {}
             PROVE  FALSE
  BY DEF FiniteSubsetsOf, Iter
<1>1. PICK U \in Bad : \A V \in SUBSET U : V # U => V \notin Bad
  <2> HIDE DEF Bad
  <2>1. Bad \subseteq FiniteSubsetsOf(S)
    BY DEF Bad
  <2>2. QED
    BY <2>1, SmallestSubset
<1>2. U \in SUBSET S /\ IsFiniteSet(U) /\ ~Has(U)
  BY <1>1 DEF FiniteSubsetsOf
<1>3. ASSUME NEW V \in SUBSET U, V # U
      PROVE  IsIter(V, f, Iter(V, f))
  <2>1. V \in FiniteSubsetsOf(S)
    BY <1>2, FS_Subset DEF FiniteSubsetsOf
  <2>2. Has(V)
    BY <1>1, <1>3, <2>1
  <2>3. QED
    BY <2>2 DEF Iter
<1> HIDE DEF Has, Bad
<1> DEFINE c == Chosen(U)
           h == [s \in SUBSET U |->
                   IF s # U THEN Iter(s, f)[s]
                   ELSE IF U = {} THEN 0 ELSE f[c] + Iter(U \ {c}, f)[U \ {c}]]
<1>4. ASSUME NEW s \in SUBSET U
      PROVE  h[s] = IF s = {} THEN 0 ELSE f[Chosen(s)] + h[s \ {Chosen(s)}]
  <2>1. CASE s = {} /\ U = {}
    BY <2>1
  <2>2. CASE s = {} /\ U # {}
    BY <1>3, <2>2 DEF IsIter
  <2>3. CASE s # {}
    <3> DEFINE d == Chosen(s)
               r == s \ {d}
    <3>1. d \in s /\ r \in SUBSET s /\ r \in SUBSET U /\ r # U /\ r # s
      BY <2>3 DEF Chosen
    <3>2. h[r] = Iter(r, f)[r]
      BY <3>1
    <3>3. CASE s = U
      <4>1. h[s] = f[d] + Iter(r, f)[r]
        BY <2>3, <3>3
      <4>2. QED
        BY <2>3, <3>2, <4>1
    <3>4. CASE s # U
      <4>1. IsIter(s, f, Iter(s, f)) /\ IsIter(r, f, Iter(r, f))
        BY <1>3, <3>1, <3>4
      <4>2. Iter(s, f)[s] = f[d] + Iter(s, f)[r]
        BY <2>3, <3>1, <4>1 DEF IsIter
      <4>3. IsFiniteSet(r)
        BY <1>2, <3>1, FS_Subset
      <4>4. Iter(s, f)[r] = Iter(r, f)[r]
        BY <3>1, <4>1, <4>3, IterAgree
      <4>5. QED
        BY <2>3, <3>2, <3>4, <4>2, <4>4
    <3>5. QED
      BY <3>3, <3>4
  <2>4. QED
    BY <2>1, <2>2, <2>3
<1>5. h = [s \in SUBSET U |-> IF s = {} THEN 0 ELSE f[Chosen(s)] + h[s \ {Chosen(s)}]]
  <2>1. h = [s \in SUBSET U |-> h[s]]
    OBVIOUS
  <2> HIDE DEF h
  <2>2. QED
    BY <1>4, <2>1
<1>6. IsIter(U, f, h)
  BY <1>5 DEF IsIter
<1>7. QED
  <2> HIDE DEF h
  <2>1. QED
    BY <1>2, <1>6 DEF Has

\* The equation of the recursion.
LEMMA SumRecursion ==
  ASSUME NEW S, IsFiniteSet(S), NEW f
  PROVE  Sum(f, S) = IF S = {} THEN 0 ELSE f[Chosen(S)] + Sum(f, S \ {Chosen(S)})
<1>1. IsIter(S, f, Iter(S, f))
  BY IterExists
<1>2. CASE S = {}
  BY <1>1, <1>2, SumIsIter DEF IsIter
<1>3. CASE S # {}
  <2> DEFINE r == S \ {Chosen(S)}
  <2>1. r \in SUBSET S /\ IsFiniteSet(r)
    BY FS_RemoveElement
  <2>2. IsIter(r, f, Iter(r, f))
    BY <2>1, IterExists
  <2>3. Iter(S, f)[r] = Iter(r, f)[r]
    BY <1>1, <2>1, <2>2, IterAgree
  <2>4. Iter(S, f)[S] = f[Chosen(S)] + Iter(S, f)[r]
    BY <1>1, <1>3 DEF IsIter
  <2>5. QED
    BY <1>3, <2>3, <2>4, SumIsIter
<1>4. QED
  BY <1>2, <1>3

\* What holds of the empty set and is kept by adding an element holds of a
\* finite set.  G is the set of subsets it holds of.
LEMMA SubsetInduction ==
  ASSUME NEW S, IsFiniteSet(S), NEW G, {} \in G,
         \A U \in SUBSET S : \A x \in S \ U : U \in G => U \cup {x} \in G
  PROVE  S \in G
<1> DEFINE Bad == FiniteSubsetsOf(S) \ G
<1> SUFFICES ASSUME Bad # {}
             PROVE  FALSE
  BY DEF FiniteSubsetsOf
<1>1. PICK U \in Bad : \A V \in SUBSET U : V # U => V \notin Bad
  BY SmallestSubset
<1>2. U \in SUBSET S /\ IsFiniteSet(U) /\ U \notin G
  BY <1>1 DEF FiniteSubsetsOf
<1>3. PICK x \in U : TRUE
  BY <1>2
<1>4. U \ {x} \in FiniteSubsetsOf(S)
  BY <1>2, FS_RemoveElement DEF FiniteSubsetsOf
<1>5. U \ {x} \in G
  BY <1>1, <1>3, <1>4
<1>6. U = (U \ {x}) \cup {x} /\ x \in S \ (U \ {x}) /\ U \ {x} \in SUBSET S
  BY <1>2, <1>3
<1>7. QED
  BY <1>2, <1>5, <1>6

\* The sum of nothing.
LEMMA SumEmpty == \A f : Sum(f, {}) = 0
BY SumRecursion, FS_EmptySet

\* The sum of integers is one, and any element can be taken out first.
LEMMA SumRemove ==
  ASSUME NEW S, IsFiniteSet(S), NEW f, \A k \in S : f[k] \in Int
  PROVE  Sum(f, S) \in Int /\ \A x \in S : Sum(f, S) = f[x] + Sum(f, S \ {x})
<1> DEFINE Good(U) == Sum(f, U) \in Int /\ \A x \in U : Sum(f, U) = f[x] + Sum(f, U \ {x})
           Bad == {U \in FiniteSubsetsOf(S) : ~Good(U)}
<1> SUFFICES ASSUME Bad # {}
             PROVE  FALSE
  BY DEF FiniteSubsetsOf
<1>1. PICK U \in Bad : \A V \in SUBSET U : V # U => V \notin Bad
  <2> HIDE DEF Bad
  <2>1. Bad \subseteq FiniteSubsetsOf(S)
    BY DEF Bad
  <2>2. QED
    BY <2>1, SmallestSubset
<1>2. U \in SUBSET S /\ IsFiniteSet(U) /\ ~Good(U)
  BY <1>1 DEF FiniteSubsetsOf
<1>3. ASSUME NEW x \in U
      PROVE  IsFiniteSet(U \ {x}) /\ Good(U \ {x})
  <2>1. IsFiniteSet(U \ {x}) /\ U \ {x} \in FiniteSubsetsOf(S)
    BY <1>2, FS_RemoveElement DEF FiniteSubsetsOf
  <2>2. QED
    BY <1>1, <1>3, <2>1
<1>4. U # {}
  <2>1. Good({})
    BY SumEmpty
  <2> HIDE DEF Good
  <2>2. QED
    BY <1>2, <2>1
<1> DEFINE c == Chosen(U)
<1>5. c \in U /\ f[c] \in Int /\ Sum(f, U) = f[c] + Sum(f, U \ {c})
  BY <1>2, <1>4, SumRecursion DEF Chosen
<1>6. Sum(f, U) \in Int
  <2>1. Sum(f, U \ {c}) \in Int
    BY <1>3, <1>5
  <2> HIDE DEF c
  <2>2. QED
    BY <1>5, <2>1
<1>7. ASSUME NEW x \in U, x # c
      PROVE  Sum(f, U) = f[x] + Sum(f, U \ {x})
  <2>1. /\ Sum(f, U \ {c}) = f[x] + Sum(f, (U \ {c}) \ {x})
        /\ Sum(f, U \ {x}) = f[c] + Sum(f, (U \ {x}) \ {c})
        /\ Sum(f, U \ {x}) \in Int
    BY <1>3, <1>5, <1>7
  <2>2. (U \ {x}) \ {c} = (U \ {c}) \ {x}
    OBVIOUS
  <2>3. IsFiniteSet((U \ {c}) \ {x}) /\ x \in U \ {c} /\ f[x] \in Int
    BY <1>2, <1>3, <1>5, <1>7, FS_RemoveElement
  <2>4. Sum(f, (U \ {c}) \ {x}) \in Int
    <3>1. (U \ {c}) \ {x} \in FiniteSubsetsOf(S) /\ (U \ {c}) \ {x} \in SUBSET U /\ (U \ {c}) \ {x} # U
      BY <1>2, <1>5, <2>3 DEF FiniteSubsetsOf
    <3>2. QED
      BY <1>1, <3>1
  <2> DEFINE r == Sum(f, (U \ {c}) \ {x})
  <2>5. Sum(f, U) = f[c] + (f[x] + r) /\ Sum(f, U \ {x}) = f[c] + r
    BY <1>5, <2>1, <2>2
  <2> HIDE DEF c, r
  <2>6. r \in Int /\ f[c] \in Int /\ f[x] \in Int
    BY <1>5, <2>3, <2>4 DEF r
  <2>7. QED
    BY <2>5, <2>6
<1>8. QED
  BY <1>2, <1>5, <1>6, <1>7

\* Adding an element to a subset.
LEMMA SumAdd ==
  ASSUME NEW S, IsFiniteSet(S), NEW f, \A k \in S : f[k] \in Int,
         NEW U \in SUBSET S, NEW x \in S \ U
  PROVE  Sum(f, U) \in Int /\ Sum(f, U \cup {x}) = f[x] + Sum(f, U)
<1>1. IsFiniteSet(U) /\ IsFiniteSet(U \cup {x})
  BY FS_Subset, FS_AddElement
<1>2. (U \cup {x}) \ {x} = U
  OBVIOUS
<1>3. Sum(f, U \cup {x}) = f[x] + Sum(f, (U \cup {x}) \ {x})
  BY <1>1, SumRemove
<1>4. QED
  BY <1>1, <1>2, <1>3, SumRemove

\* A product that the provers need not look into.
Prod(a, b) == a * b

\* Sums are linear.
LEMMA SumLinear ==
  ASSUME NEW S, IsFiniteSet(S), NEW a \in Int,
         NEW f, \A k \in S : f[k] \in Int,
         NEW g, \A k \in S : g[k] \in Int,
         NEW h, \A k \in S : h[k] \in Int
  PROVE  (\A k \in S : f[k] = Prod(a, g[k]) + h[k]) => Sum(f, S) = Prod(a, Sum(g, S)) + Sum(h, S)
<1> DEFINE G == {U \in SUBSET S : Sum(f, U) = a * Sum(g, U) + Sum(h, U)}
<1>1. ASSUME NEW U \in SUBSET S, NEW x \in S \ U
      PROVE  /\ Sum(f, U) \in Int /\ Sum(f, U \cup {x}) = f[x] + Sum(f, U)
             /\ Sum(g, U) \in Int /\ Sum(g, U \cup {x}) = g[x] + Sum(g, U)
             /\ Sum(h, U) \in Int /\ Sum(h, U \cup {x}) = h[x] + Sum(h, U)
  <2>1. Sum(f, U) \in Int /\ Sum(f, U \cup {x}) = f[x] + Sum(f, U)
    BY SumAdd
  <2>2. Sum(g, U) \in Int /\ Sum(g, U \cup {x}) = g[x] + Sum(g, U)
    BY SumAdd
  <2>3. Sum(h, U) \in Int /\ Sum(h, U \cup {x}) = h[x] + Sum(h, U)
    BY SumAdd
  <2>4. QED
    BY <2>1, <2>2, <2>3
<1>2. HAVE \A k \in S : f[k] = Prod(a, g[k]) + h[k]
<1>3. {} \in G
  BY SumEmpty
<1>4. ASSUME NEW U \in SUBSET S, NEW x \in S \ U, U \in G
      PROVE  U \cup {x} \in G
  <2>1. f[x] = a * g[x] + h[x] /\ Sum(f, U) = a * Sum(g, U) + Sum(h, U)
    BY <1>2, <1>4 DEF Prod
  <2>2. \A v, w \in Int : a * v \in Int /\ a * w \in Int /\ a * (v + w) = a * v + a * w
    OBVIOUS
  <2>3. /\ a * g[x] \in Int /\ a * Sum(g, U) \in Int
        /\ a * (g[x] + Sum(g, U)) = a * g[x] + a * Sum(g, U)
    BY <1>1, <2>2
  <2>4. f[x] + Sum(f, U) = a * (g[x] + Sum(g, U)) + (h[x] + Sum(h, U))
    <3> DEFINE v == a * g[x]
               w == a * Sum(g, U)
               q == a * (g[x] + Sum(g, U))
    <3>1. v \in Int /\ w \in Int /\ q = v + w
      BY <2>3
    <3>2. f[x] = v + h[x] /\ Sum(f, U) = w + Sum(h, U) /\ h[x] \in Int /\ Sum(h, U) \in Int
      BY <1>1, <2>1
    <3> HIDE DEF v, w, q
    <3>3. (v + h[x]) + (w + Sum(h, U)) = q + (h[x] + Sum(h, U))
      BY <3>1, <3>2
    <3>4. QED
      BY <3>2, <3>3 DEF q
  <2>5. QED
    BY <1>1, <2>4
<1> HIDE DEF G
<1>5. S \in G
  BY <1>3, <1>4, SubsetInduction
<1>6. QED
  BY <1>5 DEF G, Prod

\* Each element adds at most b, and one of those where f is positive.
LEMMA SumBounded ==
  ASSUME NEW S, IsFiniteSet(S), NEW f, NEW b \in Nat, \A k \in S : f[k] \in 0..b
  PROVE  /\ Sum(f, S) \in Nat
         /\ Sum(f, S) <= b * Cardinality({k \in S : f[k] > 0})
         /\ \A x \in S : f[x] <= Sum(f, S)
<1> DEFINE Pos(U) == {k \in U : f[k] > 0}
           Good(U) == /\ Sum(f, U) \in Nat
                      /\ Sum(f, U) <= b * Cardinality(Pos(U))
                      /\ \A x \in U : f[x] <= Sum(f, U)
           G == {U \in SUBSET S : Good(U)}
<1>1. {} \in G
  BY SumEmpty, FS_EmptySet
<1>2. ASSUME NEW U \in SUBSET S, NEW x \in S \ U, U \in G
      PROVE  U \cup {x} \in G
  <2>1. Sum(f, U) \in Nat /\ Sum(f, U \cup {x}) = f[x] + Sum(f, U)
    BY <1>2, SumAdd
  <2>2. IsFiniteSet(Pos(U)) /\ Cardinality(Pos(U)) \in Nat
    BY FS_Subset, FS_CardinalityType
  <2>3. CASE f[x] = 0
    <3>1. Pos(U \cup {x}) = Pos(U)
      BY <2>3
    <3>2. Sum(f, U \cup {x}) = Sum(f, U)
      BY <2>1, <2>3
    <3>3. \A y \in U \cup {x} : f[y] <= Sum(f, U)
      BY <1>2, <2>1, <2>3
    <3> HIDE DEF Pos
    <3>4. QED
      BY <1>2, <3>1, <3>2, <3>3
  <2>4. CASE f[x] > 0
    <3>1. Pos(U \cup {x}) = Pos(U) \cup {x} /\ x \notin Pos(U)
      BY <2>4
    <3>2. Cardinality(Pos(U \cup {x})) = Cardinality(Pos(U)) + 1
      BY <2>2, <3>1, FS_AddElement
    <3>3. b * (Cardinality(Pos(U)) + 1) = b * Cardinality(Pos(U)) + b /\ b * Cardinality(Pos(U)) \in Int
      BY <2>2
    <3>4. f[x] \in 0..b /\ Sum(f, U) <= b * Cardinality(Pos(U)) /\ \A y \in U : f[y] \in Nat /\ f[y] <= Sum(f, U)
      BY <1>2
    <3> DEFINE n == b * Cardinality(Pos(U))
    <3> HIDE DEF n
    <3>5. f[x] + Sum(f, U) \in Nat /\ f[x] + Sum(f, U) <= n + b
      BY <2>1, <3>3, <3>4 DEF n
    <3>6. \A y \in U \cup {x} : f[y] <= f[x] + Sum(f, U)
      BY <2>1, <3>4
    <3>7. Sum(f, U \cup {x}) <= b * Cardinality(Pos(U \cup {x}))
      BY <2>1, <3>2, <3>3, <3>5 DEF n
    <3> HIDE DEF Pos
    <3>8. QED
      BY <2>1, <3>5, <3>6, <3>7
  <2>5. QED
    BY <2>3, <2>4
<1> HIDE DEF G
<1>3. S \in G
  BY <1>1, <1>2, SubsetInduction
<1>4. QED
  BY <1>3 DEF G

\* Where it is one or zero, a sum counts.
LEMMA SumCounts ==
  ASSUME NEW S, IsFiniteSet(S), NEW f, \A k \in S : f[k] \in {0, 1}
  PROVE  Sum(f, S) = Cardinality({k \in S : f[k] = 1})
<1> DEFINE Ones(U) == {k \in U : f[k] = 1}
           G == {U \in SUBSET S : Sum(f, U) = Cardinality(Ones(U))}
<1>1. {} \in G
  BY SumEmpty, FS_EmptySet
<1>2. ASSUME NEW U \in SUBSET S, NEW x \in S \ U, U \in G
      PROVE  U \cup {x} \in G
  <2>1. Sum(f, U) \in Int /\ Sum(f, U \cup {x}) = f[x] + Sum(f, U)
    <3>1. \A k \in S : f[k] \in Int
      OBVIOUS
    <3>2. QED
      BY <3>1, SumAdd
  <2>2. IsFiniteSet(Ones(U)) /\ Cardinality(Ones(U)) \in Nat
    BY FS_Subset, FS_CardinalityType
  <2>3. CASE f[x] = 0
    <3>1. Ones(U \cup {x}) = Ones(U)
      BY <2>3
    <3>2. Sum(f, U \cup {x}) = Sum(f, U)
      BY <2>1, <2>3
    <3> HIDE DEF Ones
    <3>3. QED
      BY <1>2, <3>1, <3>2
  <2>4. CASE f[x] = 1
    <3>1. Ones(U \cup {x}) = Ones(U) \cup {x} /\ x \notin Ones(U)
      BY <2>4
    <3>2. Cardinality(Ones(U \cup {x})) = Cardinality(Ones(U)) + 1
      BY <2>2, <3>1, FS_AddElement
    <3>3. QED
      BY <1>2, <2>1, <2>2, <2>4, <3>2
  <2>5. QED
    BY <2>3, <2>4
<1> HIDE DEF G
<1>3. S \in G
  BY <1>1, <1>2, SubsetInduction
<1>4. QED
  BY <1>3 DEF G

\* Counting a finite set by groups counts it.
LEMMA SumOfGroups ==
  ASSUME NEW B, IsFiniteSet(B), NEW A, IsFiniteSet(A), NEW group \in [B -> A]
  PROVE  Sum([a \in A |-> Cardinality({o \in B : group[o] = a})], A) = Cardinality(B)
<1> DEFINE Size(U) == [a \in A |-> Cardinality({o \in U : group[o] = a})]
           G == {U \in SUBSET B : Sum(Size(U), A) = Cardinality(U)}
<1>1. \A U \in SUBSET B : IsFiniteSet(U) /\ Cardinality(U) \in Nat
  BY FS_Subset, FS_CardinalityType
<1>2. \A U \in SUBSET B : \A a \in A :
        LET F == {o \in U : group[o] = a} IN IsFiniteSet(F) /\ Cardinality(F) \in Nat
  BY <1>1, FS_Subset, FS_CardinalityType
<1>3. {} \in G
  <2>1. \A a \in A : Size({})[a] = 0
    <3>1. \A a \in A : {o \in {} : group[o] = a} = {}
      OBVIOUS
    <3>2. QED
      BY <3>1, FS_EmptySet
  <2>2. {a \in A : Size({})[a] = 1} = {}
    BY <2>1
  <2>3. \A a \in A : Size({})[a] \in {0, 1}
    BY <2>1
  <2> HIDE DEF Size
  <2>4. Sum(Size({}), A) = Cardinality({a \in A : Size({})[a] = 1})
    BY <2>3, SumCounts
  <2>5. QED
    BY <2>2, <2>4, FS_EmptySet
<1>4. ASSUME NEW U \in SUBSET B, NEW x \in B \ U, U \in G
      PROVE  U \cup {x} \in G
  <2> DEFINE W == U \cup {x}
             one == [a \in A |-> IF a = group[x] THEN 1 ELSE 0]
  <2>1. Cardinality(W) = Cardinality(U) + 1
    BY <1>1, FS_AddElement
  <2>2. ASSUME NEW a \in A
        PROVE  /\ Size(W)[a] = Prod(1, Size(U)[a]) + one[a]
               /\ Size(W)[a] \in Int /\ Size(U)[a] \in Int /\ one[a] \in {0, 1}
    <3> DEFINE F == {o \in U : group[o] = a}
    <3>1. IsFiniteSet(F) /\ Cardinality(F) \in Nat /\ Size(U)[a] = Cardinality(F)
      BY <1>2
    <3>2. CASE a = group[x]
      <4>1. {o \in W : group[o] = a} = F \cup {x} /\ x \notin F
        BY <3>2
      <4> HIDE DEF F
      <4>2. Size(W)[a] = Cardinality(F) + 1
        BY <3>1, <4>1, FS_AddElement
      <4>3. QED
        BY <3>1, <3>2, <4>2 DEF Prod
    <3>3. CASE a # group[x]
      <4>1. {o \in W : group[o] = a} = F
        BY <3>3
      <4>2. Size(W)[a] = Cardinality(F)
        BY <4>1
      <4> HIDE DEF F, Size
      <4>3. QED
        BY <3>1, <3>3, <4>2 DEF Prod
    <3>4. QED
      BY <3>2, <3>3
  <2>3. Sum(one, A) = 1
    <3>1. {a \in A : one[a] = 1} = {group[x]}
      OBVIOUS
    <3>2. \A a \in A : one[a] \in {0, 1}
      OBVIOUS
    <3> HIDE DEF one
    <3>3. Sum(one, A) = Cardinality({a \in A : one[a] = 1})
      BY <3>2, SumCounts
    <3>4. QED
      BY <3>1, <3>3, FS_Singleton
  <2> HIDE DEF Size, one, W
  <2>4. /\ \A a \in A : Size(W)[a] \in Int
        /\ \A a \in A : Size(U)[a] \in Int
        /\ \A a \in A : one[a] \in Int
        /\ \A a \in A : Size(W)[a] = Prod(1, Size(U)[a]) + one[a]
    BY <2>2
  <2>5. Sum(Size(W), A) = Prod(1, Sum(Size(U), A)) + Sum(one, A)
    BY <2>4, SumLinear
  <2>6. Sum(Size(W), A) = Cardinality(W)
    BY <1>1, <1>4, <2>1, <2>3, <2>5 DEF Prod
  <2>7. QED
    BY <2>6 DEF W
<1> HIDE DEF G
<1>5. B \in G
  BY <1>3, <1>4, SubsetInduction
<1>6. QED
  BY <1>5 DEF G

-----------------------------------------------------------------------------
(* Ranks in a finite order                                                 *)

\* A finite set that a relation orders has a first element.
LEMMA FirstExists ==
  ASSUME NEW S, IsFiniteSet(S), S # {}, NEW R,
         \A a, b \in S : a # b => <<a, b>> \in R \/ <<b, a>> \in R,
         \A a, b, c \in S : <<a, b>> \in R /\ <<b, c>> \in R => <<a, c>> \in R
  PROVE  \E o \in S : \A x \in S \ {o} : <<o, x>> \in R
<1> DEFINE HasFirst(U) == \E o \in U : \A x \in U \ {o} : <<o, x>> \in R
           G == {U \in SUBSET S : U # {} => HasFirst(U)}
<1>1. {} \in G
  OBVIOUS
<1>2. ASSUME NEW U \in SUBSET S, NEW u \in S \ U, U \in G
      PROVE  U \cup {u} \in G
  <2> SUFFICES HasFirst(U \cup {u})
    OBVIOUS
  <2>1. CASE U = {}
    BY <2>1
  <2>2. CASE U # {}
    <3>1. PICK o \in U : \A x \in U \ {o} : <<o, x>> \in R
      BY <1>2, <2>2
    <3>2. CASE <<o, u>> \in R
      <4>1. \A x \in (U \cup {u}) \ {o} : <<o, x>> \in R
        BY <3>1, <3>2
      <4>2. QED
        BY <4>1
    <3>3. CASE <<u, o>> \in R
      <4>1. \A x \in (U \cup {u}) \ {u} : <<u, x>> \in R
        BY <3>1, <3>3
      <4>2. QED
        BY <4>1
    <3>4. QED
      BY <3>1, <3>2, <3>3
  <2>3. QED
    BY <2>1, <2>2
<1> HIDE DEF G
<1>3. S \in G
  BY <1>1, <1>2, SubsetInduction
<1>4. QED
  BY <1>3 DEF G

\* How many elements come before one.
Rank(S, R, k) == Cardinality({x \in S : <<x, k>> \in R})

\* In a strict order of n elements, u of them have a rank below u.
LEMMA RankCount ==
  ASSUME NEW S, IsFiniteSet(S), NEW R,
         \A a \in S : <<a, a>> \notin R,
         \A a, b \in S : a # b => <<a, b>> \in R \/ <<b, a>> \in R,
         \A a, b, c \in S : <<a, b>> \in R /\ <<b, c>> \in R => <<a, c>> \in R
  PROVE  \A u \in 0..Cardinality(S) : Cardinality({k \in S : Rank(S, R, k) < u}) = u
<1> DEFINE Good(U) == \A u \in 0..Cardinality(U) : Cardinality({k \in U : Rank(U, R, k) < u}) = u
           Bad == {U \in FiniteSubsetsOf(S) : ~Good(U)}
<1> SUFFICES ASSUME Bad # {}
             PROVE  FALSE
  BY DEF FiniteSubsetsOf
<1>1. PICK U \in Bad : \A V \in SUBSET U : V # U => V \notin Bad
  <2> HIDE DEF Bad
  <2>1. Bad \subseteq FiniteSubsetsOf(S)
    BY DEF Bad
  <2>2. QED
    BY <2>1, SmallestSubset
<1>2. U \in SUBSET S /\ IsFiniteSet(U) /\ ~Good(U) /\ Cardinality(U) \in Nat
  BY <1>1, FS_CardinalityType DEF FiniteSubsetsOf
<1>3. U # {}
  <2>1. \A u \in 0..0 : Cardinality({k \in {} : Rank({}, R, k) < u}) = u
    <3>1. {k \in {} : Rank({}, R, k) < 0} = {}
      OBVIOUS
    <3>2. QED
      BY <3>1, FS_EmptySet
  <2>2. Good({})
    BY <2>1, FS_EmptySet
  <2> HIDE DEF Good
  <2>3. QED
    BY <1>2, <2>2
\* The last element.
<1>4. PICK m \in U : \A x \in U \ {m} : <<x, m>> \in R
  <2> DEFINE Q == {ab \in U \X U : <<ab[2], ab[1]>> \in R}
  <2>1. \A a, b \in U : <<a, b>> \in Q <=> <<b, a>> \in R
    OBVIOUS
  <2> HIDE DEF Q
  <2>2. \A a, b \in U : a # b => <<a, b>> \in Q \/ <<b, a>> \in Q
    BY <1>2, <2>1
  <2>3. \A a, b, c \in U : <<a, b>> \in Q /\ <<b, c>> \in Q => <<a, c>> \in Q
    BY <1>2, <2>1
  <2>4. IsFiniteSet(U)
    BY <1>2
  <2>5. \E o \in U : \A x \in U \ {o} : <<o, x>> \in Q
    <3> HIDE DEF Bad
    <3>1. QED
      BY <1>3, <2>2, <2>3, <2>4, FirstExists
  <2>6. QED
    BY <2>1, <2>5
<1> DEFINE V == U \ {m}
<1>5. IsFiniteSet(V) /\ Cardinality(V) = Cardinality(U) - 1
  BY <1>2, FS_RemoveElement
<1>6. Good(V)
  <2>1. V \in FiniteSubsetsOf(S) /\ V \in SUBSET U /\ V # U
    BY <1>2, <1>5 DEF FiniteSubsetsOf
  <2> HIDE DEF Good
  <2>2. QED
    BY <1>1, <2>1
<1>7. \A k \in V : Rank(U, R, k) = Rank(V, R, k)
  <2> SUFFICES ASSUME NEW k \in V
               PROVE  {x \in U : <<x, k>> \in R} = {x \in V : <<x, k>> \in R}
    BY DEF Rank
  <2>1. <<m, k>> \notin R
    <3>1. k \in S /\ m \in S /\ <<k, m>> \in R /\ <<k, k>> \notin R
      BY <1>2, <1>4
    <3>2. QED
      BY <3>1
  <2>2. QED
    BY <2>1
<1>8. Rank(U, R, m) = Cardinality(V)
  <2>1. {x \in U : <<x, m>> \in R} = V
    BY <1>2, <1>4
  <2>2. QED
    BY <2>1 DEF Rank
<1>9. \A k \in V : Rank(V, R, k) \in Nat
  BY <1>5, FS_Subset, FS_CardinalityType DEF Rank
<1>10. \A k \in V : Rank(V, R, k) < Cardinality(V)
  <2> SUFFICES ASSUME NEW k \in V
               PROVE  Rank(V, R, k) < Cardinality(V)
    OBVIOUS
  <2>1. {x \in V : <<x, k>> \in R} \subseteq V \ {k}
    BY <1>2
  <2>2. Cardinality(V \ {k}) = Cardinality(V) - 1 /\ IsFiniteSet(V \ {k}) /\ Cardinality(V) \in Nat
    BY <1>5, FS_RemoveElement, FS_CardinalityType
  <2>3. Rank(V, R, k) <= Cardinality(V \ {k})
    BY <2>1, <2>2, FS_Subset DEF Rank
  <2>4. QED
    BY <1>9, <2>2, <2>3
<1> HIDE DEF V
<1>11. ASSUME NEW u \in 0..Cardinality(U)
       PROVE  Cardinality({k \in U : Rank(U, R, k) < u}) = u
  <2>1. CASE u = Cardinality(U)
    <3>1. \A k \in U : Rank(U, R, k) < u
      <4> SUFFICES ASSUME NEW k \in U
                   PROVE  Rank(U, R, k) < u
        OBVIOUS
      <4>1. CASE k = m
        BY <1>2, <1>5, <1>8, <2>1, <4>1
      <4>2. CASE k \in V
        BY <1>2, <1>5, <1>7, <1>9, <1>10, <2>1, <4>2
      <4>3. QED
        BY <4>1, <4>2 DEF V
    <3>2. {k \in U : Rank(U, R, k) < u} = U
      BY <3>1
    <3>3. QED
      BY <2>1, <3>2
  <2>2. CASE u # Cardinality(U)
    <3>1. u \in 0..Cardinality(V)
      BY <1>2, <1>5, <2>2
    <3>2. ~(Rank(U, R, m) < u)
      BY <1>2, <1>5, <1>8, <3>1
    <3>3. {k \in U : Rank(U, R, k) < u} = {k \in V : Rank(V, R, k) < u}
      <4>1. U = V \cup {m} /\ m \notin V
        BY DEF V
      <4>2. QED
        BY <1>7, <3>2, <4>1
    <3>4. QED
      BY <1>6, <3>1, <3>3
  <2>3. QED
    BY <2>1, <2>2
<1>12. QED
  BY <1>2, <1>11

\* f lists n elements of S in the order R.
Lists(f, n, S, R) ==
  f \in [1..n -> S] /\ \A i, j \in 1..n : i < j => <<f[i], f[j]>> \in R

\* A finite set in a strict order can be listed in that order: the last element
\* goes after the others.
LEMMA OrderExists ==
  ASSUME NEW S, IsFiniteSet(S), NEW R,
         \A a, b \in S : a # b => <<a, b>> \in R \/ <<b, a>> \in R,
         \A a, b, c \in S : <<a, b>> \in R /\ <<b, c>> \in R => <<a, c>> \in R
  PROVE  \E f : Lists(f, Cardinality(S), S, R)
<1> DEFINE Listable(U) == \E f : Lists(f, Cardinality(U), U, R)
           Bad == {U \in FiniteSubsetsOf(S) : ~Listable(U)}
<1> SUFFICES ASSUME Bad # {}
             PROVE  FALSE
  BY DEF FiniteSubsetsOf
<1>1. PICK U \in Bad : \A V \in SUBSET U : V # U => V \notin Bad
  <2> HIDE DEF Bad
  <2>1. Bad \subseteq FiniteSubsetsOf(S)
    BY DEF Bad
  <2>2. QED
    BY <2>1, SmallestSubset
<1>2. U \in SUBSET S /\ IsFiniteSet(U) /\ ~Listable(U) /\ Cardinality(U) \in Nat
  BY <1>1, FS_CardinalityType DEF FiniteSubsetsOf
<1>3. U # {}
  <2>1. Cardinality({}) = 0 /\ 1..0 = {}
    BY FS_EmptySet
  <2>2. Lists([i \in {} |-> i], 0, {}, R)
    BY <2>1 DEF Lists
  <2>3. Listable({})
    BY <2>1, <2>2
  <2> HIDE DEF Listable
  <2>4. QED
    BY <1>2, <2>3
<1>4. PICK m \in U : \A x \in U \ {m} : <<x, m>> \in R
  <2> DEFINE Q == {ab \in U \X U : <<ab[2], ab[1]>> \in R}
  <2>1. \A a, b \in U : <<a, b>> \in Q <=> <<b, a>> \in R
    OBVIOUS
  <2> HIDE DEF Q
  <2>2. \A a, b \in U : a # b => <<a, b>> \in Q \/ <<b, a>> \in Q
    BY <1>2, <2>1
  <2>3. \A a, b, c \in U : <<a, b>> \in Q /\ <<b, c>> \in Q => <<a, c>> \in Q
    BY <1>2, <2>1
  <2>4. IsFiniteSet(U)
    BY <1>2
  <2>5. \E o \in U : \A x \in U \ {o} : <<o, x>> \in Q
    <3> HIDE DEF Bad
    <3>1. QED
      BY <1>3, <2>2, <2>3, <2>4, FirstExists
  <2>6. QED
    BY <2>1, <2>5
<1> DEFINE V == U \ {m}
           n == Cardinality(U)
<1>5. IsFiniteSet(V) /\ Cardinality(V) = n - 1 /\ Cardinality(V) \in Nat
  BY <1>2, FS_RemoveElement, FS_CardinalityType
<1>6. Listable(V)
  <2>1. V \in FiniteSubsetsOf(S) /\ V \in SUBSET U /\ V # U
    BY <1>2, <1>5 DEF FiniteSubsetsOf
  <2> HIDE DEF Listable
  <2>2. QED
    BY <1>1, <2>1
<1>7. PICK f : Lists(f, n - 1, V, R)
  BY <1>5, <1>6
<1> DEFINE g == [i \in 1..n |-> IF i = n THEN m ELSE f[i]]
<1>8. g \in [1..n -> U] /\ \A i \in 1..n : g[i] = IF i = n THEN m ELSE f[i]
  BY <1>2, <1>5, <1>7 DEF Lists
<1>9. Lists(g, n, U, R)
  <2> SUFFICES ASSUME NEW i \in 1..n, NEW j \in 1..n, i < j
               PROVE  <<g[i], g[j]>> \in R
    BY <1>8 DEF Lists
  <2>1. i \in 1..(n - 1) /\ g[i] = f[i] /\ f[i] \in V
    BY <1>2, <1>5, <1>7, <1>8 DEF Lists
  <2> HIDE DEF g
  <2>2. CASE j = n
    BY <1>4, <1>8, <2>1, <2>2
  <2>3. CASE j # n
    <3>1. j \in 1..(n - 1) /\ g[j] = f[j]
      BY <1>2, <1>5, <1>8, <2>3
    <3>2. QED
      BY <1>7, <2>1, <3>1 DEF Lists
  <2>4. QED
    BY <2>2, <2>3
<1>10. Listable(U)
  BY <1>9
<1>11. QED
  BY <1>2, <1>10

\* A list in a strict order that is as long as the set has every element.
LEMMA OrderCovers ==
  ASSUME NEW S, IsFiniteSet(S), NEW R, \A a \in S : <<a, a>> \notin R,
         NEW n, n = Cardinality(S), NEW f, Lists(f, n, S, R)
  PROVE  \A x \in S : \E k \in 1..n : f[k] = x
<1>1. n \in Nat
  BY FS_CardinalityType
<1>2. \A i, j \in 1..n : f[i] = f[j] => i = j
  <2>1. ASSUME NEW i \in 1..n, NEW j \in 1..n, i < j
        PROVE  f[i] # f[j]
    BY <2>1 DEF Lists
  <2>2. \A i, j \in 1..n : i # j => i < j \/ j < i
    BY <1>1
  <2>3. QED
    BY <2>1, <2>2
<1>3. f \in Injection(1..n, S)
  BY <1>2 DEF Lists, Injection, IsInjective
<1>4. IsFiniteSet(1..n) /\ Cardinality(1..n) = n
  BY <1>1, FS_Interval
<1>5. f \in Surjection(1..n, S)
  BY <1>3, <1>4, FS_Injection
<1>6. QED
  BY <1>5 DEF Surjection

-----------------------------------------------------------------------------
(* The largest remainder method                                            *)

\* Division with remainder.
LEMMA DivMod ==
  ASSUME NEW a \in Int, NEW d \in Int, d > 0
  PROVE  /\ a \div d \in Int /\ a % d \in 0..(d - 1)
         /\ a = d * (a \div d) + (a % d)
OBVIOUS

\* What an item gets before the units that are missing are handed out, and what
\* is left of it.
Base(val, total, k) == (Hundred * val[k]) \div total
Remainder(val, total, k) == (Hundred * val[k]) % total

\* The order in which missing units are handed out.
Before(val, total, a, b) ==
  \/ Remainder(val, total, a) > Remainder(val, total, b)
  \/ Remainder(val, total, a) = Remainder(val, total, b) /\ val[a] > val[b]
  \/ Remainder(val, total, a) = Remainder(val, total, b) /\ val[a] = val[b] /\ a < b

Order(D, val, total) == {ab \in D \X D : Before(val, total, ab[1], ab[2])}

\* The units that rounding down leaves over, and who gets one.
Missing(val, total) == Hundred - Sum([k \in DOMAIN val |-> Base(val, total, k)], DOMAIN val)

Extra(val, total, k) ==
  IF Rank(DOMAIN val, Order(DOMAIN val, val, total), k) < Missing(val, total) THEN 1 ELSE 0

\* Who goes first in the order of the remainders.
LEMMA OrderIs ==
  ASSUME NEW D, NEW val, NEW total, NEW a \in D, NEW b \in D
  PROVE  <<a, b>> \in Order(D, val, total) <=> Before(val, total, a, b)
<1> DEFINE p == <<a, b>>
<1>1. p[1] = a /\ p[2] = b /\ p \in D \X D
  OBVIOUS
<1> HIDE DEF p
<1>2. p \in Order(D, val, total) <=> Before(val, total, p[1], p[2])
  BY <1>1, Zenon DEF Order
<1>3. QED
  BY <1>1, <1>2, Zenon DEF p

\* DistributePercentages in these terms.
LEMMA DistributeIs ==
  ASSUME NEW val
  PROVE  DistributePercentages(val) =
           [k \in DOMAIN val |->
              IF Sum(val, DOMAIN val) = 0 THEN 0
              ELSE Base(val, Sum(val, DOMAIN val), k) + Extra(val, Sum(val, DOMAIN val), k)]
<1> DEFINE D == DOMAIN val
           total == Sum(val, D)
           base == [k \in D |-> Base(val, total, k)]
<1>1. Missing(val, total) = Hundred - MapThenSumSet(LAMBDA k : base[k], D)
  BY DEF Missing, Sum
<1>2. \A k \in D : Rank(D, Order(DOMAIN val, val, total), k) = Cardinality({x \in D : Before(val, total, x, k)})
  <2> SUFFICES ASSUME NEW k \in D
               PROVE  {x \in D : <<x, k>> \in Order(DOMAIN val, val, total)} = {x \in D : Before(val, total, x, k)}
    BY DEF Rank
  <2>1. \A x \in D : <<x, k>> \in Order(DOMAIN val, val, total) <=> Before(val, total, x, k)
    BY OrderIs
  <2>2. QED
    BY <2>1, Zenon
<1>3. QED
  BY <1>1, <1>2 DEF DistributePercentages, Extra, Base, Remainder, Before, Sum

\* The items are in a strict order.
LEMMA OrderIsStrict ==
  ASSUME NEW val, NEW total \in Int, total > 0, DOMAIN val \subseteq Int,
         \A k \in DOMAIN val : val[k] \in Nat
  PROVE  /\ \A a \in DOMAIN val : <<a, a>> \notin Order(DOMAIN val, val, total)
         /\ \A a, b \in DOMAIN val : a # b => <<a, b>> \in Order(DOMAIN val, val, total) \/ <<b, a>> \in Order(DOMAIN val, val, total)
         /\ \A a, b, c \in DOMAIN val :
              <<a, b>> \in Order(DOMAIN val, val, total) /\ <<b, c>> \in Order(DOMAIN val, val, total) => <<a, c>> \in Order(DOMAIN val, val, total)
<1>1. \A k \in DOMAIN val : Remainder(val, total, k) \in Int
  BY DivMod DEF Remainder, Hundred
<1>2. \A a, b \in DOMAIN val : <<a, b>> \in Order(DOMAIN val, val, total) <=> Before(val, total, a, b)
  BY OrderIs
<1>3. \A a \in DOMAIN val : ~Before(val, total, a, a)
  BY <1>1 DEF Before
<1>4. \A a, b \in DOMAIN val : a # b => Before(val, total, a, b) \/ Before(val, total, b, a)
  BY <1>1 DEF Before
<1>5. \A a, b, c \in DOMAIN val :
        Before(val, total, a, b) /\ Before(val, total, b, c) => Before(val, total, a, c)
  BY <1>1 DEF Before
<1>6. QED
  BY <1>2, <1>3, <1>4, <1>5

\* The hundredths that are missing are as many as the remainders they are made
\* of, so only items with a remainder get one.
LEMMA MissingIsCovered ==
  ASSUME NEW val, IsFiniteSet(DOMAIN val), \A k \in DOMAIN val : val[k] \in Nat,
         NEW total \in Int, total > 0, total = Sum(val, DOMAIN val)
  PROVE  /\ Missing(val, total) \in Nat
         /\ Missing(val, total) <= Cardinality({k \in DOMAIN val : Remainder(val, total, k) > 0})
<1> DEFINE D == DOMAIN val
           scaled == [k \in D |-> Hundred * val[k]]
           zero == [k \in D |-> 0]
           base == [k \in D |-> Base(val, total, k)]
           rem == [k \in D |-> Remainder(val, total, k)]
<1>1. \A k \in D : /\ base[k] \in Int /\ rem[k] \in 0..total /\ rem[k] \in Int
                   /\ scaled[k] = total * base[k] + rem[k] /\ scaled[k] \in Int
  <2> SUFFICES ASSUME NEW k \in D
               PROVE  /\ base[k] \in Int /\ rem[k] \in 0..total /\ rem[k] \in Int
                      /\ scaled[k] = total * base[k] + rem[k] /\ scaled[k] \in Int
    OBVIOUS
  <2>1. scaled[k] \in Int
    BY DEF Hundred
  <2>2. /\ scaled[k] \div total \in Int /\ scaled[k] % total \in 0..(total - 1)
        /\ scaled[k] = total * (scaled[k] \div total) + (scaled[k] % total)
    BY <2>1, DivMod
  <2>3. base[k] = scaled[k] \div total /\ rem[k] = scaled[k] % total
    BY DEF Base, Remainder
  <2> HIDE DEF base, rem, scaled
  <2>4. QED
    BY <2>1, <2>2, <2>3
<1>2. Sum(zero, D) = 0
  <2>1. Sum(zero, D) = Cardinality({k \in D : zero[k] = 1})
    BY SumCounts
  <2>2. {k \in D : zero[k] = 1} = {}
    OBVIOUS
  <2>3. QED
    BY <2>1, <2>2, FS_EmptySet
<1>3. Sum(scaled, D) = Hundred * total
  <2>1. /\ \A k \in D : val[k] \in Int
        /\ \A k \in D : scaled[k] \in Int
        /\ \A k \in D : zero[k] \in Int
        /\ \A k \in D : scaled[k] = Prod(Hundred, val[k]) + zero[k]
        /\ Hundred \in Int
    BY DEF Hundred, Prod
  <2> HIDE DEF scaled, zero
  <2>2. Sum(scaled, D) = Prod(Hundred, Sum(val, D)) + Sum(zero, D)
    BY <2>1, SumLinear
  <2>3. QED
    BY <1>2, <2>2 DEF Hundred, Prod
<1>4. Sum(scaled, D) = total * Sum(base, D) + Sum(rem, D)
  <2> HIDE DEF scaled, base, rem
  <2>1. /\ \A k \in D : base[k] \in Int
        /\ \A k \in D : scaled[k] \in Int
        /\ \A k \in D : rem[k] \in Int
        /\ \A k \in D : scaled[k] = Prod(total, base[k]) + rem[k]
    BY <1>1 DEF Prod
  <2>2. Sum(scaled, D) = Prod(total, Sum(base, D)) + Sum(rem, D)
    BY <2>1, SumLinear
  <2>3. QED
    BY <2>2 DEF Prod
<1>5. Sum(base, D) \in Int
  <2> HIDE DEF base
  <2>1. QED
    BY <1>1, SumRemove
<1> DEFINE n == Cardinality({k \in D : rem[k] > 0})
<1>6. Sum(rem, D) \in Nat /\ Sum(rem, D) <= total * n
  <2> HIDE DEF rem
  <2>1. total \in Nat /\ \A k \in D : rem[k] \in 0..total
    BY <1>1
  <2>2. QED
    BY <2>1, SumBounded
<1>7. n \in Nat
  BY FS_Subset, FS_CardinalityType
<1>8. Missing(val, total) = Hundred - Sum(base, D)
  BY DEF Missing
<1>9. n = Cardinality({k \in D : Remainder(val, total, k) > 0})
  <2>1. {k \in D : rem[k] > 0} = {k \in D : Remainder(val, total, k) > 0}
    OBVIOUS
  <2>2. QED
    BY <2>1
<1> DEFINE b == Sum(base, D)
           r == Sum(rem, D)
<1>10. b \in Int /\ r \in Nat /\ r <= total * n /\ Hundred * total = total * b + r
  BY <1>3, <1>4, <1>5, <1>6
<1>11. Hundred - b \in Nat /\ Hundred - b <= n
  <2> HIDE DEF b, r, n
  <2>1. total * (Hundred - b) = r
    BY <1>10 DEF Hundred
  <2>2. ASSUME Hundred - b < 0
        PROVE  FALSE
    BY <1>10, <2>1, <2>2 DEF Hundred
  <2>3. ASSUME Hundred - b > n
        PROVE  FALSE
    <3>1. total * ((Hundred - b) - n) > 0
      BY <1>7, <1>10, <2>3 DEF Hundred
    <3>2. total * ((Hundred - b) - n) = r - total * n
      BY <1>7, <1>10, <2>1 DEF Hundred
    <3>3. QED
      BY <1>7, <1>10, <3>1, <3>2
  <2>4. QED
    BY <1>7, <1>10, <2>2, <2>3 DEF Hundred
<1>12. QED
  BY <1>8, <1>9, <1>11

\* The hundredths handed out are those that were missing, and nobody who has no
\* remainder gets one.
LEMMA ExtraIsMissing ==
  ASSUME NEW val, IsFiniteSet(DOMAIN val), DOMAIN val \subseteq Int,
         \A k \in DOMAIN val : val[k] \in Nat,
         NEW total \in Int, total > 0, total = Sum(val, DOMAIN val)
  PROVE  /\ Sum([k \in DOMAIN val |-> Extra(val, total, k)], DOMAIN val) = Missing(val, total)
         /\ \A k \in DOMAIN val : Extra(val, total, k) = 1 => Remainder(val, total, k) > 0
<1> DEFINE D == DOMAIN val
           R == Order(D, val, total)
           m == Missing(val, total)
           extra == [k \in D |-> Extra(val, total, k)]
           Pos == {k \in D : Remainder(val, total, k) > 0}
<1>1. /\ \A a \in D : <<a, a>> \notin R
      /\ \A a, b \in D : a # b => <<a, b>> \in R \/ <<b, a>> \in R
      /\ \A a, b, c \in D : <<a, b>> \in R /\ <<b, c>> \in R => <<a, c>> \in R
  BY OrderIsStrict
<1>2. m \in Nat /\ m <= Cardinality(Pos)
  BY MissingIsCovered
<1>3. IsFiniteSet(Pos) /\ Cardinality(Pos) \in Nat /\ Cardinality(D) \in Nat /\ Cardinality(Pos) <= Cardinality(D)
  BY FS_Subset, FS_CardinalityType
<1>4. Cardinality({k \in D : Rank(D, R, k) < m}) = m
  <2>1. m \in 0..Cardinality(D)
    BY <1>2, <1>3
  <2>2. IsFiniteSet(D)
    OBVIOUS
  <2> HIDE DEF D, R, m
  <2>3. \A u \in 0..Cardinality(D) : Cardinality({k \in D : Rank(D, R, k) < u}) = u
    BY <1>1, <2>2, RankCount
  <2>4. QED
    BY <2>1, <2>3
<1>5. Sum(extra, D) = m
  <2>1. {k \in D : extra[k] = 1} = {k \in D : Rank(D, R, k) < m}
    BY DEF Extra
  <2>2. \A k \in D : extra[k] \in {0, 1}
    BY DEF Extra
  <2> HIDE DEF extra, m, R
  <2>3. Sum(extra, D) = Cardinality({k \in D : extra[k] = 1})
    BY <2>2, SumCounts
  <2>4. QED
    BY <1>4, <2>1, <2>3
<1>6. ASSUME NEW k \in D, ~(Remainder(val, total, k) > 0)
      PROVE  Extra(val, total, k) # 1
  <2>1. \A x \in D : Remainder(val, total, x) \in Int
    BY DivMod DEF Remainder, Hundred
  <2>2. \A x \in Pos : <<x, k>> \in R
    <3> SUFFICES ASSUME NEW x \in Pos
                 PROVE  <<x, k>> \in R
      OBVIOUS
    <3>1. Before(val, total, x, k)
      BY <1>6, <2>1 DEF Before
    <3>2. x \in D
      OBVIOUS
    <3>3. QED
      BY <3>1, <3>2, OrderIs
  <2>3. Pos \subseteq {x \in D : <<x, k>> \in R} /\ IsFiniteSet({x \in D : <<x, k>> \in R})
    BY <2>2, FS_Subset
  <2>4. Cardinality(Pos) <= Rank(D, R, k) /\ Rank(D, R, k) \in Nat
    BY <2>3, FS_Subset, FS_CardinalityType DEF Rank
  <2>5. ~(Rank(D, R, k) < m)
    <3> HIDE DEF m, R, D, Pos
    <3>1. QED
      BY <1>2, <1>3, <2>4
  <2>6. QED
    BY <2>5 DEF Extra
<1>7. QED
  BY <1>5, <1>6

\* What an item is given.
LEMMA ShareIs ==
  ASSUME NEW val, IsFiniteSet(DOMAIN val), DOMAIN val \subseteq Int,
         \A k \in DOMAIN val : val[k] \in Nat, Sum(val, DOMAIN val) > 0
  PROVE  LET total == Sum(val, DOMAIN val)
             shares == DistributePercentages(val) IN
         /\ DOMAIN shares = DOMAIN val /\ total \in Int
         /\ Sum(shares, DOMAIN val) = Hundred
         /\ \A k \in DOMAIN val :
              /\ shares[k] = Base(val, total, k) + Extra(val, total, k)
              /\ Base(val, total, k) \in Int /\ Extra(val, total, k) \in {0, 1}
              /\ Remainder(val, total, k) \in 0..(total - 1)
              /\ Extra(val, total, k) = 1 => Remainder(val, total, k) > 0
              /\ Hundred * val[k] = total * Base(val, total, k) + Remainder(val, total, k)
<1> DEFINE D == DOMAIN val
           total == Sum(val, D)
           shares == DistributePercentages(val)
           base == [k \in D |-> Base(val, total, k)]
           extra == [k \in D |-> Extra(val, total, k)]
<1>1. total \in Int
  BY SumRemove
<1>2. shares = [k \in D |-> Base(val, total, k) + Extra(val, total, k)]
  <2>1. total # 0
    BY <1>1
  <2>2. QED
    BY <2>1, DistributeIs
<1>3. ASSUME NEW k \in D
      PROVE  /\ Base(val, total, k) \in Int /\ Extra(val, total, k) \in {0, 1}
             /\ Remainder(val, total, k) \in 0..(total - 1)
             /\ Hundred * val[k] = total * Base(val, total, k) + Remainder(val, total, k)
  <2> DEFINE a == Hundred * val[k]
  <2>1. a \in Int
    BY DEF Hundred
  <2>2. Base(val, total, k) = a \div total /\ Remainder(val, total, k) = a % total
    BY DEF Base, Remainder
  <2>3. Extra(val, total, k) \in {0, 1}
    BY DEF Extra
  <2> HIDE DEF a, total
  <2>4. a \div total \in Int /\ a % total \in 0..(total - 1) /\ a = total * (a \div total) + (a % total)
    BY <1>1, <2>1, DivMod DEF total
  <2>5. QED
    BY <2>2, <2>3, <2>4 DEF a
<1>4. Sum(extra, D) = Missing(val, total) /\ \A k \in D : Extra(val, total, k) = 1 => Remainder(val, total, k) > 0
  BY <1>1, ExtraIsMissing
<1>5. Missing(val, total) = Hundred - Sum(base, D)
  BY DEF Missing
<1>6. Sum(shares, D) = Hundred
  <2>1. /\ \A k \in D : shares[k] \in Int
        /\ \A k \in D : base[k] \in Int
        /\ \A k \in D : extra[k] \in Int
        /\ \A k \in D : shares[k] = Prod(1, base[k]) + extra[k]
    BY <1>2, <1>3 DEF Prod
  <2> HIDE DEF shares, base, extra
  <2>2. Sum(shares, D) = Prod(1, Sum(base, D)) + Sum(extra, D)
    BY <2>1, SumLinear
  <2>3. Sum(base, D) \in Int
    BY <2>1, SumRemove
  <2>4. QED
    BY <1>4, <1>5, <2>2, <2>3 DEF Prod, Hundred
<1> HIDE DEF total
<1>7. QED
  BY <1>1, <1>2, <1>3, <1>4, <1>6 DEF total

\* A breakdown of any counts adds up to 100.00, and no percentage is off by a
\* hundredth: what no rounding of the items one by one could do.
THEOREM BreakdownAddsUp ==
  ASSUME NEW val, IsFiniteSet(DOMAIN val), DOMAIN val \subseteq Int,
         \A k \in DOMAIN val : val[k] \in Nat
  PROVE  AddUp(DistributePercentages(val), val)
<1> DEFINE D == DOMAIN val
           total == Sum(val, D)
           shares == DistributePercentages(val)
<1>1. DOMAIN shares = D
  BY DistributeIs
<1> SUFFICES ASSUME total > 0
             PROVE  /\ Sum(shares, D) = Hundred
                    /\ \A k \in D : /\ (shares[k] - 1) * total < Hundred * val[k]
                                    /\ Hundred * val[k] < (shares[k] + 1) * total
  BY <1>1 DEF AddUp, Sum
<1>2. ASSUME NEW k \in D
      PROVE  (shares[k] - 1) * total < Hundred * val[k] /\ Hundred * val[k] < (shares[k] + 1) * total
  <2> DEFINE b == Base(val, total, k)
             e == Extra(val, total, k)
             r == Remainder(val, total, k)
             h == Hundred * val[k]
  <2>1. /\ total \in Int /\ shares[k] = b + e /\ b \in Int /\ e \in {0, 1} /\ r \in 0..(total - 1)
        /\ e = 1 => r > 0
        /\ h = total * b + r
    BY ShareIs
  <2> HIDE DEF b, e, r, h, total, shares
  <2>2. (b - 1) * total = total * b - total /\ b * total = total * b
        /\ (b + 1) * total = total * b + total /\ (b + 2) * total = total * b + 2 * total
    BY <2>1
  <2> DEFINE p == total * b
  <2>3. p \in Int
    BY <2>1
  <2>4. CASE e = 0
    <3>1. (b - 1) * total < h /\ h < (b + 1) * total
      <4>1. p - total < p + r /\ p + r < p + total
        BY <2>1, <2>3
      <4>2. QED
        BY <2>1, <2>2, <4>1
    <3>2. QED
      BY <2>1, <2>4, <3>1 DEF h
  <2>5. CASE e = 1
    <3>1. b * total < h /\ h < (b + 2) * total
      <4>1. p < p + r /\ p + r < p + 2 * total
        BY <2>1, <2>3, <2>5
      <4>2. QED
        BY <2>1, <2>2, <4>1
    <3>2. shares[k] - 1 = b /\ shares[k] + 1 = b + 2
      BY <2>1, <2>5
    <3>3. QED
      BY <3>1, <3>2 DEF h
  <2>6. QED
    BY <2>1, <2>4, <2>5
<1>3. QED
  BY <1>2, ShareIs

=============================================================================
