------------------------------- MODULE Shares -------------------------------
(***************************************************************************)
(* How the dashboard turns counts into percentages that add up to 100.00:  *)
(* the largest remainder method.  Percentages are in hundredths.  Items    *)
(* are named by numbers in the order of the first characters of their      *)
(* keys and, of equal ones, of their places in the list, which breaks the  *)
(* last ties.                                                              *)
(***************************************************************************)
EXTENDS Integers, FiniteSetsExt

Hundred == 10000

\* quantize to two decimals, ROUND_HALF_UP
RoundedRatio(n, d) == (2 * Hundred * n + d) \div (2 * d)

\* Mutant: every item is rounded on its own.
DistributeRounded(val) ==
  LET total == MapThenSumSet(LAMBDA k : val[k], DOMAIN val)
  IN [k \in DOMAIN val |-> IF total = 0 THEN 0 ELSE RoundedRatio(val[k], total)]

DistributePercentages(val) ==
  LET total == MapThenSumSet(LAMBDA k : val[k], DOMAIN val)
      base == [k \in DOMAIN val |-> (Hundred * val[k]) \div total]
      remainder == [k \in DOMAIN val |-> (Hundred * val[k]) % total]
      units == Hundred - MapThenSumSet(LAMBDA k : base[k], DOMAIN val)
      Before(a, b) ==
        \/ remainder[a] > remainder[b]
        \/ remainder[a] = remainder[b] /\ val[a] > val[b]
        \/ remainder[a] = remainder[b] /\ val[a] = val[b] /\ a < b
      rank == [k \in DOMAIN val |-> Cardinality({x \in DOMAIN val : Before(x, k)})]
  IN [k \in DOMAIN val |->
        IF total = 0 THEN 0 ELSE base[k] + IF rank[k] < units THEN 1 ELSE 0]

\* The percentages of a breakdown add up to 100.00 and none is off by one
\* hundredth or more.
AddUp(shares, counts) ==
  LET total == MapThenSumSet(LAMBDA k : counts[k], DOMAIN counts) IN
  total > 0 =>
    /\ MapThenSumSet(LAMBDA k : shares[k], DOMAIN shares) = Hundred
    /\ \A k \in DOMAIN shares :
         (shares[k] - 1) * total < Hundred * counts[k] /\ Hundred * counts[k] < (shares[k] + 1) * total
=============================================================================
