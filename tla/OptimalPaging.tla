--------------------------- MODULE OptimalPaging ----------------------------
(* The reference that the engine's optimality claim is judged by: the least  *)
(* number of programs with which any schedule, of any policy, serves a use   *)
(* sequence on k tiles, by exhaustive search over what to keep.              *)
EXTENDS Integers, Sequences, FiniteSets, FiniteSetsExt

CONSTANT Weights

\* What may be kept of the weights held, to make room for one more.
Keeps(held, k) == {s \in SUBSET held : Cardinality(s) < k}

\* The cost of one use and what follows it, by the weights held before it,
\* given the cost of what follows, by the weights held then.
CostBefore(use, cost, k) ==
  [held \in SUBSET Weights |->
     IF use \in held THEN cost[held]
     ELSE 1 + Min({cost[keep \cup {use}] : keep \in Keeps(held, k)})]

\* The least cost of the last uses of seq, by their number.
LeastCost(seq, k) ==
  LET cost[left \in 0 .. Len(seq)] ==
        IF left = 0 THEN [held \in SUBSET Weights |-> 0]
        ELSE CostBefore(seq[Len(seq) - left + 1], cost[left - 1], k)
  IN cost

MinPrograms(seq, k) == LeastCost(seq, k)[Len(seq)][{}]
=============================================================================
