------------------------ MODULE TilePlacementProofs -------------------------
(***************************************************************************)
(* Proofs about the placement engine, for every number of weights, tiles   *)
(* and steps: its bookkeeping invariant, what each policy evicts, the      *)
(* refinement of TileArray, that is, every schedule the engine emits       *)
(* passes the replay of validatePlacement, and that Belady's policy is     *)
(* optimal: it programs exactly as often as the best schedule there is     *)
(* (OptimalPaging), and the two other policies never less often.  At the   *)
(* end, the engine under Belady returns the schedule that Schedules        *)
(* computes and the pass is modelled with.                                 *)
(***************************************************************************)
EXTENDS MCTilePlacement, FiniteSetTheorems, TLAPS

\* Its lemmas on induction are cited and, at the end, those on Belady.
Fn == INSTANCE SchedulesProofs

(* What the best schedule costs.  Of the cost of what is left of a          *)
(* sequence, as a function of the weights held: holding more never costs    *)
(* more (Monotone), holding one weight less costs at most one program more  *)
(* (OneLess), and of two weights it is the one needed sooner that should be *)
(* held (Exchange).  So dropping the victim is a best choice, and the       *)
(* programs so far plus the least cost of the rest stay what they were.     *)

Cost(seq, k)  == Reference!LeastCost(seq, k)
Keeps(h, k)   == Reference!Keeps(h, k)
\* The use that is made when so many are left, itself included.
UseWith(seq, left) == seq[Len(seq) - left + 1]

Costs == [SUBSET Weights -> Nat]

LEMMA MinIsLeast ==
  ASSUME NEW T \in SUBSET Nat, T # {}
  PROVE  Reference!Min(T) \in T /\ \A m \in T : Reference!Min(T) <= m
<1>1. \E n \in T : \A m \in T : n <= m
  BY Fn!Least
<1> QED BY <1>1 DEF Reference!Min

\* The instance has its own name for the cardinality.
LEMMA SameCardinality == \A S : Reference!Cardinality(S) = Cardinality(S)
BY DEF Reference!Cardinality, Cardinality, Reference!IsFiniteSet, IsFiniteSet

\* Something can always be kept: nothing.
LEMMA KeepsNothing ==
  ASSUME NEW held \in SUBSET Weights, NEW k \in Nat \ {0}
  PROVE  {} \in Keeps(held, k)
BY FS_EmptySet, SameCardinality DEF Keeps, Reference!Keeps

\* The choices there are to serve a use that is not held.
Offers(use, cost, held, k) == {cost[keep \cup {use}] : keep \in Keeps(held, k)}

LEMMA ChoicesAreCosts ==
  ASSUME NEW use \in Weights, NEW cost \in Costs, NEW held \in SUBSET Weights, NEW k \in Nat \ {0}
  PROVE  Offers(use, cost, held, k) \in SUBSET Nat /\ Offers(use, cost, held, k) # {}
<1>1. \A keep \in Keeps(held, k) : keep \cup {use} \in SUBSET Weights
  BY DEF Keeps, Reference!Keeps
<1> QED BY <1>1, KeepsNothing DEF Offers, Costs

LEMMA CostBeforeType ==
  ASSUME NEW use \in Weights, NEW cost \in Costs, NEW k \in Nat \ {0}
  PROVE  Reference!CostBefore(use, cost, k) \in Costs
<1> SUFFICES ASSUME NEW held \in SUBSET Weights
             PROVE  (IF use \in held THEN cost[held]
                     ELSE 1 + Reference!Min(Offers(use, cost, held, k))) \in Nat
  BY DEF Reference!CostBefore, Costs, Offers, Keeps
<1>1. Reference!Min(Offers(use, cost, held, k)) \in Nat
  BY ChoicesAreCosts, MinIsLeast
<1> QED BY <1>1 DEF Costs

\* The recursive definition of the least cost has the solution it describes.
LEMMA CostEquation ==
  ASSUME NEW seq \in Seq(Weights), NEW k \in Nat \ {0}
  PROVE  /\ Cost(seq, k) \in [0 .. Len(seq) -> Costs]
         /\ Cost(seq, k)[0] = [held \in SUBSET Weights |-> 0]
         /\ \A left \in 1 .. Len(seq) :
              Cost(seq, k)[left] =
                Reference!CostBefore(UseWith(seq, left), Cost(seq, k)[left - 1], k)
<1> DEFINE n == Len(seq)
           zero == [held \in SUBSET Weights |-> 0]
           next == [left \in 1 .. n |-> [c \in Costs |-> Reference!CostBefore(UseWith(seq, left), c, k)]]
           P(f) == f = [left \in 0 .. n |->
                          IF left = 0 THEN zero
                          ELSE Reference!CostBefore(seq[n - left + 1], f[left - 1], k)]
<1>1. n \in Nat /\ \A left \in 1 .. n : UseWith(seq, left) \in Weights
  BY DEF UseWith
<1>2. zero \in Costs
  BY DEF Costs
<1>3. next \in Fn!StepsTo(n, Costs)
  BY <1>1, CostBeforeType DEF Fn!StepsTo
<1> HIDE DEF zero
<1>4. \A left \in 1 .. n, c \in Costs : next[left][c] = Reference!CostBefore(UseWith(seq, left), c, k)
  OBVIOUS
<1> HIDE DEF next, n
<1>4a. PICK g : Fn!IsRecursive(g, Costs, zero, n, next)
  BY <1>1, <1>2, <1>3, Fn!BoundedRecursion
<1>5. g \in [0 .. n -> Costs] /\ g = [i \in 0 .. n |-> IF i = 0 THEN zero ELSE next[i][g[i - 1]]]
  BY <1>4a DEF Fn!IsRecursive
<1>6. P(g)
  <2>1. ASSUME NEW left \in 0 .. n
        PROVE  g[left] = IF left = 0 THEN zero
                         ELSE Reference!CostBefore(seq[n - left + 1], g[left - 1], k)
    <3>1. CASE left = 0
      BY <1>1, <1>5, <3>1
    <3>2. CASE left # 0
      <4>1. left \in 1 .. n /\ left - 1 \in 0 .. n
        BY <1>1, <3>2
      <4>2. g[left] = next[left][g[left - 1]] /\ g[left - 1] \in Costs
        BY <1>5, <3>2, <4>1
      <4> QED BY <1>4, <3>2, <4>1, <4>2 DEF UseWith, n
    <3> QED BY <3>1, <3>2
  <2> QED BY <1>5, <2>1
<1>7. Cost(seq, k) = CHOOSE f : P(f)
  BY DEF Cost, Reference!LeastCost, zero, n
<1> HIDE DEF P
<1>8. P(Cost(seq, k))
  BY <1>6, <1>7, Zenon
<1>9. Cost(seq, k) = [left \in 0 .. n |->
                        IF left = 0 THEN zero
                        ELSE Reference!CostBefore(UseWith(seq, left), Cost(seq, k)[left - 1], k)]
  BY <1>8 DEF P, UseWith, n
<1>10. \A left \in 0 .. n : Cost(seq, k)[left] \in Costs
  <2> DEFINE S == {left \in Nat : left <= n => Cost(seq, k)[left] \in Costs}
  <2>1. 0 \in S
    BY <1>1, <1>2, <1>9
  <2>2. ASSUME NEW left \in Nat, left \in S PROVE left + 1 \in S
    <3> SUFFICES ASSUME left + 1 <= n PROVE Cost(seq, k)[left + 1] \in Costs
      OBVIOUS
    <3>1. left + 1 \in 1 .. n /\ left \in 0 .. n /\ (left + 1) - 1 = left
      BY <1>1
    <3>2. Cost(seq, k)[left] \in Costs
      BY <2>2, <3>1
    <3>3. Cost(seq, k)[left + 1] =
            Reference!CostBefore(UseWith(seq, left + 1), Cost(seq, k)[left], k)
      BY <1>9, <3>1
    <3> QED BY <1>1, <3>1, <3>2, <3>3, CostBeforeType
  <2> HIDE DEF S
  <2>3. \A left \in Nat : left \in S
    BY <2>1, <2>2, Fn!SetInduction
  <2> QED BY <2>3 DEF S
<1>11. \A left \in 1 .. n : left \in 0 .. n /\ left # 0
  BY <1>1
<1>12. \A left \in 1 .. n : Cost(seq, k)[left] =
                Reference!CostBefore(UseWith(seq, left), Cost(seq, k)[left - 1], k)
  BY <1>9, <1>11
<1>13. Cost(seq, k)[0] = zero
  BY <1>1, <1>9
<1>14. Cost(seq, k) \in [0 .. n -> Costs]
  BY <1>9, <1>10
<1> QED BY <1>12, <1>13, <1>14 DEF n, zero

\* The cost with one more use, from the cost after it: nothing is added when
\* the use is held, else a program and the best choice of what to keep.
IsStep(now, after, use, k) ==
  /\ use \in Weights /\ now \in Costs /\ after \in Costs
  /\ \A held \in SUBSET Weights :
       /\ use \in held => now[held] = after[held]
       /\ use \notin held =>
            /\ \A keep \in Keeps(held, k) : now[held] <= 1 + after[keep \cup {use}]
            /\ \E keep \in Keeps(held, k) : now[held] = 1 + after[keep \cup {use}]

LEMMA CostStep ==
  ASSUME NEW seq \in Seq(Weights), NEW k \in Nat \ {0}, NEW left \in 1 .. Len(seq)
  PROVE  IsStep(Cost(seq, k)[left], Cost(seq, k)[left - 1], UseWith(seq, left), k)
<1> DEFINE use == UseWith(seq, left)
           now == Cost(seq, k)[left]
           after == Cost(seq, k)[left - 1]
<1>1. use \in Weights /\ left \in 0 .. Len(seq) /\ left - 1 \in 0 .. Len(seq)
  BY DEF UseWith
<1>2. now \in Costs /\ after \in Costs
  BY <1>1, CostEquation
<1>3. now = Reference!CostBefore(use, after, k)
  BY CostEquation
<1> HIDE DEF use, now, after
<1> SUFFICES ASSUME NEW held \in SUBSET Weights
             PROVE  /\ use \in held => now[held] = after[held]
                    /\ use \notin held =>
                         /\ \A keep \in Keeps(held, k) : now[held] <= 1 + after[keep \cup {use}]
                         /\ \E keep \in Keeps(held, k) : now[held] = 1 + after[keep \cup {use}]
  BY <1>1, <1>2 DEF IsStep, use, now, after
<1>4. now[held] = IF use \in held THEN after[held]
                  ELSE 1 + Reference!Min(Offers(use, after, held, k))
  BY <1>3 DEF Reference!CostBefore, Offers, Keeps
<1>5. Offers(use, after, held, k) \in SUBSET Nat /\ Offers(use, after, held, k) # {}
  BY <1>1, <1>2, ChoicesAreCosts
<1>6. /\ Reference!Min(Offers(use, after, held, k)) \in Offers(use, after, held, k)
      /\ \A m \in Offers(use, after, held, k) : Reference!Min(Offers(use, after, held, k)) <= m
  BY <1>5, MinIsLeast
<1>7. ASSUME use \notin held
      PROVE  /\ \A keep \in Keeps(held, k) : now[held] <= 1 + after[keep \cup {use}]
             /\ \E keep \in Keeps(held, k) : now[held] = 1 + after[keep \cup {use}]
  <2>1. \A keep \in Keeps(held, k) : after[keep \cup {use}] \in Offers(use, after, held, k)
    BY DEF Offers
  <2>2. \A m \in Offers(use, after, held, k) : \E keep \in Keeps(held, k) : m = after[keep \cup {use}]
    BY DEF Offers
  <2>3. now[held] = 1 + Reference!Min(Offers(use, after, held, k))
    BY <1>4, <1>7
  <2>4. \A m \in Offers(use, after, held, k) : m \in Nat /\ now[held] <= 1 + m
    BY <1>5, <1>6, <2>3
  <2> QED BY <1>6, <2>1, <2>2, <2>3, <2>4
<1> QED BY <1>4, <1>7

\* What every step preserves holds of every cost.
LEMMA CostInduction ==
  ASSUME NEW seq \in Seq(Weights), NEW k \in Nat \ {0}, NEW Good,
         [held \in SUBSET Weights |-> 0] \in Good,
         \A now, after, use : after \in Good /\ IsStep(now, after, use, k) => now \in Good
  PROVE  \A left \in 0 .. Len(seq) : Cost(seq, k)[left] \in Good
<1> DEFINE n == Len(seq)
           S == {left \in Nat : left <= n => Cost(seq, k)[left] \in Good}
<1>1. 0 \in S
  BY CostEquation
<1>2. ASSUME NEW left \in Nat, left \in S PROVE left + 1 \in S
  <2> SUFFICES ASSUME left + 1 <= n PROVE Cost(seq, k)[left + 1] \in Good
    OBVIOUS
  <2>1. left + 1 \in 1 .. Len(seq) /\ (left + 1) - 1 = left /\ Cost(seq, k)[left] \in Good
    BY <1>2
  <2>2. IsStep(Cost(seq, k)[left + 1], Cost(seq, k)[left], UseWith(seq, left + 1), k)
    BY <2>1, CostStep
  <2> QED BY <2>1, <2>2
<1> HIDE DEF S
<1>3. \A left \in Nat : left \in S
  BY <1>1, <1>2, Fn!SetInduction
<1> QED BY <1>3 DEF S
-----------------------------------------------------------------------------
\* Holding more never costs more.
IsMonotone(cost) ==
  \A more \in SUBSET Weights : \A held \in SUBSET more : cost[more] <= cost[held]

LEMMA MonotoneStep ==
  ASSUME NEW now, NEW after, NEW use, NEW k, IsStep(now, after, use, k), IsMonotone(after)
  PROVE  IsMonotone(now)
<1> SUFFICES ASSUME NEW more \in SUBSET Weights, NEW held \in SUBSET more
             PROVE  now[more] <= now[held]
  BY DEF IsMonotone
<1>1. held \in SUBSET Weights
  OBVIOUS
<1>2. now[more] \in Nat /\ now[held] \in Nat /\ \A h \in SUBSET Weights : after[h] \in Nat
  BY <1>1 DEF IsStep, Costs
<1>3. CASE use \in held
  BY <1>1, <1>3 DEF IsStep, IsMonotone
<1>4. CASE use \notin held
  <2>1. PICK keep \in Keeps(held, k) : now[held] = 1 + after[keep \cup {use}]
    BY <1>1, <1>4 DEF IsStep
  <2>2. keep \in SUBSET held /\ keep \in Keeps(more, k)
    BY <2>1 DEF Keeps, Reference!Keeps
  <2>3. keep \cup {use} \in SUBSET Weights /\ after[keep \cup {use}] \in Nat /\ after[more] \in Nat
    BY <1>1, <1>2, <2>2 DEF IsStep
  <2>4. CASE use \in more
    <3>1. now[more] = after[more]
      BY <2>4 DEF IsStep
    <3>2. after[more] <= after[keep \cup {use}]
      BY <2>2, <2>4 DEF IsMonotone
    <3> QED BY <2>1, <2>3, <3>1, <3>2
  <2>5. CASE use \notin more
    <3>1. now[more] <= 1 + after[keep \cup {use}]
      BY <2>2, <2>5 DEF IsStep
    <3> QED BY <2>1, <3>1
  <2> QED BY <2>4, <2>5
<1> QED BY <1>3, <1>4

LEMMA Monotone ==
  ASSUME NEW seq \in Seq(Weights), NEW k \in Nat \ {0}, NEW left \in 0 .. Len(seq)
  PROVE  IsMonotone(Cost(seq, k)[left])
<1> DEFINE Good == {cost \in Costs : IsMonotone(cost)}
<1>1. [held \in SUBSET Weights |-> 0] \in Good
  BY DEF Costs, IsMonotone
<1>2. ASSUME NEW now, NEW after, NEW use, after \in Good, IsStep(now, after, use, k)
      PROVE  now \in Good
  BY <1>2, MonotoneStep DEF IsStep
<1> HIDE DEF Good
<1>3. Cost(seq, k)[left] \in Good
  BY <1>1, <1>2, CostInduction
<1> QED BY <1>3 DEF Good

\* Adding a weight to a set makes it larger by one.
LEMMA OneMore ==
  ASSUME NEW h, IsFiniteSet(h), NEW z, z \notin h
  PROVE  /\ IsFiniteSet(h \cup {z}) /\ Cardinality(h) \in Nat
         /\ Cardinality(h \cup {z}) = Cardinality(h) + 1
BY FS_AddElement, FS_CardinalityType

\* What is kept of a finite set.
LEMMA KeptSets ==
  ASSUME NEW h, IsFiniteSet(h), NEW k, NEW keep \in Keeps(h, k)
  PROVE  keep \in SUBSET h /\ IsFiniteSet(keep) /\ Cardinality(keep) \in Nat /\ Cardinality(keep) < k
<1>1. keep \in SUBSET h /\ Cardinality(keep) < k
  BY SameCardinality DEF Keeps, Reference!Keeps
<1> QED BY <1>1, FS_Subset, FS_CardinalityType

LEMMA CanKeep ==
  ASSUME NEW h, NEW k, NEW keep \in SUBSET h, Cardinality(keep) < k
  PROVE  keep \in Keeps(h, k)
BY SameCardinality DEF Keeps, Reference!Keeps

\* A kept weight dropped, or swapped for another one.
LEMMA Swapped ==
  ASSUME NEW keep, IsFiniteSet(keep), NEW y \in keep, NEW less, less = keep \ {y},
         NEW x, x \notin less
  PROVE  /\ IsFiniteSet(less) /\ Cardinality(less) \in Nat
         /\ Cardinality(keep) = Cardinality(less) + 1 /\ keep = less \cup {y}
         /\ IsFiniteSet(less \cup {x}) /\ Cardinality(less \cup {x}) = Cardinality(keep)
<1>1. IsFiniteSet(less) /\ keep = less \cup {y} /\ y \notin less
  BY FS_RemoveElement
<1>2. Cardinality(less) \in Nat /\ Cardinality(less \cup {y}) = Cardinality(less) + 1
  BY <1>1, OneMore
<1>3. IsFiniteSet(less \cup {x}) /\ Cardinality(less \cup {x}) = Cardinality(less) + 1
  BY <1>1, OneMore
<1> QED BY <1>1, <1>2, <1>3

LEMMA SwappedSize ==
  ASSUME NEW keep, IsFiniteSet(keep), NEW y \in keep, NEW x, x \notin keep
  PROVE  Cardinality((keep \ {y}) \cup {x}) = Cardinality(keep)
<1> DEFINE less == keep \ {y}
<1>1. less = keep \ {y} /\ x \notin less
  OBVIOUS
<1> HIDE DEF less
<1>2. Cardinality(less \cup {x}) = Cardinality(keep)
  BY <1>1, Swapped
<1> QED BY <1>2 DEF less

\* Holding one weight less costs at most one program more.
IsOneLess(cost, k) ==
  \A held \in SUBSET Weights : \A z \in Weights :
    IsFiniteSet(held) /\ Cardinality(held) < k => cost[held] <= 1 + cost[held \cup {z}]

LEMMA OneLessStep ==
  ASSUME NEW now, NEW after, NEW use, NEW k \in Nat, IsStep(now, after, use, k),
         IsOneLess(after, k)
  PROVE  IsOneLess(now, k)
<1> SUFFICES ASSUME NEW held \in SUBSET Weights, NEW z \in Weights,
                    IsFiniteSet(held), Cardinality(held) < k
             PROVE  now[held] <= 1 + now[held \cup {z}]
  BY DEF IsOneLess
<1> DEFINE more == held \cup {z}
<1>1. more \in SUBSET Weights /\ IsFiniteSet(more)
  BY FS_AddElement
<1>2. \A h \in SUBSET Weights : now[h] \in Nat /\ after[h] \in Nat
  BY DEF IsStep, Costs
<1>3. now[held] \in Nat /\ now[more] \in Nat /\ use \in Weights
  BY <1>1, <1>2 DEF IsStep
<1>4. CASE use \in held
  <2>1. now[held] = after[held] /\ now[more] = after[more]
    BY <1>1, <1>4 DEF IsStep
  <2> QED BY <2>1 DEF IsOneLess
<1>5. CASE use \notin held /\ use = z
  <2>1. now[held] <= 1 + after[more]
    BY <1>5, CanKeep DEF IsStep
  <2>2. now[more] = after[more]
    BY <1>1, <1>5 DEF IsStep
  <2> QED BY <1>3, <2>1, <2>2
<1>6. CASE use \notin more
  <2>1. PICK keep \in Keeps(more, k) : now[more] = 1 + after[keep \cup {use}]
    BY <1>1, <1>6 DEF IsStep
  <2>2. keep \in SUBSET more /\ IsFiniteSet(keep) /\ Cardinality(keep) \in Nat /\ Cardinality(keep) < k
    BY <1>1, KeptSets
  <2>3. keep \cup {use} \in SUBSET Weights
    BY <1>1, <1>3, <2>2
  <2>4. CASE z \notin keep
    <3>1. keep \in Keeps(held, k)
      BY <2>2, <2>4, CanKeep
    <3>2. now[held] <= 1 + after[keep \cup {use}]
      BY <1>6, <3>1 DEF IsStep
    <3> QED BY <1>2, <1>3, <2>1, <2>3, <3>2
  <2>5. CASE z \in keep
    <3> DEFINE less == keep \ {z}
    <3>1. /\ Cardinality(less) \in Nat /\ keep = less \cup {z}
          /\ Cardinality(keep) = Cardinality(less) + 1
          /\ IsFiniteSet(less \cup {use}) /\ Cardinality(less \cup {use}) = Cardinality(keep)
      <4>1. use \notin keep
        BY <1>6, <2>2
      <4> HIDE DEF more
      <4>2. IsFiniteSet(keep)
        BY <2>2
      <4>3. IsFiniteSet((keep \ {z}) \cup {use})
        BY <4>2, FS_RemoveElement, FS_AddElement
      <4>4. Cardinality((keep \ {z}) \cup {use}) = Cardinality(keep)
        BY <2>5, <4>1, <4>2, SwappedSize
      <4>5. Cardinality(keep \ {z}) \in Nat /\ Cardinality(keep) = Cardinality(keep \ {z}) + 1
        <5>1. /\ IsFiniteSet(keep \ {z})
              /\ Cardinality(keep \ {z}) = IF z \in keep THEN Cardinality(keep) - 1 ELSE Cardinality(keep)
          BY <4>2, FS_RemoveElement
        <5>2. Cardinality(keep) \in Nat /\ Cardinality(keep \ {z}) \in Nat
          BY <4>2, <5>1, FS_CardinalityType
        <5> QED BY <2>5, <5>1, <5>2
      <4> QED BY <2>5, <4>3, <4>4, <4>5
    <3>2. less \in SUBSET held /\ Cardinality(less) < k /\ Cardinality(less \cup {use}) < k
      BY <2>2, <3>1
    <3>3. now[held] <= 1 + after[less \cup {use}]
      BY <1>6, <3>1, <3>2, CanKeep DEF IsStep
    <3>4. less \cup {use} \in SUBSET Weights /\ (less \cup {use}) \cup {z} = keep \cup {use}
      BY <1>3, <3>1, <3>2
    <3> HIDE DEF less
    <3>5. after[less \cup {use}] <= 1 + after[(less \cup {use}) \cup {z}]
      BY <3>1, <3>2, <3>4 DEF IsOneLess
    <3>6. after[less \cup {use}] \in Nat /\ after[keep \cup {use}] \in Nat
      BY <1>2, <2>3, <3>4
    <3>7. after[less \cup {use}] <= 1 + after[keep \cup {use}]
      BY <3>4, <3>5
    <3> HIDE DEF more
    <3>8. now[held] <= 1 + now[more]
      BY <1>3, <2>1, <3>3, <3>6, <3>7
    <3> QED BY <3>8 DEF more
  <2> QED BY <2>4, <2>5
<1> QED BY <1>4, <1>5, <1>6

LEMMA OneLess ==
  ASSUME NEW seq \in Seq(Weights), NEW k \in Nat \ {0}, NEW left \in 0 .. Len(seq)
  PROVE  IsOneLess(Cost(seq, k)[left], k)
<1> DEFINE Good == {cost \in Costs : IsOneLess(cost, k)}
<1>1. [held \in SUBSET Weights |-> 0] \in Good
  BY DEF Costs, IsOneLess
<1>2. ASSUME NEW now, NEW after, NEW use, after \in Good, IsStep(now, after, use, k)
      PROVE  now \in Good
  BY <1>2, OneLessStep DEF IsStep
<1> HIDE DEF Good
<1>3. Cost(seq, k)[left] \in Good
  BY <1>1, <1>2, CostInduction
<1> QED BY <1>3 DEF Good
-----------------------------------------------------------------------------
\* Of two weights it is better to hold x than y, whatever else is held.
Prefers(cost, k, x, y) ==
  \A h \in SUBSET Weights :
    IsFiniteSet(h) /\ x \notin h /\ y \notin h /\ Cardinality(h) < k =>
      cost[h \cup {x}] <= cost[h \cup {y}]

LEMMA ExchangeStep ==
  ASSUME NEW now, NEW after, NEW use, NEW k \in Nat, IsStep(now, after, use, k),
         IsMonotone(after), IsOneLess(after, k), NEW x \in Weights, NEW y \in Weights,
         use = x \/ (use # y /\ Prefers(after, k, x, y))
  PROVE  Prefers(now, k, x, y)
<1>0. \A g \in SUBSET Weights : now[g] \in Nat /\ after[g] \in Nat
  BY DEF IsStep, Costs
<1> SUFFICES ASSUME NEW h \in SUBSET Weights, x # y,
                    IsFiniteSet(h), x \notin h, y \notin h, Cardinality(h) < k
             PROVE  now[h \cup {x}] <= now[h \cup {y}]
  <2>1. ASSUME NEW h \in SUBSET Weights PROVE now[h \cup {x}] <= now[h \cup {x}]
    BY <1>0
  <2>2. CASE x = y
    BY <2>1, <2>2 DEF Prefers
  <2>3. CASE x # y
    BY <2>3 DEF Prefers
  <2> QED BY <2>2, <2>3
<1> DEFINE hx == h \cup {x}
           hy == h \cup {y}
<1>1. hx \in SUBSET Weights /\ hy \in SUBSET Weights /\ IsFiniteSet(hy) /\ use \in Weights
  BY FS_AddElement DEF IsStep
<1>2. \A g \in SUBSET Weights : now[g] \in Nat /\ after[g] \in Nat
  BY <1>0
<1>3. CASE use \in h
  <2>1. now[hx] = after[hx] /\ now[hy] = after[hy]
    BY <1>1, <1>3 DEF IsStep
  <2>2. Prefers(after, k, x, y)
    BY <1>3
  <2> QED BY <2>1, <2>2 DEF Prefers
<1>4. CASE use \notin h
  <2>1. use \notin hy
    BY <1>4
  <2>2. PICK keep \in Keeps(hy, k) : now[hy] = 1 + after[keep \cup {use}]
    BY <1>1, <2>1 DEF IsStep
  <2>3. keep \in SUBSET hy /\ IsFiniteSet(keep) /\ Cardinality(keep) \in Nat /\ Cardinality(keep) < k
    BY <1>1, KeptSets
  <2> DEFINE less == keep \ {y}
  <2>4. ASSUME y \in keep
        PROVE  /\ IsFiniteSet(less) /\ keep = less \cup {y}
               /\ IsFiniteSet(less \cup {use}) /\ Cardinality(less \cup {use}) < k
               /\ Cardinality(less \cup {x}) < k
    <3>1. use \notin less /\ x \notin less /\ less = keep \ {y}
      BY <2>1, <2>3
    <3> HIDE DEF less
    <3>2. /\ IsFiniteSet(less) /\ keep = less \cup {y}
          /\ IsFiniteSet(less \cup {use}) /\ Cardinality(less \cup {use}) = Cardinality(keep)
      BY <2>3, <2>4, <3>1, Swapped
    <3>3. Cardinality(less \cup {x}) = Cardinality(keep)
      BY <2>3, <2>4, <3>1, Swapped
    <3> QED BY <2>3, <3>2, <3>3
  <2>5. less \in SUBSET h /\ y \notin less /\ x \notin less /\ use \notin less
    BY <1>4, <2>3
  <2>6. keep \cup {use} \in SUBSET Weights /\ less \cup {use} \in SUBSET Weights
    BY <1>1, <2>3
  <2>7. y \notin keep => keep = less
    OBVIOUS
  <2> HIDE DEF less
  <2>8. CASE use = x
    <3>1. now[hx] = after[hx]
      BY <1>1, <2>8 DEF IsStep
    <3>2. after[hx] <= after[less \cup {use}]
      BY <1>1, <2>5, <2>8 DEF IsMonotone
    <3>3. after[less \cup {use}] <= 1 + after[keep \cup {use}]
      <4>1. CASE y \notin keep
        BY <1>2, <2>6, <2>7, <4>1
      <4>2. CASE y \in keep
        <5>1. (less \cup {use}) \cup {y} = keep \cup {use}
          BY <2>4, <4>2
        <5> QED BY <2>4, <2>6, <4>2, <5>1 DEF IsOneLess
      <4> QED BY <4>1, <4>2
    <3>4. after[hx] \in Nat /\ after[less \cup {use}] \in Nat /\ after[keep \cup {use}] \in Nat
      BY <1>1, <1>2, <2>6
    <3> QED BY <2>2, <3>1, <3>2, <3>3, <3>4
  <2>9. CASE use # x
    <3>1. use \notin hx /\ Prefers(after, k, x, y)
      BY <1>4, <2>9
    <3>2. CASE y \notin keep
      <4>1. keep \in Keeps(hx, k)
        BY <2>3, <2>5, <2>7, <3>2, CanKeep
      <4>2. now[hx] <= 1 + after[keep \cup {use}]
        BY <1>1, <3>1, <4>1 DEF IsStep
      <4> QED BY <2>2, <4>2
    <3>3. CASE y \in keep
      <4>1. less \cup {x} \in Keeps(hx, k)
        BY <2>4, <2>5, <3>3, CanKeep
      <4>2. now[hx] <= 1 + after[(less \cup {x}) \cup {use}]
        BY <1>1, <3>1, <4>1 DEF IsStep
      <4>3. /\ (less \cup {x}) \cup {use} = (less \cup {use}) \cup {x}
            /\ keep \cup {use} = (less \cup {use}) \cup {y}
        BY <2>4, <3>3
      <4>4. x \notin less \cup {use} /\ y \notin less \cup {use}
        BY <2>1, <2>5, <2>9
      <4>5. after[(less \cup {use}) \cup {x}] <= after[(less \cup {use}) \cup {y}]
        BY <2>4, <2>6, <3>1, <3>3, <4>4 DEF Prefers
      <4>6. now[hx] \in Nat /\ after[(less \cup {x}) \cup {use}] \in Nat /\ after[keep \cup {use}] \in Nat
        BY <1>1, <1>2, <2>6, <4>3
      <4>7. after[(less \cup {x}) \cup {use}] <= after[keep \cup {use}]
        BY <4>3, <4>5
      <4> HIDE DEF hx, hy
      <4>8. now[hx] <= now[hy]
        BY <2>2, <4>2, <4>6, <4>7
      <4> QED BY <4>8 DEF hx, hy
    <3> QED BY <3>2, <3>3
  <2> QED BY <2>8, <2>9
<1> QED BY <1>3, <1>4

\* Of the last uses, the first of x is no later than the first of y.
NoLater(seq, left, x, y) ==
  \A j \in 1 .. left : UseWith(seq, j) = y => \E i \in j .. left : UseWith(seq, i) = x

\* The exchange argument: it is better to hold the weight needed sooner.
LEMMA Exchange ==
  ASSUME NEW seq \in Seq(Weights), NEW k \in Nat \ {0}, NEW x \in Weights, NEW y \in Weights,
         NEW left \in 0 .. Len(seq), NoLater(seq, left, x, y)
  PROVE  Prefers(Cost(seq, k)[left], k, x, y)
<1> DEFINE n == Len(seq)
           S == {l \in Nat : l <= n /\ NoLater(seq, l, x, y) => Prefers(Cost(seq, k)[l], k, x, y)}
<1>1. 0 \in S
  <2>1. Cost(seq, k)[0] = [held \in SUBSET Weights |-> 0]
    BY CostEquation
  <2> QED BY <2>1 DEF Prefers
<1>2. ASSUME NEW l \in Nat, l \in S PROVE l + 1 \in S
  <2> SUFFICES ASSUME l + 1 <= n, NoLater(seq, l + 1, x, y)
               PROVE  Prefers(Cost(seq, k)[l + 1], k, x, y)
    OBVIOUS
  <2> DEFINE use == UseWith(seq, l + 1)
  <2>1. l + 1 \in 1 .. Len(seq) /\ (l + 1) - 1 = l /\ l \in 0 .. Len(seq)
    OBVIOUS
  <2>2. IsStep(Cost(seq, k)[l + 1], Cost(seq, k)[l], use, k)
    BY <2>1, CostStep
  <2>3. IsMonotone(Cost(seq, k)[l]) /\ IsOneLess(Cost(seq, k)[l], k)
    BY <2>1, Monotone, OneLess
  <2>4. use = x \/ (use # y /\ NoLater(seq, l, x, y))
    <3> SUFFICES ASSUME use # x PROVE use # y /\ NoLater(seq, l, x, y)
      OBVIOUS
    <3>1. use # y
      BY DEF NoLater
    <3>2. ASSUME NEW j \in 1 .. l, UseWith(seq, j) = y
          PROVE  \E i \in j .. l : UseWith(seq, i) = x
      <4>1. PICK i \in j .. l + 1 : UseWith(seq, i) = x
        BY <3>2 DEF NoLater
      <4> QED BY <4>1
    <3> QED BY <3>1, <3>2 DEF NoLater
  <2>5. NoLater(seq, l, x, y) => Prefers(Cost(seq, k)[l], k, x, y)
    BY <1>2, <2>1
  <2> HIDE DEF use
  <2> QED BY <2>2, <2>3, <2>4, <2>5, ExchangeStep
<1> HIDE DEF S
<1>3. \A l \in Nat : l \in S
  BY <1>1, <1>2, Fn!SetInduction
<1> QED BY <1>3 DEF S
-----------------------------------------------------------------------------
(* The bookkeeping of the engine, and its refinement of the replay. *)

\* The sweep's map gives the first use of each weight in the part swept.
SeenExact == \A w \in Weights : FirstUseFrom(w, sweep, seenAt[w])

\* What the counters have to do with the number of steps taken.
CountsBounded ==
  /\ programs + reuses = step
  /\ evictions <= programs
  /\ (~Solvable \/ sweep > 0) => step = 0

IInv == TypeOK /\ ResidencyExact /\ SeenExact /\ NextUseExact /\ CountsBounded

USE NoWeightAssumption, MaxTilesAssumption, MaxStepsAssumption

LEMMA UseType ==
  ASSUME TypeOK, NEW s \in Steps
  PROVE  Use(s) \in Weights
BY DEF TypeOK, Steps, Use

LEMMA StepIsPlacing ==
  ASSUME TypeOK, Placing
  PROVE  /\ step \in Steps /\ step + 1 \in 0 .. Len(useSequence)
         /\ Use(step) \in Weights /\ nextUse[step] \in 0 .. MaxSteps
         /\ numTiles \in Nat /\ numTiles > 0
<1>1. step \in Steps /\ step + 1 \in 0 .. Len(useSequence)
  BY DEF TypeOK, Placing, Steps
<1>2. Use(step) \in Weights
  BY <1>1, UseType
<1> QED
  BY <1>1, <1>2 DEF TypeOK, Placing, Solvable

LEMMA InitIInv == Init => IInv
<1> SUFFICES ASSUME Init PROVE IInv
  OBVIOUS
<1> PICK n \in 0 .. MaxSteps : useSequence \in [1 .. n -> Weights]
  BY DEF Init, UseSequences
<1>1. useSequence \in Seq(Weights) /\ Len(useSequence) = n
  OBVIOUS
<1>2. TypeOK
  <2>1. FreeTile \in TileState
    BY DEF FreeTile, NeverAgain, TileState
  <2>2. /\ tiles \in [Tiles -> TileState] /\ residency \in [Weights -> Tiles \cup {NoTile}]
        /\ policy \in Policies /\ returned \in BOOLEAN
    BY <2>1, Zenon DEF Init
  <2>3. seenAt \in [Weights -> 0 .. MaxSteps] /\ nextUse \in [Steps -> 0 .. MaxSteps]
    BY DEF Init, NeverAgain
  <2>4. programs \in Nat /\ reuses \in Nat /\ evictions \in Nat
    BY DEF Init
  <2>5. /\ numTiles \in 0 .. MaxTiles /\ Len(useSequence) \in 0 .. MaxSteps
        /\ tilesInUse \in 0 .. numTiles /\ sweep \in 0 .. Len(useSequence)
        /\ step \in 0 .. Len(useSequence) /\ programCounter \in Nat
    BY <1>1 DEF Init
  <2> QED
    BY <1>1, <2>2, <2>3, <2>4, <2>5 DEF TypeOK
<1>3. ResidencyExact
  BY DEF Init, ResidencyExact, FreeTile, Tiles, NoTile
<1>4. SeenExact /\ NextUseExact
  BY <1>1 DEF Init, SeenExact, NextUseExact, FirstUseFrom, Steps, Tiles, NeverAgain
<1>5. CountsBounded
  BY DEF Init, CountsBounded
<1> QED
  BY <1>2, <1>3, <1>4, <1>5 DEF IInv

\* The tile a reuse or a program leaves has the type of a tile.
Touched(t) == [tiles[t] EXCEPT !.nextUse = nextUse[step], !.lastUsed = step]
LEMMA TouchedTile ==
  ASSUME TypeOK, Placing
  PROVE  /\ Programmed \in TileState
         /\ Programmed.weight = Use(step) /\ Programmed.nextUse = nextUse[step]
         /\ \A t \in Tiles : /\ Touched(t) \in TileState
                             /\ Touched(t).weight = tiles[t].weight
                             /\ Touched(t).nextUse = nextUse[step]
<1>1. step \in Nat /\ programCounter \in Nat /\ \A t \in Tiles : tiles[t] \in TileState
  BY DEF TypeOK
<1>2. Use(step) \in Weights /\ nextUse[step] \in 0 .. MaxSteps
  BY StepIsPlacing
<1>3. Programmed \in TileState
  BY <1>1, <1>2 DEF Programmed, TileState
<1>4. Programmed.weight = Use(step) /\ Programmed.nextUse = nextUse[step]
  BY DEF Programmed
<1>5. ASSUME NEW t \in Tiles
      PROVE  /\ Touched(t) \in TileState /\ Touched(t).weight = tiles[t].weight
             /\ Touched(t).nextUse = nextUse[step]
  BY <1>1, <1>2 DEF Touched, TileState
<1> QED
  BY <1>3, <1>4, <1>5

\* What the three branches of the forward loop do, in terms of those tiles.
LEMMA ReuseStep ==
  ASSUME TypeOK, Reuse
  PROVE  /\ Placing /\ residency[Use(step)] \in Tiles /\ step' = step + 1
         /\ tiles' = [tiles EXCEPT ![residency[Use(step)]] = Touched(residency[Use(step)])]
         /\ reuses' = reuses + 1
         /\ UNCHANGED <<problem, sweep, seenAt, nextUse, returned,
                        residency, tilesInUse, programCounter, programs, evictions>>
<1>1. Placing /\ residency[Use(step)] # NoTile
  BY DEF Reuse
<1>2. residency[Use(step)] \in Tiles
  BY <1>1, StepIsPlacing DEF TypeOK
<1> QED
  BY <1>1, <1>2 DEF Reuse, Record, Touched

LEMMA FreeStep ==
  ASSUME TypeOK, ProgramIntoFree
  PROVE  /\ Placing /\ tilesInUse \in Tiles /\ residency[Use(step)] = NoTile
         /\ step' = step + 1 /\ tiles' = [tiles EXCEPT ![tilesInUse] = Programmed]
         /\ residency' = [residency EXCEPT ![Use(step)] = tilesInUse]
         /\ tilesInUse' = tilesInUse + 1 /\ programCounter' = programCounter + 1
         /\ programs' = programs + 1
         /\ UNCHANGED <<problem, sweep, seenAt, nextUse, returned, reuses, evictions>>
<1>1. tilesInUse \in Tiles
  BY DEF ProgramIntoFree, TypeOK, Tiles
<1> QED
  BY <1>1 DEF ProgramIntoFree, Program, Record

LEMMA EvictionStep ==
  ASSUME TypeOK, NEW v \in Tiles, ProgramWithEviction(v)
  PROVE  /\ Placing /\ tilesInUse = numTiles /\ residency[Use(step)] = NoTile
         /\ step' = step + 1 /\ tiles' = [tiles EXCEPT ![v] = Programmed]
         /\ residency' = [residency EXCEPT ![tiles[v].weight] = NoTile, ![Use(step)] = v]
         /\ tilesInUse' = tilesInUse /\ programCounter' = programCounter + 1
         /\ programs' = programs + 1 /\ evictions' = evictions + 1
         /\ UNCHANGED <<problem, sweep, seenAt, nextUse, returned, reuses>>
<1>1. tilesInUse = numTiles
  BY DEF ProgramWithEviction, Moved, TypeOK
<1> QED
  BY <1>1 DEF ProgramWithEviction, Moved, Program, Record

LEMMA TypeFrame ==
  ASSUME TypeOK, UNCHANGED <<problem, sweep, seenAt, nextUse, returned>>,
         step' \in 0 .. Len(useSequence), tiles' \in [Tiles -> TileState],
         residency' \in [Weights -> Tiles \cup {NoTile}], tilesInUse' \in 0 .. numTiles,
         programCounter' \in Nat, programs' \in Nat, reuses' \in Nat, evictions' \in Nat
  PROVE  TypeOK'
BY DEF TypeOK, problem, Tiles, Steps

LEMMA TypeStep == TypeOK /\ [Next]_vars => TypeOK'
<1> SUFFICES ASSUME TypeOK, [Next]_vars PROVE TypeOK'
  OBVIOUS
<1>0. /\ programCounter \in Nat /\ programs \in Nat /\ reuses \in Nat /\ evictions \in Nat
      /\ tiles \in [Tiles -> TileState] /\ residency \in [Weights -> Tiles \cup {NoTile}]
      /\ tilesInUse \in 0 .. numTiles
  BY DEF TypeOK
<1>1. CASE ReturnEmpty \/ Return
  BY <1>1 DEF ReturnEmpty, Return, problem, engine, counts, TypeOK, Tiles, Steps
<1>2. CASE SweepUse
  <2>1. sweep - 1 \in Steps
    BY <1>2 DEF SweepUse, TypeOK, Steps
  <2>2. Use(sweep - 1) \in Weights
    BY <2>1, UseType
  <2> QED
    BY <1>2, <2>1, <2>2 DEF SweepUse, problem, engine, counts, TypeOK, Tiles, Steps
<1>3. CASE Reuse
  <2>1. Placing /\ tiles' \in [Tiles -> TileState]
    BY <1>0, <1>3, ReuseStep, TouchedTile
  <2> QED
    BY <1>0, <1>3, <2>1, ReuseStep, StepIsPlacing, TypeFrame
<1>4. CASE ProgramIntoFree
  <2>1. Placing /\ tiles' \in [Tiles -> TileState]
    BY <1>0, <1>4, FreeStep, TouchedTile
  <2>2. residency' \in [Weights -> Tiles \cup {NoTile}]
    BY <1>0, <1>4, FreeStep
  <2>3. tilesInUse' \in 0 .. numTiles
    <3>1. tilesInUse \in Tiles /\ tilesInUse' = tilesInUse + 1 /\ numTiles \in Nat
      BY <1>4, <2>1, FreeStep, StepIsPlacing
    <3> QED
      BY <3>1 DEF Tiles
  <2> QED
    BY <1>0, <1>4, <2>1, <2>2, <2>3, FreeStep, StepIsPlacing, TypeFrame
<1>5. ASSUME NEW v \in Tiles, ProgramWithEviction(v) PROVE TypeOK'
  <2>1. /\ Placing /\ step' = step + 1 /\ programCounter' = programCounter + 1
        /\ tiles' = [tiles EXCEPT ![v] = Programmed]
        /\ residency' = [residency EXCEPT ![tiles[v].weight] = NoTile, ![Use(step)] = v]
        /\ programs' = programs + 1 /\ evictions' = evictions + 1
        /\ UNCHANGED <<problem, sweep, seenAt, nextUse, returned, tilesInUse, reuses>>
    BY <1>5, EvictionStep
  <2>2. tiles' \in [Tiles -> TileState]
    BY <1>0, <2>1, TouchedTile
  <2>3. residency' \in [Weights -> Tiles \cup {NoTile}]
    <3>1. [residency EXCEPT ![tiles[v].weight] = NoTile] \in [Weights -> Tiles \cup {NoTile}]
      BY <1>0
    <3>2. PICK r \in [Weights -> Tiles \cup {NoTile}] : residency' = [r EXCEPT ![Use(step)] = v]
      BY <2>1, <3>1
    <3> QED
      BY <3>2
  <2> QED
    BY <1>0, <2>1, <2>2, <2>3, StepIsPlacing, TypeFrame
<1>6. CASE UNCHANGED vars
  BY <1>6 DEF vars, problem, engine, counts, TypeOK, Tiles, Steps
<1> QED
  BY <1>1, <1>2, <1>3, <1>4, <1>5, <1>6 DEF Next

\* TypeOK: the engine's variables keep their types; in particular no tile or
\* step index computed by computePlacement leaves its range.
THEOREM TypeCorrect == Spec => []TypeOK
<1>1. Init => TypeOK
  BY InitIInv DEF IInv
<1> QED
  BY <1>1, TypeStep, PTL DEF Spec
-----------------------------------------------------------------------------

LEMMA ResidencyStep == TypeOK /\ ResidencyExact /\ [Next]_vars => ResidencyExact'
<1> SUFFICES ASSUME TypeOK, ResidencyExact, [Next]_vars PROVE ResidencyExact'
  OBVIOUS
<1> USE DEF Tiles, NoTile
<1>1. CASE ReturnEmpty
  BY <1>1 DEF ResidencyExact, ReturnEmpty, problem, engine
<1>2. CASE SweepUse
  BY <1>2 DEF ResidencyExact, SweepUse, problem, engine
<1>3. CASE Reuse
  <2>1. UNCHANGED <<numTiles, residency, tilesInUse>>
    BY <1>3, ReuseStep DEF problem
  <2>2. \A t \in Tiles : tiles'[t].weight = tiles[t].weight
    BY <1>3, ReuseStep, TouchedTile DEF TypeOK
  <2> QED
    BY <2>1, <2>2 DEF ResidencyExact
<1>4. CASE ProgramIntoFree
  <2>1. /\ tilesInUse \in Tiles /\ residency[Use(step)] = NoTile /\ Use(step) \in Weights
        /\ tiles' = [tiles EXCEPT ![tilesInUse] = Programmed]
        /\ residency' = [residency EXCEPT ![Use(step)] = tilesInUse]
        /\ tilesInUse' = tilesInUse + 1 /\ numTiles' = numTiles
        /\ Programmed.weight = Use(step)
    BY <1>4, FreeStep, StepIsPlacing, TouchedTile DEF problem
  <2>2. \A t \in Tiles :
          tiles'[t].weight = IF t = tilesInUse THEN Use(step) ELSE tiles[t].weight
    BY <2>1 DEF TypeOK
  <2>3. \A w \in Weights, t \in Tiles : residency'[w] = t <=> tiles'[t].weight = w
    BY <2>1, <2>2 DEF ResidencyExact, TypeOK
  <2>4. \A t \in Tiles : tiles'[t].weight # NoWeight <=> t < tilesInUse'
    BY <2>1, <2>2 DEF ResidencyExact, TypeOK
  <2> QED
    BY <2>1, <2>3, <2>4 DEF ResidencyExact
<1>5. ASSUME NEW v \in Tiles, ProgramWithEviction(v) PROVE ResidencyExact'
  <2>1. /\ tilesInUse = numTiles /\ residency[Use(step)] = NoTile /\ Use(step) \in Weights
        /\ tiles' = [tiles EXCEPT ![v] = Programmed]
        /\ residency' = [residency EXCEPT ![tiles[v].weight] = NoTile, ![Use(step)] = v]
        /\ tilesInUse' = tilesInUse /\ numTiles' = numTiles /\ numTiles \in Nat
        /\ Programmed.weight = Use(step)
    BY <1>5, EvictionStep, StepIsPlacing, TouchedTile DEF problem
  <2>2. \A t \in Tiles :
          tiles'[t].weight = IF t = v THEN Use(step) ELSE tiles[t].weight
    BY <2>1 DEF TypeOK
  <2>3. tiles[v].weight \in Weights /\ tiles[v].weight # Use(step)
    <3>1. tiles[v].weight \in Weights \cup {NoWeight}
      BY DEF TypeOK, TileState
    <3>2. tiles[v].weight # NoWeight
      BY <2>1 DEF ResidencyExact
    <3> QED
      BY <2>1, <3>1, <3>2 DEF ResidencyExact
  <2>4. \A w \in Weights, t \in Tiles : residency'[w] = t <=> tiles'[t].weight = w
    BY <2>1, <2>2, <2>3 DEF ResidencyExact, TypeOK
  <2>5. \A t \in Tiles : tiles'[t].weight # NoWeight <=> t < tilesInUse'
    BY <2>1, <2>2 DEF ResidencyExact
  <2> QED
    BY <2>1, <2>4, <2>5 DEF ResidencyExact
<1>6. CASE Return
  BY <1>6 DEF ResidencyExact, Return, problem, engine
<1>7. CASE UNCHANGED vars
  BY <1>7 DEF ResidencyExact, vars, problem, engine
<1> QED
  BY <1>1, <1>2, <1>3, <1>4, <1>5, <1>6, <1>7 DEF Next

\* A forward step leaves the problem and the finished sweep alone.
LEMMA ForwardFrame ==
  ASSUME Reuse \/ ProgramIntoFree \/ (\E t \in Tiles : ProgramWithEviction(t))
  PROVE  /\ Placing /\ sweep = 0 /\ step' = step + 1
         /\ UNCHANGED <<numTiles, useSequence, sweep, seenAt, nextUse>>
BY DEF Reuse, ProgramIntoFree, ProgramWithEviction, Record, Placing, problem

LEMMA SeenStep == TypeOK /\ SeenExact /\ [Next]_vars => SeenExact'
<1> SUFFICES ASSUME TypeOK, SeenExact, [Next]_vars PROVE SeenExact'
  OBVIOUS
<1> USE DEF SeenExact, FirstUseFrom
<1>1. CASE ReturnEmpty \/ Return \/ UNCHANGED vars
  BY <1>1 DEF ReturnEmpty, Return, vars, problem, Steps, Use
<1>2. CASE Reuse \/ ProgramIntoFree \/ (\E t \in Tiles : ProgramWithEviction(t))
  BY <1>2, ForwardFrame DEF Steps, Use
<1>3. CASE SweepUse
  <2> DEFINE i == sweep - 1
  <2>1. /\ i \in Steps /\ sweep' = i /\ UNCHANGED useSequence
        /\ seenAt' = [seenAt EXCEPT ![Use(i)] = i]
    BY <1>3 DEF SweepUse, problem, TypeOK, Steps
  <2>2. Use(i) \in Weights /\ seenAt'[Use(i)] = i
    BY <2>1, UseType DEF TypeOK
  <2> SUFFICES ASSUME NEW w \in Weights PROVE FirstUseFrom(w, sweep, seenAt[w])'
    OBVIOUS
  <2>3. CASE w = Use(i)
    BY <2>1, <2>2, <2>3 DEF Steps, Use
  <2>4. CASE w # Use(i)
    <3>1. seenAt'[w] = seenAt[w]
      BY <2>1, <2>4 DEF TypeOK
    <3>2. FirstUseFrom(w, i, seenAt[w])
      BY <2>1, <2>4 DEF Steps, TypeOK
    <3> QED
      BY <2>1, <3>1, <3>2 DEF Steps, Use
  <2> QED
    BY <2>3, <2>4
<1> QED
  BY <1>1, <1>2, <1>3 DEF Next
\* On a tile, the first use from this step on is the first from the next step
\* on, unless this step uses its weight.
LEMMA LaterUse ==
  ASSUME NEW w \in Weights, NEW i \in Nat, NEW j \in Int,
         Len(useSequence) \in Nat, FirstUseFrom(w, i, j), i \in Steps => Use(i) # w
  PROVE  FirstUseFrom(w, i + 1, j)
<1>1. \A k \in Steps : i + 1 <= k /\ k < j => Use(k) # w
  BY DEF FirstUseFrom, Steps
<1>2. CASE j \in Steps /\ i <= j /\ Use(j) = w
  BY <1>1, <1>2 DEF FirstUseFrom, Steps
<1>3. CASE j = NeverAgain
  BY <1>1, <1>3 DEF FirstUseFrom
<1> QED
  BY <1>2, <1>3 DEF FirstUseFrom

LEMMA NextUseStep ==
  TypeOK /\ ResidencyExact /\ SeenExact /\ NextUseExact /\ CountsBounded /\ [Next]_vars
    => NextUseExact'
<1> SUFFICES ASSUME TypeOK, ResidencyExact, SeenExact, NextUseExact, CountsBounded,
                    [Next]_vars
             PROVE  NextUseExact'
  OBVIOUS
<1>1. CASE ReturnEmpty \/ Return \/ UNCHANGED vars
  BY <1>1 DEF ReturnEmpty, Return, vars, problem, engine, counts, NextUseExact,
              FirstUseFrom, Steps, Use, Tiles
<1>2. CASE SweepUse
  <2> DEFINE i == sweep - 1
  <2>1. /\ i \in Steps /\ sweep' = i /\ UNCHANGED <<useSequence, numTiles, step, tiles, tilesInUse>>
        /\ nextUse' = [nextUse EXCEPT ![i] = seenAt[Use(i)]] /\ sweep > 0
    BY <1>2 DEF SweepUse, problem, engine, TypeOK, Steps
  <2>2. Use(i) \in Weights /\ FirstUseFrom(Use(i), sweep, seenAt[Use(i)])
    BY <2>1, UseType DEF SeenExact
  <2>3. ASSUME NEW k \in Steps, k >= sweep'
        PROVE  FirstUseFrom(Use(k), k + 1, nextUse'[k])
    <3>1. CASE k = i
      BY <2>1, <2>2, <3>1 DEF TypeOK, Steps
    <3>2. CASE k # i
      BY <2>1, <2>3, <3>2 DEF TypeOK, Steps, NextUseExact
    <3> QED
      BY <3>1, <3>2
  <2> QED
    BY <2>1, <2>3 DEF NextUseExact, FirstUseFrom, Steps, Tiles, Use
<1>3. ASSUME NEW t \in Tiles, Placing, sweep = 0, step' = step + 1,
             UNCHANGED <<numTiles, useSequence, sweep, nextUse>>, tilesInUse' \in Nat,
             tiles'[t].weight = Use(step) /\ tiles'[t].nextUse = nextUse[step],
             \A u \in Tiles : u # t => tiles'[u] = tiles[u],
             \A u \in Tiles : u < tilesInUse' => u < tilesInUse \/ u = t,
             \A u \in Tiles : u # t => tiles[u].weight # Use(step)
      PROVE  NextUseExact'
  <2>1. step \in Steps /\ step \in Nat /\ Len(useSequence) \in Nat
    BY <1>3, StepIsPlacing DEF Steps, TypeOK
  <2>2. FirstUseFrom(Use(step), step + 1, nextUse[step])
    BY <1>3, <2>1 DEF NextUseExact, Steps
  <2>3. ASSUME NEW u \in Tiles, u < tilesInUse'
        PROVE  FirstUseFrom(tiles'[u].weight, step + 1, tiles'[u].nextUse)
    <3>1. CASE u = t
      BY <1>3, <2>2, <3>1
    <3>2. CASE u # t
      <4>1. u < tilesInUse /\ tiles'[u] = tiles[u] /\ Use(step) # tiles[u].weight
        BY <1>3, <2>3, <3>2
      <4>2. tiles[u].weight \in Weights /\ tiles[u].nextUse \in Int
        BY <4>1 DEF TypeOK, TileState, ResidencyExact
      <4> QED
        BY <2>1, <4>1, <4>2, LaterUse DEF NextUseExact
    <3> QED
      BY <3>1, <3>2
  <2> QED
    BY <1>3, <2>3 DEF NextUseExact, FirstUseFrom, Steps, Tiles, Use
<1>4. CASE Reuse
  <2> DEFINE t == residency[Use(step)]
  <2>1. t \in Tiles /\ Placing /\ tiles' = [tiles EXCEPT ![t] = Touched(t)]
        /\ sweep = 0 /\ step' = step + 1 /\ tilesInUse' = tilesInUse
        /\ UNCHANGED <<numTiles, useSequence, sweep, nextUse>>
    BY <1>4, ReuseStep, ForwardFrame
  <2>2. Touched(t).weight = Use(step) /\ Touched(t).nextUse = nextUse[step]
    BY <2>1, TouchedTile, StepIsPlacing DEF ResidencyExact
  <2>3. \A u \in Tiles : u # t => tiles[u].weight # Use(step)
    BY <2>1, StepIsPlacing DEF ResidencyExact
  <2> QED
    BY <1>3, <2>1, <2>2, <2>3 DEF TypeOK
<1>5. CASE ProgramIntoFree
  <2>1. tilesInUse \in Tiles /\ Placing /\ tiles' = [tiles EXCEPT ![tilesInUse] = Programmed]
        /\ sweep = 0 /\ step' = step + 1 /\ tilesInUse' = tilesInUse + 1
        /\ residency[Use(step)] = NoTile /\ Use(step) \in Weights
        /\ UNCHANGED <<numTiles, useSequence, sweep, nextUse>>
    BY <1>5, FreeStep, ForwardFrame, StepIsPlacing
  <2>2. Programmed.weight = Use(step) /\ Programmed.nextUse = nextUse[step]
    BY <2>1, TouchedTile
  <2>3. \A u \in Tiles : tiles[u].weight # Use(step)
    BY <2>1 DEF ResidencyExact, Tiles, NoTile
  <2>4. tilesInUse' \in Nat /\ \A u \in Tiles : u < tilesInUse' => u < tilesInUse \/ u = tilesInUse
    BY <2>1 DEF Tiles
  <2>5. /\ \A u \in Tiles : u # tilesInUse => tiles'[u] = tiles[u]
        /\ tiles'[tilesInUse] = Programmed
    BY <2>1 DEF TypeOK
  <2> QED
    BY <1>3, <2>1, <2>2, <2>3, <2>4, <2>5
<1>6. ASSUME NEW v \in Tiles, ProgramWithEviction(v) PROVE NextUseExact'
  <2>1. Placing /\ tiles' = [tiles EXCEPT ![v] = Programmed]
        /\ sweep = 0 /\ step' = step + 1 /\ tilesInUse' = tilesInUse
        /\ residency[Use(step)] = NoTile /\ Use(step) \in Weights
        /\ UNCHANGED <<numTiles, useSequence, sweep, nextUse>>
    BY <1>6, EvictionStep, ForwardFrame, StepIsPlacing
  <2>2. Programmed.weight = Use(step) /\ Programmed.nextUse = nextUse[step]
    BY <2>1, TouchedTile
  <2>3. \A u \in Tiles : tiles[u].weight # Use(step)
    BY <2>1 DEF ResidencyExact, Tiles, NoTile
  <2> QED
    BY <1>3, <2>1, <2>2, <2>3 DEF TypeOK
<1> QED
  BY <1>1, <1>2, <1>4, <1>5, <1>6 DEF Next

LEMMA CountsStep == TypeOK /\ CountsBounded /\ [Next]_vars => CountsBounded'
<1> SUFFICES ASSUME TypeOK, CountsBounded, [Next]_vars PROVE CountsBounded'
  OBVIOUS
<1> USE DEF CountsBounded, Solvable
<1>1. CASE ReturnEmpty \/ Return \/ SweepUse \/ UNCHANGED vars
  BY <1>1 DEF ReturnEmpty, Return, SweepUse, vars, problem, engine, counts, TypeOK
<1>2. CASE Reuse
  <2>1. /\ programs' = programs /\ evictions' = evictions /\ reuses' = reuses + 1
        /\ step' = step + 1 /\ sweep' = 0 /\ UNCHANGED <<useSequence, numTiles>>
        /\ Placing /\ sweep = 0
    BY <1>2, ReuseStep, ForwardFrame
  <2> QED
    BY <2>1 DEF Placing, TypeOK
<1>3. CASE ProgramIntoFree
  <2>1. /\ programs' = programs + 1 /\ evictions' = evictions /\ reuses' = reuses
        /\ step' = step + 1 /\ sweep' = 0 /\ UNCHANGED <<useSequence, numTiles>>
        /\ Placing /\ sweep = 0
    BY <1>3, FreeStep, ForwardFrame
  <2> QED
    BY <2>1 DEF Placing, TypeOK
<1>4. ASSUME NEW v \in Tiles, ProgramWithEviction(v) PROVE CountsBounded'
  <2>1. /\ programs' = programs + 1 /\ evictions' = evictions + 1 /\ reuses' = reuses
        /\ step' = step + 1 /\ sweep' = 0 /\ UNCHANGED <<useSequence, numTiles>>
        /\ Placing /\ sweep = 0
    BY <1>4, EvictionStep, ForwardFrame
  <2> QED
    BY <2>1 DEF Placing, TypeOK
<1> QED
  BY <1>1, <1>2, <1>3, <1>4 DEF Next

LEMMA Inductive == IInv /\ [Next]_vars => IInv'
BY TypeStep, ResidencyStep, SeenStep, NextUseStep, CountsStep DEF IInv

LEMMA AlwaysIInv == Spec => []IInv
BY InitIInv, Inductive, PTL DEF Spec

\* ResidencyExact: the map computePlacement consults for "already resident"
\* and the tile array it programs never disagree, so no weight is on two tiles.
THEOREM ResidencyCorrect == Spec => []ResidencyExact
BY AlwaysIInv, PTL DEF IInv

\* NextUseExact: the sweep's result, and the score each tile carries until it
\* is touched again, is the true next use of its weight.
THEOREM NextUseCorrect == Spec => []NextUseExact
BY AlwaysIInv, PTL DEF IInv

\* Only the eviction branch takes a weight off a tile, and off its victim.
LEMMA Evicted ==
  ASSUME TypeOK, ResidencyExact, [Next]_vars, NEW v \in Tiles, Evicting(v)
  PROVE  ProgramWithEviction(v)
<1>1. PICK x \in Tiles : ProgramWithEviction(x)
  <2>1. ~(ReturnEmpty \/ SweepUse \/ Return \/ UNCHANGED vars)
    BY DEF Evicting, ReturnEmpty, SweepUse, Return, vars
  <2>2. ~Reuse
    <3> SUFFICES ASSUME Reuse PROVE FALSE
      OBVIOUS
    <3>1. tiles'[v].weight = tiles[v].weight
      BY ReuseStep, TouchedTile DEF TypeOK
    <3> QED
      BY <3>1 DEF Evicting
  <2>3. ~ProgramIntoFree
    <3> SUFFICES ASSUME ProgramIntoFree PROVE FALSE
      OBVIOUS
    <3>1. tilesInUse \in Tiles /\ tiles' = [tiles EXCEPT ![tilesInUse] = Programmed]
      BY FreeStep
    <3>2. tiles[tilesInUse].weight = NoWeight
      BY <3>1 DEF ResidencyExact, Tiles
    <3>3. v # tilesInUse
      BY <3>2 DEF Evicting
    <3> QED
      BY <3>1, <3>3 DEF Evicting, TypeOK
  <2> QED
    BY <2>1, <2>2, <2>3 DEF Next
<1>2. tiles' = [tiles EXCEPT ![x] = Programmed]
  BY <1>1, EvictionStep
<1>3. v = x
  BY <1>2 DEF Evicting, TypeOK
<1> QED
  BY <1>1, <1>3

\* Belady's victim is needed before no other weight.
LEMMA BeladyVictim ==
  ASSUME IInv, NEW v \in Tiles, ProgramWithEviction(v), policy = "Belady", NEW u \in Tiles
  PROVE  ~NeededSooner(tiles[v].weight, tiles[u].weight)
<1>1. TypeOK /\ NextUseExact
  BY DEF IInv
<1>2. tilesInUse = numTiles /\ numTiles \in Nat /\ IsVictim(v)
  BY <1>1, EvictionStep DEF ProgramWithEviction, TypeOK
<1>3. ~(tiles[u].nextUse > tiles[v].nextUse)
  BY <1>2 DEF IsVictim, Beats
<1>4. /\ FirstUseFrom(tiles[v].weight, step, tiles[v].nextUse)
      /\ FirstUseFrom(tiles[u].weight, step, tiles[u].nextUse)
  BY <1>1, <1>2 DEF NextUseExact, Tiles
<1>5. tiles[u].nextUse \in 0 .. MaxSteps /\ tiles[v].nextUse \in 0 .. MaxSteps
      /\ step \in Nat /\ Len(useSequence) \in 0 .. MaxSteps
  BY <1>1 DEF TypeOK, TileState
<1>6. ASSUME NEW j \in Steps, j >= step, Use(j) = tiles[v].weight,
             \A k \in Steps : step <= k /\ k <= j => Use(k) # tiles[u].weight
      PROVE  FALSE
  <2>1. tiles[v].nextUse <= j
    BY <1>4, <1>5, <1>6 DEF FirstUseFrom, Steps
  <2>2. tiles[u].nextUse \in Steps /\ step <= tiles[u].nextUse
        /\ Use(tiles[u].nextUse) = tiles[u].weight
    BY <1>3, <1>4, <1>5, <2>1 DEF FirstUseFrom, Steps, NeverAgain
  <2> QED
    BY <1>3, <1>5, <1>6, <2>1, <2>2 DEF Steps
<1> QED
  BY <1>6 DEF NeededSooner

\* BeladyEvictsFurthest: whatever the problem, a Belady eviction never drops
\* a weight the rest of the sequence needs before one it keeps.
THEOREM BeladyCorrect == Spec => BeladyEvictsFurthest
<1>1. ASSUME IInv, [Next]_vars, NEW v \in Tiles, policy = "Belady", Evicting(v),
             NEW u \in Tiles
      PROVE  ~NeededSooner(tiles[v].weight, tiles[u].weight)
  BY <1>1, Evicted, BeladyVictim DEF IInv
<1>2. IInv /\ [Next]_vars =>
        [\A t \in Tiles : policy = "Belady" /\ Evicting(t) =>
           \A u \in Tiles : ~NeededSooner(tiles[t].weight, tiles[u].weight)]_vars
  BY <1>1
<1> QED
  BY <1>2, AlwaysIInv, PTL DEF Spec, BeladyEvictsFurthest
-----------------------------------------------------------------------------
(* The baselines.  A tile's lastUsed is the step of its weight's last action *)
(* and programSeq puts the tiles in the order of their last programs.        *)

ProgramKinds == AllKinds \ {"Reuse"}
Actions == [step : Nat, weight : Weights, tile : Int, kind : AllKinds,
            evicted : Weights \cup {NoWeight}]

\* The steps before n at which w has an action of these kinds; the last one.
StepsOf(acts, n, w, kinds) == {s \in 0 .. n - 1 : acts[s + 1].weight = w /\ acts[s + 1].kind \in kinds}
IsLast(acts, n, w, kinds, s) ==
  s \in StepsOf(acts, n, w, kinds) /\ \A r \in StepsOf(acts, n, w, kinds) : r <= s

AgesOf(t) ==
  /\ IsLast(actions, step, tiles[t].weight, AllKinds, tiles[t].lastUsed)
  /\ \E s : IsLast(actions, step, tiles[t].weight, ProgramKinds, s)
  /\ tiles[t].programSeq < programCounter
ProgramOrder(t, u) ==
  tiles[t].programSeq <= tiles[u].programSeq =>
    \A s, r : /\ IsLast(actions, step, tiles[t].weight, ProgramKinds, s)
              /\ IsLast(actions, step, tiles[u].weight, ProgramKinds, r)
              => s <= r
InUse == {t \in Tiles : t < tilesInUse}
AgesExact ==
  /\ actions \in Seq(Actions) /\ Len(actions) = step
  /\ \A t \in InUse : AgesOf(t)
  /\ \A t, u \in InUse : ProgramOrder(t, u)

\* An action is the last of its weight and changes nothing for the others.
LEMMA Appended ==
  ASSUME NEW acts \in Seq(Actions), NEW a \in Actions, NEW w, NEW kinds, NEW n, n = Len(acts)
  PROVE  /\ ~ (a.weight = w /\ a.kind \in kinds) =>
              \A s : IsLast(Append(acts, a), n + 1, w, kinds, s) <=> IsLast(acts, n, w, kinds, s)
         /\ a.weight = w /\ a.kind \in kinds => IsLast(Append(acts, a), n + 1, w, kinds, n)
<1> DEFINE more == Append(acts, a)
<1>1. n \in Nat /\ more[n + 1] = a /\ \A s \in 0 .. n - 1 : more[s + 1] = acts[s + 1]
  OBVIOUS
<1> HIDE DEF more
<1>2. ASSUME ~ (a.weight = w /\ a.kind \in kinds)
      PROVE  StepsOf(more, n + 1, w, kinds) = StepsOf(acts, n, w, kinds)
  BY <1>1, <1>2 DEF StepsOf
<1>3. ASSUME a.weight = w /\ a.kind \in kinds
      PROVE  IsLast(more, n + 1, w, kinds, n)
  BY <1>1, <1>3 DEF StepsOf, IsLast
<1> QED BY <1>2, <1>3 DEF IsLast, more

\* What is recorded, and what that leaves as it was.
LEMMA RecordStep ==
  ASSUME IInv, AgesExact, Placing, NEW kind \in AllKinds, NEW t \in Tiles,
         NEW victim \in Weights \cup {NoWeight}, Record(kind, t, victim)
  PROVE  /\ actions' \in Seq(Actions) /\ Len(actions') = step' /\ step' = step + 1
         /\ \A w, kinds, s : ~ (Use(step) = w /\ kind \in kinds) =>
              (IsLast(actions', step', w, kinds, s) <=> IsLast(actions, step, w, kinds, s))
         /\ \A kinds : kind \in kinds => IsLast(actions', step', Use(step), kinds, step)
<1> DEFINE a == [step |-> step, weight |-> Use(step), tile |-> t, kind |-> kind, evicted |-> victim]
<1>1. step \in Nat /\ Use(step) \in Weights /\ t \in Int
  BY StepIsPlacing DEF IInv, TypeOK, Tiles
<1>2. a \in Actions /\ a.weight = Use(step) /\ a.kind = kind
  BY <1>1 DEF Actions
<1>3. actions' = Append(actions, a) /\ step' = step + 1
  BY DEF Record
<1>4. actions \in Seq(Actions) /\ Len(actions) = step
  BY DEF AgesExact
<1> HIDE DEF a
<1>5. actions' \in Seq(Actions) /\ Len(actions') = step'
  BY <1>2, <1>3, <1>4
<1>6. ASSUME NEW w, NEW kinds, NEW s, ~ (Use(step) = w /\ kind \in kinds)
      PROVE  IsLast(actions', step', w, kinds, s) <=> IsLast(actions, step, w, kinds, s)
  BY <1>2, <1>3, <1>4, <1>6, Appended
<1>7. ASSUME NEW kinds, kind \in kinds
      PROVE  IsLast(actions', step', Use(step), kinds, step)
  BY <1>2, <1>3, <1>4, <1>7, Appended
<1> QED BY <1>3, <1>5, <1>6, <1>7

\* A reuse makes its tile the one used last and programs nothing.
LEMMA ReuseAges ==
  ASSUME IInv, AgesExact, Reuse
  PROVE  AgesExact'
<1> DEFINE x == Use(step)
           v == residency[Use(step)]
<1>1. /\ Placing /\ v \in Tiles /\ tiles' = [tiles EXCEPT ![v] = Touched(v)]
      /\ UNCHANGED <<numTiles, tilesInUse, programCounter>>
  BY ReuseStep DEF IInv, problem
<1>2. TypeOK /\ x \in Weights /\ tiles[v].weight = x /\ v \in InUse
      /\ \A u \in InUse : u # v => tiles[u].weight # x
  <2>1. TypeOK /\ ResidencyExact /\ x \in Weights
    BY <1>1, StepIsPlacing DEF IInv
  <2>2. x # NoWeight
    BY <2>1
  <2> QED BY <1>1, <2>1, <2>2 DEF ResidencyExact, InUse
<1>3. /\ actions' \in Seq(Actions) /\ Len(actions') = step'
      /\ \A w, kinds, s : ~ (Use(step) = w /\ "Reuse" \in kinds) =>
           (IsLast(actions', step', w, kinds, s) <=> IsLast(actions, step, w, kinds, s))
      /\ \A kinds : "Reuse" \in kinds => IsLast(actions', step', Use(step), kinds, step)
  BY <1>1, RecordStep DEF Reuse, AllKinds
<1>4. InUse' = InUse
  BY <1>1 DEF InUse, Tiles
<1>5. /\ tiles'[v].weight = x /\ tiles'[v].lastUsed = step /\ tiles'[v].programSeq = tiles[v].programSeq
      /\ \A u \in InUse : u # v => tiles'[u] = tiles[u]
  BY <1>1, <1>2 DEF TypeOK, TileState, Touched, InUse
<1>6. "Reuse" \in AllKinds /\ "Reuse" \notin ProgramKinds
  BY DEF AllKinds, ProgramKinds
<1> HIDE DEF x, v
<1>7. \A u \in InUse : tiles'[u].weight = tiles[u].weight /\ tiles'[u].programSeq = tiles[u].programSeq
  BY <1>2, <1>5
<1>8. \A w, s : IsLast(actions', step', w, ProgramKinds, s) <=> IsLast(actions, step, w, ProgramKinds, s)
  BY <1>3, <1>6
<1>9. ASSUME NEW u \in InUse PROVE AgesOf(u)'
  <2>1. IsLast(actions', step', tiles'[u].weight, AllKinds, tiles'[u].lastUsed)
    <3>1. CASE u = v
      BY <1>3, <1>5, <1>6, <3>1 DEF x
    <3>2. CASE u # v
      BY <1>2, <1>3, <1>5, <3>2 DEF AgesExact, AgesOf, x
    <3> QED BY <3>1, <3>2
  <2>2. /\ \E s : IsLast(actions', step', tiles'[u].weight, ProgramKinds, s)
        /\ tiles'[u].programSeq < programCounter'
    BY <1>1, <1>7, <1>8 DEF AgesExact, AgesOf
  <2> QED BY <2>1, <2>2 DEF AgesOf
<1>10. ASSUME NEW t \in InUse, NEW u \in InUse PROVE ProgramOrder(t, u)'
  BY <1>7, <1>8 DEF AgesExact, ProgramOrder
<1> QED BY <1>3, <1>4, <1>9, <1>10 DEF AgesExact

\* A program makes its tile the one used and programmed last.
LEMMA ProgramAges ==
  ASSUME IInv, AgesExact, Placing, NEW v \in Tiles, NEW kind \in ProgramKinds,
         NEW victim \in Weights \cup {NoWeight}, Record(kind, v, victim), Program(v),
         residency[Use(step)] = NoTile, tilesInUse' \in Nat,
         \A u \in Tiles : u < tilesInUse' /\ u # v => u < tilesInUse
  PROVE  AgesExact'
<1> DEFINE x == Use(step)
<1>1. TypeOK /\ ResidencyExact /\ x \in Weights /\ kind \in AllKinds
  BY StepIsPlacing DEF IInv, ProgramKinds
<1>2. \A u \in Tiles : tiles[u].weight # x
  BY <1>1 DEF ResidencyExact, Tiles, NoTile
<1>3. /\ actions' \in Seq(Actions) /\ Len(actions') = step' /\ step' = step + 1
      /\ \A w, kinds, s : ~ (Use(step) = w /\ kind \in kinds) =>
           (IsLast(actions', step', w, kinds, s) <=> IsLast(actions, step, w, kinds, s))
      /\ \A kinds : kind \in kinds => IsLast(actions', step', Use(step), kinds, step)
  BY <1>1, RecordStep
<1>4. Tiles' = Tiles /\ InUse' \subseteq InUse \cup {v}
  BY DEF InUse, Tiles, Record, problem
<1>5. programCounter' = programCounter + 1 /\ programCounter \in Nat /\ step \in Nat
  BY <1>1 DEF Program, TypeOK
<1>6. /\ tiles'[v].weight = x /\ tiles'[v].lastUsed = step /\ tiles'[v].programSeq = programCounter
      /\ \A u \in Tiles : u # v => tiles'[u] = tiles[u]
  BY <1>1 DEF Program, TypeOK, Programmed
<1>7. \A u \in InUse' : u # v => u \in InUse /\ u \in Tiles
  BY <1>4 DEF InUse
<1> HIDE DEF x
<1>8. \A u \in InUse' : u # v => \A kinds, s :
        IsLast(actions', step', tiles'[u].weight, kinds, s) <=>
        IsLast(actions, step, tiles[u].weight, kinds, s)
  BY <1>2, <1>3, <1>6, <1>7 DEF x
<1>9. IsLast(actions', step', x, AllKinds, step) /\ IsLast(actions', step', x, ProgramKinds, step)
  BY <1>1, <1>3 DEF x
<1>10. \A u \in Tiles : tiles[u].programSeq \in Nat
  BY <1>1 DEF TypeOK, TileState
<1>11. ASSUME NEW u \in InUse' PROVE AgesOf(u)'
  <2>1. CASE u = v
    BY <1>5, <1>6, <1>9, <2>1 DEF AgesOf
  <2>2. CASE u # v
    <3>1. AgesOf(u) /\ u \in Tiles
      BY <1>7, <2>2 DEF AgesExact
    <3>2. tiles[u].programSeq < programCounter + 1
      BY <1>5, <1>10, <3>1 DEF AgesOf
    <3> QED BY <1>5, <1>6, <1>8, <2>2, <3>1, <3>2 DEF AgesOf
  <2> QED BY <2>1, <2>2
<1>12. ASSUME NEW t \in InUse', NEW u \in InUse' PROVE ProgramOrder(t, u)'
  <2> SUFFICES ASSUME NEW s, NEW r,
                      IsLast(actions', step', tiles'[t].weight, ProgramKinds, s),
                      IsLast(actions', step', tiles'[u].weight, ProgramKinds, r),
                      tiles'[t].programSeq <= tiles'[u].programSeq
               PROVE  s <= r
    BY Zenon DEF ProgramOrder
  <2>1. CASE u = v
    <3>1. s \in 0 .. step /\ step <= r
      <4>1. s \in 0 .. step' - 1 /\ step \in StepsOf(actions', step', x, ProgramKinds)
        BY <1>9 DEF IsLast, StepsOf
      <4>2. step <= r
        BY <1>6, <2>1, <4>1 DEF IsLast
      <4> QED BY <1>3, <1>5, <4>1, <4>2
    <3>2. r \in 0 .. step' - 1
      BY DEF IsLast, StepsOf
    <3> QED BY <1>3, <1>5, <3>1, <3>2
  <2>2. CASE u # v /\ t = v
    <3>1. tiles[u].programSeq < programCounter /\ u \in Tiles
      BY <1>7, <2>2 DEF AgesExact, AgesOf
    <3> QED BY <1>5, <1>6, <1>10, <2>2, <3>1
  <2>3. CASE u # v /\ t # v
    <3>1. ProgramOrder(t, u) /\ t \in Tiles /\ u \in Tiles
      BY <1>7, <2>3 DEF AgesExact
    <3> QED BY <1>6, <1>8, <2>3, <3>1 DEF ProgramOrder
  <2> QED BY <2>1, <2>2, <2>3
<1> QED BY <1>3, <1>11, <1>12 DEF AgesExact

LEMMA AgesStep == IInv /\ AgesExact /\ [Next]_vars => AgesExact'
<1> SUFFICES ASSUME IInv, AgesExact, [Next]_vars PROVE AgesExact'
  OBVIOUS
<1>1. CASE ReturnEmpty \/ Return \/ SweepUse \/ UNCHANGED vars
  <2>1. UNCHANGED <<numTiles, step, tiles, tilesInUse, programCounter, actions>>
    BY <1>1 DEF ReturnEmpty, Return, SweepUse, vars, problem, engine
  <2>2. InUse' = InUse /\ \A t : AgesOf(t)' <=> AgesOf(t)
    BY <2>1 DEF InUse, Tiles, AgesOf
  <2>3. \A t, u : ProgramOrder(t, u)' <=> ProgramOrder(t, u)
    BY <2>1 DEF ProgramOrder
  <2> QED BY <2>1, <2>2, <2>3 DEF AgesExact
<1>2. CASE Reuse
  BY <1>2, ReuseAges
<1>3. CASE ProgramIntoFree
  <2>1. /\ Placing /\ tilesInUse \in Tiles /\ residency[Use(step)] = NoTile
        /\ tilesInUse' = tilesInUse + 1 /\ tilesInUse \in Nat
    BY <1>3, FreeStep DEF IInv, TypeOK
  <2>2. Program(tilesInUse) /\ Record("ProgramIntoFree", tilesInUse, NoWeight)
    BY <1>3 DEF ProgramIntoFree
  <2>3. "ProgramIntoFree" \in ProgramKinds
    BY DEF ProgramKinds, AllKinds
  <2>4. tilesInUse' \in Nat /\ \A u \in Tiles : u < tilesInUse' /\ u # tilesInUse => u < tilesInUse
    BY <2>1 DEF Tiles
  <2> QED BY <2>1, <2>2, <2>3, <2>4, ProgramAges
<1>4. ASSUME NEW v \in Tiles, ProgramWithEviction(v) PROVE AgesExact'
  <2>1. /\ Placing /\ residency[Use(step)] = NoTile /\ tilesInUse' = tilesInUse /\ tilesInUse \in Nat
    BY <1>4, EvictionStep DEF IInv, TypeOK
  <2>2. Program(v) /\ Record("ProgramWithEviction", v, tiles[v].weight)
    BY <1>4 DEF ProgramWithEviction
  <2>3. "ProgramWithEviction" \in ProgramKinds /\ tiles[v].weight \in Weights \cup {NoWeight}
    BY DEF ProgramKinds, AllKinds, IInv, TypeOK, TileState
  <2> QED BY <2>1, <2>2, <2>3, ProgramAges
<1> QED BY <1>1, <1>2, <1>3, <1>4 DEF Next

LEMMA InitAges == Init => AgesExact
<1> SUFFICES ASSUME Init PROVE AgesExact
  OBVIOUS
<1>1. actions \in Seq(Actions) /\ Len(actions) = step
  BY DEF Init
<1>2. InUse = {}
  BY DEF Init, InUse, Tiles
<1> QED BY <1>1, <1>2 DEF AgesExact

\* The victim of a baseline is no younger than any tile.
LEMMA BaselineVictim ==
  ASSUME IInv, AgesExact, NEW v \in Tiles, ProgramWithEviction(v), NEW u \in Tiles
  PROVE  CASE policy = "LRU"  -> OlderThan(tiles[v].weight, tiles[u].weight, AllKinds)
           [] policy = "FIFO" -> OlderThan(tiles[v].weight, tiles[u].weight, ProgramKinds)
           [] OTHER -> TRUE
<1>1. TypeOK /\ v \in InUse /\ u \in InUse /\ IsVictim(v)
  <2>1. TypeOK /\ tilesInUse = numTiles /\ IsVictim(v)
    BY EvictionStep DEF IInv, ProgramWithEviction
  <2> QED BY <2>1 DEF InUse, Tiles, TypeOK
<1>2. AgesOf(v) /\ AgesOf(u) /\ ProgramOrder(v, u)
  BY <1>1 DEF AgesExact
<1>3. ~ Beats(u, v)
  BY <1>1 DEF IsVictim
<1>4. \A t \in Tiles : tiles[t].lastUsed \in Nat /\ tiles[t].programSeq \in Nat
  BY <1>1 DEF TypeOK, TileState
<1>5. \A w, kinds : LatestAction(w, kinds) = StepsOf(actions, step, w, kinds)
  BY DEF LatestAction, StepsOf
<1>6. \A w, kinds : StepsOf(actions, step, w, kinds) \subseteq Int
  BY <1>1 DEF StepsOf, TypeOK
<1>7. CASE policy = "LRU"
  <2>1. tiles[v].lastUsed <= tiles[u].lastUsed
    BY <1>3, <1>4, <1>7 DEF Beats
  <2>2. \A r \in StepsOf(actions, step, tiles[v].weight, AllKinds) : r <= tiles[u].lastUsed
    BY <1>2, <1>4, <1>6, <2>1 DEF AgesOf, IsLast
  <2>3. tiles[u].lastUsed \in StepsOf(actions, step, tiles[u].weight, AllKinds)
    BY <1>2 DEF AgesOf, IsLast
  <2>4. OlderThan(tiles[v].weight, tiles[u].weight, AllKinds)
    BY <1>5, <2>2, <2>3 DEF OlderThan
  <2> QED BY <1>7, <2>4
<1>8. CASE policy = "FIFO"
  <2>1. tiles[v].programSeq <= tiles[u].programSeq
    BY <1>3, <1>4, <1>8 DEF Beats
  <2>2. PICK s, r : /\ IsLast(actions, step, tiles[v].weight, ProgramKinds, s)
                    /\ IsLast(actions, step, tiles[u].weight, ProgramKinds, r)
    BY <1>2 DEF AgesOf
  <2>3. s <= r
    BY <1>2, <2>1, <2>2 DEF ProgramOrder
  <2>4. s \in Int /\ r \in Int
    BY <1>6, <2>2 DEF IsLast
  <2>5. \A q \in StepsOf(actions, step, tiles[v].weight, ProgramKinds) : q <= r
    BY <1>6, <2>2, <2>3, <2>4 DEF IsLast
  <2>6. OlderThan(tiles[v].weight, tiles[u].weight, ProgramKinds)
    BY <1>5, <2>2, <2>5 DEF OlderThan, IsLast
  <2> QED BY <1>8, <2>6
<1> QED BY <1>7, <1>8

\* BaselinesEvictOldest: an LRU eviction drops the weight whose last action is
\* the oldest, a FIFO eviction the one whose last program is, on the schedule
\* that computePlacement returns and not on selectVictim's own scores.
THEOREM BaselinesCorrect == Spec => BaselinesEvictOldest
<1>1. ASSUME IInv, AgesExact, [Next]_vars, NEW v \in Tiles, NEW u \in Tiles, Evicting(v)
      PROVE  CASE policy = "LRU"  -> OlderThan(tiles[v].weight, tiles[u].weight, AllKinds)
               [] policy = "FIFO" -> OlderThan(tiles[v].weight, tiles[u].weight, AllKinds \ {"Reuse"})
               [] OTHER -> TRUE
  BY <1>1, Evicted, BaselineVictim DEF IInv, ProgramKinds
<1>2. IInv /\ AgesExact /\ [Next]_vars =>
        [\A t, u \in Tiles : Evicting(t) =>
           CASE policy = "LRU"  -> OlderThan(tiles[t].weight, tiles[u].weight, AllKinds)
             [] policy = "FIFO" -> OlderThan(tiles[t].weight, tiles[u].weight, AllKinds \ {"Reuse"})
             [] OTHER -> TRUE]_vars
  BY <1>1
<1>3. Init => IInv /\ AgesExact
  BY InitIInv, InitAges
<1>4. IInv /\ AgesExact /\ [Next]_vars => (IInv /\ AgesExact)'
  BY Inductive, AgesStep
<1> QED
  BY <1>2, <1>3, <1>4, PTL DEF Spec, BaselinesEvictOldest
-----------------------------------------------------------------------------
\* The refinement: each engine action is a step of the validator's replay.

LEMMA RefineInit == Init => Replay!Init
BY DEF Init, UseSequences, FreeTile, Tiles, Replay!Init, Replay!Fresh, Replay!UseSequences, Replay!Tiles

\* The schedule action an engine step records.
Emitted(kind, t, victim) ==
  [step |-> step, weight |-> Use(step), tile |-> t, kind |-> kind, evicted |-> victim]

\* A step that emits an action whose claim is true, and leaves its weight on
\* that tile alone, is accepted by the replay.
LEMMA RefineAccept ==
  ASSUME IInv, Placing, UNCHANGED <<numTiles, useSequence, returned>>, step' = step + 1,
         NEW t \in Tiles, NEW kind \in Replay!Kinds, NEW victim \in Weights \cup {NoWeight},
         \A u \in Tiles : tiles'[u].weight = IF u = t THEN Use(step) ELSE tiles[u].weight,
         \A u \in Tiles : u # t => tiles[u].weight # Use(step),
         \/ kind = "Reuse" /\ tiles[t].weight = Use(step)
         \/ kind = "ProgramIntoFree" /\ tiles[t].weight = NoWeight
         \/ /\ kind = "ProgramWithEviction"
            /\ tiles[t].weight # NoWeight /\ tiles[t].weight = victim,
         programs' = programs + (IF kind = "Reuse" THEN 0 ELSE 1),
         reuses' = reuses + (IF kind = "Reuse" THEN 1 ELSE 0),
         evictions' = evictions + (IF kind = "ProgramWithEviction" THEN 1 ELSE 0)
  PROVE  \E a \in Replay!Action : Replay!Accept(a)
<1> DEFINE a == Emitted(kind, t, victim)
           held == [u \in Tiles |-> tiles[u].weight]
<1>1. TypeOK
  BY DEF IInv
<1>2. a \in Replay!Action
  <2>1. step \in 0 .. MaxSteps /\ t \in 0 .. MaxTiles /\ Use(step) \in Weights
    BY <1>1, StepIsPlacing DEF TypeOK, Tiles
  <2> QED
    BY <2>1 DEF Emitted, Replay!Action
<1>3. a.step = step /\ a.weight = Use(step) /\ a.tile = t /\ a.kind = kind /\ a.evicted = victim
  BY DEF Emitted
<1>4. Replay!WellFormed(a)
  BY <1>3 DEF Replay!WellFormed, Replay!Use, Use, Replay!Tiles, Tiles
<1>5. Replay!ClaimHolds(a)
  BY <1>3 DEF Replay!ClaimHolds
<1>6. Replay!After(a) = held' /\ Replay!SoleCopy(a)
  <2>1. Replay!After(a) = [held EXCEPT ![t] = Use(step)]
    BY <1>3 DEF Replay!After
  <2>2. Tiles' = Tiles
    BY DEF Tiles
  <2> QED
    BY <1>3, <2>1, <2>2 DEF Replay!SoleCopy, Replay!Tiles, Tiles
<1>7. Replay!Replaying
  BY DEF Placing, Replay!Replaying
<1>8. /\ Replay!Replaying /\ Replay!Valid(a) /\ held' = Replay!After(a)
      /\ programs' = programs + (IF a.kind = "Reuse" THEN 0 ELSE 1)
      /\ reuses' = reuses + (IF a.kind = "Reuse" THEN 1 ELSE 0)
      /\ evictions' = evictions + (IF a.kind = "ProgramWithEviction" THEN 1 ELSE 0)
      /\ UNCHANGED <<numTiles, useSequence, returned>> /\ step' = step + 1
  BY <1>3, <1>4, <1>5, <1>6, <1>7 DEF Replay!Valid
<1> QED
  BY <1>2, <1>8 DEF Replay!Accept, Replay!problem

LEMMA RefineConclude ==
  ASSUME IInv, ~returned, returned', step = Len(useSequence),
         numTiles # 0 \/ useSequence = <<>>, UNCHANGED <<problem, step, engine>>
  PROVE  \E r \in Replay!Reports : Replay!Conclude(r)
<1>1. TypeOK /\ CountsBounded
  BY DEF IInv
<1> DEFINE r == <<programs, reuses, evictions>>
<1>2. r \in Replay!Reports
  BY <1>1 DEF TypeOK, CountsBounded, Replay!Reports
<1>3. UNCHANGED <<numTiles, useSequence, step, programs, reuses, evictions>>
      /\ tiles' = tiles
  BY DEF problem, engine, counts
<1>4. [t \in Tiles |-> tiles[t].weight]' = [t \in Tiles |-> tiles[t].weight]
  BY <1>3 DEF Tiles
<1>5. Replay!counts = r
  BY DEF Replay!counts
<1> QED
  BY <1>2, <1>3, <1>4, <1>5 DEF Replay!Conclude, Replay!problem, Replay!counts

LEMMA RefineStep == IInv /\ [Next]_vars => [Replay!Next]_Replay!vars
<1> SUFFICES ASSUME IInv, [Next]_vars PROVE [Replay!Next]_Replay!vars
  OBVIOUS
<1>0. TypeOK /\ ResidencyExact /\ CountsBounded
  BY DEF IInv
<1> USE DEF Replay!Next
<1>1. CASE ReturnEmpty
  <2>1. step = 0 /\ UNCHANGED <<problem, step, engine>> /\ ~returned /\ returned' /\ ~Solvable
    BY <1>0, <1>1 DEF ReturnEmpty, CountsBounded, TypeOK
  <2>2. CASE useSequence = <<>>
    <3>1. step = Len(useSequence)
      BY <2>1, <2>2
    <3> QED
      BY <2>1, <2>2, <3>1, RefineConclude
  <2>3. CASE useSequence # <<>>
    <3>1. numTiles = 0
      BY <2>1, <2>3 DEF Solvable
    <3>2. UNCHANGED <<numTiles, useSequence, step, programs, reuses, evictions>> /\ tiles' = tiles
      BY <2>1 DEF problem, engine, counts
    <3>3. [t \in Tiles |-> tiles[t].weight]' = [t \in Tiles |-> tiles[t].weight]
      BY <3>2 DEF Tiles
    <3> QED
      BY <2>1, <2>3, <3>1, <3>2, <3>3 DEF Replay!RejectLength, Replay!problem, Replay!counts
  <2> QED
    BY <2>2, <2>3
<1>2. CASE SweepUse \/ UNCHANGED vars
  <2>1. UNCHANGED <<numTiles, useSequence, step, programs, reuses, evictions, returned>>
        /\ tiles' = tiles
    BY <1>2 DEF SweepUse, vars, problem, engine, counts
  <2>2. [t \in Tiles |-> tiles[t].weight]' = [t \in Tiles |-> tiles[t].weight]
    BY <2>1 DEF Tiles
  <2> QED
    BY <2>1, <2>2 DEF Replay!vars, Replay!problem, Replay!counts
<1>3. CASE Reuse
  <2> DEFINE t == residency[Use(step)]
  <2>1. /\ Placing /\ t \in Tiles /\ step' = step + 1 /\ reuses' = reuses + 1
        /\ programs' = programs /\ evictions' = evictions
        /\ tiles' = [tiles EXCEPT ![t] = Touched(t)]
        /\ UNCHANGED <<numTiles, useSequence, returned>>
    BY <1>0, <1>3, ReuseStep DEF problem
  <2>2. tiles[t].weight = Use(step) /\ \A u \in Tiles : u # t => tiles[u].weight # Use(step)
    BY <1>0, <2>1, StepIsPlacing DEF ResidencyExact
  <2>3. \A u \in Tiles : tiles'[u].weight = IF u = t THEN Use(step) ELSE tiles[u].weight
    BY <1>0, <2>1, <2>2, TouchedTile DEF TypeOK
  <2>4. programs \in Nat /\ evictions \in Nat
    BY <1>0 DEF TypeOK
  <2>5. "Reuse" \in Replay!Kinds
    BY DEF Replay!Kinds
  <2> HIDE DEF t
  <2>6. \E a \in Replay!Action : Replay!Accept(a)
    BY <2>1, <2>2, <2>3, <2>4, <2>5, RefineAccept
  <2> QED
    BY <2>6
<1>4. CASE ProgramIntoFree
  <2>1. /\ Placing /\ tilesInUse \in Tiles /\ residency[Use(step)] = NoTile
        /\ step' = step + 1 /\ programs' = programs + 1
        /\ reuses' = reuses /\ evictions' = evictions
        /\ tiles' = [tiles EXCEPT ![tilesInUse] = Programmed]
        /\ UNCHANGED <<numTiles, useSequence, returned>>
    BY <1>0, <1>4, FreeStep DEF problem
  <2>2. tiles[tilesInUse].weight = NoWeight /\ \A u \in Tiles : tiles[u].weight # Use(step)
    BY <1>0, <2>1, StepIsPlacing DEF ResidencyExact, Tiles, NoTile
  <2>3. \A u \in Tiles :
          tiles'[u].weight = IF u = tilesInUse THEN Use(step) ELSE tiles[u].weight
    BY <1>0, <2>1, TouchedTile DEF TypeOK
  <2>4. reuses \in Nat /\ evictions \in Nat
    BY <1>0 DEF TypeOK
  <2>5. "ProgramIntoFree" \in Replay!Kinds
    BY DEF Replay!Kinds
  <2>6. \E a \in Replay!Action : Replay!Accept(a)
    BY <2>1, <2>2, <2>3, <2>4, <2>5, RefineAccept
  <2> QED
    BY <2>6
<1>5. ASSUME NEW v \in Tiles, ProgramWithEviction(v)
      PROVE  [Replay!Next]_Replay!vars
  <2>1. /\ Placing /\ tilesInUse = numTiles /\ residency[Use(step)] = NoTile
        /\ step' = step + 1 /\ programs' = programs + 1 /\ evictions' = evictions + 1
        /\ reuses' = reuses /\ tiles' = [tiles EXCEPT ![v] = Programmed]
        /\ UNCHANGED <<numTiles, useSequence, returned>>
    BY <1>0, <1>5, EvictionStep DEF problem
  <2>2. /\ tiles[v].weight # NoWeight /\ tiles[v].weight \in Weights \cup {NoWeight}
        /\ \A u \in Tiles : tiles[u].weight # Use(step)
    <3>1. tiles[v].weight \in Weights \cup {NoWeight}
      BY <1>0 DEF TypeOK, TileState
    <3>2. tiles[v].weight # NoWeight
      BY <1>0, <2>1, StepIsPlacing DEF ResidencyExact, Tiles
    <3>3. \A u \in Tiles : tiles[u].weight # Use(step)
      BY <1>0, <2>1, StepIsPlacing DEF ResidencyExact, Tiles, NoTile
    <3> QED
      BY <3>1, <3>2, <3>3
  <2>3. \A u \in Tiles : tiles'[u].weight = IF u = v THEN Use(step) ELSE tiles[u].weight
    BY <1>0, <2>1, TouchedTile DEF TypeOK
  <2>4. reuses \in Nat
    BY <1>0 DEF TypeOK
  <2>5. "ProgramWithEviction" \in Replay!Kinds
    BY DEF Replay!Kinds
  <2>6. \E a \in Replay!Action : Replay!Accept(a)
    BY <2>1, <2>2, <2>3, <2>4, <2>5, RefineAccept
  <2> QED
    BY <2>6
<1>6. CASE Return
  <2>1. /\ UNCHANGED <<problem, step, engine>> /\ ~returned /\ returned'
        /\ step = Len(useSequence) /\ numTiles # 0
    BY <1>6 DEF Return, Solvable
  <2> QED
    BY <2>1, RefineConclude
<1> QED
  BY <1>1, <1>2, <1>3, <1>4, <1>5, <1>6 DEF Next

\* ScheduleIsAccepted: every schedule computePlacement returns, under every
\* policy and for every problem, is one validatePlacement accepts.
THEOREM EngineRefinesTileArray == Spec => ScheduleIsAccepted
BY RefineInit, RefineStep, AlwaysIInv, PTL DEF Spec, ScheduleIsAccepted, Replay!Spec
-----------------------------------------------------------------------------
(* The engine.  What it holds, and what the rest of its sequence costs.     *)
Held  == {tiles[t].weight : t \in 0 .. tilesInUse - 1}
LeastPrograms == Cost(useSequence, numTiles)[Len(useSequence)][{}]
Rest  == Cost(useSequence, numTiles)[Len(useSequence) - step][Held]

\* The programs made and the least cost of the rest are together never below
\* the least cost of the whole, and under Belady never above it.
OnOptimalCourse ==
  Solvable => /\ programs + Rest >= LeastPrograms
              /\ policy = "Belady" => programs + Rest <= LeastPrograms
ReturnedAtEnd == returned /\ Solvable => step = Len(useSequence)

OptimalityInv == IInv /\ OnOptimalCourse /\ ReturnedAtEnd

\* As many weights are held as tiles are in use.
LEMMA HeldSize ==
  ASSUME TypeOK, ResidencyExact
  PROVE  Held \in SUBSET Weights /\ IsFiniteSet(Held) /\ Cardinality(Held) = tilesInUse
<1> DEFINE f == [t \in 0 .. tilesInUse - 1 |-> tiles[t].weight]
<1>1. tilesInUse \in Nat /\ 0 .. tilesInUse - 1 \in SUBSET Tiles
  BY DEF TypeOK, Tiles
<1>2. ASSUME NEW t \in 0 .. tilesInUse - 1
      PROVE  tiles[t].weight \in Weights /\ residency[tiles[t].weight] = t
  <2>1. t \in Tiles /\ t < tilesInUse
    BY <1>1
  <2>2. tiles[t].weight # NoWeight /\ tiles[t].weight \in Weights \cup {NoWeight}
    BY <2>1 DEF TypeOK, TileState, ResidencyExact
  <2> QED BY <2>1, <2>2 DEF ResidencyExact
<1>3. f \in Bijection(0 .. tilesInUse - 1, Held)
  <2>1. f \in [0 .. tilesInUse - 1 -> Held] /\ \A w \in Held : \E t \in 0 .. tilesInUse - 1 : f[t] = w
    BY DEF Held
  <2>2. \A t, u \in 0 .. tilesInUse - 1 : f[t] = f[u] => t = u
    BY <1>2
  <2> QED BY <2>1, <2>2 DEF Bijection, Injection, Surjection, IsInjective
<1>4. IsFiniteSet(0 .. tilesInUse - 1) /\ Cardinality(0 .. tilesInUse - 1) = tilesInUse
  BY <1>1, FS_Interval
<1>5. ExistsBijection(0 .. tilesInUse - 1, Held)
  BY <1>3 DEF ExistsBijection
<1>6. IsFiniteSet(Held) /\ Cardinality(Held) = Cardinality(0 .. tilesInUse - 1)
  BY <1>4, <1>5, FS_Bijection
<1> QED BY <1>2, <1>4, <1>6 DEF Held

\* What a step costs, in terms of the rest of the sequence after it.
After(h) == Cost(useSequence, numTiles)[Len(useSequence) - step - 1][h]

\* Where the forward pass stands in the cost of the whole sequence.
LEMMA RestStep ==
  ASSUME IInv, Placing
  PROVE  /\ useSequence \in Seq(Weights) /\ numTiles \in Nat \ {0} /\ Use(step) \in Weights
         /\ Len(useSequence) - step - 1 \in 0 .. Len(useSequence)
         /\ IsStep(Cost(useSequence, numTiles)[Len(useSequence) - step],
                   Cost(useSequence, numTiles)[Len(useSequence) - step - 1], Use(step), numTiles)
         /\ Rest \in Nat /\ \A h \in SUBSET Weights : After(h) \in Nat
<1> DEFINE left == Len(useSequence) - step
<1>1. TypeOK
  BY DEF IInv
<1>2. /\ useSequence \in Seq(Weights) /\ numTiles \in Nat \ {0} /\ Use(step) \in Weights
      /\ step \in 0 .. Len(useSequence) - 1 /\ Len(useSequence) \in Nat
  BY <1>1, StepIsPlacing DEF TypeOK, Steps
<1>3. left \in 1 .. Len(useSequence) /\ left - 1 \in 0 .. Len(useSequence)
  BY <1>2
<1>4. UseWith(useSequence, left) = Use(step)
  <2>1. Len(useSequence) - left + 1 = step + 1
    BY <1>2
  <2> QED BY <2>1 DEF UseWith, Use
<1> HIDE DEF left
<1>5. IsStep(Cost(useSequence, numTiles)[left], Cost(useSequence, numTiles)[left - 1],
             Use(step), numTiles)
  BY <1>2, <1>3, <1>4, CostStep
<1>6. /\ Cost(useSequence, numTiles)[left] \in Costs
      /\ Cost(useSequence, numTiles)[left - 1] \in Costs
  BY <1>5 DEF IsStep
<1>7. Held \in SUBSET Weights
  BY HeldSize DEF IInv
<1>8. Rest \in Nat /\ \A h \in SUBSET Weights : After(h) \in Nat
  BY <1>6, <1>7 DEF Rest, After, Costs, left
<1> QED BY <1>2, <1>3, <1>5, <1>8 DEF left

\* A weight is held exactly when the map has a tile for it.
LEMMA HeldByMap ==
  ASSUME TypeOK, ResidencyExact, NEW w \in Weights
  PROVE  w \in Held <=> residency[w] # NoTile
<1>1. tilesInUse \in 0 .. numTiles /\ numTiles \in Nat
  BY DEF TypeOK
<1>2. ASSUME NEW t \in 0 .. tilesInUse - 1, tiles[t].weight = w PROVE residency[w] # NoTile
  BY <1>1, <1>2 DEF ResidencyExact, Tiles, NoTile
<1>3. ASSUME residency[w] # NoTile PROVE w \in Held
  <2>1. residency[w] \in Tiles /\ tiles[residency[w]].weight = w
    BY <1>3 DEF TypeOK, ResidencyExact
  <2>2. residency[w] < tilesInUse
    BY <2>1, NoWeightAssumption DEF ResidencyExact
  <2> QED BY <1>1, <2>1, <2>2 DEF Held, Tiles
<1> QED BY <1>2, <1>3 DEF Held

\* Serving a use that is held costs nothing.
LEMMA ReuseCost ==
  ASSUME IInv, Reuse
  PROVE  Rest' = Rest
<1>1. TypeOK /\ ResidencyExact
  BY DEF IInv
<1>2. /\ Placing /\ residency[Use(step)] # NoTile /\ step' = step + 1
      /\ UNCHANGED <<useSequence, numTiles, tilesInUse>>
  BY <1>1, ReuseStep DEF Reuse, problem
<1>3. \A t \in Tiles : tiles'[t].weight = tiles[t].weight
  BY <1>1, ReuseStep, TouchedTile DEF TypeOK
<1>4. Held' = Held
  <2>1. 0 .. tilesInUse - 1 \in SUBSET Tiles
    BY <1>1 DEF TypeOK, Tiles
  <2>2. Held' = {tiles'[t].weight : t \in 0 .. tilesInUse - 1}
    BY <1>2 DEF Held
  <2> QED BY <1>3, <2>1, <2>2 DEF Held
<1>5. Use(step) \in Held /\ Held \in SUBSET Weights
  BY <1>1, <1>2, StepIsPlacing, HeldByMap, HeldSize
<1>6. Rest = After(Held)
  BY <1>2, <1>5, RestStep DEF IsStep, Rest, After
<1>7. Len(useSequence) - (step + 1) = Len(useSequence) - step - 1
  BY <1>1 DEF TypeOK
<1> QED BY <1>2, <1>4, <1>6, <1>7 DEF Rest, After

\* Whatever is kept to make room, at least this much follows.
LEMMA FreeCost ==
  ASSUME IInv, ProgramIntoFree
  PROVE  Rest = 1 + Rest' /\ Rest' \in Nat
<1>1. TypeOK /\ ResidencyExact
  BY DEF IInv
<1>2. /\ Placing /\ residency[Use(step)] = NoTile /\ step' = step + 1
      /\ tilesInUse \in Tiles /\ tilesInUse' = tilesInUse + 1
      /\ tiles' = [tiles EXCEPT ![tilesInUse] = Programmed]
      /\ UNCHANGED <<useSequence, numTiles>>
  BY <1>1, FreeStep DEF problem
<1>3. /\ useSequence \in Seq(Weights) /\ numTiles \in Nat \ {0} /\ Use(step) \in Weights
      /\ Len(useSequence) - step - 1 \in 0 .. Len(useSequence)
      /\ IsStep(Cost(useSequence, numTiles)[Len(useSequence) - step],
                Cost(useSequence, numTiles)[Len(useSequence) - step - 1], Use(step), numTiles)
      /\ Rest \in Nat /\ \A h \in SUBSET Weights : After(h) \in Nat
  BY <1>2, RestStep
<1>4. /\ Use(step) \notin Held /\ Held \in SUBSET Weights
      /\ IsFiniteSet(Held) /\ Cardinality(Held) = tilesInUse
  BY <1>1, <1>2, <1>3, HeldByMap, HeldSize
<1>5. Held' = Held \cup {Use(step)}
  <2>1. \A t \in Tiles : tiles'[t].weight = IF t = tilesInUse THEN Use(step) ELSE tiles[t].weight
    BY <1>1, <1>2, TouchedTile DEF TypeOK
  <2>2. tilesInUse \in Nat /\ 0 .. tilesInUse \in SUBSET Tiles
    BY <1>2, <1>3 DEF Tiles
  <2>3. Held' = {tiles'[t].weight : t \in 0 .. tilesInUse}
    BY <1>2, <2>2 DEF Held
  <2>4. \A t \in 0 .. tilesInUse : t = tilesInUse \/ t \in 0 .. tilesInUse - 1
    BY <2>2
  <2>5. \A t \in 0 .. tilesInUse - 1 : t \in 0 .. tilesInUse /\ t # tilesInUse
    BY <2>2
  <2>6. Held' \subseteq Held \cup {Use(step)}
    BY <2>1, <2>2, <2>3, <2>4 DEF Held
  <2>7. Held \cup {Use(step)} \subseteq Held'
    BY <2>1, <2>2, <2>3, <2>5 DEF Held
  <2> QED BY <2>6, <2>7
<1>6. Rest' = After(Held \cup {Use(step)})
  <2>1. Len(useSequence) - (step + 1) = Len(useSequence) - step - 1
    BY <1>1 DEF TypeOK
  <2> QED BY <1>2, <1>5, <2>1 DEF Rest, After
<1>7. Held \in Keeps(Held, numTiles)
  <2>1. tilesInUse < numTiles
    BY <1>2, <1>3 DEF Tiles
  <2> QED BY <1>4, <2>1, CanKeep
<1>8. Rest <= 1 + After(Held \cup {Use(step)})
  BY <1>3, <1>4, <1>7 DEF IsStep, Rest, After
<1>9. PICK keep \in Keeps(Held, numTiles) : Rest = 1 + After(keep \cup {Use(step)})
  BY <1>3, <1>4 DEF IsStep, Rest, After
<1>10. keep \cup {Use(step)} \in SUBSET (Held \cup {Use(step)})
  BY <1>9 DEF Keeps, Reference!Keeps
<1>11. After(Held \cup {Use(step)}) <= After(keep \cup {Use(step)})
  BY <1>3, <1>4, <1>10, Monotone DEF IsMonotone, After
<1>12. /\ After(Held \cup {Use(step)}) \in Nat /\ After(keep \cup {Use(step)}) \in Nat
  BY <1>3, <1>4, <1>10
<1> QED BY <1>3, <1>6, <1>8, <1>9, <1>11, <1>12

\* What an eviction leaves, and what could be kept in its place.
LEMMA EvictionRest ==
  ASSUME IInv, NEW v \in Tiles, ProgramWithEviction(v)
  PROVE  /\ tiles[v].weight \in Held /\ Use(step) \notin Held
         /\ Held \in SUBSET Weights /\ IsFiniteSet(Held) /\ Cardinality(Held) = numTiles
         /\ Rest' = After((Held \ {tiles[v].weight}) \cup {Use(step)})
<1>1. TypeOK /\ ResidencyExact
  BY DEF IInv
<1>2. /\ Placing /\ residency[Use(step)] = NoTile /\ step' = step + 1
      /\ tilesInUse = numTiles /\ tilesInUse' = tilesInUse
      /\ tiles' = [tiles EXCEPT ![v] = Programmed]
      /\ UNCHANGED <<useSequence, numTiles>>
  BY <1>1, EvictionStep DEF problem
<1>3. /\ Use(step) \notin Held /\ Held \in SUBSET Weights
      /\ IsFiniteSet(Held) /\ Cardinality(Held) = numTiles
  BY <1>1, <1>2, StepIsPlacing, HeldByMap, HeldSize
<1>4. Held = {tiles[t].weight : t \in Tiles} /\ Held' = {tiles'[t].weight : t \in Tiles}
  BY <1>2 DEF Held, Tiles
<1>5. \A t \in Tiles : tiles'[t].weight = IF t = v THEN Use(step) ELSE tiles[t].weight
  BY <1>1, <1>2, TouchedTile DEF TypeOK
<1>6. \A t \in Tiles : tiles[t].weight = tiles[v].weight => t = v
  <2>1. \A t \in Tiles : tiles[t].weight \in Weights
    BY <1>3, <1>4
  <2> QED BY <1>1, <2>1 DEF ResidencyExact
<1>7. Held' = (Held \ {tiles[v].weight}) \cup {Use(step)}
  BY <1>4, <1>5, <1>6
<1>8. Len(useSequence) - (step + 1) = Len(useSequence) - step - 1
  BY <1>1 DEF TypeOK
<1> QED BY <1>2, <1>3, <1>4, <1>7, <1>8 DEF Rest, After

\* No victim makes the rest cheaper than it can be.
LEMMA EvictionCostsEnough ==
  ASSUME IInv, NEW v \in Tiles, ProgramWithEviction(v)
  PROVE  Rest <= 1 + Rest' /\ Rest' \in Nat
<1> DEFINE keep == Held \ {tiles[v].weight}
<1>1. Placing
  BY DEF ProgramWithEviction
<1>2. /\ tiles[v].weight \in Held /\ Use(step) \notin Held
      /\ Held \in SUBSET Weights /\ IsFiniteSet(Held) /\ Cardinality(Held) = numTiles
      /\ Rest' = After(keep \cup {Use(step)})
  BY EvictionRest
<1>3. Cardinality(keep) < numTiles
  <2>1. IsFiniteSet(keep) /\ Cardinality(keep) = Cardinality(Held) - 1
    BY <1>2, FS_RemoveElement
  <2>2. Cardinality(keep) \in Nat /\ Cardinality(Held) \in Nat
    BY <1>2, <2>1, FS_CardinalityType
  <2> HIDE DEF keep
  <2> QED BY <1>2, <2>1, <2>2
<1>4. keep \in Keeps(Held, numTiles)
  BY <1>3, CanKeep
<1>5. Rest <= 1 + After(keep \cup {Use(step)})
  BY <1>1, <1>2, <1>4, RestStep DEF IsStep, Rest, After
<1>6. After(keep \cup {Use(step)}) \in Nat
  BY <1>1, <1>2, RestStep
<1> QED BY <1>2, <1>5, <1>6

\* Belady's victim leaves the rest as cheap as it can be.
LEMMA BeladyCostsNoMore ==
  ASSUME IInv, NEW v \in Tiles, ProgramWithEviction(v), policy = "Belady"
  PROVE  1 + Rest' <= Rest
<1> DEFINE k == numTiles
           use == Use(step)
           y == tiles[v].weight
           left == Len(useSequence) - step - 1
<1>1. Placing /\ TypeOK /\ ResidencyExact
  BY DEF ProgramWithEviction, IInv
<1>2. /\ useSequence \in Seq(Weights) /\ k \in Nat \ {0} /\ use \in Weights
      /\ left \in 0 .. Len(useSequence)
      /\ IsStep(Cost(useSequence, k)[Len(useSequence) - step], Cost(useSequence, k)[left], use, k)
      /\ Rest \in Nat /\ \A h \in SUBSET Weights : After(h) \in Nat
  BY <1>1, RestStep
<1>3. /\ y \in Held /\ use \notin Held
      /\ Held \in SUBSET Weights /\ IsFiniteSet(Held) /\ Cardinality(Held) = k
      /\ Rest' = After((Held \ {y}) \cup {use})
  BY EvictionRest
<1> HIDE DEF k, use, y
<1>4. PICK keep \in Keeps(Held, k) : Rest = 1 + After(keep \cup {use})
  BY <1>2, <1>3 DEF IsStep, Rest, After, k
<1>5. keep \in SUBSET Held /\ Cardinality(keep) < k
  BY <1>3, <1>4, KeptSets
<1>6. PICK z \in Held : z \notin keep
  <2>1. k \in Nat /\ Cardinality(Held) = k /\ Cardinality(keep) < k
    BY <1>2, <1>3, <1>5
  <2>2. keep # Held
    BY <2>1
  <2> QED BY <1>5, <2>2
<1>7. After((Held \ {z}) \cup {use}) <= After(keep \cup {use})
  <2>1. IsMonotone(Cost(useSequence, k)[left])
    BY <1>2, Monotone
  <2>2. (Held \ {z}) \cup {use} \in SUBSET Weights /\ keep \cup {use} \in SUBSET ((Held \ {z}) \cup {use})
    BY <1>2, <1>3, <1>5, <1>6
  <2> QED BY <2>1, <2>2 DEF IsMonotone, After, k
<1>8. CASE z = y
  BY <1>2, <1>3, <1>4, <1>5, <1>7, <1>8
<1>9. CASE z # y
  <2> DEFINE h == ((Held \ {y}) \ {z}) \cup {use}
  <2>1. NoLater(useSequence, left, z, y)
    <3>1. PICK u \in 0 .. tilesInUse - 1 : tiles[u].weight = z
      BY <1>6 DEF Held
    <3>2. u \in Tiles
      BY <1>1 DEF TypeOK, Tiles
    <3>3. ~NeededSooner(y, z)
      BY <3>1, <3>2, BeladyVictim DEF y
    <3>4. step \in Nat /\ step < Len(useSequence) /\ Len(useSequence) \in Nat
      BY <1>1 DEF TypeOK, Placing
    <3> SUFFICES ASSUME NEW j \in 1 .. left, UseWith(useSequence, j) = y
                 PROVE  \E i \in j .. left : UseWith(useSequence, i) = z
      BY DEF NoLater
    <3> DEFINE s == Len(useSequence) - j
    <3>5. s \in Steps /\ s >= step /\ Use(s) = y
      <4>1. Len(useSequence) - j + 1 = s + 1
        BY <3>4
      <4> QED BY <3>4, <4>1 DEF Steps, Use, UseWith
    <3>6. PICK q \in Steps : step <= q /\ q <= s /\ Use(q) = z
      BY <3>3, <3>5 DEF NeededSooner
    <3>7. q # step
      BY <1>3, <3>6 DEF use
    <3>8. Len(useSequence) - q \in j .. left
      BY <3>4, <3>6, <3>7 DEF Steps
    <3>9. Len(useSequence) - (Len(useSequence) - q) + 1 = q + 1
      BY <3>4, <3>6 DEF Steps
    <3> QED BY <3>6, <3>8, <3>9 DEF UseWith, Use
  <2>2. y \in Weights /\ z \in Weights
    BY <1>3, <1>6
  <2> HIDE DEF left
  <2>3. Prefers(Cost(useSequence, k)[left], k, z, y)
    BY <1>2, <2>1, <2>2, Exchange
  <2>4. h \in SUBSET Weights /\ z \notin h /\ y \notin h
    BY <1>2, <1>3, <1>6
  <2>5. IsFiniteSet(h) /\ Cardinality(h) < k
    <3> DEFINE a == Held \ {y}
               b == a \ {z}
    <3>1. IsFiniteSet(a) /\ Cardinality(a) = Cardinality(Held) - 1
      BY <1>3, FS_RemoveElement
    <3>2. z \in a /\ use \notin b
      BY <1>3, <1>6, <1>9
    <3> HIDE DEF a
    <3>3. IsFiniteSet(b) /\ Cardinality(b) = Cardinality(a) - 1
      BY <3>1, <3>2, FS_RemoveElement
    <3> HIDE DEF b
    <3>4. IsFiniteSet(b \cup {use}) /\ Cardinality(b \cup {use}) = Cardinality(b) + 1
      BY <3>2, <3>3, OneMore
    <3>5. Cardinality(a) \in Nat /\ Cardinality(b) \in Nat
      BY <3>1, <3>3, FS_CardinalityType
    <3>6. Cardinality(b \cup {use}) < k
      BY <1>2, <1>3, <3>1, <3>3, <3>4, <3>5
    <3> QED BY <3>4, <3>6 DEF a, b
  <2>6. h \cup {z} = (Held \ {y}) \cup {use} /\ h \cup {y} = (Held \ {z}) \cup {use}
    BY <1>3, <1>6, <1>9
  <2> HIDE DEF h
  <2>7. Cost(useSequence, k)[left][h \cup {z}] <= Cost(useSequence, k)[left][h \cup {y}]
    BY <2>3, <2>4, <2>5 DEF Prefers
  <2>8. After((Held \ {y}) \cup {use}) <= After((Held \ {z}) \cup {use})
    BY <2>6, <2>7 DEF After, k, left
  <2>9. /\ After((Held \ {y}) \cup {use}) \in Nat /\ After((Held \ {z}) \cup {use}) \in Nat
        /\ After(keep \cup {use}) \in Nat
    BY <1>2, <1>3, <1>5
  <2> QED BY <1>2, <1>3, <1>4, <1>7, <2>8, <2>9
<1> QED BY <1>8, <1>9

LEMMA CourseArithmetic ==
  ASSUME NEW made \in Nat, NEW rest \in Nat, NEW next \in Nat, NEW least \in Nat,
         rest <= 1 + next
  PROVE  /\ made + rest >= least => (made + 1) + next >= least
         /\ made + rest <= least /\ 1 + next <= rest => (made + 1) + next <= least
OBVIOUS

LEMMA Equal == ASSUME NEW rest, NEW next \in Nat, rest = 1 + next
               PROVE  rest <= 1 + next /\ 1 + next <= rest
OBVIOUS

\* Every step keeps to the course.
LEMMA CourseStep == OptimalityInv /\ [Next]_vars => OptimalityInv'
<1> SUFFICES ASSUME OptimalityInv, [Next]_vars PROVE OptimalityInv'
  OBVIOUS
<1>1. IInv /\ TypeOK /\ IInv'
  BY Inductive DEF OptimalityInv, IInv
<1>2. CASE ReturnEmpty \/ SweepUse \/ Return \/ UNCHANGED vars
  <2>1. /\ UNCHANGED <<useSequence, numTiles, policy, step, tiles, tilesInUse, programs>>
        /\ returned' = returned \/ ~Solvable \/ step = Len(useSequence)
    BY <1>2 DEF ReturnEmpty, SweepUse, Return, vars, problem, engine, counts
  <2>2. Rest' = Rest /\ LeastPrograms' = LeastPrograms /\ (Solvable' <=> Solvable)
    BY <2>1 DEF Rest, Held, LeastPrograms, Solvable
  <2> QED BY <1>1, <2>1, <2>2 DEF OptimalityInv, OnOptimalCourse, ReturnedAtEnd
<1>3. ASSUME Placing, UNCHANGED <<problem, returned>>,
             \/ programs' = programs /\ Rest' = Rest
             \/ /\ programs' = programs + 1 /\ Rest <= 1 + Rest'
                /\ policy = "Belady" => 1 + Rest' <= Rest,
             Rest' \in Nat
      PROVE  OptimalityInv'
  <2>1. Solvable /\ Solvable' /\ LeastPrograms' = LeastPrograms /\ policy' = policy
    BY <1>3 DEF Placing, Solvable, LeastPrograms, problem
  <2>2. ~returned'
    BY <1>3 DEF Placing
  <2>3. Rest \in Nat /\ programs \in Nat
    BY <1>1, <1>3, RestStep DEF TypeOK
  <2>4. LeastPrograms \in Nat
    <3>1. useSequence \in Seq(Weights) /\ numTiles \in Nat \ {0}
      BY <1>1, <1>3, RestStep
    <3>2. Cost(useSequence, numTiles)[Len(useSequence)] \in Costs
      BY <3>1, CostEquation
    <3> QED BY <3>2 DEF LeastPrograms, Costs
  <2>5. /\ programs + Rest >= LeastPrograms
        /\ policy = "Belady" => programs + Rest <= LeastPrograms
    BY <2>1 DEF OptimalityInv, OnOptimalCourse
  <2>6. /\ programs' + Rest' >= LeastPrograms
        /\ policy = "Belady" => programs' + Rest' <= LeastPrograms
    <3>1. CASE programs' = programs /\ Rest' = Rest
      BY <2>5, <3>1
    <3>2. CASE /\ programs' = programs + 1 /\ Rest <= 1 + Rest'
               /\ policy = "Belady" => 1 + Rest' <= Rest
      <4>1. Rest' \in Nat
        BY <1>3
      <4>2. Rest <= 1 + Rest'
        BY <3>2
      <4>3. /\ programs + Rest >= LeastPrograms => (programs + 1) + Rest' >= LeastPrograms
            /\ programs + Rest <= LeastPrograms /\ 1 + Rest' <= Rest =>
                 (programs + 1) + Rest' <= LeastPrograms
        BY <2>3, <2>4, <4>1, <4>2, CourseArithmetic, Zenon
      <4> QED BY <2>5, <3>2, <4>3, Zenon
    <3> QED BY <1>3, <3>1, <3>2
  <2>7. OnOptimalCourse'
    BY <2>1, <2>6 DEF OnOptimalCourse
  <2> QED BY <1>1, <2>2, <2>7 DEF OptimalityInv, ReturnedAtEnd
<1>5. CASE Reuse
  <2>1. Rest \in Nat
    BY <1>1, <1>5, RestStep DEF Reuse
  <2> QED BY <1>1, <1>3, <1>5, <2>1, ReuseStep, ReuseCost
<1>6. CASE ProgramIntoFree
  <2>1. Rest = 1 + Rest' /\ Rest' \in Nat
    BY <1>1, <1>6, FreeCost
  <2>2. Rest <= 1 + Rest' /\ 1 + Rest' <= Rest
    BY <2>1, Equal, Zenon
  <2> QED BY <1>1, <1>3, <1>6, <2>1, <2>2, FreeStep
<1>7. ASSUME NEW v \in Tiles, ProgramWithEviction(v) PROVE OptimalityInv'
  <2>1. Rest <= 1 + Rest' /\ Rest' \in Nat /\ (policy = "Belady" => 1 + Rest' <= Rest)
    BY <1>1, <1>7, EvictionCostsEnough, BeladyCostsNoMore
  <2> QED BY <1>1, <1>3, <1>7, <2>1, EvictionStep
<1> QED
  BY <1>2, <1>5, <1>6, <1>7 DEF Next

LEMMA InitOptimality == Init => OptimalityInv
<1> SUFFICES ASSUME Init PROVE OptimalityInv
  OBVIOUS
<1>1. IInv /\ TypeOK
  BY InitIInv DEF IInv
<1>2. step = 0 /\ programs = 0 /\ tilesInUse = 0 /\ returned = FALSE
  BY DEF Init
<1>3. Held = {}
  BY <1>2 DEF Held
<1>4. Len(useSequence) - step = Len(useSequence)
  BY <1>1, <1>2 DEF TypeOK
<1>5. Rest = LeastPrograms
  BY <1>3, <1>4 DEF Rest, LeastPrograms
<1>6. ASSUME Solvable PROVE LeastPrograms \in Nat
  <2>1. useSequence \in Seq(Weights) /\ numTiles \in Nat \ {0}
    BY <1>1, <1>6 DEF TypeOK, Solvable
  <2>2. Cost(useSequence, numTiles)[Len(useSequence)] \in Costs
    BY <2>1, CostEquation
  <2> QED BY <2>2 DEF LeastPrograms, Costs
<1> QED BY <1>1, <1>2, <1>5, <1>6 DEF OptimalityInv, OnOptimalCourse, ReturnedAtEnd

\* What is asked of the result is what the course ends in: nothing is left.
LEMMA OptimalAtEnd == OptimalityInv => BeladyIsOptimal
<1> SUFFICES ASSUME OptimalityInv, returned, Solvable
             PROVE  /\ programs >= LeastPrograms
                    /\ policy = "Belady" => programs = LeastPrograms
  BY DEF BeladyIsOptimal, Reference!MinPrograms, LeastPrograms, Cost
<1>1. IInv /\ TypeOK /\ ResidencyExact /\ step = Len(useSequence)
  BY DEF OptimalityInv, IInv, ReturnedAtEnd
<1>2. useSequence \in Seq(Weights) /\ numTiles \in Nat \ {0} /\ programs \in Nat
  BY <1>1 DEF TypeOK, Solvable
<1>3. Len(useSequence) - step = 0 /\ Held \in SUBSET Weights
  BY <1>1, <1>2, HeldSize
<1>4. Rest = 0
  <2>1. Cost(useSequence, numTiles)[0] = [held \in SUBSET Weights |-> 0]
    BY <1>2, CostEquation
  <2> QED BY <1>3, <2>1 DEF Rest
<1>5. LeastPrograms \in Nat
  <2>1. Cost(useSequence, numTiles)[Len(useSequence)] \in Costs
    BY <1>2, CostEquation
  <2> QED BY <2>1 DEF LeastPrograms, Costs
<1> QED BY <1>2, <1>4, <1>5 DEF OptimalityInv, OnOptimalCourse

\* BeladyIsOptimal: whatever the weights, the number of tiles and the length
\* of the sequence, computePlacement under Belady programs exactly as often
\* as the best schedule of any kind, and under LRU or FIFO never less often.
THEOREM BeladyOptimal == Spec => []BeladyIsOptimal
BY InitOptimality, CourseStep, OptimalAtEnd, PTL DEF Spec
-----------------------------------------------------------------------------
(* The engine under Belady and the function the pass is modelled with.       *)
(* The schedule of the function comes with what the tiles hold as it goes    *)
(* (SchedulesProofs); the engine's tiles hold the same, step by step.        *)

LEMMA SameFunction == \A seq, n : AsFunction!Belady(seq, n) = Fn!Belady(seq, n)
BY DEF AsFunction!Belady, Fn!Belady, AsFunction!BeladyAction, Fn!BeladyAction,
       AsFunction!Free, Fn!Free, AsFunction!Victim, Fn!Victim,
       AsFunction!NextUse, Fn!NextUse, AsFunction!UsesFrom, Fn!UsesFrom,
       AsFunction!Min, Fn!Min

\* The next use of a weight from a step on, by the function's count of steps:
\* one more than the engine's, and the length and one for never.
LEMMA SameNextUse ==
  ASSUME TypeOK, NEW w, NEW i \in Nat, NEW j \in 0 .. MaxSteps, FirstUseFrom(w, i, j)
  PROVE  Fn!NextUse(useSequence, w, i + 1) = IF j \in Steps THEN j + 1 ELSE Len(useSequence) + 1
<1> DEFINE U == Fn!UsesFrom(useSequence, w, i + 1)
<1>1. Len(useSequence) \in Nat /\ Len(useSequence) <= MaxSteps
  BY DEF TypeOK
<1>2. \A k : k \in U <=> k \in i + 1 .. Len(useSequence) /\ useSequence[k] = w
  BY DEF Fn!UsesFrom
<1>3. \A k \in i + 1 .. Len(useSequence) : /\ k - 1 \in Steps /\ i <= k - 1
                                           /\ Use(k - 1) = useSequence[k]
  BY <1>1 DEF Steps, Use
<1>4. CASE j \in Steps
  <2>1. i <= j /\ Use(j) = w
    BY <1>1, <1>4 DEF FirstUseFrom, NeverAgain, Steps
  <2>2. j + 1 \in U
    <3>1. j + 1 \in i + 1 .. Len(useSequence) /\ useSequence[j + 1] = w
      BY <1>1, <1>4, <2>1 DEF Steps, Use
    <3> QED BY <1>2, <3>1
  <2>3. ASSUME NEW k \in U PROVE j + 1 <= k
    <3>1. k \in i + 1 .. Len(useSequence) /\ Use(k - 1) = w /\ k - 1 \in Steps /\ i <= k - 1
      BY <1>2, <1>3
    <3>2. ~ (k - 1 < j)
      BY <3>1 DEF FirstUseFrom
    <3> QED BY <3>1, <3>2
  <2>4. U \in SUBSET Nat
    BY <1>2
  <2> HIDE DEF U
  <2>5. Fn!Min(U) \in U /\ \A k \in U : Fn!Min(U) <= k
    BY <2>2, <2>4, Fn!MinIsLeast
  <2>6. Fn!Min(U) = j + 1
    <3>1. Fn!Min(U) <= j + 1 /\ j + 1 <= Fn!Min(U) /\ Fn!Min(U) \in Nat
      BY <2>2, <2>3, <2>4, <2>5
    <3> QED BY <3>1
  <2> QED BY <1>4, <2>2, <2>6 DEF Fn!NextUse, U
<1>5. CASE j \notin Steps
  <2>1. j = MaxSteps
    BY <1>5 DEF FirstUseFrom, NeverAgain
  <2>2. U = {}
    <3> SUFFICES ASSUME NEW k \in U PROVE FALSE
      OBVIOUS
    <3>1. k \in i + 1 .. Len(useSequence) /\ Use(k - 1) = w /\ k - 1 \in Steps /\ i <= k - 1
      BY <1>2, <1>3
    <3>2. k - 1 < j
      BY <1>1, <2>1, <3>1
    <3> QED BY <3>1, <3>2 DEF FirstUseFrom
  <2> QED BY <1>5, <2>2 DEF Fn!NextUse
<1> QED BY <1>4, <1>5

\* The tiles hold h.
Holding(h) == h \in Fn!Holdings(Weights, numTiles) /\ \A t \in Tiles : h[t] = tiles[t].weight

\* What the function does next when the tiles hold h.
NextAction(h) == Fn!BeladyAction(useSequence, step + 1, h)
Recorded(kind, t, victim) ==
  [step |-> step, weight |-> Use(step), tile |-> t, kind |-> kind, evicted |-> victim]

LEMMA MinOfOne == ASSUME NEW t PROVE t \in Int => Fn!Min({t}) = t
BY DEF Fn!Min

LEMMA HoldingDomain == ASSUME NEW h, Holding(h) PROVE DOMAIN h = Tiles
BY DEF Holding, Fn!Holdings, Fn!TilesUpTo, Tiles

LEMMA ReuseIsNext ==
  ASSUME IInv, Placing, NEW h, Holding(h), residency[Use(step)] # NoTile
  PROVE  NextAction(h) = Recorded("Reuse", residency[Use(step)], NoWeight)
<1> DEFINE t == residency[Use(step)]
           on == {u \in DOMAIN h : h[u] = useSequence[step + 1]}
<1>1. TypeOK /\ ResidencyExact /\ Use(step) \in Weights /\ step \in Nat
  BY StepIsPlacing DEF IInv, TypeOK
<1>2. t \in Tiles
  BY <1>1 DEF TypeOK
<1>3. on = {t}
  BY <1>1, <1>2, HoldingDomain DEF ResidencyExact, Holding, Use
<1>4. Fn!Min(on) = t
  BY <1>2, <1>3, MinOfOne DEF Tiles
<1>5. (step + 1) - 1 = step /\ useSequence[step + 1] = Use(step)
  BY <1>1 DEF Use
<1>6. NextAction(h) = [step |-> (step + 1) - 1, weight |-> useSequence[step + 1], tile |-> Fn!Min(on),
                       kind |-> "Reuse", evicted |-> NoWeight]
  BY <1>3, Zenon DEF NextAction, Fn!BeladyAction
<1> HIDE DEF on
<1> QED BY <1>4, <1>5, <1>6, Zenon DEF Recorded

LEMMA NotHeld ==
  ASSUME IInv, Placing, NEW h, Holding(h), residency[Use(step)] = NoTile
  PROVE  {u \in DOMAIN h : h[u] = useSequence[step + 1]} = {}
<1>1. TypeOK /\ ResidencyExact /\ Use(step) \in Weights
  BY StepIsPlacing DEF IInv
<1>2. \A t \in Tiles : residency[Use(step)] # t
  BY DEF NoTile, Tiles
<1>3. \A t \in Tiles : tiles[t].weight # Use(step) /\ h[t] = tiles[t].weight
  BY <1>1, <1>2 DEF ResidencyExact, Holding
<1>4. useSequence[step + 1] = Use(step) /\ DOMAIN h = Tiles
  BY HoldingDomain DEF Use
<1> QED BY <1>3, <1>4

LEMMA FreeIsNext ==
  ASSUME IInv, Placing, NEW h, Holding(h), residency[Use(step)] = NoTile, tilesInUse < numTiles
  PROVE  NextAction(h) = Recorded("ProgramIntoFree", tilesInUse, NoWeight)
<1> DEFINE free == Fn!Free(h)
<1>1. TypeOK /\ ResidencyExact /\ step \in Nat /\ tilesInUse \in Tiles
  BY DEF IInv, TypeOK, Tiles
<1>2. free = {t \in Tiles : ~ (t < tilesInUse)}
  BY <1>1, HoldingDomain DEF Fn!Free, ResidencyExact, Holding
<1>3. tilesInUse \in free /\ free \in SUBSET Nat /\ \A t \in free : tilesInUse <= t
  BY <1>1, <1>2 DEF Tiles
<1> HIDE DEF free
<1>4. Fn!Min(free) \in free /\ Fn!Min(free) <= tilesInUse
  BY <1>3, Fn!MinIsLeast
<1>5. Fn!Min(free) = tilesInUse
  <2>1. Fn!Min(free) \in Nat /\ tilesInUse \in Nat /\ tilesInUse <= Fn!Min(free)
    BY <1>3, <1>4
  <2> QED BY <1>4, <2>1
<1>6. (step + 1) - 1 = step /\ useSequence[step + 1] = Use(step)
  BY <1>1 DEF Use
<1>7. NextAction(h) = [step |-> (step + 1) - 1, weight |-> useSequence[step + 1], tile |-> Fn!Min(free),
                       kind |-> "ProgramIntoFree", evicted |-> NoWeight]
  BY <1>3, NotHeld, Zenon DEF NextAction, Fn!BeladyAction, free
<1> QED BY <1>5, <1>6, <1>7, Zenon DEF Recorded

\* The two choose the same victim: their scores put the tiles in one order.
LEMMA SameVictim ==
  ASSUME IInv, Placing, NEW h, Holding(h), residency[Use(step)] = NoTile, tilesInUse = numTiles,
         policy = "Belady", NEW v \in Tiles, IsVictim(v)
  PROVE  Fn!Victim(useSequence, step + 1, h) = v
<1> DEFINE score(t) == Fn!NextUse(useSequence, h[t], (step + 1) + 1)
           best == {t \in DOMAIN h : \A u \in DOMAIN h : score(u) <= score(t)}
<1>1. TypeOK /\ ResidencyExact /\ NextUseExact /\ step \in Nat /\ step \in Steps
  BY StepIsPlacing DEF IInv, TypeOK
<1>2. Len(useSequence) \in Nat /\ Len(useSequence) <= MaxSteps
      /\ \A t \in Tiles : tiles[t].nextUse \in 0 .. MaxSteps /\ t < tilesInUse
  BY <1>1 DEF TypeOK, TileState, Tiles
<1>3. \A t \in Tiles : tiles[t].weight # Use(step)
  BY <1>1, StepIsPlacing DEF ResidencyExact, NoTile, Tiles
<1>4. ASSUME NEW t \in Tiles
      PROVE  FirstUseFrom(tiles[t].weight, step + 1, tiles[t].nextUse)
  <2>1. FirstUseFrom(tiles[t].weight, step, tiles[t].nextUse)
    BY <1>1, <1>2 DEF NextUseExact
  <2>2. tiles[t].nextUse # step \/ tiles[t].nextUse = NeverAgain
    BY <1>3, <2>1 DEF FirstUseFrom
  <2> QED BY <1>1, <1>2, <2>1, <2>2 DEF FirstUseFrom, Steps
<1>5. ASSUME NEW t \in Tiles
      PROVE  score(t) = IF tiles[t].nextUse \in Steps THEN tiles[t].nextUse + 1 ELSE Len(useSequence) + 1
  <2>1. h[t] = tiles[t].weight
    BY DEF Holding
  <2>2. tiles[t].nextUse \in 0 .. MaxSteps /\ step + 1 \in Nat
    BY <1>1, <1>2
  <2> QED BY <1>1, <1>4, <2>1, <2>2, SameNextUse
<1>6. \A t \in Tiles : tiles[t].nextUse \notin Steps => tiles[t].nextUse = MaxSteps
  BY <1>4 DEF FirstUseFrom, NeverAgain
<1> HIDE DEF score
<1>7. \A t, u \in Tiles : score(u) <= score(t) <=> tiles[u].nextUse <= tiles[t].nextUse
  BY <1>2, <1>5, <1>6 DEF Steps
<1>8. /\ \A u \in Tiles : ~ (tiles[u].nextUse > tiles[v].nextUse)
      /\ \A u \in 0 .. v - 1 : tiles[v].nextUse > tiles[u].nextUse
  BY DEF IsVictim, Beats
<1>9. DOMAIN h = Tiles
  BY HoldingDomain
<1>10. v \in best
  BY <1>2, <1>7, <1>8, <1>9
<1>11. ASSUME NEW u \in best PROVE v <= u
  <2>1. u \in Tiles /\ tiles[v].nextUse <= tiles[u].nextUse
    BY <1>7, <1>9
  <2>2. u \notin 0 .. v - 1
    BY <1>2, <1>8, <2>1
  <2> QED BY <2>1, <2>2 DEF Tiles
<1>12. best \in SUBSET Nat
  BY <1>9 DEF Tiles
<1>13. Fn!Victim(useSequence, step + 1, h) = Fn!Min(best)
  BY Zenon DEF Fn!Victim, score
<1> HIDE DEF best
<1>14. Fn!Min(best) \in best /\ Fn!Min(best) <= v
  BY <1>10, <1>12, Fn!MinIsLeast
<1>15. Fn!Min(best) = v
  <2>1. Fn!Min(best) \in Nat /\ v \in Nat /\ v <= Fn!Min(best)
    BY <1>10, <1>11, <1>12, <1>14
  <2> QED BY <1>14, <2>1
<1> QED BY <1>13, <1>15

LEMMA EvictionIsNext ==
  ASSUME IInv, Placing, NEW h, Holding(h), residency[Use(step)] = NoTile, tilesInUse = numTiles,
         policy = "Belady", NEW v \in Tiles, IsVictim(v)
  PROVE  NextAction(h) = Recorded("ProgramWithEviction", v, tiles[v].weight)
<1> DEFINE victim == Fn!Victim(useSequence, step + 1, h)
<1>1. TypeOK /\ ResidencyExact /\ step \in Nat
  BY DEF IInv, TypeOK
<1>2. Fn!Free(h) = {}
  <2>1. DOMAIN h = Tiles /\ \A t \in Tiles : h[t] = tiles[t].weight
    BY HoldingDomain DEF Holding
  <2>2. ASSUME NEW t \in Tiles PROVE tiles[t].weight # NoWeight
    <3>1. t < tilesInUse
      BY <1>1 DEF TypeOK, Tiles
    <3> QED BY <1>1, <3>1 DEF ResidencyExact
  <2> QED BY <2>1, <2>2 DEF Fn!Free
<1>3. victim = v
  BY SameVictim
<1>4. (step + 1) - 1 = step /\ useSequence[step + 1] = Use(step) /\ h[v] = tiles[v].weight
  BY <1>1 DEF Use, Holding
<1>5. NextAction(h) = [step |-> (step + 1) - 1, weight |-> useSequence[step + 1], tile |-> victim,
                       kind |-> "ProgramWithEviction", evicted |-> h[victim]]
  BY <1>2, NotHeld, Zenon DEF NextAction, Fn!BeladyAction
<1> HIDE DEF victim
<1> QED BY <1>3, <1>4, <1>5, Zenon DEF Recorded

\* A step of the function, put beside what the engine records.
LEMMA TakesNext ==
  ASSUME IInv, AgesExact, Placing, NEW h, Holding(h),
         NEW kind, NEW t \in Tiles, NEW victim, Record(kind, t, victim),
         NextAction(h) = Recorded(kind, t, victim),
         \A u \in Tiles : tiles'[u].weight = IF u = t THEN Use(step) ELSE tiles[u].weight
  PROVE  /\ actions' = Append(actions, NextAction(h)) /\ step' = step + 1
         /\ \A u \in Tiles : Fn!AfterAction(h, NextAction(h))[u] = tiles'[u].weight
<1>1. actions' = Append(actions, NextAction(h)) /\ step' = step + 1
  BY DEF Record, Recorded
<1>2. NextAction(h).tile = t /\ NextAction(h).weight = Use(step)
  BY DEF Recorded
<1>3. DOMAIN h = Tiles /\ \A u \in Tiles : h[u] = tiles[u].weight
  BY HoldingDomain DEF Holding
<1>4. Fn!AfterAction(h, NextAction(h)) = [h EXCEPT ![t] = Use(step)]
  BY <1>2, Zenon DEF Fn!AfterAction
<1>5. ASSUME NEW u \in Tiles PROVE [h EXCEPT ![t] = Use(step)][u] = tiles'[u].weight
  BY <1>3
<1> QED BY <1>1, <1>4, <1>5

LEMMA EngineTakesNext ==
  ASSUME IInv, AgesExact, policy = "Belady", NEW h, Holding(h),
         Reuse \/ ProgramIntoFree \/ \E v \in Tiles : ProgramWithEviction(v)
  PROVE  /\ actions' = Append(actions, NextAction(h)) /\ step' = step + 1
         /\ \A u \in Tiles : Fn!AfterAction(h, NextAction(h))[u] = tiles'[u].weight
<1>1. TypeOK /\ ResidencyExact
  BY DEF IInv
<1>2. \A t \in Tiles : tiles \in [Tiles -> TileState]
  BY <1>1 DEF TypeOK
<1>3. CASE Reuse
  <2> DEFINE t == residency[Use(step)]
  <2>1. Placing /\ t \in Tiles /\ tiles' = [tiles EXCEPT ![t] = Touched(t)]
    BY <1>1, <1>3, ReuseStep
  <2>2. t # NoTile /\ Record("Reuse", t, NoWeight)
    BY <1>3 DEF Reuse
  <2>3. Touched(t).weight = tiles[t].weight /\ tiles[t].weight = Use(step)
    BY <1>1, <2>1, TouchedTile, StepIsPlacing DEF ResidencyExact
  <2>4. \A u \in Tiles : tiles'[u].weight = IF u = t THEN Use(step) ELSE tiles[u].weight
    BY <1>2, <2>1, <2>3
  <2>5. NextAction(h) = Recorded("Reuse", t, NoWeight)
    BY <2>1, <2>2, ReuseIsNext
  <2> HIDE DEF t
  <2> QED BY <2>1, <2>2, <2>4, <2>5, TakesNext
<1>4. CASE ProgramIntoFree
  <2>1. /\ Placing /\ tilesInUse \in Tiles /\ residency[Use(step)] = NoTile
        /\ tiles' = [tiles EXCEPT ![tilesInUse] = Programmed]
    BY <1>1, <1>4, FreeStep
  <2>2. tilesInUse < numTiles /\ Record("ProgramIntoFree", tilesInUse, NoWeight)
    BY <1>4 DEF ProgramIntoFree
  <2>3. \A u \in Tiles : tiles'[u].weight = IF u = tilesInUse THEN Use(step) ELSE tiles[u].weight
    BY <1>1, <1>2, <2>1, TouchedTile
  <2>4. NextAction(h) = Recorded("ProgramIntoFree", tilesInUse, NoWeight)
    BY <2>1, <2>2, FreeIsNext
  <2> QED BY <2>1, <2>2, <2>3, <2>4, TakesNext
<1>5. ASSUME NEW v \in Tiles, ProgramWithEviction(v)
      PROVE  /\ actions' = Append(actions, NextAction(h)) /\ step' = step + 1
             /\ \A u \in Tiles : Fn!AfterAction(h, NextAction(h))[u] = tiles'[u].weight
  <2>1. /\ Placing /\ tilesInUse = numTiles /\ residency[Use(step)] = NoTile
        /\ tiles' = [tiles EXCEPT ![v] = Programmed]
    BY <1>1, <1>5, EvictionStep
  <2>2. IsVictim(v) /\ Record("ProgramWithEviction", v, tiles[v].weight)
    BY <1>5 DEF ProgramWithEviction
  <2>3. \A u \in Tiles : tiles'[u].weight = IF u = v THEN Use(step) ELSE tiles[u].weight
    BY <1>1, <1>2, <2>1, TouchedTile
  <2>4. NextAction(h) = Recorded("ProgramWithEviction", v, tiles[v].weight)
    BY <2>1, <2>2, EvictionIsNext
  <2> QED BY <2>1, <2>2, <2>3, <2>4, TakesNext
<1> QED BY <1>3, <1>4, <1>5

\* The engine has done what the function does, as far as it has come.
Computed == Fn!Belady(useSequence, numTiles)
IsCourse(held) == Fn!IsSchedule(Computed, held, useSequence, Weights, numTiles)
Follows(held) ==
  /\ \A t \in Tiles : held[step][t] = tiles[t].weight
  /\ \A j \in 1 .. step : actions[j] = Computed[j]
ComputedInv ==
  /\ IInv /\ AgesExact /\ ReturnedAtEnd
  /\ policy = "Belady" => \A held : IsCourse(held) => Follows(held)

LEMMA InitComputed == Init => ComputedInv
<1> SUFFICES ASSUME Init PROVE ComputedInv
  OBVIOUS
<1>1. IInv /\ AgesExact /\ ReturnedAtEnd
  BY InitIInv, InitAges DEF Init, ReturnedAtEnd
<1>2. step = 0 /\ \A t \in Tiles : tiles[t].weight = NoWeight
  BY DEF Init, FreeTile
<1>3. ASSUME NEW held, IsCourse(held) PROVE Follows(held)
  <2>1. held[0] = [t \in Tiles |-> NoWeight]
    BY <1>3 DEF IsCourse, Fn!IsSchedule, Fn!NothingHeld, Fn!TilesUpTo, Tiles
  <2> QED BY <1>2, <2>1 DEF Follows
<1> QED BY <1>1, <1>3 DEF ComputedInv

\* Every step keeps to it.
LEMMA FollowsStep ==
  ASSUME IInv, AgesExact, policy = "Belady", NEW held, IsCourse(held), Follows(held),
         Reuse \/ ProgramIntoFree \/ \E v \in Tiles : ProgramWithEviction(v),
         UNCHANGED <<useSequence, numTiles>>
  PROVE  Follows(held)'
<1> DEFINE h == held[step]
           i == step + 1
<1>1. Placing /\ TypeOK /\ step \in 0 .. Len(useSequence) /\ step \in Nat /\ Len(useSequence) \in Nat
  BY DEF IInv, TypeOK, Reuse, ProgramIntoFree, ProgramWithEviction
<1>2. i \in 1 .. Len(useSequence) /\ i - 1 = step
  BY <1>1 DEF Placing
<1>3. Holding(h)
  BY <1>1 DEF IsCourse, Fn!IsSchedule, Follows, Holding
<1>4. /\ actions' = Append(actions, NextAction(h)) /\ step' = i
      /\ \A u \in Tiles : Fn!AfterAction(h, NextAction(h))[u] = tiles'[u].weight
  <2> HIDE DEF h
  <2> QED BY <1>3, EngineTakesNext
<1>5. Computed[i] = NextAction(h) /\ held[i] = Fn!AfterAction(h, NextAction(h))
  BY <1>2 DEF IsCourse, Fn!IsSchedule, NextAction
<1>6. actions \in Seq(Actions) /\ Len(actions) = step
  BY DEF AgesExact
<1>7. Computed' = Computed /\ Tiles' = Tiles
  BY DEF Computed, Tiles
<1> HIDE DEF h
<1>8. \A j \in 1 .. i : actions'[j] = Computed[j]
  <2>1. actions'[i] = Computed[i]
    BY <1>4, <1>5, <1>6
  <2>2. ASSUME NEW j \in 1 .. step PROVE actions'[j] = Computed[j]
    BY <1>4, <1>6, <2>2 DEF Follows
  <2>3. \A j \in 1 .. i : j = i \/ j \in 1 .. step
    BY <1>1
  <2> HIDE DEF i
  <2> QED BY <2>1, <2>2, <2>3
<1>9. \A u \in Tiles : held[i][u] = tiles'[u].weight
  BY <1>4, <1>5
<1> QED BY <1>4, <1>7, <1>8, <1>9 DEF Follows

LEMMA ComputedStep == ComputedInv /\ [Next]_vars => ComputedInv'
<1> SUFFICES ASSUME ComputedInv, [Next]_vars PROVE ComputedInv'
  OBVIOUS
<1>1. IInv /\ AgesExact /\ IInv' /\ AgesExact'
  BY Inductive, AgesStep DEF ComputedInv
<1>2. UNCHANGED <<useSequence, numTiles, policy>>
  BY DEF Next, ReturnEmpty, SweepUse, Reuse, ProgramIntoFree, ProgramWithEviction, Return,
         Record, vars, problem
<1>3. UNCHANGED <<Computed, Tiles>> /\ \A held : IsCourse(held)' <=> IsCourse(held)
  BY <1>2 DEF Computed, Tiles, IsCourse
<1>4. CASE ReturnEmpty \/ SweepUse \/ Return \/ UNCHANGED vars
  <2>1. /\ UNCHANGED <<step, tiles, actions>>
        /\ returned' = returned \/ ~Solvable \/ step = Len(useSequence)
    BY <1>4 DEF ReturnEmpty, SweepUse, Return, vars, engine
  <2>2. ReturnedAtEnd'
    BY <1>2, <2>1 DEF ComputedInv, ReturnedAtEnd, Solvable
  <2>3. \A held : Follows(held)' <=> Follows(held)
    BY <1>3, <2>1 DEF Follows
  <2> QED BY <1>1, <1>2, <1>3, <2>2, <2>3 DEF ComputedInv
<1>5. CASE Reuse \/ ProgramIntoFree \/ \E v \in Tiles : ProgramWithEviction(v)
  <2>1. ReturnedAtEnd'
    <3>1. ~ returned /\ returned' = returned
      BY <1>5 DEF Reuse, ProgramIntoFree, ProgramWithEviction, Placing, Record
    <3> QED BY <3>1 DEF ReturnedAtEnd
  <2>2. ASSUME policy' = "Belady", NEW held, IsCourse(held)' PROVE Follows(held)'
    <3>1. policy = "Belady" /\ IsCourse(held) /\ Follows(held)
      BY <1>2, <1>3, <2>2 DEF ComputedInv
    <3> QED BY <1>1, <1>2, <1>5, <3>1, FollowsStep
  <2> QED BY <1>1, <2>1, <2>2 DEF ComputedInv
<1> QED BY <1>4, <1>5 DEF Next

LEMMA ComputedAtEnd == ComputedInv => EngineComputesBelady
<1> SUFFICES ASSUME ComputedInv, returned, policy = "Belady" PROVE actions = Computed
  BY SameFunction DEF EngineComputesBelady, Computed
<1>1. /\ TypeOK /\ CountsBounded /\ actions \in Seq(Actions) /\ Len(actions) = step
      /\ useSequence \in Seq(Weights) /\ numTiles \in Nat
  BY DEF ComputedInv, IInv, AgesExact, TypeOK
<1>2. CASE numTiles = 0
  <2>1. step = 0
    BY <1>1, <1>2 DEF CountsBounded, Solvable
  <2>2. Computed = <<>>
    BY <1>2, Zenon DEF Computed, Fn!Belady
  <2> QED BY <1>1, <2>1, <2>2
<1>3. CASE numTiles # 0
  <2>1. step = Len(useSequence)
    <3>1. CASE Solvable
      BY <3>1 DEF ComputedInv, ReturnedAtEnd
    <3>2. CASE ~ Solvable
      BY <1>1, <1>3, <3>2 DEF CountsBounded, Solvable
    <3> QED BY <3>1, <3>2
  <2>2. PICK held : IsCourse(held)
    BY <1>1, <1>3, Fn!BeladySchedule DEF IsCourse, Computed
  <2>3. Follows(held)
    BY <2>2 DEF ComputedInv
  <2>4. (\E X : Computed \in Seq(X)) /\ Len(Computed) = step
    BY <2>1, <2>2 DEF IsCourse, Fn!IsSchedule
  <2> QED BY <1>1, <2>3, <2>4 DEF Follows
<1> QED BY <1>2, <1>3

\* EngineComputesBelady: the schedule computePlacement returns under Belady,
\* ties and labels included, is the function the pass is modelled with.
THEOREM EngineIsFunction == Spec => []EngineComputesBelady
BY InitComputed, ComputedStep, ComputedAtEnd, PTL DEF Spec
=============================================================================
