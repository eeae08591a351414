--------------------------- MODULE SchedulesProofs ---------------------------
(***************************************************************************)
(* Lemmas that the other proofs cite.  First, induction over the naturals  *)
(* and definition by recursion, stated with sets and functions in place of *)
(* operators: a set of numbers has a least element, a set with 0 and every *)
(* successor has all, and a step function has the function that iterates   *)
(* it.  What the operators of the models compute, for inputs of every      *)
(* length, is proved from these.                                           *)
(*                                                                         *)
(* Then what the two schedules of Schedules are, for every use sequence    *)
(* and any number of tiles, for the theorems about the engine, the         *)
(* validator and the pass.                                                 *)
(***************************************************************************)
EXTENDS Schedules, FiniteSetTheorems, WellFoundedInduction, TLAPS

\* A set of naturals has a least member.
LEMMA Least ==
  ASSUME NEW T \in SUBSET Nat, T # {}
  PROVE  \E n \in T : \A m \in T : n <= m
<1>1. \E x \in T : \A y \in T : ~ (<<y, x>> \in OpToRel(<, Nat))
  BY NatLessThanWellFounded, WFMin
<1>2. \A x, y \in Nat : <<y, x>> \in OpToRel(<, Nat) <=> y < x
  BY DEF OpToRel
<1>3. \A x, y \in Nat : ~ (y < x) => x <= y
  OBVIOUS
<1> QED BY <1>1, <1>2, <1>3

\* Induction, on the set of the numbers for which the claim holds.
LEMMA SetInduction ==
  ASSUME NEW S, 0 \in S, \A n \in Nat : n \in S => n + 1 \in S
  PROVE  \A n \in Nat : n \in S
<1> SUFFICES ASSUME Nat \ S # {} PROVE FALSE
  OBVIOUS
<1>1. PICK n \in Nat \ S : \A m \in Nat \ S : n <= m
  BY Least
<1>2. n # 0 /\ n - 1 \in Nat
  BY <1>1
<1>3. n - 1 \in S
  BY <1>1, <1>2
<1> QED BY <1>1, <1>2, <1>3

\* The iterates of next up to n, from first.
Iterates(X, first, next, n) ==
  {g \in [0 .. n -> X] :
     g[0] = first /\ \A i \in 0 .. n - 1 : g[i + 1] = next[i + 1][g[i]]}

LEMMA IteratesAgree ==
  ASSUME NEW X, NEW first \in X, NEW next \in [Nat -> [X -> X]],
         NEW m \in Nat, NEW n \in Nat,
         NEW g \in Iterates(X, first, next, m), NEW h \in Iterates(X, first, next, n)
  PROVE  \A i \in Nat : i <= m /\ i <= n => g[i] = h[i]
<1> DEFINE S == {i \in Nat : i <= m /\ i <= n => g[i] = h[i]}
<1>1. 0 \in S
  BY DEF Iterates
<1>2. ASSUME NEW i \in Nat, i \in S PROVE i + 1 \in S
  <2> SUFFICES ASSUME i + 1 <= m, i + 1 <= n PROVE g[i + 1] = h[i + 1]
    OBVIOUS
  <2>1. i \in 0 .. m - 1 /\ i \in 0 .. n - 1 /\ g[i] = h[i]
    BY <1>2
  <2> QED BY <2>1 DEF Iterates
<1> HIDE DEF S
<1>3. \A i \in Nat : i \in S
  BY <1>1, <1>2, SetInduction
<1> QED BY <1>3 DEF S

LEMMA IteratesExist ==
  ASSUME NEW X, NEW first \in X, NEW next \in [Nat -> [X -> X]]
  PROVE  \A n \in Nat : Iterates(X, first, next, n) # {}
<1> DEFINE S == {n \in Nat : Iterates(X, first, next, n) # {}}
<1>1. 0 \in S
  <2>1. [i \in 0 .. 0 |-> first] \in Iterates(X, first, next, 0)
    BY DEF Iterates
  <2> QED BY <2>1
<1>2. ASSUME NEW n \in Nat, n \in S PROVE n + 1 \in S
  <2>1. PICK g : g \in Iterates(X, first, next, n)
    BY <1>2
  <2> DEFINE h == [i \in 0 .. n + 1 |-> IF i = n + 1 THEN next[n + 1][g[n]] ELSE g[i]]
  <2>2. g \in [0 .. n -> X] /\ g[0] = first /\ \A i \in 0 .. n - 1 : g[i + 1] = next[i + 1][g[i]]
    BY <2>1 DEF Iterates
  <2>3. h \in [0 .. n + 1 -> X] /\ h[0] = first
    BY <2>2
  <2>4. ASSUME NEW i \in 0 .. n PROVE h[i + 1] = next[i + 1][h[i]]
    <3>1. CASE i = n
      BY <3>1
    <3>2. CASE i # n
      BY <2>2, <3>2
    <3> QED BY <3>1, <3>2
  <2> HIDE DEF h
  <2>5. h \in Iterates(X, first, next, n + 1)
    BY <2>3, <2>4 DEF Iterates
  <2> QED BY <2>5
<1> HIDE DEF S
<1>3. \A n \in Nat : n \in S
  BY <1>1, <1>2, SetInduction
<1> QED BY <1>3 DEF S

\* f iterates next from first.
IsIteration(f, X, first, next) ==
  /\ f \in [Nat -> X]
  /\ f[0] = first
  /\ \A n \in Nat : f[n + 1] = next[n + 1][f[n]]
StepsOn(X) == [Nat -> [X -> X]]

\* Definition by recursion.
LEMMA Recursion ==
  ASSUME NEW X, NEW first \in X, NEW next \in StepsOn(X)
  PROVE  \E f : IsIteration(f, X, first, next)
<1> DEFINE it(n) == CHOOSE g : g \in Iterates(X, first, next, n)
           f == [n \in Nat |-> it(n)[n]]
<1> USE DEF StepsOn
<1>1. ASSUME NEW n \in Nat PROVE it(n) \in Iterates(X, first, next, n)
  <2>1. \E g : g \in Iterates(X, first, next, n)
    BY IteratesExist
  <2> QED BY <2>1
<1>2. f \in [Nat -> X]
  BY <1>1 DEF Iterates
<1>3. f[0] = first
  BY <1>1 DEF Iterates
<1>4. ASSUME NEW n \in Nat PROVE f[n + 1] = next[n + 1][f[n]]
  <2> HIDE DEF it
  <2>1. it(n + 1)[n + 1] = next[n + 1][it(n + 1)[n]]
    BY <1>1 DEF Iterates
  <2>2. it(n + 1)[n] = it(n)[n]
    BY <1>1, IteratesAgree
  <2> QED BY <2>1, <2>2
<1> HIDE DEF f
<1>5. IsIteration(f, X, first, next)
  BY <1>2, <1>3, <1>4 DEF IsIteration
<1> QED BY <1>5

\* A function on the numbers up to n, as the models write it.
IsRecursive(f, X, first, n, next) ==
  /\ f \in [0 .. n -> X]
  /\ f = [i \in 0 .. n |-> IF i = 0 THEN first ELSE next[i][f[i - 1]]]
StepsTo(n, X) == [1 .. n -> [X -> X]]

LEMMA BoundedRecursion ==
  ASSUME NEW X, NEW first \in X, NEW n \in Nat, NEW next \in StepsTo(n, X)
  PROVE  \E f : IsRecursive(f, X, first, n, next)
<1> DEFINE step == [i \in Nat |-> IF i \in 1 .. n THEN next[i] ELSE [x \in X |-> x]]
<1> USE DEF StepsTo
<1>1. step \in StepsOn(X)
  BY DEF StepsOn
<1>2. \A i \in 1 .. n : step[i] = next[i]
  OBVIOUS
<1> HIDE DEF step
<1>3. PICK g : IsIteration(g, X, first, step)
  BY <1>1, Recursion
<1> DEFINE f == [i \in 0 .. n |-> g[i]]
<1>4. ASSUME NEW i \in 0 .. n PROVE f[i] = IF i = 0 THEN first ELSE next[i][f[i - 1]]
  <2>1. CASE i = 0
    BY <1>3, <2>1 DEF IsIteration
  <2>2. CASE i # 0
    <3>1. i - 1 \in Nat /\ i \in 1 .. n /\ i - 1 \in 0 .. n /\ (i - 1) + 1 = i
      BY <2>2
    <3>2. g[i] = step[i][g[i - 1]]
      BY <1>3, <3>1 DEF IsIteration
    <3> QED BY <1>2, <2>2, <3>1, <3>2
  <2> QED BY <2>1, <2>2
<1>5. f \in [0 .. n -> X]
  BY <1>3 DEF IsIteration
<1> HIDE DEF f
<1>6. IsRecursive(f, X, first, n, next)
  BY <1>4, <1>5 DEF IsRecursive
<1> QED BY <1>6
-----------------------------------------------------------------------------
\* parts[i] is all of seqs up to its i-th sequence, in a row.
IsFlattening(parts, seqs, X) ==
  /\ parts \in [1 .. Len(seqs) -> Seq(X)]
  /\ parts[1] = seqs[1]
  /\ \A i \in 2 .. Len(seqs) : parts[i] = parts[i - 1] \o seqs[i]

\* What FlattenSeq computes, step by step.
LEMMA Flattening ==
  ASSUME NEW X, NEW seqs \in Seq(Seq(X)), Len(seqs) # 0
  PROVE  \E parts : IsFlattening(parts, seqs, X) /\ FlattenSeq(seqs) = parts[Len(seqs)]
<1> DEFINE n == Len(seqs)
           next == [i \in 1 .. n - 1 |-> [s \in Seq(X) |-> s \o seqs[i + 1]]]
           P(f) == f = [i \in 1 .. n |-> IF i = 1 THEN seqs[i] ELSE f[i - 1] \o seqs[i]]
<1>1. n \in Nat \ {0} /\ \A i \in 1 .. n : seqs[i] \in Seq(X)
  OBVIOUS
<1>2. next \in StepsTo(n - 1, Seq(X))
  BY <1>1 DEF StepsTo
<1>3. \A i \in 1 .. n - 1, s \in Seq(X) : next[i][s] = s \o seqs[i + 1]
  OBVIOUS
<1>4. seqs[1] \in Seq(X)
  BY <1>1
<1> HIDE DEF next, n
<1>5. PICK g : IsRecursive(g, Seq(X), seqs[1], n - 1, next)
  BY <1>1, <1>2, <1>4, BoundedRecursion
<1> DEFINE f == [i \in 1 .. n |-> g[i - 1]]
<1>6. ASSUME NEW i \in 1 .. n
      PROVE  f[i] = IF i = 1 THEN seqs[i] ELSE f[i - 1] \o seqs[i]
  <2>1. CASE i = 1
    BY <1>1, <1>5, <2>1 DEF IsRecursive
  <2>2. CASE i # 1
    <3>1. i - 1 \in 1 .. n - 1 /\ i - 1 \in 0 .. n - 1 /\ (i - 1) - 1 \in 0 .. n - 1 /\ i - 1 \in 1 .. n
      BY <1>1, <2>2
    <3>2. g[i - 1] = next[i - 1][g[(i - 1) - 1]] /\ g[(i - 1) - 1] \in Seq(X)
      <4> DEFINE m == i - 1
      <4>1. m \in 0 .. n - 1 /\ m # 0 /\ m - 1 \in 0 .. n - 1
        BY <3>1
      <4> HIDE DEF m, f
      <4>2. g[m] = next[m][g[m - 1]] /\ g[m - 1] \in Seq(X)
        BY <1>5, <4>1 DEF IsRecursive
      <4> QED BY <4>2 DEF m
    <3>3. next[i - 1][g[(i - 1) - 1]] = g[(i - 1) - 1] \o seqs[(i - 1) + 1]
      BY <1>3, <3>1, <3>2
    <3>4. (i - 1) + 1 = i
      BY <1>1
    <3> QED BY <2>2, <3>1, <3>2, <3>3, <3>4
  <2> QED BY <2>1, <2>2
<1>7. f \in [1 .. n -> Seq(X)]
  <2>1. \A i \in 1 .. n : i - 1 \in 0 .. n - 1
    BY <1>1
  <2> QED BY <1>5, <2>1 DEF IsRecursive
<1> HIDE DEF f
<1>8. P(f)
  BY <1>6, <1>7
<1>9. \E h : FlattenSeq(seqs) = h[n] /\ h = CHOOSE q : P(q)
  BY DEF FlattenSeq, n
<1> HIDE DEF P
<1>10. PICK h : FlattenSeq(seqs) = h[n] /\ P(h)
  BY <1>8, <1>9, Zenon
<1> USE DEF P
<1>11. h = [i \in 1 .. n |-> IF i = 1 THEN seqs[i] ELSE h[i - 1] \o seqs[i]]
  BY <1>10
<1> HIDE DEF P
<1> DEFINE S == {m \in Nat : m + 1 <= n => h[m + 1] \in Seq(X)}
<1>12. 0 \in S
  BY <1>1, <1>4, <1>11
<1>13. ASSUME NEW m \in Nat, m \in S PROVE m + 1 \in S
  <2> SUFFICES ASSUME (m + 1) + 1 <= n PROVE h[(m + 1) + 1] \in Seq(X)
    OBVIOUS
  <2>1. (m + 1) + 1 \in 1 .. n /\ (m + 1) + 1 # 1 /\ ((m + 1) + 1) - 1 = m + 1
    BY <1>1
  <2>2. h[m + 1] \in Seq(X)
    BY <1>1, <1>13, <2>1
  <2>3. h[(m + 1) + 1] = h[m + 1] \o seqs[(m + 1) + 1] /\ seqs[(m + 1) + 1] \in Seq(X)
    BY <1>1, <1>11, <2>1
  <2> QED BY <2>2, <2>3
<1> HIDE DEF S
<1>14. \A m \in Nat : m \in S
  BY <1>12, <1>13, SetInduction
<1>15. \A i \in 1 .. n : h[i] \in Seq(X)
  <2>1. \A i \in 1 .. n : i - 1 \in Nat /\ (i - 1) + 1 = i /\ i <= n
    BY <1>1
  <2>2. \A i \in 1 .. n : (i - 1) + 1 <= n => h[(i - 1) + 1] \in Seq(X)
    BY <1>14, <2>1 DEF S
  <2> QED BY <2>1, <2>2
<1>16. IsFlattening(h, seqs, X)
  <2>1. h \in [1 .. n -> Seq(X)]
    BY <1>11, <1>15
  <2>2. h[1] = seqs[1] /\ \A i \in 2 .. n : h[i] = h[i - 1] \o seqs[i]
    <3>1. 1 \in 1 .. n /\ \A i \in 2 .. n : i \in 1 .. n /\ i # 1
      BY <1>1
    <3> QED BY <1>11, <3>1
  <2> QED BY <2>1, <2>2 DEF IsFlattening, n
<1> QED BY <1>10, <1>16 DEF n

\* A flattened sequence is one, of the same elements.
LEMMA FlattenedSeq ==
  ASSUME NEW X, NEW seqs \in Seq(Seq(X))
  PROVE  FlattenSeq(seqs) \in Seq(X)
<1>1. CASE Len(seqs) = 0
  BY <1>1 DEF FlattenSeq
<1>2. CASE Len(seqs) # 0
  <2>1. PICK parts : IsFlattening(parts, seqs, X) /\ FlattenSeq(seqs) = parts[Len(seqs)]
    BY <1>2, Flattening
  <2>2. Len(seqs) \in 1 .. Len(seqs)
    BY <1>2
  <2> QED BY <2>1, <2>2 DEF IsFlattening
<1> QED BY <1>1, <1>2

\* What holds of every sequence and is kept by \o holds of all in a row.
LEMMA FlattenInduction ==
  ASSUME NEW X, NEW seqs \in Seq(Seq(X)), NEW P \in SUBSET Seq(X), <<>> \in P,
         \A i \in 1 .. Len(seqs) : seqs[i] \in P, \A s, t \in P : s \o t \in P
  PROVE  FlattenSeq(seqs) \in P
<1>1. CASE Len(seqs) = 0
  BY <1>1 DEF FlattenSeq
<1>2. CASE Len(seqs) # 0
  <2> DEFINE n == Len(seqs)
  <2>1. PICK parts : IsFlattening(parts, seqs, X) /\ FlattenSeq(seqs) = parts[n]
    BY <1>2, Flattening
  <2>2. n \in Nat \ {0} /\ \A i \in 1 .. n : seqs[i] \in P
    BY <1>2
  <2> HIDE DEF n
  <2>3. parts[1] = seqs[1] /\ \A i \in 2 .. n : parts[i] = parts[i - 1] \o seqs[i]
    BY <2>1 DEF IsFlattening, n
  <2> DEFINE S == {m \in Nat : m + 1 <= n => parts[m + 1] \in P}
  <2>4. 0 \in S
    BY <2>2, <2>3
  <2>5. ASSUME NEW m \in Nat, m \in S PROVE m + 1 \in S
    <3> SUFFICES ASSUME m + 1 + 1 <= n PROVE parts[m + 1 + 1] \in P
      OBVIOUS
    <3>1. m + 1 + 1 \in 2 .. n /\ m + 1 + 1 \in 1 .. n /\ (m + 1 + 1) - 1 = m + 1
      BY <2>2
    <3>2. parts[m + 1] \in P /\ seqs[m + 1 + 1] \in P
      BY <2>2, <2>5, <3>1
    <3>3. parts[m + 1] \o seqs[m + 1 + 1] \in P
      BY <3>2
    <3>4. parts[m + 1 + 1] = parts[m + 1] \o seqs[m + 1 + 1]
      BY <2>3, <3>1
    <3> QED BY <3>3, <3>4
  <2> HIDE DEF S
  <2>6. \A m \in Nat : m \in S
    BY <2>4, <2>5, SetInduction
  <2>7. n - 1 \in S /\ (n - 1) + 1 = n
    BY <2>2, <2>6
  <2> QED BY <2>1, <2>2, <2>7 DEF S
<1>3. Len(seqs) = 0 \/ Len(seqs) # 0
  OBVIOUS
<1> QED BY <1>1, <1>2, <1>3
-----------------------------------------------------------------------------
(* Belady.  held[i] is what the tiles hold after i uses. *)

TilesUpTo(n) == 0 .. n - 1
Holdings(W, n) == [TilesUpTo(n) -> W \cup {NoWeight}]
NothingHeld(n) == [t \in TilesUpTo(n) |-> NoWeight]
ActionsOf(seq, W, n) == {BeladyAction(seq, p[1], p[2]) : p \in (DOMAIN seq) \X Holdings(W, n)}
AfterAction(h, a) == [h EXCEPT ![a.tile] = a.weight]

\* The states of the recursion of Belady.
Runs(seq, W, n) == [held : Holdings(W, n), actions : Seq(ActionsOf(seq, W, n))]
RunStep(seq, i, s) ==
  LET a == BeladyAction(seq, i, s.held)
  IN [held |-> AfterAction(s.held, a), actions |-> Append(s.actions, a)]
RunStart(n) == [held |-> NothingHeld(n), actions |-> <<>>]

\* actions is the schedule, and held what the tiles hold as it goes.
IsSchedule(actions, held, seq, W, n) ==
  /\ actions \in Seq(ActionsOf(seq, W, n)) /\ Len(actions) = Len(seq)
  /\ held \in [0 .. Len(seq) -> Holdings(W, n)]
  /\ held[0] = NothingHeld(n)
  /\ \A i \in 1 .. Len(seq) :
       /\ actions[i] = BeladyAction(seq, i, held[i - 1])
       /\ held[i] = AfterAction(held[i - 1], actions[i])

LEMMA RunStepType ==
  ASSUME NEW W, NEW seq \in Seq(W), NEW n \in Nat, NEW i \in 1 .. Len(seq),
         NEW s \in Runs(seq, W, n)
  PROVE  RunStep(seq, i, s) \in Runs(seq, W, n)
<1> DEFINE a == BeladyAction(seq, i, s.held)
<1>1. s.held \in Holdings(W, n) /\ s.actions \in Seq(ActionsOf(seq, W, n))
  BY DEF Runs
<1>2. a \in ActionsOf(seq, W, n)
  <2>1. i \in DOMAIN seq
    OBVIOUS
  <2> DEFINE p == <<i, s.held>>
  <2>2. p \in (DOMAIN seq) \X Holdings(W, n) /\ a = BeladyAction(seq, p[1], p[2])
    BY <1>1, <2>1
  <2> HIDE DEF p, a
  <2> QED BY <2>2 DEF ActionsOf
<1>3. a.weight = seq[i]
  BY DEF BeladyAction
<1> HIDE DEF a
<1>4. AfterAction(s.held, a) \in Holdings(W, n)
  <2>1. a.weight \in W
    BY <1>3
  <2> QED BY <1>1, <2>1 DEF AfterAction, Holdings
<1>5. Append(s.actions, a) \in Seq(ActionsOf(seq, W, n))
  BY <1>1, <1>2
<1> QED BY <1>4, <1>5 DEF RunStep, Runs, a

\* The recursion exists, and Belady is where it ends.
IsRun(run, seq, W, n) ==
  /\ run \in [0 .. Len(seq) -> Runs(seq, W, n)]
  /\ run[0] = RunStart(n)
  /\ \A i \in 1 .. Len(seq) : run[i] = RunStep(seq, i, run[i - 1])

LEMMA BeladyRecursion ==
  ASSUME NEW W, NEW seq \in Seq(W), NEW n \in Nat \ {0}
  PROVE  \E run : IsRun(run, seq, W, n) /\ Belady(seq, n) = run[Len(seq)].actions
<1> DEFINE X == Runs(seq, W, n)
           m == Len(seq)
           next == [i \in 1 .. m |-> [s \in X |-> RunStep(seq, i, s)]]
           P(f) == f = [i \in 0 .. m |-> IF i = 0 THEN RunStart(n) ELSE RunStep(seq, i, f[i - 1])]
<1>1. m \in Nat
  OBVIOUS
<1>2. RunStart(n) \in X
  BY DEF RunStart, Runs, Holdings, NothingHeld
<1>3. \A i \in 1 .. m, s \in X : RunStep(seq, i, s) \in X
  BY RunStepType
<1> HIDE DEF X
<1>4. next \in StepsTo(m, X) /\ \A i \in 1 .. m, s \in X : next[i][s] = RunStep(seq, i, s)
  BY <1>3 DEF StepsTo
<1> HIDE DEF m, next
<1>5. PICK g : IsRecursive(g, X, RunStart(n), m, next)
  BY <1>1, <1>2, <1>4, BoundedRecursion
<1>6. \A i \in 0 .. m : i = 0 \/ (i \in 1 .. m /\ i - 1 \in 0 .. m)
  BY <1>1
<1>7. P(g)
  <2>1. ASSUME NEW i \in 0 .. m, i # 0 PROVE next[i][g[i - 1]] = RunStep(seq, i, g[i - 1])
    BY <1>4, <1>5, <1>6, <2>1 DEF IsRecursive
  <2> QED BY <1>5, <2>1 DEF IsRecursive
<1>8. \E h : Belady(seq, n) = h[m].actions /\ h = CHOOSE f : P(f)
  BY DEF Belady, m, RunStep, RunStart, NothingHeld, TilesUpTo, AfterAction
<1> HIDE DEF P
<1>9. PICK h : Belady(seq, n) = h[m].actions /\ P(h)
  BY <1>7, <1>8, Zenon
<1> USE DEF P
<1>10. h = [i \in 0 .. m |-> IF i = 0 THEN RunStart(n) ELSE RunStep(seq, i, h[i - 1])]
  BY <1>9
<1> HIDE DEF P
<1>11. h[0] = RunStart(n) /\ \A i \in 1 .. m : h[i] = RunStep(seq, i, h[i - 1])
  <2>1. 0 \in 0 .. m /\ \A i \in 1 .. m : i \in 0 .. m /\ i # 0
    BY <1>1
  <2> QED BY <1>10, <2>1
<1> DEFINE S == {i \in Nat : i <= m => h[i] \in X}
<1>12. 0 \in S
  BY <1>2, <1>11
<1>13. ASSUME NEW i \in Nat, i \in S PROVE i + 1 \in S
  <2> SUFFICES ASSUME i + 1 <= m PROVE h[i + 1] \in X
    OBVIOUS
  <2>1. i + 1 \in 1 .. m /\ (i + 1) - 1 = i /\ h[i] \in X
    BY <1>1, <1>13
  <2> QED BY <1>3, <1>11, <2>1
<1> HIDE DEF S
<1>14. \A i \in Nat : i \in S
  BY <1>12, <1>13, SetInduction
<1>15. h \in [0 .. m -> X]
  BY <1>1, <1>10, <1>14 DEF S
<1>16. IsRun(h, seq, W, n)
  BY <1>11, <1>15 DEF m, X, IsRun
<1> QED BY <1>9, <1>16 DEF m

\* The schedule of Belady, action by action.
LEMMA BeladySchedule ==
  ASSUME NEW W, NEW seq \in Seq(W), NEW n \in Nat \ {0}
  PROVE  \E held : IsSchedule(Belady(seq, n), held, seq, W, n)
<1>0. PICK run : IsRun(run, seq, W, n) /\ Belady(seq, n) = run[Len(seq)].actions
  BY BeladyRecursion
<1>1. /\ run \in [0 .. Len(seq) -> Runs(seq, W, n)] /\ run[0] = RunStart(n)
      /\ \A i \in 1 .. Len(seq) : run[i] = RunStep(seq, i, run[i - 1])
  BY <1>0 DEF IsRun
<1> DEFINE m == Len(seq)
           Y == ActionsOf(seq, W, n)
           held == [i \in 0 .. m |-> run[i].held]
           act(i) == BeladyAction(seq, i, held[i - 1])
           S == {i \in Nat : i <= m => /\ Len(run[i].actions) = i
                                       /\ \A j \in 1 .. i : run[i].actions[j] = act(j)}
<1>2. m \in Nat /\ \A i \in 1 .. m : i \in 0 .. m /\ i - 1 \in 0 .. m
  OBVIOUS
<1>3. \A i \in 0 .. m : run[i].held \in Holdings(W, n) /\ run[i].actions \in Seq(Y)
  BY <1>1 DEF Runs
<1>4. \A i \in 1 .. m : /\ run[i].held = AfterAction(held[i - 1], act(i))
                        /\ run[i].actions = Append(run[i - 1].actions, act(i))
  <2> SUFFICES ASSUME NEW i \in 1 .. m
               PROVE  /\ run[i].held = AfterAction(held[i - 1], act(i))
                      /\ run[i].actions = Append(run[i - 1].actions, act(i))
    OBVIOUS
  <2>1. run[i] = RunStep(seq, i, run[i - 1]) /\ held[i - 1] = run[i - 1].held
    BY <1>1, <1>2
  <2> QED BY <2>1 DEF RunStep
<1>5. held[0] = NothingHeld(n) /\ run[0].actions = <<>>
  BY <1>1, <1>2 DEF RunStart
<1>6. held \in [0 .. m -> Holdings(W, n)]
  BY <1>3
<1>7. \A i \in 0 .. m : held[i] = run[i].held
  OBVIOUS
<1> HIDE DEF held, act, m, Y
<1>8. 0 \in S
  BY <1>5
<1>9. ASSUME NEW i \in Nat, i \in S PROVE i + 1 \in S
  <2> SUFFICES ASSUME i + 1 <= m
               PROVE  /\ Len(run[i + 1].actions) = i + 1
                      /\ \A j \in 1 .. i + 1 : run[i + 1].actions[j] = act(j)
    OBVIOUS
  <2>1. i + 1 \in 1 .. m /\ i \in 0 .. m /\ (i + 1) - 1 = i
    BY <1>2
  <2>2. /\ run[i + 1].actions = Append(run[i].actions, act(i + 1))
        /\ run[i].actions \in Seq(Y) /\ Len(run[i].actions) = i
        /\ \A j \in 1 .. i : run[i].actions[j] = act(j)
    <3>1. run[i + 1].actions = Append(run[(i + 1) - 1].actions, act(i + 1))
      BY <1>4, <2>1
    <3>2. i <= m
      BY <1>2, <2>1
    <3> QED BY <1>3, <1>9, <2>1, <3>1, <3>2
  <2>3. ASSUME NEW j \in 1 .. i + 1 PROVE run[i + 1].actions[j] = act(j)
    BY <2>2
  <2> QED BY <2>2, <2>3
<1> HIDE DEF S
<1>10. \A i \in Nat : i \in S
  BY <1>8, <1>9, SetInduction
<1>11. Len(run[m].actions) = m /\ \A j \in 1 .. m : run[m].actions[j] = act(j)
  BY <1>2, <1>10 DEF S
<1>12. IsSchedule(run[m].actions, held, seq, W, n)
  <2>1. m \in 0 .. m /\ run[m].actions \in Seq(Y)
    BY <1>2, <1>3
  <2>2. \A i \in 1 .. m : /\ run[m].actions[i] = act(i)
                          /\ held[i] = AfterAction(held[i - 1], run[m].actions[i])
    BY <1>2, <1>4, <1>7, <1>11
  <2> QED BY <1>5, <1>6, <1>11, <2>1, <2>2 DEF IsSchedule, m, act, Y
<1>13. Belady(seq, n) = run[m].actions
  BY <1>0 DEF m
<1> HIDE DEF m, held, act, Y
<1> QED BY <1>12, <1>13
-----------------------------------------------------------------------------
(* On a single tile. *)

\* A tile is only ever programmed anew, for the first use and after another.
OneTileAction(seq, i) ==
  LET program == i # 1 /\ seq[i - 1] # seq[i] IN
    [step |-> i - 1, weight |-> seq[i], tile |-> 0,
     kind |-> IF i = 1 THEN "ProgramIntoFree"
              ELSE IF program THEN "ProgramWithEviction" ELSE "Reuse",
     evicted |-> IF program THEN seq[i - 1] ELSE NoWeight]

LEMMA MinOfOne == Min({0}) = 0
BY DEF Min

\* The action, by what the tile holds.
LEMMA OneTileChoice ==
  ASSUME NEW W, NEW seq \in Seq(W), NoWeight \notin W, NEW i \in 1 .. Len(seq),
         NEW h \in Holdings(W, 1)
  PROVE  BeladyAction(seq, i, h) =
           [step |-> i - 1, weight |-> seq[i], tile |-> 0,
            kind |-> IF h[0] = seq[i] THEN "Reuse"
                     ELSE IF h[0] = NoWeight THEN "ProgramIntoFree" ELSE "ProgramWithEviction",
            evicted |-> IF h[0] = seq[i] THEN NoWeight ELSE h[0]]
<1>1. TilesUpTo(1) = {0} /\ DOMAIN h = {0}
  BY DEF TilesUpTo, Holdings
<1>2. seq[i] \in W
  OBVIOUS
<1> DEFINE on == {t \in DOMAIN h : h[t] = seq[i]}
<1>3. on = IF h[0] = seq[i] THEN {0} ELSE {}
  BY <1>1
<1>4. Free(h) = IF h[0] = NoWeight THEN {0} ELSE {}
  BY <1>1 DEF Free
<1>5. Victim(seq, i, h) = 0
  <2> DEFINE next(t) == NextUse(seq, h[t], i + 1)
             best == {t \in DOMAIN h : \A u \in DOMAIN h : next(u) <= next(t)}
  <2>1. UsesFrom(seq, h[0], i + 1) \subseteq Nat
    BY DEF UsesFrom
  <2>2. next(0) \in Nat
    <3>1. CASE UsesFrom(seq, h[0], i + 1) = {}
      BY <3>1 DEF NextUse
    <3>2. CASE UsesFrom(seq, h[0], i + 1) # {}
      <4>1. \E n \in UsesFrom(seq, h[0], i + 1) : \A m \in UsesFrom(seq, h[0], i + 1) : n <= m
        BY <2>1, <3>2, Least
      <4>2. Min(UsesFrom(seq, h[0], i + 1)) \in UsesFrom(seq, h[0], i + 1)
        BY <4>1 DEF Min
      <4> QED BY <2>1, <3>2, <4>2 DEF NextUse
    <3> QED BY <3>1, <3>2
  <2> HIDE DEF next
  <2>3. best = {0}
    BY <1>1, <2>2
  <2>4. Victim(seq, i, h) = Min(best)
    BY DEF Victim, next
  <2> QED BY <2>3, <2>4, MinOfOne
<1>6. CASE h[0] = seq[i]
  BY <1>3, <1>6, MinOfOne DEF BeladyAction
<1>7. CASE h[0] # seq[i] /\ h[0] = NoWeight
  BY <1>3, <1>4, <1>7, MinOfOne DEF BeladyAction
<1>8. CASE h[0] # seq[i] /\ h[0] # NoWeight
  BY <1>3, <1>4, <1>5, <1>8 DEF BeladyAction
<1> QED BY <1>6, <1>7, <1>8

LEMMA OneTile ==
  ASSUME NEW W, NEW seq \in Seq(W), NoWeight \notin W
  PROVE  /\ Len(Belady(seq, 1)) = Len(seq)
         /\ DOMAIN Belady(seq, 1) = 1 .. Len(seq)
         /\ \A i \in 1 .. Len(seq) : Belady(seq, 1)[i] = OneTileAction(seq, i)
<1> DEFINE m == Len(seq)
           B == Belady(seq, 1)
<1>1. PICK held : IsSchedule(B, held, seq, W, 1)
  BY BeladySchedule
<1>2. m \in Nat /\ Len(B) = m /\ DOMAIN B = 1 .. m
  BY <1>1 DEF IsSchedule
<1> HIDE DEF B, m
<1>3. \A i \in 1 .. m : i - 1 \in 0 .. m
  BY <1>2
<1>4. \A i \in 0 .. m : held[i] \in Holdings(W, 1)
  BY <1>1 DEF IsSchedule, m
<1>5. \A i \in 1 .. m :
        /\ B[i].tile = 0 /\ B[i].weight = seq[i]
        /\ B[i] = [step |-> i - 1, weight |-> seq[i], tile |-> 0,
            kind |-> IF held[i - 1][0] = seq[i] THEN "Reuse"
                     ELSE IF held[i - 1][0] = NoWeight THEN "ProgramIntoFree" ELSE "ProgramWithEviction",
            evicted |-> IF held[i - 1][0] = seq[i] THEN NoWeight ELSE held[i - 1][0]]
  <2> SUFFICES ASSUME NEW i \in 1 .. m
               PROVE B[i] = [step |-> i - 1, weight |-> seq[i], tile |-> 0,
                  kind |-> IF held[i - 1][0] = seq[i] THEN "Reuse"
                           ELSE IF held[i - 1][0] = NoWeight THEN "ProgramIntoFree" ELSE "ProgramWithEviction",
                  evicted |-> IF held[i - 1][0] = seq[i] THEN NoWeight ELSE held[i - 1][0]]
    OBVIOUS
  <2>1. B[i] = BeladyAction(seq, i, held[i - 1])
    BY <1>1 DEF IsSchedule, m
  <2>2. i \in 1 .. Len(seq) /\ held[i - 1] \in Holdings(W, 1)
    BY <1>3, <1>4 DEF m
  <2> QED BY <2>1, <2>2, OneTileChoice
<1>6. ASSUME NEW i \in 1 .. m PROVE held[i][0] = seq[i]
  <2>1. held[i] = AfterAction(held[i - 1], B[i])
    BY <1>1 DEF IsSchedule, m
  <2>2. held[i - 1] \in Holdings(W, 1) /\ 0 \in TilesUpTo(1)
    BY <1>3, <1>4 DEF TilesUpTo
  <2> QED BY <1>5, <2>1, <2>2 DEF AfterAction, Holdings
<1>7. held[0][0] = NoWeight
  <2>1. 0 \in TilesUpTo(1)
    BY DEF TilesUpTo
  <2> QED BY <1>1, <2>1 DEF IsSchedule, NothingHeld
<1>8. ASSUME NEW i \in 1 .. m PROVE B[i] = OneTileAction(seq, i)
  <2>1. \A j \in 1 .. m : seq[j] # NoWeight
    BY DEF m
  <2>2. CASE i = 1
    BY <1>5, <1>7, <2>1, <2>2 DEF OneTileAction
  <2>3. CASE i # 1
    <3>1. i - 1 \in 1 .. m
      BY <1>2, <2>3
    <3>2. held[i - 1][0] = seq[i - 1] /\ seq[i - 1] # NoWeight
      BY <1>6, <2>1, <3>1
    <3> HIDE <1>6
    <3>3. CASE seq[i - 1] = seq[i]
      BY <1>5, <2>3, <3>2, <3>3 DEF OneTileAction
    <3>4. CASE seq[i - 1] # seq[i]
      BY <1>5, <2>3, <3>2, <3>4 DEF OneTileAction
    <3> QED BY <3>3, <3>4
  <2> QED BY <2>2, <2>3
<1> QED BY <1>2, <1>8 DEF B, m
-----------------------------------------------------------------------------
(* What a sequence holds at some of its positions. *)

\* The i-th position of at, in the sequence kept.
LEMMA NthSteps ==
  ASSUME NEW n \in Nat, NEW at \in SUBSET (1 .. n)
  PROVE  /\ Nth(at, 0) = 0
         /\ \A i \in 0 .. n - 1 : Nth(at, i + 1) = Nth(at, i) + (IF i + 1 \in at THEN 1 ELSE 0)
         /\ \A i \in 0 .. n : Nth(at, i) \in Nat
         /\ Nth(at, n) = Cardinality(at)
<1>0. \A j \in at : j \in Int /\ 1 <= j /\ j <= n
  OBVIOUS
<1>1. IsFiniteSet(at) /\ \A i \in Int : IsFiniteSet({j \in at : j <= i})
  <2>1. IsFiniteSet(at)
    <3>1. IsFiniteSet(1 .. n)
      BY FS_Interval
    <3> QED BY <3>1, FS_Subset
  <2>2. \A i \in Int : {j \in at : j <= i} \subseteq at
    OBVIOUS
  <2> QED BY <2>1, <2>2, FS_Subset
<1>2. {j \in at : j <= 0} = {} /\ {j \in at : j <= n} = at
  <2>1. \A j \in at : ~ (j <= 0) /\ j <= n
    BY <1>0
  <2> QED BY <2>1
<1>3. \A i \in Int : Nth(at, i) \in Nat
  BY <1>1, FS_CardinalityType DEF Nth
<1>4. ASSUME NEW i \in 0 .. n - 1
      PROVE  Nth(at, i + 1) = Nth(at, i) + (IF i + 1 \in at THEN 1 ELSE 0)
  <2>1. CASE i + 1 \in at
    <3>1. {j \in at : j <= i + 1} = {j \in at : j <= i} \cup {i + 1} /\ i + 1 \notin {j \in at : j <= i}
      <4>1. \A j \in at : j <= i + 1 <=> j <= i \/ j = i + 1
        BY <1>0
      <4>2. ~ (i + 1 <= i)
        OBVIOUS
      <4> QED BY <2>1, <4>1, <4>2
    <3>2. Cardinality({j \in at : j <= i} \cup {i + 1}) = Cardinality({j \in at : j <= i}) + 1
      <4> DEFINE T == {j \in at : j <= i}
      <4>1. IsFiniteSet(T) /\ i + 1 \notin T
        BY <1>1, <3>1
      <4> HIDE DEF T
      <4>2. Cardinality(T \cup {i + 1}) = Cardinality(T) + 1
        BY <4>1, FS_AddElement
      <4> QED BY <4>2 DEF T
    <3> QED BY <2>1, <3>1, <3>2 DEF Nth
  <2>2. CASE i + 1 \notin at
    <3>1. {j \in at : j <= i + 1} = {j \in at : j <= i}
      <4>1. \A j \in at : j <= i + 1 <=> j <= i
        BY <1>0, <2>2
      <4> QED BY <4>1
    <3> QED BY <1>3, <2>2, <3>1 DEF Nth
  <2> QED BY <2>1, <2>2
<1> QED BY <1>2, <1>3, <1>4, FS_EmptySet DEF Nth

\* Every number up to their count is one of them.
LEMMA NthCovers ==
  ASSUME NEW n \in Nat, NEW at \in SUBSET (1 .. n)
  PROVE  \A k \in 1 .. Cardinality(at) : \E i \in at : Nth(at, i) = k
<1> DEFINE S == {m \in Nat : m <= n => \A k \in 1 .. Nth(at, m) : \E i \in at : Nth(at, i) = k}
<1>1. /\ Nth(at, 0) = 0 /\ Nth(at, n) = Cardinality(at)
      /\ \A i \in 0 .. n - 1 : Nth(at, i + 1) = Nth(at, i) + (IF i + 1 \in at THEN 1 ELSE 0)
      /\ \A i \in 0 .. n : Nth(at, i) \in Nat
  BY NthSteps
<1>2. 0 \in S
  BY <1>1
<1>3. ASSUME NEW m \in Nat, m \in S PROVE m + 1 \in S
  <2> SUFFICES ASSUME m + 1 <= n, NEW k \in 1 .. Nth(at, m + 1) PROVE \E i \in at : Nth(at, i) = k
    OBVIOUS
  <2>1. m \in 0 .. n - 1 /\ m \in 0 .. n /\ m <= n
    OBVIOUS
  <2>2. Nth(at, m + 1) = Nth(at, m) + (IF m + 1 \in at THEN 1 ELSE 0) /\ Nth(at, m) \in Nat
    BY <1>1, <2>1
  <2>3. k \in 1 .. Nth(at, m) \/ (m + 1 \in at /\ k = Nth(at, m + 1))
    BY <2>2
  <2> QED BY <1>3, <2>1, <2>3
<1> HIDE DEF S
<1>4. \A m \in Nat : m \in S
  BY <1>2, <1>3, SetInduction
<1> QED BY <1>1, <1>4 DEF S

\* Positions are counted in order.
LEMMA NthGrows ==
  ASSUME NEW n \in Nat, NEW at \in SUBSET (1 .. n), NEW i \in at, NEW j \in 0 .. n, j < i
  PROVE  Nth(at, j) < Nth(at, i)
<1> DEFINE T(k) == {m \in at : m <= k}
<1>1. IsFiniteSet(at)
  <2>1. IsFiniteSet(1 .. n)
    BY FS_Interval
  <2> QED BY <2>1, FS_Subset
<1>2. i \in Int /\ j \in Int /\ \A m \in at : m \in Int
  OBVIOUS
<1>3. T(j) \subseteq T(i) /\ i \in T(i) /\ i \notin T(j) /\ T(i) \subseteq at /\ T(j) \subseteq at
  <2>1. \A m \in at : m <= j => m <= i
    BY <1>2
  <2>2. i <= i /\ ~ (i <= j)
    BY <1>2
  <2> QED BY <2>1, <2>2
<1>4. Nth(at, j) = Cardinality(T(j)) /\ Nth(at, i) = Cardinality(T(i))
  BY DEF Nth
<1> HIDE DEF T
<1>5. IsFiniteSet(T(i)) /\ IsFiniteSet(T(j)) /\ T(i) # T(j)
  BY <1>1, <1>3, FS_Subset
<1>6. Cardinality(T(i)) \in Nat /\ Cardinality(T(j)) \in Nat
  BY <1>5, FS_CardinalityType
<1>7. Cardinality(T(j)) <= Cardinality(T(i)) /\ Cardinality(T(i)) # Cardinality(T(j))
  BY <1>3, <1>5, FS_Subset
<1> QED BY <1>4, <1>6, <1>7

LEMMA KeptSequence ==
  ASSUME NEW X, NEW seq \in Seq(X), NEW at \in SUBSET (1 .. Len(seq))
  PROVE  /\ Kept(seq, at) \in Seq(X)
         /\ Len(Kept(seq, at)) = Cardinality(at)
         /\ \A i \in at : /\ Nth(at, i) \in 1 .. Cardinality(at)
                          /\ Kept(seq, at)[Nth(at, i)] = seq[i]
<1> DEFINE n == Len(seq)
           seqs == [i \in 1 .. n |-> IF i \in at THEN <<seq[i]>> ELSE <<>>]
<1>1. n \in Nat /\ DOMAIN seq = 1 .. n /\ at \subseteq 1 .. n
  OBVIOUS
<1>2. \A i \in 1 .. n : seqs[i] = (IF i \in at THEN <<seq[i]>> ELSE <<>>) /\ seqs[i] \in Seq(X)
  OBVIOUS
<1>3. seqs \in Seq(Seq(X)) /\ Len(seqs) = n
  BY <1>1, <1>2
<1>4. Kept(seq, at) = FlattenSeq(seqs)
  BY <1>1 DEF Kept
<1> HIDE DEF n, seqs
<1>5. Kept(seq, at) \in Seq(X)
  BY <1>3, <1>4, FlattenedSeq
<1>6. CASE n = 0
  <2>1. at = {} /\ Len(Kept(seq, at)) = 0
    BY <1>1, <1>3, <1>4, <1>6 DEF FlattenSeq
  <2> QED BY <1>5, <2>1, FS_EmptySet
<1>7. CASE n # 0
  <2>1. PICK parts : IsFlattening(parts, seqs, X) /\ FlattenSeq(seqs) = parts[n]
    BY <1>3, <1>7, Flattening
  <2>2. /\ parts \in [1 .. n -> Seq(X)] /\ parts[1] = seqs[1]
        /\ \A i \in 2 .. n : parts[i] = parts[i - 1] \o seqs[i]
    BY <1>3, <2>1 DEF IsFlattening
  <2> DEFINE Q(i) == /\ Len(parts[i]) = Nth(at, i)
                     /\ \A j \in at : j <= i => /\ Nth(at, j) \in 1 .. Nth(at, i)
                                                /\ parts[i][Nth(at, j)] = seq[j]
             S == {i \in Nat : i + 1 <= n => Q(i + 1)}
  <2>3. /\ Nth(at, 0) = 0 /\ Nth(at, n) = Cardinality(at)
        /\ \A i \in 0 .. n - 1 : Nth(at, i + 1) = Nth(at, i) + (IF i + 1 \in at THEN 1 ELSE 0)
        /\ \A i \in 0 .. n : Nth(at, i) \in Nat
    BY <1>1, NthSteps
  <2>4. 0 \in S
    <3>1. 1 \in 1 .. n /\ 0 \in 0 .. n - 1
      BY <1>1, <1>7
    <3>2. Nth(at, 1) = (IF 1 \in at THEN 1 ELSE 0)
      <4>1. Nth(at, 0 + 1) = Nth(at, 0) + (IF 0 + 1 \in at THEN 1 ELSE 0)
        BY <2>3, <3>1
      <4> QED BY <2>3, <4>1
    <3>3. parts[1] = (IF 1 \in at THEN <<seq[1]>> ELSE <<>>)
      BY <1>2, <2>2, <3>1
    <3>4. \A j \in at : j <= 1 => j = 1
      BY <1>1
    <3>5. Q(1)
      BY <3>2, <3>3, <3>4
    <3> QED BY <3>5
  <2>5. ASSUME NEW i \in Nat, i \in S PROVE i + 1 \in S
    <3> SUFFICES ASSUME (i + 1) + 1 <= n PROVE Q((i + 1) + 1)
      OBVIOUS
    <3> DEFINE k == i + 1
    <3>1. Q(k) /\ k \in 1 .. n /\ k + 1 \in 2 .. n /\ k \in 0 .. n - 1 /\ (k + 1) - 1 = k
      BY <1>1, <2>5
    <3> HIDE DEF Q, k
    <3>2. parts[k + 1] = parts[k] \o seqs[k + 1] /\ parts[k] \in Seq(X) /\ k + 1 \in 1 .. n
      <4>1. parts[k + 1] = parts[(k + 1) - 1] \o seqs[k + 1]
        BY <2>2, <3>1
      <4> QED BY <1>1, <2>2, <3>1, <4>1
    <3> USE DEF Q
    <3>3. Nth(at, k) \in Nat
      BY <2>3, <3>1
    <3>4. \A j \in at : j <= k + 1 => j <= k \/ j = k + 1
      BY <1>1, <3>1
    <3>7. Nth(at, k + 1) = Nth(at, k) + (IF k + 1 \in at THEN 1 ELSE 0)
      BY <2>3, <3>1
    <3>8. seqs[k + 1] = (IF k + 1 \in at THEN <<seq[k + 1]>> ELSE <<>>)
      BY <1>2, <3>2
    <3>5. CASE k + 1 \in at
      <4>1. seqs[k + 1] = <<seq[k + 1]>> /\ seq[k + 1] \in X /\ Nth(at, k + 1) = Nth(at, k) + 1
        BY <3>2, <3>5, <3>7, <3>8 DEF n
      <4>2. /\ Len(parts[k + 1]) = Nth(at, k) + 1
            /\ parts[k + 1][Nth(at, k) + 1] = seq[k + 1]
            /\ \A m \in 1 .. Nth(at, k) : parts[k + 1][m] = parts[k][m]
        <5> HIDE DEF S
        <5>1. Len(parts[k]) = Nth(at, k)
          BY <3>1
        <5>2. parts[k + 1] = Append(parts[k], seq[k + 1])
          BY <3>2, <4>1
        <5> HIDE DEF Q
        <5> QED BY <3>2, <5>1, <5>2
      <4>3. ASSUME NEW j \in at, j <= k + 1
            PROVE  Nth(at, j) \in 1 .. Nth(at, k + 1) /\ parts[k + 1][Nth(at, j)] = seq[j]
        <5>1. CASE j = k + 1
          BY <3>3, <4>1, <4>2, <5>1
        <5>2. CASE j <= k
          <6>1. Nth(at, j) \in 1 .. Nth(at, k) /\ parts[k][Nth(at, j)] = seq[j]
            BY <3>1, <5>2
          <6> QED BY <3>3, <4>1, <4>2, <6>1
        <5> QED BY <3>4, <4>3, <5>1, <5>2
      <4> QED BY <4>1, <4>2, <4>3 DEF k
    <3>6. CASE k + 1 \notin at
      <4>1. seqs[k + 1] = <<>> /\ Nth(at, k + 1) = Nth(at, k)
        BY <3>3, <3>6, <3>7, <3>8
      <4>2. parts[k + 1] = parts[k]
        BY <3>2, <4>1
      <4>3. \A j \in at : j <= k + 1 => j <= k
        BY <3>4, <3>6
      <4> QED BY <3>1, <4>1, <4>2, <4>3 DEF k
    <3> QED BY <3>5, <3>6
  <2> HIDE DEF S, Q
  <2>6. \A i \in Nat : i \in S
    BY <2>4, <2>5, SetInduction
  <2>7. Q(n)
    <3>1. n - 1 \in Nat /\ (n - 1) + 1 = n /\ n <= n
      BY <1>1, <1>7
    <3> QED BY <2>6, <3>1 DEF S
  <2>8. \A j \in at : j <= n
    BY <1>1
  <2> QED BY <1>4, <1>5, <2>1, <2>3, <2>7, <2>8 DEF Q
<1> QED BY <1>6, <1>7
-----------------------------------------------------------------------------
(* Pin-and-stream: the order in which weights are given a tile of their own. *)

LEMMA MinIsLeast ==
  ASSUME NEW T \in SUBSET Nat, T # {}
  PROVE  Min(T) \in T /\ \A m \in T : Min(T) <= m
<1>1. \E n \in T : \A m \in T : n <= m
  BY Least
<1> QED BY <1>1 DEF Min

LEMMA MaxIsGreatest ==
  ASSUME NEW n \in Nat, NEW T \in SUBSET (1 .. n), T # {}
  PROVE  Max(T) \in T /\ \A m \in T : m <= Max(T)
<1> DEFINE D == {n - m : m \in T}
<1>1. D \in SUBSET Nat /\ D # {}
  <2>1. \A m \in T : m \in 1 .. n
    OBVIOUS
  <2>2. \A m \in T : n - m \in Nat
    BY <2>1
  <2> QED BY <2>2
<1>2. PICK d \in D : \A e \in D : d <= e
  BY <1>1, Least
<1>3. PICK x \in T : d = n - x
  OBVIOUS
<1>4. ASSUME NEW m \in T PROVE m <= x /\ x >= m
  <2>1. n - m \in D /\ m \in Int /\ x \in Int
    OBVIOUS
  <2>2. n - x <= n - m
    BY <1>2, <1>3, <2>1
  <2> QED BY <2>1, <2>2
<1>5. \E y \in T : \A m \in T : y >= m
  BY <1>4
<1>6. Max(T) \in T /\ \A m \in T : Max(T) >= m
  BY <1>5 DEF Max
<1>7. ASSUME NEW m \in T PROVE m <= Max(T)
  <2>1. \A y \in T : y \in Int
    OBVIOUS
  <2>2. Max(T) \in T /\ Max(T) >= m
    BY <1>6
  <2>3. Max(T) \in Int /\ m \in Int
    BY <2>1, <2>2
  <2> QED BY <2>2, <2>3
<1> QED BY <1>6, <1>7

\* The first use of a weight.
LEMMA FirstUse ==
  ASSUME NEW W, NEW seq \in Seq(W), NEW w \in WeightsOf(seq)
  PROVE  /\ NextUse(seq, w, 1) \in 1 .. Len(seq)
         /\ seq[NextUse(seq, w, 1)] = w
         /\ \A j \in 1 .. Len(seq) : seq[j] = w => NextUse(seq, w, 1) <= j
<1>1. DOMAIN seq = 1 .. Len(seq)
  OBVIOUS
<1>2. PICK i \in 1 .. Len(seq) : seq[i] = w
  BY <1>1 DEF WeightsOf
<1> DEFINE U == UsesFrom(seq, w, 1)
<1>3. U \in SUBSET Nat /\ U # {} /\ U \subseteq 1 .. Len(seq)
  BY <1>2 DEF UsesFrom
<1>4. Min(U) \in U /\ \A m \in U : Min(U) <= m
  BY <1>3, MinIsLeast
<1>5. NextUse(seq, w, 1) = Min(U)
  BY <1>3 DEF NextUse
<1> QED BY <1>3, <1>4, <1>5 DEF UsesFrom

LEMMA FiniteWeights ==
  ASSUME NEW W, NEW seq \in Seq(W)
  PROVE  /\ IsFiniteSet(WeightsOf(seq)) /\ Cardinality(WeightsOf(seq)) \in Nat
         /\ WeightsOf(seq) \subseteq W
         /\ \A w : Occurrences(seq, w) \in Nat
<1>1. IsFiniteSet(1 .. Len(seq)) /\ DOMAIN seq = 1 .. Len(seq)
  BY FS_Interval
<1>2. IsFiniteSet(WeightsOf(seq))
  <2>1. WeightsOf(seq) = {seq[i] : i \in 1 .. Len(seq)}
    BY <1>1 DEF WeightsOf
  <2>2. seq \in Surjection(1 .. Len(seq), WeightsOf(seq))
    BY <1>1, <2>1 DEF Surjection
  <2> QED BY <1>1, <2>2, FS_Surjection
<1>3. \A w : UsesFrom(seq, w, 1) \subseteq 1 .. Len(seq)
  BY DEF UsesFrom
<1> QED BY <1>1, <1>2, <1>3, FS_Subset, FS_CardinalityType DEF Occurrences, WeightsOf

\* A strict total order.
LEMMA PinnedOrder ==
  ASSUME NEW W, NEW seq \in Seq(W), NEW n
  PROVE  /\ \A w \in WeightsOf(seq) : ~ PinnedBefore(seq, n, w, w)
         /\ \A w, x \in WeightsOf(seq) :
              w = x \/ PinnedBefore(seq, n, w, x) \/ PinnedBefore(seq, n, x, w)
         /\ \A w, x, y \in WeightsOf(seq) :
              PinnedBefore(seq, n, w, x) /\ PinnedBefore(seq, n, x, y) => PinnedBefore(seq, n, w, y)
<1> DEFINE first(w) == NextUse(seq, w, 1)
           count(w) == Occurrences(seq, w)
<1>1. \A w \in WeightsOf(seq) : first(w) \in Nat /\ seq[first(w)] = w /\ count(w) \in Nat
  BY FirstUse, FiniteWeights
<1>2. \A w, x \in WeightsOf(seq) : first(w) = first(x) => w = x
  BY <1>1
<1>3. \A w, x : PinnedBefore(seq, n, w, x) <=>
        \/ ~FitsEntirely(seq, n) /\ count(w) > count(x)
        \/ (FitsEntirely(seq, n) \/ count(w) = count(x)) /\ first(w) < first(x)
  BY DEF PinnedBefore
<1> HIDE DEF first, count
<1>4. \A w \in WeightsOf(seq) : ~ PinnedBefore(seq, n, w, w)
  BY <1>1, <1>3
<1>5. \A w, x \in WeightsOf(seq) :
         w = x \/ PinnedBefore(seq, n, w, x) \/ PinnedBefore(seq, n, x, w)
  BY <1>1, <1>2, <1>3
<1>6. \A w, x, y \in WeightsOf(seq) :
         PinnedBefore(seq, n, w, x) /\ PinnedBefore(seq, n, x, y) => PinnedBefore(seq, n, w, y)
  BY <1>1, <1>3
<1> QED BY <1>4, <1>5, <1>6

\* No two weights have the same rank, and the ranks are those of a list.
LEMMA PinRanks ==
  ASSUME NEW W, NEW seq \in Seq(W), NEW n
  PROVE  /\ \A w \in WeightsOf(seq) : /\ PinRank(seq, n, w) \in Nat
                                      /\ PinRank(seq, n, w) < Cardinality(WeightsOf(seq))
         /\ \A w, x \in WeightsOf(seq) : PinRank(seq, n, w) = PinRank(seq, n, x) => w = x
<1> DEFINE A == WeightsOf(seq)
           R(w) == {x \in A : PinnedBefore(seq, n, x, w)}
<1>1. IsFiniteSet(A) /\ Cardinality(A) \in Nat
  BY FiniteWeights
<1>2. \A w : IsFiniteSet(R(w)) /\ Cardinality(R(w)) \in Nat
  BY <1>1, FS_Subset, FS_CardinalityType
<1>3. \A w : PinRank(seq, n, w) = Cardinality(R(w))
  BY DEF PinRank
<1>4. ASSUME NEW w \in A PROVE Cardinality(R(w)) < Cardinality(A)
  <2>1. R(w) \subseteq A /\ w \notin R(w)
    BY PinnedOrder
  <2> HIDE DEF R, A
  <2>2. R(w) # A
    BY <2>1, <1>4
  <2> QED BY <1>1, <1>2, <2>1, <2>2, FS_Subset
<1>5. ASSUME NEW w \in A, NEW x \in A, PinnedBefore(seq, n, w, x)
      PROVE  Cardinality(R(w)) < Cardinality(R(x))
  <2>1. R(w) \subseteq R(x) /\ w \in R(x) /\ w \notin R(w)
    BY <1>5, PinnedOrder
  <2> HIDE DEF R, A
  <2>2. R(w) # R(x)
    BY <2>1
  <2> QED BY <1>2, <2>1, <2>2, FS_Subset
<1>6. ASSUME NEW w \in A, NEW x \in A, Cardinality(R(w)) = Cardinality(R(x)) PROVE w = x
  <2>1. ~ PinnedBefore(seq, n, w, x) /\ ~ PinnedBefore(seq, n, x, w)
    <3> HIDE DEF R
    <3>1. \A c, d \in Nat : c < d => c # d
      OBVIOUS
    <3> QED BY <1>2, <1>5, <1>6, <3>1
  <2> QED BY <2>1, PinnedOrder
<1> HIDE DEF R
<1>7. \A w \in A : PinRank(seq, n, w) \in Nat /\ PinRank(seq, n, w) < Cardinality(A)
  BY <1>2, <1>3, <1>4
<1>8. \A w, x \in A : PinRank(seq, n, w) = PinRank(seq, n, x) => w = x
  BY <1>3, <1>6, Zenon
<1> QED BY <1>7, <1>8

\* Every rank is some weight's.
LEMMA RankCovers ==
  ASSUME NEW W, NEW seq \in Seq(W), NEW n,
         NEW t \in 0 .. Cardinality(WeightsOf(seq)) - 1
  PROVE  \E w \in WeightsOf(seq) : PinRank(seq, n, w) = t
<1> DEFINE A == WeightsOf(seq)
           T == 0 .. Cardinality(A) - 1
           f == [w \in A |-> PinRank(seq, n, w)]
<1>1. IsFiniteSet(A) /\ Cardinality(A) \in Nat
  BY FiniteWeights
<1>2. /\ \A w \in A : PinRank(seq, n, w) \in Nat /\ PinRank(seq, n, w) < Cardinality(A)
      /\ \A w, x \in A : PinRank(seq, n, w) = PinRank(seq, n, x) => w = x
  BY PinRanks
<1>3. \A w \in A : PinRank(seq, n, w) \in T
  BY <1>1, <1>2
<1>4. IsFiniteSet(T) /\ Cardinality(T) = Cardinality(A)
  BY <1>1, FS_Interval
<1> HIDE DEF A, T
<1>5. f \in Injection(A, T)
  BY <1>2, <1>3 DEF Injection, IsInjective
<1>6. f \in Surjection(A, T)
  BY <1>4, <1>5, FS_Injection
<1>7. t \in T
  BY DEF T, A
<1> QED BY <1>6, <1>7 DEF Surjection, A

LEMMA PinnedTiles ==
  ASSUME NEW W, NEW seq \in Seq(W), NEW n \in Nat \ {0}
  PROVE  /\ PinnedCount(seq, n) \in 0 .. n
         /\ Pinned(seq, n) \subseteq WeightsOf(seq)
         /\ \A w \in Pinned(seq, n) : PinRank(seq, n, w) \in 0 .. PinnedCount(seq, n) - 1
         /\ \A w, x \in Pinned(seq, n) : PinRank(seq, n, w) = PinRank(seq, n, x) => w = x
         /\ Streamed(seq, n) \subseteq 1 .. Len(seq)
         /\ Streamed(seq, n) # {} => PinnedCount(seq, n) = n - 1
<1>1. Cardinality(WeightsOf(seq)) \in Nat
  BY FiniteWeights
<1>2. PinnedCount(seq, n) \in 0 .. n
  BY <1>1 DEF PinnedCount, FitsEntirely
<1>3. \A w \in WeightsOf(seq) : /\ PinRank(seq, n, w) \in Nat
                                /\ PinRank(seq, n, w) < Cardinality(WeightsOf(seq))
  BY PinRanks
<1>4. \A w, x \in WeightsOf(seq) : PinRank(seq, n, w) = PinRank(seq, n, x) => w = x
  BY PinRanks
<1>5. Pinned(seq, n) \subseteq WeightsOf(seq)
  BY DEF Pinned
<1>6. \A w \in Pinned(seq, n) : PinRank(seq, n, w) \in 0 .. PinnedCount(seq, n) - 1
  BY <1>2, <1>3 DEF Pinned
<1>7. FitsEntirely(seq, n) => Streamed(seq, n) = {}
  <2>1. \A i \in DOMAIN seq : seq[i] \in WeightsOf(seq)
    BY DEF WeightsOf
  <2> QED BY <1>3, <2>1 DEF Pinned, Streamed, PinnedCount
<1>8. Streamed(seq, n) # {} => PinnedCount(seq, n) = n - 1
  BY <1>7 DEF PinnedCount
<1> QED BY <1>2, <1>4, <1>5, <1>6, <1>8 DEF Streamed

\* The schedule of a loop body, use by use.
LEMMA PinnedAction ==
  ASSUME NEW W, NEW seq \in Seq(W), NEW n,
         NEW i \in 1 .. Len(seq), i \notin Streamed(seq, n)
  PROVE  /\ seq[i] \in Pinned(seq, n)
         /\ SteadyBody(seq, n)[i] =
              [step |-> i - 1, weight |-> seq[i], tile |-> PinRank(seq, n, seq[i]),
               kind |-> PinnedKind(seq, i), evicted |-> NoWeight]
<1>1. i \in DOMAIN seq
  OBVIOUS
<1>2. seq[i] \in Pinned(seq, n)
  BY <1>1 DEF Streamed
<1> QED BY <1>1, <1>2, Zenon DEF SteadyBody

LEMMA StreamedAction ==
  ASSUME NEW W, NEW seq \in Seq(W), NoWeight \notin W, NEW n, NEW i \in Streamed(seq, n)
  PROVE  LET at == Streamed(seq, n)
             a == OneTileAction(Kept(seq, at), Nth(at, i))
         IN SteadyBody(seq, n)[i] =
              [step |-> i - 1, weight |-> seq[i], tile |-> PinnedCount(seq, n),
               kind |-> a.kind, evicted |-> a.evicted]
<1> DEFINE at == Streamed(seq, n)
           stream == Kept(seq, at)
           a == OneTileAction(stream, Nth(at, i))
<1>1. i \in DOMAIN seq /\ at \in SUBSET (1 .. Len(seq)) /\ seq[i] \notin Pinned(seq, n)
  BY DEF Streamed
<1>2. SteadyBody(seq, n)[i] =
        [Belady(stream, 1)[Nth(at, i)] EXCEPT !.step = i - 1, !.tile = PinnedCount(seq, n)]
  BY <1>1, Zenon DEF SteadyBody
<1>3. /\ stream \in Seq(W) /\ Nth(at, i) \in 1 .. Len(stream) /\ stream[Nth(at, i)] = seq[i]
  <2> HIDE DEF at
  <2>1. i \in at
    BY DEF at
  <2> QED BY <1>1, <2>1, KeptSequence
<1> HIDE DEF at, stream
<1>4. Belady(stream, 1)[Nth(at, i)] = a
  BY <1>3, OneTile
<1>5. SteadyBody(seq, n)[i] = [a EXCEPT !.step = i - 1, !.tile = PinnedCount(seq, n)]
  BY <1>2, <1>4, Zenon
<1>6. SteadyBody(seq, n)[i] =
        [step |-> i - 1, weight |-> seq[i], tile |-> PinnedCount(seq, n),
         kind |-> a.kind, evicted |-> a.evicted]
  BY <1>3, <1>5 DEF OneTileAction
<1> QED BY <1>6, Zenon DEF at, stream
-----------------------------------------------------------------------------
(* What a schedule is good for: each use finds its weight on its tile, put   *)
(* there by the last program of the tile.                                    *)

Serves(actions) ==
  \A k \in DOMAIN actions :
    \E j \in ProgramsOnTile(actions, actions[k].tile) :
      /\ j <= k /\ actions[j].weight = actions[k].weight
      /\ \A i \in ProgramsOnTile(actions, actions[k].tile) : i <= k => i <= j

\* Of what sequence, on how many tiles.
ActionsFor(actions, seq, n) ==
  /\ DOMAIN actions = 1 .. Len(seq)
  /\ \A k \in 1 .. Len(seq) : actions[k].weight = seq[k] /\ actions[k].tile \in TilesUpTo(n)

LEMMA NextUseType ==
  ASSUME NEW W, NEW seq \in Seq(W), NEW w, NEW i \in Nat
  PROVE  NextUse(seq, w, i) \in 0 .. Len(seq) + 1
<1>1. UsesFrom(seq, w, i) \in SUBSET Nat /\ \A j \in UsesFrom(seq, w, i) : j \in 0 .. Len(seq) + 1
  BY DEF UsesFrom
<1>2. CASE UsesFrom(seq, w, i) = {}
  BY <1>2 DEF NextUse
<1>3. CASE UsesFrom(seq, w, i) # {}
  BY <1>1, <1>3, MinIsLeast DEF NextUse
<1> QED BY <1>2, <1>3

LEMMA VictimIsTile ==
  ASSUME NEW W, NEW seq \in Seq(W), NEW n \in Nat \ {0}, NEW i \in 1 .. Len(seq),
         NEW h \in Holdings(W, n)
  PROVE  Victim(seq, i, h) \in TilesUpTo(n)
<1> DEFINE next(t) == NextUse(seq, h[t], i + 1)
           best == {t \in DOMAIN h : \A u \in DOMAIN h : next(u) <= next(t)}
           left == {Len(seq) + 1 - next(t) : t \in DOMAIN h}
<1>1. DOMAIN h = TilesUpTo(n) /\ 0 \in DOMAIN h /\ Len(seq) \in Nat
  BY DEF Holdings, TilesUpTo
<1>2. \A t : next(t) \in 0 .. Len(seq) + 1
  BY NextUseType
<1> HIDE DEF next
<1>3. left \in SUBSET Nat /\ left # {}
  BY <1>1, <1>2
<1>4. PICK m \in left : \A x \in left : m <= x
  BY <1>3, Least
<1>5. PICK t \in DOMAIN h : m = Len(seq) + 1 - next(t)
  OBVIOUS
<1>6. \A u \in DOMAIN h : next(u) <= next(t)
  <2> SUFFICES ASSUME NEW u \in DOMAIN h PROVE next(u) <= next(t)
    OBVIOUS
  <2>1. Len(seq) + 1 - next(t) <= Len(seq) + 1 - next(u)
    BY <1>4, <1>5
  <2>2. next(u) \in Int /\ next(t) \in Int
    BY <1>2
  <2> QED BY <1>1, <2>1, <2>2
<1>7. best \in SUBSET Nat /\ best # {}
  BY <1>1, <1>5, <1>6 DEF TilesUpTo
<1>8. Min(best) \in best
  BY <1>7, MinIsLeast
<1>9. Victim(seq, i, h) = Min(best)
  BY DEF Victim, next
<1> QED BY <1>1, <1>8, <1>9

\* A reuse is of a tile that holds the weight.
LEMMA BeladyChoice ==
  ASSUME NEW W, NEW seq \in Seq(W), NoWeight \notin W, NEW n \in Nat \ {0},
         NEW i \in 1 .. Len(seq), NEW h \in Holdings(W, n)
  PROVE  LET a == BeladyAction(seq, i, h) IN
           /\ a.weight = seq[i] /\ a.tile \in TilesUpTo(n)
           /\ a.kind = "Reuse" => h[a.tile] = seq[i]
<1> DEFINE on == {t \in DOMAIN h : h[t] = seq[i]}
           a == BeladyAction(seq, i, h)
<1>1. DOMAIN h = TilesUpTo(n) /\ TilesUpTo(n) \subseteq Nat
  BY DEF Holdings, TilesUpTo
<1>2. CASE on # {}
  <2>1. Min(on) \in on
    <3>1. on \in SUBSET Nat
      BY <1>1
    <3> HIDE DEF on
    <3> QED BY <1>2, <3>1, MinIsLeast
  <2>2. a.weight = seq[i] /\ a.tile = Min(on)
    BY <1>2 DEF BeladyAction
  <2> HIDE DEF a
  <2> QED BY <1>1, <2>1, <2>2 DEF a
<1>3. CASE on = {} /\ Free(h) # {}
  <2>1. Min(Free(h)) \in Free(h)
    <3>1. Free(h) \in SUBSET Nat
      BY <1>1 DEF Free
    <3> QED BY <1>3, <3>1, MinIsLeast
  <2>2. a.weight = seq[i] /\ a.tile = Min(Free(h)) /\ a.kind = "ProgramIntoFree"
    BY <1>3 DEF BeladyAction
  <2>3. Free(h) \subseteq DOMAIN h
    BY DEF Free
  <2> HIDE DEF a
  <2> QED BY <1>1, <2>1, <2>2, <2>3 DEF a
<1>4. CASE on = {} /\ Free(h) = {}
  <2>1. a.weight = seq[i] /\ a.tile = Victim(seq, i, h) /\ a.kind = "ProgramWithEviction"
    BY <1>4 DEF BeladyAction
  <2> HIDE DEF a
  <2> QED BY <2>1, VictimIsTile DEF a
<1> QED BY <1>2, <1>3, <1>4

LEMMA BeladyServes ==
  ASSUME NEW W, NEW seq \in Seq(W), NoWeight \notin W, NEW n \in Nat \ {0}
  PROVE  ActionsFor(Belady(seq, n), seq, n) /\ Serves(Belady(seq, n))
<1> DEFINE m == Len(seq)
           B == Belady(seq, n)
           on(t) == ProgramsOnTile(B, t)
<1>1. PICK held : IsSchedule(B, held, seq, W, n)
  BY BeladySchedule
<1>2. /\ m \in Nat /\ DOMAIN B = 1 .. m /\ held[0] = NothingHeld(n)
      /\ \A i \in 0 .. m : held[i] \in Holdings(W, n)
      /\ \A i \in 1 .. m : B[i] = BeladyAction(seq, i, held[i - 1])
      /\ \A i \in 1 .. m : held[i] = [held[i - 1] EXCEPT ![B[i].tile] = B[i].weight]
  <2> HIDE DEF B
  <2>1. m \in Nat /\ Len(B) = m /\ B \in Seq(ActionsOf(seq, W, n)) /\ held[0] = NothingHeld(n)
    BY <1>1 DEF IsSchedule
  <2>2. \A i \in 0 .. m : held[i] \in Holdings(W, n)
    BY <1>1 DEF IsSchedule
  <2>3. \A i \in 1 .. m : B[i] = BeladyAction(seq, i, held[i - 1])
    BY <1>1 DEF IsSchedule
  <2>4. \A i \in 1 .. m : held[i] = [held[i - 1] EXCEPT ![B[i].tile] = B[i].weight]
    BY <1>1 DEF IsSchedule, AfterAction
  <2>5. DOMAIN B = 1 .. m
    BY <2>1
  <2> QED BY <2>1, <2>2, <2>3, <2>4, <2>5, Zenon
<1> HIDE DEF B
<1>3. ASSUME NEW i \in 1 .. m
      PROVE  /\ B[i].weight = seq[i] /\ B[i].tile \in TilesUpTo(n)
             /\ B[i].kind = "Reuse" => held[i - 1][B[i].tile] = seq[i]
             /\ i - 1 \in 0 .. m /\ i \in 0 .. m /\ seq[i] \in W
  <2>1. i - 1 \in 0 .. m /\ i \in 0 .. m
    BY <1>2
  <2> QED BY <1>2, <2>1, BeladyChoice
<1> HIDE DEF m
\* What a tile holds is the weight of its last program.
<1> DEFINE Final(i, t) == \E j \in on(t) : /\ j <= i /\ B[j].weight = held[i][t]
                                          /\ \A k \in on(t) : k <= i => k <= j
           D == {i \in Nat : i <= m => \A t \in TilesUpTo(n) : held[i][t] # NoWeight => Final(i, t)}
<1>4. \A t : on(t) = {j \in 1 .. m : B[j].kind # "Reuse" /\ B[j].tile = t}
  BY <1>2 DEF ProgramsOnTile, ProgramsOf
<1> HIDE DEF on
<1>5. 0 \in D
  BY <1>2 DEF NothingHeld
<1>6. ASSUME NEW i \in Nat, i \in D PROVE i + 1 \in D
  <2> SUFFICES ASSUME i + 1 <= m, NEW t \in TilesUpTo(n), held[i + 1][t] # NoWeight
               PROVE Final(i + 1, t)
    OBVIOUS
  <2>1. i + 1 \in 1 .. m /\ (i + 1) - 1 = i /\ i \in 0 .. m /\ i <= m
    BY <1>2
  <2>2. /\ B[i + 1].weight = seq[i + 1] /\ B[i + 1].tile \in TilesUpTo(n)
        /\ B[i + 1].kind = "Reuse" => held[i][B[i + 1].tile] = seq[i + 1]
    BY <1>3, <2>1
  <2>3. held[i + 1] = [held[i] EXCEPT ![B[i + 1].tile] = seq[i + 1]] /\ DOMAIN held[i] = TilesUpTo(n)
    BY <1>2, <2>1, <2>2 DEF Holdings
  <2>4. CASE B[i + 1].tile = t /\ B[i + 1].kind # "Reuse"
    <3>1. i + 1 \in on(t) /\ held[i + 1][t] = seq[i + 1]
      BY <1>4, <2>1, <2>3, <2>4
    <3>2. \A k \in on(t) : k <= i + 1 => k <= i + 1
      OBVIOUS
    <3> QED BY <2>2, <3>1, <3>2
  <2>5. CASE ~ (B[i + 1].tile = t /\ B[i + 1].kind # "Reuse")
    <3>1. held[i + 1][t] = held[i][t] /\ i + 1 \notin on(t)
      BY <1>4, <2>1, <2>2, <2>3, <2>5
    <3>2. PICK j \in on(t) : /\ j <= i /\ B[j].weight = held[i][t]
                            /\ \A k \in on(t) : k <= i => k <= j
      BY <1>6, <2>1, <3>1
    <3>3. \A k \in on(t) : k <= i + 1 => k <= i
      BY <1>4, <3>1
    <3>4. j <= i + 1
      BY <1>4, <3>2
    <3> QED BY <3>1, <3>2, <3>3, <3>4
  <2> QED BY <2>4, <2>5
<1> HIDE DEF D
<1>7. \A i \in Nat : i \in D
  BY <1>5, <1>6, SetInduction
<1>8. ASSUME NEW k \in 1 .. m
      PROVE  \E j \in on(B[k].tile) : /\ j <= k /\ B[j].weight = B[k].weight
                                       /\ \A i \in on(B[k].tile) : i <= k => i <= j
  <2>1. held[k] = [held[k - 1] EXCEPT ![B[k].tile] = B[k].weight] /\ held[k - 1] \in Holdings(W, n)
    BY <1>2, <1>3
  <2>2. B[k].weight = seq[k] /\ B[k].tile \in TilesUpTo(n) /\ seq[k] \in W
    BY <1>3
  <2>3. held[k][B[k].tile] = B[k].weight /\ B[k].weight # NoWeight
    BY <2>1, <2>2 DEF Holdings
  <2>4. Final(k, B[k].tile)
    BY <1>2, <1>7, <2>2, <2>3 DEF D
  <2> QED BY <2>3, <2>4
<1>9. Serves(B)
  BY <1>2, <1>8 DEF Serves, on
<1>10. ActionsFor(B, seq, n)
  BY <1>2, <1>3 DEF ActionsFor, m
<1> QED BY <1>9, <1>10 DEF B

\* The actions of pin-and-stream by what they program: a pinned tile the first
\* use of its weight, the streamed tile the uses whose weight it does not hold.
LEMMA SteadyActions ==
  ASSUME NEW W, NEW seq \in Seq(W), NoWeight \notin W, NEW n \in Nat \ {0}
  PROVE  LET A == SteadyBody(seq, n)
             at == Streamed(seq, n)
             stream == Kept(seq, at)
         IN /\ DOMAIN A = 1 .. Len(seq)
            /\ \A i \in (1 .. Len(seq)) \ at :
                 /\ seq[i] \in Pinned(seq, n) /\ A[i].weight = seq[i]
                 /\ A[i].tile = PinRank(seq, n, seq[i])
                 /\ A[i].kind # "Reuse" <=> NextUse(seq, seq[i], 1) = i
            /\ \A i \in at :
                 /\ i \in 1 .. Len(seq) /\ seq[i] \notin Pinned(seq, n)
                 /\ A[i].weight = seq[i] /\ A[i].tile = PinnedCount(seq, n)
                 /\ A[i].kind # "Reuse" <=> Nth(at, i) = 1 \/ stream[Nth(at, i) - 1] # stream[Nth(at, i)]
<1> DEFINE A == SteadyBody(seq, n)
           at == Streamed(seq, n)
           stream == Kept(seq, at)
<1>1. DOMAIN A = 1 .. Len(seq)
  <2>1. DOMAIN seq = 1 .. Len(seq)
    OBVIOUS
  <2>2. DOMAIN A = DOMAIN seq
    BY Zenon DEF SteadyBody
  <2> QED BY <2>1, <2>2
<1>2. ASSUME NEW i \in (1 .. Len(seq)) \ at
      PROVE  /\ seq[i] \in Pinned(seq, n) /\ A[i].weight = seq[i]
             /\ A[i].tile = PinRank(seq, n, seq[i])
             /\ A[i].kind # "Reuse" <=> NextUse(seq, seq[i], 1) = i
  <2>1. /\ seq[i] \in Pinned(seq, n)
        /\ A[i] = [step |-> i - 1, weight |-> seq[i], tile |-> PinRank(seq, n, seq[i]),
                   kind |-> PinnedKind(seq, i), evicted |-> NoWeight]
    BY <1>2, PinnedAction
  <2> HIDE DEF A, at
  <2>2. PinnedKind(seq, i) # "Reuse" <=> NextUse(seq, seq[i], 1) = i
    BY DEF PinnedKind
  <2> QED BY <2>1, <2>2
<1>3. ASSUME NEW i \in at
      PROVE  /\ i \in 1 .. Len(seq) /\ seq[i] \notin Pinned(seq, n)
             /\ A[i].weight = seq[i] /\ A[i].tile = PinnedCount(seq, n)
             /\ A[i].kind # "Reuse" <=> Nth(at, i) = 1 \/ stream[Nth(at, i) - 1] # stream[Nth(at, i)]
  <2> DEFINE a == OneTileAction(stream, Nth(at, i))
  <2>1. A[i] = [step |-> i - 1, weight |-> seq[i], tile |-> PinnedCount(seq, n),
                kind |-> a.kind, evicted |-> a.evicted]
    BY StreamedAction
  <2>2. a.kind # "Reuse" <=> Nth(at, i) = 1 \/ stream[Nth(at, i) - 1] # stream[Nth(at, i)]
    <3> HIDE DEF at, stream
    <3> QED BY DEF OneTileAction
  <2>3. i \in 1 .. Len(seq) /\ seq[i] \notin Pinned(seq, n)
    BY DEF Streamed
  <2> HIDE DEF A, a, at, stream
  <2> QED BY <2>1, <2>2, <2>3
<1> QED BY <1>1, <1>2, <1>3, Zenon

LEMMA SteadyServes ==
  ASSUME NEW W, NEW seq \in Seq(W), NoWeight \notin W, NEW n \in Nat \ {0}
  PROVE  /\ ActionsFor(SteadyBody(seq, n), seq, n) /\ Serves(SteadyBody(seq, n))
         /\ \A i \in ProgramsOf(SteadyBody(seq, n)) :
              SteadyBody(seq, n)[i].tile < PinnedCount(seq, n) =>
                ProgramsOnTile(SteadyBody(seq, n), SteadyBody(seq, n)[i].tile) = {i}
<1> DEFINE A == SteadyBody(seq, n)
           m == Len(seq)
           at == Streamed(seq, n)
           stream == Kept(seq, at)
           P == PinnedCount(seq, n)
           pinned == Pinned(seq, n)
           rank(w) == PinRank(seq, n, w)
           first(w) == NextUse(seq, w, 1)
           nth(i) == Nth(at, i)
           on(t) == ProgramsOnTile(A, t)
           Final(k) == \E j \in on(A[k].tile) : /\ j <= k /\ A[j].weight = A[k].weight
                                                /\ \A i \in on(A[k].tile) : i <= k => i <= j
<1>1. /\ DOMAIN A = 1 .. m
      /\ \A i \in (1 .. m) \ at :
           /\ seq[i] \in pinned /\ A[i].weight = seq[i] /\ A[i].tile = rank(seq[i])
           /\ A[i].kind # "Reuse" <=> first(seq[i]) = i
      /\ \A i \in at :
           /\ i \in 1 .. m /\ seq[i] \notin pinned /\ A[i].weight = seq[i] /\ A[i].tile = P
           /\ A[i].kind # "Reuse" <=> nth(i) = 1 \/ stream[nth(i) - 1] # stream[nth(i)]
  BY SteadyActions
<1>2. /\ P \in 0 .. n /\ pinned \subseteq WeightsOf(seq) /\ at \subseteq 1 .. m
      /\ \A w \in pinned : rank(w) \in 0 .. P - 1
      /\ \A w, x \in pinned : rank(w) = rank(x) => w = x
      /\ at # {} => P = n - 1
  BY PinnedTiles
<1>3. \A w \in pinned : /\ first(w) \in 1 .. m /\ seq[first(w)] = w
                        /\ \A j \in 1 .. m : seq[j] = w => first(w) <= j
  BY <1>2, FirstUse
<1>4. /\ \A k \in 1 .. Cardinality(at) : \E i \in at : nth(i) = k
      /\ \A i \in at : nth(i) \in 1 .. Cardinality(at) /\ stream[nth(i)] = seq[i]
      /\ \A i, j \in at : j < i => nth(j) < nth(i)
  <2>1. at \in SUBSET (1 .. m) /\ m \in Nat
    BY <1>2
  <2>2. \A k \in 1 .. Cardinality(at) : \E i \in at : nth(i) = k
    BY <2>1, NthCovers
  <2>3. \A i \in at : nth(i) \in 1 .. Cardinality(at) /\ stream[nth(i)] = seq[i]
    BY <2>1, KeptSequence
  <2>4. \A i, j \in at : j < i => nth(j) < nth(i)
    <3>1. \A j \in at : j \in 0 .. m
      BY <2>1
    <3> HIDE DEF at, m
    <3> QED BY <2>1, <3>1, NthGrows
  <2> QED BY <2>2, <2>3, <2>4
<1>5. Cardinality(at) \in Nat
  <2>1. IsFiniteSet(1 .. m)
    BY FS_Interval
  <2> QED BY <1>2, <2>1, FS_Subset, FS_CardinalityType
<1> HIDE DEF A, at, stream, P, pinned, rank, first, nth
<1>6. \A t : on(t) = {i \in 1 .. m : A[i].kind # "Reuse" /\ A[i].tile = t}
  BY <1>1 DEF ProgramsOnTile, ProgramsOf
<1> HIDE DEF on, m
<1>7. \A i \in 1 .. m : i \notin at => i \in (1 .. m) \ at
  OBVIOUS
<1>8. ASSUME NEW k \in (1 .. m) \ at
      PROVE  on(A[k].tile) = {first(seq[k])}
  <2>1. seq[k] \in pinned /\ A[k].tile = rank(seq[k]) /\ rank(seq[k]) \in 0 .. P - 1 /\ P \in Nat
    BY <1>1, <1>2
  <2>2. first(seq[k]) \in 1 .. m /\ seq[first(seq[k])] = seq[k]
    BY <1>3, <2>1
  <2>3. first(seq[k]) \notin at
    BY <1>1, <2>1, <2>2
  <2>4. first(seq[k]) \in on(A[k].tile)
    BY <1>1, <1>6, <2>1, <2>2, <2>3
  <2>5. ASSUME NEW i \in on(A[k].tile) PROVE i = first(seq[k])
    <3>1. i \in 1 .. m /\ A[i].kind # "Reuse" /\ A[i].tile = rank(seq[k])
      BY <1>6, <2>1
    <3>2. i \notin at
      BY <1>1, <2>1, <3>1
    <3>3. seq[i] \in pinned /\ rank(seq[i]) = rank(seq[k]) /\ first(seq[i]) = i
      BY <1>1, <3>1, <3>2
    <3> QED BY <1>2, <2>1, <3>3
  <2> QED BY <2>4, <2>5
<1>9. ASSUME NEW k \in (1 .. m) \ at PROVE Final(k)
  <2>1. seq[k] \in pinned /\ A[k].weight = seq[k]
    BY <1>1
  <2> DEFINE j == first(seq[k])
  <2>2. j \in 1 .. m /\ seq[j] = seq[k] /\ j <= k
    BY <1>3, <2>1
  <2>3. j \notin at
    BY <1>1, <2>1, <2>2
  <2>4. A[j].weight = A[k].weight
    BY <1>1, <2>1, <2>2, <2>3
  <2> HIDE DEF j
  <2>5. on(A[k].tile) = {j}
    BY <1>8 DEF j
  <2>6. j <= j
    BY <2>2
  <2> QED BY <2>2, <2>4, <2>5, <2>6
<1> DEFINE D == {r \in Nat : \A k \in at : nth(k) = r => Final(k)}
<1>10. 0 \in D
  BY <1>4, <1>5
<1>11. ASSUME NEW r \in Nat, r \in D PROVE r + 1 \in D
  <2> SUFFICES ASSUME NEW k \in at, nth(k) = r + 1 PROVE Final(k)
    OBVIOUS
  <2>1. k \in 1 .. m /\ A[k].tile = P /\ A[k].weight = seq[k]
    BY <1>1
  <2>2. CASE A[k].kind # "Reuse"
    <3>1. k \in on(A[k].tile)
      BY <1>6, <2>1, <2>2
    <3>2. k <= k
      BY <2>1
    <3> QED BY <3>1, <3>2
  <2>3. CASE A[k].kind = "Reuse"
    <3>1. nth(k) # 1 /\ stream[nth(k) - 1] = stream[nth(k)]
      BY <1>1, <2>3
    <3>2. r \in 1 .. Cardinality(at) /\ nth(k) - 1 = r
      BY <1>4, <1>5, <2>2, <3>1, <1>11
    <3>3. PICK h \in at : nth(h) = r
      BY <1>4, <3>2
    <3>4. seq[h] = seq[k] /\ A[h].weight = A[k].weight /\ A[h].tile = A[k].tile
      BY <1>1, <1>4, <3>1, <3>2, <3>3
    <3>5. h \in 1 .. m /\ h < k
      <4>1. h \in 1 .. m
        BY <1>1
      <4>2. nth(h) < nth(k) /\ nth(h) \in Int /\ nth(k) \in Int
        BY <1>4, <1>5, <3>2, <3>3
      <4>3. ~ (k < h) /\ k # h
        BY <1>4, <4>2
      <4> QED BY <2>1, <4>1, <4>3
    <3>6. PICK j \in on(A[h].tile) : /\ j <= h /\ A[j].weight = A[h].weight
                                     /\ \A i \in on(A[h].tile) : i <= h => i <= j
      BY <1>11, <3>3
    <3>7. ASSUME NEW i \in on(A[k].tile), i <= k PROVE i <= h
      <4>1. i \in 1 .. m /\ A[i].kind # "Reuse" /\ A[i].tile = P
        BY <1>6, <2>1
      <4>2. i \in at
        BY <1>1, <1>2, <1>7, <4>1
      <4>3. i # k /\ i < k
        BY <2>1, <2>3, <3>7, <4>1
      <4>4. nth(i) < nth(k) /\ nth(i) \in Int /\ nth(k) \in Int
        BY <1>4, <4>2, <4>3
      <4>5. ~ (h < i)
        <5>1. h < i => nth(h) < nth(i)
          BY <1>4, <4>2
        <5> QED BY <3>2, <3>3, <4>4, <5>1, <2>3
      <4> QED BY <3>5, <4>1, <4>5
    <3>8. j <= k
      <4>1. j \in 1 .. m
        BY <1>6, <3>6
      <4> QED BY <2>1, <3>5, <3>6, <4>1
    <3> QED BY <3>4, <3>6, <3>7, <3>8
  <2> QED BY <2>2, <2>3
<1> HIDE DEF D
<1>12. \A r \in Nat : r \in D
  BY <1>10, <1>11, SetInduction
<1>13. ASSUME NEW k \in 1 .. m PROVE Final(k)
  <2>1. k \in at => nth(k) \in Nat
    BY <1>4, <1>5
  <2>2. k \in at => Final(k)
    BY <1>12, <2>1 DEF D
  <2> QED BY <1>7, <1>9, <2>2
<1>14. Serves(A)
  BY <1>1, <1>13 DEF Serves, on
<1>15. ActionsFor(A, seq, n)
  <2>1. ASSUME NEW k \in 1 .. m PROVE A[k].weight = seq[k] /\ A[k].tile \in 0 .. n - 1
    <3>1. CASE k \in at
      BY <1>1, <1>2, <3>1
    <3>2. CASE k \notin at
      <4>1. A[k].weight = seq[k] /\ A[k].tile \in 0 .. P - 1
        BY <1>1, <1>2, <1>7, <3>2
      <4> QED BY <1>2, <4>1
    <3> QED BY <3>1, <3>2
  <2> QED BY <1>1, <2>1 DEF ActionsFor, TilesUpTo, m
<1>16. ASSUME NEW i \in ProgramsOf(A), A[i].tile < P PROVE on(A[i].tile) = {i}
  <2>1. i \in 1 .. m /\ A[i].kind # "Reuse"
    BY <1>1 DEF ProgramsOf
  <2>2. i \notin at
    <3>1. P \in Int
      BY <1>2
    <3> QED BY <1>1, <1>16, <3>1
  <2>3. first(seq[i]) = i
    BY <1>1, <1>7, <2>1, <2>2
  <2> QED BY <1>7, <1>8, <2>1, <2>2, <2>3
<1> QED BY <1>14, <1>15, <1>16, Zenon DEF A, on, P
-----------------------------------------------------------------------------
(* How many programs: what the costs of the two schedules count.             *)

\* Tiles programmed once have as many programs as there are of them.
LEMMA OnePerTile ==
  ASSUME NEW actions, NEW T, IsFiniteSet(T),
         \A t \in T : \E i : ProgramsOnTile(actions, t) = {i}
  PROVE  LET I == {i \in ProgramsOf(actions) : actions[i].tile \in T}
         IN IsFiniteSet(I) /\ Cardinality(I) = Cardinality(T)
<1> DEFINE I == {i \in ProgramsOf(actions) : actions[i].tile \in T}
           f == [t \in T |-> CHOOSE i : ProgramsOnTile(actions, t) = {i}]
<1>1. ASSUME NEW t \in T PROVE ProgramsOnTile(actions, t) = {f[t]}
  BY Zenon
<1>0. DOMAIN f = T /\ f = [t \in T |-> f[t]]
  <2> DEFINE g(t) == CHOOSE i : ProgramsOnTile(actions, t) = {i}
  <2>1. f = [t \in T |-> g(t)]
    OBVIOUS
  <2> HIDE DEF f, g
  <2> QED BY <2>1
<1> HIDE DEF f
<1>2. \A t \in T : f[t] \in I /\ actions[f[t]].tile = t
  BY <1>1 DEF ProgramsOnTile
<1>3. \A i \in I : i = f[actions[i].tile] /\ actions[i].tile \in T
  BY <1>1 DEF ProgramsOnTile
<1>4. f \in [T -> I]
  <2> HIDE DEF I
  <2> QED BY <1>2, <1>0
<1> HIDE DEF I
<1>5. f \in Bijection(T, I)
  BY <1>2, <1>3, <1>4 DEF Bijection, Injection, Surjection, IsInjective
<1>6. ExistsBijection(T, I)
  BY <1>5 DEF ExistsBijection
<1> QED BY <1>6, FS_Bijection DEF I

\* The positions a set keeps are as many as what they are counted.
LEMMA NthCounts ==
  ASSUME NEW n \in Nat, NEW at \in SUBSET (1 .. n), NEW K \in SUBSET (1 .. Cardinality(at)),
         \A i \in at : Nth(at, i) \in 1 .. Cardinality(at)
  PROVE  LET I == {i \in at : Nth(at, i) \in K}
         IN IsFiniteSet(I) /\ Cardinality(I) = Cardinality(K)
<1> DEFINE I == {i \in at : Nth(at, i) \in K}
           f == [i \in I |-> Nth(at, i)]
<1>1. \A k \in K : \E i \in I : Nth(at, i) = k
  BY NthCovers
<1>2. \A i, j \in at : Nth(at, i) = Nth(at, j) => i = j
  <2> SUFFICES ASSUME NEW i \in at, NEW j \in at, Nth(at, i) = Nth(at, j), i # j PROVE FALSE
    OBVIOUS
  <2>1. i \in 0 .. n /\ j \in 0 .. n /\ (i < j \/ j < i)
    OBVIOUS
  <2>2. Nth(at, i) \in Int /\ Nth(at, j) \in Int
    OBVIOUS
  <2>3. i < j => Nth(at, i) < Nth(at, j)
    BY <2>1, NthGrows
  <2>4. j < i => Nth(at, j) < Nth(at, i)
    BY <2>1, NthGrows
  <2> QED BY <2>1, <2>2, <2>3, <2>4
<1>3. f \in Bijection(I, K)
  BY <1>1, <1>2 DEF Bijection, Injection, Surjection, IsInjective
<1>4. IsFiniteSet(I)
  <2>1. IsFiniteSet(1 .. n)
    BY FS_Interval
  <2> QED BY <2>1, FS_Subset
<1>5. ExistsBijection(I, K)
  BY <1>3 DEF ExistsBijection
<1> HIDE DEF I, f
<1>6. Cardinality(K) = Cardinality(I)
  BY <1>4, <1>5, FS_Bijection
<1> QED BY <1>4, <1>6 DEF I

\* Pin-and-stream installs as many weights as it pins; its other programs are
\* those of the streamed tile.
LEMMA SteadyCounts ==
  ASSUME NEW W, NEW seq \in Seq(W), NoWeight \notin W, NEW n \in Nat \ {0}
  PROVE  LET A == SteadyBody(seq, n)
             P == PinnedCount(seq, n)
             I == {i \in ProgramsOf(A) : A[i].tile < P}
         IN /\ Cardinality(I) = P /\ IsFiniteSet(I)
            /\ ProgramsOf(A) \ I = ProgramsOnTile(A, P)
<1> DEFINE A == SteadyBody(seq, n)
           P == PinnedCount(seq, n)
           I == {i \in ProgramsOf(A) : A[i].tile < P}
           J == {i \in ProgramsOf(A) : A[i].tile \in 0 .. P - 1}
           at == Streamed(seq, n)
           on(t) == ProgramsOnTile(A, t)
<1>1. /\ DOMAIN A = 1 .. Len(seq)
      /\ \A i \in (1 .. Len(seq)) \ at :
           /\ seq[i] \in Pinned(seq, n) /\ A[i].tile = PinRank(seq, n, seq[i])
           /\ A[i].kind # "Reuse" <=> NextUse(seq, seq[i], 1) = i
      /\ \A i \in at : seq[i] \notin Pinned(seq, n) /\ A[i].tile = P
  BY SteadyActions
<1>2. /\ P \in 0 .. n /\ Pinned(seq, n) \subseteq WeightsOf(seq)
      /\ \A w \in Pinned(seq, n) : PinRank(seq, n, w) \in 0 .. P - 1
  BY PinnedTiles
<1>3. P <= Cardinality(WeightsOf(seq)) /\ Cardinality(WeightsOf(seq)) \in Nat
  <2>1. Cardinality(WeightsOf(seq)) \in Nat
    BY FiniteWeights
  <2> QED BY <2>1 DEF PinnedCount, FitsEntirely
<1>4. \A i \in ProgramsOf(A) : A[i].tile < P => on(A[i].tile) = {i}
  BY SteadyServes
<1> HIDE DEF A, P, at
<1>5. \A i \in 1 .. Len(seq) : A[i].tile \in 0 .. P - 1 \/ A[i].tile = P
  BY <1>1, <1>2
<1>6. ProgramsOf(A) \subseteq 1 .. Len(seq)
  BY <1>1 DEF ProgramsOf
<1>7. I = J /\ ProgramsOf(A) \ I = ProgramsOnTile(A, P)
  <2>1. \A i \in ProgramsOf(A) : A[i].tile < P <=> A[i].tile \in 0 .. P - 1
    BY <1>2, <1>5, <1>6
  <2>2. \A i \in ProgramsOf(A) : ~ (A[i].tile < P) <=> A[i].tile = P
    BY <1>2, <1>5, <1>6
  <2> QED BY <2>1, <2>2 DEF ProgramsOnTile
<1>8. ASSUME NEW t \in 0 .. P - 1 PROVE \E i : on(t) = {i}
  <2>1. t \in 0 .. Cardinality(WeightsOf(seq)) - 1
    BY <1>2, <1>3
  <2>2. PICK w \in WeightsOf(seq) : PinRank(seq, n, w) = t
    BY <2>1, RankCovers
  <2>3. w \in Pinned(seq, n)
    BY <1>2, <2>2 DEF Pinned, P
  <2> DEFINE i == NextUse(seq, w, 1)
  <2>4. i \in 1 .. Len(seq) /\ seq[i] = w
    BY FirstUse
  <2> HIDE DEF i
  <2>5. i \notin at
    BY <1>1, <2>3, <2>4
  <2>6. A[i].tile = t /\ A[i].kind # "Reuse"
    BY <1>1, <2>2, <2>4, <2>5 DEF i
  <2>7. i \in ProgramsOf(A) /\ A[i].tile < P
    BY <1>1, <1>2, <2>4, <2>6 DEF ProgramsOf
  <2> QED BY <1>4, <2>6, <2>7
<1>9. IsFiniteSet(0 .. P - 1) /\ Cardinality(0 .. P - 1) = P
  BY <1>2, FS_Interval
<1>10. IsFiniteSet(J) /\ Cardinality(J) = P
  BY <1>8, <1>9, OnePerTile
<1> QED BY <1>7, <1>10, Zenon DEF A, P
=============================================================================
