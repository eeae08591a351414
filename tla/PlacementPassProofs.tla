------------------------ MODULE PlacementPassProofs ------------------------
(***************************************************************************)
(* Proofs about the cim-placement pass, for every source program, number   *)
(* of tiles and trip count: what the pass has decided when it ends, what   *)
(* the program it emits executes, and how often.                           *)
(***************************************************************************)
EXTENDS PlacementPass, FiniteSetTheorems, TLAPS

USE PassAssumption

L == INSTANCE SchedulesProofs

\* FlattenSeq is the same operator there and here.
LEMMA SameFlatten == \A seqs : L!FlattenSeq(seqs) = FlattenSeq(seqs)
BY DEF FlattenSeq, L!FlattenSeq
-----------------------------------------------------------------------------
\* How many places of a sequence hold a member of Q.
WhereIn(seq, Q) == {k \in DOMAIN seq : seq[k] \in Q}
CountIn(seq, Q) == Cardinality(WhereIn(seq, Q))

LEMMA CountType ==
  ASSUME NEW X, NEW seq \in Seq(X), NEW Q
  PROVE  /\ IsFiniteSet(WhereIn(seq, Q)) /\ CountIn(seq, Q) \in Nat
         /\ CountIn(seq, Q) <= Len(seq)
<1>1. IsFiniteSet(1 .. Len(seq)) /\ Cardinality(1 .. Len(seq)) = Len(seq)
  <2>1. Len(seq) \in Nat
    OBVIOUS
  <2> QED BY <2>1, FS_Interval
<1>2. WhereIn(seq, Q) \in SUBSET (1 .. Len(seq))
  BY DEF WhereIn
<1> QED BY <1>1, <1>2, FS_Subset, FS_CardinalityType DEF CountIn

LEMMA CountOfNone ==
  ASSUME NEW X, NEW seq \in Seq(X), NEW Q, \A k \in 1 .. Len(seq) : seq[k] \notin Q
  PROVE  CountIn(seq, Q) = 0
<1>1. WhereIn(seq, Q) = {}
  BY DEF WhereIn
<1> QED BY <1>1, FS_EmptySet DEF CountIn

LEMMA CountConcat ==
  ASSUME NEW X, NEW s \in Seq(X), NEW t \in Seq(X), NEW Q
  PROVE  CountIn(s \o t, Q) = CountIn(s, Q) + CountIn(t, Q)
<1> DEFINE a == Len(s)
           A == WhereIn(s, Q)
           B == WhereIn(t, Q)
           C == {a + k : k \in B}
           f == [k \in B |-> a + k]
<1>1. /\ a \in Nat /\ A \subseteq 1 .. a /\ B \subseteq 1 .. Len(t)
      /\ IsFiniteSet(A) /\ IsFiniteSet(B) /\ Cardinality(A) \in Nat /\ Cardinality(B) \in Nat
  <2>1. IsFiniteSet(A) /\ Cardinality(A) \in Nat /\ IsFiniteSet(B) /\ Cardinality(B) \in Nat
    BY CountType DEF CountIn
  <2>2. A \subseteq 1 .. a /\ B \subseteq 1 .. Len(t)
    BY DEF WhereIn
  <2> QED BY <2>1, <2>2
<1>2. WhereIn(s \o t, Q) = A \cup C
  <2>1. /\ s \o t \in Seq(X) /\ DOMAIN (s \o t) = 1 .. a + Len(t)
        /\ \A k \in 1 .. a : (s \o t)[k] = s[k]
        /\ \A k \in 1 .. Len(t) : (s \o t)[a + k] = t[k]
    OBVIOUS
  <2>2. ASSUME NEW k \in 1 .. a + Len(t) PROVE (s \o t)[k] \in Q <=> k \in A \cup C
    <3>1. CASE k <= a
      <4>1. k \in 1 .. a /\ k \notin C
        BY <1>1, <3>1
      <4> QED BY <2>1, <4>1 DEF WhereIn
    <3>2. CASE a < k
      <4>1. k \notin A /\ k - a \in 1 .. Len(t) /\ a + (k - a) = k
        BY <1>1, <3>2
      <4>2. (s \o t)[k] = t[k - a]
        BY <2>1, <4>1
      <4>3. t[k - a] \in Q <=> k - a \in B
        BY <4>1 DEF WhereIn
      <4>4. k \in C => k - a \in B
        BY <1>1
      <4> QED BY <4>1, <4>2, <4>3, <4>4
    <3> QED BY <1>1, <3>1, <3>2
  <2>3. \A k \in A \cup C : k \in 1 .. a + Len(t)
    BY <1>1
  <2> HIDE DEF A, C
  <2> QED BY <2>1, <2>2, <2>3 DEF WhereIn
<1>3. f \in Bijection(B, C)
  <2>1. \A k, l \in B : a + k = a + l => k = l
    BY <1>1
  <2> HIDE DEF B
  <2> QED BY <2>1 DEF Bijection, Injection, Surjection, IsInjective
<1>4. A \cap C = {}
  <2>1. \A k \in B : ~ (a + k \in 1 .. a)
    BY <1>1
  <2> QED BY <1>1, <2>1
<1> HIDE DEF A, B, C, f
<1>5. IsFiniteSet(C) /\ Cardinality(C) = Cardinality(B)
  <2>1. ExistsBijection(B, C)
    BY <1>3 DEF ExistsBijection
  <2> QED BY <1>1, <2>1, FS_Bijection
<1>6. Cardinality(A \cup C) = Cardinality(A) + Cardinality(C) - Cardinality(A \cap C)
  BY <1>1, <1>5, FS_Union
<1>7. Cardinality(A \cap C) = 0
  BY <1>4, FS_EmptySet
<1> QED BY <1>1, <1>2, <1>5, <1>6, <1>7 DEF CountIn, A, B

\* What the places of the sequences in a row add up to, given the sums.
LEMMA CountFlatten ==
  ASSUME NEW X, NEW seqs \in Seq(Seq(X)), NEW Q,
         NEW sum \in [0 .. Len(seqs) -> Nat], sum[0] = 0,
         \A i \in 1 .. Len(seqs) : sum[i] = sum[i - 1] + CountIn(seqs[i], Q)
  PROVE  CountIn(FlattenSeq(seqs), Q) = sum[Len(seqs)]
<1>1. CASE Len(seqs) = 0
  <2>1. FlattenSeq(seqs) = <<>>
    BY <1>1 DEF FlattenSeq
  <2>2. <<>> \in Seq(X) /\ Len(<<>>) = 0
    OBVIOUS
  <2>3. \A k \in 1 .. Len(<<>>) : <<>>[k] \notin Q
    BY <2>2
  <2>4. CountIn(<<>>, Q) = 0
    BY <2>2, <2>3, CountOfNone
  <2> QED BY <1>1, <2>1, <2>4
<1>2. CASE Len(seqs) # 0
  <2> DEFINE n == Len(seqs)
  <2>1. PICK parts : L!IsFlattening(parts, seqs, X) /\ FlattenSeq(seqs) = parts[n]
    BY <1>2, L!Flattening, SameFlatten
  <2>2. /\ n \in Nat \ {0} /\ \A i \in 1 .. n : seqs[i] \in Seq(X)
        /\ \A i \in 1 .. n : sum[i] = sum[i - 1] + CountIn(seqs[i], Q)
    BY <1>2
  <2> HIDE DEF n
  <2>3. /\ parts[1] = seqs[1] /\ \A i \in 2 .. n : parts[i] = parts[i - 1] \o seqs[i]
        /\ parts \in [1 .. n -> Seq(X)]
    BY <2>1 DEF L!IsFlattening, n
  <2> DEFINE S == {m \in Nat : m + 1 <= n => CountIn(parts[m + 1], Q) = sum[m + 1]}
  <2>4. 0 \in S
    <3>1. 1 \in 1 .. n
      BY <2>2
    <3>2. sum[1] = sum[0] + CountIn(seqs[1], Q) /\ CountIn(seqs[1], Q) \in Nat
      BY <2>2, <3>1, CountType
    <3> QED BY <2>3, <3>2
  <2>5. ASSUME NEW m \in Nat, m \in S PROVE m + 1 \in S
    <3> SUFFICES ASSUME m + 1 + 1 <= n PROVE CountIn(parts[m + 1 + 1], Q) = sum[m + 1 + 1]
      OBVIOUS
    <3>1. /\ m + 1 + 1 \in 2 .. n /\ m + 1 + 1 \in 1 .. n /\ (m + 1 + 1) - 1 = m + 1
          /\ m + 1 \in 1 .. n
      BY <2>2
    <3>2. CountIn(parts[m + 1], Q) = sum[m + 1] /\ parts[m + 1] \in Seq(X) /\ seqs[m + 1 + 1] \in Seq(X)
      BY <2>2, <2>3, <2>5, <3>1
    <3>3. CountIn(parts[m + 1] \o seqs[m + 1 + 1], Q) = sum[m + 1] + CountIn(seqs[m + 1 + 1], Q)
      BY <3>2, CountConcat
    <3>4. parts[m + 1 + 1] = parts[m + 1] \o seqs[m + 1 + 1]
      BY <2>3, <3>1
    <3>5. sum[m + 1 + 1] = sum[m + 1] + CountIn(seqs[m + 1 + 1], Q)
      BY <2>2, <3>1
    <3> QED BY <3>3, <3>4, <3>5
  <2> HIDE DEF S
  <2>6. \A m \in Nat : m \in S
    BY <2>4, <2>5, L!SetInduction
  <2>7. n - 1 \in S /\ (n - 1) + 1 = n
    BY <2>2, <2>6
  <2> QED BY <2>1, <2>2, <2>7 DEF S, n
<1>3. Len(seqs) = 0 \/ Len(seqs) # 0
  OBVIOUS
<1> QED BY <1>1, <1>2, <1>3

\* A finite set of numbers has a bound.
LEMMA FiniteBound ==
  ASSUME NEW S \in SUBSET Nat, IsFiniteSet(S)
  PROVE  \E m \in Nat : \A x \in S : x <= m
<1>1. Cardinality(S) \in Nat /\ ExistsBijection(1 .. Cardinality(S), S)
  BY FS_CardinalityType
<1> DEFINE n == Cardinality(S)
<1>2. PICK f : f \in [1 .. n -> S] /\ \A x \in S : \E i \in 1 .. n : f[i] = x
  BY <1>1 DEF ExistsBijection, Bijection, Surjection
<1>3. n \in Nat /\ \A i \in 1 .. n : f[i] \in Nat
  BY <1>1, <1>2
<1> HIDE DEF n
<1> DEFINE D == {k \in Nat : k <= n => \E m \in Nat : \A i \in 1 .. k : f[i] <= m}
<1>4. 0 \in D
  <2>1. \A i \in 1 .. 0 : f[i] <= 0
    OBVIOUS
  <2> QED BY <2>1
<1>5. ASSUME NEW k \in Nat, k \in D PROVE k + 1 \in D
  <2> SUFFICES ASSUME k + 1 <= n PROVE \E m \in Nat : \A i \in 1 .. k + 1 : f[i] <= m
    OBVIOUS
  <2>1. PICK m \in Nat : \A i \in 1 .. k : f[i] <= m
    BY <1>3, <1>5
  <2>2. k + 1 \in 1 .. n /\ f[k + 1] \in Nat /\ \A i \in 1 .. k : f[i] \in Nat
    BY <1>3
  <2> DEFINE top == IF m < f[k + 1] THEN f[k + 1] ELSE m
  <2>3. top \in Nat /\ m <= top /\ f[k + 1] <= top
    BY <2>2
  <2> HIDE DEF top
  <2>4. \A i \in 1 .. k + 1 : i \in 1 .. k \/ i = k + 1
    OBVIOUS
  <2>5. \A i \in 1 .. k + 1 : f[i] <= top
    BY <2>1, <2>2, <2>3, <2>4
  <2> QED BY <2>3, <2>5
<1> HIDE DEF D
<1>6. \A k \in Nat : k \in D
  BY <1>4, <1>5, L!SetInduction
<1>7. PICK m \in Nat : \A i \in 1 .. n : f[i] <= m
  <2>1. n \in D /\ n <= n
    BY <1>3, <1>6
  <2> QED BY <2>1 DEF D
<1>8. \A x \in S : x <= m
  BY <1>2, <1>7
<1> QED BY <1>8
-----------------------------------------------------------------------------
(* The schedules of a block. *)

\* The instance of the pass and that of the proofs are the same functions.
LEMMA SameFunctions ==
  /\ \A seq, n : Schedules!Belady(seq, n) = L!Belady(seq, n)
  /\ \A seq, n : Schedules!SteadyBody(seq, n) = L!SteadyBody(seq, n)
  /\ \A seq, n : Schedules!PinnedCount(seq, n) = L!PinnedCount(seq, n)
  /\ \A seq, at : Schedules!Kept(seq, at) = L!Kept(seq, at)
  /\ \A at, i : Schedules!Nth(at, i) = L!Nth(at, i)
  /\ \A actions : Schedules!ProgramsOf(actions) = L!ProgramsOf(actions)
  /\ \A actions, t : Schedules!ProgramsOnTile(actions, t) = L!ProgramsOnTile(actions, t)
<1>1. \A seq, n : Schedules!Belady(seq, n) = L!Belady(seq, n)
  BY DEF Schedules!Belady, L!Belady,
         Schedules!BeladyAction, L!BeladyAction,
         Schedules!Free, L!Free,
         Schedules!Victim, L!Victim,
         Schedules!NextUse, L!NextUse,
         Schedules!UsesFrom, L!UsesFrom,
         Schedules!Min, L!Min
<1>2. \A at, i : Schedules!Nth(at, i) = L!Nth(at, i)
  BY DEF Schedules!Nth, L!Nth,
         Schedules!Cardinality, L!Cardinality,
         Schedules!IsFiniteSet, L!IsFiniteSet
<1>3. \A seq, at : Schedules!Kept(seq, at) = L!Kept(seq, at)
  BY DEF Schedules!Kept, L!Kept,
         Schedules!FlattenSeq, L!FlattenSeq
<1>4. \A seq, n : Schedules!PinnedCount(seq, n) = L!PinnedCount(seq, n)
  BY DEF Schedules!PinnedCount, L!PinnedCount,
         Schedules!FitsEntirely, L!FitsEntirely,
         Schedules!WeightsOf, L!WeightsOf,
         Schedules!Cardinality, L!Cardinality,
         Schedules!IsFiniteSet, L!IsFiniteSet
<1>5. \A seq, n, w : Schedules!PinRank(seq, n, w) = L!PinRank(seq, n, w)
  BY DEF Schedules!PinRank, L!PinRank,
         Schedules!PinnedBefore, L!PinnedBefore,
         Schedules!Occurrences, L!Occurrences,
         Schedules!NextUse, L!NextUse,
         Schedules!UsesFrom, L!UsesFrom,
         Schedules!Min, L!Min,
         Schedules!FitsEntirely, L!FitsEntirely,
         Schedules!WeightsOf, L!WeightsOf,
         Schedules!Cardinality, L!Cardinality,
         Schedules!IsFiniteSet, L!IsFiniteSet
<1>6. \A seq, i : Schedules!PinnedKind(seq, i) = L!PinnedKind(seq, i)
  BY DEF Schedules!PinnedKind, L!PinnedKind,
         Schedules!NextUse, L!NextUse,
         Schedules!UsesFrom, L!UsesFrom,
         Schedules!Min, L!Min
<1>7. \A seq, n : /\ Schedules!Pinned(seq, n) = L!Pinned(seq, n)
                  /\ Schedules!Streamed(seq, n) = L!Streamed(seq, n)
  BY <1>4, <1>5 DEF Schedules!Pinned, L!Pinned,
         Schedules!Streamed, L!Streamed,
         Schedules!WeightsOf, L!WeightsOf
<1>8. ASSUME NEW seq, NEW n PROVE Schedules!SteadyBody(seq, n) = L!SteadyBody(seq, n)
  <2> DEFINE stream == L!Belady(L!Kept(seq, L!Streamed(seq, n)), 1)
             act(i) == IF seq[i] \in L!Pinned(seq, n)
               THEN [step |-> i - 1, weight |-> seq[i], tile |-> L!PinRank(seq, n, seq[i]),
                     kind |-> L!PinnedKind(seq, i), evicted |-> NoWeight]
               ELSE [stream[L!Nth(L!Streamed(seq, n), i)] EXCEPT
                       !.step = i - 1, !.tile = L!PinnedCount(seq, n)]
             his(i) == IF seq[i] \in Schedules!Pinned(seq, n)
               THEN [step |-> i - 1, weight |-> seq[i], tile |-> Schedules!PinRank(seq, n, seq[i]),
                     kind |-> Schedules!PinnedKind(seq, i), evicted |-> NoWeight]
               ELSE [Schedules!Belady(Schedules!Kept(seq, Schedules!Streamed(seq, n)), 1)
                       [Schedules!Nth(Schedules!Streamed(seq, n), i)] EXCEPT
                       !.step = i - 1, !.tile = Schedules!PinnedCount(seq, n)]
  <2>1. L!SteadyBody(seq, n) = [i \in DOMAIN seq |-> act(i)]
    BY DEF L!SteadyBody
  <2>2. Schedules!Pinned(seq, n) = L!Pinned(seq, n) /\ Schedules!Streamed(seq, n) = L!Streamed(seq, n)
    BY <1>7
  <2>3. Schedules!Belady(Schedules!Kept(seq, Schedules!Streamed(seq, n)), 1) = stream
    BY <1>1, <1>3, <2>2, Zenon
  <2>4. Schedules!PinnedCount(seq, n) = L!PinnedCount(seq, n)
    BY <1>4
  <2>5. Schedules!SteadyBody(seq, n) = [i \in DOMAIN seq |-> his(i)]
    BY DEF Schedules!SteadyBody
  <2>6. \A i : his(i) = act(i)
    BY <1>2, <1>5, <1>6, <2>2, <2>3, <2>4, Zenon
  <2> HIDE DEF act, his
  <2> QED BY <2>1, <2>5, <2>6
<1>9. \A actions : Schedules!ProgramsOf(actions) = L!ProgramsOf(actions)
  BY DEF Schedules!ProgramsOf, L!ProgramsOf
<1>10. \A actions, t : Schedules!ProgramsOnTile(actions, t) = L!ProgramsOnTile(actions, t)
  BY <1>9 DEF Schedules!ProgramsOnTile, L!ProgramsOnTile
<1> QED BY <1>1, <1>2, <1>3, <1>4, <1>8, <1>9, <1>10

LEMMA SameCounting ==
  /\ \A S : L!Cardinality(S) = Cardinality(S) /\ L!IsFiniteSet(S) = IsFiniteSet(S)
  /\ \A S : Schedules!Cardinality(S) = Cardinality(S)
BY DEF L!Cardinality, L!IsFiniteSet, Schedules!Cardinality, Schedules!IsFiniteSet,
       Cardinality, IsFiniteSet

\* Each use finds its weight on its tile, where the last program left it.
Served(actions) ==
  \A k \in DOMAIN actions :
    \E j \in Schedules!ProgramsOnTile(actions, actions[k].tile) :
      /\ j <= k /\ actions[j].weight = actions[k].weight
      /\ \A i \in Schedules!ProgramsOnTile(actions, actions[k].tile) : i <= k => i <= j
Serving(actions, seq, n) ==
  /\ DOMAIN actions = 1 .. Len(seq)
  /\ \A k \in 1 .. Len(seq) : actions[k].weight = seq[k] /\ actions[k].tile \in 0 .. n - 1
  /\ Served(actions)

LEMMA BothServe ==
  ASSUME NEW seq \in Seq(Weights), NEW n \in Nat \ {0}
  PROVE  /\ Serving(Schedules!Belady(seq, n), seq, n)
         /\ Serving(Schedules!SteadyBody(seq, n), seq, n)
         /\ \A i \in Schedules!ProgramsOf(Schedules!SteadyBody(seq, n)) :
              Schedules!SteadyBody(seq, n)[i].tile < Schedules!PinnedCount(seq, n) =>
                Schedules!ProgramsOnTile(Schedules!SteadyBody(seq, n),
                                         Schedules!SteadyBody(seq, n)[i].tile) = {i}
<1>1. ASSUME NEW actions, L!ActionsFor(actions, seq, n), L!Serves(actions)
      PROVE  Serving(actions, seq, n)
  <2>1. /\ DOMAIN actions = 1 .. Len(seq)
        /\ \A k \in 1 .. Len(seq) : actions[k].weight = seq[k] /\ actions[k].tile \in 0 .. n - 1
    BY <1>1 DEF L!ActionsFor, L!TilesUpTo
  <2>2. Served(actions)
    BY <1>1, SameFunctions DEF L!Serves, Served
  <2> QED BY <2>1, <2>2 DEF Serving
<1>2. L!ActionsFor(L!Belady(seq, n), seq, n) /\ L!Serves(L!Belady(seq, n))
  BY L!BeladyServes
<1>3. /\ L!ActionsFor(L!SteadyBody(seq, n), seq, n) /\ L!Serves(L!SteadyBody(seq, n))
      /\ \A i \in L!ProgramsOf(L!SteadyBody(seq, n)) :
           L!SteadyBody(seq, n)[i].tile < L!PinnedCount(seq, n) =>
             L!ProgramsOnTile(L!SteadyBody(seq, n), L!SteadyBody(seq, n)[i].tile) = {i}
  BY L!SteadyServes
<1>4. Schedules!Belady(seq, n) = L!Belady(seq, n) /\ Schedules!SteadyBody(seq, n) = L!SteadyBody(seq, n)
  BY SameFunctions
<1>5. \A i \in Schedules!ProgramsOf(L!SteadyBody(seq, n)) :
           L!SteadyBody(seq, n)[i].tile < Schedules!PinnedCount(seq, n) =>
             Schedules!ProgramsOnTile(L!SteadyBody(seq, n), L!SteadyBody(seq, n)[i].tile) = {i}
  BY <1>3, SameFunctions
<1> QED BY <1>1, <1>2, <1>3, <1>4, <1>5, Zenon

\* What a sequence holds at some of its positions.
LEMMA KeptMembers ==
  ASSUME NEW X, NEW seq \in Seq(X), NEW at \in SUBSET (1 .. Len(seq))
  PROVE  LET kept == Schedules!Kept(seq, at)
         IN /\ kept \in Seq(X) /\ Len(kept) = Cardinality(at) /\ Cardinality(at) \in Nat
            /\ \A i \in at : /\ Schedules!Nth(at, i) \in 1 .. Len(kept)
                             /\ kept[Schedules!Nth(at, i)] = seq[i]
            /\ \A p \in 1 .. Len(kept) :
                 \E i \in at : Schedules!Nth(at, i) = p /\ kept[p] = seq[i]
<1> DEFINE kept == L!Kept(seq, at)
<1>1. /\ kept \in Seq(X) /\ Len(kept) = L!Cardinality(at)
      /\ \A i \in at : L!Nth(at, i) \in 1 .. L!Cardinality(at) /\ kept[L!Nth(at, i)] = seq[i]
  BY L!KeptSequence
<1>2. Len(seq) \in Nat
  OBVIOUS
<1>3. \A p \in 1 .. L!Cardinality(at) : \E i \in at : L!Nth(at, i) = p
  BY <1>2, L!NthCovers
<1>4. Schedules!Kept(seq, at) = kept /\ \A i : Schedules!Nth(at, i) = L!Nth(at, i)
  BY SameFunctions
<1>5. L!Cardinality(at) = Cardinality(at)
  BY SameCounting
<1>6. Len(kept) \in Nat
  BY <1>1
<1> HIDE DEF kept
<1> QED BY <1>1, <1>3, <1>4, <1>5, <1>6, Zenon
-----------------------------------------------------------------------------
(* The uses of a block, and what the pass chooses for it. *)

LEMMA SourceFacts ==
  ASSUME source \in Sources
  PROVE  /\ \A b \in Blocks : source.body[b] \in Seq(Weights \cup Loops)
         /\ \A l \in Loops : source.trip[l] \in Nat
         /\ \A b \in Blocks : \A i \in DOMAIN source.body[b] :
              source.body[b][i] \notin Weights => i \in LoopItems(source, b) /\ source.body[b][i] \in Loops
         /\ \A b \in Blocks : \A i \in LoopItems(source, b) : b < source.body[b][i]
         /\ \A b, c \in Blocks : \A i \in LoopItems(source, b), j \in LoopItems(source, c) :
              source.body[b][i] = source.body[c][j] => b = c /\ i = j
<1>1. IsProgram(source)
  OBVIOUS
<1>2. \A b \in Blocks : source.body[b] \in Seq(Weights \cup Loops)
  BY <1>1 DEF IsProgram
<1>3. \A b \in Blocks : \A i \in DOMAIN source.body[b] : source.body[b][i] \in Weights \cup Loops
  BY <1>2
<1> QED BY <1>1, <1>2, <1>3 DEF IsProgram, LoopItems

LEMMA BlockWeights ==
  ASSUME source \in Sources, NEW b \in Blocks
  PROVE  /\ WeightsOf(b) \in Seq(Weights) /\ Len(WeightsOf(b)) \in Nat
         /\ Len(WeightsOf(b)) = Cardinality(Programs(b))
         /\ Programs(b) \in SUBSET (1 .. Len(source.body[b])) /\ Len(source.body[b]) \in Nat
         /\ \A i \in Programs(b) :
              /\ Schedules!Nth(Programs(b), i) \in 1 .. Len(WeightsOf(b))
              /\ WeightsOf(b)[Schedules!Nth(Programs(b), i)] = source.body[b][i]
         /\ \A k \in 1 .. Len(WeightsOf(b)) : \E i \in Programs(b) : Schedules!Nth(Programs(b), i) = k
<1> DEFINE X == Weights \cup Loops
           seq == source.body[b]
           at == Programs(b)
           kept == Schedules!Kept(seq, at)
<1>1. seq \in Seq(X)
  BY SourceFacts
<1>2. at \in SUBSET (1 .. Len(seq)) /\ Len(seq) \in Nat /\ \A i \in at : seq[i] \in Weights
  BY <1>1 DEF Programs
<1> HIDE DEF X, seq, at
<1>3. /\ kept \in Seq(X) /\ Len(kept) = Cardinality(at)
      /\ \A i \in at : Schedules!Nth(at, i) \in 1 .. Len(kept) /\ kept[Schedules!Nth(at, i)] = seq[i]
      /\ \A p \in 1 .. Len(kept) : \E i \in at : Schedules!Nth(at, i) = p /\ kept[p] = seq[i]
  BY <1>1, <1>2, KeptMembers
<1>4. WeightsOf(b) = kept
  BY DEF WeightsOf, seq, at
<1> HIDE DEF kept
<1>5. kept \in Seq(Weights) /\ Len(kept) \in Nat
  <2>1. \A p \in 1 .. Len(kept) : kept[p] \in Weights
    BY <1>2, <1>3
  <2> QED BY <1>3, <2>1
<1> QED BY <1>2, <1>3, <1>4, <1>5, Zenon DEF seq, at

LEMMA UsesFacts ==
  ASSUME source \in Sources
  PROVE  /\ \A b \in Blocks : \A k \in 1 .. Len(WeightsOf(b)) : <<b, k>> \in Uses
         /\ \A u \in Uses : /\ u[1] \in Blocks /\ u[2] \in 1 .. Len(WeightsOf(u[1]))
                            /\ u = <<u[1], u[2]>> /\ Weight(u) \in Weights
<1>1. \A b \in Blocks : WeightsOf(b) \in Seq(Weights)
  BY BlockWeights
<1> QED BY <1>1 DEF Uses, Weight

LEMMA ChosenServes ==
  ASSUME source \in Sources, numTiles \in 1 .. MaxTiles, NEW b \in Blocks
  PROVE  /\ Serving(Chosen(b), WeightsOf(b), numTiles)
         /\ \A k \in Schedules!ProgramsOf(Chosen(b)) :
              Hoistable(b, Chosen(b)[k].tile) =>
                Schedules!ProgramsOnTile(Chosen(b), Chosen(b)[k].tile) = {k}
<1>1. WeightsOf(b) \in Seq(Weights) /\ numTiles \in Nat \ {0}
  BY BlockWeights
<1>2. CASE UseSteadyState(b)
  <2>1. Chosen(b) = Schedules!SteadyBody(WeightsOf(b), numTiles)
    BY <1>2 DEF Chosen, Steady
  <2>2. \A t : Hoistable(b, t) <=> t < Schedules!PinnedCount(WeightsOf(b), numTiles)
    BY <1>2 DEF Hoistable, Pinned
  <2> QED BY <1>1, <2>1, <2>2, BothServe
<1>3. CASE ~ UseSteadyState(b)
  <2> DEFINE A == Schedules!Belady(WeightsOf(b), numTiles)
  <2>1. Chosen(b) = A /\ Serving(A, WeightsOf(b), numTiles)
    BY <1>1, <1>3, BothServe DEF Chosen, Ordinary
  <2>2. \A t : Hoistable(b, t) <=> Cardinality(Schedules!ProgramsOnTile(A, t)) = 1
    BY <1>3 DEF Hoistable, Undisturbed, Ordinary
  <2> HIDE DEF A
  <2>3. ASSUME NEW k \in Schedules!ProgramsOf(A),
               Cardinality(Schedules!ProgramsOnTile(A, A[k].tile)) = 1
        PROVE  Schedules!ProgramsOnTile(A, A[k].tile) = {k}
    <3> DEFINE on == Schedules!ProgramsOnTile(A, A[k].tile)
    <3>1. k \in on
      BY DEF Schedules!ProgramsOnTile
    <3>2. IsFiniteSet(on)
      <4>1. on \subseteq 1 .. Len(WeightsOf(b)) /\ Len(WeightsOf(b)) \in Nat
        BY <1>1, <2>1 DEF Serving, Schedules!ProgramsOnTile, Schedules!ProgramsOf
      <4>2. IsFiniteSet(1 .. Len(WeightsOf(b)))
        BY <4>1, FS_Interval
      <4> HIDE DEF on
      <4> QED BY <4>1, <4>2, FS_Subset
    <3> HIDE DEF on
    <3>3. \E x : on = {x}
      BY <2>3, <3>2, FS_Singleton DEF on
    <3> QED BY <3>1, <3>3 DEF on
  <2> QED BY <2>1, <2>2, <2>3
<1> QED BY <1>2, <1>3

\* The rewrite finds what each use consumes.
LEMMA ServingIsRewritable ==
  ASSUME NEW actions, NEW seq, NEW n, Len(seq) \in Nat, Serving(actions, seq, n)
  PROVE  Rewritable(actions)
<1> SUFFICES ASSUME NEW k \in DOMAIN actions
             PROVE  /\ Provider(actions, k) # 0
                    /\ actions[Provider(actions, k)].weight = actions[k].weight
  BY DEF Rewritable
<1> DEFINE on == Schedules!ProgramsOnTile(actions, actions[k].tile)
           upTo == {j \in on : j <= k}
<1>1. PICK j \in on : /\ j <= k /\ actions[j].weight = actions[k].weight
                      /\ \A i \in on : i <= k => i <= j
  BY DEF Serving, Served
<1>2. on \subseteq 1 .. Len(seq)
  BY DEF Serving, Schedules!ProgramsOnTile, Schedules!ProgramsOf
<1>3. j \in upTo /\ \A i \in upTo : j >= i /\ i \in Int
  BY <1>1, <1>2
<1> HIDE DEF on
<1>4. Max(upTo) = j
  <2>1. \A i \in upTo : (\A h \in upTo : i >= h) => i = j
    BY <1>3
  <2> HIDE DEF upTo
  <2> QED BY <1>3, <2>1 DEF Max
<1>5. Provider(actions, k) = Max(upTo)
  BY <1>3 DEF Provider, on
<1> QED BY <1>1, <1>2, <1>3, <1>4, <1>5
-----------------------------------------------------------------------------
(* What the pass has decided so far. *)

Solved  == {b \in Blocks : Placed(b) /\ ~(phase = "placing" /\ b \in pending)}
Visited == IF phase = "placing" THEN {} ELSE Loops \ pending
CandidatesOf(b) ==
  {<<b, k>> : k \in {j \in Schedules!ProgramsOf(Chosen(b)) : Hoistable(b, Chosen(b)[j].tile)}}

PassInv ==
  /\ source \in Sources /\ numTiles \in 1 .. MaxTiles
  /\ phase \in {"placing", "hoisting", "running"}
  /\ pending \subseteq (IF phase = "placing" THEN {b \in Blocks : Placed(b)} ELSE Loops)
  /\ phase = "running" => pending = {}
  /\ schedule = [b \in Blocks |-> IF b \in Solved THEN Chosen(b) ELSE <<>>]
  /\ candidates = UNION {CandidatesOf(b) : b \in Solved}
  /\ hoisted = UNION {MovedFrom(l) : l \in Visited}

LEMMA SameChoice ==
  ASSUME UNCHANGED <<source, numTiles>>
  PROVE  /\ \A b : Chosen(b)' = Chosen(b) /\ CandidatesOf(b)' = CandidatesOf(b)
         /\ \A b : Placed(b)' = Placed(b) /\ WeightsOf(b)' = WeightsOf(b)
         /\ \A u : Weight(u)' = Weight(u)
         /\ Uses' = Uses /\ Tiles' = Tiles
         /\ candidates' = candidates => \A l : MovedFrom(l)' = MovedFrom(l)
<1>1. \A b : WeightsOf(b)' = WeightsOf(b) /\ Placed(b)' = Placed(b)
  BY DEF WeightsOf, Placed, Programs
<1>2. \A u : Weight(u)' = Weight(u)
  BY <1>1 DEF Weight
<1>3. Uses' = Uses /\ Tiles' = Tiles
  BY <1>1 DEF Uses, Tiles
<1>4. \A b : UseSteadyState(b)' = UseSteadyState(b)
  <2>1. \A b : Costed(b)' = Costed(b)
    BY DEF Costed, Nested
  <2>2. \A b : Ordinary(b)' = Ordinary(b) /\ Pinned(b)' = Pinned(b)
    BY <1>1 DEF Ordinary, Pinned
  <2>3. \A b : TotalOld(b)' = TotalOld(b)
    BY <1>3, <2>2 DEF TotalOld, Undisturbed
  <2>4. \A b : TotalNew(b)' = TotalNew(b)
    BY <1>1, <2>2 DEF TotalNew
  <2> QED BY <2>1, <2>3, <2>4 DEF UseSteadyState
<1>5. \A b : Chosen(b)' = Chosen(b) /\ \A t : Hoistable(b, t)' = Hoistable(b, t)
  BY <1>1, <1>4 DEF Chosen, Ordinary, Steady, Hoistable, Pinned, Undisturbed
<1>6. \A b : CandidatesOf(b)' = CandidatesOf(b)
  BY <1>5 DEF CandidatesOf
<1>7. candidates' = candidates => \A l : MovedFrom(l)' = MovedFrom(l)
  BY <1>2 DEF MovedFrom, HoistsFrom, Nested
<1> QED BY <1>1, <1>2, <1>3, <1>5, <1>6, <1>7

LEMMA PassInit == Init => PassInv
<1> SUFFICES ASSUME Init PROVE PassInv
  OBVIOUS
<1>1. Solved = {} /\ Visited = {}
  BY DEF Init, Solved, Visited
<1>2. schedule = [b \in Blocks |-> IF b \in Solved THEN Chosen(b) ELSE <<>>]
  BY <1>1 DEF Init
<1> QED BY <1>1, <1>2 DEF Init, PassInv

LEMMA PassStep == PassInv /\ [Next]_vars => PassInv'
<1> SUFFICES ASSUME PassInv, [Next]_vars PROVE PassInv'
  OBVIOUS
<1>0. /\ source \in Sources /\ numTiles \in 1 .. MaxTiles
      /\ schedule = [b \in Blocks |-> IF b \in Solved THEN Chosen(b) ELSE <<>>]
      /\ candidates = UNION {CandidatesOf(b) : b \in Solved}
      /\ hoisted = UNION {MovedFrom(l) : l \in Visited}
  BY DEF PassInv
<1>1. ASSUME NEW b \in pending, PlaceBlock(b) PROVE PassInv'
  <2>1. /\ phase = "placing" /\ UNCHANGED <<source, numTiles, hoisted>>
        /\ b \in Blocks /\ Placed(b) /\ pending \subseteq {c \in Blocks : Placed(c)}
    BY <1>1 DEF PlaceBlock, PassInv
  <2>2. Rewritable(Chosen(b))
    <3>1. Serving(Chosen(b), WeightsOf(b), numTiles) /\ Len(WeightsOf(b)) \in Nat
      BY <1>0, <2>1, ChosenServes, BlockWeights
    <3> QED BY <3>1, ServingIsRewritable
  <2>3. /\ schedule' = [schedule EXCEPT ![b] = Chosen(b)]
        /\ candidates' = candidates \cup CandidatesOf(b)
        /\ pending' = pending \ {b} /\ phase' = phase
    BY <1>1, <2>2 DEF PlaceBlock, CandidatesOf
  <2>4. \A c : Chosen(c)' = Chosen(c) /\ CandidatesOf(c)' = CandidatesOf(c) /\ Placed(c)' = Placed(c)
    BY <2>1, SameChoice
  <2>5. Solved' = Solved \cup {b}
    BY <2>1, <2>3, <2>4 DEF Solved
  <2>6. schedule' = [c \in Blocks |-> IF c \in Solved' THEN Chosen(c)' ELSE <<>>]
    BY <1>0, <2>1, <2>3, <2>4, <2>5
  <2>7. candidates' = UNION {CandidatesOf(c)' : c \in Solved'}
    BY <1>0, <2>3, <2>4, <2>5
  <2>8. Visited = {} /\ Visited' = {}
    BY <2>1, <2>3 DEF Visited
  <2>9. hoisted' = UNION {MovedFrom(l)' : l \in Visited'}
    BY <1>0, <2>1, <2>8
  <2>10. pending' \subseteq {c \in Blocks : Placed(c)'}
    BY <2>1, <2>3, <2>4
  <2> QED BY <1>0, <2>1, <2>3, <2>6, <2>7, <2>9, <2>10 DEF PassInv
<1>2. CASE StartHoisting
  <2>1. /\ phase = "placing" /\ pending = {} /\ phase' = "hoisting" /\ pending' = Loops
        /\ UNCHANGED <<source, numTiles, schedule, candidates, hoisted>>
    BY <1>2 DEF StartHoisting, pass
  <2>2. \A c : Chosen(c)' = Chosen(c) /\ CandidatesOf(c)' = CandidatesOf(c) /\ Placed(c)' = Placed(c)
    BY <2>1, SameChoice
  <2>3. Solved' = Solved /\ Visited = {} /\ Visited' = {}
    BY <2>1, <2>2 DEF Solved, Visited
  <2>4. schedule' = [c \in Blocks |-> IF c \in Solved' THEN Chosen(c)' ELSE <<>>]
    BY <1>0, <2>1, <2>2, <2>3
  <2>5. candidates' = UNION {CandidatesOf(c)' : c \in Solved'}
    BY <1>0, <2>1, <2>2, <2>3
  <2>6. hoisted' = UNION {MovedFrom(l)' : l \in Visited'}
    BY <1>0, <2>1, <2>3
  <2> QED BY <1>0, <2>1, <2>4, <2>5, <2>6 DEF PassInv
<1>3. ASSUME NEW l \in pending, HoistLoop(l) PROVE PassInv'
  <2>1. /\ phase = "hoisting" /\ pending' = pending \ {l} /\ hoisted' = hoisted \cup MovedFrom(l)
        /\ UNCHANGED <<source, numTiles, phase, schedule, candidates>>
        /\ pending \subseteq Loops /\ l \in Loops
    BY <1>3 DEF HoistLoop, PassInv
  <2>2. /\ \A c : Chosen(c)' = Chosen(c) /\ CandidatesOf(c)' = CandidatesOf(c) /\ Placed(c)' = Placed(c)
        /\ \A m : MovedFrom(m)' = MovedFrom(m)
    BY <2>1, SameChoice
  <2>3. Solved' = Solved /\ Visited' = Visited \cup {l}
    BY <2>1, <2>2 DEF Solved, Visited
  <2>4. schedule' = [c \in Blocks |-> IF c \in Solved' THEN Chosen(c)' ELSE <<>>]
    BY <1>0, <2>1, <2>2, <2>3
  <2>5. candidates' = UNION {CandidatesOf(c)' : c \in Solved'}
    BY <1>0, <2>1, <2>2, <2>3
  <2>6. hoisted' = UNION {MovedFrom(m)' : m \in Visited'}
    BY <1>0, <2>1, <2>2, <2>3
  <2> QED BY <1>0, <2>1, <2>4, <2>5, <2>6 DEF PassInv
<1>4. CASE Start \/ RunProgram \/ RunMvm \/ UNCHANGED vars
  <2>1. /\ UNCHANGED <<source, numTiles, schedule, candidates, hoisted, pending>>
        /\ phase' \in {"placing", "hoisting", "running"}
        /\ phase = "placing" <=> phase' = "placing"
        /\ phase' = "running" => pending = {}
    BY <1>4 DEF Start, RunProgram, RunMvm, vars, pass, device, Runs, PassInv
  <2>2. /\ \A c : Chosen(c)' = Chosen(c) /\ CandidatesOf(c)' = CandidatesOf(c) /\ Placed(c)' = Placed(c)
        /\ \A m : MovedFrom(m)' = MovedFrom(m)
    BY <2>1, SameChoice
  <2>3. Solved' = Solved /\ Visited' = Visited
    BY <2>1, <2>2 DEF Solved, Visited
  <2>4. schedule' = [c \in Blocks |-> IF c \in Solved' THEN Chosen(c)' ELSE <<>>]
    BY <1>0, <2>1, <2>2, <2>3
  <2>5. candidates' = UNION {CandidatesOf(c)' : c \in Solved'}
    BY <1>0, <2>1, <2>2, <2>3
  <2>6. hoisted' = UNION {MovedFrom(m)' : m \in Visited'}
    BY <1>0, <2>1, <2>2, <2>3
  <2>7. pending' \subseteq (IF phase' = "placing" THEN {c \in Blocks : Placed(c)'} ELSE Loops)
    BY <2>1, <2>2 DEF PassInv
  <2> QED BY <1>0, <2>1, <2>4, <2>5, <2>6, <2>7 DEF PassInv
<1> QED BY <1>1, <1>2, <1>3, <1>4 DEF Next

LEMMA AlwaysPassInv == Spec => []PassInv
BY PassInit, PassStep, PTL DEF Spec

\* PassSucceeds: whatever the program and the number of tiles, the rewrite
\* finds, for every use of the schedule it chose, the program that serves it.
THEOREM PassAlwaysSucceeds == Spec => []PassSucceeds
<1>1. PassInv => PassSucceeds
  BY DEF PassInv, PassSucceeds
<1> QED BY <1>1, AlwaysPassInv, PTL
-----------------------------------------------------------------------------
(* What the pass emits. *)

\* Once the blocks are placed, every schedule serves its block; a program that
\* has left its loop is the only one on its tile, and its loop does run.
LEMMA Emitted ==
  ASSUME PassInv, phase # "placing"
  PROVE  /\ DOMAIN schedule = Blocks
         /\ \A b \in Blocks : Serving(schedule[b], WeightsOf(b), numTiles)
         /\ \A u \in hoisted :
              /\ u \in candidates /\ u \in Uses /\ u[1] \in Loops /\ HoistsFrom(u[1]) /\ Survives(u)
              /\ Schedules!ProgramsOnTile(schedule[u[1]], TileOf(u)) = {u[2]}
<1>0. /\ source \in Sources /\ numTiles \in 1 .. MaxTiles
      /\ schedule = [b \in Blocks |-> IF b \in Solved THEN Chosen(b) ELSE <<>>]
      /\ candidates = UNION {CandidatesOf(b) : b \in Solved}
      /\ hoisted = UNION {MovedFrom(l) : l \in Visited}
      /\ Visited \subseteq Loops
  BY DEF PassInv, Visited
<1>1. ASSUME NEW b \in Blocks PROVE Serving(schedule[b], WeightsOf(b), numTiles)
  <2>1. CASE b \in Solved
    BY <1>0, <2>1, ChosenServes
  <2>2. CASE b \notin Solved
    <3>1. WeightsOf(b) = <<>> /\ schedule[b] = <<>>
      BY <1>0, <2>2 DEF Solved, Placed
    <3> QED BY <3>1 DEF Serving, Served
  <2> QED BY <2>1, <2>2
<1>2. ASSUME NEW b \in Solved, NEW u \in CandidatesOf(b)
      PROVE  /\ u \in Uses /\ u[1] = b /\ u[2] \in Schedules!ProgramsOf(schedule[b])
             /\ Hoistable(b, schedule[b][u[2]].tile)
             /\ Schedules!ProgramsOnTile(schedule[b], TileOf(u)) = {u[2]} /\ Survives(u)
  <2>1. b \in Blocks /\ schedule[b] = Chosen(b)
    BY <1>0 DEF Solved
  <2>2. PICK k \in Schedules!ProgramsOf(Chosen(b)) : u = <<b, k>> /\ Hoistable(b, Chosen(b)[k].tile)
    BY DEF CandidatesOf
  <2>3. k \in 1 .. Len(WeightsOf(b))
    BY <1>1, <2>1 DEF Serving, Schedules!ProgramsOf
  <2>4. u \in Uses
    BY <1>0, <2>1, <2>2, <2>3, UsesFacts
  <2>5. Schedules!ProgramsOnTile(Chosen(b), Chosen(b)[k].tile) = {k}
    BY <1>0, <2>1, <2>2, ChosenServes
  <2>6. Survives(u)
    BY <2>1, <2>2 DEF Survives, Schedules!ProgramsOf
  <2> QED BY <2>1, <2>2, <2>4, <2>5, <2>6 DEF TileOf
<1>3. ASSUME NEW u \in hoisted
      PROVE  /\ u \in candidates /\ u \in Uses /\ u[1] \in Loops /\ HoistsFrom(u[1]) /\ Survives(u)
             /\ Schedules!ProgramsOnTile(schedule[u[1]], TileOf(u)) = {u[2]}
  <2>1. PICK l \in Loops : u \in candidates /\ u[1] = l /\ HoistsFrom(l)
    BY <1>0 DEF MovedFrom
  <2>2. PICK b \in Solved : u \in CandidatesOf(b)
    BY <1>0, <2>1
  <2> QED BY <1>2, <2>1, <2>2
<1> QED BY <1>0, <1>1, <1>3

\* Induction over the tree of blocks.
LEMMA TreeInduction ==
  ASSUME source \in Sources, NEW S,
         \A b \in Blocks : (\A i \in LoopItems(source, b) : source.body[b][i] \in S) => b \in S
  PROVE  \A b \in Blocks : b \in S
<1> SUFFICES ASSUME Blocks \ S # {} PROVE FALSE
  OBVIOUS
<1>1. Blocks \in SUBSET Nat /\ IsFiniteSet(Blocks)
  <2>1. Blocks = Loops \cup {0}
    BY DEF Blocks, Entry
  <2> QED BY <2>1, FS_AddElement
<1>2. PICK m \in Nat : \A b \in Blocks : b <= m
  BY <1>1, FiniteBound
<1> DEFINE T == {m - b : b \in Blocks \ S}
<1>3. T \in SUBSET Nat /\ T # {}
  <2>1. \A b \in Blocks : m - b \in Nat
    BY <1>1, <1>2
  <2> QED BY <2>1
<1>4. PICK t \in T : \A x \in T : t <= x
  BY <1>3, L!Least
<1>5. PICK b \in Blocks \ S : t = m - b
  OBVIOUS
<1>6. \A c \in Blocks \ S : m - b <= m - c
  BY <1>4, <1>5
<1>7. \A c \in Blocks : b < c => c \in S
  BY <1>1, <1>6
<1>8. \A i \in LoopItems(source, b) : source.body[b][i] \in Blocks /\ b < source.body[b][i]
  BY SourceFacts DEF LoopItems, Blocks
<1> QED BY <1>5, <1>7, <1>8

Ops == [op : {"program", "mvm"}, use : Uses]
\* An item of a block and the block, given what the loops in it have become.
Item(b, i, run) ==
  IF source.body[b][i] \in Weights THEN Rewritten(<<b, Schedules!Nth(Programs(b), i)>>)
  ELSE Preheader(source.body[b][i]) \o Repeat(run[source.body[b][i]], source.trip[source.body[b][i]])
Items(b, run) == [i \in DOMAIN source.body[b] |-> Item(b, i, run)]
IsExecution(run) ==
  run \in [Blocks -> Seq(Ops)] /\ \A b \in Blocks : run[b] = FlattenSeq(Items(b, run))

LEMMA RepeatType ==
  ASSUME NEW X, NEW seq \in Seq(X), NEW n \in Nat
  PROVE  Repeat(seq, n) \in Seq(X)
<1>1. [i \in 1 .. n |-> seq] \in Seq(Seq(X))
  OBVIOUS
<1> QED BY <1>1, L!FlattenedSeq, SameFlatten DEF Repeat

\* The programs before a loop, each once, are those that have left it.
LEMMA PreheaderMembers ==
  ASSUME source \in Sources, NEW l \in Loops
  PROVE  LET moved == {k \in 1 .. Len(WeightsOf(l)) : <<l, k>> \in hoisted}
         IN /\ Preheader(l) \in Seq(Ops)
            /\ Len(Preheader(l)) = Cardinality(moved) /\ Cardinality(moved) \in Nat
            /\ \A k \in moved : \E p \in 1 .. Len(Preheader(l)) :
                 Preheader(l)[p] = Op("program", <<l, k>>)
            /\ \A p \in 1 .. Len(Preheader(l)) : \E k \in moved :
                 Preheader(l)[p] = Op("program", <<l, k>>)
<1> DEFINE n == Len(WeightsOf(l))
           uses == [k \in 1 .. n |-> Op("program", <<l, k>>)]
           moved == {k \in 1 .. n : <<l, k>> \in hoisted}
<1>1. l \in Blocks /\ n \in Nat /\ DOMAIN WeightsOf(l) = 1 .. n
  <2>1. l \in Blocks
    BY DEF Blocks
  <2> QED BY <2>1, BlockWeights
<1>2. \A k \in 1 .. n : Op("program", <<l, k>>) \in Ops
  BY <1>1, UsesFacts DEF Ops, Op
<1> HIDE DEF n
<1>3. uses \in Seq(Ops) /\ Len(uses) = n /\ DOMAIN uses = 1 .. n
  BY <1>1, <1>2
<1>4. Preheader(l) = Schedules!Kept(uses, moved)
  BY <1>1 DEF Preheader
<1>5. moved \in SUBSET (1 .. Len(uses)) /\ \A k \in moved : uses[k] = Op("program", <<l, k>>)
  BY <1>3
<1> HIDE DEF uses, moved
<1>6. LET kept == Schedules!Kept(uses, moved)
         IN /\ kept \in Seq(Ops) /\ Len(kept) = Cardinality(moved) /\ Cardinality(moved) \in Nat
            /\ \A i \in moved : /\ Schedules!Nth(moved, i) \in 1 .. Len(kept)
                                /\ kept[Schedules!Nth(moved, i)] = uses[i]
            /\ \A p \in 1 .. Len(kept) :
                 \E i \in moved : Schedules!Nth(moved, i) = p /\ kept[p] = uses[i]
  BY <1>3, <1>5, KeptMembers
<1> QED BY <1>4, <1>5, <1>6 DEF moved, n

\* What an item becomes is a sequence of operations, if what its loop becomes
\* is one.
LEMMA ItemType ==
  ASSUME source \in Sources, NEW b \in Blocks, NEW i \in DOMAIN source.body[b], NEW run,
         i \in LoopItems(source, b) => run[source.body[b][i]] \in Seq(Ops)
  PROVE  Item(b, i, run) \in Seq(Ops)
<1>1. CASE source.body[b][i] \in Weights
  <2> DEFINE u == <<b, Schedules!Nth(Programs(b), i)>>
  <2>1. i \in Programs(b)
    BY <1>1 DEF Programs
  <2>2. u \in Uses
    BY <2>1, BlockWeights, UsesFacts
  <2> HIDE DEF u
  <2>3. Op("program", u) \in Ops /\ Op("mvm", u) \in Ops
    BY <2>2 DEF Op, Ops
  <2>4. Rewritten(u) \in Seq(Ops)
    BY <2>3 DEF Rewritten
  <2> QED BY <1>1, <2>4 DEF Item, u
<1>2. CASE source.body[b][i] \notin Weights
  <2> DEFINE l == source.body[b][i]
  <2>1. i \in LoopItems(source, b) /\ l \in Loops /\ source.trip[l] \in Nat
    BY <1>2, SourceFacts
  <2> HIDE DEF l
  <2>2. Preheader(l) \in Seq(Ops)
    BY <2>1, PreheaderMembers
  <2>3. Repeat(run[l], source.trip[l]) \in Seq(Ops)
    BY <2>1, RepeatType DEF l
  <2>4. Preheader(l) \o Repeat(run[l], source.trip[l]) \in Seq(Ops)
    BY <2>2, <2>3
  <2> QED BY <1>2, <2>4 DEF Item, l
<1> QED BY <1>1, <1>2

LEMMA ItemsType ==
  ASSUME source \in Sources, NEW b \in Blocks, NEW run,
         \A i \in LoopItems(source, b) : run[source.body[b][i]] \in Seq(Ops)
  PROVE  /\ Items(b, run) \in Seq(Seq(Ops)) /\ Len(Items(b, run)) = Len(source.body[b])
         /\ \A i \in 1 .. Len(Items(b, run)) : Items(b, run)[i] = Item(b, i, run)
         /\ FlattenSeq(Items(b, run)) \in Seq(Ops)
<1>1. DOMAIN source.body[b] = 1 .. Len(source.body[b]) /\ Len(source.body[b]) \in Nat
  BY SourceFacts
<1>2. \A i \in DOMAIN source.body[b] : Item(b, i, run) \in Seq(Ops)
  BY ItemType
<1>3. /\ Items(b, run) \in Seq(Seq(Ops)) /\ Len(Items(b, run)) = Len(source.body[b])
      /\ \A i \in 1 .. Len(Items(b, run)) : Items(b, run)[i] = Item(b, i, run)
  BY <1>1, <1>2 DEF Items
<1>4. FlattenSeq(Items(b, run)) \in Seq(Ops)
  BY <1>3, L!FlattenedSeq, SameFlatten
<1> QED BY <1>3, <1>4

\* A block depends on what the loops in it become, and on no more.
LEMMA ItemsAgree ==
  ASSUME source \in Sources, NEW b \in Blocks, NEW r, NEW q,
         \A i \in LoopItems(source, b) : r[source.body[b][i]] = q[source.body[b][i]]
  PROVE  Items(b, r) = Items(b, q)
<1>1. \A i \in DOMAIN source.body[b] : Item(b, i, r) = Item(b, i, q)
  BY SourceFacts DEF Item
<1> QED BY <1>1 DEF Items

\* The recursion of Execution exists: a loop only depends on later ones.
LEMMA ExecutionRun ==
  ASSUME source \in Sources
  PROVE  \E run : IsExecution(run) /\ Execution = run[Entry]
<1> DEFINE X == [Blocks -> Seq(Ops)]
           Next1(r) == [b \in Blocks |-> FlattenSeq(Items(b, r))]
           next == [n \in Nat |-> [r \in X |-> Next1(r)]]
           first == [b \in Blocks |-> <<>>]
           P(f) == f = [b \in Blocks |-> FlattenSeq(Items(b, f))]
<1>1. \A b \in Blocks : \A i \in LoopItems(source, b) :
        source.body[b][i] \in Blocks /\ b < source.body[b][i]
  BY SourceFacts DEF LoopItems, Blocks
<1>2. \A b \in Blocks, r \in X : FlattenSeq(Items(b, r)) \in Seq(Ops)
  <2> SUFFICES ASSUME NEW b \in Blocks, NEW r \in X PROVE FlattenSeq(Items(b, r)) \in Seq(Ops)
    OBVIOUS
  <2>1. \A i \in LoopItems(source, b) : r[source.body[b][i]] \in Seq(Ops)
    BY <1>1
  <2> QED BY <2>1, ItemsType
<1>3. first \in X /\ \A r \in X : Next1(r) \in X
  BY <1>2
<1>4. Blocks \in SUBSET Nat /\ IsFiniteSet(Blocks)
  <2>1. Blocks = Loops \cup {0}
    BY DEF Blocks, Entry
  <2> QED BY <2>1, FS_AddElement
<1>5. PICK m \in Nat : \A b \in Blocks : b <= m
  BY <1>4, FiniteBound
<1> HIDE DEF X
<1>6. next \in L!StepsOn(X) /\ \A n \in Nat, r \in X : next[n][r] = Next1(r)
  <2> HIDE DEF Next1
  <2> QED BY <1>3 DEF L!StepsOn
<1> HIDE DEF next, first
<1>7. PICK g : L!IsIteration(g, X, first, next)
  BY <1>3, <1>6, L!Recursion
<1>8. \A n \in Nat : g[n] \in X /\ g[n + 1] = Next1(g[n])
  BY <1>6, <1>7 DEF L!IsIteration
<1> DEFINE S == {n \in Nat : \A b \in Blocks : m - n < b => g[n + 1][b] = g[n][b]}
<1>9. 0 \in S
  <2>1. \A b \in Blocks : ~ (m - 0 < b)
    BY <1>4, <1>5
  <2> QED BY <2>1
<1>10. ASSUME NEW n \in Nat, n \in S PROVE n + 1 \in S
  <2> SUFFICES ASSUME NEW b \in Blocks, m - (n + 1) < b PROVE g[(n + 1) + 1][b] = g[n + 1][b]
    OBVIOUS
  <2>1. \A i \in LoopItems(source, b) : g[n + 1][source.body[b][i]] = g[n][source.body[b][i]]
    <3> SUFFICES ASSUME NEW i \in LoopItems(source, b)
                 PROVE  g[n + 1][source.body[b][i]] = g[n][source.body[b][i]]
      OBVIOUS
    <3>1. source.body[b][i] \in Blocks /\ b < source.body[b][i]
      BY <1>1
    <3>2. b \in Nat /\ source.body[b][i] \in Nat
      BY <1>4, <3>1
    <3>3. m - n < source.body[b][i]
      BY <3>1, <3>2
    <3> QED BY <1>10, <3>1, <3>3
  <2>2. Items(b, g[n + 1]) = Items(b, g[n])
    BY <2>1, ItemsAgree
  <2>3. g[(n + 1) + 1] = Next1(g[n + 1]) /\ g[n + 1] = Next1(g[n])
    BY <1>8
  <2> QED BY <2>2, <2>3
<1> HIDE DEF S
<1>11. \A n \in Nat : n \in S
  BY <1>9, <1>10, L!SetInduction
<1> DEFINE f == g[m + 1]
<1>12. P(f)
  <2>1. m + 1 \in S /\ m + 1 \in Nat /\ f \in X /\ g[(m + 1) + 1] = Next1(f)
    BY <1>8, <1>11
  <2>2. \A b \in Blocks : m - (m + 1) < b
    BY <1>4
  <2>3. \A b \in Blocks : g[(m + 1) + 1][b] = f[b]
    BY <2>1, <2>2 DEF S
  <2>4. f = [b \in Blocks |-> f[b]]
    BY <2>1 DEF X
  <2> HIDE DEF f
  <2> QED BY <2>1, <2>3, <2>4
<1>13. \E h : Execution = h[Entry] /\ h = CHOOSE q : P(q)
  BY DEF Execution, Items, Item
<1> HIDE DEF P, f
<1>14. PICK h : Execution = h[Entry] /\ P(h)
  BY <1>12, <1>13, Zenon
<1> USE DEF P
<1>15. h = [b \in Blocks |-> FlattenSeq(Items(b, h))]
  BY <1>14
<1> HIDE DEF P
<1>16. \A b \in Blocks : h[b] = FlattenSeq(Items(b, h))
  BY <1>15
<1> DEFINE T == {b \in Blocks : h[b] \in Seq(Ops)}
<1>17. \A b \in Blocks : (\A i \in LoopItems(source, b) : source.body[b][i] \in T) => b \in T
  BY <1>16, ItemsType
<1>18. \A b \in Blocks : b \in T
  BY <1>17, TreeInduction
<1>19. h \in [Blocks -> Seq(Ops)]
  BY <1>15, <1>18
<1>20. IsExecution(h)
  BY <1>16, <1>19 DEF IsExecution
<1> QED BY <1>14, <1>20
-----------------------------------------------------------------------------
(* The execution of what is emitted. *)

\* The execution depends on what the pass has decided alone.
LEMMA SameExecution ==
  ASSUME UNCHANGED <<source, numTiles, schedule, hoisted>>
  PROVE  /\ Execution' = Execution
         /\ \A u : TileOf(u)' = TileOf(u) /\ Weight(u)' = Weight(u)
         /\ Ops' = Ops /\ Uses' = Uses /\ Tiles' = Tiles
<1>1. \A u : TileOf(u)' = TileOf(u) /\ Weight(u)' = Weight(u)
  BY SameChoice DEF TileOf
<1>2. Ops' = Ops /\ Uses' = Uses /\ Tiles' = Tiles
  BY SameChoice DEF Ops
<1>3. Execution' = Execution
  BY DEF Execution, Programs, Rewritten, Survives, Preheader, WeightsOf, Programs
<1> QED BY <1>1, <1>2, <1>3

\* The operations of a block.
OpsOf(op, b) == {e \in Ops : e.op = op /\ e.use[1] = b}

LEMMA CountHead ==
  ASSUME NEW X, NEW seq \in Seq(X), seq # <<>>, NEW Q
  PROVE  /\ Head(seq) \in X /\ Tail(seq) \in Seq(X)
         /\ CountIn(seq, Q) = CountIn(Tail(seq), Q) + (IF Head(seq) \in Q THEN 1 ELSE 0)
<1>1. /\ Head(seq) \in X /\ Tail(seq) \in Seq(X) /\ <<Head(seq)>> \in Seq(X)
      /\ seq = <<Head(seq)>> \o Tail(seq)
  OBVIOUS
<1> DEFINE x == Head(seq)
<1> HIDE DEF x
<1>2. CountIn(<<x>>, Q) = IF x \in Q THEN 1 ELSE 0
  <2>1. WhereIn(<<x>>, Q) = IF x \in Q THEN {1} ELSE {}
    <3>1. DOMAIN <<x>> = {1} /\ <<x>>[1] = x
      OBVIOUS
    <3> QED BY <3>1 DEF WhereIn
  <2>2. Cardinality({1}) = 1 /\ Cardinality({}) = 0
    BY FS_Singleton, FS_EmptySet
  <2> QED BY <2>1, <2>2 DEF CountIn
<1>3. CountIn(<<x>> \o Tail(seq), Q) = CountIn(<<x>>, Q) + CountIn(Tail(seq), Q)
  BY <1>1, CountConcat DEF x
<1>4. CountIn(Tail(seq), Q) \in Nat
  BY <1>1, CountType
<1>5. CountIn(seq, Q) = CountIn(<<x>>, Q) + CountIn(Tail(seq), Q)
  <2>1. seq = <<x>> \o Tail(seq)
    BY <1>1 DEF x
  <2> QED BY <1>3, <2>1
<1>6. CountIn(seq, Q) = CountIn(Tail(seq), Q) + (IF x \in Q THEN 1 ELSE 0)
  BY <1>2, <1>4, <1>5
<1> QED BY <1>1, <1>6 DEF x

\* The execution, the device, and how much of the one the other has done.
DeviceInv ==
  /\ todo \in Seq(Ops)
  /\ contents \in [Tiles -> Weights \cup {NoWeight}]
  /\ programsRun \in [Blocks -> Nat] /\ mvmsRun \in [Blocks -> Nat]
  /\ phase # "running" => \A b \in Blocks : programsRun[b] = 0 /\ mvmsRun[b] = 0
Progress ==
  phase = "running" => \A b \in Blocks :
    /\ programsRun[b] + CountIn(todo, OpsOf("program", b)) = CountIn(Execution, OpsOf("program", b))
    /\ mvmsRun[b] + CountIn(todo, OpsOf("mvm", b)) = CountIn(Execution, OpsOf("mvm", b))

LEMMA DeviceInit == Init => DeviceInv /\ Progress
BY DEF Init, DeviceInv, Progress

LEMMA DeviceStep == PassInv /\ DeviceInv /\ Progress /\ [Next]_vars => DeviceInv' /\ Progress'
<1> SUFFICES ASSUME PassInv, DeviceInv, Progress, [Next]_vars PROVE DeviceInv' /\ Progress'
  OBVIOUS
<1>0. source \in Sources
  BY DEF PassInv
<1>1. CASE (\E b \in pending : PlaceBlock(b)) \/ StartHoisting \/ \E l \in pending : HoistLoop(l)
  <2>1. phase # "running" /\ phase' # "running" /\ UNCHANGED <<source, numTiles, device>>
    BY <1>1 DEF PlaceBlock, StartHoisting, HoistLoop, pass
  <2>2. Ops' = Ops /\ Tiles' = Tiles
    BY <2>1, SameChoice DEF Ops
  <2> QED BY <2>1, <2>2 DEF DeviceInv, Progress, device
<1>2. CASE Start
  <2>1. /\ UNCHANGED <<source, numTiles, schedule, hoisted, contents, programsRun, mvmsRun>>
        /\ phase = "hoisting" /\ todo' = Execution
    BY <1>2 DEF Start, pass
  <2>2. Execution' = Execution /\ Ops' = Ops /\ Tiles' = Tiles
    BY <2>1, SameExecution
  <2>3. Execution \in Seq(Ops)
    <3>1. PICK run : IsExecution(run) /\ Execution = run[Entry]
      BY <1>0, ExecutionRun
    <3> QED BY <3>1 DEF IsExecution, Blocks
  <2>4. DeviceInv'
    BY <2>1, <2>2, <2>3 DEF DeviceInv
  <2>5. \A b \in Blocks : \A op : CountIn(Execution, OpsOf(op, b)) \in Nat
    BY <2>3, CountType
  <2>6. \A b, op : OpsOf(op, b)' = OpsOf(op, b)
    BY <2>2 DEF OpsOf
  <2>7. \A b \in Blocks : programsRun[b] = 0 /\ mvmsRun[b] = 0
    BY <2>1 DEF DeviceInv
  <2>8. Progress'
    BY <2>1, <2>2, <2>5, <2>6, <2>7 DEF Progress
  <2> QED BY <2>4, <2>8
<1>3. CASE RunProgram \/ RunMvm
  <2> DEFINE u == Head(todo).use
             b0 == u[1]
  <2>1. /\ phase = "running" /\ phase' = phase /\ todo # <<>> /\ todo' = Tail(todo)
        /\ UNCHANGED <<source, numTiles, schedule, hoisted>>
    BY <1>3 DEF RunProgram, RunMvm, Runs, pass
  <2>2. Execution' = Execution /\ Ops' = Ops /\ Tiles' = Tiles
    BY <2>1, SameExecution
  <2>3. \A b, op : OpsOf(op, b)' = OpsOf(op, b)
    BY <2>2 DEF OpsOf
  <2>4. todo \in Seq(Ops) /\ Head(todo) \in Ops /\ todo' \in Seq(Ops)
    BY <2>1, CountHead DEF DeviceInv
  <2>5. u \in Uses /\ b0 \in Blocks /\ Weight(u) \in Weights
    BY <1>0, <2>4, UsesFacts DEF Ops
  <2>6. ASSUME NEW op, NEW b
        PROVE  /\ CountIn(todo, OpsOf(op, b)) =
                    CountIn(todo', OpsOf(op, b)) + (IF Head(todo) \in OpsOf(op, b) THEN 1 ELSE 0)
               /\ CountIn(todo', OpsOf(op, b)) \in Nat
    <3> DEFINE Q == OpsOf(op, b)
    <3> HIDE DEF Q
    <3>1. todo \in Seq(Ops) /\ todo # <<>> /\ Tail(todo) \in Seq(Ops)
      BY <2>1, <2>4
    <3>2. CountIn(todo, Q) = CountIn(Tail(todo), Q) + (IF Head(todo) \in Q THEN 1 ELSE 0)
      BY <3>1, CountHead
    <3>3. CountIn(Tail(todo), Q) \in Nat
      BY <3>1, CountType
    <3> QED BY <2>1, <3>2, <3>3 DEF Q
  <2>7. \A op, b : Head(todo) \in OpsOf(op, b) <=> Head(todo).op = op /\ b0 = b
    BY <2>4 DEF OpsOf
  <2>8. CASE RunProgram
    <3>1. /\ Head(todo).op = "program" /\ mvmsRun' = mvmsRun
          /\ contents' = [contents EXCEPT ![TileOf(u)] = Weight(u)]
          /\ programsRun' = [programsRun EXCEPT ![b0] = @ + 1]
      BY <2>8 DEF RunProgram, Runs
    <3> HIDE DEF b0
    <3>2. DeviceInv'
      <4>1. contents' \in [Tiles' -> Weights \cup {NoWeight}]
        BY <2>2, <2>5, <3>1 DEF DeviceInv
      <4>2. programsRun' \in [Blocks -> Nat] /\ mvmsRun' \in [Blocks -> Nat]
        BY <2>5, <3>1 DEF DeviceInv
      <4> QED BY <2>1, <2>2, <2>4, <4>1, <4>2 DEF DeviceInv
    <3>3. ASSUME NEW b \in Blocks
          PROVE  /\ programsRun'[b] + CountIn(todo', OpsOf("program", b)) =
                      CountIn(Execution, OpsOf("program", b))
                 /\ mvmsRun'[b] + CountIn(todo', OpsOf("mvm", b)) = CountIn(Execution, OpsOf("mvm", b))
      <4>1. programsRun'[b] = programsRun[b] + (IF Head(todo) \in OpsOf("program", b) THEN 1 ELSE 0)
        BY <2>5, <2>7, <3>1 DEF DeviceInv
      <4>2. Head(todo) \notin OpsOf("mvm", b)
        BY <2>7, <3>1
      <4>3. programsRun[b] \in Nat /\ mvmsRun[b] \in Nat
        BY DEF DeviceInv
      <4>4. /\ programsRun[b] + CountIn(todo, OpsOf("program", b)) = CountIn(Execution, OpsOf("program", b))
            /\ mvmsRun[b] + CountIn(todo, OpsOf("mvm", b)) = CountIn(Execution, OpsOf("mvm", b))
        BY <2>1 DEF Progress
      <4>5. programsRun'[b] + CountIn(todo', OpsOf("program", b)) =
              programsRun[b] + CountIn(todo, OpsOf("program", b))
        BY <2>6, <3>1, <4>1, <4>2, <4>3
      <4>6. mvmsRun'[b] + CountIn(todo', OpsOf("mvm", b)) = mvmsRun[b] + CountIn(todo, OpsOf("mvm", b))
        BY <2>6, <3>1, <4>1, <4>2, <4>3
      <4> QED BY <4>4, <4>5, <4>6
    <3>4. Progress'
      BY <2>2, <2>3, <3>3 DEF Progress
    <3> QED BY <3>2, <3>4
  <2>9. CASE RunMvm
    <3>1. /\ Head(todo).op = "mvm" /\ programsRun' = programsRun /\ contents' = contents
          /\ mvmsRun' = [mvmsRun EXCEPT ![b0] = @ + 1]
      BY <2>9 DEF RunMvm, Runs
    <3> HIDE DEF b0
    <3>2. DeviceInv'
      BY <2>1, <2>2, <2>4, <2>5, <3>1 DEF DeviceInv
    <3>3. ASSUME NEW b \in Blocks
          PROVE  /\ programsRun'[b] + CountIn(todo', OpsOf("program", b)) =
                      CountIn(Execution, OpsOf("program", b))
                 /\ mvmsRun'[b] + CountIn(todo', OpsOf("mvm", b)) = CountIn(Execution, OpsOf("mvm", b))
      <4>1. mvmsRun'[b] = mvmsRun[b] + (IF Head(todo) \in OpsOf("mvm", b) THEN 1 ELSE 0)
        BY <2>5, <2>7, <3>1 DEF DeviceInv
      <4>2. Head(todo) \notin OpsOf("program", b)
        BY <2>7, <3>1
      <4>3. programsRun[b] \in Nat /\ mvmsRun[b] \in Nat
        BY DEF DeviceInv
      <4>4. /\ programsRun[b] + CountIn(todo, OpsOf("program", b)) = CountIn(Execution, OpsOf("program", b))
            /\ mvmsRun[b] + CountIn(todo, OpsOf("mvm", b)) = CountIn(Execution, OpsOf("mvm", b))
        BY <2>1 DEF Progress
      <4>5. programsRun'[b] + CountIn(todo', OpsOf("program", b)) =
              programsRun[b] + CountIn(todo, OpsOf("program", b))
        BY <2>6, <3>1, <4>1, <4>2, <4>3
      <4>6. mvmsRun'[b] + CountIn(todo', OpsOf("mvm", b)) = mvmsRun[b] + CountIn(todo, OpsOf("mvm", b))
        BY <2>6, <3>1, <4>1, <4>2, <4>3
      <4> QED BY <4>4, <4>5, <4>6
    <3>4. Progress'
      BY <2>2, <2>3, <3>3 DEF Progress
    <3> QED BY <3>2, <3>4
  <2> QED BY <1>3, <2>8, <2>9
<1>4. CASE UNCHANGED vars
  <2>1. UNCHANGED <<source, numTiles, schedule, hoisted, phase, device>>
    BY <1>4 DEF vars, pass
  <2>2. Execution' = Execution /\ Ops' = Ops /\ Tiles' = Tiles
    BY <2>1, SameExecution
  <2>3. \A b, op : OpsOf(op, b)' = OpsOf(op, b)
    BY <2>2 DEF OpsOf
  <2>4. DeviceInv'
    BY <2>1, <2>2 DEF DeviceInv, device
  <2>5. Progress'
    BY <2>1, <2>2, <2>3 DEF Progress, device
  <2> QED BY <2>4, <2>5
<1> QED BY <1>1, <1>2, <1>3, <1>4 DEF Next

IInv == PassInv /\ DeviceInv /\ Progress
LEMMA AlwaysIInv == Spec => []IInv
<1>1. Init => IInv
  BY PassInit, DeviceInit DEF IInv
<1>2. IInv /\ [Next]_vars => IInv'
  BY PassStep, DeviceStep DEF IInv
<1> QED BY <1>1, <1>2, PTL DEF Spec

\* TypeOK: what is pending, placed, hoisted and run are blocks and uses of the
\* program, the tiles hold weights of it, and only candidates are hoisted.
THEOREM TypeCorrect == Spec => []TypeOK
<1>1. ASSUME IInv PROVE TypeOK
  <2>1. phase \in {"placing", "hoisting", "running", "failed"}
    BY <1>1 DEF IInv, PassInv
  <2>2. pending \subseteq Blocks
    BY <1>1 DEF IInv, PassInv, Blocks
  <2>3. hoisted \subseteq candidates
    BY <1>1 DEF IInv, PassInv, MovedFrom
  <2>4. candidates \subseteq Uses
    <3> SUFFICES ASSUME NEW b \in Solved PROVE CandidatesOf(b) \subseteq Uses
      BY <1>1 DEF IInv, PassInv
    <3>1. /\ b \in Blocks /\ source \in Sources /\ Serving(Chosen(b), WeightsOf(b), numTiles)
      BY <1>1, ChosenServes DEF IInv, PassInv, Solved
    <3>2. Schedules!ProgramsOf(Chosen(b)) \subseteq 1 .. Len(WeightsOf(b))
      BY <3>1 DEF Serving, Schedules!ProgramsOf
    <3>3. \A k \in 1 .. Len(WeightsOf(b)) : <<b, k>> \in Uses
      BY <3>1, UsesFacts
    <3> QED BY <3>2, <3>3 DEF CandidatesOf
  <2> QED BY <1>1, <2>1, <2>2, <2>3, <2>4 DEF TypeOK, IInv, DeviceInv
<1> QED BY <1>1, AlwaysIInv, PTL
-----------------------------------------------------------------------------
(* What the tiles hold.  A pair is a tile and the weight on it.              *)

Pair(u)      == <<TileOf(u), Weight(u)>>
Holds(e, p)  == e.op = "program" /\ TileOf(e.use) = p[1] /\ Weight(e.use) = p[2]
Spares(e, p) == e.op = "program" /\ TileOf(e.use) = p[1] => Weight(e.use) = p[2]

\* After k operations of seq, run where the pairs of A hold, p holds.
Available(seq, A, k, p) ==
  \E j \in 0 .. k : /\ IF j = 0 THEN p \in A ELSE Holds(seq[j], p)
                    /\ \A i \in j + 1 .. k : Spares(seq[i], p)
\* Where the pairs of A hold, every mvm of seq finds its weight.
Covered(seq, A) ==
  \A k \in 1 .. Len(seq) : seq[k].op = "mvm" => Available(seq, A, k - 1, Pair(seq[k].use))
\* And then the pairs of B hold.
Leads(A, seq, B) == Covered(seq, A) /\ \A p \in B : Available(seq, A, Len(seq), p)

LEMMA AvailableConcat ==
  ASSUME NEW s \in Seq(Ops), NEW t \in Seq(Ops), NEW A, NEW B,
         \A q \in B : Available(s, A, Len(s), q),
         NEW k \in 0 .. Len(t), NEW p, Available(t, B, k, p)
  PROVE  Available(s \o t, A, Len(s) + k, p)
<1> DEFINE a == Len(s)
           c == s \o t
<1>1. /\ a \in Nat /\ Len(t) \in Nat /\ \A i \in 1 .. a : c[i] = s[i]
      /\ \A i \in 1 .. Len(t) : c[a + i] = t[i]
  OBVIOUS
<1>2. PICK j \in 0 .. k : /\ IF j = 0 THEN p \in B ELSE Holds(t[j], p)
                          /\ \A i \in j + 1 .. k : Spares(t[i], p)
  BY DEF Available
<1> HIDE DEF a, c
<1>3. \A i \in a + j + 1 .. a + k : Spares(c[i], p)
  <2> SUFFICES ASSUME NEW i \in a + j + 1 .. a + k PROVE Spares(c[i], p)
    OBVIOUS
  <2>1. i - a \in j + 1 .. k /\ i - a \in 1 .. Len(t) /\ a + (i - a) = i
    BY <1>1
  <2>2. c[i] = t[i - a]
    BY <1>1, <2>1
  <2> QED BY <1>2, <2>1, <2>2
<1>4. CASE j = 0
  <2>1. PICK h \in 0 .. a : /\ IF h = 0 THEN p \in A ELSE Holds(s[h], p)
                            /\ \A i \in h + 1 .. a : Spares(s[i], p)
    BY <1>2, <1>4 DEF Available, a
  <2>2. h \in 0 .. a + k
    BY <1>1
  <2>3. IF h = 0 THEN p \in A ELSE Holds(c[h], p)
    BY <1>1, <2>1
  <2>4. ASSUME NEW i \in h + 1 .. a + k PROVE Spares(c[i], p)
    <3>1. CASE i <= a
      <4>1. i \in h + 1 .. a /\ i \in 1 .. a
        BY <1>1, <3>1
      <4> QED BY <1>1, <2>1, <4>1
    <3>2. CASE ~ (i <= a)
      <4>1. i \in a + j + 1 .. a + k
        BY <1>1, <1>4, <3>2
      <4> QED BY <1>3, <4>1
    <3> QED BY <3>1, <3>2
  <2> QED BY <2>2, <2>3, <2>4 DEF Available, a, c
<1>5. CASE j # 0
  <2>1. a + j \in 0 .. a + k /\ a + j # 0 /\ j \in 1 .. Len(t)
    BY <1>1, <1>5
  <2>2. Holds(c[a + j], p)
    BY <1>1, <1>2, <1>5, <2>1
  <2> QED BY <1>3, <2>1, <2>2 DEF Available, a, c
<1> QED BY <1>4, <1>5

\* Of the beginning of a sequence nothing else matters.
LEMMA AvailablePrefix ==
  ASSUME NEW s \in Seq(Ops), NEW t \in Seq(Ops), NEW A, NEW k \in 0 .. Len(s), NEW p,
         Available(s, A, k, p)
  PROVE  Available(s \o t, A, k, p)
<1>1. PICK j \in 0 .. k : /\ IF j = 0 THEN p \in A ELSE Holds(s[j], p)
                          /\ \A i \in j + 1 .. k : Spares(s[i], p)
  BY DEF Available
<1>2. \A i \in 1 .. Len(s) : (s \o t)[i] = s[i]
  OBVIOUS
<1>3. \A i \in j + 1 .. k : i \in 1 .. Len(s)
  OBVIOUS
<1>4. j # 0 => j \in 1 .. Len(s)
  OBVIOUS
<1>5. IF j = 0 THEN p \in A ELSE Holds((s \o t)[j], p)
  BY <1>1, <1>2, <1>4
<1>6. \A i \in j + 1 .. k : Spares((s \o t)[i], p)
  BY <1>1, <1>2, <1>3
<1> QED BY <1>5, <1>6 DEF Available

LEMMA LeadsConcat ==
  ASSUME NEW s \in Seq(Ops), NEW t \in Seq(Ops), NEW A, NEW B, NEW C,
         Leads(A, s, B), Leads(B, t, C)
  PROVE  Leads(A, s \o t, C)
<1> DEFINE a == Len(s)
           c == s \o t
<1>1. /\ a \in Nat /\ Len(t) \in Nat /\ Len(c) = a + Len(t)
      /\ \A i \in 1 .. a : c[i] = s[i]
      /\ \A i \in 1 .. Len(t) : c[a + i] = t[i]
  OBVIOUS
<1>2. \A p \in B : Available(s, A, Len(s), p)
  BY DEF Leads
<1>3. ASSUME NEW k \in 0 .. Len(t), NEW p, Available(t, B, k, p) PROVE Available(c, A, a + k, p)
  BY <1>2, <1>3, AvailableConcat
<1>4. ASSUME NEW k \in 0 .. a, NEW p, Available(s, A, k, p) PROVE Available(c, A, k, p)
  BY <1>4, AvailablePrefix
<1> HIDE DEF a, c
<1>5. ASSUME NEW k \in 1 .. Len(c), c[k].op = "mvm" PROVE Available(c, A, k - 1, Pair(c[k].use))
  <2>1. CASE k <= a
    <3>1. k \in 1 .. a /\ k - 1 \in 0 .. a
      BY <1>1, <2>1
    <3>2. c[k] = s[k]
      BY <1>1, <3>1
    <3>3. Available(s, A, k - 1, Pair(s[k].use))
      BY <1>5, <3>1, <3>2 DEF Leads, Covered, a
    <3> QED BY <1>4, <3>1, <3>2, <3>3
  <2>2. CASE ~ (k <= a)
    <3> DEFINE h == k - a
    <3>1. h \in 1 .. Len(t) /\ h - 1 \in 0 .. Len(t) /\ a + h = k /\ a + (h - 1) = k - 1
      BY <1>1, <2>2
    <3> HIDE DEF h
    <3>2. c[k] = t[h]
      BY <1>1, <3>1
    <3>3. Available(t, B, h - 1, Pair(t[h].use))
      BY <1>5, <3>1, <3>2 DEF Leads, Covered
    <3>4. Available(c, A, a + (h - 1), Pair(t[h].use))
      BY <1>3, <3>1, <3>3
    <3> QED BY <3>1, <3>2, <3>4
  <2> QED BY <2>1, <2>2
<1>6. ASSUME NEW p \in C PROVE Available(c, A, Len(c), p)
  <2>1. Available(t, B, Len(t), p) /\ Len(t) \in 0 .. Len(t)
    BY <1>1 DEF Leads
  <2> QED BY <1>1, <1>3, <2>1
<1> QED BY <1>5, <1>6 DEF Leads, Covered, c

LEMMA LeadsWeaken ==
  ASSUME NEW s, NEW A, NEW B, NEW C, C \subseteq B, Leads(A, s, B)
  PROVE  Leads(A, s, C)
BY DEF Leads

LEMMA LeadsNowhere ==
  ASSUME NEW A
  PROVE  Leads(A, <<>>, A)
<1>1. Len(<<>>) = 0
  OBVIOUS
<1>2. Covered(<<>>, A)
  BY <1>1 DEF Covered
<1>3. \A p \in A : Available(<<>>, A, 0, p)
  BY DEF Available
<1> QED BY <1>1, <1>2, <1>3 DEF Leads

\* Sequences in a row lead as far as they lead from one to the next.
LEMMA LeadsFlatten ==
  ASSUME NEW seqs \in Seq(Seq(Ops)), NEW held,
         \A i \in 1 .. Len(seqs) : Leads(held[i - 1], seqs[i], held[i])
  PROVE  Leads(held[0], FlattenSeq(seqs), held[Len(seqs)])
<1>1. CASE Len(seqs) = 0
  <2>1. FlattenSeq(seqs) = <<>>
    BY <1>1 DEF FlattenSeq
  <2> QED BY <1>1, <2>1, LeadsNowhere
<1>2. CASE Len(seqs) # 0
  <2> DEFINE n == Len(seqs)
  <2>1. PICK parts : L!IsFlattening(parts, seqs, Ops) /\ FlattenSeq(seqs) = parts[n]
    BY <1>2, L!Flattening, SameFlatten
  <2>2. n \in Nat \ {0} /\ \A i \in 1 .. n : seqs[i] \in Seq(Ops)
    BY <1>2
  <2>3. \A i \in 1 .. n : Leads(held[i - 1], seqs[i], held[i])
    OBVIOUS
  <2> HIDE DEF n
  <2>4. /\ parts[1] = seqs[1] /\ \A i \in 2 .. n : parts[i] = parts[i - 1] \o seqs[i]
        /\ parts \in [1 .. n -> Seq(Ops)]
    BY <2>1 DEF L!IsFlattening, n
  <2> DEFINE S == {m \in Nat : m + 1 <= n => Leads(held[0], parts[m + 1], held[m + 1])}
  <2>5. 0 \in S
    <3>1. 1 \in 1 .. n /\ 1 - 1 = 0
      BY <2>2
    <3>2. Leads(held[1 - 1], seqs[1], held[1])
      BY <2>3, <3>1
    <3> QED BY <2>4, <3>1, <3>2
  <2>6. ASSUME NEW m \in Nat, m \in S PROVE m + 1 \in S
    <3> SUFFICES ASSUME m + 1 + 1 <= n PROVE Leads(held[0], parts[m + 1 + 1], held[m + 1 + 1])
      OBVIOUS
    <3>1. /\ m + 1 + 1 \in 2 .. n /\ m + 1 + 1 \in 1 .. n /\ (m + 1 + 1) - 1 = m + 1
          /\ m + 1 \in 1 .. n
      BY <2>2
    <3>2. /\ Leads(held[0], parts[m + 1], held[m + 1])
          /\ parts[m + 1] \in Seq(Ops) /\ seqs[m + 1 + 1] \in Seq(Ops)
      BY <2>2, <2>4, <2>6, <3>1
    <3>3. Leads(held[m + 1], seqs[m + 1 + 1], held[m + 1 + 1])
      BY <2>3, <3>1
    <3>4. Leads(held[0], parts[m + 1] \o seqs[m + 1 + 1], held[m + 1 + 1])
      BY <3>2, <3>3, LeadsConcat
    <3>5. parts[m + 1 + 1] = parts[m + 1] \o seqs[m + 1 + 1]
      BY <2>4, <3>1
    <3> QED BY <3>4, <3>5
  <2> HIDE DEF S
  <2>7. \A m \in Nat : m \in S
    BY <2>5, <2>6, L!SetInduction
  <2>8. n - 1 \in S /\ (n - 1) + 1 = n
    BY <2>2, <2>7
  <2> QED BY <2>1, <2>2, <2>8 DEF S, n
<1>3. Len(seqs) = 0 \/ Len(seqs) # 0
  OBVIOUS
<1> QED BY <1>1, <1>2, <1>3

LEMMA LeadsRepeat ==
  ASSUME NEW s \in Seq(Ops), NEW n \in Nat, NEW A, Leads(A, s, A)
  PROVE  Leads(A, Repeat(s, n), A)
<1> DEFINE seqs == [i \in 1 .. n |-> s]
           held == [i \in 0 .. n |-> A]
<1>1. seqs \in Seq(Seq(Ops)) /\ Len(seqs) = n
  OBVIOUS
<1>2. \A i \in 1 .. n : i - 1 \in 0 .. n /\ i \in 0 .. n
  OBVIOUS
<1>3. \A i \in 1 .. n : Leads(held[i - 1], seqs[i], held[i])
  BY <1>2
<1>4. held[0] = A /\ held[n] = A
  OBVIOUS
<1> HIDE DEF seqs, held
<1>5. Leads(held[0], FlattenSeq(seqs), held[Len(seqs)])
  BY <1>1, <1>3, LeadsFlatten
<1> QED BY <1>1, <1>4, <1>5 DEF Repeat, seqs
-----------------------------------------------------------------------------
(* A block on its own. *)

\* The programs of a block on a tile.
On(b, t)      == Schedules!ProgramsOnTile(schedule[b], t)
MovedPairs(b) == {Pair(u) : u \in {v \in hoisted : v[1] = b}}
\* The programs among the first n uses of a block that stay in it, and that no
\* later one of them has displaced.
Stays(u)       == Survives(u) /\ u \notin hoisted
Standing(b, n) ==
  {j \in 1 .. n : /\ Stays(<<b, j>>)
                  /\ \A i \in On(b, TileOf(<<b, j>>)) : i <= n => i <= j}
Held(b, n)     == MovedPairs(b) \cup {Pair(<<b, j>>) : j \in Standing(b, n)}

LEMMA ScheduleFacts ==
  ASSUME PassInv, phase # "placing", NEW b \in Blocks
  PROVE  /\ Len(WeightsOf(b)) \in Nat
         /\ \A t : On(b, t) = {j \in 1 .. Len(WeightsOf(b)) :
                                Survives(<<b, j>>) /\ TileOf(<<b, j>>) = t}
         /\ \A k \in 1 .. Len(WeightsOf(b)) : \E j \in On(b, TileOf(<<b, k>>)) :
              /\ j <= k /\ Weight(<<b, j>>) = Weight(<<b, k>>)
              /\ \A i \in On(b, TileOf(<<b, k>>)) : i <= k => i <= j
         /\ \A v \in hoisted : v[1] = b =>
              \E j \in 1 .. Len(WeightsOf(b)) : v = <<b, j>> /\ On(b, TileOf(v)) = {j} /\ Survives(v)
         /\ \A k \in 1 .. Len(WeightsOf(b)) : TileOf(<<b, k>>) \in Tiles
<1> DEFINE on(t) == On(b, t)
           N == Len(WeightsOf(b))
           A == schedule[b]
<1>1. source \in Sources /\ N \in Nat /\ WeightsOf(b) \in Seq(Weights)
  BY BlockWeights DEF PassInv
<1>2. Serving(A, WeightsOf(b), numTiles)
  BY Emitted
<1>3. /\ DOMAIN A = 1 .. N
      /\ \A k \in 1 .. N : Weight(<<b, k>>) = A[k].weight /\ TileOf(<<b, k>>) = A[k].tile
                           /\ TileOf(<<b, k>>) \in Tiles
      /\ \A k : Survives(<<b, k>>) <=> A[k].kind # "Reuse"
  BY <1>2 DEF Serving, Weight, TileOf, Survives, Tiles
<1>4. \A t : on(t) = {j \in 1 .. N : Survives(<<b, j>>) /\ TileOf(<<b, j>>) = t}
  BY <1>3 DEF On, Schedules!ProgramsOnTile, Schedules!ProgramsOf
<1>5. \A k \in 1 .. N : \E j \in on(A[k].tile) :
        /\ j <= k /\ A[j].weight = A[k].weight
        /\ \A i \in on(A[k].tile) : i <= k => i <= j
  BY <1>2, <1>3 DEF Serving, Served, On
<1>6. ASSUME NEW v \in hoisted, v[1] = b
      PROVE  \E j \in 1 .. N : v = <<b, j>> /\ on(TileOf(v)) = {j} /\ Survives(v)
  <2>1. v \in Uses /\ on(TileOf(v)) = {v[2]} /\ Survives(v)
    BY <1>6, Emitted DEF On
  <2>2. v[2] \in 1 .. N /\ v = <<b, v[2]>>
    BY <1>1, <1>6, <2>1, UsesFacts
  <2> QED BY <2>1, <2>2
<1> HIDE DEF A, N
<1>7. ASSUME NEW k \in 1 .. N
      PROVE  \E j \in on(TileOf(<<b, k>>)) :
                 /\ j <= k /\ Weight(<<b, j>>) = Weight(<<b, k>>)
                 /\ \A i \in on(TileOf(<<b, k>>)) : i <= k => i <= j
  <2>1. PICK j \in on(A[k].tile) : /\ j <= k /\ A[j].weight = A[k].weight
                                   /\ \A i \in on(A[k].tile) : i <= k => i <= j
    BY <1>5
  <2>2. j \in 1 .. N
    BY <1>4, <2>1
  <2> HIDE DEF on
  <2> QED BY <1>3, <2>1, <2>2
<1> QED BY <1>1, <1>3, <1>4, <1>6, <1>7, Zenon DEF N

\* One use of a block.
LEMMA UseLeads ==
  ASSUME PassInv, phase # "placing", NEW b \in Blocks, NEW k \in 1 .. Len(WeightsOf(b))
  PROVE  Leads(Held(b, k - 1), Rewritten(<<b, k>>), Held(b, k))
<1> DEFINE u == <<b, k>>
           N == Len(WeightsOf(b))
           on(t) == On(b, t)
           A == Held(b, k - 1)
           B == Held(b, k)
<1>0. /\ N \in Nat
      /\ \A t : on(t) = {j \in 1 .. N : Survives(<<b, j>>) /\ TileOf(<<b, j>>) = t}
      /\ \A h \in 1 .. N : \E j \in on(TileOf(<<b, h>>)) :
           /\ j <= h /\ Weight(<<b, j>>) = Weight(<<b, h>>)
           /\ \A i \in on(TileOf(<<b, h>>)) : i <= h => i <= j
      /\ \A v \in hoisted : v[1] = b =>
           \E j \in 1 .. N : v = <<b, j>> /\ on(TileOf(v)) = {j} /\ Survives(v)
  BY ScheduleFacts, Zenon
<1> HIDE DEF on
<1>1. /\ N \in Nat /\ k \in 1 .. N
      /\ \A t : on(t) = {j \in 1 .. N : Survives(<<b, j>>) /\ TileOf(<<b, j>>) = t}
      /\ \E j \in on(TileOf(u)) : /\ j <= k /\ Weight(<<b, j>>) = Weight(u)
                                  /\ \A i \in on(TileOf(u)) : i <= k => i <= j
      /\ \A v \in hoisted : v[1] = b => \E j \in 1 .. N : v = <<b, j>> /\ on(TileOf(v)) = {j}
  BY <1>0
<1> HIDE DEF N
<1>2. /\ \A j \in Standing(b, k) :
           j \in 1 .. k /\ Stays(<<b, j>>) /\ \A i \in on(TileOf(<<b, j>>)) : i <= k => i <= j
      /\ \A j \in 1 .. k - 1 :
           Stays(<<b, j>>) /\ (\A i \in on(TileOf(<<b, j>>)) : i <= k - 1 => i <= j)
             => j \in Standing(b, k - 1)
  BY DEF Standing, on
<1>3. \A j \in Standing(b, k) : j = k \/ j \in Standing(b, k - 1)
  <2> SUFFICES ASSUME NEW j \in Standing(b, k), j # k PROVE j \in Standing(b, k - 1)
    OBVIOUS
  <2>1. j \in 1 .. k - 1 /\ Stays(<<b, j>>)
    BY <1>1, <1>2
  <2>2. \A i \in on(TileOf(<<b, j>>)) : i \in 1 .. N
    BY <1>1
  <2>3. \A i \in on(TileOf(<<b, j>>)) : i <= k - 1 => i <= k
    BY <1>1, <2>2
  <2>4. \A i \in on(TileOf(<<b, j>>)) : i <= k => i <= j
    BY <1>2
  <2> QED BY <1>2, <2>1, <2>3, <2>4
<1>4. \A p \in B : p \in MovedPairs(b) \/ \E j \in Standing(b, k) : p = Pair(<<b, j>>)
  BY DEF Held
<1>5. \A p : p \in MovedPairs(b) \/ (\E j \in Standing(b, k - 1) : p = Pair(<<b, j>>)) => p \in A
  BY DEF Held
<1> HIDE DEF A, B, u
<1>6. CASE Stays(u)
  <2> DEFINE s == <<Op("program", u), Op("mvm", u)>>
  <2>1. Rewritten(u) = s
    BY <1>6 DEF Rewritten, Stays
  <2>2. /\ Len(s) = 2 /\ s[1].op = "program" /\ s[1].use = u /\ s[2].op = "mvm" /\ s[2].use = u
    BY DEF Op
  <2>3. k \in on(TileOf(u))
    BY <1>1, <1>6 DEF Stays, u
  <2> HIDE DEF s
  <2>4. Available(s, A, 1, Pair(u))
    <3>1. Holds(s[1], Pair(u))
      BY <2>2 DEF Holds, Pair
    <3> QED BY <3>1 DEF Available
  <2>5. Covered(s, A)
    <3>1. \A i \in 1 .. Len(s) : s[i].op = "mvm" => i = 2 /\ i - 1 = 1
      BY <2>2
    <3> QED BY <2>2, <2>4, <3>1 DEF Covered
  <2>6. \A p : Spares(s[2], p)
    BY <2>2 DEF Spares
  <2>7. ASSUME NEW p \in A, TileOf(u) # p[1] PROVE Available(s, A, 2, p)
    <3>1. Spares(s[1], p)
      BY <2>2, <2>7 DEF Spares
    <3>2. \A i \in 0 + 1 .. 2 : Spares(s[i], p)
      BY <2>6, <3>1
    <3> QED BY <3>2 DEF Available
  <2>8. Available(s, A, 2, Pair(u))
    <3>1. Holds(s[1], Pair(u))
      BY <2>2 DEF Holds, Pair
    <3>2. \A i \in 1 + 1 .. 2 : Spares(s[i], Pair(u))
      BY <2>6
    <3> QED BY <3>1, <3>2 DEF Available
  <2>9. ASSUME NEW p \in MovedPairs(b) PROVE Available(s, A, 2, p)
    <3>1. PICK v \in hoisted : v[1] = b /\ p = Pair(v)
      BY DEF MovedPairs
    <3>2. PICK j \in 1 .. N : v = <<b, j>> /\ on(TileOf(v)) = {j}
      BY <1>1, <3>1
    <3>3. j # k
      BY <1>6, <3>1, <3>2 DEF Stays, u
    <3>4. TileOf(u) # TileOf(v)
      BY <2>3, <3>2, <3>3
    <3> QED BY <1>5, <2>7, <3>1, <3>4 DEF Pair
  <2>10. ASSUME NEW j \in Standing(b, k) PROVE Available(s, A, 2, Pair(<<b, j>>))
    <3>1. CASE j = k
      BY <2>8, <3>1 DEF u
    <3>2. CASE j # k
      <4>1. j \in Standing(b, k - 1) /\ j \in 1 .. k /\ k \in 1 .. N
        BY <1>1, <1>2, <1>3, <3>2
      <4>2. TileOf(u) # TileOf(<<b, j>>)
        <5>1. k \in on(TileOf(<<b, j>>)) => k <= j
          BY <1>1, <1>2
        <5> QED BY <2>3, <3>2, <4>1, <5>1
      <4>3. Pair(<<b, j>>) \in A
        BY <1>5, <4>1
      <4>4. TileOf(u) # Pair(<<b, j>>)[1]
        BY <4>2 DEF Pair
      <4> QED BY <2>7, <4>3, <4>4
    <3> QED BY <3>1, <3>2
  <2>11. \A p \in B : Available(s, A, 2, p)
    BY <1>4, <2>9, <2>10
  <2> QED BY <2>1, <2>2, <2>5, <2>11 DEF Leads, A, B, u
<1>7. CASE ~ Stays(u)
  <2> DEFINE s == <<Op("mvm", u)>>
  <2>1. Rewritten(u) = s
    BY <1>7 DEF Rewritten, Stays
  <2>2. Len(s) = 1 /\ s[1].op = "mvm" /\ s[1].use = u
    BY DEF Op
  <2> HIDE DEF s
  <2>3. PICK j \in on(TileOf(u)) : /\ j <= k /\ Weight(<<b, j>>) = Weight(u)
                                   /\ \A i \in on(TileOf(u)) : i <= k => i <= j
    BY <1>1
  <2>4. j \in 1 .. N /\ Survives(<<b, j>>) /\ TileOf(<<b, j>>) = TileOf(u)
    BY <1>1
  <2>5. Pair(<<b, j>>) = Pair(u)
    BY <2>3, <2>4 DEF Pair
  <2>6. Pair(u) \in A
    <3>1. CASE <<b, j>> \in hoisted
      <4>1. Pair(<<b, j>>) \in MovedPairs(b)
        BY <3>1 DEF MovedPairs
      <4> QED BY <1>5, <2>5, <4>1
    <3>2. CASE <<b, j>> \notin hoisted
      <4>1. Stays(<<b, j>>)
        BY <2>4, <3>2 DEF Stays
      <4>2. j # k
        BY <1>7, <4>1 DEF u
      <4>3. j \in 1 .. k - 1
        BY <1>1, <2>3, <2>4, <4>2
      <4>4. \A i \in on(TileOf(<<b, j>>)) : i <= k - 1 => i <= j
        <5> SUFFICES ASSUME NEW i \in on(TileOf(<<b, j>>)), i <= k - 1 PROVE i <= j
          OBVIOUS
        <5>1. i \in 1 .. N
          BY <1>1
        <5>2. i <= k
          BY <1>1, <5>1
        <5> QED BY <2>3, <2>4, <5>2
      <4>5. j \in Standing(b, k - 1)
        BY <1>2, <4>1, <4>3, <4>4
      <4> QED BY <1>5, <2>5, <4>5
    <3> QED BY <3>1, <3>2
  <2>7. Covered(s, A)
    <3>1. Available(s, A, 0, Pair(u))
      BY <2>6 DEF Available
    <3>2. \A i \in 1 .. Len(s) : i = 1 /\ i - 1 = 0
      BY <2>2
    <3> QED BY <2>2, <3>1, <3>2 DEF Covered
  <2>8. ASSUME NEW p \in B PROVE Available(s, A, 1, p)
    <3>1. \A i \in Standing(b, k) : i \in Standing(b, k - 1)
      BY <1>2, <1>3, <1>7 DEF u
    <3>2. p \in A
      BY <1>4, <1>5, <3>1
    <3>3. \A i \in 0 + 1 .. 1 : Spares(s[i], p)
      BY <2>2 DEF Spares
    <3> QED BY <3>2, <3>3 DEF Available
  <2> QED BY <2>1, <2>2, <2>7, <2>8 DEF Leads, A, B, u
<1> QED BY <1>6, <1>7

\* A block whose loops have nothing to run: with what has left it on the tiles,
\* it runs, and leaves it there.
LEMMA BlockLeads ==
  ASSUME PassInv, phase # "placing", NEW b \in Blocks, NEW run, IsExecution(run),
         \A i \in LoopItems(source, b) : Item(b, i, run) = <<>>
  PROVE  Leads(MovedPairs(b), run[b], MovedPairs(b))
<1> DEFINE at == Programs(b)
           n == Len(source.body[b])
           N == Len(WeightsOf(b))
           nth(i) == Schedules!Nth(at, i)
           held == [i \in 0 .. n |-> Held(b, nth(i))]
           seqs == Items(b, run)
<1>0. source \in Sources
  BY DEF PassInv
<1>1. /\ at \in SUBSET (1 .. n) /\ n \in Nat /\ N \in Nat
      /\ \A i \in at : nth(i) \in 1 .. N
  BY <1>0, BlockWeights
<1>2. /\ nth(0) = 0
      /\ \A i \in 0 .. n - 1 : nth(i + 1) = nth(i) + (IF i + 1 \in at THEN 1 ELSE 0)
      /\ \A i \in 0 .. n : nth(i) \in Nat
  <2>1. \A i : nth(i) = L!Nth(at, i)
    BY SameFunctions
  <2> HIDE DEF at, n, nth
  <2>2. /\ L!Nth(at, 0) = 0
        /\ \A i \in 0 .. n - 1 : L!Nth(at, i + 1) = L!Nth(at, i) + (IF i + 1 \in at THEN 1 ELSE 0)
        /\ \A i \in 0 .. n : L!Nth(at, i) \in Nat
    BY <1>1, L!NthSteps
  <2> QED BY <2>1, <2>2
<1>3. \A i \in LoopItems(source, b) : run[source.body[b][i]] \in Seq(Ops)
  BY DEF IsExecution, LoopItems, Blocks
<1>4. /\ seqs \in Seq(Seq(Ops)) /\ Len(seqs) = n /\ \A i \in 1 .. n : seqs[i] = Item(b, i, run)
  BY <1>0, <1>3, ItemsType
<1>5. DOMAIN source.body[b] = 1 .. n
  BY <1>0, SourceFacts
<1>6. \A i \in 1 .. n : /\ i \in at <=> source.body[b][i] \in Weights
                        /\ i \notin at => i \in LoopItems(source, b)
  <2>1. \A i \in 1 .. n : i \in at <=> source.body[b][i] \in Weights
    BY <1>5 DEF Programs
  <2>2. \A i \in 1 .. n : source.body[b][i] \notin Weights => i \in LoopItems(source, b)
    BY <1>0, <1>5, SourceFacts
  <2> QED BY <2>1, <2>2
<1> HIDE DEF at, n, N, nth
<1>7. ASSUME NEW i \in 1 .. n PROVE Leads(held[i - 1], seqs[i], held[i])
  <2>0. i - 1 \in 0 .. n - 1 /\ i - 1 \in 0 .. n /\ i \in 0 .. n /\ (i - 1) + 1 = i
    BY <1>1
  <2>1. held[i - 1] = Held(b, nth(i - 1)) /\ held[i] = Held(b, nth(i))
    BY <2>0
  <2> HIDE DEF held
  <2>2. CASE i \in at
    <3> DEFINE k == nth(i)
    <3>1. k \in 1 .. N /\ nth(i - 1) = k - 1
      BY <1>1, <1>2, <2>0, <2>2
    <3>2. Item(b, i, run) = Rewritten(<<b, k>>)
      BY <1>6, <2>2 DEF Item, nth, at
    <3> HIDE DEF k
    <3>3. Leads(Held(b, k - 1), Rewritten(<<b, k>>), Held(b, k))
      BY <3>1, UseLeads DEF N
    <3> QED BY <1>4, <2>1, <3>1, <3>2, <3>3 DEF k
  <2>3. CASE i \notin at
    <3>1. nth(i) = nth(i - 1)
      BY <1>2, <2>0, <2>3
    <3>2. seqs[i] = <<>>
      BY <1>4, <1>6, <2>3
    <3> QED BY <2>1, <3>1, <3>2, LeadsNowhere
  <2> QED BY <2>2, <2>3
<1>8. held[0] = Held(b, 0) /\ held[n] = Held(b, nth(n))
  BY <1>1, <1>2
<1> HIDE DEF held, seqs
<1>9. Leads(held[0], FlattenSeq(seqs), held[n])
  BY <1>4, <1>7, LeadsFlatten
<1>10. Held(b, 0) = MovedPairs(b) /\ MovedPairs(b) \subseteq Held(b, nth(n))
  <2>1. Standing(b, 0) = {}
    BY DEF Standing
  <2> QED BY <2>1 DEF Held
<1>11. run[b] = FlattenSeq(seqs)
  BY DEF IsExecution, seqs
<1> QED BY <1>8, <1>9, <1>10, <1>11, LeadsWeaken

\* What stands before a loop puts on the tiles what has left it.
LEMMA PreheaderLeads ==
  ASSUME PassInv, phase # "placing", NEW l \in Loops
  PROVE  Leads({}, Preheader(l), MovedPairs(l))
<1> DEFINE s == Preheader(l)
           N == Len(WeightsOf(l))
           moved == {k \in 1 .. N : <<l, k>> \in hoisted}
<1>0. l \in Blocks /\ source \in Sources
  BY DEF PassInv, Blocks
<1>1. /\ s \in Seq(Ops)
      /\ \A k \in moved : \E p \in 1 .. Len(s) : s[p] = Op("program", <<l, k>>)
      /\ \A p \in 1 .. Len(s) : \E k \in moved : s[p] = Op("program", <<l, k>>)
  BY <1>0, PreheaderMembers
<1>2. \A v \in hoisted : v[1] = l => \E j \in 1 .. N : v = <<l, j>> /\ On(l, TileOf(v)) = {j}
  BY <1>0, ScheduleFacts
<1> HIDE DEF s, N
<1>3. Covered(s, {})
  <2>1. ASSUME NEW p \in 1 .. Len(s) PROVE s[p].op # "mvm"
    <3>1. PICK k \in moved : s[p] = Op("program", <<l, k>>)
      BY <1>1
    <3> QED BY <3>1 DEF Op
  <2> QED BY <2>1 DEF Covered
<1>4. ASSUME NEW q \in MovedPairs(l) PROVE Available(s, {}, Len(s), q)
  <2>1. PICK v \in hoisted : v[1] = l /\ q = Pair(v)
    BY DEF MovedPairs
  <2>2. PICK j \in 1 .. N : v = <<l, j>> /\ On(l, TileOf(v)) = {j}
    BY <1>2, <2>1
  <2>3. PICK p \in 1 .. Len(s) : s[p] = Op("program", v)
    BY <1>1, <2>1, <2>2
  <2>4. Holds(s[p], q) /\ p \in 0 .. Len(s) /\ p # 0
    BY <2>1, <2>3 DEF Holds, Op, Pair
  <2>5. ASSUME NEW i \in p + 1 .. Len(s) PROVE Spares(s[i], q)
    <3>1. i \in 1 .. Len(s)
      OBVIOUS
    <3>2. PICK k \in moved : s[i] = Op("program", <<l, k>>)
      BY <1>1, <3>1
    <3> DEFINE u == <<l, k>>
    <3>3. u \in hoisted /\ u[1] = l /\ u[2] = k
      BY <3>2
    <3> HIDE DEF u
    <3>4. PICK h \in 1 .. N : u = <<l, h>> /\ On(l, TileOf(u)) = {h}
      BY <1>2, <3>3
    <3>5. TileOf(u) = TileOf(v) => u = v
      BY <2>2, <3>4
    <3> QED BY <2>1, <3>2, <3>5 DEF Spares, Op, Pair, u
  <2> QED BY <2>4, <2>5 DEF Available
<1> QED BY <1>3, <1>4 DEF Leads, s

\* The separation of blocks, on a set of loops with nothing to run.
Quiet(quiet) ==
  \A b \in Blocks :
    /\ b \in quiet => ~Placed(b)
    /\ Placed(b) \/ b \in quiet => \A i \in LoopItems(source, b) : source.body[b][i] \in quiet

LEMMA NothingToPlace ==
  ASSUME source \in Sources, NEW b \in Blocks, ~Placed(b)
  PROVE  /\ Programs(b) = {} /\ WeightsOf(b) = <<>>
         /\ \A i \in 1 .. Len(source.body[b]) : i \in LoopItems(source, b)
         /\ b \in Loops => Preheader(b) = <<>>
<1>1. WeightsOf(b) = <<>>
  BY DEF Placed
<1>2. Programs(b) = {}
  <2>1. \A i \in Programs(b) : Schedules!Nth(Programs(b), i) \in 1 .. 0
    BY <1>1, BlockWeights
  <2> QED BY <2>1
<1>3. ASSUME NEW i \in 1 .. Len(source.body[b]) PROVE i \in LoopItems(source, b)
  <2>1. i \in DOMAIN source.body[b]
    BY SourceFacts
  <2> QED BY <1>2, <2>1, SourceFacts DEF Programs
<1>4. ASSUME b \in Loops PROVE Preheader(b) = <<>>
  <2> DEFINE moved == {k \in 1 .. Len(WeightsOf(b)) : <<b, k>> \in hoisted}
  <2>1. moved = {}
    BY <1>1
  <2>2. Preheader(b) \in Seq(Ops) /\ Len(Preheader(b)) = Cardinality(moved)
    BY <1>4, PreheaderMembers
  <2> HIDE DEF moved
  <2>3. Cardinality(moved) = 0
    BY <2>1, FS_EmptySet
  <2> DEFINE s == Preheader(b)
  <2>4. s \in Seq(Ops) /\ Len(s) = 0
    BY <2>2, <2>3
  <2> HIDE DEF s
  <2>5. s = <<>>
    BY <2>4
  <2> QED BY <2>5 DEF s
<1> QED BY <1>1, <1>2, <1>3, <1>4

LEMMA EmptyFlatten ==
  ASSUME NEW X, NEW seqs \in Seq(Seq(X)), \A i \in 1 .. Len(seqs) : seqs[i] = <<>>
  PROVE  FlattenSeq(seqs) = <<>>
<1>1. {<<>>} \in SUBSET Seq(X) /\ <<>> \o <<>> = <<>>
  OBVIOUS
<1>2. FlattenSeq(seqs) \in {<<>>}
  <2> DEFINE P == {<<>>}
  <2>1. /\ P \in SUBSET Seq(X) /\ <<>> \in P /\ \A s, t \in P : s \o t \in P
        /\ \A i \in 1 .. Len(seqs) : seqs[i] \in P
    BY <1>1
  <2> HIDE DEF P
  <2>2. FlattenSeq(seqs) \in P
    BY <2>1, L!FlattenInduction, SameFlatten
  <2> QED BY <2>2 DEF P
<1> QED BY <1>2

LEMMA QuietItems ==
  ASSUME source \in Sources, NEW run, IsExecution(run), NEW quiet \in SUBSET Loops, Quiet(quiet)
  PROVE  \A b \in Blocks : \A i \in LoopItems(source, b) :
           source.body[b][i] \in quiet => Item(b, i, run) = <<>>
<1> DEFINE S == {b \in Blocks : b \in quiet => run[b] = <<>>}
<1>1. ASSUME NEW b \in Blocks, NEW i \in LoopItems(source, b), source.body[b][i] \in quiet,
             source.body[b][i] \in S
      PROVE  Item(b, i, run) = <<>>
  <2> DEFINE l == source.body[b][i]
             n == source.trip[l]
             seqs == [j \in 1 .. n |-> run[l]]
  <2>1. l \in Loops /\ l \in Blocks /\ run[l] = <<>> /\ source.trip[l] \in Nat /\ ~Placed(l)
    BY <1>1, SourceFacts DEF Quiet, Blocks
  <2>2. l \notin Weights
    BY <2>1
  <2> HIDE DEF l
  <2>3. Preheader(l) = <<>>
    BY <2>1, NothingToPlace
  <2>4. seqs \in Seq(Seq(Ops)) /\ \A j \in 1 .. Len(seqs) : seqs[j] = <<>>
    <3>1. n \in Nat /\ run[l] = <<>>
      BY <2>1
    <3> HIDE DEF n
    <3>2. run[l] \in Seq(Ops)
      BY <3>1
    <3>3. seqs \in Seq(Seq(Ops)) /\ Len(seqs) = n
      BY <3>1, <3>2
    <3> QED BY <3>1, <3>3
  <2> HIDE DEF seqs
  <2>5. Repeat(run[l], source.trip[l]) = <<>>
    <3>1. FlattenSeq(seqs) = <<>>
      BY <2>4, EmptyFlatten
    <3> QED BY <3>1 DEF Repeat, seqs
  <2>6. Item(b, i, run) = Preheader(l) \o Repeat(run[l], source.trip[l])
    BY <2>2 DEF Item, l
  <2>7. <<>> \o <<>> = <<>>
    OBVIOUS
  <2> QED BY <2>3, <2>5, <2>6, <2>7
<1>2. ASSUME NEW b \in Blocks, \A i \in LoopItems(source, b) : source.body[b][i] \in S
      PROVE  b \in S
  <2> SUFFICES ASSUME b \in quiet PROVE run[b] = <<>>
    OBVIOUS
  <2>1. ~Placed(b) /\ \A i \in LoopItems(source, b) : source.body[b][i] \in quiet
    BY DEF Quiet
  <2>2. \A i \in LoopItems(source, b) : Item(b, i, run) = <<>>
    BY <1>1, <1>2, <2>1
  <2>3. \A i \in LoopItems(source, b) : run[source.body[b][i]] \in Seq(Ops)
    BY DEF IsExecution, LoopItems, Blocks
  <2>4. /\ Items(b, run) \in Seq(Seq(Ops)) /\ Len(Items(b, run)) = Len(source.body[b])
        /\ \A i \in 1 .. Len(Items(b, run)) : Items(b, run)[i] = Item(b, i, run)
    BY <2>3, ItemsType
  <2>5. \A i \in 1 .. Len(source.body[b]) : i \in LoopItems(source, b)
    BY <2>1, NothingToPlace
  <2>6. \A i \in 1 .. Len(Items(b, run)) : Items(b, run)[i] = <<>>
    BY <2>2, <2>4, <2>5
  <2>7. FlattenSeq(Items(b, run)) = <<>>
    BY <2>4, <2>6, EmptyFlatten
  <2> QED BY <2>7 DEF IsExecution
<1> HIDE DEF S
<1>3. \A b \in Blocks : b \in S
  BY <1>2, TreeInduction
<1>4. \A b \in Blocks : \A i \in LoopItems(source, b) : source.body[b][i] \in Blocks
  BY DEF LoopItems, Blocks
<1> QED BY <1>1, <1>3, <1>4

\* A loop, with what stands before it, needs nothing on the tiles.
LEMMA LoopLeads ==
  ASSUME PassInv, phase # "placing", NEW l \in Loops, NEW s \in Seq(Ops),
         Leads(MovedPairs(l), s, MovedPairs(l))
  PROVE  Leads({}, Preheader(l) \o Repeat(s, source.trip[l]), {})
<1> DEFINE n == source.trip[l]
           before == Preheader(l)
           moved == MovedPairs(l)
<1>1. n \in Nat
  BY SourceFacts DEF PassInv
<1>2. before \in Seq(Ops)
  BY PreheaderMembers DEF PassInv
<1>3. Leads({}, before, moved)
  BY PreheaderLeads
<1> HIDE DEF n, before, moved
<1>4. Leads(moved, Repeat(s, n), moved)
  BY <1>1, LeadsRepeat DEF moved
<1>5. Repeat(s, n) \in Seq(Ops)
  BY <1>1, RepeatType
<1>6. Leads({}, before \o Repeat(s, n), moved)
  BY <1>2, <1>3, <1>4, <1>5, LeadsConcat
<1>7. Leads({}, before \o Repeat(s, n), {})
  BY <1>6, LeadsWeaken
<1> QED BY <1>7 DEF n, before

\* Where blocks are separate, every block finds its weights where what has left
\* it holds, and leaves that as it was.
LEMMA BlocksLead ==
  ASSUME PassInv, phase # "placing", SeparateBlocks, NEW run, IsExecution(run)
  PROVE  \A b \in Blocks : Leads(MovedPairs(b), run[b], MovedPairs(b))
<1> DEFINE S == {b \in Blocks : Leads(MovedPairs(b), run[b], MovedPairs(b))}
<1>0. source \in Sources
  BY DEF PassInv
<1>1. PICK quiet \in SUBSET Loops : Quiet(quiet)
  BY DEF SeparateBlocks, Quiet
<1>2. ASSUME NEW b \in Blocks, \A i \in LoopItems(source, b) : source.body[b][i] \in S
      PROVE  b \in S
  <2>1. CASE Placed(b)
    <3>1. \A i \in LoopItems(source, b) : source.body[b][i] \in quiet
      BY <1>1, <2>1 DEF Quiet
    <3>2. \A i \in LoopItems(source, b) : Item(b, i, run) = <<>>
      BY <1>0, <1>1, <3>1, QuietItems
    <3> QED BY <3>2, BlockLeads
  <2>2. CASE ~Placed(b)
    <3> DEFINE n == Len(source.body[b])
               seqs == Items(b, run)
               held == [i \in 0 .. n |-> {}]
    <3>1. \A i \in LoopItems(source, b) : run[source.body[b][i]] \in Seq(Ops)
      BY DEF IsExecution, LoopItems, Blocks
    <3>2. n \in Nat /\ \A i \in 1 .. n : i \in LoopItems(source, b)
      BY <1>0, <2>2, NothingToPlace, SourceFacts
    <3>3. /\ seqs \in Seq(Seq(Ops)) /\ Len(seqs) = n /\ \A i \in 1 .. n : seqs[i] = Item(b, i, run)
      BY <1>0, <3>1, ItemsType
    <3>4. run[b] = FlattenSeq(seqs)
      BY DEF IsExecution
    <3> HIDE DEF n, seqs
    <3>5. ASSUME NEW i \in 1 .. n PROVE Leads({}, seqs[i], {})
      <4> DEFINE l == source.body[b][i]
      <4>1. l \in Loops /\ l \notin Weights /\ l \in S
        BY <1>2, <3>2 DEF LoopItems
      <4>2. seqs[i] = Preheader(l) \o Repeat(run[l], source.trip[l])
        BY <3>3, <4>1 DEF Item
      <4>3. run[l] \in Seq(Ops) /\ Leads(MovedPairs(l), run[l], MovedPairs(l))
        BY <3>1, <3>2, <4>1
      <4> HIDE DEF l, S
      <4> QED BY <4>1, <4>2, <4>3, LoopLeads
    <3>6. \A i \in 1 .. n : held[i - 1] = {} /\ held[i] = {}
      BY <3>2
    <3>7. held[0] = {} /\ held[n] = {}
      BY <3>2
    <3> HIDE DEF held
    <3>8. Leads(held[0], FlattenSeq(seqs), held[n])
      BY <3>3, <3>5, <3>6, LeadsFlatten
    <3>9. MovedPairs(b) = {}
      <4>1. \A v \in hoisted : v[1] # b
        <5> SUFFICES ASSUME NEW v \in hoisted, v[1] = b PROVE FALSE
          OBVIOUS
        <5>1. WeightsOf(b) = <<>>
          BY <2>2 DEF Placed
        <5>2. \E j \in 1 .. Len(WeightsOf(b)) : v = <<b, j>>
          BY ScheduleFacts
        <5> QED BY <5>1, <5>2
      <4> QED BY <4>1 DEF MovedPairs
    <3> QED BY <3>4, <3>7, <3>8, <3>9
  <2> QED BY <2>1, <2>2
<1> HIDE DEF S
<1>3. \A b \in Blocks : b \in S
  BY <1>0, <1>2, TreeInduction
<1> QED BY <1>3 DEF S

\* The whole run finds its weights, on tiles that hold none.
LEMMA ExecutionCovered ==
  ASSUME PassInv, phase # "placing", SeparateBlocks
  PROVE  Covered(Execution, {})
<1>1. PICK run : IsExecution(run) /\ Execution = run[Entry]
  BY ExecutionRun DEF PassInv
<1>2. Entry \in Blocks
  BY DEF Blocks
<1>3. Covered(run[Entry], MovedPairs(Entry))
  BY <1>1, <1>2, BlocksLead DEF Leads
<1>4. MovedPairs(Entry) = {}
  <2>1. \A v \in hoisted : v[1] \in Loops
    BY DEF PassInv, Visited, MovedFrom
  <2>2. Entry \notin Loops
    BY DEF Entry
  <2> QED BY <2>1, <2>2 DEF MovedPairs
<1> QED BY <1>1, <1>3, <1>4
-----------------------------------------------------------------------------
(* The tiles, as the run goes on. *)

\* What the tiles hold.
Holding == {<<t, contents[t]>> : t \in Tiles}
Sound   == phase = "running" /\ SeparateBlocks => Covered(todo, Holding)

LEMMA CoveredHead ==
  ASSUME NEW s \in Seq(Ops), s # <<>>, NEW A, Covered(s, A)
  PROVE  Head(s).op = "mvm" => Pair(Head(s).use) \in A
<1> SUFFICES ASSUME Head(s).op = "mvm" PROVE Pair(Head(s).use) \in A
  OBVIOUS
<1>1. 1 \in 1 .. Len(s) /\ Head(s) = s[1]
  OBVIOUS
<1>2. Available(s, A, 0, Pair(Head(s).use))
  BY <1>1 DEF Covered
<1> QED BY <1>2 DEF Available

LEMMA CoveredTail ==
  ASSUME NEW s \in Seq(Ops), s # <<>>, NEW A, NEW B, Covered(s, A),
         \A u : (Pair(u) \in A /\ Spares(Head(s), Pair(u))) \/ Holds(Head(s), Pair(u)) => Pair(u) \in B
  PROVE  Covered(Tail(s), B)
<1> DEFINE t == Tail(s)
           n == Len(t)
<1>1. n \in Nat /\ Len(s) = n + 1 /\ Head(s) = s[1] /\ \A i \in 1 .. n : t[i] = s[i + 1]
  OBVIOUS
<1> HIDE DEF t, n
<1> SUFFICES ASSUME NEW k \in 1 .. n, t[k].op = "mvm" PROVE Available(t, B, k - 1, Pair(t[k].use))
  BY <1>1 DEF Covered, t, n
<1> DEFINE p == Pair(t[k].use)
<1>2. k \in Nat /\ k + 1 \in 1 .. Len(s) /\ s[k + 1] = t[k]
  BY <1>1
<1>p. (p \in A /\ Spares(Head(s), p)) \/ Holds(Head(s), p) => p \in B
  OBVIOUS
<1>3. Available(s, A, k, p)
  <2>1. Available(s, A, (k + 1) - 1, p)
    BY <1>2 DEF Covered
  <2> QED BY <1>2, <2>1
<1> HIDE DEF p
<1>4. PICK j \in 0 .. k : /\ IF j = 0 THEN p \in A ELSE Holds(s[j], p)
                          /\ \A i \in j + 1 .. k : Spares(s[i], p)
  BY <1>3 DEF Available
<1>5. \A i \in 1 .. k - 1 : i + 1 \in 1 .. k /\ t[i] = s[i + 1] /\ i \in Nat
  BY <1>1, <1>2
<1>6. CASE j \in {0, 1}
  <2>1. p \in B
    <3>1. CASE j = 0
      <4>1. 1 \in j + 1 .. k
        BY <1>2, <3>1
      <4> QED BY <1>1, <1>p, <1>4, <3>1, <4>1
    <3>2. CASE j = 1
      BY <1>1, <1>p, <1>4, <3>2
    <3> QED BY <1>6, <3>1, <3>2
  <2>2. \A i \in 0 + 1 .. k - 1 : i \in 1 .. k - 1 /\ i + 1 \in j + 1 .. k
    BY <1>2, <1>6
  <2>3. \A i \in 0 + 1 .. k - 1 : Spares(t[i], p)
    BY <1>4, <1>5, <2>2
  <2>4. 0 \in 0 .. k - 1
    BY <1>2
  <2> QED BY <2>1, <2>3, <2>4 DEF Available, p
<1>7. CASE j \notin {0, 1}
  <2>1. j - 1 \in 0 .. k - 1 /\ j - 1 # 0 /\ j - 1 \in 1 .. k - 1 /\ (j - 1) + 1 = j
    BY <1>2, <1>7
  <2>2. Holds(t[j - 1], p)
    BY <1>4, <1>5, <1>7, <2>1
  <2>3. \A i \in (j - 1) + 1 .. k - 1 : i \in 1 .. k - 1 /\ i + 1 \in j + 1 .. k
    BY <1>2, <1>7
  <2>4. \A i \in (j - 1) + 1 .. k - 1 : Spares(t[i], p)
    BY <1>4, <1>5, <2>3
  <2> QED BY <2>1, <2>2, <2>4 DEF Available, p
<1> QED BY <1>6, <1>7

LEMMA SameCovered ==
  ASSUME UNCHANGED <<source, schedule>>
  PROVE  /\ SeparateBlocks' <=> SeparateBlocks
         /\ Covered(todo', Holding') <=> Covered(todo, Holding)'
<1>1. SeparateBlocks' <=> SeparateBlocks
  BY DEF SeparateBlocks, Placed, WeightsOf, Programs, LoopItems
<1>2. Covered(todo', Holding') <=> Covered(todo, Holding)'
  BY DEF Covered, Available, Holds, Spares, Pair, TileOf, Weight, WeightsOf, Programs
<1> QED BY <1>1, <1>2

LEMMA SoundStep == PassInv /\ DeviceInv /\ Sound /\ [Next]_vars => Sound'
<1> SUFFICES ASSUME PassInv, DeviceInv, Sound, [Next]_vars, phase' = "running", SeparateBlocks'
             PROVE  Covered(todo, Holding)'
  BY DEF Sound
<1>1. CASE (\E b \in pending : PlaceBlock(b)) \/ StartHoisting \/ \E l \in pending : HoistLoop(l)
  BY <1>1 DEF PlaceBlock, StartHoisting, HoistLoop, pass
<1>2. CASE Start
  <2>1. UNCHANGED <<source, schedule>> /\ phase # "placing" /\ todo' = Execution
    BY <1>2 DEF Start, pass
  <2>2. Covered(Execution, {})
    BY <2>1, SameCovered, ExecutionCovered
  <2>3. Covered(Execution, Holding')
    BY <2>2 DEF Covered, Available
  <2> QED BY <2>1, <2>3, SameCovered
<1>3. CASE RunProgram \/ RunMvm
  <2> DEFINE u == Head(todo).use
  <2>1. /\ UNCHANGED <<source, numTiles, schedule>> /\ phase = "running"
        /\ todo # <<>> /\ todo' = Tail(todo)
    BY <1>3 DEF RunProgram, RunMvm, Runs, pass
  <2>2. Covered(todo, Holding) /\ todo \in Seq(Ops)
    BY <2>1, SameCovered DEF Sound, DeviceInv
  <2>3. TileOf(u) \in Tiles
    <3>1. u \in Uses
      <4>1. Head(todo) \in Ops
        BY <2>1, <2>2, CountHead
      <4> QED BY <4>1 DEF Ops
    <3>2. u = <<u[1], u[2]>> /\ u[1] \in Blocks /\ u[2] \in 1 .. Len(WeightsOf(u[1]))
      BY <3>1, UsesFacts DEF PassInv
    <3> QED BY <2>1, <3>2, ScheduleFacts
  <2>4. Tiles' = Tiles
    BY <2>1, SameChoice
  <2>5. ASSUME NEW v, (Pair(v) \in Holding /\ Spares(Head(todo), Pair(v))) \/ Holds(Head(todo), Pair(v))
        PROVE  Pair(v) \in Holding'
    <3> DEFINE t == TileOf(v)
               w == Weight(v)
    <3>1. Pair(v) = <<t, w>> /\ Pair(v)[1] = t /\ Pair(v)[2] = w
      BY DEF Pair
    <3> HIDE DEF t, w
    <3>2. CASE RunMvm
      <4>1. contents' = contents /\ Head(todo).op = "mvm"
        BY <3>2 DEF RunMvm, Runs
      <4>2. Pair(v) \in Holding
        BY <2>5, <4>1 DEF Holds
      <4> QED BY <2>4, <4>1, <4>2 DEF Holding
    <3>3. CASE RunProgram
      <4>1. contents' = [contents EXCEPT ![TileOf(u)] = Weight(u)] /\ Head(todo).op = "program"
        BY <3>3 DEF RunProgram, Runs
      <4>2. CASE TileOf(u) = t /\ Weight(u) = w
        <5>1. contents'[t] = w /\ t \in Tiles
          BY <2>3, <4>1, <4>2 DEF DeviceInv
        <5> QED BY <2>4, <3>1, <5>1 DEF Holding
      <4>3. CASE TileOf(u) # t \/ Weight(u) # w
        <5>1. <<t, w>> \in Holding /\ TileOf(u) # t
          BY <2>5, <3>1, <4>1, <4>3 DEF Holds, Spares
        <5>2. t \in Tiles /\ w = contents[t]
          BY <5>1 DEF Holding
        <5>3. contents'[t] = w
          BY <4>1, <5>1, <5>2 DEF DeviceInv
        <5> QED BY <2>4, <3>1, <5>2, <5>3 DEF Holding
      <4> QED BY <4>2, <4>3
    <3> QED BY <1>3, <3>2, <3>3
  <2>6. Covered(Tail(todo), Holding')
    BY <2>1, <2>2, <2>5, CoveredTail
  <2> QED BY <2>1, <2>6, SameCovered
<1>4. CASE UNCHANGED vars
  <2>1. UNCHANGED <<source, numTiles, schedule, phase, todo, contents>>
    BY <1>4 DEF vars, pass, device
  <2>2. Holding' = Holding
    BY <2>1, SameChoice DEF Holding
  <2>3. Covered(todo, Holding)
    BY <2>1, SameCovered DEF Sound
  <2> QED BY <2>1, <2>2, <2>3, SameCovered
<1> QED BY <1>1, <1>2, <1>3, <1>4 DEF Next

\* MvmFindsItsWeight, with what it takes: where no block has weights beside a
\* loop that has, an mvm finds on its tile the weight the source program gave
\* it, whatever was erased, renumbered or moved out of a loop.
THEOREM MvmsFindTheirWeights == Spec => [](SeparateBlocks => MvmFindsItsWeight)
<1>1. Init => Sound
  BY DEF Init, Sound
<1>2. IInv /\ Sound /\ [Next]_vars => Sound'
  BY SoundStep DEF IInv
<1>3. ASSUME IInv, Sound, SeparateBlocks, Runs("mvm")
      PROVE  contents[TileOf(Head(todo).use)] = Weight(Head(todo).use)
  <2>1. phase = "running" /\ todo # <<>> /\ Head(todo).op = "mvm" /\ todo \in Seq(Ops)
    BY <1>3 DEF Runs, IInv, DeviceInv
  <2>2. Pair(Head(todo).use) \in Holding
    BY <1>3, <2>1, CoveredHead DEF Sound
  <2> QED BY <2>2 DEF Holding, Pair
<1>4. IInv /\ Sound => (SeparateBlocks => MvmFindsItsWeight)
  BY <1>3 DEF MvmFindsItsWeight
<1> QED BY <1>1, <1>2, <1>4, AlwaysIInv, PTL DEF Spec
-----------------------------------------------------------------------------
(* How often what is emitted runs. *)

LEMMA CountRepeat ==
  ASSUME NEW X, NEW s \in Seq(X), NEW n \in Nat, NEW Q
  PROVE  CountIn(Repeat(s, n), Q) = n * CountIn(s, Q)
<1> DEFINE c == CountIn(s, Q)
           seqs == [i \in 1 .. n |-> s]
           sum == [i \in 0 .. n |-> i * c]
<1>1. c \in Nat
  BY CountType
<1>2. seqs \in Seq(Seq(X)) /\ Len(seqs) = n /\ \A i \in 1 .. n : CountIn(seqs[i], Q) = c
  OBVIOUS
<1> HIDE DEF c
<1>3. \A i \in 0 .. n : i * c \in Nat
  BY <1>1
<1>4. sum \in [0 .. n -> Nat]
  BY <1>3
<1>5. sum[0] = 0 /\ sum[n] = n * c
  BY <1>1
<1>6. ASSUME NEW i \in 1 .. n PROVE sum[i] = sum[i - 1] + c
  <2>1. i - 1 \in 0 .. n /\ i \in 0 .. n
    OBVIOUS
  <2>2. i * c = (i - 1) * c + c
    BY <1>1
  <2> QED BY <2>1, <2>2
<1> HIDE DEF seqs, sum
<1>7. CountIn(FlattenSeq(seqs), Q) = sum[Len(seqs)]
  <2>1. \A i \in 1 .. Len(seqs) : sum[i] = sum[i - 1] + CountIn(seqs[i], Q)
    BY <1>2, <1>6
  <2>2. sum \in [0 .. Len(seqs) -> Nat] /\ seqs \in Seq(Seq(X)) /\ sum[0] = 0
    BY <1>2, <1>4, <1>5
  <2> QED BY <2>1, <2>2, CountFlatten
<1> QED BY <1>2, <1>5, <1>7 DEF Repeat, seqs, c

\* The uses of a block whose programs have left it, and those whose have not.
MovedUses(b)   == {k \in 1 .. Len(WeightsOf(b)) : <<b, k>> \in hoisted}
StayingUses(b) == {k \in 1 .. Len(WeightsOf(b)) : Stays(<<b, k>>)}

LEMMA CountOne ==
  ASSUME NEW X, NEW x \in X, NEW Q
  PROVE  CountIn(<<x>>, Q) = IF x \in Q THEN 1 ELSE 0
<1> DEFINE s == <<x>>
           t == <<>>
<1>1. s \in Seq(X) /\ s # <<>> /\ Head(s) = x /\ Tail(s) = t
  OBVIOUS
<1>2. t \in Seq(X) /\ \A k \in 1 .. Len(t) : t[k] \notin Q
  OBVIOUS
<1> HIDE DEF s, t
<1>3. CountIn(s, Q) = CountIn(t, Q) + (IF x \in Q THEN 1 ELSE 0)
  <2>1. CountIn(s, Q) = CountIn(Tail(s), Q) + (IF Head(s) \in Q THEN 1 ELSE 0)
    BY <1>1, CountHead
  <2> QED BY <1>1, <2>1
<1>4. CountIn(t, Q) = 0
  BY <1>2, CountOfNone
<1> QED BY <1>3, <1>4 DEF s

LEMMA TwoInARow ==
  ASSUME NEW X, NEW x \in X, NEW y \in X
  PROVE  <<x>> \in Seq(X) /\ <<y>> \in Seq(X) /\ <<x, y>> = <<x>> \o <<y>>
<1> DEFINE s == <<x>>
           t == <<y>>
           c == s \o t
<1>1. ASSUME NEW a \in Seq(X), NEW b \in Seq(X)
      PROVE  /\ a \o b \in Seq(X) /\ Len(a \o b) = Len(a) + Len(b)
             /\ \A i \in 1 .. Len(a) : (a \o b)[i] = a[i]
             /\ \A i \in 1 .. Len(b) : (a \o b)[Len(a) + i] = b[i]
  OBVIOUS
<1>2. s \in Seq(X) /\ t \in Seq(X) /\ Len(s) = 1 /\ Len(t) = 1 /\ s[1] = x /\ t[1] = y
  OBVIOUS
<1> HIDE DEF s, t
<1>3. /\ c \in Seq(X) /\ Len(c) = Len(s) + Len(t)
      /\ \A i \in 1 .. Len(s) : c[i] = s[i]
      /\ \A i \in 1 .. Len(t) : c[Len(s) + i] = t[i]
  BY <1>1, <1>2
<1> HIDE DEF c
<1>4. c[1] = x /\ c[1 + 1] = y
  BY <1>2, <1>3
<1>5. c = <<x, y>>
  BY <1>2, <1>3, <1>4
<1> QED BY <1>2, <1>5 DEF c, s, t

\* A use runs one mvm, and its program unless it was erased or moved.
LEMMA CountRewritten ==
  ASSUME source \in Sources, NEW b \in Blocks, NEW k \in 1 .. Len(WeightsOf(b)), NEW c
  PROVE  /\ Rewritten(<<b, k>>) \in Seq(Ops)
         /\ CountIn(Rewritten(<<b, k>>), OpsOf("mvm", c)) = IF c = b THEN 1 ELSE 0
         /\ CountIn(Rewritten(<<b, k>>), OpsOf("program", c)) =
              IF c = b /\ k \in StayingUses(b) THEN 1 ELSE 0
<1> DEFINE u == <<b, k>>
           e == Op("program", u)
           f == Op("mvm", u)
           P == OpsOf("program", c)
           M == OpsOf("mvm", c)
<1>1. u \in Uses /\ u[1] = b
  BY UsesFacts
<1>2. e \in Ops /\ f \in Ops /\ (e \in P <=> c = b) /\ f \notin P /\ e \notin M /\ (f \in M <=> c = b)
  BY <1>1 DEF Ops, Op, OpsOf
<1>3. Rewritten(u) = IF Stays(u) THEN <<e, f>> ELSE <<f>>
  BY DEF Rewritten, Stays
<1>4. k \in StayingUses(b) <=> Stays(u)
  BY DEF StayingUses
<1> HIDE DEF u, e, f, P, M
<1>5. <<e>> \in Seq(Ops) /\ <<f>> \in Seq(Ops) /\ <<e, f>> = <<e>> \o <<f>>
  <2>1. e \in Ops /\ f \in Ops
    BY <1>2
  <2> QED BY <2>1, TwoInARow
<1>6. /\ CountIn(<<e>>, P) = (IF e \in P THEN 1 ELSE 0) /\ CountIn(<<f>>, P) = 0
      /\ CountIn(<<e>>, M) = 0 /\ CountIn(<<f>>, M) = IF f \in M THEN 1 ELSE 0
  BY <1>2, CountOne
<1>7. \A Q : CountIn(<<e>> \o <<f>>, Q) = CountIn(<<e>>, Q) + CountIn(<<f>>, Q)
  BY <1>5, CountConcat
<1>8. CASE Stays(u)
  <2>1. Rewritten(u) = <<e>> \o <<f>>
    BY <1>3, <1>5, <1>8
  <2>2. /\ CountIn(Rewritten(u), P) = CountIn(<<e>>, P) + CountIn(<<f>>, P)
        /\ CountIn(Rewritten(u), M) = CountIn(<<e>>, M) + CountIn(<<f>>, M)
    BY <1>7, <2>1
  <2>3. Rewritten(u) \in Seq(Ops)
    BY <1>5, <2>1
  <2>4. /\ CountIn(Rewritten(u), P) = IF c = b THEN 1 ELSE 0
        /\ CountIn(Rewritten(u), M) = IF c = b THEN 1 ELSE 0
    BY <1>2, <1>6, <2>2
  <2> QED BY <1>4, <1>8, <2>3, <2>4 DEF u, P, M
<1>9. CASE ~Stays(u)
  <2>1. Rewritten(u) = <<f>>
    BY <1>3, <1>9
  <2>2. /\ CountIn(Rewritten(u), P) = 0
        /\ CountIn(Rewritten(u), M) = IF c = b THEN 1 ELSE 0
    BY <1>2, <1>6, <2>1
  <2> QED BY <1>4, <1>5, <1>9, <2>1, <2>2 DEF u, P, M
<1> QED BY <1>8, <1>9

LEMMA CountOfAll ==
  ASSUME NEW X, NEW s \in Seq(X), NEW Q, \A k \in 1 .. Len(s) : s[k] \in Q
  PROVE  CountIn(s, Q) = Len(s)
<1> DEFINE n == Len(s)
<1>1. n \in Nat /\ WhereIn(s, Q) = 1 .. n
  BY DEF WhereIn
<1> HIDE DEF n
<1>2. Cardinality(1 .. n) = n
  BY <1>1, FS_Interval
<1> QED BY <1>1, <1>2 DEF CountIn, n

\* What stands before a loop is one program of it for each use it has moved.
LEMMA CountPreheader ==
  ASSUME source \in Sources, NEW l \in Loops, NEW c
  PROVE  /\ Preheader(l) \in Seq(Ops) /\ Cardinality(MovedUses(l)) \in Nat
         /\ CountIn(Preheader(l), OpsOf("mvm", c)) = 0
         /\ CountIn(Preheader(l), OpsOf("program", c)) = IF c = l THEN Cardinality(MovedUses(l)) ELSE 0
<1> DEFINE s == Preheader(l)
<1>1. /\ s \in Seq(Ops) /\ Len(s) = Cardinality(MovedUses(l)) /\ Cardinality(MovedUses(l)) \in Nat
      /\ \A p \in 1 .. Len(s) : \E k \in MovedUses(l) : s[p] = Op("program", <<l, k>>)
  BY PreheaderMembers, Zenon DEF MovedUses
<1> HIDE DEF s
<1>2. ASSUME NEW p \in 1 .. Len(s)
      PROVE  s[p] \notin OpsOf("mvm", c) /\ (s[p] \in OpsOf("program", c) <=> c = l)
  <2>1. PICK k \in MovedUses(l) : s[p] = Op("program", <<l, k>>)
    BY <1>1
  <2>2. s[p] \in Ops
    BY <1>1
  <2> QED BY <2>1, <2>2 DEF OpsOf, Op
<1>3. CountIn(s, OpsOf("mvm", c)) = 0
  BY <1>1, <1>2, CountOfNone
<1>4. CASE c = l
  <2>1. CountIn(s, OpsOf("program", c)) = Len(s)
    BY <1>1, <1>2, <1>4, CountOfAll
  <2> QED BY <1>1, <1>3, <1>4, <2>1 DEF s
<1>5. CASE c # l
  <2>1. CountIn(s, OpsOf("program", c)) = 0
    BY <1>1, <1>2, <1>5, CountOfNone
  <2> QED BY <1>1, <1>3, <1>5, <2>1 DEF s
<1> QED BY <1>4, <1>5

\* What a loop or a block runs is its own, or that of loops within it.
LEMMA OnlyLater ==
  ASSUME source \in Sources, NEW run, IsExecution(run)
  PROVE  \A b \in Blocks : \A p \in 1 .. Len(run[b]) : run[b][p].use[1] >= b
<1> DEFINE From(b) == {s \in Seq(Ops) : \A p \in 1 .. Len(s) : s[p].use[1] >= b}
           S == {b \in Blocks : run[b] \in From(b)}
<1>1. Blocks \in SUBSET Nat
  BY DEF Blocks, Entry
<1>2. \A e \in Ops : e.use[1] \in Blocks /\ e.use[1] \in Nat
  BY <1>1, UsesFacts DEF Ops
<1>3. ASSUME NEW b \in Blocks, NEW s \in From(b), NEW t \in From(b) PROVE s \o t \in From(b)
  <2>1. /\ s \o t \in Seq(Ops) /\ Len(s \o t) = Len(s) + Len(t) /\ Len(s) \in Nat /\ Len(t) \in Nat
        /\ \A p \in 1 .. Len(s) : (s \o t)[p] = s[p]
        /\ \A p \in 1 .. Len(t) : (s \o t)[Len(s) + p] = t[p]
    OBVIOUS
  <2>2. ASSUME NEW p \in 1 .. Len(s) + Len(t) PROVE (s \o t)[p].use[1] >= b
    <3>1. CASE p <= Len(s)
      BY <2>1, <3>1
    <3>2. CASE ~(p <= Len(s))
      <4>1. p - Len(s) \in 1 .. Len(t) /\ Len(s) + (p - Len(s)) = p
        BY <2>1, <3>2
      <4>2. (s \o t)[p] = t[p - Len(s)]
        BY <2>1, <4>1
      <4> QED BY <4>1, <4>2
    <3> QED BY <3>1, <3>2
  <2> QED BY <2>1, <2>2
<1>4. \A b \in Blocks : <<>> \in From(b) /\ From(b) \in SUBSET Seq(Ops)
  OBVIOUS
<1> HIDE DEF From
<1>5. ASSUME NEW b \in Blocks, NEW seqs \in Seq(Seq(Ops)), \A i \in 1 .. Len(seqs) : seqs[i] \in From(b)
      PROVE  FlattenSeq(seqs) \in From(b)
  BY <1>3, <1>4, <1>5, L!FlattenInduction, SameFlatten
<1>6. ASSUME NEW b \in Blocks, \A i \in LoopItems(source, b) : source.body[b][i] \in S
      PROVE  b \in S
  <2> DEFINE seqs == Items(b, run)
             n == Len(source.body[b])
  <2>1. \A i \in LoopItems(source, b) : run[source.body[b][i]] \in Seq(Ops)
    BY DEF IsExecution, LoopItems, Blocks
  <2>2. /\ seqs \in Seq(Seq(Ops)) /\ Len(seqs) = n /\ \A i \in 1 .. n : seqs[i] = Item(b, i, run)
    BY <2>1, ItemsType
  <2>3. run[b] = FlattenSeq(seqs)
    BY DEF IsExecution
  <2>4. DOMAIN source.body[b] = 1 .. n
    BY SourceFacts
  <2> HIDE DEF seqs, n
  <2>5. ASSUME NEW i \in 1 .. n PROVE seqs[i] \in From(b)
    <3>1. CASE source.body[b][i] \in Weights
      <4> DEFINE k == Schedules!Nth(Programs(b), i)
                 s == Rewritten(<<b, k>>)
      <4>1. i \in Programs(b)
        BY <2>4, <3>1 DEF Programs
      <4>2. k \in 1 .. Len(WeightsOf(b)) /\ seqs[i] = s
        BY <2>2, <3>1, <4>1, BlockWeights DEF Item
      <4> HIDE DEF k
      <4>3. s \in Seq(Ops)
        BY <4>2, CountRewritten
      <4>4. \A p \in 1 .. Len(s) : s[p].use[1] = b
        BY DEF Rewritten, Op
      <4> HIDE DEF s
      <4>5. \A p \in 1 .. Len(s) : s[p].use[1] >= b
        BY <1>1, <4>4
      <4> QED BY <4>2, <4>3, <4>5 DEF From
    <3>2. CASE source.body[b][i] \notin Weights
      <4> DEFINE l == source.body[b][i]
                 m == source.trip[l]
      <4>1. i \in LoopItems(source, b) /\ l \in Loops /\ l \in Blocks /\ b < l
        BY <2>4, <3>2, SourceFacts DEF Blocks
      <4>2. seqs[i] = Preheader(l) \o Repeat(run[l], m) /\ m \in Nat
        BY <2>2, <3>2, <4>1, SourceFacts DEF Item
      <4>3. run[l] \in From(l)
        BY <1>6, <4>1
      <4> HIDE DEF l, m
      <4>4. ASSUME NEW s \in From(l) PROVE s \in From(b)
        <5>1. s \in Seq(Ops) /\ \A p \in 1 .. Len(s) : s[p].use[1] >= l /\ s[p] \in Ops
          BY <4>4 DEF From
        <5>2. \A p \in 1 .. Len(s) : s[p].use[1] >= b
          BY <1>1, <1>2, <4>1, <5>1
        <5> QED BY <5>1, <5>2 DEF From
      <4>5. Preheader(l) \in From(l)
        <5> DEFINE s == Preheader(l)
        <5>1. /\ s \in Seq(Ops)
              /\ \A p \in 1 .. Len(s) : \E k \in MovedUses(l) : s[p] = Op("program", <<l, k>>)
          BY <4>1, PreheaderMembers, Zenon DEF MovedUses
        <5> HIDE DEF s
        <5>2. ASSUME NEW p \in 1 .. Len(s) PROVE s[p].use[1] >= l
          <6>1. PICK k \in MovedUses(l) : s[p] = Op("program", <<l, k>>)
            BY <5>1
          <6>2. s[p].use[1] = l
            BY <6>1 DEF Op
          <6>3. l >= l
            BY <1>1, <4>1
          <6> QED BY <6>2, <6>3
        <5> QED BY <5>1, <5>2 DEF From, s
      <4>6. Repeat(run[l], m) \in From(l)
        <5> DEFINE r == run[l]
                   again == [j \in 1 .. m |-> r]
        <5>1. r \in Seq(Ops) /\ r \in From(l)
          BY <1>4, <4>1, <4>3
        <5> HIDE DEF r
        <5>2. again \in Seq(Seq(Ops)) /\ Len(again) = m /\ \A j \in 1 .. m : again[j] \in From(l)
          BY <4>2, <5>1
        <5> HIDE DEF again
        <5>3. FlattenSeq(again) \in From(l)
          BY <1>5, <4>1, <5>2
        <5> QED BY <5>3 DEF Repeat, again, r
      <4> QED BY <1>3, <4>1, <4>2, <4>4, <4>5, <4>6
    <3> QED BY <3>1, <3>2
  <2>6. FlattenSeq(seqs) \in From(b)
    BY <1>5, <2>2, <2>5
  <2> QED BY <2>3, <2>6
<1> HIDE DEF S
<1>7. \A b \in Blocks : b \in S
  BY <1>6, TreeInduction
<1> QED BY <1>7 DEF S, From

\* What a loop inside a block adds to a run is nothing of the block's own.
LEMMA InnerCount ==
  ASSUME source \in Sources, NEW run, IsExecution(run), NEW b \in Blocks, NEW i \in LoopItems(source, b)
  PROVE  /\ Item(b, i, run) \in Seq(Ops)
         /\ \A op : CountIn(Item(b, i, run), OpsOf(op, b)) = 0
<1> DEFINE l == source.body[b][i]
           m == source.trip[l]
<1>0. Blocks \in SUBSET Nat /\ Loops \in SUBSET Blocks
  BY DEF Blocks, Entry
<1>1. l \in Loops /\ l \in Blocks /\ l # b /\ b < l /\ m \in Nat
  <2>1. l \in Loops /\ b < l
    BY SourceFacts DEF LoopItems
  <2>2. m \in Nat
    BY <2>1, SourceFacts
  <2>3. l # b
    BY <1>0, <2>1
  <2> QED BY <1>0, <2>1, <2>2, <2>3
<1>2. Item(b, i, run) = Preheader(l) \o Repeat(run[l], m)
  BY <1>1 DEF Item
<1>3. run[l] \in Seq(Ops) /\ \A p \in 1 .. Len(run[l]) : run[l][p].use[1] >= l
  BY <1>1, OnlyLater DEF IsExecution
<1>4. b \in Nat /\ l \in Nat
  BY <1>0, <1>1
<1> HIDE DEF l, m
<1> DEFINE r == run[l]
           before == Preheader(l)
<1>5. before \in Seq(Ops) /\ \A op \in {"program", "mvm"} : CountIn(before, OpsOf(op, b)) = 0
  BY <1>1, CountPreheader
<1>6. r \in Seq(Ops) /\ \A op : CountIn(r, OpsOf(op, b)) = 0
  <2> SUFFICES ASSUME NEW op PROVE r \in Seq(Ops) /\ CountIn(r, OpsOf(op, b)) = 0
    OBVIOUS
  <2>1. \A p \in 1 .. Len(r) : r[p] \notin OpsOf(op, b)
    <3> SUFFICES ASSUME NEW p \in 1 .. Len(r), r[p].use[1] = b PROVE FALSE
      BY DEF OpsOf
    <3> QED BY <1>1, <1>3, <1>4
  <2> QED BY <1>3, <2>1, CountOfNone
<1> HIDE DEF r, before
<1>7. Repeat(r, m) \in Seq(Ops) /\ \A op : CountIn(Repeat(r, m), OpsOf(op, b)) = 0
  <2>1. Repeat(r, m) \in Seq(Ops)
    BY <1>1, <1>6, RepeatType
  <2>2. ASSUME NEW op PROVE CountIn(Repeat(r, m), OpsOf(op, b)) = 0
    <3>1. CountIn(Repeat(r, m), OpsOf(op, b)) = m * 0
      BY <1>1, <1>6, CountRepeat
    <3> QED BY <1>1, <3>1
  <2> QED BY <2>1, <2>2
<1>8. before \o Repeat(r, m) \in Seq(Ops)
  BY <1>5, <1>7
<1>9. ASSUME NEW op PROVE CountIn(before \o Repeat(r, m), OpsOf(op, b)) = 0
  <2>1. CASE op \in {"program", "mvm"}
    <3>1. CountIn(before \o Repeat(r, m), OpsOf(op, b)) =
            CountIn(before, OpsOf(op, b)) + CountIn(Repeat(r, m), OpsOf(op, b))
      BY <1>5, <1>7, CountConcat
    <3> QED BY <1>5, <1>7, <2>1, <3>1
  <2>2. CASE op \notin {"program", "mvm"}
    <3>1. OpsOf(op, b) = {}
      BY <2>2 DEF OpsOf, Ops
    <3> QED BY <1>8, <3>1, CountOfNone
  <2> QED BY <2>1, <2>2
<1> QED BY <1>2, <1>8, <1>9 DEF before, r

\* A block runs the mvm of each of its uses once, and the programs that stay.
LEMMA CountBlock ==
  ASSUME source \in Sources, NEW run, IsExecution(run), NEW b \in Blocks
  PROVE  /\ CountIn(run[b], OpsOf("mvm", b)) = Len(WeightsOf(b))
         /\ CountIn(run[b], OpsOf("program", b)) = Cardinality(StayingUses(b))
<1> DEFINE at == Programs(b)
           n == Len(source.body[b])
           N == Len(WeightsOf(b))
           stay == StayingUses(b)
           nth(i) == Schedules!Nth(at, i)
           upTo(k) == Schedules!Nth(stay, k)
           seqs == Items(b, run)
           mvms == [i \in 0 .. n |-> nth(i)]
           programs == [i \in 0 .. n |-> upTo(nth(i))]
<1>1. /\ at \in SUBSET (1 .. n) /\ n \in Nat /\ N \in Nat /\ N = Cardinality(at)
      /\ \A i \in at : nth(i) \in 1 .. N
  BY BlockWeights
<1>2. stay \in SUBSET (1 .. N)
  BY DEF StayingUses
<1>3. \A i \in LoopItems(source, b) : run[source.body[b][i]] \in Seq(Ops)
  BY DEF IsExecution, LoopItems, Blocks
<1>4. /\ seqs \in Seq(Seq(Ops)) /\ Len(seqs) = n /\ \A i \in 1 .. n : seqs[i] = Item(b, i, run)
  BY <1>3, ItemsType
<1>5. DOMAIN source.body[b] = 1 .. n
  BY SourceFacts
<1>6. \A i \in 1 .. n : /\ i \in at <=> source.body[b][i] \in Weights
                        /\ i \notin at => i \in LoopItems(source, b)
  <2>1. \A i \in 1 .. n : i \in at <=> source.body[b][i] \in Weights
    BY <1>5 DEF Programs
  <2>2. \A i \in 1 .. n : source.body[b][i] \notin Weights => i \in LoopItems(source, b)
    BY <1>5, SourceFacts
  <2> QED BY <2>1, <2>2
<1> HIDE DEF at, n, N, stay, nth, upTo
<1>7. /\ nth(0) = 0 /\ nth(n) = N
      /\ \A i \in 0 .. n - 1 : nth(i + 1) = nth(i) + (IF i + 1 \in at THEN 1 ELSE 0)
      /\ \A i \in 0 .. n : nth(i) \in Nat
  <2>1. \A i : nth(i) = L!Nth(at, i)
    BY SameFunctions DEF nth
  <2>2. /\ L!Nth(at, 0) = 0 /\ L!Nth(at, n) = L!Cardinality(at)
        /\ \A i \in 0 .. n - 1 : L!Nth(at, i + 1) = L!Nth(at, i) + (IF i + 1 \in at THEN 1 ELSE 0)
        /\ \A i \in 0 .. n : L!Nth(at, i) \in Nat
    BY <1>1, L!NthSteps
  <2> QED BY <1>1, <2>1, <2>2, SameCounting
<1>8. /\ upTo(0) = 0 /\ upTo(N) = Cardinality(stay)
      /\ \A k \in 0 .. N - 1 : upTo(k + 1) = upTo(k) + (IF k + 1 \in stay THEN 1 ELSE 0)
      /\ \A k \in 0 .. N : upTo(k) \in Nat
  <2>1. \A k : upTo(k) = L!Nth(stay, k)
    BY SameFunctions DEF upTo
  <2>2. /\ L!Nth(stay, 0) = 0 /\ L!Nth(stay, N) = L!Cardinality(stay)
        /\ \A k \in 0 .. N - 1 : L!Nth(stay, k + 1) = L!Nth(stay, k) + (IF k + 1 \in stay THEN 1 ELSE 0)
        /\ \A k \in 0 .. N : L!Nth(stay, k) \in Nat
    BY <1>1, <1>2, L!NthSteps
  <2> QED BY <2>1, <2>2, SameCounting
<1>9. \A i \in 0 .. n : nth(i) \in 0 .. N /\ upTo(nth(i)) \in Nat
  <2> SUFFICES ASSUME NEW i \in 0 .. n PROVE nth(i) \in 0 .. N
    BY <1>8
  <2>1. IsFiniteSet(at)
    <3> DEFINE I == 1 .. n
    <3>1. IsFiniteSet(I)
      <4>1. 1 \in Int /\ n \in Int
        BY <1>1
      <4> QED BY <4>1, FS_Interval
    <3>2. at \in SUBSET I
      BY <1>1
    <3> HIDE DEF I
    <3> QED BY <3>1, <3>2, FS_Subset
  <2> DEFINE first == {j \in at : j <= i}
  <2>2. first \in SUBSET at
    OBVIOUS
  <2> HIDE DEF first
  <2>3. Cardinality(first) <= N
    BY <1>1, <2>1, <2>2, FS_Subset
  <2>4. nth(i) = Cardinality(first)
    BY SameCounting DEF nth, first, Schedules!Nth
  <2> QED BY <1>1, <1>7, <2>3, <2>4
<1>10. ASSUME NEW i \in 1 .. n
      PROVE  /\ CountIn(seqs[i], OpsOf("mvm", b)) = nth(i) - nth(i - 1)
             /\ CountIn(seqs[i], OpsOf("program", b)) = upTo(nth(i)) - upTo(nth(i - 1))
  <2>0. i - 1 \in 0 .. n - 1 /\ i - 1 \in 0 .. n /\ i \in 0 .. n /\ (i - 1) + 1 = i
    BY <1>1
  <2>1. nth(i) = nth(i - 1) + (IF i \in at THEN 1 ELSE 0) /\ nth(i) \in Nat /\ nth(i - 1) \in Nat
    BY <1>7, <2>0
  <2>2. CASE i \in at
    <3> DEFINE k == nth(i)
    <3>1. k \in 1 .. N /\ nth(i - 1) = k - 1
      BY <1>1, <2>1, <2>2
    <3>2. seqs[i] = Rewritten(<<b, k>>)
      BY <1>4, <1>6, <2>2 DEF Item, nth, at
    <3> HIDE DEF k
    <3>3. /\ CountIn(Rewritten(<<b, k>>), OpsOf("mvm", b)) = 1
          /\ CountIn(Rewritten(<<b, k>>), OpsOf("program", b)) = IF k \in stay THEN 1 ELSE 0
      BY <3>1, CountRewritten DEF N, stay
    <3>4. k - 1 \in 0 .. N - 1 /\ k - 1 \in 0 .. N /\ k \in 0 .. N /\ (k - 1) + 1 = k
      BY <1>1, <3>1
    <3>5. upTo(k) = upTo(k - 1) + (IF k \in stay THEN 1 ELSE 0) /\ upTo(k) \in Nat /\ upTo(k - 1) \in Nat
      BY <1>8, <3>4
    <3> QED BY <2>1, <3>1, <3>2, <3>3, <3>5 DEF k
  <2>3. CASE i \notin at
    <3>1. i \in LoopItems(source, b)
      BY <1>6, <2>3
    <3>2. seqs[i] = Item(b, i, run)
      BY <1>4
    <3>3. /\ CountIn(seqs[i], OpsOf("mvm", b)) = 0
          /\ CountIn(seqs[i], OpsOf("program", b)) = 0
      BY <3>1, <3>2, InnerCount
    <3>4. nth(i) = nth(i - 1)
      BY <2>1, <2>3
    <3> QED BY <1>9, <2>0, <2>1, <3>3, <3>4
  <2> QED BY <2>2, <2>3
<1>11. /\ mvms \in [0 .. n -> Nat] /\ mvms[0] = 0 /\ mvms[n] = N
       /\ programs \in [0 .. n -> Nat] /\ programs[0] = 0 /\ programs[n] = Cardinality(stay)
       /\ \A i \in 0 .. n : mvms[i] = nth(i) /\ programs[i] = upTo(nth(i))
  BY <1>1, <1>7, <1>8, <1>9
<1> HIDE DEF mvms, programs, seqs
<1>12. \A i \in 1 .. n : /\ mvms[i] = mvms[i - 1] + CountIn(seqs[i], OpsOf("mvm", b))
                         /\ programs[i] = programs[i - 1] + CountIn(seqs[i], OpsOf("program", b))
  <2> SUFFICES ASSUME NEW i \in 1 .. n
               PROVE  /\ mvms[i] = mvms[i - 1] + CountIn(seqs[i], OpsOf("mvm", b))
                      /\ programs[i] = programs[i - 1] + CountIn(seqs[i], OpsOf("program", b))
    OBVIOUS
  <2>1. i - 1 \in 0 .. n /\ i \in 0 .. n
    BY <1>1
  <2>2. /\ mvms[i] = nth(i) /\ programs[i] = upTo(nth(i))
        /\ mvms[i - 1] = nth(i - 1) /\ programs[i - 1] = upTo(nth(i - 1))
        /\ mvms[i] \in Nat /\ programs[i] \in Nat /\ mvms[i - 1] \in Nat /\ programs[i - 1] \in Nat
    BY <1>11, <2>1
  <2> QED BY <1>10, <2>2
<1>16. /\ mvms \in [0 .. Len(seqs) -> Nat] /\ mvms[0] = 0
       /\ \A i \in 1 .. Len(seqs) : mvms[i] = mvms[i - 1] + CountIn(seqs[i], OpsOf("mvm", b))
  BY <1>4, <1>11, <1>12
<1>17. /\ programs \in [0 .. Len(seqs) -> Nat] /\ programs[0] = 0
       /\ \A i \in 1 .. Len(seqs) : programs[i] = programs[i - 1] + CountIn(seqs[i], OpsOf("program", b))
  BY <1>4, <1>11, <1>12
<1>18. seqs \in Seq(Seq(Ops))
  BY <1>4
<1>13. CountIn(FlattenSeq(seqs), OpsOf("mvm", b)) = mvms[Len(seqs)]
  BY <1>16, <1>18, CountFlatten
<1>14. CountIn(FlattenSeq(seqs), OpsOf("program", b)) = programs[Len(seqs)]
  BY <1>17, <1>18, CountFlatten
<1>15. run[b] = FlattenSeq(seqs)
  BY DEF IsExecution, seqs
<1> QED BY <1>4, <1>11, <1>13, <1>14, <1>15 DEF N, stay

\* The programs that have left a loop and those that stay are some of its uses,
\* and if any has left it the loop runs.
LEMMA MovedAndStaying ==
  ASSUME PassInv, phase # "placing", NEW b \in Blocks
  PROVE  /\ Len(WeightsOf(b)) \in Nat
         /\ Cardinality(MovedUses(b)) \in Nat /\ Cardinality(StayingUses(b)) \in Nat
         /\ Cardinality(MovedUses(b)) + Cardinality(StayingUses(b)) <= Len(WeightsOf(b))
         /\ b \in Loops /\ Cardinality(MovedUses(b)) # 0 => source.trip[b] # 0
<1> DEFINE N == Len(WeightsOf(b))
           moved == MovedUses(b)
           stay == StayingUses(b)
<1>1. N \in Nat
  BY ScheduleFacts
<1>2. moved \in SUBSET (1 .. N) /\ stay \in SUBSET (1 .. N) /\ moved \cap stay = {}
  BY DEF MovedUses, StayingUses, Stays
<1>3. ASSUME b \in Loops, moved # {} PROVE source.trip[b] # 0
  <2>1. PICK k \in 1 .. N : <<b, k>> \in hoisted
    BY <1>3 DEF MovedUses
  <2> DEFINE u == <<b, k>>
  <2>2. HoistsFrom(u[1]) /\ u[1] = b
    BY <2>1, Emitted
  <2>3. source.trip[b] \in Nat
    BY <1>3, SourceFacts DEF PassInv
  <2> QED BY <2>2, <2>3 DEF HoistsFrom
<1> HIDE DEF N, moved, stay
<1> DEFINE I == 1 .. N
<1>4. /\ IsFiniteSet(I) /\ Cardinality(I) = N
      /\ moved \in SUBSET I /\ stay \in SUBSET I /\ moved \cup stay \in SUBSET I
  BY <1>1, <1>2, FS_Interval
<1> HIDE DEF I
<1>5. IsFiniteSet(moved) /\ IsFiniteSet(stay) /\ IsFiniteSet(moved \cup stay)
  BY <1>4, FS_Subset
<1>6. Cardinality(moved \cup stay) = Cardinality(moved) + Cardinality(stay) - Cardinality(moved \cap stay)
  BY <1>5, FS_Union
<1>7. Cardinality(moved \cap stay) = 0
  BY <1>2, FS_EmptySet
<1>8. Cardinality(moved \cup stay) <= N
  BY <1>4, FS_Subset
<1>9. Cardinality(moved) \in Nat /\ Cardinality(stay) \in Nat
  BY <1>5, FS_CardinalityType
<1>10. Cardinality(moved) # 0 => moved # {}
  BY FS_EmptySet
<1>11. Cardinality(moved) + Cardinality(stay) <= N
  BY <1>1, <1>6, <1>7, <1>8, <1>9
<1> QED BY <1>1, <1>3, <1>9, <1>10, <1>11 DEF N, moved, stay

\* A loop runs what has left it once and what stays in every iteration.
LEMMA CountLoop ==
  ASSUME PassInv, phase # "placing", NEW run, IsExecution(run), NEW l \in Loops
  PROVE  LET s == Preheader(l) \o Repeat(run[l], source.trip[l])
         IN /\ s \in Seq(Ops)
            /\ CountIn(s, OpsOf("mvm", l)) = source.trip[l] * Len(WeightsOf(l))
            /\ CountIn(s, OpsOf("program", l)) =
                 Cardinality(MovedUses(l)) + source.trip[l] * Cardinality(StayingUses(l))
<1> DEFINE n == source.trip[l]
           before == Preheader(l)
           r == run[l]
           P == OpsOf("program", l)
           M == OpsOf("mvm", l)
           h == Cardinality(MovedUses(l))
           p == Cardinality(StayingUses(l))
           N == Len(WeightsOf(l))
<1>1. source \in Sources /\ l \in Blocks /\ n \in Nat
  BY SourceFacts DEF PassInv, Blocks
<1>2. h \in Nat /\ p \in Nat /\ N \in Nat
  BY <1>1, MovedAndStaying
<1>3. before \in Seq(Ops) /\ CountIn(before, M) = 0 /\ CountIn(before, P) = h
  BY <1>1, CountPreheader
<1>4. r \in Seq(Ops) /\ CountIn(r, M) = N /\ CountIn(r, P) = p
  BY <1>1, CountBlock DEF IsExecution
<1> HIDE DEF n, before, r, P, M, h, p, N
<1>5. Repeat(r, n) \in Seq(Ops) /\ CountIn(Repeat(r, n), M) = n * N /\ CountIn(Repeat(r, n), P) = n * p
  BY <1>1, <1>4, RepeatType, CountRepeat
<1> DEFINE again == Repeat(r, n)
<1>6. again \in Seq(Ops) /\ CountIn(again, M) = n * N /\ CountIn(again, P) = n * p
  BY <1>5
<1> HIDE DEF again
<1>7. /\ before \o again \in Seq(Ops)
      /\ CountIn(before \o again, M) = CountIn(before, M) + CountIn(again, M)
      /\ CountIn(before \o again, P) = CountIn(before, P) + CountIn(again, P)
  BY <1>3, <1>6, CountConcat
<1>8. n * N \in Nat /\ n * p \in Nat
  BY <1>1, <1>2
<1>9. /\ CountIn(before \o again, M) = n * N
      /\ CountIn(before \o again, P) = h + n * p
  BY <1>2, <1>3, <1>6, <1>7, <1>8
<1> QED BY <1>7, <1>9 DEF n, before, r, P, M, h, p, N, again

\* No block has more programs in the run than it has mvms.
LEMMA ProgramsWithinMvms ==
  ASSUME PassInv, phase # "placing", NEW b \in Blocks
  PROVE  CountIn(Execution, OpsOf("program", b)) <= CountIn(Execution, OpsOf("mvm", b))
<1> DEFINE P == OpsOf("program", b)
           M == OpsOf("mvm", b)
           Within == {s \in Seq(Ops) : CountIn(s, P) <= CountIn(s, M)}
<1>0. source \in Sources
  BY DEF PassInv
<1>1. PICK run : IsExecution(run) /\ Execution = run[Entry]
  BY <1>0, ExecutionRun
<1>2. ASSUME NEW s \in Within, NEW t \in Within PROVE s \o t \in Within
  <2>1. s \in Seq(Ops) /\ t \in Seq(Ops) /\ s \o t \in Seq(Ops)
    OBVIOUS
  <2>2. \A Q : CountIn(s, Q) \in Nat /\ CountIn(t, Q) \in Nat /\ CountIn(s \o t, Q) = CountIn(s, Q) + CountIn(t, Q)
    BY <2>1, CountType, CountConcat
  <2>3. CountIn(s, P) <= CountIn(s, M) /\ CountIn(t, P) <= CountIn(t, M)
    OBVIOUS
  <2> HIDE DEF P, M
  <2>4. CountIn(s \o t, P) <= CountIn(s \o t, M)
    BY <2>2, <2>3
  <2> QED BY <2>1, <2>4
<1>3. \A s \in Seq(Ops) : CountIn(s, P) = 0 => s \in Within
  BY CountType
<1>4. <<>> \in Within /\ Within \in SUBSET Seq(Ops)
  <2> DEFINE s == <<>>
  <2>1. s \in Seq(Ops) /\ \A k \in 1 .. Len(s) : s[k] \notin P
    OBVIOUS
  <2> HIDE DEF s
  <2>2. CountIn(s, P) = 0
    BY <2>1, CountOfNone
  <2> QED BY <1>3, <2>1, <2>2 DEF s
<1>5. ASSUME NEW seqs \in Seq(Seq(Ops)), \A i \in 1 .. Len(seqs) : seqs[i] \in Within
      PROVE  FlattenSeq(seqs) \in Within
  <2> HIDE DEF Within
  <2> QED BY <1>2, <1>4, <1>5, L!FlattenInduction, SameFlatten
<1> DEFINE S == {c \in Blocks : run[c] \in Within}
<1>6. ASSUME NEW l \in Loops, run[l] \in Within PROVE Preheader(l) \o Repeat(run[l], source.trip[l]) \in Within
  <2> DEFINE n == source.trip[l]
  <2>1. n \in Nat
    BY <1>0, SourceFacts
  <2>2. CASE l = b
    <3> DEFINE h == Cardinality(MovedUses(l))
               p == Cardinality(StayingUses(l))
               N == Len(WeightsOf(l))
               s == Preheader(l) \o Repeat(run[l], n)
    <3>1. s \in Seq(Ops) /\ CountIn(s, M) = n * N /\ CountIn(s, P) = h + n * p
      BY <1>1, <2>2, CountLoop, Zenon
    <3>2. N \in Nat /\ h \in Nat /\ p \in Nat /\ h + p <= N /\ (h # 0 => n # 0)
      BY <2>2, MovedAndStaying
    <3> HIDE DEF h, p, N, n, s
    <3>3. h + n * p <= n * N
      <4>1. CASE n = 0
        BY <3>2, <4>1
      <4>2. CASE n # 0
        <5> DEFINE d == N - p
        <5>1. d \in Nat /\ h <= d /\ N = p + d
          BY <3>2
        <5>2. n - 1 \in Nat /\ (n - 1) * d \in Nat
          BY <2>1, <4>2, <5>1
        <5> HIDE DEF d
        <5>3. n * N = n * p + n * d /\ n * d = (n - 1) * d + d /\ n * p \in Nat
          BY <2>1, <3>2, <5>1
        <5> DEFINE x == n * p
                   y == n * d
        <5>4. y \in Nat /\ x \in Nat /\ y >= d /\ n * N = x + y
          BY <2>1, <5>1, <5>2, <5>3
        <5> HIDE DEF x, y
        <5>5. h + x <= x + y
          BY <3>2, <5>1, <5>4
        <5> QED BY <5>4, <5>5 DEF x
      <4> QED BY <4>1, <4>2
    <3>4. s \in Within
      BY <3>1, <3>3
    <3> QED BY <3>4 DEF s, n
  <2>3. CASE l # b
    <3> DEFINE before == Preheader(l)
               r == run[l]
               seqs == [i \in 1 .. n |-> r]
    <3>1. before \in Seq(Ops) /\ CountIn(before, P) = 0
      BY <1>0, <2>3, CountPreheader
    <3>2. r \in Within /\ r \in Seq(Ops)
      BY <1>6
    <3> HIDE DEF n, before, r, Within
    <3>3. before \in Within
      BY <1>3, <3>1
    <3>4. seqs \in Seq(Seq(Ops)) /\ Len(seqs) = n /\ \A i \in 1 .. n : seqs[i] \in Within
      BY <2>1, <3>2
    <3> HIDE DEF seqs
    <3>5. FlattenSeq(seqs) \in Within
      BY <1>5, <3>4
    <3>6. before \o FlattenSeq(seqs) \in Within
      BY <1>2, <3>3, <3>5
    <3> QED BY <3>6 DEF before, r, n, Repeat, seqs
  <2> QED BY <2>2, <2>3
<1>7. ASSUME NEW c \in Blocks, \A i \in LoopItems(source, c) : source.body[c][i] \in S
      PROVE  c \in S
  <2> DEFINE seqs == Items(c, run)
             n == Len(source.body[c])
  <2>1. \A i \in LoopItems(source, c) : run[source.body[c][i]] \in Seq(Ops)
    BY <1>1 DEF IsExecution, LoopItems, Blocks
  <2>2. /\ seqs \in Seq(Seq(Ops)) /\ Len(seqs) = n /\ \A i \in 1 .. n : seqs[i] = Item(c, i, run)
    BY <1>0, <2>1, ItemsType
  <2>3. run[c] = FlattenSeq(seqs)
    BY <1>1 DEF IsExecution
  <2>4. DOMAIN source.body[c] = 1 .. n
    BY <1>0, SourceFacts
  <2> HIDE DEF seqs, n, Within
  <2>5. ASSUME NEW i \in 1 .. n PROVE seqs[i] \in Within
    <3>1. CASE source.body[c][i] \in Weights
      <4> DEFINE k == Schedules!Nth(Programs(c), i)
                 s == Rewritten(<<c, k>>)
      <4>1. i \in Programs(c)
        BY <2>4, <3>1 DEF Programs
      <4>2. k \in 1 .. Len(WeightsOf(c)) /\ seqs[i] = s
        BY <1>0, <2>2, <3>1, <4>1, BlockWeights DEF Item
      <4> HIDE DEF k
      <4>3. /\ s \in Seq(Ops) /\ CountIn(s, M) = IF b = c THEN 1 ELSE 0
            /\ CountIn(s, P) = IF b = c /\ k \in StayingUses(c) THEN 1 ELSE 0
        BY <1>0, <4>2, CountRewritten
      <4> HIDE DEF s, P, M
      <4>4. CountIn(s, P) <= CountIn(s, M)
        BY <4>3
      <4> QED BY <4>2, <4>3, <4>4 DEF Within
    <3>2. CASE source.body[c][i] \notin Weights
      <4> DEFINE l == source.body[c][i]
      <4>1. i \in LoopItems(source, c) /\ l \in Loops
        BY <1>0, <2>4, <3>2, SourceFacts
      <4>2. seqs[i] = Preheader(l) \o Repeat(run[l], source.trip[l])
        BY <2>2, <3>2 DEF Item
      <4>3. run[l] \in Within
        BY <1>7, <4>1
      <4> HIDE DEF l
      <4> QED BY <1>6, <4>1, <4>2, <4>3
    <3> QED BY <3>1, <3>2
  <2>6. FlattenSeq(seqs) \in Within
    BY <1>5, <2>2, <2>5
  <2> QED BY <2>3, <2>6
<1> HIDE DEF S
<1>8. \A c \in Blocks : c \in S
  BY <1>0, <1>7, TreeInduction
<1>9. Entry \in S
  BY <1>8 DEF Blocks
<1> QED BY <1>1, <1>9 DEF S

\* At the end of the run, what has run is the run.
LEMMA DoneCounts ==
  ASSUME IInv, Done, NEW b \in Blocks
  PROVE  /\ programsRun[b] = CountIn(Execution, OpsOf("program", b))
         /\ mvmsRun[b] = CountIn(Execution, OpsOf("mvm", b))
<1>1. todo = <<>> /\ todo \in Seq(Ops) /\ \A Q : \A k \in 1 .. Len(todo) : todo[k] \notin Q
  BY DEF Done, IInv, DeviceInv
<1>2. \A Q : CountIn(todo, Q) = 0
  BY <1>1, CountOfNone
<1>3. /\ programsRun[b] + CountIn(todo, OpsOf("program", b)) = CountIn(Execution, OpsOf("program", b))
      /\ mvmsRun[b] + CountIn(todo, OpsOf("mvm", b)) = CountIn(Execution, OpsOf("mvm", b))
  BY DEF IInv, Progress, Done
<1>4. programsRun[b] \in Nat /\ mvmsRun[b] \in Nat
  BY DEF IInv, DeviceInv
<1> QED BY <1>2, <1>3, <1>4

\* NeverMorePrograms: in no block does the emitted program execute more
\* programs than mvms, whatever was moved, and out of whatever loop.
THEOREM NeverMoreThanBefore == Spec => []NeverMorePrograms
<1>1. ASSUME IInv, Done, NEW b \in Blocks PROVE programsRun[b] <= mvmsRun[b]
  <2>1. PassInv /\ phase # "placing"
    BY <1>1 DEF IInv, Done
  <2> QED BY <1>1, <2>1, DoneCounts, ProgramsWithinMvms
<1>2. IInv => NeverMorePrograms
  BY <1>1 DEF NeverMorePrograms
<1> QED BY <1>2, AlwaysIInv, PTL
-----------------------------------------------------------------------------
(* What the two schedules of a loop cost. *)

\* A loop that is in no other adds its programs to the run once.
LEMMA OutermostCount ==
  ASSUME PassInv, phase # "placing", NEW l \in Loops, ~Nested(l), Placed(l)
  PROVE  CountIn(Execution, OpsOf("program", l)) =
           Cardinality(MovedUses(l)) + source.trip[l] * Cardinality(StayingUses(l))
<1> DEFINE P == OpsOf("program", l)
           cost == Cardinality(MovedUses(l)) + source.trip[l] * Cardinality(StayingUses(l))
           None == {s \in Seq(Ops) : CountIn(s, P) = 0}
<1>0. source \in Sources /\ l \in Blocks /\ l # Entry /\ source.trip[l] \in Nat /\ Entry \in Blocks
  BY SourceFacts DEF PassInv, Blocks, Entry
<1>1. PICK run : IsExecution(run) /\ Execution = run[Entry]
  BY <1>0, ExecutionRun
<1>2. ASSUME NEW s \in None, NEW t \in None PROVE s \o t \in None
  <2>1. s \in Seq(Ops) /\ t \in Seq(Ops) /\ s \o t \in Seq(Ops)
    OBVIOUS
  <2>2. CountIn(s \o t, P) = CountIn(s, P) + CountIn(t, P)
    BY <2>1, CountConcat
  <2>3. CountIn(s, P) = 0 /\ CountIn(t, P) = 0
    OBVIOUS
  <2> HIDE DEF P
  <2>4. CountIn(s \o t, P) = 0
    BY <2>2, <2>3
  <2> QED BY <2>1, <2>4
<1>3. <<>> \in None /\ None \in SUBSET Seq(Ops)
  <2> DEFINE s == <<>>
  <2>1. s \in Seq(Ops) /\ \A k \in 1 .. Len(s) : s[k] \notin P
    OBVIOUS
  <2> HIDE DEF s
  <2>2. CountIn(s, P) = 0
    BY <2>1, CountOfNone
  <2> QED BY <2>1, <2>2 DEF s
<1>4. ASSUME NEW seqs \in Seq(Seq(Ops)), \A i \in 1 .. Len(seqs) : seqs[i] \in None
      PROVE  FlattenSeq(seqs) \in None
  <2> HIDE DEF None
  <2> QED BY <1>2, <1>3, <1>4, L!FlattenInduction, SameFlatten
<1>5. ASSUME NEW m \in Loops, m # l, run[m] \in None
      PROVE  Preheader(m) \o Repeat(run[m], source.trip[m]) \in None
  <2> DEFINE n == source.trip[m]
             before == Preheader(m)
             r == run[m]
             seqs == [i \in 1 .. n |-> r]
  <2>1. n \in Nat
    BY <1>0, SourceFacts
  <2>2. before \in None
    BY <1>0, <1>5, CountPreheader
  <2>3. r \in None /\ r \in Seq(Ops)
    BY <1>5
  <2> HIDE DEF n, before, r, None
  <2>4. seqs \in Seq(Seq(Ops)) /\ Len(seqs) = n /\ \A i \in 1 .. n : seqs[i] \in None
    BY <2>1, <2>3
  <2> HIDE DEF seqs
  <2>5. FlattenSeq(seqs) \in None
    BY <1>4, <2>4
  <2>6. before \o FlattenSeq(seqs) \in None
    BY <1>2, <2>2, <2>5
  <2> QED BY <2>6 DEF before, r, n, Repeat, seqs
\* The items of a block but the loop itself.
<1>6. ASSUME NEW c \in Blocks, c # l, NEW i \in 1 .. Len(source.body[c]), source.body[c][i] # l,
             i \in LoopItems(source, c) => run[source.body[c][i]] \in None
      PROVE  Item(c, i, run) \in None
  <2>1. i \in DOMAIN source.body[c]
    BY <1>0, SourceFacts
  <2>2. CASE source.body[c][i] \in Weights
    <3> DEFINE k == Schedules!Nth(Programs(c), i)
               s == Rewritten(<<c, k>>)
    <3>1. i \in Programs(c)
      BY <2>1, <2>2 DEF Programs
    <3>2. k \in 1 .. Len(WeightsOf(c)) /\ Item(c, i, run) = s
      BY <1>0, <2>2, <3>1, BlockWeights DEF Item
    <3> HIDE DEF k
    <3>3. s \in Seq(Ops) /\ CountIn(s, P) = IF l = c /\ k \in StayingUses(c) THEN 1 ELSE 0
      BY <1>0, <3>2, CountRewritten
    <3> HIDE DEF s
    <3>4. s \in None
      BY <1>6, <3>3
    <3> QED BY <3>2, <3>4
  <2>3. CASE source.body[c][i] \notin Weights
    <3> DEFINE m == source.body[c][i]
    <3>1. i \in LoopItems(source, c) /\ m \in Loops /\ m # l
      BY <1>0, <1>6, <2>1, <2>3, SourceFacts
    <3>2. Item(c, i, run) = Preheader(m) \o Repeat(run[m], source.trip[m])
      BY <2>3 DEF Item
    <3>3. run[m] \in None
      BY <1>6, <3>1
    <3> HIDE DEF m, None
    <3> QED BY <1>5, <3>1, <3>2, <3>3
  <2> QED BY <2>2, <2>3
<1> DEFINE S == {c \in Blocks : c \notin {Entry, l} => run[c] \in None}
<1>7. ASSUME NEW c \in Blocks
      PROVE  LET seqs == Items(c, run) IN
             /\ seqs \in Seq(Seq(Ops)) /\ Len(seqs) = Len(source.body[c]) /\ run[c] = FlattenSeq(seqs)
             /\ \A i \in 1 .. Len(source.body[c]) : seqs[i] = Item(c, i, run)
  <2>1. \A i \in LoopItems(source, c) : run[source.body[c][i]] \in Seq(Ops)
    BY <1>1 DEF IsExecution, LoopItems, Blocks
  <2>2. run[c] = FlattenSeq(Items(c, run))
    BY <1>1 DEF IsExecution
  <2> QED BY <1>0, <2>1, <2>2, ItemsType
<1>8. ASSUME NEW c \in Blocks, \A i \in LoopItems(source, c) : source.body[c][i] \in S
      PROVE  c \in S
  <2> SUFFICES ASSUME c \notin {Entry, l} PROVE run[c] \in None
    OBVIOUS
  <2>1. c \in Loops
    BY DEF Blocks
  <2>2. \A i \in 1 .. Len(source.body[c]) : source.body[c][i] # l
    BY <2>1 DEF Nested, Contains
  <2>3. \A i \in LoopItems(source, c) : run[source.body[c][i]] \in None
    <3> SUFFICES ASSUME NEW i \in LoopItems(source, c) PROVE run[source.body[c][i]] \in None
      OBVIOUS
    <3>1. i \in 1 .. Len(source.body[c]) /\ source.body[c][i] \in Loops
      BY <1>0, SourceFacts DEF LoopItems
    <3>2. Entry \notin Loops
      BY DEF Entry
    <3> QED BY <1>8, <2>2, <3>1, <3>2
  <2> DEFINE seqs == Items(c, run)
             n == Len(source.body[c])
  <2> HIDE DEF None
  <2>4. \A i \in 1 .. n : Item(c, i, run) \in None
    BY <1>6, <2>2, <2>3
  <2>5. seqs \in Seq(Seq(Ops)) /\ Len(seqs) = n /\ run[c] = FlattenSeq(seqs)
    BY <1>7
  <2>6. \A i \in 1 .. n : seqs[i] \in None
    BY <1>7, <2>4
  <2> HIDE DEF seqs, n
  <2> QED BY <1>4, <2>5, <2>6
<1> HIDE DEF S
<1>9. \A c \in Blocks : c \in S
  BY <1>0, <1>8, TreeInduction
<1> USE DEF S
<1>10. PICK at \in LoopItems(source, Entry) : source.body[Entry][at] = l
  <2>1. Programs(l) # {}
    <3> SUFFICES ASSUME Programs(l) = {} PROVE FALSE
      OBVIOUS
    <3> DEFINE s == WeightsOf(l)
    <3>1. s \in Seq(Weights) /\ Len(s) = 0
      BY <1>0, BlockWeights, FS_EmptySet
    <3>2. s # <<>>
      BY DEF Placed
    <3> HIDE DEF s
    <3> QED BY <3>1, <3>2
  <2>2. source.body[l] # <<>>
    BY <2>1 DEF Programs
  <2>3. IsProgram(source)
    BY <1>0
  <2>4. PICK c \in Blocks : \E i \in LoopItems(source, c) : source.body[c][i] = l
    BY <2>2, <2>3 DEF IsProgram
  <2>5. c \notin Loops
    <3> SUFFICES ASSUME c \in Loops PROVE FALSE
      OBVIOUS
    <3>1. PICK i \in LoopItems(source, c) : source.body[c][i] = l
      BY <2>4
    <3>2. source.body[c] \in Seq(Weights \cup Loops) /\ i \in DOMAIN source.body[c]
      BY <1>0, SourceFacts DEF LoopItems
    <3>3. i \in 1 .. Len(source.body[c])
      BY <3>2
    <3> QED BY <3>1, <3>3 DEF Nested, Contains
  <2> QED BY <2>4, <2>5 DEF Blocks
<1> DEFINE n == Len(source.body[Entry])
           seqs == Items(Entry, run)
           sum == [i \in 0 .. n |-> IF i < at THEN 0 ELSE cost]
<1>11. n \in Nat /\ at \in 1 .. n
  BY <1>0, SourceFacts DEF LoopItems
<1>12. seqs \in Seq(Seq(Ops)) /\ Len(seqs) = n /\ run[Entry] = FlattenSeq(seqs)
  BY <1>0, <1>7
<1>13. \A i \in 1 .. n : seqs[i] = Item(Entry, i, run)
  BY <1>0, <1>7
<1>14. cost \in Nat
  <2> DEFINE h == Cardinality(MovedUses(l))
             p == Cardinality(StayingUses(l))
             m == source.trip[l]
  <2>1. h \in Nat /\ p \in Nat /\ m \in Nat
    BY <1>0, MovedAndStaying
  <2> HIDE DEF h, p, m
  <2>2. h + m * p \in Nat
    BY <2>1
  <2> QED BY <2>2 DEF h, p, m
<1>15. CountIn(seqs[at], P) = cost
  <2>1. seqs[at] = Preheader(l) \o Repeat(run[l], source.trip[l])
    BY <1>10, <1>11, <1>13 DEF Item
  <2> QED BY <1>1, <2>1, CountLoop, Zenon
<1>16. ASSUME NEW i \in 1 .. n, i # at PROVE CountIn(seqs[i], P) = 0
  <2>1. source.body[Entry][i] # l
    <3> SUFFICES ASSUME source.body[Entry][i] = l PROVE FALSE
      OBVIOUS
    <3>1. i \in LoopItems(source, Entry)
      BY <1>0, SourceFacts DEF LoopItems
    <3> QED BY <1>0, <1>10, <1>16, <3>1, SourceFacts
  <2>2. i \in LoopItems(source, Entry) => run[source.body[Entry][i]] \in None
    <3> SUFFICES ASSUME i \in LoopItems(source, Entry) PROVE run[source.body[Entry][i]] \in None
      OBVIOUS
    <3>1. source.body[Entry][i] \in Loops /\ Entry \notin Loops
      BY DEF LoopItems, Entry
    <3> QED BY <1>9, <2>1, <3>1 DEF Blocks
  <2> HIDE DEF None
  <2>3. seqs[i] \in None
    BY <1>0, <1>6, <1>13, <2>1, <2>2
  <2> QED BY <2>3 DEF None
<1> HIDE DEF n, seqs, cost, P
<1>17. /\ sum \in [0 .. n -> Nat] /\ sum[0] = 0 /\ sum[n] = cost
       /\ \A i \in 0 .. n : sum[i] = IF i < at THEN 0 ELSE cost
  BY <1>11, <1>14
<1> HIDE DEF sum
<1>18. \A i \in 1 .. n : sum[i] = sum[i - 1] + CountIn(seqs[i], P)
  <2> SUFFICES ASSUME NEW i \in 1 .. n PROVE sum[i] = sum[i - 1] + CountIn(seqs[i], P)
    OBVIOUS
  <2>1. i \in 0 .. n /\ i - 1 \in 0 .. n
    BY <1>11
  <2>2. CASE i = at
    BY <1>11, <1>14, <1>15, <1>17, <2>1, <2>2
  <2>3. CASE i # at
    <3>1. i < at <=> i - 1 < at
      BY <1>11, <2>3
    <3>2. CountIn(seqs[i], P) = 0
      BY <1>16, <2>3
    <3> QED BY <1>14, <1>17, <2>1, <3>1, <3>2
  <2> QED BY <2>2, <2>3
<1>19. CountIn(FlattenSeq(seqs), P) = sum[Len(seqs)]
  BY <1>12, <1>17, <1>18, CountFlatten
<1> QED BY <1>1, <1>12, <1>17, <1>19 DEF cost, P

\* The programs of an ordinary schedule on tiles programmed once are as many
\* as those tiles.
LEMMA OrdinaryCounts ==
  ASSUME source \in Sources, numTiles \in 1 .. MaxTiles, NEW b \in Blocks
  PROVE  LET A == Ordinary(b)
             I == {i \in Schedules!ProgramsOf(A) : Undisturbed(A, A[i].tile)}
         IN /\ Schedules!ProgramsOf(A) \in SUBSET (1 .. Len(WeightsOf(b)))
            /\ IsFiniteSet(I) /\ IsFiniteSet(Schedules!ProgramsOf(A))
            /\ Cardinality(I) = Cardinality({t \in Tiles : Undisturbed(A, t)})
            /\ Cardinality(Schedules!ProgramsOf(A) \ I) =
                 Cardinality(Schedules!ProgramsOf(A)) - Cardinality(I)
<1> DEFINE A == Ordinary(b)
           N == Len(WeightsOf(b))
           all == Schedules!ProgramsOf(A)
           I == {i \in all : Undisturbed(A, A[i].tile)}
           T == {t \in Tiles : Undisturbed(A, t)}
           J == {i \in all : A[i].tile \in T}
<1>1. WeightsOf(b) \in Seq(Weights) /\ N \in Nat /\ numTiles \in Nat \ {0}
  BY BlockWeights
<1>2. Serving(A, WeightsOf(b), numTiles)
  BY <1>1, BothServe DEF Ordinary
<1>3. all \in SUBSET (1 .. N) /\ \A i \in all : A[i].tile \in Tiles
  BY <1>2 DEF Serving, Schedules!ProgramsOf, Tiles
<1>4. IsFiniteSet(all)
  <2> DEFINE K == 1 .. N
  <2>1. IsFiniteSet(K)
    <3>1. 1 \in Int /\ N \in Int
      BY <1>1
    <3> HIDE DEF N
    <3> QED BY <3>1, FS_Interval
  <2>2. all \in SUBSET K
    BY <1>3
  <2> HIDE DEF K, all
  <2> QED BY <2>1, <2>2, FS_Subset
<1>5. IsFiniteSet(T)
  <2>1. IsFiniteSet(Tiles)
    <3>1. 0 \in Int /\ numTiles - 1 \in Int
      BY <1>1
    <3> QED BY <3>1, FS_Interval DEF Tiles
  <2>2. T \in SUBSET Tiles
    OBVIOUS
  <2> HIDE DEF T
  <2> QED BY <2>1, <2>2, FS_Subset
<1>6. J = I
  BY <1>3
<1>7. \A t \in T : \E i : L!ProgramsOnTile(A, t) = {i}
  <2> SUFFICES ASSUME NEW t \in T PROVE \E i : L!ProgramsOnTile(A, t) = {i}
    OBVIOUS
  <2> DEFINE on == Schedules!ProgramsOnTile(A, t)
  <2>1. Cardinality(on) = 1
    BY SameCounting DEF Undisturbed
  <2>2. on \in SUBSET all
    BY DEF Schedules!ProgramsOnTile
  <2>3. on = L!ProgramsOnTile(A, t)
    BY SameFunctions
  <2> HIDE DEF on, all
  <2>4. IsFiniteSet(on)
    BY <1>4, <2>2, FS_Subset
  <2>5. \E i : on = {i}
    BY <2>1, <2>4, FS_Singleton
  <2> QED BY <2>3, <2>5
<1>8. all = L!ProgramsOf(A)
  BY SameFunctions
<1>9. Cardinality(J) = Cardinality(T) /\ IsFiniteSet(J)
  <2> HIDE DEF A, T
  <2>1. L!IsFiniteSet(T)
    BY <1>5, SameCounting
  <2> DEFINE K == {i \in L!ProgramsOf(A) : A[i].tile \in T}
  <2>2. L!IsFiniteSet(K) /\ L!Cardinality(K) = L!Cardinality(T)
    BY <1>7, <2>1, L!OnePerTile
  <2>3. J = K
    BY <1>8
  <2> HIDE DEF J, K
  <2> QED BY <2>2, <2>3, SameCounting
<1>10. I \in SUBSET all
  OBVIOUS
<1> HIDE DEF A, all, I, T, J
<1>11. Cardinality(all \ I) = Cardinality(all) - Cardinality(I)
  <2>1. Cardinality(all \ I) = Cardinality(all) - Cardinality(all \cap I)
    BY <1>4, FS_Difference
  <2>2. all \cap I = I
    BY <1>10
  <2> QED BY <2>1, <2>2
<1> QED BY <1>3, <1>4, <1>6, <1>9, <1>11 DEF A, all, I, T, N

\* A steady schedule programs its pinned tiles once, and else the next one.
LEMMA SteadyCosts ==
  ASSUME source \in Sources, numTiles \in 1 .. MaxTiles, NEW b \in Blocks
  PROVE  LET A == Steady(b)
             I == {i \in Schedules!ProgramsOf(A) : A[i].tile < Pinned(b)}
         IN /\ Schedules!ProgramsOf(A) \in SUBSET (1 .. Len(WeightsOf(b)))
            /\ IsFiniteSet(I) /\ Cardinality(I) = Pinned(b)
            /\ Cardinality(Schedules!ProgramsOf(A) \ I) =
                 Schedules!ProgramsPerIteration(WeightsOf(b), numTiles)
<1> DEFINE seq == WeightsOf(b)
           A == Steady(b)
           all == Schedules!ProgramsOf(A)
           I == {i \in all : A[i].tile < Pinned(b)}
<1>1. seq \in Seq(Weights) /\ numTiles \in Nat \ {0}
  BY BlockWeights
<1>2. Serving(A, seq, numTiles)
  BY <1>1, BothServe DEF Steady
<1>3. all \in SUBSET (1 .. Len(seq))
  BY <1>2 DEF Serving, Schedules!ProgramsOf
<1>4. A = L!SteadyBody(seq, numTiles) /\ all = L!ProgramsOf(A) /\ Pinned(b) = L!PinnedCount(seq, numTiles)
  BY SameFunctions DEF Steady, Pinned
<1>5. Schedules!ProgramsPerIteration(seq, numTiles) = Cardinality(L!ProgramsOnTile(A, Pinned(b)))
  BY SameFunctions, SameCounting DEF Steady, Pinned, Schedules!ProgramsPerIteration
<1> HIDE DEF seq
<1>6. LET B == L!SteadyBody(seq, numTiles)
          P == L!PinnedCount(seq, numTiles)
          J == {i \in L!ProgramsOf(B) : B[i].tile < P}
      IN /\ L!Cardinality(J) = P /\ L!IsFiniteSet(J)
         /\ L!ProgramsOf(B) \ J = L!ProgramsOnTile(B, P)
  BY <1>1, L!SteadyCounts, Zenon
<1> HIDE DEF A, all
<1>7. /\ L!Cardinality(I) = Pinned(b) /\ L!IsFiniteSet(I)
      /\ all \ I = L!ProgramsOnTile(A, Pinned(b))
  BY <1>4, <1>6
<1> HIDE DEF I
<1>8. Cardinality(I) = Pinned(b) /\ IsFiniteSet(I)
  BY <1>7, SameCounting
<1> QED BY <1>3, <1>5, <1>7, <1>8 DEF A, all, I, seq

\* Where all programs may move, those do that the schedule does not disturb.
LEMMA MovedAre ==
  ASSUME PassInv, phase = "running", NEW l \in Loops, Placed(l), HoistsFrom(l), AllInvariant(l)
  PROVE  LET all == Schedules!ProgramsOf(Chosen(l))
             I == {k \in all : Hoistable(l, Chosen(l)[k].tile)}
         IN MovedUses(l) = I /\ StayingUses(l) = all \ I
<1> DEFINE all == Schedules!ProgramsOf(Chosen(l))
           I == {k \in all : Hoistable(l, Chosen(l)[k].tile)}
           N == Len(WeightsOf(l))
<1>0. source \in Sources /\ numTiles \in 1 .. MaxTiles /\ l \in Blocks
  BY DEF PassInv, Blocks
<1>1. l \in Solved /\ l \in Visited /\ schedule[l] = Chosen(l)
  BY <1>0 DEF PassInv, Solved, Visited
<1>2. Serving(Chosen(l), WeightsOf(l), numTiles) /\ DOMAIN Chosen(l) = 1 .. N
  BY <1>0, ChosenServes DEF Serving
<1>3. all = {k \in 1 .. N : Survives(<<l, k>>)}
  BY <1>1, <1>2 DEF Schedules!ProgramsOf, Survives
<1>4. \A k \in 1 .. N : Weight(<<l, k>>) \in source.invariant
  BY DEF AllInvariant, Weight
<1>5. ASSUME NEW k \in 1 .. N PROVE <<l, k>> \in hoisted <=> k \in I
  <2> DEFINE u == <<l, k>>
  <2>1. u \in CandidatesOf(l) <=> k \in I
    BY DEF CandidatesOf
  <2> HIDE DEF I
  <2>2. u \in candidates <=> u \in CandidatesOf(l)
    <3>1. ASSUME NEW b \in Solved, u \in CandidatesOf(b) PROVE b = l
      BY <3>1 DEF CandidatesOf
    <3> QED BY <1>1, <3>1 DEF PassInv
  <2>3. u \in MovedFrom(l) <=> u \in candidates
    BY <1>4 DEF MovedFrom
  <2>4. u \in hoisted <=> u \in MovedFrom(l)
    <3>1. ASSUME NEW m \in Visited, u \in MovedFrom(m) PROVE m = l
      BY <3>1 DEF MovedFrom
    <3> QED BY <1>1, <3>1 DEF PassInv
  <2> QED BY <2>1, <2>2, <2>3, <2>4
<1>6. I \in SUBSET all /\ all \in SUBSET (1 .. N)
  BY <1>3
<1> HIDE DEF I, all, N
<1>7. MovedUses(l) = I
  BY <1>5, <1>6 DEF MovedUses, N
<1>8. StayingUses(l) = all \ I
  BY <1>3, <1>5 DEF StayingUses, Stays, N
<1> QED BY <1>7, <1>8 DEF all, I

\* The totals the pass compares, as the programs they stand for.
LEMMA TotalsAre ==
  ASSUME source \in Sources, numTiles \in 1 .. MaxTiles, NEW l \in Loops
  PROVE  LET A == Ordinary(l)
             I == {i \in Schedules!ProgramsOf(A) : Undisturbed(A, A[i].tile)}
             B == Steady(l)
             J == {i \in Schedules!ProgramsOf(B) : B[i].tile < Pinned(l)}
         IN /\ TotalOld(l) = Cardinality(I)
                 + source.trip[l] * Cardinality(Schedules!ProgramsOf(A) \ I)
            /\ TotalNew(l) = Cardinality(J)
                 + source.trip[l] * Cardinality(Schedules!ProgramsOf(B) \ J)
            /\ TotalOld(l) \in Nat /\ TotalNew(l) \in Nat
            /\ ~Placed(l) => TotalOld(l) = 0 /\ TotalNew(l) = 0
<1> DEFINE A == Ordinary(l)
           all == Schedules!ProgramsOf(A)
           I == {i \in all : Undisturbed(A, A[i].tile)}
           B == Steady(l)
           every == Schedules!ProgramsOf(B)
           J == {i \in every : B[i].tile < Pinned(l)}
           n == source.trip[l]
           N == Len(WeightsOf(l))
<1>0. l \in Blocks /\ n \in Nat /\ N \in Nat
  BY SourceFacts, BlockWeights DEF Blocks
<1>1. /\ all \in SUBSET (1 .. N) /\ IsFiniteSet(I) /\ IsFiniteSet(all)
      /\ Cardinality(I) = Cardinality({t \in Tiles : Undisturbed(A, t)})
      /\ Cardinality(all \ I) = Cardinality(all) - Cardinality(I)
  BY <1>0, OrdinaryCounts, Zenon
<1>2. /\ every \in SUBSET (1 .. N) /\ IsFiniteSet(J) /\ Cardinality(J) = Pinned(l)
      /\ Cardinality(every \ J) = Schedules!ProgramsPerIteration(WeightsOf(l), numTiles)
  BY <1>0, SteadyCosts, Zenon
<1>3. TotalOld(l) = Cardinality(I) + n * Cardinality(all \ I)
  <2>1. Schedules!Cardinality(all) = Cardinality(all)
    BY SameCounting
  <2> HIDE DEF I, all, A, n
  <2>2. TotalOld(l) = Cardinality({t \in Tiles : Undisturbed(A, t)})
                        + n * (Cardinality(all) - Cardinality({t \in Tiles : Undisturbed(A, t)}))
    BY DEF TotalOld, A, all, n
  <2> QED BY <1>1, <2>2
<1>4. TotalNew(l) = Cardinality(J) + n * Cardinality(every \ J)
  <2> HIDE DEF J, every, B, n
  <2>1. TotalNew(l) = Pinned(l) + n * Schedules!ProgramsPerIteration(WeightsOf(l), numTiles)
    BY DEF TotalNew, n
  <2> QED BY <1>2, <2>1
<1>5. I \in SUBSET all /\ J \in SUBSET every /\ all \ I \in SUBSET all /\ every \ J \in SUBSET every
  OBVIOUS
<1>6. IsFiniteSet(every)
  <2> DEFINE K == 1 .. N
  <2>1. IsFiniteSet(K)
    <3>1. 1 \in Int /\ N \in Int
      BY <1>0
    <3> HIDE DEF N
    <3> QED BY <3>1, FS_Interval
  <2>2. every \in SUBSET K
    BY <1>2
  <2> HIDE DEF K, every
  <2> QED BY <2>1, <2>2, FS_Subset
<1>7. ~Placed(l) => all = {} /\ every = {}
  <2> SUFFICES ASSUME ~Placed(l) PROVE all = {} /\ every = {}
    OBVIOUS
  <2>1. N = 0
    BY DEF Placed
  <2> HIDE DEF all, every
  <2> QED BY <1>1, <1>2, <2>1
<1> HIDE DEF A, B, all, every, I, J, N, n
<1>8. /\ IsFiniteSet(I) /\ IsFiniteSet(all \ I) /\ IsFiniteSet(J) /\ IsFiniteSet(every \ J)
  BY <1>1, <1>5, <1>6, FS_Subset
<1> DEFINE h == Cardinality(I)
           p == Cardinality(all \ I)
           k == Cardinality(J)
           q == Cardinality(every \ J)
<1>9. h \in Nat /\ p \in Nat /\ k \in Nat /\ q \in Nat
  BY <1>8, FS_CardinalityType
<1>10. ~Placed(l) => h = 0 /\ p = 0 /\ k = 0 /\ q = 0
  <2> SUFFICES ASSUME ~Placed(l) PROVE h = 0 /\ p = 0 /\ k = 0 /\ q = 0
    OBVIOUS
  <2>1. I = {} /\ all \ I = {} /\ J = {} /\ every \ J = {}
    BY <1>5, <1>7
  <2> QED BY <2>1, FS_EmptySet
<1>11. TotalOld(l) = h + n * p /\ TotalNew(l) = k + n * q
  BY <1>3, <1>4
<1> HIDE DEF h, p, k, q
<1>12. TotalOld(l) \in Nat /\ TotalNew(l) \in Nat
  BY <1>0, <1>9, <1>11
<1>13. ~Placed(l) => TotalOld(l) = 0 /\ TotalNew(l) = 0
  BY <1>0, <1>10, <1>11
<1> QED BY <1>3, <1>4, <1>12, <1>13 DEF A, B, all, every, I, J, n

\* A loop without weights runs no programs.
LEMMA UnplacedCount ==
  ASSUME PassInv, NEW l \in Loops, ~Placed(l)
  PROVE  CountIn(Execution, OpsOf("program", l)) = 0
<1>1. PICK run : IsExecution(run) /\ Execution = run[Entry]
  BY ExecutionRun DEF PassInv
<1>2. Execution \in Seq(Ops)
  BY <1>1 DEF IsExecution, Blocks
<1>3. OpsOf("program", l) = {}
  <2> SUFFICES ASSUME NEW e \in Ops, e.use[1] = l PROVE FALSE
    BY DEF OpsOf
  <2>1. e.use \in Uses
    BY DEF Ops
  <2>2. e.use[2] \in 1 .. Len(WeightsOf(l))
    BY <2>1, UsesFacts DEF PassInv
  <2>3. WeightsOf(l) = <<>>
    BY DEF Placed
  <2> QED BY <2>2, <2>3
<1>4. \A k \in 1 .. Len(Execution) : Execution[k] \notin OpsOf("program", l)
  BY <1>3
<1> QED BY <1>2, <1>4, CountOfNone

\* CostIsAsCompared: a loop the pass costs, all of whose programs may move,
\* executes as many programs as the smaller of the two totals it compared.
THEOREM CostsAreAsCompared == Spec => []CostIsAsCompared
<1>1. ASSUME IInv, Done, NEW l \in Loops, Costed(l), source.trip[l] > 0, AllInvariant(l)
      PROVE  programsRun[l] =
               IF source.trip[l] = 1 THEN TotalOld(l) ELSE Min2(TotalOld(l), TotalNew(l))
  <2>0. /\ PassInv /\ phase = "running" /\ phase # "placing" /\ l \in Blocks
        /\ source \in Sources /\ numTiles \in 1 .. MaxTiles
    BY <1>1 DEF IInv, PassInv, Done, Blocks
  <2>1. programsRun[l] = CountIn(Execution, OpsOf("program", l))
    BY <1>1, <2>0, DoneCounts
  <2>2. TotalOld(l) \in Nat /\ TotalNew(l) \in Nat
    BY <2>0, TotalsAre, Zenon
  <2>3. CASE ~Placed(l)
    <3>1. TotalOld(l) = 0 /\ TotalNew(l) = 0
      BY <2>0, <2>3, TotalsAre, Zenon
    <3>2. programsRun[l] = 0
      BY <2>0, <2>1, <2>3, UnplacedCount
    <3> QED BY <3>1, <3>2 DEF Min2
  <2>4. CASE Placed(l)
    <3>1. HoistsFrom(l) /\ ~Nested(l)
      BY <1>1 DEF Costed, HoistsFrom
    <3>2. programsRun[l] = Cardinality(MovedUses(l)) + source.trip[l] * Cardinality(StayingUses(l))
      BY <2>0, <2>1, <2>4, <3>1, OutermostCount
    <3> DEFINE C == Chosen(l)
               all == Schedules!ProgramsOf(C)
               I == {k \in all : Hoistable(l, C[k].tile)}
    <3>3. MovedUses(l) = I /\ StayingUses(l) = all \ I
      BY <1>1, <2>0, <2>4, <3>1, MovedAre, Zenon
    <3>4. CASE UseSteadyState(l)
      <4> DEFINE B == Steady(l)
                 J == {i \in Schedules!ProgramsOf(B) : B[i].tile < Pinned(l)}
      <4>1. C = B
        BY <3>4 DEF Chosen
      <4>2. I = J
        BY <3>4, <4>1 DEF Hoistable
      <4>3. TotalNew(l) = Cardinality(J) + source.trip[l] * Cardinality(Schedules!ProgramsOf(B) \ J)
        BY <2>0, TotalsAre, Zenon
      <4>4. programsRun[l] = TotalNew(l)
        <5> HIDE DEF C, B, I, J
        <5> QED BY <3>2, <3>3, <4>1, <4>2, <4>3
      <4>5. source.trip[l] # 1 /\ TotalNew(l) < TotalOld(l)
        BY <3>4 DEF UseSteadyState
      <4> QED BY <2>2, <4>4, <4>5 DEF Min2
    <3>5. CASE ~UseSteadyState(l)
      <4> DEFINE A == Ordinary(l)
                 J == {i \in Schedules!ProgramsOf(A) : Undisturbed(A, A[i].tile)}
      <4>1. C = A
        BY <3>5 DEF Chosen
      <4>2. I = J
        BY <3>5, <4>1 DEF Hoistable
      <4>3. TotalOld(l) = Cardinality(J) + source.trip[l] * Cardinality(Schedules!ProgramsOf(A) \ J)
        BY <2>0, TotalsAre, Zenon
      <4>4. programsRun[l] = TotalOld(l)
        <5> HIDE DEF C, A, I, J
        <5> QED BY <3>2, <3>3, <4>1, <4>2, <4>3
      <4>5. source.trip[l] = 1 \/ ~(TotalNew(l) < TotalOld(l))
        <5>1. source.trip[l] \in Nat
          BY <2>0, SourceFacts
        <5> QED BY <1>1, <3>5, <5>1 DEF UseSteadyState
      <4> QED BY <2>2, <4>4, <4>5 DEF Min2
    <3> QED BY <3>4, <3>5
  <2> QED BY <2>3, <2>4
<1>2. IInv => CostIsAsCompared
  BY <1>1 DEF CostIsAsCompared
<1> QED BY <1>2, AlwaysIInv, PTL
=============================================================================
