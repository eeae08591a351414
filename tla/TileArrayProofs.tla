-------------------------- MODULE TileArrayProofs ---------------------------
(***************************************************************************)
(* Proofs about the replay of validatePlacement, for every number of       *)
(* weights, tiles and steps: first of every schedule that is replayed,     *)
(* then of the schedules of computeSteadyStatePlacement when their body is *)
(* repeated.                                                               *)
(***************************************************************************)
EXTENDS SteadyState, FiniteSetTheorems, TLAPS

USE NoWeightAssumption, MaxTilesAssumption, MaxStepsAssumption

LEMMA ReplayInit == Init => TypeOK /\ NoDuplicate /\ Ledger
<1> SUFFICES ASSUME Init PROVE TypeOK /\ NoDuplicate /\ Ledger
  OBVIOUS
<1> PICK n \in 0 .. MaxSteps : useSequence \in [1 .. n -> Weights]
  BY DEF Init, UseSequences
<1>1. useSequence \in Seq(Weights) /\ Len(useSequence) = n
  OBVIOUS
<1>2. TypeOK
  BY <1>1 DEF Init, Fresh, TypeOK
<1>3. NoDuplicate
  BY DEF Init, Fresh, NoDuplicate
<1>4. Occupied = {} /\ Used = {}
  BY DEF Init, Fresh, Occupied, Used
<1> QED
  BY <1>2, <1>3, <1>4, FS_EmptySet DEF Init, Fresh, Ledger

\* What every accepted action has in common.
LEMMA AcceptFacts ==
  ASSUME TypeOK, NEW a \in Action, Accept(a)
  PROVE  /\ a.tile \in Tiles /\ a.weight \in Weights /\ a.weight = Use(step)
         /\ contents' = [contents EXCEPT ![a.tile] = a.weight]
         /\ step' = step + 1 /\ step + 1 \in 0 .. Len(useSequence)
         /\ UNCHANGED <<numTiles, useSequence>>
         /\ \A t \in Tiles : contents'[t] = a.weight => t = a.tile
BY DEF Accept, Valid, WellFormed, Action, After, SoleCopy, problem, Replaying, TypeOK

LEMMA ReplayTypeStep == TypeOK /\ [Next]_vars => TypeOK'
<1> SUFFICES ASSUME TypeOK, [Next]_vars PROVE TypeOK'
  OBVIOUS
<1>1. ASSUME NEW a \in Action, Accept(a) PROVE TypeOK'
  <2>1. contents' \in [Tiles -> Weights \cup {NoWeight}]
    BY <1>1, AcceptFacts DEF TypeOK
  <2>2. programs' \in Nat /\ reuses' \in Nat /\ evictions' \in Nat
    BY <1>1 DEF Accept, TypeOK
  <2>3. verdict' = verdict
    BY <1>1 DEF Accept
  <2> QED
    BY <1>1, <2>1, <2>2, <2>3, AcceptFacts DEF TypeOK, Tiles
<1>2. ASSUME NEW a \in Action, Reject(a) PROVE TypeOK'
  BY <1>2 DEF Reject, TypeOK, problem, counts, Tiles
<1>3. CASE RejectLength
  BY <1>3 DEF RejectLength, TypeOK, problem, counts, Tiles
<1>4. ASSUME NEW r \in Reports, Conclude(r) PROVE TypeOK'
  BY <1>4 DEF Conclude, TypeOK, problem, counts, Tiles
<1>5. CASE UNCHANGED vars
  BY <1>5 DEF vars, TypeOK, problem, counts, Tiles
<1> QED
  BY <1>1, <1>2, <1>3, <1>4, <1>5 DEF Next

\* Every other step leaves the array, the problem and the counts alone.
LEMMA OtherSteps ==
  ASSUME [Next]_vars, ~ \E a \in Action : Accept(a)
  PROVE  UNCHANGED <<numTiles, useSequence, contents, step, programs, reuses, evictions>>
BY DEF Next, Reject, RejectLength, Conclude, vars, problem, counts

LEMMA NoDuplicateStep == TypeOK /\ NoDuplicate /\ [Next]_vars => NoDuplicate'
<1> SUFFICES ASSUME TypeOK, NoDuplicate, [Next]_vars PROVE NoDuplicate'
  OBVIOUS
<1>1. ASSUME NEW a \in Action, Accept(a) PROVE NoDuplicate'
  BY <1>1, AcceptFacts DEF NoDuplicate, TypeOK, Tiles
<1>2. CASE ~ \E a \in Action : Accept(a)
  BY <1>2, OtherSteps DEF NoDuplicate, Tiles
<1> QED
  BY <1>1, <1>2

LEMMA FiniteTiles == ASSUME TypeOK PROVE IsFiniteSet(Occupied) /\ IsFiniteSet(Tiles)
<1>1. IsFiniteSet(Tiles)
  BY FS_Interval DEF TypeOK, Tiles
<1> QED
  BY <1>1, FS_Subset DEF Occupied

\* A step that used no new tile left the count of occupied tiles alone; one
\* that filled a free tile added one.
LEMMA OccupiedStep ==
  ASSUME TypeOK, NEW a \in Action, Accept(a)
  PROVE  /\ contents[a.tile] # NoWeight => Occupied' = Occupied
         /\ contents[a.tile] = NoWeight =>
              Occupied' = Occupied \cup {a.tile} /\ a.tile \notin Occupied
BY AcceptFacts DEF TypeOK, Occupied, Tiles

\* The strengthening the ledger needs: what a tile holds has been used.
HeldIsUsed == \A t \in Tiles : contents[t] # NoWeight => contents[t] \in Used

LEMMA UsedGrows ==
  ASSUME TypeOK, NEW a \in Action, Accept(a)
  PROVE  Used' = Used \cup {a.weight}
<1>1. /\ step' = step + 1 /\ step \in Nat /\ a.weight = useSequence[step + 1]
      /\ useSequence' = useSequence
  BY AcceptFacts DEF TypeOK, Use
<1>2. 0 .. step' - 1 = (0 .. step - 1) \cup {step}
  BY <1>1
<1> QED
  BY <1>1, <1>2 DEF Used, Use

LEMMA FiniteUsed ==
  ASSUME TypeOK
  PROVE  IsFiniteSet(Used) /\ Cardinality(Used) \in Nat
<1>1. IsFiniteSet(0 .. step - 1)
  BY FS_Interval DEF TypeOK
<1> DEFINE f == [s \in 0 .. step - 1 |-> Use(s)]
<1>2. f \in Surjection(0 .. step - 1, Used)
  BY DEF Used, Surjection
<1>3. IsFiniteSet(Used)
  BY <1>1, <1>2, FS_Surjection
<1> QED
  BY <1>3, FS_CardinalityType

LEMMA HeldIsUsedStep == TypeOK /\ HeldIsUsed /\ [Next]_vars => HeldIsUsed'
<1> SUFFICES ASSUME TypeOK, HeldIsUsed, [Next]_vars PROVE HeldIsUsed'
  OBVIOUS
<1>1. ASSUME NEW a \in Action, Accept(a) PROVE HeldIsUsed'
  BY <1>1, AcceptFacts, UsedGrows DEF HeldIsUsed, TypeOK, Tiles
<1>2. CASE ~ \E a \in Action : Accept(a)
  BY <1>2, OtherSteps DEF HeldIsUsed, Tiles, Used, Use
<1> QED
  BY <1>1, <1>2

LEMMA LedgerStep == TypeOK /\ HeldIsUsed /\ Ledger /\ [Next]_vars => Ledger'
<1> SUFFICES ASSUME TypeOK, HeldIsUsed, Ledger, [Next]_vars PROVE Ledger'
  OBVIOUS
<1>1. IsFiniteSet(Occupied) /\ Cardinality(Occupied) \in Nat
  BY FiniteTiles, FS_CardinalityType
<1>2. IsFiniteSet(Used) /\ Cardinality(Used) \in Nat
  BY FiniteUsed
<1>3. /\ programs \in Nat /\ reuses \in Nat /\ evictions \in Nat /\ step \in Nat
      /\ programs + reuses = step /\ programs = evictions + Cardinality(Occupied)
      /\ programs >= Cardinality(Used)
  BY DEF TypeOK, Ledger
<1>4. ASSUME NEW a \in Action, Accept(a) PROVE Ledger'
  <2>1. Cardinality(Used') = IF a.weight \in Used THEN Cardinality(Used)
                             ELSE Cardinality(Used) + 1
    BY <1>2, <1>4, UsedGrows, FS_AddElement
  <2>2. /\ a.tile \in Tiles /\ a.weight \in Weights /\ step' = step + 1
        /\ programs' = programs + (IF a.kind = "Reuse" THEN 0 ELSE 1)
        /\ reuses' = reuses + (IF a.kind = "Reuse" THEN 1 ELSE 0)
        /\ evictions' = evictions + (IF a.kind = "ProgramWithEviction" THEN 1 ELSE 0)
        /\ \/ a.kind = "Reuse" /\ contents[a.tile] = a.weight
           \/ a.kind = "ProgramIntoFree" /\ contents[a.tile] = NoWeight
           \/ a.kind = "ProgramWithEviction" /\ contents[a.tile] # NoWeight
    BY <1>4, AcceptFacts DEF Accept, Valid, ClaimHolds
  <2>3. CASE a.kind = "Reuse"
    <3>1. contents[a.tile] # NoWeight /\ a.weight \in Used
      BY <2>2, <2>3 DEF HeldIsUsed
    <3>2. Occupied' = Occupied
      BY <1>4, <3>1, OccupiedStep
    <3> QED
      BY <1>1, <1>2, <1>3, <2>1, <2>2, <2>3, <3>1, <3>2 DEF Ledger
  <2>4. CASE a.kind = "ProgramIntoFree"
    <3>1. Cardinality(Occupied') = Cardinality(Occupied) + 1
      BY <1>1, <1>4, <2>2, <2>4, OccupiedStep, FS_AddElement
    <3> QED
      BY <1>1, <1>2, <1>3, <2>1, <2>2, <2>4, <3>1 DEF Ledger
  <2>5. CASE a.kind = "ProgramWithEviction"
    <3>1. Occupied' = Occupied
      BY <1>4, <2>2, <2>5, OccupiedStep
    <3> QED
      BY <1>1, <1>2, <1>3, <2>1, <2>2, <2>5, <3>1 DEF Ledger
  <2> QED
    BY <2>2, <2>3, <2>4, <2>5
<1>5. CASE ~ \E a \in Action : Accept(a)
  BY <1>3, <1>5, OtherSteps DEF Ledger, Occupied, Used, Use, Tiles
<1> QED
  BY <1>4, <1>5

IInv == TypeOK /\ NoDuplicate /\ HeldIsUsed /\ Ledger

LEMMA AlwaysIInv == Spec => []IInv
<1>1. Init => IInv
  BY ReplayInit DEF IInv, HeldIsUsed, Init, Fresh
<1>2. IInv /\ [Next]_vars => IInv'
  BY ReplayTypeStep, NoDuplicateStep, HeldIsUsedStep, LedgerStep DEF IInv
<1> QED
  BY <1>1, <1>2, PTL DEF Spec

\* NoDuplicate: checking the copies of the current weight only, as
\* validatePlacement does, keeps every weight on at most one tile.
THEOREM ReplayNoDuplicate == Spec => []NoDuplicate
BY AlwaysIInv, PTL DEF IInv

\* Ledger: no schedule passes the replay with counts that do not balance, or
\* with fewer programs than the distinct weights it used.
THEOREM ReplayLedger == Spec => []Ledger
BY AlwaysIInv, PTL DEF IInv
-----------------------------------------------------------------------------
(* The pin-and-stream schedule under the replay of its repetitions. *)

S == INSTANCE SchedulesProofs

\* The instance of the model and that of the proofs are the same functions.
LEMMA SameFunctions ==
  /\ \A seq, n : Schedule!Belady(seq, n) = S!Belady(seq, n)
  /\ \A seq, n : Schedule!SteadyBody(seq, n) = S!SteadyBody(seq, n)
  /\ \A seq, n : Schedule!PinnedCount(seq, n) = S!PinnedCount(seq, n)
  /\ \A seq, at : Schedule!Kept(seq, at) = S!Kept(seq, at)
  /\ \A at, i : Schedule!Nth(at, i) = S!Nth(at, i)
<1>1. \A seq, n : Schedule!Belady(seq, n) = S!Belady(seq, n)
  BY DEF Schedule!Belady, S!Belady,
         Schedule!BeladyAction, S!BeladyAction,
         Schedule!Free, S!Free,
         Schedule!Victim, S!Victim,
         Schedule!NextUse, S!NextUse,
         Schedule!UsesFrom, S!UsesFrom,
         Schedule!Min, S!Min
<1>2. \A at, i : Schedule!Nth(at, i) = S!Nth(at, i)
  BY DEF Schedule!Nth, S!Nth,
         Schedule!Cardinality, S!Cardinality,
         Schedule!IsFiniteSet, S!IsFiniteSet
<1>3. \A seq, at : Schedule!Kept(seq, at) = S!Kept(seq, at)
  BY DEF Schedule!Kept, S!Kept,
         Schedule!FlattenSeq, S!FlattenSeq
<1>4. \A seq, n : Schedule!PinnedCount(seq, n) = S!PinnedCount(seq, n)
  BY DEF Schedule!PinnedCount, S!PinnedCount,
         Schedule!FitsEntirely, S!FitsEntirely,
         Schedule!WeightsOf, S!WeightsOf,
         Schedule!Cardinality, S!Cardinality,
         Schedule!IsFiniteSet, S!IsFiniteSet
<1>5. \A seq, n, w : Schedule!PinRank(seq, n, w) = S!PinRank(seq, n, w)
  BY DEF Schedule!PinRank, S!PinRank,
         Schedule!PinnedBefore, S!PinnedBefore,
         Schedule!Occurrences, S!Occurrences,
         Schedule!NextUse, S!NextUse,
         Schedule!UsesFrom, S!UsesFrom,
         Schedule!Min, S!Min,
         Schedule!FitsEntirely, S!FitsEntirely,
         Schedule!WeightsOf, S!WeightsOf,
         Schedule!Cardinality, S!Cardinality,
         Schedule!IsFiniteSet, S!IsFiniteSet
<1>6. \A seq, i : Schedule!PinnedKind(seq, i) = S!PinnedKind(seq, i)
  BY DEF Schedule!PinnedKind, S!PinnedKind,
         Schedule!NextUse, S!NextUse,
         Schedule!UsesFrom, S!UsesFrom,
         Schedule!Min, S!Min
<1>7. \A seq, n : /\ Schedule!Pinned(seq, n) = S!Pinned(seq, n)
                  /\ Schedule!Streamed(seq, n) = S!Streamed(seq, n)
  BY <1>4, <1>5 DEF Schedule!Pinned, S!Pinned,
         Schedule!Streamed, S!Streamed,
         Schedule!WeightsOf, S!WeightsOf
<1>8. ASSUME NEW seq, NEW n PROVE Schedule!SteadyBody(seq, n) = S!SteadyBody(seq, n)
  <2> DEFINE stream == S!Belady(S!Kept(seq, S!Streamed(seq, n)), 1)
             act(i) == IF seq[i] \in S!Pinned(seq, n)
               THEN [step |-> i - 1, weight |-> seq[i], tile |-> S!PinRank(seq, n, seq[i]),
                     kind |-> S!PinnedKind(seq, i), evicted |-> NoWeight]
               ELSE [stream[S!Nth(S!Streamed(seq, n), i)] EXCEPT
                       !.step = i - 1, !.tile = S!PinnedCount(seq, n)]
  <2>1. S!SteadyBody(seq, n) = [i \in DOMAIN seq |-> act(i)]
    BY DEF S!SteadyBody
  <2>2. Schedule!Pinned(seq, n) = S!Pinned(seq, n) /\ Schedule!Streamed(seq, n) = S!Streamed(seq, n)
    BY <1>7
  <2>3. Schedule!Belady(Schedule!Kept(seq, Schedule!Streamed(seq, n)), 1) = stream
    BY <1>1, <1>3, <2>2, Zenon
  <2>4. Schedule!PinnedCount(seq, n) = S!PinnedCount(seq, n)
    BY <1>4
  <2> DEFINE his(i) == IF seq[i] \in Schedule!Pinned(seq, n)
               THEN [step |-> i - 1, weight |-> seq[i], tile |-> Schedule!PinRank(seq, n, seq[i]),
                     kind |-> Schedule!PinnedKind(seq, i), evicted |-> NoWeight]
               ELSE [Schedule!Belady(Schedule!Kept(seq, Schedule!Streamed(seq, n)), 1)[Schedule!Nth(Schedule!Streamed(seq, n), i)] EXCEPT
                       !.step = i - 1, !.tile = Schedule!PinnedCount(seq, n)]
  <2>5. Schedule!SteadyBody(seq, n) = [i \in DOMAIN seq |-> his(i)]
    BY DEF Schedule!SteadyBody
  <2>6. \A i : his(i) = act(i)
    BY <1>2, <1>5, <1>6, <2>2, <2>3, <2>4, Zenon
  <2> HIDE DEF act, his
  <2> QED BY <2>1, <2>5, <2>6
<1> QED BY <1>1, <1>2, <1>3, <1>4, <1>8

\* The steps of three repetitions of a body of n uses.
LEMMA Remainders ==
  ASSUME NEW n \in Nat \ {0}, NEW r \in 0 .. n - 1
  PROVE  r % n = r /\ (n + r) % n = r /\ (n + n + r) % n = r
OBVIOUS
LEMMA NextRemainder ==
  ASSUME NEW n \in Nat \ {0}, NEW s \in 0 .. 3 * n - 1
  PROVE  /\ s % n \in 0 .. n - 1
         /\ (s + 1) % n = IF (s % n) + 1 = n THEN 0 ELSE (s % n) + 1
         /\ s < n => s % n = s
<1>1. CASE s + 1 <= n
  <2>1. s \in 0 .. n - 1 /\ s % n = s
    <3>1. s \in 0 .. n - 1
      BY <1>1
    <3> QED BY <3>1, Remainders
  <2>2. CASE s + 1 = n
    <3>1. s + 1 = n + 0 /\ (n + 0) % n = 0
      BY <2>2, Remainders
    <3> QED BY <2>1, <2>2, <3>1
  <2>3. CASE s + 1 # n
    <3>1. s + 1 \in 0 .. n - 1
      BY <2>1, <2>3
    <3>2. (s + 1) % n = s + 1
      BY <3>1, Remainders
    <3> QED BY <2>1, <2>3, <3>2
  <2> QED BY <2>2, <2>3
<1>2. CASE n < s + 1 /\ s + 1 <= n + n
  <2>1. PICK r \in 0 .. n - 1 : s = n + r
    <3>1. s - n \in 0 .. n - 1 /\ s = n + (s - n)
      BY <1>2
    <3> QED BY <3>1
  <2>2. s % n = r
    BY <2>1, Remainders
  <2>3. CASE r + 1 = n
    <3>1. s + 1 = n + n + 0
      BY <2>1, <2>3
    <3>2. (n + n + 0) % n = 0
      BY Remainders
    <3> QED BY <1>2, <2>2, <2>3, <3>1, <3>2
  <2>4. CASE r + 1 # n
    <3>1. s + 1 = n + (r + 1) /\ r + 1 \in 0 .. n - 1
      BY <2>1, <2>4
    <3>2. (n + (r + 1)) % n = r + 1
      BY <3>1, Remainders
    <3> QED BY <1>2, <2>2, <2>4, <3>1, <3>2
  <2> QED BY <2>3, <2>4
<1>3. CASE n + n < s + 1
  <2>1. PICK r \in 0 .. n - 1 : s = n + n + r
    <3>1. s - n - n \in 0 .. n - 1 /\ s = n + n + (s - n - n)
      BY <1>3
    <3> QED BY <3>1
  <2>2. s % n = r
    BY <2>1, Remainders
  <2>3. CASE r + 1 = n
    <3>1. s + 1 = n + n + n + 0
      BY <2>1, <2>3
    <3>2. (n + n + n + 0) % n = 0
      OBVIOUS
    <3> QED BY <1>3, <2>2, <2>3, <3>1, <3>2
  <2>4. CASE r + 1 # n
    <3>1. s + 1 = n + n + (r + 1) /\ r + 1 \in 0 .. n - 1
      BY <2>1, <2>4
    <3>2. (n + n + (r + 1)) % n = r + 1
      BY <3>1, Remainders
    <3> QED BY <1>3, <2>2, <2>4, <3>1, <3>2
  <2> QED BY <2>3, <2>4
<1> QED BY <1>1, <1>2, <1>3

\* What computeSteadyStatePlacement is given: a body, and a tile.
SteadyProblem ==
  /\ bodySequence \in Seq(Weights) /\ bodySequence # <<>>
  /\ numTiles \in Nat \ {0}

Length == Len(bodySequence)
Body   == S!SteadyBody(bodySequence, numTiles)
Pins   == S!PinnedCount(bodySequence, numTiles)
At     == S!Streamed(bodySequence, numTiles)
Stream == S!Kept(bodySequence, At)
Pinned == S!Pinned(bodySequence, numTiles)
Rank(w)  == S!PinRank(bodySequence, numTiles, w)
First(w) == S!NextUse(bodySequence, w, 1)
Streaming(i) == S!Nth(At, i)

PinnedTo(t) == CHOOSE w \in Pinned : Rank(w) = t
Installed(t, r, later) == \E w \in Pinned : Rank(w) = t /\ (later \/ First(w) <= r)

\* What a tile holds after r uses of a repetition, the first or a later one.
Holds(t, r, later) ==
  IF t < Pins
  THEN IF Installed(t, r, later) THEN PinnedTo(t) ELSE NoWeight
  ELSE IF t = Pins
  THEN IF Streaming(r) > 0 THEN Stream[Streaming(r)]
       ELSE IF later /\ At # {} THEN Stream[Len(Stream)] ELSE NoWeight
  ELSE NoWeight
Holding(r, later) == [t \in Tiles |-> Holds(t, r, later)]

LEMMA LengthIsPositive == SteadyProblem => Length \in Nat \ {0} /\ DOMAIN bodySequence = 1 .. Length
BY DEF SteadyProblem, Length

\* The facts about the schedule of a body, in this module's names.
LEMMA PinFacts ==
  ASSUME SteadyProblem
  PROVE  /\ Pins \in 0 .. numTiles /\ Pinned \subseteq Weights
         /\ \A w \in Pinned : /\ Rank(w) \in 0 .. Pins - 1 /\ First(w) \in 1 .. Length
                              /\ bodySequence[First(w)] = w
         /\ \A w, x \in Pinned : Rank(w) = Rank(x) => w = x
         /\ At \subseteq 1 .. Length /\ (At # {} => Pins \in Tiles)
<1>1. bodySequence \in Seq(Weights) /\ numTiles \in Nat \ {0}
  BY DEF SteadyProblem
<1>2. /\ Pins \in 0 .. numTiles /\ Pinned \subseteq S!WeightsOf(bodySequence)
      /\ \A w \in Pinned : Rank(w) \in 0 .. Pins - 1
      /\ \A w, x \in Pinned : Rank(w) = Rank(x) => w = x
      /\ At \subseteq 1 .. Length /\ (At # {} => Pins = numTiles - 1)
  BY <1>1, S!PinnedTiles DEF Pins, Pinned, Rank, At, Length
<1>3. S!WeightsOf(bodySequence) \subseteq Weights
  BY <1>1, S!FiniteWeights
<1>4. \A w \in S!WeightsOf(bodySequence) : First(w) \in 1 .. Length /\ bodySequence[First(w)] = w
  BY <1>1, S!FirstUse DEF First, Length
<1> QED BY <1>1, <1>2, <1>3, <1>4 DEF Tiles

LEMMA StreamFacts ==
  ASSUME SteadyProblem
  PROVE  /\ Stream \in Seq(Weights) /\ Len(Stream) \in Nat
         /\ Streaming(0) = 0 /\ Streaming(Length) = Len(Stream)
         /\ \A i \in 0 .. Length : Streaming(i) \in 0 .. Len(Stream)
         /\ \A i \in 0 .. Length - 1 : Streaming(i + 1) = Streaming(i) + (IF i + 1 \in At THEN 1 ELSE 0)
         /\ \A i \in At : Streaming(i) \in 1 .. Len(Stream) /\ Stream[Streaming(i)] = bodySequence[i]
         /\ \A k \in 1 .. Len(Stream) : Stream[k] \notin Pinned /\ \E i \in At : Streaming(i) = k
         /\ At # {} <=> Len(Stream) # 0
<1>1. bodySequence \in Seq(Weights) /\ numTiles \in Nat \ {0} /\ Length \in Nat
  BY DEF SteadyProblem, Length
<1>2. At \in SUBSET (1 .. Length)
  BY PinFacts
<1>3. /\ Stream \in Seq(Weights) /\ Len(Stream) = S!Cardinality(At)
      /\ \A i \in At : Streaming(i) \in 1 .. Len(Stream) /\ Stream[Streaming(i)] = bodySequence[i]
  <2>1. At \in SUBSET (1 .. Len(bodySequence))
    BY <1>2 DEF Length
  <2> QED BY <1>1, <2>1, S!KeptSequence DEF Stream, Streaming
<1>4. /\ Streaming(0) = 0 /\ Streaming(Length) = Len(Stream)
      /\ \A i \in 0 .. Length - 1 : Streaming(i + 1) = Streaming(i) + (IF i + 1 \in At THEN 1 ELSE 0)
      /\ \A i \in 0 .. Length : Streaming(i) \in Nat
  BY <1>1, <1>2, <1>3, S!NthSteps DEF Streaming
<1>5. \A k \in 1 .. Len(Stream) : \E i \in At : Streaming(i) = k
  BY <1>1, <1>2, <1>3, S!NthCovers DEF Streaming
<1>6. \A i \in At : bodySequence[i] \notin Pinned
  BY DEF At, S!Streamed, Pinned
<1>7. Len(Stream) \in Nat
  BY <1>3
<1>8. \A i \in 0 .. Length : Streaming(i) \in 0 .. Len(Stream)
  <2> DEFINE D == {m \in Nat : m <= Length => Streaming(Length - m) <= Len(Stream)}
  <2>1. 0 \in D
    BY <1>1, <1>4, <1>7
  <2>2. ASSUME NEW m \in Nat, m \in D PROVE m + 1 \in D
    <3> SUFFICES ASSUME m + 1 <= Length PROVE Streaming(Length - (m + 1)) <= Len(Stream)
      OBVIOUS
    <3>1. /\ Length - (m + 1) \in 0 .. Length - 1 /\ Length - (m + 1) \in 0 .. Length
          /\ (Length - (m + 1)) + 1 = Length - m /\ Length - m \in 0 .. Length
      BY <1>1
    <3>2. Streaming(Length - m) = Streaming(Length - (m + 1)) + (IF Length - m \in At THEN 1 ELSE 0)
      BY <1>4, <3>1
    <3>3. Streaming(Length - m) <= Len(Stream) /\ Streaming(Length - m) \in Nat /\ Streaming(Length - (m + 1)) \in Nat
      BY <1>1, <1>4, <2>2, <3>1
    <3> QED BY <1>7, <3>2, <3>3
  <2> HIDE DEF D
  <2>3. \A m \in Nat : m \in D
    BY <2>1, <2>2, S!SetInduction
  <2>4. ASSUME NEW i \in 0 .. Length PROVE Streaming(i) \in 0 .. Len(Stream)
    <3>1. Length - i \in Nat /\ Length - i <= Length /\ Length - (Length - i) = i
      BY <1>1
    <3>2. Streaming(i) <= Len(Stream)
      BY <2>3, <3>1 DEF D
    <3> QED BY <1>4, <1>7, <3>2
  <2> QED BY <2>4
<1> QED BY <1>3, <1>4, <1>5, <1>6, <1>7, <1>8

LEMMA BodyDomain == SteadyProblem => DOMAIN Body = 1 .. Length
BY LengthIsPositive DEF Body, S!SteadyBody

LEMMA PinnedAction ==
  ASSUME SteadyProblem, NEW i \in 1 .. Length, i \notin At
  PROVE  /\ bodySequence[i] \in Pinned
         /\ Body[i] = [step |-> i - 1, weight |-> bodySequence[i], tile |-> Rank(bodySequence[i]),
                       kind |-> IF First(bodySequence[i]) = i THEN "ProgramIntoFree" ELSE "Reuse",
                       evicted |-> NoWeight]
<1>1. bodySequence \in Seq(Weights) /\ i \in 1 .. Len(bodySequence)
  BY DEF SteadyProblem, Length
<1>2. S!PinnedKind(bodySequence, i) = IF First(bodySequence[i]) = i THEN "ProgramIntoFree" ELSE "Reuse"
  BY DEF S!PinnedKind, First
<1> HIDE DEF SteadyProblem
<1>3. i \notin S!Streamed(bodySequence, numTiles)
  BY DEF At
<1>4. /\ bodySequence[i] \in S!Pinned(bodySequence, numTiles)
      /\ S!SteadyBody(bodySequence, numTiles)[i] =
           [step |-> i - 1, weight |-> bodySequence[i],
            tile |-> S!PinRank(bodySequence, numTiles, bodySequence[i]),
            kind |-> S!PinnedKind(bodySequence, i), evicted |-> NoWeight]
  BY <1>1, <1>3, S!PinnedAction
<1> QED BY <1>2, <1>4, Zenon DEF Body, Pinned, Rank

\* The k-th use of the streamed tile: what is on it, when the first repetition
\* replays it, is the use before.
LEMMA StreamedAction ==
  ASSUME SteadyProblem, NEW i \in At
  PROVE  LET k == Streaming(i)
             same == k # 1 /\ Stream[k - 1] = bodySequence[i]
         IN Body[i] = [step |-> i - 1, weight |-> bodySequence[i], tile |-> Pins,
                       kind |-> IF k = 1 THEN "ProgramIntoFree"
                                ELSE IF same THEN "Reuse" ELSE "ProgramWithEviction",
                       evicted |-> IF k = 1 \/ same THEN NoWeight ELSE Stream[k - 1]]
<1>1. bodySequence \in Seq(Weights) /\ i \in S!Streamed(bodySequence, numTiles)
  BY DEF SteadyProblem, At
<1> DEFINE a == S!OneTileAction(Stream, Streaming(i))
<1>2. Body[i] = [step |-> i - 1, weight |-> bodySequence[i], tile |-> Pins,
                 kind |-> a.kind, evicted |-> a.evicted]
  BY <1>1, S!StreamedAction DEF Body, At, Stream, Streaming, Pins
<1>3. Stream[Streaming(i)] = bodySequence[i]
  BY StreamFacts
<1>4. /\ a.kind = IF Streaming(i) = 1 THEN "ProgramIntoFree"
                  ELSE IF Stream[Streaming(i) - 1] # bodySequence[i] THEN "ProgramWithEviction" ELSE "Reuse"
      /\ a.evicted = IF Streaming(i) # 1 /\ Stream[Streaming(i) - 1] # bodySequence[i]
                     THEN Stream[Streaming(i) - 1] ELSE NoWeight
  BY <1>3 DEF S!OneTileAction
<1> HIDE DEF a
<1> QED BY <1>2, <1>4

LEMMA StreamedFields ==
  ASSUME SteadyProblem, NEW i \in At
  PROVE  Body[i].weight = bodySequence[i] /\ Body[i].tile = Pins
<1>1. \E kind, evicted : Body[i] = [step |-> i - 1, weight |-> bodySequence[i], tile |-> Pins,
                                   kind |-> kind, evicted |-> evicted]
  BY StreamedAction, Zenon
<1> QED BY <1>1

\* The actions on the streamed tile are those at the streamed positions.
LEMMA StreamedActions ==
  ASSUME SteadyProblem
  PROVE  Streamed(Body, Pins) = At
<1>1. ASSUME NEW i \in 1 .. Length, i \notin At PROVE ~ (Body[i].tile >= Pins)
  <2>1. Body[i].tile = Rank(bodySequence[i]) /\ bodySequence[i] \in Pinned
    <3>1. /\ bodySequence[i] \in Pinned
          /\ Body[i] = [step |-> i - 1, weight |-> bodySequence[i], tile |-> Rank(bodySequence[i]),
                        kind |-> IF First(bodySequence[i]) = i THEN "ProgramIntoFree" ELSE "Reuse",
                        evicted |-> NoWeight]
      BY <1>1, PinnedAction, Zenon
    <3> QED BY <3>1
  <2>2. Rank(bodySequence[i]) \in 0 .. Pins - 1 /\ Pins \in Nat
    BY <2>1, PinFacts
  <2> QED BY <2>1, <2>2
<1>2. ASSUME NEW i \in At PROVE Body[i].tile >= Pins
  <2>1. Body[i].tile = Pins /\ Pins \in Nat
    BY StreamedFields, PinFacts
  <2> QED BY <2>1
<1>3. DOMAIN Body = 1 .. Length /\ At \subseteq 1 .. Length
  BY BodyDomain, PinFacts
<1> QED BY <1>1, <1>2, <1>3 DEF Streamed

\* The use of the streamed tile before its k-th, when the body is repeated.
Previous(k) == IF k = 1 THEN Stream[Len(Stream)] ELSE Stream[k - 1]

LEMMA ContinuedActions ==
  ASSUME SteadyProblem, NEW i \in At
  PROVE  LET same == Previous(Streaming(i)) = bodySequence[i]
             a == Continuation(Body, Pins)[Streaming(i)]
         IN \E s : a = [step |-> s, weight |-> bodySequence[i], tile |-> Pins,
                        kind |-> IF same THEN "Reuse" ELSE "ProgramWithEviction",
                        evicted |-> IF same THEN NoWeight ELSE Previous(Streaming(i))]
<1> DEFINE streamed == S!Kept(Body, At)
           L == Len(Stream)
           uses == [j \in 1 .. 2 * L |-> streamed[((j - 1) % L) + 1].weight]
           again == SubSeq(S!Belady(uses, 1), L + 1, 2 * L)
           k == Streaming(i)
<1>1. /\ Stream \in Seq(Weights) /\ L \in Nat \ {0} /\ k \in 1 .. L /\ Stream[k] = bodySequence[i]
      /\ \A j \in 1 .. L : \E m \in At : Streaming(m) = j
      /\ \A j \in 1 .. L : Stream[j] \in Weights
      /\ \A m \in At : Stream[Streaming(m)] = bodySequence[m]
  BY StreamFacts
<1>2. \A m \in At : Body[m].weight = bodySequence[m]
  BY StreamedFields
<1>3. /\ Len(streamed) = L
      /\ \A m \in At : streamed[Streaming(m)] = Body[m]
  <2> DEFINE X == {Body[j] : j \in 1 .. Length}
  <2>1. Body \in Seq(X) /\ Len(Body) = Length
    <3>1. DOMAIN Body = 1 .. Length /\ Length \in Nat /\ Body = [j \in DOMAIN Body |-> Body[j]]
      BY BodyDomain, LengthIsPositive DEF Body, S!SteadyBody
    <3>2. Body \in [1 .. Length -> X]
      BY <3>1
    <3> HIDE DEF X, L, uses, again, streamed
    <3> QED BY <3>1, <3>2
  <2>2. At \in SUBSET (1 .. Len(Body))
    BY <2>1, PinFacts
  <2>3. Len(Stream) = S!Cardinality(At)
    BY PinFacts, S!KeptSequence DEF Stream, SteadyProblem, Length
  <2> HIDE DEF X
  <2> QED BY <2>1, <2>2, <2>3, S!KeptSequence DEF Streaming
<1>4. \A j \in 1 .. L : streamed[j].weight = Stream[j]
  BY <1>1, <1>2, <1>3
<1>5. Continuation(Body, Pins) = [j \in DOMAIN again |-> [again[j] EXCEPT !.tile = Pins]]
  <2>1. Schedule!Kept(Body, Streamed(Body, Pins)) = streamed
    BY StreamedActions, SameFunctions
  <2>2. Schedule!Belady(uses, 1) = S!Belady(uses, 1)
    BY SameFunctions
  <2>3. streamed # <<>>
    BY <1>1, <1>3
  <2> HIDE DEF streamed
  <2> QED BY <1>3, <2>1, <2>2, <2>3, Zenon DEF Continuation
<1> HIDE DEF streamed, L
<1>6. /\ uses \in Seq(Weights) /\ Len(uses) = 2 * L
      /\ \A j \in 1 .. L : uses[j] = Stream[j] /\ uses[L + j] = Stream[j]
  <2>1. \A j \in 1 .. L : /\ j \in 1 .. 2 * L /\ L + j \in 1 .. 2 * L
                          /\ (j - 1) % L = j - 1 /\ ((L + j) - 1) % L = j - 1
    <3> SUFFICES ASSUME NEW j \in 1 .. L
                 PROVE  (j - 1) % L = j - 1 /\ ((L + j) - 1) % L = j - 1
      BY <1>1
    <3>1. j - 1 \in 0 .. L - 1 /\ (L + j) - 1 = L + (j - 1)
      BY <1>1
    <3> QED BY <1>1, <3>1, Remainders
  <2>2. \A j \in 1 .. 2 * L : ((j - 1) % L) + 1 \in 1 .. L
    BY <1>1
  <2>3. \A j \in 1 .. 2 * L : uses[j] = Stream[((j - 1) % L) + 1]
    BY <1>4, <2>2
  <2>4. uses \in [1 .. 2 * L -> Weights]
    BY <1>1, <1>4, <2>2
  <2>5. uses \in Seq(Weights) /\ Len(uses) = 2 * L
    <3>1. 2 * L \in Nat
      BY <1>1
    <3> HIDE DEF uses
    <3> QED BY <2>4, <3>1
  <2>6. ASSUME NEW j \in 1 .. L PROVE uses[j] = Stream[j] /\ uses[L + j] = Stream[j]
    <3>1. (j - 1) + 1 = j
      OBVIOUS
    <3> HIDE DEF uses
    <3> QED BY <2>1, <2>3, <3>1
  <2> QED BY <2>5, <2>6
<1> HIDE DEF uses
<1> DEFINE B == S!Belady(uses, 1)
<1>7. Len(B) = 2 * L /\ (\E X : B \in Seq(X)) /\ B[L + k] = S!OneTileAction(uses, L + k)
  <2>1. L + k \in 1 .. Len(uses)
    BY <1>1, <1>6
  <2>2. Len(B) = Len(uses) /\ B[L + k] = S!OneTileAction(uses, L + k)
    BY <1>6, <2>1, S!OneTile
  <2>3. \E held : S!IsSchedule(B, held, uses, Weights, 1)
    BY <1>6, S!BeladySchedule
  <2> QED BY <1>6, <2>2, <2>3, Zenon DEF S!IsSchedule
<1> HIDE DEF B
<1>8. k \in DOMAIN again /\ again[k] = B[L + k]
  <2>1. PICK X : B \in Seq(X)
    BY <1>7
  <2> QED BY <1>1, <1>7, <2>1 DEF B
<1>9. Continuation(Body, Pins)[k] = [S!OneTileAction(uses, L + k) EXCEPT !.tile = Pins]
  BY <1>5, <1>7, <1>8, Zenon
<1>10. uses[L + k] = bodySequence[i] /\ uses[(L + k) - 1] = Previous(k) /\ L + k # 1
  <2>1. CASE k = 1
    <3>1. (L + k) - 1 = L /\ L \in 1 .. L
      BY <1>1, <2>1
    <3> QED BY <1>1, <1>6, <2>1, <3>1 DEF Previous, L
  <2>2. CASE k # 1
    <3>1. (L + k) - 1 = L + (k - 1) /\ k - 1 \in 1 .. L
      BY <1>1, <2>2
    <3> QED BY <1>1, <1>6, <2>2, <3>1 DEF Previous
  <2> QED BY <2>1, <2>2
<1>11. S!OneTileAction(uses, L + k) =
         [step |-> (L + k) - 1, weight |-> bodySequence[i], tile |-> 0,
          kind |-> IF Previous(k) = bodySequence[i] THEN "Reuse" ELSE "ProgramWithEviction",
          evicted |-> IF Previous(k) = bodySequence[i] THEN NoWeight ELSE Previous(k)]
  BY <1>10 DEF S!OneTileAction
<1>12. Continuation(Body, Pins)[k] =
         [step |-> (L + k) - 1, weight |-> bodySequence[i], tile |-> Pins,
          kind |-> IF Previous(k) = bodySequence[i] THEN "Reuse" ELSE "ProgramWithEviction",
          evicted |-> IF Previous(k) = bodySequence[i] THEN NoWeight ELSE Previous(k)]
  BY <1>9, <1>11
<1> QED BY <1>12, Zenon

LEMMA HoldsPinned ==
  ASSUME SteadyProblem, NEW w \in Pinned, NEW r, NEW later
  PROVE  Holds(Rank(w), r, later) = IF later \/ First(w) <= r THEN w ELSE NoWeight
<1>1. Rank(w) < Pins
  <2>1. Rank(w) \in 0 .. Pins - 1 /\ Pins \in Nat
    BY PinFacts
  <2> QED BY <2>1
<1>2. \A x \in Pinned : Rank(x) = Rank(w) => x = w
  BY PinFacts
<1>3. PinnedTo(Rank(w)) = w
  BY <1>2 DEF PinnedTo
<1>4. Installed(Rank(w), r, later) <=> (later \/ First(w) <= r)
  BY <1>2 DEF Installed
<1> HIDE DEF Rank, First
<1> QED BY <1>1, <1>3, <1>4, Zenon DEF Holds

\* A tile holds nothing, the pinned weight of its rank, or a streamed weight.
LEMMA HoldsKind ==
  ASSUME SteadyProblem, NEW t \in Tiles, NEW r \in 0 .. Length, NEW later
  PROVE  \/ Holds(t, r, later) = NoWeight
         \/ Holds(t, r, later) \in Pinned /\ t = Rank(Holds(t, r, later)) /\ t < Pins
         \/ Holds(t, r, later) \in Weights \ Pinned /\ t = Pins
<1>1. CASE t < Pins
  <2>1. CASE Installed(t, r, later)
    <3>1. PICK w \in Pinned : Rank(w) = t
      BY <2>1 DEF Installed
    <3>2. PinnedTo(t) \in Pinned /\ Rank(PinnedTo(t)) = t
      BY <3>1 DEF PinnedTo
    <3> HIDE DEF Rank, First
    <3>3. Holds(t, r, later) = PinnedTo(t)
      BY <1>1, <2>1, Zenon DEF Holds
    <3> QED BY <1>1, <3>2, <3>3
  <2>2. CASE ~ Installed(t, r, later)
    <3> HIDE DEF Rank, First
    <3> QED BY <1>1, <2>2, Zenon DEF Holds
  <2> QED BY <2>1, <2>2
<1>2. CASE ~ (t < Pins)
  <2>1. Streaming(r) \in 0 .. Len(Stream) /\ Len(Stream) \in Nat
    BY StreamFacts
  <2>2. \A k \in 1 .. Len(Stream) : Stream[k] \in Weights \ Pinned
    BY StreamFacts
  <2>3. At # {} => Len(Stream) # 0
    BY StreamFacts
  <2>4. Streaming(r) > 0 => Streaming(r) \in 1 .. Len(Stream)
    BY <2>1
  <2>5. At # {} => Len(Stream) \in 1 .. Len(Stream)
    BY <2>1, <2>3
  <2>6. Holds(t, r, later) = IF t = Pins
            THEN IF Streaming(r) > 0 THEN Stream[Streaming(r)]
                 ELSE IF later /\ At # {} THEN Stream[Len(Stream)] ELSE NoWeight
            ELSE NoWeight
    BY <1>2, Zenon DEF Holds
  <2> QED BY <2>2, <2>4, <2>5, <2>6
<1> QED BY <1>1, <1>2

\* No weight is on two tiles.
LEMMA HoldsOnce ==
  ASSUME SteadyProblem, NEW t \in Tiles, NEW u \in Tiles, NEW r \in 0 .. Length, NEW later,
         Holds(t, r, later) = Holds(u, r, later), Holds(t, r, later) # NoWeight
  PROVE  t = u
<1>1. Pins \in Int /\ t \in Int /\ u \in Int
  BY PinFacts DEF Tiles, SteadyProblem
<1> QED BY <1>1, HoldsKind

\* The tile of a use.
TileOf(i) == IF i \in At THEN Pins ELSE Rank(bodySequence[i])

LEMMA TileOfUse ==
  ASSUME SteadyProblem, NEW i \in 1 .. Length
  PROVE  TileOf(i) \in Tiles /\ bodySequence[i] \in Weights
<1>1. CASE i \in At
  BY <1>1, PinFacts DEF TileOf, SteadyProblem, Length
<1>2. CASE i \notin At
  <2>1. bodySequence[i] \in Pinned
    BY <1>2, PinnedAction
  <2>2. Rank(bodySequence[i]) \in 0 .. Pins - 1 /\ Pins \in 0 .. numTiles /\ bodySequence[i] \in Weights
    BY <2>1, PinFacts
  <2> HIDE DEF Rank
  <2> QED BY <1>2, <2>2 DEF TileOf, Tiles, SteadyProblem
<1> QED BY <1>1, <1>2

\* A use leaves its weight on its tile, and every other tile as it was.
LEMMA HoldingStep ==
  ASSUME SteadyProblem, NEW r \in 0 .. Length - 1, NEW later
  PROVE  Holding(r + 1, later) = [Holding(r, later) EXCEPT ![TileOf(r + 1)] = bodySequence[r + 1]]
<1> DEFINE i == r + 1
           w == bodySequence[i]
<1>1. i \in 1 .. Length /\ i - 1 = r /\ r \in 0 .. Length /\ i \in 0 .. Length /\ Length \in Nat
  BY LengthIsPositive
<1>2. TileOf(i) \in Tiles
  BY <1>1, TileOfUse
<1>3. Streaming(i) = Streaming(r) + (IF i \in At THEN 1 ELSE 0) /\ Streaming(r) \in Nat
  <2>1. Streaming(r) \in 0 .. Len(Stream)
    BY <1>1, StreamFacts
  <2> QED BY <2>1, StreamFacts
<1>4. Pins \in Int /\ \A t \in Tiles : t \in Int
  BY PinFacts DEF Tiles, SteadyProblem
<1> HIDE DEF i
<1>5. Holds(TileOf(i), i, later) = w
  <2>1. CASE i \in At
    <3>1. Streaming(i) > 0 /\ Stream[Streaming(i)] = w /\ ~ (Pins < Pins)
      BY <1>3, <1>4, <2>1, StreamFacts
    <3> QED BY <2>1, <3>1, Zenon DEF Holds, TileOf
  <2>2. CASE i \notin At
    <3>1. w \in Pinned
      BY <1>1, <2>2, PinnedAction
    <3>2. First(w) <= i
      <4>1. w \in S!WeightsOf(bodySequence)
        BY <3>1 DEF Pinned, S!Pinned
      <4> QED BY <1>1, <4>1, S!FirstUse DEF First, SteadyProblem, Length
    <3> QED BY <2>2, <3>1, <3>2, HoldsPinned DEF TileOf
  <2> QED BY <2>1, <2>2
<1>6. ASSUME NEW t \in Tiles, t # TileOf(i) PROVE Holds(t, i, later) = Holds(t, r, later)
  <2>1. CASE t < Pins
    <3>1. ASSUME NEW x \in Pinned, Rank(x) = t PROVE First(x) <= i <=> First(x) <= r
      <4>1. First(x) \in 1 .. Length /\ bodySequence[First(x)] = x
        BY PinFacts
      <4>2. First(x) # i
        <5> SUFFICES ASSUME First(x) = i PROVE FALSE
          OBVIOUS
        <5>1. w = x
          BY <4>1
        <5>2. i \notin At
          BY <3>1, <5>1, StreamFacts
        <5> QED BY <1>6, <3>1, <5>1, <5>2 DEF TileOf
      <4> HIDE DEF First
      <4> QED BY <1>1, <4>1, <4>2 DEF i
    <3>2. Installed(t, i, later) <=> Installed(t, r, later)
      BY <3>1 DEF Installed
    <3> HIDE DEF Rank, First
    <3> QED BY <2>1, <3>2 DEF Holds
  <2>2. CASE t = Pins
    <3>1. i \notin At
      BY <1>6, <2>2 DEF TileOf
    <3>2. Streaming(i) = Streaming(r)
      BY <1>3, <3>1
    <3>3. ~ (t < Pins)
      BY <1>4, <2>2
    <3> QED BY <2>2, <3>2, <3>3, Zenon DEF Holds
  <2>3. CASE ~ (t < Pins) /\ t # Pins
    BY <2>3, Zenon DEF Holds
  <2> QED BY <2>1, <2>2, <2>3
<1>7. \A t \in Tiles : Holding(i, later)[t] = Holds(t, i, later) /\ Holding(r, later)[t] = Holds(t, r, later)
  BY DEF Holding
<1>8. Holding(i, later) = [Holding(r, later) EXCEPT ![TileOf(i)] = w]
  <2>1. DOMAIN Holding(i, later) = Tiles /\ DOMAIN Holding(r, later) = Tiles
    BY DEF Holding
  <2>2. Holding(i, later) = [t \in Tiles |-> Holding(i, later)[t]] /\ Holding(r, later) = [t \in Tiles |-> Holding(r, later)[t]]
    BY DEF Holding
  <2> HIDE DEF w
  <2> QED BY <1>2, <1>5, <1>6, <1>7, <2>1, <2>2
<1> QED BY <1>8 DEF i

\* A repetition ends as the ones after it start.
LEMMA HoldingEnds ==
  ASSUME SteadyProblem, NEW later
  PROVE  Holding(Length, later) = Holding(0, TRUE)
<1>1. \A w \in Pinned : First(w) <= Length
  BY PinFacts, LengthIsPositive
<1>2. Streaming(0) = 0 /\ Streaming(Length) = Len(Stream) /\ (At # {} <=> Len(Stream) # 0) /\ Len(Stream) \in Nat
  BY StreamFacts
<1>3. ASSUME NEW t PROVE Holds(t, Length, later) = Holds(t, 0, TRUE)
  <2>1. CASE t < Pins
    <3>1. Installed(t, Length, later) <=> Installed(t, 0, TRUE)
      BY <1>1 DEF Installed
    <3> HIDE DEF Rank, First
    <3> QED BY <2>1, <3>1 DEF Holds
  <2>2. CASE ~ (t < Pins)
    BY <1>2, <2>2 DEF Holds
  <2> QED BY <2>1, <2>2
<1> QED BY <1>3 DEF Holding

\* What the action of a use claims of its tile holds, in every repetition.
ClaimOf(a, held) ==
  \/ a.kind = "Reuse" /\ held = a.weight
  \/ a.kind = "ProgramIntoFree" /\ held = NoWeight
  \/ a.kind = "ProgramWithEviction" /\ held # NoWeight /\ held = a.evicted

Act(s, w, t, kind, evicted) ==
  [step |-> s, weight |-> w, tile |-> t, kind |-> kind, evicted |-> evicted]

LEMMA ActFields ==
  ASSUME NEW s, NEW w, NEW t, NEW kind, NEW evicted
  PROVE  LET a == Act(s, w, t, kind, evicted) IN
         a.step = s /\ a.weight = w /\ a.tile = t /\ a.kind = kind /\ a.evicted = evicted
BY DEF Act

LEMMA ActAtStep ==
  ASSUME NEW s, NEW w, NEW t, NEW kind, NEW evicted, NEW r
  PROVE  [Act(s, w, t, kind, evicted) EXCEPT !.step = r] = Act(r, w, t, kind, evicted)
BY DEF Act

LEMMA ActReused ==
  ASSUME NEW s, NEW w, NEW t, NEW kind, NEW evicted
  PROVE  [Act(s, w, t, kind, evicted) EXCEPT !.kind = "Reuse"] = Act(s, w, t, "Reuse", evicted)
BY DEF Act

\* An action of this step, weight and tile, with a claim that holds.
Claims(a, s, w, t, held) == a.step = s /\ a.weight = w /\ a.tile = t /\ ClaimOf(a, held)

LEMMA ActClaim ==
  ASSUME NEW s, NEW w, NEW t, NEW kind, NEW evicted, NEW held,
         \/ kind = "Reuse" /\ held = w
         \/ kind = "ProgramIntoFree" /\ held = NoWeight
         \/ kind = "ProgramWithEviction" /\ held # NoWeight /\ held = evicted
  PROVE  Claims(Act(s, w, t, kind, evicted), s, w, t, held)
<1> DEFINE a == Act(s, w, t, kind, evicted)
<1>1. a.step = s /\ a.weight = w /\ a.tile = t /\ a.kind = kind /\ a.evicted = evicted
  BY ActFields
<1> HIDE DEF a
<1>2. Claims(a, s, w, t, held)
  BY <1>1 DEF ClaimOf, Claims
<1> QED BY <1>2 DEF a

\* The first repetition is the schedule as it was made.
LEMMA FirstRepetition ==
  ASSUME SteadyProblem, NEW i \in 1 .. Length
  PROVE  Claims(Body[i], i - 1, bodySequence[i], TileOf(i), Holds(TileOf(i), i - 1, FALSE))
<1> DEFINE w == bodySequence[i]
           held == Holds(TileOf(i), i - 1, FALSE)
<1>1. i \in Int /\ i - 1 \in 0 .. Length - 1 /\ i - 1 \in 0 .. Length /\ (i - 1) + 1 = i /\ w \in Weights
  BY LengthIsPositive, TileOfUse
<1>2. CASE i \notin At
  <2> DEFINE kind == IF First(w) = i THEN "ProgramIntoFree" ELSE "Reuse"
  <2>1. w \in Pinned /\ Body[i] = Act(i - 1, w, Rank(w), kind, NoWeight)
    BY <1>2, PinnedAction, Zenon DEF Act
  <2>2. Holds(Rank(w), i - 1, FALSE) = IF FALSE \/ First(w) <= i - 1 THEN w ELSE NoWeight
    BY <2>1, HoldsPinned
  <2>3. First(w) \in Int /\ First(w) <= i
    <3>1. w \in S!WeightsOf(bodySequence)
      BY <2>1 DEF Pinned, S!Pinned
    <3> QED BY <3>1, S!FirstUse DEF First, SteadyProblem, Length
  <2>4. TileOf(i) = Rank(w)
    BY <1>2 DEF TileOf
  <2> HIDE DEF First, Rank, w
  <2>5. \/ kind = "Reuse" /\ held = w
        \/ kind = "ProgramIntoFree" /\ held = NoWeight
    <3>1. held = IF First(w) <= i - 1 THEN w ELSE NoWeight
      BY <2>2, <2>4
    <3> HIDE DEF held
    <3>2. CASE First(w) = i
      BY <1>1, <3>1, <3>2
    <3>3. CASE First(w) # i
      <4>1. First(w) <= i - 1
        BY <1>1, <2>3, <3>3
      <4> QED BY <3>1, <3>3, <4>1
    <3> QED BY <3>2, <3>3
  <2> HIDE DEF held, kind
  <2>6. Claims(Body[i], i - 1, w, Rank(w), held)
    BY <2>1, <2>5, ActClaim
  <2> QED BY <2>4, <2>6 DEF w, held
<1>3. CASE i \in At
  <2> DEFINE k == Streaming(i)
             same == k # 1 /\ Stream[k - 1] = w
             kind == IF k = 1 THEN "ProgramIntoFree" ELSE IF same THEN "Reuse" ELSE "ProgramWithEviction"
             evicted == IF k = 1 \/ same THEN NoWeight ELSE Stream[k - 1]
  <2>1. Body[i] = Act(i - 1, w, Pins, kind, evicted)
    BY <1>3, StreamedAction, Zenon DEF Act
  <2>2. k = Streaming(i - 1) + 1 /\ Streaming(i - 1) \in Nat /\ k \in 1 .. Len(Stream)
    BY <1>1, <1>3, StreamFacts
  <2>3. Holds(Pins, i - 1, FALSE) = IF k = 1 THEN NoWeight ELSE Stream[k - 1]
    <3>1. Pins \in Int
      BY PinFacts
    <3>2. k - 1 = Streaming(i - 1) /\ (k = 1 <=> ~ (Streaming(i - 1) > 0)) /\ ~ (Pins < Pins)
      BY <2>2, <3>1
    <3> HIDE DEF k
    <3> QED BY <3>2 DEF Holds
  <2>4. k # 1 => Stream[k - 1] \in Weights
    BY <2>2, StreamFacts
  <2>5. TileOf(i) = Pins
    BY <1>3 DEF TileOf
  <2> HIDE DEF w, k
  <2>6. \/ kind = "Reuse" /\ held = w
        \/ kind = "ProgramIntoFree" /\ held = NoWeight
        \/ kind = "ProgramWithEviction" /\ held # NoWeight /\ held = evicted
    BY <2>3, <2>4, <2>5
  <2> HIDE DEF held, kind, evicted
  <2>7. Claims(Body[i], i - 1, w, Pins, held)
    BY <2>1, <2>6, ActClaim
  <2> QED BY <2>5, <2>7 DEF w, held
<1> QED BY <1>2, <1>3

\* In a later repetition a pinned use is a reuse, a streamed one continues.
LaterAction(i, s) ==
  IF i \in At THEN [Continuation(Body, Pins)[Streaming(i)] EXCEPT !.step = s]
  ELSE [Body[i] EXCEPT !.step = s, !.kind = "Reuse"]

LEMMA LaterRepetition ==
  ASSUME SteadyProblem, NEW i \in 1 .. Length, NEW s
  PROVE  Claims(LaterAction(i, s), s, bodySequence[i], TileOf(i), Holds(TileOf(i), i - 1, TRUE))
<1> DEFINE w == bodySequence[i]
           held == Holds(TileOf(i), i - 1, TRUE)
           a == LaterAction(i, s)
<1>1. i \in Int /\ i - 1 \in 0 .. Length - 1 /\ i - 1 \in 0 .. Length /\ (i - 1) + 1 = i /\ w \in Weights
  BY LengthIsPositive, TileOfUse
<1>2. CASE i \notin At
  <2> DEFINE kind == IF First(w) = i THEN "ProgramIntoFree" ELSE "Reuse"
  <2>1. w \in Pinned /\ Body[i] = Act(i - 1, w, Rank(w), kind, NoWeight)
    BY <1>2, PinnedAction, Zenon DEF Act
  <2>2. Holds(Rank(w), i - 1, TRUE) = IF TRUE \/ First(w) <= i - 1 THEN w ELSE NoWeight
    BY <2>1, HoldsPinned
  <2>3. TileOf(i) = Rank(w) /\ a = [Body[i] EXCEPT !.step = s, !.kind = "Reuse"]
    BY <1>2 DEF TileOf, LaterAction
  <2> HIDE DEF w, First, Rank, kind, a
  <2>4. a = Act(s, w, Rank(w), "Reuse", NoWeight)
    <3> DEFINE b == [Body[i] EXCEPT !.step = s]
    <3>1. b = Act(s, w, Rank(w), kind, NoWeight)
      BY <2>1, ActAtStep
    <3>2. a = [b EXCEPT !.kind = "Reuse"]
      BY <2>3
    <3> HIDE DEF b
    <3> QED BY <3>1, <3>2, ActReused
  <2>5. held = w
    BY <2>2, <2>3
  <2> HIDE DEF held
  <2>6. Claims(a, s, w, Rank(w), held)
    BY <2>4, <2>5, ActClaim
  <2> QED BY <2>3, <2>6 DEF w, held, a
<1>3. CASE i \in At
  <2> DEFINE k == Streaming(i)
             same == Previous(k) = w
             kind == IF same THEN "Reuse" ELSE "ProgramWithEviction"
             evicted == IF same THEN NoWeight ELSE Previous(k)
  <2>1. PICK r : Continuation(Body, Pins)[k] = Act(r, w, Pins, kind, evicted)
    BY <1>3, ContinuedActions, Zenon DEF Act
  <2>2. k = Streaming(i - 1) + 1 /\ Streaming(i - 1) \in Nat /\ k \in 1 .. Len(Stream) /\ Len(Stream) \in Nat
    BY <1>1, <1>3, StreamFacts
  <2>3. Holds(Pins, i - 1, TRUE) = Previous(k)
    <3>1. Pins \in Int /\ At # {}
      BY <1>3, PinFacts
    <3>2. k - 1 = Streaming(i - 1) /\ (k = 1 <=> ~ (Streaming(i - 1) > 0)) /\ ~ (Pins < Pins)
      BY <2>2, <3>1
    <3> HIDE DEF k
    <3> QED BY <3>1, <3>2 DEF Holds, Previous
  <2>4. Previous(k) \in Weights
    <3>1. \A j \in 1 .. Len(Stream) : Stream[j] \in Weights
      BY StreamFacts
    <3>2. Len(Stream) \in 1 .. Len(Stream) /\ (k # 1 => k - 1 \in 1 .. Len(Stream))
      BY <2>2
    <3> HIDE DEF k
    <3> QED BY <3>1, <3>2 DEF Previous
  <2>5. TileOf(i) = Pins /\ a = [Continuation(Body, Pins)[k] EXCEPT !.step = s]
    BY <1>3 DEF TileOf, LaterAction
  <2> HIDE DEF w, k, a
  <2>6. \/ kind = "Reuse" /\ held = w
        \/ kind = "ProgramWithEviction" /\ held # NoWeight /\ held = evicted
    BY <2>3, <2>4, <2>5
  <2> HIDE DEF held, kind, evicted
  <2>7. a = Act(s, w, Pins, kind, evicted)
    BY <2>1, <2>5, ActAtStep
  <2>8. Claims(a, s, w, Pins, held)
    BY <2>6, <2>7, ActClaim
  <2> QED BY <2>5, <2>8 DEF w, held, a
<1> QED BY <1>2, <1>3

\* The action replayed at step s of three repetitions.
LEMMA ReplayedClaim ==
  ASSUME SteadyProblem, NEW s \in 0 .. 3 * Length - 1
  PROVE  LET a == ReplayedAction(s)
             i == (s % Length) + 1
         IN Claims(a, s, bodySequence[i], TileOf(i), Holds(TileOf(i), s % Length, s >= Length))
<1> DEFINE r == s % Length
           i == r + 1
           a == ReplayedAction(s)
<1>1. Length \in Nat \ {0} /\ r \in 0 .. Length - 1 /\ (s < Length => r = s)
  BY LengthIsPositive, NextRemainder
<1>2. i \in 1 .. Length /\ i - 1 = r /\ s \in Nat
  BY <1>1
<1>3. /\ Schedule!SteadyBody(bodySequence, numTiles) = Body
      /\ Schedule!PinnedCount(bodySequence, numTiles) = Pins
      /\ Schedule!Nth(Streamed(Body, Pins), i) = Streaming(i)
  BY SameFunctions, StreamedActions DEF Body, Pins, Streaming
<1>4. ReplayedAction(s) = IF s < Length THEN Body[i]
        ELSE IF Body[i].tile < Pins THEN [Body[i] EXCEPT !.step = s, !.kind = "Reuse"]
        ELSE [Continuation(Body, Pins)[Streaming(i)] EXCEPT !.step = s]
  BY <1>3, Zenon DEF ReplayedAction, Length
<1>5. CASE s < Length
  <2>1. a = Body[i] /\ i - 1 = s /\ r = s /\ (s >= Length) = FALSE
    BY <1>1, <1>2, <1>4, <1>5
  <2>2. Claims(Body[i], i - 1, bodySequence[i], TileOf(i), Holds(TileOf(i), i - 1, FALSE))
    <3> HIDE DEF i
    <3> QED BY <1>2, FirstRepetition
  <2>3. Claims(a, s, bodySequence[i], TileOf(i), Holds(TileOf(i), r, s >= Length))
    BY <2>1, <2>2, Zenon
  <2> QED BY <2>3
<1>6. CASE ~ (s < Length)
  <2>1. Body[i].tile < Pins <=> i \notin At
    <3> HIDE DEF i
    <3>0. Pins \in Int /\ At \subseteq 1 .. Length
      BY PinFacts
    <3>a. Body[i].tile = TileOf(i)
      BY <1>2, FirstRepetition DEF Claims
    <3>1. Pins \in Int /\ DOMAIN Body = 1 .. Length /\ Body[i].tile = TileOf(i) /\ At \subseteq 1 .. Length
      BY <3>0, <3>a, BodyDomain
    <3>2. TileOf(i) \in Int
      BY <1>2, TileOfUse DEF Tiles, SteadyProblem
    <3>3. i \in Streamed(Body, Pins) <=> Body[i].tile >= Pins
      BY <1>2, <3>1 DEF Streamed
    <3> QED BY <3>1, <3>2, <3>3, StreamedActions
  <2>2. a = LaterAction(i, s)
    <3> HIDE DEF i
    <3> QED BY <1>4, <1>6, <2>1, Zenon DEF LaterAction
  <2>3. (s >= Length) = TRUE
    BY <1>1, <1>2, <1>6
  <2>4. Claims(LaterAction(i, s), s, bodySequence[i], TileOf(i), Holds(TileOf(i), i - 1, TRUE))
    <3> HIDE DEF i
    <3> QED BY <1>2, LaterRepetition
  <2>5. Claims(a, s, bodySequence[i], TileOf(i), Holds(TileOf(i), r, s >= Length))
    BY <1>2, <2>2, <2>3, <2>4, Zenon
  <2> QED BY <2>5
<1> QED BY <1>5, <1>6

\* The tiles hold what the repetitions say, and no action has been refused.
SteadyInv ==
  /\ SteadyProblem /\ useSequence = Flattened
  /\ step \in 0 .. 3 * Length /\ verdict # "rejected"
  /\ contents = Holding(step % Length, step >= Length)
  /\ step >= Length => boundary = Holding(0, TRUE)

LEMMA FlattenedUses ==
  ASSUME SteadyProblem
  PROVE  Len(Flattened) = 3 * Length
         /\ \A s \in 0 .. 3 * Length - 1 : Flattened[s + 1] = bodySequence[(s % Length) + 1]
<1>1. Length \in Nat \ {0} /\ 3 * Length \in Nat
  BY LengthIsPositive
<1>2. Flattened = [i \in 1 .. 3 * Length |-> bodySequence[((i - 1) % Length) + 1]]
  BY DEF Flattened, Repetitions, Length
<1>3. Len(Flattened) = 3 * Length
  BY <1>1, <1>2
<1>4. ASSUME NEW s \in 0 .. 3 * Length - 1 PROVE Flattened[s + 1] = bodySequence[(s % Length) + 1]
  <2>1. s + 1 \in 1 .. 3 * Length /\ (s + 1) - 1 = s
    BY <1>1
  <2> QED BY <1>2, <2>1
<1> QED BY <1>3, <1>4

\* Before the first use nothing is on a tile.
LEMMA NothingHeld ==
  ASSUME SteadyProblem
  PROVE  Holding(0, FALSE) = [t \in Tiles |-> NoWeight]
<1>1. \A w \in Pinned : ~ (First(w) <= 0)
  BY PinFacts, LengthIsPositive
<1>2. Streaming(0) = 0
  BY StreamFacts
<1>3. ASSUME NEW t PROVE Holds(t, 0, FALSE) = NoWeight
  <2>1. ~ Installed(t, 0, FALSE)
    BY <1>1 DEF Installed
  <2> HIDE DEF Rank, First
  <2> QED BY <1>2, <2>1 DEF Holds
<1> QED BY <1>3 DEF Holding

LEMMA SteadyStarts == SteadyInit => SteadyInv
<1> SUFFICES ASSUME SteadyInit PROVE SteadyInv
  OBVIOUS
<1>1. SteadyProblem
  <2>1. PICK n \in 1 .. MaxBody : bodySequence \in [1 .. n -> Weights]
    BY DEF SteadyInit, Bodies
  <2>2. n \in Nat \ {0}
    BY MaxBodyAssumption
  <2>3. bodySequence \in Seq(Weights) /\ Len(bodySequence) = n
    BY <2>1, <2>2
  <2>4. numTiles \in Nat \ {0}
    BY DEF SteadyInit
  <2> QED BY <2>2, <2>3, <2>4 DEF SteadyProblem
<1>2. Length \in Nat \ {0}
  BY <1>1, LengthIsPositive
<1>3. 0 % Length = 0 /\ (0 >= Length) = FALSE /\ 0 \in 0 .. 3 * Length
  <2>1. 0 \in 0 .. Length - 1
    BY <1>2
  <2>2. 0 % Length = 0
    BY <1>2, <2>1, Remainders
  <2> QED BY <1>2, <2>2
<1>4. contents = Holding(0, FALSE) /\ step = 0 /\ verdict = "replaying" /\ useSequence = Flattened
  BY <1>1, NothingHeld DEF SteadyInit, Fresh
<1>5. contents = Holding(step % Length, step >= Length) /\ ~ (step >= Length)
  BY <1>3, <1>4, Zenon
<1> QED BY <1>1, <1>3, <1>4, <1>5 DEF SteadyInv

\* The action replayed next is accepted: its claim is true and its weight is on
\* no other tile.
LEMMA ReplayedIsValid ==
  ASSUME SteadyInv, Replaying
  PROVE  /\ step \in 0 .. 3 * Length - 1
         /\ Valid(ReplayedAction(step))
         /\ After(ReplayedAction(step)) = Holding((step % Length) + 1, step >= Length)
<1> DEFINE a == ReplayedAction(step)
           r == step % Length
           later == step >= Length
           i == r + 1
<1>1. SteadyProblem /\ useSequence = Flattened /\ contents = Holding(r, later)
  BY DEF SteadyInv
<1>2. Length \in Nat \ {0}
  BY <1>1, LengthIsPositive
<1>3. step \in 0 .. 3 * Length - 1 /\ Use(step) = bodySequence[i]
  <2>1. step \in 0 .. 3 * Length /\ step < Len(useSequence)
    BY DEF SteadyInv, Replaying
  <2>2. Len(useSequence) = 3 * Length
    BY <1>1, FlattenedUses
  <2>3. step \in 0 .. 3 * Length - 1
    BY <1>2, <2>1, <2>2
  <2> QED BY <1>1, <2>3, FlattenedUses DEF Use
<1>4. r \in 0 .. Length - 1
  BY <1>2, <1>3, NextRemainder
<1>5. i \in 1 .. Length /\ i \in 0 .. Length /\ r \in 0 .. Length
  BY <1>2, <1>4
<1>6. Claims(a, step, bodySequence[i], TileOf(i), Holds(TileOf(i), r, later))
  BY <1>1, <1>3, ReplayedClaim
<1>7. TileOf(i) \in Tiles /\ bodySequence[i] \in Weights
  BY <1>1, <1>5, TileOfUse
<1>8. Holding(i, later) = [Holding(r, later) EXCEPT ![TileOf(i)] = bodySequence[i]]
  BY <1>1, <1>4, HoldingStep
<1> HIDE DEF a, i, r, later
<1>9. a.step = step /\ a.weight = bodySequence[i] /\ a.tile = TileOf(i) /\ ClaimOf(a, Holds(TileOf(i), r, later))
  BY <1>6 DEF Claims
<1>10. WellFormed(a)
  BY <1>3, <1>7, <1>9 DEF WellFormed
<1>11. contents[a.tile] = Holds(TileOf(i), r, later)
  BY <1>1, <1>7, <1>9 DEF Holding
<1>12. ClaimHolds(a)
  BY <1>9, <1>11, Zenon DEF ClaimHolds, ClaimOf
<1>13. After(a) = Holding(i, later)
  BY <1>1, <1>8, <1>9, Zenon DEF After
<1>14. SoleCopy(a)
  <2>1. \A t \in Tiles : Holding(i, later)[t] = Holds(t, i, later)
    BY DEF Holding
  <2>2. Holding(i, later)[TileOf(i)] = bodySequence[i]
    <3>1. DOMAIN Holding(r, later) = Tiles
      BY DEF Holding
    <3> QED BY <1>7, <1>8, <3>1
  <2>3. Holds(TileOf(i), i, later) = bodySequence[i] /\ bodySequence[i] # NoWeight
    BY <1>7, <2>1, <2>2, NoWeightAssumption
  <2>4. ASSUME NEW t \in Tiles, Holds(t, i, later) = bodySequence[i] PROVE t = TileOf(i)
    BY <1>1, <1>5, <1>7, <2>3, <2>4, HoldsOnce
  <2> QED BY <1>9, <1>13, <2>1, <2>4 DEF SoleCopy
<1> QED BY <1>3, <1>10, <1>12, <1>13, <1>14 DEF Valid, a, i, r, later

\* A step that leaves the problem alone leaves alone what the tiles hold in it.
LEMMA SameTiles ==
  ASSUME bodySequence' = bodySequence, numTiles' = numTiles
  PROVE  /\ Length' = Length /\ Flattened' = Flattened /\ (SteadyProblem' <=> SteadyProblem)
         /\ \A n, l : Holding(n, l)' = Holding(n, l)
<1>1. Length' = Length /\ Flattened' = Flattened /\ (SteadyProblem' <=> SteadyProblem)
  BY DEF Length, Flattened, SteadyProblem
<1>2. UNCHANGED <<Tiles, Pins, At, Stream, Pinned>> /\ \A w : Rank(w)' = Rank(w) /\ First(w)' = First(w)
  BY DEF Tiles, Pins, At, Stream, Pinned, Rank, First
<1>3. \A n : Streaming(n)' = Streaming(n)
  BY <1>2 DEF Streaming
<1>4. \A t : PinnedTo(t)' = PinnedTo(t)
  BY <1>2 DEF PinnedTo
<1>5. \A t, n, l : Installed(t, n, l)' <=> Installed(t, n, l)
  BY <1>2 DEF Installed
<1>6. \A t, n, l : Holds(t, n, l)' = Holds(t, n, l)
  BY <1>2, <1>3, <1>4, <1>5 DEF Holds
<1> QED BY <1>1, <1>2, <1>6 DEF Holding

LEMMA ValidateStep ==
  ASSUME SteadyInv, Validate
  PROVE  SteadyInv' /\ (RepetitionEnds /\ step' > Length => contents' = boundary)
<1> DEFINE a == ReplayedAction(step)
           r == step % Length
           later == step >= Length
<1>1. Replaying /\ SteadyProblem /\ bodySequence' = bodySequence
  BY DEF Validate, SteadyInv
<1>2. step \in 0 .. 3 * Length - 1 /\ Valid(a) /\ After(a) = Holding(r + 1, later)
  BY <1>1, ReplayedIsValid
<1>3. Accept(a)
  BY <1>2 DEF Validate, Reject
<1>4. /\ contents' = Holding(r + 1, later) /\ step' = step + 1 /\ verdict' = verdict
      /\ numTiles' = numTiles /\ useSequence' = useSequence
  BY <1>2, <1>3 DEF Accept, problem
<1>5. Length \in Nat \ {0}
  BY <1>1, LengthIsPositive
<1>6. /\ r \in 0 .. Length - 1 /\ (step < Length => r = step)
      /\ (step + 1) % Length = IF r + 1 = Length THEN 0 ELSE r + 1
  BY <1>2, <1>5, NextRemainder
<1>7. boundary' = IF (step + 1) % Length = 0 THEN contents' ELSE boundary
  BY <1>2, <1>4 DEF Validate, RepetitionEnds, Length
<1>8. Length' = Length /\ Flattened' = Flattened /\ SteadyProblem'
  BY <1>1, <1>4, SameTiles
<1>9. \A n, l : Holding(n, l)' = Holding(n, l)
  BY <1>1, <1>4, SameTiles
<1> HIDE DEF a, r, later
<1>10. step + 1 \in 0 .. 3 * Length
  BY <1>2, <1>5
<1>11. later => boundary = Holding(0, TRUE)
  BY DEF SteadyInv, later
<1>12. CASE r + 1 = Length
  <2>1. (step + 1) % Length = 0 /\ (step + 1 >= Length) = TRUE
    BY <1>2, <1>5, <1>6, <1>12
  <2>2. contents' = Holding(0, TRUE) /\ boundary' = contents'
    BY <1>1, <1>4, <1>7, <1>12, <2>1, HoldingEnds
  <2>3. contents' = Holding((step + 1) % Length, step + 1 >= Length)
    BY <2>1, <2>2
  <2>4. step' > Length => later
    BY <1>2, <1>4, <1>5 DEF later
  <2>5. SteadyInv'
    BY <1>4, <1>8, <1>9, <1>10, <2>2, <2>3 DEF SteadyInv
  <2> QED BY <1>11, <2>2, <2>4, <2>5
<1>13. CASE r + 1 # Length
  <2>1. (step + 1) % Length = r + 1 /\ r + 1 # 0
    BY <1>6, <1>13
  <2>2. (step + 1 >= Length) = later
    BY <1>2, <1>5, <1>6, <1>13 DEF later
  <2>3. contents' = Holding((step + 1) % Length, step + 1 >= Length)
    BY <1>4, <2>1, <2>2
  <2>4. boundary' = boundary
    BY <1>7, <2>1
  <2>5. SteadyInv'
    BY <1>4, <1>8, <1>9, <1>10, <1>11, <2>2, <2>3, <2>4 DEF SteadyInv
  <2>6. ~ RepetitionEnds
    BY <1>1, <1>4, <2>1 DEF RepetitionEnds, Length
  <2> QED BY <2>5, <2>6
<1> QED BY <1>12, <1>13

LEMMA SteadyStep ==
  ASSUME SteadyInv, [SteadyNext]_steadyVars
  PROVE  /\ SteadyInv'
         /\ step' # step /\ RepetitionEnds /\ step' > Length => contents' = boundary
<1>1. CASE Validate
  BY <1>1, ValidateStep
<1>2. CASE Finish
  <2>1. /\ UNCHANGED <<numTiles, useSequence, bodySequence, contents, step, boundary>>
        /\ verdict' = "accepted"
    BY <1>2 DEF Finish, Conclude, problem
  <2>2. SteadyInv'
    BY <2>1, SameTiles DEF SteadyInv
  <2> QED BY <2>1, <2>2
<1>3. CASE UNCHANGED steadyVars
  <2>1. UNCHANGED <<numTiles, useSequence, bodySequence, contents, step, boundary, verdict>>
    BY <1>3 DEF steadyVars, vars, problem
  <2>2. SteadyInv'
    BY <2>1, SameTiles DEF SteadyInv
  <2> QED BY <2>1, <2>2
<1> QED BY <1>1, <1>2, <1>3 DEF SteadyNext

\* NeverRejected: no schedule computeSteadyStatePlacement makes fails the
\* replay of validateSteadyStatePlacement, for any body and number of tiles.
THEOREM SteadyNeverRejected == SteadySpec => []NeverRejected
<1>1. SteadyInv => NeverRejected
  BY DEF SteadyInv, NeverRejected
<1> QED BY <1>1, SteadyStarts, SteadyStep, PTL DEF SteadySpec

\* RepetitionIsFixedPoint: the repetitions after the first leave every tile as
\* they found it, so that the three the validator replays stand for any number.
THEOREM SteadyFixedPoint == SteadySpec => RepetitionIsFixedPoint
<1>1. ASSUME SteadyInv, [SteadyNext]_steadyVars
      PROVE  [IsSteady /\ step' # step /\ RepetitionEnds /\ step' > Len(bodySequence) => contents' = boundary]_steadyVars
  BY <1>1, SteadyStep DEF Length
<1> QED BY <1>1, SteadyStarts, SteadyStep, PTL DEF SteadySpec, RepetitionIsFixedPoint
-----------------------------------------------------------------------------
(* The programs of one iteration. *)

LEMMA SameCounts ==
  /\ \A T : Schedule!Min(T) = S!Min(T) /\ Schedule!Max(T) = S!Max(T)
  /\ \A T : Schedule!Cardinality(T) = Cardinality(T) /\ S!Cardinality(T) = Cardinality(T)
<1>1. \A T : Schedule!Min(T) = S!Min(T) /\ Schedule!Max(T) = S!Max(T)
  BY DEF Schedule!Min, S!Min, Schedule!Max, S!Max
<1>2. \A T : Schedule!Cardinality(T) = Cardinality(T) /\ S!Cardinality(T) = Cardinality(T)
  BY DEF Schedule!Cardinality, S!Cardinality, Schedule!IsFiniteSet, S!IsFiniteSet, Cardinality, IsFiniteSet
<1> QED BY <1>1, <1>2

\* The streamed uses that are programs.
Programs == {i \in At : Streaming(i) = 1 \/ Stream[Streaming(i) - 1] # bodySequence[i]}

LEMMA ProgramsReported ==
  ASSUME SteadyProblem
  PROVE  Schedule!ProgramsPerIteration(bodySequence, numTiles) = Cardinality(Programs)
<1>1. ASSUME NEW i \in 1 .. Length, i \notin At PROVE Body[i].tile # Pins
  <2>1. Pins \in Nat
    BY PinFacts
  <2>2. i \notin Streamed(Body, Pins)
    BY <1>1, StreamedActions
  <2>3. DOMAIN Body = 1 .. Length
    BY BodyDomain
  <2> QED BY <2>1, <2>2, <2>3 DEF Streamed
<1>2. ASSUME NEW i \in At
      PROVE  Body[i].tile = Pins /\ (Body[i].kind # "Reuse" <=> i \in Programs)
  <2> DEFINE k == Streaming(i)
             same == k # 1 /\ Stream[k - 1] = bodySequence[i]
             kind == IF k = 1 THEN "ProgramIntoFree" ELSE IF same THEN "Reuse" ELSE "ProgramWithEviction"
             evicted == IF k = 1 \/ same THEN NoWeight ELSE Stream[k - 1]
  <2>1. Body[i] = Act(i - 1, bodySequence[i], Pins, kind, evicted)
    BY StreamedAction, Zenon DEF Act
  <2>2. i \in Programs <=> ~ same
    BY DEF Programs
  <2>3. kind # "Reuse" <=> ~ same
    OBVIOUS
  <2> HIDE DEF kind, evicted, same
  <2> QED BY <2>1, <2>2, <2>3, ActFields
<1>3. DOMAIN Body = 1 .. Length /\ At \subseteq 1 .. Length
  BY BodyDomain, PinFacts
<1>4. {i \in {j \in DOMAIN Body : Body[j].kind # "Reuse"} : Body[i].tile = Pins} = Programs
  BY <1>1, <1>2, <1>3 DEF Programs
<1>5. Schedule!SteadyBody(bodySequence, numTiles) = Body /\ Schedule!PinnedCount(bodySequence, numTiles) = Pins
  BY SameFunctions DEF Body, Pins
<1> QED BY <1>4, <1>5, SameCounts, Zenon
        DEF Schedule!ProgramsPerIteration, Schedule!ProgramsOnTile, Schedule!ProgramsOf

\* The use before use i on its tile, the body being repeated: the last of the
\* earlier ones or, without one, the last of all.
LEMMA BeforeFacts ==
  ASSUME SteadyProblem, NEW at \in [1 .. Length -> Tiles], NEW i \in 1 .. Length
  PROVE  /\ Before(i, at) \in 1 .. Length /\ at[Before(i, at)] = at[i]
         /\ \A j \in 1 .. Length : at[j] = at[i] /\ j < i => j <= Before(i, at) /\ Before(i, at) < i
         /\ (\A j \in 1 .. Length : at[j] = at[i] => ~ (j < i)) =>
              \A j \in 1 .. Length : at[j] = at[i] => j <= Before(i, at)
<1> DEFINE same == {j \in DOMAIN bodySequence : at[j] = at[i]}
           earlier == {j \in same : j < i}
<1>1. DOMAIN bodySequence = 1 .. Length /\ Length \in Nat
  BY LengthIsPositive
<1>2. i \in same /\ same \in SUBSET (1 .. Length) /\ earlier \in SUBSET (1 .. Length)
  BY <1>1
<1>3. Before(i, at) = IF earlier = {} THEN S!Max(same) ELSE S!Max(earlier)
  BY SameCounts DEF Before
<1>4. S!Max(same) \in same /\ \A m \in same : m <= S!Max(same)
  <2> HIDE DEF same
  <2> QED BY <1>1, <1>2, S!MaxIsGreatest
<1>5. earlier # {} => S!Max(earlier) \in earlier /\ \A m \in earlier : m <= S!Max(earlier)
  <2> HIDE DEF earlier
  <2> QED BY <1>1, <1>2, S!MaxIsGreatest
<1>6. CASE earlier = {}
  <2>1. Before(i, at) \in same /\ \A m \in same : m <= Before(i, at)
    BY <1>3, <1>4, <1>6
  <2>2. \A j \in 1 .. Length : at[j] = at[i] => ~ (j < i)
    BY <1>1, <1>6
  <2> QED BY <1>1, <2>1, <2>2
<1>7. CASE earlier # {}
  <2>1. Before(i, at) \in earlier /\ \A m \in earlier : m <= Before(i, at)
    BY <1>3, <1>5, <1>7
  <2> QED BY <1>1, <2>1
<1> QED BY <1>6, <1>7

LEMMA RecurringFacts ==
  ASSUME SteadyProblem, NEW at \in [1 .. Length -> Tiles]
  PROVE  LET R == {i \in 1 .. Length : bodySequence[Before(i, at)] # bodySequence[i]}
         IN  RecurringPrograms(at) = Cardinality(R) /\ IsFiniteSet(R) /\ Cardinality(R) \in Nat
<1> DEFINE R == {i \in 1 .. Length : bodySequence[Before(i, at)] # bodySequence[i]}
<1>1. DOMAIN bodySequence = 1 .. Length /\ Length \in Nat
  BY LengthIsPositive
<1>2. RecurringPrograms(at) = Cardinality(R)
  BY <1>1 DEF RecurringPrograms
<1>3. IsFiniteSet(1 .. Length)
  BY <1>1, FS_Interval
<1>4. R \subseteq 1 .. Length
  OBVIOUS
<1> HIDE DEF R
<1>5. IsFiniteSet(R) /\ Cardinality(R) \in Nat
  BY <1>3, <1>4, FS_Subset, FS_CardinalityType
<1> QED BY <1>2, <1>5 DEF R

\* Pin-and-stream's own tiles need no more programs than it executes.
OwnTiles == [i \in 1 .. Length |-> TileOf(i)]

LEMMA OwnTilesSuffice ==
  ASSUME SteadyProblem
  PROVE  /\ OwnTiles \in [1 .. Length -> Tiles]
         /\ RecurringPrograms(OwnTiles) <= Cardinality(Programs)
<1>1. OwnTiles \in [1 .. Length -> Tiles] /\ \A i \in 1 .. Length : OwnTiles[i] = TileOf(i)
  BY TileOfUse DEF OwnTiles
<1>2. Length \in Nat /\ At \in SUBSET (1 .. Length) /\ Pins \in Nat
  BY PinFacts, LengthIsPositive
<1>3. ASSUME NEW i \in 1 .. Length, i \notin At
      PROVE  bodySequence[Before(i, OwnTiles)] = bodySequence[i]
  <2> DEFINE j == Before(i, OwnTiles)
  <2>1. j \in 1 .. Length /\ TileOf(j) = TileOf(i)
    BY <1>1, BeforeFacts
  <2> HIDE DEF j
  <2>2. bodySequence[i] \in Pinned /\ TileOf(i) = Rank(bodySequence[i])
    BY <1>3, PinnedAction DEF TileOf
  <2>3. Rank(bodySequence[i]) # Pins
    <3>1. Rank(bodySequence[i]) \in 0 .. Pins - 1
      BY <2>2, PinFacts
    <3> HIDE DEF Rank
    <3> QED BY <1>2, <3>1
  <2>4. j \notin At /\ TileOf(j) = Rank(bodySequence[j])
    BY <2>1, <2>2, <2>3 DEF TileOf
  <2>5. bodySequence[j] \in Pinned
    BY <2>1, <2>4, PinnedAction
  <2>6. bodySequence[j] = bodySequence[i]
    BY <2>1, <2>2, <2>4, <2>5, PinFacts
  <2> QED BY <2>6 DEF j
<1>4. ASSUME NEW i \in At, i \notin Programs
      PROVE  bodySequence[Before(i, OwnTiles)] = bodySequence[i]
  <2> DEFINE j == Before(i, OwnTiles)
             k == Streaming(i)
  <2>1. k # 1 /\ Stream[k - 1] = bodySequence[i] /\ k \in 1 .. Len(Stream)
    BY <1>4, StreamFacts DEF Programs
  <2>2. PICK m \in At : Streaming(m) = k - 1
    <3>1. k - 1 \in 1 .. Len(Stream)
      BY <2>1, StreamFacts
    <3> HIDE DEF k
    <3> QED BY <3>1, StreamFacts
  <2>3. \A p, q \in At : p < q => Streaming(p) < Streaming(q)
    <3> SUFFICES ASSUME NEW p \in At, NEW q \in At, p < q PROVE Streaming(p) < Streaming(q)
      OBVIOUS
    <3>1. p \in 0 .. Length
      BY <1>2
    <3> QED BY <1>2, <3>1, S!NthGrows DEF Streaming
  <2>4. \A p \in At : Streaming(p) \in Nat /\ p \in 1 .. Length /\ TileOf(p) = Pins
    BY <1>2, StreamFacts DEF TileOf
  <2>5. m < i
    <3>1. ~ (i < m) /\ i # m
      <4>1. k \in Nat /\ ~ (k < k - 1) /\ k # k - 1
        BY <2>1
      <4> HIDE DEF k
      <4> QED BY <2>2, <2>3, <4>1 DEF k
    <3> QED BY <2>4, <3>1
  <2>6. m <= j /\ j < i /\ j \in 1 .. Length /\ TileOf(j) = TileOf(i)
    BY <1>1, <2>4, <2>5, BeforeFacts
  <2> HIDE DEF j
  <2>7. j \in At
    <3> SUFFICES ASSUME j \notin At PROVE FALSE
      OBVIOUS
    <3>1. bodySequence[j] \in Pinned /\ Rank(bodySequence[j]) = Pins
      BY <2>4, <2>6, PinnedAction DEF TileOf
    <3>2. Rank(bodySequence[j]) \in 0 .. Pins - 1
      BY <3>1, PinFacts
    <3> HIDE DEF Rank
    <3> QED BY <1>2, <3>1, <3>2
  <2>8. j = m
    <3>1. m < j \/ m = j
      BY <2>4, <2>6
    <3>2. Streaming(j) < k /\ Streaming(j) \in Nat /\ k \in Nat
      BY <2>3, <2>4, <2>6, <2>7
    <3>3. CASE m < j
      <4>1. k - 1 < Streaming(j)
        BY <2>2, <2>3, <2>7, <3>3
      <4> HIDE DEF k
      <4> QED BY <3>2, <4>1
    <3> QED BY <3>1, <3>3
  <2>9. bodySequence[j] = Stream[k - 1]
    BY <2>2, <2>8, StreamFacts
  <2> QED BY <2>1, <2>9 DEF j
<1> DEFINE R == {i \in 1 .. Length : bodySequence[Before(i, OwnTiles)] # bodySequence[i]}
<1>5. R \subseteq Programs
  BY <1>3, <1>4
<1>6. IsFiniteSet(Programs)
  <2>1. IsFiniteSet(1 .. Length)
    BY <1>2, FS_Interval
  <2>2. Programs \subseteq 1 .. Length
    BY <1>2 DEF Programs
  <2> QED BY <2>1, <2>2, FS_Subset
<1>7. RecurringPrograms(OwnTiles) = Cardinality(R)
  BY <1>1, RecurringFacts
<1> HIDE DEF R
<1>8. Cardinality(R) <= Cardinality(Programs)
  BY <1>5, <1>6, FS_Subset
<1> QED BY <1>1, <1>7, <1>8

\* With one use of each weight, a use that finds its weight on its tile is the
\* only one on that tile.
LEMMA OnlyAloneIsKept ==
  ASSUME SteadyProblem, UsedOnce, NEW at \in [1 .. Length -> Tiles],
         NEW i \in 1 .. Length, bodySequence[Before(i, at)] = bodySequence[i],
         NEW j \in 1 .. Length, at[j] = at[i]
  PROVE  j = i
<1>1. DOMAIN bodySequence = 1 .. Length /\ i \in Int /\ j \in Int
  BY LengthIsPositive
<1>2. Before(i, at) = i
  BY <1>1, BeforeFacts DEF UsedOnce
<1>3. \A m \in 1 .. Length : at[m] = at[i] => ~ (m < i)
  <2> SUFFICES ASSUME NEW m \in 1 .. Length, at[m] = at[i], m < i PROVE FALSE
    OBVIOUS
  <2>1. Before(i, at) < i
    BY BeforeFacts
  <2> QED BY <1>1, <1>2, <2>1
<1>4. \A m \in 1 .. Length : at[m] = at[i] => m <= Before(i, at)
  BY <1>3, BeforeFacts
<1>5. ~ (j < i) /\ j <= i
  BY <1>2, <1>3, <1>4
<1> QED BY <1>1, <1>5

\* With more weights than tiles, two uses share a tile and both are programs,
\* so that every tile but one, at most, saves a program.
LEMMA AnyTilesNeedAsMany ==
  ASSUME SteadyProblem, UsedOnce, NEW at \in [1 .. Length -> Tiles], numTiles < Length
  PROVE  Length - (numTiles - 1) <= RecurringPrograms(at)
<1> DEFINE R == {i \in 1 .. Length : bodySequence[Before(i, at)] # bodySequence[i]}
           U == {i \in 1 .. Length : bodySequence[Before(i, at)] = bodySequence[i]}
<1>1. Length \in Nat /\ numTiles \in Nat \ {0}
  BY LengthIsPositive DEF SteadyProblem
<1>2. /\ IsFiniteSet(1 .. Length) /\ Cardinality(1 .. Length) = Length
      /\ IsFiniteSet(Tiles) /\ Cardinality(Tiles) = numTiles
  BY <1>1, FS_Interval DEF Tiles
<1>3. PICK x, y \in 1 .. Length : x # y /\ at[x] = at[y]
  BY <1>2, FS_PigeonHole
<1>4. \A i \in U : at[i] \in Tiles \ {at[x]}
  BY <1>3, OnlyAloneIsKept
<1>5. \A i, j \in U : at[i] = at[j] => i = j
  BY OnlyAloneIsKept
<1>6. U \cup R = 1 .. Length /\ U \cap R = {} /\ at[x] \in Tiles
  BY <1>3
<1>7. RecurringPrograms(at) = Cardinality(R) /\ IsFiniteSet(R) /\ Cardinality(R) \in Nat
  BY RecurringFacts
<1> HIDE DEF U, R
<1>8. IsFiniteSet(U) /\ Cardinality(U) <= numTiles - 1
  <2> DEFINE f == [i \in U |-> at[i]]
             T == Tiles \ {at[x]}
  <2>1. IsFiniteSet(T) /\ Cardinality(T) = numTiles - 1
    BY <1>2, <1>6, FS_RemoveElement
  <2>2. f \in Injection(U, T)
    BY <1>4, <1>5 DEF Injection, IsInjective
  <2> HIDE DEF f, T
  <2> QED BY <2>1, <2>2, FS_Injection
<1>9. Cardinality(U) \in Nat
  BY <1>8, FS_CardinalityType
<1>10. Length = Cardinality(U) + Cardinality(R) - 0
  <2>1. Cardinality(U \cup R) = Cardinality(U) + Cardinality(R) - Cardinality(U \cap R)
    BY <1>7, <1>8, FS_Union
  <2> QED BY <1>2, <1>6, <2>1, FS_EmptySet
<1> QED BY <1>1, <1>7, <1>8, <1>9, <1>10

\* Pin-and-stream streams that many.
LEMMA StreamedIsShort ==
  ASSUME SteadyProblem, UsedOnce, At # {}
  PROVE  numTiles < Length /\ Cardinality(At) <= Length - (numTiles - 1)
<1> DEFINE A == S!WeightsOf(bodySequence)
<1>1. /\ bodySequence \in Seq(Weights) /\ Length \in Nat /\ numTiles \in Nat \ {0}
      /\ DOMAIN bodySequence = 1 .. Length
  BY LengthIsPositive DEF SteadyProblem
<1>2. At \in SUBSET (1 .. Length) /\ Pins = numTiles - 1
  BY <1>1, S!PinnedTiles DEF At, Pins, Length
<1>3. Cardinality(A) = Length
  <2>1. bodySequence \in Surjection(1 .. Length, A)
    BY <1>1 DEF Surjection, S!WeightsOf
  <2>2. bodySequence \in Injection(1 .. Length, A)
    BY <1>1, <2>1 DEF Surjection, Injection, IsInjective, UsedOnce
  <2>3. IsFiniteSet(1 .. Length) /\ Cardinality(1 .. Length) = Length
    BY <1>1, FS_Interval
  <2> HIDE DEF A
  <2>4. Cardinality(A) = Cardinality(1 .. Length)
    BY <2>1, <2>2, <2>3, FS_Surjection
  <2> QED BY <2>3, <2>4
<1>4. numTiles < Length
  <2>1. ~ S!FitsEntirely(bodySequence, numTiles)
    <3> SUFFICES ASSUME S!FitsEntirely(bodySequence, numTiles) PROVE FALSE
      OBVIOUS
    <3>1. PICK i \in At : TRUE
      OBVIOUS
    <3>2. bodySequence[i] \in A /\ bodySequence[i] \notin Pinned
      BY <1>1, <1>2, <3>1 DEF At, S!Streamed, Pinned, S!WeightsOf
    <3>3. S!PinRank(bodySequence, numTiles, bodySequence[i]) < S!Cardinality(A)
      BY <1>1, <3>2, S!PinRanks
    <3>4. S!PinnedCount(bodySequence, numTiles) = S!Cardinality(A)
      BY DEF S!PinnedCount
    <3> QED BY <3>2, <3>3, <3>4 DEF Pinned, S!Pinned
  <2>2. ~ (S!Cardinality(A) <= numTiles)
    BY <2>1 DEF S!FitsEntirely
  <2> HIDE DEF A
  <2> QED BY <1>1, <1>3, <2>2, SameCounts
<1>5. \A t \in 0 .. numTiles - 2 : \E i \in (1 .. Length) \ At : Rank(bodySequence[i]) = t
  <2> SUFFICES ASSUME NEW t \in 0 .. numTiles - 2
               PROVE  \E i \in (1 .. Length) \ At : Rank(bodySequence[i]) = t
    OBVIOUS
  <2>1. t \in 0 .. S!Cardinality(A) - 1 /\ t < Pins
    <3>1. S!Cardinality(A) = Length
      BY <1>3, SameCounts
    <3> HIDE DEF A
    <3> QED BY <1>1, <1>2, <1>4, <3>1
  <2>2. PICK w \in A : S!PinRank(bodySequence, numTiles, w) = t
    BY <1>1, <2>1, S!RankCovers
  <2>3. w \in Pinned
    BY <2>1, <2>2 DEF Pinned, S!Pinned, Pins
  <2>4. First(w) \in 1 .. Length /\ bodySequence[First(w)] = w
    BY <2>3, PinFacts
  <2>5. First(w) \notin At
    BY <2>3, <2>4 DEF At, S!Streamed, Pinned
  <2>6. Rank(bodySequence[First(w)]) = t
    BY <2>2, <2>4 DEF Rank
  <2> HIDE DEF First
  <2> QED BY <2>4, <2>5, <2>6
<1> DEFINE T == 0 .. numTiles - 2
           N == (1 .. Length) \ At
           Owns(t, i) == i \in N /\ Rank(bodySequence[i]) = t
           f == [t \in T |-> CHOOSE i : Owns(t, i)]
<1>6. f \in Injection(T, N)
  <2>1. \A t \in T : \E i : Owns(t, i)
    BY <1>5
  <2> HIDE DEF N, Owns, T
  <2>2. \A t \in T : Owns(t, CHOOSE i : Owns(t, i))
    BY <2>1, Zenon
  <2>3. \A t \in T : f[t] \in N /\ Rank(bodySequence[f[t]]) = t
    BY <2>2 DEF Owns
  <2> HIDE DEF f, Rank
  <2>4. DOMAIN f = T /\ f = [t \in T |-> f[t]]
    BY DEF f
  <2> QED BY <2>3, <2>4 DEF Injection, IsInjective
<1>7. IsFiniteSet(T) /\ Cardinality(T) = numTiles - 1
  BY <1>1, FS_Interval
<1>8. /\ IsFiniteSet(1 .. Length) /\ Cardinality(1 .. Length) = Length
  BY <1>1, FS_Interval
<1>9. At \cup N = 1 .. Length /\ At \cap N = {} /\ N \subseteq 1 .. Length /\ At \subseteq 1 .. Length
  BY <1>2
<1> HIDE DEF T, N, f
<1>10. IsFiniteSet(At) /\ IsFiniteSet(N) /\ Cardinality(At) \in Nat /\ Cardinality(N) \in Nat
  BY <1>8, <1>9, FS_Subset, FS_CardinalityType
<1>11. numTiles - 1 <= Cardinality(N)
  BY <1>6, <1>7, <1>10, FS_Injection
<1>12. Length = Cardinality(At) + Cardinality(N) - 0
  BY <1>8, <1>9, <1>10, FS_Union, FS_EmptySet
<1> QED BY <1>1, <1>4, <1>10, <1>11, <1>12

LEMMA LeastReached ==
  ASSUME SteadyProblem
  PROVE  LeastForOneBody
<1> DEFINE Ats == [DOMAIN bodySequence -> Tiles]
           All == {RecurringPrograms(at) : at \in Ats}
           least == Schedule!Min(All)
           mine == Schedule!ProgramsPerIteration(bodySequence, numTiles)
<1>1. DOMAIN bodySequence = 1 .. Length /\ Length \in Nat
  BY LengthIsPositive
<1>2. /\ \A at \in Ats : RecurringPrograms(at) \in Nat
      /\ OwnTiles \in Ats /\ RecurringPrograms(OwnTiles) <= mine
      /\ mine = Cardinality(Programs)
  BY <1>1, RecurringFacts, OwnTilesSuffice, ProgramsReported
<1>3. IsFiniteSet(At) /\ Programs \subseteq At
  <2>1. IsFiniteSet(1 .. Length) /\ At \subseteq 1 .. Length
    BY <1>1, PinFacts, FS_Interval
  <2> QED BY <2>1, FS_Subset DEF Programs
<1>4. mine \in Nat /\ mine <= Cardinality(At) /\ Cardinality(At) \in Nat /\ (At = {} => mine = 0)
  BY <1>2, <1>3, FS_Subset, FS_CardinalityType, FS_EmptySet
<1>5. UsedOnce => \A at \in Ats : mine <= RecurringPrograms(at)
  <2> SUFFICES ASSUME UsedOnce, NEW at \in Ats PROVE mine <= RecurringPrograms(at)
    OBVIOUS
  <2>1. RecurringPrograms(at) \in Nat
    BY <1>2
  <2>2. CASE At = {}
    BY <1>4, <2>1, <2>2
  <2>3. CASE At # {}
    <3>1. numTiles < Length /\ Cardinality(At) <= Length - (numTiles - 1) /\ numTiles \in Nat
      BY <2>3, StreamedIsShort DEF SteadyProblem
    <3>2. Length - (numTiles - 1) <= RecurringPrograms(at)
      BY <1>1, <3>1, AnyTilesNeedAsMany
    <3> QED BY <1>1, <1>4, <2>1, <3>1, <3>2
  <2> QED BY <2>2, <2>3
<1> HIDE DEF mine, Ats
<1>6. least \in All /\ \A m \in All : least <= m
  <2>1. All \in SUBSET Nat /\ All # {}
    BY <1>2
  <2> HIDE DEF All
  <2> QED BY <2>1, S!MinIsLeast, SameCounts
<1>7. PICK at \in Ats : least = RecurringPrograms(at)
  BY <1>6
<1>8. least \in Nat /\ least <= RecurringPrograms(OwnTiles) /\ RecurringPrograms(OwnTiles) \in Nat
  BY <1>2, <1>6, <1>7
<1>9. UsedOnce => mine <= least
  BY <1>5, <1>7
<1> HIDE DEF least
<1>10. mine >= least /\ (UsedOnce => mine = least)
  BY <1>2, <1>4, <1>8, <1>9
<1> QED BY <1>10 DEF LeastForOneBody, least, mine, Ats

\* LeastForOneBody: the programs per iteration that computeSteadyStatePlacement
\* reports are never below what the best fixed assignment of the body's uses to
\* tiles needs, and are exactly that when every weight is used once.
THEOREM SteadyLeast == SteadySpec => []LeastForOneBody
<1>1. SteadyInv => LeastForOneBody
  BY LeastReached DEF SteadyInv
<1> QED BY <1>1, SteadyStarts, SteadyStep, PTL DEF SteadySpec
=============================================================================
