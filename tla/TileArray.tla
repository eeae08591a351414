----------------------------- MODULE TileArray -----------------------------
(***************************************************************************)
(* What a tile schedule promises: the replay that validatePlacement        *)
(* (lib/Placement/Placement.cpp) performs against a simulated tile array.  *)
(* A schedule is one action per use of a weight; the replay accepts an     *)
(* action only when its claim about the tile is true, so an accepted       *)
(* schedule has every weight on the tile named for it when it is used.     *)
(*                                                                         *)
(* The schedule under replay is not fixed: each step replays an arbitrary  *)
(* action, so the behaviours of Spec are the replays of every schedule.    *)
(* It is the abstract specification that TilePlacement implements.         *)
(*                                                                         *)
(* Steps and tiles are numbered from 0 as in the source; a use sequence is *)
(* a TLA+ sequence, so Use(s) is its element s + 1.                        *)
(***************************************************************************)
EXTENDS Integers, Sequences, FiniteSets

CONSTANTS
  Weights,    \* weight sub-matrices (WeightId)
  NoWeight,   \* kNoWeight: the content of a tile never programmed
  MaxTiles,   \* bound on tiles.count
  MaxSteps    \* bound on the length of a use sequence

ASSUME NoWeightAssumption == NoWeight \notin Weights
ASSUME MaxTilesAssumption == MaxTiles \in Nat
ASSUME MaxStepsAssumption == MaxSteps \in Nat

VARIABLES
  numTiles,     \* PlacementProblem::numTiles
  useSequence,  \* PlacementProblem::useSequence
  contents,     \* tileContents: the weight each tile holds
  step,         \* actions replayed so far
  programs, reuses, evictions,   \* the replay's own counts
  verdict       \* "replaying", then what validatePlacement returns

problem == <<numTiles, useSequence>>
counts  == <<programs, reuses, evictions>>
vars    == <<problem, contents, step, counts, verdict>>

Tiles   == 0 .. numTiles - 1
Use(s)  == useSequence[s + 1]
Kinds   == {"Reuse", "ProgramIntoFree", "ProgramWithEviction"}

\* PlacementAction. A tile number may be out of range and a step wrong.
Action == [step : 0 .. MaxSteps, weight : Weights, tile : 0 .. MaxTiles,
           kind : Kinds, evicted : Weights \cup {NoWeight}]

UseSequences == UNION {[1 .. n -> Weights] : n \in 0 .. MaxSteps}

\* A replay starts from an array of tiles never programmed.
Fresh ==
  /\ contents = [t \in Tiles |-> NoWeight]
  /\ step = 0
  /\ programs = 0 /\ reuses = 0 /\ evictions = 0
  /\ verdict = "replaying"

Init ==
  /\ numTiles \in 0 .. MaxTiles
  /\ useSequence \in UseSequences
  /\ Fresh

Replaying == verdict = "replaying" /\ step < Len(useSequence)

\* The checks that come before the claim: right step, right weight, real tile.
WellFormed(a) ==
  /\ a.step = step
  /\ a.weight = Use(step)
  /\ a.tile \in Tiles

\* Mutant: an eviction claim on a tile that holds nothing is taken as true.
ClaimHoldsOnFreeTile(a) ==
  \/ a.kind = "Reuse" /\ contents[a.tile] = a.weight
  \/ a.kind = "ProgramIntoFree" /\ contents[a.tile] = NoWeight
  \/ a.kind = "ProgramWithEviction" /\ contents[a.tile] = a.evicted

\* The claim the action's kind makes about the tile it names.
ClaimHolds(a) ==
  \/ a.kind = "Reuse" /\ contents[a.tile] = a.weight
  \/ a.kind = "ProgramIntoFree" /\ contents[a.tile] = NoWeight
  \/ /\ a.kind = "ProgramWithEviction"
     /\ contents[a.tile] # NoWeight
     /\ contents[a.tile] = a.evicted

After(a) == [contents EXCEPT ![a.tile] = a.weight]

\* copies == 1: the tile just used is the only one that holds its weight.
SoleCopy(a) == \A t \in Tiles : After(a)[t] = a.weight => t = a.tile

\* Mutant: the copies loop is missing.
ValidWithCopies(a) == WellFormed(a) /\ ClaimHolds(a)

Valid(a) == WellFormed(a) /\ ClaimHolds(a) /\ SoleCopy(a)

\* One accepted action: the tile ends with the weight, one count goes up.
Accept(a) ==
  /\ Replaying
  /\ Valid(a)
  /\ contents' = After(a)
  /\ step' = step + 1
  /\ programs' = programs + (IF a.kind = "Reuse" THEN 0 ELSE 1)
  /\ reuses' = reuses + (IF a.kind = "Reuse" THEN 1 ELSE 0)
  /\ evictions' = evictions + (IF a.kind = "ProgramWithEviction" THEN 1 ELSE 0)
  /\ UNCHANGED <<problem, verdict>>

Reject(a) ==
  /\ Replaying
  /\ ~Valid(a)
  /\ verdict' = "rejected"
  /\ UNCHANGED <<problem, contents, step, counts>>

\* A schedule whose length is not the sequence's is refused before replay.
RejectLength ==
  /\ verdict = "replaying" /\ step = 0
  /\ useSequence # <<>>
  /\ verdict' = "rejected"
  /\ UNCHANGED <<problem, contents, step, counts>>

\* After the replay the counts the schedule reports are compared with the
\* replayed ones.
Conclude(reported) ==
  /\ verdict = "replaying" /\ step = Len(useSequence)
  /\ verdict' = IF reported = counts THEN "accepted" ELSE "rejected"
  /\ UNCHANGED <<problem, contents, step, counts>>

Reports == (0 .. MaxSteps) \X (0 .. MaxSteps) \X (0 .. MaxSteps)

Next ==
  \/ \E a \in Action : Accept(a)
  \/ \E a \in Action : Reject(a)
  \/ RejectLength
  \/ \E r \in Reports : Conclude(r)

Spec == Init /\ [][Next]_vars
-----------------------------------------------------------------------------

TypeOK ==
  /\ numTiles \in 0 .. MaxTiles
  /\ useSequence \in Seq(Weights)
  /\ Len(useSequence) \in 0 .. MaxSteps
  /\ contents \in [Tiles -> Weights \cup {NoWeight}]
  /\ step \in 0 .. Len(useSequence)
  /\ programs \in Nat /\ reuses \in Nat /\ evictions \in Nat
  /\ verdict \in {"replaying", "accepted", "rejected"}

\* The replay checks for duplicates of the current weight only (the copies
\* loop of validatePlacement); nevertheless no weight at all is ever held by
\* two tiles, so no later Reuse can name a stale copy.
NoDuplicate ==
  \A t, u \in Tiles : contents[t] = contents[u] /\ contents[t] # NoWeight => t = u

Used     == {Use(s) : s \in 0 .. step - 1}
Occupied == {t \in Tiles : contents[t] # NoWeight}

\* The ledger of a replay balances: every step is a program or a reuse, every
\* program either filled a free tile or evicted, and no schedule passes with
\* fewer programs than the distinct weights it used.
Ledger ==
  /\ programs + reuses = step
  /\ programs = evictions + Cardinality(Occupied)
  /\ programs >= Cardinality(Used)
=============================================================================
