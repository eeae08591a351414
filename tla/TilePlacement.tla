--------------------------- MODULE TilePlacement ---------------------------
(***************************************************************************)
(* The placement engine: computePlacement (lib/Placement/Placement.cpp).   *)
(* A fixed sequence of weight uses is placed on a small tile array, as a   *)
(* cache with a known future is: a resident weight is reused, otherwise a  *)
(* free tile is programmed, otherwise a victim is evicted.                 *)
(*                                                                         *)
(* First the backward sweep of computeNextUse, one action per use, then    *)
(* one action per use for the forward pass.  The engine keeps, for each    *)
(* tile, a weight and three scores, and beside them the map from weight to *)
(* tile (residency); keeping these in agreement is what the properties are *)
(* about.  Steps and tiles are numbered from 0 as in the source.           *)
(***************************************************************************)
EXTENDS Integers, Sequences, FiniteSets

CONSTANTS
  Weights,    \* weight sub-matrices (WeightId)
  NoWeight,   \* kNoWeight
  MaxTiles,   \* bound on PlacementProblem::numTiles
  MaxSteps    \* bound on the length of the use sequence

ASSUME NoWeightAssumption == NoWeight \notin Weights
ASSUME MaxTilesAssumption == MaxTiles \in Nat
ASSUME MaxStepsAssumption == MaxSteps \in Nat

VARIABLES
  numTiles, useSequence, policy,   \* the problem and EvictionPolicy
  sweep,           \* computeNextUse: uses not yet swept
  seenAt,          \* computeNextUse: earliest swept use of each weight
  nextUse,         \* computeNextUse: its result
  step,            \* forward pass: uses placed so far
  tiles,           \* TileState of each tile
  residency,       \* the tile that holds a weight, NoTile when none does
  tilesInUse,
  programCounter,
  programs, reuses, evictions,   \* PlacementResult's counts
  actions,         \* PlacementResult::actions
  returned         \* computePlacement has returned

problem == <<numTiles, useSequence, policy>>
counts  == <<programs, reuses, evictions>>
engine  == <<tiles, residency, tilesInUse, programCounter, counts, actions>>
vars    == <<problem, sweep, seenAt, nextUse, step, engine, returned>>

Tiles      == 0 .. numTiles - 1
Use(s)     == useSequence[s + 1]
Steps      == 0 .. Len(useSequence) - 1
Policies   == {"Belady", "LRU", "FIFO"}
NoTile     == -1          \* a weight absent from the residency map
NeverAgain == MaxSteps    \* kNeverAgain: after every step of any sequence

TileState == [weight : Weights \cup {NoWeight}, nextUse : 0 .. MaxSteps,
              lastUsed : Nat, programSeq : Nat]
FreeTile == [weight |-> NoWeight, nextUse |-> NeverAgain,
             lastUsed |-> 0, programSeq |-> 0]

UseSequences == UNION {[1 .. n -> Weights] : n \in 0 .. MaxSteps}

Init ==
  /\ numTiles \in 0 .. MaxTiles
  /\ useSequence \in UseSequences
  /\ policy \in Policies
  /\ sweep = Len(useSequence)
  /\ seenAt = [w \in Weights |-> NeverAgain]
  /\ nextUse = [s \in Steps |-> NeverAgain]
  /\ step = 0
  /\ tiles = [t \in Tiles |-> FreeTile]
  /\ residency = [w \in Weights |-> NoTile]
  /\ tilesInUse = 0
  /\ programCounter = 0
  /\ programs = 0 /\ reuses = 0 /\ evictions = 0
  /\ actions = <<>>
  /\ returned = FALSE

Solvable == useSequence # <<>> /\ numTiles # 0

\* An empty sequence, or no tiles: an empty result.
ReturnEmpty ==
  /\ ~returned /\ ~Solvable
  /\ returned' = TRUE
  /\ UNCHANGED <<problem, sweep, seenAt, nextUse, step, engine>>

\* One iteration of computeNextUse's backward loop.
SweepUse ==
  /\ ~returned /\ Solvable /\ sweep > 0
  /\ LET i == sweep - 1 IN
       /\ nextUse' = [nextUse EXCEPT ![i] = seenAt[Use(i)]]
       /\ seenAt' = [seenAt EXCEPT ![Use(i)] = i]
       /\ sweep' = i
  /\ UNCHANGED <<problem, step, engine, returned>>

Placing == ~returned /\ Solvable /\ sweep = 0 /\ step < Len(useSequence)

\* Mutants: Belady evicts the weight needed soonest, FIFO the one used last.
BeatsNearest(t, u) ==
  CASE policy = "Belady" -> tiles[t].nextUse < tiles[u].nextUse
    [] policy = "LRU"    -> tiles[t].lastUsed < tiles[u].lastUsed
    [] policy = "FIFO"   -> tiles[t].programSeq < tiles[u].programSeq
BeatsByUse(t, u) ==
  CASE policy = "Belady" -> tiles[t].nextUse > tiles[u].nextUse
    [] OTHER             -> tiles[t].lastUsed < tiles[u].lastUsed

\* selectVictim: the first tile with the best score.
Beats(t, u) ==
  CASE policy = "Belady" -> tiles[t].nextUse > tiles[u].nextUse
    [] policy = "LRU"    -> tiles[t].lastUsed < tiles[u].lastUsed
    [] policy = "FIFO"   -> tiles[t].programSeq < tiles[u].programSeq
\* Mutant: the victim must beat every other tile, so a tie has none.
IsVictimStrictly(t) == \A u \in Tiles \ {t} : Beats(t, u)
\* Mutant: the last tile with the best score.
IsVictimLast(t) ==
  /\ \A u \in Tiles : ~Beats(u, t)
  /\ \A u \in t + 1 .. numTiles - 1 : Beats(t, u)
IsVictim(t) ==
  /\ \A u \in Tiles : ~Beats(u, t)
  /\ \A u \in 0 .. t - 1 : Beats(t, u)

Record(kind, t, victim) ==
  /\ actions' = Append(actions, [step |-> step, weight |-> Use(step), tile |-> t,
                                 kind |-> kind, evicted |-> victim])
  /\ step' = step + 1
  /\ UNCHANGED <<problem, sweep, seenAt, nextUse, returned>>

\* Mutants: a programmed tile keeps no next use; its use is dated one early.
ProgrammedForNever == [weight |-> Use(step), nextUse |-> NeverAgain,
                       lastUsed |-> step, programSeq |-> programCounter]
ProgrammedEarly == [weight |-> Use(step), nextUse |-> nextUse[step],
                    lastUsed |-> step - 1, programSeq |-> programCounter]

\* Put the current weight on tile t, overwriting whatever it held.
Programmed == [weight |-> Use(step), nextUse |-> nextUse[step],
               lastUsed |-> step, programSeq |-> programCounter]
Program(t) ==
  /\ tiles' = [tiles EXCEPT ![t] = Programmed]
  /\ programCounter' = programCounter + 1

Reuse ==
  /\ Placing /\ residency[Use(step)] # NoTile
  /\ LET t == residency[Use(step)] IN
       /\ tiles' = [tiles EXCEPT ![t] = [@ EXCEPT !.nextUse = nextUse[step], !.lastUsed = step]]
       /\ Record("Reuse", t, NoWeight)
  /\ reuses' = reuses + 1
  /\ UNCHANGED <<residency, tilesInUse, programCounter, programs, evictions>>

ProgramIntoFree ==
  /\ Placing /\ residency[Use(step)] = NoTile /\ tilesInUse < numTiles
  /\ Program(tilesInUse)
  /\ residency' = [residency EXCEPT ![Use(step)] = tilesInUse]
  /\ tilesInUse' = tilesInUse + 1
  /\ programs' = programs + 1
  /\ Record("ProgramIntoFree", tilesInUse, NoWeight)
  /\ UNCHANGED <<reuses, evictions>>

\* Mutant: the evicted weight stays in the residency map.
MovedOver(t) == [residency EXCEPT ![Use(step)] = t]
\* The victim's entry leaves the map, the current weight's enters it.
Moved(t) == [residency EXCEPT ![tiles[t].weight] = NoTile, ![Use(step)] = t]

ProgramWithEviction(t) ==
  /\ Placing /\ residency[Use(step)] = NoTile /\ tilesInUse >= numTiles
  /\ IsVictim(t)
  /\ Program(t)
  /\ residency' = Moved(t)
  /\ programs' = programs + 1 /\ evictions' = evictions + 1
  /\ Record("ProgramWithEviction", t, tiles[t].weight)
  /\ UNCHANGED <<tilesInUse, reuses>>

Return ==
  /\ ~returned /\ Solvable /\ sweep = 0 /\ step = Len(useSequence)
  /\ returned' = TRUE
  /\ UNCHANGED <<problem, sweep, seenAt, nextUse, step, engine>>

Next ==
  \/ ReturnEmpty
  \/ SweepUse
  \/ Reuse
  \/ ProgramIntoFree
  \/ \E t \in Tiles : ProgramWithEviction(t)
  \/ Return

Spec == Init /\ [][Next]_vars
\* computePlacement is a plain loop: once called, it keeps running.
FairSpec == Spec /\ WF_vars(Next)
-----------------------------------------------------------------------------

TypeOK ==
  /\ numTiles \in 0 .. MaxTiles
  /\ useSequence \in Seq(Weights) /\ Len(useSequence) \in 0 .. MaxSteps
  /\ policy \in Policies
  /\ sweep \in 0 .. Len(useSequence)
  /\ seenAt \in [Weights -> 0 .. MaxSteps]
  /\ nextUse \in [Steps -> 0 .. MaxSteps]
  /\ step \in 0 .. Len(useSequence)
  /\ tiles \in [Tiles -> TileState]
  /\ residency \in [Weights -> Tiles \cup {NoTile}]
  /\ tilesInUse \in 0 .. numTiles
  /\ programCounter \in Nat
  /\ programs \in Nat /\ reuses \in Nat /\ evictions \in Nat
  /\ returned \in BOOLEAN

\* The residency map and the tile array say the same thing in both directions
\* (the two are updated separately by the three branches of computePlacement),
\* so no weight is ever on two tiles, and the programmed tiles are a prefix.
ResidencyExact ==
  /\ \A w \in Weights, t \in Tiles : residency[w] = t <=> tiles[t].weight = w
  /\ \A t \in Tiles : tiles[t].weight # NoWeight <=> t < tilesInUse

\* w is used at step j and at no step of i .. j - 1; j is NeverAgain when the
\* weight has no use from step i on.
FirstUseFrom(w, i, j) ==
  /\ \A k \in Steps : i <= k /\ k < j => Use(k) # w
  /\ \/ j \in Steps /\ i <= j /\ Use(j) = w
     \/ j = NeverAgain

\* The sweep of computeNextUse is exact, and stays usable afterwards: the next
\* use recorded on a programmed tile when it was last touched is still the
\* next use of its weight at the current step, however long ago that was.
NextUseExact ==
  /\ \A i \in Steps : i >= sweep => FirstUseFrom(Use(i), i + 1, nextUse[i])
  /\ \A t \in Tiles :
       t < tilesInUse => FirstUseFrom(tiles[t].weight, step, tiles[t].nextUse)

Evicting(t) == step' # step /\ tiles[t].weight # NoWeight /\ tiles'[t].weight # tiles[t].weight

\* Under Belady no eviction drops a weight that is used again before some
\* weight it keeps (README: "furthest-in-future"), judged on the sequence
\* itself, not on the engine's own scores.
NeededSooner(w, x) ==
  \E j \in Steps : /\ j >= step /\ Use(j) = w
                   /\ \A k \in Steps : step <= k /\ k <= j => Use(k) # x
BeladyEvictsFurthest ==
  [][\A t \in Tiles : policy = "Belady" /\ Evicting(t) =>
       \A u \in Tiles : ~NeededSooner(tiles[t].weight, tiles[u].weight)]_vars

\* Under LRU the evicted weight is the one used longest ago, under FIFO the
\* one programmed longest ago, judged on the recorded actions.
LatestAction(w, kinds) ==
  {s \in 0 .. step - 1 : actions[s + 1].weight = w /\ actions[s + 1].kind \in kinds}
OlderThan(w, x, kinds) ==
  \E s \in LatestAction(x, kinds) : \A r \in LatestAction(w, kinds) : r <= s
AllKinds == {"Reuse", "ProgramIntoFree", "ProgramWithEviction"}
BaselinesEvictOldest ==
  [][\A t, u \in Tiles : Evicting(t) =>
       CASE policy = "LRU"  -> OlderThan(tiles[t].weight, tiles[u].weight, AllKinds)
         [] policy = "FIFO" -> OlderThan(tiles[t].weight, tiles[u].weight, AllKinds \ {"Reuse"})
         [] OTHER -> TRUE]_vars

\* Every call returns: a victim always exists when one is asked for.
Terminates == <>returned
-----------------------------------------------------------------------------
(***************************************************************************)
(* The engine implements the tile array's promise: each of its actions is  *)
(* one the replay of validatePlacement accepts, and the counts it returns  *)
(* are the replay's.  An unsolvable problem returns an empty schedule,     *)
(* which the replay refuses when the sequence is not empty.                *)
(***************************************************************************)
Replay == INSTANCE TileArray WITH
  contents  <- [t \in Tiles |-> tiles[t].weight],
  verdict   <- IF ~returned THEN "replaying"
               ELSE IF useSequence # <<>> /\ numTiles = 0 THEN "rejected"
               ELSE "accepted"

ScheduleIsAccepted == Replay!Spec
=============================================================================
