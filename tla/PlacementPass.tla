--------------------------- MODULE PlacementPass ----------------------------
(***************************************************************************)
(* The cim-placement pass (lib/Transforms/CIMPlacement.cpp) on a program   *)
(* of straight-line code and scf.for loops, and the execution of what it   *)
(* emits.                                                                  *)
(*                                                                         *)
(* A source program is a tree of blocks: the function body (Entry) and one *)
(* body for each loop.  A block is a sequence of items: a weight stands    *)
(* for a cim.program of it followed by the cim.mvm that consumes it, a     *)
(* loop number for the loop.  Use <<b, k>> is the k-th weight of block b.  *)
(*                                                                         *)
(* The pass solves each block on its own, rewrites its programs, then      *)
(* moves the programs that are stable over iterations before their loop.   *)
(* The emitted program then runs on the tile array, as the interpreter and *)
(* the simulator run it: an mvm computes with what its tile holds.         *)
(*                                                                         *)
(* Not modelled: the failure of weightIdentity on dynamically shaped       *)
(* weights, the erasure of dead views and allocs, and the fallback from a  *)
(* steady-state schedule its validator rejects, of which SteadyState shows *)
(* there is none.                                                          *)
(***************************************************************************)
EXTENDS Integers, Sequences, FiniteSets, SequencesExt

CONSTANTS
  Weights,     \* weight sub-matrices, by identity (weightIdentity)
  NoWeight,    \* the content of a tile never programmed
  Loops,       \* scf.for loops, numbered from 1
  MaxTiles,    \* bound on spec.tiles.count
  Sources,     \* the source programs
  MaxFlattenedSteps   \* kMaxFlattenedSteps

\* A source program is a tree: the function body and, for each loop, a body, in
\* which the loops of the loop have later numbers.
Entry  == 0
Blocks == {Entry} \cup Loops
LoopItems(s, b) == {i \in DOMAIN s.body[b] : s.body[b][i] \in Loops}
IsProgram(s) ==
  /\ s.body \in [Blocks -> Seq(Weights \cup Loops)] /\ s.trip \in [Loops -> Nat]
  /\ s.known \in [Loops -> BOOLEAN] /\ s.invariant \subseteq Weights
  /\ \A b \in Blocks : \A i \in LoopItems(s, b) : b < s.body[b][i]
  /\ \A b, c \in Blocks : \A i \in LoopItems(s, b), j \in LoopItems(s, c) :
       s.body[b][i] = s.body[c][j] => b = c /\ i = j
  /\ \A l \in Loops : s.body[l] # <<>> =>
       \E b \in Blocks : \E i \in LoopItems(s, b) : s.body[b][i] = l

ASSUME PassAssumption ==
  /\ NoWeight \notin Weights /\ Loops \cap Weights = {}
  /\ IsFiniteSet(Loops) /\ Loops \subseteq Nat \ {0}
  /\ MaxTiles \in Nat /\ MaxFlattenedSteps \in Nat
  /\ \A s \in Sources : IsProgram(s)

VARIABLES
  source,       \* the program as cim-partition emitted it
  numTiles,     \* spec.tiles.count
  phase,        \* "placing", "hoisting", "running", or "failed"
  pending,      \* blocks still to place, then loops still to visit
  schedule,     \* the actions that rewrote each block
  candidates,   \* hoistCandidates
  hoisted,      \* programs moved before their loop
  optimum,      \* NInferenceOptimum
  todo,         \* the execution that remains
  contents,     \* the weight each tile holds
  programsRun, mvmsRun   \* executions so far of each block's ops

pass     == <<source, numTiles, schedule, candidates, hoisted, optimum>>
device   == <<todo, contents, programsRun, mvmsRun>>
vars     == <<pass, phase, pending, device>>

Schedules == INSTANCE Schedules

Tiles  == 0 .. numTiles - 1
Programs(b)  == {i \in DOMAIN source.body[b] : source.body[b][i] \in Weights}
WeightsOf(b) == Schedules!Kept(source.body[b], Programs(b))
Placed(b)    == WeightsOf(b) # <<>>
Uses         == UNION {{b} \X (1 .. Len(WeightsOf(b))) : b \in Blocks}
Weight(u)    == WeightsOf(u[1])[u[2]]
\* One level of nesting is all the pass reasons about.
Nested(l) == \E m \in Loops : Contains(source.body[m], l)
Repeat(seq, n) == FlattenSeq([i \in 1 .. n |-> seq])

Init ==
  /\ source \in Sources
  /\ numTiles \in 1 .. MaxTiles
  /\ phase = "placing"
  /\ pending = {b \in Blocks : Placed(b)}
  /\ schedule = [b \in Blocks |-> <<>>]
  /\ candidates = {} /\ hoisted = {}
  /\ optimum = [applicable |-> FALSE, programs |-> 0,
                installPrograms |-> 0, steadyStatePrograms |-> 0]
  /\ todo = <<>>
  /\ contents = [t \in Tiles |-> NoWeight]
  /\ programsRun = [b \in Blocks |-> 0]
  /\ mvmsRun = [b \in Blocks |-> 0]
-----------------------------------------------------------------------------
(* The two schedules of a block, and the choice between them. *)

Ordinary(b) == Schedules!Belady(WeightsOf(b), numTiles)
Steady(b)   == Schedules!SteadyBody(WeightsOf(b), numTiles)
Pinned(b)   == Schedules!PinnedCount(WeightsOf(b), numTiles)

\* Mutant: a tile programmed twice in an iteration counts as undisturbed.
UndisturbedEver(actions, t) == Schedules!ProgramsOnTile(actions, t) # {}
\* programCountPerTile[t] == 1: the tile is undisturbed for one iteration.
Undisturbed(actions, t) == Cardinality(Schedules!ProgramsOnTile(actions, t)) = 1

\* A loop body one level deep, whose trip count is a known constant.
Costed(b) == b \in Loops /\ ~Nested(b) /\ source.known[b]

TotalOld(b) ==
  LET hoistedOld == Cardinality({t \in Tiles : Undisturbed(Ordinary(b), t)})
      kept == Cardinality(Schedules!ProgramsOf(Ordinary(b)))
  IN hoistedOld + source.trip[b] * (kept - hoistedOld)
TotalNew(b) ==
  Pinned(b) + source.trip[b] * Schedules!ProgramsPerIteration(WeightsOf(b), numTiles)

\* Mutant: a pinned tile is charged in every iteration.
UseSteadyStateRecharged(b) ==
  /\ Costed(b) /\ source.trip[b] > 1
  /\ TotalNew(b) + (source.trip[b] - 1) * Pinned(b) < TotalOld(b)
\* Strictly cheaper only: a tie keeps the ordinary schedule.
UseSteadyState(b) ==
  /\ Costed(b) /\ source.trip[b] > 1
  /\ TotalNew(b) < TotalOld(b)

Chosen(b) == IF UseSteadyState(b) THEN Steady(b) ELSE Ordinary(b)
Hoistable(b, t) ==
  IF UseSteadyState(b) THEN t < Pinned(b) ELSE Undisturbed(Ordinary(b), t)

\* rewriteFromActions: the program whose result use k consumes, the last one
\* on the tile of its action.  A reuse must find its weight there.
Provider(actions, k) ==
  LET on == {j \in Schedules!ProgramsOnTile(actions, actions[k].tile) : j <= k}
  IN IF on = {} THEN 0 ELSE Max(on)
Rewritable(actions) ==
  \A k \in DOMAIN actions :
    Provider(actions, k) # 0 /\ actions[Provider(actions, k)].weight = actions[k].weight

\* Mutant: one iteration too many.
FlattenedLong(b) == Repeat(WeightsOf(b), source.trip[b] + 1)
Flattened(b)     == Repeat(WeightsOf(b), source.trip[b])

\* accumulateNInferenceOptimum: Belady over the whole run of the loop, the
\* first and the last iteration counted apart.
Optimum(b, before) ==
  LET steps == Len(WeightsOf(b))
      n == steps * source.trip[b]
      programs == Schedules!ProgramsOf(Schedules!Belady(Flattened(b), numTiles))
  IN IF ~Costed(b) \/ source.trip[b] = 0 \/ n > MaxFlattenedSteps THEN before
     ELSE [applicable |-> TRUE,
           programs |-> before.programs + Cardinality(programs),
           installPrograms |->
             before.installPrograms + Cardinality(programs \cap (1 .. steps)),
           steadyStatePrograms |->
             before.steadyStatePrograms + Cardinality(programs \cap (n - steps + 1 .. n))]

\* placeBlock, for a block in the order of the walk; blocks do not interact.
PlaceBlock(b) ==
  /\ phase = "placing"
  /\ optimum' = Optimum(b, optimum)
  /\ IF Rewritable(Chosen(b))
     THEN /\ schedule' = [schedule EXCEPT ![b] = Chosen(b)]
          /\ candidates' = candidates \cup
               {<<b, k>> : k \in {j \in Schedules!ProgramsOf(Chosen(b)) :
                                    Hoistable(b, Chosen(b)[j].tile)}}
          /\ pending' = pending \ {b}
          /\ UNCHANGED phase
     ELSE /\ phase' = "failed"
          /\ UNCHANGED <<schedule, candidates, pending>>
  /\ UNCHANGED <<source, numTiles, hoisted, device>>

StartHoisting ==
  /\ phase = "placing" /\ pending = {}
  /\ phase' = "hoisting"
  /\ pending' = Loops
  /\ UNCHANGED <<pass, device>>

\* Mutant: a loop whose trip count is known to be zero is hoisted from.
HoistsFromZeroTrip(l) == ~Nested(l) /\ source.known[l]

\* loopHasProvablyPositiveTripCount, and one level only.
HoistsFrom(l) == ~Nested(l) /\ source.known[l] /\ source.trip[l] > 0

\* Mutant: every program that does not depend on the iteration moves.
MovedAll(l) == {u \in Uses : u[1] = l /\ HoistsFrom(l) /\ Weight(u) \in source.invariant}
MovedFrom(l) ==
  {u \in candidates : u[1] = l /\ HoistsFrom(l) /\ Weight(u) \in source.invariant}

\* hoistFromLoops, for one loop.  A candidate moves when its operands do not
\* depend on the iteration, which the views of a buffer allocated in the
\* loop do.
HoistLoop(l) ==
  /\ phase = "hoisting"
  /\ pending' = pending \ {l}
  /\ hoisted' = hoisted \cup MovedFrom(l)
  /\ UNCHANGED <<source, numTiles, phase, schedule, candidates, optimum, device>>
-----------------------------------------------------------------------------
(* The emitted program and its execution. *)

Survives(u) == schedule[u[1]][u[2]].kind # "Reuse"
TileOf(u)   == schedule[u[1]][u[2]].tile
Op(op, u)   == [op |-> op, use |-> u]

\* What precedes a loop, and what the k-th use of a block has become.
Preheader(l) ==
  LET uses == [k \in DOMAIN WeightsOf(l) |-> Op("program", <<l, k>>)]
  IN Schedules!Kept(uses, {k \in DOMAIN uses : <<l, k>> \in hoisted})
Rewritten(u) ==
  IF Survives(u) /\ u \notin hoisted THEN <<Op("program", u), Op("mvm", u)>>
  ELSE <<Op("mvm", u)>>

Execution ==
  LET run[b \in Blocks] ==
        FlattenSeq([i \in DOMAIN source.body[b] |->
          LET item == source.body[b][i] IN
            IF item \in Weights THEN Rewritten(<<b, Schedules!Nth(Programs(b), i)>>)
            ELSE Preheader(item) \o Repeat(run[item], source.trip[item])])
  IN run[Entry]

Start ==
  /\ phase = "hoisting" /\ pending = {}
  /\ phase' = "running"
  /\ todo' = Execution
  /\ UNCHANGED <<pass, pending, contents, programsRun, mvmsRun>>

Runs(op) == phase = "running" /\ todo # <<>> /\ Head(todo).op = op

RunProgram ==
  /\ Runs("program")
  /\ LET u == Head(todo).use IN
       /\ contents' = [contents EXCEPT ![TileOf(u)] = Weight(u)]
       /\ programsRun' = [programsRun EXCEPT ![u[1]] = @ + 1]
  /\ todo' = Tail(todo)
  /\ UNCHANGED <<pass, phase, pending, mvmsRun>>

RunMvm ==
  /\ Runs("mvm")
  /\ mvmsRun' = [mvmsRun EXCEPT ![Head(todo).use[1]] = @ + 1]
  /\ todo' = Tail(todo)
  /\ UNCHANGED <<pass, phase, pending, contents, programsRun>>

Next ==
  \/ \E b \in pending : PlaceBlock(b)
  \/ StartHoisting
  \/ \E l \in pending : HoistLoop(l)
  \/ Start
  \/ RunProgram
  \/ RunMvm

Spec == Init /\ [][Next]_vars
Done == phase = "running" /\ todo = <<>>
-----------------------------------------------------------------------------

TypeOK ==
  /\ phase \in {"placing", "hoisting", "running", "failed"}
  /\ pending \subseteq Blocks
  /\ candidates \subseteq Uses /\ hoisted \subseteq candidates
  /\ contents \in [Tiles -> Weights \cup {NoWeight}]
  /\ programsRun \in [Blocks -> Nat] /\ mvmsRun \in [Blocks -> Nat]

\* The promise of the pass and of the dialect (CIMOps.td: "A !cim.resident may
\* not be used after its tile has been re-programmed"): when an mvm runs, its
\* tile holds the weight the source program gave that mvm, whatever was
\* erased, renumbered or moved out of a loop.
MvmFindsItsWeight ==
  Runs("mvm") => contents[TileOf(Head(todo).use)] = Weight(Head(todo).use)

\* What that promise takes: a loop beside the weights of a block neither has
\* weights nor holds loops that have.
SeparateBlocks ==
  \E quiet \in SUBSET Loops : \A b \in Blocks :
    /\ b \in quiet => ~Placed(b)
    /\ Placed(b) \/ b \in quiet => \A i \in LoopItems(source, b) : source.body[b][i] \in quiet

\* The rewrite never finds a schedule, of either kind, that claims a reuse it
\* has not recorded: the pass does not fail on a program it can identify.
PassSucceeds == phase # "failed"

\* No block ever executes more programs than it would have without the pass,
\* which is one for each mvm; hoisting from a loop that does not run would.
NeverMorePrograms == Done => \A b \in Blocks : programsRun[b] <= mvmsRun[b]

Min2(a, b) == IF a < b THEN a ELSE b
AllInvariant(b) == \A k \in 1 .. Len(WeightsOf(b)) : WeightsOf(b)[k] \in source.invariant

\* The costs the pass compares are the costs the loop then has: the programs
\* executed are the smaller of the two totals (with one iteration, or with a
\* program that cannot move, there is nothing to compare).
CostIsAsCompared ==
  Done => \A l \in Loops :
    Costed(l) /\ source.trip[l] > 0 /\ AllInvariant(l) =>
      programsRun[l] = IF source.trip[l] = 1 THEN TotalOld(l) ELSE Min2(TotalOld(l), TotalNew(l))

\* The optimum recorded on the module is one: no emitted program executes
\* fewer, and when the weights of every counted loop fit on the tiles the two
\* are equal ("exactly reproduces the fits-entirely claim").
OptimumIsBound ==
  Done =>
    LET counted == {l \in Loops : Costed(l) /\ source.trip[l] > 0 /\ Placed(l)
                                  /\ Len(WeightsOf(l)) * source.trip[l] <= MaxFlattenedSteps}
        executed == FoldSet(LAMBDA l, sum : sum + programsRun[l], 0, counted)
        fits == \A l \in counted :
                  AllInvariant(l) /\ Schedules!FitsEntirely(WeightsOf(l), numTiles)
    IN optimum.programs <= executed /\ (fits => optimum.programs = executed)
=============================================================================
