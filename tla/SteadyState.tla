---------------------------- MODULE SteadyState -----------------------------
(***************************************************************************)
(* The pin-and-stream schedule of computeSteadyStatePlacement under the    *)
(* replay of validateSteadyStatePlacement (lib/Placement/Placement.cpp).   *)
(* One loop body is scheduled; the claim is that the schedule stays right  *)
(* when the body runs again and again.  The validator replays three        *)
(* repetitions on the tile array, in the way TileArray describes: the      *)
(* first verbatim, the others with every pinned use a reuse and with fresh *)
(* labels for the streamed tile, which is no longer empty.                 *)
(***************************************************************************)
EXTENDS TileArray

CONSTANT MaxBody    \* bound on the length of a body, MaxSteps >= 3 * MaxBody

ASSUME MaxBodyAssumption == MaxBody \in Nat

VARIABLES
  bodySequence,       \* SteadyStateProblem::bodySequence
  boundary    \* history: the tile contents when the last repetition ended

steadyVars == <<vars, bodySequence, boundary>>

Schedule == INSTANCE Schedules
Repetitions == 3
Bodies == UNION {[1 .. n -> Weights] : n \in 1 .. MaxBody}

\* flat.useSequence: the body, three times over.
Flattened ==
  LET n == Len(bodySequence) IN
    [i \in 1 .. Repetitions * n |-> bodySequence[((i - 1) % n) + 1]]

\* The actions on the streamed tile, by their positions.
Streamed(actions, pinned) == {i \in DOMAIN actions : actions[i].tile >= pinned}

\* continuation: what the streamed tile's uses are in a second repetition.
Continuation(actions, pinned) ==
  LET streamed == Schedule!Kept(actions, Streamed(actions, pinned))
      uses == [i \in 1 .. 2 * Len(streamed) |-> streamed[((i - 1) % Len(streamed)) + 1].weight]
      again == SubSeq(Schedule!Belady(uses, 1), Len(streamed) + 1, 2 * Len(streamed))
  IN IF streamed = <<>> THEN <<>>
     ELSE [i \in DOMAIN again |-> [again[i] EXCEPT !.tile = pinned]]

\* Mutant: the optimum of the flattened sequence, whose tiles rotate.
ReplayedActionFlattened(s) ==
  Schedule!Belady(Flattened, numTiles)[s + 1]

\* The action replayed at step s.
ReplayedAction(s) ==
  LET actions == Schedule!SteadyBody(bodySequence, numTiles)
      pinned == Schedule!PinnedCount(bodySequence, numTiles)
      a == actions[(s % Len(bodySequence)) + 1]
      nth == Schedule!Nth(Streamed(actions, pinned), (s % Len(bodySequence)) + 1)
  IN IF s < Len(bodySequence) THEN a
     ELSE IF a.tile < pinned THEN [a EXCEPT !.step = s, !.kind = "Reuse"]
     ELSE [Continuation(actions, pinned)[nth] EXCEPT !.step = s]

SteadyInit ==
  /\ bodySequence \in Bodies
  /\ numTiles \in 1 .. MaxTiles     \* infeasible without a tile
  /\ useSequence = Flattened
  /\ Fresh
  /\ boundary = contents

RepetitionEnds == step' % Len(bodySequence) = 0

Validate ==
  /\ Replaying
  /\ Accept(ReplayedAction(step)) \/ Reject(ReplayedAction(step))
  /\ boundary' = IF step' # step /\ RepetitionEnds THEN contents' ELSE boundary
  /\ UNCHANGED bodySequence

\* The counts reported are those of the actions replayed.
Finish ==
  /\ Conclude(counts)
  /\ UNCHANGED <<bodySequence, boundary>>

SteadyNext == Validate \/ Finish

SteadySpec == SteadyInit /\ [][SteadyNext]_steadyVars
-----------------------------------------------------------------------------

\* A body is replayed; without one it is some other schedule (MCValidator).
IsSteady == bodySequence # <<>>

\* No schedule computeSteadyStatePlacement makes fails its own replay: the
\* pass never takes the warning path of placeBlock.
NeverRejected == IsSteady => verdict # "rejected"

\* Three repetitions are enough to show it for any number ("proves it is a
\* genuine fixed point", Placement.h): the second and the third leave the
\* tiles as they found them, so every later repetition replays the same.
RepetitionIsFixedPoint ==
  [][IsSteady /\ step' # step /\ RepetitionEnds /\ step' > Len(bodySequence) => contents' = boundary]_steadyVars

\* The programs that a fixed body must execute in every iteration when it uses
\* tile at[i] for its i-th use: those whose tile was last used, in this
\* iteration or at the end of the one before, for another weight.
Before(i, at) ==
  LET same == {j \in DOMAIN bodySequence : at[j] = at[i]}
      earlier == {j \in same : j < i}
  IN IF earlier = {} THEN Schedule!Max(same) ELSE Schedule!Max(earlier)
RecurringPrograms(at) ==
  Cardinality({i \in DOMAIN bodySequence : bodySequence[Before(i, at)] # bodySequence[i]})
UsedOnce == \A i, j \in DOMAIN bodySequence : bodySequence[i] = bodySequence[j] => i = j

\* No fixed body executes fewer programs per iteration, and pin-and-stream
\* reaches the least when each weight is used once (Placement.h: "Provably
\* optimal when every weight in bodySequence is used exactly once").
LeastForOneBody ==
  IsSteady /\ verdict = "accepted" =>
    LET least == Schedule!Min({RecurringPrograms(at) : at \in [DOMAIN bodySequence -> Tiles]})
        mine == Schedule!ProgramsPerIteration(bodySequence, numTiles)
    IN mine >= least /\ (UsedOnce => mine = least)
=============================================================================
