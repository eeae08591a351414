---------------------------- MODULE MCValidator -----------------------------
(* TLC instance of the validator: every schedule, right or wrong, for every  *)
(* short use sequence, and the pin-and-stream schedule of every body.        *)
EXTENDS SteadyState, TLC

CONSTANT MaxFree    \* bound on a use sequence replayed under any schedule

FreeInit ==
  /\ bodySequence = <<>>
  /\ numTiles \in 0 .. MaxTiles
  /\ useSequence \in UNION {[1 .. n -> Weights] : n \in 0 .. MaxFree}
  /\ Fresh
  /\ boundary = contents
Free == bodySequence = <<>>

MCInit == FreeInit \/ SteadyInit
MCNext ==
  \/ Free /\ Next /\ UNCHANGED <<bodySequence, boundary>>
  \/ ~ Free /\ SteadyNext
MCSpec == MCInit /\ [][MCNext]_steadyVars

Symmetry == Permutations(Weights)
=============================================================================
