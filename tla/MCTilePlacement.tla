-------------------------- MODULE MCTilePlacement ---------------------------
(* TLC instance of TilePlacement: every problem within the bounds, up to the *)
(* names of the weights.                                                     *)
EXTENDS TilePlacement, TLC

Reference == INSTANCE OptimalPaging

\* Belady programs as often as the best schedule of any kind, and the two
\* baselines never less often (Placement.h: "Optimal, and actually
\* implementable here because the model graph is static").
BeladyIsOptimal ==
  returned /\ Solvable =>
    LET least == Reference!MinPrograms(useSequence, numTiles) IN
      IF policy = "Belady" THEN programs = least ELSE programs >= least

\* The schedule the engine returns under Belady, ties and labels included, is
\* the one Schedules computes, which is what the pass is modelled with.
AsFunction == INSTANCE Schedules
EngineComputesBelady ==
  returned /\ policy = "Belady" => actions = AsFunction!Belady(useSequence, numTiles)

\* The weights are numbers, named in the order of their first use: the engine
\* is the same under any renaming of them.
FirstUseInOrder ==
  \A i \in DOMAIN useSequence : \A w \in Weights :
    w < useSequence[i] => \E j \in 1 .. i - 1 : useSequence[j] = w
MCInit == Init /\ FirstUseInOrder
MCSpec == MCInit /\ [][Next]_vars /\ WF_vars(Next)
=============================================================================
