-------------------------- MODULE MCPlacementPass ---------------------------
(* TLC instances of PlacementPass: the source programs.  The pass run takes  *)
(* programs in which no block has both programs of its own and a loop that   *)
(* programs; the two violation runs take the two smallest that do.           *)
EXTENDS PlacementPass, TLC

CONSTANTS MaxBody, MaxTrip

Bodies(n) == UNION {[1 .. k -> Weights] : k \in 0 .. n}

\* Programs over two loops: bodies of the blocks, trip counts, what is known
\* of them, and the weights whose views do not depend on the iteration.
Program(entry, first, second, trip, known, invariant) ==
  [body |-> <<first, second>> @@ (0 :> entry), trip |-> trip, known |-> known,
   invariant |-> invariant]

StraightLine ==
  {Program(s, <<>>, <<>>, <<0, 0>>, <<TRUE, TRUE>>, Weights) : s \in Bodies(MaxBody)}
OneLoop ==
  {Program(<<1>>, s, <<>>, <<n, 0>>, <<k, TRUE>>, Weights) :
     s \in Bodies(MaxBody), n \in 0 .. MaxTrip, k \in BOOLEAN}
\* A weight padded inside the loop lives in a buffer of the iteration.
PaddedInLoop ==
  {Program(<<1>>, s, <<>>, <<2, 0>>, <<TRUE, TRUE>>, i) :
     s \in Bodies(3), i \in SUBSET Weights}
TwoLoops ==
  {Program(<<1, 2>>, s, r, <<2, 2>>, <<TRUE, TRUE>>, Weights) : s, r \in Bodies(2)}
NestedLoops ==
  {Program(<<1>>, <<2>>, s, <<2, n>>, <<TRUE, TRUE>>, Weights) :
     s \in Bodies(3), n \in 0 .. 2}
FlatSources == StraightLine \cup OneLoop \cup PaddedInLoop \cup TwoLoops \cup NestedLoops

\* A use, a loop that programs, and a reuse after it.
ReuseAcrossLoop ==
  {Program(<<w, 1, w>>, s, <<>>, <<n, 0>>, <<k, TRUE>>, Weights) :
     w \in Weights, s \in Bodies(1), n \in 0 .. 2, k \in BOOLEAN}
\* A loop with a program of its own and an inner loop that programs.
ProgramAndInnerLoop ==
  {Program(<<1>>, <<w, 2>>, s, <<m, n>>, <<TRUE, TRUE>>, Weights) :
     w \in Weights, s \in Bodies(1), m, n \in 0 .. 2}

Symmetry == Permutations(Weights)
=============================================================================
