----------------------------- MODULE MCPipeline -----------------------------
(* Every product of up to 2 x 3 x 3 on tiles that divide it and that do not, *)
(* and a few functions written out that use the ops partition never emits.   *)
EXTENDS Pipeline

T(rows, cols, count, inPlace) ==
  [rows |-> rows, cols |-> cols, count |-> count, effectiveBits |-> 8,
   partialSumInPlace |-> inPlace, maxInPlace |-> inPlace]
Targets == <<T(2, 2, 1, FALSE), T(2, 2, 3, TRUE), T(2, 1, 2, FALSE)>>

Matmul(m, n, k, plain) ==
  [op |-> IF plain THEN "matmul" ELSE "matmul_transpose_b",
   contract |-> TRUE, constants |-> 1,
   act |-> <<m, k>>, weight |-> IF plain THEN <<k, n>> ELSE <<n, k>>, out |-> <<m, n>>]

Generated ==
  {Build(Matmul(m, n, k, plain), t, m, legalized, TRUE) :
     m \in 1 .. 2, n \in 1 .. 3, k \in 1 .. 3, plain \in BOOLEAN,
     t \in ToSet(Targets), legalized \in BOOLEAN}

\* What cim-detect or cim-partition leave alone, and a host without native ops.
LeftAlone ==
  {[Matmul(2, 2, 2, FALSE) EXCEPT !.op = "conv_2d"],
   [Matmul(2, 2, 2, FALSE) EXCEPT !.op = "batch_matmul"],
   [Matmul(2, 2, 2, FALSE) EXCEPT !.constants = 2],
   [Matmul(2, 2, 2, TRUE) EXCEPT !.weight = <<3, 2>>]}
NotOffloaded ==
  {Build(c, Targets[1], 2, FALSE, TRUE) : c \in LeftAlone}
    \cup {Build(Matmul(1, 2, 2, TRUE), Targets[1], 1, FALSE, FALSE)}

Written(func, outer, inner, t, legalized) ==
  LET ir == [ block |-> [func |-> func, outer |-> outer, inner |-> inner, rows |-> <<>>],
              target |-> t, native |-> FALSE, product |-> FALSE,
              candidate |-> Matmul(1, 1, 1, FALSE), rows |-> 1, legalized |-> legalized ]
  IN  IF legalized THEN Legalize(ir) ELSE ir

V(x, i) == <<x, i, 0>>
Elems(x, n) == [e \in 1 .. n |-> <<<<x, e, 0>>>>]
Operands2x2 ==
  << GetGlobal(V("w", 0), <<2, 2>>, "i8", Elems("w", 4)),
     GetGlobal(V("a", 0), <<4>>, "i8", Elems("a", 4)),
     DeviceOpen(V("dev", 0)) >>
OnTile(i, space) ==
  << TileAlloc(V("tile", i), V("dev", 0), i), Program(V("res", i), V("tile", i), V("w", 0)),
     SubView1D(V("half", i), V("a", 0), i, 2),
     Mvm(V("out", i), V("res", i), V("half", i), 2, space) >>

\* A maximum of two products, requantized, in a loop whose trip count the
\* inner induction variable makes unknown.
MaxOfTwo(space) ==
  << Operands2x2 \o OnTile(0, space) \o OnTile(1, "near")
       \o << Barrier(V("dev", 0)),
             For(V("i", 0), Const(0), Const(2), Const(1), "outer") >>,
     << Reshape(V("row", 0), V("a", 0), <<2, 2>>),
        SubView(V("picked", 0), V("row", 0), <<V("i", 0), Const(0)>>, <<1, 2>>, <<1, 1>>, {1}),
        SubView1D(V("tail", 0), V("picked", 0), 0, 2),
        Copy(V("near", 0), V("tail", 0), MemRefType(<<2>>, "i8", "near")),
        For(V("j", 0), Const(0), V("i", 0), Const(1), "inner") >>,
     << ReduceMax(V("max", 0), <<V("out", 0), V("out", 1)>>, <<2>>, space),
        Requantize(V("q", 0), V("max", 0), MemRefType(<<2>>, "i8", "near")),
        Copy(V("host", 0), V("q", 0), MemRefType(<<2>>, "i8", "host")),
        CallPrint(V("host", 0)) >> >>

\* An accumulator that is copied to the host, on into an allocation, and freed.
Chained ==
  Operands2x2 \o OnTile(0, "near")
    \o << Copy(V("host", 0), V("out", 0), MemRefType(<<2>>, "i32", "host")),
          Alloc(V("keep", 0), <<2>>, "i32"),
          MemRefCopy(V("host", 0), V("keep", 0)),
          Copy(V("again", 0), V("keep", 0), MemRefType(<<2>>, "i32", "near")),
          Dealloc(V("host", 0)), Dealloc(V("keep", 0)) >>
\* The same of a value that is printed, or into a view: both stay i32.
IntoView ==
  Operands2x2 \o OnTile(0, "near")
    \o << Alloc(V("keep", 0), <<4>>, "i32"),
          SubView1D(V("part", 0), V("keep", 0), 1, 2),
          MemRefCopy(V("out", 0), V("part", 0)) >>
Printed == Chained \o <<CallPrint(V("keep", 0))>>

\* Loops of no turn, of a step that does not divide, and nested ones.
Loops(n, step) ==
  << Operands2x2 \o <<For(V("i", 0), Const(0), Const(n), Const(step), "outer")>>,
     <<For(V("j", 0), Const(0), Const(3), Const(2), "inner")>> \o OnTile(0, "host"),
     OnTile(1, "near") >>

WrittenOut ==
  {Written(MaxOfTwo(space)[1], MaxOfTwo(space)[2], MaxOfTwo(space)[3], t, legalized) :
     space \in {"near", "host"}, t \in {T(2, 2, 2, FALSE), T(2, 2, 2, TRUE)},
     legalized \in BOOLEAN}
  \cup {Written(func, <<>>, <<>>, T(2, 2, 2, FALSE), legalized) :
          func \in {Chained, IntoView, Printed}, legalized \in BOOLEAN}
  \cup {Written(Loops(n, step)[1], Loops(n, step)[2], Loops(n, step)[3],
                T(2, 2, count, FALSE), FALSE) :
          n \in {0, 3}, step \in 1 .. 2, count \in 1 .. 2}

\* A matmul whose number of rows is dynamic: 1 or 2 rows when it runs.
DynamicBatch ==
  {Build(Matmul(Dynamic, 2, 2, FALSE), Targets[1], m, FALSE, TRUE) : m \in 1 .. 2}

MCModules == Generated \cup NotOffloaded \cup WrittenOut
=============================================================================
