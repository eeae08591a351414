---------------------------- MODULE CimPartition ----------------------------
(***************************************************************************)
(* cim-detect (lib/Transforms/CIMDetect.cpp) and cim-partition             *)
(* (lib/Transforms/CIMPartition.cpp): the ops that one matrix product      *)
(* becomes.  A candidate c is                                              *)
(*   [op, contract, constants: what cim-detect looks at,                   *)
(*    act, weight, out: the shapes]                                        *)
(* and a target t has count tiles of rows x cols.  Left out: the check for *)
(* buffer semantics, costs on cim.program, and the wording of warnings.    *)
(***************************************************************************)
EXTENDS CimIR

Act     == <<"act", 0, 0>>
Weights == <<"weights", 0, 0>>
Out     == <<"out", 0, 0>>
Row     == <<"row", 0, 0>>

IsPlain(c) == c.op = "matmul"
K(c) == c.act[2]
N(c) == IF IsPlain(c) THEN c.weight[2] ELSE c.weight[1]
WeightK(c) == IF IsPlain(c) THEN c.weight[1] ELSE c.weight[2]

\* cim-detect: a matmul on i8 with a wider result, one operand a constant.
Detected(c) ==
  /\ c.op \in {"matmul", "batch_matmul", "matmul_transpose_b"}
  /\ c.contract
  /\ c.constants = 1

\* What partition checks before it rewrites anything.
Accepted(c) ==
  /\ c.op \in {"matmul", "matmul_transpose_b"}
  /\ Len(c.act) = 2 /\ Len(c.weight) = 2 /\ Len(c.out) = 2
  /\ WeightK(c) = K(c) /\ c.out[2] = N(c)

Padded(n, multiple) == ((n + multiple - 1) \div multiple) * multiple

WorkN(c, t) == Padded(N(c), t.rows)
WorkK(c, t) == Padded(K(c), t.cols)
NeedsPadding(c, t) == WorkN(c, t) # N(c) \/ WorkK(c, t) # K(c)

\* Views with unit strides.
SubView2D(res, src, n0, k0, sizes) ==
  SubView(res, src, <<Const(n0), Const(k0)>>, sizes, <<1, 1>>, {})
RowSubView(res, src, row, col, size) ==
  SubView(res, src, <<row, Const(col)>>, <<1, size>>, <<1, 1>>, {1})
SubView1D(res, src, offset, size) ==
  SubView(res, src, <<Const(offset)>>, <<size>>, <<1>>, {})

\* A plain matmul's [K x N] weights are transposed by two loops of their own.
Transposed == <<"transposed", 0, 0>>
I == <<"i", 0, 0>>
J == <<"j", 0, 0>>
TransposeOps(c) ==
  IF IsPlain(c)
  THEN << Alloc(Transposed, <<N(c), K(c)>>, "i8"),
          For(I, Const(0), Const(N(c)), Const(1), "outer") >>
  ELSE <<>>
TransposeOuter(c) == <<For(J, Const(0), Const(K(c)), Const(1), "inner")>>
TransposeInner    == <<LoadStore(Weights, Transposed, I, J)>>
OutputMajor(c) == IF IsPlain(c) THEN Transposed ELSE Weights

Device        == <<"device", 0, 0>>
PaddedWeights == <<"paddedWeights", 0, 0>>
ActPadded     == <<"actPadded", 0, 0>>
WorkWeights(c, t) == IF NeedsPadding(c, t) THEN PaddedWeights ELSE OutputMajor(c)

\* Zero-filled buffers of tile multiples; the real weights go to the corner.
PaddingOps(c, t) ==
  (IF NeedsPadding(c, t)
   THEN << Alloc(PaddedWeights, <<WorkN(c, t), WorkK(c, t)>>, "i8"),
           Fill(PaddedWeights),
           SubView2D(<<"corner", 0, 0>>, PaddedWeights, 0, 0, <<N(c), K(c)>>),
           MemRefCopy(OutputMajor(c), <<"corner", 0, 0>>) >>
   ELSE <<>>)
  \o
  (IF WorkK(c, t) # K(c)
   THEN <<Alloc(ActPadded, <<WorkK(c, t)>>, "i8"), Fill(ActPadded)>>
   ELSE <<>>)

Partial(nb, kb) == <<"partial", nb, kb>>
ActNear == <<"actNear", 0, 0>>

TileId(t, blockId) == IF t.count > 0 THEN blockId % t.count ELSE 0

\* One tile block: program the weights, multiply at once.
BlockOps(c, t, nb, kb) ==
  LET v(name) == <<name, nb, kb>> IN
  << SubView2D(v("block"), WorkWeights(c, t), nb * t.rows, kb * t.cols, <<t.rows, t.cols>>),
     TileAlloc(v("tile"), Device, TileId(t, nb * (WorkK(c, t) \div t.cols) + kb)),
     Program(v("resident"), v("tile"), v("block")),
     SubView1D(v("slice"), ActNear, kb * t.cols, t.cols),
     Mvm(Partial(nb, kb), v("resident"), v("slice"), t.rows, "near") >>

\* Mutant: all the tiles that a row of blocks needs are programmed first.
BlockRowProgramsFirst(c, t, nb) ==
  LET tilesK  == WorkK(c, t) \div t.cols
      blocks  == [kb \in 1 .. tilesK |-> BlockOps(c, t, nb, kb - 1)]
  IN  FlattenSeq([kb \in 1 .. tilesK |-> SubSeq(blocks[kb], 1, 3)])
      \o FlattenSeq([kb \in 1 .. tilesK |-> SubSeq(blocks[kb], 4, 5)])

BlockRow(c, t, nb) ==
  FlattenSeq([kb \in 1 .. WorkK(c, t) \div t.cols |-> BlockOps(c, t, nb, kb - 1)])

\* The partial sums, reduced when there are several, back on the host and into
\* the rows of the result that are real.
WriteBack(c, t, nb, row) ==
  LET tilesK == WorkK(c, t) \div t.cols
      n0     == nb * t.rows
      valid  == IF t.rows < N(c) - n0 THEN t.rows ELSE N(c) - n0
      sum    == IF tilesK > 1 THEN <<"sum", nb, 0>> ELSE Partial(nb, 0)
      host   == <<"hostOut", nb, 0>>
      real   == IF valid = t.rows THEN host ELSE <<"hostOutValid", nb, 0>>
  IN  (IF tilesK > 1
       THEN <<ReducePartial(sum, [kb \in 1 .. tilesK |-> Partial(nb, kb - 1)], <<t.rows>>, "near")>>
       ELSE <<>>)
      \o <<Copy(host, sum, MemRefType(<<t.rows>>, "i32", "host"))>>
      \o (IF valid = t.rows THEN <<>> ELSE <<SubView1D(real, host, 0, valid)>>)
      \o << RowSubView(<<"outSlice", nb, 0>>, Out, row, n0, valid),
            MemRefCopy(real, <<"outSlice", nb, 0>>) >>

ActRow == <<"actRow", 0, 0>>
EmitRow(c, t, row) ==
  <<RowSubView(ActRow, Act, row, 0, K(c))>>
  \o (IF WorkK(c, t) = K(c)
      THEN <<Copy(ActNear, ActRow, MemRefType(<<K(c)>>, "i8", "near"))>>
      ELSE << SubView1D(<<"actDst", 0, 0>>, ActPadded, 0, K(c)),
              MemRefCopy(ActRow, <<"actDst", 0, 0>>),
              Copy(ActNear, ActPadded, MemRefType(<<WorkK(c, t)>>, "i8", "near")) >>)
  \o FlattenSeq([nb \in 1 .. WorkN(c, t) \div t.rows |->
                BlockRow(c, t, nb - 1) \o WriteBack(c, t, nb - 1, row)])

\* One row is emitted straight-line, several are a loop over the rows.
IsBatched(c) == c.act[1] # 1
Partition(c, t) ==
  TransposeOps(c) \o <<DeviceOpen(Device)>> \o PaddingOps(c, t)
  \o (IF IsBatched(c)
      THEN <<For(Row, Const(0), Const(c.act[1]), Const(1), "rows")>>
      ELSE EmitRow(c, t, Const(0)))

\* Operands whose members all differ; plain weights are [K x N].
ActElems(c, rows) ==
  [e \in 1 .. rows * K(c) |-> <<<<"a", (e - 1) \div K(c), (e - 1) % K(c)>>>>]
WeightElems(c) ==
  LET cols == c.weight[2] IN
    [e \in 1 .. c.weight[1] * cols |->
       <<IF IsPlain(c) THEN <<"w", (e - 1) % cols, (e - 1) \div cols>>
         ELSE <<"w", (e - 1) \div cols, (e - 1) % cols>> >>]

\* The blocks of a function: its operands, the product and a print of the
\* result.  A dynamic dimension is a static buffer behind a memref.cast.
Static(shape, rows) == [shape EXCEPT ![1] = rows]
Lowered(c, t) == Detected(c) /\ Accepted(c)
Function(c, t, rows) ==
  LET isDynamic == c.act[1] = Dynamic
      given(v)  == IF isDynamic THEN <<v[1], 1, 0>> ELSE v
      operands  ==
        << GetGlobal(given(Act), Static(c.act, rows), "i8", ActElems(c, rows)),
           GetGlobal(Weights, c.weight, "i8", WeightElems(c)),
           Alloc(given(Out), Static(c.out, rows), "i32") >>
        \o (IF isDynamic THEN <<Cast(Act, given(Act)), Cast(Out, given(Out))>> ELSE <<>>)
      lowered == Lowered(c, t)
  IN  [ func  |-> operands
                  \o (IF lowered THEN Partition(c, t) ELSE <<Linalg(Act, Weights, Out)>>)
                  \o <<CallPrint(Out)>>,
        outer |-> IF lowered /\ IsPlain(c) THEN TransposeOuter(c) ELSE <<>>,
        inner |-> IF lowered /\ IsPlain(c) THEN TransposeInner ELSE <<>>,
        rows  |-> IF lowered /\ IsBatched(c) THEN EmitRow(c, t, Row) ELSE <<>> ]
=============================================================================
