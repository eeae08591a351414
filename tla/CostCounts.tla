----------------------------- MODULE CostCounts -----------------------------
(***************************************************************************)
(* What cim-cost-report reads off a module without running it              *)
(* (lib/Transforms/CostReportUtils.cpp, LoopAnalysis.cpp): how often each  *)
(* op runs, from the trip counts of the loops around it.                   *)
(***************************************************************************)
EXTENDS CimIR

TripCount(lb, ub, step) == IF lb < ub THEN (ub - lb + step - 1) \div step ELSE 0

\* The loop whose body a block is; a function's block has none.
LoopOf(ir, b) == {p \in Where(ir, {"for"}) : At(ir, p).attr = b}
Bounds(ir, loop) == At(ir, loop).args
HasConstantTripCount(ir, loop) ==
  /\ \A i \in 1 .. 3 : IsConst(Bounds(ir, loop)[i])
  /\ Bounds(ir, loop)[3][2] > 0
ConstantTripCount(ir, loop) ==
  LET n(i) == Bounds(ir, loop)[i][2] IN TripCount(n(1), n(2), n(3))

\* The loops around a block.
LoopsAround(ir, b) ==
  LET around[a \in DOMAIN ir.block] ==
        UNION {{loop} \cup around[loop[1]] : loop \in LoopOf(ir, a)}
  IN  around[b]

Known(ir, p)  == \A loop \in LoopsAround(ir, p[1]) : HasConstantTripCount(ir, loop)
Weight(ir, p) ==
  FoldSet(LAMBDA loop, w : w * ConstantTripCount(ir, loop), 1, LoopsAround(ir, p[1]))
Depth(ir, p)  == Cardinality(LoopsAround(ir, p[1]))

KnownSites(ir, op)   == {p \in Where(ir, {op}) : Known(ir, p)}
UnknownSites(ir, op) == {p \in Where(ir, {op}) : ~ Known(ir, p)}

\* Whether one side of a copy is in a device's memory, by its type.
CrossesBoundary(ir, p) ==
  IsDeviceSpace(RootType(ir, At(ir, p).args[1])) \/ IsDeviceSpace(At(ir, p).type)

\* Source and destination have one shape and one element type (CopyOp::verify).
Bytes(ir, p) == NumElements(At(ir, p).type.sizes) * ElemBytes(At(ir, p).type.elem)

\* Mutant: one call a site, however many operands.
OneFold(ir, p) == 1

\* N operands are folded by N - 1 calls.
Folds(ir, p) == Len(At(ir, p).args) - 1

CountWeightedOps(ir) ==
  [ program    |-> MapThenSumSet(LAMBDA p : Weight(ir, p), KnownSites(ir, "program")),
    install    |-> Cardinality({p \in KnownSites(ir, "program") : Depth(ir, p) = 0}),
    steady     |-> Cardinality({p \in KnownSites(ir, "program") : Depth(ir, p) = 1}),
    mvm        |-> MapThenSumSet(LAMBDA p : Weight(ir, p), KnownSites(ir, "mvm")),
    requantize |-> MapThenSumSet(LAMBDA p : Weight(ir, p), KnownSites(ir, "requantize")),
    reduceAdd  |-> MapThenSumSet(LAMBDA p : Weight(ir, p) * Folds(ir, p), KnownSites(ir, "reduce")),
    reduceMax  |-> MapThenSumSet(LAMBDA p : Weight(ir, p) * Folds(ir, p), KnownSites(ir, "max")),
    bytes      |-> MapThenSumSet(LAMBDA p : Weight(ir, p) * Bytes(ir, p),
                     {p \in KnownSites(ir, "copy") : CrossesBoundary(ir, p)}),
    hostCopies |-> MapThenSumSet(LAMBDA p : Weight(ir, p),
                     {p \in KnownSites(ir, "copy") : ~ CrossesBoundary(ir, p)}),
    complete   |-> \A op \in {"program", "mvm", "requantize", "reduce", "max", "copy"} :
                     UnknownSites(ir, op) = {} ]
=============================================================================
