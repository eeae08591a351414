------------------------------ MODULE Pipeline ------------------------------
(***************************************************************************)
(* cim-detect, cim-partition and cim-legalize-precision on a function with *)
(* one matrix product, cim-cost-report on the result, and the interpreter  *)
(* that runs it.  Every operand has a different member at every place, so  *)
(* what is printed shows exactly which products went where.                *)
(***************************************************************************)
EXTENDS Interpreter, CimPartition, LegalizePrecision, CostCounts

\* A module made from candidate c for target t; rows is the run-time number of
\* rows, legalized whether cim-legalize-precision runs.
Build(c, t, rows, legalized, native) ==
  LET ir == [ block |-> Function(c, t, rows), target |-> t, native |-> native,
              product |-> TRUE, candidate |-> c, rows |-> rows, legalized |-> legalized ]
  IN  IF legalized THEN Legalize(ir) ELSE ir

\* What a linalg matmul leaves in its zeroed result.
Element(i, n) ==
  [k \in 1 .. K(module.candidate) |-> <<"product", <<<<"w", n, k - 1>>>>, <<<<"a", i, k - 1>>>>>>]
Result ==
  LET cols == N(module.candidate) IN
    [e \in 1 .. module.rows * cols |->
       LET x == Element((e - 1) \div cols, (e - 1) % cols)
       IN  IF module.legalized THEN <<<<"clamp", x>>>> ELSE x]

\* Tiling, padding, reuse of tiles by round-robin, the loop over the rows and
\* the order of the passes change no result: each element is the sum of its K
\* products and of nothing else, clamped once if the module was legalized.
\* The interpreter stops only at an op that it says it does not support (CIMPartition.cpp:254,
\* "Padding rows/columns are provably inert").
ResultIsProduct ==
  module.product =>
    /\ status = "done" => printed = <<Result>>
    /\ status = "refused" => Cur.op \in {"linalg", "loadstore"}

\* What the cost report says without running the module is what a run comes to,
\* and a lower bound when a trip count is unknown (cim-cost-report's warning): for
\* each kind of op the calls that the runtime counts, as test/mlir/
\* cost_report_e2e_test.cpp asks; for bytes those that the cim.copy ops of the run
\* move to or from a device.  These are not the bytes that the runtime counts, which
\* have all staging of weights and activations too: the test does not compare them
\* (408-433), and neither does this.
CountsMatchRun ==
  status = "done" =>
    LET report == CountWeightedOps(module) IN
      \A c \in Counters :
        /\ report[c] <= counts[c]
        /\ report.complete => report[c] = counts[c]

\* What cim-legalize-precision takes for granted: no allocation is written by
\* two copies, and the target resolves no more bits than an i8 has.
Narrowable(ir) ==
  /\ \A p, q \in Where(ir, {"mcopy"}) : At(ir, p).args[2] = At(ir, q).args[2] => p = q
  /\ ir.target.effectiveBits <= 8

\* cim-legalize-precision keeps a module well-typed, also where it narrows a
\* chain of buffers, and when it runs again it "must not stack a second
\* requantize on top of the first" (CIMLegalizePrecision.cpp:83).
LegalizedSound ==
  status = "running" /\ frames = <<<<"func", 1>>>> /\ Verifies(module) /\ Narrowable(module) =>
    LET once == Legalize(module) IN
      /\ Verifies(once)
      /\ Positions(Legalize(once)) = Positions(once)
=============================================================================
