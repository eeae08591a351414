------------------------- MODULE LegalizePrecision --------------------------
(***************************************************************************)
(* cim-legalize-precision (lib/Transforms/CIMLegalizePrecision.cpp): a     *)
(* cim.requantize after every accumulator that leaves the tiles, narrowed  *)
(* to i8 where everything downstream can be retyped.  And the verifiers of *)
(* the dialect (lib/Dialect/CIM/IR/CIMOps.cpp), as far as element types    *)
(* and address spaces go.  Left out: scale and zero point (1 and 0), the   *)
(* warning about lost encodings.                                           *)
(***************************************************************************)
EXTENDS CimIR

UserOps(ir, v) == {At(ir, p).op : p \in Users(ir, v)}
Results(ir, names) == {At(ir, p).res : p \in Where(ir, names)}

AlreadyLegalized(ir, v)        == "requantize" \in UserOps(ir, v)
ConsumedByReducePartial(ir, v) == "reduce" \in UserOps(ir, v)

Terminals(ir) ==
  Results(ir, {"reduce"})
    \cup {v \in Results(ir, {"mvm"}) : ~ ConsumedByReducePartial(ir, v)}

\* collectRetypableChain follows cim.copy to its result and memref.copy from
\* its source to its target.
Downstream(ir) ==
  {<<At(ir, p).args[1], At(ir, p).res>> : p \in Where(ir, {"copy"})}
    \cup {<<At(ir, p).args[1], At(ir, p).args[2]>> : p \in Where(ir, {"mcopy"})}
Chain(ir, v) ==
  LET edges   == Downstream(ir)
      next(vs) == {e[2] : e \in {d \in edges : d[1] \in vs}}
      reach[n \in 0 .. Cardinality(edges)] ==
        IF n = 0 THEN next({v}) ELSE LET vs == reach[n - 1] IN vs \cup next(vs)
  IN  reach[Cardinality(edges)]

IsAlloc(ir, v) == Defined(ir, v) /\ At(ir, Def(ir, v)).op = "alloc"

\* Mutant: a copy into a view is followed like one into an allocation.
MayRetypeAnySink(ir, u, v) == At(ir, u).op \in {"dealloc", "copy", "mcopy"}

\* Whether the use u of v leaves the pass free to narrow v.
MayRetype(ir, u, v) ==
  LET use == At(ir, u) IN
    \/ use.op \in {"dealloc", "copy"}
    \/ use.op = "mcopy" /\ (use.args[2] = v \/ IsAlloc(ir, use.args[2]))

Narrows(ir, v) ==
  \A w \in Chain(ir, v) \cup {v} : \A u \in Users(ir, w) : MayRetype(ir, u, w)

Requantized(v) == <<"requantized", v, 0>>
I8Like(type)   == [type EXCEPT !.elem = "i8"]

\* Each terminal gets its cim.requantize right after it, its uses get the
\* result of that, and what is downstream of a narrowed one becomes i8.  The
\* decision about one terminal does not depend on those before it, so all of
\* them are rewritten at once.
Legalize(ir) ==
  LET todo      == {v \in Terminals(ir) : ~ AlreadyLegalized(ir, v)}
      narrow    == {v \in todo : Narrows(ir, v)}
      retyped   == UNION {Chain(ir, v) : v \in narrow}
      use(v)    == IF v \in todo THEN Requantized(v) ELSE v
      rewire(o) == [o EXCEPT !.args = [i \in DOMAIN o.args |-> use(o.args[i])],
                             !.type = IF o.res \in retyped THEN I8Like(@) ELSE @]
      emit(o)   == IF o.res \in todo
                   THEN << rewire(o),
                           Requantize(Requantized(o.res), o.res,
                             IF o.res \in narrow THEN I8Like(o.type) ELSE o.type) >>
                   ELSE <<rewire(o)>>
      pass(ops) == FlattenSeq([i \in DOMAIN ops |-> emit(ops[i])])
  IN  [ir EXCEPT !.block =
         [ func  |-> pass(ir.block.func),  outer |-> pass(ir.block.outer),
           inner |-> pass(ir.block.inner), rows  |-> pass(ir.block.rows) ]]
-----------------------------------------------------------------------------
(* The verifiers. *)

Verified(ir, op) ==
  LET type(i) == RootType(ir, op.args[i])
      elem(i) == type(i).elem
  IN
    CASE op.op \in Reductions ->
           op.args # <<>> /\ \A i \in DOMAIN op.args : elem(i) = op.type.elem
      [] op.op = "copy"  -> elem(1) = op.type.elem /\ type(1).space # op.type.space
      [] op.op = "mcopy" -> elem(1) = elem(2)
      [] op.op = "requantize" ->
           0 < ir.target.effectiveBits
             /\ ir.target.effectiveBits <= 8 * ElemBytes(op.type.elem)
      [] op.op = "mvm" -> elem(2) = "i8" /\ op.type.elem = "i32"
      [] OTHER -> TRUE
Verifies(ir) == \A p \in Positions(ir) : Verified(ir, At(ir, p))
=============================================================================
