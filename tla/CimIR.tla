------------------------------- MODULE CimIR --------------------------------
(***************************************************************************)
(* The IR that the passes rewrite and the interpreter runs: the ops of the *)
(* cim dialect (include/cim/Dialect/CIMOps.td) and the few memref, linalg, *)
(* scf and func ops around them.                                           *)
(*                                                                         *)
(* An SSA value is <<name, i, j>>.  A module is                            *)
(*   [block |-> block name -> ops, target |-> what the passes and the      *)
(*    runtime read of the target file, native |-> see Interpreter];        *)
(* the body of a loop is a block of its own.                               *)
(*                                                                         *)
(* A number in a buffer is what was done to make it: the sequence of the   *)
(* terms that were added up, so zero is empty and a sum a concatenation.   *)
(* A term is <<"w", n, k>> or <<"a", i, k>>, a member of the weights or of *)
(* the activations, or <<"product", x, y>>, <<"clamp", x>>, <<"max", xs>>. *)
(***************************************************************************)
EXTENDS Integers, Sequences, FiniteSets, SequencesExt, FiniteSetsExt

\* ShapedType::kDynamic is the least int64_t: a negative number here.
Dynamic == -1000

MemRefType(sizes, elem, space) == [sizes |-> sizes, elem |-> elem, space |-> space]
NoType  == MemRefType(<<>>, "", "host")
NoValue == <<"", 0, 0>>
Const(n)   == <<"const", n, 0>>     \* what an arith.constant defines
IsConst(v) == v[1] = "const"

Op(name, res, args, type, attr) ==
  [op |-> name, res |-> res, args |-> args, type |-> type, attr |-> attr]

GetGlobal(res, sizes, elem, elems) ==
  Op("global", res, <<>>, MemRefType(sizes, elem, "host"), elems)
Alloc(res, sizes, elem)      == Op("alloc", res, <<>>, MemRefType(sizes, elem, "host"), {})
Cast(res, src)               == Op("cast", res, <<src>>, NoType, {})
Reshape(res, src, sizes)     == Op("reshape", res, <<src>>, MemRefType(sizes, "", "host"), {})
SubView(res, src, offsets, sizes, strides, dropped) ==
  Op("subview", res, <<src>>, NoType,
     [offsets |-> offsets, sizes |-> sizes, strides |-> strides, dropped |-> dropped])
MemRefCopy(src, dst)         == Op("mcopy", NoValue, <<src, dst>>, NoType, {})
Fill(dst)                    == Op("fill", NoValue, <<dst>>, NoType, {})   \* with zero
Dealloc(v)                   == Op("dealloc", NoValue, <<v>>, NoType, {})
CallPrint(v)                 == Op("print", NoValue, <<v>>, NoType, {})
For(iv, lb, ub, step, body)  == Op("for", iv, <<lb, ub, step>>, NoType, body)
\* memref.load of src[j][i] and memref.store of it to dst[i][j].
LoadStore(src, dst, i, j)    == Op("loadstore", NoValue, <<src, dst, i, j>>, NoType, {})
Linalg(act, weights, out)    == Op("linalg", NoValue, <<act, weights, out>>, NoType, {})

DeviceOpen(res)              == Op("open", res, <<>>, NoType, {})
TileAlloc(res, dev, id)      == Op("tile", res, <<dev>>, NoType, id)
Program(res, tile, weights)  == Op("program", res, <<tile, weights>>, NoType, {})
Mvm(res, resident, act, rows, space) ==
  Op("mvm", res, <<resident, act>>, MemRefType(<<rows>>, "i32", space), {})
ReducePartial(res, partials, sizes, space) ==
  Op("reduce", res, partials, MemRefType(sizes, "i32", space), {})
ReduceMax(res, inputs, sizes, space) ==
  Op("max", res, inputs, MemRefType(sizes, "i32", space), {})
Requantize(res, src, type)   == Op("requantize", res, <<src>>, type, {})
Copy(res, src, type)         == Op("copy", res, <<src>>, type, {})
Barrier(dev)                 == Op("barrier", NoValue, <<dev>>, NoType, {})

Views     == {"cast", "reshape", "subview"}
Reductions == {"reduce", "max"}
-----------------------------------------------------------------------------
Positions(ir) == UNION {{<<b, i>> : i \in DOMAIN ir.block[b]} : b \in DOMAIN ir.block}
At(ir, p)     == ir.block[p[1]][p[2]]
Where(ir, names) == {p \in Positions(ir) : At(ir, p).op \in names}
Def(ir, v)    == CHOOSE p \in Positions(ir) : At(ir, p).res = v
Defined(ir, v) == \E p \in Positions(ir) : At(ir, p).res = v
Users(ir, v)  == {p \in Positions(ir) : v \in ToSet(At(ir, p).args)}

\* The type of the buffer that a value is or is a view of; a view keeps the
\* element type and the address space of its source.
RootType(ir, v) ==
  LET type[w \in {At(ir, p).res : p \in Positions(ir)}] ==
        LET def == At(ir, Def(ir, w))
        IN  IF def.op \in Views THEN type[def.args[1]] ELSE def.type
  IN  type[v]

NumElements(sizes) ==
  LET upTo[d \in 0 .. Len(sizes)] == IF d = 0 THEN 1 ELSE upTo[d - 1] * sizes[d]
  IN  upTo[Len(sizes)]
IsDeviceSpace(t)   == t.space # "host"
ElemBytes(elem)    == IF elem = "i32" THEN 4 ELSE 1
=============================================================================
