---------------------------- MODULE Interpreter -----------------------------
(***************************************************************************)
(* The interpreter behind cim-run (lib/Interpreter/Interpreter.cpp).  It   *)
(* walks a function op by op.  A handler looks up its operands, makes its  *)
(* calls to the runtime in order and then binds its result; any call may   *)
(* fail, the handler then frees what it holds and the run ends.  One step  *)
(* here is one call of a handler, or a whole handler that makes none.      *)
(*                                                                         *)
(* Buffers of the runtime are <<module, i>>: <<"heap", a>> belongs to        *)
(* allocation a (shared_ptr<Allocation>), the others to the handler that   *)
(* runs.  An allocation lives as long as a view of it is bound.            *)
(*                                                                         *)
(* A module with native = TRUE is run by a host that also knows the loads  *)
(* and stores of cim-partition's transposition, which this one refuses.    *)
(* Abstracted: bytes to elements, gather and scatter on a device to one    *)
(* call each; diagnostics; memref.global contents, which name their place. *)
(***************************************************************************)
EXTENDS CimIR

CONSTANT Modules        \* the modules that may be run

\* What the target parser checks (tiles.count must be greater than zero), what
\* the verifier of a reduction does (it has an operand) and what any IR has:
\* blocks are sequences of ops, an op has a list of operands, a loop a body.
IsModule(m) ==
  /\ m.target.count \in Nat \ {0}
  /\ m.target.partialSumInPlace \in BOOLEAN /\ m.target.maxInPlace \in BOOLEAN
  /\ "func" \in DOMAIN m.block
  /\ \A b \in DOMAIN m.block :
       /\ m.block[b] \in Seq(ToSet(m.block[b]))
       /\ \A i \in DOMAIN m.block[b] :
            LET op == m.block[b][i] IN
              /\ op.args \in Seq(ToSet(op.args))
              /\ op.op \in Reductions => op.args # <<>>
              /\ op.op = "for"  => op.attr \in DOMAIN m.block
              /\ op.op = "tile" => op.attr \in Nat
ASSUME ModulesAssumption == \A m \in Modules : IsModule(m)

VARIABLES
  module,    \* the module that runs
  status,    \* running; done, failed or refused; closed
  frames,    \* the blocks that are being executed, with the next op of each
  call,      \* calls made by the handler of the current op
  memrefs,   \* MemRefValue bound to each value: [alloc, offset, sizes, strides]
  heap,      \* the allocations: [onDevice, elems]
  index,     \* indexValues: what the induction variables are bound to
  handles,   \* deviceValues, tileValues and residentValues
  tiles,     \* what the device's tiles hold
  isOpen,    \* devices: the one device is open
  live,      \* buffers allocated from the runtime and not freed
  counts,    \* the calls the runtime counts, and the bytes that cim.copy ops move
  printed    \* what @cim_print_* printed

data == <<memrefs, heap, index, handles, tiles, isOpen, counts, printed>>
vars == <<module, status, frames, call, live, data>>

Target   == module.target
TopFrame == frames[Len(frames)]
AtEnd    == TopFrame[2] > Len(module.block[TopFrame[1]])
Cur      == module.block[TopFrame[1]][TopFrame[2]]
Arg(i)   == Cur.args[i]
Running(op) == status = "running" /\ ~ AtEnd /\ Cur.op = op

Counters == {"program", "install", "mvm", "requantize", "reduceAdd", "reduceMax", "bytes"}

Init ==
  /\ module \in Modules
  /\ status = "running" /\ frames = <<<<"func", 1>>>> /\ call = 0
  /\ memrefs = <<>> /\ heap = <<>> /\ index = <<>> /\ handles = <<>>
  /\ tiles = <<>> /\ isOpen = FALSE /\ live = {}
  /\ counts = [c \in Counters |-> 0] /\ printed = <<>>
-----------------------------------------------------------------------------
(* Memory *)

Bound(v)  == v \in DOMAIN memrefs
View(v)   == memrefs[v]
Bind(f, v, x) == [w \in DOMAIN f \cup {v} |-> IF w = v THEN x ELSE f[w]]

EvalIndex(v) == IF IsConst(v) THEN v[2] ELSE index[v]
CanEval(v)   == IsConst(v) \/ v \in DOMAIN index

\* Row-major strides of a fresh buffer.
IdentityStrides(sizes) ==
  [d \in DOMAIN sizes |-> NumElements(SubSeq(sizes, d + 1, Len(sizes)))]
FreshView(a, sizes) ==
  [alloc |-> a, offset |-> 0, sizes |-> sizes, strides |-> IdentityStrides(sizes)]

\* Where element i of a view is in its allocation.
ElemAt(v, i) ==
  LET unit == IdentityStrides(v.sizes)
      at[d \in 0 .. Len(v.sizes)] ==
        IF d = 0 THEN v.offset
        ELSE at[d - 1] + ((i \div unit[d]) % v.sizes[d]) * v.strides[d]
  IN  at[Len(v.sizes)]
Count(v)     == NumElements(v.sizes)
Places(v)    == [i \in 1 .. Count(v) |-> ElemAt(v, i - 1) + 1]
InBounds(v)  == \A i \in 1 .. Count(v) : ElemAt(v, i - 1) < Len(heap[v.alloc].elems)
OnDevice(v)  == heap[v.alloc].onDevice
Gather(v)    == [i \in 1 .. Count(v) |-> heap[v.alloc].elems[ElemAt(v, i - 1) + 1]]
Scatter(v, elems) ==
  LET places == Places(v) IN
    [heap EXCEPT ![v.alloc].elems =
       [e \in DOMAIN @ |-> IF e \in ToSet(places)
                           THEN elems[CHOOSE i \in DOMAIN places : places[i] = e]
                           ELSE @[e]]]
IsContiguousFromZero(v) == v.offset = 0 /\ v.strides = IdentityStrides(v.sizes)

NewAlloc   == CHOOSE a \in 1 .. Cardinality(DOMAIN heap) + 1 : a \notin DOMAIN heap
NewBuffer  == <<"heap", NewAlloc>>
Buffer(v)  == <<"heap", v.alloc>>
OwnBuffers == {<<"heap", a>> : a \in {b \in DOMAIN heap : heap[b].onDevice}}

\* Binding a value drops its old view: allocations without a view go away and
\* take their device buffer along.
Rebound(newMemrefs, newHeap, newLive) ==
  LET used == {newMemrefs[v].alloc : v \in DOMAIN newMemrefs}
      gone == DOMAIN newHeap \ used
  IN  /\ memrefs' = newMemrefs
      /\ heap' = [a \in DOMAIN newHeap \cap used |-> newHeap[a]]
      /\ live' = newLive \ {<<"heap", a>> : a \in gone}

\* Bind the result of the current op to a fresh allocation.
BindFresh(sizes, elems, onDevice, newLive) ==
  LET a == NewAlloc IN
    Rebound(Bind(memrefs, Cur.res, FreshView(a, sizes)),
            Bind(heap, a, [onDevice |-> onDevice, elems |-> elems]), newLive)
-----------------------------------------------------------------------------
(* The calls a handler makes.  uses: buffers it passes; alloc: the one it   *)
(* gets; held: what the handler frees when the call fails.                  *)

Alloc1(b, held) == [alloc |-> {b}, free |-> {}, uses |-> {}, held |-> held, fallible |-> TRUE]
Use(bs, held)   == [alloc |-> {}, free |-> {}, uses |-> bs, held |-> held, fallible |-> TRUE]
Free1(bs)       == [alloc |-> {}, free |-> bs, uses |-> bs, held |-> {}, fallible |-> FALSE]

\* gather and scatter call the runtime when the view is on the device.
Access(v, held) == IF OnDevice(v) THEN <<Use({Buffer(v)}, held)>> ELSE <<>>

ResultOnDevice  == IsDeviceSpace(Cur.type) /\ isOpen
ResultBuffers   == IF ResultOnDevice THEN {NewBuffer} ELSE {}
AllocResult(held) == IF ResultOnDevice THEN <<Alloc1(NewBuffer, held)>> ELSE <<>>
\* makeAllocation and scatter of a result.
WriteResult == AllocResult({}) \o
  (IF ResultOnDevice THEN <<Use({NewBuffer}, {NewBuffer})>> ELSE <<>>)

ProgramCalls ==
  LET s == <<"staging", 0>> IN
    Access(View(Arg(2)), {})
    \o <<Alloc1(s, {}), Use({s}, {s}), Use({s}, {s}), Free1({s})>>

MvmCalls ==
  LET act == <<"act", 0>>
      tmp == <<"tmp", 0>>
  IN  Access(View(Arg(2)), {})
      \o <<Alloc1(act, {}), Use({act}, {act})>>
      \o (IF ResultOnDevice
          THEN <<Alloc1(NewBuffer, {act}), Use({act, NewBuffer}, {act, NewBuffer})>>
          ELSE << Alloc1(tmp, {act}), Use({act, tmp}, {act, tmp}),
                  Use({tmp}, {act, tmp}), Free1({tmp}) >>)
      \o <<Free1({act})>>

Staged(n) == {<<"staged", i>> : i \in 1 .. n}
Sums(n)   == {<<"sum", i>> : i \in 2 .. n}
\* Mutant: the buffers staged so far are kept when the next cannot be allocated.
StageCallsKeepingOthers ==
  FlattenSeq([i \in DOMAIN Cur.args |->
     Access(View(Arg(i)), Staged(i - 1))
     \o <<Alloc1(<<"staged", i>>, {}), Use({<<"staged", i>>}, Staged(i))>>])

\* Each operand is copied to a buffer of its own.
StageCalls ==
  FlattenSeq([i \in DOMAIN Cur.args |->
     Access(View(Arg(i)), Staged(i - 1))
     \o <<Alloc1(<<"staged", i>>, Staged(i - 1)), Use({<<"staged", i>>}, Staged(i))>>])

\* Mutant: the accumulators so far are kept when one cannot be allocated.
FoldCallsKeepingSums(n) ==
  LET acc(i) == IF i = 2 THEN <<"staged", 1>> ELSE <<"sum", i - 1>> IN
    FlattenSeq([j \in 1 .. n - 1 |->
       << Alloc1(<<"sum", j + 1>>, Staged(n)),
          Use({<<"sum", j + 1>>, acc(j + 1), <<"staged", j + 1>>}, Staged(n) \cup Sums(j + 1)) >>])

\* Out of place, each pair goes to a fresh accumulator.
FoldCalls(n) ==
  LET acc(i) == IF i = 2 THEN <<"staged", 1>> ELSE <<"sum", i - 1>> IN
    FlattenSeq([j \in 1 .. n - 1 |->
       << Alloc1(<<"sum", j + 1>>, Staged(n) \cup Sums(j)),
          Use({<<"sum", j + 1>>, acc(j + 1), <<"staged", j + 1>>}, Staged(n) \cup Sums(j + 1)) >>])
FoldInPlaceCalls(n) ==
  [j \in 1 .. n - 1 |-> Use({<<"staged", 1>>, <<"staged", j + 1>>}, Staged(n))]

ReduceCalls(inPlace) ==
  LET n    == Len(Cur.args)
      held == IF inPlace THEN Staged(n) ELSE Staged(n) \cup Sums(n)
      last == IF inPlace \/ n = 1 THEN <<"staged", 1>> ELSE <<"sum", n>>
  IN  StageCalls
      \o <<Use({}, Staged(n))>>                      \* cimrt_query
      \o (IF inPlace THEN FoldInPlaceCalls(n) ELSE FoldCalls(n))
      \o <<Use({last}, held), Free1(held)>>
      \o WriteResult

RequantizeCalls ==
  LET in  == <<"in", 0>>
      out == <<"out", 0>>
  IN  Access(View(Arg(1)), {})
      \o << Alloc1(in, {}), Use({in}, {in}), Alloc1(out, {in}),
            Use({in, out}, {in, out}), Free1({in}), Use({out}, {out}), Free1({out}) >>
      \o WriteResult

CopyCalls ==
  AllocResult({}) \o Access(View(Arg(1)), ResultBuffers)
  \o (IF ResultOnDevice THEN <<Use({NewBuffer}, {NewBuffer})>> ELSE <<>>)

Calls ==
  CASE Cur.op = "program"    -> ProgramCalls
    [] Cur.op = "mvm"        -> MvmCalls
    [] Cur.op = "reduce"     -> ReduceCalls(Target.partialSumInPlace)
    [] Cur.op = "max"        -> ReduceCalls(Target.maxInPlace)
    [] Cur.op = "requantize" -> RequantizeCalls
    [] Cur.op = "copy"       -> CopyCalls
    [] Cur.op = "mcopy"      -> Access(View(Arg(1)), {}) \o Access(View(Arg(2)), {})
    [] Cur.op \in {"fill", "print"} -> Access(View(Arg(1)), {})
    [] Cur.op = "open"       -> IF isOpen THEN <<>> ELSE <<Use({}, {})>>
    [] Cur.op \in {"tile", "barrier"} -> <<Use({}, {})>>
    [] OTHER -> <<>>
-----------------------------------------------------------------------------
(* What a handler refuses: operands nothing was bound to, sizes that do not *)
(* match, and ops it does not know.                                         *)

Opened(v) == v \in DOMAIN handles
Readable(i) == Bound(Arg(i)) /\ InBounds(View(Arg(i)))
Fits(i)     == Count(View(Arg(i))) = NumElements(Cur.type.sizes)

\* Mutant: the tile id is checked against one tile too many.
TileIdOkOffByOne(id) == id <= Target.count

TileIdOk(id) == id < Target.count

\* Default: an op that is not known is never skipped silently.
KnownOps ==
  {"global", "alloc", "mcopy", "fill", "print", "open", "tile", "barrier", "program", "mvm",
   "requantize", "copy", "for", "dealloc"} \cup Views \cup Reductions
Supported ==
  /\ Cur.op \in KnownOps \/ (Cur.op = "loadstore" /\ module.native)
  /\ Cur.op = "alloc" => \A d \in DOMAIN Cur.type.sizes : Cur.type.sizes[d] >= 0
  /\ Cur.op \in Views => Bound(Arg(1))
  /\ Cur.op = "reshape" => IsContiguousFromZero(View(Arg(1))) /\ Fits(1)
  /\ Cur.op = "subview" =>
       /\ Len(Cur.attr.offsets) = Len(View(Arg(1)).sizes)
       /\ \A d \in DOMAIN Cur.attr.offsets : CanEval(Cur.attr.offsets[d])
  /\ Cur.op \in {"mcopy", "fill", "print", "requantize", "copy"} => Readable(1)
  /\ Cur.op \in {"mcopy", "program", "mvm"} => Readable(2)
  /\ Cur.op \in {"tile", "barrier", "program", "mvm"} => Opened(Arg(1))
  /\ Cur.op = "tile" => TileIdOk(Cur.attr)
  /\ Cur.op \in {"requantize", "copy"} => Fits(1)
  /\ Cur.op \in Reductions => \A i \in DOMAIN Cur.args : Readable(i) /\ Fits(i)
  /\ Cur.op \in Reductions \cup {"requantize"} => isOpen
  /\ Cur.op = "for" => \A i \in 1 .. 3 : CanEval(Arg(i)) /\ EvalIndex(Arg(3)) > 0

Refuse ==
  /\ status = "running" /\ ~ AtEnd /\ call = 0
  /\ ~ Supported
  /\ status' = "refused"
  /\ UNCHANGED <<module, frames, call, live, data>>
-----------------------------------------------------------------------------
(* One call: it succeeds, or the handler frees what it holds and gives up.  *)

Executing == status = "running" /\ ~ AtEnd /\ Supported
NextCall  == Calls[call + 1]

CallSucceeds ==
  /\ Executing /\ call < Len(Calls)
  /\ call' = call + 1
  /\ live' = (live \cup NextCall.alloc) \ NextCall.free
  /\ UNCHANGED <<module, status, frames, data>>

CallFails ==
  /\ Executing /\ call < Len(Calls)
  /\ NextCall.fallible
  /\ status' = "failed"
  /\ live' = live \ NextCall.held
  /\ UNCHANGED <<module, frames, call, data>>
-----------------------------------------------------------------------------
(* What each handler does once its calls have succeeded.                    *)

Zeros(sizes) == [i \in 1 .. NumElements(sizes) |-> <<>>]
Completes(op) == Executing /\ Cur.op = op /\ call = Len(Calls)
Advance == /\ frames' = [frames EXCEPT ![Len(frames)] = <<@[1], @[2] + 1>>]
           /\ call' = 0
           /\ UNCHANGED <<module, status>>
KeepMemory == UNCHANGED <<memrefs, heap, live>>
KeepDevice == UNCHANGED <<handles, tiles, isOpen>>
Counted(c, n) == counts' = [counts EXCEPT ![c] = @ + n]

RunGetGlobal ==
  /\ Completes("global") /\ Advance
  /\ BindFresh(Cur.type.sizes, Cur.attr, FALSE, live)
  /\ KeepDevice /\ UNCHANGED <<index, counts, printed>>

RunAlloc ==
  /\ Completes("alloc") /\ Advance
  /\ BindFresh(Cur.type.sizes, Zeros(Cur.type.sizes), FALSE, live)
  /\ KeepDevice /\ UNCHANGED <<index, counts, printed>>

SubViewOf(v, attr) ==
  LET kept == SelectSeq([d \in DOMAIN attr.sizes |-> d], LAMBDA d : d \notin attr.dropped)
      upTo[d \in 0 .. Len(attr.sizes)] ==
        IF d = 0 THEN v.offset ELSE upTo[d - 1] + EvalIndex(attr.offsets[d]) * v.strides[d]
  IN  [alloc   |-> v.alloc,
       offset  |-> upTo[Len(attr.sizes)],
       sizes   |-> [j \in DOMAIN kept |-> attr.sizes[kept[j]]],
       strides |-> [j \in DOMAIN kept |-> v.strides[kept[j]] * attr.strides[kept[j]]]]

\* memref.cast, expand_shape, collapse_shape and subview share the allocation.
RunView ==
  /\ \E op \in Views : Completes(op)
  /\ Advance
  /\ LET src == View(Arg(1)) IN
       Rebound(Bind(memrefs, Cur.res,
                    CASE Cur.op = "cast"    -> src
                      [] Cur.op = "reshape" -> FreshView(src.alloc, Cur.type.sizes)
                      [] Cur.op = "subview" -> SubViewOf(src, Cur.attr)),
               heap, live)
  /\ KeepDevice /\ UNCHANGED <<index, counts, printed>>

RunMemRefCopy ==
  /\ Completes("mcopy") /\ Advance
  /\ heap' = Scatter(View(Arg(2)), Gather(View(Arg(1))))
  /\ KeepDevice /\ UNCHANGED <<memrefs, live, index, counts, printed>>

RunLinalgFill ==
  /\ Completes("fill") /\ Advance
  /\ heap' = Scatter(View(Arg(1)), Zeros(View(Arg(1)).sizes))
  /\ KeepDevice /\ UNCHANGED <<memrefs, live, index, counts, printed>>

RunCall ==
  /\ Completes("print") /\ Advance
  /\ printed' = Append(printed, Gather(View(Arg(1))))
  /\ KeepMemory /\ KeepDevice /\ UNCHANGED <<index, counts>>

RunDeviceOpen ==
  /\ Completes("open") /\ Advance
  /\ isOpen' = TRUE /\ handles' = Bind(handles, Cur.res, 0)
  /\ KeepMemory /\ UNCHANGED <<tiles, index, counts, printed>>

RunTileAlloc ==
  /\ Completes("tile") /\ Advance
  /\ handles' = Bind(handles, Cur.res, Cur.attr)
  /\ KeepMemory /\ UNCHANGED <<tiles, isOpen, index, counts, printed>>

\* A resident is only the number of its tile.
RunProgram ==
  /\ Completes("program") /\ Advance
  /\ tiles' = Bind(tiles, handles[Arg(1)], Gather(View(Arg(2))))
  /\ handles' = Bind(handles, Cur.res, handles[Arg(1)])
  /\ counts' = [counts EXCEPT !["program"] = @ + 1,
                              !["install"] = @ + (IF Len(frames) = 1 THEN 1 ELSE 0)]
  /\ KeepMemory /\ UNCHANGED <<isOpen, index, printed>>

Product(w, a) == IF w = <<>> \/ a = <<>> THEN <<>> ELSE <<<<"product", w, a>>>>
MatVec(w, a, rows) ==
  [r \in 1 .. rows |->
     FlattenSeq([c \in DOMAIN a |-> Product(w[(r - 1) * Len(a) + c], a[c])])]

RunMvm ==
  /\ Completes("mvm") /\ Advance
  /\ BindFresh(Cur.type.sizes,
               MatVec(tiles[handles[Arg(1)]], Gather(View(Arg(2))), Cur.type.sizes[1]),
               ResultOnDevice, live)
  /\ Counted("mvm", 1)
  /\ KeepDevice /\ UNCHANGED <<index, printed>>

Operands == [i \in DOMAIN Cur.args |-> Gather(View(Arg(i)))]
RunReducePartial ==
  /\ Completes("reduce") /\ Advance
  /\ BindFresh(Cur.type.sizes,
               [e \in 1 .. NumElements(Cur.type.sizes) |->
                  FlattenSeq([i \in DOMAIN Operands |-> Operands[i][e]])],
               ResultOnDevice, live)
  /\ Counted("reduceAdd", Len(Cur.args) - 1)
  /\ KeepDevice /\ UNCHANGED <<index, printed>>

RunReduceMax ==
  /\ Completes("max") /\ Advance
  /\ BindFresh(Cur.type.sizes,
               [e \in 1 .. NumElements(Cur.type.sizes) |->
                  <<<<"max", [i \in DOMAIN Operands |-> Operands[i][e]]>>>>],
               ResultOnDevice, live)
  /\ Counted("reduceMax", Len(Cur.args) - 1)
  /\ KeepDevice /\ UNCHANGED <<index, printed>>

RunCimCopy ==
  /\ Completes("copy") /\ Advance
  /\ BindFresh(Cur.type.sizes, Gather(View(Arg(1))), ResultOnDevice, live)
  /\ Counted("bytes", IF OnDevice(View(Arg(1))) \/ ResultOnDevice
                      THEN Count(View(Arg(1))) * ElemBytes(Cur.type.elem) ELSE 0)
  /\ KeepDevice /\ UNCHANGED <<index, printed>>

RunRequantize ==
  /\ Completes("requantize") /\ Advance
  /\ LET in == Gather(View(Arg(1))) IN
       BindFresh(Cur.type.sizes, [e \in DOMAIN in |-> <<<<"clamp", in[e]>>>>],
                 ResultOnDevice, live)
  /\ Counted("requantize", 1)
  /\ KeepDevice /\ UNCHANGED <<index, printed>>

\* memref.dealloc, cim.barrier: nothing to do, the runtime is synchronous.
RunNothing ==
  /\ Completes("dealloc") \/ Completes("barrier")
  /\ Advance /\ UNCHANGED <<live, data>>

\* The ops that only another host knows.
RunLoadStore ==
  /\ Completes("loadstore") /\ Advance
  /\ LET src == View(Arg(1))
         dst == View(Arg(2))
         i   == EvalIndex(Arg(3))
         j   == EvalIndex(Arg(4))
     IN  heap' = [heap EXCEPT ![dst.alloc].elems[i * dst.strides[1] + j * dst.strides[2] + 1] =
                    heap[src.alloc].elems[j * src.strides[1] + i * src.strides[2] + 1]]
  /\ KeepDevice /\ UNCHANGED <<memrefs, live, index, counts, printed>>
-----------------------------------------------------------------------------
(* Blocks and loops *)

RunsAgain(i, ub) == i < ub

EnterLoop ==
  /\ Executing /\ Cur.op = "for" /\ RunsAgain(EvalIndex(Arg(1)), EvalIndex(Arg(2)))
  /\ index' = Bind(index, Cur.res, EvalIndex(Arg(1)))
  /\ frames' = Append(frames, <<Cur.attr, 1>>)
  /\ UNCHANGED <<module, status, call, live, memrefs, heap, handles, tiles, isOpen, counts, printed>>

SkipLoop ==
  /\ Executing /\ Cur.op = "for" /\ ~ RunsAgain(EvalIndex(Arg(1)), EvalIndex(Arg(2)))
  /\ Advance /\ UNCHANGED <<live, data>>

Loop == LET f == frames[Len(frames) - 1] IN module.block[f[1]][f[2]]
EndBody ==
  /\ status = "running" /\ AtEnd /\ Len(frames) > 1
  /\ LET i    == index[Loop.res] + EvalIndex(Loop.args[3])
         last == Len(frames) - 1
     IN  IF RunsAgain(i, EvalIndex(Loop.args[2]))
         THEN /\ index' = [index EXCEPT ![Loop.res] = i]
              /\ frames' = [frames EXCEPT ![last + 1] = <<@[1], 1>>]
         ELSE /\ index' = [v \in DOMAIN index \ {Loop.res} |-> index[v]]
              /\ frames' = [SubSeq(frames, 1, last) EXCEPT ![last] = <<@[1], @[2] + 1>>]
  /\ UNCHANGED <<module, status, call, live, memrefs, heap, handles, tiles, isOpen, counts, printed>>

Finish ==
  /\ status = "running" /\ AtEnd /\ Len(frames) = 1
  /\ status' = "done"
  /\ UNCHANGED <<module, frames, call, live, data>>

\* ~Interpreter closes the device, then its members release the allocations.
Teardown ==
  /\ status \in {"done", "failed", "refused"}
  /\ status' = "closed" /\ isOpen' = FALSE
  /\ live' = live \ OwnBuffers
  /\ memrefs' = <<>> /\ heap' = <<>>
  /\ UNCHANGED <<module, frames, call, index, handles, tiles, counts, printed>>

Progress ==
  \/ Refuse \/ CallSucceeds
  \/ RunGetGlobal \/ RunAlloc \/ RunView \/ RunMemRefCopy \/ RunLinalgFill \/ RunCall
  \/ RunDeviceOpen \/ RunTileAlloc \/ RunProgram \/ RunMvm \/ RunReducePartial
  \/ RunReduceMax \/ RunCimCopy \/ RunRequantize \/ RunNothing \/ RunLoadStore
  \/ EnterLoop \/ SkipLoop \/ EndBody \/ Finish \/ Teardown
Next == Progress \/ CallFails

\* A handler that has been called returns.
Spec == Init /\ [][Next]_vars /\ WF_vars(Progress)
-----------------------------------------------------------------------------

\* Type correctness; no tile is programmed that the target does not have.
TypeOK ==
  /\ status \in {"running", "done", "failed", "refused", "closed"}
  /\ call \in Nat
  /\ \A v \in DOMAIN memrefs :
       /\ memrefs[v].alloc \in DOMAIN heap
       /\ DOMAIN memrefs[v].sizes = DOMAIN memrefs[v].strides
  /\ \A v \in DOMAIN handles : handles[v] \in 0 .. Target.count - 1
  /\ DOMAIN tiles \subseteq 0 .. Target.count - 1
  /\ isOpen \in BOOLEAN
  /\ DOMAIN counts = Counters

\* The runtime's buffers are accounted for (the destructor of Allocation, "Freed
\* on every exit path" in stageReduction): a call is given, frees and on failure
\* gives back only buffers that exist, and between two ops, after a failure and
\* at the end, what exists is what the bound values own.
BuffersBalance ==
  /\ status = "running" /\ ~ AtEnd /\ Supported /\ call < Len(Calls) =>
       /\ NextCall.uses \cup NextCall.free \cup NextCall.held \subseteq live
       /\ NextCall.alloc \cap live = {}
  /\ call = 0 \/ status # "running" => live = OwnBuffers

\* However a run ends, and wherever it fails, the device is closed and all
\* that was allocated is freed.
EverythingReleased == <>(status = "closed" /\ live = {})
=============================================================================
