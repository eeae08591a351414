------------------------- MODULE InterpreterProofs --------------------------
(***************************************************************************)
(* Type correctness of the interpreter, whatever module it runs: a bound   *)
(* view always has its allocation, a handle always names a tile of the     *)
(* target.  The invariant adds where the run is: each frame is in a block  *)
(* of the module, so the current op is one of the module's.                *)
(*                                                                         *)
(* And the balance of the runtime's buffers.  Each handler's calls are     *)
(* shown to have a ledger, what the handler has after each call, and the   *)
(* ledgers of calls in a row are put together; the invariant says that     *)
(* what exists is what the bound values own and the ledger's entry.        *)
(***************************************************************************)
EXTENDS Interpreter, FiniteSetTheorems, TLAPS

\* Its lemmas on induction are cited, in which NoWeight does not occur.
Induction == INSTANCE SchedulesProofs WITH NoWeight <- 0

\* FlattenSeq is the same operator there and here.
LEMMA SameFlatten == \A seqs : Induction!FlattenSeq(seqs) = FlattenSeq(seqs)
BY DEF FlattenSeq, Induction!FlattenSeq

ViewsOf(views, allocs) ==
  \A v \in DOMAIN views :
    views[v].alloc \in allocs /\ DOMAIN views[v].sizes = DOMAIN views[v].strides

FramesInModule ==
  /\ frames \in Seq((DOMAIN module.block) \X (Nat \ {0}))
  /\ frames # <<>>

IInv == TypeOK /\ module \in Modules /\ FramesInModule

\* The op that is due is an op of the module.
CurInModule ==
  /\ Cur.op = "for"  => Cur.attr \in DOMAIN module.block
  /\ Cur.op = "tile" => Cur.attr \in Nat
  /\ Cur.args \in Seq(ToSet(Cur.args))
  /\ Cur.op \in Reductions => Cur.args # <<>>
-----------------------------------------------------------------------------
\* Binding a value keeps views well-formed.
LEMMA BindView ==
  ASSUME NEW views, NEW allocs, NEW more, ViewsOf(views, allocs), allocs \subseteq more,
         NEW v, NEW x, x.alloc \in more, DOMAIN x.sizes = DOMAIN x.strides
  PROVE  ViewsOf(Bind(views, v, x), more)
BY DEF ViewsOf, Bind

\* Dropping allocations keeps those that a view refers to.
LEMMA ReboundViews ==
  ASSUME NEW views, NEW allocations, NEW buffers,
         ViewsOf(views, DOMAIN allocations), Rebound(views, allocations, buffers)
  PROVE  ViewsOf(memrefs', DOMAIN heap')
<1> DEFINE used == {views[v].alloc : v \in DOMAIN views}
<1>1. memrefs' = views /\ DOMAIN heap' = DOMAIN allocations \cap used
  BY DEF Rebound
<1> QED BY <1>1 DEF ViewsOf

\* A fresh result is bound to an allocation of its own.
LEMMA BindFreshViews ==
  ASSUME NEW sizes, NEW elems, NEW onDevice, NEW buffers,
         ViewsOf(memrefs, DOMAIN heap), BindFresh(sizes, elems, onDevice, buffers)
  PROVE  ViewsOf(memrefs', DOMAIN heap')
<1> DEFINE a == NewAlloc
           views == Bind(memrefs, Cur.res, FreshView(a, sizes))
           allocations == Bind(heap, a, [onDevice |-> onDevice, elems |-> elems])
<1>1. DOMAIN allocations = DOMAIN heap \cup {a}
  BY DEF Bind
<1>2. FreshView(a, sizes).alloc \in DOMAIN allocations
  BY <1>1 DEF FreshView
<1>3. DOMAIN FreshView(a, sizes).sizes = DOMAIN FreshView(a, sizes).strides
  BY DEF FreshView, IdentityStrides
<1>4. ViewsOf(views, DOMAIN allocations)
  <2> HIDE DEF a, allocations
  <2> QED BY <1>1, <1>2, <1>3, BindView
<1>5. Rebound(views, allocations, buffers)
  BY DEF BindFresh
<1> HIDE DEF views, allocations
<1> QED BY <1>4, <1>5, ReboundViews

\* The top frame is in a block of the module.
LEMMA TopFrameInModule ==
  ASSUME IInv
  PROVE  /\ Len(frames) \in Nat \ {0}
         /\ TopFrame[1] \in DOMAIN module.block
         /\ TopFrame[2] \in Nat \ {0}
<1>1. Len(frames) \in Nat \ {0} /\ Len(frames) \in DOMAIN frames
  BY DEF IInv, FramesInModule
<1>2. TopFrame \in (DOMAIN module.block) \X (Nat \ {0})
  BY <1>1 DEF IInv, FramesInModule, TopFrame
<1>3. \A A, B : \A pair \in A \X B : pair[1] \in A /\ pair[2] \in B
  OBVIOUS
<1>4. TopFrame[1] \in DOMAIN module.block /\ TopFrame[2] \in Nat \ {0}
  BY ONLY <1>2, <1>3
<1> QED BY <1>1, <1>4

\* Unless the block is at its end, there is an op to do.
LEMMA CurrentOp ==
  ASSUME IInv, ~ AtEnd
  PROVE  CurInModule
<1> DEFINE b == TopFrame[1]
           i == TopFrame[2]
<1>1. b \in DOMAIN module.block /\ i \in Nat \ {0}
  BY TopFrameInModule
<1>2. IsModule(module)
  BY ModulesAssumption DEF IInv
<1>3. module.block[b] \in Seq(ToSet(module.block[b]))
  BY <1>1, <1>2 DEF IsModule
<1>4. i \in DOMAIN module.block[b]
  BY <1>1, <1>3 DEF AtEnd
<1>5. LET op == module.block[b][i] IN
        /\ op.op = "for"  => op.attr \in DOMAIN module.block
        /\ op.op = "tile" => op.attr \in Nat
        /\ op.args \in Seq(ToSet(op.args))
        /\ op.op \in Reductions => op.args # <<>>
  BY <1>1, <1>2, <1>4 DEF IsModule
<1> QED BY <1>5 DEF CurInModule, Cur

\* Going on to the next op stays in the block.
LEMMA AdvanceFrames ==
  ASSUME IInv, Advance
  PROVE  /\ frames' \in Seq((DOMAIN module.block) \X (Nat \ {0})) /\ frames' # <<>>
         /\ call' = 0 /\ module' = module /\ status' = status
<1> DEFINE S == (DOMAIN module.block) \X (Nat \ {0})
           n == Len(frames)
<1>1. n \in Nat \ {0} /\ frames \in Seq(S)
  BY TopFrameInModule DEF IInv, FramesInModule
<1>2. frames[n][1] \in DOMAIN module.block /\ frames[n][2] \in Nat \ {0}
  BY TopFrameInModule DEF TopFrame
<1>3. <<frames[n][1], frames[n][2] + 1>> \in S
  <2>1. frames[n][2] + 1 \in Nat \ {0}
    BY <1>2
  <2> QED BY <1>2, <2>1
<1>3a. frames' = [frames EXCEPT ![n] = <<frames[n][1], frames[n][2] + 1>>]
  BY DEF Advance
<1> HIDE DEF S
<1>4. frames' \in Seq(S) /\ Len(frames') = Len(frames)
  BY <1>1, <1>3, <1>3a
<1>5. frames' # <<>>
  BY <1>1, <1>4
<1> QED BY <1>4, <1>5 DEF S, Advance

HandlesInTarget == \A v \in DOMAIN handles : handles[v] \in 0 .. Target.count - 1
TilesInTarget   == DOMAIN tiles \subseteq 0 .. Target.count - 1

\* What a handler that goes on to the next op still has to show.
LEMMA HandlerStep ==
  ASSUME IInv, Advance, ViewsOf(memrefs', DOMAIN heap'), HandlesInTarget', TilesInTarget',
         isOpen' \in BOOLEAN, DOMAIN counts' = Counters
  PROVE  IInv'
<1>1. /\ frames' \in Seq((DOMAIN module.block) \X (Nat \ {0})) /\ frames' # <<>>
      /\ call' = 0 /\ module' = module /\ status' = status
  BY AdvanceFrames
<1>2. FramesInModule' /\ module' \in Modules
  BY <1>1 DEF FramesInModule, IInv
<1>3. TypeOK'
  BY <1>1 DEF TypeOK, IInv, ViewsOf, HandlesInTarget, TilesInTarget
<1> QED BY <1>2, <1>3 DEF IInv

\* The parts of the invariant, by name.
LEMMA Parts ==
  ASSUME IInv
  PROVE  /\ ViewsOf(memrefs, DOMAIN heap) /\ HandlesInTarget /\ TilesInTarget
         /\ isOpen \in BOOLEAN /\ DOMAIN counts = Counters
BY DEF IInv, TypeOK, ViewsOf, HandlesInTarget, TilesInTarget

\* A target has a tile: 0, the number of the device, is in range.
LEMMA TargetHasTiles ==
  ASSUME IInv
  PROVE  Target.count \in Nat \ {0}
BY ModulesAssumption DEF IInv, IsModule, Target

\* Handlers that write into memory change no view.
LEMMA ScatterKeepsViews ==
  ASSUME NEW v, NEW elems, ViewsOf(memrefs, DOMAIN heap),
         heap' = Scatter(v, elems), memrefs' = memrefs
  PROVE  ViewsOf(memrefs', DOMAIN heap')
<1>1. DOMAIN heap' = DOMAIN heap
  BY DEF Scatter
<1> QED BY <1>1

\* A bound operand's view is well-formed.
LEMMA BoundView ==
  ASSUME NEW v, ViewsOf(memrefs, DOMAIN heap), Bound(v)
  PROVE  /\ View(v).alloc \in DOMAIN heap
         /\ DOMAIN View(v).sizes = DOMAIN View(v).strides
BY DEF ViewsOf, Bound, View

\* A handler whose result is a fresh allocation.
LEMMA FreshStep ==
  ASSUME IInv, Advance, NEW sizes, NEW elems, NEW onDevice,
         BindFresh(sizes, elems, onDevice, live), KeepDevice, DOMAIN counts' = Counters
  PROVE  IInv'
<1>1. ViewsOf(memrefs', DOMAIN heap')
  BY BindFreshViews, Parts
<1>2. module' = module
  BY AdvanceFrames
<1>3. HandlesInTarget' /\ TilesInTarget' /\ isOpen' \in BOOLEAN
  BY Parts, <1>2 DEF KeepDevice, HandlesInTarget, TilesInTarget, Target
<1> QED BY <1>1, <1>3, HandlerStep

\* A handler that changes no view and no handle.
LEMMA QuietStep ==
  ASSUME IInv, Advance, ViewsOf(memrefs', DOMAIN heap'), KeepDevice, UNCHANGED counts
  PROVE  IInv'
<1>1. module' = module
  BY AdvanceFrames
<1>2. HandlesInTarget' /\ TilesInTarget' /\ isOpen' \in BOOLEAN /\ DOMAIN counts' = Counters
  BY Parts, <1>1 DEF KeepDevice, HandlesInTarget, TilesInTarget, Target
<1> QED BY <1>2, HandlerStep

\* A view shares the allocation of its source.
LEMMA ViewStep ==
  ASSUME IInv, RunView
  PROVE  IInv'
<1> DEFINE src == View(Arg(1))
           made == CASE Cur.op = "cast"    -> src
                     [] Cur.op = "reshape" -> FreshView(src.alloc, Cur.type.sizes)
                     [] Cur.op = "subview" -> SubViewOf(src, Cur.attr)
           views == Bind(memrefs, Cur.res, made)
<1>1. Cur.op \in Views /\ Supported /\ Advance
  BY DEF RunView, Completes, Executing
<1>2. Bound(Arg(1))
  BY <1>1 DEF Supported
<1>3. src.alloc \in DOMAIN heap /\ DOMAIN src.sizes = DOMAIN src.strides
  BY <1>2, BoundView, Parts
<1>4. made.alloc \in DOMAIN heap /\ DOMAIN made.sizes = DOMAIN made.strides
  <2>1. CASE Cur.op = "cast"
    BY <1>3, <2>1
  <2>2. CASE Cur.op = "reshape"
    BY <1>3, <2>2 DEF FreshView, IdentityStrides
  <2>3. CASE Cur.op = "subview"
    BY <1>3, <2>3 DEF SubViewOf
  <2> QED BY <1>1, <2>1, <2>2, <2>3 DEF Views
<1>5. Rebound(views, heap, live)
  BY DEF RunView
<1>6. KeepDevice /\ UNCHANGED counts
  BY DEF RunView
<1> HIDE DEF made
<1>7. ViewsOf(views, DOMAIN heap)
  BY <1>4, BindView, Parts
<1> HIDE DEF views
<1>8. ViewsOf(memrefs', DOMAIN heap')
  BY <1>5, <1>7, ReboundViews
<1> QED BY <1>1, <1>6, <1>8, QuietStep

\* Handlers that bind a handle: to the device, or to a tile of the target.
LEMMA HandleStep ==
  ASSUME IInv, RunDeviceOpen \/ RunTileAlloc
  PROVE  IInv'
<1>1. Advance /\ Supported /\ ~ AtEnd /\ KeepMemory /\ UNCHANGED <<tiles, counts>>
  BY DEF RunDeviceOpen, RunTileAlloc, Completes, Executing
<1>2. module' = module
  BY <1>1, AdvanceFrames
<1>3. PICK n \in 0 .. Target.count - 1 : handles' = Bind(handles, Cur.res, n)
  <2>1. CASE RunDeviceOpen
    BY <2>1, TargetHasTiles DEF RunDeviceOpen
  <2>2. CASE RunTileAlloc
    <3>1. Cur.op = "tile" /\ handles' = Bind(handles, Cur.res, Cur.attr)
      BY <2>2 DEF RunTileAlloc, Completes
    <3>2. Cur.attr \in Nat
      BY <1>1, <3>1, CurrentOp DEF CurInModule
    <3>3. Cur.attr < Target.count
      BY <1>1, <3>1 DEF Supported, TileIdOk
    <3> QED BY <3>1, <3>2, <3>3, TargetHasTiles
  <2> QED BY <2>1, <2>2
<1>4. HandlesInTarget' /\ TilesInTarget'
  BY <1>1, <1>2, <1>3, Parts DEF HandlesInTarget, TilesInTarget, Target, Bind
<1>5. ViewsOf(memrefs', DOMAIN heap') /\ DOMAIN counts' = Counters
  BY <1>1, Parts DEF KeepMemory
<1>6. isOpen' \in BOOLEAN
  BY Parts DEF RunDeviceOpen, RunTileAlloc
<1> QED BY <1>1, <1>4, <1>5, <1>6, HandlerStep

\* cim.program programs the tile that its handle names.
LEMMA ProgramStep ==
  ASSUME IInv, RunProgram
  PROVE  IInv'
<1>1. Advance /\ Supported /\ Cur.op = "program" /\ KeepMemory /\ UNCHANGED isOpen
  BY DEF RunProgram, Completes, Executing
<1>2. module' = module
  BY <1>1, AdvanceFrames
<1>3. handles[Arg(1)] \in 0 .. Target.count - 1
  BY <1>1, Parts DEF Supported, Opened, HandlesInTarget
<1>4. HandlesInTarget' /\ TilesInTarget'
  <2>1. handles' = Bind(handles, Cur.res, handles[Arg(1)])
    BY DEF RunProgram
  <2>2. DOMAIN tiles' = DOMAIN tiles \cup {handles[Arg(1)]}
    BY DEF RunProgram, Bind
  <2> QED BY <1>2, <1>3, <2>1, <2>2, Parts DEF HandlesInTarget, TilesInTarget, Target, Bind
<1>5. ViewsOf(memrefs', DOMAIN heap') /\ isOpen' \in BOOLEAN
  BY <1>1, Parts DEF KeepMemory
<1>6. DOMAIN counts' = Counters
  BY Parts DEF RunProgram
<1> QED BY <1>1, <1>4, <1>5, <1>6, HandlerStep

\* Handlers with a fresh result.
LEMMA FreshHandlers ==
  ASSUME IInv, RunGetGlobal \/ RunAlloc \/ RunMvm \/ RunReducePartial \/ RunReduceMax
               \/ RunCimCopy \/ RunRequantize
  PROVE  IInv'
<1>1. CASE RunGetGlobal
  BY <1>1, FreshStep, Parts DEF RunGetGlobal
<1>2. CASE RunAlloc
  BY <1>2, FreshStep, Parts DEF RunAlloc
<1>3. CASE RunMvm
  <2>1. DOMAIN counts' = Counters
    BY <1>3, Parts DEF RunMvm, Counted
  <2> QED BY <1>3, <2>1, FreshStep DEF RunMvm
<1>4. CASE RunReducePartial
  <2>1. DOMAIN counts' = Counters
    BY <1>4, Parts DEF RunReducePartial, Counted
  <2> QED BY <1>4, <2>1, FreshStep DEF RunReducePartial
<1>5. CASE RunReduceMax
  <2>1. DOMAIN counts' = Counters
    BY <1>5, Parts DEF RunReduceMax, Counted
  <2> QED BY <1>5, <2>1, FreshStep DEF RunReduceMax
<1>6. CASE RunCimCopy
  <2>1. DOMAIN counts' = Counters
    BY <1>6, Parts DEF RunCimCopy, Counted
  <2> QED BY <1>6, <2>1, FreshStep DEF RunCimCopy
<1>7. CASE RunRequantize
  <2>1. DOMAIN counts' = Counters
    BY <1>7, Parts DEF RunRequantize, Counted
  <2> QED BY <1>7, <2>1, FreshStep DEF RunRequantize
<1> QED BY <1>1, <1>2, <1>3, <1>4, <1>5, <1>6, <1>7

\* Handlers that write into memory or do nothing to it.
LEMMA QuietHandlers ==
  ASSUME IInv, RunMemRefCopy \/ RunLinalgFill \/ RunCall \/ RunNothing \/ RunLoadStore \/ SkipLoop
  PROVE  IInv'
<1>1. ViewsOf(memrefs, DOMAIN heap)
  BY Parts
<1>2. CASE RunMemRefCopy
  BY <1>1, <1>2, ScatterKeepsViews, QuietStep DEF RunMemRefCopy
<1>3. CASE RunLinalgFill
  BY <1>1, <1>3, ScatterKeepsViews, QuietStep DEF RunLinalgFill
<1>4. CASE RunCall
  BY <1>1, <1>4, QuietStep DEF RunCall, KeepMemory
<1>5. CASE RunNothing
  BY <1>1, <1>5, QuietStep DEF RunNothing, KeepDevice, data
<1>6. CASE RunLoadStore
  <2>1. DOMAIN heap' = DOMAIN heap /\ memrefs' = memrefs
    BY <1>6 DEF RunLoadStore
  <2> QED BY <1>1, <1>6, <2>1, QuietStep DEF RunLoadStore
<1>7. CASE SkipLoop
  BY <1>1, <1>7, QuietStep DEF SkipLoop, KeepDevice, data
<1> QED BY <1>2, <1>3, <1>4, <1>5, <1>6, <1>7

\* Steps that neither bind nor move on: a call, a refusal, the end.
LEMMA StayStep ==
  ASSUME IInv, UNCHANGED <<module, frames, memrefs, heap, handles, tiles, isOpen, counts>>,
         status' \in {"running", "done", "failed", "refused"} \/ UNCHANGED status,
         call' = call \/ call' = call + 1
  PROVE  IInv'
<1>1. call' \in Nat /\ status' \in {"running", "done", "failed", "refused", "closed"}
  BY DEF IInv, TypeOK
<1>2. TypeOK'
  BY <1>1 DEF IInv, TypeOK, Target
<1> QED BY <1>2 DEF IInv, FramesInModule

\* A loop's body is a block of the module; its end returns to the block around.
LEMMA LoopStep ==
  ASSUME IInv, EnterLoop \/ EndBody
  PROVE  IInv'
<1> DEFINE S == (DOMAIN module.block) \X (Nat \ {0})
           n == Len(frames)
<1>1. UNCHANGED <<module, status, call, memrefs, heap, handles, tiles, isOpen, counts>>
  BY DEF EnterLoop, EndBody
<1>2. n \in Nat \ {0} /\ frames \in Seq(S)
  BY TopFrameInModule DEF IInv, FramesInModule
<1>3. frames' \in Seq(S) /\ frames' # <<>>
  <2>1. CASE EnterLoop
    <3>1. Cur.attr \in DOMAIN module.block
      BY <2>1, CurrentOp DEF EnterLoop, Executing, CurInModule
    <3>2. <<Cur.attr, 1>> \in S /\ frames' = Append(frames, <<Cur.attr, 1>>)
      BY <2>1, <3>1 DEF EnterLoop
    <3> HIDE DEF S
    <3> QED BY <1>2, <3>2
  <2>2. CASE EndBody /\ frames' = [frames EXCEPT ![n] = <<frames[n][1], 1>>]
    <3>1. <<frames[n][1], 1>> \in S
      BY TopFrameInModule DEF TopFrame
    <3> HIDE DEF S
    <3> QED BY <1>2, <2>2, <3>1
  <2>3. CASE EndBody /\ frames' = [SubSeq(frames, 1, n - 1) EXCEPT
                                   ![n - 1] = <<frames[n - 1][1], frames[n - 1][2] + 1>>]
    <3>1. n - 1 \in 1 .. n
      BY <1>2, <2>3 DEF EndBody
    <3>2. frames[n - 1] \in S
      BY <1>2, <3>1
    <3>3. \A pair \in S : <<pair[1], pair[2] + 1>> \in S
      OBVIOUS
    <3>4. <<frames[n - 1][1], frames[n - 1][2] + 1>> \in S
      BY <3>2, <3>3
    <3> HIDE DEF S
    <3>5. SubSeq(frames, 1, n - 1) \in Seq(S) /\ Len(SubSeq(frames, 1, n - 1)) = n - 1
      BY <1>2, <3>1
    <3>6. n - 1 \in 1 .. Len(SubSeq(frames, 1, n - 1))
      BY <1>2, <2>3, <3>5 DEF EndBody
    <3>7. \A s \in Seq(S) : \A k \in 1 .. Len(s) : \A x \in S :
            [s EXCEPT ![k] = x] \in Seq(S) /\ Len([s EXCEPT ![k] = x]) = Len(s)
      OBVIOUS
    <3>8. frames' \in Seq(S) /\ Len(frames') = n - 1
      BY <2>3, <3>4, <3>5, <3>6, <3>7
    <3>9. Len(<<>>) = 0 /\ n - 1 # 0
      BY <1>2, <2>3 DEF EndBody
    <3> QED BY <3>8, <3>9
  <2>4. EndBody => \/ frames' = [frames EXCEPT ![n] = <<frames[n][1], 1>>]
                   \/ frames' = [SubSeq(frames, 1, n - 1) EXCEPT
                                 ![n - 1] = <<frames[n - 1][1], frames[n - 1][2] + 1>>]
    <3>1. SUFFICES ASSUME EndBody,
                          frames' # [frames EXCEPT ![n] = <<frames[n][1], 1>>]
                   PROVE  frames' = [SubSeq(frames, 1, n - 1) EXCEPT
                                       ![n - 1] = <<frames[n - 1][1], frames[n - 1][2] + 1>>]
      OBVIOUS
    <3>2. n - 1 + 1 = n /\ n - 1 \in 1 .. n - 1
      BY <1>2, <3>1 DEF EndBody
    <3>3. SubSeq(frames, 1, n - 1)[n - 1] = frames[n - 1]
      BY <1>2, <3>2
    <3> QED BY <3>1, <3>2, <3>3 DEF EndBody
  <2> QED BY <2>1, <2>2, <2>3, <2>4
<1>4. FramesInModule'
  BY <1>1, <1>3 DEF FramesInModule
<1>5. TypeOK'
  BY <1>1 DEF IInv, TypeOK, Target
<1> QED BY <1>1, <1>4, <1>5 DEF IInv

\* After the end nothing is bound.
LEMMA TeardownStep ==
  ASSUME IInv, Teardown
  PROVE  IInv'
<1>1. DOMAIN memrefs' = {}
  BY DEF Teardown
<1>2. UNCHANGED <<module, frames, call, handles, tiles, counts>> /\ status' = "closed" /\ isOpen' = FALSE
  BY DEF Teardown
<1>3. TypeOK'
  BY <1>1, <1>2 DEF IInv, TypeOK, Target
<1> QED BY <1>2, <1>3 DEF IInv, FramesInModule

\* The run begins in the function's block with nothing bound.
LEMMA InitIInv == Init => IInv
<1> SUFFICES ASSUME Init PROVE IInv
  OBVIOUS
<1>1. IsModule(module) /\ module \in Modules
  BY ModulesAssumption DEF Init
<1>2. FramesInModule
  <2>1. <<"func", 1>> \in (DOMAIN module.block) \X (Nat \ {0})
    BY <1>1 DEF IsModule
  <2> QED BY <2>1 DEF Init, FramesInModule
<1>3. DOMAIN memrefs = {} /\ DOMAIN handles = {} /\ DOMAIN tiles = {} /\ DOMAIN counts = Counters
  BY DEF Init
<1>4. TypeOK
  BY <1>3 DEF Init, TypeOK
<1> QED BY <1>1, <1>2, <1>4 DEF IInv

\* One case for each action.
LEMMA NextIInv == IInv /\ [Next]_vars => IInv'
<1> SUFFICES ASSUME IInv, [Next]_vars PROVE IInv'
  OBVIOUS
<1>1. CASE Refuse
  BY <1>1, StayStep DEF Refuse, data
<1>2. CASE CallSucceeds
  BY <1>2, StayStep DEF CallSucceeds, data
<1>3. CASE CallFails
  BY <1>3, StayStep DEF CallFails, data
<1>4. CASE Finish
  BY <1>4, StayStep DEF Finish, data
<1>5. CASE UNCHANGED vars
  BY <1>5, StayStep DEF vars, data
<1>6. CASE Teardown
  BY <1>6, TeardownStep
<1>7. CASE RunView
  BY <1>7, ViewStep
<1>8. CASE RunDeviceOpen \/ RunTileAlloc
  BY <1>8, HandleStep
<1>9. CASE RunProgram
  BY <1>9, ProgramStep
<1>10. CASE EnterLoop \/ EndBody
  BY <1>10, LoopStep
<1> QED
  BY <1>1, <1>2, <1>3, <1>4, <1>5, <1>6, <1>7, <1>8, <1>9, <1>10, FreshHandlers, QuietHandlers
  DEF Next, Progress

\* Whatever modules are run, however deep their loops and wherever a call
\* fails: no bound view outlives its allocation (the shared_ptr<Allocation> of
\* Interpreter.cpp:56-69), and no handle or programmed tile is out of the
\* target's range, though the number is checked by cim.tile_alloc only.
THEOREM TypeCorrect == Spec => []TypeOK
<1>1. IInv => TypeOK
  BY DEF IInv
<1> QED BY InitIInv, NextIInv, <1>1, PTL DEF Spec
-----------------------------------------------------------------------------
(* The ledger of a sequence of calls.                                       *)

\* Buffers and calls, as sets.
Buffers == {"heap", "staging", "act", "tmp", "in", "out", "staged", "sum"} \X Int
CallSet == [alloc : SUBSET Buffers, free : SUBSET Buffers, uses : SUBSET Buffers,
            held : SUBSET Buffers, fallible : BOOLEAN]

\* A call as it should be, when the handler has so much and the bound values
\* own the rest: it passes and frees what exists, it is given what does not,
\* and if it fails the handler gives back all it has.
Legal(c, own, has) ==
  /\ c \in CallSet
  /\ c.uses \subseteq own \cup has /\ c.free \subseteq has
  /\ c.alloc \cap (own \cup has) = {}
  /\ IF c.fallible THEN c.held = has ELSE c.held = {}
Then(c, has) == (has \cup c.alloc) \ c.free

\* has[j] is what the handler has after the first j of the calls.
IsLedger(has, calls, own) ==
  /\ has \in [0 .. Len(calls) -> SUBSET Buffers]
  /\ \A j \in 1 .. Len(calls) :
       Legal(calls[j], own, has[j - 1]) /\ has[j] = Then(calls[j], has[j - 1])
Leads(calls, own, from, to) ==
  /\ calls \in Seq(CallSet)
  /\ \E has : IsLedger(has, calls, own) /\ has[0] = from /\ has[Len(calls)] = to

LEMMA NoCalls ==
  ASSUME NEW own, NEW has \in SUBSET Buffers
  PROVE  Leads(<<>>, own, has, has)
<1>1. <<>> \in Seq(CallSet) /\ Len(<<>>) = 0
  OBVIOUS
<1>2. IsLedger([j \in 0 .. 0 |-> has], <<>>, own)
  BY <1>1 DEF IsLedger
<1> QED BY <1>1, <1>2 DEF Leads

LEMMA OneCall ==
  ASSUME NEW own, NEW has \in SUBSET Buffers, NEW c, Legal(c, own, has)
  PROVE  Leads(<<c>>, own, has, Then(c, has))
<1> DEFINE h == [j \in 0 .. 1 |-> IF j = 0 THEN has ELSE Then(c, has)]
           s == <<c>>
<1>1. c \in CallSet
  BY DEF Legal
<1>2. s \in Seq(CallSet) /\ Len(s) = 1 /\ s[1] = c
  BY <1>1
<1>3. Then(c, has) \in SUBSET Buffers
  BY <1>1 DEF Then, CallSet
<1>4. h \in [0 .. 1 -> SUBSET Buffers] /\ h[0] = has /\ h[1] = Then(c, has)
  BY <1>3
<1> HIDE DEF h, s
<1>5. IsLedger(h, s, own)
  BY <1>2, <1>4 DEF IsLedger
<1>6. Leads(s, own, has, Then(c, has))
  BY <1>2, <1>4, <1>5 DEF Leads
<1> QED BY <1>6 DEF s

LEMMA InARow ==
  ASSUME NEW own, NEW a, NEW b, NEW c, NEW s, NEW t, Leads(s, own, a, b), Leads(t, own, b, c)
  PROVE  Leads(s \o t, own, a, c)
<1>1. s \in Seq(CallSet) /\ t \in Seq(CallSet)
  BY DEF Leads
<1>2. PICK g : IsLedger(g, s, own) /\ g[0] = a /\ g[Len(s)] = b
  BY DEF Leads
<1>3. PICK h : IsLedger(h, t, own) /\ h[0] = b /\ h[Len(t)] = c
  BY DEF Leads
<1> DEFINE m == Len(s)
           n == Len(t)
           u == s \o t
           k == [j \in 0 .. m + n |-> IF j <= m THEN g[j] ELSE h[j - m]]
<1>4. m \in Nat /\ n \in Nat /\ u \in Seq(CallSet) /\ Len(u) = m + n
  BY <1>1
<1>5. \A j \in 1 .. m + n : u[j] = IF j <= m THEN s[j] ELSE t[j - m]
  BY <1>1
<1> HIDE DEF m, n, u
<1>6. /\ g \in [0 .. m -> SUBSET Buffers] /\ h \in [0 .. n -> SUBSET Buffers]
      /\ \A j \in 1 .. m : Legal(s[j], own, g[j - 1]) /\ g[j] = Then(s[j], g[j - 1])
      /\ \A j \in 1 .. n : Legal(t[j], own, h[j - 1]) /\ h[j] = Then(t[j], h[j - 1])
  BY <1>2, <1>3 DEF IsLedger, m, n
<1>7. k \in [0 .. m + n -> SUBSET Buffers]
  BY <1>4, <1>6
<1>8. ASSUME NEW j \in 1 .. m + n
      PROVE  Legal(u[j], own, k[j - 1]) /\ k[j] = Then(u[j], k[j - 1])
  <2>1. CASE j <= m
    <3>1. k[j] = g[j] /\ k[j - 1] = g[j - 1] /\ u[j] = s[j] /\ j \in 1 .. m
      BY <1>4, <1>5, <2>1
    <3> QED BY <1>6, <3>1
  <2>2. CASE j = m + 1
    <3>1. k[j] = h[1] /\ k[j - 1] = h[0] /\ u[j] = t[1] /\ 1 \in 1 .. n /\ 1 - 1 = 0
      <4>1. k[j - 1] = g[m]
        BY <1>4, <2>2
      <4>2. j \in 0 .. m + n /\ ~ (j <= m) /\ j - m = 1 /\ 1 \in 1 .. n
        BY <1>4, <2>2
      <4>3. k[j] = h[1] /\ u[j] = t[1]
        BY <1>5, <4>2
      <4> QED BY <1>2, <1>3, <4>1, <4>2, <4>3 DEF m
    <3> QED BY <1>6, <3>1
  <2>3. CASE j > m + 1
    <3>1. /\ k[j] = h[j - m] /\ k[j - 1] = h[(j - m) - 1] /\ u[j] = t[j - m]
          /\ j - m \in 1 .. n
      <4>1. j - m \in 1 .. n /\ (j - m) - 1 = (j - 1) - m /\ ~ (j <= m) /\ ~ (j - 1 <= m)
        BY <1>4, <2>3
      <4> QED BY <1>4, <1>5, <4>1
    <3> QED BY <1>6, <3>1
  <2> QED BY <1>4, <2>1, <2>2, <2>3
<1>9. k[0] = a
  BY <1>2, <1>4
<1>10. k[m + n] = c
  <2>1. CASE n = 0
    BY <1>2, <1>3, <1>4, <2>1 DEF m, n
  <2>2. CASE n # 0
    <3>1. (m + n) - m = n /\ ~ (m + n <= m) /\ m + n \in 0 .. m + n
      BY <1>4, <2>2
    <3> QED BY <1>3, <3>1 DEF n
  <2> QED BY <2>1, <2>2
<1> HIDE DEF k
<1>11. IsLedger(k, u, own)
  BY <1>4, <1>7, <1>8 DEF IsLedger
<1>12. Leads(u, own, a, c)
  BY <1>4, <1>9, <1>10, <1>11 DEF Leads
<1> QED BY <1>12 DEF u

\* Sequences of calls that follow on one another, in a row.
LEMMA AllInARow ==
  ASSUME NEW own, NEW seqs \in Seq(Seq(CallSet)), NEW has \in [0 .. Len(seqs) -> SUBSET Buffers],
         \A i \in 1 .. Len(seqs) : Leads(seqs[i], own, has[i - 1], has[i])
  PROVE  Leads(FlattenSeq(seqs), own, has[0], has[Len(seqs)])
<1> DEFINE n == Len(seqs)
<1>0. n \in Nat
  OBVIOUS
<1>1. CASE n = 0
  <2>1. FlattenSeq(seqs) = <<>>
    BY <1>1 DEF FlattenSeq
  <2> QED BY <1>1, <2>1, NoCalls
<1>2. CASE n # 0
  <2>1. PICK parts : Induction!IsFlattening(parts, seqs, CallSet) /\ FlattenSeq(seqs) = parts[n]
    BY <1>2, Induction!Flattening, SameFlatten
  <2>2. parts[1] = seqs[1] /\ \A i \in 2 .. n : parts[i] = parts[i - 1] \o seqs[i]
    BY <2>1 DEF Induction!IsFlattening
  <2> HIDE DEF n
  <2> DEFINE S == {m \in Nat : m + 1 <= n => Leads(parts[m + 1], own, has[0], has[m + 1])}
  <2>3. 0 \in S
    <3>1. 1 \in 1 .. n /\ 1 - 1 = 0
      BY <1>0, <1>2
    <3> QED BY <2>2, <3>1 DEF n
  <2>4. ASSUME NEW m \in Nat, m \in S PROVE m + 1 \in S
    <3> SUFFICES ASSUME (m + 1) + 1 <= n
                 PROVE  Leads(parts[(m + 1) + 1], own, has[0], has[(m + 1) + 1])
      OBVIOUS
    <3>1. (m + 1) + 1 \in 2 .. n /\ (m + 1) + 1 \in 1 .. Len(seqs) /\ ((m + 1) + 1) - 1 = m + 1
      BY <1>0 DEF n
    <3>2. Leads(parts[m + 1], own, has[0], has[m + 1])
      BY <1>0, <2>4, <3>1
    <3>3. parts[(m + 1) + 1] = parts[m + 1] \o seqs[(m + 1) + 1]
      BY <2>2, <3>1
    <3>4. Leads(seqs[(m + 1) + 1], own, has[m + 1], has[(m + 1) + 1])
      BY <3>1
    <3> QED BY <3>2, <3>3, <3>4, InARow
  <2> HIDE DEF S
  <2>5. \A m \in Nat : m \in S
    BY <2>3, <2>4, Induction!SetInduction
  <2>6. n - 1 \in Nat /\ (n - 1) + 1 = n
    BY <1>0, <1>2
  <2>7. Leads(parts[n], own, has[0], has[n])
    <3>1. n - 1 \in S
      BY <2>5, <2>6
    <3> QED BY <1>0, <2>6, <3>1 DEF S
  <2> QED BY <2>1, <2>7 DEF n
<1> QED BY <1>1, <1>2

\* The three kinds of call.
LEMMA AllocLeads ==
  ASSUME NEW own, NEW has \in SUBSET Buffers, NEW b \in Buffers, b \notin own, b \notin has
  PROVE  Leads(<<Alloc1(b, has)>>, own, has, has \cup {b})
<1> DEFINE c == Alloc1(b, has)
<1>1. c \in CallSet
  BY DEF Alloc1, CallSet
<1>2. c.alloc = {b} /\ c.free = {} /\ c.uses = {} /\ c.held = has /\ c.fallible = TRUE
  BY DEF Alloc1
<1> HIDE DEF c
<1>3. Legal(c, own, has) /\ Then(c, has) = has \cup {b}
  BY <1>1, <1>2 DEF Legal, Then
<1>4. Leads(<<c>>, own, has, has \cup {b})
  BY <1>3, OneCall
<1> QED BY <1>4 DEF c

LEMMA UseLeads ==
  ASSUME NEW own, NEW has \in SUBSET Buffers, NEW bs \in SUBSET Buffers, bs \subseteq own \cup has
  PROVE  Leads(<<Use(bs, has)>>, own, has, has)
<1> DEFINE c == Use(bs, has)
<1>1. c \in CallSet
  BY DEF Use, CallSet
<1>2. c.alloc = {} /\ c.free = {} /\ c.uses = bs /\ c.held = has /\ c.fallible = TRUE
  BY DEF Use
<1> HIDE DEF c
<1>3. Legal(c, own, has) /\ Then(c, has) = has
  BY <1>1, <1>2 DEF Legal, Then
<1>4. Leads(<<c>>, own, has, has)
  BY <1>3, OneCall
<1> QED BY <1>4 DEF c

LEMMA FreeLeads ==
  ASSUME NEW own, NEW has \in SUBSET Buffers, NEW bs \in SUBSET has
  PROVE  Leads(<<Free1(bs)>>, own, has, has \ bs)
<1> DEFINE c == Free1(bs)
<1>1. c \in CallSet
  BY DEF Free1, CallSet
<1>2. c.alloc = {} /\ c.free = bs /\ c.uses = bs /\ c.held = {} /\ c.fallible = FALSE
  BY DEF Free1
<1> HIDE DEF c
<1>3. Legal(c, own, has) /\ Then(c, has) = has \ bs
  BY <1>1, <1>2 DEF Legal, Then
<1>4. Leads(<<c>>, own, has, has \ bs)
  BY <1>3, OneCall
<1> QED BY <1>4 DEF c
-----------------------------------------------------------------------------
(* What the handlers have when their calls are done: the result's buffer.  *)
HeapShape ==
  /\ IsFiniteSet(DOMAIN heap) /\ DOMAIN heap \subseteq Nat
  /\ \A a \in DOMAIN heap : heap[a].onDevice \in BOOLEAN /\ DOMAIN heap[a] = {"onDevice", "elems"}

\* What may be assumed of the state when a handler's calls are made.
CallsMade ==
  /\ HeapShape /\ ViewsOf(memrefs, DOMAIN heap) /\ Supported
  /\ Cur.args \in Seq(ToSet(Cur.args))
  /\ Cur.op \in Reductions => Cur.args # <<>>

\* A fresh allocation is not one of the heap's.
LEMMA NewIsFree ==
  ASSUME HeapShape
  PROVE  NewAlloc \in Nat /\ NewAlloc \notin DOMAIN heap
<1> DEFINE n == Cardinality(DOMAIN heap)
<1>1. n \in Nat /\ IsFiniteSet(DOMAIN heap)
  BY FS_CardinalityType DEF HeapShape
<1>2. IsFiniteSet(1 .. n + 1) /\ Cardinality(1 .. n + 1) = n + 1
  BY <1>1, FS_Interval
<1>3. \E a \in 1 .. n + 1 : a \notin DOMAIN heap
  <2>1. SUFFICES ASSUME 1 .. n + 1 \subseteq DOMAIN heap PROVE FALSE
    OBVIOUS
  <2>2. Cardinality(1 .. n + 1) <= n
    BY <1>1, <2>1, FS_Subset
  <2> QED BY <1>1, <1>2, <2>2
<1> QED BY <1>1, <1>3 DEF NewAlloc

LEMMA OwnedBuffers ==
  ASSUME HeapShape
  PROVE  /\ OwnBuffers \in SUBSET Buffers /\ NewBuffer \in Buffers /\ NewBuffer \notin OwnBuffers
         /\ \A b \in OwnBuffers : b[1] = "heap"
BY NewIsFree DEF HeapShape, OwnBuffers, Buffers, NewBuffer

\* gather and scatter use a buffer that the view's allocation owns.
LEMMA AccessLeads ==
  ASSUME CallsMade, NEW i, Readable(i), NEW has \in SUBSET Buffers
  PROVE  Leads(Access(View(Arg(i)), has), OwnBuffers, has, has)
<1> DEFINE v == View(Arg(i))
<1>1. v.alloc \in DOMAIN heap
  BY DEF CallsMade, ViewsOf, Readable, Bound, View
<1>2. CASE OnDevice(v)
  <2>1. Buffer(v) \in OwnBuffers /\ {Buffer(v)} \in SUBSET Buffers
    BY <1>1, <1>2, OwnedBuffers DEF CallsMade, OnDevice, Buffer, OwnBuffers
  <2>2. Access(v, has) = <<Use({Buffer(v)}, has)>>
    BY <1>2 DEF Access
  <2> HIDE DEF v
  <2>3. Leads(<<Use({Buffer(v)}, has)>>, OwnBuffers, has, has)
    BY <2>1, UseLeads
  <2> QED BY <2>2, <2>3 DEF v
<1>3. CASE ~ OnDevice(v)
  BY <1>3, NoCalls DEF Access
<1> QED BY <1>2, <1>3

\* The buffers a handler takes for itself are not the bound values'.
LEMMA OwnNames ==
  ASSUME HeapShape, NEW n \in {"staging", "act", "tmp", "in", "out", "staged", "sum"}, NEW i \in Int
  PROVE  <<n, i>> \in Buffers /\ <<n, i>> \notin OwnBuffers
BY OwnedBuffers DEF Buffers

LEMMA ResultLeads ==
  ASSUME HeapShape
  PROVE  /\ Leads(AllocResult({}), OwnBuffers, {}, ResultBuffers)
         /\ Leads(WriteResult, OwnBuffers, {}, ResultBuffers)
<1>1. NewBuffer \in Buffers /\ NewBuffer \notin OwnBuffers
  BY OwnedBuffers
<1>2. CASE ResultOnDevice
  <2>1. Leads(<<Alloc1(NewBuffer, {})>>, OwnBuffers, {}, {} \cup {NewBuffer})
    BY <1>1, AllocLeads
  <2>2. {} \cup {NewBuffer} = {NewBuffer} /\ ResultBuffers = {NewBuffer}
    BY <1>2 DEF ResultBuffers
  <2>3. Leads(AllocResult({}), OwnBuffers, {}, {NewBuffer})
    BY <1>2, <2>1, <2>2 DEF AllocResult
  <2>4. Leads(<<Use({NewBuffer}, {NewBuffer})>>, OwnBuffers, {NewBuffer}, {NewBuffer})
    BY <1>1, UseLeads
  <2>5. WriteResult = AllocResult({}) \o <<Use({NewBuffer}, {NewBuffer})>>
    BY <1>2 DEF WriteResult
  <2> QED BY <2>2, <2>3, <2>4, <2>5, InARow
<1>3. CASE ~ ResultOnDevice
  <2>1. Leads(<<>>, OwnBuffers, {}, {})
    BY NoCalls
  <2>2. ResultBuffers = {} /\ AllocResult({}) = <<>> /\ WriteResult = <<>> \o <<>>
    BY <1>3 DEF ResultBuffers, AllocResult, WriteResult
  <2> QED BY <2>1, <2>2, InARow
<1> QED BY <1>2, <1>3

LEMMA ProgramLeads ==
  ASSUME CallsMade, Cur.op = "program"
  PROVE  Leads(ProgramCalls, OwnBuffers, {}, {})
<1> DEFINE s == <<"staging", 0>>
<1>1. HeapShape /\ Readable(2)
  BY DEF CallsMade, Supported
<1>2. s \in Buffers /\ s \notin OwnBuffers
  BY <1>1, OwnNames
<1>3. Leads(Access(View(Arg(2)), {}), OwnBuffers, {}, {})
  BY <1>1, AccessLeads
<1>4. ProgramCalls = ((((Access(View(Arg(2)), {}) \o <<Alloc1(s, {})>>)
                      \o <<Use({s}, {s})>>) \o <<Use({s}, {s})>>) \o <<Free1({s})>>)
  BY <1>3 DEF ProgramCalls, Leads
<1> HIDE DEF s
<1>5. Leads(<<Alloc1(s, {})>>, OwnBuffers, {}, {s})
  <2>1. Leads(<<Alloc1(s, {})>>, OwnBuffers, {}, {} \cup {s})
    BY <1>2, AllocLeads
  <2> QED BY <2>1
<1>6. Leads(<<Use({s}, {s})>>, OwnBuffers, {s}, {s})
  BY <1>2, UseLeads
<1>7. Leads(<<Free1({s})>>, OwnBuffers, {s}, {})
  <2>1. Leads(<<Free1({s})>>, OwnBuffers, {s}, {s} \ {s})
    BY <1>2, FreeLeads
  <2> QED BY <2>1
<1> QED BY <1>3, <1>4, <1>5, <1>6, <1>7, InARow

\* Two calls, then more: the tuples of the handlers, one call at a time.
LEMMA MvmLeads ==
  ASSUME CallsMade, Cur.op = "mvm"
  PROVE  Leads(MvmCalls, OwnBuffers, {}, ResultBuffers)
<1> DEFINE act == <<"act", 0>>
           tmp == <<"tmp", 0>>
           load == Access(View(Arg(2)), {})
<1>1. HeapShape /\ Readable(2)
  BY DEF CallsMade, Supported
<1>2. act \in Buffers /\ act \notin OwnBuffers /\ tmp \in Buffers /\ tmp \notin OwnBuffers /\ act # tmp
  BY <1>1, OwnNames
<1>3. NewBuffer \in Buffers /\ NewBuffer \notin OwnBuffers /\ NewBuffer # act
  BY <1>1, OwnedBuffers DEF NewBuffer
<1>4. Leads(load, OwnBuffers, {}, {})
  BY <1>1, AccessLeads
<1>5. load \in Seq(CallSet)
  BY <1>4 DEF Leads
<1>6. MvmCalls = load \o <<Alloc1(act, {}), Use({act}, {act})>>
                 \o (IF ResultOnDevice
                     THEN <<Alloc1(NewBuffer, {act}), Use({act, NewBuffer}, {act, NewBuffer})>>
                     ELSE << Alloc1(tmp, {act}), Use({act, tmp}, {act, tmp}),
                             Use({tmp}, {act, tmp}), Free1({tmp}) >>)
                 \o <<Free1({act})>>
  BY DEF MvmCalls
<1> HIDE DEF act, tmp, load
<1>7. Leads(<<Alloc1(act, {})>>, OwnBuffers, {}, {act})
  <2>1. Leads(<<Alloc1(act, {})>>, OwnBuffers, {}, {} \cup {act})
    BY <1>2, AllocLeads
  <2> QED BY <2>1
<1>8. Leads(<<Use({act}, {act})>>, OwnBuffers, {act}, {act})
  BY <1>2, UseLeads
<1>9. Leads(load \o <<Alloc1(act, {}), Use({act}, {act})>>, OwnBuffers, {}, {act})
  <2>1. <<Alloc1(act, {}), Use({act}, {act})>> = <<Alloc1(act, {})>> \o <<Use({act}, {act})>>
    OBVIOUS
  <2> QED BY <1>4, <1>7, <1>8, <2>1, InARow
<1>10. CASE ResultOnDevice
  <2>1. Leads(<<Alloc1(NewBuffer, {act})>>, OwnBuffers, {act}, {act, NewBuffer})
    <3>1. Leads(<<Alloc1(NewBuffer, {act})>>, OwnBuffers, {act}, {act} \cup {NewBuffer})
      BY <1>2, <1>3, AllocLeads
    <3>2. {act} \cup {NewBuffer} = {act, NewBuffer}
      OBVIOUS
    <3> QED BY <3>1, <3>2
  <2>2. Leads(<<Use({act, NewBuffer}, {act, NewBuffer})>>, OwnBuffers, {act, NewBuffer}, {act, NewBuffer})
    BY <1>2, <1>3, UseLeads
  <2>3. Leads(<<Free1({act})>>, OwnBuffers, {act, NewBuffer}, {NewBuffer})
    <3>1. Leads(<<Free1({act})>>, OwnBuffers, {act, NewBuffer}, {act, NewBuffer} \ {act})
      BY <1>2, <1>3, FreeLeads
    <3>2. {act, NewBuffer} \ {act} = {NewBuffer}
      BY <1>3
    <3> QED BY <3>1, <3>2
  <2>4. <<Alloc1(NewBuffer, {act}), Use({act, NewBuffer}, {act, NewBuffer})>>
          = <<Alloc1(NewBuffer, {act})>> \o <<Use({act, NewBuffer}, {act, NewBuffer})>>
    OBVIOUS
  <2>5. MvmCalls = (load \o <<Alloc1(act, {}), Use({act}, {act})>>)
                   \o (<<Alloc1(NewBuffer, {act})>> \o <<Use({act, NewBuffer}, {act, NewBuffer})>>)
                   \o <<Free1({act})>>
    BY <1>6, <1>10, <2>4
  <2>6. ResultBuffers = {NewBuffer}
    BY <1>10 DEF ResultBuffers
  <2>7. Leads(<<Alloc1(NewBuffer, {act})>> \o <<Use({act, NewBuffer}, {act, NewBuffer})>>,
              OwnBuffers, {act}, {act, NewBuffer})
    BY <2>1, <2>2, InARow
  <2> QED BY <1>9, <2>3, <2>5, <2>6, <2>7, InARow
<1>11. CASE ~ ResultOnDevice
  <2>1. Leads(<<Alloc1(tmp, {act})>>, OwnBuffers, {act}, {act, tmp})
    <3>1. Leads(<<Alloc1(tmp, {act})>>, OwnBuffers, {act}, {act} \cup {tmp})
      BY <1>2, AllocLeads
    <3>2. {act} \cup {tmp} = {act, tmp}
      OBVIOUS
    <3> QED BY <3>1, <3>2
  <2>2. /\ Leads(<<Use({act, tmp}, {act, tmp})>>, OwnBuffers, {act, tmp}, {act, tmp})
        /\ Leads(<<Use({tmp}, {act, tmp})>>, OwnBuffers, {act, tmp}, {act, tmp})
    BY <1>2, UseLeads
  <2>3. Leads(<<Free1({tmp})>>, OwnBuffers, {act, tmp}, {act})
    <3>1. Leads(<<Free1({tmp})>>, OwnBuffers, {act, tmp}, {act, tmp} \ {tmp})
      BY <1>2, FreeLeads
    <3>2. {act, tmp} \ {tmp} = {act}
      BY <1>2
    <3> QED BY <3>1, <3>2
  <2>4. Leads(<<Free1({act})>>, OwnBuffers, {act}, {})
    <3>1. Leads(<<Free1({act})>>, OwnBuffers, {act}, {act} \ {act})
      BY <1>2, FreeLeads
    <3> QED BY <3>1
  <2>5. << Alloc1(tmp, {act}), Use({act, tmp}, {act, tmp}), Use({tmp}, {act, tmp}), Free1({tmp}) >>
          = ((<<Alloc1(tmp, {act})>> \o <<Use({act, tmp}, {act, tmp})>>)
             \o <<Use({tmp}, {act, tmp})>>) \o <<Free1({tmp})>>
    OBVIOUS
  <2>6. MvmCalls = (load \o <<Alloc1(act, {}), Use({act}, {act})>>)
                   \o (((<<Alloc1(tmp, {act})>> \o <<Use({act, tmp}, {act, tmp})>>)
                        \o <<Use({tmp}, {act, tmp})>>) \o <<Free1({tmp})>>)
                   \o <<Free1({act})>>
    BY <1>6, <1>11, <2>5
  <2>7. ResultBuffers = {}
    BY <1>11 DEF ResultBuffers
  <2>8. Leads(((<<Alloc1(tmp, {act})>> \o <<Use({act, tmp}, {act, tmp})>>)
               \o <<Use({tmp}, {act, tmp})>>) \o <<Free1({tmp})>>, OwnBuffers, {act}, {act})
    BY <2>1, <2>2, <2>3, InARow
  <2> QED BY <1>9, <2>4, <2>6, <2>7, <2>8, InARow
<1> QED BY <1>10, <1>11

\* The operands of a reduction are staged one after the other.
LEMMA StageLeads ==
  ASSUME CallsMade, Cur.op \in Reductions
  PROVE  Leads(StageCalls, OwnBuffers, {}, Staged(Len(Cur.args)))
<1> DEFINE n == Len(Cur.args)
           one(i) == Access(View(Arg(i)), Staged(i - 1))
                     \o <<Alloc1(<<"staged", i>>, Staged(i - 1)), Use({<<"staged", i>>}, Staged(i))>>
           all == [i \in DOMAIN Cur.args |-> one(i)]
           has == [i \in 0 .. n |-> Staged(i)]
<1>1. HeapShape /\ n \in Nat /\ DOMAIN Cur.args = 1 .. n /\ \A i \in 1 .. n : Readable(i)
  BY DEF CallsMade, Supported
<1>2. \A i \in 0 .. n : Staged(i) \in SUBSET Buffers
  BY <1>1, OwnNames DEF Staged
<1>3. ASSUME NEW i \in 1 .. n
      PROVE  Leads(one(i), OwnBuffers, Staged(i - 1), Staged(i))
  <2> DEFINE b == <<"staged", i>>
             before == Staged(i - 1)
             after == Staged(i)
             load == Access(View(Arg(i)), before)
  <2>1. before \in SUBSET Buffers /\ after \in SUBSET Buffers
    BY <1>1, <1>2
  <2>2. b \in Buffers /\ b \notin OwnBuffers
    BY <1>1, OwnNames
  <2>3. b \notin before /\ after = before \cup {b}
    BY <1>1 DEF Staged
  <2>4. Leads(load, OwnBuffers, before, before)
    BY <1>1, <2>1, AccessLeads
  <2>5. load \in Seq(CallSet)
    BY <2>4 DEF Leads
  <2>6. one(i) = load \o <<Alloc1(b, before), Use({b}, after)>>
    OBVIOUS
  <2> HIDE DEF one, b, before, after, load
  <2>7. Leads(<<Alloc1(b, before)>>, OwnBuffers, before, after)
    BY <2>1, <2>2, <2>3, AllocLeads
  <2>8. Leads(<<Use({b}, after)>>, OwnBuffers, after, after)
    BY <2>1, <2>2, <2>3, UseLeads
  <2>9. <<Alloc1(b, before), Use({b}, after)>> = <<Alloc1(b, before)>> \o <<Use({b}, after)>>
    OBVIOUS
  <2>10. Leads(<<Alloc1(b, before)>> \o <<Use({b}, after)>>, OwnBuffers, before, after)
    BY <2>7, <2>8, InARow
  <2>11. Leads(one(i), OwnBuffers, before, after)
    BY <2>4, <2>6, <2>9, <2>10, InARow
  <2> QED BY <2>11 DEF before, after
<1>4. StageCalls = FlattenSeq(all)
  BY DEF StageCalls
<1> HIDE DEF one
<1>5. all \in Seq(Seq(CallSet)) /\ Len(all) = n /\ \A i \in 1 .. n : all[i] = one(i)
  <2>1. \A i \in 1 .. n : one(i) \in Seq(CallSet)
    BY <1>3 DEF Leads
  <2>2. all = [i \in 1 .. n |-> one(i)]
    BY <1>1
  <2> HIDE DEF all, n
  <2> QED BY <1>1, <2>1, <2>2
<1>6. has \in [0 .. n -> SUBSET Buffers]
  BY <1>2
<1>7. \A i \in 1 .. n : Leads(all[i], OwnBuffers, has[i - 1], has[i])
  BY <1>1, <1>3, <1>5
<1>8. has[0] = {} /\ has[n] = Staged(n)
  BY <1>1 DEF Staged
<1> HIDE DEF all, has
<1>9. Leads(FlattenSeq(all), OwnBuffers, has[0], has[Len(all)])
  <2> HIDE DEF n
  <2> QED BY <1>5, <1>6, <1>7, AllInARow
<1> QED BY <1>4, <1>5, <1>8, <1>9

\* Out of place, each sum is one more buffer.
LEMMA FoldLeads ==
  ASSUME CallsMade, NEW n \in Nat \ {0}
  PROVE  Leads(FoldCalls(n), OwnBuffers, Staged(n), Staged(n) \cup Sums(n))
<1> DEFINE acc(i) == IF i = 2 THEN <<"staged", 1>> ELSE <<"sum", i - 1>>
           one(j) == << Alloc1(<<"sum", j + 1>>, Staged(n) \cup Sums(j)),
                        Use({<<"sum", j + 1>>, acc(j + 1), <<"staged", j + 1>>},
                            Staged(n) \cup Sums(j + 1)) >>
           all == [j \in 1 .. n - 1 |-> one(j)]
           has == [j \in 0 .. n - 1 |-> Staged(n) \cup Sums(j + 1)]
<1>1. HeapShape
  BY DEF CallsMade
<1>2. \A j \in 1 .. n : Staged(n) \cup Sums(j) \in SUBSET Buffers
  BY <1>1, OwnNames DEF Staged, Sums
<1>3. ASSUME NEW j \in 1 .. n - 1
      PROVE  Leads(one(j), OwnBuffers, Staged(n) \cup Sums(j), Staged(n) \cup Sums(j + 1))
  <2> DEFINE b == <<"sum", j + 1>>
             bs == {b, acc(j + 1), <<"staged", j + 1>>}
             before == Staged(n) \cup Sums(j)
             after == Staged(n) \cup Sums(j + 1)
  <2>1. before \in SUBSET Buffers /\ after \in SUBSET Buffers
    BY <1>2
  <2>2. b \in Buffers /\ b \notin OwnBuffers
    BY <1>1, OwnNames
  <2>3. b \notin before /\ after = before \cup {b}
    BY DEF Staged, Sums
  <2>4. bs \subseteq after
    <3>1. <<"staged", j + 1>> \in Staged(n) /\ b \in Sums(j + 1)
      BY DEF Staged, Sums
    <3>2. acc(j + 1) \in after
      <4>1. CASE j = 1
        BY <4>1 DEF Staged
      <4>2. CASE j # 1
        BY <4>2 DEF Sums
      <4> QED BY <4>1, <4>2
    <3> QED BY <3>1, <3>2
  <2>5. one(j) = <<Alloc1(b, before)>> \o <<Use(bs, after)>>
    OBVIOUS
  <2> HIDE DEF one, b, bs, before, after
  <2>7. Leads(<<Alloc1(b, before)>>, OwnBuffers, before, after)
    BY <2>1, <2>2, <2>3, AllocLeads
  <2>8. Leads(<<Use(bs, after)>>, OwnBuffers, after, after)
    BY <2>1, <2>4, UseLeads
  <2>9. Leads(one(j), OwnBuffers, before, after)
    BY <2>5, <2>7, <2>8, InARow
  <2> QED BY <2>9 DEF before, after
<1>4. FoldCalls(n) = FlattenSeq(all)
  BY DEF FoldCalls
<1> HIDE DEF one
<1>5. all \in Seq(Seq(CallSet)) /\ Len(all) = n - 1 /\ \A j \in 1 .. n - 1 : all[j] = one(j)
  <2>1. \A j \in 1 .. n - 1 : one(j) \in Seq(CallSet)
    BY <1>3 DEF Leads
  <2> QED BY <2>1
<1>6. has \in [0 .. n - 1 -> SUBSET Buffers]
  BY <1>2
<1>7. \A j \in 1 .. n - 1 : Leads(all[j], OwnBuffers, has[j - 1], has[j])
  <2>1. \A j \in 1 .. n - 1 : has[j - 1] = Staged(n) \cup Sums(j) /\ has[j] = Staged(n) \cup Sums(j + 1)
    <3>1. \A j \in 1 .. n - 1 : j - 1 \in 0 .. n - 1 /\ (j - 1) + 1 = j /\ j \in 0 .. n - 1
      OBVIOUS
    <3> QED BY <3>1
  <2> HIDE DEF has, all
  <2> QED BY <1>3, <1>5, <2>1
<1>8. has[0] = Staged(n) /\ has[n - 1] = Staged(n) \cup Sums(n)
  BY DEF Sums
<1> HIDE DEF all, has
<1>9. Leads(FlattenSeq(all), OwnBuffers, has[0], has[Len(all)])
  BY <1>5, <1>6, <1>7, AllInARow
<1> QED BY <1>4, <1>5, <1>8, <1>9

\* In place, nothing is allocated.
LEMMA FoldInPlaceLeads ==
  ASSUME CallsMade, NEW n \in Nat \ {0}
  PROVE  Leads(FoldInPlaceCalls(n), OwnBuffers, Staged(n), Staged(n))
<1> DEFINE s == FoldInPlaceCalls(n)
           has == [j \in 0 .. n - 1 |-> Staged(n)]
<1>1. Staged(n) \in SUBSET Buffers
  BY OwnNames DEF Staged, CallsMade
<1>2. ASSUME NEW j \in 1 .. n - 1
      PROVE  /\ s[j] \in CallSet /\ Legal(s[j], OwnBuffers, Staged(n))
             /\ Then(s[j], Staged(n)) = Staged(n)
  <2> DEFINE bs == {<<"staged", 1>>, <<"staged", j + 1>>}
  <2>1. bs \subseteq Staged(n)
    BY DEF Staged
  <2>2. s[j] = Use(bs, Staged(n))
    BY DEF FoldInPlaceCalls
  <2> HIDE DEF bs, s
  <2>3. s[j] \in CallSet
    BY <1>1, <2>1, <2>2 DEF Use, CallSet
  <2>4. s[j].alloc = {} /\ s[j].free = {} /\ s[j].uses = bs /\ s[j].held = Staged(n) /\ s[j].fallible = TRUE
    BY <2>2 DEF Use
  <2> QED BY <2>1, <2>3, <2>4 DEF Legal, Then
<1>3. s \in Seq(CallSet) /\ Len(s) = n - 1
  <2>1. s = [j \in 1 .. n - 1 |-> Use({<<"staged", 1>>, <<"staged", j + 1>>}, Staged(n))]
    BY DEF FoldInPlaceCalls
  <2> HIDE DEF s
  <2>2. DOMAIN s = 1 .. n - 1
    BY <2>1
  <2>3. s = [j \in 1 .. n - 1 |-> s[j]]
    BY <2>1
  <2> QED BY <1>2, <2>2, <2>3
<1>4. has \in [0 .. n - 1 -> SUBSET Buffers] /\ has[0] = Staged(n) /\ has[n - 1] = Staged(n)
  BY <1>1
<1>5. \A j \in 1 .. n - 1 : has[j - 1] = Staged(n) /\ has[j] = Staged(n)
  OBVIOUS
<1> HIDE DEF s, has
<1>6. IsLedger(has, s, OwnBuffers)
  BY <1>2, <1>3, <1>4, <1>5 DEF IsLedger
<1>7. Leads(s, OwnBuffers, Staged(n), Staged(n))
  BY <1>3, <1>4, <1>6 DEF Leads
<1> QED BY <1>7 DEF s

LEMMA ReduceLeads ==
  ASSUME CallsMade, Cur.op \in Reductions, NEW inPlace \in BOOLEAN
  PROVE  Leads(ReduceCalls(inPlace), OwnBuffers, {}, ResultBuffers)
<1> DEFINE n == Len(Cur.args)
           held == IF inPlace THEN Staged(n) ELSE Staged(n) \cup Sums(n)
           last == IF inPlace \/ n = 1 THEN <<"staged", 1>> ELSE <<"sum", n>>
           fold == IF inPlace THEN FoldInPlaceCalls(n) ELSE FoldCalls(n)
           query == <<Use({}, Staged(n))>>
<1>1. HeapShape /\ n \in Nat \ {0}
  BY DEF CallsMade
<1>2. Staged(n) \in SUBSET Buffers /\ held \in SUBSET Buffers
  <2>1. Staged(n) \in SUBSET Buffers /\ Sums(n) \in SUBSET Buffers
    BY <1>1, OwnNames DEF Staged, Sums
  <2> QED BY <2>1
<1>3. Leads(StageCalls, OwnBuffers, {}, Staged(n))
  BY StageLeads
<1>4. Leads(query, OwnBuffers, Staged(n), Staged(n))
  BY <1>2, UseLeads
<1>5. Leads(fold, OwnBuffers, Staged(n), held)
  <2> HIDE DEF n
  <2> QED BY <1>1, FoldLeads, FoldInPlaceLeads
<1>6. last \in held
  <2>1. <<"staged", 1>> \in Staged(n) /\ (n # 1 => <<"sum", n>> \in Sums(n))
    <3> HIDE DEF n
    <3> QED BY <1>1 DEF Staged, Sums
  <2> HIDE DEF n
  <2>2. CASE inPlace
    BY <2>1, <2>2
  <2>3. CASE ~ inPlace
    BY <2>1, <2>3
  <2> QED BY <2>2, <2>3
<1>7. ReduceCalls(inPlace) = StageCalls \o query \o fold \o <<Use({last}, held), Free1(held)>> \o WriteResult
  BY DEF ReduceCalls
<1> HIDE DEF n, held, last, fold, query
<1>8. Leads(<<Use({last}, held)>>, OwnBuffers, held, held)
  BY <1>2, <1>6, UseLeads
<1>9. Leads(<<Free1(held)>>, OwnBuffers, held, {})
  <2>1. Leads(<<Free1(held)>>, OwnBuffers, held, held \ held)
    BY <1>2, FreeLeads
  <2>2. held \ held = {}
    OBVIOUS
  <2> QED BY <2>1, <2>2
<1>10. Leads(<<Use({last}, held), Free1(held)>>, OwnBuffers, held, {})
  <2>1. <<Use({last}, held), Free1(held)>> = <<Use({last}, held)>> \o <<Free1(held)>>
    OBVIOUS
  <2> QED BY <1>8, <1>9, <2>1, InARow
<1>11. Leads(WriteResult, OwnBuffers, {}, ResultBuffers)
  BY <1>1, ResultLeads
<1>12. Leads(StageCalls \o query, OwnBuffers, {}, Staged(n))
  BY <1>3, <1>4, InARow DEF n
<1>13. Leads(StageCalls \o query \o fold, OwnBuffers, {}, held)
  BY <1>5, <1>12, InARow
<1>14. Leads(StageCalls \o query \o fold \o <<Use({last}, held), Free1(held)>>, OwnBuffers, {}, {})
  BY <1>10, <1>13, InARow
<1> QED BY <1>7, <1>11, <1>14, InARow

LEMMA RequantizeLeads ==
  ASSUME CallsMade, Cur.op = "requantize"
  PROVE  Leads(RequantizeCalls, OwnBuffers, {}, ResultBuffers)
<1> DEFINE in == <<"in", 0>>
           out == <<"out", 0>>
           load == Access(View(Arg(1)), {})
<1>1. HeapShape /\ Readable(1)
  BY DEF CallsMade, Supported
<1>2. in \in Buffers /\ in \notin OwnBuffers /\ out \in Buffers /\ out \notin OwnBuffers /\ in # out
  BY <1>1, OwnNames
<1>3. Leads(load, OwnBuffers, {}, {})
  BY <1>1, AccessLeads
<1>4. load \in Seq(CallSet)
  BY <1>3 DEF Leads
<1>5. RequantizeCalls = load \o << Alloc1(in, {}), Use({in}, {in}), Alloc1(out, {in}),
                                   Use({in, out}, {in, out}), Free1({in}), Use({out}, {out}), Free1({out}) >>
                        \o WriteResult
  BY DEF RequantizeCalls
<1> HIDE DEF in, out, load
<1>6. Leads(<<Alloc1(in, {})>>, OwnBuffers, {}, {in})
  <2>1. Leads(<<Alloc1(in, {})>>, OwnBuffers, {}, {} \cup {in})
    BY <1>2, AllocLeads
  <2> QED BY <2>1
<1>7. Leads(<<Use({in}, {in})>>, OwnBuffers, {in}, {in})
  BY <1>2, UseLeads
<1>8. Leads(<<Alloc1(out, {in})>>, OwnBuffers, {in}, {in, out})
  <2>1. Leads(<<Alloc1(out, {in})>>, OwnBuffers, {in}, {in} \cup {out})
    BY <1>2, AllocLeads
  <2>2. {in} \cup {out} = {in, out}
    OBVIOUS
  <2> QED BY <2>1, <2>2
<1>9. Leads(<<Use({in, out}, {in, out})>>, OwnBuffers, {in, out}, {in, out})
  BY <1>2, UseLeads
<1>10. Leads(<<Free1({in})>>, OwnBuffers, {in, out}, {out})
  <2>1. Leads(<<Free1({in})>>, OwnBuffers, {in, out}, {in, out} \ {in})
    BY <1>2, FreeLeads
  <2>2. {in, out} \ {in} = {out}
    BY <1>2
  <2> QED BY <2>1, <2>2
<1>11. Leads(<<Use({out}, {out})>>, OwnBuffers, {out}, {out})
  BY <1>2, UseLeads
<1>12. Leads(<<Free1({out})>>, OwnBuffers, {out}, {})
  <2>1. Leads(<<Free1({out})>>, OwnBuffers, {out}, {out} \ {out})
    BY <1>2, FreeLeads
  <2> QED BY <2>1
<1>13. << Alloc1(in, {}), Use({in}, {in}), Alloc1(out, {in}),
          Use({in, out}, {in, out}), Free1({in}), Use({out}, {out}), Free1({out}) >>
       = ((<<Alloc1(in, {})>> \o <<Use({in}, {in})>>) \o (<<Alloc1(out, {in})>> \o <<Use({in, out}, {in, out})>>))
         \o ((<<Free1({in})>> \o <<Use({out}, {out})>>) \o <<Free1({out})>>)
  OBVIOUS
<1>14. Leads(<<Alloc1(in, {})>> \o <<Use({in}, {in})>>, OwnBuffers, {}, {in})
  BY <1>6, <1>7, InARow
<1>15. Leads(<<Alloc1(out, {in})>> \o <<Use({in, out}, {in, out})>>, OwnBuffers, {in}, {in, out})
  BY <1>8, <1>9, InARow
<1>16. Leads((<<Free1({in})>> \o <<Use({out}, {out})>>) \o <<Free1({out})>>, OwnBuffers, {in, out}, {})
  BY <1>10, <1>11, <1>12, InARow
<1>17. Leads(<< Alloc1(in, {}), Use({in}, {in}), Alloc1(out, {in}),
                Use({in, out}, {in, out}), Free1({in}), Use({out}, {out}), Free1({out}) >>, OwnBuffers, {}, {})
  <2>1. Leads((<<Alloc1(in, {})>> \o <<Use({in}, {in})>>)
              \o (<<Alloc1(out, {in})>> \o <<Use({in, out}, {in, out})>>), OwnBuffers, {}, {in, out})
    BY <1>14, <1>15, InARow
  <2>2. Leads(((<<Alloc1(in, {})>> \o <<Use({in}, {in})>>)
               \o (<<Alloc1(out, {in})>> \o <<Use({in, out}, {in, out})>>))
              \o ((<<Free1({in})>> \o <<Use({out}, {out})>>) \o <<Free1({out})>>), OwnBuffers, {}, {})
    BY <2>1, <1>16, InARow
  <2> QED BY <1>13, <2>2
<1>18. Leads(WriteResult, OwnBuffers, {}, ResultBuffers)
  BY <1>1, ResultLeads
<1> QED BY <1>3, <1>5, <1>17, <1>18, InARow

LEMMA CopyLeads ==
  ASSUME CallsMade, Cur.op = "copy"
  PROVE  Leads(CopyCalls, OwnBuffers, {}, ResultBuffers)
<1> DEFINE load == Access(View(Arg(1)), ResultBuffers)
           store == IF ResultOnDevice THEN <<Use({NewBuffer}, {NewBuffer})>> ELSE <<>>
<1>1. HeapShape /\ Readable(1)
  BY DEF CallsMade, Supported
<1>2. ResultBuffers \in SUBSET Buffers
  BY <1>1, OwnedBuffers DEF ResultBuffers
<1>3. Leads(AllocResult({}), OwnBuffers, {}, ResultBuffers)
  BY <1>1, ResultLeads
<1>4. Leads(load, OwnBuffers, ResultBuffers, ResultBuffers)
  BY <1>1, <1>2, AccessLeads
<1>5. Leads(store, OwnBuffers, ResultBuffers, ResultBuffers)
  <2>1. CASE ResultOnDevice
    <3>1. ResultBuffers = {NewBuffer}
      BY <2>1 DEF ResultBuffers
    <3> QED BY <1>2, <2>1, <3>1, UseLeads
  <2>2. CASE ~ ResultOnDevice
    BY <1>2, <2>2, NoCalls
  <2> QED BY <2>1, <2>2
<1>6. CopyCalls = (AllocResult({}) \o load) \o store
  BY DEF CopyCalls
<1> HIDE DEF load, store
<1>7. Leads(AllocResult({}) \o load, OwnBuffers, {}, ResultBuffers)
  BY <1>3, <1>4, InARow
<1> QED BY <1>5, <1>6, <1>7, InARow

\* The ops whose handler leaves a fresh buffer behind.
Producers == {"mvm", "reduce", "max", "requantize", "copy"}
Kept == IF Cur.op \in Producers THEN ResultBuffers ELSE {}

\* Every handler is balanced: its calls end with the result's buffer or none.
LEMMA CallsLead ==
  ASSUME CallsMade, Target.partialSumInPlace \in BOOLEAN, Target.maxInPlace \in BOOLEAN
  PROVE  Leads(Calls, OwnBuffers, {}, Kept)
<1>0. Leads(<<>>, OwnBuffers, {}, {}) /\ Leads(<<Use({}, {})>>, OwnBuffers, {}, {})
  BY NoCalls, UseLeads
<1>1. CASE Cur.op = "program"
  <2>1. Calls = ProgramCalls /\ Kept = {}
    BY <1>1 DEF Calls, Kept, Producers
  <2> QED BY <1>1, <2>1, ProgramLeads
<1>2. CASE Cur.op = "mvm"
  <2>1. Calls = MvmCalls /\ Kept = ResultBuffers
    BY <1>2 DEF Calls, Kept, Producers
  <2> QED BY <1>2, <2>1, MvmLeads
<1>3. CASE Cur.op = "reduce"
  <2>1. Calls = ReduceCalls(Target.partialSumInPlace) /\ Kept = ResultBuffers
    BY <1>3 DEF Calls, Kept, Producers
  <2>2. Cur.op \in Reductions
    BY <1>3 DEF Reductions
  <2> QED BY <2>1, <2>2, ReduceLeads
<1>4. CASE Cur.op = "max"
  <2>1. Calls = ReduceCalls(Target.maxInPlace) /\ Kept = ResultBuffers
    BY <1>4 DEF Calls, Kept, Producers
  <2>2. Cur.op \in Reductions
    BY <1>4 DEF Reductions
  <2> QED BY <2>1, <2>2, ReduceLeads
<1>5. CASE Cur.op = "requantize"
  <2>1. Calls = RequantizeCalls /\ Kept = ResultBuffers
    BY <1>5 DEF Calls, Kept, Producers
  <2> QED BY <1>5, <2>1, RequantizeLeads
<1>6. CASE Cur.op = "copy"
  <2>1. Calls = CopyCalls /\ Kept = ResultBuffers
    BY <1>6 DEF Calls, Kept, Producers
  <2> QED BY <1>6, <2>1, CopyLeads
<1>7. CASE Cur.op = "mcopy"
  <2>1. Calls = Access(View(Arg(1)), {}) \o Access(View(Arg(2)), {}) /\ Kept = {}
    BY <1>7 DEF Calls, Kept, Producers
  <2>2. Readable(1) /\ Readable(2)
    BY <1>7 DEF CallsMade, Supported
  <2>3. Leads(Access(View(Arg(1)), {}), OwnBuffers, {}, {}) /\ Leads(Access(View(Arg(2)), {}), OwnBuffers, {}, {})
    BY <2>2, AccessLeads
  <2> QED BY <2>1, <2>3, InARow
<1>8. CASE Cur.op \in {"fill", "print"}
  <2>1. Calls = Access(View(Arg(1)), {}) /\ Kept = {}
    BY <1>8 DEF Calls, Kept, Producers
  <2>2. Readable(1)
    BY <1>8 DEF CallsMade, Supported
  <2> QED BY <2>1, <2>2, AccessLeads
<1>9. CASE Cur.op = "open"
  <2>1. Calls \in {<<>>, <<Use({}, {})>>} /\ Kept = {}
    BY <1>9 DEF Calls, Kept, Producers
  <2> QED BY <1>0, <2>1
<1>10. CASE Cur.op \in {"tile", "barrier"}
  <2>1. Calls = <<Use({}, {})>> /\ Kept = {}
    BY <1>10 DEF Calls, Kept, Producers
  <2> QED BY <1>0, <2>1
<1>11. CASE Cur.op \notin {"program", "mvm", "reduce", "max", "requantize", "copy", "mcopy",
                           "fill", "print", "open", "tile", "barrier"}
  <2>1. Calls = <<>> /\ Kept = {}
    BY <1>11 DEF Calls, Kept, Producers
  <2> QED BY <1>0, <2>1
<1> QED BY <1>1, <1>2, <1>3, <1>4, <1>5, <1>6, <1>7, <1>8, <1>9, <1>10, <1>11
-----------------------------------------------------------------------------
(* The handlers' calls and the state.  While a handler is between two calls, *)
(* what exists is what the bound values own and what the handler has.        *)

MidHandler(has) ==
  /\ IsLedger(has, Calls, OwnBuffers) /\ has[0] = {} /\ has[Len(Calls)] = Kept
  /\ call \in 0 .. Len(Calls)
  /\ live = OwnBuffers \cup has[call] /\ has[call] \cap OwnBuffers = {}

BalanceInv ==
  /\ IInv /\ HeapShape
  /\ status = "running" /\ call # 0 =>
       ~ AtEnd /\ Calls \in Seq(CallSet) /\ \E has : MidHandler(has)
  /\ call = 0 \/ status # "running" => live = OwnBuffers

\* Also before its first call a handler has such a ledger.
LEMMA InHandler ==
  ASSUME BalanceInv, Executing
  PROVE  Calls \in Seq(CallSet) /\ \E has : MidHandler(has)
<1>1. IInv /\ ~ AtEnd /\ CurInModule
  BY CurrentOp DEF BalanceInv, Executing
<1>2. CASE call # 0
  BY <1>2 DEF BalanceInv, Executing
<1>3. CASE call = 0
  <2>1. CallsMade
    BY <1>1, Parts DEF CallsMade, BalanceInv, Executing, CurInModule
  <2>2. Target.partialSumInPlace \in BOOLEAN /\ Target.maxInPlace \in BOOLEAN
    BY <1>1, ModulesAssumption DEF IInv, IsModule, Target
  <2>3. Leads(Calls, OwnBuffers, {}, Kept)
    BY <2>1, <2>2, CallsLead
  <2>4. Calls \in Seq(CallSet)
    BY <2>3 DEF Leads
  <2>5. PICK has : IsLedger(has, Calls, OwnBuffers) /\ has[0] = {} /\ has[Len(Calls)] = Kept
    BY <2>3 DEF Leads
  <2>6. live = OwnBuffers
    BY <1>3 DEF BalanceInv
  <2>7. Len(Calls) \in Nat
    BY <2>4
  <2>8. MidHandler(has)
    BY <1>3, <2>5, <2>6, <2>7 DEF MidHandler
  <2> QED BY <2>4, <2>8
<1> QED BY <1>2, <1>3

\* What the next call does is legal.
LEMMA NextIsLegal ==
  ASSUME BalanceInv, Executing, NEW has, MidHandler(has), call < Len(Calls)
  PROVE  /\ call + 1 \in 1 .. Len(Calls) /\ has[call + 1] = Then(NextCall, has[call])
         /\ Legal(NextCall, OwnBuffers, has[call])
<1>1. Len(Calls) \in Nat /\ call \in Nat
  BY InHandler DEF BalanceInv, IInv, TypeOK
<1>2. call + 1 \in 1 .. Len(Calls) /\ (call + 1) - 1 = call
  BY <1>1
<1> QED BY <1>2 DEF MidHandler, IsLedger, NextCall

LEMMA BalanceImplied ==
  ASSUME BalanceInv
  PROVE  BuffersBalance
<1>1. ASSUME Executing, call < Len(Calls)
      PROVE  /\ NextCall.uses \cup NextCall.free \cup NextCall.held \subseteq live
             /\ NextCall.alloc \cap live = {}
  <2>1. PICK has : MidHandler(has)
    BY <1>1, InHandler
  <2>2. Legal(NextCall, OwnBuffers, has[call])
    BY <1>1, <2>1, NextIsLegal
  <2>3. live = OwnBuffers \cup has[call]
    BY <2>1 DEF MidHandler
  <2> QED BY <2>2, <2>3 DEF Legal
<1> QED BY <1>1 DEF BuffersBalance, BalanceInv, Executing

\* While a handler makes its calls, they stay what they are.
LEMMA SameCalls ==
  ASSUME UNCHANGED <<module, frames, memrefs, heap, isOpen>>
  PROVE  Calls' = Calls /\ OwnBuffers' = OwnBuffers /\ Kept' = Kept /\ AtEnd' = AtEnd
<1>1. Cur' = Cur /\ Target' = Target /\ AtEnd' = AtEnd
  BY DEF Cur, Target, AtEnd, TopFrame
<1>2. \A i : Arg(i)' = Arg(i)
  BY <1>1 DEF Arg
<1>3. \A v, held : Access(View(v), held)' = Access(View(v), held)
  BY DEF Access, View, OnDevice, Buffer
<1>4. \A i, held : Access(View(Arg(i)), held)' = Access(View(Arg(i)), held)
  BY <1>2 DEF Access, View, OnDevice, Buffer
<1>5. NewAlloc' = NewAlloc
  BY DEF NewAlloc
<1>6. NewBuffer' = NewBuffer /\ ResultOnDevice' = ResultOnDevice
  BY <1>1, <1>5 DEF NewBuffer, ResultOnDevice
<1>7. /\ ResultBuffers' = ResultBuffers /\ WriteResult' = WriteResult
      /\ AllocResult({})' = AllocResult({})
  BY <1>6 DEF ResultBuffers, WriteResult, AllocResult
<1>8. ProgramCalls' = ProgramCalls /\ MvmCalls' = MvmCalls /\ RequantizeCalls' = RequantizeCalls
  BY <1>4, <1>6, <1>7 DEF ProgramCalls, MvmCalls, RequantizeCalls
<1>9. CopyCalls' = CopyCalls
  BY <1>4, <1>6, <1>7 DEF CopyCalls
<1>10. StageCalls' = StageCalls
  <2> DEFINE one(i) == Access(View(Arg(i)), Staged(i - 1))
                       \o <<Alloc1(<<"staged", i>>, Staged(i - 1)), Use({<<"staged", i>>}, Staged(i))>>
             all == [i \in DOMAIN Cur.args |-> one(i)]
  <2>1. \A i : one(i)' = one(i)
    BY <1>4
  <2>2. all' = [i \in DOMAIN Cur'.args |-> one(i)']
    OBVIOUS
  <2>3. all' = all
    BY <1>1, <2>1
  <2>4. StageCalls = FlattenSeq(all) /\ StageCalls' = FlattenSeq(all')
    BY DEF StageCalls
  <2> QED BY <2>3, <2>4
<1>11. \A inPlace : ReduceCalls(inPlace)' = ReduceCalls(inPlace)
  BY <1>1, <1>7, <1>10 DEF ReduceCalls
<1>12. OwnBuffers' = OwnBuffers
  BY DEF OwnBuffers
<1>13. Kept' = Kept
  BY <1>1, <1>7 DEF Kept
<1>14. Calls' = Calls
  BY <1>1, <1>4, <1>8, <1>9, <1>11 DEF Calls
<1> QED BY <1>1, <1>12, <1>13, <1>14

\* A call that succeeds moves on in the ledger.
LEMMA CallSucceedsStep ==
  ASSUME BalanceInv, CallSucceeds
  PROVE  BalanceInv'
<1>0. IInv'
  BY NextIInv DEF BalanceInv, Next, Progress
<1>1. /\ Executing /\ call < Len(Calls) /\ call' = call + 1 /\ status' = "running"
      /\ live' = (live \cup NextCall.alloc) \ NextCall.free
      /\ UNCHANGED <<module, frames, memrefs, heap, isOpen>>
  BY DEF CallSucceeds, data, Executing
<1>2. PICK has : MidHandler(has)
  BY <1>1, InHandler
<1>3. /\ call + 1 \in 1 .. Len(Calls) /\ has[call + 1] = Then(NextCall, has[call])
      /\ Legal(NextCall, OwnBuffers, has[call])
  BY <1>1, <1>2, NextIsLegal
<1>4. Calls' = Calls /\ OwnBuffers' = OwnBuffers /\ Kept' = Kept /\ AtEnd' = AtEnd
  BY <1>1, SameCalls
<1>5. live' = OwnBuffers \cup has[call + 1] /\ has[call + 1] \cap OwnBuffers = {}
  BY <1>1, <1>2, <1>3 DEF MidHandler, Legal, Then
<1>6. Calls \in Seq(CallSet) /\ ~ AtEnd /\ call' # 0
  <2>1. call \in Nat
    BY DEF BalanceInv, IInv, TypeOK
  <2> QED BY <1>1, <2>1, InHandler DEF Executing
<1>7. MidHandler(has)'
  <2>1. call' \in 0 .. Len(Calls)
    BY <1>1, <1>3
  <2> QED BY <1>1, <1>2, <1>4, <1>5, <2>1 DEF MidHandler
<1>8. HeapShape'
  BY <1>1 DEF BalanceInv, HeapShape
<1> QED BY <1>0, <1>1, <1>4, <1>6, <1>7, <1>8 DEF BalanceInv

\* A call that fails leaves only what the bound values own.
LEMMA CallFailsStep ==
  ASSUME BalanceInv, CallFails
  PROVE  BalanceInv'
<1>0. IInv'
  BY NextIInv DEF BalanceInv, Next
<1>1. /\ Executing /\ call < Len(Calls) /\ NextCall.fallible /\ status' = "failed"
      /\ live' = live \ NextCall.held
      /\ UNCHANGED <<module, frames, memrefs, heap, isOpen>>
  BY DEF CallFails, data
<1>2. PICK has : MidHandler(has)
  BY <1>1, InHandler
<1>3. Legal(NextCall, OwnBuffers, has[call])
  BY <1>1, <1>2, NextIsLegal
<1>4. live' = OwnBuffers'
  BY <1>1, <1>2, <1>3, SameCalls DEF MidHandler, Legal
<1>5. HeapShape'
  BY <1>1 DEF BalanceInv, HeapShape
<1> QED BY <1>0, <1>1, <1>4, <1>5 DEF BalanceInv

\* When its calls are done a handler has its result's buffer, or nothing.
LEMMA WhenDone ==
  ASSUME BalanceInv, Executing, call = Len(Calls)
  PROVE  live = OwnBuffers \cup Kept
BY InHandler DEF MidHandler

\* A handler that makes no call has made none.
LEMMA NoCallYet ==
  ASSUME BalanceInv, Executing, Calls = <<>>
  PROVE  call = 0 /\ live = OwnBuffers
<1>1. Len(Calls) = 0
  OBVIOUS
<1>2. call = 0
  BY <1>1, InHandler DEF MidHandler
<1> QED BY <1>2 DEF BalanceInv

\* What a heap's allocations own.
Owned(allocs) == {<<"heap", a>> : a \in {b \in DOMAIN allocs : allocs[b].onDevice}}
Shaped(allocs) ==
  /\ IsFiniteSet(DOMAIN allocs) /\ DOMAIN allocs \subseteq Nat
  /\ \A a \in DOMAIN allocs :
       allocs[a].onDevice \in BOOLEAN /\ DOMAIN allocs[a] = {"onDevice", "elems"}

LEMMA OwnedByHeap == OwnBuffers = Owned(heap) /\ (HeapShape <=> Shaped(heap))
BY DEF OwnBuffers, Owned, HeapShape, Shaped

\* Dropping allocations frees what they own and nothing else.
LEMMA ReboundBalance ==
  ASSUME NEW views, NEW allocs, NEW buffers, Rebound(views, allocs, buffers),
         Shaped(allocs), buffers = Owned(allocs)
  PROVE  Shaped(heap') /\ live' = Owned(heap')
<1> DEFINE used == {views[v].alloc : v \in DOMAIN views}
<1>1. /\ heap' = [a \in DOMAIN allocs \cap used |-> allocs[a]]
      /\ live' = buffers \ {<<"heap", a>> : a \in DOMAIN allocs \ used}
  BY DEF Rebound
<1>2. DOMAIN heap' = DOMAIN allocs \cap used /\ \A a \in DOMAIN heap' : heap'[a] = allocs[a]
  BY <1>1
<1>3. IsFiniteSet(DOMAIN allocs \cap used)
  BY FS_Intersection DEF Shaped
<1> HIDE DEF used
<1>4. Shaped(heap')
  BY <1>2, <1>3 DEF Shaped
<1>5. live' = Owned(heap')
  BY <1>1, <1>2 DEF Owned
<1> QED BY <1>4, <1>5

\* A fresh allocation owns the buffer that the handler kept for it.
LEMMA FreshBalance ==
  ASSUME HeapShape, NEW sizes, NEW elems, NEW onDevice \in BOOLEAN, NEW buffers,
         BindFresh(sizes, elems, onDevice, buffers),
         buffers = OwnBuffers \cup (IF onDevice THEN {NewBuffer} ELSE {})
  PROVE  Shaped(heap') /\ live' = Owned(heap')
<1> DEFINE a == NewAlloc
           views == Bind(memrefs, Cur.res, FreshView(a, sizes))
           new == [onDevice |-> onDevice, elems |-> elems]
           allocs == Bind(heap, a, new)
<1>1. a \in Nat /\ a \notin DOMAIN heap
  BY NewIsFree
<1>2. /\ DOMAIN allocs = DOMAIN heap \cup {a} /\ allocs[a] = new
      /\ \A b \in DOMAIN heap : allocs[b] = heap[b]
  BY <1>1 DEF Bind
<1>3. new.onDevice = onDevice /\ DOMAIN new = {"onDevice", "elems"}
  OBVIOUS
<1>4. Rebound(views, allocs, buffers)
  BY DEF BindFresh
<1>5. NewBuffer = <<"heap", a>>
  BY DEF NewBuffer
<1>6. IsFiniteSet(DOMAIN heap \cup {a})
  BY FS_AddElement DEF HeapShape
<1> HIDE DEF a, views, new, allocs
<1>7. Shaped(allocs)
  BY <1>1, <1>2, <1>3, <1>6 DEF HeapShape, Shaped
<1>8. buffers = Owned(allocs)
  <2>1. CASE onDevice
    BY <1>1, <1>2, <1>3, <1>5, <2>1 DEF OwnBuffers, Owned
  <2>2. CASE ~ onDevice
    BY <1>1, <1>2, <1>3, <2>2 DEF OwnBuffers, Owned
  <2> QED BY <2>1, <2>2
<1> QED BY <1>4, <1>7, <1>8, ReboundBalance

\* What a handler that goes on to the next op has to show.
LEMMA HandlerBalance ==
  ASSUME BalanceInv, Advance, IInv', Shaped(heap'), live' = Owned(heap')
  PROVE  BalanceInv'
<1>1. call' = 0
  BY DEF Advance
<1>2. OwnBuffers' = Owned(heap') /\ HeapShape'
  BY DEF OwnBuffers, Owned, HeapShape, Shaped
<1> QED BY <1>1, <1>2 DEF BalanceInv

\* Handlers whose result is a fresh allocation.
LEMMA FreshHandlersBalance ==
  ASSUME BalanceInv, RunGetGlobal \/ RunAlloc \/ RunMvm \/ RunReducePartial \/ RunReduceMax
                     \/ RunCimCopy \/ RunRequantize
  PROVE  BalanceInv'
<1>0. IInv /\ IInv' /\ HeapShape
  BY NextIInv DEF BalanceInv, Next, Progress
<1>1. Advance
  BY DEF RunGetGlobal, RunAlloc, RunMvm, RunReducePartial, RunReduceMax, RunCimCopy, RunRequantize
<1>2. PICK onDevice \in BOOLEAN :
        /\ \E sizes, elems : BindFresh(sizes, elems, onDevice, live)
        /\ live = OwnBuffers \cup (IF onDevice THEN {NewBuffer} ELSE {})
  <2>1. CASE RunGetGlobal \/ RunAlloc
    <3>1. \E sizes, elems : BindFresh(sizes, elems, FALSE, live)
      BY <2>1 DEF RunGetGlobal, RunAlloc
    <3>2. Executing /\ Calls = <<>>
      BY <2>1 DEF RunGetGlobal, RunAlloc, Completes, Calls
    <3>3. live = OwnBuffers \cup (IF FALSE THEN {NewBuffer} ELSE {})
      BY <3>2, NoCallYet
    <3> WITNESS FALSE \in BOOLEAN
    <3> QED BY <3>1, <3>3
  <2>2. CASE RunMvm \/ RunReducePartial \/ RunReduceMax \/ RunCimCopy \/ RunRequantize
    <3>1. \E sizes, elems : BindFresh(sizes, elems, ResultOnDevice, live)
      BY <2>2 DEF RunMvm, RunReducePartial, RunReduceMax, RunCimCopy, RunRequantize
    <3>2. Executing /\ call = Len(Calls) /\ Cur.op \in Producers
      BY <2>2 DEF RunMvm, RunReducePartial, RunReduceMax, RunCimCopy, RunRequantize, Completes, Producers
    <3>3. live = OwnBuffers \cup (IF ResultOnDevice THEN {NewBuffer} ELSE {})
      BY <3>2, WhenDone DEF Kept, ResultBuffers
    <3>4. ResultOnDevice \in BOOLEAN
      BY <1>0, Parts DEF ResultOnDevice, IsDeviceSpace
    <3> WITNESS ResultOnDevice \in BOOLEAN
    <3> QED BY <3>1, <3>3
  <2> QED BY <2>1, <2>2
<1>3. Shaped(heap') /\ live' = Owned(heap')
  BY <1>0, <1>2, FreshBalance
<1> QED BY <1>0, <1>1, <1>3, HandlerBalance

\* Writing into memory does not change who owns what.
LEMMA ScatterOwns ==
  ASSUME Shaped(heap), NEW a, NEW elems, heap' = [heap EXCEPT ![a].elems = elems]
  PROVE  Shaped(heap') /\ Owned(heap') = Owned(heap)
<1>1. DOMAIN heap' = DOMAIN heap
  OBVIOUS
<1>2. \A b \in DOMAIN heap : heap'[b].onDevice = heap[b].onDevice /\ DOMAIN heap'[b] = {"onDevice", "elems"}
  BY DEF Shaped
<1> QED BY <1>1, <1>2 DEF Shaped, Owned

\* The other handlers leave nothing behind.
LEMMA OtherHandlersBalance ==
  ASSUME BalanceInv,
         \/ RunView \/ RunMemRefCopy \/ RunLinalgFill \/ RunCall \/ RunDeviceOpen \/ RunTileAlloc
         \/ RunProgram \/ RunNothing \/ RunLoadStore \/ SkipLoop
  PROVE  BalanceInv'
<1>0. IInv /\ IInv' /\ HeapShape
  BY NextIInv DEF BalanceInv, Next, Progress
<1>1. Advance /\ Executing
  BY DEF RunView, RunMemRefCopy, RunLinalgFill, RunCall, RunDeviceOpen, RunTileAlloc, RunProgram,
         RunNothing, RunLoadStore, SkipLoop, Completes
<1>2. Cur.op \notin Producers
  BY DEF RunView, RunMemRefCopy, RunLinalgFill, RunCall, RunDeviceOpen, RunTileAlloc, RunProgram,
         RunNothing, RunLoadStore, SkipLoop, Completes, Producers, Views
<1>3. live = Owned(heap) /\ Shaped(heap)
  <2>1. call = Len(Calls)
    <3>1. CASE SkipLoop
      <4>1. Calls = <<>> /\ Len(<<>>) = 0
        BY <3>1 DEF SkipLoop, Calls
      <4> QED BY <1>1, <4>1, NoCallYet
    <3>2. CASE ~ SkipLoop
      BY <3>2 DEF RunView, RunMemRefCopy, RunLinalgFill, RunCall, RunDeviceOpen, RunTileAlloc, RunProgram,
         RunNothing, RunLoadStore, Completes
    <3> QED BY <3>1, <3>2
  <2> QED BY <1>0, <1>1, <1>2, <2>1, WhenDone, OwnedByHeap DEF Kept
<1>4. CASE RunView
  <2>1. PICK views : Rebound(views, heap, live)
    BY <1>4 DEF RunView
  <2>2. Shaped(heap') /\ live' = Owned(heap')
    BY <1>3, <2>1, ReboundBalance
  <2> QED BY <1>0, <1>1, <2>2, HandlerBalance
<1>5. CASE RunMemRefCopy \/ RunLinalgFill \/ RunLoadStore
  <2>1. PICK a, elems : heap' = [heap EXCEPT ![a].elems = elems]
    BY <1>5 DEF RunMemRefCopy, RunLinalgFill, RunLoadStore, Scatter
  <2>2. live' = live
    BY <1>5 DEF RunMemRefCopy, RunLinalgFill, RunLoadStore
  <2>3. Shaped(heap') /\ live' = Owned(heap')
    BY <1>3, <2>1, <2>2, ScatterOwns
  <2> QED BY <1>0, <1>1, <2>3, HandlerBalance
<1>6. CASE RunCall \/ RunDeviceOpen \/ RunTileAlloc \/ RunProgram \/ RunNothing \/ SkipLoop
  <2>1. heap' = heap /\ live' = live
    BY <1>6 DEF RunCall, RunDeviceOpen, RunTileAlloc, RunProgram, RunNothing, SkipLoop, KeepMemory, data
  <2> QED BY <1>0, <1>1, <1>3, <2>1, HandlerBalance
<1> QED BY <1>4, <1>5, <1>6

\* Between two ops the run may enter a loop, leave it, refuse the op or end.
LEMMA BetweenOpsBalance ==
  ASSUME BalanceInv, EnterLoop \/ EndBody \/ Refuse \/ Finish
  PROVE  BalanceInv'
<1>0. IInv' /\ HeapShape
  BY NextIInv DEF BalanceInv, Next, Progress
<1>1. call = 0
  <2>1. CASE EnterLoop
    <3>1. Executing /\ Calls = <<>>
      BY <2>1 DEF EnterLoop, Calls
    <3> QED BY <3>1, NoCallYet
  <2>2. CASE EndBody \/ Finish
    BY <2>2 DEF BalanceInv, EndBody, Finish
  <2>3. CASE Refuse
    BY <2>3 DEF Refuse
  <2> QED BY <2>1, <2>2, <2>3
<1>2. UNCHANGED <<call, live, heap>>
  BY DEF EnterLoop, EndBody, Refuse, Finish, data
<1>3. live = OwnBuffers
  BY <1>1 DEF BalanceInv
<1>4. OwnBuffers' = OwnBuffers /\ HeapShape'
  BY <1>0, <1>2 DEF OwnBuffers, HeapShape
<1> QED BY <1>0, <1>1, <1>2, <1>3, <1>4 DEF BalanceInv

\* The members of the interpreter release what is left.
LEMMA TeardownBalance ==
  ASSUME BalanceInv, Teardown
  PROVE  BalanceInv'
<1>0. IInv'
  BY NextIInv DEF BalanceInv, Next, Progress
<1>1. status' = "closed" /\ live' = live \ OwnBuffers /\ DOMAIN heap' = {} /\ status # "running"
  BY DEF Teardown
<1>2. live' = {}
  BY <1>1 DEF BalanceInv
<1>3. OwnBuffers' = {} /\ HeapShape'
  BY <1>1, FS_EmptySet DEF OwnBuffers, HeapShape
<1> QED BY <1>0, <1>1, <1>2, <1>3 DEF BalanceInv

LEMMA InitBalance == Init => BalanceInv
<1> SUFFICES ASSUME Init PROVE BalanceInv
  OBVIOUS
<1>1. DOMAIN heap = {} /\ live = {} /\ call = 0
  BY DEF Init
<1> QED BY <1>1, InitIInv, FS_EmptySet DEF BalanceInv, HeapShape, OwnBuffers

LEMMA NextBalance == BalanceInv /\ [Next]_vars => BalanceInv'
<1> SUFFICES ASSUME BalanceInv, [Next]_vars PROVE BalanceInv'
  OBVIOUS
<1>1. CASE UNCHANGED vars
  <2>1. UNCHANGED <<module, status, frames, call, live, memrefs, heap, isOpen>>
    BY <1>1 DEF vars, data
  <2>2. Calls' = Calls /\ OwnBuffers' = OwnBuffers /\ Kept' = Kept /\ AtEnd' = AtEnd
    BY <2>1, SameCalls
  <2>3. IInv'
    BY <1>1, NextIInv DEF BalanceInv
  <2>4. \A has : MidHandler(has)' <=> MidHandler(has)
    BY <2>1, <2>2 DEF MidHandler
  <2>5. HeapShape'
    BY <2>1 DEF BalanceInv, HeapShape
  <2> QED BY <2>1, <2>2, <2>3, <2>4, <2>5 DEF BalanceInv
<1>2. CASE CallSucceeds \/ CallFails
  BY <1>2, CallSucceedsStep, CallFailsStep
<1>3. CASE EnterLoop \/ EndBody \/ Refuse \/ Finish
  BY <1>3, BetweenOpsBalance
<1>4. CASE Teardown
  BY <1>4, TeardownBalance
<1> QED BY <1>1, <1>2, <1>3, <1>4, FreshHandlersBalance, OtherHandlersBalance DEF Next, Progress

\* Whatever modules are run and wherever a call fails: no handler passes or
\* frees a buffer of the runtime that does not exist, none is allocated twice,
\* and a handler that returns, with a result or an error, has freed all that it
\* took for itself ("Freed on every exit path", stageReduction and its callers).
THEOREM BuffersBalanced == Spec => []BuffersBalance
<1>1. BalanceInv => BuffersBalance
  BY BalanceImplied
<1> QED BY InitBalance, NextBalance, <1>1, PTL DEF Spec
=============================================================================
