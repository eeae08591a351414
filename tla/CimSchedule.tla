---------------------------- MODULE CimSchedule -----------------------------
(***************************************************************************)
(* cim-schedule (lib/Transforms/CIMSchedule.cpp) puts cim.barrier ops in a *)
(* function, cim-insert-transfers (lib/Transforms/CIMInsertTransfers.cpp)  *)
(* then copies far activations into near space.  This module builds any    *)
(* small function of device and host ops around one nest of loops,         *)
(* applies the two passes in pipeline order, and runs the result on        *)
(* devices that work asynchronously: the host queues cim.program and       *)
(* cim.mvm, each device takes its queue in order, and cim.barrier waits    *)
(* until a device's queue is empty.                                        *)
(*                                                                         *)
(* A value is the number of the op that defines it.  The content of a      *)
(* buffer is the term that computed it; mem holds the contents as the      *)
(* devices and the host leave them, ref those of a run that does every op  *)
(* at once, in source order and without copies.                            *)
(*                                                                         *)
(* Functions have the form cim-partition gives them: a resident comes from *)
(* a cim.program, and no activation is written after an op that reads it   *)
(* (textually: in a loop the next iteration may write it again).  Whether  *)
(* a loop may write a far activation that was defined before it is a       *)
(* parameter: isLoopInvariant looks at definitions only.                   *)
(* Abstracted: shapes, tiles, costs; barriers of several devices at one    *)
(* place come in any order.                                                *)
(*                                                                         *)
(* A block is known by its depth: 1 is the function's, b + 1 the body of   *)
(* the loop in block b.                                                    *)
(***************************************************************************)
EXTENDS Naturals, Sequences, FiniteSets, SequencesExt

CONSTANTS
  Devices,       \* the opened devices
  Depth,         \* the blocks of the nest: the function's, one for each loop
  MaxOps,        \* bound on the ops of a function besides the loops
  Trips,         \* iterations of a loop
  LoopsRewrite   \* a loop may write the activation that its cim.mvm reads
                 \* though it is defined before the loop

Host == "host"

ASSUME ScheduleAssumption ==
  /\ IsFiniteSet(Devices) /\ Host \notin Devices
  /\ Depth \in Nat \ {0} /\ Trips \in Nat \ {0}
  /\ MaxOps \in Nat /\ LoopsRewrite \in BOOLEAN

VARIABLES
  phase,   \* what happens next: build, schedule, transfers, run, done
  cursor,  \* the block that gets the next op
  blocks,  \* the ops of each block
  pc,      \* while it runs: the host's frames, one for each block it is in
  queue,   \* what each device has been given and has not finished: an op,
           \* and the iteration it is for
  mem,     \* contents in this run
  ref      \* contents in a sequential run of the function as it was built

vars == <<phase, cursor, blocks, pc, queue, mem, ref>>

Blocks       == 1 .. Depth
Within(b)    == b .. Depth
Enclosing(b) == 1 .. b

\* The buffers a function takes as arguments, one in near and one in far space.
NearArg == 1
FarArg  == 2
Args    == {NearArg, FarArg}

Ops(b)  == {blocks[b][i] : i \in DOMAIN blocks[b]}
AllOps  == UNION {Ops(b) : b \in Blocks}
Results(kind) == {o.id : o \in {p \in AllOps : p.kind = kind}}
OpCount == Cardinality({o \in AllOps : o.kind # "for"})
Fresh   == 1 + Max(Args \cup {o.id : o \in AllOps})

\* dev is the device that an op issues work to, as deviceFor traces it
\* through cim.program and cim.tile_alloc; act is the activation as built,
\* src where the op finds it after cim-insert-transfers.
Op(kind, dev, reads, act) ==
  [id |-> Fresh, kind |-> kind, dev |-> dev, reads |-> reads, act |-> act, src |-> act]

DefinedIn(v, b) == \E o \in Ops(b) : o.id = v
HomeBlock(v) == IF v \in Args THEN 1 ELSE CHOOSE b \in Blocks : DefinedIn(v, b)
Visible(v)   == v \in Args \/ \E b \in Enclosing(cursor) : DefinedIn(v, b)
Buffers      == Args \cup Results("stage") \cup Results("mvm")
Far(v)       == v \in {FarArg} \cup Results("stage")
Writes(v, b) == \E a \in Within(b) : \E o \in Ops(a) : o.kind = "write" /\ o.act = v
IsRead(v)    == \E o \in AllOps : o.kind # "write" /\ v \in o.reads
IsDeviceOp(o) == o.dev # Host
-----------------------------------------------------------------------------
(* Building a function.                                                    *)

Append1(op) == blocks' = [blocks EXCEPT ![cursor] = Append(@, op)]
BuildOnly   == UNCHANGED <<phase, pc, queue, mem, ref>>
Room        == phase = "build" /\ OpCount < MaxOps

Program(d) ==
  /\ Room
  /\ Append1(Op("program", d, {}, 0))
  /\ UNCHANGED cursor /\ BuildOnly

\* Mutant: whatever a loop reads can be copied before it.
LoopInvariantAlways(v, b) == b # 1

\* isLoopInvariant for the nearest loop, seen from the block of the cim.mvm.
LoopInvariant(v, b) == HomeBlock(v) < b

Mvm ==
  /\ Room
  /\ \E p \in AllOps, v \in Buffers :
       /\ p.kind = "program" /\ Visible(p.id) /\ Visible(v)
       /\ Far(v) /\ LoopInvariant(v, cursor) /\ Writes(v, cursor) => LoopsRewrite
       /\ Append1(Op("mvm", p.dev, {p.id, v}, v))
  /\ UNCHANGED cursor /\ BuildOnly

\* memref.alloc and what fills it: a fresh far activation.
Stage ==
  /\ Room
  /\ Append1(Op("stage", Host, {}, 0))
  /\ UNCHANGED cursor /\ BuildOnly

\* memref.copy into a buffer that nothing read so far.
Write ==
  /\ Room
  /\ \E v \in Args \cup Results("stage") :
       /\ Visible(v) /\ ~ IsRead(v) /\ ~ Writes(v, 1)   \* bound: one write a buffer
       /\ Append1(Op("write", Host, {v}, v))
  /\ UNCHANGED cursor /\ BuildOnly

\* cim.copy, cim.requantize, cim.reduce_partial, ... of a device's result.
Read ==
  /\ Room
  /\ \E v \in Results("mvm") : Visible(v) /\ Append1(Op("read", Host, {v}, 0))
  /\ UNCHANGED cursor /\ BuildOnly

EnterLoop ==
  /\ phase = "build" /\ cursor < Depth
  /\ blocks[cursor + 1] = <<>>
  /\ Append1(Op("for", Host, {}, 0))
  /\ cursor' = cursor + 1
  /\ BuildOnly

LeaveLoop ==
  /\ phase = "build" /\ cursor > 1 /\ blocks[cursor] # <<>>
  /\ cursor' = cursor - 1
  /\ UNCHANGED blocks /\ BuildOnly

\* An op without a result and without operands.
Mark(kind, dev) ==
  [id |-> 0, kind |-> kind, dev |-> dev, reads |-> {}, act |-> 0, src |-> 0]

\* func.return and scf.yield end each block.  A function without dead ops: what
\* is programmed, staged or written is read.
Return ==
  /\ phase = "build" /\ cursor = 1
  /\ Results("mvm") # {}
  /\ \A o \in AllOps :
       /\ o.kind \in {"program", "stage"} => IsRead(o.id)
       /\ o.kind = "write" => IsRead(o.act)
  /\ blocks' = [b \in Blocks |-> Append(blocks[b], Mark("end", Host))]
  /\ phase' = "schedule"
  /\ UNCHANGED <<cursor, pc, queue, mem, ref>>
-----------------------------------------------------------------------------
(* The two passes.                                                         *)

\* An op of block b and what is nested in it: the nest is the only one.
NestedOps(b, op) ==
  IF op.kind = "for" THEN {op} \cup UNION {Ops(a) : a \in Within(b + 1)} ELSE {op}

\* Mutant: the operands of the op itself, not those in its regions.
dependsDirectly(b, op, results) == op.reads \cap results # {}
dependsOnAny(b, op, results) == \E nested \in NestedOps(b, op) : nested.reads \cap results # {}

Barrier(d) == Mark("barrier", d)

\* Mutant: nothing is flushed at the end of a block.
ToFlushWhenRead(b, op, i, pending) ==
  {d \in Devices : ~ (IsDeviceOp(op) /\ op.dev = d) /\ dependsOnAny(b, op, pending[d])}

\* The devices that need a barrier before op, the i-th of block b.
ToFlush(b, op, i, pending) ==
  {d \in Devices :
     /\ pending[d] # {}
     /\ ~ (IsDeviceOp(op) /\ op.dev = d)
     /\ (i = Len(blocks[b]) \/ dependsOnAny(b, op, pending[d]))}

\* The results of each device's open run, after so many ops of block b.
Pending(b) ==
  LET pending[i \in 0 .. Len(blocks[b])] ==
        IF i = 0 THEN [d \in Devices |-> {}]
        ELSE LET op == blocks[b][i]
                 toFlush == ToFlush(b, op, i, pending[i - 1])
             IN [d \in Devices |-> (IF d \in toFlush THEN {} ELSE pending[i - 1][d])
                                     \cup (IF op.dev = d THEN {op.id} ELSE {})]
  IN pending

scheduleBlock(b) ==
  LET pending == Pending(b) IN
    FlattenSeq([i \in DOMAIN blocks[b] |->
      SetToSeq({Barrier(d) : d \in ToFlush(b, blocks[b][i], i, pending[i - 1])})
        \o <<blocks[b][i]>>])

Schedule ==
  /\ phase = "schedule"
  /\ blocks' = [b \in Blocks |-> scheduleBlock(b)]
  /\ phase' = "transfers"
  /\ UNCHANGED <<cursor, pc, queue, mem, ref>>

\* Where the copy for a cim.mvm in block b goes: before the loop when its
\* source is defined outside, before the op itself otherwise.
LoopOf(b) == CHOOSE o \in Ops(b - 1) : o.kind = "for"
Anchor(op, b) == IF LoopInvariant(op.act, b) THEN LoopOf(b).id ELSE op.id

\* One copy for each source and anchor, shared by the ops that need it.
CopyOf(v, anchor) == Fresh * v + anchor
Copies(anchor) ==
  {v \in Buffers : Far(v) /\ \E b \in Blocks : \E op \in Ops(b) :
                     op.kind = "mvm" /\ op.act = v /\ Anchor(op, b) = anchor}
CopyOp(v, anchor) == [id |-> CopyOf(v, anchor), kind |-> "copy", dev |-> Host,
                      reads |-> {v}, act |-> v, src |-> v]

Rewired(op, b) ==
  IF op.kind = "mvm" /\ Far(op.act)
  THEN LET c == CopyOf(op.act, Anchor(op, b)) IN
       [[op EXCEPT !.src = c] EXCEPT !.reads = (@ \ {op.act}) \cup {c}]
  ELSE op

\* The host at the start of a block, in one of its iterations.
Frame(it) == [i |-> 1, it |-> it]

InsertTransfers ==
  /\ phase = "transfers"
  /\ blocks' = [b \in Blocks |-> FlattenSeq([i \in DOMAIN blocks[b] |->
       LET op     == blocks[b][i]
           copies == IF op.id = 0 THEN {} ELSE Copies(op.id)
       IN SetToSeq({CopyOp(v, op.id) : v \in copies}) \o <<Rewired(op, b)>>])]
  /\ phase' = "run"
  /\ pc' = <<Frame(1)>>
  /\ UNCHANGED <<cursor, queue, mem, ref>>
-----------------------------------------------------------------------------
(* The run.                                                                *)

Block    == Len(pc)                             \* the block the host is in
Iteration == pc[Block].it
Current  == blocks[Block][pc[Block].i]
At       == [k \in DOMAIN pc |-> pc[k].it]      \* the iteration the host is in
Advance  == pc' = [pc EXCEPT ![Block].i = @ + 1]
Running(kinds) == phase = "run" /\ Current.kind \in kinds

\* Before anything is written to it, a buffer holds what it came with.
Get(m, v) == IF v \in DOMAIN m THEN m[v] ELSE <<v>>
Put(m, v, content) == [u \in {v} \cup DOMAIN m |-> IF u = v THEN content ELSE m[u]]

Issue ==
  /\ Running({"program", "mvm"})
  /\ LET op == Current IN
     /\ queue' = [queue EXCEPT ![op.dev] = Append(@, [op |-> op, at |-> At])]
     /\ ref' = IF op.kind = "mvm" THEN Put(ref, op.id, <<op.id, At, Get(ref, op.act)>>) ELSE ref
  /\ Advance /\ UNCHANGED <<phase, cursor, blocks, mem>>

Complete(d) ==
  /\ queue[d] # <<>>
  /\ LET op == Head(queue[d]).op
         at == Head(queue[d]).at
     IN mem' = IF op.kind = "mvm" THEN Put(mem, op.id, <<op.id, at, Get(mem, op.src)>>) ELSE mem
  /\ queue' = [queue EXCEPT ![d] = Tail(@)]
  /\ UNCHANGED <<phase, cursor, blocks, pc, ref>>

WaitAtBarrier ==
  /\ Running({"barrier"})
  /\ queue[Current.dev] = <<>>
  /\ Advance /\ UNCHANGED <<phase, cursor, blocks, queue, mem, ref>>

\* The copies are no part of the function as it was built.
HostCopy ==
  /\ Running({"copy"})
  /\ mem' = Put(mem, Current.id, Get(mem, Current.act))
  /\ Advance /\ UNCHANGED <<phase, cursor, blocks, queue, ref>>

HostWrite ==
  /\ Running({"stage", "write"})
  /\ LET v    == IF Current.kind = "stage" THEN Current.id ELSE Current.act
         term == <<Current.id, At>>
     IN mem' = Put(mem, v, term) /\ ref' = Put(ref, v, term)
  /\ Advance /\ UNCHANGED <<phase, cursor, blocks, queue>>

HostRead ==
  /\ Running({"read"})
  /\ Advance /\ UNCHANGED <<phase, cursor, blocks, queue, mem, ref>>

RunLoop ==
  /\ Running({"for"})
  /\ pc' = Append(pc, Frame(1))
  /\ UNCHANGED <<phase, cursor, blocks, queue, mem, ref>>

\* Mutant: one iteration more than the loop has.
MoreTripsLate(it) == it <= Trips
MoreTrips(it) == it < Trips

EndFunction ==
  /\ Running({"end"}) /\ Block = 1
  /\ phase' = "done"
  /\ UNCHANGED <<cursor, blocks, pc, queue, mem, ref>>

EndBody ==
  /\ Running({"end"}) /\ Block > 1
  /\ pc' = IF MoreTrips(Iteration)
           THEN [pc EXCEPT ![Block] = Frame(Iteration + 1)]
           ELSE [Front(pc) EXCEPT ![Block - 1].i = @ + 1]
  /\ UNCHANGED <<phase, cursor, blocks, queue, mem, ref>>

Init ==
  /\ phase = "build" /\ cursor = 1
  /\ blocks = [b \in Blocks |-> <<>>]
  /\ pc = <<>>
  /\ queue = [d \in Devices |-> <<>>]
  /\ mem = <<>> /\ ref = <<>>

Build == Mvm \/ Stage \/ Write \/ Read \/ EnterLoop \/ LeaveLoop \/ Return \/ \E d \in Devices : Program(d)
Step  == Issue \/ WaitAtBarrier \/ HostCopy \/ HostWrite \/ HostRead \/ RunLoop \/ EndFunction \/ EndBody

Next == Build \/ Schedule \/ InsertTransfers \/ Step \/ \E d \in Devices : Complete(d)

Spec == Init /\ [][Next]_vars
-----------------------------------------------------------------------------
Unfinished(d) == {queue[d][k].op.id : k \in DOMAIN queue[d]}
Outstanding   == UNION {Unfinished(d) : d \in Devices}

\* Type correctness.
TypeOK ==
  /\ phase \in {"build", "schedule", "transfers", "run", "done"}
  /\ cursor \in Blocks
  /\ \A d \in Devices : \A k \in DOMAIN queue[d] :
       queue[d][k].op.dev = d /\ queue[d][k].op.kind \in {"program", "mvm"}
  /\ Len(pc) <= Depth
  /\ \A k \in DOMAIN pc : pc[k].i \in DOMAIN blocks[k] /\ pc[k].it \in 1 .. Trips

\* No op reads what a device has not finished: neither the host, at the op it
\* is about to do, nor a device at the op it does next.
NothingReadsUnfinished ==
  /\ phase = "run" /\ ~ IsDeviceOp(Current) => Current.reads \cap Outstanding = {}
  /\ \A d \in Devices : queue[d] # <<>> => Head(queue[d]).op.reads \cap Outstanding = {}

\* When a block ends, in every iteration of a loop, the devices have finished
\* all that was issued in it: nothing outside waits for it.
BlockLeavesNothingOutstanding ==
  Running({"end"}) =>
    Outstanding \cap {o.id : o \in UNION {Ops(b) : b \in Within(Block)}} = {}

\* Each cim.mvm a device has finished computed what a sequential run of the
\* function computes, without barriers and without copies: the activation was
\* not overwritten while the device was still to read it, and its copy in near
\* space, hoisted and shared or not, was made of the same content.
ResultsAreSequential ==
  \A o \in AllOps : o.kind = "mvm" /\ o.id \in DOMAIN ref /\ o.id \notin Outstanding =>
    o.id \in DOMAIN mem /\ mem[o.id] = ref[o.id]
=============================================================================
