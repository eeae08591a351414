------------------------------- MODULE Cimrt --------------------------------
(***************************************************************************)
(* The runtime's C interface on the functional simulator (cimrt.h,         *)
(* runtime/src/simulator/simulator.cpp and cost_model.h): devices, the     *)
(* buffers allocated from them, the cost counters and the profile window.  *)
(*                                                                         *)
(* Handles are addresses, so they are used again: a device opened, or a    *)
(* buffer allocated, after a close or a free may get the address of the    *)
(* old one.  Buffers outlive their device.  Each may be freed and each     *)
(* device closed in any order; a caller passes handles that are live.      *)
(*                                                                         *)
(* The bytes in buffers and on tiles, and the arithmetic on them, are left *)
(* out: what matters here is who owns what and what each call is charged.  *)
(* Energy and latency are linear in the counters and left out with them.   *)
(***************************************************************************)
EXTENDS Integers, FiniteSets

CONSTANTS
  Devices, Buffers,   \* addresses
  NoDevice,           \* cimrt_buffer::dev when null
  Tiles,              \* tile ids below tiles.count
  Sizes,              \* byte sizes the caller uses
  WeightBytes, ActivationBytes, ResultBytes,  \* rows*cols, cols, rows*4
  MaxOpens,           \* bound on cimrt_open calls per address
  MaxCalls            \* bound on calls in all

ASSUME NoDeviceAssumption == NoDevice \notin Devices
ASSUME SizesAssumption == Sizes \subseteq Nat
ASSUME BoundsAssumption == MaxOpens \in Nat /\ MaxCalls \in Nat

Kinds == {"program", "mvm", "requantize", "reduceAdd", "reduceMax", "bytes"}

VARIABLES
  open,            \* devices that exist
  programmed,      \* tileWeights: the tiles each device has weights for
  cost,            \* CostAccumulator's counters
  profileBaseline, profilingActive,
  liveBuffers,     \* cimrt_device::liveBuffers
  allocated,       \* buffers that exist
  owner,           \* cimrt_buffer::dev
  size,            \* cimrt_buffer::data.size()
  status,          \* what the last call returned
  report,          \* the last cimrt_profile written
  calls,           \* calls made, for the bound
  \* History, to state the properties:
  epoch,           \* opens at each address so far
  home, homeEpoch, \* the device and the opening each buffer was allocated in
  mark, window,    \* last of open/start/stop on each device, work since
  moved,           \* bytes moved through the buffers of each opening
  settled          \* the byte counter of each opening when it was closed

device  == <<open, programmed, liveBuffers, epoch, settled>>
meter   == <<cost, window>>
profile == <<profileBaseline, profilingActive, mark, report>>
buffer  == <<allocated, owner, size, home, homeEpoch>>
state   == <<device, meter, profile, buffer, moved>>
vars    == <<state, status, calls>>

Zero == [k \in Kinds |-> 0]
Added(c, k, n) == [c EXCEPT ![k] = @ + n]
\* Mutant: the difference taken the wrong way round.
SubReversed(c, base) == [k \in Kinds |-> base[k] - c[k]]
Sub(c, base) == [k \in Kinds |-> c[k] - base[k]]
Openings == 1 .. MaxOpens
Statuses == {"Ok", "NoDevice", "TileBusy", "ShapeMismatch", "OutOfMemory", "InvalidArg"}

Init ==
  /\ open = {} /\ allocated = {}
  /\ programmed = [d \in Devices |-> {}]
  /\ cost = [d \in Devices |-> Zero]
  /\ profileBaseline = [d \in Devices |-> Zero]
  /\ profilingActive = [d \in Devices |-> FALSE]
  /\ liveBuffers = [d \in Devices |-> {}]
  /\ owner = [b \in Buffers |-> NoDevice]
  /\ size = [b \in Buffers |-> 0]
  /\ status = "Ok" /\ report = Zero /\ calls = 0
  /\ epoch = [d \in Devices |-> 0]
  /\ home = [b \in Buffers |-> NoDevice] /\ homeEpoch = [b \in Buffers |-> 0]
  /\ mark = [d \in Devices |-> "open"] /\ window = [d \in Devices |-> Zero]
  /\ moved = [d \in Devices |-> [e \in Openings |-> 0]]
  /\ settled = [d \in Devices |-> [e \in Openings |-> 0]]

Call(s) == calls < MaxCalls /\ calls' = calls + 1 /\ status' = s
Refuse(s) == s # "Ok" /\ Call(s) /\ UNCHANGED state

\* A null handle, or a null output pointer, where one is needed.
NullArgument == Refuse("InvalidArg")
-----------------------------------------------------------------------------
(* Devices *)

\* cimrt_open succeeds: every field of a cimrt_device starts afresh.
Open(d) ==
  /\ d \notin open /\ epoch[d] < MaxOpens
  /\ Call("Ok")
  /\ open' = open \cup {d}
  /\ epoch' = [epoch EXCEPT ![d] = @ + 1]
  /\ programmed' = [programmed EXCEPT ![d] = {}]
  /\ liveBuffers' = [liveBuffers EXCEPT ![d] = {}]
  /\ cost' = [cost EXCEPT ![d] = Zero]
  /\ window' = [window EXCEPT ![d] = Zero]
  /\ profileBaseline' = [profileBaseline EXCEPT ![d] = Zero]
  /\ profilingActive' = [profilingActive EXCEPT ![d] = FALSE]
  /\ mark' = [mark EXCEPT ![d] = "open"]
  /\ UNCHANGED <<settled, report, buffer, moved>>

\* No memory; the hardware backend, a target file that does not parse, or one
\* whose element types the simulator cannot execute.
OpenFails == \E s \in {"OutOfMemory", "NoDevice"} : Refuse(s)

\* Mutant: the device goes away without orphaning its buffers.
CloseKeepingOwners(d) ==
  /\ d \in open
  /\ Call("Ok")
  /\ settled' = [settled EXCEPT ![d] = [@ EXCEPT ![epoch[d]] = cost[d]["bytes"]]]
  /\ open' = open \ {d}
  /\ UNCHANGED <<programmed, liveBuffers, epoch, meter, profile, buffer, moved>>

\* cimrt_close: orphan what is registered, then delete the device.
Close(d) ==
  /\ d \in open
  /\ Call("Ok")
  /\ owner' = [b \in Buffers |-> IF b \in liveBuffers[d] THEN NoDevice ELSE owner[b]]
  /\ settled' = [settled EXCEPT ![d] = [@ EXCEPT ![epoch[d]] = cost[d]["bytes"]]]
  /\ open' = open \ {d}
  /\ UNCHANGED <<programmed, liveBuffers, epoch, meter, profile, moved>>
  /\ UNCHANGED <<allocated, size, home, homeEpoch>>

\* cimrt_query and cimrt_barrier return at once: the simulator is synchronous.
QueryOrBarrier(d) == d \in open /\ Call("Ok") /\ UNCHANGED state
-----------------------------------------------------------------------------
(* Buffers *)

Alloc(d, b, n) ==
  /\ d \in open /\ b \notin allocated
  /\ Call("Ok")
  /\ allocated' = allocated \cup {b}
  /\ owner' = [owner EXCEPT ![b] = d]
  /\ size' = [size EXCEPT ![b] = n]
  /\ liveBuffers' = [liveBuffers EXCEPT ![d] = @ \cup {b}]
  /\ home' = [home EXCEPT ![b] = d]
  /\ homeEpoch' = [homeEpoch EXCEPT ![b] = epoch[d]]
  /\ UNCHANGED <<open, programmed, epoch, settled, meter, profile, moved>>

AllocFails == open # {} /\ Refuse("OutOfMemory")

\* Mutant: the buffer is deleted and stays registered.
FreeRegistered(b) ==
  /\ b \in allocated
  /\ Call("Ok")
  /\ allocated' = allocated \ {b}
  /\ UNCHANGED <<device, meter, profile, moved, owner, size, home, homeEpoch>>

\* cimrt_free: deregister from the owner, when there still is one.
Free(b) ==
  /\ b \in allocated
  /\ Call("Ok")
  /\ allocated' = allocated \ {b}
  /\ liveBuffers' = [d \in Devices |->
       IF d = owner[b] THEN liveBuffers[d] \ {b} ELSE liveBuffers[d]]
  /\ UNCHANGED <<open, programmed, epoch, settled, meter, profile, moved>>
  /\ UNCHANGED <<owner, size, home, homeEpoch>>
-----------------------------------------------------------------------------
(* What a call is charged.  A refused call is charged nothing. *)

Charge(d, kind, n) ==
  /\ Call("Ok")
  /\ cost' = [cost EXCEPT ![d] = Added(cost[d], kind, n)]
  /\ window' = [window EXCEPT ![d] = Added(window[d], kind, n)]

\* A transfer of n bytes through buffer b is charged to b's device.
Transfer(b, n) ==
  /\ Charge(owner[b], "bytes", n)
  /\ moved' = [moved EXCEPT ![home[b]] = Added(moved[home[b]], homeEpoch[b], n)]
  /\ UNCHANGED <<device, profile, buffer>>

Orphaned(b) == owner[b] = NoDevice
InRange(b, offset, n) == offset <= size[b] /\ n <= size[b] - offset

CopyStatus(dst, src) ==
  IF size[dst] # size[src] THEN "ShapeMismatch"
  ELSE IF Orphaned(dst) THEN "InvalidArg" ELSE "Ok"
Copy(dst, src) ==
  /\ {dst, src} \subseteq allocated
  /\ \/ Refuse(CopyStatus(dst, src))
     \/ CopyStatus(dst, src) = "Ok" /\ Transfer(dst, size[dst])

\* Mutant: the transfer is not refused when there is no device to charge.
CopyRangeStatusUncosted(dst, dstOffset, src, srcOffset, n) ==
  IF dst = src \/ ~InRange(dst, dstOffset, n) \/ ~InRange(src, srcOffset, n)
  THEN "InvalidArg" ELSE "Ok"

CopyRangeStatus(dst, dstOffset, src, srcOffset, n) ==
  IF \/ dst = src
     \/ Orphaned(dst)
     \/ ~InRange(dst, dstOffset, n) \/ ~InRange(src, srcOffset, n)
  THEN "InvalidArg" ELSE "Ok"
CopyRange(dst, dstOffset, src, srcOffset, n) ==
  LET s == CopyRangeStatus(dst, dstOffset, src, srcOffset, n) IN
    /\ {dst, src} \subseteq allocated
    /\ \/ Refuse(s)
       \/ s = "Ok" /\ Transfer(dst, n)

\* cimrt_write into b and cimrt_read out of b make the same checks in order.
WriteOrRead(b, offset, n) ==
  LET s == IF Orphaned(b) \/ ~InRange(b, offset, n) THEN "InvalidArg" ELSE "Ok" IN
    /\ b \in allocated
    /\ \/ Refuse(s)
       \/ s = "Ok" /\ Transfer(b, n)
-----------------------------------------------------------------------------
(* Work on a device.  These calls need no owner of their operands: only the *)
(* device named by the call is charged.                                     *)

Work(d, kind) == Charge(d, kind, 1) /\ UNCHANGED <<profile, buffer, moved>>

ProgramStatus(tile, weights) ==
  IF tile \notin Tiles THEN "InvalidArg"
  ELSE IF size[weights] # WeightBytes THEN "ShapeMismatch" ELSE "Ok"
Program(d, tile, weights) ==
  /\ d \in open /\ weights \in allocated
  /\ \/ Refuse(ProgramStatus(tile, weights))
     \/ /\ ProgramStatus(tile, weights) = "Ok"
        /\ Work(d, "program")
        /\ programmed' = [programmed EXCEPT ![d] = @ \cup {tile}]
        /\ UNCHANGED <<open, liveBuffers, epoch, settled>>

MvmStatus(d, tile, act, out) ==
  IF tile \notin Tiles THEN "InvalidArg"
  ELSE IF tile \notin programmed[d] THEN "TileBusy"
  ELSE IF size[act] # ActivationBytes \/ size[out] # ResultBytes THEN "ShapeMismatch"
  ELSE "Ok"
Mvm(d, tile, act, out) ==
  /\ d \in open /\ {act, out} \subseteq allocated
  /\ \/ Refuse(MvmStatus(d, tile, act, out))
     \/ MvmStatus(d, tile, act, out) = "Ok" /\ Work(d, "mvm") /\ UNCHANGED device

\* Element-wise calls.  valid: the bit widths (and the scale) are usable.
ElementwiseStatus(valid, expected) ==
  IF ~valid THEN "InvalidArg"
  ELSE IF \E b \in DOMAIN expected : size[b] # expected[b] THEN "ShapeMismatch" ELSE "Ok"
Elementwise(d, kind, valid, expected) ==
  LET s == ElementwiseStatus(valid, expected) IN
    /\ d \in open /\ DOMAIN expected \subseteq allocated
    /\ \/ Refuse(s)
       \/ s = "Ok" /\ Work(d, kind) /\ UNCHANGED device

\* input and output hold the same count of elements, of two widths.
Requantize(d, input, output, valid, inBytes, outBytes) ==
  /\ input = output => inBytes = outBytes
  /\ Elementwise(d, "requantize", valid,
       [b \in {input, output} |-> IF b = input THEN inBytes ELSE outBytes])

\* cimrt_reduce_add and cimrt_reduce_max: out aliases neither operand.
Reduce(kind, d, out, a, b, valid, n) ==
  Elementwise(d, kind, valid /\ out \notin {a, b}, [x \in {out, a, b} |-> n])

\* Their in-place forms: acc is the first operand and the result.
ReduceInPlace(kind, d, acc, rhs, valid, n) ==
  Elementwise(d, kind, valid /\ acc # rhs, [x \in {acc, rhs} |-> n])
-----------------------------------------------------------------------------
(* Profiling *)

\* Mutant: a start inside an open window does not restart it.
ProfileStartOnce(d) ==
  /\ d \in open
  /\ Call("Ok")
  /\ profileBaseline' = IF profilingActive[d] THEN profileBaseline
                        ELSE [profileBaseline EXCEPT ![d] = cost[d]]
  /\ profilingActive' = [profilingActive EXCEPT ![d] = TRUE]
  /\ mark' = [mark EXCEPT ![d] = "start"]
  /\ window' = [window EXCEPT ![d] = Zero]
  /\ UNCHANGED <<device, cost, report, buffer, moved>>

ProfileStart(d) ==
  /\ d \in open
  /\ Call("Ok")
  /\ profileBaseline' = [profileBaseline EXCEPT ![d] = cost[d]]
  /\ profilingActive' = [profilingActive EXCEPT ![d] = TRUE]
  /\ mark' = [mark EXCEPT ![d] = "start"]
  /\ window' = [window EXCEPT ![d] = Zero]
  /\ UNCHANGED <<device, cost, report, buffer, moved>>

\* A stop with no start reports the difference of the counters with themselves.
ProfileStop(d) ==
  /\ d \in open
  /\ Call("Ok")
  /\ report' = Sub(cost[d], IF profilingActive[d] THEN profileBaseline[d] ELSE cost[d])
  /\ profilingActive' = [profilingActive EXCEPT ![d] = FALSE]
  /\ mark' = [mark EXCEPT ![d] = "stop"]
  /\ UNCHANGED <<device, meter, profileBaseline, buffer, moved>>
-----------------------------------------------------------------------------
Offsets == {0} \cup Sizes
TileIds == Tiles \cup {-1}     \* -1: an id at or above tiles.count

Next ==
  \/ NullArgument \/ OpenFails \/ AllocFails
  \/ \E d \in Devices :
       Open(d) \/ Close(d) \/ QueryOrBarrier(d) \/ ProfileStart(d) \/ ProfileStop(d)
  \/ \E d \in Devices, b \in Buffers, n \in Sizes : Alloc(d, b, n)
  \/ \E b \in Buffers : Free(b)
  \/ \E b, c \in Buffers : Copy(b, c)
  \/ \E b, c \in Buffers, i, j \in Offsets, n \in Sizes : CopyRange(b, i, c, j, n)
  \/ \E b \in Buffers, i \in Offsets, n \in Sizes : WriteOrRead(b, i, n)
  \/ \E d \in Devices, t \in TileIds, b \in Buffers : Program(d, t, b)
  \/ \E d \in Devices, t \in TileIds, b, c \in Buffers : Mvm(d, t, b, c)
  \/ \E d \in Devices, b, c \in Buffers, v \in BOOLEAN, m, n \in Sizes :
       Requantize(d, b, c, v, m, n)
  \/ \E k \in {"reduceAdd", "reduceMax"}, d \in Devices, v \in BOOLEAN, n \in Sizes :
       \/ \E b, c, e \in Buffers : Reduce(k, d, b, c, e, v, n)
       \/ \E b, c \in Buffers : ReduceInPlace(k, d, b, c, v, n)

Spec == Init /\ [][Next]_vars
-----------------------------------------------------------------------------

TypeOK ==
  /\ open \subseteq Devices /\ allocated \subseteq Buffers
  /\ programmed \in [Devices -> SUBSET Tiles]
  /\ cost \in [Devices -> [Kinds -> Nat]]
  /\ profileBaseline \in [Devices -> [Kinds -> Nat]]
  /\ profilingActive \in [Devices -> BOOLEAN]
  /\ liveBuffers \in [Devices -> SUBSET Buffers]
  /\ owner \in [Buffers -> Devices \cup {NoDevice}]
  /\ size \in [Buffers -> Nat]
  /\ status \in Statuses
  /\ report \in [Kinds -> Nat]
  /\ calls \in Nat
  /\ epoch \in [Devices -> 0 .. MaxOpens]
  /\ home \in [Buffers -> Devices \cup {NoDevice}]
  /\ homeEpoch \in [Buffers -> 0 .. MaxOpens]
  /\ mark \in [Devices -> {"open", "start", "stop"}]
  /\ window \in [Devices -> [Kinds -> Nat]]
  /\ moved \in [Devices -> [Openings -> Nat]]
  /\ settled \in [Devices -> [Openings -> Nat]]

\* The opening e of device d is the one that is open now.
IsOpen(d, e) == d \in open /\ epoch[d] = e

\* liveBuffers is "exactly the set of buffers whose `dev` still points here"
\* (cimrt_close), so a close orphans all of them and writes to no freed one.
RegistryExact ==
  \A d \in open : liveBuffers[d] = {b \in allocated : owner[b] = d}

\* A buffer points at the device it was allocated from while that device is
\* open and is an orphan afterwards: it is never adopted by a device opened
\* later at the same address, nor orphaned by the close of another.
OwnerIsBirthDevice ==
  \A b \in allocated :
    owner[b] = IF IsOpen(home[b], homeEpoch[b]) THEN home[b] ELSE NoDevice

\* No transfer goes uncounted or is counted elsewhere (cimrt.h: "a cost model
\* that quietly stops counting is worse than one that visibly refuses"): all
\* bytes moved through the buffers of a device are on that device's counter,
\* and none moves after it has closed.
TransfersCharged ==
  \A d \in Devices, e \in Openings :
    moved[d][e] = IF IsOpen(d, e) THEN cost[d]["bytes"] ELSE settled[d][e]

\* A profile covers the work since the last start, and nothing when the last
\* start was already stopped or never made (cimrt_profile_stop: "a stop with
\* no matching start reports zero, not the cumulative total").
ProfileReportsWindow ==
  [][\A d \in Devices :
       ProfileStop(d) => report' = IF mark[d] = "start" THEN window[d] ELSE Zero]_vars
=============================================================================
