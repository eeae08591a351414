---------------------------- MODULE CimrtProofs -----------------------------
(***************************************************************************)
(* Proofs about Cimrt, for any devices, buffers, sizes and bounds.         *)
(*                                                                         *)
(* The inductive invariant IInv joins the properties with what they rest   *)
(* on: the openings at an address are numbered in order (EpochsOrdered),   *)
(* and an open device's counters are the window's baseline plus the work   *)
(* since (WindowExact).  The calls have few kinds of effect (Effects), and *)
(* each part of IInv is proved kind by kind.                               *)
(***************************************************************************)
EXTENDS Cimrt, TLAPS

\* Every buffer belongs to an opening that has happened; a later opening has
\* moved nothing yet.
EpochsOrdered ==
  /\ \A d \in open : epoch[d] \in Openings
  /\ \A b \in allocated : home[b] \in Devices /\ homeEpoch[b] \in 1 .. epoch[home[b]]
  /\ \A d \in Devices, e \in Openings :
       e > epoch[d] => moved[d][e] = 0 /\ settled[d][e] = 0

WindowExact ==
  \A d \in open :
    /\ profilingActive[d] <=> mark[d] = "start"
    /\ profilingActive[d] =>
         \A k \in Kinds : cost[d][k] = profileBaseline[d][k] + window[d][k]

IInv == /\ TypeOK /\ RegistryExact /\ OwnerIsBirthDevice
        /\ TransfersCharged /\ EpochsOrdered /\ WindowExact
-----------------------------------------------------------------------------
(* The kinds of effect a call has *)

WorkKinds == Kinds \ {"bytes"}
Worked(d, kind) ==
  /\ d \in open
  /\ Work(d, kind)
  /\ programmed' \in [Devices -> SUBSET Tiles]
  /\ UNCHANGED <<open, liveBuffers, epoch, settled>>

Transferred(b, n) == b \in allocated /\ ~Orphaned(b) /\ n \in Nat /\ Transfer(b, n)

\* A step of Next leaves everything alone, or opens or closes a device, or
\* allocates or frees a buffer, or moves bytes, or does one unit of work, or
\* starts or stops a profile.
LEMMA Effects ==
  ASSUME TypeOK, Next
  PROVE  \/ UNCHANGED state
         \/ \E d \in Devices : Open(d) \/ Close(d) \/ ProfileStart(d) \/ ProfileStop(d)
         \/ \E d \in Devices, b \in Buffers, n \in Sizes : Alloc(d, b, n)
         \/ \E b \in Buffers : Free(b)
         \/ \E b \in Buffers, n \in Nat : Transferred(b, n)
         \/ \E d \in Devices, kind \in WorkKinds : Worked(d, kind)
<1> USE SizesAssumption
<1>1. ASSUME NEW b \in Buffers, NEW c \in Buffers, Copy(b, c)
      PROVE  UNCHANGED state \/ Transferred(b, size[b])
  BY <1>1 DEF Copy, Refuse, CopyStatus, Transferred, TypeOK
<1>2. ASSUME NEW b \in Buffers, NEW c \in Buffers, NEW i \in Offsets, NEW j \in Offsets,
             NEW n \in Sizes, CopyRange(b, i, c, j, n)
      PROVE  UNCHANGED state \/ Transferred(b, n)
  BY <1>2 DEF CopyRange, Refuse, CopyRangeStatus, Transferred, TypeOK
<1>3. ASSUME NEW b \in Buffers, NEW i \in Offsets, NEW n \in Sizes, WriteOrRead(b, i, n)
      PROVE  UNCHANGED state \/ Transferred(b, n)
  BY <1>3 DEF WriteOrRead, Refuse, Transferred, TypeOK
<1>4. ASSUME NEW d \in Devices, NEW t \in TileIds, NEW b \in Buffers, Program(d, t, b)
      PROVE  UNCHANGED state \/ Worked(d, "program")
  <2>1. CASE Refuse(ProgramStatus(t, b))
    BY <2>1 DEF Refuse
  <2>2. CASE /\ ProgramStatus(t, b) = "Ok"
             /\ Work(d, "program")
             /\ programmed' = [programmed EXCEPT ![d] = @ \cup {t}]
             /\ UNCHANGED <<open, liveBuffers, epoch, settled>>
    <3>1. t \in Tiles
      BY <2>2 DEF ProgramStatus
    <3>2. programmed' \in [Devices -> SUBSET Tiles]
      BY <2>2, <3>1 DEF TypeOK
    <3> QED
      BY <1>4, <2>2, <3>2 DEF Worked, Program
  <2> QED
    BY <1>4, <2>1, <2>2 DEF Program
<1>5. ASSUME NEW d \in Devices, NEW t \in TileIds, NEW b \in Buffers, NEW c \in Buffers,
             Mvm(d, t, b, c)
      PROVE  UNCHANGED state \/ Worked(d, "mvm")
  BY <1>5 DEF Mvm, Refuse, Worked, device, TypeOK
<1>6. ASSUME NEW d \in Devices, NEW kind \in WorkKinds, NEW valid, NEW expected,
             Elementwise(d, kind, valid, expected)
      PROVE  UNCHANGED state \/ Worked(d, kind)
  BY <1>6 DEF Elementwise, Refuse, Worked, device, TypeOK
<1>7. "requantize" \in WorkKinds /\ {"reduceAdd", "reduceMax"} \subseteq WorkKinds
  BY DEF Kinds, WorkKinds
<1>8. ASSUME NEW d \in Devices, NEW b \in Buffers, NEW c \in Buffers, NEW v \in BOOLEAN,
             NEW m \in Sizes, NEW n \in Sizes, Requantize(d, b, c, v, m, n)
      PROVE  UNCHANGED state \/ Worked(d, "requantize")
  BY <1>6, <1>7, <1>8 DEF Requantize
<1>9. ASSUME NEW k \in {"reduceAdd", "reduceMax"}, NEW d \in Devices, NEW v \in BOOLEAN,
             NEW n \in Sizes,
             \/ \E b, c, e \in Buffers : Reduce(k, d, b, c, e, v, n)
             \/ \E b, c \in Buffers : ReduceInPlace(k, d, b, c, v, n)
      PROVE  UNCHANGED state \/ Worked(d, k)
  BY <1>6, <1>7, <1>9 DEF Reduce, ReduceInPlace
<1>10. CASE NullArgument \/ OpenFails \/ AllocFails \/ \E d \in Devices : QueryOrBarrier(d)
  BY <1>10 DEF NullArgument, OpenFails, AllocFails, QueryOrBarrier, Refuse
<1>11. \A b \in Buffers : size[b] \in Nat
  BY DEF TypeOK
<1>12. CASE \E b, c \in Buffers : Copy(b, c)
  BY <1>1, <1>11, <1>12
<1>13. CASE \E b, c \in Buffers, i, j \in Offsets, n \in Sizes : CopyRange(b, i, c, j, n)
  BY <1>2, <1>13
<1>14. CASE \E b \in Buffers, i \in Offsets, n \in Sizes : WriteOrRead(b, i, n)
  BY <1>3, <1>14
<1>15. CASE \E d \in Devices, t \in TileIds, b \in Buffers : Program(d, t, b)
  BY <1>4, <1>15 DEF Kinds, WorkKinds
<1>16. CASE \E d \in Devices, t \in TileIds, b, c \in Buffers : Mvm(d, t, b, c)
  BY <1>5, <1>16 DEF Kinds, WorkKinds
<1>17. CASE \E d \in Devices, b, c \in Buffers, v \in BOOLEAN, m, n \in Sizes :
              Requantize(d, b, c, v, m, n)
  BY <1>7, <1>8, <1>17
<1>18. CASE \E k \in {"reduceAdd", "reduceMax"}, d \in Devices, v \in BOOLEAN, n \in Sizes :
              \/ \E b, c, e \in Buffers : Reduce(k, d, b, c, e, v, n)
              \/ \E b, c \in Buffers : ReduceInPlace(k, d, b, c, v, n)
  BY <1>7, <1>9, <1>18
<1> QED
  BY <1>10, <1>12, <1>13, <1>14, <1>15, <1>16, <1>17, <1>18 DEF Next

\* What every call returns, and that calls are counted.
LEMMA StatusTyped ==
  ASSUME TypeOK, Next
  PROVE  status' \in Statuses /\ calls' \in Nat
<1>1. \A s \in Statuses : Call(s) => status' \in Statuses /\ calls' \in Nat
  BY DEF Call, TypeOK
<1>2. "Ok" \in Statuses
  BY DEF Statuses
<1>3. ASSUME NEW s, s \in Statuses, Refuse(s) PROVE Call(s)
  BY <1>3 DEF Refuse
<1>4. \E s \in Statuses : Call(s)
  <2>1. CASE \/ NullArgument \/ OpenFails \/ AllocFails
             \/ \E d \in Devices :
                  Open(d) \/ Close(d) \/ QueryOrBarrier(d) \/ ProfileStart(d) \/ ProfileStop(d)
    BY <2>1 DEF NullArgument, OpenFails, AllocFails, QueryOrBarrier, Refuse, Open, Close,
       ProfileStart, ProfileStop, Statuses
  <2>2. CASE \/ \E d \in Devices, b \in Buffers, n \in Sizes : Alloc(d, b, n)
             \/ \E b \in Buffers : Free(b)
             \/ \E b, c \in Buffers : Copy(b, c)
    BY <2>2 DEF Alloc, Free, Copy, CopyStatus, Refuse, Transfer, Charge, Statuses
  <2>3. CASE \/ \E b, c \in Buffers, i, j \in Offsets, n \in Sizes : CopyRange(b, i, c, j, n)
             \/ \E b \in Buffers, i \in Offsets, n \in Sizes : WriteOrRead(b, i, n)
    <3>1. \A b, n : Transfer(b, n) => Call("Ok")
      BY DEF Transfer, Charge
    <3>2. ASSUME NEW b \in Buffers, NEW c \in Buffers, NEW i \in Offsets, NEW j \in Offsets,
                 NEW n \in Sizes, CopyRange(b, i, c, j, n)
          PROVE  \E s \in Statuses : Call(s)
      BY <1>2, <1>3, <3>1, <3>2 DEF CopyRange, CopyRangeStatus, Statuses
    <3>3. ASSUME NEW b \in Buffers, NEW i \in Offsets, NEW n \in Sizes,
                 WriteOrRead(b, i, n)
          PROVE  \E s \in Statuses : Call(s)
      BY <1>2, <1>3, <3>1, <3>3 DEF WriteOrRead, Statuses
    <3> QED
      BY <2>3, <3>2, <3>3
  <2>4. CASE \/ \E d \in Devices, t \in TileIds, b \in Buffers : Program(d, t, b)
             \/ \E d \in Devices, t \in TileIds, b, c \in Buffers : Mvm(d, t, b, c)
    BY <2>4 DEF Program, ProgramStatus, Mvm, MvmStatus, Refuse, Work, Charge, Statuses
  <2>5. ASSUME NEW d, NEW kind, NEW valid, NEW expected,
               Elementwise(d, kind, valid, expected)
        PROVE  \E s \in Statuses : Call(s)
    <3>1. ElementwiseStatus(valid, expected) \in Statuses
      BY DEF ElementwiseStatus, Statuses
    <3>2. Refuse(ElementwiseStatus(valid, expected)) \/ Work(d, kind)
      BY <2>5 DEF Elementwise
    <3>3. Work(d, kind) => Call("Ok")
      BY DEF Work, Charge
    <3> QED
      BY <1>2, <1>3, <3>1, <3>2, <3>3
  <2>6. CASE \/ \E d \in Devices, b, c \in Buffers, v \in BOOLEAN, m, n \in Sizes :
                  Requantize(d, b, c, v, m, n)
             \/ \E k \in {"reduceAdd", "reduceMax"}, d \in Devices, v \in BOOLEAN,
                   n \in Sizes :
                  \/ \E b, c, e \in Buffers : Reduce(k, d, b, c, e, v, n)
                  \/ \E b, c \in Buffers : ReduceInPlace(k, d, b, c, v, n)
    BY <2>5, <2>6 DEF Requantize, Reduce, ReduceInPlace
  <2> QED
    BY <2>1, <2>2, <2>3, <2>4, <2>6 DEF Next
<1> QED
  BY <1>1, <1>4
-----------------------------------------------------------------------------
(* Types *)

\* A charge keeps the two sets of counters typed.
LEMMA ChargeTyped ==
  ASSUME TypeOK, NEW d \in Devices, NEW kind \in Kinds, NEW n \in Nat, Charge(d, kind, n)
  PROVE  cost' \in [Devices -> [Kinds -> Nat]] /\ window' \in [Devices -> [Kinds -> Nat]]
<1>1. \A c \in [Kinds -> Nat] : Added(c, kind, n) \in [Kinds -> Nat]
  BY DEF Added
<1>2. cost[d] \in [Kinds -> Nat] /\ window[d] \in [Kinds -> Nat]
  BY DEF TypeOK
<1> QED
  BY <1>1, <1>2 DEF Charge, TypeOK

\* What a stop reports.
LEMMA StopReport ==
  ASSUME TypeOK, WindowExact, NEW d \in Devices, ProfileStop(d)
  PROVE  report' = IF mark[d] = "start" THEN window[d] ELSE Zero
<1>1. d \in open /\ (profilingActive[d] <=> mark[d] = "start")
  BY DEF ProfileStop, WindowExact
<1>2. /\ cost[d] \in [Kinds -> Nat] /\ window[d] \in [Kinds -> Nat]
      /\ profileBaseline[d] \in [Kinds -> Nat]
  BY DEF TypeOK
<1>3. CASE profilingActive[d]
  <2>1. \A k \in Kinds : cost[d][k] = profileBaseline[d][k] + window[d][k]
    BY <1>1, <1>3 DEF WindowExact
  <2>2. \A k \in Kinds : cost[d][k] - profileBaseline[d][k] = window[d][k]
    BY <1>2, <2>1
  <2>3. report' = [k \in Kinds |-> window[d][k]]
    BY <1>3, <2>2 DEF ProfileStop, Sub
  <2> QED
    BY <1>1, <1>2, <1>3, <2>3
<1>4. CASE ~profilingActive[d]
  <2>1. \A k \in Kinds : cost[d][k] - cost[d][k] = 0
    BY <1>2
  <2>2. report' = Zero
    BY <1>4, <2>1 DEF ProfileStop, Sub, Zero
  <2> QED
    BY <1>1, <1>4, <2>2
<1> QED
  BY <1>3, <1>4

LEMMA TypeInit == Init => TypeOK
BY BoundsAssumption DEF Init, TypeOK, Zero, Statuses, Openings

LEMMA TypeStep ==
  ASSUME EpochsOrdered, WindowExact, TypeOK, [Next]_vars
  PROVE  TypeOK'
<1> USE BoundsAssumption, SizesAssumption
<1>1. CASE UNCHANGED vars
  BY <1>1 DEF vars, state, device, meter, profile, buffer, TypeOK
<1>2. CASE Next
  <2> USE <1>2
  <2>1. status' \in Statuses /\ calls' \in Nat
    BY StatusTyped
  <2>2. CASE UNCHANGED state
    BY <2>1, <2>2 DEF state, device, meter, profile, buffer, TypeOK
  <2>3. ASSUME NEW d \in Devices, Open(d) PROVE TypeOK'
    <3>1. epoch[d] + 1 \in 0 .. MaxOpens
      BY <2>3 DEF Open, TypeOK
    <3>2. Zero \in [Kinds -> Nat]
      BY DEF Zero
    <3> QED
      BY <2>1, <2>3, <3>1, <3>2 DEF Open, buffer, TypeOK
  <2>4. ASSUME NEW d \in Devices, Close(d) PROVE TypeOK'
    <3>1. "bytes" \in Kinds
      BY DEF Kinds
    <3>2. owner' \in [Buffers -> Devices \cup {NoDevice}]
      BY <2>4 DEF Close, TypeOK
    <3>3. cost[d]["bytes"] \in Nat
      BY <3>1 DEF TypeOK
    <3>4. settled' \in [Devices -> [Openings -> Nat]]
      BY <2>4, <3>3 DEF Close, TypeOK
    <3> QED
      BY <2>1, <2>4, <3>2, <3>4 DEF Close, meter, profile, TypeOK
  <2>5. ASSUME NEW d \in Devices, ProfileStart(d) PROVE TypeOK'
    <3>1. Zero \in [Kinds -> Nat]
      BY DEF Zero
    <3> QED
      BY <2>1, <2>5, <3>1 DEF ProfileStart, device, buffer, TypeOK
  <2>6. ASSUME NEW d \in Devices, ProfileStop(d) PROVE TypeOK'
    <3>1. report' \in [Kinds -> Nat]
      BY <2>6, StopReport DEF Zero, TypeOK
    <3> QED
      BY <2>1, <2>6, <3>1 DEF ProfileStop, device, meter, buffer, TypeOK
  <2>7. ASSUME NEW d \in Devices, NEW b \in Buffers, NEW n \in Sizes, Alloc(d, b, n)
        PROVE  TypeOK'
    <3>1. n \in Nat /\ epoch[d] \in 0 .. MaxOpens
      BY DEF TypeOK
    <3> QED
      BY <2>1, <2>7, <3>1 DEF Alloc, meter, profile, TypeOK
  <2>8. ASSUME NEW b \in Buffers, Free(b) PROVE TypeOK'
    BY <2>1, <2>8 DEF Free, meter, profile, TypeOK
  <2>9. ASSUME NEW b \in Buffers, NEW n \in Nat, Transferred(b, n) PROVE TypeOK'
    <3>1. owner[b] \in Devices /\ "bytes" \in Kinds
      BY <2>9 DEF Transferred, Orphaned, Kinds, TypeOK
    <3>2. home[b] \in Devices /\ homeEpoch[b] \in Openings
      BY <2>9 DEF Transferred, EpochsOrdered, TypeOK, Openings
    <3>3. moved[home[b]] \in [Openings -> Nat]
      BY <3>2 DEF TypeOK
    <3>4. Added(moved[home[b]], homeEpoch[b], n) \in [Openings -> Nat]
      BY <3>2, <3>3 DEF Added
    <3>5. moved' \in [Devices -> [Openings -> Nat]]
      BY <2>9, <3>4 DEF Transferred, Transfer, TypeOK
    <3>6. cost' \in [Devices -> [Kinds -> Nat]] /\ window' \in [Devices -> [Kinds -> Nat]]
      BY <2>9, <3>1, ChargeTyped DEF Transferred, Transfer
    <3> QED
      BY <2>1, <2>9, <3>5, <3>6 DEF Transferred, Transfer, device, profile, buffer, TypeOK
  <2>10. ASSUME NEW d \in Devices, NEW kind \in WorkKinds, Worked(d, kind) PROVE TypeOK'
    <3>2. cost' \in [Devices -> [Kinds -> Nat]] /\ window' \in [Devices -> [Kinds -> Nat]]
      BY <2>10, ChargeTyped DEF Worked, Work, WorkKinds
    <3> QED
      BY <2>1, <2>10, <3>2 DEF Worked, Work, profile, buffer, TypeOK
  <2> QED
    BY Effects, <2>2, <2>3, <2>4, <2>5, <2>6, <2>7, <2>8, <2>9, <2>10
<1> QED
  BY <1>1, <1>2
-----------------------------------------------------------------------------
(* The rest of the invariant *)

LEMMA InvInit == Init => IInv
<1> SUFFICES ASSUME Init PROVE IInv
  OBVIOUS
<1>1. TypeOK
  BY TypeInit
<1>2. RegistryExact /\ OwnerIsBirthDevice /\ TransfersCharged /\ EpochsOrdered /\ WindowExact
  BY DEF Init, RegistryExact, OwnerIsBirthDevice, TransfersCharged, EpochsOrdered,
     WindowExact, IsOpen
<1> QED
  BY <1>1, <1>2 DEF IInv

\* An owner is a device that is open.
LEMMA OwnerOpen ==
  ASSUME IInv, NEW b \in allocated, owner[b] # NoDevice
  PROVE  /\ owner[b] = home[b] /\ owner[b] \in open /\ owner[b] \in Devices
         /\ epoch[owner[b]] = homeEpoch[b] /\ homeEpoch[b] \in Openings
BY DEF IInv, OwnerIsBirthDevice, EpochsOrdered, IsOpen, TypeOK

LEMMA RegistryStep ==
  ASSUME IInv, Next
  PROVE  RegistryExact'
<1> USE DEF IInv
<1>0. \A b \in allocated : owner[b] # NoDevice => owner[b] \in open
  BY OwnerOpen
<1>1. CASE UNCHANGED state
  BY <1>1 DEF state, device, buffer, RegistryExact
<1>2. ASSUME NEW d \in Devices, Open(d) PROVE RegistryExact'
  <2>1. \A b \in allocated : owner[b] # d
    BY <1>0, <1>2, NoDeviceAssumption DEF Open
  <2> QED
    BY <1>2, <2>1 DEF Open, buffer, RegistryExact, TypeOK
<1>3. ASSUME NEW d \in Devices, Close(d) PROVE RegistryExact'
  <2>1. \A b \in allocated : b \in liveBuffers[d] <=> owner[b] = d
    BY <1>3 DEF Close, RegistryExact
  <2>2. ASSUME NEW c \in open \ {d}
        PROVE  liveBuffers[c] = {b \in allocated : owner'[b] = c}
    <3>1. \A b \in allocated : owner'[b] = c <=> owner[b] = c
      BY <1>3, <2>1, <2>2, NoDeviceAssumption DEF Close, TypeOK
    <3> QED
      BY <2>2, <3>1 DEF RegistryExact
  <2> QED
    BY <1>3, <2>2 DEF Close, RegistryExact
<1>4. ASSUME NEW d \in Devices, ProfileStart(d) \/ ProfileStop(d) PROVE RegistryExact'
  BY <1>4 DEF ProfileStart, ProfileStop, device, buffer, RegistryExact
<1>5. ASSUME NEW d \in Devices, NEW b \in Buffers, NEW n \in Sizes, Alloc(d, b, n)
      PROVE  RegistryExact'
  BY <1>5 DEF Alloc, RegistryExact, TypeOK
<1>6. ASSUME NEW b \in Buffers, Free(b) PROVE RegistryExact'
  BY <1>6 DEF Free, RegistryExact, TypeOK
<1>7. ASSUME NEW b \in Buffers, NEW n \in Nat, Transferred(b, n) PROVE RegistryExact'
  BY <1>7 DEF Transferred, Transfer, device, buffer, RegistryExact
<1>8. ASSUME NEW d \in Devices, NEW kind \in WorkKinds, Worked(d, kind) PROVE RegistryExact'
  BY <1>8 DEF Worked, Work, buffer, RegistryExact
<1> QED
  BY Effects, <1>1, <1>2, <1>3, <1>4, <1>5, <1>6, <1>7, <1>8

LEMMA OwnerStep ==
  ASSUME IInv, Next
  PROVE  OwnerIsBirthDevice'
<1> USE DEF IInv
<1>1. CASE UNCHANGED state
  BY <1>1 DEF state, device, buffer, OwnerIsBirthDevice, IsOpen
<1>2. ASSUME NEW d \in Devices, Open(d) PROVE OwnerIsBirthDevice'
  <2>1. ASSUME NEW b \in allocated
        PROVE  IsOpen(home[b], homeEpoch[b])' <=> IsOpen(home[b], homeEpoch[b])
    <3>1. home[b] \in Devices /\ homeEpoch[b] \in 1 .. epoch[home[b]]
      BY DEF EpochsOrdered
    <3>2. CASE home[b] = d
      BY <1>2, <3>1, <3>2 DEF Open, buffer, IsOpen, TypeOK
    <3>3. CASE home[b] # d
      BY <1>2, <3>1, <3>3 DEF Open, buffer, IsOpen, TypeOK
    <3> QED
      BY <3>2, <3>3
  <2> QED
    BY <1>2, <2>1 DEF Open, buffer, OwnerIsBirthDevice
<1>3. ASSUME NEW d \in Devices, Close(d) PROVE OwnerIsBirthDevice'
  <2>1. \A b \in allocated : b \in liveBuffers[d] <=> owner[b] = d
    BY <1>3 DEF Close, RegistryExact
  <2>2. \A b \in allocated : home[b] \in Devices
    BY DEF EpochsOrdered
  <2>3. d # NoDevice
    BY NoDeviceAssumption
  <2> QED
    BY <1>3, <2>1, <2>2, <2>3 DEF Close, OwnerIsBirthDevice, IsOpen, TypeOK
<1>4. ASSUME NEW d \in Devices, ProfileStart(d) \/ ProfileStop(d) PROVE OwnerIsBirthDevice'
  BY <1>4 DEF ProfileStart, ProfileStop, device, buffer, OwnerIsBirthDevice, IsOpen
<1>5. ASSUME NEW d \in Devices, NEW b \in Buffers, NEW n \in Sizes, Alloc(d, b, n)
      PROVE  OwnerIsBirthDevice'
  BY <1>5 DEF Alloc, OwnerIsBirthDevice, IsOpen, TypeOK
<1>6. ASSUME NEW b \in Buffers, Free(b) PROVE OwnerIsBirthDevice'
  BY <1>6 DEF Free, OwnerIsBirthDevice, IsOpen
<1>7. ASSUME NEW b \in Buffers, NEW n \in Nat, Transferred(b, n) PROVE OwnerIsBirthDevice'
  BY <1>7 DEF Transferred, Transfer, device, buffer, OwnerIsBirthDevice, IsOpen
<1>8. ASSUME NEW d \in Devices, NEW kind \in WorkKinds, Worked(d, kind)
      PROVE  OwnerIsBirthDevice'
  BY <1>8 DEF Worked, Work, buffer, OwnerIsBirthDevice, IsOpen
<1> QED
  BY Effects, <1>1, <1>2, <1>3, <1>4, <1>5, <1>6, <1>7, <1>8

LEMMA EpochsStep ==
  ASSUME IInv, Next
  PROVE  EpochsOrdered'
<1> USE DEF IInv, Openings
<1>1. CASE UNCHANGED state
  BY <1>1 DEF state, device, buffer, EpochsOrdered
<1>2. ASSUME NEW d \in Devices, Open(d) PROVE EpochsOrdered'
  <2>1. \A c \in Devices :
          epoch[c] \in Nat /\ epoch'[c] = IF c = d THEN epoch[d] + 1 ELSE epoch[c]
    BY <1>2 DEF Open, TypeOK
  <2>2. epoch[d] < MaxOpens /\ open' = open \cup {d} /\ UNCHANGED <<buffer, moved, settled>>
    BY <1>2 DEF Open
  <2>3. \A c \in open' : epoch'[c] \in Openings
    <3>1. epoch[d] \in Nat /\ epoch[d] < MaxOpens /\ MaxOpens \in Nat /\ d \in Devices
      BY <2>1, <2>2, BoundsAssumption
    <3>2. epoch[d] + 1 \in Openings
      BY <3>1
    <3>3. \A c \in open : c \in Devices /\ epoch[c] \in Openings
      BY DEF EpochsOrdered, TypeOK
    <3> QED BY <2>1, <2>2, <3>1, <3>2, <3>3
  <2>4. ASSUME NEW b \in allocated
        PROVE  home[b] \in Devices /\ homeEpoch[b] \in 1 .. epoch'[home[b]]
    BY <2>1 DEF EpochsOrdered
  <2>5. ASSUME NEW c \in Devices, NEW e \in Openings, e > epoch'[c]
        PROVE  moved[c][e] = 0 /\ settled[c][e] = 0
    BY <2>1, <2>5 DEF EpochsOrdered
  <2> QED
    BY <2>2, <2>3, <2>4, <2>5 DEF buffer, EpochsOrdered
<1>3. ASSUME NEW d \in Devices, Close(d) PROVE EpochsOrdered'
  <2>1. epoch[d] \in Nat
    BY DEF TypeOK
  <2>2. ASSUME NEW c \in Devices, NEW e \in Openings, e > epoch[c]
        PROVE  settled'[c][e] = settled[c][e]
    BY <1>3, <2>1, <2>2 DEF Close, TypeOK
  <2> QED
    BY <1>3, <2>2 DEF Close, EpochsOrdered
<1>4. ASSUME NEW d \in Devices, ProfileStart(d) \/ ProfileStop(d) PROVE EpochsOrdered'
  BY <1>4 DEF ProfileStart, ProfileStop, device, buffer, EpochsOrdered
<1>5. ASSUME NEW d \in Devices, NEW b \in Buffers, NEW n \in Sizes, Alloc(d, b, n)
      PROVE  EpochsOrdered'
  <2>1. epoch[d] \in 1 .. epoch[d]
    BY <1>5 DEF Alloc, EpochsOrdered, TypeOK
  <2>2. ASSUME NEW c \in allocated'
        PROVE  home'[c] \in Devices /\ homeEpoch'[c] \in 1 .. epoch[home'[c]]
    BY <1>5, <2>1, <2>2 DEF Alloc, EpochsOrdered, TypeOK
  <2> QED
    BY <1>5, <2>2 DEF Alloc, EpochsOrdered
<1>6. ASSUME NEW b \in Buffers, Free(b) PROVE EpochsOrdered'
  BY <1>6 DEF Free, EpochsOrdered
<1>7. ASSUME NEW b \in Buffers, NEW n \in Nat, Transferred(b, n) PROVE EpochsOrdered'
  <2>1. home[b] \in Devices /\ homeEpoch[b] \in Openings /\ homeEpoch[b] = epoch[home[b]]
    BY <1>7, OwnerOpen DEF Transferred, Orphaned
  <2>2. ASSUME NEW c \in Devices, NEW e \in Openings, e > epoch[c]
        PROVE  moved'[c][e] = moved[c][e]
    <3>1. epoch[c] \in Nat
      BY DEF TypeOK
    <3> QED
      BY <1>7, <2>1, <2>2, <3>1 DEF Transferred, Transfer, Added, TypeOK
  <2> QED
    BY <1>7, <2>2 DEF Transferred, Transfer, device, buffer, EpochsOrdered
<1>8. ASSUME NEW d \in Devices, NEW kind \in WorkKinds, Worked(d, kind) PROVE EpochsOrdered'
  BY <1>8 DEF Worked, Work, buffer, EpochsOrdered
<1> QED
  BY Effects, <1>1, <1>2, <1>3, <1>4, <1>5, <1>6, <1>7, <1>8

LEMMA TransfersStep ==
  ASSUME IInv, Next
  PROVE  TransfersCharged'
<1> USE DEF IInv
<1>1. CASE UNCHANGED state
  BY <1>1 DEF state, device, meter, TransfersCharged, IsOpen
<1>2. ASSUME NEW d \in Devices, Open(d) PROVE TransfersCharged'
  <2>1. ASSUME NEW c \in Devices, NEW e \in Openings
        PROVE  moved[c][e] = IF IsOpen(c, e)' THEN cost'[c]["bytes"] ELSE settled[c][e]
    <3>1. CASE c # d
      BY <1>2, <2>1, <3>1 DEF Open, TransfersCharged, IsOpen, TypeOK
    <3>2. CASE c = d /\ e = epoch[d] + 1
      <4>1. moved[c][e] = 0
        BY <3>2 DEF EpochsOrdered, TypeOK
      <4>2. cost'[c]["bytes"] = 0
        BY <1>2, <3>2 DEF Open, Zero, Kinds, TypeOK
      <4>3. IsOpen(c, e)'
        BY <1>2, <3>2 DEF Open, IsOpen, TypeOK
      <4> QED
        BY <4>1, <4>2, <4>3
    <3>3. CASE c = d /\ e # epoch[d] + 1
      <4>1. ~IsOpen(c, e) /\ ~IsOpen(c, e)'
        BY <1>2, <3>3 DEF Open, IsOpen, TypeOK
      <4> QED
        BY <4>1 DEF TransfersCharged
    <3> QED
      BY <3>1, <3>2, <3>3
  <2> QED
    BY <1>2, <2>1 DEF Open, TransfersCharged
<1>3. ASSUME NEW d \in Devices, Close(d) PROVE TransfersCharged'
  <2>1. ASSUME NEW c \in Devices, NEW e \in Openings
        PROVE  moved[c][e] = IF IsOpen(c, e)' THEN cost[c]["bytes"] ELSE settled'[c][e]
    <3>1. CASE c # d
      BY <1>3, <2>1, <3>1 DEF Close, TransfersCharged, IsOpen, TypeOK
    <3>2. CASE c = d
      <4>1. ~IsOpen(c, e)'
        BY <1>3, <3>2 DEF Close, IsOpen
      <4>2. settled'[c][e] = IF e = epoch[d] THEN cost[d]["bytes"] ELSE settled[c][e]
        BY <1>3, <3>2 DEF Close, TypeOK
      <4>3. IsOpen(c, e) <=> e = epoch[d]
        BY <1>3, <3>2 DEF Close, IsOpen
      <4> QED
        BY <3>2, <4>1, <4>2, <4>3 DEF TransfersCharged
    <3> QED
      BY <3>1, <3>2
  <2> QED
    BY <1>3, <2>1 DEF Close, meter, TransfersCharged
<1>4. ASSUME NEW d \in Devices, ProfileStart(d) \/ ProfileStop(d) PROVE TransfersCharged'
  BY <1>4 DEF ProfileStart, ProfileStop, device, meter, TransfersCharged, IsOpen
<1>5. ASSUME NEW d \in Devices, NEW b \in Buffers, NEW n \in Sizes, Alloc(d, b, n)
      PROVE  TransfersCharged'
  BY <1>5 DEF Alloc, meter, TransfersCharged, IsOpen
<1>6. ASSUME NEW b \in Buffers, Free(b) PROVE TransfersCharged'
  BY <1>6 DEF Free, meter, TransfersCharged, IsOpen
<1>7. ASSUME NEW b \in Buffers, NEW n \in Nat, Transferred(b, n) PROVE TransfersCharged'
  <2>1. /\ home[b] \in Devices /\ homeEpoch[b] \in Openings /\ IsOpen(home[b], homeEpoch[b])
        /\ owner[b] = home[b]
    BY <1>7, OwnerOpen DEF Transferred, Orphaned, IsOpen
  <2>2. UNCHANGED <<open, epoch, settled>>
    BY <1>7 DEF Transferred, Transfer, device
  <2>3. ASSUME NEW c \in Devices, c # home[b]
        PROVE  cost'[c] = cost[c] /\ moved'[c] = moved[c]
    BY <1>7, <2>1, <2>3 DEF Transferred, Transfer, Charge, TypeOK
  <2>4. cost'[home[b]]["bytes"] = cost[home[b]]["bytes"] + n
    <3>1. cost[home[b]] \in [Kinds -> Nat] /\ "bytes" \in Kinds
      BY <2>1 DEF TypeOK, Kinds
    <3>2. cost'[home[b]] = Added(cost[home[b]], "bytes", n)
      BY <1>7, <2>1 DEF Transferred, Transfer, Charge, TypeOK
    <3> QED
      BY <3>1, <3>2 DEF Added
  <2>5. ASSUME NEW e \in Openings
        PROVE  moved'[home[b]][e] =
                 IF e = homeEpoch[b] THEN moved[home[b]][e] + n ELSE moved[home[b]][e]
    <3>1. moved[home[b]] \in [Openings -> Nat]
      BY <2>1 DEF TypeOK
    <3>2. moved'[home[b]] = Added(moved[home[b]], homeEpoch[b], n)
      BY <1>7, <2>1 DEF Transferred, Transfer, TypeOK
    <3> QED
      BY <2>1, <3>1, <3>2 DEF Added
  <2>6. ASSUME NEW c \in Devices, NEW e \in Openings
        PROVE  moved'[c][e] = IF IsOpen(c, e)' THEN cost'[c]["bytes"] ELSE settled'[c][e]
    <3>0. IsOpen(c, e)' <=> IsOpen(c, e)
      BY <2>2 DEF IsOpen
    <3>1. CASE c # home[b]
      BY <2>2, <2>3, <3>0, <3>1 DEF TransfersCharged
    <3>2. CASE c = home[b]
      <4>1. IsOpen(c, e) <=> e = homeEpoch[b]
        BY <2>1, <3>2 DEF IsOpen
      <4> QED
        BY <2>2, <2>4, <2>5, <3>0, <3>2, <4>1 DEF TransfersCharged
    <3> QED
      BY <3>1, <3>2
  <2> QED
    BY <2>6 DEF TransfersCharged
<1>8. ASSUME NEW d \in Devices, NEW kind \in WorkKinds, Worked(d, kind)
      PROVE  TransfersCharged'
  <2>1. ASSUME NEW c \in Devices PROVE cost'[c]["bytes"] = cost[c]["bytes"]
    <3>1. cost[c] \in [Kinds -> Nat] /\ "bytes" \in Kinds /\ kind # "bytes"
      BY DEF TypeOK, Kinds, WorkKinds
    <3>2. cost'[c] = IF c = d THEN Added(cost[d], kind, 1) ELSE cost[c]
      BY <1>8 DEF Worked, Work, Charge, TypeOK
    <3> QED
      BY <3>1, <3>2 DEF Added
  <2> QED
    BY <1>8, <2>1 DEF Worked, Work, TransfersCharged, IsOpen
<1> QED
  BY Effects, <1>1, <1>2, <1>3, <1>4, <1>5, <1>6, <1>7, <1>8

\* A charge to a device adds the same to its counters and to its window.
LEMMA ChargeWindow ==
  ASSUME IInv, NEW d \in Devices, NEW kind \in Kinds, NEW n \in Nat, Charge(d, kind, n),
         UNCHANGED <<open, profile>>
  PROVE  WindowExact'
<1>1. ASSUME NEW c \in open, profilingActive[c], NEW k \in Kinds
      PROVE  cost'[c][k] = profileBaseline[c][k] + window'[c][k]
  <2>1. /\ cost[c] \in [Kinds -> Nat] /\ window[c] \in [Kinds -> Nat]
        /\ profileBaseline[c] \in [Kinds -> Nat]
    BY <1>1 DEF IInv, TypeOK
  <2>2. cost[c][k] = profileBaseline[c][k] + window[c][k]
    BY <1>1 DEF IInv, WindowExact
  <2>3. /\ cost'[c] = IF c = d THEN Added(cost[c], kind, n) ELSE cost[c]
        /\ window'[c] = IF c = d THEN Added(window[c], kind, n) ELSE window[c]
    BY <1>1 DEF Charge, IInv, TypeOK
  <2> QED
    BY <2>1, <2>2, <2>3 DEF Added
<1> QED
  BY <1>1 DEF WindowExact, IInv, profile

LEMMA WindowStep ==
  ASSUME IInv, Next
  PROVE  WindowExact'
<1> USE DEF IInv
<1>1. CASE UNCHANGED state
  BY <1>1 DEF state, device, meter, profile, WindowExact
<1>2. ASSUME NEW d \in Devices, Open(d) PROVE WindowExact'
  <2>1. ~profilingActive'[d] /\ mark'[d] = "open"
    BY <1>2 DEF Open, TypeOK
  <2>2. ASSUME NEW c \in open
        PROVE  /\ cost'[c] = cost[c] /\ window'[c] = window[c] /\ mark'[c] = mark[c]
               /\ profileBaseline'[c] = profileBaseline[c]
               /\ profilingActive'[c] = profilingActive[c]
    BY <1>2, <2>2 DEF Open, TypeOK
  <2>3. open' = open \cup {d}
    BY <1>2 DEF Open
  <2> QED
    BY <2>1, <2>2, <2>3 DEF WindowExact
<1>3. ASSUME NEW d \in Devices, Close(d) PROVE WindowExact'
  BY <1>3 DEF Close, meter, profile, WindowExact
<1>4. ASSUME NEW d \in Devices, ProfileStart(d) PROVE WindowExact'
  <2>1. /\ profilingActive'[d] /\ mark'[d] = "start"
        /\ profileBaseline'[d] = cost[d] /\ window'[d] = Zero /\ cost' = cost
    BY <1>4 DEF ProfileStart, TypeOK
  <2>2. \A k \in Kinds : cost[d][k] = cost[d][k] + Zero[k]
    BY DEF TypeOK, Zero
  <2>3. ASSUME NEW c \in open, c # d
        PROVE  /\ window'[c] = window[c] /\ mark'[c] = mark[c]
               /\ profileBaseline'[c] = profileBaseline[c]
               /\ profilingActive'[c] = profilingActive[c]
    BY <1>4, <2>3 DEF ProfileStart, TypeOK
  <2>4. open' = open
    BY <1>4 DEF ProfileStart, device
  <2> QED
    BY <2>1, <2>2, <2>3, <2>4 DEF WindowExact
<1>5. ASSUME NEW d \in Devices, ProfileStop(d) PROVE WindowExact'
  BY <1>5 DEF ProfileStop, device, meter, WindowExact, TypeOK
<1>6. ASSUME NEW d \in Devices, NEW b \in Buffers, NEW n \in Sizes, Alloc(d, b, n)
      PROVE  WindowExact'
  BY <1>6 DEF Alloc, meter, profile, WindowExact
<1>7. ASSUME NEW b \in Buffers, Free(b) PROVE WindowExact'
  BY <1>7 DEF Free, meter, profile, WindowExact
<1>8. ASSUME NEW b \in Buffers, NEW n \in Nat, Transferred(b, n) PROVE WindowExact'
  <2>1. owner[b] \in Devices /\ "bytes" \in Kinds
    BY <1>8, OwnerOpen DEF Transferred, Orphaned, Kinds
  <2> QED
    BY <1>8, <2>1, ChargeWindow DEF Transferred, Transfer, device
<1>9. ASSUME NEW d \in Devices, NEW kind \in WorkKinds, Worked(d, kind) PROVE WindowExact'
  BY <1>9, ChargeWindow DEF Worked, Work, WorkKinds
<1> QED
  BY Effects, <1>1, <1>2, <1>3, <1>4, <1>5, <1>6, <1>7, <1>8, <1>9

LEMMA InvStep ==
  ASSUME IInv, [Next]_vars
  PROVE  IInv'
<1>1. CASE Next
  BY <1>1, TypeStep, RegistryStep, OwnerStep, TransfersStep, EpochsStep, WindowStep DEF IInv
<1>2. CASE UNCHANGED vars
  BY <1>2, TypeStep DEF vars, state, device, meter, profile, buffer, IInv, RegistryExact,
     OwnerIsBirthDevice, TransfersCharged, EpochsOrdered, WindowExact, IsOpen
<1> QED
  BY <1>1, <1>2

LEMMA Invariance == Spec => []IInv
BY InvInit, InvStep, PTL DEF Spec
-----------------------------------------------------------------------------
(* The theorems *)

\* The state of the runtime is always well typed; in particular no reported
\* count is negative, which in the code would be a wrapped uint64_t.
THEOREM TypeCorrect == Spec => []TypeOK
BY Invariance, PTL DEF IInv

\* cimrt_close finds exactly the buffers that still point at its device.
THEOREM RegistryCorrect == Spec => []RegistryExact
BY Invariance, PTL DEF IInv

\* A buffer's back-pointer is its birth device while that is open, then null,
\* however often the addresses of either are used again.
THEOREM OwnerCorrect == Spec => []OwnerIsBirthDevice
BY Invariance, PTL DEF IInv

\* Every byte moved is charged to the device the buffer was allocated from.
THEOREM TransfersCorrect == Spec => []TransfersCharged
BY Invariance, PTL DEF IInv

\* A profile reports the work since the start it belongs to, or nothing.
THEOREM ProfileCorrect == Spec => ProfileReportsWindow
<1>1. ASSUME IInv, [Next]_vars
      PROVE  [\A d \in Devices : ProfileStop(d) =>
                report' = IF mark[d] = "start" THEN window[d] ELSE Zero]_vars
  <2>1. \A d \in Devices :
          ProfileStop(d) => report' = IF mark[d] = "start" THEN window[d] ELSE Zero
    BY <1>1, StopReport DEF IInv
  <2> QED
    BY <2>1
<1> QED
  BY <1>1, Invariance, PTL DEF Spec, ProfileReportsWindow
=============================================================================
