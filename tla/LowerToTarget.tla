--------------------------- MODULE LowerToTarget ----------------------------
(***************************************************************************)
(* cim-lower-to-target (lib/Transforms/CIMLowerToTarget.cpp): the ops of a *)
(* function become cimrt calls, and device values become buffer handles    *)
(* that the emitted code allocates, writes, reads and frees.               *)
(*                                                                         *)
(* The function is straight-line code around one nest of two loops.  The   *)
(* pass walks it once; each action lowers one more op, so the behaviours   *)
(* are the lowerings of every function within the bounds.  What an op      *)
(* creates in the nest is created before the outermost loop and freed      *)
(* after it.  Run then executes the emitted code.                          *)
(*                                                                         *)
(* The contents of a buffer are the expression that computed them, over    *)
(* the inputs of an iteration.  The reference is the expression the        *)
(* interpreter computes, where every result is a fresh allocation.         *)
(*                                                                         *)
(* Abstracted: byte sizes, element widths, dynamic shapes and unsupported  *)
(* consumers with their diagnostics; devices beyond the first, opened      *)
(* before the nest; the status checks after each call; tile ids (each      *)
(* cim.program has a tile of its own: PlacementPass is about sharing       *)
(* them); cim.barrier and tile_free, which move no data.                   *)
(***************************************************************************)
EXTENDS Integers, Sequences, FiniteSets, SequencesExt

CONSTANTS
  MaxOps,        \* bound on the ops of a function
  MaxOperands,   \* bound on the operands of a reduction
  Trips,         \* trip counts the loops may have
  InPlace,       \* the target's partial_sum_in_place ("add"), max_in_place ("max")
  Features       \* what a function may hold besides, see AllFeatures

\* In the nest, a strided operand of reduce_max or a mvm that accumulates; in
\* cim.program, a strided weight block; a reduction of one operand; a slice of part
\* of a folded view, or of a slice that does not start where its source starts.
AllFeatures == {"stridedTapInLoop", "accumulateInLoop", "stridedWeights", "oneOperand",
                "partOfView", "partOfPart"}
ASSUME LoweringAssumption ==
  /\ MaxOps \in Nat /\ MaxOperands \in Nat /\ Trips \subseteq Nat
  /\ InPlace \subseteq {"add", "max"} /\ Features \subseteq AllFeatures

VARIABLES
  section,   \* where the walk stands
  opened,    \* openDevices is not empty
  values,    \* the results of the ops so far, and what replaced them
  freed,     \* the values that a memref.dealloc has freed
  hoisted,   \* hoistedThisLoop
  code,      \* the calls emitted at each place
  outcome    \* of the run of the emitted code

vars == <<section, opened, values, freed, hoisted, code, outcome>>

Order    == <<"entry", "outer", "inner", "tail", "exit">>
LoopNest == {"outer", "inner", "tail"}
Places   == {"entry", "preheader", "outer", "inner", "tail", "postloop", "exit"}
InLoop   == section \in LoopNest

\* Iterations of the outer and the inner loop; zero outside of a loop.
Iterations == {<<0, 0>>} \cup (1 .. 2) \X (0 .. 2)
At(home, it) ==
  CASE home \in {"entry", "exit"}  -> <<0, 0>>
    [] home \in {"outer", "tail"} -> <<it[1], 0>>
    [] home = "inner"             -> it

Pristine == [contents |-> <<>>, allocated |-> {}, faults |-> {}]
Init ==
  /\ section = "entry" /\ opened = FALSE
  /\ values = <<>> /\ freed = {} /\ hoisted = {}
  /\ code = [p \in Places |-> <<>>]
  /\ outcome = Pristine
-----------------------------------------------------------------------------
(* The source function. *)

MayAdd == /\ section \in {"entry", "exit"} \cup LoopNest
          /\ Len(values) + Cardinality(freed) < MaxOps

\* SSA dominance: a value of a loop body is unknown outside of that body.
Visible(home) ==
  CASE home = "entry" -> TRUE
    [] home = "outer" -> InLoop
    [] OTHER -> section = home
Usable(v)    == Visible(values[v].home) /\ freed \cap {v, values[v].base} = {}
Those(space) == {v \in DOMAIN values : values[v].space = space /\ Usable(v)}

\* What an op reads: a result, or a host input, which may be a strided view.
Memory == <<0, "input", 0>>
Operand(v) == [loc |-> values[v].loc, strided |-> FALSE,
               device |-> values[v].space = "device", means |-> values[v].means]
HostInput(strided) ==
  [loc |-> Memory, strided |-> strided, device |-> FALSE,
   means |-> [it \in Iterations |-> <<"input", At(section, it)>>]]
Operands == {Operand(v) : v \in Those("device") \cup Those("host")} \cup {HostInput(FALSE)}
\* Bound: ops before the nest and after it are lowered alike, and only those after
\* it have strided taps.
StridedTaps == CASE section = "entry" -> {} [] section = "exit" -> {HostInput(TRUE)}
                 [] OTHER -> {HostInput(TRUE) : f \in Features \cap {"stridedTapInLoop"}}
Taps     == Operands \cup StridedTaps
WeightBlocks == {HostInput(FALSE)} \cup {HostInput(TRUE) : f \in Features \cap {"stridedWeights"}}
Accumulates  == IF InLoop /\ "accumulateInLoop" \notin Features THEN {FALSE} ELSE BOOLEAN
\* Bound: an op that shares no value with the ones before it shares no buffer with
\* them either, and is a function of its own.
Joined(os) == values = <<>> \/ \E i \in DOMAIN os : os[i].loc # Memory
Arities      == (IF "oneOperand" \in Features THEN 1 ELSE 2) .. MaxOperands

\* What the interpreter computes: f of the operands, or a left fold of f.
Applied(f, means)  == [it \in Iterations |-> <<f>> \o [i \in DOMAIN means |-> means[i][it]]]
Folded(f, means)   == FoldLeft(LAMBDA acc, m : Applied(f, <<acc, m>>), Head(means), Tail(means))
Zero == [it \in Iterations |-> <<"zero">>]
-----------------------------------------------------------------------------
(* Calls, and where they are emitted. *)

Alloc(x) == [op |-> "alloc", dst |-> x]
Free(x)  == [op |-> "free", dst |-> x]
\* memref.dealloc of a materialized operand, built where it stands.
FreeHere(x) == [op |-> "freeHere", dst |-> x]
\* A call that fills dst with f of what args hold.
Set(x, f, args) == [op |-> "set", dst |-> x, f |-> f, args |-> args]
Move(x, y)      == Set(x, "move", <<y>>)
\* Not a call: value v of the source is now to be found at x.
Done(x, v)      == [op |-> "done", dst |-> x, value |-> v]

\* A buffer this op creates, named after the op's place among the values.
New(role, i) == <<Len(values) + 1, role, i>>

\* Mutants: every buffer is created, or freed, where the op stands.
HoistsNothing(call) == FALSE
DefersNothing(call, known) == FALSE
Hoists(call)        == call.op = "alloc"
Defers(call, known) == call.op = "free" /\ call.dst \in known

\* The calls that are in T, in order.
Among(calls, T) == FlattenSeq([i \in DOMAIN calls |-> IF calls[i] \in T THEN <<calls[i]>> ELSE <<>>])

\* noteHoisted, creationBuilder, freeBuffer: frees go right after the loop, so
\* a later one comes before an earlier one.
Emit(calls) ==
  LET made  == {c.dst : c \in {d \in ToSet(calls) : Hoists(d)}}
      known == IF InLoop THEN hoisted \cup made ELSE {}
      early == {c \in ToSet(calls) : InLoop /\ Hoists(c)}
      late  == {c \in ToSet(calls) : Defers(c, known)}
  IN /\ hoisted' = known
     /\ code' = [code EXCEPT ![section] = @ \o Among(calls, ToSet(calls) \ (early \cup late)),
                             !["preheader"] = @ \o Among(calls, early),
                             !["postloop"] = Reverse(Among(calls, late)) \o @]

\* The op's result is now to be found at x: a handle, a host buffer, a tile.
Give(calls, space, x, base, means) ==
  /\ Emit(Append(calls, Done(x, Len(values) + 1)))
  /\ values' = Append(values, [space |-> space, loc |-> x, base |-> base,
                               home |-> section, means |-> means])
  /\ UNCHANGED <<section, opened, freed, outcome>>
\* A handle stays one if the op's type says so, else it is read back into a host
\* buffer.  own: it is this op's scratch.
Finish(calls, space, x, own, means) ==
  IF space = "device" THEN Give(calls, space, x, 0, means)
  ELSE LET host == New("host", 0)
       IN Give(calls \o <<Alloc(host), Move(host, x)>> \o (IF own THEN <<Free(x)>> ELSE <<>>),
               space, host, 0, means)

\* stageForRead of the i-th operand, and the free of what it staged.  writeBuffer
\* takes a run of bytes from the operand's address, whatever its strides.
Bytes(o)     == IF o.strided THEN "garbled" ELSE "move"
Staged(o, i) == IF o.device THEN o.loc ELSE New("staged", i)
Stage(o, i)  ==
  IF o.device THEN <<>>
  ELSE <<Alloc(New("staged", i)), Set(New("staged", i), Bytes(o), <<o.loc>>)>>
Unstage(o, i) == IF o.device THEN <<>> ELSE <<Free(New("staged", i))>>
-----------------------------------------------------------------------------
LowerDeviceOpen ==
  /\ section = "entry" /\ ~opened
  /\ opened' = TRUE
  /\ UNCHANGED <<section, values, freed, hoisted, code, outcome>>

\* A lowering that needs a device finds openDevices empty: an error, and the
\* pass fails.
Refuse ==
  /\ MayAdd /\ ~opened
  /\ section' = "refused"
  /\ UNCHANGED <<opened, values, freed, hoisted, code, outcome>>

LowerProgram ==
  /\ MayAdd /\ opened
  /\ \E w \in WeightBlocks :
       LET buf  == New("staged", 1)
           tile == New("tile", 0)
       IN Give(<<Alloc(buf), Set(buf, Bytes(w), <<w.loc>>), Move(tile, buf), Free(buf)>>,
               "resident", tile, 0, w.means)

LowerMvm ==
  /\ MayAdd
  /\ \E r \in Those("resident"), o \in Operands, space \in {"host", "device"},
        accumulate \in Accumulates :
       LET out  == New("out", 0)
           args == <<values[r].loc, Staged(o, 1)>>
           call == IF accumulate THEN Set(out, "add", <<out>> \o args) ELSE Set(out, "mvm", args)
           read == <<values[r].means, o.means>>
       IN Finish(Stage(o, 1) \o <<Alloc(out), call>> \o Unstage(o, 1), space, out, TRUE,
                 IF accumulate THEN Applied("add", <<Zero>> \o read) ELSE Applied("mvm", read))

LowerRequantize ==
  /\ MayAdd /\ opened
  /\ \E o \in Operands, space \in {"host", "device"} :
       LET out == New("out", 0)
       IN Joined(<<o>>) /\ Finish(Stage(o, 1) \o <<Alloc(out), Set(out, "requantize", <<Staged(o, 1)>>)>>
                                            \o Unstage(o, 1),
                                space, out, TRUE, Applied("requantize", <<o.means>>))

\* N operands and no in-place capability: N - 1 accumulators, each freed by the
\* step after it, but the last.
Chain(f, os, stages) ==
  LET sum(i) == IF i = 1 THEN Staged(os[1], 1) ELSE New("sum", i)
      step(i) == stages[i] \o <<Alloc(sum(i)), Set(sum(i), f, <<sum(i - 1), Staged(os[i], i)>>)>>
                   \o (IF i = 2 THEN Unstage(os[1], 1) ELSE <<Free(sum(i - 1))>>)
                   \o Unstage(os[i], i)
  IN stages[1] \o FlattenSeq([k \in 1 .. Len(os) - 1 |-> step(k + 1)])
\* In place: the first operand, which others may hold, is copied, then added to.
ChainInPlace(f, os, stages) ==
  LET sum == New("sum", Len(os))
      step(i) == stages[i] \o <<Set(sum, f, <<sum, Staged(os[i], i)>>)>> \o Unstage(os[i], i)
  IN <<Alloc(sum)>> \o stages[1] \o <<Move(sum, Staged(os[1], 1))>> \o Unstage(os[1], 1)
       \o FlattenSeq([k \in 1 .. Len(os) - 1 |-> step(k + 1)])

Reduced(f, first, os, stages, space) ==
  LET means == [i \in DOMAIN os |-> os[i].means]
  IN IF Len(os) = 1
     THEN Finish(first \o stages[1], space, Staged(os[1], 1), ~os[1].device, means[1])
     ELSE Finish(first \o (IF f \in InPlace THEN ChainInPlace(f, os, stages)
                               ELSE Chain(f, os, stages)),
                 space, New("sum", Len(os)), TRUE, Folded(f, means))

LowerReducePartial ==
  /\ MayAdd /\ opened
  /\ \E n \in Arities : \E os \in [1 .. n -> Operands], space \in {"host", "device"} :
       Joined(os) /\ Reduced("add", <<>>, os, [i \in 1 .. n |-> Stage(os[i], i)], space)

\* A strided operand is materialized: a host copy created like any buffer, filled
\* here, and deallocated here once it has been staged.
Materialize(o, i) ==
  IF o.strided
  THEN <<Alloc(New("contiguous", i)), Move(New("contiguous", i), o.loc)>>
  ELSE <<>>
\* Mutant: the view itself is staged.
ContiguousAsIs(o, i) == o
Contiguous(o, i) ==
  IF o.strided THEN [o EXCEPT !.loc = New("contiguous", i), !.strided = FALSE] ELSE o
StageOperand(o, i) ==
  Stage(Contiguous(o, i), i) \o (IF o.strided THEN <<FreeHere(New("contiguous", i))>> ELSE <<>>)

LowerReduceMax ==
  /\ MayAdd /\ opened
  /\ \E n \in Arities : \E os \in [1 .. n -> Taps], space \in {"host", "device"} :
       LET first == FlattenSeq([i \in 1 .. n |-> Materialize(os[i], i)])
       IN Joined(os) /\ Reduced("max", first, os, [i \in 1 .. n |-> StageOperand(os[i], i)], space)

\* Host to host is a memref.copy, and needs no device.
LowerCopy ==
  /\ MayAdd
  /\ \E o \in Operands, space \in {"host", "device"} :
       LET dst == New("copy", 0)
       IN /\ Joined(<<o>>)
          /\ opened \/ ~(o.device \/ space = "device")
          /\ Give(<<Alloc(dst), Move(dst, o.loc)>>, space, dst, 0, o.means)

\* The whole of its source, its first elements, or elements further on.
Slices == {"whole", "head", "rest"}

\* Offset of the bytes of a handle from the buffer they were first taken from, as
\* the type of the value has it: zero or not.
Offset(x) == IF x[2] = "sliced" THEN x[3] ELSE 0
\* A view that was folded into its source; what reads it was never looked at.
FoldedView(v) == values[v].base # 0 /\ \E u \in 1 .. v - 1 : values[u].loc = values[v].loc

\* cimrt_copy_range gets the offset of the slice's type, which is right for a
\* source at offset zero.  From any other it reads bytes further on, or past the
\* end, and then the program stops.
CopiedRange(f, x) == IF Offset(x) = 0 THEN f ELSE "misplaced"

\* A slice that checkAllowedConsumers took for one of a part of its source gets
\* a buffer of its own; any other is its source.
LowerSubview ==
  /\ MayAdd
  /\ \E v \in Those("device"), f \in Slices :
       LET base   == IF values[v].base = 0 THEN v ELSE values[v].base
           x      == values[v].loc
           means  == IF f = "whole" THEN values[v].means ELSE Applied(f, <<values[v].means>>)
           sliced == New("sliced", IF f = "rest" THEN 1 ELSE Offset(x))
       IN /\ f # "whole" /\ FoldedView(v) => "partOfView" \in Features
          /\ f # "whole" /\ Offset(x) # 0 => "partOfPart" \in Features
          /\ IF f = "whole" \/ FoldedView(v) THEN Give(<<>>, "device", x, base, means)
             ELSE Give(<<Alloc(sliced), Set(sliced, CopiedRange(f, x), <<x>>)>>,
                       "device", sliced, base, means)

\* What the source frees, once in every iteration that makes it.
LowerDealloc ==
  /\ MayAdd
  /\ \E v \in Those("host") \cup Those("device") :
       /\ values[v].base = 0
       /\ At(section, <<1, 2>>) = At(values[v].home, <<1, 2>>)
       /\ Emit(<<Free(values[v].loc)>>)
       /\ freed' = freed \cup {v}
  /\ UNCHANGED <<section, opened, values, outcome>>

\* Mutant: hoistedThisLoop survives the nest.
NextSectionKeepsHoisted ==
  /\ section \in ToSet(Order) \ {"exit"}
  /\ section' = Order[1 + CHOOSE i \in DOMAIN Order : Order[i] = section]
  /\ UNCHANGED <<opened, values, freed, hoisted, code, outcome>>

\* The walk goes on to the next part; hoistedThisLoop is cleared on entry to and
\* on exit from the outermost loop.
NextSection ==
  /\ section \in ToSet(Order) \ {"exit"}
  /\ section' = Order[1 + CHOOSE i \in DOMAIN Order : Order[i] = section]
  /\ hoisted' = IF section \in {"entry", "tail"} THEN {} ELSE hoisted
  /\ UNCHANGED <<opened, values, freed, code, outcome>>
-----------------------------------------------------------------------------
(* The run of the emitted code. *)

During(place, it) == [i \in DOMAIN code[place] |-> [call |-> code[place][i], it |-> it]]
Loop(n, body(_)) == FlattenSeq([i \in 1 .. n |-> body(i)])
Trace(outer, inner) ==
  LET around(i) == During("outer", <<i, 0>>)
                     \o Loop(inner, LAMBDA j : During("inner", <<i, j>>))
                     \o During("tail", <<i, 0>>)
  IN During("entry", <<0, 0>>) \o During("preheader", <<0, 0>>) \o Loop(outer, around)
       \o During("postloop", <<0, 0>>) \o During("exit", <<0, 0>>)

IsBuffer(x) == x[2] \notin {"input", "tile"}
Execute(m, step) ==
  LET c == step.call
      dead(xs) == {x \in xs : IsBuffer(x) /\ x \notin m.allocated}
      holds(x) == IF x = Memory THEN <<"input", step.it>> ELSE m.contents[x]
      put(e)   == [x \in DOMAIN m.contents \cup {c.dst} |-> IF x = c.dst THEN e ELSE m.contents[x]]
  IN CASE c.op = "alloc" ->
            [m EXCEPT !.allocated = @ \cup {c.dst}, !.contents = put(<<"zero">>),
                      !.faults = @ \cup (IF c.dst \in m.allocated THEN {"lost"} ELSE {})]
       [] c.op \in {"free", "freeHere"} ->
            [m EXCEPT !.allocated = @ \ {c.dst},
                      !.faults = @ \cup (IF dead({c.dst}) # {} THEN {"dead"} ELSE {})]
       [] c.op = "set" /\ dead({c.dst} \cup ToSet(c.args)) = {} ->
            LET args == [i \in DOMAIN c.args |-> holds(c.args[i])]
            IN [m EXCEPT !.contents = put(IF c.f = "move" THEN args[1] ELSE <<c.f>> \o args)]
       [] c.op = "set" /\ dead({c.dst} \cup ToSet(c.args)) # {} ->
            [m EXCEPT !.faults = @ \cup {"dead"}]
       [] c.op = "done" ->
            [m EXCEPT !.faults = @ \cup
               (IF dead({c.dst}) = {} /\ holds(c.dst) # values[c.value].means[step.it]
                THEN {"wrong"} ELSE {})]

\* (A recursive function, which TLC evaluates faster than a fold.)
Executed(trace) ==
  LET after[n \in 0 .. Len(trace)] ==
        IF n = 0 THEN Pristine ELSE Execute(after[n - 1], trace[n])
  IN after[Len(trace)]

Run ==
  /\ section = "exit"
  /\ section' = "ran"
  /\ \E outer \in Trips : \E inner \in IF outer = 0 THEN {0} ELSE Trips :
       outcome' = Executed(Trace(outer, inner))
  /\ UNCHANGED <<opened, values, freed, hoisted, code>>

Next ==
  \/ LowerDeviceOpen \/ Refuse
  \/ LowerProgram \/ LowerMvm \/ LowerRequantize \/ LowerReducePartial \/ LowerReduceMax
  \/ LowerCopy \/ LowerSubview \/ LowerDealloc
  \/ NextSection \/ Run
Spec == Init /\ [][Next]_vars
-----------------------------------------------------------------------------
(* Properties. *)

\* The types of the variables; and only the nest being lowered has hoisted
\* buffers, each of them created before it (hoistedThisLoop).
TypeOK ==
  /\ section \in ToSet(Order) \cup {"refused", "ran"} /\ opened \in BOOLEAN
  /\ \A v \in DOMAIN values :
       /\ values[v].space \in {"host", "device", "resident"}
       /\ values[v].home \in ToSet(Order) /\ values[v].base \in 0 .. v - 1
  /\ freed \subseteq DOMAIN values
  /\ hoisted \subseteq {c.dst : c \in ToSet(code["preheader"])}
  /\ section \in {"entry", "exit", "ran"} => hoisted = {}
  /\ outcome.faults \subseteq {"dead", "lost", "wrong"}

\* In every run, for every number of iterations of each loop, no call reads,
\* writes or frees a buffer that is not allocated: no hoisted buffer is freed in
\* an iteration that another one follows (file header point 1), and none twice.
BuffersAreLive == "dead" \notin outcome.faults

\* In every iteration each op leaves what the interpreter computes for it, though
\* all iterations share one buffer where the interpreter has a fresh one for each.
ComputesAsInterpreted == "wrong" \notin outcome.faults

\* A run loses no buffer, and leaves allocated exactly those of the values that
\* nothing in the source frees: all of this pass' own scratch is gone (point 4).
OnlyUnfreedValuesRemain ==
  /\ "lost" \notin outcome.faults
  /\ section = "ran" =>
       outcome.allocated = {x \in {values[v].loc : v \in DOMAIN values} : IsBuffer(x)}
                             \ {values[v].loc : v \in freed}
=============================================================================
