# TLA+ models of cim-mlir

cim-mlir compiles quantized matrix multiplications for compute-in-memory
hardware: a few tiles, each holding one weight matrix, which multiply vectors in
place and are slow and costly to reprogram. This directory holds TLA+ modules
translated from the source, the TLC runs that check them on small instances, and
theorems about them that TLAPS checks for every size.

    tlc -workers 2 -config MCTilePlacement.cfg MCTilePlacement.tla
    tlapm TilePlacementProofs.tla

Line references are to the repository's files (`PROJECT.json`, key `map`, gives
the lines of each definition).

## The system

| Part | State | Operations | What is hard |
| --- | --- | --- | --- |
| `cim-detect`, `lib/Transforms/CIMDetect.cpp` | - | a filter over single ops | - |
| `cim-partition`, `CIMPartition.cpp` | - | tiling, padding, the loop over rows | ragged edges, offsets, tiles used again |
| placement engine, `lib/Placement/Placement.cpp` | tile array, residency map, next uses, counts | `computePlacement` (Belady, LRU, FIFO), `validatePlacement`, `computeSteadyStatePlacement`, `validateSteadyStatePlacement` | three structures that must agree; values cached long before they are read; a schedule for one loop body that must stay right when repeated |
| `cim-placement`, `CIMPlacement.cpp` | the IR, candidates for hoisting, the optimum recorded on the module | per block: place, compare costs, rewrite; then hoist | blocks are solved alone and share tiles; hoisting out of loops that may not run |
| `cim-schedule`, `CIMSchedule.cpp` | pending results per device | barriers per block | reads in nested regions; work that crosses the end of a block |
| `cim-insert-transfers`, `CIMInsertTransfers.cpp` | copies by source and anchor | one copy per mvm or loop | a hoisted copy whose source changes |
| `cim-legalize-precision`, `CIMLegalizePrecision.cpp` | - | requantize after terminal accumulators | chains that are narrowed as a whole or not at all |
| `cim-lower-to-target`, `CIMLowerToTarget.cpp` | handles for values, hoisted buffers, open devices | one lowering per op | one buffer for all iterations; frees that must move exactly with allocations; reduction chains |
| interpreter, `lib/Interpreter/Interpreter.cpp` | views, shared allocations, device, loop indices | one run function per op | a call that fails half-way; views that keep an allocation alive; teardown order |
| `cimrt`, `runtime/` | devices, buffers, registry of live buffers, counters, profile window | the C interface | handles outliving their device, reused addresses, failing calls, windows |
| cost report, `CostReportUtils.cpp` | - | counting ops by trip counts | must equal the calls the runtime counts |
| dialect, target parser, JSON traces, tools, ONNX front end, erbium stub | - | single ops, arithmetic or I/O | see the notes in `PROJECT.json` |

The passes run one after the other over one IR; `cim-placement` calls the
engine for each block; the interpreter, and the code `cim-lower-to-target`
emits, call `cimrt`. No part is multi-threaded, but the devices of the target
are asynchronous: that is what `cim-schedule` inserts barriers for. Otherwise
what is hard is what a long sequence of steps does to state kept in several
places.

What makes each part correct:

- engine: its schedule is one the tile array can follow, its structures agree,
  Belady programs as seldom as any schedule, it always returns;
- steady state: the schedule repeats for ever, as cheaply as a fixed body can;
- `cim-placement`: each mvm of the emitted program finds its own weight on its
  tile, and the cost is the one that was compared;
- `cim-schedule` and `cim-insert-transfers`: nothing reads a result a device
  has not finished, and the function computes what it computed before;
- partition and legalization: the emitted ops compute the matrix product, for
  every ragged size, and stay well-typed;
- interpreter: the buffers it takes from the runtime are given back, wherever a
  call fails;
- cost report: its counts of calls are those of the runtime;
- `cimrt`: a buffer knows the device it came from while that is open, and never
  another; work is charged once and to the right device and window;
- `cim-lower-to-target`: the emitted calls touch live buffers only, compute
  what the interpreter computes, and leak nothing of their own.

## Modules

| Module | Models | How |
| --- | --- | --- |
| `TileArray` | `validatePlacement` | the abstract specification of a schedule: a replay that accepts or rejects each action (`Accept`, `Reject`, `RejectLength`, `Conclude`) |
| `TilePlacement` | `computePlacement` | one action per step of the backward sweep (`SweepUse`) and of the forward pass (`Reuse`, `ProgramIntoFree`, `ProgramWithEviction`), then `Return`. `TileState` is the record of the source; `residency` is its map |
| `OptimalPaging` | nothing: the reference | the fewest programs with which any schedule can serve a sequence: the least cost of the last uses, by how many are left and what is held, over every choice of what to keep |
| `Schedules` | the same engine under Belady, and pin-and-stream, as functions | used by the pass, which computes a schedule in one go; `EngineComputesBelady` checks the function against `TilePlacement` action by action |
| `SteadyState` | `validateSteadyStatePlacement` | extends `TileArray`: three repetitions of the pin-and-stream schedule |
| `PlacementPass` | `cim-placement` | `PlaceBlock` for each block in any order, `StartHoisting`, `HoistLoop`; then `Start` and the execution of the emitted program (`RunProgram`, `RunMvm`) on a tile array |
| `CimSchedule` | `cim-schedule`, `cim-insert-transfers` | one action per op that is added to a function (`Program`, `Mvm`, `Stage`, `Write`, `Read`, `EnterLoop`, `LeaveLoop`, `Return`), one per pass (`Schedule`, `InsertTransfers`), then the run: the host issues, devices complete (`Complete`) in between, `WaitAtBarrier` waits |
| `CimIR` | the ops of the dialect and those around them | records; a number in a buffer is the sequence of products that were added up to make it |
| `CimPartition` | `cim-detect`, `cim-partition` | functions from a matmul and a target to the ops it becomes |
| `LegalizePrecision` | `cim-legalize-precision`, the type rules of the verifiers | a function from a module to a module |
| `CostCounts` | `countWeightedOps` of the cost report | a function from a module to counts |
| `Interpreter` | the interpreter behind `cim-run` | one action per handler once its calls are made (`RunMvm`, `RunReducePartial`, ...), one for a call that succeeds (`CallSucceeds`) and one for a call that fails (`CallFails`); loops by a stack of frames; `Teardown` |
| `Pipeline` | the composition of the last five | what is printed, counted and well-typed |
| `Cimrt` | the C interface of the runtime on the simulator | one action per call, for every status it can return. Addresses of devices and buffers are reused, as an allocator reuses them. `history` variables remember who allocated what |
| `LowerToTarget` | `cim-lower-to-target` | one action per `lower...` function, while `section` walks entry, outer loop, inner loop, rest of the outer loop, exit; `Run` executes the calls emitted |
| `TilePlacementProofs` | theorems about the engine, on its own and against `TileArray`, `OptimalPaging` and `Schedules` | |
| `PlacementPassProofs`, `CimScheduleProofs`, `LowerToTargetProofs`, `CimrtProofs`, `InterpreterProofs` | theorems about the module they are named after | |
| `TileArrayProofs` | theorems about `TileArray` and `SteadyState` | |
| `SchedulesProofs` | lemmas the others cite: induction over the naturals and recursive functions, stated with sets; what the functions of `Schedules` return, for every sequence | |
| `MC*` | instances for TLC | |

How they compose: `TilePlacement` implements `TileArray` through `INSTANCE`
(`ScheduleIsAccepted`); `SteadyState` extends `TileArray` and takes its schedule
from `Schedules`; `PlacementPass` takes both schedules from `Schedules`;
`Pipeline` extends `Interpreter`, `CimPartition`, `LegalizePrecision` and
`CostCounts`, and its modules are what the first passes emit.

Abstractions that matter to a reader:

- A weight is a model value, its identity as `weightIdentity` computes it.
- In `PlacementPass` a weight of a block stands for its `cim.program` and the
  `cim.mvm` that follows it, which is the shape `cim-partition` emits.
- `Cimrt` has no bytes: a buffer has a size, and calls have costs.
- In `LowerToTarget` and `CimSchedule` the contents of a buffer are the
  expression that computed them, with the iteration it was computed in, so two
  computations are equal only if they read the same things. In `LowerToTarget`
  shapes, widths, several devices and barriers are left out, and each
  `cim.program` has a tile of its own. A slice is the whole of its source, its head,
  or a part further on; of offsets it is kept whether they are zero.
- `CimSchedule` builds functions in which an activation is not written after an
  op that reads it, in the order of the text: `cim-schedule` tracks results, not
  what a pending mvm still reads, and `cim-partition` gives every activation a
  buffer of its own. In a loop the next iteration may write it.
- In `Pipeline` every member of the operands is different, so that what is
  printed shows which products went where. Arithmetic is exact; widths matter
  only through element types (`LegalizePrecision`) and byte counts.
- The interpreter refuses the loads and stores with which `cim-partition`
  transposes plain matmul weights. Modules with `native` set are run with them,
  as compiled code would; others show the refusal.
- `CountsMatchRun` compares calls with the runtime's, and bytes with those that the
  `cim.copy` ops of the run move. The bytes the runtime counts are more: all staging
  of weights and activations is in them, and `CostReportUtils.h` (67-96) and
  `cost_report_e2e_test.cpp` (408-433) say that the report leaves it out.
- In `Interpreter` operands are looked up before the first call of a handler,
  so a refusal holds no buffers; reads and writes of a device view are one call
  each, where the code makes one per element.
- `LegalizedSound` is asked where no allocation is written by two copies and the
  target resolves at most 8 bits (`Narrowable`): the pass takes both for granted.

## Runs

| Run | Question | Bounds |
| --- | --- | --- |
| `validator` | does everything the validator accepts keep one copy of a weight and balance its counts? is pin-and-stream a fixed point, accepted, and the least for a fixed body? | 4 weights, up to 3 tiles; any schedule of 4 actions, right or wrong; bodies of up to 4 uses, repeated three times: all fit, one spills, several spill |
| `engine` | do the engine's structures agree, is Belady optimal, does the engine implement `TileArray`, evict by its policy, return? | all sequences of up to 6 uses of 4 weights on 0 to 3 tiles: one weight more than tiles, and uses enough for two evictions and a return. Weights are numbered in the order of their first use, as the engine only compares them |
| `placement_pass` | does every mvm find its weight, at the compared cost? | straight lines and single loops of up to 5 uses (the least at which pin-and-stream wins), two loops in a row, a loop in a loop, trip counts 0 to 3, known or not, weights that depend on the iteration or not |
| `schedule` | does anything read an unfinished result or a stale copy? | every function of up to 4 ops, two devices, a nest of two loops (`Depth` = 3) of 2 iterations: two programs and two mvms on different devices, or a program, an mvm, a buffer and its write |
| `pipeline` | is what is printed the product? do buffers balance, whichever call fails? does the report count the calls, and the bytes of the copies, that run? | products of up to 2 x 3 x 3 on tiles of 2 x 2 and 2 x 1, one to three of them: exact and ragged in each direction, one and several blocks, fewer tiles than blocks, in-place and chained reductions, plain and transposed weights, legalized or not; matmuls that are left alone; and functions written out with maxima, nested loops, unknown trip counts, reshapes, chains of copies |
| `cimrt` | are registry, ownership, charges and windows exact? | all sequences of 7 calls, 2 device and 2 buffer addresses, each reused |
| `lower` | does the emitted code compute what the interpreter computes? | 3 connected ops over a nest of two loops of 0 or 2 iterations: two iterations show a buffer freed or overwritten too early, zero a free without its allocation; strided operands of a maximum stand after the nest only, since straight-line code before and after it is lowered alike |
| `reuse_across_loop`, `program_and_inner_loop`, `dynamic_batch`, `lower_strided_tap`, `lower_strided_weights` | expected violations, below | the smallest programs of each kind |

Every property has a mutant: a definition named in `PROJECT.json`, replaced by
a plausible mistake defined just before it, makes TLC find the property violated.

Symmetry is over weights, or device and buffer addresses, which the models only
compare; runs with liveness have none.

Fairness. `MCTilePlacement` assumes `WF_vars(Next)`: the engine is a
sequential loop that nothing blocks, so an enabled step is taken. `Interpreter` assumes `WF_vars(Progress)`: the runtime is synchronous and a call
returns, well or not (`CallFails` is never forced). No other property needs
fairness, and no other specification has it.

CHECK_DEADLOCK is off everywhere as every model ends: an engine returns, a
program runs to its end, or a bound on calls is met.

## What the runs found

- `reuse_across_loop` (`CIMPlacement.cpp:424`): each block is solved alone. A
  weight used before and after a loop that programs the same tile is taken to be
  still resident; the later mvm computes with the loop's weight.
- `program_and_inner_loop` (`CIMPlacement.cpp:658`): whether a program is
  undisturbed is decided by the programs of its own block. In a loop body with a
  program of its own and an inner loop that programs the same tile, the body's
  program is hoisted before the outer loop (the inner loop's stays, as nested loops
  are left alone), and the body's mvm runs on the inner loop's weight from the second
  iteration on.
- `dynamic_batch` (`CIMPartition.cpp:418`): a dynamic number of rows is neither
  refused nor one; it becomes the bound of a loop that never turns, and the
  matmul is erased. The roadmap says dynamic shapes are left alone.
- `lower_strided_tap` (`CIMLowerToTarget.cpp:1563`): the contiguous copy of a
  strided `reduce_max` operand is allocated before the loop and deallocated in
  every iteration.
- `lower_strided_weights` (`CIMLowerToTarget.cpp:1003`): a strided weight
  block, which `cim-partition` makes as soon as there is more than one K-tile, is
  written as a run of contiguous bytes.

`placement_pass`, `schedule`, `pipeline` and `lower` leave these programs out, so
that everything else they check is checked. `CimSchedule` has the parameter
`LoopsRewrite`: with TRUE, `ResultsAreSequential` is violated, as a copy counts as
loop invariant when its source is defined before the loop, also if the loop writes
it (`CIMInsertTransfers.cpp:73`); `cim-partition` emits no such loop, and the run
has FALSE.

`LowerToTarget` has four more features that no run includes; with any of them,
`ComputesAsInterpreted` or another property of `lower` is violated (put its name in
`Features` of `MCLowerToTarget.cfg`). `accumulateInLoop` and `oneOperand` are emitted
by no pass, and no text of the repository says what they should do. The others are
slices of slices, which `checkAllowedConsumers` accepts and the comments at
`CIMLowerToTarget.cpp:1825-1834` take for proved, but `cim-partition` never makes:

- `partOfPart`: the offset of a slice is taken from its type (367-380), where it
  counts from the root buffer, and used in the buffer of its source (1876-1883). If
  that is itself a slice that is not at offset zero, `cimrt_copy_range` copies bytes
  further on, or refuses the range and the program stops. The interpreter gets it
  right.
- `partOfView`: when an identity view is folded (1845-1851), nobody looks at its
  users, so nothing is recorded for a slice of part of it: it is taken for one more
  identity and becomes the whole buffer.

## Proofs

All theorems hold for any number of weights, tiles, steps, devices, buffers and
calls; the assumptions on constants are the `ASSUME`s of the modules (types, and
that the null value is not an element of the set it completes), and hypotheses
of a theorem where it says so (`SeparateBlocks`, `LoopsRewrite`, `Tame`).

`TileArrayProofs`. The invariant of the replay is `TypeOK /\ NoDuplicate /\
HeldIsUsed /\ Ledger`. The validator looks only for copies of the weight it is
placing, so `NoDuplicate` is inductive for the reason that an array without
duplicates can only get one for that weight. `Ledger` (programs plus reuses are
the steps, programs less evictions the tiles in use, and no fewer programs than
weights) needs `HeldIsUsed`, that a tile holds only weights that were used.

The second half is the steady state. `Holds(t, r, later)` says what tile `t`
holds after `r` uses of the first or of a later repetition: its pinned weight
once installed, and on the streamed tile the last streamed weight, which in a
later repetition may be from the repetition before. `SteadyInv` says that the
replayed tiles hold just that; each replayed action is then one the array
accepts (`SteadyNeverRejected`), and as `Holds` does not depend on the number of
the repetition, neither does what is left at its end (`SteadyFixedPoint`). For
`SteadyLeast`, giving each use the tile that pin-and-stream gives it needs no
more programs than are reported (`OwnTilesSuffice`); and if each weight is used
once, any choice of tiles has at most one use on each tile that need not be
programmed again (`OnlyAloneIsKept`), so no choice needs fewer
(`AnyTilesNeedAsMany`).

`TilePlacementProofs`. `IInv` adds to `TypeOK`, `ResidencyExact` and
`NextUseExact` two facts: `SeenExact`, what the backward sweep has seen is the
first use from there on, and `CountsBounded`, which bounds the counters by the
step. That a next use cached in a tile stays exact rests on this: the steps
between touch other weights, so the first use after the touch is also the first
use after now. `BeladyCorrect` follows, and `EngineRefinesTileArray` shows, for
every policy, that each step of the engine maps to an `Accept`, the return to
`Conclude`, the sweep to stuttering. `BaselinesCorrect` judges LRU and FIFO by
the actions recorded so far; its invariant `AgesExact` says that the ages a tile
carries (`lastUsed`, `programSeq`) name the last action for its weight.

`BeladyOptimal` is the classical theorem, of the model: the
programs recorded plus the least cost of what is left never change under Belady
(`OnOptimalCourse`). That dropping the victim is a best choice follows from
three facts about the least cost as a function of the weights held, each by
induction over the uses left: holding more costs no more (`Monotone`), holding
one weight less costs at most one program more (`OneLess`), and of two weights
the one needed sooner is the better to hold (`Exchange`). `EngineIsFunction`
says that the engine, step by step, records the schedule that `Schedules`
computes and `PlacementPass` is modelled with: the invariant is that the actions
so far are the first of that schedule and the tiles hold what it holds there;
the victim is the same because scores order the tiles as the next uses do.

`PlacementPassProofs`. The theorems hold for any tiles, costs and programs that
satisfy `PassAssumption`: loops form a tree of finitely many, each body a
sequence of weights and loops. `PassInv` says what the pass has decided so far:
a placed block has the schedule the costs choose, the candidates are those of
the placed blocks, and what has been hoisted is what the visited loops move. `PassAlwaysSucceeds` and `TypeCorrect`
follow, the latter with `ExecutionRun`: the recursive `Execution` exists, by
induction over the tree of blocks, and is a sequence of ops.

`MvmsFindTheirWeights` is the property the pass exists for. A sequence of ops is
judged like a program with a pre- and a postcondition, which are sets of pairs of
a tile and the weight on it: `Leads(A, ops, B)` says that where the pairs of `A`
hold every `cim.mvm` of `ops` finds its weight, and those of `B` hold afterwards. Such facts compose. One use leads
from what the schedule holds before it to what it holds after (`UseLeads`); from
that follow a block (`BlockLeads`), the programs before a hoisted loop
(`PreheaderLeads`) and its iterations (`LoopLeads`), whose precondition an
iteration must restore. The invariant `Sound` says that the rest of the run finds
what it needs in what the tiles hold now. The hypothesis `SeparateBlocks` (a loop
beside the weights of a block has no weights in it, at any depth, as the source
assumes when it solves each block alone) cannot be dropped: the runs
`reuse_across_loop` and `program_and_inner_loop` are its counterexamples.

`NeverMoreThanBefore` and `CostsAreAsCompared` count instead of tracing.
`Progress` ties the counters of a run to the part of the execution that is
behind; `CountBlock` and `CountLoop` count the programs of an execution,
`OutermostCount` those of a hoisted loop and `OrdinaryCounts` those of the same
loop if it had been left as it was. The comparison the pass makes is between
these two numbers (`SteadyCosts`), so what it hoists is no dearer, for any trip
count.

`SchedulesProofs` carries these: Belady's schedule as a run of tile contents, pinned ranks as a numbering of the tiles, the streamed uses as a
sequence. Induction over data works with sets in place of predicates (a set of
naturals with 0 and all successors has every natural; a step function has an
iterate), proved from the well-foundedness of the naturals, so that recursive
functions and `FlattenSeq` can be reasoned about for inputs of any length.

`LowerToTargetProofs`. For functions of any length, reductions of any
number of operands and loops of any trip counts, the run of the emitted calls
uses and frees only allocated buffers (`LiveBuffers`) and leaves exactly those of
the values the source does not free (`NothingElseRemains`). A sequence of calls is
judged by the buffers it needs, creates and leaves (`Neat`); neat sequences
compose, and what each op emits is neat, the chains of `lowerReducePartial` by
induction over their operands. In the nest `Emit` tears an op's calls apart, and
`PickedParts` says what that comes to: the allocations still create what the op
did, the frees still free it, and what stays in the body neither creates nor
frees, needing only what was created before the nest. Hence `Placed`, the heart
of the inductive invariant `IInv`: entry, allocations, body, frees and exit fit
together, however often the body is repeated (`TraceRuns`). The other parts of
`IInv` say which buffer a value owns or shares (`ValueSound`), and that
`hoistedThisLoop` is what the nest has created so far (`Walked`). A second
induction, over the calls of a run, turns this into the checked properties
(`ExecutedFine`). The hypothesis `Tame` excludes two features and cannot do
without either: a strided operand of a reduction in a loop (the finding
`lower_strided_tap`) and a reduction of one operand. What the buffers hold
(`ComputesAsInterpreted`) is only model-checked.

`CimrtProofs`. `IInv` adds to the four checked invariants `EpochsOrdered`
(each opening of a device has its own number, none from the future) and
`WindowExact` (the snapshot of a running window is what the counters were at its
start). Ownership is then a statement about openings instead of addresses, which is why reusing an address cannot harm it. `Effects`, one lemma,
lists what each call may change; the preservation proofs cite it.

`InterpreterProofs`. `TypeOK` for any set of modules that satisfies
`ModulesAssumption` (the target has a tile, as its parser demands; a loop has a
body; a reduction has an operand, as its verifier demands). It
says that no bound view outlives its allocation, although every binding drops
the allocations without a view, and that no handle names a tile the target
lacks. The invariant adds `FramesInModule`: each frame stands in a block of the
module, so the op that is due is one of the module's. There is one lemma for
each kind of handler, one case for each action.

`BuffersBalanced` then shows that the live buffers of the runtime are exactly
those that bound values own and those the handler under way holds, whichever
call fails. A list of calls is a ledger (`IsLedger`): which buffers are held
before each call, that each call frees and uses only what is there, and that
every buffer held mid-way is given back on failure. `Leads` composes ledgers one
after the other, each handler's calls are one, and `BalanceInv` ties `live` to
the entry of the ledger the handler has reached (`MidHandler`). That allocations
and handler calls use different buffers comes from their shapes.

`CimScheduleProofs`. For any devices, depth of the nest, trip count and number
of ops, nothing reads what a device has not finished, and a block leaves nothing
unfinished. The argument goes through the phases of the model. A function under
construction is `AsBuilt`: ids of ops that issue work are their own and grow, and
such an op reads only earlier ones in its block or around it. A pass is an
`Expansion`: fillers between the ops, of which none issues work, and ops like
those before. `Spreading` shows that of both passes' `FlattenSeq`, and
`ExpansionKeeps` that it preserves what the run needs. `ScheduleStep` is the
heart: by the equation of the recursive `Pending` an op stays in its device's open
run until a barrier is inserted (`OpenIsPending`), so each block is `Flushed`:
between an op and one that reads its result elsewhere, or the end of its block,
there is a barrier. In the run, what is queued was issued in a block the host is
still in, with no barrier since (`LocatedAt`); a loop counts as one op that reads
all that is read in it, which is why the blocks around are safe too. That a
device's own queue is in order (`ReadOrder`) uses that ids grow along a block.

`ComputesSequentially` says what the order is for: every `cim.mvm` a device has
finished computed what a sequential run of the function computes that has no
barriers and no copies, so each copy that `cim-insert-transfers` shares or hoists
holds what its buffer does at every use. The invariant `DataInv` is about the
same phases. The function as built is `SourceData`: nothing after a `cim.mvm` in
its block changes its activation (`Kept`), and an activation from outside the
loop is not changed in the loop (`Given`). `cim-schedule` keeps this.
`cim-insert-transfers` makes it `RunData`: a `cim.mvm` reads its activation, or a
copy made before it in its block or before its loop, and from there to the
`cim.mvm` nothing changes buffer or copy (`Supplied`, `TransfersData`). In the
run, `Contents` holds after each step: a copy that may still be used is current
(`CopiesCurrent`), what is queued will compute what the sequential run computed
when it was issued (`Owed`), and all other buffers are equal (`Synced`). The
hypothesis `~ LoopsRewrite` is needed in `Given` alone, and cannot be dropped, as
said above.

Only model-checked: liveness (`Terminates` of the engine, `EverythingReleased`), which is out
of the prover's reach; the bound on a whole program's optimum (`OptimumIsBound`,
a sum over loops of least costs against the least cost of the flattened run);
what the code of `LowerToTarget` computes (`ComputesAsInterpreted`, a relation
between contents and iterations that needs one more invariant over the run); and
everything in `Pipeline`.

## Not modelled, and the plan

1. Proofs: `OptimumIsBound`; `ComputesAsInterpreted` of `LowerToTarget`; the
   results and counts of `Pipeline`. No module uses RECURSIVE operators, so all of
   them are within the prover's reach.
2. The arithmetic of `mvm`, `requantize` and the reductions on small widths, and
   the aliasing of their buffers.
3. `im2col` of the front end against a direct convolution.

Left out for good, with the reason in `PROJECT.json`: parsers and JSON (I/O), the
floating-point report, the command line tools, the rest of the front end, the
erbium stub.
