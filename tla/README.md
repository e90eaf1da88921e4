# KryhtaJS in TLA+

KryhtaJS is a JavaScript-like interpreter in Rust whose programs run as *fibers*:
they perform effects, which a handler in the program, the runtime or the host
answers; they can be paused when their fuel runs out, written to a snapshot,
recorded to a replay log, and recovered from it. This directory holds TLA+ modules
that model the parts of the runtime where order, failure and bookkeeping make bugs
likely, the TLC configurations that check them, and TLAPS proofs about them.

## 1. The system

| component | state | operations | talks to | hard because |
|---|---|---|---|---|
| Fiber scheduler (`src/src/runtime.rs`) | `fibers`, `ready_queue`, `current`, `join_waiters`, `next_fiber_id`, one set of interpreter registers | `run_scheduler`, `handle_fork`, `handle_join`, `handle_host_effect`, `handle_snapshot`, completion, failure; the host's `eval_hosted`, `resume_with`, `add_fuel`, `run_hosted_continue` | interpreter (slices), meters, host (outcomes and answers), log | interleaving of fibers, joins racing ends, answers out of order, entries and re-entries of one loop |
| Fuel meters (`fuel.rs`) | arena of meters with parents | charge, add, carve, refund | scheduler | saturation, shared and nested meters, double refunds |
| Replay log (`replay.rs`, entry points in `runtime.rs`) | the file; `LogMode`; `done_written` | `record_to`, append, `parse_log`, `resume_from_log` | host calls, the file system | a crash between any two steps, torn tails, errors of append, retries |
| Snapshots (`snapshot.rs`) | bytes of a whole runtime | `write_runtime`, `read_runtime`, `write_snapshot_file` | scheduler, every arena | partial writes; what is left out of the bytes must be rebuilt; a writer and a reader that each list hundreds of fields by hand |
| Interpreter (`cekh.rs`, `cont.rs`, `handler.rs`, `env.rs`) | control, continuation chain, environments | step, call, perform, resume, break/continue/return | arenas, scheduler | continuations captured, rebased and resumed |
| Collector and arenas (`gc.rs`, `arena.rs`) | slots, free lists, mark bits | alloc, mark, sweep, collect | everything that holds an id | a missing root, an id reused |
| Environments (`env.rs`) | bindings of a scope, its parent | insert, get, look up and assign along the chain | interpreter, collector | an array that turns into a map; names bound twice |
| Host boundary (`host.rs`) | – | value conversion, `CallId` | host | cyclic values, identity of calls |
| Objects, values, strings, builtins | heap data | property access, array and string functions | interpreter | little: sequential, unit-testable |
| Lexer, parser, AST | token stream, node arenas | parse | interpreter | little: sequential |
| Command line, wasm | – | argument handling | runtime's entry points | little |

What makes each one correct:

* scheduler: no runnable fiber is lost, run twice or run on another fiber's
  registers; whoever joins gets the right fate exactly once; a run reports its root's
  result; every entry gives the thread back; queued fibers get their turn;
* meters: fuel is moved and spent, never created; one fiber's end does not take
  fuel from another;
* log: what the log says is what the run did, at every moment and after every crash;
  recovery succeeds on a log the runtime wrote, within the limits that section 3 names,
  and goes on by itself;
* snapshot: what is read is what was written, a file that is not whole is refused, and
  the restored runtime goes on as the saved one would have;
* interpreter: a resumed continuation is the one captured; unwinding stops where the
  construct ends;
* collector: nothing a program can still get at is swept, whoever holds it;
* environments: a scope is a map, whatever its size;
* host boundary: a value crosses unless it has code or a cycle in it, and comes back
  as it went.

`PROJECT.json` lists the components with their status and, under `hazards`, the
places in the code where these can go wrong.

## 2. The modules

| module | what it is |
|---|---|
| `Fuel` | the meters of `fuel.rs` as operators on the arena |
| `Scheduler` | the scheduler of `runtime.rs` with the host as its environment |
| `SchedulerProps` | its invariants, action and liveness properties |
| `FiberPool` | what the scheduler promises a program: abstract fibers, no queues, meters or slices |
| `SchedulerRefines` | the refinement mapping from `Scheduler` to `FiberPool` |
| `ReplayLog` | the write-ahead log, crashes and recovery; uses `Fuel` for the root meter |
| `ReplayProps` | its properties, and the reference definition of what a log stands for |
| `Continuations` | the continuation chain of `cekh.rs` and `cont.rs`: frames in an arena, perform, handlers, capture, resumption, unwinding |
| `DelimitedStack` | what the chain promises a program: a stack whose captured parts are values |
| `ContinuationProps` | its properties and the reading of the chain as a stack |
| `Arena` | the arenas of `arena.rs`: slots, free list, alloc, sweep |
| `Wire` | `ByteWriter` and `ByteReader`, driven by tables of variants and fields |
| `SnapshotWriter`, `SnapshotReader` | one table for each `write_` and each `read_` function of `snapshot.rs`; the checks of `read_runtime` |
| `SnapshotProps` | the two sets of tables against each other |
| `Collector` | `gc.rs`: what each arm of marking follows, roots, collection |
| `Machine` | the interpreter as a user of the heap: what its steps allocate, spend and keep |
| `Durable` | the runtime around that heap: fibers, effects, collections, the checkpoint, crashes and restarts |
| `Bindings` | the bindings of one scope (`env.rs`) |
| `HostValues` | the conversion of values to and from the host (`host.rs`) |
| `DurableProps` | the properties of `Durable`, of tracing and of scopes |
| `ConversionProps` | the properties of the codec and of the host boundary, on samples |
| `MCScheduler`, `MCReplay`, `MCContinuations`, `MCDurable` | constants for TLC |
| `FuelProofs`, `QueueLemmas` | lemmas on the meter operators, on sequences as FIFO queues, and induction |
| `SchedulerProofs` | the inductive invariant of `Scheduler` and what follows from it; fibers and registers, deliveries and pauses, fuel, the refinement of `FiberPool` |
| `ReplayProofs` | the theorems about `ReplayLog` |
| `ContinuationProofs` | the inductive invariant of `Continuations` and what follows from it; the refinement of `DelimitedStack` |
| `HeapProofs` | arenas, the collection and the steps of `Machine`, whatever is in the heap; tracing |
| `CodecProofs` | lemmas: what each table of the writer writes, the reader's table reads |
| `DurableProofs` | the image of a whole runtime; the inductive invariant of `Durable` and what follows from it; scopes |

`Scheduler` and `ReplayLog` use `Fuel`, `Continuations` is read as `DelimitedStack`, and
`SchedulerRefines` maps `Scheduler` to `FiberPool`. `Durable` is built on `Machine`, that
on `Collector`, that on `Arena` and on the writer's tables; `Durable` adds the reader's.
`HeapProofs`, `CodecProofs` and `DurableProofs` extend each other in this order.

Three modules meet the interpreter, each with what its questions need of it: for
`Scheduler` it is a black box that ends a slice; `Continuations` has the whole chain of
frames and no values; `Machine` has values, environments and objects, and of the frames
those that allocate, keep or read ids.

### Scheduler

*State.* The variables are the fields of `Runtime`. `fibers` is indexed by id;
`"Absent"` says that the Vec has no such fiber. A machine register is a record: `k`
names the fiber whose continuation and environment it holds, `c` what the control is,
`of` whose result a delivered value is. Values are named by the continuation that
computed them, which is all the properties tell apart. `main_result` is the local of
`run_scheduler`, `entry` says whether the thread is in the loop or with the host.
`h_root` and `h_granted` are history: how the root ended, and how much fuel the run
was given.

*Steps.* A turn of the loop is a selection (`SelectNextFiber`) followed by a slice.
Between the two nothing else runs (the program is single-threaded), but the selection is a
separate step because the fuel check in between can pause the run or fail the fiber
(`PauseOutOfFuel`, `FailDry`). Each slice is one action together with everything its
effect handler does. `CEKH::run` is a black box: it spends a number of steps within the
allowance and then completes (`SliceDone`), is preempted (`SlicePreempted`), faults
(`SliceFault`) or performs an effect, with one action per effect and outcome
(`EffectPlain`, `EffectRefused`, `ForkShared`, `ForkCarved`, `ForkInsufficient`,
`JoinFinished`, `JoinWaits`, `JoinMissing`, `EffectHost`, `SnapshotWritten`,
`SnapshotResumed`, `SnapshotFailed`). `StepsTo` gives the steps it can have spent: an
effect costs at least one unless the control is already a suspended one, which happens
when the host re-enters the loop after a fault of the root left `current` and the
registers in place. `Settle` is the end of a fiber: fate, wake-ups, removal and refund in
the order of the code. `Fault` is the pair of `Err` arms.

*The host* may set the budget on a fresh runtime, run, continue, answer any pending
call, and add fuel when the root meter is at 0, in any order and as often as it
likes. It is not obliged to do anything.

*Restored runs.* `handle_snapshot` forks the run in time: the process that wrote goes on
and sees "saved" (`SnapshotWritten`), a process that reads the file sees "restored", with
the performing fiber first in the queue and none current (`SnapshotResumed`).
`CheckpointResumed` is the same for `Runtime::snapshot`, which the host calls between two
entries. Whatever the runs and the theorems say of `Scheduler` they say of restored runs
too.

### ReplayLog

*The run* is a deterministic program: fibers take turns in queue order, a turn costs
one step, fiber `f` asks the host `Calls[f]` times. `trace` is everything the program
observed, so equal traces mean equal runs; its length is `steps_total`, the stamp of
a record. The order of answers decides the order of the queue, which is why replay
has to reproduce it.

*The file* is a sequence of records, each whole or torn. An append is one step when it
succeeds; `Crash` may leave nothing, part or all of the record that was being written,
`AppendFailure` is `write_all` or `sync_data` returning an error to a host that lives
on. `parse_log` reads the records up to a torn one; behind a torn record nothing can
be decoded, and it is open whether the reader notices (`RefuseLog`) or takes the torn
length for the end of the log (`BeginReplay`).

A complete record comes back from the file as it went in, with one exception: host values
of any depth are written, and those nested deeper than `MAX_HOST_VALUE_DEPTH` are not read.
`TooDeep` is a set of answers of that kind; `Decodes` says which records `decode_event`
reads, and `RefuseLog` refuses a log with another one, or with one behind Done (`Readable`).

*Starting.* `eval_hosted` on an armed runtime takes the path out of the mode and then
writes the header. When that fails (`StartFails`) the runtime is left without a log; the
host may arm it again (`RecordTo`) or only evaluate again (`RunUnrecorded`), which runs the
program unrecorded and is not followed further.

*Snapshot!* A turn may perform one. It answers "saved", in a replay without writing, so it
is no action of its own. When the file cannot be written the recorded run differs from its
replay: `SnapshotFails` is this for a child, which ends in an error. The history variable
`h_saved` says that it has not happened.

*Recovery* (`resume_from_log`) is taken step by step: the initial run, each event with
its stamp and its check, the truncation, the Continue that the dead host had meant to
make, the Done that a crash ate. The process can die in any of them.

### Continuations

*State.* `konts` is the arena of frames as a function from the slots in use, `cont`
the register, `control` what the machine does next, `held` the resumptions the program
can still reach outside frames. A resumption is the pair of slot and effect; the
effect is history, `JSValue::Continuation` holds only the slot (and an environment).
Slot 0 is the halt frame, as in `ContArena`. A slot that no register, frame or
resumption reaches is dropped at the end of the step, so the bound on slots is a bound
on live frames; collecting too much is the business of the collector, not of this
module. New slots are above the used ones.

*Steps.* One action per call of `CEKH::step`. While the control is `"Eval"` the program
chooses what comes: there is an action for each construct that does something of its
own to the chain. `apply_cont` takes the top frame out of its slot (`Spent`) and then
does what that kind of frame does. The forty kinds of frame come down to seven: those
that only wait for a value and go on (`PendingK`), calls (`ArgsK`, which holds its
callee), loops, handlers, return points and the frame that turns a value into a return;
and Halt. `DoPerform`, `Rebased`, `CallFunction`, `HandleReturn`, `Break` and
`ContinueLoop` are the functions of the same names.

### Wire, SnapshotWriter, SnapshotReader

`snapshot.rs` is two long lists kept in agreement by hand: for every variant of every type
a tag and its fields in order, once where it is written and once where it is read. Each
function is a table here: a set of variants, each with its tag, its name and its fields, a
field being a number of some width, a string, an option, a list or another type. `Put` and
`Get` interpret the tables, in rounds rather than by recursion, so that they can be
reasoned about: `Unfold` replaces everything still to be written by its own token and what
follows it, level by level, and `Get` is built up from the things that nest no deeper than
one less. `MaxDepth` bounds the levels; a runtime has eight (a value in a property of an
object in an arena). What crosses is a sequence of tokens, a width with a value; a reader
that asks for another width fails, where the code would be some bytes off. The writer's
tables are translated from the `write_` functions and the reader's from the `read_`
functions, so a tag, an order or a width that differed between the two would differ here.
The tables together are `WriterTables` and `ReaderTables`; the constants `Written` and
`Readable` take these values in the configurations, which the assumptions
`WrittenAssumption` and `ReadableAssumption` check. `Ref(arena)` marks the fields that
hold an id of a collected arena; on the wire it is a `u32`. `ReadSnapshot` is
`read_runtime` with its checks: magic and version, the slots 0, meters in order, fibers'
meters in range, a quantum above 0, host values not too deep; strings are interned again.

### Arena and Collector

An arena is a record with ids from 0 as in the code. The tables `KontTraced`,
`ValueTraced`, `ObjectKindTraced` and `RootTraced` name the fields that each arm of
`trace_cont` and the others follows. A collection is `Roots`, the walk `Reached`, and
`Sweep` of each arena. The code marks with a work list and mark bits; the order of a walk
is of no consequence, so this walk goes in waves, as many as there are slots. The same
walk over all the fields that hold ids, and not only the traced ones, is what a program
can get at, and the properties compare the two.

### Machine and Durable

*The program* is chosen as it runs: an expression may be any form of its family (a
literal, a variable, a closure, a handler, an object, a member access, an assignment, a
call, a `perform`). There is one variable `x`, the parameter of every closure and the
continuation of every clause, and one property `p`. The frames are those of the writer's
tables with their real fields. Errors (a call of something that cannot be called, an
effect nobody answers) end a program: no action is enabled.

*Slices.* `Interpret` is one `CEKH::step`, so that a collection can come between any two
steps at which the code can be preempted. `Select`, `Complete`, `Preempt`, `HandleFork`,
`HandleJoin`, `HandleGc` and `HandleSnapshot` are the arms of `run_scheduler` and its
handlers with their effects on the heap: the objects made for joiners, the halt frame of
a new fiber, the collection before the effect is handled (`AtEffect`), when its arguments
have been moved out of the control. Fuel, host calls and failures are `Scheduler`'s
matter and are left out.

*The checkpoint.* `HandleSnapshot` puts the whole state through the writer's tables into
the temporary file, all of it or a part; `Rename` moves it to the path, where an older
checkpoint lies. `Live` is the run that goes on, `Restore` a crash at any point of this
followed by a start from whatever the path holds, through the reader's tables; the
program then goes on from there, with collections.

### Bindings and HostValues

`Bindings` is the array-or-map of `env.rs`: `Insert`, `WithSlice`, lookup, iteration.
`HostValues` is `convert_out` and `from_host_value` on heaps of three objects.

## 3. What the runs check

`tlc -config <cfg> <module>`, times on two workers.

| run | states | question |
|---|---|---|
| `sched` | 268 thousand, about 1.5 min | the safety of the scheduler, in restored runs too, and that it implements `FiberPool` |
| `live` | 146 thousand, about 2 min | does every entry return, does every queued fiber run |
| `replay` | 321 thousand, about 1 min | does the log survive crashes |
| `cont` | 592 thousand, about 2 min | is the chain a stack with delimited captures |
| `durable` | 623 thousand, about 2 min | is what a program holds kept by collections, checkpoints and restarts; do the codec, the conversions and the scopes do what they should |
| `starve`, `done_result`, `empty_run`, `late_refuel`, `failed_append`, `skipped_handler`, `fork_env` | seconds | documented behaviour that the code does not have |

`sched`: `TypeOK`; `SchedInv`, the inductive invariant; `Accounting` (every runnable
fiber is queued, waiting or on the interpreter, and only one of them);
`WaitersWakeable` (a wait list belongs to a fiber whose fate is open);
`OwnContinuation` (every fiber is saved with, and runs on, its own continuation);
`DoneLeavesOnlyCycles` (after Done only circular waits are left); `FuelConserved`
(steps spent plus all fuel left stay within what the host granted); `FuelIsolation`
(nothing another fiber does shrinks my meter); `JoinDelivers`, `DeliveryHeld` (joiners
get the right fate and still have it when they run); `PauseTransparent` (a paused
fiber goes on first, on the registers it was paused with); `WakesInsideEffect` (a
restored checkpoint goes on first with the fiber that took it, which sees "restored"; no
fiber that is queued behind another is saved with that value). The running fiber of the
process that wrote the file is exempt: its copy of the registers holds "restored", and a
root whose snapshot could not be written even runs on it, as told below.
`ImplementsPool`: every step of `Scheduler` is a step of `FiberPool` or none. The three
things that `Ready` means in the code (queued, waiting, running after a Snapshot) are
three phases of the pool, and the fate in a fiber's registers is the pool's inbox.

`live`, under weak fairness of the loop: `EveryEntryReturns` (with a finite budget)
and `QueuedGetsItsTurn`, which has to exempt a fiber that keeps the interpreter with
effects the runtime handles itself for ever: without the exemption it is false (run
`starve`).

`replay`: `ReplayInv` is the inductive invariant; `LogExplainsRun` compares the run in
memory, whenever the host has control, with the run that the file's records stand for,
computed in one go from the start; `HistoryOnlyGrows` says that no complete record is ever
lost or changed, so together no acknowledged answer is; `RecoveryCarriesOn` and
`RecoveryEnds` that a recovery finishes and hands over a run that has taken every logged
answer and refuel. `RecoverySucceeds` says that a log written by the runtime is neither
refused nor diverges, whatever crashes there were, in the runs for which that is true.
There are four limits. Nothing was appended behind Done (beyond it: run `late_refuel`) and
no value in the log is nested too deep to be read; this is the premise `Readable`. Every
Snapshot! of the run could be written, which is `h_saved`; `LogExplainsRun` has this premise
too. An append that failed left nothing in the file (beyond it: run `failed_append`), which
is `FailedLeaves` in the configuration. Values that are too deep and failing snapshots are
in the states of this run, and without either premise TLC refutes the property;
`HistoryOnlyGrows`, `RecoveryCarriesOn` and `RecoveryEnds` hold there as well.

`cont`: frames are consumed when applied and copied when a resumption is called;
`NothingAheadIsSpent` says that no consumed frame is ever met again, on the chain that
runs or in a resumption, however often it is called; `ContinuationInv` is why;
`ImplementsStack` that every step is one of `DelimitedStack`, where nothing is shared or
consumed: what a resumption puts back never changes and lands on top of its caller, and
perform, return, break and continue unwind the spliced chain to the right frame. The
reference cuts a resumption at the nearest handler, as the code does; that this is the
wrong place when the effect had passed that handler is the violated run `skipped_handler`.

`durable`: `NothingHeldIsFree` (no slot a program can get at, through the running fiber,
another one, a result not yet joined or the globals, is on a free list);
`CheckpointWhole` (whenever the process dies, the file at the path is the older
checkpoint or the new one, whole; the new one is the whole state the program was in: heap
and free lists, registers, globals, fibers, queue, wait lists and the next id, with the
fiber that took it in front and about to see "restored"). Six properties are about tables, conversions and scopes as such; they do
not depend on the state and are evaluated where a run begins. `TracesEveryReference`:
every field that can hold an id is traced, in all 41 frames and not only those `Machine`
uses. `CodecRoundTrip` and `TornRefused`: samples of every variant, with options and
lists present and absent and all fields different, are read as they were written, and
refused when cut anywhere. `CrossesUnlessCyclicOrCode` and `HostRoundTrip`: all
heaps of three objects of a few shapes. `BindingsAreAMap`: all sequences of up to three
parameters and three assignments.

### Bounds

* `sched`: three fibers (a root, and two that can be each other's parent, joiner or
  sharer of a meter); quantum 2, so that a slice can end early, exactly or by
  preemption; budget 2, or none; a carve of 0, of 1 and of 2 (a carved
  meter of 2 is the least that still holds fuel when its fiber has forked a second one
  onto it); one refuel of 1 within `MaxGranted` 3; `U64` 4, so that an unlimited run wraps
  its counter. The view `StepsOfBudgetedRuns` leaves `steps_total` out of the states of
  runs without a budget: no action reads it, and only its range is claimed of it there.
* `live`: three fibers, quantum 1, budget 2, a carve of 0 (a fiber on it is dry in its
  first slice; carves that last are in `sched`), `MaxGranted` 2, so no refuel:
  with a finite number of them its question is the same after the last one.
* `replay`: two fibers with one host call each, three possible answers of which one is
  nested too deep, a budget that runs dry before they are answered and a refuel that lets
  the run end on its last unit; two crashes, so that a recovery can be interrupted; the
  host calls no more once five records are in the file, which is two answers, a refuel, a
  Continue and one call more (Done, and the Continue of a recovery, may come on top).
* `cont`: five live frames and one resumption outside frames (a call in progress holds
  another), one effect, handlers with and without a clause for it. Five is enough for
  nested handlers with a frame between them, for a second call of a resumption and for
  a call from inside a resumed block; with four the same properties hold in seconds.
* `durable`: two fibers; a collection is due after every second allocation, so that it
  falls between most pairs of steps; four families of programs, each bounded by its
  number of allocations: `Sharing` (forks, joins, objects and globals, 8), `Handling`
  (handlers, captured continuations, calls, 12), `Calling` (closures and their
  environments, 9), `Saving` (checkpoints of forks, joins and objects, 7). Slot 0 of two
  arenas is one allocation each. These are enough for a slot to be freed, used again and
  freed again, for a continuation to be resumed after a collection, and for a checkpoint
  with a waiting fiber, a finished one and free slots in it. One checkpoint is followed;
  a fiber that is alone is not preempted.
* the violated runs use two fibers, four frames, or bounds like those of `replay`, some
  with an unlimited budget.

`CHECK_DEADLOCK FALSE` is set for the log, where a recorded run whose log was refused
stops, and so does the host at the bound on records; and for the continuation chain and
for `durable`, where a program ends. The scheduler's runs check
deadlock: the host can always enter again.

### Fairness

`WF_vars(SchedulerStep)`: `run_scheduler` is a loop on the host's thread with no
blocking operation; once entered it keeps going. The host's steps have no fairness.
For the log, a running process runs on and a recovery that began continues; crashes
and host calls have no fairness.

### Disagreements found

Each has a violated run; `PROJECT.json` quotes the lines.

1. `starve`: preemption happens only at the end of an allowance, and every effect the
   runtime handles itself starts a new one: a fiber that prints in a loop starves its
   siblings.
2. `done_result`: a child that joins the completed root consumes its result; if the
   run is entered again it reports `undefined`.
3. `empty_run`: an empty program on a used runtime resumes a dead fiber's registers.
4. `late_refuel`: `add_fuel` is accepted after Done when the fuel is exactly used up,
   and the record it appends makes the log unreadable.
5. `failed_append`: after an append that failed part-way, a retry that succeeds is
   applied to the run and cannot be read back from the log.
6. `skipped_handler`: `perform` skips handlers without a clause for the effect,
   `rebase_continuation` does not: a resumed block loses everything between the first
   handler it meets and the one that answered, with that one's return clause.
7. `fork_env`: a collection that is due runs when an effect reaches the runtime, before
   `handle_fork` reads its argument, and the arguments are in a local by then: a closure
   that nothing else holds is swept, and so is its environment. The child starts in an
   environment on the free list, which the next allocation may overwrite. (The slots keep
   their contents until then, so the child starts with the right code.)

Four more were met in modelling and are not the subject of a run of their own:

* A Snapshot! puts "restored" into the control before the file is written. When the root's
  file cannot be written (`runtime.rs:934`), the error leaves the control and `current` as
  they are, and a host that enters again runs the root of the original process on
  "restored"; the design says that the original run sees "saved". `SnapshotFailed` of
  `Scheduler` does this.
* `snapshot.rs:266` says of the limit on the depth of host values that "Real values can't
  get this deep". A host may answer with a deeper one, and a program can build one and pass
  it to the host. The answer is written to the log, and the log of a run that went well is
  refused (`TooDeep`); a snapshot of a fiber that waits with such arguments is written and
  refused in the same way.
* A Snapshot! of a child that could not be written ended the child in an error when it was
  recorded, and answers "saved" in the replay (`runtime.rs:930`): the log of a deterministic
  program diverges (`SnapshotFails`).
* When `eval_hosted` cannot write the header of the log (`runtime.rs:400`), the runtime is no
  longer armed, and the same call made again runs the program without a log (`StartFails`,
  `RunUnrecorded`).

## 4. What is proved

`tlapm` on the modules named below proves, for every value of the constants that
satisfies the assumptions of the modules, and, where no specification is named, for
arenas, runtimes and scopes of any contents:

| module | theorem | statement |
|---|---|---|
| `SchedulerProofs` | `SchedInvHolds` | `Spec => []SchedInv` |
| | `TypeCorrect` | `Spec => []TypeOK` |
| | `AccountingHolds` | `Spec => []Accounting` |
| | `WaitersWakeableHolds` | `Spec => []WaitersWakeable` |
| | `DoneLeavesOnlyCyclesHolds` | `Spec => []DoneLeavesOnlyCycles` |
| | `OwnContinuationHolds` | `"empty" \notin Programs => (Spec => []OwnContinuation)` |
| | `PauseTransparentHolds` | `Spec => []PauseTransparent` |
| | `WakesInsideEffectHolds` | `Spec => []WakesInsideEffect` |
| | `DeliveryHeldHolds` | `Spec => DeliveryHeld` |
| | `JoinDeliversHolds` | `"empty" \notin Programs => (Spec => JoinDelivers)` |
| | `PoolImplemented` | `"empty" \notin Programs => (Spec => ImplementsPool)` |
| | `FuelConservedHolds` | `Spec => []FuelConserved` |
| | `FuelIsolationHolds` | `Spec => FuelIsolation` |
| `ReplayProofs` | `ReplayTypeCorrect` | `Spec => []TypeOK` |
| | `HistoryOnlyGrowsHolds` | `Spec => HistoryOnlyGrows` |
| | `RecoveryCarriesOnHolds` | `Spec => RecoveryCarriesOn` |
| | `ReplayInvHolds` | `FailedLeaves \subseteq {"nothing"} => (Spec => []ReplayInv)` |
| | `LogExplainsRunHolds` | `FailedLeaves \subseteq {"nothing"} => (Spec => []LogExplainsRun)` |
| | `RecoverySucceedsHolds` | `FailedLeaves \subseteq {"nothing"} => (Spec => []RecoverySucceeds)` |
| `ContinuationProofs` | `ContinuationTypeCorrect` | `Spec => []TypeOK` |
| | `ContinuationInvHolds` | `Spec => []ContinuationInv` |
| | `NothingAheadIsSpentHolds` | `Spec => []NothingAheadIsSpent` |
| | `StackImplemented` | `Spec => ImplementsStack` |
| `HeapProofs` | `AllocNeverTakesWhatIsInUse` | `Alloc` of a well-formed arena is well formed, returns an id that was not in use, and leaves every id in use naming what it named |
| | `CollectSound` | a `Collect` whose roots are in use frees exactly what the walk does not reach; what is reached and could be relied on still can be |
| | `StepLeads` | a step of `Machine` from a heap and registers whose ids all lead to slots in use, with the right kind of thing in them, ends in such a heap and such registers |
| | `TracesEveryReferenceHolds` | `Spec => []TracesEveryReference` |
| `DurableProofs` | `ImageRead` | `ReadSnapshot` accepts what is written of any runtime, whatever its heap, fibers, queue and waiters hold of the things `Durable` has, and gives that runtime |
| | `RunsKeepInv` | `~ForkFleeting => (Spec => []Inv)` |
| | `TypeCorrect` | `~ForkFleeting => (Spec => []TypeOK)` |
| | `NothingHeldIsFreed` | `~ForkFleeting => (Spec => []NothingHeldIsFree)` |
| | `CheckpointIsWhole` | `~ForkFleeting => (Spec => []CheckpointWhole)` |
| | `ScopesAreMaps` | a scope made of any pairs and given any others is read as the map of all of them |
| | `BindingsAreAMapHolds` | `Spec => []BindingsAreAMap` |

*Scheduler.* None of the parts of `Accounting` is inductive alone. That waking the
joiners does not put a fiber into the queue twice needs that a waiter is in one wait
list and not queued (`WaitersSound`); that it finds the waiter in the Vec, runnable,
needs the same; that a joiner is not lost when its target is removed needs that
targets of waiters are unfinished (`WaitersWakeable`); that a new fiber's slot is free
needs that ids are handed out in order (`IdsInOrder`); that the running fiber is in
the Vec needs `RunningIsCurrent`, which also covers the fiber that a Snapshot marked
Ready while it goes on running; and the charges and refunds of every slice need that
meters have earlier slots as parents (`MetersSound`). `SchedInv` is their conjunction.
The proof has a lemma for each action, or family of actions; completion and failure
share one lemma about `Settle`, faults one about `Fault`. `DoneLeavesOnlyCycles`
follows because the run is Done only with an empty queue, nobody pending and nobody
running, and then a fiber that has waiters is unfinished, hence waiting.

`OwnContinuation` is inductive relative to `SchedInv`: a step can only mix up two
continuations when it saves the registers to the wrong fiber or wakes a joiner in the
wrong slot, and `SchedInv` says that the running fiber and every joiner are in the Vec
under their ids. Its hypothesis is needed: an empty source on a used runtime runs the new
root on whatever the registers held (the disagreement `empty_run`).

*Pauses, restores, deliveries.* `PauseTransparent` says where the paused fiber is when
the run is entered again; between the pause and the entry the host may answer calls, so
it needs the queue throughout: while a run is out of fuel, the fiber that was paused
stays at the front and what the host appends is appended behind it (`PausedFirst`).
`PausedFirst` says the same of a run that was just restored. `WakesInsideEffect`
needs `RestoredPlace` besides: a runnable fiber saved in a checkpoint is the
running one, or first in the queue of a process that has just read the file back, so
no fiber is selected from behind another with the checkpoint's registers. `DeliveryHeld` is an action
property: every action that writes the registers of a fiber writes those of the running
one or of one that waits, and `SchedInv` says that neither is queued. `JoinDelivers`
needs that the running fiber's registers are its own (`OwnContinuation`, hence the same
hypothesis), that a fiber which may run is not at rest on a finished computation
(`NotHalted`: only then do the registers after the end tell a result from a failure), and
that `Settle` wakes exactly the wait list of the fiber that ends.

*Fuel.* What is left in an arena is a sum over its slots. Charge, carve, refund and
refuel change one slot or two, and the lemmas about them say by how much the sum moves:
not by more than the slots do, since saturation only loses fuel. That two arenas which
agree in all slots but one have sums that differ by the difference there is shown by
induction over the slots. `FuelIsolation` follows case by case: what a step takes, it
takes from the running fiber's own meter, and a refund goes to that meter's parent, which
only grows.

*The pool.* `SchedulerRefines` computes the abstract state from the concrete one: the
phase of a fiber from its place, its inbox from its registers. Each action of `Scheduler`
is shown to be one of `FiberPool`'s or none. Two things have to be the fiber's own for
that. When a fiber ends, the waiters must receive the fate of the fiber they joined:
the value comes out of the registers, which are its own by `OwnContinuation`. When a
fiber joins one that has already ended, the value comes out of the slot, and the
invariant `ValOwn` says that what a finished fiber's slot keeps is its own result.
`SchedInv` says where each fiber is, hence its phase.

*The log.* `TypeOK` needs that a recovery has a process and that there are no records
before the run starts or without a whole header (`Unstarted`). `HistoryOnlyGrows` comes down to a lemma about reading a
file up to the first torn record: an append, whole or torn, behind a torn record or not,
never shortens or changes what is read (`WholeAppend`), and what the truncation leaves is
read as before (`WholeAgain`). `RecoveryCarriesOn` needs `OutcomeCurrent`: Done, once
true of a run, stays true whatever the host and the log do to it, because a finished
fiber asks nothing and so no answer can be for it. These hold whatever a failed append
leaves.

`LogExplainsRun` alone is not inductive: it speaks of the moments at which the host has
control, and recovery gets there through a replay, in which the file is longer than what
the run has seen. `ReplayInv` adds `InStep`, where a run is relative to the cursor and
relative to the turns it has still to take; `EveryRecordFits`, that the checks of
`resume_from_log` succeed for every record at the point which the records before it lead
to; `TornOnlyLast`; and `OutcomeCurrent`. That the scheduler's turns lead to where
`RunOut` says (`RunOutTurn`) and that one record more is one step more (`ExplainedAppend`)
are shown by induction over turns and records. The hypothesis is needed: the disagreement
`failed_append` is a run in which a failed append leaves half a record. `RecoverySucceeds`
then follows: a log that can be read is not refused, and a record that fits is not a
divergence. It is claimed of no more than that: `Readable` says that the log can be decoded,
and the parts of `ReplayInv` about the log's content stand under `h_saved`, because the
records behind a failed Snapshot! fit the run that was recorded and not the one that is
replayed. Once it has failed that is not forgotten (`SavedBefore`), so the induction over
the other steps (`LogStep`) may assume it has not.

*Induction.* The library's induction theorems have an operator as a parameter, so an
induction is done here with a set in its place: `SetInduction`, which follows from the
well-foundedness of `<`. Recursive functions (`Left`, `RunOut`, `Explained`) are taken
apart by first showing, by the same induction, that a function with the defining equation
exists.

*The chain.* That references go down (`ContinuationInv`) is what everything rests on: it
makes `Chain` and `Reached`, which recurse over the arena, well defined, by induction over
the slots. `NothingAheadIsSpent` alone is not inductive: apply_cont overwrites the slot of
the frame it applies, and has to know that no resumption would copy that slot later. The
proof carries a set of slots, the machine's path: it is closed under outer frames and ends
at the halt slot, and no slot that a call of some resumption would copy is in it
(`MachineInOrder`). apply_cont consumes only slots of the path; a new frame extends it; a
perform cuts it in two, of which the part up to the handler goes to the resumption
and the rest stays the path; a call copies into new slots, which then are the path, and
leaves the resumption's own slots as they were. That dropping slots nobody reaches changes
no chain is `ReachedInOrder`.

*The stack.* `MachineInOrder` also carries the refinement of `DelimitedStack`. What a frame
shows in the stack is its tag, the effects it handles, and, for a call of a resumption, the
part that the resumption would put back; so the stack of a slot is read from the chain and
from what the chain's resumptions refer to. Two arenas that agree on the chain and on
those parts read alike (`SameReading`). Each thing a step does to the arena is an instance:
consuming the top frame reads as a pop, because its slot lies on no other path that is still
read; a new frame as a push; a copied part as that part put on top; collecting what nobody
reaches as nothing. Since what a step leaves reads as before, the parts of the held
resumptions are the same before and after, which is the promise that a resumption never
changes. An unwinding stops at the frame that comes first on the chain with the tag or the
clause, and that is the least such position of the stack (`FoundReads`). A lemma per group of
actions then shows that each is one of `DelimitedStack`'s.

*Arenas and steps.* The theorem on `Alloc` splits on the free list. When it is empty the
arena grows and no old slot moves (`AllocGrows`); otherwise the last freed id is used, and
because no id is free twice, it leaves the free list for good (`AllocReuses`). So two owners
of one slot can only come from a sweep that freed too much.

That nothing held is free cannot be shown of the ids the registers hold alone, nor of
those a walk finds, since that set changes with every assignment. The proofs carry a set
of ids `S`, for each arena, that can be *relied on* (`Sound`): all of them are in use,
each of their slots has the kind of thing its arena is for, and what that thing refers to
is in `S` again. The ids of the objects behind functions are a part of `S` of their own,
since a call relies on such an object being a closure. A step starts from such a set that
contains the registers and ends in one: what it allocates joins `S`, and what it writes
refers to `S` (`StepLeads`, with a lemma for each form of expression and each frame). A
captured continuation is copied frame by frame up to its handler: each copy refers to the
one before it, and the chain it follows stays in `S` because the frames it was copied from
do.

*Collection.* `Reached` goes in rounds; the lemmas show that it ends closed under the
traced references (each round but the last adds a slot, and there are finitely many) and
contains the roots. Every id of `S` that is reached therefore refers to reached ids only,
and a collection that starts from roots in `S` leaves `S` cut down to what was reached,
sound again (`CollectSound`). This is where the tracing tables meet the kinds of things:
an arm that forgets a field leaves a set that is not sound.

*The codec.* `CodecProofs` compares writer and reader table by table. For a type, `Reads`
says that whatever thing of that type is written, anywhere in a sequence of tokens, the
reader finds it there, gives back that thing and stops where it ends. A number has it; an
option, a list or a record has it when its fields do (`ReadsMany`, `ReadsTagged`,
`ReadsUntagged`). For each of the variants that `Machine` and `Durable` put into a
runtime, some forty, one step compares tag, order and width on both sides. Their types
refer to each other only downwards (a value in a property in an object), so no induction
over data is needed, and the levels add up to eight. `ImageRead` puts the parts of a
runtime together: the arenas with their free lists, the fibers, the queue, the waiters. It
holds for every runtime, reachable or not, whose slots, fibers and registers hold things
of these variants. The other variants (loops, matches, host values, the tree of the
program) are compared on samples, by `CodecRoundTrip`.

*Durable.* `Inv` is `RunInv` and `FileInv`. `RunInv` is `HeapInv`, that some set `S` can be
relied on and contains the registers, the globals and what every fiber may still use: the
result of a finished one, the registers of one that waits or is queued, but not those of the
running one, whose copy in the list is stale; `LineInv`, that each fiber is in the list once
and in one place (queued, current or in one wait list), which preemption, wake-ups and the
checkpoint need to write and restore the right slot; and `BaseInv`, that the collector's
baseline is not ahead of the allocations. `FileInv` says what the two files hold at each
point of the writing: the older checkpoint at the path until the rename, then
the bytes of the state the program was in, which is one that could start (`Startable`).
`ImageRead` turns these bytes back into that state, and so `Restore` re-establishes `RunInv`
with the set `S` of the state that was saved. Then `NothingHeldIsFree` follows because
everything a program can reach from its roots is in `S`, and `CheckpointWhole` because
both images are read as what they were written from.

The hypothesis `~ForkFleeting` excludes programs that fork a closure which only the effect's
argument holds: for them `NothingHeldIsFree` is false (run `fork_env`). `durable` checks
the same programs.

*Scopes.* A scope stands for a map (`Stands`) if it is the map, or an array of pairs with
different names that gives each name the value the map does. Binding a slice, one
insertion, and the step from the array to the map keep that, and lookup and iteration give
what the map has (`ScopesAreMaps`). The run's property is an instance of it for three
parameters and three assignments.

*Tracing.* That marking follows every field that can hold an id is shown variant by variant
of the eleven tables the collector meets: the fields of each are covered by
those its arm follows (`Covered`), and the types whose fields are not followed lead to no
id (`LeadsToIds`, unrolled to its three levels).

*Assumptions.* They are typing of the constants: at least one fiber, a quantum of at least
one (`set_quantum` rejects 0), budgets, carves and refuels that are u64 values, and that
`None`, `Stale`, `Nothing` and `Unlimited` are none of the values they are distinguished
from. In `ReplayLog` fibers are numbered from 0, as `next_fiber_id` does. The bound on
frames is a natural number. In `Durable` the threshold is a natural number, there is at
least one fiber, the effects of a family of programs are numbers, things may nest at least
eight deep on the wire, and `Written` and `Readable` are the writer's and the reader's
tables. No empty source is evaluated in the theorems that say so (run `empty_run` shows
what happens otherwise).

*Only model-checked:* the liveness properties (`EveryEntryReturns`, `QueuedGetsItsTurn`,
`RecoveryEnds`: fairness and `ENABLED` are out of the prover's reach). `CodecRoundTrip`,
whose samples are built by recursive operators, which the prover does not accept; for the
variants that `Durable` uses `CodecProofs` shows it of every value. `TornRefused`: that an
image cut anywhere is refused. `CrossesUnlessCyclicOrCode` and `HostRoundTrip`: both
conversions recurse over the heap and over trees.

## 5. Not modelled

* The lexer, the parser, builtins, errors, the command line and wasm: no state shared
  with the rest, and nothing that interleaves. The `Ast` is in the codec's tables and
  stands for itself elsewhere.
* Values and what an expression computes: in `Scheduler` a slice is how it ends, in
  `Continuations` a frame is what it does to the chain, in `Machine` there are the forms
  that allocate or keep ids. Arithmetic, conversions, comparison, patterns and loops are
  only frames. Handlers in `Machine` have no return clause (`Continuations` has them).
* Strings: interned and never freed, so the collector does not concern them.
* In `Scheduler`, a checkpoint by the host while `current` is set, after a fault of the
  root: the guard of `CheckpointResumed` leaves it out. The order of fibers in the Vec,
  which `swap_remove` changes, is in `Durable` and not in `Scheduler`.
* In `Durable`, failures of fibers, fuel and calls of the host. The local `main_result` of
  `run_scheduler` is no root of a collection; while the run goes on after the root was
  consumed by a joiner, only that local holds its value. It is not followed there.
* The file system below the rename: `write_snapshot_file` does not flush before it
  renames, so a loss of power can undo what a crash of the process cannot. Crashes here
  are of the process.
* In `ReplayLog`, forks, carved meters and faults of the root (that of a Snapshot! of the
  root which could not be written included) are left to `Scheduler`, a root result that
  cannot be recorded (code values) is not distinguished, and a run that goes on without a
  log is not followed. How a record is put into bytes is left out but for what is torn and
  what is too deep.
* In `Continuations`, the steps of a root that the host enters again after a fault: the
  runtime keeps the root's registers, whose slot the failed step may have consumed.
  `NothingAheadIsSpent` is claimed of the machine up to the fault.
* A `CallId` that the host keeps beyond its call: the comment in `host.rs` promises
  nothing about it, and the host here answers calls that are pending.

## 6. Plan

1. done: `Fuel`, `Scheduler`, `FiberPool` and the refinement, with their proofs;
   `ReplayLog`; `Continuations` with `DelimitedStack`.
2. done: arenas, collector, codec, checkpoints with crashes and restarts, scopes,
   conversion of host values; restored runs in `Scheduler` and its proofs.
3. Left in `Continuations`: the four `for` frames one by one (the test of a `for` loop is
   evaluated for `ForTestK` and again for `ForTestResultK`).
4. Left in `Durable`: fibers that wait for the host (their arguments are trees that hold
   no ids), and `main_result`.
5. Identity of calls over several runs, once the code says what it promises.
6. Proofs: done for `Scheduler`, `ReplayLog`, `Continuations` and `Durable` with what it is
   built on, all but liveness. Left: that an image cut anywhere is refused.
