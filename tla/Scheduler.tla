------------------------------ MODULE Scheduler ------------------------------
(***************************************************************************)
(* The fiber scheduler of src/runtime.rs: run_scheduler, the effect        *)
(* handlers it calls, and the host's entry points.                         *)
(*                                                                         *)
(* The interpreter is a black box that, given an allowance, spends some    *)
(* steps and ends its slice in one of the ways CEKH::run can: the fiber    *)
(* completes, performs an effect, is preempted, or faults.  A machine      *)
(* register is a record: k names the fiber whose continuation it holds     *)
(* (cont and env together), c what the control part is, and of the fiber   *)
(* a delivered value came from.  A value is named by the continuation that *)
(* computed it, so "the result of fiber f" is the value f.                 *)
(*                                                                         *)
(* One turn of the run_scheduler loop is a selection followed by a slice;  *)
(* each slice, with the effect handler it leads to, is one action.         *)
(***************************************************************************)
EXTENDS Integers, Sequences, FiniteSets, Functions, Fuel

CONSTANTS
    MaxFibers,  \* bound on next_fiber_id
    Quantum,    \* steps per slice (set_quantum)
    Budgets,    \* budgets set_fuel may be given
    Carves,     \* amounts a program passes as { fuel: n } to Fork
    Refuels,    \* amounts the host passes to add_fuel
    MaxGranted, \* bound on the fuel granted to a run, refuels included
    Programs,   \* which of "stmts" and "empty" sources are evaluated
    None,       \* no fiber; as a value, undefined
    Stale       \* the continuation, or the value, of a fiber of an earlier run

FiberId == 0 .. MaxFibers - 1
RootFiber == 0

ASSUME SchedulerAssumption ==
    /\ MaxFibers \in Nat \ {0}
    /\ Quantum \in Nat \ {0}
    /\ Budgets \subseteq Fuels \cup {Unlimited}
    /\ Carves \subseteq Fuels
    /\ Refuels \subseteq Nat
    /\ MaxGranted \in Nat
    /\ Programs \subseteq {"stmts", "empty"}
    /\ None \notin FiberId /\ Stale \notin FiberId /\ None # Stale

VARIABLES
    fibers,         \* the fibers Vec, by id; "Absent" where the Vec has no such fiber
    ready_queue,
    current,
    join_waiters,   \* <<>> where the map has no key
    next_fiber_id,
    meters,
    steps_total,
    control,        \* the interpreter's registers
    main_result,    \* run_scheduler's local
    entry,          \* "sched" inside run_scheduler, "host" outside
    outcome,        \* what the last entry returned
    h_root,         \* history: how the root fiber of this run ended
    h_granted       \* history: fuel granted to this run

fuelVars == <<meters, steps_total>>
hostVars == <<entry, outcome, main_result, h_root, h_granted>>
vars == <<fibers, ready_queue, current, join_waiters, next_fiber_id, meters,
          steps_total, control, main_result, entry, outcome, h_root, h_granted>>

Value == FiberId \cup {None, Stale}
CtlKind == {"code", "suspend", "halted", "undefined", "ok", "err", "id",
            "answer", "saved", "restored"}
Ctl == [k : Value, c : CtlKind, of : Value]

LiveStatus == {"Ready", "Running", "BlockedOnHost", "Completed", "Failed"}
Fiber == [status : LiveStatus \cup {"Absent"}, meter : Nat, ctl : Ctl, val : Value]

Code(f) == [k |-> f, c |-> "code", of |-> None]
Deliver(ctl, c, of) == [k |-> ctl.k, c |-> c, of |-> of]
AbsentFiber == [status |-> "Absent", meter |-> Root, ctl |-> Code(None), val |-> None]
NewFiber(ctl, m) == [status |-> "Ready", meter |-> m, ctl |-> ctl, val |-> None]

Live == {f \in FiberId : fibers[f].status # "Absent"}

\* Mutant of BlockedOnHost: only the root's pending call counts.
RootBlocked == {f \in {RootFiber} : fibers[f].status = "BlockedOnHost"}

BlockedOnHost == {f \in FiberId : fibers[f].status = "BlockedOnHost"}

-----------------------------------------------------------------------------
(* The host's side of the runtime. *)

Init ==
    /\ fibers = [f \in FiberId |-> AbsentFiber]
    /\ ready_queue = <<>>
    /\ current = None
    /\ join_waiters = [f \in FiberId |-> <<>>]
    /\ next_fiber_id = 0
    /\ meters = NewMeters(Unlimited)
    /\ steps_total = 0
    /\ control = [k |-> None, c |-> "undefined", of |-> None]
    /\ main_result = None
    /\ entry = "host"
    /\ outcome = [kind |-> "none", val |-> None]
    /\ h_root = [end |-> "no", val |-> None]
    /\ h_granted = 0

SetFuel(budget) ==
    /\ entry = "host"
    /\ next_fiber_id = 0 /\ Live = {}
    /\ meters' = [meters EXCEPT ![Root].remaining = budget]
    /\ UNCHANGED <<fibers, ready_queue, current, join_waiters, next_fiber_id,
                   steps_total, control, hostVars>>

AddFuel(amount) ==
    /\ entry = "host"
    /\ meters[Root].remaining = 0
    /\ h_granted + amount <= MaxGranted
    /\ meters' = AddFuelTo(meters, Root, amount)
    /\ h_granted' = h_granted + Saturate(amount)
    /\ UNCHANGED <<fibers, ready_queue, current, join_waiters, next_fiber_id,
                   steps_total, control, entry, outcome, main_result, h_root>>

Enter ==
    /\ entry' = "sched"
    /\ main_result' = None
    /\ outcome' = [kind |-> "none", val |-> None]

\* fresh_exec_setup leaves the registers alone when the program is empty: what
\* they hold then belongs to a fiber of the run that is being discarded.
FreshControl(program) ==
    CASE program = "stmts" -> Code(RootFiber)
      [] program = "empty" ->
            IF next_fiber_id = 0 THEN control ELSE [control EXCEPT !.k = Stale]

RunFresh(program) ==
    /\ entry = "host"
    /\ control' = FreshControl(program)
    /\ fibers' = [f \in FiberId |->
                    IF f = RootFiber THEN NewFiber(control', Root) ELSE AbsentFiber]
    /\ ready_queue' = <<RootFiber>>
    /\ join_waiters' = [f \in FiberId |-> <<>>]
    /\ current' = None
    /\ next_fiber_id' = 1
    /\ meters' = NewMeters(meters[Root].remaining)
    /\ steps_total' = 0
    /\ h_root' = [end |-> "no", val |-> None]
    /\ h_granted' = IF meters[Root].remaining = Unlimited THEN 0 ELSE meters[Root].remaining
    /\ Enter

Continue ==
    /\ entry = "host"
    /\ Enter
    /\ UNCHANGED <<fibers, ready_queue, current, join_waiters, next_fiber_id,
                   fuelVars, control, h_root, h_granted>>

\* Runtime::snapshot between two entries, and a new process that reads it back.
\* The host checkpoints no run whose root has just faulted (current is not saved).
CheckpointResumed ==
    /\ entry = "host" /\ current = None
    /\ outcome' = [kind |-> "none", val |-> None]
    /\ UNCHANGED <<fibers, ready_queue, current, join_waiters, next_fiber_id,
                   fuelVars, control, entry, main_result, h_root, h_granted>>

\* Mutant of ResumeWith: a second answer to the same call is taken.
AnswerAgain(f) ==
    /\ entry = "host"
    /\ fibers[f].status \in {"BlockedOnHost", "Ready"}
    /\ fibers' = [fibers EXCEPT ![f].status = "Ready",
                                ![f].ctl = Deliver(@, "answer", None)]
    /\ ready_queue' = Append(ready_queue, f)
    /\ UNCHANGED <<current, join_waiters, next_fiber_id, fuelVars, control, hostVars>>

ResumeWith(f) ==
    /\ entry = "host"
    /\ f \in BlockedOnHost
    /\ fibers' = [fibers EXCEPT ![f].status = "Ready",
                                ![f].ctl = Deliver(@, "answer", None)]
    /\ ready_queue' = Append(ready_queue, f)
    /\ UNCHANGED <<current, join_waiters, next_fiber_id, fuelVars, control, hostVars>>

Return(kind, val) ==
    /\ entry' = "host"
    /\ outcome' = [kind |-> kind, val |-> val]
    /\ main_result' = None

-----------------------------------------------------------------------------
(* The loop: selection, and the two ways it ends without running a slice. *)

\* Mutant of Loaded: the registers of the last fiber stay.
NotLoaded(f) == control

Loaded(f) == fibers[f].ctl

SelectNextFiber ==
    /\ entry = "sched" /\ current = None /\ ready_queue # <<>>
    /\ LET f == Head(ready_queue) IN
        /\ current' = f
        /\ control' = Loaded(f)
        /\ fibers' = [fibers EXCEPT ![f].status = "Running"]
    /\ ready_queue' = Tail(ready_queue)
    /\ UNCHANGED <<join_waiters, next_fiber_id, fuelVars, hostVars>>

Drained == entry = "sched" /\ current = None /\ ready_queue = <<>>

DrainPending ==
    /\ Drained /\ BlockedOnHost # {}
    /\ Return("Pending", None)
    /\ UNCHANGED <<fibers, ready_queue, current, join_waiters, next_fiber_id,
                   fuelVars, control, h_root, h_granted>>

DrainDone ==
    /\ Drained /\ BlockedOnHost = {}
    /\ Return("Done", IF fibers[RootFiber].status = "Completed"
                      THEN fibers[RootFiber].val ELSE main_result)
    /\ h_root' = IF h_root.end = "completed" THEN [h_root EXCEPT !.end = "reported"] ELSE h_root
    /\ UNCHANGED <<fibers, ready_queue, current, join_waiters, next_fiber_id,
                   fuelVars, control, h_granted>>

\* Mutant of Saved: the status is not reset.
SavedAsRunning(ctl) == [fibers EXCEPT ![current].ctl = ctl]

\* save_current_fiber_state, with the registers in ctl
Saved(ctl) == [fibers EXCEPT ![current].status = "Ready", ![current].ctl = ctl]

\* Mutant of QueueBack: a preempted fiber goes to the front.
PreemptedFirst == <<current>> \o ready_queue

\* A preempted fiber goes to the back, a paused one stays in front; QueueBack
\* is also the mutant of QueueFront.
QueueBack == Append(ready_queue, current)
QueueFront == <<current>> \o ready_queue

CurrentMeter == fibers[current].meter
Dry == entry = "sched" /\ current # None /\ meters[CurrentMeter].remaining = 0

PauseOutOfFuel ==
    /\ Dry /\ CurrentMeter = Root
    /\ fibers' = Saved(control)
    /\ ready_queue' = QueueFront
    /\ current' = None
    /\ Return("OutOfFuel", None)
    /\ UNCHANGED <<join_waiters, next_fiber_id, fuelVars, control, h_root, h_granted>>

-----------------------------------------------------------------------------
(* A fiber's end. *)

\* Mutant of Released: the meter is given back although others still hold it.
ReleasedEarly(fs, ms, f) == RefundIntoParent(ms, fs[f].meter)

\* remove_fiber on the meters: the last fiber to hold a meter returns what is left.
Released(fs, ms, f) ==
    IF \E g \in FiberId \ {f} : fs[g].status # "Absent" /\ fs[g].meter = fs[f].meter
    THEN ms ELSE RefundIntoParent(ms, fs[f].meter)

\* Mutant of Joiners: only the first joiner is woken.
FirstJoiner ==
    SubSeq(join_waiters[current], 1, IF join_waiters[current] = <<>> THEN 0 ELSE 1)

Joiners == join_waiters[current]

\* Mutant of FateOf: a failed fiber looks to its joiner as if it had completed.
FateAlwaysOk(status) == "ok"

\* join_result
FateOf(status) == IF status = "Completed" THEN "ok" ELSE "err"

\* Mutant of Consumed: a fate can be asked for again.
NotConsumed(t) == fibers

Consumed(t) == [fibers EXCEPT ![t] = AbsentFiber]

\* complete_current_fiber and fail_current_fiber: every joiner gets the fate
\* and is queued, in order; a fate that was delivered consumes the fiber.
Settle(fs, ms, status, val) ==
    LET ws == Joiners
        fate == FateOf(status)
    IN
    /\ fibers' = [f \in FiberId |->
            IF f \in Range(ws)
            THEN [fs[f] EXCEPT !.status = "Ready", !.ctl = Deliver(@, fate, val)]
            ELSE IF f # current THEN fs[f]
            ELSE IF ws = <<>> THEN [fs[f] EXCEPT !.status = status, !.val = val]
            ELSE AbsentFiber]
    /\ ready_queue' = ready_queue \o ws
    /\ join_waiters' = [join_waiters EXCEPT ![current] = <<>>]
    /\ meters' = IF ws = <<>> THEN ms ELSE Released(fs, ms, current)
    /\ current' = None

\* The Err arms of the loop: the root's fault leaves the loop with `current`
\* still set; a child's fault fails the child.
Fault(fs, ms, ctl) ==
    /\ control' = ctl
    /\ \/ /\ current = RootFiber
          /\ fibers' = fs
          /\ meters' = ms
          /\ Return("Error", None)
          /\ h_root' = [end |-> "faulted", val |-> None]
          /\ UNCHANGED <<ready_queue, current, join_waiters, h_granted>>
       \/ /\ current # RootFiber
          /\ Settle(fs, ms, "Failed", current)
          /\ UNCHANGED hostVars

FailDry ==
    /\ Dry /\ CurrentMeter # Root
    /\ Settle(fibers, meters, "Failed", current)
    /\ UNCHANGED <<next_fiber_id, steps_total, control, hostVars>>

-----------------------------------------------------------------------------
(* The slice: CEKH::run spends at most the allowance and the meter pays.   *)

Allowance ==
    LET rem == meters[CurrentMeter].remaining IN
    IF rem = Unlimited \/ rem > Quantum THEN Quantum ELSE rem

Runnable == entry = "sched" /\ current # None /\ meters[CurrentMeter].remaining # 0

Charged(spent) == Charge(meters, CurrentMeter, spent)

\* Mutant of Tick: the counter is wider than a u64.
TickUnbounded(spent) == steps_total' = steps_total + spent

Tick(spent) == steps_total' = (steps_total + spent) % U64

\* A control that is already halted or suspended returns before the first step.
AtRest == control.c \in {"halted", "suspend"}

\* Mutant of StepsTo: an effect may cost nothing.
StepsFree(c) == IF AtRest THEN {0} ELSE 0 .. Allowance

\* The steps a slice may have taken when the machine halts or suspends.
StepsTo(c) == IF control.c = c THEN {0} ELSE IF AtRest THEN {} ELSE 1 .. Allowance

\* The slice executes code.  With the bare Halt continuation (an empty program
\* on a new runtime) the only thing left to do is to halt.
Working == Runnable /\ ~AtRest /\ control.k # None

\* What the registers hold once run() has handed the effect over: the
\* arguments are taken, the Suspend stays.
Suspended == Deliver(control, "suspend", None)

SliceDone ==
    /\ Runnable
    /\ \E spent \in StepsTo("halted") :
        /\ Settle(fibers, Charged(spent), "Completed", control.k)
        /\ Tick(spent)
    /\ control' = Deliver(control, "halted", control.k)
    /\ IF current = RootFiber
       THEN /\ main_result' = control.k
            /\ h_root' = [end |-> "completed", val |-> control.k]
       ELSE UNCHANGED <<main_result, h_root>>
    /\ UNCHANGED <<next_fiber_id, entry, outcome, h_granted>>

SlicePreempted ==
    /\ Working
    /\ control' = Deliver(control, "code", None)
    /\ fibers' = Saved(control')
    /\ ready_queue' = QueueBack
    /\ current' = None
    /\ meters' = Charged(Allowance)
    /\ Tick(Allowance)
    /\ UNCHANGED <<join_waiters, next_fiber_id, hostVars>>

\* The step that errs is not counted, and has already replaced the control.
SliceFault ==
    /\ Working
    /\ \E spent \in 0 .. Allowance - 1 :
        /\ Tick(spent)
        /\ Fault(fibers, Charged(spent), Deliver(control, "undefined", None))
    /\ UNCHANGED next_fiber_id

-----------------------------------------------------------------------------
(* handle_effect.  A Suspend whose arguments were taken by an earlier slice *)
(* can only be refused again or go to the host with no arguments.           *)

\* Print and Gc: the fiber keeps the interpreter.
EffectPlain ==
    /\ Working
    /\ \E spent \in StepsTo("suspend") : meters' = Charged(spent) /\ Tick(spent)
    /\ control' = Deliver(control, "undefined", None)
    /\ UNCHANGED <<fibers, ready_queue, current, join_waiters, next_fiber_id, hostVars>>

\* An ungranted effect, or arguments the handler refuses.
EffectRefused ==
    /\ Runnable /\ control.k # None
    /\ \E spent \in StepsTo("suspend") :
        /\ Tick(spent)
        /\ Fault(fibers, Charged(spent), Suspended)
    /\ UNCHANGED next_fiber_id

\* Fork and the meter the child runs on: the parent's, or one carved from it.
Fork(spent, childMeters, childMeter) ==
    /\ next_fiber_id < MaxFibers
    /\ LET id == next_fiber_id IN
        /\ fibers' = [fibers EXCEPT ![id] = NewFiber(Code(id), childMeter)]
        /\ ready_queue' = Append(ready_queue, id)
        /\ control' = Deliver(control, "id", id)
    /\ next_fiber_id' = next_fiber_id + 1
    /\ meters' = childMeters
    /\ Tick(spent)
    /\ UNCHANGED <<current, join_waiters, hostVars>>

ForkShared ==
    /\ Working
    /\ \E spent \in StepsTo("suspend") : Fork(spent, Charged(spent), CurrentMeter)

ForkCarved ==
    /\ Working
    /\ \E spent \in StepsTo("suspend"), amount \in Carves :
        /\ CanCarve(Charged(spent), CurrentMeter, amount)
        /\ Fork(spent, Carve(Charged(spent), CurrentMeter, amount), Len(meters) + 1)

ForkInsufficient ==
    /\ Working
    /\ \E spent \in StepsTo("suspend"), amount \in Carves :
        /\ ~CanCarve(Charged(spent), CurrentMeter, amount)
        /\ Tick(spent)
        /\ Fault(fibers, Charged(spent), Suspended)
    /\ UNCHANGED next_fiber_id

\* Join on a fiber whose fate is known: taken at once, and the fiber removed.
JoinFinished(t) ==
    /\ Working
    /\ fibers[t].status \in {"Completed", "Failed"}
    /\ \E spent \in StepsTo("suspend") :
        /\ meters' = Released(fibers, Charged(spent), t)
        /\ Tick(spent)
    /\ control' = Deliver(control, FateOf(fibers[t].status), fibers[t].val)
    /\ fibers' = Consumed(t)
    /\ UNCHANGED <<ready_queue, current, join_waiters, next_fiber_id, hostVars>>

\* Mutant of MayWait: the fate of a completed fiber is waited for as well.
MayWaitForAny(t) == fibers[t].status # "Absent"

MayWait(t) == fibers[t].status \in {"Ready", "Running", "BlockedOnHost"}

\* Join on any other fiber, the caller itself included: wait.
JoinWaits(t) ==
    /\ Working
    /\ MayWait(t)
    /\ \E spent \in StepsTo("suspend") : meters' = Charged(spent) /\ Tick(spent)
    /\ join_waiters' = [join_waiters EXCEPT ![t] = Append(@, current)]
    /\ control' = Suspended
    /\ fibers' = Saved(control')
    /\ current' = None
    /\ UNCHANGED <<ready_queue, next_fiber_id, hostVars>>

\* "Join: fiber not found": never forked, or its fate already consumed.
JoinMissing(t) ==
    /\ Working
    /\ fibers[t].status = "Absent"
    /\ \E spent \in StepsTo("suspend") :
        /\ Tick(spent)
        /\ Fault(fibers, Charged(spent), Suspended)
    /\ UNCHANGED next_fiber_id

\* handle_host_effect, once the arguments have been converted.
EffectHost ==
    /\ Runnable /\ control.k # None
    /\ \E spent \in StepsTo("suspend") : meters' = Charged(spent) /\ Tick(spent)
    /\ control' = Suspended
    /\ fibers' = [Saved(control') EXCEPT ![current].status = "BlockedOnHost"]
    /\ current' = None
    /\ UNCHANGED <<ready_queue, join_waiters, next_fiber_id, hostVars>>

\* Snapshot: the saved fiber sees "restored" and is marked Ready although it
\* goes on running; the live one sees "saved".
SnapshotWritten ==
    /\ Working
    /\ \E spent \in StepsTo("suspend") : meters' = Charged(spent) /\ Tick(spent)
    /\ fibers' = Saved(Deliver(control, "restored", None))
    /\ control' = Deliver(control, "saved", None)
    /\ UNCHANGED <<ready_queue, current, join_waiters, next_fiber_id, hostVars>>

\* Mutant of ReadyOverride: the performing fiber goes to the back of the saved queue.
ReadyAfterAll == QueueBack

\* The queue in the file: the performing fiber first.
ReadyOverride == QueueFront

\* The other half of the fork: a new process read the file back.  It has no
\* current fiber and has entered no run; all the rest is as it was written, and
\* nothing the writing process does later can change that.
SnapshotResumed ==
    /\ Working
    /\ \E spent \in StepsTo("suspend") : meters' = Charged(spent) /\ Tick(spent)
    /\ control' = Deliver(control, "restored", None)
    /\ fibers' = Saved(control')
    /\ ready_queue' = ReadyOverride
    /\ current' = None
    /\ Return("Restored", None)
    /\ UNCHANGED <<join_waiters, next_fiber_id, h_root, h_granted>>

\* The file could not be written: the error leaves after the save, and with the
\* registers of the restored run.  A root that is entered again goes on with them.
SnapshotFailed ==
    /\ Working
    /\ \E spent \in StepsTo("suspend") :
        /\ Tick(spent)
        /\ Fault(Saved(Deliver(control, "restored", None)), Charged(spent),
                 Deliver(control, "restored", None))
    /\ UNCHANGED next_fiber_id

-----------------------------------------------------------------------------

Effect ==
    \/ EffectPlain
    \/ EffectRefused
    \/ ForkShared
    \/ ForkCarved
    \/ ForkInsufficient
    \/ \E t \in FiberId : JoinFinished(t)
    \/ \E t \in FiberId : JoinWaits(t)
    \/ \E t \in FiberId : JoinMissing(t)
    \/ EffectHost
    \/ SnapshotWritten
    \/ SnapshotResumed
    \/ SnapshotFailed

Slice == SliceDone \/ SlicePreempted \/ SliceFault \/ Effect

SchedulerStep ==
    \/ SelectNextFiber
    \/ DrainPending
    \/ DrainDone
    \/ PauseOutOfFuel
    \/ FailDry
    \/ Slice

HostStep ==
    \/ \E budget \in Budgets : SetFuel(budget)
    \/ \E amount \in Refuels : AddFuel(amount)
    \/ \E program \in Programs : RunFresh(program)
    \/ Continue
    \/ CheckpointResumed
    \/ \E f \in FiberId : ResumeWith(f)

Next == SchedulerStep \/ HostStep

Spec == Init /\ [][Next]_vars

\* run_scheduler is a loop on the host's thread: once entered it keeps going.
\* Nothing obliges the host to answer, refuel or continue.
FairSpec == Spec /\ WF_vars(SchedulerStep)

=============================================================================
