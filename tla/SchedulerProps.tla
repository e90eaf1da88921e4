--------------------------- MODULE SchedulerProps ---------------------------
(***************************************************************************)
(* What the scheduler must never do, and what it must eventually do.       *)
(***************************************************************************)
EXTENDS Scheduler

Queued == Range(ready_queue)
Waiting(t) == Range(join_waiters[t])
Waiters == UNION {Waiting(t) : t \in FiberId}

\* Type invariant of the scheduler's state (the fields of Runtime).
TypeOK ==
    /\ fibers \in [FiberId -> Fiber]
    /\ ready_queue \in Seq(FiberId)
    /\ current \in FiberId \cup {None}
    /\ join_waiters \in [FiberId -> Seq(FiberId)]
    /\ next_fiber_id \in 0 .. MaxFibers
    /\ meters \in Seq(Meter)
    /\ steps_total \in Fuels
    /\ control \in Ctl
    /\ main_result \in Value
    /\ entry \in {"host", "sched"}
    /\ outcome \in [kind : {"none", "Done", "Pending", "OutOfFuel", "Error",
                                "Restored"}, val : Value]
    /\ h_root \in [end : {"no", "completed", "faulted", "reported"}, val : Value]
    /\ h_granted \in Nat

\* Ids are handed out in order: the Vec never holds one not yet handed out.
IdsInOrder ==
    /\ \A f \in FiberId : f >= next_fiber_id => fibers[f].status = "Absent"
    /\ (next_fiber_id = 0) => (current = None /\ ready_queue = <<>>)

\* No entry of the ready queue is a duplicate, the running fiber, or a fiber
\* that the assert of select_next_fiber would reject.
QueueSound ==
    /\ IsInjective(ready_queue)
    /\ \A f \in Queued : fibers[f].status = "Ready" /\ f # current

\* A fiber waits in at most one wait list, once, and is neither queued nor
\* running meanwhile: unblock_fiber finds it, and wakes it exactly once.
WaitersSound ==
    /\ \A t \in FiberId : IsInjective(join_waiters[t])
    /\ \A t, u \in FiberId : t # u => Waiting(t) \cap Waiting(u) = {}
    /\ \A w \in Waiters : fibers[w].status = "Ready" /\ w # current /\ w \notin Queued

\* A wait list belongs to a fiber whose fate is still open, so that some later
\* step of that fiber can empty it: no joiner registers after the last look.
WaitersWakeable ==
    \A t \in FiberId : join_waiters[t] # <<>> =>
        fibers[t].status \in {"Ready", "Running", "BlockedOnHost"}

\* A runnable fiber is never dropped: if it is in the Vec as Ready it is
\* queued, running, or in a wait list.
NoLostFiber ==
    \A f \in FiberId : fibers[f].status = "Ready" =>
        f \in Queued \/ f = current \/ f \in Waiters

\* The running fiber is in the Vec, runnable, and the only one marked Running.
RunningIsCurrent ==
    /\ current # None => fibers[current].status \in {"Ready", "Running"}
    /\ \A f \in FiberId : fibers[f].status = "Running" => f = current

\* The arena is well formed and every fiber's meter is in it.
MetersSound ==
    /\ IsArena(meters)
    /\ \A f \in FiberId : fibers[f].meter \in 1 .. Len(meters)

\* Every runnable fiber is in exactly one place: the ready queue, a wait list,
\* or the interpreter (the saves, wake-ups and removals of runtime.rs together).
Accounting ==
    /\ QueueSound
    /\ WaitersSound
    /\ NoLostFiber
    /\ RunningIsCurrent

\* A run reported as Done leaves behind only circular waits: whoever still waits
\* then waits for a fiber that itself waits.  Any other fiber would have been
\* queued, or pending on the host.
DoneLeavesOnlyCycles ==
    outcome.kind = "Done" => \A t \in FiberId : Waiting(t) # {} => t \in Waiters

\* The inductive invariant.
SchedInv ==
    /\ TypeOK
    /\ IdsInOrder
    /\ QueueSound
    /\ WaitersSound
    /\ WaitersWakeable
    /\ NoLostFiber
    /\ RunningIsCurrent
    /\ MetersSound

\* A context switch never mixes fibers up: each fiber is saved with its own
\* continuation, and the interpreter holds the running fiber's.
OwnContinuation ==
    /\ \A f \in Live : fibers[f].ctl.k = f
    /\ current # None => control.k = current

-----------------------------------------------------------------------------

\* What is left in all the meters of an arena together.
Left(ms) ==
    LET upTo[i \in 0 .. Len(ms)] == IF i = 0 THEN 0 ELSE upTo[i - 1] + ms[i].remaining
    IN upTo[Len(ms)]

\* Fuel is moved, never created: the steps of a run and what is left in all
\* its meters together stay within the budget and its refuels (fuel.rs, carve:
\* "total spending stays bounded by the root budget at any fork depth").
FuelConserved ==
    (meters[Root].remaining # Unlimited /\ next_fiber_id > 0) =>
        steps_total + Left(meters) <= h_granted

InRun == entry = "sched"

\* A fiber's meter is drawn on by its own slices and forks only: whatever
\* another fiber does, its end and the refund included, the fuel of a fiber
\* that stays in the Vec on another meter does not shrink.
FuelIsolation ==
    [][InRun /\ current # None =>
        \A f \in Live :
            (fibers'[f].status # "Absent" /\ fibers[f].meter # CurrentMeter
             /\ meters[fibers[f].meter].remaining # Unlimited)
                => meters'[fibers[f].meter].remaining >= meters[fibers[f].meter].remaining]_vars

\* Whoever waits on a fiber is released only by that fiber's end, is queued,
\* and is handed that fiber's fate: {ok} if it completed, {err} if it failed.
JoinDelivers ==
    [][InRun => \A t \in FiberId : \A w \in Waiting(t) \ Waiting(t)' :
        /\ t = current /\ fibers'[t].status = "Absent"
        /\ w \in Queued' /\ w \notin Waiters'
        /\ fibers'[w].ctl = [k |-> w, c |-> IF control'.c = "halted" THEN "ok" ELSE "err",
                             of |-> t]]_vars

\* What was delivered to a fiber (a host answer, a fate) is what it resumes
\* with: nothing overwrites it between the wake-up and the selection.
DeliveryHeld ==
    [][(InRun \/ entry' = "host") =>
        \A f \in Queued : f \in Queued' => fibers'[f].ctl = fibers[f].ctl]_vars

\* A pause for fuel is transparent: until the host enters the scheduler again
\* the paused fiber stays first in the queue, on the registers it was paused
\* with, whatever the host answers or adds in between ("picks up exactly where
\* the pause happened", run_scheduler).
PauseTransparent ==
    outcome.kind = "OutOfFuel" => fibers[Head(ready_queue)].ctl = control

\* fork(2) semantics of Snapshot: the process that read the file back wakes up
\* inside the effect, in the fiber that performed it, with "restored" ("execution
\* wakes inside the same effect").  In the process that wrote the file, the copy of
\* the registers that holds "restored" is the running fiber's, and is overwritten
\* before that fiber is queued behind another, waits or calls the host.  Nothing is
\* claimed of that fiber itself: a root whose snapshot could not be written stays
\* current, and if the host enters again it runs on "restored" in that process.
WakesInsideEffect ==
    LET first == IF ready_queue = <<>> THEN None ELSE Head(ready_queue) IN
    /\ outcome.kind = "Restored" =>
        /\ fibers[first].ctl = control
        /\ control.c = "restored"
    /\ \A f \in Live \ {current, first} :
        fibers[f].status = "Ready" => fibers[f].ctl.c # "restored"

-----------------------------------------------------------------------------

\* With a finite budget every entry into the scheduler gives the thread back
\* to the host: a spinning or forking program included ("suspends the run
\* rather than spinning forever").
EveryEntryReturns ==
    (InRun /\ meters[Root].remaining # Unlimited) ~> entry = "host"

\* A step that handles an effect and leaves the fiber on the interpreter.
KeepsInterpreter == InRun /\ current # None /\ current' = current /\ entry' = "sched"

\* Round robin: as long as slices end, a queued fiber gets its turn.  Only an
\* endless series of effects that keep the interpreter can starve it.
QueuedGetsItsTurn ==
    \A f \in FiberId :
        ([]<><<KeepsInterpreter>>_vars) \/
        ((InRun /\ f \in Queued) ~> (current = f \/ entry = "host"))

-----------------------------------------------------------------------------
(* What the documentation claims and the code does not do. *)

\* README: preemption after a slice "is what keeps one spinning fiber from
\* starving its siblings": a queued fiber always gets its turn.
SpinningNeverStarves ==
    \A f \in FiberId : (InRun /\ f \in Queued) ~> (current = f \/ entry = "host")

\* README: "The root fiber's fault ends the program": no fiber of the run
\* executes after it.
RootFaultEndsProgram ==
    [][h_root.end = "faulted" /\ next_fiber_id' = next_fiber_id =>
        ~(InRun /\ current # None /\ control' # control)]_vars

\* run_scheduler: "the root may have completed in an earlier scheduler entry,
\* where the local main_result never saw it": its result is still what the run
\* reports, the first time it is Done.
DoneReportsRootResult ==
    [][(h_root.end = "completed" /\ outcome'.kind = "Done") => outcome'.val = h_root.val]_vars

\* run_hosted_fresh: "Each run is a fresh top-level execution: fibers from a
\* previous run are dead": their continuations never reach the interpreter.
DeadFibersStayDead ==
    (InRun /\ current # None) => control.k # Stale

=============================================================================
