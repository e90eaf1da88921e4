-------------------------- MODULE SchedulerRefines --------------------------
(***************************************************************************)
(* The scheduler implements the fiber pool.  Ready in the code is three    *)
(* phases here (queued, joining, running after a Snapshot); the place the  *)
(* fiber is in tells them apart.                                           *)
(***************************************************************************)
EXTENDS SchedulerProps

PhaseOf(f) ==
    CASE fibers[f].status = "Absent" -> IF f < next_fiber_id THEN "gone" ELSE "unborn"
      [] fibers[f].status \in {"Completed", "Failed"} -> "finished"
      [] fibers[f].status = "BlockedOnHost" -> "host"
      [] f = current -> "running"
      [] f \in Waiters -> "joining"
      [] OTHER -> "ready"

WantOf(f) == IF f \in Waiters THEN CHOOSE t \in FiberId : f \in Waiting(t) ELSE None

\* The fate in a fiber's registers, wherever they are.
Registers(f) == IF f = current THEN control ELSE fibers[f].ctl
InboxOf(f) ==
    IF fibers[f].status \in {"Ready", "Running"} /\ Registers(f).c \in {"ok", "err"}
    THEN Registers(f).of ELSE None

Pool == INSTANCE FiberPool WITH
    Fibers <- FiberId, First <- RootFiber, NoFiber <- None,
    phase <- [f \in FiberId |-> PhaseOf(f)],
    want <- [f \in FiberId |-> WantOf(f)],
    inbox <- [f \in FiberId |-> InboxOf(f)]

\* Every step of the scheduler is a step of the pool or none: forks, joins,
\* host calls and fates reach the program as the pool promises.
ImplementsPool == Pool!PoolSpec

=============================================================================
