----------------------------- MODULE MCScheduler -----------------------------
(* The scheduler on small instances. *)
EXTENDS SchedulerRefines

MCSmallBudgets == {2}
MCSmallCarves == {1}
MCDryCarves == {0}
MCZeroCarves == {0, 1, 2}
MCSmallRefuels == {1}
MCStmts == {"stmts"}
MCSources == {"stmts", "empty"}

\* A View: nothing reads steps_total, and nothing is said of it but its range when
\* the run has no budget, so that runs that differ in it alone are one.
StepsOfBudgetedRuns ==
    <<fibers, ready_queue, current, join_waiters, next_fiber_id, meters, control,
      main_result, entry, outcome, h_root, h_granted,
      IF meters[Root].remaining = Unlimited THEN None ELSE steps_total>>
=============================================================================
