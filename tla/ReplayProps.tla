---------------------------- MODULE ReplayProps -----------------------------
(***************************************************************************)
(* What the replay log promises the host across crashes.                   *)
(***************************************************************************)
EXTENDS ReplayLog

(* What the variables hold. *)

\* The answer a fiber got before its turn, or the error in which it ended.
Observed == Fibers \X (Answers \cup {Nothing, "err"})

Event == [kind : {"answer"}, fiber : Fibers, call : Nat, answer : Answers]
         \cup [kind : {"continue"}]
         \cup [kind : {"refuel"}, amount : Refuels]
         \cup [kind : {"done"}, result : Seq(Observed)]

LogRecord == [stamp : Nat, ev : Event, whole : BOOLEAN]

RunState == [queue : Seq(Fibers), status : [Fibers -> {"ready", "blocked", "finished"}],
             asked : [Fibers -> Nat], inbox : [Fibers -> Answers \cup {Nothing}],
             meters : Seq(Meter), trace : Seq(Observed)]

Outcome == [kind : {"none", "Done", "Pending", "OutOfFuel", "Error"}, val : Seq(Observed)]

\* No fiber is queued twice, or while it waits for the host or after its end.
WellFormed(r) ==
    /\ r \in RunState /\ IsArena(r.meters)
    /\ IsInjective(r.queue) /\ \A f \in Range(r.queue) : r.status[f] = "ready"
    /\ \A f \in Fibers : r.asked[f] <= Calls[f]

\* Type invariant of the log, the process and the run.
TypeOK ==
    /\ mode \in {"armed", "off", "unrecorded", "recording", "replaying", "dead",
                 "refused", "diverged"}
    /\ header \in {"none", "torn", "whole"}
    /\ file \in Seq(LogRecord)
    /\ done_written \in BOOLEAN /\ unflushed \in BOOLEAN
    /\ WellFormed(rt)
    /\ entry \in {"host", "sched", "finish", "resume"}
    /\ outcome \in Outcome
    /\ cursor \in 0 .. Len(Events) + 1
    /\ crashes \in 0 .. MaxCrashes /\ h_saved \in BOOLEAN

-----------------------------------------------------------------------------
(* The run that a sequence of records stands for, computed in one go. *)

Onward(r) == IF AtRest(r) THEN r ELSE Turn(r)

\* The scheduler's turns until the run is at rest: each takes a fiber off the
\* queue, and none puts one in.
RunOut(r) ==
    LET after[n \in 0 .. Len(r.queue)] == IF n = 0 THEN r ELSE Onward(after[n - 1])
    IN  after[Len(r.queue)]

After(r, rec) ==
    CASE rec.ev.kind = "answer" -> Answered(r, rec.ev.fiber, rec.ev.answer)
      [] rec.ev.kind = "refuel" -> Refuelled(r, rec.ev.amount)
      [] rec.ev.kind = "continue" -> RunOut(r)
      [] rec.ev.kind = "done" -> r

Explained(records) ==
    LET after[n \in 0 .. Len(records)] ==
            IF n = 0 THEN RunOut(FreshRun) ELSE After(after[n - 1], records[n])
    IN  after[Len(records)]

\* The log never lags the runtime: whenever the host has control, the run in
\* memory is exactly the one the complete records of the file stand for
\* (resume_with, add_fuel and run_hosted_continue write ahead).  A Snapshot! that
\* failed is not in the log: of runs with one this is not so.
LogExplainsRun ==
    (h_saved /\ mode = "recording" /\ entry = "host") => rt = Explained(Events)

\* Whatever crashes preceded it, recovery succeeds on a log the runtime wrote, if
\* nothing was appended behind Done, no recorded value is nested too deep for
\* decode_event (Readable), and no Snapshot! of the run failed (h_saved).  Beyond
\* these limits parse_log refuses the log, or the replay of a program that did
\* nothing else diverges, the child having gone on with "saved".
RecoverySucceeds ==
    (Readable /\ h_saved) => mode \notin {"refused", "diverged"}

-----------------------------------------------------------------------------
(* The invariant behind it, where an append that fails leaves nothing and *)
(* as long as no Snapshot! has failed.                                    *)

\* The run as the first n records leave it.
ExplainedBy(n) == Explained(SubSeq(Events, 1, n))

\* A record fits a run: the checks of resume_from_log succeed there.
Fits(rec, r) ==
    /\ rec.stamp = Steps(r)
    /\ rec.ev.kind = "answer" =>
            rec.ev.fiber \in Blocked(r) /\ r.asked[rec.ev.fiber] = rec.ev.call
    /\ rec.ev.kind = "done" => OutcomeOf(r) = [kind |-> "Done", val |-> rec.ev.result]

\* Only the last record can be torn, and only until a recovery cuts it off.
TornOnlyLast ==
    \A i \in DOMAIN file : ~file[i].whole => i = Len(file) /\ mode # "recording"

\* Every record fits the run that the records before it stand for.
EveryRecordFits == \A i \in DOMAIN Events : Fits(Events[i], ExplainedBy(i - 1))

\* A run that is recorded has reached what the whole log stands for, one that is
\* replayed what the records before the cursor do; in the scheduler, it is about to.
InStep ==
    LET there == IF entry = "sched" THEN RunOut(rt) ELSE rt IN
    /\ mode = "recording" => there = Explained(Events)
    /\ mode = "replaying" => there = ExplainedBy(cursor - 1) /\ cursor >= 1 /\ entry # "resume"

\* The outcome is of the run as it is, unless the host or the log went on since;
\* Done stays true whatever they do.
OutcomeCurrent ==
    Alive =>
        /\ entry = "finish" => AtRest(rt) /\ outcome = OutcomeOf(rt)
        /\ (Replaying /\ ~unflushed) => AtRest(rt) /\ outcome = OutcomeOf(rt)
        /\ entry # "sched" /\ outcome.kind = "Done" => outcome = OutcomeOf(rt)
        /\ (Replaying /\ OutcomeOf(rt).kind = "Done") => outcome = OutcomeOf(rt)
        /\ done_written => OutcomeOf(rt).kind = "Done"

\* The inductive invariant of the log.
ReplayInv ==
    /\ TypeOK /\ OutcomeCurrent
    /\ h_saved =>
        /\ TornOnlyLast /\ EveryRecordFits /\ InStep
        /\ mode # "diverged" /\ (mode = "refused" => ~Readable)

-----------------------------------------------------------------------------

\* A complete record is never lost or changed: neither by the truncation of a
\* torn tail nor by what a recovered process appends.
HistoryOnlyGrows ==
    [][header = "whole" => IsPrefix(Events, Events')]_vars

\* A recovery does not leave the host with what it already dealt with: the run
\* it hands over has taken every answer and refuel of the log, has gone on as far
\* as it can, and is reported as what it is.
RecoveryCarriesOn ==
    [][(cursor > 0 /\ cursor' = 0 /\ mode' = "recording") =>
        AtRest(rt) /\ outcome = OutcomeOf(rt)]_vars

\* Recovery ends: it fails, dies again, or hands the run to the host.
RecoveryEnds == (cursor > 0) ~> (cursor = 0 \/ mode = "diverged")

-----------------------------------------------------------------------------
(* What the comments claim and the code does not do. *)

\* LogWriter: "Once Done is on disk the run is over; guards against a host loop
\* ... appending events after Done".
NothingAfterDone == SealedAtTheEnd

\* resume_with: "if the append fails, the answer is NOT applied: the log never
\* lags the runtime".  An answer the program was given is in the log, even when
\* appends fail and are tried again.
LogNeverLags ==
    mode = "recording" => \A f \in Fibers : \A k \in 1 .. rt.asked[f] :
        \/ k = rt.asked[f] /\ f \in Blocked(rt)
        \/ \E i \in DOMAIN Events :
            LET ev == Events[i].ev IN ev.kind = "answer" /\ ev.fiber = f /\ ev.call = k

=============================================================================
