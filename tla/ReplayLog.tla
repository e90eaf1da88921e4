----------------------------- MODULE ReplayLog ------------------------------
(***************************************************************************)
(* The write-ahead replay log of src/replay.rs, and the entry points of    *)
(* src/runtime.rs that write it: record_to and eval_hosted, resume_with,   *)
(* add_fuel, run_hosted_continue, finish_run and resume_from_log.  The     *)
(* process may die at any point, in the middle of an append included, and  *)
(* is then recovered from the file alone.                                  *)
(*                                                                         *)
(* The run itself is what the scheduler makes of a deterministic program:  *)
(* fibers take turns in queue order, one step each; fiber f asks the host  *)
(* Calls[f] times and ends.  trace is everything the program observed, so  *)
(* two runs with the same trace are the same run.  The log is a sequence   *)
(* of records, of which an interrupted append leaves one that is not       *)
(* whole; bytes written behind it are read as the rest of it.              *)
(***************************************************************************)
EXTENDS Integers, Sequences, FiniteSets, SequencesExt, Fuel

CONSTANTS
    Calls,        \* number of host calls each fiber makes
    Answers,      \* what the host may answer
    TooDeep,      \* answers nested deeper than MAX_HOST_VALUE_DEPTH
    Nothing,      \* no answer yet
    Budget,       \* the root fuel budget of the recorded run
    Refuels,      \* amounts the host passes to add_fuel
    FailedLeaves, \* what an append that returns an error may leave in the file
    MaxRecords,   \* bound on the records of a log
    MaxCrashes    \* bound on the number of crashes

Fibers == DOMAIN Calls

ASSUME ReplayAssumption ==
    /\ Cardinality(Fibers) \in Nat \ {0} /\ Fibers = 0 .. Cardinality(Fibers) - 1
    /\ Calls \in [Fibers -> Nat]
    /\ Nothing \notin Answers /\ TooDeep \subseteq Answers
    /\ Budget \in Fuels \cup {Unlimited}
    /\ Refuels \subseteq Fuels
    /\ FailedLeaves \subseteq {"nothing", "torn", "whole"}
    /\ MaxRecords \in Nat /\ MaxCrashes \in Nat

VARIABLES
    mode,          \* LogMode, or that no process is running, or how recovery failed,
                   \* or that the run goes on without a log and is not followed
    header,        \* of the file: "none", "torn" or "whole"
    file,          \* its records
    done_written,
    rt,            \* the run
    entry,         \* where the process is
    outcome,       \* what the scheduler returned last
    cursor,        \* the event resume_from_log looks at next; 0 outside it
    unflushed,     \* unflushed_answers \/ unflushed_refuel
    crashes,
    h_saved        \* history: no Snapshot! of the run has failed

logVars == <<header, file>>
vars == <<mode, header, file, done_written, rt, entry, outcome, cursor,
          unflushed, crashes, h_saved>>

-----------------------------------------------------------------------------
(* The run. *)

Order == [i \in 1 .. Cardinality(Fibers) |-> i - 1]

FreshRun ==
    [queue |-> Order,
     status |-> [f \in Fibers |-> "ready"],
     asked |-> [f \in Fibers |-> 0],
     inbox |-> [f \in Fibers |-> Nothing],
     meters |-> NewMeters(Budget),
     trace |-> <<>>]

Steps(r) == Len(r.trace)
Dry(r) == r.meters[Root].remaining = 0
AtRest(r) == r.queue = <<>> \/ Dry(r)

\* Mutant of Blocked: a call is answered if only its fiber exists.
Unfinished(r) == {f \in Fibers : r.status[f] # "finished"}

Blocked(r) == {f \in Fibers : r.status[f] = "blocked"}

\* A turn may perform a Snapshot! as well: written, or skipped in a replay, it
\* answers "saved" and nothing else changes.  SnapshotFails is the other case.
Turn(r) ==
    LET f == Head(r.queue)
        asks == r.asked[f] < Calls[f]
    IN
    [queue |-> Tail(r.queue),
     status |-> [r.status EXCEPT ![f] = IF asks THEN "blocked" ELSE "finished"],
     asked |-> IF asks THEN [r.asked EXCEPT ![f] = @ + 1] ELSE r.asked,
     inbox |-> [r.inbox EXCEPT ![f] = Nothing],
     meters |-> Charge(r.meters, Root, 1),
     trace |-> Append(r.trace, <<f, r.inbox[f]>>)]

\* apply_host_answer
Answered(r, f, a) ==
    [r EXCEPT !.status[f] = "ready", !.inbox[f] = a, !.queue = Append(@, f)]

Refuelled(r, amount) == [r EXCEPT !.meters = AddFuelTo(@, Root, amount)]

OutcomeOf(r) ==
    CASE r.queue # <<>> -> [kind |-> "OutOfFuel", val |-> <<>>]
      [] r.queue = <<>> /\ Blocked(r) # {} -> [kind |-> "Pending", val |-> <<>>]
      [] OTHER -> [kind |-> "Done", val |-> r.trace]

-----------------------------------------------------------------------------
(* The file. *)

HostAnswer(f, a) == [kind |-> "answer", fiber |-> f, call |-> rt.asked[f], answer |-> a]
ContinueEvent == [kind |-> "continue"]
Refuel(amount) == [kind |-> "refuel", amount |-> amount]
DoneEvent == [kind |-> "done", result |-> outcome.val]

Record(ev) == [stamp |-> Steps(rt), ev |-> ev, whole |-> TRUE]
Torn(ev) == [stamp |-> Steps(rt), ev |-> ev, whole |-> FALSE]

Logged(ev) == file' = Append(file, Record(ev)) /\ UNCHANGED header

\* What an append that does not succeed has left of its record.
Left(ev, what) ==
    CASE what = "nothing" -> file
      [] what = "torn" -> Append(file, Torn(ev))
      [] what = "whole" -> Append(file, Record(ev))

\* parse_log: incomplete trailing bytes end the log.
GoodPrefix == SelectInSeq(file, LAMBDA r : ~r.whole)
Events == IF GoodPrefix = 0 THEN file ELSE SubSeq(file, 1, GoodPrefix - 1)

\* Bytes behind a torn record are taken for the rest of it: parse_log finds a
\* complete record it cannot decode, or a length that reaches past the end.
Garbled == GoodPrefix # 0 /\ GoodPrefix < Len(file)

\* Nothing that can be decoded follows a Done.
SealedAtTheEnd == \A i \in 1 .. Len(Events) - 1 : Events[i].ev.kind # "done"

\* encode_event writes host values of any depth, decode_event does not read them
\* all.  An answer stands for the arguments of a call and the result as well.
Decodes(rec) == rec.ev.kind = "answer" => rec.ev.answer \notin TooDeep
AllDecode == \A i \in DOMAIN Events : Decodes(Events[i])

\* parse_log, but for bytes behind a torn record.
Readable == SealedAtTheEnd /\ AllDecode

-----------------------------------------------------------------------------

Init ==
    /\ mode = "armed"
    /\ header = "none" /\ file = <<>>
    /\ done_written = FALSE
    /\ rt = FreshRun
    /\ entry = "host"
    /\ outcome = [kind |-> "none", val |-> <<>>]
    /\ cursor = 0 /\ unflushed = FALSE
    /\ crashes = 0 /\ h_saved = TRUE

\* eval_hosted on an armed runtime: the header is on disk before the run starts.
Start ==
    /\ mode = "armed"
    /\ mode' = "recording"
    /\ header' = "whole" /\ file' = <<>>
    /\ rt' = FreshRun
    /\ entry' = "sched"
    /\ UNCHANGED <<done_written, outcome, cursor, unflushed, crashes, h_saved>>

\* The header cannot be created, written or synced.  The path was taken out of the
\* mode before: the log is off now, as on a runtime that was never armed.
StartFails ==
    /\ mode = "armed"
    /\ mode' = "off"
    /\ header' \in {"none", "torn", "whole"} /\ file' = <<>>
    /\ UNCHANGED <<done_written, rt, entry, outcome, cursor, unflushed, crashes, h_saved>>

\* The host tries again: it arms the runtime anew, which is still fresh ...
RecordTo ==
    /\ mode = "off"
    /\ mode' = "armed"
    /\ UNCHANGED <<logVars, done_written, rt, entry, outcome, cursor, unflushed, crashes, h_saved>>

\* ... or only evaluates again, without a log.
RunUnrecorded ==
    /\ mode = "off"
    /\ mode' = "unrecorded"
    /\ UNCHANGED <<logVars, done_written, rt, entry, outcome, cursor, unflushed, crashes, h_saved>>

Alive == mode \in {"recording", "replaying"}
AtHost == mode = "recording" /\ entry = "host" /\ Len(file) < MaxRecords

\* resume_with: logged, then applied.
ResumeWith(f, a) ==
    /\ AtHost
    /\ f \in Blocked(rt)
    /\ Logged(HostAnswer(f, a))
    /\ rt' = Answered(rt, f, a)
    /\ UNCHANGED <<mode, done_written, entry, outcome, cursor, unflushed, crashes, h_saved>>

AddFuel(amount) ==
    /\ AtHost
    /\ Dry(rt)
    /\ Logged(Refuel(amount))
    /\ rt' = Refuelled(rt, amount)
    /\ UNCHANGED <<mode, done_written, entry, outcome, cursor, unflushed, crashes, h_saved>>

\* Mutant of Continue: entering the scheduler is not recorded.
ContinueUnlogged ==
    /\ AtHost \/ (mode = "recording" /\ entry = "resume")
    /\ entry' = "sched"
    /\ UNCHANGED <<mode, logVars, done_written, rt, outcome, cursor, unflushed, crashes, h_saved>>

\* run_hosted_continue, from the host or from the end of resume_from_log.
Continue ==
    /\ AtHost \/ (mode = "recording" /\ entry = "resume")
    /\ IF done_written THEN UNCHANGED logVars ELSE Logged(ContinueEvent)
    /\ entry' = "sched"
    /\ UNCHANGED <<mode, done_written, rt, outcome, cursor, unflushed, crashes, h_saved>>

SchedulerTurn ==
    /\ Alive /\ entry = "sched"
    /\ ~AtRest(rt)
    /\ rt' = Turn(rt)
    /\ UNCHANGED <<mode, logVars, done_written, entry, outcome, cursor, unflushed, crashes, h_saved>>

SchedulerReturns ==
    /\ Alive /\ entry = "sched"
    /\ AtRest(rt)
    /\ outcome' = OutcomeOf(rt)
    /\ entry' = "finish"
    /\ UNCHANGED <<mode, logVars, done_written, rt, cursor, unflushed, crashes, h_saved>>

\* Mutant of Seals: a run that only pauses is sealed as well.
SealsWhatever == mode = "recording" /\ ~done_written

\* finish_run: a completed recorded run is sealed once.
Seals == mode = "recording" /\ outcome.kind = "Done" /\ ~done_written

FinishRun ==
    /\ Alive /\ entry = "finish"
    /\ IF Seals THEN Logged(DoneEvent) ELSE UNCHANGED logVars
    /\ done_written' = (done_written \/ Seals)
    /\ entry' = "host"
    /\ cursor' = IF mode = "recording" THEN 0 ELSE cursor
    /\ UNCHANGED <<mode, rt, outcome, unflushed, crashes, h_saved>>

-----------------------------------------------------------------------------
(* Failures. *)

\* The events the process may be appending.
Appending ==
    CASE mode = "recording" /\ entry = "finish" -> IF Seals THEN {DoneEvent} ELSE {}
      [] mode = "recording" /\ entry = "resume" -> {ContinueEvent}
      [] AtHost ->
            {HostAnswer(f, a) : f \in Blocked(rt), a \in Answers}
            \cup (IF Dry(rt) THEN {Refuel(n) : n \in Refuels} ELSE {})
            \cup (IF done_written THEN {} ELSE {ContinueEvent})
      [] OTHER -> {}

Dead == mode' = "dead" /\ entry' = "host" /\ cursor' = 0

Crash ==
    /\ Alive /\ crashes < MaxCrashes
    /\ Dead
    /\ crashes' = crashes + 1
    /\ \/ UNCHANGED file
       \/ \E ev \in Appending, what \in {"torn", "whole"} : file' = Left(ev, what)
    /\ UNCHANGED <<header, done_written, rt, outcome, unflushed, h_saved>>

\* The process dies while the header is written: nothing ran yet.
CrashInHeader ==
    /\ mode = "armed" /\ crashes < MaxCrashes
    /\ header' \in {"none", "torn", "whole"}
    /\ file' = <<>>
    /\ Dead
    /\ crashes' = crashes + 1
    /\ UNCHANGED <<done_written, rt, outcome, unflushed, h_saved>>

\* write_all or sync_data returns an error: so does the entry point, and nothing
\* is applied; what was written stays, and the host may try again.
\* An error inside resume_from_log drops the runtime.
AppendFailure ==
    /\ \E ev \in Appending, what \in FailedLeaves : file' = Left(ev, what)
    /\ IF cursor > 0 THEN Dead ELSE entry' = "host" /\ UNCHANGED <<mode, cursor>>
    /\ outcome' = [kind |-> "Error", val |-> <<>>]
    /\ UNCHANGED <<header, done_written, rt, unflushed, crashes, h_saved>>

\* A child's Snapshot! whose file cannot be written ends the child in an error, in
\* the recorded run only: a replay writes nothing, and answers "saved".
Unsaved(r) ==
    LET f == Head(r.queue) IN
    [Turn(r) EXCEPT !.status[f] = "finished",
                    !.asked = r.asked,
                    !.trace = Append(r.trace, <<f, "err">>)]

SnapshotFails ==
    /\ mode = "recording" /\ entry = "sched"
    /\ ~AtRest(rt)
    /\ Head(rt.queue) # 0
    /\ rt' = Unsaved(rt)
    /\ h_saved' = FALSE
    /\ UNCHANGED <<mode, logVars, done_written, entry, outcome, cursor, unflushed, crashes>>

-----------------------------------------------------------------------------
(* resume_from_log. *)

\* No recovery without a header; the host records the run again.
StartOver ==
    /\ mode = "dead" /\ header # "whole"
    /\ mode' = "armed"
    /\ UNCHANGED <<logVars, done_written, rt, entry, outcome, cursor, unflushed, crashes, h_saved>>

\* parse_log finds an event behind Done, or a complete record it cannot decode.
RefuseLog ==
    /\ mode = "dead" /\ header = "whole"
    /\ Garbled \/ ~Readable
    /\ mode' = "refused"
    /\ UNCHANGED <<logVars, done_written, rt, entry, outcome, cursor, unflushed, crashes, h_saved>>

BeginReplay ==
    /\ mode = "dead" /\ header = "whole"
    /\ Readable
    /\ mode' = "replaying"
    /\ rt' = FreshRun
    /\ done_written' = FALSE
    /\ entry' = "sched"
    /\ cursor' = 1 /\ unflushed' = FALSE
    /\ UNCHANGED <<logVars, outcome, crashes, h_saved>>

Replaying == mode = "replaying" /\ entry = "host"
NextRecord == Events[cursor]
StampMatches == Steps(rt) = NextRecord.stamp

\* verify_pending_matches, and the checks of the Done arm.
Matches(ev) ==
    CASE ev.kind = "answer" -> ev.fiber \in Blocked(rt) /\ rt.asked[ev.fiber] = ev.call
      [] ev.kind = "done" -> outcome.kind = "Done" /\ outcome.val = ev.result
      [] OTHER -> TRUE

\* Mutant of MeansToResume: only an answer shows that the host meant to go on.
AnswersMeanToResume(ev) == ev.kind = "answer"

\* The host that logged one of these died before the Continue it meant to make.
MeansToResume(ev) == ev.kind \in {"answer", "refuel"}

Apply(ev) ==
    /\ rt' = CASE ev.kind = "answer" -> Answered(rt, ev.fiber, ev.answer)
               [] ev.kind = "refuel" -> Refuelled(rt, ev.amount)
               [] OTHER -> rt
    /\ entry' = IF ev.kind = "continue" THEN "sched" ELSE "host"
    /\ unflushed' = CASE MeansToResume(ev) -> TRUE
                      [] ev.kind = "continue" -> FALSE
                      [] OTHER -> unflushed
    /\ done_written' = (done_written \/ ev.kind = "done")
    /\ cursor' = cursor + 1
    /\ UNCHANGED mode

Diverge ==
    /\ mode' = "diverged"
    /\ UNCHANGED <<rt, entry, unflushed, done_written, cursor>>

ReplayEvent ==
    /\ Replaying /\ cursor <= Len(Events)
    /\ IF StampMatches /\ Matches(NextRecord.ev) THEN Apply(NextRecord.ev) ELSE Diverge
    /\ UNCHANGED <<logVars, outcome, crashes, h_saved>>

\* Mutant of Replayed: the torn record counts as one to replay.
ReplayedToTheEnd == cursor > Len(file)

Replayed == cursor > Len(Events)

\* Mutants of Truncated: the torn tail stays; a record too much is cut.
TornTailKept == file
CutTooFar == IF Events = <<>> THEN <<>> ELSE Front(Events)

Truncated == Events

\* open_at drops the torn tail; an intent to resume is carried out.
CaughtUp ==
    /\ Replaying /\ Replayed
    /\ file' = Truncated /\ UNCHANGED header
    /\ mode' = "recording"
    /\ entry' = IF unflushed THEN "resume" ELSE "finish"
    /\ UNCHANGED <<done_written, rt, outcome, cursor, unflushed, crashes, h_saved>>

-----------------------------------------------------------------------------

HostCall ==
    \/ \E f \in Fibers, a \in Answers : ResumeWith(f, a)
    \/ \E amount \in Refuels : AddFuel(amount)

Recovery == BeginReplay \/ ReplayEvent \/ CaughtUp \/ RefuseLog \/ StartOver

Running == SchedulerTurn \/ SchedulerReturns \/ FinishRun

Starting == Start \/ StartFails \/ RecordTo \/ RunUnrecorded

Next == Starting \/ HostCall \/ Continue \/ Running \/ Crash \/ CrashInHeader
        \/ AppendFailure \/ SnapshotFails \/ Recovery

Spec == Init /\ [][Next]_vars

\* A process that runs, runs on; so does resume_from_log once it was called.
FairSpec ==
    /\ Spec
    /\ WF_vars(Running \/ ReplayEvent \/ CaughtUp)
    /\ WF_vars(entry = "resume" /\ Continue)

=============================================================================
