------------------------------ MODULE FiberPool ------------------------------
(***************************************************************************)
(* What the scheduler promises the program, without queues, meters, slices *)
(* or entries: fibers that fork, run one at a time, ask the host, finish,  *)
(* and are joined.  The fate of a fiber is given to everybody who was      *)
(* waiting when it finished, or else to the first that asks; whoever gets  *)
(* it keeps it until it runs on.                                           *)
(***************************************************************************)
CONSTANTS Fibers, First, NoFiber

VARIABLES
    phase,  \* where each fiber is
    want,   \* the fiber a joining fiber waits for
    inbox   \* the fiber whose fate was delivered and not yet looked at

poolVars == <<phase, want, inbox>>

Phase == {"unborn", "ready", "running", "joining", "host", "finished", "gone"}

PoolTypeOK ==
    /\ phase \in [Fibers -> Phase]
    /\ want \in [Fibers -> Fibers \cup {NoFiber}]
    /\ inbox \in [Fibers -> Fibers \cup {NoFiber}]

Nobody == [f \in Fibers |-> NoFiber]

PoolInit ==
    /\ phase = [f \in Fibers |-> "unborn"]
    /\ want = Nobody /\ inbox = Nobody

\* A run starts, and whatever was left of the one before it is dropped.
StartRun ==
    /\ phase' = [f \in Fibers |-> IF f = First THEN "ready" ELSE "unborn"]
    /\ want' = Nobody /\ inbox' = Nobody

Turn(f) ==
    /\ phase[f] = "ready"
    /\ \A g \in Fibers : phase[g] # "running"
    /\ phase' = [phase EXCEPT ![f] = "running"]
    /\ UNCHANGED <<want, inbox>>

\* The running fiber gives way, having looked at what it was given or not.
GiveWay(f) ==
    /\ phase[f] = "running"
    /\ phase' = [phase EXCEPT ![f] = "ready"]
    /\ inbox' \in {inbox, [inbox EXCEPT ![f] = NoFiber]}
    /\ UNCHANGED want

RunOn(f) ==
    /\ phase[f] = "running"
    /\ inbox' = [inbox EXCEPT ![f] = NoFiber]
    /\ UNCHANGED <<phase, want>>

ForkFiber(f, child) ==
    /\ phase[f] = "running" /\ phase[child] = "unborn"
    /\ phase' = [phase EXCEPT ![child] = "ready"]
    /\ inbox' = [inbox EXCEPT ![f] = NoFiber]
    /\ UNCHANGED want

AskHost(f) ==
    /\ phase[f] = "running"
    /\ phase' = [phase EXCEPT ![f] = "host"]
    /\ inbox' = [inbox EXCEPT ![f] = NoFiber]
    /\ UNCHANGED want

HostAnswers(f) ==
    /\ phase[f] = "host"
    /\ phase' = [phase EXCEPT ![f] = "ready"]
    /\ UNCHANGED <<want, inbox>>

JoinLater(f, t) ==
    /\ phase[f] = "running" /\ phase[t] \in {"ready", "running", "joining", "host"}
    /\ phase' = [phase EXCEPT ![f] = "joining"]
    /\ want' = [want EXCEPT ![f] = t]
    /\ inbox' = [inbox EXCEPT ![f] = NoFiber]

JoinNow(f, t) ==
    /\ phase[f] = "running" /\ phase[t] = "finished"
    /\ phase' = [phase EXCEPT ![t] = "gone"]
    /\ inbox' = [inbox EXCEPT ![f] = t]
    /\ UNCHANGED want

Finish(f) ==
    LET joiners == {g \in Fibers : want[g] = f} IN
    /\ phase[f] = "running"
    /\ phase' = [g \in Fibers |->
            IF g \in joiners THEN "ready"
            ELSE IF g # f THEN phase[g]
            ELSE IF joiners = {} THEN "finished" ELSE "gone"]
    /\ want' = [g \in Fibers |-> IF g \in joiners THEN NoFiber ELSE want[g]]
    /\ inbox' = [g \in Fibers |->
            IF g \in joiners THEN f ELSE IF g = f THEN NoFiber ELSE inbox[g]]

\* What the running fiber can do.
Running(f) ==
    /\ phase[f] = "running"
    /\ \/ GiveWay(f) \/ RunOn(f) \/ AskHost(f) \/ Finish(f)
       \/ \E g \in Fibers : ForkFiber(f, g) \/ JoinLater(f, g) \/ JoinNow(f, g)

PoolNext ==
    \/ StartRun
    \/ \E f \in Fibers : Turn(f) \/ HostAnswers(f) \/ Running(f)

PoolSpec == PoolInit /\ [][PoolNext]_poolVars

=============================================================================
