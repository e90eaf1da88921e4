--------------------------- MODULE SchedulerProofs ---------------------------
(***************************************************************************)
(* SchedInv is inductive, so the scheduler keeps it for any number of      *)
(* fibers, any quantum and any budget.                                     *)
(***************************************************************************)
EXTENDS SchedulerProps, SchedulerRefines, FuelProofs, QueueLemmas

\* Abbreviations, expanded everywhere.
USE DEF Loaded, QueueBack, QueueFront, ReadyOverride, Joiners, Consumed, MayWait

\* The part of the invariant about the fibers and the places they are in.
Core ==
    /\ fibers \in [FiberId -> Fiber]
    /\ ready_queue \in Seq(FiberId)
    /\ current \in FiberId \cup {None}
    /\ join_waiters \in [FiberId -> Seq(FiberId)]
    /\ next_fiber_id \in 0 .. MaxFibers
    /\ IdsInOrder
    /\ QueueSound
    /\ WaitersSound
    /\ WaitersWakeable
    /\ NoLostFiber
    /\ RunningIsCurrent
    /\ MetersSound

\* The types of everything else.
Rest ==
    /\ steps_total \in Fuels
    /\ control \in Ctl
    /\ main_result \in Value
    /\ entry \in {"host", "sched"}
    /\ outcome \in [kind : {"none", "Done", "Pending", "OutOfFuel", "Error",
                                "Restored"}, val : Value]
    /\ h_root \in [end : {"no", "completed", "faulted", "reported"}, val : Value]
    /\ h_granted \in Nat

\* The inductive invariant splits into the two parts.
LEMMA Split == SchedInv <=> Core /\ Rest
BY DEF SchedInv, TypeOK, Core, Rest, MetersSound, IsArena

\* The same for the next state.
LEMMA SplitPrime == SchedInv' <=> Core' /\ Rest'
BY DEF SchedInv, TypeOK, Core, Rest, MetersSound, IsArena

\* Constants seen as values.
LEMMA Constants ==
    /\ RootFiber \in FiberId /\ 0 \in Fuels /\ MaxFibers \in Nat
    /\ None \in Value /\ Stale \in Value /\ FiberId \subseteq Value
    /\ None \notin FiberId
    /\ AbsentFiber \in Fiber
BY SchedulerAssumption, FuelAssumption, SMT
   DEF RootFiber, FiberId, Fuels, Value, AbsentFiber, Fiber, Ctl, CtlKind, Code, Root, LiveStatus

\* Delivering a value keeps a register well typed.
LEMMA DeliverType ==
    ASSUME NEW ctl \in Ctl, NEW c \in CtlKind, NEW of \in Value
    PROVE  Deliver(ctl, c, of) \in Ctl
BY DEF Deliver, Ctl

\* A step that adds no fiber keeps the ids in order.
LEMMA IdsKept ==
    ASSUME Core, NEW f \in FiberId, fibers[f].status # "Absent",
           next_fiber_id' = next_fiber_id,
           \A g \in FiberId : fibers[g].status = "Absent" => fibers'[g].status = "Absent"
    PROVE  IdsInOrder'
<1>1. next_fiber_id \in Nat /\ f \in Nat
  BY Constants, SMT DEF Core, FiberId
<1>2. ~(f >= next_fiber_id)
  BY DEF Core, IdsInOrder
<1>3. next_fiber_id # 0
  BY <1>1, <1>2, SMT
<1> QED
  BY <1>3 DEF Core, IdsInOrder

-----------------------------------------------------------------------------
(* Steps, by what they do to the fibers' places. *)

\* Nothing moves: the meters may change, in an arena of the same length or longer.
LEMMA NothingMoves ==
    ASSUME Core, UNCHANGED <<fibers, ready_queue, current, join_waiters, next_fiber_id>>,
           IsArena(meters'), Len(meters') = Len(meters)
    PROVE  Core'
BY DEF Core, IdsInOrder, QueueSound, WaitersSound, WaitersWakeable, NoLostFiber,
       RunningIsCurrent, MetersSound, Queued, Waiters, Waiting

\* The running fiber is saved, and goes on running.
LEMMA SavedInPlace ==
    ASSUME Core, current \in FiberId, NEW ctl \in Ctl, fibers' = Saved(ctl),
           UNCHANGED <<ready_queue, current, join_waiters, next_fiber_id>>,
           IsArena(meters'), Len(meters') = Len(meters)
    PROVE  Core'
<1>1. /\ fibers' \in [FiberId -> Fiber]
      /\ fibers'[current].status = "Ready" /\ fibers'[current].meter = fibers[current].meter
      /\ \A f \in FiberId \ {current} : fibers'[f] = fibers[f]
  BY DEF Core, Saved, Fiber, LiveStatus
<1>2. MetersSound'
  BY <1>1 DEF Core, MetersSound
<1>3. IdsInOrder'
  BY <1>1, Constants, IdsKept DEF Core, RunningIsCurrent
<1>4. QueueSound'
  BY <1>1, SeqRange DEF Core, QueueSound, Queued
<1>6. WaitersSound'
  BY <1>1, SeqRange DEF Core, WaitersSound, Queued, Waiters, Waiting
<1>5. WaitersWakeable' /\ NoLostFiber' /\ RunningIsCurrent'
  BY <1>1 DEF Core, WaitersWakeable, NoLostFiber, RunningIsCurrent, Queued, Waiters, Waiting
<1> QED
  BY <1>1, <1>2, <1>3, <1>4, <1>5, <1>6 DEF Core

\* select_next_fiber: the head of the queue goes to the interpreter.
LEMMA SelectCore ==
    ASSUME Core, SelectNextFiber
    PROVE  Core' /\ control' \in Ctl
<1> DEFINE f == Head(ready_queue)
<1>1. f \in FiberId /\ f \in Queued /\ ready_queue' \in Seq(FiberId)
      /\ Queued' = Queued \ {f} /\ IsInjective(ready_queue')
  BY PopFront DEF SelectNextFiber, Core, QueueSound, Queued
<1>2. /\ current' = f /\ current = None /\ control' = fibers[f].ctl
      /\ UNCHANGED <<join_waiters, next_fiber_id, meters>>
  BY DEF SelectNextFiber, fuelVars
<1>3. fibers[f].status = "Ready" /\ f \notin Waiters
  BY <1>1 DEF Core, QueueSound, WaitersSound
<1>4. fibers' = [fibers EXCEPT ![f].status = "Running"]
  BY DEF SelectNextFiber
<1> HIDE DEF f
<1>5. /\ fibers' \in [FiberId -> Fiber]
      /\ fibers'[f].status = "Running" /\ fibers'[f].meter = fibers[f].meter
      /\ \A g \in FiberId \ {f} : fibers'[g] = fibers[g]
  BY <1>1, <1>4 DEF Core, Fiber, LiveStatus
<1>6. MetersSound'
  BY <1>2, <1>5 DEF Core, MetersSound
<1>7. IdsInOrder'
  BY <1>1, <1>2, <1>3, <1>5, IdsKept
<1>8. QueueSound'
  BY <1>1, <1>2, <1>5, SeqRange DEF Core, QueueSound, Queued
<1>9. Waiters' = Waiters /\ \A t \in FiberId : Waiting(t)' = Waiting(t)
  BY <1>2 DEF Waiters, Waiting
<1>10. \A w \in Waiters : w \in FiberId
  BY SeqRange DEF Core, Waiters, Waiting
<1>11. WaitersSound'
  BY <1>1, <1>2, <1>3, <1>5, <1>9, <1>10 DEF Core, WaitersSound
<1>12. WaitersWakeable'
  BY <1>2, <1>5 DEF Core, WaitersWakeable
<1>13. NoLostFiber' /\ RunningIsCurrent'
  BY <1>1, <1>2, <1>5, <1>9, Constants DEF Core, NoLostFiber, RunningIsCurrent
<1>14. control' \in Ctl
  BY <1>1, <1>2 DEF Core, Fiber
<1> QED
  BY <1>1, <1>2, <1>5, <1>6, <1>7, <1>8, <1>11, <1>12, <1>13, <1>14 DEF Core

\* Where the running fiber is, and is not.
LEMMA CurrentFacts ==
    ASSUME Core, current # None
    PROVE  /\ current \in FiberId /\ current \notin Queued /\ current \notin Waiters
           /\ fibers[current].status \in {"Ready", "Running"}
           /\ CurrentMeter \in 1 .. Len(meters)
           /\ IsArena(meters)
BY DEF Core, QueueSound, WaitersSound, RunningIsCurrent, MetersSound, CurrentMeter

\* Places hold fiber ids only.
LEMMA PlacesFacts ==
    ASSUME Core
    PROVE  /\ Queued \subseteq FiberId /\ Waiters \subseteq FiberId
           /\ \A t \in FiberId : Waiting(t) \subseteq Waiters
BY SeqRange DEF Core, Queued, Waiters, Waiting

\* Preemption and the pause for fuel: the running fiber goes back to the queue.
LEMMA Requeued ==
    ASSUME Core, current # None, NEW ctl \in Ctl, fibers' = Saved(ctl), current' = None,
           ready_queue' \in Seq(FiberId), IsInjective(ready_queue'),
           Range(ready_queue') = Queued \cup {current},
           UNCHANGED <<join_waiters, next_fiber_id>>,
           IsArena(meters'), Len(meters') = Len(meters)
    PROVE  Core'
<1>1. /\ current \in FiberId /\ current \notin Waiters
      /\ fibers[current].status # "Absent"
  BY CurrentFacts
<1>2. /\ fibers' \in [FiberId -> Fiber]
      /\ fibers'[current].status = "Ready" /\ fibers'[current].meter = fibers[current].meter
      /\ \A f \in FiberId \ {current} : fibers'[f] = fibers[f]
  BY <1>1 DEF Core, Saved, Fiber, LiveStatus
<1>3. Queued' = Queued \cup {current} /\ Waiters' = Waiters
      /\ \A t \in FiberId : Waiting(t)' = Waiting(t)
  BY DEF Queued, Waiters, Waiting
<1>4. Queued \subseteq FiberId /\ Waiters \subseteq FiberId /\ None \notin FiberId
  BY PlacesFacts, Constants
<1>5. MetersSound'
  BY <1>2 DEF Core, MetersSound
<1>6. IdsInOrder'
  BY <1>1, <1>2, IdsKept
<1>7. QueueSound'
  BY <1>1, <1>2, <1>3, <1>4 DEF Core, QueueSound
<1>8. WaitersSound'
  BY <1>1, <1>2, <1>3, <1>4 DEF Core, WaitersSound
<1>9. WaitersWakeable'
  BY <1>1, <1>2 DEF Core, WaitersWakeable
<1>10. NoLostFiber' /\ RunningIsCurrent'
  BY <1>1, <1>2, <1>3 DEF Core, NoLostFiber, RunningIsCurrent
<1> QED
  BY <1>2, <1>5, <1>6, <1>7, <1>8, <1>9, <1>10 DEF Core

\* A host call: the running fiber leaves the interpreter for the host.
LEMMA BlockedCore ==
    ASSUME Core, current # None, NEW ctl \in Ctl, current' = None,
           fibers' = [Saved(ctl) EXCEPT ![current].status = "BlockedOnHost"],
           UNCHANGED <<ready_queue, join_waiters, next_fiber_id>>,
           IsArena(meters'), Len(meters') = Len(meters)
    PROVE  Core'
<1>1. /\ current \in FiberId /\ current \notin Waiters /\ current \notin Queued
      /\ fibers[current].status # "Absent"
  BY CurrentFacts
<1>2. /\ fibers' \in [FiberId -> Fiber]
      /\ fibers'[current].status = "BlockedOnHost"
      /\ fibers'[current].meter = fibers[current].meter
      /\ \A f \in FiberId \ {current} : fibers'[f] = fibers[f]
  BY <1>1 DEF Core, Saved, Fiber, LiveStatus
<1>3. Queued' = Queued /\ Waiters' = Waiters
      /\ \A t \in FiberId : Waiting(t)' = Waiting(t)
  BY DEF Queued, Waiters, Waiting
<1>4. Queued \subseteq FiberId /\ Waiters \subseteq FiberId /\ None \notin FiberId
  BY PlacesFacts, Constants
<1>5. MetersSound'
  BY <1>2 DEF Core, MetersSound
<1>6. IdsInOrder'
  BY <1>1, <1>2, IdsKept
<1>7. QueueSound'
  BY <1>1, <1>2, <1>3, <1>4 DEF Core, QueueSound
<1>8. WaitersSound'
  BY <1>1, <1>2, <1>3, <1>4 DEF Core, WaitersSound
<1>9. WaitersWakeable'
  BY <1>1, <1>2 DEF Core, WaitersWakeable
<1>10. NoLostFiber' /\ RunningIsCurrent'
  BY <1>1, <1>2, <1>3 DEF Core, NoLostFiber, RunningIsCurrent
<1> QED
  BY <1>2, <1>5, <1>6, <1>7, <1>8, <1>9, <1>10 DEF Core

\* A join on an unfinished fiber: the running fiber moves to its wait list.
LEMMA WaitsCore ==
    ASSUME Core, current # None, NEW ctl \in Ctl, current' = None,
           NEW t \in FiberId, fibers[t].status \in {"Ready", "Running", "BlockedOnHost"},
           fibers' = Saved(ctl),
           join_waiters' = [join_waiters EXCEPT ![t] = Append(@, current)],
           UNCHANGED <<ready_queue, next_fiber_id>>,
           IsArena(meters'), Len(meters') = Len(meters)
    PROVE  Core'
<1>1. /\ current \in FiberId /\ current \notin Waiters /\ current \notin Queued
      /\ fibers[current].status # "Absent"
  BY CurrentFacts
<1>2. /\ fibers' \in [FiberId -> Fiber]
      /\ fibers'[current].status = "Ready"
      /\ fibers'[current].meter = fibers[current].meter
      /\ \A f \in FiberId \ {current} : fibers'[f] = fibers[f]
  BY <1>1 DEF Core, Saved, Fiber, LiveStatus
<1>3. Queued \subseteq FiberId /\ Waiters \subseteq FiberId /\ None \notin FiberId
      /\ \A u \in FiberId : Waiting(u) \subseteq Waiters
  BY PlacesFacts, Constants
<1>4. /\ Append(join_waiters[t], current) \in Seq(FiberId)
      /\ IsInjective(Append(join_waiters[t], current))
      /\ Range(Append(join_waiters[t], current)) = Waiting(t) \cup {current}
  <2>1. join_waiters[t] \in Seq(FiberId) /\ IsInjective(join_waiters[t])
        /\ current \notin Range(join_waiters[t])
    BY <1>1, <1>3 DEF Core, WaitersSound, Waiting
  <2> QED
    BY <1>1, <2>1, PushBack DEF Waiting
<1>5. /\ join_waiters' \in [FiberId -> Seq(FiberId)]
      /\ Waiting(t)' = Waiting(t) \cup {current}
      /\ \A u \in FiberId \ {t} : Waiting(u)' = Waiting(u) /\ join_waiters'[u] = join_waiters[u]
      /\ \A u \in FiberId : IsInjective(join_waiters'[u])
  BY <1>4 DEF Core, WaitersSound, Waiting
<1>6. Queued' = Queued /\ Waiters' = Waiters \cup {current}
  BY <1>5 DEF Queued, Waiters
<1>7. MetersSound'
  BY <1>2 DEF Core, MetersSound
<1>8. IdsInOrder'
  BY <1>1, <1>2, IdsKept
<1>9. QueueSound'
  BY <1>1, <1>2, <1>3, <1>6 DEF Core, QueueSound
<1>10. WaitersSound'
  <2>1. \A u, v \in FiberId : u # v => Waiting(u)' \cap Waiting(v)' = {}
    <3> SUFFICES ASSUME NEW u \in FiberId, NEW v \in FiberId, u # v
                 PROVE  Waiting(u)' \cap Waiting(v)' = {}
      OBVIOUS
    <3>1. Waiting(u) \cap Waiting(v) = {} /\ current \notin Waiting(u) /\ current \notin Waiting(v)
      BY <1>1, <1>3 DEF Core, WaitersSound
    <3>2. Waiting(u)' \subseteq Waiting(u) \cup {current} /\ (u # t => Waiting(u)' = Waiting(u))
      BY <1>5
    <3>3. Waiting(v)' \subseteq Waiting(v) \cup {current} /\ (v # t => Waiting(v)' = Waiting(v))
      BY <1>5
    <3> QED
      BY <3>1, <3>2, <3>3
  <2>2. \A w \in Waiters' : fibers'[w].status = "Ready" /\ w # current' /\ w \notin Queued'
    BY <1>1, <1>2, <1>3, <1>6 DEF Core, WaitersSound
  <2> QED
    BY <1>5, <2>1, <2>2 DEF WaitersSound
<1>11. WaitersWakeable'
  BY <1>1, <1>2, <1>5 DEF Core, WaitersWakeable
<1>12. NoLostFiber' /\ RunningIsCurrent'
  BY <1>1, <1>2, <1>6 DEF Core, NoLostFiber, RunningIsCurrent
<1> QED
  BY <1>2, <1>5, <1>7, <1>8, <1>9, <1>10, <1>11, <1>12 DEF Core

\* Fork: the new fiber takes the next id and joins the end of the queue.
LEMMA ForkCore ==
    ASSUME Core, current # None, next_fiber_id < MaxFibers,
           NEW m, IsArena(meters'), Len(meters') >= Len(meters), m \in 1 .. Len(meters'),
           fibers' = [fibers EXCEPT ![next_fiber_id] = NewFiber(Code(next_fiber_id), m)],
           ready_queue' = Append(ready_queue, next_fiber_id),
           next_fiber_id' = next_fiber_id + 1,
           UNCHANGED <<current, join_waiters>>
    PROVE  Core'
<1> DEFINE id == next_fiber_id
<1>1. /\ id \in FiberId /\ id \in Nat /\ fibers[id].status = "Absent"
      /\ id + 1 \in 0 .. MaxFibers /\ Len(meters) \in Nat /\ Len(meters') \in Nat
  BY Constants, SMT DEF Core, IdsInOrder, FiberId, MetersSound, IsArena
<1>2. /\ current \in FiberId /\ current # id
      /\ fibers[current].status # "Absent"
  BY <1>1, CurrentFacts
<1>3. id \notin Queued /\ id \notin Waiters
  BY <1>1 DEF Core, QueueSound, WaitersSound
<1> HIDE DEF id
<1>4. NewFiber(Code(id), m) \in Fiber
  <2>1. m \in Nat
    BY <1>1, SMT
  <2>2. Code(id) \in Ctl
    BY <1>1, Constants DEF Code, Ctl, CtlKind
  <2> QED
    BY <2>1, <2>2, Constants DEF NewFiber, Fiber, LiveStatus
<1>5. /\ fibers' \in [FiberId -> Fiber]
      /\ fibers'[id].status = "Ready" /\ fibers'[id].meter = m
      /\ \A f \in FiberId \ {id} : fibers'[f] = fibers[f]
  BY <1>1, <1>4 DEF Core, NewFiber, id
<1>6. /\ ready_queue' \in Seq(FiberId) /\ IsInjective(ready_queue')
      /\ Queued' = Queued \cup {id}
  BY <1>1, <1>3, PushBack DEF Core, QueueSound, Queued, id
<1>7. Waiters' = Waiters /\ \A t \in FiberId : Waiting(t)' = Waiting(t)
  BY DEF Waiters, Waiting
<1>8. Queued \subseteq FiberId /\ Waiters \subseteq FiberId
  BY PlacesFacts
<1>9. MetersSound'
  <2>1. \A f \in FiberId : fibers[f].meter \in 1 .. Len(meters')
    BY <1>1, SMT DEF Core, MetersSound
  <2> QED
    BY <1>5, <2>1 DEF MetersSound
<1>10. IdsInOrder'
  <2>1. \A f \in FiberId : f >= id + 1 => f >= id /\ f # id
    BY <1>1, SMT DEF FiberId
  <2>2. id + 1 # 0
    BY <1>1, SMT
  <2> QED
    BY <1>5, <2>1, <2>2 DEF Core, IdsInOrder, id
<1>11. QueueSound'
  BY <1>2, <1>5, <1>6, <1>8 DEF Core, QueueSound
<1>12. WaitersSound'
  BY <1>3, <1>5, <1>6, <1>7, <1>8 DEF Core, WaitersSound
<1>13. WaitersWakeable'
  BY <1>5 DEF Core, WaitersWakeable
<1>14. NoLostFiber' /\ RunningIsCurrent'
  BY <1>2, <1>5, <1>6, <1>7 DEF Core, NoLostFiber, RunningIsCurrent
<1> QED
  BY <1>1, <1>5, <1>6, <1>9, <1>10, <1>11, <1>12, <1>13, <1>14 DEF Core, id

\* A finished fiber is taken by a late joiner: nobody waits for it any more.
LEMMA TakenCore ==
    ASSUME Core, current # None, NEW t \in FiberId,
           fibers[t].status \in {"Completed", "Failed"},
           fibers' = [fibers EXCEPT ![t] = AbsentFiber],
           UNCHANGED <<ready_queue, current, join_waiters, next_fiber_id>>,
           IsArena(meters'), Len(meters') = Len(meters)
    PROVE  Core'
<1>1. /\ current \in FiberId /\ fibers[current].status \in {"Ready", "Running"}
      /\ t # current /\ t \notin Queued /\ t \notin Waiters /\ join_waiters[t] = <<>>
  BY CurrentFacts DEF Core, QueueSound, WaitersSound, WaitersWakeable
<1>2. /\ fibers' \in [FiberId -> Fiber]
      /\ fibers'[t].status = "Absent" /\ fibers'[t].meter = Root
      /\ \A f \in FiberId \ {t} : fibers'[f] = fibers[f]
  BY Constants DEF Core, AbsentFiber
<1>3. Queued' = Queued /\ Waiters' = Waiters
      /\ \A u \in FiberId : Waiting(u)' = Waiting(u)
  BY DEF Queued, Waiters, Waiting
<1>4. Queued \subseteq FiberId /\ Waiters \subseteq FiberId
  BY PlacesFacts
<1>5. MetersSound'
  <2>1. Root \in 1 .. Len(meters)
    BY SMT DEF Core, MetersSound, IsArena, Root
  <2> QED
    BY <1>2, <2>1 DEF Core, MetersSound
<1>6. IdsInOrder'
  BY <1>2, IdsKept
<1>7. QueueSound'
  BY <1>1, <1>2, <1>3, <1>4 DEF Core, QueueSound
<1>8. WaitersSound'
  BY <1>1, <1>2, <1>3, <1>4 DEF Core, WaitersSound
<1>9. WaitersWakeable'
  BY <1>1, <1>2 DEF Core, WaitersWakeable
<1>10. NoLostFiber' /\ RunningIsCurrent'
  BY <1>1, <1>2, <1>3 DEF Core, NoLostFiber, RunningIsCurrent
<1> QED
  BY <1>2, <1>5, <1>6, <1>7, <1>8, <1>9, <1>10 DEF Core

\* resume_with: the blocked fiber is queued once.
LEMMA ResumedCore ==
    ASSUME Core, NEW f \in FiberId, ResumeWith(f)
    PROVE  Core'
<1>1. fibers[f].status = "BlockedOnHost" /\ f \notin Queued /\ f \notin Waiters /\ f # current
  BY Constants DEF ResumeWith, BlockedOnHost, Core, QueueSound, WaitersSound, RunningIsCurrent
<1>2. UNCHANGED <<current, join_waiters, next_fiber_id, meters>>
  BY DEF ResumeWith, fuelVars
<1>3. /\ fibers' \in [FiberId -> Fiber]
      /\ fibers'[f].status = "Ready" /\ fibers'[f].meter = fibers[f].meter
      /\ \A g \in FiberId \ {f} : fibers'[g] = fibers[g]
  <2>1. Deliver(fibers[f].ctl, "answer", None) \in Ctl
    BY DeliverType, Constants DEF Core, Fiber, CtlKind
  <2> QED
    BY <2>1 DEF ResumeWith, Core, Fiber, LiveStatus
<1>4. /\ ready_queue' \in Seq(FiberId) /\ IsInjective(ready_queue')
      /\ Queued' = Queued \cup {f}
  BY <1>1, PushBack DEF ResumeWith, Core, QueueSound, Queued
<1>5. Waiters' = Waiters /\ \A t \in FiberId : Waiting(t)' = Waiting(t)
  BY <1>2 DEF Waiters, Waiting
<1>6. Queued \subseteq FiberId /\ Waiters \subseteq FiberId
  BY PlacesFacts
<1>7. MetersSound'
  BY <1>2, <1>3 DEF Core, MetersSound
<1>8. IdsInOrder'
  BY <1>1, <1>2, <1>3, IdsKept
<1>9. QueueSound'
  BY <1>1, <1>2, <1>3, <1>4, <1>6 DEF Core, QueueSound
<1>10. WaitersSound'
  BY <1>1, <1>2, <1>3, <1>4, <1>5, <1>6 DEF Core, WaitersSound
<1>11. WaitersWakeable'
  BY <1>1, <1>2, <1>3 DEF Core, WaitersWakeable
<1>12. NoLostFiber' /\ RunningIsCurrent'
  BY <1>1, <1>2, <1>3, <1>4, <1>5 DEF Core, NoLostFiber, RunningIsCurrent
<1> QED
  BY <1>2, <1>3, <1>4, <1>7, <1>8, <1>9, <1>10, <1>11, <1>12 DEF Core

\* remove_fiber keeps the arena, whether or not the meter is returned.
LEMMA ReleasedArena ==
    ASSUME NEW fs, NEW ms, NEW f, IsArena(ms), fs[f].meter \in 1 .. Len(ms)
    PROVE  IsArena(Released(fs, ms, f)) /\ Len(Released(fs, ms, f)) = Len(ms)
BY RefundArena DEF Released

\* The end of a fiber, place by place: its joiners move to the queue.
LEMMA SettlePlaces ==
    ASSUME Core, current # None, NEW fs \in [FiberId -> Fiber],
           \A f \in FiberId \ {current} : fs[f] = fibers[f],
           NEW ms, NEW status \in {"Completed", "Failed"}, NEW val \in Value,
           Settle(fs, ms, status, val)
    PROVE  /\ current' = None /\ current \notin Waiting(current)
           /\ ready_queue' \in Seq(FiberId) /\ IsInjective(ready_queue')
           /\ Queued' = Queued \cup Waiting(current)
           /\ join_waiters' \in [FiberId -> Seq(FiberId)]
           /\ join_waiters'[current] = <<>>
           /\ \A u \in FiberId \ {current} : join_waiters'[u] = join_waiters[u]
           /\ \A u \in FiberId : IsInjective(join_waiters'[u])
           /\ \A u \in FiberId : Waiting(u)' = IF u = current THEN {} ELSE Waiting(u)
           /\ Waiters' = Waiters \ Waiting(current)
<1> DEFINE ws == join_waiters[current]
<1>1. /\ current \in FiberId /\ current \notin Waiters /\ current \notin Queued
      /\ fibers[current].status # "Absent"
  BY CurrentFacts
<1>2. Queued \subseteq FiberId /\ Waiters \subseteq FiberId /\ None \notin FiberId
      /\ \A u \in FiberId : Waiting(u) \subseteq Waiters
  BY PlacesFacts, Constants
<1>3. /\ ws \in Seq(FiberId) /\ IsInjective(ws) /\ Range(ws) = Waiting(current)
      /\ (ws = <<>> <=> Waiting(current) = {})
  BY <1>1, SeqRange DEF Core, WaitersSound, Waiting
<1>4. /\ ready_queue' \in Seq(FiberId) /\ IsInjective(ready_queue')
      /\ Queued' = Queued \cup Waiting(current)
  <2>1. ready_queue \in Seq(FiberId) /\ IsInjective(ready_queue)
        /\ Range(ready_queue) \cap Range(ws) = {}
    BY <1>1, <1>2, <1>3 DEF Core, QueueSound, WaitersSound, Queued
  <2>2. ready_queue' = ready_queue \o ws
    BY DEF Settle
  <2> QED
    BY <1>3, <2>1, <2>2, Joined DEF Queued
<1>5. /\ join_waiters' \in [FiberId -> Seq(FiberId)]
      /\ join_waiters'[current] = <<>>
      /\ \A u \in FiberId \ {current} : join_waiters'[u] = join_waiters[u]
  <2>1. join_waiters' = [join_waiters EXCEPT ![current] = <<>>]
    BY DEF Settle
  <2>2. <<>> \in Seq(FiberId)
    OBVIOUS
  <2> QED
    BY <1>1, <2>1, <2>2 DEF Core
<1>6. /\ \A u \in FiberId : Waiting(u)' = IF u = current THEN {} ELSE Waiting(u)
      /\ \A u \in FiberId : IsInjective(join_waiters'[u])
  <2>1. \A u \in FiberId : u = current => Waiting(u)' = {}
    BY <1>5, EmptyRange DEF Waiting
  <2>2. \A u \in FiberId : u # current => Waiting(u)' = Waiting(u)
    BY <1>5 DEF Waiting
  <2>3. \A u \in FiberId : IsInjective(join_waiters'[u])
    BY <1>5, EmptyRange DEF Core, WaitersSound
  <2> QED
    BY <2>1, <2>2, <2>3
<1>7. Waiters' = Waiters \ Waiting(current)
  <2>1. \A u \in FiberId \ {current} : Waiting(u) \cap Waiting(current) = {}
    BY <1>1 DEF Core, WaitersSound
  <2>2. \A w : w \in Waiters' <=> \E u \in FiberId : w \in Waiting(u)'
    BY DEF Waiters
  <2>3. \A w : w \in Waiters <=> \E u \in FiberId : w \in Waiting(u)
    BY DEF Waiters
  <2> QED
    BY <1>1, <1>6, <2>1, <2>2, <2>3
<1> QED
  BY <1>1, <1>2, <1>4, <1>5, <1>6, <1>7 DEF Settle

\* What a fiber that waited for another finds when that one has ended.
LEMMA SettleWoken ==
    ASSUME Core, current # None, NEW fs \in [FiberId -> Fiber],
           \A f \in FiberId \ {current} : fs[f] = fibers[f],
           NEW ms, NEW status \in {"Completed", "Failed"}, NEW val \in Value,
           Settle(fs, ms, status, val),
           NEW w \in Waiting(current)
    PROVE  /\ fibers'[w] \in Fiber
           /\ fibers'[w].status = "Ready" /\ fibers'[w].meter = fibers[w].meter
           /\ fibers'[w].ctl = Deliver(fibers[w].ctl, FateOf(status), val)
<1>1. w \in FiberId /\ w # current /\ w \in Range(Joiners)
  BY PlacesFacts, CurrentFacts DEF Waiting
<1>2. fs[w] = fibers[w] /\ fibers[w] \in Fiber
  BY <1>1 DEF Core
<1> DEFINE ctl == Deliver(fibers[w].ctl, FateOf(status), val)
<1>3. ctl \in Ctl
  BY <1>2, DeliverType DEF Fiber, CtlKind, FateOf
<1>4. fibers'[w] = [fibers[w] EXCEPT !.status = "Ready", !.ctl = ctl]
  BY <1>1, <1>2 DEF Settle
<1> HIDE DEF ctl
<1>5. /\ fibers'[w] \in Fiber /\ fibers'[w].status = "Ready"
      /\ fibers'[w].meter = fibers[w].meter /\ fibers'[w].ctl = ctl
  BY <1>2, <1>3, <1>4 DEF Fiber, LiveStatus
<1> QED
  BY <1>5 DEF ctl

\* What becomes of the fiber that ended, and of those that did not wait for it.
LEMMA SettleFibers ==
    ASSUME Core, current # None, NEW fs \in [FiberId -> Fiber],
           \A f \in FiberId \ {current} : fs[f] = fibers[f],
           NEW ms, NEW status \in {"Completed", "Failed"}, NEW val \in Value,
           Settle(fs, ms, status, val)
    PROVE  /\ fibers' \in [FiberId -> Fiber]
           /\ \A f \in FiberId \ ({current} \cup Waiting(current)) : fibers'[f] = fibers[f]
           /\ Waiting(current) = {} =>
                /\ fibers'[current].status = status
                /\ fibers'[current].meter = fs[current].meter
                /\ fibers'[current].ctl = fs[current].ctl
                /\ fibers'[current].val = val
           /\ Waiting(current) # {} => fibers'[current] = AbsentFiber
<1> DEFINE ws == join_waiters[current]
           ended == [fs[current] EXCEPT !.status = status, !.val = val]
<1>1. /\ current \in FiberId /\ current \notin Waiting(current)
      /\ Waiting(current) \subseteq FiberId
  BY CurrentFacts, PlacesFacts
<1>2. Range(ws) = Waiting(current) /\ (ws = <<>> <=> Waiting(current) = {})
  BY <1>1, SeqRange DEF Core, Waiting
<1>3. /\ ended \in Fiber /\ ended.status = status /\ ended.meter = fs[current].meter
      /\ ended.ctl = fs[current].ctl /\ ended.val = val
  BY <1>1 DEF Fiber, LiveStatus
<1>4. /\ \A f \in FiberId \ ({current} \cup Waiting(current)) : fibers'[f] = fs[f]
      /\ Waiting(current) = {} => fibers'[current] = ended
      /\ Waiting(current) # {} => fibers'[current] = AbsentFiber
      /\ fibers' = [f \in FiberId |-> fibers'[f]]
  BY <1>1, <1>2 DEF Settle
<1> HIDE DEF ended
<1>5. \A f \in FiberId \ ({current} \cup Waiting(current)) : fibers'[f] = fibers[f]
  BY <1>4
<1>6. \A f \in FiberId : fibers'[f] \in Fiber
  <2>1. \A f \in Waiting(current) : fibers'[f] \in Fiber
    BY SettleWoken
  <2>2. fibers'[current] \in Fiber
    BY <1>3, <1>4, Constants
  <2>3. \A f \in FiberId \ ({current} \cup Waiting(current)) : fibers'[f] \in Fiber
    BY <1>4
  <2> QED
    BY <2>1, <2>2, <2>3
<1>7. fibers' \in [FiberId -> Fiber]
  BY <1>4, <1>6
<1> QED
  BY <1>3, <1>4, <1>5, <1>7

\* The end of a fiber: its joiners move, in order, to the end of the queue, and
\* it stays in the Vec only if nobody was waiting.
LEMMA SettleCore ==
    ASSUME Core, current # None,
           NEW fs \in [FiberId -> Fiber],
           fs[current].meter = fibers[current].meter,
           \A f \in FiberId \ {current} : fs[f] = fibers[f],
           NEW ms, IsArena(ms), Len(ms) = Len(meters),
           NEW status \in {"Completed", "Failed"}, NEW val \in Value,
           Settle(fs, ms, status, val), next_fiber_id' = next_fiber_id
    PROVE  Core'
<1>1. /\ current \in FiberId /\ current \notin Waiters /\ current \notin Queued
      /\ fibers[current].status # "Absent"
  BY CurrentFacts
<1>2. Queued \subseteq FiberId /\ Waiters \subseteq FiberId /\ None \notin FiberId
      /\ \A u \in FiberId : Waiting(u) \subseteq Waiters
  BY PlacesFacts, Constants
<1>3. \A w \in Waiting(current) :
            fibers'[w].status = "Ready" /\ fibers'[w].meter = fibers[w].meter
  BY SettleWoken
<1>4. /\ ready_queue' \in Seq(FiberId) /\ IsInjective(ready_queue')
      /\ Queued' = Queued \cup Waiting(current)
  BY SettlePlaces
<1>5. /\ join_waiters' \in [FiberId -> Seq(FiberId)]
      /\ join_waiters'[current] = <<>>
      /\ \A u \in FiberId \ {current} : join_waiters'[u] = join_waiters[u]
  BY SettlePlaces
<1>6. /\ \A u \in FiberId : Waiting(u)' = IF u = current THEN {} ELSE Waiting(u)
      /\ \A u \in FiberId : IsInjective(join_waiters'[u])
  BY SettlePlaces
<1>7. Waiters' = Waiters \ Waiting(current)
  BY SettlePlaces
<1>8. /\ fibers' \in [FiberId -> Fiber]
      /\ \A f \in FiberId \ ({current} \cup Waiting(current)) : fibers'[f] = fibers[f]
      /\ Waiting(current) = {} =>
            fibers'[current].status = status /\ fibers'[current].meter = fs[current].meter
      /\ Waiting(current) # {} => fibers'[current] = AbsentFiber
  BY SettleFibers
<1>9. IsArena(meters') /\ Len(meters') = Len(meters)
  <2>1. fs[current].meter \in 1 .. Len(ms)
    BY CurrentFacts DEF CurrentMeter
  <2> QED
    BY <2>1, ReleasedArena DEF Settle
<1>10. MetersSound'
  <2>1. AbsentFiber.meter \in 1 .. Len(meters)
    BY SMT DEF Core, MetersSound, IsArena, AbsentFiber, Root
  <2>2. \A f \in FiberId : fibers'[f].meter \in 1 .. Len(meters)
    BY <1>1, <1>2, <1>3, <1>8, <2>1 DEF Core, MetersSound
  <2> QED
    BY <1>9, <2>2 DEF MetersSound
<1>11. current' = None
  BY DEF Settle
<1>12. \A w \in Waiters : fibers[w].status = "Ready"
  BY DEF Core, WaitersSound
<1>13. IdsInOrder'
  <2>1. \A g \in FiberId : fibers[g].status = "Absent" => fibers'[g].status = "Absent"
    BY <1>1, <1>2, <1>3, <1>8, <1>12
  <2> QED
    BY <1>1, <2>1, IdsKept
<1>14. QueueSound'
  <2>1. \A f \in Queued : f \notin Waiting(current) /\ f # current
    BY <1>1, <1>2 DEF Core, WaitersSound
  <2> QED
    BY <1>2, <1>3, <1>4, <1>8, <1>11, <2>1 DEF Core, QueueSound
<1>15. WaitersSound'
  <2>1. \A u, v \in FiberId : u # v => Waiting(u)' \cap Waiting(v)' = {}
    <3> SUFFICES ASSUME NEW u \in FiberId, NEW v \in FiberId, u # v
                 PROVE  Waiting(u)' \cap Waiting(v)' = {}
      OBVIOUS
    <3>1. Waiting(u) \cap Waiting(v) = {}
      BY DEF Core, WaitersSound
    <3>2. Waiting(u)' \subseteq Waiting(u) /\ Waiting(v)' \subseteq Waiting(v)
      BY <1>6
    <3> QED
      BY <3>1, <3>2
  <2>2. \A w \in Waiters' : fibers'[w].status = "Ready" /\ w # current' /\ w \notin Queued'
    BY <1>1, <1>2, <1>3, <1>4, <1>7, <1>8, <1>11 DEF Core, WaitersSound
  <2> QED
    BY <1>6, <2>1, <2>2 DEF WaitersSound
<1>16. WaitersWakeable'
  <2> SUFFICES ASSUME NEW t \in FiberId, join_waiters'[t] # <<>>
               PROVE  fibers'[t].status \in {"Ready", "Running", "BlockedOnHost"}
    BY DEF WaitersWakeable
  <2>1. t # current /\ fibers[t].status \in {"Ready", "Running", "BlockedOnHost"}
    BY <1>5 DEF Core, WaitersWakeable
  <2> QED
    BY <1>3, <1>8, <2>1
<1>17. NoLostFiber' /\ RunningIsCurrent'
  <2> SUFFICES ASSUME NEW f \in FiberId
               PROVE  /\ fibers'[f].status = "Ready" => f \in Queued' \/ f \in Waiters'
                      /\ fibers'[f].status # "Running"
    BY <1>11 DEF NoLostFiber, RunningIsCurrent
  <2>1. CASE f \in Waiting(current)
    BY <1>3, <1>4, <1>8, <2>1
  <2>2. CASE f = current
    BY <1>1, <1>2, <1>3, <1>8, <2>2 DEF AbsentFiber
  <2>3. CASE f \notin Waiting(current) /\ f # current
    BY <1>4, <1>7, <1>8, <2>3 DEF Core, NoLostFiber, RunningIsCurrent
  <2> QED
    BY <2>1, <2>2, <2>3
<1> QED
  BY <1>4, <1>5, <1>8, <1>10, <1>11, <1>13, <1>14, <1>15, <1>16, <1>17 DEF Core

-----------------------------------------------------------------------------
(* The actions. *)

\* The new runtime satisfies the invariant.
LEMMA InitInv == Init => SchedInv
<1> SUFFICES ASSUME Init PROVE SchedInv
  OBVIOUS
<1>1. /\ fibers \in [FiberId -> Fiber] /\ ready_queue \in Seq(FiberId)
      /\ join_waiters \in [FiberId -> Seq(FiberId)]
      /\ next_fiber_id \in 0 .. MaxFibers
  BY Constants, SMT DEF Init
<1>2. \A f \in FiberId : fibers[f].status = "Absent" /\ fibers[f].meter = Root
  BY DEF Init, AbsentFiber
<1>3. Queued = {} /\ Waiters = {} /\ IsInjective(ready_queue)
      /\ \A t \in FiberId : Waiting(t) = {} /\ IsInjective(join_waiters[t])
  BY EmptyRange DEF Init, Queued, Waiters, Waiting
<1>4. MetersSound
  <2>1. NewMeters(Unlimited) \in Seq(Meter)
    BY SMT DEF NewMeters, Meter, NoParent
  <2> QED
    BY <1>2, <2>1, SMT DEF Init, MetersSound, IsArena, NewMeters, Root, NoParent
<1>5. IdsInOrder /\ QueueSound /\ WaitersSound /\ WaitersWakeable /\ NoLostFiber
      /\ RunningIsCurrent
  BY <1>2, <1>3 DEF Init, IdsInOrder, QueueSound, WaitersSound, WaitersWakeable,
     NoLostFiber, RunningIsCurrent
<1>6. Core
  BY <1>1, <1>4, <1>5 DEF Init, Core
<1>7. Rest
  BY Constants DEF Init, Rest, Ctl, CtlKind
<1> QED
  BY <1>6, <1>7, Split

\* A fresh run starts from one fiber on the root meter.
LEMMA RunFreshCore ==
    ASSUME Core, Rest, NEW program \in Programs, RunFresh(program)
    PROVE  Core' /\ control' \in Ctl
<1>1. control' \in Ctl
  <2>1. program = "stmts" \/ program = "empty"
    BY SchedulerAssumption
  <2>2. control' = FreshControl(program)
    BY DEF RunFresh
  <2>3. Code(RootFiber) \in Ctl /\ [control EXCEPT !.k = Stale] \in Ctl /\ control \in Ctl
    BY Constants DEF Code, Ctl, CtlKind, Rest
  <2> QED
    BY <2>1, <2>2, <2>3 DEF FreshControl
<1>2. /\ current' = None /\ next_fiber_id' = 1
      /\ ready_queue' = <<RootFiber>>
      /\ join_waiters' = [f \in FiberId |-> <<>>]
      /\ fibers' = [f \in FiberId |->
                      IF f = RootFiber THEN NewFiber(control', Root) ELSE AbsentFiber]
      /\ meters' = NewMeters(meters[Root].remaining)
  BY DEF RunFresh
<1>3. NewFiber(control', Root) \in Fiber
  BY <1>1, Constants DEF NewFiber, Fiber, LiveStatus, Root
<1>4. /\ fibers' \in [FiberId -> Fiber]
      /\ fibers'[RootFiber].status = "Ready" /\ fibers'[RootFiber].meter = Root
      /\ \A f \in FiberId \ {RootFiber} :
            fibers'[f].status = "Absent" /\ fibers'[f].meter = Root
  BY <1>2, <1>3, Constants DEF NewFiber, AbsentFiber
<1>5. ready_queue' \in Seq(FiberId) /\ IsInjective(ready_queue') /\ Queued' = {RootFiber}
  BY <1>2, Single, Constants DEF Queued
<1>6. /\ join_waiters' \in [FiberId -> Seq(FiberId)]
      /\ \A t \in FiberId : join_waiters'[t] = <<>> /\ Waiting(t)' = {}
                            /\ IsInjective(join_waiters'[t])
      /\ Waiters' = {}
  BY <1>2, EmptyRange, SMT DEF Waiting, Waiters
<1>7. MetersSound'
  <2>1. meters[Root].remaining \in Fuels \cup {Unlimited}
    <3>1. IsArena(meters) /\ Root \in 1 .. Len(meters)
      BY SMT DEF Core, MetersSound, IsArena, Root
    <3> QED
      BY <3>1, ArenaSlot
  <2>2. meters' \in Seq(Meter) /\ Len(meters') = 1 /\ meters'[Root].parent = NoParent
    BY <1>2, <2>1, SMT DEF NewMeters, Meter, NoParent, Root
  <2>3. \A f \in FiberId : fibers'[f].meter = Root
    BY <1>4
  <2> QED
    BY <2>2, <2>3, SMT DEF MetersSound, IsArena, Root
<1>8. 1 \in 0 .. MaxFibers /\ \A f \in FiberId : f >= 1 => f # RootFiber
  BY SchedulerAssumption, SMT DEF FiberId, RootFiber
<1>9. IdsInOrder' /\ QueueSound' /\ WaitersSound'
  BY <1>2, <1>4, <1>5, <1>6, <1>8, Constants DEF IdsInOrder, QueueSound, WaitersSound
<1>10. WaitersWakeable' /\ NoLostFiber' /\ RunningIsCurrent'
  BY <1>2, <1>4, <1>5, <1>6 DEF WaitersWakeable, NoLostFiber, RunningIsCurrent
<1> QED
  BY <1>1, <1>2, <1>4, <1>5, <1>6, <1>7, <1>8, <1>9, <1>10 DEF Core

\* What a slice may spend, and the arena after it paid.
LEMMA SpentFacts ==
    ASSUME Core, Rest, Runnable
    PROVE  /\ current # None /\ Allowance \in Nat
           /\ \A c : StepsTo(c) \subseteq Nat
           /\ 0 .. Allowance - 1 \subseteq Nat
           /\ \A spent \in Nat :
                IsArena(Charged(spent)) /\ Len(Charged(spent)) = Len(meters)
           /\ \A spent \in Nat : Tick(spent) => steps_total' \in Fuels
<1>1. current # None /\ CurrentMeter \in 1 .. Len(meters) /\ IsArena(meters)
  BY CurrentFacts DEF Runnable
<1>2. meters[CurrentMeter].remaining \in Fuels \cup {Unlimited}
  BY <1>1, ArenaSlot
<1>3. Allowance \in Nat
  BY <1>2, SchedulerAssumption, FuelAssumption, SMT DEF Allowance, Fuels
<1>4. /\ \A c : StepsTo(c) \subseteq Nat
      /\ 0 .. Allowance - 1 \subseteq Nat
  BY <1>3, SMT DEF StepsTo
<1>5. \A spent \in Nat : IsArena(Charged(spent)) /\ Len(Charged(spent)) = Len(meters)
  BY <1>1, ChargeArena DEF Charged
<1>6. \A spent \in Nat : Tick(spent) => steps_total' \in Fuels
  <2> SUFFICES ASSUME NEW spent \in Nat, steps_total' = (steps_total + spent) % U64
               PROVE  steps_total' \in Fuels
    BY DEF Tick
  <2>1. steps_total + spent \in Nat
    BY FuelAssumption, SMT DEF Rest, Fuels
  <2>2. (steps_total + spent) % U64 \in 0 .. U64 - 1
    BY <2>1, FuelAssumption, SMT
  <2> QED
    BY <2>2 DEF Fuels
<1> QED
  BY <1>1, <1>3, <1>4, <1>5, <1>6

\* A fault: of the root, which leaves everything in place, or of a child.
LEMMA FaultCore ==
    ASSUME Core, Rest, current # None, NEW ms, IsArena(ms), Len(ms) = Len(meters),
           NEW fs, fs = fibers \/ \E saved \in Ctl : fs = Saved(saved),
           NEW ctl \in Ctl, Fault(fs, ms, ctl), next_fiber_id' = next_fiber_id
    PROVE  Core' /\ control' \in Ctl /\ main_result' \in Value
           /\ entry' \in {"host", "sched"}
           /\ outcome' \in [kind : {"none", "Done", "Pending", "OutOfFuel", "Error",
                                "Restored"}, val : Value]
           /\ h_root' \in [end : {"no", "completed", "faulted", "reported"}, val : Value]
           /\ h_granted' = h_granted
<1>1. control' = ctl
  BY DEF Fault
<1>2. CASE current = RootFiber /\ fibers' = fs /\ meters' = ms /\ Return("Error", None)
           /\ h_root' = [end |-> "faulted", val |-> None]
           /\ UNCHANGED <<ready_queue, current, join_waiters, h_granted>>
  <2>1. Core'
    <3>1. CASE fs = fibers
      BY <1>2, <3>1, NothingMoves
    <3>2. CASE \E saved \in Ctl : fs = Saved(saved)
      BY <1>2, <3>2, SavedInPlace, CurrentFacts
    <3> QED
      BY <3>1, <3>2
  <2> QED
    BY <1>1, <1>2, <2>1, Constants DEF Return
<1>3. CASE current # RootFiber /\ Settle(fs, ms, "Failed", current) /\ UNCHANGED hostVars
  <2>1. /\ current \in FiberId
        /\ fs \in [FiberId -> Fiber]
        /\ fs[current].meter = fibers[current].meter
        /\ \A f \in FiberId \ {current} : fs[f] = fibers[f]
    <3>1. CASE fs = fibers
      BY <3>1, CurrentFacts DEF Core
    <3>2. CASE \E saved \in Ctl : fs = Saved(saved)
      <4>1. PICK saved \in Ctl : fs = Saved(saved)
        BY <3>2
      <4>2. current \in FiberId /\ fibers \in [FiberId -> Fiber]
        BY CurrentFacts DEF Core
      <4>3. fs = [fibers EXCEPT ![current].status = "Ready", ![current].ctl = saved]
        BY <4>1 DEF Saved
      <4>4. /\ fs \in [FiberId -> Fiber]
            /\ fs[current].meter = fibers[current].meter
        BY <4>2, <4>3 DEF Fiber, LiveStatus
      <4>5. \A f \in FiberId \ {current} : fs[f] = fibers[f]
        BY <4>2, <4>3
      <4> QED
        BY <4>2, <4>4, <4>5
    <3> QED
      BY <3>1, <3>2
  <2>2. Core'
    BY <1>3, <2>1, Constants, SettleCore
  <2> QED
    BY <1>1, <1>3, <2>2 DEF hostVars, Rest
<1> QED
  BY <1>2, <1>3 DEF Fault

\* Completion of the running fiber.
LEMMA DoneInv == ASSUME SchedInv, SliceDone PROVE SchedInv'
<1>1. Core /\ Rest /\ Runnable
  BY Split DEF SliceDone
<1>2. PICK spent \in Nat : Settle(fibers, Charged(spent), "Completed", control.k) /\ Tick(spent)
  BY <1>1, SpentFacts DEF SliceDone
<1>3. control.k \in Value /\ control' \in Ctl
  BY <1>1, DeliverType DEF SliceDone, Rest, Ctl, CtlKind
<1>4. Core'
  BY <1>1, <1>2, <1>3, SpentFacts, SettleCore DEF SliceDone, Core
<1>5. Rest'
  <2>1. main_result' \in Value
        /\ h_root' \in [end : {"no", "completed", "faulted", "reported"}, val : Value]
    BY <1>1, <1>3 DEF SliceDone, Rest
  <2> QED
    BY <1>1, <1>2, <1>3, <2>1, SpentFacts DEF SliceDone, Rest
<1> QED
  BY <1>4, <1>5, SplitPrime

\* Preemption.
LEMMA PreemptedInv == ASSUME SchedInv, SlicePreempted PROVE SchedInv'
<1>1. Core /\ Rest /\ Runnable
  BY Split DEF SlicePreempted, Working
<1>2. control' \in Ctl
  BY <1>1, DeliverType, Constants DEF SlicePreempted, Rest, CtlKind
<1>3. /\ ready_queue' \in Seq(FiberId) /\ IsInjective(ready_queue')
      /\ Range(ready_queue') = Queued \cup {current}
  BY <1>1, SpentFacts, CurrentFacts, PushBack
     DEF SlicePreempted, Core, QueueSound, Queued
<1>4. /\ Allowance \in Nat /\ current # None
      /\ IsArena(meters') /\ Len(meters') = Len(meters) /\ steps_total' \in Fuels
  BY <1>1, SpentFacts DEF SlicePreempted
<1>5. Core'
  BY <1>1, <1>2, <1>3, <1>4, Requeued DEF SlicePreempted
<1>6. Rest'
  BY <1>1, <1>2, <1>4 DEF SlicePreempted, Rest, hostVars
<1> QED
  BY <1>5, <1>6, SplitPrime

\* The running fiber in front of the queue.
LEMMA FrontFacts ==
    ASSUME Core, current # None
    PROVE  /\ QueueFront \in Seq(FiberId) /\ IsInjective(QueueFront)
           /\ Range(QueueFront) = Queued \cup {current}
<1>1. current \in FiberId /\ current \notin Queued
  BY CurrentFacts
<1>2. /\ <<current>> \in Seq(FiberId) /\ IsInjective(<<current>>) /\ Range(<<current>>) = {current}
  BY <1>1, Single
<1>3. Range(<<current>>) \cap Range(ready_queue) = {} /\ IsInjective(ready_queue)
      /\ ready_queue \in Seq(FiberId)
  BY <1>1, <1>2 DEF Core, QueueSound, Queued
<1>4. /\ <<current>> \o ready_queue \in Seq(FiberId)
      /\ Range(<<current>> \o ready_queue) = Range(<<current>>) \cup Range(ready_queue)
      /\ IsInjective(<<current>> \o ready_queue)
  BY <1>2, <1>3, Joined
<1> QED
  BY <1>2, <1>4 DEF Queued

\* The pause for fuel.
LEMMA PauseInv == ASSUME SchedInv, PauseOutOfFuel PROVE SchedInv'
<1>1. Core /\ Rest /\ current # None
  BY Split DEF PauseOutOfFuel, Dry
<1>2. current \in FiberId /\ IsArena(meters)
  BY <1>1, CurrentFacts
<1>3. /\ ready_queue' \in Seq(FiberId) /\ IsInjective(ready_queue')
      /\ Range(ready_queue') = Queued \cup {current}
  BY <1>1, FrontFacts DEF PauseOutOfFuel
<1>4. Core'
  BY <1>1, <1>2, <1>3, Requeued DEF PauseOutOfFuel, Rest, fuelVars
<1>5. Rest'
  BY <1>1, Constants DEF PauseOutOfFuel, Rest, Return, fuelVars
<1> QED
  BY <1>4, <1>5, SplitPrime

\* The dry child.
LEMMA FailDryInv == ASSUME SchedInv, FailDry PROVE SchedInv'
<1>1. Core /\ Rest /\ current # None /\ current \in FiberId /\ IsArena(meters)
  BY Split, CurrentFacts DEF FailDry, Dry
<1>2. Core'
  BY <1>1, SettleCore, Constants DEF FailDry, Core
<1>3. Rest'
  BY <1>1 DEF FailDry, Rest, hostVars
<1> QED
  BY <1>2, <1>3, SplitPrime

\* The effects that fault: refused, carved without fuel, joined too late, and
\* the interpreter's own error.
LEMMA FaultingInv ==
    ASSUME SchedInv, Runnable, UNCHANGED next_fiber_id,
           NEW spent \in Nat, Tick(spent),
           NEW fs, fs = fibers \/ \E saved \in Ctl : fs = Saved(saved),
           NEW ctl \in Ctl, Fault(fs, Charged(spent), ctl)
    PROVE  SchedInv'
<1>1. Core /\ Rest
  BY Split
<1>2. /\ current # None /\ steps_total' \in Fuels
      /\ IsArena(Charged(spent)) /\ Len(Charged(spent)) = Len(meters)
  BY <1>1, SpentFacts
<1>3. Core' /\ Rest'
  BY <1>1, <1>2, FaultCore DEF Rest
<1> QED
  BY <1>3, SplitPrime

\* The registers after an effect or an error are registers.
LEMMA ControlTypes ==
    ASSUME Rest
    PROVE  /\ Suspended \in Ctl /\ Deliver(control, "undefined", None) \in Ctl
           /\ Deliver(control, "restored", None) \in Ctl
           /\ Deliver(control, "saved", None) \in Ctl
           /\ \A f \in FiberId : Deliver(control, "id", f) \in Ctl
BY DeliverType, Constants DEF Suspended, Rest, CtlKind

\* A fault of the interpreter keeps it.
LEMMA SliceFaultInv == ASSUME SchedInv, SliceFault PROVE SchedInv'
<1>1. Core /\ Rest /\ Runnable
  BY Split DEF SliceFault, Working
<1>2. PICK spent \in Nat :
        Tick(spent) /\ Fault(fibers, Charged(spent), Deliver(control, "undefined", None))
  BY <1>1, SpentFacts DEF SliceFault
<1> QED
  BY <1>1, <1>2, ControlTypes, FaultingInv DEF SliceFault

\* So does an effect that is refused,
LEMMA RefusedInv == ASSUME SchedInv, EffectRefused PROVE SchedInv'
<1>1. Core /\ Rest /\ Runnable
  BY Split DEF EffectRefused
<1>2. PICK spent \in Nat : Tick(spent) /\ Fault(fibers, Charged(spent), Suspended)
  BY <1>1, SpentFacts DEF EffectRefused
<1> QED
  BY <1>1, <1>2, ControlTypes, FaultingInv DEF EffectRefused

\* a fork that asks for more fuel than there is,
LEMMA InsufficientInv == ASSUME SchedInv, ForkInsufficient PROVE SchedInv'
<1>1. Core /\ Rest /\ Runnable
  BY Split DEF ForkInsufficient, Working
<1>2. PICK spent \in Nat : Tick(spent) /\ Fault(fibers, Charged(spent), Suspended)
  BY <1>1, SpentFacts DEF ForkInsufficient
<1> QED
  BY <1>1, <1>2, ControlTypes, FaultingInv DEF ForkInsufficient

\* a join of a fiber that does not exist,
LEMMA MissingInv == ASSUME SchedInv, NEW t \in FiberId, JoinMissing(t) PROVE SchedInv'
<1>1. Core /\ Rest /\ Runnable
  BY Split DEF JoinMissing, Working
<1>2. PICK spent \in Nat : Tick(spent) /\ Fault(fibers, Charged(spent), Suspended)
  BY <1>1, SpentFacts DEF JoinMissing
<1> QED
  BY <1>1, <1>2, ControlTypes, FaultingInv DEF JoinMissing

\* and a snapshot that cannot be written.
LEMMA SnapshotFailedInv == ASSUME SchedInv, SnapshotFailed PROVE SchedInv'
<1> DEFINE ctl == Deliver(control, "restored", None)
<1>1. Core /\ Rest /\ Runnable
  BY Split DEF SnapshotFailed, Working
<1>2. PICK spent \in Nat : Tick(spent) /\ Fault(Saved(ctl), Charged(spent), ctl)
  BY <1>1, SpentFacts DEF SnapshotFailed
<1>3. ctl \in Ctl
  BY <1>1, ControlTypes
<1> QED
  BY <1>1, <1>2, <1>3, FaultingInv DEF SnapshotFailed

\* Print and Gc.
LEMMA PlainInv == ASSUME SchedInv, EffectPlain PROVE SchedInv'
<1>1. Core /\ Rest /\ Runnable
  BY Split DEF EffectPlain, Working
<1>2. PICK spent \in Nat : meters' = Charged(spent) /\ Tick(spent)
  BY <1>1, SpentFacts DEF EffectPlain
<1>3. IsArena(meters') /\ Len(meters') = Len(meters) /\ steps_total' \in Fuels
  BY <1>1, <1>2, SpentFacts
<1>4. Core'
  BY <1>1, <1>3, NothingMoves DEF EffectPlain
<1>5. Rest'
  BY <1>1, <1>3, ControlTypes DEF EffectPlain, Rest, hostVars
<1> QED
  BY <1>4, <1>5, SplitPrime

\* Fork, shared or carved.
LEMMA ForkInv ==
    ASSUME SchedInv, Runnable, NEW spent \in Nat, NEW ms, NEW m,
           IsArena(ms), Len(ms) >= Len(meters), m \in 1 .. Len(ms), Fork(spent, ms, m)
    PROVE  SchedInv'
<1>1. Core /\ Rest
  BY Split
<1>2. current # None /\ steps_total' \in Fuels
  BY <1>1, SpentFacts DEF Fork
<1>3. next_fiber_id \in FiberId
  BY <1>1, Constants, SMT DEF Core, Fork, FiberId
<1>4. Core'
  BY <1>1, <1>2, ForkCore DEF Fork
<1>5. Rest'
  BY <1>1, <1>2, <1>3, ControlTypes DEF Fork, Rest, hostVars
<1> QED
  BY <1>4, <1>5, SplitPrime

\* A fork onto the parent's meter keeps the invariant,
LEMMA ForkSharedInv == ASSUME SchedInv, ForkShared PROVE SchedInv'
<1>1. Core /\ Rest /\ Runnable
  BY Split DEF ForkShared, Working
<1>2. PICK spent \in Nat : Fork(spent, Charged(spent), CurrentMeter)
  BY <1>1, SpentFacts DEF ForkShared
<1>3. /\ IsArena(Charged(spent)) /\ Len(Charged(spent)) = Len(meters)
      /\ CurrentMeter \in 1 .. Len(meters) /\ Len(meters) \in Nat
  BY <1>1, SpentFacts, CurrentFacts, SMT DEF IsArena
<1>4. Len(Charged(spent)) >= Len(meters)
  BY <1>3, SMT
<1> QED
  BY <1>1, <1>2, <1>3, <1>4, ForkInv

\* and so does one onto a carved meter.
LEMMA ForkCarvedInv == ASSUME SchedInv, ForkCarved PROVE SchedInv'
<1>1. Core /\ Rest /\ Runnable
  BY Split DEF ForkCarved, Working
<1>2. PICK spent \in Nat, amount \in Carves :
        Fork(spent, Carve(Charged(spent), CurrentMeter, amount), Len(meters) + 1)
  BY <1>1, SpentFacts DEF ForkCarved
<1>3. /\ IsArena(Charged(spent)) /\ Len(Charged(spent)) = Len(meters)
      /\ CurrentMeter \in 1 .. Len(meters) /\ Len(meters) \in Nat
  BY <1>1, SpentFacts, CurrentFacts, SMT DEF IsArena
<1> DEFINE ms == Carve(Charged(spent), CurrentMeter, amount)
<1>4. IsArena(ms) /\ Len(ms) = Len(meters) + 1
  BY <1>3, CarveArena, SchedulerAssumption
<1>5. Len(ms) >= Len(meters) /\ Len(meters) + 1 \in 1 .. Len(ms)
  BY <1>3, <1>4, SMT
<1> QED
  BY <1>1, <1>2, <1>4, <1>5, ForkInv

\* Join on a finished fiber.
LEMMA JoinFinishedInv == ASSUME SchedInv, NEW t \in FiberId, JoinFinished(t) PROVE SchedInv'
<1>1. Core /\ Rest /\ Runnable
  BY Split DEF JoinFinished, Working
<1>2. PICK spent \in Nat : meters' = Released(fibers, Charged(spent), t) /\ Tick(spent)
  BY <1>1, SpentFacts DEF JoinFinished
<1>3. IsArena(meters') /\ Len(meters') = Len(meters) /\ steps_total' \in Fuels
  <2>1. IsArena(Charged(spent)) /\ Len(Charged(spent)) = Len(meters) /\ steps_total' \in Fuels
    BY <1>1, <1>2, SpentFacts
  <2>2. fibers[t].meter \in 1 .. Len(Charged(spent))
    BY <1>1, <2>1 DEF Core, MetersSound
  <2> QED
    BY <1>2, <2>1, <2>2, ReleasedArena
<1>4. Core'
  BY <1>1, <1>3, SpentFacts, TakenCore DEF JoinFinished
<1>5. control' \in Ctl
  <2>1. fibers[t].val \in Value
    BY <1>1 DEF Core, Fiber
  <2>2. Deliver(control, "ok", fibers[t].val) \in Ctl /\ Deliver(control, "err",
            fibers[t].val) \in Ctl
    BY <1>1, <2>1, DeliverType DEF Rest, CtlKind
  <2> QED
    BY <2>2 DEF JoinFinished, FateOf
<1>6. Rest'
  BY <1>1, <1>3, <1>5 DEF JoinFinished, Rest, hostVars
<1> QED
  BY <1>4, <1>6, SplitPrime

\* Join on an unfinished fiber.
LEMMA JoinWaitsInv == ASSUME SchedInv, NEW t \in FiberId, JoinWaits(t) PROVE SchedInv'
<1>1. Core /\ Rest /\ Runnable
  BY Split DEF JoinWaits, Working
<1>2. PICK spent \in Nat : meters' = Charged(spent) /\ Tick(spent)
  BY <1>1, SpentFacts DEF JoinWaits
<1>3. IsArena(meters') /\ Len(meters') = Len(meters) /\ steps_total' \in Fuels
      /\ current # None
  BY <1>1, <1>2, SpentFacts
<1>4. control' \in Ctl
  BY <1>1, ControlTypes DEF JoinWaits
<1>5. Core'
  BY <1>1, <1>3, <1>4, WaitsCore DEF JoinWaits
<1>6. Rest'
  BY <1>1, <1>3, <1>4 DEF JoinWaits, Rest, hostVars
<1> QED
  BY <1>5, <1>6, SplitPrime

\* A host call.
LEMMA HostInv == ASSUME SchedInv, EffectHost PROVE SchedInv'
<1>1. Core /\ Rest /\ Runnable
  BY Split DEF EffectHost
<1>2. PICK spent \in Nat : meters' = Charged(spent) /\ Tick(spent)
  BY <1>1, SpentFacts DEF EffectHost
<1>3. IsArena(meters') /\ Len(meters') = Len(meters) /\ steps_total' \in Fuels
      /\ current # None
  BY <1>1, <1>2, SpentFacts
<1>4. control' \in Ctl
  BY <1>1, ControlTypes DEF EffectHost
<1>5. Core'
  BY <1>1, <1>3, <1>4, BlockedCore DEF EffectHost
<1>6. Rest'
  BY <1>1, <1>3, <1>4 DEF EffectHost, Rest, hostVars
<1> QED
  BY <1>5, <1>6, SplitPrime

\* A snapshot written.
LEMMA SnapshotWrittenInv == ASSUME SchedInv, SnapshotWritten PROVE SchedInv'
<1>1. Core /\ Rest /\ Runnable
  BY Split DEF SnapshotWritten, Working
<1>2. PICK spent \in Nat : meters' = Charged(spent) /\ Tick(spent)
  BY <1>1, SpentFacts DEF SnapshotWritten
<1>3. IsArena(meters') /\ Len(meters') = Len(meters) /\ steps_total' \in Fuels
      /\ current # None
  BY <1>1, <1>2, SpentFacts
<1>4. Core'
  BY <1>1, <1>3, ControlTypes, CurrentFacts, SavedInPlace DEF SnapshotWritten
<1>5. Rest'
  BY <1>1, <1>3, ControlTypes DEF SnapshotWritten, Rest, hostVars
<1> QED
  BY <1>4, <1>5, SplitPrime

\* A snapshot read back by a new process.
LEMMA SnapshotResumedInv == ASSUME SchedInv, SnapshotResumed PROVE SchedInv'
<1>1. Core /\ Rest /\ Runnable
  BY Split DEF SnapshotResumed, Working
<1>2. PICK spent \in Nat : meters' = Charged(spent) /\ Tick(spent)
  BY <1>1, SpentFacts DEF SnapshotResumed
<1>3. IsArena(meters') /\ Len(meters') = Len(meters) /\ steps_total' \in Fuels
      /\ current # None
  BY <1>1, <1>2, SpentFacts
<1>4. /\ ready_queue' \in Seq(FiberId) /\ IsInjective(ready_queue')
      /\ Range(ready_queue') = Queued \cup {current}
  BY <1>1, <1>3, FrontFacts DEF SnapshotResumed
<1>5. control' \in Ctl
  BY <1>1, ControlTypes DEF SnapshotResumed
<1>6. Core'
  BY <1>1, <1>3, <1>4, <1>5, Requeued DEF SnapshotResumed
<1>7. Rest'
  BY <1>1, <1>3, <1>5, Constants DEF SnapshotResumed, Return, Rest
<1> QED
  BY <1>6, <1>7, SplitPrime

\* Every slice keeps the invariant.
LEMMA SliceInv == ASSUME SchedInv, Slice PROVE SchedInv'
BY DoneInv, PreemptedInv, SliceFaultInv, PlainInv, RefusedInv, ForkSharedInv, ForkCarvedInv,
   InsufficientInv, JoinFinishedInv, JoinWaitsInv, MissingInv, HostInv, SnapshotWrittenInv,
   SnapshotResumedInv, SnapshotFailedInv DEF Slice, Effect

\* Selecting the next fiber keeps it.
LEMMA SelectInv == ASSUME SchedInv, SelectNextFiber PROVE SchedInv'
<1>1. Core /\ Rest
  BY Split
<1>2. Core' /\ control' \in Ctl
  BY <1>1, SelectCore
<1>3. Rest'
  BY <1>1, <1>2 DEF SelectNextFiber, Rest, hostVars, fuelVars
<1> QED
  BY <1>2, <1>3, SplitPrime

\* The two ways the drained loop returns.
LEMMA DrainInv == ASSUME SchedInv, DrainPending \/ DrainDone PROVE SchedInv'
<1>1. Core /\ Rest /\ IsArena(meters)
  BY Split DEF Core, MetersSound
<1>2. Core'
  BY <1>1, NothingMoves DEF DrainPending, DrainDone, fuelVars
<1>3. fibers[RootFiber].val \in Value
  BY <1>1, Constants DEF Core, Fiber
<1>4. h_root' \in [end : {"no", "completed", "faulted", "reported"}, val : Value]
  BY <1>1 DEF DrainPending, DrainDone, Rest
<1>5. Rest'
  BY <1>1, <1>3, <1>4, Constants DEF DrainPending, DrainDone, Return, Rest, fuelVars
<1> QED
  BY <1>2, <1>5, SplitPrime

\* Every step of the loop keeps it.
LEMMA SchedulerStepInv == ASSUME SchedInv, SchedulerStep PROVE SchedInv'
BY SelectInv, DrainInv, PauseInv, FailDryInv, SliceInv DEF SchedulerStep

\* The host's calls.
LEMMA HostStepInv == ASSUME SchedInv, HostStep PROVE SchedInv'
<1>1. Core /\ Rest /\ IsArena(meters) /\ Root \in 1 .. Len(meters)
  BY Split, SMT DEF Core, MetersSound, IsArena, Root
<1>2. ASSUME NEW budget \in Budgets, SetFuel(budget) PROVE SchedInv'
  <2>1. \A f \in FiberId : fibers[f].meter \in 1 .. Len(meters)
    BY <1>1 DEF Core, MetersSound
  <2>2. IsArena(meters') /\ Len(meters') = Len(meters)
    <3>1. CASE budget \in Fuels
      <4>1. meters' = SetRemaining(meters, Root, budget)
        BY <1>2 DEF SetFuel, SetRemaining
      <4> QED
        BY <1>1, <3>1, <4>1, SetArena
    <3>2. CASE budget = Unlimited
      <4>1. meters' = [meters EXCEPT ![Root].remaining = Unlimited] /\ meters \in Seq(Meter)
            /\ meters[Root] \in Meter
        BY <1>1, <1>2, <3>2, ArenaSlot DEF SetFuel
      <4>2. [meters[Root] EXCEPT !.remaining = Unlimited] \in Meter
            /\ [meters[Root] EXCEPT !.remaining = Unlimited].parent = meters[Root].parent
        BY <4>1 DEF Meter
      <4> QED
        BY <1>1, <4>1, <4>2, SMT DEF IsArena, Root
    <3> QED
      BY <1>2, <3>1, <3>2, SchedulerAssumption
  <2>3. Core'
    BY <1>1, <1>2, <2>2, NothingMoves DEF SetFuel
  <2>4. Rest'
    BY <1>1, <1>2 DEF SetFuel, Rest, hostVars
  <2> QED
    BY <2>3, <2>4, SplitPrime
<1>3. ASSUME NEW amount \in Refuels, AddFuel(amount) PROVE SchedInv'
  <2>1. amount \in Nat
    BY SchedulerAssumption
  <2>2. IsArena(meters') /\ Len(meters') = Len(meters)
    BY <1>1, <1>3, <2>1, AddArena DEF AddFuel
  <2>3. Core'
    BY <1>1, <1>3, <2>2, NothingMoves DEF AddFuel
  <2>4. h_granted' \in Nat
    BY <1>1, <1>3, <2>1, FuelAssumption, SMT DEF AddFuel, Saturate, Rest
  <2>5. Rest'
    BY <1>1, <1>3, <2>4 DEF AddFuel, Rest
  <2> QED
    BY <2>3, <2>5, SplitPrime
<1>4. ASSUME NEW program \in Programs, RunFresh(program) PROVE SchedInv'
  <2>1. Core' /\ control' \in Ctl
    BY <1>1, <1>4, RunFreshCore
  <2>2. h_granted' \in Nat
    BY <1>1, <1>4, ArenaSlot, FuelAssumption DEF RunFresh, Fuels
  <2>3. Rest'
    BY <1>1, <1>4, <2>1, <2>2, Constants DEF RunFresh, Enter, Rest
  <2> QED
    BY <2>1, <2>3, SplitPrime
<1>5. ASSUME Continue PROVE SchedInv'
  <2>1. Core'
    BY <1>1, <1>5, NothingMoves DEF Continue, fuelVars
  <2>2. Rest'
    BY <1>1, <1>5, Constants DEF Continue, Enter, Rest, fuelVars
  <2> QED
    BY <2>1, <2>2, SplitPrime
<1>6. ASSUME NEW f \in FiberId, ResumeWith(f) PROVE SchedInv'
  <2>1. Core'
    BY <1>1, <1>6, ResumedCore
  <2>2. Rest'
    BY <1>1, <1>6 DEF ResumeWith, Rest, hostVars, fuelVars
  <2> QED
    BY <2>1, <2>2, SplitPrime
<1>7. ASSUME CheckpointResumed PROVE SchedInv'
  <2>1. Core'
    BY <1>1, <1>7, NothingMoves DEF CheckpointResumed, fuelVars
  <2>2. Rest'
    BY <1>1, <1>7, Constants DEF CheckpointResumed, Rest, fuelVars
  <2> QED
    BY <2>1, <2>2, SplitPrime
<1> QED
  BY <1>2, <1>3, <1>4, <1>5, <1>6, <1>7 DEF HostStep

\* Nothing changes in a stuttering step.
LEMMA StutterInv == ASSUME SchedInv, UNCHANGED vars PROVE SchedInv'
<1>1. Core /\ Rest /\ IsArena(meters)
  BY Split DEF Core, MetersSound
<1>2. Core'
  BY <1>1, NothingMoves DEF vars
<1>3. Rest'
  BY <1>1 DEF vars, Rest
<1> QED
  BY <1>2, <1>3, SplitPrime

\* The invariant is inductive: the fibers, the ready queue, the wait lists and
\* the meters of runtime.rs stay consistent under every operation.
THEOREM SchedInvHolds == Spec => []SchedInv
<1>1. Init => SchedInv
  BY InitInv
<1>2. SchedInv /\ [Next]_vars => SchedInv'
  BY SchedulerStepInv, HostStepInv, StutterInv DEF Next
<1> QED
  BY <1>1, <1>2, PTL DEF Spec

\* Type correctness of every field of Runtime.
THEOREM TypeCorrect == Spec => []TypeOK
<1>1. SchedInv => TypeOK
  BY DEF SchedInv
<1> QED
  BY <1>1, SchedInvHolds, PTL

\* Every runnable fiber is in exactly one place, for any number of fibers: the
\* asserts of select_next_fiber and unblock_fiber never fire.
THEOREM AccountingHolds == Spec => []Accounting
<1>1. SchedInv => Accounting
  BY DEF SchedInv, Accounting
<1> QED
  BY <1>1, SchedInvHolds, PTL

\* Nobody waits on a fiber whose fate is already decided.
THEOREM WaitersWakeableHolds == Spec => []WaitersWakeable
<1>1. SchedInv => WaitersWakeable
  BY DEF SchedInv
<1> QED
  BY <1>1, SchedInvHolds, PTL

-----------------------------------------------------------------------------

\* What Done says of the queue, and that no outcome is out while the loop runs.
Settled ==
    /\ entry = "sched" => outcome.kind = "none"
    /\ outcome.kind = "Done" => current = None /\ ready_queue = <<>> /\ BlockedOnHost = {}

\* Every turn of the loop stays inside, returns something else, or is the drain.
LEMMA StepOutcome ==
    ASSUME SchedulerStep
    PROVE  /\ entry = "sched"
           /\ \/ entry' = entry /\ outcome' = outcome
              \/ entry' = "host" /\ outcome'.kind \in {"Pending", "OutOfFuel", "Error", "Restored"}
              \/ DrainDone
<1>1. CASE SelectNextFiber \/ DrainPending \/ DrainDone
  BY <1>1 DEF SelectNextFiber, DrainPending, DrainDone, Drained, Return, hostVars
<1>2. CASE PauseOutOfFuel \/ FailDry
  BY <1>2 DEF PauseOutOfFuel, FailDry, Dry, Return, hostVars
<1>3. CASE SliceDone \/ SlicePreempted \/ EffectPlain \/ EffectHost \/ SnapshotWritten
  BY <1>3 DEF SliceDone, SlicePreempted, EffectPlain, EffectHost, SnapshotWritten, Working,
     Runnable, hostVars
<1>4. CASE ForkShared \/ ForkCarved
  BY <1>4 DEF ForkShared, ForkCarved, Fork, Working, Runnable, hostVars
<1>5. CASE \E t \in FiberId : JoinFinished(t) \/ JoinWaits(t)
  BY <1>5 DEF JoinFinished, JoinWaits, Working, Runnable, hostVars
<1>6. CASE SliceFault \/ EffectRefused \/ ForkInsufficient \/ SnapshotFailed
           \/ \E t \in FiberId : JoinMissing(t)
  <2>1. entry = "sched"
    BY <1>6 DEF SliceFault, EffectRefused, ForkInsufficient, SnapshotFailed, JoinMissing,
       Working, Runnable
  <2>2. \E fs, ms, ctl : Fault(fs, ms, ctl)
    BY <1>6 DEF SliceFault, EffectRefused, ForkInsufficient, SnapshotFailed, JoinMissing
  <2>3. PICK fs, ms, ctl : Fault(fs, ms, ctl)
    BY <2>2
  <2>4. Return("Error", None) \/ UNCHANGED hostVars
    BY <2>3 DEF Fault
  <2> QED
    BY <2>1, <2>4 DEF Return, hostVars
<1>7. CASE SnapshotResumed
  BY <1>7 DEF SnapshotResumed, Working, Runnable, Return
<1> QED
  BY <1>1, <1>2, <1>3, <1>4, <1>5, <1>6, <1>7 DEF SchedulerStep, Slice, Effect

\* A run that is Done leaves only circular waits behind: nothing that could
\* still be run, or that the host was asked for, is forgotten.
THEOREM DoneLeavesOnlyCyclesHolds == Spec => []DoneLeavesOnlyCycles
<1>1. Init => Settled
  BY DEF Init, Settled
<1>2. Settled /\ [Next]_vars => Settled'
  <2> SUFFICES ASSUME Settled, [Next]_vars PROVE Settled'
    OBVIOUS
  <2>1. CASE SchedulerStep /\ DrainDone
    BY <2>1 DEF DrainDone, Drained, Return, Settled, BlockedOnHost
  <2>2. CASE SchedulerStep /\ ~DrainDone
    BY <2>2, StepOutcome DEF Settled
  <2>3. CASE \E budget \in Budgets : SetFuel(budget)
    BY <2>3 DEF SetFuel, hostVars, Settled, BlockedOnHost
  <2>4. CASE \E amount \in Refuels : AddFuel(amount)
    BY <2>4 DEF AddFuel, Settled, BlockedOnHost
  <2>5. CASE Continue \/ CheckpointResumed \/ \E program \in Programs : RunFresh(program)
    BY <2>5 DEF Continue, CheckpointResumed, RunFresh, Enter, Settled
  <2>6. CASE \E f \in FiberId : ResumeWith(f)
    BY <2>6 DEF ResumeWith, hostVars, Settled, BlockedOnHost
  <2>7. CASE UNCHANGED vars
    BY <2>7 DEF vars, Settled, BlockedOnHost
  <2> QED
    BY <2>1, <2>2, <2>3, <2>4, <2>5, <2>6, <2>7 DEF Next, HostStep
<1>3. SchedInv /\ Settled => DoneLeavesOnlyCycles
  <2> SUFFICES ASSUME SchedInv, Settled, outcome.kind = "Done",
                      NEW t \in FiberId, Waiting(t) # {}
               PROVE  t \in Waiters
    BY DEF DoneLeavesOnlyCycles
  <2>1. join_waiters[t] # <<>>
    BY EmptyRange DEF Waiting
  <2>2. fibers[t].status \in {"Ready", "Running", "BlockedOnHost"}
    BY <2>1 DEF SchedInv, WaitersWakeable
  <2>3. current = None /\ Queued = {} /\ BlockedOnHost = {}
    BY EmptyRange DEF Settled, Queued
  <2>4. fibers[t].status = "Ready"
    BY <2>2, <2>3, Constants DEF SchedInv, RunningIsCurrent, BlockedOnHost
  <2> QED
    BY <2>3, <2>4, Constants DEF SchedInv, NoLostFiber
<1> QED
  BY <1>1, <1>2, <1>3, SchedInvHolds, PTL DEF Spec

-----------------------------------------------------------------------------
(***************************************************************************)
(* A context switch never mixes fibers up, for any number of fibers, and   *)
(* what is delivered arrives; and so the scheduler implements the fiber    *)
(* pool, step by step.  SchedInv is needed for it: that the running fiber  *)
(* and every joiner are in the Vec, so that what is put into their         *)
(* registers is put on top of a continuation of their own; that a waiter   *)
(* is in one wait list only, so that its fate is given to it once; and     *)
(* where each fiber is, so that its phase is well defined.                 *)
(* OwnContinuation and ValOwn say that the fate a joiner is given is its   *)
(* target's own.                                                           *)
(*                                                                         *)
(* Fuel is moved and never created, and one fiber cannot spend another's,  *)
(* for any number of fibers, meters, budgets and refuels.  What is left in *)
(* an arena is a sum over its slots; two arenas that differ in one slot    *)
(* have sums that differ by as much (by induction over the slots), and     *)
(* each operation of fuel.rs changes one slot or two.                      *)
(***************************************************************************)
\* Abbreviations, expanded everywhere.
USE DEF Loaded, Joiners, Consumed

\* Every fiber that fs has holds its own continuation.
Own(fs) == \A f \in FiberId : fs[f].status # "Absent" => fs[f].ctl.k = f

\* OwnContinuation in these terms.
LEMMA OwnSplit ==
    /\ OwnContinuation <=> Own(fibers) /\ (current # None => control.k = current)
    /\ OwnContinuation' <=> Own(fibers') /\ (current' # None => control'.k = current')
BY DEF OwnContinuation, Own, Live

\* Whoever runs or waits is in the Vec.
LEMMA InVec ==
    ASSUME SchedInv
    PROVE  /\ fibers \in [FiberId -> Fiber]
           /\ current \in FiberId \cup {None} /\ None \notin FiberId
           /\ current # None => fibers[current].status # "Absent"
           /\ \A t \in FiberId : \A w \in Range(join_waiters[t]) :
                w \in FiberId /\ w # current /\ fibers[w].status # "Absent"
<1>1. Core
  BY Split
<1>2. \A t \in FiberId : \A w \in Range(join_waiters[t]) : w \in FiberId /\ w \in Waiters
  BY <1>1, SeqRange DEF Core, Waiters, Waiting
<1> QED
  BY <1>1, <1>2, Constants DEF Core, WaitersSound, RunningIsCurrent

\* save_current_fiber_state saves the running fiber's own registers.
LEMMA SavedOwn ==
    ASSUME SchedInv, OwnContinuation, current # None, NEW ctl, ctl.k = current
    PROVE  /\ Own(Saved(ctl))
           /\ \A f \in FiberId \ {current} : Saved(ctl)[f] = fibers[f]
           /\ DOMAIN Saved(ctl) = FiberId
<1>1. current \in FiberId /\ fibers \in [FiberId -> Fiber] /\ fibers[current] \in Fiber
  BY InVec
<1>2. Saved(ctl)[current].ctl = ctl /\ DOMAIN Saved(ctl) = FiberId
  BY <1>1 DEF Saved, Fiber
<1>3. \A f \in FiberId \ {current} : Saved(ctl)[f] = fibers[f]
  BY <1>1 DEF Saved
<1> QED
  BY <1>2, <1>3, OwnSplit DEF Own

\* The end of a fiber puts its fate on top of each joiner's own continuation.
LEMMA SettleOwn ==
    ASSUME SchedInv, current # None, NEW fs, NEW ms, NEW status, NEW val, Own(fs),
           \A f \in FiberId \ {current} : fs[f] = fibers[f],
           Settle(fs, ms, status, val),
           \A f \in FiberId \ {current} : fs[f] \in Fiber,
           fs[current].ctl.k = current,
           fs[current] \in Fiber
    PROVE  OwnContinuation'
<1> DEFINE ws == join_waiters[current]
<1>1. current \in FiberId /\ current' = None
  BY InVec DEF Settle
<1>2. \A w \in Range(ws) : w \in FiberId /\ w # current /\ fs[w].status # "Absent"
  BY <1>1, InVec
<1>3. ASSUME NEW f \in FiberId, fibers'[f].status # "Absent" PROVE fibers'[f].ctl.k = f
  <2>1. CASE f \in Range(ws)
    <3>1. fibers'[f].ctl = Deliver(fs[f].ctl, FateOf(status), val) /\ fs[f].ctl.k = f
      BY <1>2, <2>1 DEF Settle, Own, Fiber
    <3> QED
      BY <3>1 DEF Deliver
  <2>2. CASE f \notin Range(ws) /\ f # current
    BY <1>3, <2>2 DEF Settle, Own
  <2>3. CASE f \notin Range(ws) /\ f = current /\ ws = <<>>
    BY <2>3 DEF Settle, Fiber
  <2>4. CASE f \notin Range(ws) /\ f = current /\ ws # <<>>
    BY <1>3, <2>4 DEF Settle, AbsentFiber
  <2> QED
    BY <2>1, <2>2, <2>3, <2>4
<1> QED
  BY <1>1, <1>3, OwnSplit DEF Own

\* What a slice leaves in the registers is on the running fiber's continuation.
LEMMA Delivered == ASSUME NEW ctl, NEW c, NEW of PROVE Deliver(ctl, c, of).k = ctl.k
BY DEF Deliver

\* A fault, of the root or of a child, with the fibers as they were or saved.
LEMMA FaultOwn ==
    ASSUME SchedInv, OwnContinuation, current # None, NEW fs, NEW ms, NEW ctl \in Ctl,
           ctl.k = current, fs = fibers \/ fs = Saved(ctl), Fault(fs, ms, ctl)
    PROVE  OwnContinuation'
<1>1. /\ Own(fs) /\ \A f \in FiberId \ {current} : fs[f] = fibers[f]
      /\ current \in FiberId
  BY SavedOwn, OwnSplit, InVec
<1>2. CASE current = RootFiber /\ current' = current /\ fibers' = fs /\ control' = ctl
  BY <1>1, <1>2, OwnSplit
<1>3. CASE current # RootFiber /\ Settle(fs, ms, "Failed", current)
  <2>1. fs \in [FiberId -> Fiber] /\ fs[current].ctl.k = current
    <3>1. CASE fs = fibers
      BY <1>1, <3>1, InVec DEF Own, Fiber
    <3>2. CASE fs = Saved(ctl)
      BY <1>1, <3>2, InVec DEF Saved, Fiber, LiveStatus
    <3> QED
      BY <3>1, <3>2
  <2> QED
    BY <1>1, <1>3, <2>1, SettleOwn
<1> QED
  BY <1>2, <1>3 DEF Fault

-----------------------------------------------------------------------------
(* One fact for each kind of step. *)

\* The running fiber's registers, before a slice.
LEMMA RunningRegisters ==
    ASSUME SchedInv, OwnContinuation, current # None
    PROVE  control \in Ctl /\ control.k = current /\ current \in FiberId
BY InVec, OwnSplit, Split DEF Rest

\* select_next_fiber loads the registers that the fiber was saved with.
LEMMA SelectOwn == ASSUME SchedInv, OwnContinuation, SelectNextFiber PROVE OwnContinuation'
<1> DEFINE f == Head(ready_queue)
<1>1. f \in FiberId /\ f \in Queued
  BY PopFront, Split DEF SelectNextFiber, Core, QueueSound, Queued
<1>2. fibers[f].ctl.k = f /\ fibers[f] \in Fiber /\ fibers \in [FiberId -> Fiber]
  BY <1>1, OwnSplit, InVec DEF SchedInv, QueueSound, Own
<1>3. Own(fibers')
  BY <1>1, <1>2, OwnSplit DEF SelectNextFiber, Own, Fiber
<1> QED
  BY <1>2, <1>3, OwnSplit DEF SelectNextFiber

\* The steps that leave the fibers and the interpreter to each other.
LEMMA UntouchedOwn ==
    ASSUME OwnContinuation, UNCHANGED <<fibers, current>>, control'.k = control.k
    PROVE  OwnContinuation'
BY OwnSplit DEF Own

\* The steps that save the running fiber and give the interpreter away.
LEMMA SuspendedOwn ==
    ASSUME SchedInv, OwnContinuation, current # None, NEW ctl, ctl.k = current,
           fibers' = Saved(ctl), current' = None
    PROVE  OwnContinuation'
BY SavedOwn, OwnSplit

\* Preempted, paused, waiting for a fiber, restored from a snapshot.
LEMMA SavingOwn ==
    ASSUME SchedInv, OwnContinuation,
           \/ SlicePreempted \/ PauseOutOfFuel \/ SnapshotResumed
           \/ \E t \in FiberId : JoinWaits(t)
    PROVE  OwnContinuation'
<1>1. current # None /\ current' = None
  BY DEF SlicePreempted, PauseOutOfFuel, SnapshotResumed, JoinWaits, Working, Runnable, Dry
<1>2. control.k = current
  BY <1>1, RunningRegisters
<1>3. fibers' = Saved(control) \/ \E c \in CtlKind, of \in Value
          : fibers' = Saved(Deliver(control, c, of))
  BY Constants DEF SlicePreempted, PauseOutOfFuel, SnapshotResumed, JoinWaits, Suspended, CtlKind
<1> QED
  BY <1>1, <1>2, <1>3, SuspendedOwn, Delivered

\* Waiting for the host.
LEMMA HostOwn == ASSUME SchedInv, OwnContinuation, EffectHost PROVE OwnContinuation'
<1>1. current # None /\ current' = None
  BY DEF EffectHost, Runnable
<1>2. current \in FiberId /\ Own(Saved(Suspended)) /\ DOMAIN Saved(Suspended) = FiberId
  BY <1>1, RunningRegisters, SavedOwn, Delivered DEF Suspended
<1>3. \A f \in FiberId : fibers'[f].ctl = Saved(Suspended)[f].ctl
        /\ (fibers'[f].status # "Absent" => Saved(Suspended)[f].status # "Absent")
  <2>1. fibers' = [Saved(Suspended) EXCEPT ![current].status = "BlockedOnHost"]
    BY DEF EffectHost
  <2>2. Saved(Suspended)[current].status = "Ready"
    BY <1>2, InVec DEF Saved, Fiber
  <2> QED
    BY <1>2, <2>1, <2>2
<1> QED
  BY <1>1, <1>2, <1>3, OwnSplit DEF Own

\* Snapshot, for the run that goes on.
LEMMA SnapshotOwn == ASSUME SchedInv, OwnContinuation, SnapshotWritten PROVE OwnContinuation'
<1>1. current # None
  BY DEF SnapshotWritten, Working, Runnable
<1>2. control.k = current /\ control'.k = current /\ current' = current
  BY <1>1, RunningRegisters, Delivered DEF SnapshotWritten
<1>3. Own(fibers')
  BY <1>1, <1>2, SavedOwn, Delivered DEF SnapshotWritten
<1> QED
  BY <1>2, <1>3, OwnSplit

\* A new fiber starts on a Halt of its own.
LEMMA ForkOwn ==
    ASSUME SchedInv, OwnContinuation, NEW spent, NEW ms, NEW m, Fork(spent, ms, m)
    PROVE  OwnContinuation'
<1>1. next_fiber_id \in FiberId /\ fibers \in [FiberId -> Fiber]
  <2>1. next_fiber_id \in Nat /\ MaxFibers \in Nat /\ next_fiber_id < MaxFibers
    BY Constants, Split, SMT DEF Fork, Core
  <2> QED
    BY <2>1, InVec, SMT DEF FiberId
<1>2. fibers' = [fibers EXCEPT ![next_fiber_id] = NewFiber(Code(next_fiber_id), m)]
  BY DEF Fork
<1>3. Own(fibers')
  BY <1>1, <1>2, OwnSplit DEF Own, NewFiber, Code
<1> QED
  BY <1>3, OwnSplit DEF Fork, Deliver

\* A join that takes a fate which is there: the finished fiber goes.
LEMMA TakenOwn ==
    ASSUME SchedInv, OwnContinuation, NEW t \in FiberId, JoinFinished(t)
    PROVE  OwnContinuation'
<1>1. fibers \in [FiberId -> Fiber] /\ fibers' = [fibers EXCEPT ![t] = AbsentFiber]
  BY InVec DEF JoinFinished
<1>2. Own(fibers')
  BY <1>1, OwnSplit DEF Own, AbsentFiber
<1> QED
  BY <1>2, OwnSplit DEF JoinFinished, Deliver

\* A fiber completes, or fails for want of fuel.
LEMMA EndOwn == ASSUME SchedInv, OwnContinuation, SliceDone \/ FailDry PROVE OwnContinuation'
<1>1. \E ms, status, val : Settle(fibers, ms, status, val)
  BY DEF SliceDone, FailDry
<1>2. current # None /\ Own(fibers)
  BY OwnSplit DEF SliceDone, FailDry, Runnable, Dry
<1>3. fibers[current].ctl.k = current /\ current \in FiberId
      /\ fibers \in [FiberId -> Fiber]
  BY <1>2, InVec DEF Own, Fiber
<1> QED
  BY <1>1, <1>2, <1>3, SettleOwn

\* Every way to fault.
LEMMA FaultingOwn ==
    ASSUME SchedInv, OwnContinuation,
           \/ SliceFault \/ EffectRefused \/ ForkInsufficient \/ SnapshotFailed
           \/ \E t \in FiberId : JoinMissing(t)
    PROVE  OwnContinuation'
<1>1. current # None
  BY DEF SliceFault, EffectRefused, ForkInsufficient, SnapshotFailed, JoinMissing, Working,
     Runnable
<1>2. control \in Ctl /\ control.k = current
  BY <1>1, RunningRegisters
<1>3. \E c \in CtlKind : \E ms :
        \/ Fault(fibers, ms, Deliver(control, c, None))
        \/ Fault(Saved(Deliver(control, c, None)), ms, Deliver(control, c, None))
  BY DEF SliceFault, EffectRefused, ForkInsufficient, SnapshotFailed, JoinMissing, Suspended,
     CtlKind
<1> QED
  BY <1>1, <1>2, <1>3, FaultOwn, Delivered, DeliverType, Constants

\* Everything the loop does.
LEMMA SchedulerStepOwn ==
    ASSUME SchedInv, OwnContinuation, SchedulerStep PROVE OwnContinuation'
<1>1. ASSUME DrainPending \/ DrainDone PROVE OwnContinuation'
  BY <1>1, UntouchedOwn DEF DrainPending, DrainDone
<1>2. ASSUME EffectPlain PROVE OwnContinuation'
  BY <1>2, UntouchedOwn, Delivered DEF EffectPlain
<1>3. ASSUME ForkShared \/ ForkCarved PROVE OwnContinuation'
  BY <1>3, ForkOwn DEF ForkShared, ForkCarved
<1> QED
  BY <1>1, <1>2, <1>3, SelectOwn, SavingOwn, HostOwn, SnapshotOwn, TakenOwn, EndOwn, FaultingOwn
     DEF SchedulerStep, Slice, Effect

\* Everything the host does, to a runtime that evaluates no empty source.
LEMMA HostStepOwn ==
    ASSUME SchedInv, OwnContinuation, "empty" \notin Programs, HostStep PROVE OwnContinuation'
<1>1. CASE \/ Continue \/ CheckpointResumed
           \/ \E budget \in Budgets : SetFuel(budget)
           \/ \E amount \in Refuels : AddFuel(amount)
  BY <1>1, UntouchedOwn DEF Continue, CheckpointResumed, SetFuel, AddFuel
<1>2. ASSUME NEW program \in Programs, RunFresh(program) PROVE OwnContinuation'
  <2>1. control' = Code(RootFiber) /\ current' = None
    BY <1>2, SchedulerAssumption DEF RunFresh, FreshControl
  <2>2. Own(fibers')
    BY <1>2, <2>1 DEF RunFresh, Own, NewFiber, AbsentFiber, Code
  <2> QED
    BY <2>1, <2>2, OwnSplit
<1>3. ASSUME NEW f \in FiberId, ResumeWith(f) PROVE OwnContinuation'
  <2>1. fibers \in [FiberId -> Fiber] /\ fibers[f].ctl.k = f /\ fibers[f] \in Fiber
    BY <1>3, InVec, OwnSplit DEF ResumeWith, BlockedOnHost, Own
  <2>2. fibers'[f].ctl = Deliver(fibers[f].ctl, "answer", None)
        /\ \A g \in FiberId \ {f} : fibers'[g] = fibers[g]
    BY <1>3, <2>1 DEF ResumeWith, Fiber
  <2>3. Own(fibers')
    BY <2>1, <2>2, OwnSplit, Delivered DEF Own
  <2> QED
    BY <1>3, <2>3, OwnSplit DEF ResumeWith
<1> QED
  BY <1>1, <1>2, <1>3 DEF HostStep

\* Each fiber is saved with, and runs on, its own continuation: one interpreter
\* serves any number of fibers without mixing them up, faults, snapshots and
\* restarts included.  Sources must have a statement: with an empty one the code
\* does leave the registers of a dead fiber in place (run empty_run).
THEOREM OwnContinuationHolds == "empty" \notin Programs => (Spec => []OwnContinuation)
<1> SUFFICES ASSUME "empty" \notin Programs PROVE Spec => []OwnContinuation
  OBVIOUS
<1>1. Init => OwnContinuation
  BY DEF Init, OwnContinuation, Live, AbsentFiber
<1>2. SchedInv /\ OwnContinuation /\ [Next]_vars => OwnContinuation'
  <2>1. ASSUME OwnContinuation, UNCHANGED vars PROVE OwnContinuation'
    BY <2>1, UntouchedOwn DEF vars
  <2> QED
    BY <2>1, SchedulerStepOwn, HostStepOwn DEF Next
<1> QED
  BY <1>1, <1>2, SchedInvHolds, PTL DEF Spec

-----------------------------------------------------------------------------
(* Steps that end a fiber or fault, in one form each.                      *)

\* The effects and errors that fault the running fiber.
Faulting ==
    \/ SliceFault \/ EffectRefused \/ ForkInsufficient \/ SnapshotFailed
    \/ \E t \in FiberId : JoinMissing(t)

\* The rest of what the loop does.
LEMMA LoopSteps ==
    SchedulerStep <=>
        \/ SelectNextFiber \/ DrainPending \/ DrainDone \/ PauseOutOfFuel \/ FailDry
        \/ SliceDone \/ SlicePreempted \/ EffectPlain \/ ForkShared \/ ForkCarved
        \/ EffectHost \/ SnapshotWritten \/ SnapshotResumed \/ Faulting
        \/ \E t \in FiberId : JoinFinished(t) \/ JoinWaits(t)
BY DEF SchedulerStep, Slice, Effect, Faulting

\* What the saved fiber's record is, and that it is the only one that changed.
LEMMA SavedFacts ==
    ASSUME SchedInv, current # None, NEW ctl \in Ctl
    PROVE  /\ current \in FiberId /\ Saved(ctl) \in [FiberId -> Fiber]
           /\ Saved(ctl)[current].status = "Ready" /\ Saved(ctl)[current].ctl = ctl
           /\ Saved(ctl)[current].meter = fibers[current].meter
           /\ \A f \in FiberId \ {current} : Saved(ctl)[f] = fibers[f]
<1>1. current \in FiberId /\ fibers \in [FiberId -> Fiber]
  BY InVec
<1> QED
  BY <1>1 DEF Saved, Fiber, LiveStatus

\* A fault leaves registers without a fate in them, and either leaves the root
\* where it is or fails a child.
LEMMA FaultForm ==
    ASSUME SchedInv, Faulting
    PROVE  /\ entry = "sched" /\ current \in FiberId /\ current # None
           /\ control'.c \in {"undefined", "suspend", "restored"}
           /\ \E fs \in [FiberId -> Fiber] : \E ms :
                /\ \A f \in FiberId \ {current} : fs[f] = fibers[f]
                /\ fs[current].ctl \in {fibers[current].ctl, control'}
                /\ \/ /\ fibers' = fs
                      /\ UNCHANGED <<ready_queue, current, join_waiters>>
                      /\ entry' = "host" /\ outcome'.kind = "Error"
                   \/ /\ Settle(fs, ms, "Failed", current)
                      /\ UNCHANGED hostVars
<1>1. entry = "sched" /\ current # None /\ current \in FiberId
  BY InVec
     DEF Faulting, SliceFault, EffectRefused, ForkInsufficient, SnapshotFailed, JoinMissing,
         Working, Runnable
<1>2. PICK c \in {"undefined", "suspend", "restored"} : \E ms :
        \/ Fault(fibers, ms, Deliver(control, c, None))
        \/ Fault(Saved(Deliver(control, c, None)), ms, Deliver(control, c, None))
  BY DEF Faulting, SliceFault, EffectRefused, ForkInsufficient, SnapshotFailed, JoinMissing,
         Suspended
<1> DEFINE ctl == Deliver(control, c, None)
<1>3. ctl \in Ctl /\ ctl.c = c
  BY Split, DeliverType, Constants DEF Rest, CtlKind, Deliver
<1>4. PICK fs, ms : Fault(fs, ms, ctl) /\ (fs = fibers \/ fs = Saved(ctl))
  BY <1>2
<1>5. /\ fs \in [FiberId -> Fiber]
      /\ \A f \in FiberId \ {current} : fs[f] = fibers[f]
      /\ fs[current].ctl \in {fibers[current].ctl, ctl}
  BY <1>1, <1>3, <1>4, SavedFacts, InVec
<1>6. control' = ctl
  BY <1>4 DEF Fault
<1> HIDE DEF ctl
<1>7. \/ /\ fibers' = fs
         /\ UNCHANGED <<ready_queue, current, join_waiters>>
         /\ entry' = "host" /\ outcome'.kind = "Error"
      \/ /\ Settle(fs, ms, "Failed", current)
         /\ UNCHANGED hostVars
  BY <1>4 DEF Fault, Return
<1> QED
  BY <1>1, <1>3, <1>5, <1>6, <1>7

\* Whoever ends by itself is given the fate of what it computed, or of failing
\* for want of fuel.
LEMMA EndForm ==
    ASSUME SchedInv, SliceDone \/ FailDry
    PROVE  /\ entry = "sched" /\ current \in FiberId /\ current # None
           /\ entry' = "sched" /\ outcome' = outcome
           /\ \E ms : \E status \in {"Completed", "Failed"}, val \in Value :
                /\ Settle(fibers, ms, status, val)
                /\ \/ status = "Completed" /\ val = control.k /\ control'.c = "halted"
                   \/ status = "Failed" /\ val = current /\ control' = control
<1>1. entry = "sched" /\ current # None /\ current \in FiberId
  BY InVec DEF SliceDone, FailDry, Runnable, Dry
<1>2. CASE SliceDone
  <2>1. control \in Ctl
    BY Split DEF Rest
  <2>2. control.k \in Value
    BY <2>1 DEF Ctl
  <2>3. control'.c = "halted" /\ entry' = entry /\ outcome' = outcome
    BY <1>2 DEF SliceDone, Deliver
  <2>4. PICK spent : Settle(fibers, Charged(spent), "Completed", control.k)
    BY <1>2 DEF SliceDone
  <2> QED
    BY <1>1, <2>2, <2>3, <2>4
<1>3. CASE FailDry
  <2>1. Settle(fibers, meters, "Failed", current) /\ UNCHANGED <<entry, outcome, control>>
    BY <1>3 DEF FailDry, hostVars
  <2> QED
    BY <1>1, <2>1, Constants
<1> QED
  BY <1>2, <1>3

-----------------------------------------------------------------------------
(* The pause, and the process that wakes up from a snapshot. *)

\* The front of a queue.
LEMMA Front ==
    ASSUME NEW S, NEW q \in Seq(S), NEW x \in S
    PROVE  /\ <<x>> \o q # <<>> /\ Head(<<x>> \o q) = x
           /\ Append(q, x) # <<>>
           /\ q # <<>> => Head(Append(q, x)) = Head(q)
<1>1. <<x>> \in Seq(S) /\ Len(<<x>>) = 1 /\ <<x>>[1] = x
  BY SMT
<1>2. <<x>> \o q \in Seq(S) /\ Len(<<x>> \o q) = 1 + Len(q) /\ (<<x>> \o q)[1] = <<x>>[1]
  BY <1>1, SMT
<1>3. <<x>> \o q # <<>> /\ Head(<<x>> \o q) = x
  <2> DEFINE r == <<x>> \o q
  <2>1. r \in Seq(S) /\ Len(r) = 1 + Len(q) /\ r[1] = x
    BY <1>1, <1>2
  <2> HIDE DEF r
  <2>2. r # <<>> /\ Head(r) = r[1]
    BY <2>1, SMT
  <2> QED
    BY <2>1, <2>2 DEF r
<1>4. Append(q, x) # <<>> /\ (q # <<>> => Head(Append(q, x)) = Head(q))
  <2> DEFINE r == Append(q, x)
  <2>1. r \in Seq(S) /\ Len(r) = Len(q) + 1 /\ Len(q) \in Nat /\ r # <<>>
    BY SMT
  <2>2. ASSUME q # <<>> PROVE r[1] = q[1] /\ Head(q) = q[1] /\ Head(r) = r[1]
    <3>1. Len(q) >= 1
      BY <2>2, SMT
    <3> QED
      BY <2>1, <3>1, SMT
  <2> HIDE DEF r
  <2> QED
    BY <2>1, <2>2 DEF r
<1> QED
  BY <1>3, <1>4

\* While a pause or a restored run is out, its fiber is first in the queue, on
\* the registers that the interpreter still holds.
PausedFirst ==
    outcome.kind \in {"OutOfFuel", "Restored"} =>
        /\ entry = "host" /\ current = None /\ ready_queue # <<>>
        /\ fibers[Head(ready_queue)].ctl = control
        /\ outcome.kind = "Restored" => control.c = "restored"

\* The two actions that put the running fiber in front.
LEMMA PutInFront ==
    ASSUME SchedInv, PauseOutOfFuel \/ SnapshotResumed
    PROVE  /\ entry' = "host" /\ current # None /\ current' = None /\ current \in FiberId
           /\ ready_queue' # <<>> /\ Head(ready_queue') = current
           /\ fibers' = Saved(control') /\ control' \in Ctl
           /\ fibers'[current].ctl = control'
           /\ SnapshotResumed => control'.c = "restored"
           /\ PauseOutOfFuel => outcome'.kind = "OutOfFuel"
<1>1. /\ entry' = "host" /\ current # None /\ current' = None
      /\ ready_queue' = <<current>> \o ready_queue /\ fibers' = Saved(control')
      /\ PauseOutOfFuel => outcome'.kind = "OutOfFuel"
  BY DEF PauseOutOfFuel, SnapshotResumed, Working, Runnable, Dry, Return,
         QueueFront, ReadyOverride
<1>2. current \in FiberId /\ ready_queue \in Seq(FiberId)
  BY <1>1, InVec, Split DEF Core
<1>3. ready_queue' # <<>> /\ Head(ready_queue') = current
  BY <1>1, <1>2, Front
<1>4. control \in Ctl
  BY Split DEF Rest
<1>5. control' \in Ctl /\ (SnapshotResumed => control'.c = "restored")
  <2>1. Deliver(control, "restored", None) \in Ctl /\ Deliver(control, "restored", None).c
            = "restored"
    BY <1>4, DeliverType, Constants DEF CtlKind, Deliver
  <2> QED
    BY <1>4, <2>1 DEF PauseOutOfFuel, SnapshotResumed
<1>6. fibers'[current].ctl = control'
  BY <1>1, <1>5, SavedFacts
<1> QED
  BY <1>1, <1>2, <1>3, <1>5, <1>6

\* Every other turn of the loop leaves with another outcome or none.
LEMMA NoPause ==
    ASSUME SchedInv, SchedulerStep, ~PauseOutOfFuel, ~SnapshotResumed
    PROVE  outcome' = outcome \/ outcome'.kind \in {"Done", "Pending", "Error"}
<1>1. CASE SelectNextFiber \/ DrainPending \/ DrainDone
  BY <1>1 DEF SelectNextFiber, DrainPending, DrainDone, Return, hostVars
<1>2. CASE SliceDone \/ FailDry
  BY <1>2, EndForm
<1>3. CASE SlicePreempted \/ EffectPlain \/ EffectHost \/ SnapshotWritten
  BY <1>3 DEF SlicePreempted, EffectPlain, EffectHost, SnapshotWritten, hostVars
<1>4. CASE ForkShared \/ ForkCarved
  BY <1>4 DEF ForkShared, ForkCarved, Fork, hostVars
<1>5. CASE \E t \in FiberId : JoinFinished(t) \/ JoinWaits(t)
  BY <1>5 DEF JoinFinished, JoinWaits, hostVars
<1>6. CASE Faulting
  BY <1>6, FaultForm DEF hostVars
<1> QED
  BY <1>1, <1>2, <1>3, <1>4, <1>5, <1>6, LoopSteps

\* PausedFirst is kept by every step.
LEMMA PausedFirstStep == ASSUME SchedInv, PausedFirst, [Next]_vars PROVE PausedFirst'
<1>1. ASSUME SchedulerStep PROVE PausedFirst'
  <2>1. entry = "sched"
    BY <1>1, StepOutcome
  <2>2. CASE PauseOutOfFuel \/ SnapshotResumed
    <3>1. SnapshotResumed => outcome'.kind = "Restored"
      BY DEF SnapshotResumed, Return
    <3> QED
      BY <2>2, <3>1, PutInFront DEF PausedFirst
  <2>3. CASE ~PauseOutOfFuel /\ ~SnapshotResumed
    BY <1>1, <2>1, <2>3, NoPause DEF PausedFirst
  <2> QED
    BY <2>2, <2>3
<1>2. CASE \/ \E budget \in Budgets : SetFuel(budget)
           \/ \E amount \in Refuels : AddFuel(amount)
  BY <1>2 DEF SetFuel, AddFuel, hostVars, PausedFirst
<1>3. CASE Continue \/ CheckpointResumed \/ \E program \in Programs : RunFresh(program)
  BY <1>3 DEF Continue, CheckpointResumed, RunFresh, Enter, PausedFirst
<1>4. ASSUME NEW f \in FiberId, ResumeWith(f) PROVE PausedFirst'
  <2> SUFFICES ASSUME outcome'.kind \in {"OutOfFuel", "Restored"}
               PROVE  /\ entry' = "host" /\ current' = None /\ ready_queue' # <<>>
                      /\ fibers'[Head(ready_queue')].ctl = control'
                      /\ outcome'.kind = "Restored" => control'.c = "restored"
    BY DEF PausedFirst
  <2>1. UNCHANGED <<entry, outcome, current, control>> /\ ready_queue' = Append(ready_queue, f)
    BY <1>4 DEF ResumeWith, hostVars
  <2>2. /\ entry = "host" /\ current = None /\ ready_queue # <<>>
        /\ fibers[Head(ready_queue)].ctl = control
        /\ outcome.kind = "Restored" => control.c = "restored"
    BY <2>1 DEF PausedFirst
  <2>3. ready_queue \in Seq(FiberId) /\ IsInjective(ready_queue)
    BY Split DEF Core, QueueSound
  <2>4. Head(ready_queue) \in Queued /\ Head(ready_queue) \in FiberId
    BY <2>2, <2>3, PopFront DEF Queued
  <2>5. fibers[Head(ready_queue)].status = "Ready" /\ fibers[f].status = "BlockedOnHost"
    BY <1>4, <2>4 DEF ResumeWith, BlockedOnHost, SchedInv, QueueSound
  <2>6. fibers'[Head(ready_queue)] = fibers[Head(ready_queue)]
    BY <1>4, <2>4, <2>5, InVec DEF ResumeWith
  <2> QED
    BY <2>1, <2>2, <2>3, <2>6, Front
<1>5. CASE UNCHANGED vars
  BY <1>5 DEF vars, PausedFirst
<1> QED
  BY <1>1, <1>2, <1>3, <1>4, <1>5 DEF Next, HostStep

\* A pause for fuel is transparent, for any number of fibers, budgets and host
\* calls: the paused fiber stays in front, on its registers, until it is run.
THEOREM PauseTransparentHolds == Spec => []PauseTransparent
<1>1. Init => PausedFirst
  BY DEF Init, PausedFirst
<1>2. PausedFirst => PauseTransparent
  BY DEF PausedFirst, PauseTransparent
<1> QED
  BY <1>1, <1>2, PausedFirstStep, SchedInvHolds, PTL DEF Spec

-----------------------------------------------------------------------------
(* What a turn of the loop does to the registers that fibers were saved with. *)

\* A fiber ends: its joiners get the fate, the others keep what they have.
LEMMA SettleCtl ==
    ASSUME SchedInv, current # None, NEW fs \in [FiberId -> Fiber],
           \A f \in FiberId \ {current} : fs[f] = fibers[f],
           NEW ms, NEW status \in {"Completed", "Failed"}, NEW val \in Value,
           Settle(fs, ms, status, val)
    PROVE  /\ \A f \in FiberId \ {current} :
                \/ fibers'[f] = fibers[f]
                \/ f \notin Queued /\ fibers'[f].ctl.c \in {"ok", "err"}
           /\ fibers'[current].ctl = fs[current].ctl \/ fibers'[current].ctl.c = "code"
           /\ fibers'[current].status # "Ready"
           /\ current' = None
<1>1. Core
  BY Split
<1>2. current \in FiberId /\ Waiting(current) \subseteq Waiters
      /\ \A w \in Waiting(current) : w \in FiberId /\ w \notin Queued
  BY <1>1, CurrentFacts, PlacesFacts DEF Core, WaitersSound
<1>3. \A f \in FiberId \ ({current} \cup Waiting(current)) : fibers'[f] = fibers[f]
  BY <1>1, SettleFibers
<1>4. /\ Waiting(current) = {} =>
            fibers'[current].status = status /\ fibers'[current].ctl = fs[current].ctl
      /\ Waiting(current) # {} => fibers'[current] = AbsentFiber
  BY <1>1, SettleFibers
<1>5. \A w \in Waiting(current) : fibers'[w].ctl.c \in {"ok", "err"}
  <2>1. \A w \in Waiting(current) :
            fibers'[w].ctl = Deliver(fibers[w].ctl, FateOf(status), val)
    BY <1>1, SettleWoken
  <2>2. FateOf(status) \in {"ok", "err"}
    BY DEF FateOf
  <2>3. \A ctl : Deliver(ctl, FateOf(status), val).c = FateOf(status)
    BY DEF Deliver
  <2> QED
    BY <2>1, <2>2, <2>3
<1>6. AbsentFiber.status = "Absent" /\ AbsentFiber.ctl.c = "code"
  BY DEF AbsentFiber, Code
<1>7. current' = None
  BY DEF Settle
<1> QED
  BY <1>2, <1>3, <1>4, <1>5, <1>6, <1>7

\* Only the running fiber is saved, only its joiners are given a fate; whoever
\* is queued keeps its registers.  The registers saved are the interpreter's, or
\* say "restored".
LEMMA StepCtl ==
    ASSUME SchedInv, SchedulerStep
    PROVE  /\ \A f \in FiberId \ {current} :
                \/ /\ fibers'[f].ctl = fibers[f].ctl
                   /\ fibers'[f].status = "Ready" => fibers[f].status = "Ready"
                \/ f \notin Queued /\ fibers'[f].ctl.c \in {"ok", "err", "code"}
           /\ current # None =>
                \/ fibers'[current].ctl \in {fibers[current].ctl, control}
                \/ fibers'[current].ctl.c \in {"restored", "suspend", "code", "undefined"}
<1>1. Core /\ fibers \in [FiberId -> Fiber] /\ control \in Ctl
  BY Split DEF Core, Rest
<1>2. current # None => current \in FiberId
  BY InVec
<1>3. CASE SelectNextFiber
  <2>1. Head(ready_queue) \in FiberId
    BY <1>1, <1>3, PopFront DEF SelectNextFiber, Core, QueueSound
  <2>2. \A f \in FiberId : fibers'[f].ctl = fibers[f].ctl
          /\ (fibers'[f].status = "Ready" => fibers[f].status = "Ready")
    BY <1>1, <1>3, <2>1 DEF SelectNextFiber, Fiber
  <2> QED
    BY <1>3, <2>2 DEF SelectNextFiber
<1>4. CASE DrainPending \/ DrainDone \/ EffectPlain
  BY <1>4 DEF DrainPending, DrainDone, EffectPlain
<1>5. CASE PauseOutOfFuel \/ SlicePreempted \/ SnapshotWritten \/ SnapshotResumed
           \/ \E t \in FiberId : JoinWaits(t)
  <2>1. current # None
    BY <1>5 DEF PauseOutOfFuel, SlicePreempted, SnapshotWritten, SnapshotResumed, JoinWaits,
       Working, Runnable, Dry
  <2>2. \E ctl \in Ctl : /\ fibers' = Saved(ctl)
                         /\ ctl = control \/ ctl.c \in {"restored", "suspend", "code"}
    <3>1. \A c \in {"restored", "suspend", "code"} :
            Deliver(control, c, None) \in Ctl /\ Deliver(control, c, None).c = c
      BY <1>1, DeliverType, Constants DEF CtlKind, Deliver
    <3> QED
      BY <1>1, <1>5, <3>1
         DEF PauseOutOfFuel, SlicePreempted, SnapshotWritten, SnapshotResumed, JoinWaits, Suspended
  <2> QED
    BY <2>1, <2>2, SavedFacts
<1>6. CASE EffectHost
  <2>1. current # None /\ current \in FiberId
    BY <1>2, <1>6 DEF EffectHost, Runnable
  <2>2. Suspended \in Ctl /\ Suspended.c = "suspend"
    BY <1>1, DeliverType, Constants DEF CtlKind, Deliver, Suspended
  <2>3. fibers' = [Saved(Suspended) EXCEPT ![current].status = "BlockedOnHost"]
    BY <1>6 DEF EffectHost
  <2>4. fibers'[current].ctl = Suspended /\ \A f \in FiberId \ {current} : fibers'[f] = fibers[f]
    BY <2>1, <2>2, <2>3, SavedFacts DEF Fiber
  <2> QED
    BY <2>2, <2>4
<1>7. CASE ForkShared \/ ForkCarved
  <2>1. \E m : fibers' = [fibers EXCEPT ![next_fiber_id] = NewFiber(Code(next_fiber_id), m)]
    BY <1>7 DEF ForkShared, ForkCarved, Fork
  <2>2. \A f \in FiberId : f = next_fiber_id => f \notin Queued /\ fibers[f].status = "Absent"
    BY <1>1, SMT DEF Core, IdsInOrder, QueueSound, FiberId
  <2>3. \A f \in FiberId : \/ fibers'[f] = fibers[f]
                           \/ f = next_fiber_id /\ fibers'[f].ctl.c = "code"
    BY <1>1, <2>1 DEF NewFiber, Code
  <2>4. current # None => fibers[current].status # "Absent"
    BY InVec
  <2> QED
    BY <1>2, <2>2, <2>3, <2>4
<1>8. ASSUME NEW t \in FiberId, JoinFinished(t)
      PROVE  \A f \in FiberId : \/ fibers'[f] = fibers[f]
                                \/ f \notin Queued /\ fibers'[f].ctl.c = "code"
  <2>1. t \notin Queued
    BY <1>1, <1>8 DEF JoinFinished, Core, QueueSound
  <2>2. fibers' = [fibers EXCEPT ![t] = AbsentFiber] /\ AbsentFiber.ctl.c = "code"
    BY <1>8 DEF JoinFinished, Consumed, AbsentFiber, Code
  <2> QED
    BY <1>1, <2>1, <2>2
<1>9. CASE SliceDone \/ FailDry
  <2>1. /\ current # None
        /\ \E ms : \E status \in {"Completed", "Failed"}, val \in Value :
             Settle(fibers, ms, status, val)
    BY <1>9, EndForm
  <2> QED
    BY <1>1, <2>1, SettleCtl
<1>10. CASE Faulting
  <2>1. PICK fs \in [FiberId -> Fiber] : \E ms :
          /\ \A f \in FiberId \ {current} : fs[f] = fibers[f]
          /\ fs[current].ctl \in {fibers[current].ctl, control'}
          /\ \/ fibers' = fs
             \/ Settle(fs, ms, "Failed", current)
    BY <1>10, FaultForm
  <2>2. /\ current # None /\ current \in Value
        /\ control'.c \in {"undefined", "suspend", "restored"}
    BY <1>10, FaultForm, Constants
  <2>3. CASE fibers' = fs
    BY <2>1, <2>2, <2>3
  <2>4. CASE \E ms : Settle(fs, ms, "Failed", current)
    <3>1. /\ \A f \in FiberId \ {current} :
                \/ fibers'[f] = fibers[f]
                \/ f \notin Queued /\ fibers'[f].ctl.c \in {"ok", "err"}
          /\ fibers'[current].ctl = fs[current].ctl \/ fibers'[current].ctl.c = "code"
      BY <2>1, <2>2, <2>4, SettleCtl
    <3> QED
      BY <2>1, <2>2, <3>1
  <2> QED
    BY <2>1, <2>3, <2>4
<1> QED
  BY <1>2, <1>3, <1>4, <1>5, <1>6, <1>7, <1>8, <1>9, <1>10, LoopSteps

\* What was delivered to a queued fiber is still there when it is selected.
THEOREM DeliveryHeldHolds == Spec => DeliveryHeld
<1> DEFINE Held == (InRun \/ entry' = "host") =>
                      \A f \in Queued : f \in Queued' => fibers'[f].ctl = fibers[f].ctl
<1>1. ASSUME SchedInv, SchedulerStep PROVE Held
  <2>1. /\ Queued \subseteq FiberId
        /\ \A f \in Queued : f # current /\ f \in FiberId
    BY <1>1, PlacesFacts, Split DEF Core, QueueSound
  <2> QED
    BY <1>1, <2>1, StepCtl
<1>2. ASSUME SchedInv, HostStep PROVE Held
  <2>1. ASSUME NEW f \in FiberId, ResumeWith(f) PROVE Held
    <3>1. f \notin Queued
      BY <1>2, <2>1 DEF ResumeWith, BlockedOnHost, SchedInv, QueueSound
    <3>2. \A g \in FiberId \ {f} : fibers'[g] = fibers[g]
      BY <1>2, <2>1, InVec DEF ResumeWith
    <3>3. Queued \subseteq FiberId
      BY <1>2, PlacesFacts, Split
    <3> QED
      BY <3>1, <3>2, <3>3
  <2>2. CASE \E program \in Programs : RunFresh(program)
    BY <2>2 DEF RunFresh, Enter, InRun
  <2> QED
    BY <1>2, <2>1, <2>2 DEF HostStep, Continue, CheckpointResumed, SetFuel, AddFuel
<1>3. SchedInv /\ [Next]_vars => [Held]_vars
  BY <1>1, <1>2 DEF Next
<1> QED
  BY <1>3, SchedInvHolds, PTL DEF Spec, DeliveryHeld

-----------------------------------------------------------------------------
(* Where "restored" can be. *)

\* A fiber that is runnable and was saved with "restored" is the running one,
\* or first in the queue of a process that has just read the file back.
RestoredPlace ==
    \A f \in FiberId : fibers[f].status = "Ready" /\ fibers[f].ctl.c = "restored" =>
        \/ f = current
        \/ current = None /\ ready_queue # <<>> /\ f = Head(ready_queue)

\* A fiber saved with "restored" keeps the interpreter, or is put in front.
LEMMA SavedRestored ==
    ASSUME SchedInv, SchedulerStep, current # None,
           fibers'[current].status = "Ready", fibers'[current].ctl.c = "restored"
    PROVE  \/ current' = current
           \/ current' = None /\ ready_queue' # <<>> /\ current = Head(ready_queue')
<1>1. control \in Ctl /\ current \in FiberId
  BY InVec, Split DEF Rest
<1>2. CASE SelectNextFiber \/ DrainPending \/ DrainDone
  BY <1>2 DEF SelectNextFiber, DrainPending, DrainDone, Drained
<1>3. CASE PauseOutOfFuel \/ SnapshotResumed
  BY <1>3, PutInFront
<1>4. ASSUME SlicePreempted \/ EffectHost \/ \E t \in FiberId : JoinWaits(t) PROVE FALSE
  <2>1. \A c \in {"suspend", "code"} :
          Deliver(control, c, None) \in Ctl /\ Deliver(control, c, None).c = c
    BY <1>1, DeliverType, Constants DEF CtlKind, Deliver
  <2>2. CASE SlicePreempted \/ \E t \in FiberId : JoinWaits(t)
    <3>1. \E c \in {"suspend", "code"} : fibers' = Saved(Deliver(control, c, None))
      BY <2>2 DEF SlicePreempted, JoinWaits, Suspended
    <3> QED
      BY <2>1, <3>1, SavedFacts
  <2>3. CASE EffectHost
    <3>1. fibers' = [Saved(Suspended) EXCEPT ![current].status = "BlockedOnHost"]
      BY <2>3 DEF EffectHost
    <3>2. Suspended \in Ctl
      BY <2>1 DEF Suspended
    <3> QED
      BY <1>1, <3>1, <3>2, SavedFacts DEF Fiber
  <2> QED
    BY <1>4, <2>2, <2>3
<1>5. CASE EffectPlain \/ SnapshotWritten \/ \E t \in FiberId : JoinFinished(t)
  BY <1>5 DEF EffectPlain, SnapshotWritten, JoinFinished
<1>6. CASE ForkShared \/ ForkCarved
  BY <1>6 DEF ForkShared, ForkCarved, Fork
<1>7. ASSUME SliceDone \/ FailDry PROVE FALSE
  BY <1>7, EndForm, SettleCtl, InVec
<1>8. CASE Faulting
  <2>1. PICK fs \in [FiberId -> Fiber] : \E ms :
          /\ \A f \in FiberId \ {current} : fs[f] = fibers[f]
          /\ \/ current' = current
             \/ Settle(fs, ms, "Failed", current)
    BY <1>8, FaultForm
  <2>2. current \in Value
    BY <1>1, Constants
  <2>3. \A ms : ~Settle(fs, ms, "Failed", current)
    BY <2>1, <2>2, SettleCtl
  <2> QED
    BY <2>1, <2>3
<1> QED
  BY <1>2, <1>3, <1>4, <1>5, <1>6, <1>7, <1>8, LoopSteps

\* RestoredPlace is kept by every step.
LEMMA RestoredStep == ASSUME SchedInv, RestoredPlace, [Next]_vars PROVE RestoredPlace'
<1>1. /\ current \in FiberId \cup {None} /\ None \notin FiberId
      /\ fibers \in [FiberId -> Fiber] /\ ready_queue \in Seq(FiberId)
  BY InVec, Split DEF Core
<1>2. ASSUME SchedulerStep PROVE RestoredPlace'
  <2> SUFFICES ASSUME NEW f \in FiberId,
                      fibers'[f].status = "Ready", fibers'[f].ctl.c = "restored"
               PROVE  \/ f = current'
                      \/ current' = None /\ ready_queue' # <<>> /\ f = Head(ready_queue')
    BY DEF RestoredPlace
  <2>1. f # current =>
          fibers'[f].ctl = fibers[f].ctl /\ fibers[f].status = "Ready"
    BY <1>2, StepCtl
  <2>2. CASE current # None
    <3>1. f = current
      BY <2>1, <2>2 DEF RestoredPlace
    <3> QED
      BY <1>2, <2>2, <3>1, SavedRestored
  <2>3. CASE current = None
    <3>1. fibers[f].status = "Ready" /\ fibers[f].ctl.c = "restored"
      BY <1>1, <2>1, <2>3
    <3>2. ready_queue # <<>> /\ f = Head(ready_queue)
      BY <1>1, <2>3, <3>1 DEF RestoredPlace
    <3>3. SelectNextFiber
      BY <1>2, <2>3, <3>2, InVec, EndForm, FaultForm, PutInFront, LoopSteps
         DEF DrainPending, DrainDone, Drained, SlicePreempted, EffectPlain, EffectHost,
             ForkShared, ForkCarved, SnapshotWritten, JoinFinished, JoinWaits, Working, Runnable
    <3>4. fibers'[f].status = "Running"
      BY <1>1, <3>2, <3>3 DEF SelectNextFiber, Fiber
    <3> QED
      BY <3>4
  <2> QED
    BY <2>2, <2>3
<1>3. CASE \/ Continue \/ CheckpointResumed
           \/ \E budget \in Budgets : SetFuel(budget)
           \/ \E amount \in Refuels : AddFuel(amount)
  BY <1>3 DEF Continue, CheckpointResumed, SetFuel, AddFuel, RestoredPlace
<1>4. ASSUME NEW program \in Programs, RunFresh(program) PROVE RestoredPlace'
  <2>1. /\ current' = None /\ ready_queue' = <<RootFiber>>
        /\ \A f \in FiberId \ {RootFiber} : fibers'[f] = AbsentFiber
    BY <1>4 DEF RunFresh
  <2>2. <<RootFiber>> # <<>> /\ Head(<<RootFiber>>) = RootFiber
    OBVIOUS
  <2> QED
    BY <2>1, <2>2 DEF RestoredPlace, AbsentFiber
<1>5. ASSUME NEW f \in FiberId, ResumeWith(f) PROVE RestoredPlace'
  <2>1. /\ UNCHANGED current /\ ready_queue' = Append(ready_queue, f)
        /\ fibers'[f].ctl.c = "answer"
        /\ \A g \in FiberId \ {f} : fibers'[g] = fibers[g]
    BY <1>1, <1>5 DEF ResumeWith, Fiber, Deliver
  <2>2. ready_queue # <<>> => ready_queue' # <<>> /\ Head(ready_queue') = Head(ready_queue)
    BY <1>1, <2>1, Front
  <2> QED
    BY <2>1, <2>2 DEF RestoredPlace
<1>6. CASE UNCHANGED vars
  BY <1>6 DEF vars, RestoredPlace
<1> QED
  BY <1>2, <1>3, <1>4, <1>5, <1>6 DEF Next, HostStep

\* fork(2) semantics of Snapshot, for any number of fibers: the process that
\* reads the file back wakes up in the fiber that performed the effect, with
\* "restored", and that value is nobody else's to be loaded: only the running fiber
\* and the first of the queue can hold it.
THEOREM WakesInsideEffectHolds == Spec => []WakesInsideEffect
<1>1. Init => PausedFirst /\ RestoredPlace
  BY DEF Init, PausedFirst, RestoredPlace, AbsentFiber
<1>2. PausedFirst /\ RestoredPlace => WakesInsideEffect
  BY DEF PausedFirst, RestoredPlace, WakesInsideEffect, Live
<1> QED
  BY <1>1, <1>2, PausedFirstStep, RestoredStep, SchedInvHolds, PTL DEF Spec

-----------------------------------------------------------------------------
(* What a joiner is given. *)

\* No fiber that may run has its registers at rest on a finished computation:
\* that is where SliceDone leaves them, and nothing is loaded from there.
NotHalted ==
    /\ current # None => control.c # "halted"
    /\ \A f \in FiberId : fibers[f].ctl.c # "halted"

\* NotHalted is kept by every step, given sources with a statement.
LEMMA NotHaltedStep ==
    ASSUME "empty" \notin Programs, SchedInv, NotHalted, [Next]_vars PROVE NotHalted'
<1>1. /\ current \in FiberId \cup {None} /\ None \notin FiberId
      /\ fibers \in [FiberId -> Fiber]
  BY InVec
<1>2. ASSUME SchedulerStep PROVE NotHalted'
  <2>1. \A f \in FiberId : fibers'[f].ctl.c # "halted"
    BY <1>1, <1>2, StepCtl DEF NotHalted
  <2>2. CASE SelectNextFiber
    <3>1. Head(ready_queue) \in FiberId
      BY <2>2, PopFront, Split DEF SelectNextFiber, Core, QueueSound
    <3> QED
      BY <2>1, <2>2, <3>1 DEF SelectNextFiber, Loaded, NotHalted
  <2>3. CASE DrainPending \/ DrainDone
    BY <2>1, <2>3 DEF DrainPending, DrainDone, Drained, NotHalted
  <2>4. CASE PauseOutOfFuel \/ SlicePreempted \/ EffectHost \/ SnapshotResumed
             \/ \E t \in FiberId : JoinWaits(t)
    BY <2>1, <2>4
       DEF PauseOutOfFuel, SlicePreempted, EffectHost, SnapshotResumed, JoinWaits, NotHalted
  <2>5. CASE EffectPlain \/ SnapshotWritten \/ ForkShared \/ ForkCarved
             \/ \E t \in FiberId : JoinFinished(t)
    <3>1. \E c, of : control' = Deliver(control, c, of) /\ c # "halted"
      BY <2>5 DEF EffectPlain, SnapshotWritten, ForkShared, ForkCarved, Fork, JoinFinished, FateOf
    <3> QED
      BY <2>1, <3>1 DEF Deliver, NotHalted
  <2>6. CASE SliceDone \/ FailDry
    BY <2>1, <2>6 DEF SliceDone, FailDry, Settle, NotHalted
  <2>7. CASE Faulting
    BY <2>1, <2>7, FaultForm DEF NotHalted
  <2> QED
    BY <1>2, <2>2, <2>3, <2>4, <2>5, <2>6, <2>7, LoopSteps
<1>3. CASE \/ Continue \/ CheckpointResumed
           \/ \E budget \in Budgets : SetFuel(budget)
           \/ \E amount \in Refuels : AddFuel(amount)
  BY <1>3 DEF Continue, CheckpointResumed, SetFuel, AddFuel, NotHalted
<1>4. ASSUME NEW program \in Programs, RunFresh(program) PROVE NotHalted'
  <2>1. control' = Code(RootFiber) /\ current' = None
    BY <1>4, SchedulerAssumption DEF RunFresh, FreshControl
  <2>2. \A f \in FiberId : fibers'[f] \in {NewFiber(control', Root), AbsentFiber}
    BY <1>4 DEF RunFresh
  <2> QED
    BY <2>1, <2>2 DEF NewFiber, AbsentFiber, Code, NotHalted
<1>5. ASSUME NEW f \in FiberId, ResumeWith(f) PROVE NotHalted'
  <2>1. /\ UNCHANGED <<current, control>> /\ fibers'[f].ctl.c = "answer"
        /\ \A g \in FiberId \ {f} : fibers'[g] = fibers[g]
    BY <1>1, <1>5 DEF ResumeWith, Fiber, Deliver
  <2> QED
    BY <2>1 DEF NotHalted
<1>6. CASE UNCHANGED vars
  BY <1>6 DEF vars, NotHalted
<1> QED
  BY <1>2, <1>3, <1>4, <1>5, <1>6 DEF Next, HostStep

\* Only the end of a fiber shortens a wait list.
LEMMA WaitersStay ==
    ASSUME SchedInv, SchedulerStep, ~SliceDone, ~FailDry, ~Faulting, NEW t \in FiberId
    PROVE  Waiting(t) \subseteq Waiting(t)'
<1>1. CASE UNCHANGED join_waiters
  BY <1>1 DEF Waiting
<1>2. ASSUME NEW u \in FiberId, JoinWaits(u) PROVE Waiting(t) \subseteq Waiting(t)'
  <2>1. join_waiters' = [join_waiters EXCEPT ![u] = Append(@, current)] /\ current # None
    BY <1>2 DEF JoinWaits, Working, Runnable
  <2>2. /\ join_waiters \in [FiberId -> Seq(FiberId)] /\ current \in FiberId
        /\ current \notin Range(join_waiters[u]) /\ IsInjective(join_waiters[u])
    BY <2>1, CurrentFacts, Split DEF Core, WaitersSound, Waiters, Waiting
  <2>3. Range(Append(join_waiters[u], current)) = Range(join_waiters[u]) \cup {current}
    BY <2>2, PushBack
  <2> QED
    BY <2>1, <2>2, <2>3 DEF Waiting
<1> QED
  BY <1>1, <1>2, LoopSteps
     DEF SelectNextFiber, DrainPending, DrainDone, PauseOutOfFuel, SlicePreempted, EffectPlain,
         ForkShared, ForkCarved, Fork, EffectHost, SnapshotWritten, SnapshotResumed, JoinFinished

\* Whoever waits for a fiber that ends gets its fate and moves to the queue.
LEMMA SettleDelivers ==
    ASSUME SchedInv, OwnContinuation, current # None, NEW fs \in [FiberId -> Fiber],
           \A f \in FiberId \ {current} : fs[f] = fibers[f],
           NEW ms, NEW status \in {"Completed", "Failed"},
           NEW val \in Value, val = current, Settle(fs, ms, status, val),
           NEW t \in FiberId, NEW w \in Waiting(t) \ Waiting(t)'
    PROVE  /\ t = current /\ fibers'[t].status = "Absent"
           /\ w \in Queued' /\ w \notin Waiters'
           /\ fibers'[w].ctl = [k |-> w, c |-> FateOf(status), of |-> t]
<1>1. Core
  BY Split
<1>2. \A u \in FiberId : Waiting(u)' = IF u = current THEN {} ELSE Waiting(u)
  BY <1>1, SettlePlaces
<1>3. t = current /\ w \in Waiting(current)
  BY <1>2
<1>4. Queued' = Queued \cup Waiting(current)
  BY <1>1, SettlePlaces
<1>5. Waiters' = Waiters \ Waiting(current)
  BY <1>1, SettlePlaces
<1>6. fibers'[current] = AbsentFiber
  BY <1>1, <1>3, SettleFibers
<1>7. fibers'[w].ctl = Deliver(fibers[w].ctl, FateOf(status), val)
  BY <1>1, <1>3, SettleWoken
<1>8. fibers[w].ctl.k = w
  BY <1>1, <1>3, InVec, OwnSplit DEF Own, Waiting
<1> QED
  BY <1>3, <1>4, <1>5, <1>6, <1>7, <1>8 DEF AbsentFiber, Deliver

\* Join, for any number of fibers and waiters: a waiter is released by the end
\* of the fiber it waits for and by nothing else, and is handed that fiber's
\* fate, on a continuation of its own.
THEOREM JoinDeliversHolds == "empty" \notin Programs => (Spec => JoinDelivers)
<1> SUFFICES ASSUME "empty" \notin Programs PROVE Spec => JoinDelivers
  OBVIOUS
<1> DEFINE Given == InRun => \A t \in FiberId : \A w \in Waiting(t) \ Waiting(t)' :
              /\ t = current /\ fibers'[t].status = "Absent"
              /\ w \in Queued' /\ w \notin Waiters'
              /\ fibers'[w].ctl = [k |-> w, c |-> IF control'.c = "halted" THEN "ok" ELSE "err",
                                   of |-> t]
<1>1. ASSUME SchedInv, OwnContinuation, NotHalted, SchedulerStep PROVE Given
  <2> SUFFICES ASSUME NEW t \in FiberId, NEW w \in Waiting(t) \ Waiting(t)'
               PROVE  /\ t = current /\ fibers'[t].status = "Absent"
                      /\ w \in Queued' /\ w \notin Waiters'
                      /\ fibers'[w].ctl =
                            [k |-> w, c |-> IF control'.c = "halted" THEN "ok" ELSE "err",
                             of |-> t]
    OBVIOUS
  <2>1. CASE SliceDone \/ FailDry
    <3>1. control.k = current /\ control.c # "halted" /\ fibers \in [FiberId -> Fiber]
      BY <1>1, <2>1, EndForm, InVec, OwnSplit DEF NotHalted
    <3>2. PICK status \in {"Completed", "Failed"} : \E ms :
            /\ current # None /\ Settle(fibers, ms, status, current)
            /\ status = "Completed" <=> control'.c = "halted"
      BY <1>1, <2>1, <3>1, EndForm
    <3>3. FateOf(status) = IF control'.c = "halted" THEN "ok" ELSE "err"
      BY <3>2 DEF FateOf
    <3>4. /\ t = current /\ fibers'[t].status = "Absent"
          /\ w \in Queued' /\ w \notin Waiters'
          /\ fibers'[w].ctl = [k |-> w, c |-> FateOf(status), of |-> t]
      BY <1>1, <3>1, <3>2, SettleDelivers, InVec, Constants
    <3> QED
      BY <3>3, <3>4
  <2>2. CASE Faulting
    <3>1. PICK fs \in [FiberId -> Fiber] : \E ms :
            /\ \A f \in FiberId \ {current} : fs[f] = fibers[f]
            /\ \/ UNCHANGED join_waiters
               \/ Settle(fs, ms, "Failed", current)
      BY <1>1, <2>2, FaultForm
    <3>2. current # None /\ control'.c # "halted"
      BY <1>1, <2>2, FaultForm
    <3>3. ~UNCHANGED join_waiters
      BY DEF Waiting
    <3>4. /\ t = current /\ fibers'[t].status = "Absent"
          /\ w \in Queued' /\ w \notin Waiters'
          /\ fibers'[w].ctl = [k |-> w, c |-> FateOf("Failed"), of |-> t]
      BY <1>1, <3>1, <3>2, <3>3, SettleDelivers, InVec, Constants
    <3> QED
      BY <3>2, <3>4 DEF FateOf
  <2> QED
    BY <1>1, <2>1, <2>2, WaitersStay
<1>2. ASSUME HostStep PROVE Given
  BY <1>2 DEF HostStep, Continue, CheckpointResumed, SetFuel, AddFuel, RunFresh, ResumeWith,
     InRun
<1>3. SchedInv /\ OwnContinuation /\ NotHalted /\ [Next]_vars => [Given]_vars
  BY <1>1, <1>2 DEF Next
<1>4. Init => NotHalted
  BY DEF Init, NotHalted, AbsentFiber, Code
<1>5. SchedInv /\ NotHalted /\ [Next]_vars => NotHalted'
  BY NotHaltedStep
<1>6. Spec => []OwnContinuation
  BY OwnContinuationHolds
<1> QED
  BY <1>3, <1>4, <1>5, <1>6, SchedInvHolds, PTL DEF Spec, JoinDelivers

-----------------------------------------------------------------------------
(* The abstract state, fiber by fiber. *)

\* Where each fiber is.
phase == [f \in FiberId |-> PhaseOf(f)]

\* Whom each fiber waits for.
want == [f \in FiberId |-> WantOf(f)]

\* What each fiber was given and has not looked at.
inbox == [f \in FiberId |-> InboxOf(f)]

\* The fiber that a waiting fiber wants is the one whose list it is in.
LEMMA WantIs ==
    WaitersSound => /\ \A t \in FiberId : \A w \in Waiting(t) : WantOf(w) = t
                    /\ \A w : w \notin Waiters => WantOf(w) = None
<1> SUFFICES ASSUME WaitersSound
             PROVE  /\ \A t \in FiberId : \A w \in Waiting(t) : WantOf(w) = t
                    /\ \A w : w \notin Waiters => WantOf(w) = None
  OBVIOUS
<1>1. ASSUME NEW t \in FiberId, NEW w \in Waiting(t) PROVE WantOf(w) = t
  <2>1. \A u \in FiberId : w \in Waiting(u) => u = t
    BY <1>1 DEF WaitersSound
  <2>2. w \in Waiters
    BY <1>1 DEF Waiters
  <2> QED
    BY <1>1, <2>1, <2>2 DEF WantOf
<1> QED
  BY <1>1 DEF WantOf

\* The same for the next state.
LEMMA WantIsNext ==
    WaitersSound' => /\ \A t \in FiberId : \A w \in Waiting(t)' : WantOf(w)' = t
                     /\ \A w : w \notin Waiters' => WantOf(w)' = None
<1> SUFFICES ASSUME WaitersSound'
             PROVE  /\ \A t \in FiberId : \A w \in Waiting(t)' : WantOf(w)' = t
                    /\ \A w : w \notin Waiters' => WantOf(w)' = None
  OBVIOUS
<1>1. ASSUME NEW t \in FiberId, NEW w \in Waiting(t)' PROVE WantOf(w)' = t
  <2>1. \A u \in FiberId : w \in Waiting(u)' => u = t
    BY <1>1 DEF WaitersSound
  <2>2. w \in Waiters'
    BY <1>1 DEF Waiters
  <2> QED
    BY <1>1, <2>1, <2>2 DEF WantOf
<1> QED
  BY <1>1 DEF WantOf

\* A finished fiber's fate is its own: the value it ended with is its own result,
\* and a failure names it.
ValOwn == \A t \in FiberId : fibers[t].status \in {"Completed", "Failed"} => fibers[t].val = t

\* What the abstraction of a state is made of.
LEMMA Places ==
    ASSUME SchedInv
    PROVE  /\ Core /\ RunningIsCurrent /\ None \notin FiberId /\ IdsInOrder
           /\ \A g \in Waiters : g \in FiberId /\ fibers[g].status = "Ready" /\ g # current
           /\ current # None =>
                current \in FiberId /\ fibers[current].status \in {"Ready", "Running"}
           /\ current # None => PhaseOf(current) = "running"
<1>1. Core
  BY Split
<1>2. \A g \in Waiters : g \in FiberId /\ fibers[g].status = "Ready" /\ g # current
  BY <1>1, PlacesFacts DEF Core, WaitersSound
<1>3. current # None =>
        current \in FiberId /\ fibers[current].status \in {"Ready", "Running"}
  BY <1>1, CurrentFacts
<1>4. current # None => PhaseOf(current) = "running"
  BY <1>2, <1>3 DEF PhaseOf
<1> QED
  BY <1>1, <1>2, <1>3, <1>4, Constants DEF Core

\* A fiber that a step does not touch.
LEMMA Kept ==
    ASSUME NEW g \in FiberId, fibers'[g] = fibers[g], g # current, g # current',
           g \in Waiters' <=> g \in Waiters, next_fiber_id' = next_fiber_id
    PROVE  PhaseOf(g)' = PhaseOf(g) /\ InboxOf(g)' = InboxOf(g)
BY DEF PhaseOf, InboxOf, Registers

\* The wants do not change where the wait lists do not.
LEMMA KeptWants ==
    ASSUME UNCHANGED join_waiters
    PROVE  want' = want /\ Waiters' = Waiters
BY DEF want, WantOf, Waiters, Waiting

\* A step that moves one fiber, seen in the phases.
LEMMA OnePhase ==
    ASSUME NEW f \in FiberId, NEW p, PhaseOf(f)' = p,
           \A g \in FiberId \ {f} : PhaseOf(g)' = PhaseOf(g)
    PROVE  phase' = [phase EXCEPT ![f] = p]
BY DEF phase

\* The same, seen in the inboxes.
LEMMA OneInbox ==
    ASSUME NEW f \in FiberId, NEW x, InboxOf(f)' = x,
           \A g \in FiberId \ {f} : InboxOf(g)' = InboxOf(g)
    PROVE  inbox' = [inbox EXCEPT ![f] = x]
BY DEF inbox

\* A step of the pool, or none.
PoolStep == Pool!PoolNext \/ UNCHANGED <<phase, want, inbox>>

\* What the running fiber may do to the pool.
LEMMA RunningSteps ==
    ASSUME NEW f \in FiberId, phase[f] = "running",
           \/ Pool!GiveWay(f) \/ Pool!RunOn(f) \/ Pool!AskHost(f) \/ Pool!Finish(f)
           \/ \E g \in FiberId : \/ Pool!ForkFiber(f, g) \/ Pool!JoinLater(f, g)
                                 \/ Pool!JoinNow(f, g)
    PROVE  PoolStep
BY DEF PoolStep, Pool!PoolNext, Pool!Running, phase

-----------------------------------------------------------------------------
(* One fact for each kind of step. *)

\* Nothing that the pool is about changes.
LEMMA QuietPool ==
    ASSUME UNCHANGED <<fibers, current, join_waiters, next_fiber_id, control>>
    PROVE  PoolStep
<1>1. \A g \in FiberId : PhaseOf(g)' = PhaseOf(g) /\ InboxOf(g)' = InboxOf(g)
  BY KeptWants DEF PhaseOf, InboxOf, Registers
<1> QED
  BY <1>1, KeptWants DEF PoolStep, phase, inbox

\* The first of the queue gets its turn, with what it was given still in its inbox.
LEMMA TurnPool == ASSUME SchedInv, SelectNextFiber PROVE PoolStep
<1> PICK f \in FiberId : f = Head(ready_queue)
  BY PopFront, Split DEF SelectNextFiber, Core, QueueSound
<1>1. f \in Queued /\ fibers[f].status = "Ready" /\ f # current /\ f \notin Waiters
  BY PopFront, Split DEF SelectNextFiber, Core, QueueSound, Queued, WaitersSound
<1>2. /\ current = None /\ current' = f /\ control' = fibers[f].ctl
      /\ UNCHANGED <<join_waiters, next_fiber_id>>
      /\ fibers' = [fibers EXCEPT ![f].status = "Running"]
  BY DEF SelectNextFiber, Loaded
<1>3. /\ fibers'[f].status = "Running" /\ fibers'[f].ctl = fibers[f].ctl
      /\ \A g \in FiberId \ {f} : fibers'[g] = fibers[g]
  BY <1>2, InVec DEF Fiber
<1>4. \A g \in FiberId \ {f} : PhaseOf(g)' = PhaseOf(g) /\ InboxOf(g)' = InboxOf(g)
  BY <1>2, <1>3, Kept, KeptWants, Places
<1>5. PhaseOf(f) = "ready" /\ PhaseOf(f)' = "running"
  BY <1>1, <1>2, <1>3, KeptWants DEF PhaseOf
<1>6. InboxOf(f)' = InboxOf(f)
  BY <1>1, <1>2, <1>3 DEF InboxOf, Registers
<1>7. \A g \in FiberId : PhaseOf(g) # "running"
  BY <1>2, Places DEF PhaseOf
<1>8. phase' = [phase EXCEPT ![f] = "running"] /\ inbox' = inbox /\ want' = want
  BY <1>2, <1>4, <1>5, <1>6, OnePhase, KeptWants DEF inbox
<1>9. Pool!Turn(f)
  BY <1>5, <1>7, <1>8 DEF Pool!Turn, phase, want, inbox
<1> QED
  BY <1>9 DEF PoolStep, Pool!PoolNext

\* The running fiber goes back to the queue, or to the host.
LEMMA SavedPool ==
    ASSUME SchedInv, current # None, current' = None, UNCHANGED <<join_waiters, next_fiber_id>>,
           NEW f \in FiberId, f = current,
           \A g \in FiberId \ {f} : fibers'[g] = fibers[g],
           fibers'[f].status \in {"Ready", "BlockedOnHost"},
           \/ fibers'[f].ctl.c \notin {"ok", "err"}
           \/ fibers'[f].ctl = control /\ fibers'[f].status = "Ready"
    PROVE  PoolStep
<1>1. Waiters' = Waiters /\ f \notin Waiters /\ want' = want
  BY KeptWants, Places
<1>2. \A g \in FiberId \ {f} : PhaseOf(g)' = PhaseOf(g) /\ InboxOf(g)' = InboxOf(g)
  BY <1>1, Kept, Places
<1>3. PhaseOf(f) = "running" /\ phase[f] = "running"
  BY Places DEF phase
<1>4. PhaseOf(f)' = IF fibers'[f].status = "Ready" THEN "ready" ELSE "host"
  BY <1>1, Places DEF PhaseOf
<1>5. \/ InboxOf(f)' = None
      \/ InboxOf(f)' = InboxOf(f) /\ fibers'[f].status = "Ready"
  BY Places DEF InboxOf, Registers
<1>6. \/ inbox' = [inbox EXCEPT ![f] = None]
      \/ inbox' = inbox /\ fibers'[f].status = "Ready"
  BY <1>2, <1>5, OneInbox DEF inbox
<1>7. CASE fibers'[f].status = "Ready"
  <2>1. phase' = [phase EXCEPT ![f] = "ready"]
    BY <1>2, <1>4, <1>7, OnePhase
  <2>2. Pool!GiveWay(f)
    BY <1>1, <1>3, <1>6, <2>1 DEF Pool!GiveWay, phase, want, inbox
  <2> QED
    BY <1>3, <2>2, RunningSteps
<1>8. CASE fibers'[f].status = "BlockedOnHost"
  <2>1. phase' = [phase EXCEPT ![f] = "host"]
    BY <1>2, <1>4, <1>8, OnePhase
  <2>2. Pool!AskHost(f)
    BY <1>1, <1>3, <1>6, <1>8, <2>1 DEF Pool!AskHost, phase, want, inbox
  <2> QED
    BY <1>3, <2>2, RunningSteps
<1> QED
  BY <1>7, <1>8

\* The running fiber runs on.
LEMMA RunOnPool ==
    ASSUME SchedInv, current # None, UNCHANGED <<current, join_waiters, next_fiber_id>>,
           NEW f \in FiberId, f = current,
           \A g \in FiberId \ {f} : fibers'[g] = fibers[g],
           fibers'[f].status \in {"Ready", "Running"},
           control'.c \notin {"ok", "err"}
    PROVE  PoolStep
<1>1. Waiters' = Waiters /\ f \notin Waiters /\ want' = want
  BY KeptWants, Places
<1>2. \A g \in FiberId \ {f} : PhaseOf(g)' = PhaseOf(g) /\ InboxOf(g)' = InboxOf(g)
  BY <1>1, Kept
<1>3. PhaseOf(f) = "running" /\ phase[f] = "running"
  BY Places DEF phase
<1>4. PhaseOf(f)' = PhaseOf(f) /\ InboxOf(f)' = None
  BY <1>1, <1>3 DEF PhaseOf, InboxOf, Registers
<1>5. phase' = phase /\ inbox' = [inbox EXCEPT ![f] = None]
  BY <1>2, <1>4, OneInbox DEF phase
<1>6. Pool!RunOn(f)
  BY <1>1, <1>3, <1>5 DEF Pool!RunOn, phase, want, inbox
<1> QED
  BY <1>3, <1>6, RunningSteps

\* A child is forked.
LEMMA ForkPool ==
    ASSUME SchedInv, NEW spent, NEW ms, NEW m, Fork(spent, ms, m), current # None
    PROVE  PoolStep
<1>1. next_fiber_id \in FiberId /\ next_fiber_id \in Nat
  <2>1. next_fiber_id \in Nat /\ MaxFibers \in Nat /\ next_fiber_id < MaxFibers
    BY Constants, Split, SMT DEF Fork, Core
  <2> QED
    BY <2>1, SMT DEF FiberId
<1> PICK f \in FiberId : f = current
  BY Places
<1> PICK id \in FiberId : id = next_fiber_id
  BY <1>1
<1>2. fibers[id].status = "Absent" /\ f # id
  BY <1>1, Places, SMT DEF IdsInOrder
<1>3. /\ fibers' = [fibers EXCEPT ![id] = NewFiber(Code(id), m)]
      /\ next_fiber_id' = id + 1 /\ control' = Deliver(control, "id", id)
      /\ UNCHANGED <<current, join_waiters>>
  BY DEF Fork
<1>4. /\ fibers'[id].status = "Ready" /\ fibers'[id].ctl.c = "code"
      /\ \A g \in FiberId \ {id} : fibers'[g] = fibers[g]
  BY <1>3, InVec DEF NewFiber, Code
<1>5. Waiters' = Waiters /\ want' = want /\ f \notin Waiters /\ id \notin Waiters
  BY <1>2, <1>3, KeptWants, Places
<1>6. \A g \in FiberId \ {id} : (g < next_fiber_id)' <=> g < next_fiber_id
  BY <1>1, <1>3, SMT DEF FiberId
<1>7. \A g \in FiberId \ {id} : PhaseOf(g)' = PhaseOf(g)
  BY <1>3, <1>4, <1>5, <1>6 DEF PhaseOf
<1>8. \A g \in FiberId \ {f} : InboxOf(g)' = InboxOf(g)
  <2>1. InboxOf(id)' = InboxOf(id)
    BY <1>2, <1>3, <1>4 DEF InboxOf, Registers
  <2>2. \A g \in FiberId \ {f, id} : InboxOf(g)' = InboxOf(g)
    BY <1>3, <1>4 DEF InboxOf, Registers
  <2> QED
    BY <2>1, <2>2
<1>9. PhaseOf(id) = "unborn" /\ PhaseOf(id)' = "ready"
  <2>1. ~(id < next_fiber_id)
    BY <1>1, SMT
  <2> QED
    BY <1>2, <1>3, <1>4, <1>5, <2>1 DEF PhaseOf
<1>10. InboxOf(f)' = None
  BY <1>3 DEF InboxOf, Registers, Deliver
<1>11. phase[f] = "running"
  BY Places DEF phase
<1>12. phase' = [phase EXCEPT ![id] = "ready"] /\ inbox' = [inbox EXCEPT ![f] = None]
  BY <1>7, <1>8, <1>9, <1>10, OnePhase, OneInbox
<1>13. Pool!ForkFiber(f, id)
  BY <1>5, <1>9, <1>11, <1>12 DEF Pool!ForkFiber, phase, want, inbox
<1> QED
  BY <1>11, <1>13, RunningSteps

\* A fate that was there is taken, and whose it is is what the value says.
LEMMA TakenPool ==
    ASSUME SchedInv, ValOwn, NEW t \in FiberId, JoinFinished(t)
    PROVE  PoolStep
<1>1. current # None /\ fibers[t].status \in {"Completed", "Failed"}
  BY DEF JoinFinished, Working, Runnable
<1> PICK f \in FiberId : f = current
  BY <1>1, Places
<1>2. f # t /\ t \notin Waiters /\ f \notin Waiters /\ fibers[t].val = t
  BY <1>1, Places DEF ValOwn
<1>3. /\ fibers' = [fibers EXCEPT ![t] = AbsentFiber]
      /\ control' = Deliver(control, FateOf(fibers[t].status), t)
      /\ UNCHANGED <<current, join_waiters, next_fiber_id>>
  BY <1>2 DEF JoinFinished, Consumed
<1>4. fibers'[t].status = "Absent" /\ \A g \in FiberId \ {t} : fibers'[g] = fibers[g]
  BY <1>3, InVec DEF AbsentFiber
<1>5. Waiters' = Waiters /\ want' = want
  BY <1>3, KeptWants
<1>6. \A g \in FiberId \ {t} : PhaseOf(g)' = PhaseOf(g)
  BY <1>3, <1>4, <1>5 DEF PhaseOf
<1>7. \A g \in FiberId \ {f} : InboxOf(g)' = InboxOf(g)
  <2>1. InboxOf(t)' = None /\ InboxOf(t) = None
    BY <1>1, <1>4 DEF InboxOf
  <2>2. \A g \in FiberId \ {f, t} : InboxOf(g)' = InboxOf(g)
    BY <1>3, <1>4 DEF InboxOf, Registers
  <2> QED
    BY <2>1, <2>2
<1>8. PhaseOf(t) = "finished" /\ PhaseOf(t)' = "gone"
  <2>1. t \in Int /\ next_fiber_id \in Int /\ ~(t >= next_fiber_id)
    BY <1>1, Split, Constants DEF IdsInOrder, Core, FiberId
  <2>2. t < next_fiber_id /\ next_fiber_id' = next_fiber_id
    BY <1>3, <2>1
  <2>3. PhaseOf(t) = "finished"
    <3>1. t # current /\ t \notin Waiters
      BY <1>2
    <3> HIDE DEF FiberId
    <3>2. CASE fibers[t].status = "Completed"
      BY <3>1, <3>2 DEF PhaseOf
    <3>3. CASE fibers[t].status = "Failed"
      BY <3>1, <3>3 DEF PhaseOf
    <3> QED
      BY <1>1, <3>2, <3>3
  <2>4. PhaseOf(t)' = "gone"
    <3>1. t # current' /\ t \notin Waiters'
      BY <1>2, <1>3, <1>5
    <3> QED
      BY <1>4, <2>2, <3>1 DEF PhaseOf
  <2> QED
    BY <2>3, <2>4
<1>9. InboxOf(f)' = t
  <2>1. control'.c \in {"ok", "err"} /\ control'.of = t
    BY <1>3 DEF Deliver, FateOf
  <2> QED
    BY <1>1, <1>2, <1>3, <1>4, <2>1, Places DEF InboxOf, Registers
<1>10. phase[f] = "running" /\ phase[t] = "finished"
  BY <1>1, <1>8, Places DEF phase
<1>11. phase' = [phase EXCEPT ![t] = "gone"] /\ inbox' = [inbox EXCEPT ![f] = t]
  BY <1>6, <1>7, <1>8, <1>9, OnePhase, OneInbox
<1>12. Pool!JoinNow(f, t)
  BY <1>5, <1>10, <1>11 DEF Pool!JoinNow, phase, want, inbox
<1> QED
  BY <1>10, <1>12, RunningSteps

\* A join on an unfinished fiber, the caller itself included.
LEMMA WaitsPool == ASSUME SchedInv, NEW t \in FiberId, JoinWaits(t) PROVE PoolStep
<1>1. /\ current # None /\ current' = None
      /\ fibers[t].status \in {"Ready", "Running", "BlockedOnHost"}
      /\ join_waiters' = [join_waiters EXCEPT ![t] = Append(@, current)]
      /\ next_fiber_id' = next_fiber_id /\ fibers' = Saved(Suspended)
  BY DEF JoinWaits, Working, Runnable, MayWait
<1> PICK f \in FiberId : f = current
  BY <1>1, Places
<1>2. f \notin Waiters /\ None \notin FiberId /\ phase[f] = "running"
  BY <1>1, Places DEF phase
<1>3. \A u \in FiberId : Waiting(u)' = IF u = t THEN Waiting(u) \cup {f} ELSE Waiting(u)
  <2>1. /\ join_waiters \in [FiberId -> Seq(FiberId)]
        /\ IsInjective(join_waiters[t]) /\ f \notin Range(join_waiters[t])
    BY <1>2, Places DEF Core, WaitersSound, Waiters, Waiting
  <2>2. Range(Append(join_waiters[t], f)) = Range(join_waiters[t]) \cup {f}
    BY <2>1, PushBack
  <2> QED
    BY <1>1, <2>1, <2>2 DEF Waiting
<1>4. Waiters' = Waiters \cup {f}
  <2>1. \A w : w \in Waiters' <=> \E u \in FiberId : w \in Waiting(u)'
    BY DEF Waiters
  <2>2. \A w : w \in Waiters <=> \E u \in FiberId : w \in Waiting(u)
    BY DEF Waiters
  <2> QED
    BY <1>3, <2>1, <2>2
<1>5. Suspended \in Ctl /\ Suspended.c = "suspend"
  <2>1. control \in Ctl
    BY Split DEF Rest
  <2> QED
    BY <2>1, DeliverType, Constants DEF CtlKind, Deliver, Suspended
<1>6. /\ fibers'[f].status = "Ready" /\ fibers'[f].ctl.c = "suspend"
      /\ \A g \in FiberId \ {f} : fibers'[g] = fibers[g]
  BY <1>1, <1>5, SavedFacts
<1>7. \A g \in FiberId \ {f} : PhaseOf(g)' = PhaseOf(g) /\ InboxOf(g)' = InboxOf(g)
  BY <1>1, <1>2, <1>4, <1>6, Kept
<1>8. PhaseOf(f)' = "joining" /\ InboxOf(f)' = None
  BY <1>1, <1>2, <1>4, <1>6 DEF PhaseOf, InboxOf, Registers
<1>9. want' = [want EXCEPT ![f] = t]
  <2>1. SchedInv'
    BY JoinWaitsInv
  <2>2. WaitersSound /\ WaitersSound'
    BY <2>1 DEF SchedInv
  <2>3. WantOf(f)' = t
    BY <1>3, <2>2, WantIsNext
  <2>4. ASSUME NEW g \in FiberId \ {f} PROVE WantOf(g)' = WantOf(g)
    <3>1. CASE g \in Waiters
      <4>1. PICK u \in FiberId : g \in Waiting(u)
        BY <3>1 DEF Waiters
      <4>2. g \in Waiting(u)'
        BY <1>3, <4>1
      <4> QED
        BY <2>2, <4>1, <4>2, WantIs, WantIsNext
    <3>2. CASE g \notin Waiters
      BY <1>4, <2>2, <3>2, WantIs, WantIsNext
    <3> QED
      BY <3>1, <3>2
  <2> QED
    BY <2>3, <2>4 DEF want
<1>10. phase[t] \in {"ready", "running", "joining", "host"}
  BY <1>1 DEF phase, PhaseOf
<1>11. phase' = [phase EXCEPT ![f] = "joining"] /\ inbox' = [inbox EXCEPT ![f] = None]
  BY <1>7, <1>8, OnePhase, OneInbox
<1>12. Pool!JoinLater(f, t)
  BY <1>2, <1>9, <1>10, <1>11 DEF Pool!JoinLater, phase, want, inbox
<1> QED
  BY <1>2, <1>12, RunningSteps

\* The running fiber ends: everybody who waits for it is given its fate.
LEMMA EndsPool ==
    ASSUME SchedInv, SchedInv', current # None, NEW fs \in [FiberId -> Fiber],
           \A g \in FiberId \ {current} : fs[g] = fibers[g],
           NEW ms, NEW status \in {"Completed", "Failed"},
           NEW val \in Value, val = current, Settle(fs, ms, status, val),
           next_fiber_id' = next_fiber_id
    PROVE  PoolStep
<1> PICK f \in FiberId : f = current
  BY Places
<1> DEFINE joiners == {g \in FiberId : want[g] = f}
<1>0. Core
  BY Split
<1>1. /\ Core /\ f \notin Waiters /\ None \notin FiberId /\ phase[f] = "running"
      /\ Waiting(f) \subseteq Waiters /\ Waiters \subseteq FiberId
      /\ WaitersSound /\ WaitersSound'
  BY Places, PlacesFacts DEF phase, SchedInv
<1>2. joiners = Waiting(f)
  <2>1. \A g \in Waiting(f) : WantOf(g) = f
    BY <1>1, WantIs
  <2>2. ASSUME NEW g \in FiberId, WantOf(g) = f PROVE g \in Waiting(f)
    <3>1. g \in Waiters
      BY <1>1, <2>2, WantIs
    <3>2. PICK u \in FiberId : g \in Waiting(u)
      BY <3>1 DEF Waiters
    <3> QED
      BY <1>1, <2>2, <3>2, WantIs
  <2> QED
    BY <1>1, <2>1, <2>2 DEF want
<1> HIDE DEF joiners
<1>3. current' = None /\ Waiters' = Waiters \ joiners
  BY <1>1, <1>2, SettlePlaces
<1>4. \A u \in FiberId : Waiting(u)' = IF u = f THEN {} ELSE Waiting(u)
  <2>1. \A u \in FiberId : Waiting(u)' = IF u = current THEN {} ELSE Waiting(u)
    BY <1>0, SettlePlaces
  <2> QED
    BY <2>1
<1>5. \A g \in FiberId \ ({f} \cup joiners) : fibers'[g] = fibers[g]
  <2>1. \A g \in FiberId \ ({current} \cup Waiting(current)) : fibers'[g] = fibers[g]
    BY <1>0, SettleFibers
  <2> QED
    BY <1>2, <2>1
<1>6. \A g \in joiners : fibers'[g].status = "Ready"
  <2>1. \A w \in Waiting(current) : fibers'[w].status = "Ready"
    BY <1>0, SettleWoken
  <2> QED
    BY <1>2, <2>1
<1>7. \A g \in joiners : fibers'[g].ctl.c \in {"ok", "err"} /\ fibers'[g].ctl.of = f
  <2>1. \A g \in joiners : fibers'[g].ctl = Deliver(fibers[g].ctl, FateOf(status), val)
    BY <1>1, <1>2, SettleWoken
  <2>2. FateOf(status) \in {"ok", "err"}
    BY DEF FateOf
  <2>3. \A ctl : /\ Deliver(ctl, FateOf(status), val).c = FateOf(status)
                 /\ Deliver(ctl, FateOf(status), val).of = val
    BY DEF Deliver
  <2> QED
    BY <2>1, <2>2, <2>3
<1>8. joiners = {} => fibers'[f].status \in {"Completed", "Failed"}
  BY <1>1, <1>2, SettleFibers
<1>9. joiners # {} => fibers'[f].status = "Absent"
  <2>1. Waiting(f) # {} => fibers'[f] = AbsentFiber
    BY <1>0, SettleFibers
  <2> QED
    BY <1>2, <2>1 DEF AbsentFiber
<1>10. f \notin joiners /\ joiners \subseteq FiberId
  BY <1>1, <1>2
<1>11. \A g \in joiners : PhaseOf(g)' = "ready" /\ InboxOf(g)' = f /\ WantOf(g)' = None
  <2>1. \A g \in joiners : g # current' /\ g \notin Waiters'
    BY <1>1, <1>3, <1>10
  <2>2. \A g \in joiners : PhaseOf(g)' = "ready"
    BY <1>6, <2>1 DEF PhaseOf
  <2>3. \A g \in joiners : InboxOf(g)' = f
    BY <1>6, <1>7, <2>1 DEF InboxOf, Registers
  <2> QED
    BY <1>1, <2>1, <2>2, <2>3, WantIsNext
<1>12. \A g \in FiberId \ ({f} \cup joiners) : PhaseOf(g)' = PhaseOf(g) /\ InboxOf(g)' = InboxOf(g)
  BY <1>1, <1>3, <1>5, Kept
<1>13. \A g \in FiberId \ joiners : WantOf(g)' = WantOf(g)
  <2> TAKE g \in FiberId \ joiners
  <2>1. CASE g \in Waiters
    <3>1. PICK u \in FiberId : g \in Waiting(u)
      BY <2>1 DEF Waiters
    <3>2. g \in Waiting(u)'
      BY <1>2, <1>4, <3>1
    <3> QED
      BY <1>1, <3>1, <3>2, WantIs, WantIsNext
  <2>2. CASE g \notin Waiters
    BY <1>1, <1>3, <2>2, WantIs, WantIsNext
  <2> QED
    BY <2>1, <2>2
<1>14. PhaseOf(f)' = (IF joiners = {} THEN "finished" ELSE "gone") /\ InboxOf(f)' = None
  <2>1. f # current' /\ f \notin Waiters'
    BY <1>1, <1>3
  <2>2. CASE joiners = {}
    <3>1. PhaseOf(f)' = "finished"
      <4>1. CASE fibers'[f].status = "Completed"
        BY <2>1, <4>1 DEF PhaseOf
      <4>2. CASE fibers'[f].status = "Failed"
        BY <2>1, <4>2 DEF PhaseOf
      <4> QED
        BY <1>8, <2>2, <4>1, <4>2
    <3> QED
      BY <1>8, <2>2, <3>1 DEF InboxOf
  <2>3. CASE joiners # {}
    <3>1. f \in Int /\ next_fiber_id \in Int /\ ~(f >= next_fiber_id)
      BY Places, Constants DEF IdsInOrder, Core, FiberId
    <3>2. f < next_fiber_id'
      BY <3>1
    <3> QED
      BY <1>9, <2>1, <2>3, <3>2 DEF PhaseOf, InboxOf
  <2> QED
    BY <2>2, <2>3
<1>15. phase' = [g \in FiberId |->
            IF g \in joiners THEN "ready"
            ELSE IF g # f THEN phase[g]
            ELSE IF joiners = {} THEN "finished" ELSE "gone"]
  BY <1>10, <1>11, <1>12, <1>14 DEF phase
<1>16. want' = [g \in FiberId |-> IF g \in joiners THEN None ELSE want[g]]
  BY <1>10, <1>11, <1>13 DEF want
<1>17. inbox' = [g \in FiberId |->
            IF g \in joiners THEN f ELSE IF g = f THEN None ELSE inbox[g]]
  BY <1>10, <1>11, <1>12, <1>14 DEF inbox
<1>18. Pool!Finish(f)
  BY <1>1, <1>15, <1>16, <1>17 DEF Pool!Finish, joiners, phase, want, inbox
<1> QED
  BY <1>1, <1>18, RunningSteps

\* Faults: the root's leaves it where it is, a child's ends it.
LEMMA FaultsPool ==
    ASSUME SchedInv, SchedInv', Faulting, next_fiber_id' = next_fiber_id PROVE PoolStep
<1>1. /\ current \in FiberId /\ current # None /\ current \in Value
      /\ control'.c \in {"undefined", "suspend", "restored"}
  BY FaultForm, Constants
<1>2. PICK fs \in [FiberId -> Fiber] : \E ms :
        /\ \A f \in FiberId \ {current} : fs[f] = fibers[f]
        /\ \/ fibers' = fs /\ UNCHANGED <<ready_queue, current, join_waiters>>
           \/ Settle(fs, ms, "Failed", current)
  BY FaultForm
<1> PICK f \in FiberId : f = current
  BY <1>1
<1>3. CASE fibers' = fs /\ UNCHANGED <<ready_queue, current, join_waiters>>
  <2>1. current' # None /\ current' = f
    BY <1>1, <1>3
  <2>2. fibers'[f].status \in {"Ready", "Running"}
    BY <2>1 DEF SchedInv, RunningIsCurrent
  <2> QED
    BY <1>1, <1>2, <1>3, <2>2, RunOnPool
<1>4. ASSUME NEW ms, Settle(fs, ms, "Failed", current) PROVE PoolStep
  BY <1>1, <1>2, <1>4, EndsPool
<1> QED
  BY <1>2, <1>3, <1>4

\* The running fiber is saved: preempted, paused, asking the host, or read back.
LEMMA SavingPool ==
    ASSUME SchedInv, SlicePreempted \/ PauseOutOfFuel \/ SnapshotResumed \/ EffectHost
    PROVE  PoolStep
<1>1. /\ current # None /\ current' = None /\ UNCHANGED <<join_waiters, next_fiber_id>>
  BY DEF SlicePreempted, PauseOutOfFuel, SnapshotResumed, EffectHost, Working, Runnable, Dry
<1> PICK f \in FiberId : f = current
  BY <1>1, Places
<1>2. control \in Ctl /\ fibers \in [FiberId -> Fiber]
  BY Split DEF Core, Rest
<1>3. \A c \in {"code", "suspend", "restored"} :
        Deliver(control, c, None) \in Ctl /\ Deliver(control, c, None).c = c
  BY <1>2, DeliverType, Constants DEF CtlKind, Deliver
<1>4. CASE PauseOutOfFuel
  <2>1. fibers' = Saved(control)
    BY <1>4 DEF PauseOutOfFuel
  <2>2. /\ fibers'[f].status = "Ready" /\ fibers'[f].ctl = control
        /\ \A g \in FiberId \ {f} : fibers'[g] = fibers[g]
    BY <1>1, <1>2, <2>1, SavedFacts
  <2> QED
    BY <1>1, <2>2, SavedPool
<1>5. CASE SlicePreempted \/ SnapshotResumed
  <2>1. PICK c \in {"code", "restored"} : fibers' = Saved(Deliver(control, c, None))
    BY <1>5 DEF SlicePreempted, SnapshotResumed
  <2>2. /\ fibers'[f].status = "Ready" /\ fibers'[f].ctl.c = c
        /\ \A g \in FiberId \ {f} : fibers'[g] = fibers[g]
    BY <1>1, <1>3, <2>1, SavedFacts
  <2> QED
    BY <1>1, <2>2, SavedPool
<1>6. CASE EffectHost
  <2>1. fibers' = [Saved(Suspended) EXCEPT ![current].status = "BlockedOnHost"]
    BY <1>6 DEF EffectHost
  <2>2. /\ Saved(Suspended) \in [FiberId -> Fiber] /\ Saved(Suspended)[f].ctl = Suspended
        /\ \A g \in FiberId \ {f} : Saved(Suspended)[g] = fibers[g]
    BY <1>1, <1>3, SavedFacts DEF Suspended
  <2>3. /\ fibers'[f].status = "BlockedOnHost" /\ fibers'[f].ctl = Suspended
        /\ \A g \in FiberId \ {f} : fibers'[g] = fibers[g]
    BY <2>1, <2>2 DEF Fiber
  <2>4. fibers'[f].ctl.c = "suspend"
    BY <1>3, <2>3 DEF Suspended
  <2> QED
    BY <1>1, <2>3, <2>4, SavedPool
<1> QED
  BY <1>4, <1>5, <1>6

\* Print, Gc, and Snapshot for the run that goes on.
LEMMA KeepsPool ==
    ASSUME SchedInv, EffectPlain \/ SnapshotWritten PROVE PoolStep
<1>1. /\ current # None /\ UNCHANGED <<current, join_waiters, next_fiber_id>>
  BY DEF EffectPlain, SnapshotWritten, Working, Runnable
<1> PICK f \in FiberId : f = current
  BY <1>1, Places
<1>2. control \in Ctl /\ control'.c \notin {"ok", "err"}
  <2>1. \E c \in {"undefined", "saved"} : control' = Deliver(control, c, None)
    BY DEF EffectPlain, SnapshotWritten
  <2> QED
    BY <2>1, Split DEF Rest, Deliver
<1>3. /\ fibers'[f].status \in {"Ready", "Running"}
      /\ \A g \in FiberId \ {f} : fibers'[g] = fibers[g]
  <2>1. CASE EffectPlain
    BY <1>1, <2>1, Places DEF EffectPlain
  <2>2. CASE SnapshotWritten
    <3>1. fibers' = Saved(Deliver(control, "restored", None))
      BY <2>2 DEF SnapshotWritten
    <3>2. Deliver(control, "restored", None) \in Ctl
      BY <1>2, DeliverType, Constants DEF CtlKind
    <3> QED
      BY <1>1, <3>1, <3>2, SavedFacts
  <2> QED
    BY <2>1, <2>2
<1> QED
  BY <1>1, <1>2, <1>3, RunOnPool

\* Everything the loop does.
LEMMA LoopPool ==
    ASSUME SchedInv, SchedInv', OwnContinuation, ValOwn, SchedulerStep PROVE PoolStep
<1>1. CASE DrainPending \/ DrainDone
  BY <1>1, QuietPool DEF DrainPending, DrainDone
<1>2. CASE SliceDone \/ FailDry
  <2>1. next_fiber_id' = next_fiber_id
    BY <1>2 DEF SliceDone, FailDry
  <2>2. current # None /\ fibers \in [FiberId -> Fiber] /\ control.k = current
    BY <1>2, EndForm, InVec, OwnSplit
  <2>3. PICK status \in {"Completed", "Failed"}, val \in Value : \E ms :
          Settle(fibers, ms, status, val) /\ val = current
    BY <1>2, <2>2, EndForm
  <2> QED
    BY <2>1, <2>2, <2>3, EndsPool
<1>3. CASE Faulting
  <2>1. next_fiber_id' = next_fiber_id
    BY <1>3
       DEF Faulting, SliceFault, EffectRefused, ForkInsufficient, SnapshotFailed, JoinMissing
  <2> QED
    BY <1>3, <2>1, FaultsPool
<1>4. CASE ForkShared \/ ForkCarved
  <2>1. current # None /\ \E spent, ms, m : Fork(spent, ms, m)
    BY <1>4 DEF ForkShared, ForkCarved, Working, Runnable
  <2> QED
    BY <2>1, ForkPool
<1>5. CASE SlicePreempted \/ PauseOutOfFuel \/ SnapshotResumed \/ EffectHost
  BY <1>5, SavingPool
<1>6. CASE EffectPlain \/ SnapshotWritten
  BY <1>6, KeepsPool
<1>7. CASE SelectNextFiber
  BY <1>7, TurnPool
<1>8. CASE \E t \in FiberId : JoinFinished(t) \/ JoinWaits(t)
  BY <1>8, TakenPool, WaitsPool
<1> QED
  BY <1>1, <1>2, <1>3, <1>4, <1>5, <1>6, <1>7, <1>8, LoopSteps

\* Everything the host does, to a runtime that evaluates no empty source.
LEMMA HostPool == ASSUME SchedInv, "empty" \notin Programs, HostStep PROVE PoolStep
<1>1. CASE \/ Continue \/ CheckpointResumed
           \/ \E budget \in Budgets : SetFuel(budget)
           \/ \E amount \in Refuels : AddFuel(amount)
  BY <1>1, QuietPool DEF Continue, CheckpointResumed, SetFuel, AddFuel
<1>2. ASSUME NEW program \in Programs, RunFresh(program) PROVE PoolStep
  <2>1. /\ current' = None /\ next_fiber_id' = 1
        /\ join_waiters' = [f \in FiberId |-> <<>>]
        /\ fibers' = [f \in FiberId |->
                        IF f = RootFiber THEN NewFiber(control', Root) ELSE AbsentFiber]
    BY <1>2 DEF RunFresh
  <2>2. Waiters' = {}
    BY <2>1, EmptyRange DEF Waiters, Waiting
  <2>3. \A f \in FiberId : WantOf(f)' = None
    BY <2>2 DEF WantOf
  <2> SUFFICES Pool!StartRun
    BY DEF PoolStep, Pool!PoolNext
  <2>4. \A f \in FiberId \ {RootFiber} : ~(f < next_fiber_id')
    BY <2>1, Constants, SMT DEF FiberId, RootFiber
  <2>5. \A f \in FiberId \ {RootFiber} : PhaseOf(f)' = "unborn" /\ InboxOf(f)' = None
    <3>1. \A f \in FiberId \ {RootFiber} : /\ fibers'[f].status = "Absent"
                                           /\ f # current' /\ f \notin Waiters'
      BY <2>1, <2>2, Constants DEF AbsentFiber
    <3> QED
      BY <2>4, <3>1 DEF PhaseOf, InboxOf
  <2>6. PhaseOf(RootFiber)' = "ready"
    <3>1. RootFiber \in FiberId /\ fibers'[RootFiber].status = "Ready"
      BY <2>1, Constants DEF NewFiber
    <3>2. RootFiber # current' /\ RootFiber \notin Waiters'
      BY <2>1, <2>2, <3>1, Constants
    <3> QED
      BY <3>1, <3>2 DEF PhaseOf
  <2>7. InboxOf(RootFiber)' = None
    <3>1. control' = Code(RootFiber)
      BY <1>2, SchedulerAssumption DEF RunFresh, FreshControl
    <3>2. fibers'[RootFiber].ctl.c = "code" /\ RootFiber # current'
      BY <2>1, <3>1, Constants DEF NewFiber, Code
    <3> QED
      BY <3>2 DEF InboxOf, Registers
  <2> QED
    BY <2>3, <2>5, <2>6, <2>7 DEF Pool!StartRun, Pool!Nobody
<1>3. ASSUME NEW f \in FiberId, ResumeWith(f) PROVE PoolStep
  <2>1. /\ fibers[f].status = "BlockedOnHost" /\ f # current /\ f \notin Waiters
        /\ UNCHANGED <<current, join_waiters, next_fiber_id, control>>
    BY <1>3, Places DEF ResumeWith, BlockedOnHost
  <2>2. /\ fibers'[f].status = "Ready" /\ fibers'[f].ctl.c = "answer"
        /\ \A g \in FiberId \ {f} : fibers'[g] = fibers[g]
    BY <1>3, InVec DEF ResumeWith, Fiber, Deliver
  <2>3. Waiters' = Waiters /\ want' = want
    BY <2>1, KeptWants
  <2>4. \A g \in FiberId \ {f} : PhaseOf(g)' = PhaseOf(g) /\ InboxOf(g)' = InboxOf(g)
    BY <2>1, <2>2, <2>3 DEF PhaseOf, InboxOf, Registers
  <2>5. PhaseOf(f) = "host" /\ PhaseOf(f)' = "ready" /\ InboxOf(f)' = InboxOf(f)
    <3>1. PhaseOf(f) = "host" /\ PhaseOf(f)' = "ready"
      BY <2>1, <2>2, <2>3 DEF PhaseOf
    <3>2. InboxOf(f) = None /\ InboxOf(f)' = None
      BY <2>1, <2>2 DEF InboxOf, Registers
    <3> QED
      BY <3>1, <3>2
  <2>6. phase' = [phase EXCEPT ![f] = "ready"] /\ inbox' = inbox
    BY <2>4, <2>5, OnePhase DEF inbox
  <2>7. Pool!HostAnswers(f)
    BY <2>3, <2>5, <2>6 DEF Pool!HostAnswers, phase, want, inbox
  <2> QED
    BY <2>7 DEF PoolStep, Pool!PoolNext
<1> QED
  BY <1>1, <1>2, <1>3 DEF HostStep

-----------------------------------------------------------------------------

\* The fates are named by the fibers they belong to, at every end of a fiber.
LEMMA ValOwnEnds ==
    ASSUME SchedInv, ValOwn, current # None, NEW fs \in [FiberId -> Fiber],
           \A g \in FiberId \ {current} : fs[g] = fibers[g],
           NEW ms, NEW status \in {"Completed", "Failed"},
           NEW val \in Value, val = current, Settle(fs, ms, status, val)
    PROVE  ValOwn'
<1>1. Core
  BY Split
<1>2. \A w \in Waiting(current) : fibers'[w].status = "Ready"
  BY <1>1, SettleWoken
<1>3. \A f \in FiberId \ ({current} \cup Waiting(current)) : fibers'[f] = fibers[f]
  BY <1>1, SettleFibers
<1>4. Waiting(current) = {} => fibers'[current].val = val
  BY <1>1, SettleFibers
<1>5. Waiting(current) # {} => fibers'[current].status = "Absent"
  <2>1. Waiting(current) # {} => fibers'[current] = AbsentFiber
    BY <1>1, SettleFibers
  <2> QED
    BY <2>1 DEF AbsentFiber
<1> QED
  BY <1>2, <1>3, <1>4, <1>5 DEF ValOwn

\* A step that finishes nobody and touches no finished fiber but to remove it.
LEMMA ValOwnElse ==
    ASSUME ValOwn,
           \A g \in FiberId : \/ fibers'[g] = fibers[g]
                              \/ fibers'[g].status \notin {"Completed", "Failed"}
    PROVE  ValOwn'
BY DEF ValOwn

\* ValOwn is kept by every step.
LEMMA ValOwnStep == ASSUME SchedInv, OwnContinuation, ValOwn, [Next]_vars PROVE ValOwn'
<1>1. /\ fibers \in [FiberId -> Fiber] /\ control \in Ctl
      /\ current # None => current \in FiberId
      /\ AbsentFiber.status = "Absent"
  BY InVec, Split DEF Rest, AbsentFiber
<1>2. CASE UNCHANGED fibers
  BY <1>2 DEF ValOwn
<1>3. CASE SelectNextFiber
  <2>1. Head(ready_queue) \in FiberId
    BY <1>3, PopFront, Split DEF SelectNextFiber, Core, QueueSound
  <2> QED
    BY <1>1, <1>3, <2>1, ValOwnElse DEF SelectNextFiber, Fiber
<1>4. CASE PauseOutOfFuel \/ SlicePreempted \/ SnapshotWritten \/ SnapshotResumed \/ EffectHost
           \/ \E t \in FiberId : JoinWaits(t)
  <2>1. current # None
    BY <1>4 DEF PauseOutOfFuel, SlicePreempted, SnapshotWritten, SnapshotResumed, EffectHost,
       JoinWaits, Working, Runnable, Dry
  <2>2. PICK ctl \in Ctl : \/ fibers' = Saved(ctl)
                           \/ fibers' = [Saved(ctl) EXCEPT ![current].status = "BlockedOnHost"]
    <3>1. \A c \in {"restored", "suspend", "code"} : Deliver(control, c, None) \in Ctl
      BY <1>1, DeliverType, Constants DEF CtlKind
    <3> QED
      BY <1>1, <1>4, <3>1
         DEF PauseOutOfFuel, SlicePreempted, SnapshotWritten, SnapshotResumed, EffectHost,
             JoinWaits, Suspended
  <2>3. /\ Saved(ctl) \in [FiberId -> Fiber] /\ Saved(ctl)[current].status = "Ready"
        /\ \A g \in FiberId \ {current} : Saved(ctl)[g] = fibers[g]
    BY <2>1, SavedFacts
  <2>4. /\ fibers'[current].status \in {"Ready", "BlockedOnHost"}
        /\ \A g \in FiberId \ {current} : fibers'[g] = fibers[g]
    BY <1>1, <2>1, <2>2, <2>3 DEF Fiber
  <2> QED
    BY <2>4, ValOwnElse
<1>5. CASE ForkShared \/ ForkCarved
  <2>1. \E m : fibers' = [fibers EXCEPT ![next_fiber_id] = NewFiber(Code(next_fiber_id), m)]
    BY <1>5 DEF ForkShared, ForkCarved, Fork
  <2> QED
    BY <1>1, <2>1, ValOwnElse DEF NewFiber
<1>6. CASE \E t \in FiberId : JoinFinished(t)
  BY <1>1, <1>6, ValOwnElse DEF JoinFinished, Consumed
<1>7. CASE SliceDone \/ FailDry
  <2>1. current # None /\ control.k = current
    BY <1>7, EndForm, OwnSplit
  <2>2. PICK status \in {"Completed", "Failed"}, val \in Value : \E ms :
          Settle(fibers, ms, status, val) /\ val = current
    BY <1>7, <2>1, EndForm
  <2> QED
    BY <1>1, <2>1, <2>2, ValOwnEnds
<1>8. CASE Faulting
  <2>1. /\ current # None /\ current \in Value /\ current \in FiberId
    BY <1>8, FaultForm, Constants
  <2>2. PICK fs \in [FiberId -> Fiber] : \E ms :
          /\ \A f \in FiberId \ {current} : fs[f] = fibers[f]
          /\ \/ fibers' = fs /\ UNCHANGED <<ready_queue, current, join_waiters>>
             \/ Settle(fs, ms, "Failed", current)
    BY <1>8, FaultForm
  <2>3. CASE fibers' = fs /\ UNCHANGED <<ready_queue, current, join_waiters>>
    <3>1. SchedInv'
      BY <1>8, SchedulerStepInv, LoopSteps
    <3>2. fibers'[current].status \in {"Ready", "Running"}
      BY <2>1, <2>3, <3>1 DEF SchedInv, RunningIsCurrent
    <3> QED
      BY <2>2, <2>3, <3>2, ValOwnElse
  <2> QED
    BY <2>1, <2>2, <2>3, ValOwnEnds
<1>9. CASE \E program \in Programs : RunFresh(program)
  BY <1>1, <1>9 DEF RunFresh, NewFiber, ValOwn
<1>10. ASSUME NEW f \in FiberId, ResumeWith(f) PROVE ValOwn'
  BY <1>1, <1>10, ValOwnElse DEF ResumeWith, Fiber
<1>11. CASE DrainPending \/ DrainDone \/ EffectPlain \/ Continue \/ CheckpointResumed
            \/ (\E budget \in Budgets : SetFuel(budget))
            \/ (\E amount \in Refuels : AddFuel(amount)) \/ UNCHANGED vars
  BY <1>2, <1>11
     DEF DrainPending, DrainDone, EffectPlain, Continue, CheckpointResumed, SetFuel, AddFuel, vars
<1> QED
  BY <1>3, <1>4, <1>5, <1>6, <1>7, <1>8, <1>9, <1>10, <1>11, LoopSteps DEF Next, HostStep

\* The scheduler implements the pool, for any number of fibers, any quantum and
\* any budget: whatever the queue, the meters, the slices, the snapshots and the
\* host do, programs see fibers that fork, take turns, ask the host, end and are
\* joined, and every fate reaches exactly those that the pool says.
THEOREM PoolImplemented == "empty" \notin Programs => (Spec => ImplementsPool)
<1> SUFFICES ASSUME "empty" \notin Programs PROVE Spec => ImplementsPool
  OBVIOUS
<1>1. Init => Pool!PoolInit
  <2> SUFFICES ASSUME Init PROVE Pool!PoolInit
    OBVIOUS
  <2>1. Waiters = {}
    BY EmptyRange DEF Init, Waiters, Waiting
  <2>2. \A f \in FiberId : ~(f < next_fiber_id)
    BY Constants, SMT DEF Init, FiberId
  <2>3. \A f \in FiberId : PhaseOf(f) = "unborn" /\ WantOf(f) = None /\ InboxOf(f) = None
    <3>1. \A f \in FiberId : fibers[f].status = "Absent" /\ f # current
      BY Constants DEF Init, AbsentFiber
    <3> QED
      BY <2>1, <2>2, <3>1 DEF PhaseOf, WantOf, InboxOf
  <2> QED
    BY <2>3 DEF Pool!PoolInit, Pool!Nobody
<1>2. Init => ValOwn
  BY DEF Init, ValOwn, AbsentFiber
<1>3. SchedInv /\ SchedInv' /\ OwnContinuation /\ ValOwn /\ [Next]_vars
        => [Pool!PoolNext]_(Pool!poolVars)
  <2> SUFFICES ASSUME SchedInv, SchedInv', OwnContinuation, ValOwn, [Next]_vars PROVE PoolStep
    BY DEF PoolStep, Pool!poolVars, phase, want, inbox
  <2>1. CASE UNCHANGED vars
    BY <2>1, QuietPool DEF vars
  <2> QED
    BY <2>1, LoopPool, HostPool DEF Next
<1>4. SchedInv /\ OwnContinuation /\ ValOwn /\ [Next]_vars => ValOwn'
  BY ValOwnStep
<1>5. Spec => []OwnContinuation
  BY OwnContinuationHolds
<1> QED
  BY <1>1, <1>2, <1>3, <1>4, <1>5, SchedInvHolds, PTL DEF Spec, ImplementsPool, Pool!PoolSpec

-----------------------------------------------------------------------------
(* What is left in all the meters together. *)

\* g sums up what the first i slots hold, for each i.
Sums(ms, g) ==
    g = [i \in 0 .. Len(ms) |-> IF i = 0 THEN 0 ELSE g[i - 1] + ms[i].remaining]

\* There is such a function.
LEMMA SumsExist == ASSUME NEW ms, Len(ms) \in Nat PROVE \E g : Sums(ms, g)
<1> DEFINE up(n, g) == g = [i \in 0 .. n |-> IF i = 0 THEN 0 ELSE g[i - 1] + ms[i].remaining]
           S == {n \in Nat : \E g : up(n, g)}
<1>1. 0 \in S
  <2> DEFINE g == [i \in 0 .. 0 |-> 0]
  <2>1. up(0, g)
    BY SMT
  <2> QED
    BY <2>1
<1>2. ASSUME NEW n \in Nat, n \in S PROVE n + 1 \in S
  <2>1. PICK g : up(n, g)
    BY <1>2
  <2> DEFINE h == [i \in 0 .. n + 1 |-> IF i <= n THEN g[i] ELSE g[n] + ms[n + 1].remaining]
  <2>2. \A i \in 0 .. n : h[i] = g[i]
    BY SMT
  <2>3. h[n + 1] = g[n] + ms[n + 1].remaining
    BY SMT
  <2>4. \A i \in 0 .. n : g[i] = IF i = 0 THEN 0 ELSE g[i - 1] + ms[i].remaining
    BY <2>1
  <2>5. \A i \in 0 .. n + 1 : h[i] = IF i = 0 THEN 0 ELSE h[i - 1] + ms[i].remaining
    <3> SUFFICES ASSUME NEW i \in 0 .. n + 1
                 PROVE  h[i] = IF i = 0 THEN 0 ELSE h[i - 1] + ms[i].remaining
      OBVIOUS
    <3> HIDE DEF h
    <3>1. CASE i \in 0 .. n
      <4>1. i # 0 => i - 1 \in 0 .. n
        BY <3>1, SMT
      <4> QED
        BY <2>2, <2>4, <3>1, <4>1
    <3>2. CASE i = n + 1
      <4>1. i # 0 /\ i - 1 = n /\ n \in 0 .. n
        BY <3>2, SMT
      <4> QED
        BY <2>2, <2>3, <3>2, <4>1
    <3> QED
      BY <3>1, <3>2, SMT
  <2>6. h = [i \in 0 .. n + 1 |-> h[i]]
    OBVIOUS
  <2>7. up(n + 1, h)
    <3> DEFINE k == [i \in 0 .. n + 1 |-> IF i = 0 THEN 0 ELSE h[i - 1] + ms[i].remaining]
    <3>1. \A i \in 0 .. n + 1 : k[i] = IF i = 0 THEN 0 ELSE h[i - 1] + ms[i].remaining
      OBVIOUS
    <3>2. k = [i \in 0 .. n + 1 |-> k[i]]
      OBVIOUS
    <3>3. h = k
      <4> HIDE DEF h, k
      <4>1. \A i \in 0 .. n + 1 : h[i] = k[i]
        BY <2>5, <3>1
      <4> QED
        BY <2>6, <3>2, <4>1
    <3> QED
      BY <3>3
  <2>8. \E f : up(n + 1, f)
    <3> HIDE DEF h, up
    <3> QED
      BY <2>7
  <2> QED
    BY <2>8
<1>3. Nat \subseteq S
  <2> HIDE DEF S
  <2> QED
    BY <1>1, <1>2, SetInduction
<1> QED
  BY <1>3 DEF Sums

\* In an arena whose root has a budget every meter has.
LEMMA AllFinite ==
    ASSUME NEW ms, IsArena(ms), ms[Root].remaining # Unlimited
    PROVE  /\ Len(ms) \in Nat /\ Len(ms) >= 1
           /\ \A i \in 1 .. Len(ms) : ms[i].remaining \in Nat /\ ms[i].remaining < U64
<1>1. ms \in Seq(Meter) /\ Len(ms) \in Nat /\ Len(ms) >= 1
  BY SMT DEF IsArena
<1>2. \A i \in 1 .. Len(ms) : ms[i].remaining # Unlimited
  BY <1>1, SMT DEF IsArena, Root
<1>3. \A i \in 1 .. Len(ms) : ms[i].remaining \in Fuels \cup {Unlimited}
  BY ArenaSlot
<1> QED
  BY <1>1, <1>2, <1>3, FuelAssumption, SMT DEF Fuels

\* What is left is the last of the sums.
LEMMA LeftIsLast ==
    ASSUME NEW ms, IsArena(ms), ms[Root].remaining # Unlimited
    PROVE  \E g : /\ Left(ms) = g[Len(ms)] /\ g[0] = 0
                  /\ \A i \in 1 .. Len(ms) : g[i] = g[i - 1] + ms[i].remaining
                  /\ \A i \in 0 .. Len(ms) : g[i] \in Nat
<1>1. Len(ms) \in Nat /\ \A i \in 1 .. Len(ms) : ms[i].remaining \in Nat
  BY AllFinite
<1> DEFINE g == CHOOSE f : Sums(ms, f)
<1>2. Sums(ms, g)
  BY <1>1, SumsExist
<1>3. Left(ms) = g[Len(ms)]
  BY DEF Left, Sums
<1> HIDE DEF g
<1>4. \A i \in 0 .. Len(ms) : g[i] = IF i = 0 THEN 0 ELSE g[i - 1] + ms[i].remaining
  BY <1>2 DEF Sums
<1>5. 0 \in 0 .. Len(ms) /\ \A i \in 1 .. Len(ms) : i \in 0 .. Len(ms) /\ i # 0
  BY <1>1, SMT
<1>6. g[0] = 0 /\ \A i \in 1 .. Len(ms) : g[i] = g[i - 1] + ms[i].remaining
  BY <1>4, <1>5
<1> DEFINE S == {n \in Nat : n <= Len(ms) => g[n] \in Nat}
<1>7. Nat \subseteq S
  <2>1. 0 \in S
    BY <1>6
  <2>2. ASSUME NEW n \in Nat, n \in S PROVE n + 1 \in S
    <3> SUFFICES ASSUME n + 1 <= Len(ms) PROVE g[n + 1] \in Nat
      BY SMT
    <3>1. g[n] \in Nat /\ n + 1 \in 1 .. Len(ms) /\ (n + 1) - 1 = n
      BY <1>1, <2>2, SMT
    <3>2. g[n + 1] = g[n] + ms[n + 1].remaining /\ ms[n + 1].remaining \in Nat
      BY <1>1, <1>6, <3>1
    <3> QED
      BY <3>1, <3>2, SMT
  <2> HIDE DEF S
  <2> QED
    BY <2>1, <2>2, SetInduction
<1>8. \A i \in 0 .. Len(ms) : g[i] \in Nat
  BY <1>1, <1>7, SMT
<1> QED
  BY <1>3, <1>6, <1>8

\* g holds the sums of the first elements of a.
SumsOf(n, g, a) ==
    /\ g[0] = 0
    /\ \A i \in 1 .. n : g[i] = g[i - 1] + a[i] /\ a[i] \in Nat
    /\ \A i \in 0 .. n : g[i] \in Nat

\* b is a, but for d more in one place.
OneApart(n, m, d, a, b) == \A i \in 1 .. n : b[i] = a[i] + (IF i = m THEN d ELSE 0)

\* The sums of what differs in one place.
LEMMA SumsDiffer ==
    ASSUME NEW n \in Nat, NEW m \in Nat, NEW d \in Int, NEW g, NEW h, NEW a, NEW b,
           SumsOf(n, g, a), SumsOf(n, h, b), OneApart(n, m, d, a, b)
    PROVE  h[n] = g[n] + (IF m \in 1 .. n THEN d ELSE 0)
<1> DEFINE S == {j \in Nat : j <= n => h[j] = g[j] + (IF m \in 1 .. j THEN d ELSE 0)}
<1>1. 0 \in S
  BY SMT DEF SumsOf
<1>2. ASSUME NEW j \in Nat, j \in S PROVE j + 1 \in S
  <2> SUFFICES ASSUME j + 1 <= n
               PROVE  h[j + 1] = g[j + 1] + (IF m \in 1 .. j + 1 THEN d ELSE 0)
    BY SMT
  <2>1. h[j] = g[j] + (IF m \in 1 .. j THEN d ELSE 0) /\ j \in 0 .. n
    BY <1>2, SMT
  <2>2. j + 1 \in 1 .. n /\ (j + 1) - 1 = j
    BY SMT
  <2>3. g[j + 1] = g[j] + a[j + 1] /\ a[j + 1] \in Nat /\ g[j] \in Nat /\ h[j] \in Nat
        /\ h[j + 1] = h[j] + b[j + 1] /\ b[j + 1] \in Nat
    BY <2>1, <2>2 DEF SumsOf
  <2>4. b[j + 1] = a[j + 1] + (IF j + 1 = m THEN d ELSE 0)
    BY <2>2 DEF OneApart
  <2>5. CASE m = j + 1
    BY <2>1, <2>3, <2>4, <2>5, SMT
  <2>6. CASE m # j + 1
    BY <2>1, <2>3, <2>4, <2>6, SMT
  <2> QED
    BY <2>5, <2>6
<1>3. Nat \subseteq S
  <2> HIDE DEF S
  <2> QED
    BY <1>1, <1>2, SetInduction
<1> QED
  BY <1>3, SMT

\* Changing one slot changes what is left by as much.
LEMMA LeftChanged ==
    ASSUME NEW ms, IsArena(ms), ms[Root].remaining # Unlimited,
           NEW ns, IsArena(ns), ns[Root].remaining # Unlimited, Len(ns) = Len(ms),
           NEW m \in 1 .. Len(ms),
           \A i \in 1 .. Len(ms) : i # m => ns[i].remaining = ms[i].remaining
    PROVE  /\ Left(ns) = Left(ms) + ns[m].remaining - ms[m].remaining
           /\ Left(ms) \in Nat /\ Left(ns) \in Nat
<1> DEFINE n == Len(ms)
           d == ns[m].remaining - ms[m].remaining
           a == [i \in 1 .. n |-> ms[i].remaining]
           b == [i \in 1 .. n |-> ns[i].remaining]
<1>1. /\ n \in Nat /\ m \in Nat
      /\ \A i \in 1 .. n : ms[i].remaining \in Nat /\ ns[i].remaining \in Nat
  BY AllFinite, SMT
<1>2. PICK g : /\ Left(ms) = g[n] /\ g[0] = 0
               /\ \A i \in 1 .. n : g[i] = g[i - 1] + ms[i].remaining
               /\ \A i \in 0 .. n : g[i] \in Nat
  BY LeftIsLast
<1>3. PICK h : /\ Left(ns) = h[n] /\ h[0] = 0
               /\ \A i \in 1 .. n : h[i] = h[i - 1] + ns[i].remaining
               /\ \A i \in 0 .. n : h[i] \in Nat
  <2>1. PICK h : /\ Left(ns) = h[Len(ns)] /\ h[0] = 0
                 /\ \A i \in 1 .. Len(ns) : h[i] = h[i - 1] + ns[i].remaining
                 /\ \A i \in 0 .. Len(ns) : h[i] \in Nat
    BY LeftIsLast
  <2> QED
    BY <2>1
<1>4. d \in Int /\ ms[m].remaining \in Nat /\ ns[m].remaining \in Nat
  BY <1>1, SMT
<1>5. OneApart(n, m, d, a, b)
  BY <1>1, <1>4, SMT DEF OneApart
<1>6. SumsOf(n, g, a) /\ SumsOf(n, h, b)
  BY <1>1, <1>2, <1>3 DEF SumsOf
<1>7. h[n] = g[n] + d
  <2> HIDE DEF n, d, a, b
  <2>1. h[n] = g[n] + (IF m \in 1 .. n THEN d ELSE 0)
    BY <1>1, <1>4, <1>5, <1>6, SumsDiffer
  <2>2. m \in 1 .. n
    BY DEF n
  <2> QED
    BY <2>1, <2>2
<1>8. g[n] \in Nat /\ h[n] \in Nat
  BY <1>1, <1>2, <1>3, SMT
<1> QED
  BY <1>2, <1>3, <1>4, <1>7, <1>8, SMT

\* A slot of its own adds what it holds.
LEMMA LeftAppended ==
    ASSUME NEW ms, IsArena(ms), ms[Root].remaining # Unlimited,
           NEW x \in Meter, IsArena(Append(ms, x)), x.remaining \in Nat
    PROVE  Left(Append(ms, x)) = Left(ms) + x.remaining
<1> DEFINE n == Len(ms)
           ns == Append(ms, x)
           a == [i \in 1 .. n |-> ms[i].remaining]
<1>1. /\ n \in Nat /\ n >= 1 /\ \A i \in 1 .. n : ms[i].remaining \in Nat
      /\ ms \in Seq(Meter)
  BY AllFinite, SMT DEF IsArena
<1>2. Len(ns) = n + 1 /\ ns[n + 1] = x /\ \A i \in 1 .. n : ns[i] = ms[i]
  BY <1>1, SMT
<1>3. ns[Root].remaining # Unlimited
  BY <1>1, <1>2, SMT DEF Root
<1> HIDE DEF ns
<1>4. PICK g : /\ Left(ms) = g[n] /\ g[0] = 0
               /\ \A i \in 1 .. n : g[i] = g[i - 1] + ms[i].remaining
               /\ \A i \in 0 .. n : g[i] \in Nat
  BY LeftIsLast
<1>5. PICK h : /\ Left(ns) = h[n + 1] /\ h[0] = 0
               /\ \A i \in 1 .. n + 1 : h[i] = h[i - 1] + ns[i].remaining
               /\ \A i \in 0 .. n + 1 : h[i] \in Nat
  <2>1. IsArena(ns)
    BY DEF ns
  <2> QED
    BY <1>2, <1>3, <2>1, LeftIsLast
<1>6. SumsOf(n, g, a) /\ SumsOf(n, h, a)
  <2>1. \A i \in 0 .. n : i \in 0 .. n + 1
    BY <1>1, SMT
  <2>2. \A i \in 1 .. n : i \in 1 .. n + 1
    BY <1>1, SMT
  <2> QED
    BY <1>1, <1>2, <1>4, <1>5, <2>1, <2>2 DEF SumsOf
<1>7. PICK zero \in Nat : zero = 0
  OBVIOUS
<1>8. h[n] = g[n]
  <2>1. OneApart(n, zero, zero, a, a)
    BY <1>1, <1>7, SMT DEF OneApart
  <2> HIDE DEF n, a
  <2>2. h[n] = g[n] + (IF zero \in 1 .. n THEN zero ELSE 0)
    BY <1>1, <1>6, <1>7, <2>1, SumsDiffer
  <2>3. g[n] \in Nat
    BY <1>1, <1>6, SMT DEF SumsOf
  <2> QED
    BY <1>7, <2>2, <2>3, SMT
<1>9. h[n + 1] = h[n] + x.remaining
  <2>1. n + 1 \in 1 .. n + 1 /\ (n + 1) - 1 = n
    BY <1>1, SMT
  <2> QED
    BY <1>2, <1>5, <2>1
<1> QED
  BY <1>4, <1>5, <1>8, <1>9 DEF ns

-----------------------------------------------------------------------------
(* What each operation on the meters does to what is left. *)

\* Fuel that k of was spent at most, and that is finite if it was.
Costs(ms, ns, k) ==
    /\ ns[Root].remaining = Unlimited <=> ms[Root].remaining = Unlimited
    /\ ms[Root].remaining # Unlimited =>
        Left(ms) \in Nat /\ Left(ns) \in Nat /\ Left(ns) + k <= Left(ms)

\* Slot by slot, what setting one does.
LEMMA SetSlot ==
    ASSUME NEW ms, IsArena(ms), NEW m \in 1 .. Len(ms), NEW x \in Fuels
    PROVE  \A i \in 1 .. Len(ms) :
              /\ SetRemaining(ms, m, x)[i].remaining = IF i = m THEN x ELSE ms[i].remaining
              /\ SetRemaining(ms, m, x)[i].parent = ms[i].parent
<1> DEFINE slot == [ms[m] EXCEPT !.remaining = x]
<1>1. ms \in Seq(Meter) /\ ms[m] \in Meter
  BY ArenaSlot
<1>2. slot.remaining = x /\ slot.parent = ms[m].parent
  BY <1>1 DEF Meter
<1>3. SetRemaining(ms, m, x) = [ms EXCEPT ![m] = slot]
  BY DEF SetRemaining
<1>4. DOMAIN ms = 1 .. Len(ms)
  BY <1>1, SMT
<1> HIDE DEF slot
<1> QED
  BY <1>2, <1>3, <1>4

\* The root has an amount or none, whichever slot is set to an amount, as long
\* as that slot had one.
LEMMA SetRoot ==
    ASSUME NEW ms, IsArena(ms), NEW m \in 1 .. Len(ms), NEW x \in Fuels,
           ms[m].remaining # Unlimited
    PROVE  SetRemaining(ms, m, x)[Root].remaining = Unlimited <=> ms[Root].remaining = Unlimited
<1>1. Root \in 1 .. Len(ms) /\ x # Unlimited
  BY FuelAssumption, SMT DEF IsArena, Root, Fuels
<1> QED
  BY <1>1, SetSlot

\* What is left after setting one slot.
LEMMA SetLeft ==
    ASSUME NEW ms, IsArena(ms), ms[Root].remaining # Unlimited,
           NEW m \in 1 .. Len(ms), NEW x \in Fuels
    PROVE  /\ Left(SetRemaining(ms, m, x)) = Left(ms) + x - ms[m].remaining
           /\ Left(ms) \in Nat /\ Left(SetRemaining(ms, m, x)) \in Nat
<1> DEFINE ns == SetRemaining(ms, m, x)
<1>1. IsArena(ns) /\ Len(ns) = Len(ms)
  BY SetArena
<1>2. ms[m].remaining # Unlimited
  BY AllFinite, FuelAssumption
<1>3. ns[Root].remaining # Unlimited
  BY <1>2, SetRoot
<1>4. ns[m].remaining = x /\ \A i \in 1 .. Len(ms) : i # m => ns[i].remaining = ms[i].remaining
  BY SetSlot
<1> HIDE DEF ns
<1>5. /\ Left(ns) = Left(ms) + ns[m].remaining - ms[m].remaining
      /\ Left(ms) \in Nat /\ Left(ns) \in Nat
  BY <1>1, <1>3, <1>4, LeftChanged
<1> QED
  BY <1>4, <1>5 DEF ns

\* charge takes what is spent from one meter.
LEMMA ChargeCosts ==
    ASSUME NEW ms, IsArena(ms), NEW m \in 1 .. Len(ms), NEW spent \in Nat,
           ms[m].remaining # Unlimited => spent <= ms[m].remaining
    PROVE  /\ Costs(ms, Charge(ms, m, spent), spent)
           /\ \A i \in 1 .. Len(ms) \ {m} : Charge(ms, m, spent)[i].remaining = ms[i].remaining
<1>1. CASE ms[m].remaining = Unlimited
  <2>1. ms[Root].remaining = Unlimited
    BY <1>1, AllFinite, FuelAssumption
  <2> QED
    BY <1>1, <2>1 DEF Charge, Costs
<1>2. CASE ms[m].remaining # Unlimited
  <2> DEFINE left == IF spent > ms[m].remaining THEN 0 ELSE ms[m].remaining - spent
  <2>1. ms[m].remaining \in Fuels
    BY <1>2, ArenaSlot
  <2>2. left \in Fuels /\ left = ms[m].remaining - spent
    BY <1>2, <2>1, FuelAssumption, SMT DEF Fuels
  <2>3. Charge(ms, m, spent) = SetRemaining(ms, m, left)
    BY <1>2 DEF Charge
  <2> HIDE DEF left
  <2> DEFINE ns == SetRemaining(ms, m, left)
  <2>4. ns[Root].remaining = Unlimited <=> ms[Root].remaining = Unlimited
    BY <1>2, <2>2, SetRoot
  <2>5. \A i \in 1 .. Len(ms) \ {m} : ns[i].remaining = ms[i].remaining
    BY <2>2, SetSlot
  <2>6. ASSUME ms[Root].remaining # Unlimited
        PROVE  Left(ms) \in Nat /\ Left(ns) \in Nat /\ Left(ns) + spent <= Left(ms)
    <3>1. Left(ns) = Left(ms) + left - ms[m].remaining /\ Left(ms) \in Nat /\ Left(ns) \in Nat
      BY <2>2, <2>6, SetLeft
    <3>2. ms[m].remaining \in Nat /\ left \in Nat /\ left = ms[m].remaining - spent
      BY <2>1, <2>2, FuelAssumption, SMT DEF Fuels
    <3>3. \A a, b, l, r \in Nat : b = a + l - r /\ l = r - spent => b + spent <= a
      BY SMT
    <3> HIDE DEF ns
    <3> QED
      BY <3>1, <3>2, <3>3
  <2> HIDE DEF ns
  <2>7. Charge(ms, m, spent) = ns
    BY <2>3 DEF ns
  <2> QED
    BY <2>4, <2>5, <2>6, <2>7 DEF Costs
<1> QED
  BY <1>1, <1>2

\* add gives a meter no more than the amount, and takes from none.
LEMMA AddGives ==
    ASSUME NEW ms, IsArena(ms), NEW m \in 1 .. Len(ms), NEW amount \in Nat
    PROVE  /\ AddFuelTo(ms, m, amount)[Root].remaining = Unlimited
                <=> ms[Root].remaining = Unlimited
           /\ ms[Root].remaining # Unlimited =>
                /\ Left(ms) \in Nat /\ Left(AddFuelTo(ms, m, amount)) \in Nat
                /\ Left(AddFuelTo(ms, m, amount)) =
                        Left(ms) + Saturate(ms[m].remaining + amount) - ms[m].remaining
                /\ Left(AddFuelTo(ms, m, amount)) <= Left(ms) + amount
           /\ \A i \in 1 .. Len(ms) : ms[i].remaining # Unlimited =>
                AddFuelTo(ms, m, amount)[i].remaining >= ms[i].remaining
<1>1. CASE ms[m].remaining = Unlimited
  <2>1. ms[Root].remaining = Unlimited
    BY <1>1, AllFinite, FuelAssumption
  <2>2. \A i \in 1 .. Len(ms) : ms[i].remaining # Unlimited =>
            ms[i].remaining \in Int /\ ms[i].remaining >= ms[i].remaining
    BY ArenaSlot, FuelAssumption, SMT DEF Fuels
  <2> QED
    BY <1>1, <2>1, <2>2 DEF AddFuelTo
<1>2. CASE ms[m].remaining # Unlimited
  <2> DEFINE sum == Saturate(ms[m].remaining + amount)
  <2>1. ms[m].remaining \in Fuels
    BY <1>2, ArenaSlot
  <2>2. /\ sum \in Fuels /\ sum >= ms[m].remaining /\ sum <= ms[m].remaining + amount
    BY <2>1, FuelAssumption, SMT DEF Fuels, Saturate
  <2>3. AddFuelTo(ms, m, amount) = SetRemaining(ms, m, sum)
    BY <1>2 DEF AddFuelTo
  <2> DEFINE ns == SetRemaining(ms, m, sum)
  <2>4. ns[Root].remaining = Unlimited <=> ms[Root].remaining = Unlimited
    BY <1>2, <2>2, SetRoot
  <2>5. \A i \in 1 .. Len(ms) : ms[i].remaining # Unlimited => ns[i].remaining >= ms[i].remaining
    <3> SUFFICES ASSUME NEW i \in 1 .. Len(ms), ms[i].remaining # Unlimited
                 PROVE  ns[i].remaining >= ms[i].remaining
      OBVIOUS
    <3>1. ns[i].remaining = IF i = m THEN sum ELSE ms[i].remaining
      BY <2>2, SetSlot
    <3>2. ms[i].remaining \in Fuels
      BY ArenaSlot
    <3> HIDE DEF sum, ns
    <3> QED
      BY <2>2, <3>1, <3>2, SMT DEF Fuels
  <2>6. ASSUME ms[Root].remaining # Unlimited
        PROVE  /\ Left(ms) \in Nat /\ Left(ns) \in Nat
               /\ Left(ns) = Left(ms) + sum - ms[m].remaining
               /\ Left(ns) <= Left(ms) + amount
    <3>1. Left(ns) = Left(ms) + sum - ms[m].remaining /\ Left(ms) \in Nat /\ Left(ns) \in Nat
      BY <2>2, <2>6, SetLeft
    <3> HIDE DEF sum, ns
    <3> QED
      BY <2>1, <2>2, <3>1, FuelAssumption, SMT DEF Fuels
  <2> HIDE DEF ns
  <2>7. AddFuelTo(ms, m, amount) = ns
    BY <2>3 DEF ns
  <2> QED
    BY <2>4, <2>5, <2>6, <2>7
<1> QED
  BY <1>1, <1>2

\* refund_into_parent gives the parent no more than it takes, and no other
\* meter loses anything.
LEMMA RefundCosts ==
    ASSUME NEW ms, IsArena(ms), NEW m \in 1 .. Len(ms)
    PROVE  /\ Costs(ms, RefundIntoParent(ms, m), 0)
           /\ \A i \in 1 .. Len(ms) \ {m} : ms[i].remaining # Unlimited =>
                RefundIntoParent(ms, m)[i].remaining >= ms[i].remaining
<1>1. CASE ms[m].parent = NoParent
  <2>1. RefundIntoParent(ms, m) = ms
    BY <1>1 DEF RefundIntoParent
  <2>2. \A i \in 1 .. Len(ms) : ms[i].remaining # Unlimited => ms[i].remaining \in Nat
    BY ArenaSlot, FuelAssumption DEF Fuels
  <2>3. ms[Root].remaining # Unlimited => Left(ms) \in Nat
    <3>1. ms[m].remaining \in Fuels \/ ms[Root].remaining = Unlimited
      BY ArenaSlot, AllFinite, FuelAssumption
    <3> QED
      BY <3>1, SetLeft
  <2> QED
    BY <2>1, <2>2, <2>3, SMT DEF Costs
<1>2. CASE ms[m].parent # NoParent
  <2> DEFINE zs == SetRemaining(ms, m, 0)
             p == ms[m].parent
             left == ms[m].remaining
             ns == AddFuelTo(zs, p, left)
  <2>1. p \in 1 .. Len(ms) /\ left \in Fuels /\ left \in Nat /\ left # Unlimited
    BY <1>2, ArenaSlot, FuelAssumption DEF Fuels
  <2>2. 0 \in Fuels
    BY FuelAssumption, SMT DEF Fuels
  <2>3. IsArena(zs) /\ Len(zs) = Len(ms)
    BY <2>2, SetArena
  <2>4. zs[Root].remaining = Unlimited <=> ms[Root].remaining = Unlimited
    BY <2>1, <2>2, SetRoot
  <2>5. \A i \in 1 .. Len(ms) \ {m} : zs[i].remaining = ms[i].remaining
    BY <2>2, SetSlot
  <2>6. ms[Root].remaining # Unlimited =>
            Left(zs) = Left(ms) + 0 - left /\ Left(ms) \in Nat /\ Left(zs) \in Nat
    BY <2>2, SetLeft
  <2>7. RefundIntoParent(ms, m) = ns
    BY <1>2 DEF RefundIntoParent
  <2> HIDE DEF zs, p, left
  <2>8. /\ ns[Root].remaining = Unlimited <=> zs[Root].remaining = Unlimited
        /\ zs[Root].remaining # Unlimited => Left(ns) \in Nat /\ Left(ns) <= Left(zs) + left
        /\ \A i \in 1 .. Len(zs) : zs[i].remaining # Unlimited =>
                ns[i].remaining >= zs[i].remaining
    BY <2>1, <2>3, AddGives
  <2> HIDE DEF ns
  <2>9. Costs(ms, ns, 0)
    BY <2>1, <2>4, <2>6, <2>8, SMT DEF Costs
  <2>10. \A i \in 1 .. Len(ms) \ {m} : ms[i].remaining # Unlimited =>
                ns[i].remaining >= ms[i].remaining
    BY <2>3, <2>5, <2>8
  <2> QED
    BY <2>7, <2>9, <2>10
<1> QED
  BY <1>1, <1>2

\* carve moves an amount that is there into a slot of its own.
LEMMA CarveCosts ==
    ASSUME NEW ms, IsArena(ms), NEW m \in 1 .. Len(ms), NEW amount \in Fuels,
           CanCarve(ms, m, amount)
    PROVE  /\ Costs(ms, Carve(ms, m, amount), 0)
           /\ \A i \in 1 .. Len(ms) \ {m} : Carve(ms, m, amount)[i].remaining = ms[i].remaining
<1> DEFINE cs == Charge(ms, m, amount)
           slot == [remaining |-> amount, parent |-> m]
           ns == Append(cs, slot)
<1>1. amount \in Nat /\ (ms[m].remaining # Unlimited => amount <= ms[m].remaining)
  <2>1. amount \in Nat
    BY FuelAssumption DEF Fuels
  <2>2. ms[m].remaining # Unlimited => ms[m].remaining \in Nat
    BY ArenaSlot, FuelAssumption DEF Fuels
  <2> QED
    BY <2>1, <2>2, SMT DEF CanCarve
<1>2. /\ Costs(ms, cs, amount)
      /\ \A i \in 1 .. Len(ms) \ {m} : cs[i].remaining = ms[i].remaining
  BY <1>1, ChargeCosts
<1>3. IsArena(cs) /\ Len(cs) = Len(ms)
  BY <1>1, ChargeArena
<1>4. Carve(ms, m, amount) = ns /\ IsArena(ns)
  BY CarveArena DEF Carve
<1>5. slot \in Meter /\ slot.remaining = amount
  BY ArenaSlot DEF Meter
<1> HIDE DEF cs, slot
<1>6. /\ Len(cs) \in Nat /\ Len(cs) >= 1 /\ cs \in Seq(Meter)
      /\ \A i \in 1 .. Len(cs) : ns[i] = cs[i]
  BY <1>3, <1>5, SMT DEF IsArena
<1>7. ns[Root].remaining = cs[Root].remaining
  BY <1>6, SMT DEF Root
<1>8. cs[Root].remaining # Unlimited => Left(ns) = Left(cs) + amount
  BY <1>1, <1>3, <1>4, <1>5, LeftAppended
<1> HIDE DEF ns
<1>9. Costs(ms, ns, 0)
  BY <1>1, <1>2, <1>7, <1>8, SMT DEF Costs
<1>10. \A i \in 1 .. Len(ms) \ {m} : ns[i].remaining = ms[i].remaining
  BY <1>2, <1>3, <1>6
<1> QED
  BY <1>4, <1>9, <1>10

-----------------------------------------------------------------------------
(* What a turn of the loop does with the meters. *)

\* The arena once the slice is paid for, ms, from the meters and the counter.
Paid(ms) ==
    \/ ms = meters /\ steps_total' = steps_total
    \/ \E spent \in 0 .. Allowance : Runnable /\ ms = Charged(spent) /\ Tick(spent)

\* A fiber g leaves the Vec: fs is the Vec before, with the same meters.
Leaves(fs, g) ==
    /\ g \in FiberId /\ fibers'[g].status = "Absent"
    /\ fs[g].meter = fibers[g].meter
    /\ \A f \in FiberId \ {g} :
        fs[f].meter = fibers[f].meter /\ (fibers[f].status # "Absent" => fs[f].status # "Absent")

\* What a turn does after the slice is paid for: nothing, a fork that carves,
\* or the removal of a fiber.
Moves(ms) ==
    \/ meters' = ms
    \/ \E amount \in Carves :
        CanCarve(ms, CurrentMeter, amount) /\ meters' = Carve(ms, CurrentMeter, amount)
    \/ \E fs, g : Leaves(fs, g) /\ meters' = Released(fs, ms, g)

\* A slice never spends more than is left.
LEMMA AllowanceBound ==
    ASSUME SchedInv, current # None
    PROVE  /\ Allowance \in Nat /\ CurrentMeter \in 1 .. Len(meters) /\ IsArena(meters)
           /\ meters[CurrentMeter].remaining # Unlimited =>
                Allowance <= meters[CurrentMeter].remaining
           /\ \A c : StepsTo(c) \subseteq 0 .. Allowance
           /\ 0 .. Allowance - 1 \subseteq 0 .. Allowance
<1>1. CurrentMeter \in 1 .. Len(meters) /\ IsArena(meters)
  BY CurrentFacts, Split
<1>2. meters[CurrentMeter].remaining \in Fuels \cup {Unlimited}
  BY <1>1, ArenaSlot
<1>3. /\ Allowance \in Nat
      /\ meters[CurrentMeter].remaining # Unlimited =>
            Allowance <= meters[CurrentMeter].remaining
  BY <1>2, SchedulerAssumption, FuelAssumption, SMT DEF Allowance, Fuels
<1>4. /\ \A c : StepsTo(c) \subseteq 0 .. Allowance
      /\ 0 .. Allowance - 1 \subseteq 0 .. Allowance
  BY <1>3, SMT DEF StepsTo
<1> QED
  BY <1>1, <1>3, <1>4

\* The end of a fiber releases its meter if somebody took its fate.
LEMMA SettleLeaves ==
    ASSUME SchedInv, current # None, NEW fs \in [FiberId -> Fiber],
           \A f \in FiberId \ {current} : fs[f] = fibers[f],
           fs[current].meter = fibers[current].meter,
           NEW ms, NEW status, NEW val, Settle(fs, ms, status, val)
    PROVE  meters' = ms \/ (Leaves(fs, current) /\ meters' = Released(fs, ms, current))
<1>1. current \in FiberId
  BY InVec
<1>2. CASE join_waiters[current] = <<>>
  BY <1>2 DEF Settle, Joiners
<1>3. CASE join_waiters[current] # <<>>
  <2>1. meters' = Released(fs, ms, current)
    BY <1>3 DEF Settle, Joiners
  <2>2. current \notin Range(join_waiters[current])
    BY <1>1, InVec
  <2>3. fibers'[current] = AbsentFiber
    BY <1>1, <1>3, <2>2 DEF Settle, Joiners
  <2> QED
    BY <1>1, <2>1, <2>3 DEF Leaves, AbsentFiber
<1> QED
  BY <1>2, <1>3

\* Every turn of the loop, as far as the meters are concerned.
LEMMA MeterSteps ==
    ASSUME SchedInv, SchedulerStep
    PROVE  \/ UNCHANGED <<meters, steps_total>>
           \/ current # None /\ \E ms : Paid(ms) /\ Moves(ms)
<1>0. /\ fibers \in [FiberId -> Fiber] /\ control \in Ctl
      /\ current # None => current \in FiberId
  BY InVec, Split DEF Rest
<1>1. CASE SelectNextFiber \/ DrainPending \/ DrainDone \/ PauseOutOfFuel
  BY <1>1 DEF SelectNextFiber, DrainPending, DrainDone, PauseOutOfFuel, fuelVars
<1>2. CASE FailDry
  <2>1. /\ current # None /\ Settle(fibers, meters, "Failed", current)
        /\ steps_total' = steps_total
    BY <1>2 DEF FailDry, Dry
  <2>2. Moves(meters)
    BY <1>0, <2>1, SettleLeaves DEF Moves
  <2> QED
    BY <2>1, <2>2 DEF Paid
<1>3. CASE SliceDone
  <2>1. current # None /\ Runnable
    BY <1>3 DEF SliceDone, Runnable
  <2>2. PICK spent \in 0 .. Allowance :
            Settle(fibers, Charged(spent), "Completed", control.k) /\ Tick(spent)
    BY <1>3, <2>1, AllowanceBound DEF SliceDone
  <2>3. Moves(Charged(spent))
    BY <1>0, <2>1, <2>2, SettleLeaves DEF Moves
  <2> QED
    BY <2>1, <2>2, <2>3 DEF Paid
<1>4. CASE SlicePreempted
  <2>1. current # None /\ Runnable /\ meters' = Charged(Allowance) /\ Tick(Allowance)
    BY <1>4 DEF SlicePreempted, Working, Runnable
  <2>2. Allowance \in 0 .. Allowance
    BY <2>1, AllowanceBound, SMT
  <2> QED
    BY <2>1, <2>2 DEF Paid, Moves
<1>5. CASE \/ EffectPlain \/ ForkShared \/ EffectHost \/ SnapshotWritten \/ SnapshotResumed
           \/ \E t \in FiberId : JoinWaits(t)
  <2>1. current # None /\ Runnable
    BY <1>5 DEF EffectPlain, ForkShared, EffectHost, SnapshotWritten, SnapshotResumed, JoinWaits,
       Working, Runnable
  <2>2. \E spent \in StepsTo("suspend") : meters' = Charged(spent) /\ Tick(spent)
    BY <1>5 DEF EffectPlain, ForkShared, Fork, EffectHost, SnapshotWritten, SnapshotResumed,
       JoinWaits
  <2> QED
    BY <2>1, <2>2, AllowanceBound DEF Paid, Moves
<1>6. CASE ForkCarved
  <2>1. current # None /\ Runnable
    BY <1>6 DEF ForkCarved, Working, Runnable
  <2>2. PICK spent \in StepsTo("suspend"), amount \in Carves :
          /\ CanCarve(Charged(spent), CurrentMeter, amount)
          /\ Fork(spent, Carve(Charged(spent), CurrentMeter, amount), Len(meters) + 1)
    BY <1>6 DEF ForkCarved
  <2>3. meters' = Carve(Charged(spent), CurrentMeter, amount) /\ Tick(spent)
    BY <2>2 DEF Fork
  <2> QED
    BY <2>1, <2>2, <2>3, AllowanceBound DEF Paid, Moves
<1>7. ASSUME NEW t \in FiberId, JoinFinished(t)
      PROVE  current # None /\ \E ms : Paid(ms) /\ Moves(ms)
  <2>1. current # None /\ Runnable
    BY <1>7 DEF JoinFinished, Working, Runnable
  <2>2. PICK spent \in StepsTo("suspend") :
            meters' = Released(fibers, Charged(spent), t) /\ Tick(spent)
    BY <1>7 DEF JoinFinished
  <2>3. fibers'[t].status = "Absent"
    BY <1>0, <1>7 DEF JoinFinished, Consumed, AbsentFiber
  <2>4. Moves(Charged(spent))
    BY <2>2, <2>3 DEF Moves, Leaves
  <2> QED
    BY <2>1, <2>2, <2>4, AllowanceBound DEF Paid
<1>8. CASE Faulting
  <2>1. current # None /\ Runnable
    BY <1>8 DEF Faulting, SliceFault, EffectRefused, ForkInsufficient, SnapshotFailed,
       JoinMissing, Working, Runnable
  <2>2. \E spent \in 0 .. Allowance : \E c \in CtlKind : \E fs :
          /\ Tick(spent)
          /\ Fault(fs, Charged(spent), Deliver(control, c, None))
          /\ fs = fibers \/ fs = Saved(Deliver(control, c, None))
    <3>1. StepsTo("suspend") \subseteq 0 .. Allowance /\ 0 .. Allowance - 1 \subseteq 0 .. Allowance
      BY <2>1, AllowanceBound
    <3> QED
      BY <1>8, <3>1 DEF Faulting, SliceFault, EffectRefused, ForkInsufficient, SnapshotFailed,
         JoinMissing, Suspended, CtlKind
  <2>3. PICK spent \in 0 .. Allowance : \E c \in CtlKind : \E fs :
          /\ Tick(spent)
          /\ Fault(fs, Charged(spent), Deliver(control, c, None))
          /\ fs = fibers \/ fs = Saved(Deliver(control, c, None))
    BY <2>2
  <2>4. PICK fs : \E c \in CtlKind :
          /\ Tick(spent)
          /\ Fault(fs, Charged(spent), Deliver(control, c, None))
          /\ fs = fibers \/ fs = Saved(Deliver(control, c, None))
    BY <2>3
  <2>5. \A c \in CtlKind : Deliver(control, c, None) \in Ctl
    BY <1>0, DeliverType, Constants
  <2>6. /\ fs \in [FiberId -> Fiber] /\ fs[current].meter = fibers[current].meter
        /\ \A f \in FiberId \ {current} : fs[f] = fibers[f]
    BY <1>0, <2>1, <2>4, <2>5, SavedFacts
  <2>7. meters' = Charged(spent) \/ Settle(fs, Charged(spent), "Failed", current)
    BY <2>4 DEF Fault
  <2>8. Moves(Charged(spent))
    BY <2>1, <2>6, <2>7, SettleLeaves DEF Moves
  <2> QED
    BY <2>1, <2>4, <2>8 DEF Paid
<1> QED
  BY <1>1, <1>2, <1>3, <1>4, <1>5, <1>6, <1>7, <1>8, LoopSteps

\* What was paid for, slot by slot and in all.
LEMMA PaidCosts ==
    ASSUME SchedInv, current # None, NEW ms, Paid(ms)
    PROVE  /\ IsArena(ms) /\ Len(ms) = Len(meters)
           /\ \A i \in 1 .. Len(meters) \ {CurrentMeter} : ms[i].remaining = meters[i].remaining
           /\ \E k \in Nat : /\ Costs(meters, ms, k)
                             /\ steps_total' <= steps_total + k
<1>1. /\ Allowance \in Nat /\ CurrentMeter \in 1 .. Len(meters) /\ IsArena(meters)
      /\ meters[CurrentMeter].remaining # Unlimited =>
            Allowance <= meters[CurrentMeter].remaining
  BY AllowanceBound
<1>2. steps_total \in Nat
  BY Split, FuelAssumption DEF Rest, Fuels
<1>3. CASE ms = meters /\ steps_total' = steps_total
  <2>1. Root \in 1 .. Len(meters) /\ 0 \in Fuels
    BY <1>1, FuelAssumption, SMT DEF IsArena, Root, Fuels
  <2>2. meters[Root].remaining # Unlimited => Left(meters) \in Nat
    BY <1>1, <2>1, SetLeft
  <2>3. Costs(meters, ms, 0)
    BY <1>3, <2>2, SMT DEF Costs
  <2>4. 0 \in Nat /\ steps_total' <= steps_total + 0
    BY <1>2, <1>3, SMT
  <2> QED
    BY <1>1, <1>3, <2>3, <2>4
<1>4. ASSUME NEW spent \in 0 .. Allowance, ms = Charged(spent), Tick(spent)
      PROVE  /\ IsArena(ms) /\ Len(ms) = Len(meters)
             /\ \A i \in 1 .. Len(meters) \ {CurrentMeter} :
                    ms[i].remaining = meters[i].remaining
             /\ \E k \in Nat : Costs(meters, ms, k) /\ steps_total' <= steps_total + k
  <2>1. spent \in Nat /\ spent <= Allowance
    BY <1>1, SMT
  <2>2. meters[CurrentMeter].remaining # Unlimited => spent <= meters[CurrentMeter].remaining
    <3>1. meters[CurrentMeter].remaining # Unlimited => meters[CurrentMeter].remaining \in Nat
      BY <1>1, ArenaSlot, FuelAssumption DEF Fuels
    <3> QED
      BY <1>1, <2>1, <3>1, SMT
  <2>3. /\ Costs(meters, ms, spent) /\ IsArena(ms) /\ Len(ms) = Len(meters)
        /\ \A i \in 1 .. Len(meters) \ {CurrentMeter} : ms[i].remaining = meters[i].remaining
    BY <1>1, <1>4, <2>1, <2>2, ChargeCosts, ChargeArena DEF Charged
  <2>4. steps_total' <= steps_total + spent
    <3>1. steps_total' = (steps_total + spent) % U64
      BY <1>4 DEF Tick
    <3>2. \A n \in Nat : n % U64 <= n
      BY FuelAssumption, SMT
    <3>3. steps_total + spent \in Nat
      BY <1>2, <2>1, SMT
    <3> QED
      BY <3>1, <3>2, <3>3
  <2> QED
    BY <2>1, <2>3, <2>4
<1> QED
  BY <1>3, <1>4 DEF Paid

\* What is moved, slot by slot and in all.
LEMMA MovesCost ==
    ASSUME SchedInv, current # None, NEW ms, IsArena(ms), Len(ms) = Len(meters), Moves(ms)
    PROVE  /\ Costs(ms, meters', 0)
           /\ \A f \in FiberId :
                (/\ fibers[f].status # "Absent" /\ fibers'[f].status # "Absent"
                 /\ fibers[f].meter # CurrentMeter
                 /\ ms[fibers[f].meter].remaining # Unlimited)
                    => meters'[fibers[f].meter].remaining >= ms[fibers[f].meter].remaining
<1>1. /\ CurrentMeter \in 1 .. Len(ms)
      /\ \A f \in FiberId : fibers[f].meter \in 1 .. Len(ms)
  BY AllowanceBound, Split DEF Core, MetersSound
<1>2. \A i \in 1 .. Len(ms) : ms[i].remaining # Unlimited =>
            ms[i].remaining \in Nat /\ ms[i].remaining >= ms[i].remaining
  BY ArenaSlot, FuelAssumption, SMT DEF Fuels
<1>3. CASE meters' = ms
  <2>1. Root \in 1 .. Len(ms) /\ 0 \in Fuels
    BY FuelAssumption, SMT DEF IsArena, Root, Fuels
  <2>2. ms[Root].remaining # Unlimited => Left(ms) \in Nat
    BY <2>1, SetLeft
  <2>3. Costs(ms, meters', 0)
    BY <1>3, <2>2, SMT DEF Costs
  <2> QED
    BY <1>1, <1>2, <1>3, <2>3
<1>4. ASSUME NEW amount \in Carves, CanCarve(ms, CurrentMeter, amount),
             meters' = Carve(ms, CurrentMeter, amount)
      PROVE  /\ Costs(ms, meters', 0)
             /\ \A i \in 1 .. Len(ms) \ {CurrentMeter} : meters'[i].remaining = ms[i].remaining
  BY <1>1, <1>4, CarveCosts, SchedulerAssumption
<1>5. ASSUME NEW fs, NEW g, Leaves(fs, g), meters' = Released(fs, ms, g)
      PROVE  /\ Costs(ms, meters', 0)
             /\ \A f \in FiberId :
                  (/\ fibers[f].status # "Absent" /\ fibers'[f].status # "Absent"
                   /\ ms[fibers[f].meter].remaining # Unlimited)
                      => meters'[fibers[f].meter].remaining >= ms[fibers[f].meter].remaining
  <2>1. fs[g].meter \in 1 .. Len(ms)
    BY <1>1, <1>5 DEF Leaves
  <2>2. CASE \E f \in FiberId \ {g} : fs[f].status # "Absent" /\ fs[f].meter = fs[g].meter
    <3>1. meters' = ms
      BY <1>5, <2>2 DEF Released
    <3>2. Root \in 1 .. Len(ms) /\ 0 \in Fuels
      BY FuelAssumption, SMT DEF IsArena, Root, Fuels
    <3>3. ms[Root].remaining # Unlimited => Left(ms) \in Nat
      BY <3>2, SetLeft
    <3>4. Costs(ms, meters', 0)
      BY <3>1, <3>3, SMT DEF Costs
    <3> QED
      BY <1>1, <1>2, <3>1, <3>4
  <2>3. CASE ~ \E f \in FiberId \ {g} : fs[f].status # "Absent" /\ fs[f].meter = fs[g].meter
    <3>1. meters' = RefundIntoParent(ms, fs[g].meter)
      BY <1>5, <2>3 DEF Released
    <3>2. \A f \in FiberId : fibers[f].status # "Absent" /\ fibers'[f].status # "Absent"
            => fibers[f].meter \in 1 .. Len(ms) \ {fs[g].meter}
      BY <1>1, <1>5, <2>3 DEF Leaves
    <3> QED
      BY <2>1, <3>1, <3>2, RefundCosts
  <2> QED
    BY <2>2, <2>3
<1>6. CASE \E amount \in Carves :
             CanCarve(ms, CurrentMeter, amount) /\ meters' = Carve(ms, CurrentMeter, amount)
  BY <1>1, <1>2, <1>4, <1>6
<1>7. CASE \E fs, g : Leaves(fs, g) /\ meters' = Released(fs, ms, g)
  BY <1>5, <1>7
<1> QED
  BY <1>3, <1>6, <1>7 DEF Moves

-----------------------------------------------------------------------------
(* Fuel is conserved, and nobody's is taken. *)

\* A turn of the loop grants nothing, and goes on with a fiber of a run.
LEMMA NothingGranted ==
    ASSUME SchedInv, SchedulerStep
    PROVE  /\ entry = "sched" /\ h_granted' = h_granted
           /\ next_fiber_id = 0 => UNCHANGED <<next_fiber_id, meters, steps_total>>
<1>1. entry = "sched"
  BY StepOutcome
<1>2. h_granted' = h_granted
  <2>1. CASE SelectNextFiber \/ DrainPending \/ DrainDone \/ PauseOutOfFuel \/ FailDry \/ SliceDone
    BY <2>1 DEF SelectNextFiber, DrainPending, DrainDone, PauseOutOfFuel, FailDry, SliceDone,
       hostVars
  <2>2. CASE SlicePreempted \/ EffectPlain \/ EffectHost \/ SnapshotWritten \/ SnapshotResumed
             \/ ForkShared \/ ForkCarved \/ \E t \in FiberId : JoinFinished(t) \/ JoinWaits(t)
    BY <2>2 DEF SlicePreempted, EffectPlain, EffectHost, SnapshotWritten, SnapshotResumed,
       ForkShared, ForkCarved, Fork, JoinFinished, JoinWaits, hostVars
  <2>3. CASE Faulting
    <3>1. \E fs, ms, ctl : Fault(fs, ms, ctl)
      BY <2>3 DEF Faulting, SliceFault, EffectRefused, ForkInsufficient, SnapshotFailed, JoinMissing
    <3> QED
      BY <3>1 DEF Fault, hostVars
  <2> QED
    BY <2>1, <2>2, <2>3, LoopSteps
<1>3. ASSUME next_fiber_id = 0 PROVE UNCHANGED <<next_fiber_id, meters, steps_total>>
  <2>1. current = None /\ ready_queue = <<>>
    BY <1>3 DEF SchedInv, IdsInOrder
  <2>2. DrainPending \/ DrainDone
    BY <2>1, EndForm, FaultForm, PutInFront, LoopSteps
       DEF SelectNextFiber, SlicePreempted, EffectPlain, EffectHost,
           ForkShared, ForkCarved, SnapshotWritten, JoinFinished, JoinWaits, Working, Runnable
  <2> QED
    BY <2>2 DEF DrainPending, DrainDone, fuelVars
<1> QED
  BY <1>1, <1>2, <1>3

\* FuelConserved is kept by every turn of the loop.
LEMMA LoopConserves == ASSUME SchedInv, FuelConserved, SchedulerStep PROVE FuelConserved'
<1> SUFFICES ASSUME meters'[Root].remaining # Unlimited, next_fiber_id' > 0
             PROVE  steps_total' + Left(meters') <= h_granted'
  BY DEF FuelConserved
<1>1. /\ steps_total \in Nat /\ h_granted \in Nat /\ next_fiber_id \in Nat
      /\ IsArena(meters)
  <2>1. steps_total \in Fuels /\ h_granted \in Nat /\ next_fiber_id \in 0 .. MaxFibers
        /\ IsArena(meters)
    BY Split DEF Core, Rest, MetersSound
  <2> QED
    BY <2>1, Constants, FuelAssumption, SMT DEF Fuels
<1>2. next_fiber_id > 0 /\ h_granted' = h_granted
  BY <1>1, NothingGranted, SMT
<1>3. CASE UNCHANGED <<meters, steps_total>>
  BY <1>2, <1>3 DEF FuelConserved
<1>4. ASSUME current # None, NEW ms, Paid(ms), Moves(ms)
      PROVE  steps_total' + Left(meters') <= h_granted'
  <2>1. IsArena(ms) /\ Len(ms) = Len(meters)
    BY <1>4, PaidCosts
  <2>2. PICK k \in Nat : Costs(meters, ms, k) /\ steps_total' <= steps_total + k
    BY <1>4, PaidCosts
  <2>3. Costs(ms, meters', 0)
    BY <1>4, <2>1, MovesCost
  <2>4. ms[Root].remaining # Unlimited /\ meters[Root].remaining # Unlimited
    BY <2>2, <2>3 DEF Costs
  <2>5. steps_total + Left(meters) <= h_granted
    BY <1>2, <2>4 DEF FuelConserved
  <2>6. /\ Left(meters) \in Nat /\ Left(ms) \in Nat /\ Left(meters') \in Nat
        /\ Left(ms) + k <= Left(meters) /\ Left(meters') <= Left(ms)
    BY <2>2, <2>3, <2>4, SMT DEF Costs
  <2>7. steps_total' \in Nat
    <3>1. steps_total' \in Fuels
      BY SchedulerStepInv, SplitPrime DEF Rest
    <3> QED
      BY <3>1, FuelAssumption, SMT DEF Fuels
  <2> QED
    BY <1>1, <1>2, <2>2, <2>5, <2>6, <2>7, SMT
<1> QED
  BY <1>3, <1>4, MeterSteps

\* FuelConserved is kept by everything the host does: a refuel adds to what was
\* granted what it adds to the root, and a new run is granted what is left.
LEMMA HostConserves == ASSUME SchedInv, FuelConserved, HostStep PROVE FuelConserved'
<1>1. /\ steps_total \in Nat /\ h_granted \in Nat /\ IsArena(meters)
      /\ Root \in 1 .. Len(meters) /\ 0 \in Fuels
  <2>1. steps_total \in Fuels /\ h_granted \in Nat /\ IsArena(meters)
    BY Split DEF Core, Rest, MetersSound
  <2> QED
    BY <2>1, FuelAssumption, SMT DEF Fuels, IsArena, Root
<1>2. ASSUME NEW budget \in Budgets, SetFuel(budget) PROVE FuelConserved'
  BY <1>2 DEF SetFuel, FuelConserved
<1>3. ASSUME NEW amount \in Refuels, AddFuel(amount) PROVE FuelConserved'
  <2>1. /\ meters' = AddFuelTo(meters, Root, amount) /\ meters[Root].remaining = 0
        /\ h_granted' = h_granted + Saturate(amount) /\ next_fiber_id' = next_fiber_id
        /\ steps_total' = steps_total /\ amount \in Nat
    BY <1>3, SchedulerAssumption DEF AddFuel
  <2>2. meters[Root].remaining # Unlimited
    BY <2>1, FuelAssumption
  <2>3. /\ Left(meters) \in Nat /\ Left(meters') \in Nat
        /\ Left(meters') = Left(meters) + Saturate(0 + amount) - 0
    BY <1>1, <2>1, <2>2, AddGives
  <2>4. Saturate(amount) \in Nat /\ Saturate(0 + amount) = Saturate(amount)
    BY <2>1, FuelAssumption, SMT DEF Saturate
  <2>5. next_fiber_id' > 0 => steps_total + Left(meters) <= h_granted
    BY <2>1, <2>2 DEF FuelConserved
  <2>6. next_fiber_id' > 0 => steps_total' + Left(meters') <= h_granted'
    BY <1>1, <2>1, <2>3, <2>4, <2>5, SMT
  <2> QED
    BY <2>6 DEF FuelConserved
<1>4. ASSUME NEW program \in Programs, RunFresh(program) PROVE FuelConserved'
  <2> DEFINE b == meters[Root].remaining
             ns == NewMeters(b)
  <2> SUFFICES ASSUME meters'[Root].remaining # Unlimited
               PROVE  steps_total' + Left(meters') <= h_granted'
    BY DEF FuelConserved
  <2>1. /\ meters' = ns /\ steps_total' = 0
        /\ h_granted' = IF b = Unlimited THEN 0 ELSE b
    BY <1>4 DEF RunFresh
  <2>2. /\ Len(ns) = 1 /\ ns[1].remaining = b /\ ns[Root].remaining = b
    BY DEF NewMeters, Root
  <2>3. IsArena(ns)
    BY <1>4, RunFreshCore, Split, <2>1 DEF Core, MetersSound
  <2> HIDE DEF ns
  <2>4. b # Unlimited /\ b \in Fuels
    BY <1>1, <2>1, <2>2, ArenaSlot
  <2>5. PICK g : /\ Left(ns) = g[Len(ns)] /\ g[0] = 0
                 /\ \A i \in 1 .. Len(ns) : g[i] = g[i - 1] + ns[i].remaining
    BY <2>2, <2>3, <2>4, LeftIsLast
  <2>6. Left(ns) = b
    <3>1. g[1] = g[1 - 1] + ns[1].remaining /\ 1 - 1 = 0
      BY <2>2, <2>5, SMT
    <3>2. b \in Nat
      BY <2>4, FuelAssumption, SMT DEF Fuels
    <3> HIDE DEF b
    <3> QED
      BY <2>2, <2>5, <3>1, <3>2, SMT
  <2>7. b \in Nat
    BY <2>4, FuelAssumption, SMT DEF Fuels
  <2> HIDE DEF b
  <2> QED
    BY <2>1, <2>4, <2>6, <2>7, SMT
<1>5. CASE Continue \/ CheckpointResumed \/ \E f \in FiberId : ResumeWith(f)
  BY <1>5 DEF Continue, CheckpointResumed, ResumeWith, fuelVars, hostVars, FuelConserved
<1> QED
  BY <1>2, <1>3, <1>4, <1>5 DEF HostStep

\* Fuel is moved, never created, for any number of fibers, any budget, any
\* depth of carving and any refuel: saturation, refunds, failed forks, faults
\* and snapshots included.
THEOREM FuelConservedHolds == Spec => []FuelConserved
<1>1. Init => FuelConserved
  BY DEF Init, FuelConserved
<1>2. SchedInv /\ FuelConserved /\ [Next]_vars => FuelConserved'
  <2>1. ASSUME FuelConserved, UNCHANGED vars PROVE FuelConserved'
    BY <2>1 DEF vars, FuelConserved
  <2> QED
    BY <2>1, LoopConserves, HostConserves DEF Next
<1> QED
  BY <1>1, <1>2, SchedInvHolds, PTL DEF Spec

\* A fiber's fuel is spent by its own slices and forks only, whoever else runs,
\* forks, ends or is refunded.
THEOREM FuelIsolationHolds == Spec => FuelIsolation
<1> DEFINE Isolated ==
        InRun /\ current # None =>
            \A f \in Live :
                (fibers'[f].status # "Absent" /\ fibers[f].meter # CurrentMeter
                 /\ meters[fibers[f].meter].remaining # Unlimited)
                    => meters'[fibers[f].meter].remaining >= meters[fibers[f].meter].remaining
<1>1. ASSUME SchedInv, SchedulerStep PROVE Isolated
  <2> SUFFICES ASSUME current # None, NEW f \in FiberId, fibers[f].status # "Absent",
                      fibers'[f].status # "Absent", fibers[f].meter # CurrentMeter,
                      meters[fibers[f].meter].remaining # Unlimited
               PROVE  meters'[fibers[f].meter].remaining >= meters[fibers[f].meter].remaining
    BY DEF Live
  <2>1. fibers[f].meter \in 1 .. Len(meters) \ {CurrentMeter} /\ IsArena(meters)
    BY <1>1, Split DEF Core, MetersSound
  <2>2. meters[fibers[f].meter].remaining \in Nat
    BY <2>1, ArenaSlot, FuelAssumption DEF Fuels
  <2>3. CASE meters' = meters
    BY <2>2, <2>3, SMT
  <2>4. ASSUME NEW ms, Paid(ms), Moves(ms)
        PROVE  meters'[fibers[f].meter].remaining >= meters[fibers[f].meter].remaining
    <3>1. IsArena(ms) /\ Len(ms) = Len(meters)
          /\ ms[fibers[f].meter].remaining = meters[fibers[f].meter].remaining
      BY <1>1, <2>1, <2>4, PaidCosts
    <3> QED
      BY <1>1, <2>4, <3>1, MovesCost
  <2> QED
    BY <1>1, <2>3, <2>4, MeterSteps
<1>2. ASSUME HostStep PROVE Isolated
  BY <1>2 DEF HostStep, Continue, CheckpointResumed, SetFuel, AddFuel, RunFresh, ResumeWith,
     InRun
<1>3. SchedInv /\ [Next]_vars => [Isolated]_vars
  BY <1>1, <1>2 DEF Next
<1> QED
  BY <1>3, SchedInvHolds, PTL DEF Spec, FuelIsolation

==============================================================================
