------------------------------- MODULE Durable -------------------------------
(***************************************************************************)
(* The runtime of src/runtime.rs around the heap: fibers, the effects the  *)
(* runtime handles itself, collections, and the checkpoint a program can   *)
(* take, with crashes while its file is written.                           *)
(*                                                                         *)
(* A checkpoint is the token sequence the writer produces from the state,  *)
(* and what a restarted process has is what the reader makes of it.        *)
(***************************************************************************)
EXTENDS Machine, SnapshotReader

CONSTANTS Threshold,       \* allocations between collections
          MaxFibers,       \* bound: fibers of a run
          ForkFleeting     \* whether programs fork closures nothing else holds

\* In a runtime, a value in a property of an object in an arena is 8 deep.
ASSUME DurableAssumption ==
    /\ Threshold \in Nat /\ MaxFibers \in Nat \ {0} /\ ForkFleeting \in BOOLEAN
    /\ MaxDepth >= 8

VARIABLES fibers, ready_queue, current, join_waiters, next_fiber_id,
          alloc_snapshot,
          file     \* [path, tmp, at]: two files and how far their writer is

scheduler == <<fibers, ready_queue, current, join_waiters, next_fiber_id>>
vars == <<registers, scheduler, alloc_snapshot, file>>

\* Ids are handed out in order, of which a run gets as far as this.
FiberId == 0 .. MaxFibers

Ready == Thing("Ready", <<>>)
Running == Thing("Running", <<>>)
Completed(v) == Thing("Completed", [v |-> v])

Fiber(id, ctl, k, e, status) ==
    Thing("Fiber", [id |-> id, control |-> ctl, cont |-> k, env |-> e, status |-> status,
                    meter |-> 0])

PlaceOf(fs, id) == SelectInSeq(fs, LAMBDA fiber : fiber.f.id = id)

\* save_current_fiber_state
SavedFibers(ctl) == [fibers EXCEPT ![PlaceOf(fibers, current[1])] =
    Fiber(current[1], ctl, cont, env, Ready)]

\* swap_remove: the last fiber takes the place.
Removed(fs, id) ==
    LET at == PlaceOf(fs, id) IN
    SubSeq([fs EXCEPT ![at] = Last(fs)], 1, Len(fs) - 1)

\* A process at work: nothing moves while the file is written.
Works == file.at \in {"before", "past"} /\ current # <<>>

Bounded(new_heap) == TotalAllocations(new_heap) <= family.allocations

-----------------------------------------------------------------------------
(* Slices. *)

Interpret ==
    /\ Works
    /\ Step
    /\ UNCHANGED <<scheduler, alloc_snapshot, file>>

\* select_next_fiber
Select ==
    /\ file.at \in {"before", "past"}
    /\ current = <<>>
    /\ ready_queue # <<>>
    /\ LET at == PlaceOf(fibers, Head(ready_queue))
           fiber == fibers[at].f IN
       /\ current' = <<fiber.id>>
       /\ control' = fiber.control
       /\ cont' = fiber.cont
       /\ env' = fiber.env
       /\ fibers' = [fibers EXCEPT ![at].f.status = Running]
    /\ ready_queue' = Tail(ready_queue)
    /\ UNCHANGED <<family, heap, globals, join_waiters, next_fiber_id, alloc_snapshot, file>>

\* The fibers once this one has its result.
Finished(id, v) == [fibers EXCEPT ![PlaceOf(fibers, id)].f.status = Completed(v)]

\* Those who joined are woken one after another, each with an object {ok: v}.
Woken(id, v, waiters) ==
    LET woken[n \in 0 .. Len(waiters)] ==
            IF n = 0 THEN [objects |-> heap.objects, fibers |-> Finished(id, v)]
            ELSE LET before == woken[n - 1]
                     place == PlaceOf(before.fibers, waiters[n])
                     joiner == before.fibers[place].f IN
                 [objects |-> Alloc(before.objects, ObjectWith(v)),
                  fibers |-> [before.fibers EXCEPT ![place] =
                      Fiber(waiters[n], ValueOf(Obj(NextId(before.objects))),
                            joiner.cont, joiner.env, Ready)]]
    IN  woken[Len(waiters)]

\* complete_current_fiber: the fiber goes once its joiners are woken; without
\* joiners it stays with its result.
Complete ==
    /\ Works
    /\ control.is = "Halted"
    /\ LET id == current[1]
           waiters == join_waiters[id] IN
       \E done \in {Woken(id, Given, waiters)} :
       /\ Bounded([heap EXCEPT !.objects = done.objects])
       /\ heap' = [heap EXCEPT !.objects = done.objects]
       /\ fibers' = IF waiters = <<>> THEN done.fibers ELSE Removed(done.fibers, id)
       /\ ready_queue' = ready_queue \o waiters
       /\ join_waiters' = [join_waiters EXCEPT ![id] = <<>>]
    /\ current' = <<>>
    /\ UNCHANGED <<family, control, env, cont, globals, next_fiber_id, alloc_snapshot, file>>

\* The heap and the baseline after a check whether a collection is due.
MayCollect(roots) ==
    IF ShouldCollect(heap, alloc_snapshot, Threshold)
    THEN [heap |-> Collected(heap, roots), base |-> TotalAllocations(heap)]
    ELSE [heap |-> heap, base |-> alloc_snapshot]

\* The quantum is used up: saved, queued, and a collection if one is due.
Preempt ==
    /\ Works
    /\ control.is \in {"Expr", "Value", "Returning"}
    /\ ready_queue # <<>>   \* bound: a fiber alone is not preempted
    /\ fibers' = SavedFibers(control)
    /\ \E after \in {MayCollect(Roots(control, env, cont, globals, fibers'))} :
        /\ heap' = after.heap
        /\ alloc_snapshot' = after.base
    /\ ready_queue' = Append(ready_queue, current[1])
    /\ current' = <<>>
    /\ UNCHANGED <<family, control, env, cont, globals, join_waiters, next_fiber_id, file>>

-----------------------------------------------------------------------------
(* handle_effect.  The arguments have been taken out of the control when   *)
(* the collection runs.                                                    *)

Suspended(effect) == Works /\ control.is = "Suspend" /\ control.f.effect = effect
Argument == IF control.f.args = <<>> THEN Undefined ELSE control.f.args[1]
Taken == [control EXCEPT !.f.args = <<>>]
AtEffect == MayCollect(Roots(Taken, env, cont, globals, fibers))

\* handle_fork of a closure without options: the child starts on a Halt of its
\* own, in the environment the function object names.
HandleFork ==
    /\ Suspended(Fork)
    /\ Argument.is = "Function"
    /\ Len(fibers) < MaxFibers /\ next_fiber_id \in FiberId
    /\ \E after \in {AtEffect} :
        LET e == Slot(after.heap.objects, Argument.f.o).f.kind.f.env IN
        /\ ForkFleeting \/ Argument.f.o \notin FreeIds(after.heap.objects)
        /\ heap' = [after.heap EXCEPT !.conts = Alloc(@, Halt)]
        /\ Bounded(heap')
        /\ fibers' = Append(fibers,
                Fiber(next_fiber_id, SomeExpr, NextId(after.heap.conts), e, Ready))
        /\ alloc_snapshot' = after.base
    /\ ready_queue' = Append(ready_queue, next_fiber_id)
    /\ next_fiber_id' = next_fiber_id + 1
    /\ control' = ValueOf(IntValue(next_fiber_id))
    /\ UNCHANGED <<family, env, cont, globals, current, join_waiters, file>>

\* handle_join: the result of a finished fiber, which goes, or wait for it.
HandleJoin ==
    /\ Suspended(Join)
    /\ Argument.is = "Int"
    /\ \E at \in DOMAIN fibers, after \in {AtEffect} :
        LET target == fibers[at].f IN
        /\ target.id = Argument.f.n
        /\ alloc_snapshot' = after.base
        /\ \/ /\ target.status.is = "Completed"
              /\ heap' = [after.heap EXCEPT !.objects = Alloc(@, ObjectWith(target.status.f.v))]
              /\ Bounded(heap')
              /\ control' = ValueOf(Obj(NextId(after.heap.objects)))
              /\ fibers' = Removed(fibers, target.id)
              /\ UNCHANGED <<current, join_waiters>>
           \/ /\ target.status.is # "Completed"
              /\ heap' = after.heap
              /\ control' = Taken
              /\ fibers' = SavedFibers(Taken)
              /\ join_waiters' = [join_waiters EXCEPT ![target.id] = Append(@, current[1])]
              /\ current' = <<>>
    /\ UNCHANGED <<family, env, cont, globals, ready_queue, next_fiber_id, file>>

\* handle_gc: collects in any case, once more if one was due.
HandleGc ==
    /\ Suspended(Gc)
    /\ heap' = Collected(heap, Roots(Taken, env, cont, globals, fibers))
    /\ alloc_snapshot' = TotalAllocations(heap)
    /\ control' = ValueOf(Undefined)
    /\ UNCHANGED <<family, env, cont, globals, scheduler, file>>

-----------------------------------------------------------------------------
(* The checkpoint. *)

\* write_runtime of a state; the program and its strings stand for themselves.
Bytes(h, ctl, e, k, gs, fs, queue, waiters, next) ==
    LET arenas == [arena \in DOMAIN h |-> Thing("Arena", h[arena])]
        names == <<"exprs", "stmts", "patterns", "expr_lists", "stmt_lists", "param_lists",
                   "prop_lists", "pattern_lists", "pattern_fields", "arms", "effect_clauses",
                   "floats">>
        ast == Thing("Ast", [name \in Range(names) \cup {"root_start", "root_count"} |->
                                IF name \in Range(names) THEN <<>> ELSE 0]) IN
    Put(Written, One("Runtime"), Thing("Runtime",
        [magic |-> Magic, version |-> Version, strings |-> [i \in 1 .. 10 |-> i - 1], ast |-> ast,
         objects |-> arenas.objects, envs |-> arenas.envs, conts |-> arenas.conts,
         handlers |-> arenas.handlers, control |-> ctl, env |-> e, cont |-> k, globals |-> gs,
         fibers |-> fs, ready_queue |-> queue, next_fiber_id |-> next,
         join_waiters |-> SetToSeq({Thing("Waiters", [fiber |-> id, waiters |-> waiters[id]]) :
                                        id \in {j \in DOMAIN waiters : waiters[j] # <<>>}}),
         effects |-> <<>>, meters |-> <<Thing("Meter", [remaining |-> <<>>, parent |-> <<>>])>>,
         steps_total |-> 0, quantum |-> 1]))

\* How far a writer is after n tokens.
WrittenTo(bytes, n) == IF n = Len(bytes) THEN "written" ELSE "torn"

\* Mutant of Staged: the bytes go straight to the file itself.
StagedInPlace(bytes, n) ==
    [path |-> SubSeq(bytes, 1, n), tmp |-> bytes, at |-> WrittenTo(bytes, n)]

\* The files once n tokens have been written.
Staged(bytes, n) ==
    [path |-> file.path, tmp |-> SubSeq(bytes, 1, n), at |-> WrittenTo(bytes, n)]

\* handle_snapshot up to the write: the program in the file wakes up first in the
\* queue and sees "restored".
HandleSnapshot ==
    /\ Suspended(Snapshot)
    /\ Argument.is = "String"
    /\ file.at = "before"   \* bound: one checkpoint is followed
    /\ \E after \in {AtEffect} : heap' = after.heap /\ alloc_snapshot' = after.base
    /\ control' = ValueOf(Str(Restored))
    /\ fibers' = SavedFibers(control')
    /\ \E bytes \in {Bytes(heap', control', env, cont, globals, fibers', current \o ready_queue,
                            join_waiters, next_fiber_id)} :
       \E n \in {0, Len(bytes) \div 2, Len(bytes)} :
           file' = Staged(bytes, n)
    /\ UNCHANGED <<family, env, cont, globals, ready_queue, current, join_waiters, next_fiber_id>>

Rename ==
    /\ file.at = "written"
    /\ file' = [path |-> file.tmp, tmp |-> <<>>, at |-> "renamed"]
    /\ UNCHANGED <<registers, scheduler, alloc_snapshot>>

\* The run goes on and sees "saved".  From here its files are not followed: they
\* stay as they are, and a crash later restores what a crash now does.
Live ==
    /\ file.at = "renamed"
    /\ control' = ValueOf(Str(Saved))
    /\ file' = [path |-> <<>>, tmp |-> <<>>, at |-> "past"]
    /\ UNCHANGED <<family, heap, env, cont, globals, scheduler, alloc_snapshot>>

\* reprime_baseline
Baseline(h) == TotalAllocations(h)

\* Who waits for which fiber in rt, which lists the fibers somebody waits for.
WaitersIn(rt) == [id \in DOMAIN join_waiters |->
    LET at == SelectInSeq(rt.join_waiters, LAMBDA w : w.f.fiber = id) IN
    IF at = 0 THEN <<>> ELSE rt.join_waiters[at].f.waiters]

\* Runs rt, as read_runtime leaves it: no fiber is selected.
Restores(rt) ==
    /\ heap' = [arena \in DOMAIN heap |-> rt[arena].f]
    /\ control' = rt.control
    /\ env' = rt.env
    /\ cont' = rt.cont
    /\ globals' = rt.globals
    /\ fibers' = rt.fibers
    /\ ready_queue' = rt.ready_queue
    /\ next_fiber_id' = rt.next_fiber_id
    /\ join_waiters' = WaitersIn(rt)
    /\ current' = <<>>
    /\ alloc_snapshot' = Baseline(heap')

\* The process dies at any point of the write, and another restores the file at
\* the path.
Restore ==
    /\ file.at \in {"torn", "written", "renamed"}
    /\ \E got \in {ReadSnapshot(file.path)} : got.ok /\ Restores(got.x.f)
    /\ UNCHANGED family
    /\ file' = [path |-> <<>>, tmp |-> <<>>, at |-> "past"]

-----------------------------------------------------------------------------

NoWaiters == [id \in FiberId |-> <<>>]
RootFiber == Fiber(0, SomeExpr, 0, 0, Ready)

\* A fresh run of a program of one expression; an older checkpoint, of such a run,
\* is at the path.
Init ==
    /\ family \in Families
    /\ heap = NewHeap
    /\ control = SomeExpr /\ env = 0 /\ cont = 0
    /\ globals = <<>>
    /\ fibers = <<RootFiber>>
    /\ ready_queue = <<0>>
    /\ current = <<>>
    /\ join_waiters = NoWaiters
    /\ next_fiber_id = 1
    /\ alloc_snapshot = 0
    /\ file = [path |-> Bytes(NewHeap, SomeExpr, 0, 0, <<>>, <<RootFiber>>, <<0>>, NoWaiters, 1),
                tmp |-> <<>>, at |-> "before"]

Next ==
    \/ Interpret \/ Select \/ Complete \/ Preempt
    \/ HandleFork \/ HandleJoin \/ HandleGc
    \/ HandleSnapshot \/ Rename \/ Live \/ Restore

Spec == Init /\ [][Next]_vars
=============================================================================
