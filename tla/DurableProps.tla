---------------------------- MODULE DurableProps ----------------------------
(***************************************************************************)
(* What the heap, the collector and the checkpoint promise the program.    *)
(***************************************************************************)
EXTENDS Durable, Bindings

\* The shape of the state: ids in range, no slot free twice.
TypeOK ==
    /\ \A arena \in DOMAIN ArenaOf :
        LET a == heap[arena] IN
        /\ a.allocations >= Len(a.slots)
        /\ FreeIds(a) \subseteq IdsOf(a)
        /\ IsInjective(a.free_list)
    /\ env \in IdsOf(heap.envs) /\ cont \in IdsOf(heap.conts)
    /\ Len(fibers) <= MaxFibers
    /\ \A i \in DOMAIN ready_queue : PlaceOf(fibers, ready_queue[i]) # 0
    /\ current # <<>> => PlaceOf(fibers, current[1]) # 0
    /\ alloc_snapshot \in 0 .. TotalAllocations(heap)
    /\ file.at \in {"before", "torn", "written", "renamed", "past"}

\* What a program can still get at: the registers of the fiber that runs, what the
\* others will run on or have to deliver, the globals.
HeldByFiber(fiber) ==
    IF fiber.status.is = "Completed" THEN Refs(TRUE, One("FiberStatus"), fiber.status)
    ELSE IF <<fiber.id>> = current THEN {}
    ELSE Refs(TRUE, One("Control"), fiber.control)
         \cup {<<"envs", fiber.env>>, <<"conts", fiber.cont>>}

Held ==
    Refs(TRUE, Many(One("Binding")), globals)
    \cup (IF current = <<>> THEN {}
          ELSE Refs(TRUE, One("Control"), control) \cup {<<"envs", env>>, <<"conts", cont>>})
    \cup UNION {HeldByFiber(fibers[i].f) : i \in DOMAIN fibers}

\* No slot a program can get at is free to be overwritten: the collector roots and
\* follows everything, whichever fiber holds it, whenever it runs, and in a
\* restored run as well (src/gc.rs).
NothingHeldIsFree ==
    \A r \in Reached(TRUE, heap, Held) : r[2] \notin FreeIds(heap[r[1]])

\* Whether a thing of some name can lead to an id, that far down.
LeadsToIds[depth \in 0 .. 3] ==
    [name \in DOMAIN Written |-> \E v \in Written[name] : \E i \in DOMAIN v.fields :
        LET base == Base(v.fields[i].type) IN
        IF base.t = "one" THEN depth > 0 /\ LeadsToIds[depth - 1][base.of]
        ELSE "to" \in DOMAIN base]

FollowsIds ==
    \A type \in TracedTypes : \A v \in Written[type] : \A i \in DOMAIN v.fields :
        LET base == Base(v.fields[i].type) IN
        (IF base.t = "one" THEN LeadsToIds[3][base.of] ELSE "to" \in DOMAIN base) =>
            v.fields[i].name \in Traced(type, v.is)

\* What was read is the program that runs, about to see "restored".
IsThisRun(rt) ==
    /\ \A arena \in DOMAIN heap : rt[arena].f = heap[arena]
    /\ rt.control = control /\ rt.env = env /\ rt.cont = cont /\ rt.globals = globals
    /\ rt.fibers = fibers /\ rt.next_fiber_id = next_fiber_id
    /\ rt.ready_queue = current \o ready_queue
    /\ WaitersIn(rt) = join_waiters
    /\ fibers[PlaceOf(fibers, current[1])].f.control = ValueOf(Str(Restored))

\* Whenever the process dies while it writes a checkpoint, the file at the path is
\* the older one or the new one, whole; after the rename it is the state the
\* program was in, registers, wait lists and all, with the fiber that took it in
\* front and about to see "restored".
CheckpointWhole ==
    file.at \in {"torn", "written", "renamed"} =>
        \E got \in {ReadSnapshot(file.path)} :
            /\ got.ok
            /\ file.at = "renamed" => IsThisRun(got.x.f)

-----------------------------------------------------------------------------
(* Of tables and scopes as such.  These do not depend on the state; they   *)
(* are looked at where a run begins.                                       *)

AtStart == heap = NewHeap /\ current = <<>>

\* Every field of a frame, a value, an object, an environment, a handler or a root
\* that can hold an id is followed by the collector, in whatever frame a program
\* is when it runs (the arms of trace_cont and the others in src/gc.rs).
TracesEveryReference == AtStart => FollowsIds

\* A scope behaves as a map whatever its size: made of a call's parameters, two of
\* which may have the same name, and assigned to, it has each name once with the
\* value given last, across the step from the array to the map (src/env.rs).
BindingsAreAMap == AtStart => BehavesAsMap
=============================================================================
