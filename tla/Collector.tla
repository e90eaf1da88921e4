------------------------------ MODULE Collector ------------------------------
(***************************************************************************)
(* src/gc.rs: mark what the roots reach, sweep the four arenas.            *)
(*                                                                         *)
(* The heap is a record of arenas whose slots are things of the writer's   *)
(* tables, which say what a thing refers to.  What the collector follows   *)
(* is said by tables of its own, one entry for each arm of its trace_      *)
(* functions.                                                              *)
(***************************************************************************)
EXTENDS SnapshotWriter, Arena, FiniteSets

\* How many slots there are.
Slots(heap) ==
    Len(heap.objects.slots) + Len(heap.envs.slots) + Len(heap.conts.slots)
    + Len(heap.handlers.slots)

ArenaOf == [objects |-> "Object", envs |-> "Env", conts |-> "Kont", handlers |-> "Handler"]

-----------------------------------------------------------------------------
(* What is followed. *)

\* Mutant of KontTraced: the values a frame has collected so far are forgotten.
KontTracedButDone(is) ==
    CASE is = "Halt" -> {}
      [] is = "BinaryRightK" -> {"left", "k"}
      [] is \in {"IndexKeyK", "AssignMemberValK", "AssignIndexKeyK"} -> {"obj", "env", "k"}
      [] is = "AssignIndexValK" -> {"obj", "key", "k"}
      [] is = "ArgsK" -> {"callee", "env", "k"}
      [] OTHER -> {"env", "k"}

\* trace_cont, frame by frame
KontTraced(is) ==
    CASE is = "Halt" -> {}
      [] is \in {"UnaryK", "MemberK", "ReturnExprK", "ExprStmtK"} -> {"k"}
      [] is = "BinaryRightK" -> {"left", "k"}
      [] is \in {"IndexKeyK", "AssignMemberValK"} -> {"obj", "k"}
      [] is = "AssignIndexKeyK" -> {"obj", "env", "k"}
      [] is = "AssignIndexValK" -> {"obj", "key", "k"}
      [] is = "ArgsK" -> {"callee", "done", "env", "k"}
      [] is \in {"ArrayK", "ObjectK", "PerformArgsK"} -> {"done", "env", "k"}
      [] OTHER -> {"env", "k"}

ValueTraced(is) ==
    CASE is \in {"Object", "Array", "Function"} -> {"o"}
      [] is = "Handler" -> {"h"}
      [] is = "Continuation" -> {"k", "env"}
      [] OTHER -> {}

\* trace_object; a string's id leads nowhere, strings are never freed
ObjectKindTraced(is) ==
    CASE is = "Array" -> {"elements"}
      [] is = "Function" -> {"env"}
      [] is = "BoundFunction" -> {"target", "this_arg", "bound_args"}
      [] OTHER -> {}

\* What mark starts from: the registers and the fibers.  A host call's arguments
\* are trees of their own and hold no ids.
RootTraced(type, is) ==
    CASE type = "Control" -> {"v", "args"}
      [] type = "FiberStatus" /\ is = "Completed" -> {"v"}
      [] type = "FiberStatus" /\ is = "Blocked" -> {"args"}
      [] type = "Fiber" -> {"control", "env", "cont", "status"}
      [] OTHER -> {}

\* The fields of a variant of a type that are followed.
Traced(type, is) ==
    CASE type = "Value" -> ValueTraced(is)
      [] type = "Kont" -> KontTraced(is)
      [] type = "Env" -> {"parent", "bindings"}
      [] type = "Binding" -> {"value"}
      [] type = "Handler" -> {"env"}
      [] type = "Object" -> {"properties", "prototype", "kind"}
      [] type = "Property" -> {"value"}
      [] type = "ObjectKind" -> ObjectKindTraced(is)
      [] OTHER -> RootTraced(type, is)

\* The types the collector meets.
TracedTypes == {"Value", "Kont", "Env", "Binding", "Handler", "Object", "Property", "ObjectKind",
                "Control", "FiberStatus", "Fiber"}

-----------------------------------------------------------------------------
(* Marking.  With all the fields instead of the traced ones, the same walk *)
(* gives what a program can get at.                                        *)

ByName(variants) ==
    [is \in {v.is : v \in variants} |-> VariantIn(variants, is)]

VariantOf == [type \in TracedTypes |-> ByName(Written[type])]

\* The fields of each variant that the walk enters.
EnteredOf(all, type, variants) == [is \in DOMAIN variants |->
    {field \in Range(variants[is].fields) :
        /\ all \/ field.name \in Traced(type, is)
        /\ field.type.t = "num" => "to" \in DOMAIN field.type}]
Entered ==
    [all \in BOOLEAN |-> [type \in TracedTypes |-> EnteredOf(all, type, VariantOf[type])]]

\* What is in a field, be it a list or an option or one thing, and of what type.
Base(type) == IF type.t \in {"opt", "many"} THEN type.of ELSE type
Inside(type, x) == IF type.t \in {"opt", "many"} THEN x ELSE <<x>>

\* The ids in a field.
OwnIds(type, x) ==
    LET base == Base(type)  inside == Inside(type, x) IN
    IF "to" \in DOMAIN base THEN {<<base.to, inside[i]>> : i \in DOMAIN inside} ELSE {}

\* The fields of a thing that the walk enters.
EnteredIn(all, name, x) == IF name \in TracedTypes THEN Entered[all][name][x.is] ELSE {}

\* The ids a thing refers to, each with its arena: a value's, those of what values
\* are in, and those of what that is in.
ValueRefs(all, name, x) ==
    UNION {OwnIds(field.type, x.f[field.name]) : field \in EnteredIn(all, name, x)}

InPart(all, type, x) ==
    LET base == Base(type)  inside == Inside(type, x) IN
    IF base.t = "one" THEN UNION {ValueRefs(all, base.of, inside[i]) : i \in DOMAIN inside}
    ELSE OwnIds(type, x)
PartRefs(all, name, x) ==
    UNION {InPart(all, field.type, x.f[field.name]) : field \in EnteredIn(all, name, x)}

InThing(all, type, x) ==
    LET base == Base(type)  inside == Inside(type, x) IN
    IF base.t = "one" THEN UNION {PartRefs(all, base.of, inside[i]) : i \in DOMAIN inside}
    ELSE OwnIds(type, x)
ThingRefs(all, name, x) ==
    UNION {InThing(all, field.type, x.f[field.name]) : field \in EnteredIn(all, name, x)}

Refs(all, type, x) ==
    LET base == Base(type)  inside == Inside(type, x) IN
    IF base.t = "one" THEN UNION {ThingRefs(all, base.of, inside[i]) : i \in DOMAIN inside}
    ELSE OwnIds(type, x)

\* Everything reached from some ids, a round for each step away from them.
Reached(all, heap, ids) ==
    LET round[n \in 0 .. Slots(heap)] ==
            IF n = 0 THEN [marked |-> {}, todo |-> ids]
            ELSE LET before == round[n - 1]
                     seen == before.marked \cup before.todo IN
                 [marked |-> seen,
                  todo |-> (UNION {Refs(all, One(ArenaOf[r[1]]), Slot(heap[r[1]], r[2])) :
                                     r \in before.todo}) \ seen]
    IN  round[Slots(heap)].marked

-----------------------------------------------------------------------------
(* A collection. *)

\* Mutant of Roots: the globals are no roots of their own.
RootsButGlobals(control, env, cont, globals, fibers) ==
    {<<"envs", env>>, <<"conts", cont>>}
    \cup Refs(FALSE, One("Control"), control)
    \cup Refs(FALSE, Many(One("Fiber")), fibers)

\* The roots: the registers, the globals and every fiber, finished or not.
Roots(control, env, cont, globals, fibers) ==
    {<<"envs", env>>, <<"conts", cont>>}
    \cup Refs(FALSE, One("Control"), control)
    \cup Refs(FALSE, Many(One("Binding")), globals)
    \cup Refs(FALSE, Many(One("Fiber")), fibers)

\* collect
Collected(heap, roots) ==
    LET marked == Reached(FALSE, heap, roots) IN
    [arena \in DOMAIN heap |-> Sweep(heap[arena], {r[2] : r \in {m \in marked : m[1] = arena}})]

TotalAllocations(heap) ==
    heap.objects.allocations + heap.envs.allocations + heap.conts.allocations
    + heap.handlers.allocations

ShouldCollect(heap, alloc_snapshot, threshold) ==
    TotalAllocations(heap) - alloc_snapshot > threshold
=============================================================================
