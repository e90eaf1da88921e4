------------------------------- MODULE Machine -------------------------------
(***************************************************************************)
(* The interpreter of src/cekh.rs as a user of the heap: which slots its   *)
(* steps allocate, spend and overwrite.                                    *)
(*                                                                         *)
(* A program is whatever it turns out to be: an expression to evaluate may *)
(* be any its family allows.  It has one variable, x, which every closure  *)
(* takes as its parameter and every handler clause as its continuation;    *)
(* objects have one property, p.                                           *)
(***************************************************************************)
EXTENDS Collector, TLC

\* Families of programs: the forms of their expressions, the effects they perform
\* and, a bound, how many allocations one makes.
CONSTANT Families

ASSUME FamiliesAssumption == \A f \in Families : f.effects \subseteq Nat

VARIABLES family,   \* of the program that runs
          heap,     \* [objects, envs, conts, handlers]
          control, env, cont, globals

registers == <<family, heap, control, env, cont, globals>>

Thing(is, f) == [is |-> is, f |-> f]

\* Names of the program and the effects it performs.
Restored == 1
Saved == 2
X == 3
P == 4
Ask == 5
Fork == 6
Join == 7
Gc == 8
Snapshot == 9

Undefined == Thing("Undefined", <<>>)
IntValue(n) == Thing("Int", [n |-> n])
Str(s) == Thing("String", [s |-> s])
Obj(o) == Thing("Object", [o |-> o])
Fun(o) == Thing("Function", [o |-> o])
ValueOf(v) == Thing("Value", [v |-> v])
SomeExpr == Thing("Expr", [e |-> 0])

Binding(name, v) == Thing("Binding", [key |-> name, value |-> v])

\* An object with one property, or a closure over an environment whose body is
\* an expression.
ObjectWith(v) == Thing("Object",
    [properties |-> <<Thing("Property", [key |-> P, value |-> v, writable |-> 1,
                                         enumerable |-> 1, configurable |-> 1])>>,
     prototype |-> <<>>, kind |-> Thing("Ordinary", <<>>)])
Closure(e) == Thing("Object",
    [properties |-> <<>>, prototype |-> <<>>,
     kind |-> Thing("Function", [params_start |-> 0, params_count |-> 1, body |-> 0,
                                 expr_body |-> <<0>>, env |-> e, name |-> <<>>])])

EnvWith(bindings, parent) == Thing("Env", [bindings |-> bindings, parent |-> parent])

\* A frame; the fields not given are ids of the program.
Kont(is, given) ==
    Thing(is, [name \in Names(VariantOf["Kont"][is].fields) |->
                  IF name \in DOMAIN given THEN given[name] ELSE 0])
Halt == Thing("Halt", <<>>)

-----------------------------------------------------------------------------
(* Environments. *)

\* The environment of the chain from e that binds x, if any.
Binder(envs, e) ==
    LET stays(i) == Slot(envs, i).f.bindings # <<>> \/ Slot(envs, i).f.parent = <<>>
        at[n \in 0 .. Len(envs.slots)] ==
            IF n = 0 THEN e
            ELSE LET i == at[n - 1] IN IF stays(i) THEN i ELSE Slot(envs, i).f.parent[1]
        last == at[Len(envs.slots)]
    IN  IF Slot(envs, last).f.bindings # <<>> THEN <<last>> ELSE <<>>

\* What x is: bound in the chain, else a global, else undefined.
Lookup(e) ==
    LET at == Binder(heap.envs, e) IN
    IF at # <<>> THEN Slot(heap.envs, at[1]).f.bindings[1].f.value
    ELSE IF globals # <<>> THEN globals[1].f.value ELSE Undefined

-----------------------------------------------------------------------------
(* The continuation chain. *)

\* The chain from k up to the first of some frames or Halt, where it stays.
Chain(conts, k, frames) ==
    LET at[n \in 0 .. Len(conts.slots)] ==
            IF n = 0 THEN k
            ELSE LET i == at[n - 1] IN
                 IF Slot(conts, i).is \in frames \cup {"Halt"} THEN i ELSE Slot(conts, i).f.k
    IN  at

\* The first of the frames, if any.
Nearest(conts, k, frames) ==
    LET last == Chain(conts, k, frames)[Len(conts.slots)] IN
    IF Slot(conts, last).is \in frames THEN <<last>> ELSE <<>>

\* rebase_continuation: a copy of the chain up to its handler, the last frame first,
\* going on with k.  Gives the new frames and the id of the copy of the first.
Rebased(conts, captured, k) ==
    LET chain == Chain(conts, captured, {"HandlerK"})
        handlers == {n \in DOMAIN chain : Slot(conts, chain[n]).is = "HandlerK"}
        first == CHOOSE n \in handlers : \A m \in handlers : n <= m
        copied[n \in 0 .. first + 1] ==
            IF n = 0 THEN [conts |-> conts, k |-> k]
            ELSE LET done == copied[n - 1]
                     frame == Slot(conts, chain[first + 1 - n]) IN
                 [conts |-> Alloc(done.conts, [frame EXCEPT !.f.k = done.k]),
                  k |-> NextId(done.conts)]
    IN  IF handlers = {} THEN [conts |-> conts, k |-> captured] ELSE copied[first + 1]

-----------------------------------------------------------------------------
(* step_expr *)

\* The machine is to evaluate an expression of this form.
Evaluates(form) == control = SomeExpr /\ form \in family.forms

\* A step that leaves the program's variables alone.
Steps(new_heap, new_control, new_env, new_cont) ==
    /\ TotalAllocations(new_heap) <= family.allocations
    /\ heap' = new_heap
    /\ control' = new_control
    /\ env' = new_env
    /\ cont' = new_cont
    /\ UNCHANGED <<family, globals>>

\* Push a frame and evaluate its first operand.
Pushes(conts, e, frame) ==
    Steps([heap EXCEPT !.conts = Alloc(conts, frame)], SomeExpr, e, NextId(conts))

EvalLiteral ==
    \/ Evaluates("Undefined") /\ Steps(heap, ValueOf(Undefined), env, cont)
    \/ Evaluates("String") /\ Steps(heap, ValueOf(Str(P)), env, cont)
    \/ Evaluates("Int") /\ \E n \in {0, 1} : Steps(heap, ValueOf(IntValue(n)), env, cont)

EvalIdentifier ==
    /\ Evaluates("Identifier")
    /\ Steps(heap, ValueOf(Lookup(env)), env, cont)

EvalFunction ==
    /\ Evaluates("Function")
    /\ Steps([heap EXCEPT !.objects = Alloc(@, Closure(env))],
             ValueOf(Fun(NextId(heap.objects))), env, cont)

EvalHandler ==
    /\ Evaluates("Handler")
    /\ Steps([heap EXCEPT !.handlers = Alloc(@,
                Thing("Handler", [clauses_start |-> 0, clauses_count |-> 1,
                                  return_param |-> 0, return_body |-> 0, env |-> env]))],
             ValueOf(Thing("Handler", [h |-> NextId(heap.handlers)])), env, cont)

\* The forms whose first operand is evaluated under a frame of their own; all
\* but a member access keep the environment.
EvalOperand ==
    \E form \in {"AssignVarK", "ObjectK", "CalleeK", "HandleWithK", "MemberK"} :
        /\ Evaluates(form)
        /\ Pushes(heap.conts, env,
                  Kont(form, [env |-> env, k |-> cont, property |-> P, name |-> X,
                              done |-> <<>>, props_count |-> 1, args_count |-> 1]))

\* do_perform without arguments or with the last of them: the nearest handler
\* with a clause for the effect, or out of the interpreter.
Performs(effect, args, conts, k) ==
    LET handler == Nearest(conts, k, {"HandlerK"}) IN
    IF effect = Ask
    THEN /\ handler # <<>>   \* bound: an effect nobody answers ends the program
         /\ LET frame == Slot(conts, handler[1]).f
                resume == Thing("Continuation", [k |-> k, env |-> env]) IN
            Steps([heap EXCEPT !.conts = conts,
                               !.envs = Alloc(@, EnvWith(<<Binding(X, resume)>>, <<frame.env>>))],
                  SomeExpr, NextId(heap.envs), frame.k)
    ELSE Steps([heap EXCEPT !.conts = conts],
               Thing("Suspend", [effect |-> effect, args |-> args]), env, k)

EvalPerform ==
    /\ Evaluates("Perform")
    /\ \/ \E effect \in family.effects \cap {Ask, Gc} : Performs(effect, <<>>, heap.conts, cont)
       \/ \E effect \in family.effects \ {Ask, Gc} :
            Pushes(heap.conts, env,
                   Kont("PerformArgsK", [effect |-> effect, done |-> <<>>, args_idx |-> 1,
                                         args_count |-> 1, env |-> env, k |-> cont]))

-----------------------------------------------------------------------------
(* apply_cont: the frame is taken, Halt is left in its slot. *)

Applies(is) == control.is = "Value" /\ Slot(heap.conts, cont).is = is
Spent == SetSlot(heap.conts, cont, Halt)
Frame == Slot(heap.conts, cont).f
Given == control.f.v

ApplyHalt ==
    /\ Applies("Halt")
    /\ Steps(heap, Thing("Halted", [v |-> Given]), env, cont)

\* The variable where it is bound, else a global.
ApplyAssignVar ==
    /\ Applies("AssignVarK")
    /\ LET at == Binder(heap.envs, Frame.env) IN
       /\ heap' = [heap EXCEPT !.conts = Spent,
                               !.envs = IF at = <<>> THEN @
                                        ELSE [@ EXCEPT !.slots[at[1] + 1].f.bindings =
                                                            <<Binding(X, Given)>>]]
       /\ globals' = IF at = <<>> THEN <<Binding(X, Given)>> ELSE globals
    /\ cont' = Frame.k
    /\ UNCHANGED <<family, control, env>>

ApplyObject ==
    /\ Applies("ObjectK")
    /\ Steps([heap EXCEPT !.conts = Spent, !.objects = Alloc(@, ObjectWith(Given))],
             ValueOf(Obj(NextId(heap.objects))), env, Frame.k)

ApplyMember ==
    /\ Applies("MemberK")
    /\ LET props == IF Given.is = "Object" THEN Slot(heap.objects, Given.f.o).f.properties
                    ELSE <<>> IN
       Steps([heap EXCEPT !.conts = Spent],
             ValueOf(IF props = <<>> THEN Undefined ELSE props[1].f.value), env, Frame.k)

\* The callee is there: its argument is next.
ApplyCallee ==
    /\ Applies("CalleeK")
    /\ Pushes(Spent, Frame.env,
              Kont("ArgsK", [callee |-> Given, done |-> <<>>, args_idx |-> 1, args_count |-> 1,
                             env |-> Frame.env, k |-> Frame.k]))

\* call_function of a closure: an environment for x, where to return to and, for
\* an expression body, its return.
Called(conts, o, arg, k) ==
    LET e == Slot(heap.objects, o).f.kind.f.env
        returning == Alloc(conts, Kont("ReturnK", [env |-> env, k |-> k])) IN
    Steps([heap EXCEPT !.envs = Alloc(@, EnvWith(<<Binding(X, arg)>>, <<e>>)),
                       !.conts = Alloc(returning, Kont("ReturnExprK", [k |-> NextId(conts)]))],
          SomeExpr, NextId(heap.envs), NextId(returning))

\* call_function of a continuation
Resumed(conts, captured, arg, k) ==
    LET copy == Rebased(conts, captured.k, k) IN
    Steps([heap EXCEPT !.conts = copy.conts], ValueOf(arg), captured.env, copy.k)

ApplyArgs ==
    /\ Applies("ArgsK")
    /\ LET callee == Frame.callee IN
       \/ callee.is = "Function" /\ Called(Spent, callee.f.o, Given, Frame.k)
       \/ callee.is = "Continuation" /\ Resumed(Spent, callee.f, Given, Frame.k)

ApplyReturnExpr ==
    /\ Applies("ReturnExprK")
    /\ Steps([heap EXCEPT !.conts = Spent], Thing("Returning", [v |-> Given]), env, Frame.k)

ApplyReturn ==
    /\ Applies("ReturnK")
    /\ Steps([heap EXCEPT !.conts = Spent], control, Frame.env, Frame.k)

ApplyHandleWith ==
    /\ Applies("HandleWithK")
    /\ Given.is = "Handler"
    /\ Pushes(Spent, Frame.env,
              Kont("HandlerK", [clauses_count |-> 1, env |-> Slot(heap.handlers, Given.f.h).f.env,
                                k |-> Frame.k]))

\* without a return clause
ApplyHandler ==
    /\ Applies("HandlerK")
    /\ Steps([heap EXCEPT !.conts = Spent], control, env, Frame.k)

ApplyPerformArgs ==
    /\ Applies("PerformArgsK")
    /\ Performs(Frame.effect, <<Given>>, Spent, Frame.k)

\* handle_return: out of everything up to the call, no frame is taken.
Return ==
    /\ control.is = "Returning"
    /\ LET at == Nearest(heap.conts, cont, {"ReturnK"}) IN
       IF at = <<>> THEN Steps(heap, Thing("Halted", [v |-> Given]), env, cont)
       ELSE LET frame == Slot(heap.conts, at[1]).f IN
            Steps(heap, ValueOf(Given), frame.env, frame.k)

Step ==
    \/ EvalLiteral \/ EvalIdentifier \/ EvalFunction \/ EvalHandler \/ EvalOperand \/ EvalPerform
    \/ ApplyHalt \/ ApplyAssignVar \/ ApplyObject \/ ApplyMember \/ ApplyCallee \/ ApplyArgs
    \/ ApplyReturnExpr \/ ApplyReturn \/ ApplyHandleWith \/ ApplyHandler \/ ApplyPerformArgs
    \/ Return

-----------------------------------------------------------------------------
(* CEKH::new: the global environment and Halt are the slots 0. *)

NewHeap ==
    [objects |-> NewArena, envs |-> Alloc(NewArena, EnvWith(<<>>, <<>>)),
     conts |-> Alloc(NewArena, Halt), handlers |-> NewArena]
=============================================================================
