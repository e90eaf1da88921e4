---------------------------- MODULE Continuations ----------------------------
(* The control part of the CEKH machine (cekh.rs, cont.rs): the continuation *)
(* as a linked chain of frames in an arena, and the operations that grow,    *)
(* consume, unwind, capture and splice it.                                   *)
(*                                                                           *)
(* A step of CEKH::step is one action. `control` says what the machine does  *)
(* next: "Eval" an expression or a statement (which one is the program's     *)
(* choice), hand a "Value" to the top frame, unwind for "Returning"; or it   *)
(* has stopped: "Suspend", "Halted", "Faulted". Values are not modelled,     *)
(* except the resumptions a handler clause receives: `held` has those the    *)
(* program can still reach. A resumption's `effect` is history: the effect   *)
(* it answers, which JSValue::Continuation does not record.                  *)
(*                                                                           *)
(* Frame kinds that treat the chain alike share one: PendingK is every frame *)
(* that, given a value, evaluates something more or passes it on (operators, *)
(* bindings, literals, blocks, the arguments of a perform), LoopK each of    *)
(* the six loop frames. What the program text fixes in a frame and the chain *)
(* does not depend on (how many statements are left, whether a handler has a *)
(* return clause) is chosen when the frame is applied.                       *)
(* Environments are left out: a frame that evaluates anything restores the   *)
(* one it was pushed with. Slots no root reaches are dropped at once; which  *)
(* slot alloc takes cannot be observed.                                      *)
EXTENDS Naturals, SequencesExt

CONSTANTS
    Effects,     \* the effects the program performs
    ClauseSets,  \* the sets of effects its handlers have clauses for
    MaxKonts,    \* bound: slots of the arena in use, besides halt
    MaxHeld      \* bound: resumptions the program keeps at a time

ASSUME ContinuationAssumption == MaxKonts \in Nat

VARIABLES konts, cont, control, held

vars == <<konts, cont, control, held>>

Halt == 0

HaltK == [tag |-> "Halt"]
Frame(tag, k) == [tag |-> tag, k |-> k]
ArgsK(callee, k) == [tag |-> "ArgsK", callee |-> callee, k |-> k]
HandlerK(clauses, k) == [tag |-> "HandlerK", clauses |-> clauses, k |-> k]

\* What a call finds as its callee: a resumption, or anything else.
Plain == [tag |-> "Plain"]
Resumption(k, effect) == [tag |-> "Continuation", k |-> k, effect |-> effect]

----------------------------------------------------------------------------
(* The arena. *)

\* The slots from i to the end of its chain.
Chain(h, i) ==
    LET chain[j \in DOMAIN h] ==
            IF h[j].tag = "Halt" THEN <<j>> ELSE <<j>> \o chain[h[j].k]
    IN  chain[i]

\* The first slot of a chain that is one of `wanted`, Halt if none is.
FirstFrame(h, i, wanted) ==
    LET chain == Chain(h, i)
        n == SelectInSeq(chain, LAMBDA j : j \in wanted)
    IN  IF n = 0 THEN Halt ELSE chain[n]

Tagged(h, tag) == {j \in DOMAIN h : h[j].tag = tag}

\* Mutant of RefsOf: a callee waiting for its arguments is not followed.
OuterOnly(frame) == IF frame.tag = "Halt" THEN {} ELSE {frame.k}

\* The slots a frame refers to: its outer frame and a resumption it holds.
RefsOf(frame) ==
    (IF frame.tag = "Halt" THEN {} ELSE {frame.k})
    \cup (IF frame.tag = "ArgsK" /\ frame.callee.tag = "Continuation"
          THEN {frame.callee.k} ELSE {})

\* The part of the arena the roots reach.
Reached(h, roots) ==
    LET reach[j \in DOMAIN h] == {j} \cup UNION {reach[r] : r \in RefsOf(h[j])}
    IN  Restrict(h, UNION {reach[r] : r \in roots \cup {Halt}})

\* New slots are above the ones in use.
FreeSlots(h) == [n \in 1..(MaxKonts - Max(DOMAIN h)) |-> Max(DOMAIN h) + n]
Room(h, n) == Len(FreeSlots(h)) >= n

Allocated(h, frame) ==
    [j \in DOMAIN h \cup {FreeSlots(h)[1]} |-> IF j \in DOMAIN h THEN h[j] ELSE frame]

\* The arena while apply_cont works: the top frame's slot is Halt, the frame is
\* at hand.
Spent ==
    Reached([konts EXCEPT ![cont] = HaltK], RefsOf(konts[cont]) \cup {r.k : r \in held})

----------------------------------------------------------------------------
(* How a step ends. *)

\* The machine goes on at slot c of arena h.
Continue(h, c, doing) ==
    /\ cont' = c
    /\ control' = doing
    /\ konts' = Reached(h, {c} \cup {r.k : r \in held'})

\* ... with an error, which is the end of a child: nothing reads its registers
\* again.  A root keeps them, and a host that enters again would run on them; that
\* is not followed.
Fault == control' = "Faulted" /\ UNCHANGED <<konts, cont>>

\* ... below a new frame.
Push(h, frame, doing) ==
    /\ Room(h, 1)
    /\ Continue(Allocated(h, frame), FreeSlots(h)[1], doing)

----------------------------------------------------------------------------
(* Effects: capture and resumption. *)

Answers(frame, effect) == frame.tag = "HandlerK" /\ effect \in frame.clauses

\* do_perform from slot k: the nearest handler with a clause for the effect
\* receives everything from k on as the resumption and its clause runs outside
\* it; with no such handler the machine suspends where it is. The clause may
\* drop the resumption (one without parameters never gets it), and so may the
\* program any it has held.
DoPerform(h, effect, k) ==
    LET handler == FirstFrame(h, k, {j \in DOMAIN h : Answers(h[j], effect)})
    IN  \/ /\ handler = Halt
           /\ UNCHANGED held
           /\ Continue(h, k, "Suspend")
        \/ /\ handler # Halt
           /\ \E kept \in SUBSET (held \cup {Resumption(k, effect)}) :
                 /\ Cardinality(kept) <= MaxHeld
                 /\ held' = kept
           /\ Continue(h, h[handler].k, "Eval")

BlockSize(h, r) ==
    SelectInSeq(Chain(h, r), LAMBDA j : h[j].tag = "HandlerK")

\* A copy of the frames from r to the first handler, which returns to k. The
\* handler is allocated first, the others outwards from it.
Copied(h, r, k) ==
    LET chain == Chain(h, r)
        n == BlockSize(h, r)
        new == FreeSlots(h)
        copy(m) == [h[chain[m]] EXCEPT !.k = IF m = n THEN k ELSE new[n - m]]
    IN  [konts |-> [j \in DOMAIN h \cup {new[m] : m \in 1..n} |->
                        IF j \in DOMAIN h THEN h[j]
                        ELSE copy(CHOOSE m \in 1..n : new[n + 1 - m] = j)],
         cont |-> new[n]]

\* Mutant of Rebased: the handler frame is redirected in place.
RebasedInPlace(h, r, k) ==
    LET n == BlockSize(h, r)
    IN  IF n = 0 THEN [konts |-> h, cont |-> r]
        ELSE [konts |-> [h EXCEPT ![Chain(h, r)[n]].k = k], cont |-> r]

\* Mutant of Rebased: the handler's copy returns where the handler did.
RebasedUnlinked(h, r, k) ==
    LET n == BlockSize(h, r)
    IN  IF n = 0 THEN [konts |-> h, cont |-> r]
        ELSE Copied(h, r, h[Chain(h, r)[n]].k)

\* rebase_continuation and rebuild_kont_with_k: the block from r to the first
\* handler, whatever its clauses, is copied to return to k; r itself if no
\* handler is met.
Rebased(h, r, k) ==
    IF BlockSize(h, r) = 0 THEN [konts |-> h, cont |-> r] ELSE Copied(h, r, k)

\* call_function: a resumption is spliced in; a function pushes its return
\* point (an arrow function also the frame that returns its value; an empty
\* body is a value at once); a native one answers; anything else is a fault.
CallFunction(h, callee, k) ==
    /\ UNCHANGED held
    /\ \/ /\ callee.tag = "Continuation"
          /\ Room(h, BlockSize(h, callee.k))
          /\ LET new == Rebased(h, callee.k, k)
             IN  Continue(new.konts, new.cont, "Value")
       \/ /\ callee.tag = "Plain"
          /\ \/ \E doing \in {"Eval", "Value"} : Push(h, Frame("ReturnK", k), doing)
             \/ /\ Room(h, 2)
                /\ Push(Allocated(h, Frame("ReturnK", k)),
                        Frame("ReturnExprK", FreeSlots(h)[1]), "Eval")
             \/ Continue(h, k, "Value")
             \/ Fault

----------------------------------------------------------------------------
(* step_expr and step_stmt: one action per kind of expression or statement. *)

Evaluating == control = "Eval" /\ UNCHANGED held

\* Literals, identifiers, functions, empty blocks; or an error of its own (an
\* invalid assignment target, a const without a value).
Literal == Evaluating /\ (Continue(konts, cont, "Value") \/ Fault)

\* A block, a `perform` with arguments, any other compound: the rest waits in a
\* frame.
Block == Evaluating /\ Push(konts, Frame("PendingK", cont), "Eval")

\* A call; its callee is evaluated, its argument still to come.
Call ==
    Evaluating /\ \E callee \in held \cup {Plain} : Push(konts, ArgsK(callee, cont), "Eval")

\* `handle`, or the body of a `handle ... with` whose handler is evaluated.
Handle ==
    /\ Evaluating
    /\ \E clauses \in ClauseSets : Push(konts, HandlerK(clauses, cont), "Eval")

\* `perform` without arguments.
PerformNow == control = "Eval" /\ \E e \in Effects : DoPerform(konts, e, cont)

Loop == Evaluating /\ Push(konts, Frame("LoopK", cont), "Eval")

Return ==
    /\ Evaluating
    /\ \/ Push(konts, Frame("ReturnExprK", cont), "Eval")
       \/ Continue(konts, cont, "Returning")

LoopFrame == FirstFrame(konts, cont, Tagged(konts, "LoopK"))

\* break and continue unwind to the nearest loop, through handlers and calls.
Break ==
    /\ Evaluating
    /\ IF LoopFrame = Halt THEN Fault
       ELSE Continue(konts, konts[LoopFrame].k, "Value")

ContinueLoop ==
    /\ Evaluating
    /\ IF LoopFrame = Halt THEN Fault
       ELSE \E doing \in {"Eval", "Value"} :
            Push(konts, Frame("LoopK", konts[LoopFrame].k), doing)

----------------------------------------------------------------------------
(* apply_cont: the top frame is taken out of its slot, which is Halt from    *)
(* then on, and gets the value.                                              *)

Applying(tag) == control = "Value" /\ konts[cont].tag = tag

ApplyHalt ==
    Applying("Halt") /\ UNCHANGED held /\ Continue(Spent, cont, "Halted")

\* A frame evaluates what comes next below a frame for the rest of it, or what
\* comes last in its own place, or it passes the value on, or the operation
\* fails on the values it has.
ApplyPending ==
    /\ Applying("PendingK")
    /\ UNCHANGED held
    /\ \/ Push(Spent, Frame("PendingK", konts[cont].k), "Eval")
       \/ \E doing \in {"Eval", "Value"} : Continue(Spent, konts[cont].k, doing)
       \/ Fault

ApplyArgs ==
    Applying("ArgsK") /\ CallFunction(Spent, konts[cont].callee, konts[cont].k)

\* The last argument of a `perform`.
ApplyPerformArgs ==
    /\ Applying("PendingK")
    /\ \E e \in Effects : DoPerform(Spent, e, konts[cont].k)

\* Through a handler's return clause, if it has one.
ApplyHandler ==
    /\ Applying("HandlerK")
    /\ UNCHANGED held
    /\ \E doing \in {"Eval", "Value"} : Continue(Spent, konts[cont].k, doing)

\* The next part of a loop runs below a new loop frame, or the loop is over.
ApplyLoop ==
    /\ Applying("LoopK")
    /\ UNCHANGED held
    /\ \/ \E doing \in {"Eval", "Value"} : Push(Spent, Frame("LoopK", konts[cont].k), doing)
       \/ Continue(Spent, konts[cont].k, "Value")

ApplyReturn ==
    Applying("ReturnK") /\ UNCHANGED held /\ Continue(Spent, konts[cont].k, "Value")

ApplyReturnExpr ==
    /\ Applying("ReturnExprK")
    /\ UNCHANGED held
    /\ Continue(Spent, konts[cont].k, "Returning")

----------------------------------------------------------------------------
(* handle_return: unwind to the nearest return point; without one the       *)
(* program is over.                                                          *)
ReturnPoint == FirstFrame(konts, cont, Tagged(konts, "ReturnK"))

HandleReturn ==
    /\ control = "Returning"
    /\ UNCHANGED held
    /\ IF ReturnPoint = Halt THEN Continue(konts, cont, "Halted")
       ELSE Continue(konts, konts[ReturnPoint].k, "Value")

\* The runtime answers the effect the machine suspended on.
Answer == control = "Suspend" /\ UNCHANGED held /\ Continue(konts, cont, "Value")

----------------------------------------------------------------------------
Init ==
    /\ konts = [i \in {Halt} |-> HaltK]
    /\ cont = Halt
    /\ control = "Eval"
    /\ held = {}

Next ==
    \/ Literal \/ Block \/ Call \/ Handle \/ PerformNow
    \/ Loop \/ Return \/ Break \/ ContinueLoop
    \/ ApplyHalt \/ ApplyPending \/ ApplyArgs \/ ApplyPerformArgs \/ ApplyHandler
    \/ ApplyLoop \/ ApplyReturn \/ ApplyReturnExpr
    \/ HandleReturn \/ Answer

Spec == Init /\ [][Next]_vars
=============================================================================
