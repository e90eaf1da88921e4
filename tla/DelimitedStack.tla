---------------------------- MODULE DelimitedStack ----------------------------
(* What the continuation chain promises the program: a control stack, top    *)
(* frame first, of which a handler's clause receives a delimited part as a   *)
(* value that never changes and can be put back, any number of times, on top *)
(* of whatever stack calls it. There is no arena here and nothing is shared  *)
(* or consumed. `resumptions` has the parts the program still holds.         *)
EXTENDS Naturals, SequencesExt

CONSTANTS Effects, ClauseSets

VARIABLES stack, doing, resumptions

svars == <<stack, doing, resumptions>>

Frame(tag) == [tag |-> tag]
Handler(clauses) == [tag |-> "HandlerK", clauses |-> clauses]
CallOf(callee) == [tag |-> "ArgsK", callee |-> callee]
Plain == [tag |-> "Plain"]
Resumed(part) == [tag |-> "Continuation", part |-> part]

Below(s, n) == SubSeq(s, n + 1, Len(s))
First(s, Test(_)) == SelectInSeq(s, Test)

\* What a resumption of stack s puts back: all of it up to the nearest handler.
Delimited(s) == SubSeq(s, 1, First(s, LAMBDA f : f.tag = "HandlerK"))

GoOn(s, next) == doing' = next /\ stack' = s /\ UNCHANGED resumptions

\* An effect goes to the nearest handler with a clause for it, which runs below
\* that handler and may keep the resumption; or else to the host.
Perform(effect, s) ==
    LET n == First(s, LAMBDA f : f.tag = "HandlerK" /\ effect \in f.clauses)
    IN  \/ n = 0 /\ GoOn(s, "Suspend")
        \/ /\ n # 0
           /\ stack' = Below(s, n)
           /\ doing' = "Eval"
           /\ resumptions' \in SUBSET (resumptions \cup {Delimited(s)})

LoopAt == First(stack, LAMBDA f : f.tag = "LoopK")
ReturnAt == First(stack, LAMBDA f : f.tag = "ReturnK")

Pushable ==
    {Frame(tag) : tag \in {"PendingK", "LoopK", "ReturnExprK"}}
    \cup {Handler(clauses) : clauses \in ClauseSets}
    \cup {CallOf(callee) : callee \in {Plain} \cup {Resumed(p) : p \in resumptions}}

NewFrame ==
    /\ doing' = "Eval"
    /\ stack' # <<>> /\ Tail(stack') = stack /\ Head(stack') \in Pushable
    /\ UNCHANGED resumptions

Evaluate ==
    /\ doing = "Eval"
    /\ \/ \E next \in {"Value", "Returning", "Faulted"} : GoOn(stack, next)
       \/ NewFrame
       \/ \E effect \in Effects : Perform(effect, stack)

\* break leaves the nearest loop, continue goes on with it.
LeaveLoop == doing = "Eval" /\ LoopAt # 0 /\ GoOn(Below(stack, LoopAt), "Value")
NextRound ==
    /\ doing = "Eval" /\ LoopAt # 0
    /\ \E next \in {"Eval", "Value"} : GoOn(Below(stack, LoopAt - 1), next)

\* The top frame gets the value: it makes way, or stays for what comes next.
Supply(tag) == doing = "Value" /\ stack # <<>> /\ Head(stack).tag = tag

Proceed ==
    \/ /\ Supply("PendingK")
       /\ \/ \E next \in {"Eval", "Faulted"} : GoOn(stack, next)
          \/ \E next \in {"Eval", "Value"} : GoOn(Tail(stack), next)
          \/ \E effect \in Effects : Perform(effect, Tail(stack))
    \/ /\ Supply("LoopK")
       /\ \/ \E next \in {"Eval", "Value"} : GoOn(stack, next)
          \/ GoOn(Tail(stack), "Value")
    \/ Supply("HandlerK") /\ \E next \in {"Eval", "Value"} : GoOn(Tail(stack), next)
    \/ Supply("ReturnK") /\ GoOn(Tail(stack), "Value")
    \/ Supply("ReturnExprK") /\ GoOn(Tail(stack), "Returning")

Called ==
    /\ Supply("ArgsK")
    /\ LET callee == Head(stack).callee
       IN  \/ /\ callee.tag = "Continuation"
              /\ GoOn(callee.part \o Tail(stack), "Value")
           \/ /\ callee.tag = "Plain"
              /\ \/ \E next \in {"Eval", "Value"} :
                       GoOn(<<Frame("ReturnK")>> \o Tail(stack), next)
                 \/ GoOn(<<Frame("ReturnExprK"), Frame("ReturnK")>> \o Tail(stack), "Eval")
                 \/ GoOn(Tail(stack), "Value")
                 \/ GoOn(stack, "Faulted")

Finish ==
    \/ doing = "Value" /\ stack = <<>> /\ GoOn(stack, "Halted")
    \/ /\ doing = "Returning"
       /\ IF ReturnAt = 0 THEN GoOn(stack, "Halted")
          ELSE GoOn(Below(stack, ReturnAt), "Value")
    \/ doing = "Suspend" /\ GoOn(stack, "Value")

StackInit == stack = <<>> /\ doing = "Eval" /\ resumptions = {}

StackNext == Evaluate \/ LeaveLoop \/ NextRound \/ Proceed \/ Called \/ Finish

StackSpec == StackInit /\ [][StackNext]_svars
=============================================================================
