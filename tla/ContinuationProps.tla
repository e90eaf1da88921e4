-------------------------- MODULE ContinuationProps --------------------------
(* What the continuation chain guarantees.                                   *)
EXTENDS Continuations

\* Frames and resumptions that refer to slots among `ids`.
Resumptions(ids) == [tag : {"Continuation"}, k : ids, effect : Effects]
Frames(ids) ==
    {HaltK}
    \cup [tag : {"PendingK", "LoopK", "ReturnK", "ReturnExprK"}, k : ids]
    \cup [tag : {"HandlerK"}, clauses : ClauseSets, k : ids]
    \cup [tag : {"ArgsK"}, callee : {Plain} \cup Resumptions(ids), k : ids]

Controls == {"Eval", "Value", "Returning", "Suspend", "Halted", "Faulted"}

\* Slots, frames and registers have their types, and every frame points at a
\* slot in use.
TypeOK ==
    LET ids == DOMAIN konts IN
    /\ ids \subseteq 0..MaxKonts
    /\ konts \in [ids -> Frames(ids)]
    /\ konts[Halt] = HaltK
    /\ cont \in ids
    /\ control \in Controls
    /\ held \subseteq Resumptions(ids)

----------------------------------------------------------------------------
(* apply_cont consumes the frame it applies ("which is fine - we're done     *)
(* with it"). That is so only while nothing else can come back to the slot.  *)

Ends(i) == Last(Chain(konts, i))

\* Every resumption in the arena or held by the program.
Callees(h) ==
    {h[i].callee : i \in {j \in DOMAIN h :
        h[j].tag = "ArgsK" /\ h[j].callee.tag = "Continuation"}}
Reachable == held \cup Callees(konts)

\* No consumed frame lies ahead: the chain the machine runs ends at the real
\* halt slot, and the part of every resumption that a call would copy (up to
\* its nearest handler) is whole, however often it has been called.
NothingAheadIsSpent ==
    /\ control # "Faulted" => Ends(cont) = Halt
    /\ \A r \in Reachable : FirstFrame(konts, r.k, Tagged(konts, "HandlerK")) # Halt

\* Why that is so. References go down, so every chain ends; the machine's chain
\* ends at the real halt slot; and of what a call of a resumption would copy no
\* slot is ahead of the machine, where apply_cont could consume it.
ContinuationInv ==
    /\ \A i \in DOMAIN konts : \A j \in RefsOf(konts[i]) : j < i
    /\ Ends(cont) = Halt
    /\ \A r \in Reachable :
          LET part == Chain(konts, r.k)
              size == BlockSize(konts, r.k)
          IN  size # 0 /\ \A n \in 1..size : part[n] \notin Range(Chain(konts, cont))

----------------------------------------------------------------------------
(* The chain, read as a stack of frames. A resumption inside a frame or in   *)
(* the program's hands is read as the part of the stack it puts back.        *)

ToNearest(s) == SubSeq(s, 1, SelectInSeq(s, LAMBDA f : f.tag = "HandlerK"))

\* What a frame shows of itself; `read` has the stacks that resumptions are on.
Shown(f, read) ==
    CASE f.tag = "HandlerK" -> [tag |-> f.tag, clauses |-> f.clauses]
      [] f.tag = "ArgsK" ->
            [tag |-> f.tag,
             callee |-> IF f.callee.tag = "Plain" THEN f.callee
                        ELSE [tag |-> "Continuation", part |-> ToNearest(read[f.callee.k])]]
      [] OTHER -> [tag |-> f.tag]

Stack(h, i) ==
    LET read[j \in DOMAIN h] ==
            IF h[j].tag = "Halt" THEN <<>> ELSE <<Shown(h[j], read)>> \o read[h[j].k]
    IN  read[i]

Part(h, r) == ToNearest(Stack(h, r.k))

Promised == INSTANCE DelimitedStack WITH
    stack <- Stack(konts, cont), doing <- control,
    resumptions <- {Part(konts, r) : r \in held}

\* Every step of the machine on its shared, consumed and copied frames is a
\* step on a stack whose captured parts are values: what a resumption puts
\* back never changes, it comes back on top of its caller, and return, break,
\* continue and perform unwind to the right frame of the spliced stack.
ImplementsStack == Promised!StackSpec

----------------------------------------------------------------------------
Calling(r) == control = "Value" /\ konts[cont].tag = "ArgsK" /\ konts[cont].callee = r

WholeBlock(r) ==
    LET stack == Stack(konts, r.k)
    IN  SubSeq(stack, 1, SelectInSeq(stack, LAMBDA f : f.tag = "HandlerK" /\ r.effect \in f.clauses))

\* rebase_continuation's comment: "when it reaches the HandlerK, it returns to
\* `new_return_k`", "the resumed value flows through the continuation up to the
\* handler": calling a resumption puts back the whole handled block, up to the
\* handler whose clause received it.
ResumePutsBackTheBlock ==
    [][\A r \in Reachable :
          Calling(r) =>
            Stack(konts, cont)' = WholeBlock(r) \o Stack(konts, konts[cont].k)]_vars
=============================================================================
