------------------------- MODULE ContinuationProofs --------------------------
(***************************************************************************)
(* The continuation chain is well formed, and no consumed frame lies ahead *)
(* of the machine or in what a resumption puts back: for an arena of any   *)
(* size, any effects and handlers.                                         *)
(*                                                                         *)
(* Chain and Reached follow references, which go down, so the functions    *)
(* they are defined by exist.  What the machine runs is then described by  *)
(* sets of slots (Path, Block), which steps change one slot at a time.     *)
(***************************************************************************)
EXTENDS ContinuationProps, QueueLemmas

(* Arenas. *)

\* Slots, frames and references of an arena are as TypeOK and ContinuationInv say.
Heap(h) ==
    /\ DOMAIN h \subseteq 0..MaxKonts
    /\ h \in [DOMAIN h -> Frames(DOMAIN h)]
    /\ Halt \in DOMAIN h /\ h[Halt] = HaltK
    /\ \A i \in DOMAIN h : \A j \in RefsOf(h[i]) : j < i

\* What a frame is.
LEMMA FrameFacts ==
    ASSUME NEW ids, NEW f \in Frames(ids)
    PROVE  /\ f.tag = "Halt" <=> f = HaltK
           /\ RefsOf(f) \subseteq ids
           /\ f.tag # "Halt" => f.k \in ids /\ f.k \in RefsOf(f)
           /\ f.tag = "HandlerK" => f.clauses \in ClauseSets
           /\ f.tag = "ArgsK" => f.callee \in {Plain} \cup Resumptions(ids)
           /\ f.tag = "ArgsK" /\ f.callee.tag = "Continuation" =>
                f.callee \in Resumptions(ids) /\ f.callee.k \in RefsOf(f)
BY DEF Frames, HaltK, RefsOf, Resumptions, Plain

\* A frame is one of any set of slots that it refers to.
LEMMA FrameMoves ==
    ASSUME NEW ids, NEW f \in Frames(ids), NEW other, RefsOf(f) \subseteq other
    PROVE  f \in Frames(other)
<1>1. CASE f = HaltK
  BY <1>1 DEF Frames
<1>2. CASE f \in [tag : {"PendingK", "LoopK", "ReturnK", "ReturnExprK"}, k : ids]
  BY <1>2 DEF Frames, RefsOf
<1>3. CASE f \in [tag : {"HandlerK"}, clauses : ClauseSets, k : ids]
  BY <1>3 DEF Frames, RefsOf
<1>4. CASE f \in [tag : {"ArgsK"}, callee : {Plain} \cup Resumptions(ids), k : ids]
  <2>1. f.callee.tag = "Continuation" => f.callee \in Resumptions(other)
    BY <1>4 DEF RefsOf, Resumptions, Plain
  <2>2. f.callee \in {Plain} \cup Resumptions(other) /\ f.k \in other
    BY <1>4, <2>1 DEF RefsOf, Resumptions
  <2> QED
    BY <1>4, <2>2 DEF Frames
<1> QED
  BY <1>1, <1>2, <1>3, <1>4 DEF Frames

\* A copy of a frame that returns elsewhere.
Redirected(f, k) == [f EXCEPT !.k = k]

\* A copied frame differs from the original in where it continues.
LEMMA FrameCopied ==
    ASSUME NEW ids, NEW f \in Frames(ids), f.tag # "Halt", NEW k
    PROVE  /\ Redirected(f, k).tag = f.tag /\ Redirected(f, k).k = k
           /\ f.tag = "ArgsK" => Redirected(f, k).callee = f.callee
           /\ f.tag = "HandlerK" => Redirected(f, k).clauses = f.clauses
           /\ RefsOf(Redirected(f, k)) \subseteq RefsOf(f) \cup {k}
BY DEF Frames, HaltK, RefsOf, Redirected

\* A copied frame is a frame of any arena that has what it refers to.
LEMMA FrameCopiedMoves ==
    ASSUME NEW ids, NEW f \in Frames(ids), f.tag # "Halt", NEW other,
           RefsOf(f) \subseteq other, NEW k \in other
    PROVE  Redirected(f, k) \in Frames(other)
<1>1. f \in Frames(other)
  BY FrameMoves
<1>2. CASE f \in [tag : {"PendingK", "LoopK", "ReturnK", "ReturnExprK"}, k : other]
  BY <1>2 DEF Frames, Redirected
<1>3. CASE f \in [tag : {"HandlerK"}, clauses : ClauseSets, k : other]
  BY <1>3 DEF Frames, Redirected
<1>4. CASE f \in [tag : {"ArgsK"}, callee : {Plain} \cup Resumptions(other), k : other]
  BY <1>4 DEF Frames, Redirected
<1> QED
  BY <1>1, <1>2, <1>3, <1>4 DEF Frames, HaltK

\* Slots are numbers, and every frame is one.
LEMMA HeapFacts ==
    ASSUME NEW h, Heap(h)
    PROVE  /\ \A i \in DOMAIN h : i \in Nat /\ i <= MaxKonts
           /\ \A i \in DOMAIN h : h[i] \in Frames(DOMAIN h)
           /\ \A i \in DOMAIN h : RefsOf(h[i]) \subseteq DOMAIN h
           /\ \A i \in DOMAIN h : \A j \in RefsOf(h[i]) : j \in DOMAIN h /\ j < i
           /\ \A i \in DOMAIN h : h[i].tag = "Halt" <=> h[i] = HaltK
           /\ \A i \in DOMAIN h : h[i].tag # "Halt" =>
                h[i].k \in DOMAIN h /\ h[i].k < i /\ h[i].k \in RefsOf(h[i])
           /\ Halt \in DOMAIN h /\ h[Halt] = HaltK /\ h[Halt].tag = "Halt"
<1>1. \A i \in DOMAIN h : i \in Nat /\ i <= MaxKonts
  BY ContinuationAssumption, SMT DEF Heap
<1>2. \A i \in DOMAIN h : h[i] \in Frames(DOMAIN h)
  BY DEF Heap
<1> QED
  BY <1>1, <1>2, FrameFacts DEF Heap, HaltK

-----------------------------------------------------------------------------
(* Chains. *)

\* c holds the chain of every slot below n.
Chains(h, n, c) ==
    c = [j \in {i \in DOMAIN h : i < n} |->
            IF h[j].tag = "Halt" THEN <<j>> ELSE <<j>> \o c[h[j].k]]

\* The function that Chain defines exists, whatever the slots hold.
LEMMA ChainsExist ==
    ASSUME NEW h, Heap(h)
    PROVE  \E c : c = [j \in DOMAIN h |->
                          IF h[j].tag = "Halt" THEN <<j>> ELSE <<j>> \o c[h[j].k]]
<1> DEFINE S == {n \in Nat : \E c : Chains(h, n, c)}
<1>1. 0 \in S
  <2>1. {i \in DOMAIN h : i < 0} = {}
    BY HeapFacts, SMT
  <2>2. \A c : [j \in {} |-> IF h[j].tag = "Halt" THEN <<j>> ELSE <<j>> \o c[h[j].k]]
               = [j \in {} |-> j]
    OBVIOUS
  <2>3. Chains(h, 0, [j \in {} |-> j])
    BY <2>1, <2>2 DEF Chains
  <2> QED
    BY <2>3
<1>2. ASSUME NEW n \in Nat, n \in S PROVE n + 1 \in S
  <2>1. PICK c : Chains(h, n, c)
    BY <1>2
  <2> DEFINE D(m) == {i \in DOMAIN h : i < m}
             E(f, j) == IF h[j].tag = "Halt" THEN <<j>> ELSE <<j>> \o f[h[j].k]
             d == [j \in D(n + 1) |-> E(c, j)]
  <2>2. \A j \in D(n) : c[j] = E(c, j)
    BY <2>1 DEF Chains
  <2>3. D(n) \subseteq D(n + 1)
    BY HeapFacts, SMT
  <2>4. \A j \in D(n + 1) : d[j] = E(c, j)
    OBVIOUS
  <2>5. \A j \in D(n) : d[j] = c[j]
    <3> HIDE DEF d, D, E
    <3> QED
      BY <2>2, <2>3, <2>4
  <2>6. \A j \in D(n + 1) : h[j].tag # "Halt" => h[j].k \in D(n)
    BY HeapFacts, SMT
  <2>7. \A j \in D(n + 1) : E(d, j) = E(c, j)
    <3> HIDE DEF d, D
    <3> QED
      BY <2>5, <2>6
  <2>8. d = [j \in D(n + 1) |-> E(d, j)]
    <3> DEFINE k == [j \in D(n + 1) |-> E(d, j)]
    <3>1. d = [j \in D(n + 1) |-> d[j]] /\ k = [j \in D(n + 1) |-> k[j]]
      OBVIOUS
    <3>2. \A j \in D(n + 1) : k[j] = E(d, j)
      OBVIOUS
    <3> HIDE DEF d, k, E
    <3>3. \A j \in D(n + 1) : d[j] = k[j]
      BY <2>4, <2>7, <3>2
    <3>4. d = k
      BY <3>1, <3>3
    <3> QED
      BY <3>4 DEF k
  <2>9. Chains(h, n + 1, d)
    <3> HIDE DEF d
    <3> QED
      BY <2>8 DEF Chains
  <2> QED
    BY <2>9, SMT
<1>3. MaxKonts + 1 \in S
  <2>1. Nat \subseteq S
    <3> HIDE DEF S
    <3> QED
      BY <1>1, <1>2, SetInduction
  <2> HIDE DEF S
  <2> QED
    BY <2>1, ContinuationAssumption, SMT
<1>4. PICK c : Chains(h, MaxKonts + 1, c)
  BY <1>3
<1>5. {i \in DOMAIN h : i < MaxKonts + 1} = DOMAIN h
  <2>1. \A i \in DOMAIN h : i \in Nat /\ i <= MaxKonts
    BY HeapFacts
  <2>2. \A i \in Nat : i <= MaxKonts => i < MaxKonts + 1
    BY ContinuationAssumption, SMT
  <2> QED
    BY <2>1, <2>2
<1> QED
  BY <1>4, <1>5 DEF Chains

\* The chain of a slot.
LEMMA ChainStep ==
    ASSUME NEW h, Heap(h), NEW i \in DOMAIN h
    PROVE  Chain(h, i) = IF h[i].tag = "Halt" THEN <<i>> ELSE <<i>> \o Chain(h, h[i].k)
<1> DEFINE f == CHOOSE c : c = [j \in DOMAIN h |->
                          IF h[j].tag = "Halt" THEN <<j>> ELSE <<j>> \o c[h[j].k]]
<1>1. f = [j \in DOMAIN h |-> IF h[j].tag = "Halt" THEN <<j>> ELSE <<j>> \o f[h[j].k]]
  <2> HIDE DEF f
  <2> QED
    BY ChainsExist DEF f
<1>2. \A j : Chain(h, j) = f[j]
  BY DEF Chain
<1> HIDE DEF f
<1>3. f[i] = IF h[i].tag = "Halt" THEN <<i>> ELSE <<i>> \o f[h[i].k]
  BY <1>1
<1> QED
  BY <1>2, <1>3

\* A chain follows the references from its slot and ends at a slot that holds Halt.
ChainWhole(h, i, s) ==
    /\ s \in Seq(DOMAIN h) /\ Len(s) >= 1 /\ s[1] = i
    /\ \A m \in 1..Len(s) - 1 : h[s[m]].tag # "Halt" /\ s[m + 1] = h[s[m]].k
    /\ h[s[Len(s)]].tag = "Halt"

\* One slot more at the top of a chain.
LEMMA ChainGrows ==
    ASSUME NEW h, NEW i \in DOMAIN h, h[i].tag # "Halt", NEW s, ChainWhole(h, h[i].k, s)
    PROVE  ChainWhole(h, i, <<i>> \o s)
<1> DEFINE t == <<i>> \o s
<1>1. /\ t \in Seq(DOMAIN h) /\ Len(t) = Len(s) + 1 /\ t[1] = i /\ Len(s) \in Nat
      /\ \A m \in 1..Len(s) : t[m + 1] = s[m]
  BY SMT DEF ChainWhole
<1> HIDE DEF t
<1>2. ASSUME NEW m \in 1..Len(t) - 1
      PROVE  h[t[m]].tag # "Halt" /\ t[m + 1] = h[t[m]].k
  <2>1. CASE m = 1
    BY <1>1, <2>1, SMT DEF ChainWhole
  <2>2. CASE m # 1
    <3>1. m - 1 \in 1..Len(s) - 1 /\ m - 1 \in 1..Len(s) /\ m \in 1..Len(s)
          /\ (m - 1) + 1 = m
      BY <1>1, <2>2, SMT
    <3>2. t[m] = s[m - 1] /\ t[m + 1] = s[m]
      BY <1>1, <3>1
    <3>3. h[s[m - 1]].tag # "Halt" /\ s[(m - 1) + 1] = h[s[m - 1]].k
      BY <3>1 DEF ChainWhole
    <3> QED
      BY <3>1, <3>2, <3>3
  <2> QED
    BY <2>1, <2>2
<1>3. h[t[Len(t)]].tag = "Halt"
  <2>1. Len(s) \in 1..Len(s)
    BY <1>1, SMT DEF ChainWhole
  <2> QED
    BY <1>1, <2>1 DEF ChainWhole
<1>4. Len(t) >= 1
  BY <1>1, SMT
<1> QED
  BY <1>1, <1>2, <1>3, <1>4 DEF ChainWhole, t

\* Every chain is whole.
LEMMA ChainFacts ==
    ASSUME NEW h, Heap(h), NEW i \in DOMAIN h PROVE ChainWhole(h, i, Chain(h, i))
<1> DEFINE S == {n \in Nat : \A j \in DOMAIN h : j < n => ChainWhole(h, j, Chain(h, j))}
<1>1. 0 \in S
  BY HeapFacts, SMT
<1>2. ASSUME NEW n \in Nat, n \in S PROVE n + 1 \in S
  <2> SUFFICES ASSUME NEW j \in DOMAIN h, j < n + 1 PROVE ChainWhole(h, j, Chain(h, j))
    BY SMT
  <2>1. CASE h[j].tag = "Halt"
    <3>1. Chain(h, j) = <<j>>
      BY <2>1, ChainStep
    <3>2. /\ <<j>> \in Seq(DOMAIN h) /\ Len(<<j>>) = 1 /\ <<j>>[1] = j /\ 1..Len(<<j>>) - 1 = {}
      BY SMT
    <3> QED
      BY <2>1, <3>1, <3>2 DEF ChainWhole
  <2>2. CASE h[j].tag # "Halt"
    <3>1. h[j].k \in DOMAIN h /\ h[j].k < n
      <4>1. h[j].k \in DOMAIN h /\ h[j].k < j /\ h[j].k \in Nat /\ j \in Nat
        BY <2>2, HeapFacts
      <4> QED
        BY <4>1, SMT
    <3>2. ChainWhole(h, h[j].k, Chain(h, h[j].k))
      BY <1>2, <3>1
    <3> QED
      BY <2>2, <3>2, ChainStep, ChainGrows
  <2> QED
    BY <2>1, <2>2
<1>3. i + 1 \in S
  <2>1. Nat \subseteq S
    <3> HIDE DEF S
    <3> QED
      BY <1>1, <1>2, SetInduction
  <2> HIDE DEF S
  <2> QED
    BY <2>1, HeapFacts, SMT
<1>4. i < i + 1
  BY HeapFacts, SMT
<1> QED
  BY <1>3, <1>4

\* Slots go down along a chain.
LEMMA ChainFalls ==
    ASSUME NEW h, Heap(h), NEW i, NEW s, ChainWhole(h, i, s), NEW m \in 1..Len(s)
    PROVE  \A n \in m + 1..Len(s) : s[n] < s[m]
<1>1. /\ Len(s) \in Nat
      /\ \A n \in 1..Len(s) : s[n] \in DOMAIN h /\ s[n] \in Nat
      /\ \A n \in 1..Len(s) - 1 : s[n + 1] < s[n]
  <2>1. Len(s) \in Nat /\ \A n \in 1..Len(s) : s[n] \in DOMAIN h
    BY SMT DEF ChainWhole
  <2>2. \A n \in 1..Len(s) - 1 : n \in 1..Len(s)
    BY <2>1, SMT
  <2> QED
    BY <2>1, <2>2, HeapFacts DEF ChainWhole
<1> DEFINE S == {n \in Nat : m < n /\ n <= Len(s) => s[n] < s[m]}
<1>2. 0 \in S
  BY SMT
<1>3. ASSUME NEW n \in Nat, n \in S PROVE n + 1 \in S
  <2> SUFFICES ASSUME m < n + 1, n + 1 <= Len(s) PROVE s[n + 1] < s[m]
    BY SMT
  <2>1. n \in 1..Len(s) - 1 /\ n \in 1..Len(s) /\ n + 1 \in 1..Len(s)
    BY <1>1, SMT
  <2>2. s[n + 1] < s[n] /\ s[n] \in Nat /\ s[n + 1] \in Nat /\ s[m] \in Nat
    BY <1>1, <2>1
  <2>3. m = n \/ s[n] < s[m]
    BY <1>1, <1>3, SMT
  <2> QED
    BY <2>2, <2>3, SMT
<1>4. Nat \subseteq S
  <2> HIDE DEF S
  <2> QED
    BY <1>2, <1>3, SetInduction
<1> QED
  BY <1>1, <1>4, SMT

-----------------------------------------------------------------------------
(* Paths and blocks. *)

\* C is closed under outer frames and runs into the real halt slot.
Path(h, C) ==
    /\ C \subseteq DOMAIN h
    /\ \A j \in C : IF h[j].tag = "Halt" THEN j = Halt ELSE h[j].k \in C

\* B is closed under outer frames up to handlers, and nothing in it is consumed.
Unspent(h, B) ==
    /\ B \subseteq DOMAIN h
    /\ \A j \in B : h[j].tag # "Halt" /\ (h[j].tag # "HandlerK" => h[j].k \in B)

\* A chain stays in a path that it starts in, and ends at the halt slot.
LEMMA ChainInPath ==
    ASSUME NEW h, Heap(h), NEW C, Path(h, C), NEW i \in C, NEW s, ChainWhole(h, i, s)
    PROVE  (\A m \in 1..Len(s) : s[m] \in C) /\ s[Len(s)] = Halt
<1>1. Len(s) \in Nat /\ Len(s) >= 1 /\ s[1] = i
  BY SMT DEF ChainWhole
<1> DEFINE S == {m \in Nat : 1 <= m /\ m <= Len(s) => s[m] \in C}
<1>2. 0 \in S
  BY SMT
<1>3. ASSUME NEW m \in Nat, m \in S PROVE m + 1 \in S
  <2> SUFFICES ASSUME m + 1 <= Len(s) PROVE s[m + 1] \in C
    BY SMT
  <2>1. CASE m = 0
    BY <1>1, <2>1, SMT
  <2>2. CASE m # 0
    <3>1. m \in 1..Len(s) - 1 /\ 1 <= m /\ m <= Len(s)
      BY <1>1, <2>2, SMT
    <3>2. s[m] \in C /\ h[s[m]].tag # "Halt" /\ s[m + 1] = h[s[m]].k
      BY <1>3, <3>1 DEF ChainWhole
    <3> QED
      BY <3>2 DEF Path
  <2> QED
    BY <2>1, <2>2
<1>4. Nat \subseteq S
  <2> HIDE DEF S
  <2> QED
    BY <1>2, <1>3, SetInduction
<1>5. \A m \in 1..Len(s) : s[m] \in C
  BY <1>1, <1>4, SMT
<1>6. Len(s) \in 1..Len(s) /\ h[s[Len(s)]].tag = "Halt"
  BY <1>1, SMT DEF ChainWhole
<1> QED
  BY <1>5, <1>6 DEF Path

\* A chain that starts in a block stays in it up to its first handler, if n
\* frames have been passed without meeting one.
LEMMA ChainInBlock ==
    ASSUME NEW h, Heap(h), NEW B, Unspent(h, B), NEW i \in B, NEW s, ChainWhole(h, i, s),
           NEW n \in 1..Len(s), \A m \in 1..n - 1 : h[s[m]].tag # "HandlerK"
    PROVE  \A m \in 1..n : s[m] \in B
<1>1. Len(s) \in Nat /\ s[1] = i
  BY SMT DEF ChainWhole
<1> DEFINE S == {m \in Nat : 1 <= m /\ m <= n => s[m] \in B}
<1>2. 0 \in S
  BY SMT
<1>3. ASSUME NEW m \in Nat, m \in S PROVE m + 1 \in S
  <2> SUFFICES ASSUME m + 1 <= n PROVE s[m + 1] \in B
    BY SMT
  <2>1. CASE m = 0
    BY <1>1, <2>1, SMT
  <2>2. CASE m # 0
    <3>1. m \in 1..Len(s) - 1 /\ m \in 1..n - 1 /\ 1 <= m /\ m <= n
      BY <1>1, <2>2, SMT
    <3>2. s[m] \in B /\ h[s[m]].tag # "HandlerK" /\ s[m + 1] = h[s[m]].k
      BY <1>3, <3>1 DEF ChainWhole
    <3> QED
      BY <3>2 DEF Unspent
  <2> QED
    BY <2>1, <2>2
<1>4. Nat \subseteq S
  <2> HIDE DEF S
  <2> QED
    BY <1>2, <1>3, SetInduction
<1> QED
  BY <1>4, SMT

-----------------------------------------------------------------------------
(* The first of a kind. *)

\* The least and the greatest of a bounded set.
LEMMA MinFacts ==
    ASSUME NEW I, I \subseteq Nat, I # {} PROVE Min(I) \in I /\ \A i \in I : Min(I) <= i
<1>1. \E n \in I : \A m \in I : n <= m
  BY Least
<1> QED
  BY <1>1 DEF Min

\* The greatest of a bounded set of numbers.
LEMMA MaxFacts ==
    ASSUME NEW N \in Nat, NEW I, I \subseteq 0..N, I # {}
    PROVE  Max(I) \in I /\ \A i \in I : i <= Max(I)
<1> DEFINE T == {N - i : i \in I}
<1>1. T \subseteq Nat
  BY SMT
<1>2. T # {}
  OBVIOUS
<1>3. PICK t \in T : \A u \in T : t <= u
  <2> HIDE DEF T
  <2> QED
    BY <1>1, <1>2, Least
<1>4. PICK n \in I : t = N - n
  OBVIOUS
<1>5. \A i \in I : n >= i
  BY <1>3, <1>4, SMT
<1>6. Max(I) \in I /\ \A i \in I : Max(I) >= i
  BY <1>5 DEF Max
<1> QED
  BY <1>6, SMT

\* BlockSize counts to the first handler.
LEMMA BlockSizeFacts ==
    ASSUME NEW h, NEW r, NEW s, s = Chain(h, r), Len(s) \in Nat, NEW n, n = BlockSize(h, r)
    PROVE  \/ n = 0 /\ \A m \in 1..Len(s) : h[s[m]].tag # "HandlerK"
           \/ /\ n \in 1..Len(s) /\ h[s[n]].tag = "HandlerK"
              /\ \A m \in 1..n - 1 : h[s[m]].tag # "HandlerK"
<1> DEFINE I == {m \in 1..Len(s) : h[s[m]].tag = "HandlerK"}
<1>1. n = IF I # {} THEN Min(I) ELSE 0
  BY DEF SelectInSeq, BlockSize
<1>2. I \subseteq Nat /\ I \subseteq 1..Len(s)
  BY SMT
<1>3. CASE I = {}
  BY <1>1, <1>3
<1>4. CASE I # {}
  <2>1. n \in I /\ \A m \in I : n <= m
    <3> HIDE DEF I
    <3> QED
      BY <1>1, <1>2, <1>4, MinFacts
  <2>2. n \in 1..Len(s) /\ h[s[n]].tag = "HandlerK"
    BY <2>1
  <2>3. \A m \in 1..n - 1 : m \in 1..Len(s) /\ ~(n <= m)
    BY <2>2, SMT
  <2> QED
    BY <2>1, <2>2, <2>3
<1> QED
  BY <1>3, <1>4

\* The first wanted frame of a chain, none of which is Halt.
LEMMA FirstFrameFacts ==
    ASSUME NEW h, Heap(h), NEW i \in DOMAIN h, NEW W, \A j \in W : h[j].tag # "Halt",
           NEW s, s = Chain(h, i), NEW f, f = FirstFrame(h, i, W)
    PROVE  /\ f = Halt => \A m \in 1..Len(s) : s[m] \notin W
           /\ f # Halt => \E n \in 1..Len(s) :
                /\ f = s[n] /\ f \in W /\ n < Len(s)
                /\ \A m \in 1..n - 1 : s[m] \notin W
<1>1. ChainWhole(h, i, s) /\ Len(s) \in Nat
  BY ChainFacts, SMT DEF ChainWhole
<1> DEFINE I == {m \in 1..Len(s) : s[m] \in W}
           n == IF I # {} THEN Min(I) ELSE 0
<1>2. f = IF n = 0 THEN Halt ELSE s[n]
  BY DEF FirstFrame, SelectInSeq
<1>3. \/ n = 0 /\ \A m \in 1..Len(s) : s[m] \notin W
      \/ n \in 1..Len(s) /\ s[n] \in W /\ \A m \in 1..n - 1 : s[m] \notin W
  <2>1. I \subseteq Nat
    BY SMT
  <2>2. CASE I # {}
    <3>1. n \in I /\ \A m \in I : n <= m
      <4>1. Min(I) \in I /\ \A m \in I : Min(I) <= m
        <5> HIDE DEF I
        <5> QED
          BY <2>1, <2>2, MinFacts
      <4> QED
        BY <2>2, <4>1
    <3>2. n \in 1..Len(s) /\ s[n] \in W
      BY <3>1
    <3> HIDE DEF n
    <3>3. \A m \in 1..n - 1 : m \in 1..Len(s) /\ ~(n <= m)
      BY <1>1, <3>2, SMT
    <3> QED
      BY <3>1, <3>2, <3>3
  <2> QED
    BY <2>2
<1> HIDE DEF n
<1>4. CASE n = 0
  BY <1>2, <1>3, <1>4, SMT
<1>5. CASE n # 0
  <2>1. f = s[n] /\ f \in W /\ n \in 1..Len(s) /\ \A m \in 1..n - 1 : s[m] \notin W
    BY <1>2, <1>3, <1>5
  <2>2. f # Halt
    BY <2>1, HeapFacts
  <2>3. n # Len(s)
    BY <1>1, <2>1 DEF ChainWhole
  <2> QED
    BY <1>1, <2>1, <2>2, <2>3, SMT
<1> QED
  BY <1>4, <1>5

\* A block has a handler, and what a call copies of it lies in it.
LEMMA BlockCopied ==
    ASSUME NEW h, Heap(h), NEW B, Unspent(h, B), NEW r \in B,
           NEW s, s = Chain(h, r), NEW n, n = BlockSize(h, r)
    PROVE  /\ n \in 1..Len(s) /\ n < Len(s) /\ h[s[n]].tag = "HandlerK"
           /\ \A m \in 1..n - 1 : h[s[m]].tag # "HandlerK"
           /\ \A m \in 1..n : s[m] \in B
<1>1. r \in DOMAIN h
  BY DEF Unspent
<1>2. ChainWhole(h, r, s) /\ Len(s) \in Nat /\ Len(s) \in 1..Len(s)
  BY <1>1, ChainFacts, SMT DEF ChainWhole
<1>3. n # 0
  <2> SUFFICES ASSUME n = 0 PROVE FALSE
    OBVIOUS
  <2>1. \A m \in 1..Len(s) : h[s[m]].tag # "HandlerK"
    <3>1. n \notin 1..Len(s)
      BY SMT
    <3> QED
      BY <1>2, <3>1, BlockSizeFacts
  <2>2. \A m \in 1..Len(s) - 1 : h[s[m]].tag # "HandlerK"
    BY <1>2, <2>1, SMT
  <2>3. s[Len(s)] \in B
    BY <1>2, <2>2, ChainInBlock
  <2> QED
    BY <1>2, <2>3 DEF Unspent, ChainWhole
<1>4. /\ n \in 1..Len(s) /\ h[s[n]].tag = "HandlerK"
      /\ \A m \in 1..n - 1 : h[s[m]].tag # "HandlerK"
  BY <1>2, <1>3, BlockSizeFacts
<1>5. \A m \in 1..n : s[m] \in B
  BY <1>2, <1>4, ChainInBlock
<1>6. n # Len(s)
  BY <1>2, <1>4 DEF ChainWhole
<1> QED
  BY <1>2, <1>4, <1>5, <1>6, SMT

-----------------------------------------------------------------------------
(* What the roots reach. *)

\* c holds what every slot below n reaches.
Reaches(h, n, c) ==
    c = [j \in {i \in DOMAIN h : i < n} |-> {j} \cup UNION {c[r] : r \in RefsOf(h[j])}]

\* The function that Reached defines exists.
LEMMA ReachesExist ==
    ASSUME NEW h, Heap(h)
    PROVE  \E c : c = [j \in DOMAIN h |-> {j} \cup UNION {c[r] : r \in RefsOf(h[j])}]
<1> DEFINE S == {n \in Nat : \E c : Reaches(h, n, c)}
<1>1. 0 \in S
  <2>1. {i \in DOMAIN h : i < 0} = {}
    BY HeapFacts, SMT
  <2>2. \A c : [j \in {} |-> {j} \cup UNION {c[r] : r \in RefsOf(h[j])}] = [j \in {} |-> j]
    OBVIOUS
  <2>3. Reaches(h, 0, [j \in {} |-> j])
    BY <2>1, <2>2 DEF Reaches
  <2> QED
    BY <2>3
<1>2. ASSUME NEW n \in Nat, n \in S PROVE n + 1 \in S
  <2>1. PICK c : Reaches(h, n, c)
    BY <1>2
  <2> DEFINE D(m) == {i \in DOMAIN h : i < m}
             E(f, j) == {j} \cup UNION {f[r] : r \in RefsOf(h[j])}
             d == [j \in D(n + 1) |-> E(c, j)]
  <2>2. \A j \in D(n) : c[j] = E(c, j)
    BY <2>1 DEF Reaches
  <2>3. D(n) \subseteq D(n + 1)
    BY HeapFacts, SMT
  <2>4. \A j \in D(n + 1) : d[j] = E(c, j)
    OBVIOUS
  <2>5. \A j \in D(n) : d[j] = c[j]
    <3> HIDE DEF d, D, E
    <3> QED
      BY <2>2, <2>3, <2>4
  <2>6. \A j \in D(n + 1) : RefsOf(h[j]) \subseteq D(n)
    <3> SUFFICES ASSUME NEW j \in DOMAIN h, j < n + 1, NEW r \in RefsOf(h[j])
                 PROVE  r \in DOMAIN h /\ r < n
      OBVIOUS
    <3>1. r \in DOMAIN h /\ r < j /\ r \in Nat /\ j \in Nat
      BY HeapFacts
    <3> QED
      BY <3>1, SMT
  <2>7. \A j \in D(n + 1) : E(d, j) = E(c, j)
    <3> HIDE DEF d, D
    <3>1. ASSUME NEW j \in D(n + 1)
          PROVE  {d[r] : r \in RefsOf(h[j])} = {c[r] : r \in RefsOf(h[j])}
      BY <2>5, <2>6
    <3> QED
      BY <3>1
  <2>8. d = [j \in D(n + 1) |-> E(d, j)]
    <3> DEFINE k == [j \in D(n + 1) |-> E(d, j)]
    <3>1. d = [j \in D(n + 1) |-> d[j]] /\ k = [j \in D(n + 1) |-> k[j]]
      OBVIOUS
    <3>2. \A j \in D(n + 1) : k[j] = E(d, j)
      OBVIOUS
    <3> HIDE DEF d, k, E
    <3>3. \A j \in D(n + 1) : d[j] = k[j]
      BY <2>4, <2>7, <3>2
    <3>4. d = k
      BY <3>1, <3>3
    <3> QED
      BY <3>4 DEF k
  <2>9. Reaches(h, n + 1, d)
    <3> HIDE DEF d
    <3> QED
      BY <2>8 DEF Reaches
  <2> QED
    BY <2>9, SMT
<1>3. MaxKonts + 1 \in S
  <2>1. Nat \subseteq S
    <3> HIDE DEF S
    <3> QED
      BY <1>1, <1>2, SetInduction
  <2> HIDE DEF S
  <2> QED
    BY <2>1, ContinuationAssumption, SMT
<1>4. PICK c : Reaches(h, MaxKonts + 1, c)
  BY <1>3
<1>5. {i \in DOMAIN h : i < MaxKonts + 1} = DOMAIN h
  <2>1. \A i \in DOMAIN h : i \in Nat /\ i <= MaxKonts
    BY HeapFacts
  <2>2. \A i \in Nat : i <= MaxKonts => i < MaxKonts + 1
    BY ContinuationAssumption, SMT
  <2> QED
    BY <2>1, <2>2
<1> QED
  BY <1>4, <1>5 DEF Reaches

\* U keeps what its slots refer to.
Closed(h, U) == U \subseteq DOMAIN h /\ \A i \in U : RefsOf(h[i]) \subseteq U

\* What is reached has the roots and is closed under references.
LEMMA ReachedIs ==
    ASSUME NEW h, Heap(h), NEW roots, roots \subseteq DOMAIN h
    PROVE  \E U : /\ Reached(h, roots) = [i \in U |-> h[i]]
                  /\ roots \cup {Halt} \subseteq U /\ Closed(h, U)
<1> DEFINE f == CHOOSE c : c = [j \in DOMAIN h |-> {j} \cup UNION {c[r] : r \in RefsOf(h[j])}]
           U == UNION {f[r] : r \in roots \cup {Halt}}
<1>1. f = [j \in DOMAIN h |-> {j} \cup UNION {f[r] : r \in RefsOf(h[j])}]
  <2> HIDE DEF f
  <2> QED
    BY ReachesExist DEF f
<1>2. Reached(h, roots) = [i \in U |-> h[i]]
  BY DEF Reached, Restrict
<1> HIDE DEF f
<1>3. \A j \in DOMAIN h : f[j] = {j} \cup UNION {f[r] : r \in RefsOf(h[j])}
  BY <1>1
<1> DEFINE S == {n \in Nat : \A j \in DOMAIN h : j < n => Closed(h, f[j])}
<1>4. 0 \in S
  BY HeapFacts, SMT
<1>5. ASSUME NEW n \in Nat, n \in S PROVE n + 1 \in S
  <2> SUFFICES ASSUME NEW j \in DOMAIN h, j < n + 1 PROVE Closed(h, f[j])
    BY SMT
  <2>1. \A r \in RefsOf(h[j]) : r \in DOMAIN h /\ r < n
    <3>1. \A r \in RefsOf(h[j]) : r \in DOMAIN h /\ r < j /\ r \in Nat /\ j \in Nat
      BY HeapFacts
    <3> QED
      BY <3>1, SMT
  <2>2. \A r \in RefsOf(h[j]) : Closed(h, f[r]) /\ r \in f[r]
    BY <1>3, <1>5, <2>1
  <2> QED
    BY <1>3, <2>2 DEF Closed
<1>6. \A j \in DOMAIN h : Closed(h, f[j]) /\ j \in f[j]
  <2>1. Nat \subseteq S
    <3> HIDE DEF S
    <3> QED
      BY <1>4, <1>5, SetInduction
  <2>2. \A j \in DOMAIN h : j + 1 \in S /\ j < j + 1
    <3> HIDE DEF S
    <3> QED
      BY <2>1, HeapFacts, SMT
  <2> QED
    BY <1>3, <2>2
<1>7. Closed(h, U) /\ roots \cup {Halt} \subseteq U
  BY <1>6, HeapFacts DEF Closed
<1> HIDE DEF U
<1> QED
  BY <1>2, <1>7

-----------------------------------------------------------------------------
(* A machine that is in order. *)

\* The machine may run on slot c with the resumptions R in the program's hands:
\* its path is apart from what any resumption puts back.
Apart(h, c, R) ==
    \E C : /\ c \in C /\ Path(h, C)
           /\ \A r \in R \cup Callees(h) : \E B : r.k \in B /\ Unspent(h, B) /\ B \cap C = {}

InOrder(h, c, R) ==
    Heap(h) /\ c \in DOMAIN h /\ R \subseteq Resumptions(DOMAIN h) /\ Apart(h, c, R)

\* The callees of an arena.
LEMMA CalleeFacts ==
    ASSUME NEW h, Heap(h)
    PROVE  /\ Callees(h) \subseteq Resumptions(DOMAIN h)
           /\ \A r \in Callees(h) : \E i \in DOMAIN h :
                h[i].tag = "ArgsK" /\ h[i].callee.tag = "Continuation" /\ h[i].callee = r
                /\ r.k \in RefsOf(h[i])
           /\ \A i \in DOMAIN h : h[i].tag = "ArgsK" /\ h[i].callee.tag = "Continuation" =>
                h[i].callee \in Callees(h)
BY HeapFacts, FrameFacts DEF Callees

\* What is not reached is not missed.
LEMMA ReachedInOrder ==
    ASSUME NEW h, NEW c, NEW R, InOrder(h, c, R), NEW roots, roots \subseteq DOMAIN h,
           {c} \cup {r.k : r \in R} \subseteq roots \cup {Halt}
    PROVE  InOrder(Reached(h, roots), c, R)
<1>1. Heap(h) /\ c \in DOMAIN h /\ R \subseteq Resumptions(DOMAIN h) /\ Apart(h, c, R)
  BY DEF InOrder
<1>2. PICK U : /\ Reached(h, roots) = [i \in U |-> h[i]]
               /\ roots \cup {Halt} \subseteq U /\ Closed(h, U)
  BY <1>1, ReachedIs
<1> DEFINE g == Reached(h, roots)
<1>3. DOMAIN g = U /\ U \subseteq DOMAIN h /\ \A i \in U : g[i] = h[i]
  BY <1>2 DEF Closed
<1>4. g = [i \in U |-> g[i]]
  BY <1>2
<1> HIDE DEF g
<1>5. \A i \in U : RefsOf(g[i]) \subseteq U
  BY <1>2, <1>3 DEF Closed
<1>6. Heap(g)
  <2>1. \A i \in U : g[i] \in Frames(U)
    BY <1>1, <1>3, <1>5, HeapFacts, FrameMoves
  <2>2. g \in [U -> Frames(U)]
    BY <1>4, <2>1
  <2> QED
    BY <1>1, <1>2, <1>3, <2>2 DEF Heap
<1>7. c \in U /\ R \subseteq Resumptions(U)
  BY <1>1, <1>2 DEF Resumptions
<1>8. Callees(g) \subseteq Callees(h) /\ \A r \in Callees(g) : r.k \in U
  BY <1>3, <1>5, <1>6, CalleeFacts DEF Callees
<1>9. Apart(g, c, R)
  <2>1. PICK C : /\ c \in C /\ Path(h, C)
                 /\ \A r \in R \cup Callees(h) :
                        \E B : r.k \in B /\ Unspent(h, B) /\ B \cap C = {}
    BY <1>1 DEF Apart
  <2>2. \A i \in U : g[i].tag # "Halt" => g[i].k \in U
    BY <1>3, <1>5, <1>6, HeapFacts
  <2>3. Path(g, C \cap U)
    BY <1>3, <2>1, <2>2 DEF Path
  <2>4. ASSUME NEW r \in R \cup Callees(g)
        PROVE  \E B : r.k \in B /\ Unspent(g, B) /\ B \cap (C \cap U) = {}
    <3>1. PICK B : r.k \in B /\ Unspent(h, B) /\ B \cap C = {}
      BY <1>8, <2>1
    <3>2. r.k \in U
      BY <1>2, <1>8
    <3>3. Unspent(g, B \cap U)
      BY <1>3, <2>2, <3>1 DEF Unspent
    <3> QED
      BY <3>1, <3>2, <3>3
  <2> QED
    BY <1>7, <2>1, <2>3, <2>4 DEF Apart
<1> QED
  BY <1>3, <1>6, <1>7, <1>9 DEF InOrder, g

\* The machine may go on anywhere on its chain.
LEMMA FurtherDown ==
    ASSUME NEW h, NEW c, NEW R, InOrder(h, c, R),
           NEW W, \A j \in W : h[j].tag # "Halt", FirstFrame(h, c, W) # Halt
    PROVE  /\ FirstFrame(h, c, W) \in W
           /\ InOrder(h, h[FirstFrame(h, c, W)].k, R)
<1> DEFINE s == Chain(h, c)  f == FirstFrame(h, c, W)
<1>1. Heap(h) /\ c \in DOMAIN h /\ ChainWhole(h, c, s)
  BY ChainFacts DEF InOrder
<1>2. PICK n \in 1..Len(s) : f = s[n] /\ f \in W
  BY <1>1, FirstFrameFacts
<1>3. PICK C : /\ c \in C /\ Path(h, C)
               /\ \A r \in R \cup Callees(h) :
                      \E B : r.k \in B /\ Unspent(h, B) /\ B \cap C = {}
  BY DEF InOrder, Apart
<1>4. f \in C /\ h[f].tag # "Halt"
  BY <1>1, <1>2, <1>3, ChainInPath
<1>5. h[f].k \in C /\ h[f].k \in DOMAIN h
  BY <1>3, <1>4 DEF Path
<1> HIDE DEF f
<1>6. Apart(h, h[f].k, R)
  BY <1>3, <1>5 DEF Apart
<1> QED
  BY <1>2, <1>5, <1>6 DEF InOrder, f

\* A resumption that the program drops is not missed.
LEMMA Dropped ==
    ASSUME NEW h, NEW c, NEW R, InOrder(h, c, R), NEW Q, Q \subseteq R
    PROVE  InOrder(h, c, Q)
BY DEF InOrder, Apart

\* do_perform: what is above the handler that answers becomes a resumption, and
\* the machine goes on below it.
LEMMA Captured ==
    ASSUME NEW h, NEW k, NEW R, InOrder(h, k, R), NEW e \in Effects,
           NEW f, f = FirstFrame(h, k, {j \in DOMAIN h : Answers(h[j], e)}), f # Halt
    PROVE  InOrder(h, h[f].k, R \cup {Resumption(k, e)})
<1> DEFINE s == Chain(h, k)  W == {j \in DOMAIN h : Answers(h[j], e)}
<1>1. Heap(h) /\ k \in DOMAIN h /\ ChainWhole(h, k, s) /\ Len(s) \in Nat
  BY ChainFacts, SMT DEF InOrder, ChainWhole
<1>2. \A j \in W : h[j].tag = "HandlerK"
  BY DEF Answers
<1> HIDE DEF W
<1>3. PICK n \in 1..Len(s) :
        f = s[n] /\ f \in W /\ n < Len(s) /\ \A m \in 1..n - 1 : s[m] \notin W
  <2>1. \A j \in W : h[j].tag # "Halt"
    BY <1>2
  <2> QED
    BY <1>1, <2>1, FirstFrameFacts DEF W
<1>4. PICK C : /\ k \in C /\ Path(h, C)
               /\ \A r \in R \cup Callees(h) :
                      \E B : r.k \in B /\ Unspent(h, B) /\ B \cap C = {}
  BY DEF InOrder, Apart
<1>5. /\ \A m \in 1..Len(s) : s[m] \in C /\ s[m] \in DOMAIN h
      /\ \A m \in 1..Len(s) - 1 : h[s[m]].tag # "Halt" /\ s[m + 1] = h[s[m]].k
      /\ s[1] = k
  BY <1>1, <1>4, ChainInPath DEF ChainWhole, Path
<1> DEFINE B == {s[m] : m \in 1..n}  D == {j \in C : j < f}
<1>6. n \in 1..Len(s) - 1 /\ 1 \in 1..n /\ \A m \in 1..n : m \in 1..Len(s) - 1 /\ m \in 1..Len(s)
  BY <1>1, <1>3, SMT
<1>7. Unspent(h, B) /\ k \in B
  <2>1. ASSUME NEW m \in 1..n, h[s[m]].tag # "HandlerK" PROVE h[s[m]].k \in B
    <3>1. m # n
      BY <1>2, <1>3, <2>1
    <3>2. m + 1 \in 1..n
      BY <1>1, <3>1, SMT
    <3> QED
      BY <1>5, <1>6, <3>2
  <2> QED
    BY <1>5, <1>6, <2>1 DEF Unspent
<1>8. h[f].k \in D /\ Path(h, D)
  <2>1. \A j \in C : j \in DOMAIN h /\ j \in Nat /\ (h[j].tag = "Halt" => j = Halt)
                     /\ (h[j].tag # "Halt" => h[j].k \in C /\ h[j].k < j /\ h[j].k \in Nat)
    BY <1>1, <1>4, HeapFacts DEF Path
  <2>2. f \in C /\ h[f].tag # "Halt"
    BY <1>3, <1>5, <1>6
  <2>3. h[f].k \in D
    BY <2>1, <2>2
  <2>4. \A j \in D : h[j].tag # "Halt" => h[j].k \in D
    <3> SUFFICES ASSUME NEW j \in C, j < f, h[j].tag # "Halt" PROVE h[j].k < f
      BY <2>1
    <3>1. h[j].k < j /\ h[j].k \in Nat /\ j \in Nat /\ f \in Nat
      BY <2>1, <2>2
    <3> QED
      BY <3>1, SMT
  <2> QED
    BY <2>1, <2>3, <2>4 DEF Path
<1>9. B \cap D = {}
  <2> SUFFICES ASSUME NEW m \in 1..n PROVE ~(s[m] < f)
    OBVIOUS
  <2>1. s[m] \in Nat /\ f \in Nat
    BY <1>1, <1>3, <1>5, <1>6, HeapFacts
  <2>2. m = n \/ n \in m + 1..Len(s)
    BY <1>1, <1>6, SMT
  <2>3. f = s[m] \/ f < s[m]
    BY <1>1, <1>3, <1>6, <2>2, ChainFalls
  <2> QED
    BY <2>1, <2>3, SMT
<1>10. D \subseteq C
  OBVIOUS
<1> HIDE DEF B, D
<1>11. Apart(h, h[f].k, R \cup {Resumption(k, e)})
  <2>1. ASSUME NEW r \in (R \cup {Resumption(k, e)}) \cup Callees(h)
        PROVE  \E A : r.k \in A /\ Unspent(h, A) /\ A \cap D = {}
    <3>1. CASE r = Resumption(k, e)
      BY <1>7, <1>9, <3>1 DEF Resumption
    <3>2. CASE r \in R \cup Callees(h)
      BY <1>4, <1>10, <3>2
    <3> QED
      BY <3>1, <3>2
  <2> QED
    BY <1>8, <2>1 DEF Apart
<1>12. Resumption(k, e) \in Resumptions(DOMAIN h) /\ h[f].k \in DOMAIN h
  BY <1>1, <1>8 DEF Resumption, Resumptions, Path
<1> QED
  BY <1>11, <1>12 DEF InOrder

\* New slots are above the others, and as many as there is room for.
LEMMA SlotsFacts ==
    ASSUME NEW h, Heap(h)
    PROVE  \E top \in Nat :
             /\ top = Max(DOMAIN h) /\ top <= MaxKonts
             /\ Len(FreeSlots(h)) = MaxKonts - top
             /\ \A m \in 1..MaxKonts - top : FreeSlots(h)[m] = top + m
             /\ \A i \in DOMAIN h : i <= top
<1> DEFINE top == Max(DOMAIN h)
<1>1. top \in DOMAIN h /\ \A i \in DOMAIN h : i <= top
  BY ContinuationAssumption, MaxFacts DEF Heap
<1>2. top \in Nat /\ top <= MaxKonts
  BY <1>1, HeapFacts
<1>3. FreeSlots(h) = [n \in 1..(MaxKonts - top) |-> top + n]
  BY DEF FreeSlots
<1> HIDE DEF top
<1>4. MaxKonts - top \in Nat
  BY <1>2, ContinuationAssumption, SMT
<1>5. Len(FreeSlots(h)) = MaxKonts - top
  BY <1>3, <1>4, SMT
<1>6. \A m \in 1..MaxKonts - top : FreeSlots(h)[m] = top + m
  BY <1>3
<1> QED
  BY <1>1, <1>2, <1>5, <1>6 DEF top

\* An arena with more slots, above the old ones, is one.
LEMMA HeapGrows ==
    ASSUME NEW h, Heap(h), NEW g, NEW N,
           N \subseteq 0..MaxKonts, DOMAIN g = DOMAIN h \cup N, N \cap DOMAIN h = {},
           g = [j \in DOMAIN g |-> g[j]],
           \A j \in DOMAIN h : g[j] = h[j],
           \A j \in N : g[j] \in Frames(DOMAIN g) /\ \A i \in RefsOf(g[j]) : i < j
    PROVE  Heap(g)
<1>1. \A j \in DOMAIN g : g[j] \in Frames(DOMAIN g)
  <2> SUFFICES ASSUME NEW j \in DOMAIN h PROVE g[j] \in Frames(DOMAIN g)
    OBVIOUS
  <2>1. h[j] \in Frames(DOMAIN h) /\ RefsOf(h[j]) \subseteq DOMAIN g
    BY HeapFacts
  <2> QED
    BY <2>1, FrameMoves
<1>2. g \in [DOMAIN g -> Frames(DOMAIN g)]
  BY <1>1
<1> QED
  BY <1>2 DEF Heap

\* ... and the machine may start on the new ones, if they lead to where it could
\* have gone on.
LEMMA GrownInOrder ==
    ASSUME NEW h, NEW k, NEW R, InOrder(h, k, R), NEW g, Heap(g), NEW N,
           DOMAIN g = DOMAIN h \cup N, N \cap DOMAIN h = {},
           \A j \in DOMAIN h : g[j] = h[j],
           \A j \in N : g[j].tag # "Halt" /\ g[j].k \in N \cup {k},
           Callees(g) \subseteq R \cup Callees(h),
           NEW c \in N
    PROVE  InOrder(g, c, R)
<1>1. PICK C : /\ k \in C /\ Path(h, C)
               /\ \A r \in R \cup Callees(h) :
                      \E B : r.k \in B /\ Unspent(h, B) /\ B \cap C = {}
  BY DEF InOrder, Apart
<1>2. Path(g, C \cup N)
  BY <1>1 DEF Path
<1>3. ASSUME NEW B, Unspent(h, B) PROVE Unspent(g, B) /\ B \cap N = {}
  BY <1>3 DEF Unspent
<1>4. Apart(g, c, R)
  <2>1. ASSUME NEW r \in R \cup Callees(g)
        PROVE  \E B : r.k \in B /\ Unspent(g, B) /\ B \cap (C \cup N) = {}
    <3>1. PICK B : r.k \in B /\ Unspent(h, B) /\ B \cap C = {}
      BY <1>1
    <3> QED
      BY <1>3, <3>1
  <2> QED
    BY <1>2, <2>1 DEF Apart
<1>5. R \subseteq Resumptions(DOMAIN g)
  BY DEF InOrder, Resumptions
<1> QED
  BY <1>4, <1>5 DEF InOrder

\* g is h with one more slot, above the others.
OneMore(h, g, new, frame) ==
    /\ new \in 0..MaxKonts /\ new \notin DOMAIN h /\ \A i \in DOMAIN h : i < new
    /\ DOMAIN g = DOMAIN h \cup {new} /\ g = [j \in DOMAIN g |-> g[j]]
    /\ g[new] = frame /\ \A j \in DOMAIN h : g[j] = h[j]

\* alloc
LEMMA AllocatedIs ==
    ASSUME NEW h, Heap(h), Room(h, 1), NEW frame
    PROVE  OneMore(h, Allocated(h, frame), FreeSlots(h)[1], frame)
<1> DEFINE new == FreeSlots(h)[1]  g == Allocated(h, frame)
<1>1. PICK top \in Nat :
             /\ top = Max(DOMAIN h) /\ top <= MaxKonts
             /\ Len(FreeSlots(h)) = MaxKonts - top
             /\ \A m \in 1..MaxKonts - top : FreeSlots(h)[m] = top + m
             /\ \A i \in DOMAIN h : i <= top
  BY SlotsFacts
<1>2. new = top + 1 /\ top + 1 <= MaxKonts
  <2>1. MaxKonts - top >= 1
    BY <1>1 DEF Room
  <2>2. 1 \in 1..MaxKonts - top /\ top + 1 <= MaxKonts
    BY <2>1, ContinuationAssumption, SMT
  <2> QED
    BY <1>1, <2>2
<1> HIDE DEF new
<1>3. new \in 0..MaxKonts /\ new \notin DOMAIN h /\ \A i \in DOMAIN h : i < new
  <2>1. \A i \in DOMAIN h : i \in Nat /\ i <= top
    BY <1>1, HeapFacts
  <2>2. \A i \in DOMAIN h : i < new
    BY <1>2, <2>1, SMT
  <2>3. new \in 0..MaxKonts /\ ~(new < new)
    BY <1>2, ContinuationAssumption, SMT
  <2> QED
    BY <2>2, <2>3
<1>4. g = [j \in DOMAIN h \cup {new} |-> IF j \in DOMAIN h THEN h[j] ELSE frame]
  BY DEF Allocated, new
<1> HIDE DEF g
<1>5. DOMAIN g = DOMAIN h \cup {new} /\ g = [j \in DOMAIN g |-> g[j]]
  BY <1>4
<1>6. \A j \in DOMAIN h \cup {new} : g[j] = IF j \in DOMAIN h THEN h[j] ELSE frame
  BY <1>4
<1>7. g[new] = frame /\ \A j \in DOMAIN h : g[j] = h[j]
  BY <1>3, <1>6
<1> QED
  BY <1>3, <1>5, <1>7 DEF OneMore, g, new

\* ... for a frame that returns to where the machine could have gone on.
LEMMA AllocatedInOrder ==
    ASSUME NEW h, NEW k, NEW R, InOrder(h, k, R), Room(h, 1),
           NEW frame \in Frames(DOMAIN h), frame.tag # "Halt", frame.k = k,
           frame.tag = "ArgsK" /\ frame.callee.tag = "Continuation" =>
                frame.callee \in R \cup Callees(h)
    PROVE  InOrder(Allocated(h, frame), FreeSlots(h)[1], R)
<1> DEFINE new == FreeSlots(h)[1]  g == Allocated(h, frame)
<1>1. Heap(h) /\ OneMore(h, g, new, frame)
  BY AllocatedIs DEF InOrder
<1> HIDE DEF g, new
<1> DEFINE N == {new}
<1>2. /\ DOMAIN g = DOMAIN h \cup N /\ N \cap DOMAIN h = {} /\ N \subseteq 0..MaxKonts
      /\ new \in N /\ g = [j \in DOMAIN g |-> g[j]]
      /\ \A j \in DOMAIN h : g[j] = h[j]
  BY <1>1 DEF OneMore
<1>3. frame \in Frames(DOMAIN g) /\ RefsOf(frame) \subseteq DOMAIN h
  BY <1>2, FrameFacts, FrameMoves
<1>4. \A j \in N : g[j] \in Frames(DOMAIN g) /\ \A i \in RefsOf(g[j]) : i < j
  BY <1>1, <1>3 DEF OneMore
<1>5. \A j \in N : g[j].tag # "Halt" /\ g[j].k \in N \cup {k}
  BY <1>1 DEF OneMore
<1> HIDE DEF N
<1>6. Heap(g)
  BY <1>1, <1>2, <1>4, HeapGrows
<1>7. Callees(g) \subseteq R \cup Callees(h)
  <2> SUFFICES ASSUME NEW i \in DOMAIN g, g[i].tag = "ArgsK", g[i].callee.tag = "Continuation"
               PROVE  g[i].callee \in R \cup Callees(h)
    BY DEF Callees
  <2>1. CASE i \in N
    BY <1>1, <2>1 DEF N, OneMore
  <2>2. CASE i \in DOMAIN h
    BY <1>1, <1>2, <2>2, CalleeFacts
  <2> QED
    BY <1>2, <2>1, <2>2
<1>8. InOrder(g, new, R)
  BY <1>2, <1>5, <1>6, <1>7, GrownInOrder
<1> QED
  BY <1>8 DEF g, new

\* g is h with copies of the first n frames of the chain s above the slot top:
\* the last one's comes first, and returns to k, each other to the one before.
CopyOf(h, g, s, n, k, top) ==
    /\ top + n <= MaxKonts /\ \A j \in DOMAIN h : j <= top
    /\ DOMAIN g = DOMAIN h \cup {top + p : p \in 1..n} /\ g = [j \in DOMAIN g |-> g[j]]
    /\ \A j \in DOMAIN h : g[j] = h[j]
    /\ \A p \in 1..n :
          g[top + p] = Redirected(h[s[n + 1 - p]], IF p = 1 THEN k ELSE top + (p - 1))

\* rebase_continuation
LEMMA CopiedIs ==
    ASSUME NEW h, Heap(h), NEW i, NEW k, NEW s, s = Chain(h, i),
           NEW n, n = BlockSize(h, i), n \in Nat, n >= 1, Room(h, n),
           NEW g, g = Copied(h, i, k).konts
    PROVE  \E top \in Nat : CopyOf(h, g, s, n, k, top) /\ Copied(h, i, k).cont = top + n
<1>1. PICK top \in Nat :
             /\ top = Max(DOMAIN h) /\ top <= MaxKonts
             /\ Len(FreeSlots(h)) = MaxKonts - top
             /\ \A m \in 1..MaxKonts - top : FreeSlots(h)[m] = top + m
             /\ \A j \in DOMAIN h : j <= top
  BY SlotsFacts
<1>2. top + n <= MaxKonts /\ 1..n \subseteq 1..MaxKonts - top
  <2>1. MaxKonts - top >= n
    BY <1>1 DEF Room
  <2> QED
    BY <2>1, ContinuationAssumption, SMT
<1> DEFINE new == FreeSlots(h)
           copy(m) == [h[s[m]] EXCEPT !.k = IF m = n THEN k ELSE new[n - m]]
           N == {new[m] : m \in 1..n}
<1>3. /\ g = [j \in DOMAIN h \cup N |->
                 IF j \in DOMAIN h THEN h[j] ELSE copy(CHOOSE m \in 1..n : new[n + 1 - m] = j)]
      /\ Copied(h, i, k).cont = new[n]
  BY DEF Copied
<1> HIDE DEF new
<1>4. \A m \in 1..n : new[m] = top + m
  BY <1>1, <1>2 DEF new
<1>5. N = {top + m : m \in 1..n}
  BY <1>4
<1>6. \A p \in 1..n : top + p \notin DOMAIN h
  <2>1. \A j \in DOMAIN h : j \in Nat /\ j <= top
    BY <1>1, HeapFacts
  <2> QED
    BY <2>1, SMT
<1>7. n \in 1..n
  BY SMT
<1>8. /\ DOMAIN g = DOMAIN h \cup N /\ g = [j \in DOMAIN g |-> g[j]]
      /\ \A j \in DOMAIN h : g[j] = h[j]
      /\ \A j \in N : g[j] = copy(CHOOSE m \in 1..n : new[n + 1 - m] = j)
  <2>1. \A j \in N : j \notin DOMAIN h
    BY <1>5, <1>6
  <2> HIDE DEF N, copy
  <2>2. DOMAIN g = DOMAIN h \cup N /\ g = [j \in DOMAIN g |-> g[j]]
    BY <1>3
  <2>3. \A j \in DOMAIN h \cup N : g[j] = IF j \in DOMAIN h THEN h[j]
                ELSE copy(CHOOSE m \in 1..n : new[n + 1 - m] = j)
    BY <1>3
  <2>4. \A j \in DOMAIN h : g[j] = h[j]
    BY <2>3
  <2>5. ASSUME NEW j \in N PROVE g[j] = copy(CHOOSE m \in 1..n : new[n + 1 - m] = j)
    <3>1. j \in DOMAIN h \cup N /\ j \notin DOMAIN h
      BY <2>1
    <3> QED
      BY <2>3, <3>1
  <2> QED
    BY <2>2, <2>4, <2>5
<1>9. ASSUME NEW p \in 1..n
      PROVE  g[top + p] = Redirected(h[s[n + 1 - p]], IF p = 1 THEN k ELSE top + (p - 1))
  <2> DEFINE m == CHOOSE m \in 1..n : new[n + 1 - m] = top + p
  <2>1. n + 1 - p \in 1..n /\ n + 1 - (n + 1 - p) = p /\ new[p] = top + p
    BY <1>4, SMT
  <2>2. m \in 1..n /\ new[n + 1 - m] = top + p
    <3>1. \E l \in 1..n : new[n + 1 - l] = top + p
      BY <2>1
    <3> QED
      BY <3>1
  <2>3. g[top + p] = copy(m)
    <3>1. top + p \in N
      BY <1>5
    <3> HIDE DEF N, copy
    <3> QED
      BY <1>8, <3>1
  <2> HIDE DEF m
  <2>4. m = n + 1 - p
    <3>1. n + 1 - m \in 1..n
      BY <2>2, SMT
    <3>2. top + (n + 1 - m) = top + p
      BY <1>4, <2>2, <3>1
    <3> QED
      BY <2>2, <3>2, SMT
  <2>5. CASE p = 1
    <3>1. m = n
      BY <2>4, <2>5, SMT
    <3> QED
      BY <2>3, <2>4, <2>5, <3>1 DEF Redirected
  <2>6. CASE p # 1
    <3>1. m # n /\ n - m = p - 1 /\ p - 1 \in 1..n
      BY <2>4, <2>6, SMT
    <3>2. new[n - m] = top + (p - 1)
      BY <1>4, <3>1
    <3> QED
      BY <2>3, <2>4, <2>6, <3>1, <3>2 DEF Redirected
  <2> QED
    BY <2>5, <2>6
<1> HIDE DEF N, copy
<1>10. Copied(h, i, k).cont = top + n
  BY <1>3, <1>4, <1>7
<1>11. DOMAIN g = DOMAIN h \cup {top + p : p \in 1..n}
  BY <1>5, <1>8
<1> QED
  BY <1>1, <1>2, <1>8, <1>9, <1>10, <1>11 DEF CopyOf

\* ... and it leads to the resumption's caller.
LEMMA CopiedInOrder ==
    ASSUME NEW h, NEW k, NEW R, InOrder(h, k, R), NEW r \in R,
           Room(h, BlockSize(h, r.k))
    PROVE  /\ BlockSize(h, r.k) # 0
           /\ InOrder(Copied(h, r.k, k).konts, Copied(h, r.k, k).cont, R)
<1> DEFINE s == Chain(h, r.k)  n == BlockSize(h, r.k)
           g == Copied(h, r.k, k).konts  c == Copied(h, r.k, k).cont
<1>1. Heap(h) /\ k \in DOMAIN h
  BY DEF InOrder
<1>2. PICK B : r.k \in B /\ Unspent(h, B)
  BY DEF InOrder, Apart
<1>3. /\ n \in 1..Len(s) /\ h[s[n]].tag = "HandlerK"
      /\ \A m \in 1..n : s[m] \in B
  BY <1>1, <1>2, BlockCopied
<1>4. n \in Nat /\ n >= 1
  <2>1. Len(s) \in Nat
    <3>1. ChainWhole(h, r.k, s)
      BY <1>1, <1>2, ChainFacts DEF Unspent
    <3> HIDE DEF s
    <3> QED
      BY <3>1, SMT DEF ChainWhole
  <2> QED
    BY <1>3, <2>1, SMT
<1> HIDE DEF s, n, g, c
<1>5. PICK top \in Nat : CopyOf(h, g, s, n, k, top) /\ c = top + n
  <2>1. s = Chain(h, r.k) /\ n = BlockSize(h, r.k) /\ g = Copied(h, r.k, k).konts
        /\ c = Copied(h, r.k, k).cont
    BY DEF s, n, g, c
  <2>2. Room(h, n)
    BY <2>1
  <2> QED
    BY <1>1, <1>4, <2>1, <2>2, CopiedIs
<1> DEFINE N == {top + p : p \in 1..n}
<1>6. /\ N \subseteq 0..MaxKonts /\ N \cap DOMAIN h = {} /\ c \in N
      /\ \A j \in N : \A i \in DOMAIN h : i < j
  <2>1. \A m \in 1..n : top + m \in 0..MaxKonts /\ top < top + m
    BY <1>4, <1>5, ContinuationAssumption, SMT DEF CopyOf
  <2>2. \A i \in DOMAIN h : i \in Nat /\ i <= top
    BY <1>1, <1>5, HeapFacts DEF CopyOf
  <2>3. \A m \in 1..n : \A i \in DOMAIN h : i < top + m
    BY <2>2, SMT
  <2>4. n \in 1..n
    BY <1>4, SMT
  <2>5. \A m \in 1..n : top + m \notin DOMAIN h
    BY <2>3, SMT
  <2> QED
    BY <1>5, <2>1, <2>3, <2>4, <2>5
<1>7. /\ DOMAIN g = DOMAIN h \cup N /\ g = [j \in DOMAIN g |-> g[j]]
      /\ \A j \in DOMAIN h : g[j] = h[j]
  BY <1>5 DEF CopyOf
<1>8. ASSUME NEW j \in N
       PROVE  \E m \in 1..n : \E t \in N \cup {k} :
                 /\ s[m] \in DOMAIN h /\ h[s[m]].tag # "Halt"
                 /\ g[j] = Redirected(h[s[m]], t) /\ t < j
  <2>1. PICK p \in 1..n : j = top + p
    OBVIOUS
  <2> DEFINE m == n + 1 - p  t == IF p = 1 THEN k ELSE top + (p - 1)
  <2>2. m \in 1..n
    BY <1>4, SMT
  <2>3. s[m] \in DOMAIN h /\ h[s[m]].tag # "Halt"
    BY <1>2, <1>3, <2>2 DEF Unspent
  <2>4. g[j] = Redirected(h[s[m]], t)
    BY <1>5, <2>1 DEF CopyOf
  <2>5. t \in N \cup {k} /\ t < j
    <3>1. CASE p = 1
      BY <1>1, <1>6, <3>1
    <3>2. CASE p # 1
      <4>1. p - 1 \in 1..n /\ top + (p - 1) < top + p
        BY <3>2, <1>4, SMT
      <4> QED
        BY <2>1, <3>2, <4>1
    <3> QED
      BY <3>1, <3>2
  <2> HIDE DEF m, t, N
  <2> QED
    BY <2>2, <2>3, <2>4, <2>5
<1> HIDE DEF N
<1>9. ASSUME NEW j \in N
       PROVE  /\ g[j] \in Frames(DOMAIN g) /\ \A i \in RefsOf(g[j]) : i < j
              /\ g[j].tag # "Halt" /\ g[j].k \in N \cup {k}
              /\ g[j].tag = "ArgsK" /\ g[j].callee.tag = "Continuation" =>
                    g[j].callee \in Callees(h)
  <2>1. PICK m \in 1..n, t \in N \cup {k} :
             /\ s[m] \in DOMAIN h /\ h[s[m]].tag # "Halt"
             /\ g[j] = Redirected(h[s[m]], t) /\ t < j
    BY <1>8
  <2>2. h[s[m]] \in Frames(DOMAIN h) /\ RefsOf(h[s[m]]) \subseteq DOMAIN h
    BY <1>1, <2>1, HeapFacts
  <2>3. /\ g[j].tag = h[s[m]].tag /\ g[j].k = t
        /\ h[s[m]].tag = "ArgsK" => g[j].callee = h[s[m]].callee
        /\ RefsOf(g[j]) \subseteq RefsOf(h[s[m]]) \cup {t}
    BY <2>1, <2>2, FrameCopied
  <2>4. \A i \in RefsOf(g[j]) : i \in DOMAIN g /\ i < j
    BY <1>1, <1>6, <1>7, <2>1, <2>2, <2>3
  <2>5. g[j] \in Frames(DOMAIN g)
    <3>1. RefsOf(h[s[m]]) \subseteq DOMAIN g /\ t \in DOMAIN g
      BY <1>1, <1>7, <2>2
    <3> QED
      BY <2>1, <2>2, <3>1, FrameCopiedMoves
  <2>6. g[j].tag = "ArgsK" /\ g[j].callee.tag = "Continuation" => g[j].callee \in Callees(h)
    <3>1. g[j].tag = "ArgsK" => h[s[m]].tag = "ArgsK" /\ g[j].callee = h[s[m]].callee
      BY <2>3
    <3>2. \A i \in DOMAIN h : h[i].tag = "ArgsK" /\ h[i].callee.tag = "Continuation" =>
                h[i].callee \in Callees(h)
      BY DEF Callees
    <3> QED
      BY <2>1, <3>1, <3>2
  <2> QED
    BY <2>1, <2>3, <2>4, <2>5, <2>6
<1>10. Heap(g)
  BY <1>1, <1>6, <1>7, <1>9, HeapGrows
<1>11. Callees(g) \subseteq R \cup Callees(h)
  <2> SUFFICES ASSUME NEW i \in DOMAIN g, g[i].tag = "ArgsK", g[i].callee.tag = "Continuation"
               PROVE  g[i].callee \in Callees(h)
    BY DEF Callees
  <2>1. CASE i \in N
    BY <1>9, <2>1
  <2>2. CASE i \in DOMAIN h
    BY <1>1, <1>7, <2>2, CalleeFacts
  <2> QED
    BY <1>7, <2>1, <2>2
<1>12. InOrder(g, c, R)
  BY <1>6, <1>7, <1>9, <1>10, <1>11, GrownInOrder
<1>13. n # 0
  BY <1>4, SMT
<1> QED
  BY <1>12, <1>13 DEF g, c, n

\* apply_cont consumes the frame on top: what it hands on is in order.
Consumed(h, c) == [h EXCEPT ![c] = HaltK]

\* Consuming the top frame keeps the machine in order at the frame below.
LEMMA ConsumedInOrder ==
    ASSUME NEW h, NEW c, NEW R, InOrder(h, c, R), h[c].tag # "Halt",
           NEW Q, Q \subseteq R \cup Callees(h), \A r \in Q : r.k \in RefsOf(h[c])
    PROVE  InOrder(Consumed(h, c), h[c].k, R \cup Q)
<1> DEFINE d == Consumed(h, c)
<1>1. Heap(h) /\ c \in DOMAIN h /\ R \subseteq Resumptions(DOMAIN h)
  BY DEF InOrder
<1>2. /\ DOMAIN d = DOMAIN h /\ d = [j \in DOMAIN d |-> d[j]] /\ d[c] = HaltK
      /\ \A j \in DOMAIN h \ {c} : d[j] = h[j]
  BY <1>1 DEF Consumed
<1> HIDE DEF d
<1>4. c # Halt
  BY <1>1, HeapFacts
<1>5. RefsOf(HaltK) = {} /\ HaltK.tag = "Halt"
  BY DEF RefsOf, HaltK
<1>6. Heap(d)
  <2>1. \A j \in DOMAIN d : d[j] \in Frames(DOMAIN d)
    BY <1>1, <1>2, HeapFacts DEF Frames
  <2>2. d \in [DOMAIN d -> Frames(DOMAIN d)]
    BY <1>2, <2>1
  <2>3. \A i \in DOMAIN d : \A j \in RefsOf(d[i]) : j < i
    BY <1>1, <1>2, <1>5 DEF Heap
  <2> QED
    BY <1>1, <1>2, <1>4, <2>2, <2>3 DEF Heap
<1>8. Callees(d) \subseteq Callees(h)
  BY <1>2, <1>5 DEF Callees
<1>9. R \cup Q \subseteq Resumptions(DOMAIN d)
  BY <1>1, <1>2, CalleeFacts
<1>10. Apart(d, h[c].k, R \cup Q)
  <2>1. PICK C : /\ c \in C /\ Path(h, C)
                 /\ \A r \in R \cup Callees(h) :
                        \E B : r.k \in B /\ Unspent(h, B) /\ B \cap C = {}
    BY DEF InOrder, Apart
  <2> DEFINE D == {j \in C : j < c}
  <2>2. \A j \in C : j \in DOMAIN h /\ j \in Nat /\ (h[j].tag = "Halt" => j = Halt)
                     /\ (h[j].tag # "Halt" => h[j].k \in C /\ h[j].k < j /\ h[j].k \in Nat)
    BY <1>1, <2>1, HeapFacts DEF Path
  <2>3. h[c].k \in D
    BY <2>1, <2>2
  <2>4. c \notin D /\ D \subseteq C
    BY <2>1, <2>2, SMT
  <2>5. \A j \in D : h[j].tag # "Halt" => h[j].k \in D
    <3> SUFFICES ASSUME NEW j \in C, j < c, h[j].tag # "Halt" PROVE h[j].k < c
      BY <2>2
    <3>1. h[j].k < j /\ h[j].k \in Nat /\ j \in Nat /\ c \in Nat
      BY <2>1, <2>2
    <3> QED
      BY <3>1, SMT
  <2>6. \A j \in D : d[j] = h[j] /\ j \in DOMAIN d
    BY <1>2, <2>2, <2>4
  <2> HIDE DEF D
  <2>7. Path(d, D)
    BY <2>2, <2>4, <2>5, <2>6 DEF Path
  <2>8. ASSUME NEW r \in (R \cup Q) \cup Callees(d)
        PROVE  \E B : r.k \in B /\ Unspent(d, B) /\ B \cap D = {}
    <3>1. r \in R \cup Callees(h)
      BY <1>8
    <3>2. PICK B : r.k \in B /\ Unspent(h, B) /\ B \cap C = {}
      BY <2>1, <3>1
    <3>3. c \notin B
      BY <2>1, <3>2
    <3>4. Unspent(d, B)
      BY <1>2, <3>2, <3>3 DEF Unspent
    <3> QED
      BY <2>4, <3>2, <3>4
  <2> QED
    BY <2>3, <2>7, <2>8 DEF Apart
<1>11. h[c].k \in RefsOf(h[c]) /\ h[c].k \in DOMAIN d
  BY <1>1, <1>2, HeapFacts
<1>12. InOrder(d, h[c].k, R \cup Q)
  BY <1>6, <1>9, <1>10, <1>11 DEF InOrder
<1> QED
  BY <1>12 DEF d

\* So does consuming it and then collecting what no root reaches.
LEMMA SpentInOrder ==
    ASSUME NEW h, NEW c, NEW R, InOrder(h, c, R), h[c].tag # "Halt",
           NEW Q, Q \subseteq R \cup Callees(h), \A r \in Q : r.k \in RefsOf(h[c]),
           NEW g, g = Reached(Consumed(h, c), RefsOf(h[c]) \cup {r.k : r \in R})
    PROVE  /\ InOrder(g, h[c].k, R \cup Q)
           /\ RefsOf(h[c]) \subseteq DOMAIN g
<1> DEFINE d == Consumed(h, c)  roots == RefsOf(h[c]) \cup {r.k : r \in R}
<1>1. InOrder(d, h[c].k, R \cup Q) /\ roots \subseteq DOMAIN d
  <2>1. InOrder(d, h[c].k, R \cup Q)
    BY ConsumedInOrder
  <2>2. Heap(h) /\ R \subseteq Resumptions(DOMAIN h) /\ c \in DOMAIN h /\ DOMAIN d = DOMAIN h
    BY DEF InOrder, Consumed
  <2> HIDE DEF d
  <2> QED
    BY <2>1, <2>2, HeapFacts DEF Resumptions
<1>2. h[c].k \in RefsOf(h[c])
  BY HeapFacts DEF InOrder
<1>3. {h[c].k} \cup {r.k : r \in R \cup Q} \subseteq roots \cup {Halt}
  BY <1>2
<1> HIDE DEF d
<1>4. roots \subseteq DOMAIN g
  <2> HIDE DEF roots
  <2>1. PICK U : Reached(d, roots) = [i \in U |-> d[i]] /\ roots \cup {Halt} \subseteq U
    BY <1>1, ReachedIs DEF InOrder
  <2> QED
    BY <2>1 DEF d, roots
<1>5. InOrder(g, h[c].k, R \cup Q)
  <2> HIDE DEF roots
  <2>1. InOrder(Reached(d, roots), h[c].k, R \cup Q)
    BY <1>1, <1>3, ReachedInOrder
  <2> QED
    BY <2>1 DEF d, roots
<1> QED
  BY <1>4, <1>5

-----------------------------------------------------------------------------
(* Every step leaves the machine in order. *)

MachineInOrder == InOrder(konts, cont, held) /\ control \in Controls

\* How a step ends, given where it goes on.
LEMMA ContinueInOrder ==
    ASSUME NEW h, NEW c, NEW doing \in Controls, InOrder(h, c, held'), Continue(h, c, doing)
    PROVE  MachineInOrder'
<1> DEFINE roots == {c} \cup {r.k : r \in held'}
<1>1. roots \subseteq DOMAIN h
  BY DEF InOrder, Resumptions
<1>2. konts' = Reached(h, roots) /\ cont' = c /\ control' = doing
  BY DEF Continue
<1>3. InOrder(Reached(h, roots), c, held')
  BY <1>1, ReachedInOrder
<1> QED
  BY <1>2, <1>3 DEF MachineInOrder

\* A fault touches neither the chain nor the resumptions.
LEMMA FaultInOrder == ASSUME MachineInOrder, Fault, UNCHANGED held PROVE MachineInOrder'
BY DEF MachineInOrder, Fault, Controls

\* Pushing a frame on the chain keeps the machine in order.
LEMMA PushInOrder ==
    ASSUME NEW h, NEW k, InOrder(h, k, held'), NEW doing \in Controls,
           NEW frame \in Frames(DOMAIN h), frame.tag # "Halt", frame.k = k,
           frame.tag = "ArgsK" /\ frame.callee.tag = "Continuation" => frame.callee \in held',
           Push(h, frame, doing)
    PROVE  MachineInOrder'
<1>1. Room(h, 1) /\ Continue(Allocated(h, frame), FreeSlots(h)[1], doing)
  BY DEF Push
<1>2. InOrder(Allocated(h, frame), FreeSlots(h)[1], held')
  BY <1>1, AllocatedInOrder
<1> QED
  BY <1>1, <1>2, ContinueInOrder

\* A frame with nothing but its outer frame.
LEMMA PlainFrame ==
    ASSUME NEW ids, NEW k \in ids, NEW tag \in {"PendingK", "LoopK", "ReturnK", "ReturnExprK"}
    PROVE  /\ Frame(tag, k) \in Frames(ids) /\ Frame(tag, k).tag = tag /\ Frame(tag, k).k = k
           /\ tag # "Halt" /\ tag # "ArgsK"
BY DEF Frame, Frames

\* The same for a frame of a tag alone.
LEMMA PushPlainInOrder ==
    ASSUME NEW h, NEW k, InOrder(h, k, held'), NEW doing \in Controls,
           NEW tag \in {"PendingK", "LoopK", "ReturnK", "ReturnExprK"},
           Push(h, Frame(tag, k), doing)
    PROVE  MachineInOrder'
<1>1. k \in DOMAIN h
  BY DEF InOrder
<1> QED
  BY <1>1, PlainFrame, PushInOrder

\* Capturing a continuation, or suspending on the host, keeps the machine in
\* order.
LEMMA PerformInOrder ==
    ASSUME NEW h, NEW k, InOrder(h, k, held), NEW e \in Effects, DoPerform(h, e, k)
    PROVE  MachineInOrder'
<1> DEFINE f == FirstFrame(h, k, {j \in DOMAIN h : Answers(h[j], e)})
<1>1. CASE f = Halt
  <2>1. held' = held /\ Continue(h, k, "Suspend")
    BY <1>1 DEF DoPerform
  <2> QED
    BY <2>1, ContinueInOrder DEF Controls
<1>2. CASE f # Halt
  <2>1. held' \subseteq held \cup {Resumption(k, e)} /\ Continue(h, h[f].k, "Eval")
    BY <1>2 DEF DoPerform
  <2>2. InOrder(h, h[f].k, held \cup {Resumption(k, e)})
    BY <1>2, Captured
  <2>3. InOrder(h, h[f].k, held')
    <3> HIDE DEF f
    <3> QED
      BY <2>1, <2>2, Dropped
  <2> QED
    BY <2>1, <2>3, ContinueInOrder DEF Controls
<1> QED
  BY <1>1, <1>2

\* Expressions and statements.
LEMMA EvaluationInOrder ==
    ASSUME MachineInOrder,
           Literal \/ Block \/ Call \/ Handle \/ PerformNow \/ Loop \/ Return
    PROVE  MachineInOrder'
<1>1. InOrder(konts, cont, held) /\ cont \in DOMAIN konts
          /\ held \subseteq Resumptions(DOMAIN konts)
  BY DEF MachineInOrder, InOrder
<1>2. CASE Literal
  BY <1>1, <1>2, ContinueInOrder, FaultInOrder DEF Literal, Evaluating, Controls
<1>3. CASE Block
  BY <1>1, <1>3, PushPlainInOrder DEF Block, Evaluating, Controls
<1>4. CASE Call
  <2>1. PICK callee \in held \cup {Plain} : Push(konts, ArgsK(callee, cont), "Eval")
    BY <1>4 DEF Call
  <2>2. held' = held
    BY <1>4 DEF Call, Evaluating
  <2> DEFINE frame == ArgsK(callee, cont)
  <2>3. /\ frame \in Frames(DOMAIN konts) /\ frame.tag # "Halt" /\ frame.k = cont
        /\ frame.callee = callee
    BY <1>1 DEF ArgsK, Frames
  <2>4. callee.tag = "Continuation" => callee \in held'
    BY <2>2 DEF Plain
  <2> HIDE DEF frame
  <2>5. "Eval" \in Controls /\ Push(konts, frame, "Eval")
    BY <2>1 DEF Controls, frame
  <2> QED
    BY <1>1, <2>2, <2>3, <2>4, <2>5, PushInOrder
<1>5. CASE Handle
  <2>1. PICK clauses \in ClauseSets : Push(konts, HandlerK(clauses, cont), "Eval")
    BY <1>5 DEF Handle
  <2>2. held' = held
    BY <1>5 DEF Handle, Evaluating
  <2> DEFINE frame == HandlerK(clauses, cont)
  <2>3. /\ frame \in Frames(DOMAIN konts) /\ frame.tag # "Halt" /\ frame.k = cont
        /\ frame.tag # "ArgsK"
    BY <1>1 DEF HandlerK, Frames
  <2> HIDE DEF frame
  <2>4. "Eval" \in Controls /\ Push(konts, frame, "Eval")
    BY <2>1 DEF Controls, frame
  <2> QED
    BY <1>1, <2>2, <2>3, <2>4, PushInOrder
<1>6. CASE PerformNow
  BY <1>1, <1>6, PerformInOrder DEF PerformNow
<1>7. CASE Loop
  BY <1>1, <1>7, PushPlainInOrder DEF Loop, Evaluating, Controls
<1>8. CASE Return
  BY <1>1, <1>8, PushPlainInOrder, ContinueInOrder DEF Return, Evaluating, Controls
<1> QED
  BY <1>2, <1>3, <1>4, <1>5, <1>6, <1>7, <1>8

\* break, continue, and return: what unwinds goes further down the chain.
LEMMA UnwindInOrder ==
    ASSUME MachineInOrder, Break \/ ContinueLoop \/ HandleReturn PROVE MachineInOrder'
<1>1. InOrder(konts, cont, held)
  BY DEF MachineInOrder
<1>2. ASSUME NEW tag \in {"LoopK", "ReturnK"},
             FirstFrame(konts, cont, Tagged(konts, tag)) # Halt
      PROVE  InOrder(konts, konts[FirstFrame(konts, cont, Tagged(konts, tag))].k, held)
  <2>1. \A j \in Tagged(konts, tag) : konts[j].tag # "Halt"
    BY DEF Tagged
  <2> QED
    BY <1>1, <1>2, <2>1, FurtherDown
<1>3. CASE Break
  <2>1. CASE LoopFrame = Halt
    BY <1>3, <2>1, FaultInOrder DEF Break, Evaluating
  <2>2. CASE LoopFrame # Halt
    <3>1. InOrder(konts, konts[LoopFrame].k, held)
      BY <1>2, <2>2 DEF LoopFrame
    <3> QED
      BY <1>3, <2>2, <3>1, ContinueInOrder DEF Break, Evaluating, Controls
  <2> QED
    BY <2>1, <2>2
<1>4. CASE ContinueLoop
  <2>1. CASE LoopFrame = Halt
    BY <1>4, <2>1, FaultInOrder DEF ContinueLoop, Evaluating
  <2>2. CASE LoopFrame # Halt
    <3>1. InOrder(konts, konts[LoopFrame].k, held)
      BY <1>2, <2>2 DEF LoopFrame
    <3> QED
      BY <1>4, <2>2, <3>1, PushPlainInOrder DEF ContinueLoop, Evaluating, Controls
  <2> QED
    BY <2>1, <2>2
<1>5. CASE HandleReturn
  <2>1. CASE ReturnPoint = Halt
    BY <1>1, <1>5, <2>1, ContinueInOrder DEF HandleReturn, Controls
  <2>2. CASE ReturnPoint # Halt
    <3>1. InOrder(konts, konts[ReturnPoint].k, held)
      BY <1>2, <2>2 DEF ReturnPoint
    <3> QED
      BY <1>5, <2>2, <3>1, ContinueInOrder DEF HandleReturn, Controls
  <2> QED
    BY <2>1, <2>2
<1> QED
  BY <1>3, <1>4, <1>5

\* The arena while a frame is applied.
LEMMA SpentFacts ==
    ASSUME MachineInOrder, konts[cont].tag # "Halt"
    PROVE  /\ InOrder(Spent, konts[cont].k, held)
           /\ konts[cont].tag = "ArgsK" /\ konts[cont].callee.tag = "Continuation" =>
                InOrder(Spent, konts[cont].k, held \cup {konts[cont].callee})
<1>1. InOrder(konts, cont, held) /\ Heap(konts) /\ cont \in DOMAIN konts
  BY DEF MachineInOrder, InOrder
<1>2. Spent = Reached(Consumed(konts, cont), RefsOf(konts[cont]) \cup {r.k : r \in held})
  BY DEF Spent, Consumed
<1>3. InOrder(Spent, konts[cont].k, held)
  <2>1. {} \subseteq held \cup Callees(konts) /\ \A r \in {} : r.k \in RefsOf(konts[cont])
    OBVIOUS
  <2>2. InOrder(Spent, konts[cont].k, held \cup {})
    BY <1>1, <1>2, <2>1, SpentInOrder
  <2>3. held \cup {} = held
    OBVIOUS
  <2> QED
    BY <2>2, <2>3
<1>4. ASSUME konts[cont].tag = "ArgsK", konts[cont].callee.tag = "Continuation"
      PROVE  InOrder(Spent, konts[cont].k, held \cup {konts[cont].callee})
  <2> DEFINE Q == {konts[cont].callee}
  <2>1. Q \subseteq held \cup Callees(konts)
    BY <1>1, <1>4, CalleeFacts
  <2>2. \A r \in Q : r.k \in RefsOf(konts[cont])
    BY <1>4 DEF RefsOf
  <2> HIDE DEF Q
  <2>3. InOrder(Spent, konts[cont].k, held \cup Q)
    BY <1>1, <1>2, <2>1, <2>2, SpentInOrder
  <2> QED
    BY <2>3 DEF Q
<1> QED
  BY <1>3, <1>4

\* The halt slot is the only one on the machine's path that holds Halt.
LEMMA AtHalt == ASSUME MachineInOrder, konts[cont].tag = "Halt" PROVE cont = Halt
BY DEF MachineInOrder, InOrder, Apart, Path

\* apply_cont, except for a call.
LEMMA ApplicationInOrder ==
    ASSUME MachineInOrder,
           \/ ApplyHalt \/ ApplyPending \/ ApplyPerformArgs \/ ApplyHandler \/ ApplyLoop
           \/ ApplyReturn \/ ApplyReturnExpr
    PROVE  MachineInOrder'
<1>1. CASE ApplyHalt
  <2>1. konts[cont].tag = "Halt" /\ held' = held /\ Continue(Spent, cont, "Halted")
    BY <1>1 DEF ApplyHalt, Applying
  <2>2. cont = Halt /\ InOrder(konts, cont, held) /\ Heap(konts)
    BY <2>1, AtHalt DEF MachineInOrder, InOrder
  <2>3. konts[Halt] = HaltK /\ konts = [j \in DOMAIN konts |-> konts[j]]
    BY <2>2 DEF Heap
  <2>4. [konts EXCEPT ![cont] = HaltK] = konts
    BY <2>2, <2>3
  <2> DEFINE roots == {r.k : r \in held}
  <2>5. Spent = Reached(konts, roots)
    BY <2>2, <2>3, <2>4 DEF Spent, RefsOf, HaltK
  <2>6. roots \subseteq DOMAIN konts
    BY <2>2 DEF InOrder, Resumptions
  <2>7. {cont} \cup {r.k : r \in held} \subseteq roots \cup {Halt}
    BY <2>2
  <2> HIDE DEF roots
  <2>8. InOrder(Spent, cont, held)
    BY <2>2, <2>5, <2>6, <2>7, ReachedInOrder
  <2> QED
    BY <2>1, <2>8, ContinueInOrder DEF Controls
<1>2. CASE ApplyPending
  <2>1. InOrder(Spent, konts[cont].k, held) /\ held' = held
    BY <1>2, SpentFacts DEF ApplyPending, Applying
  <2>2. CASE Push(Spent, Frame("PendingK", konts[cont].k), "Eval")
    BY <2>1, <2>2, PushPlainInOrder DEF Controls
  <2>3. ASSUME NEW doing \in {"Eval", "Value"}, Continue(Spent, konts[cont].k, doing)
        PROVE  MachineInOrder'
    BY <2>1, <2>3, ContinueInOrder DEF Controls
  <2>4. CASE Fault
    BY <2>1, <2>4, FaultInOrder
  <2> QED
    BY <1>2, <2>2, <2>3, <2>4 DEF ApplyPending
<1>3. CASE ApplyPerformArgs
  <2>1. InOrder(Spent, konts[cont].k, held)
    BY <1>3, SpentFacts DEF ApplyPerformArgs, Applying
  <2> QED
    BY <1>3, <2>1, PerformInOrder DEF ApplyPerformArgs
<1>4. CASE ApplyHandler
  <2>1. InOrder(Spent, konts[cont].k, held) /\ held' = held
    BY <1>4, SpentFacts DEF ApplyHandler, Applying
  <2> QED
    BY <1>4, <2>1, ContinueInOrder DEF ApplyHandler, Controls
<1>5. CASE ApplyLoop
  <2>1. InOrder(Spent, konts[cont].k, held) /\ held' = held
    BY <1>5, SpentFacts DEF ApplyLoop, Applying
  <2> QED
    BY <1>5, <2>1, ContinueInOrder, PushPlainInOrder DEF ApplyLoop, Controls
<1>6. CASE ApplyReturn
  <2>1. InOrder(Spent, konts[cont].k, held) /\ held' = held
    BY <1>6, SpentFacts DEF ApplyReturn, Applying
  <2> QED
    BY <1>6, <2>1, ContinueInOrder DEF ApplyReturn, Controls
<1>7. CASE ApplyReturnExpr
  <2>1. InOrder(Spent, konts[cont].k, held) /\ held' = held
    BY <1>7, SpentFacts DEF ApplyReturnExpr, Applying
  <2> QED
    BY <1>7, <2>1, ContinueInOrder DEF ApplyReturnExpr, Controls
<1> QED
  BY <1>1, <1>2, <1>3, <1>4, <1>5, <1>6, <1>7

\* A call of a function, or of a resumption, which is copied.
LEMMA CallInOrder == ASSUME MachineInOrder, ApplyArgs PROVE MachineInOrder'
<1> DEFINE k == konts[cont].k  callee == konts[cont].callee
<1>1. /\ konts[cont].tag = "ArgsK" /\ held' = held /\ CallFunction(Spent, callee, k)
      /\ InOrder(Spent, k, held)
      /\ callee.tag = "Continuation" => InOrder(Spent, k, held \cup {callee})
  BY SpentFacts DEF ApplyArgs, Applying, CallFunction
<1> HIDE DEF k, callee
<1>2. CASE /\ callee.tag = "Continuation" /\ Room(Spent, BlockSize(Spent, callee.k))
           /\ LET new == Rebased(Spent, callee.k, k) IN Continue(new.konts, new.cont, "Value")
  <2> DEFINE new == Copied(Spent, callee.k, k)  R == held \cup {callee}
  <2>1. BlockSize(Spent, callee.k) # 0 /\ InOrder(new.konts, new.cont, R)
    <3>1. InOrder(Spent, k, R) /\ callee \in R
      BY <1>1, <1>2
    <3> HIDE DEF R
    <3> QED
      BY <1>2, <3>1, CopiedInOrder
  <2>2. Rebased(Spent, callee.k, k) = new
    BY <2>1 DEF Rebased
  <2>3. InOrder(new.konts, new.cont, held)
    <3> HIDE DEF new
    <3> QED
      BY <2>1, Dropped
  <2>4. Continue(new.konts, new.cont, "Value")
    BY <1>2, <2>2
  <2> HIDE DEF new
  <2> QED
    BY <1>1, <2>3, <2>4, ContinueInOrder DEF Controls
<1>3. ASSUME NEW doing \in {"Eval", "Value"}, Push(Spent, Frame("ReturnK", k), doing)
      PROVE  MachineInOrder'
  BY <1>1, <1>3, PushPlainInOrder DEF Controls
<1>4. CASE /\ Room(Spent, 2)
           /\ Push(Allocated(Spent, Frame("ReturnK", k)),
                   Frame("ReturnExprK", FreeSlots(Spent)[1]), "Eval")
  <2>1. Room(Spent, 1)
    <3>1. Len(FreeSlots(Spent)) >= 2 /\ Len(FreeSlots(Spent)) \in Int
      <4>1. Heap(Spent)
        BY <1>1 DEF InOrder
      <4>2. PICK top \in Nat : Len(FreeSlots(Spent)) = MaxKonts - top
        BY <4>1, SlotsFacts
      <4> QED
        BY <1>4, <4>2, ContinuationAssumption, SMT DEF Room
    <3> QED
      BY <3>1, SMT DEF Room
  <2>2. InOrder(Allocated(Spent, Frame("ReturnK", k)), FreeSlots(Spent)[1], held)
    <3>1. k \in DOMAIN Spent
      BY <1>1 DEF InOrder
    <3> QED
      BY <1>1, <2>1, <3>1, PlainFrame, AllocatedInOrder
  <2> QED
    BY <1>1, <1>4, <2>2, PushPlainInOrder DEF Controls
<1>5. CASE Continue(Spent, k, "Value")
  BY <1>1, <1>5, ContinueInOrder DEF Controls
<1>6. CASE Fault
  BY <1>1, <1>6, FaultInOrder
<1> QED
  BY <1>1, <1>2, <1>3, <1>4, <1>5, <1>6 DEF CallFunction

\* Every step of the machine keeps it in order.
LEMMA StepInOrder == ASSUME MachineInOrder, [Next]_vars PROVE MachineInOrder'
<1>1. CASE Answer
  BY <1>1, ContinueInOrder DEF Answer, MachineInOrder, Controls
<1>2. CASE UNCHANGED vars
  BY <1>2 DEF vars, MachineInOrder
<1> QED
  BY <1>1, <1>2, EvaluationInOrder, UnwindInOrder, ApplicationInOrder, CallInOrder DEF Next

\* The machine starts in order.
LEMMA InitInOrder == Init => MachineInOrder
<1> SUFFICES ASSUME Init PROVE MachineInOrder
  OBVIOUS
<1>1. /\ DOMAIN konts = {Halt} /\ konts[Halt] = HaltK /\ konts = [i \in {Halt} |-> HaltK]
      /\ cont = Halt /\ held = {}
  BY DEF Init
<1>2. Halt \in 0..MaxKonts
  BY ContinuationAssumption, SMT DEF Halt
<1>3. HaltK \in Frames({Halt}) /\ RefsOf(HaltK) = {} /\ HaltK.tag = "Halt"
  BY DEF Frames, RefsOf, HaltK
<1>4. Heap(konts)
  BY <1>1, <1>2, <1>3 DEF Heap
<1>5. Callees(konts) = {}
  BY <1>1, <1>3 DEF Callees
<1>6. Path(konts, {Halt})
  BY <1>1, <1>3 DEF Path
<1>7. Apart(konts, cont, held)
  BY <1>1, <1>5, <1>6 DEF Apart
<1> QED
  BY <1>1, <1>4, <1>7 DEF InOrder, MachineInOrder, Init, Controls

\* The machine is always in order.
LEMMA AlwaysInOrder == Spec => []MachineInOrder
BY InitInOrder, StepInOrder, PTL DEF Spec

-----------------------------------------------------------------------------
(* The invariants. *)

\* Every frame and every resumption refers to slots in use, and the registers
\* have their types, for an arena of any size.
THEOREM ContinuationTypeCorrect == Spec => []TypeOK
<1>1. MachineInOrder => TypeOK
  BY DEF MachineInOrder, InOrder, Heap, TypeOK
<1> QED
  BY <1>1, AlwaysInOrder, PTL

\* What the machine runs and what a call of a resumption would copy.
LEMMA ChainsApart ==
    ASSUME MachineInOrder
    PROVE  /\ Chain(konts, cont)[Len(Chain(konts, cont))] = Halt
           /\ \A r \in Reachable :
                LET part == Chain(konts, r.k)
                    size == BlockSize(konts, r.k)
                IN  /\ r.k \in DOMAIN konts
                    /\ size \in 1..Len(part) /\ konts[part[size]].tag = "HandlerK"
                    /\ \A n \in 1..size : part[n] \notin Range(Chain(konts, cont))
<1>1. Heap(konts) /\ cont \in DOMAIN konts
  BY DEF MachineInOrder, InOrder
<1>2. PICK C : /\ cont \in C /\ Path(konts, C)
               /\ \A r \in Reachable :
                      \E B : r.k \in B /\ Unspent(konts, B) /\ B \cap C = {}
  BY DEF MachineInOrder, InOrder, Apart, Reachable
<1>3. ChainWhole(konts, cont, Chain(konts, cont))
  BY <1>1, ChainFacts
<1>4. /\ \A m \in 1..Len(Chain(konts, cont)) : Chain(konts, cont)[m] \in C
      /\ Chain(konts, cont)[Len(Chain(konts, cont))] = Halt
  BY <1>1, <1>2, <1>3, ChainInPath
<1>5. Range(Chain(konts, cont)) \subseteq C
  <2>1. DOMAIN Chain(konts, cont) = 1..Len(Chain(konts, cont))
    BY <1>3, SMT DEF ChainWhole
  <2> QED
    BY <1>4, <2>1 DEF Range
<1>6. ASSUME NEW r \in Reachable
      PROVE  /\ r.k \in DOMAIN konts
             /\ BlockSize(konts, r.k) \in 1..Len(Chain(konts, r.k))
             /\ konts[Chain(konts, r.k)[BlockSize(konts, r.k)]].tag = "HandlerK"
             /\ \A n \in 1..BlockSize(konts, r.k) :
                    Chain(konts, r.k)[n] \notin Range(Chain(konts, cont))
  <2>1. PICK B : r.k \in B /\ Unspent(konts, B) /\ B \cap C = {}
    BY <1>2
  <2>2. /\ BlockSize(konts, r.k) \in 1..Len(Chain(konts, r.k))
        /\ konts[Chain(konts, r.k)[BlockSize(konts, r.k)]].tag = "HandlerK"
        /\ \A n \in 1..BlockSize(konts, r.k) : Chain(konts, r.k)[n] \in B
    BY <1>1, <2>1, BlockCopied
  <2> QED
    BY <1>5, <2>1, <2>2 DEF Unspent
<1> QED
  BY <1>4, <1>6

\* References go down, the machine's chain ends at the halt slot, and what a
\* resumption puts back is apart from it.
THEOREM ContinuationInvHolds == Spec => []ContinuationInv
<1>1. ASSUME MachineInOrder PROVE ContinuationInv
  <2>1. \A i \in DOMAIN konts : \A j \in RefsOf(konts[i]) : j < i
    BY <1>1 DEF MachineInOrder, InOrder, Heap
  <2>2. Ends(cont) = Halt
    BY <1>1, ChainsApart DEF Ends, Last
  <2>3. ASSUME NEW r \in Reachable
        PROVE  /\ BlockSize(konts, r.k) # 0
               /\ \A n \in 1..BlockSize(konts, r.k) :
                      Chain(konts, r.k)[n] \notin Range(Chain(konts, cont))
    BY <1>1, ChainsApart, SMT
  <2> QED
    BY <2>1, <2>2, <2>3 DEF ContinuationInv
<1> QED
  BY <1>1, AlwaysInOrder, PTL

\* apply_cont overwrites the frame it applies: no slot that it has overwritten
\* is ever reached again, by the machine or by a call of a resumption, however
\* often the resumption is called.
THEOREM NothingAheadIsSpentHolds == Spec => []NothingAheadIsSpent
<1>1. ASSUME MachineInOrder PROVE NothingAheadIsSpent
  <2>1. Ends(cont) = Halt
    BY <1>1, ChainsApart DEF Ends, Last
  <2>2. ASSUME NEW r \in Reachable
        PROVE  FirstFrame(konts, r.k, Tagged(konts, "HandlerK")) # Halt
    <3> DEFINE s == Chain(konts, r.k)  n == BlockSize(konts, r.k)
               W == Tagged(konts, "HandlerK")
    <3>1. Heap(konts) /\ r.k \in DOMAIN konts
      BY <1>1, ChainsApart DEF MachineInOrder, InOrder
    <3>2. n \in 1..Len(s) /\ konts[s[n]].tag = "HandlerK"
      BY <1>1, ChainsApart
    <3>3. ChainWhole(konts, r.k, s)
      BY <3>1, ChainFacts
    <3>4. \A j \in W : konts[j].tag # "Halt"
      BY DEF Tagged
    <3> HIDE DEF n
    <3>5. s[n] \in W
      BY <3>2, <3>3, SMT DEF ChainWhole, Tagged
    <3> HIDE DEF W
    <3>6. FirstFrame(konts, r.k, W) = Halt => \A m \in 1..Len(s) : s[m] \notin W
      BY <3>1, <3>4, FirstFrameFacts
    <3> QED
      BY <3>2, <3>5, <3>6 DEF W
  <2> QED
    BY <2>1, <2>2 DEF NothingAheadIsSpent
<1> QED
  BY <1>1, AlwaysInOrder, PTL

-----------------------------------------------------------------------------
(***************************************************************************)
(* The arena of Continuations implements the stack of DelimitedStack, step *)
(* by step, for an arena of any size, any effects and handlers and any     *)
(* number of resumptions: frames that are shared, consumed and copied      *)
(* behave as a stack whose captured parts are values.                      *)
(*                                                                         *)
(* The stack of a slot is read along the chain.  Two arenas that agree on  *)
(* the chain, and on what the resumptions its frames hold would put back,  *)
(* read alike; so consuming a frame, appending to the arena and copying a  *)
(* captured part change what is read as pushing, popping and prepending    *)
(* do, wherever what is touched lies apart (InOrder of                     *)
(* ContinuationProofs).  Unwinding to a handler, a loop or a function      *)
(* finds the frame that the stack says it finds.  Then there is one lemma  *)
(* per group of actions.                                                   *)
(***************************************************************************)
(* Reading the chain as a stack. *)

\* What a frame shows in an arena, what the slot j shows, and the part of the
\* stack from j to its handler.
Seen(h, f) == Shown(f, [i \in DOMAIN h |-> Stack(h, i)])
View(h, j) == Seen(h, h[j])
PartAt(h, j) == ToNearest(Stack(h, j))

\* What a frame shows depends on the stacks it refers to.
LEMMA ShownSame ==
    ASSUME NEW ids, NEW f \in Frames(ids), NEW a, NEW b, \A r \in RefsOf(f) : a[r] = b[r]
    PROVE  Shown(f, a) = Shown(f, b)
<1>1. CASE f.tag = "ArgsK"
  <2>1. CASE f.callee.tag = "Plain"
    BY <1>1, <2>1 DEF Shown
  <2>2. CASE f.callee.tag # "Plain"
    <3>1. f.callee.tag = "Continuation"
      BY <1>1, <2>2, FrameFacts DEF Plain, Resumptions
    <3>2. a[f.callee.k] = b[f.callee.k]
      BY <1>1, <3>1, FrameFacts
    <3> QED
      BY <1>1, <2>2, <3>2 DEF Shown
  <2> QED
    BY <2>1, <2>2
<1>2. CASE f.tag # "ArgsK"
  BY <1>2 DEF Shown
<1> QED
  BY <1>1, <1>2

\* c holds the stack of every slot below n.
Stacks(h, n, c) ==
    c = [j \in {i \in DOMAIN h : i < n} |->
            IF h[j].tag = "Halt" THEN <<>> ELSE <<Shown(h[j], c)>> \o c[h[j].k]]

\* The function that Stack defines exists.
LEMMA StacksExist ==
    ASSUME NEW h, Heap(h)
    PROVE  \E c : c = [j \in DOMAIN h |->
                IF h[j].tag = "Halt" THEN <<>> ELSE <<Shown(h[j], c)>> \o c[h[j].k]]
<1> DEFINE S == {n \in Nat : \E c : Stacks(h, n, c)}
<1>1. 0 \in S
  <2>1. {i \in DOMAIN h : i < 0} = {}
    BY HeapFacts, SMT
  <2> DEFINE e == [j \in {} |-> j]
  <2>2. [j \in {} |-> IF h[j].tag = "Halt" THEN <<>> ELSE <<Shown(h[j], e)>> \o e[h[j].k]] = e
    OBVIOUS
  <2>3. Stacks(h, 0, e)
    BY <2>1, <2>2 DEF Stacks
  <2> QED
    BY <2>3
<1>2. ASSUME NEW n \in Nat, n \in S PROVE n + 1 \in S
  <2>1. PICK c : Stacks(h, n, c)
    BY <1>2
  <2> DEFINE D(m) == {i \in DOMAIN h : i < m}
             E(f, j) == IF h[j].tag = "Halt" THEN <<>> ELSE <<Shown(h[j], f)>> \o f[h[j].k]
             d == [j \in D(n + 1) |-> E(c, j)]
  <2>2. \A j \in D(n) : c[j] = E(c, j)
    BY <2>1 DEF Stacks
  <2>3. D(n) \subseteq D(n + 1)
    BY HeapFacts, SMT
  <2>4. \A j \in D(n + 1) : d[j] = E(c, j)
    OBVIOUS
  <2>5. \A j \in D(n) : d[j] = c[j]
    <3> HIDE DEF d, D, E
    <3> QED
      BY <2>2, <2>3, <2>4
  <2>6. \A j \in D(n + 1) : RefsOf(h[j]) \subseteq D(n)
    <3> SUFFICES ASSUME NEW j \in DOMAIN h, j < n + 1, NEW r \in RefsOf(h[j])
                 PROVE  r \in DOMAIN h /\ r < n
      OBVIOUS
    <3>1. r \in DOMAIN h /\ r < j /\ r \in Nat /\ j \in Nat
      BY HeapFacts
    <3> QED
      BY <3>1, SMT
  <2>7. \A j \in D(n + 1) : E(d, j) = E(c, j)
    <3> SUFFICES ASSUME NEW j \in D(n + 1) PROVE E(d, j) = E(c, j)
      OBVIOUS
    <3> HIDE DEF d
    <3>1. j \in DOMAIN h /\ h[j] \in Frames(DOMAIN h)
      BY HeapFacts
    <3>2. \A r \in RefsOf(h[j]) : d[r] = c[r]
      BY <2>5, <2>6
    <3>3. Shown(h[j], d) = Shown(h[j], c)
      BY <3>1, <3>2, ShownSame
    <3>4. h[j].tag # "Halt" => h[j].k \in RefsOf(h[j])
      BY <3>1, HeapFacts
    <3> QED
      BY <3>2, <3>3, <3>4
  <2>8. d = [j \in D(n + 1) |-> E(d, j)]
    <3> DEFINE k == [j \in D(n + 1) |-> E(d, j)]
    <3>1. d = [j \in D(n + 1) |-> d[j]] /\ k = [j \in D(n + 1) |-> k[j]]
      OBVIOUS
    <3>2. \A j \in D(n + 1) : k[j] = E(d, j)
      OBVIOUS
    <3> HIDE DEF d, k, E
    <3>3. \A j \in D(n + 1) : d[j] = k[j]
      BY <2>4, <2>7, <3>2
    <3>4. d = k
      BY <3>1, <3>3
    <3> QED
      BY <3>4 DEF k
  <2>9. Stacks(h, n + 1, d)
    <3> HIDE DEF d
    <3> QED
      BY <2>8 DEF Stacks
  <2> QED
    BY <2>9, SMT
<1>3. MaxKonts + 1 \in S
  <2>1. Nat \subseteq S
    <3> HIDE DEF S
    <3> QED
      BY <1>1, <1>2, SetInduction
  <2> HIDE DEF S
  <2> QED
    BY <2>1, ContinuationAssumption, SMT
<1>4. PICK c : Stacks(h, MaxKonts + 1, c)
  BY <1>3
<1>5. {i \in DOMAIN h : i < MaxKonts + 1} = DOMAIN h
  <2>1. \A i \in DOMAIN h : i \in Nat /\ i <= MaxKonts
    BY HeapFacts
  <2>2. \A i \in Nat : i <= MaxKonts => i < MaxKonts + 1
    BY ContinuationAssumption, SMT
  <2> QED
    BY <2>1, <2>2
<1> QED
  BY <1>4, <1>5 DEF Stacks

\* The stack of a slot: what the slot shows, on the stack of its outer frame.
LEMMA StackStep ==
    ASSUME NEW h, Heap(h), NEW i \in DOMAIN h
    PROVE  Stack(h, i) = IF h[i].tag = "Halt" THEN <<>> ELSE <<View(h, i)>> \o Stack(h, h[i].k)
<1> DEFINE f == CHOOSE c : c = [j \in DOMAIN h |->
                   IF h[j].tag = "Halt" THEN <<>> ELSE <<Shown(h[j], c)>> \o c[h[j].k]]
<1>1. f = [j \in DOMAIN h |->
              IF h[j].tag = "Halt" THEN <<>> ELSE <<Shown(h[j], f)>> \o f[h[j].k]]
  <2> HIDE DEF f
  <2> QED
    BY StacksExist DEF f
<1>2. \A j : Stack(h, j) = f[j]
  BY DEF Stack
<1> HIDE DEF f
<1>3. f[i] = IF h[i].tag = "Halt" THEN <<>> ELSE <<Shown(h[i], f)>> \o f[h[i].k]
  BY <1>1
<1>4. Shown(h[i], f) = View(h, i)
  <2> DEFINE g == [j \in DOMAIN h |-> Stack(h, j)]
  <2>1. \A j \in DOMAIN h : g[j] = f[j]
    BY <1>2
  <2>2. \A r \in RefsOf(h[i]) : g[r] = f[r]
    BY <2>1, HeapFacts
  <2> HIDE DEF g
  <2>3. Shown(h[i], g) = Shown(h[i], f)
    BY <2>2, HeapFacts, ShownSame
  <2> QED
    BY <2>3 DEF g, View, Seen
<1> QED
  BY <1>2, <1>3, <1>4

\* What can be on a stack.
Views(h) == {View(h, j) : j \in DOMAIN h}

\* What a frame shows.
LEMMA SeenFacts ==
    ASSUME NEW h, Heap(h), NEW f \in Frames(DOMAIN h)
    PROVE  /\ Seen(h, f).tag = f.tag
           /\ f.tag = "HandlerK" => Seen(h, f) = [tag |-> "HandlerK", clauses |-> f.clauses]
           /\ f.tag = "ArgsK" =>
                Seen(h, f) = [tag |-> "ArgsK",
                              callee |-> IF f.callee.tag = "Plain" THEN f.callee
                                         ELSE [tag |-> "Continuation",
                                               part |-> PartAt(h, f.callee.k)]]
           /\ f.tag \notin {"HandlerK", "ArgsK"} => Seen(h, f) = [tag |-> f.tag]
<1> DEFINE g == [i \in DOMAIN h |-> Stack(h, i)]
<1>1. Seen(h, f) = Shown(f, g)
  BY DEF Seen
<1>2. f.tag = "ArgsK" /\ f.callee.tag # "Plain" =>
        ToNearest(g[f.callee.k]) = PartAt(h, f.callee.k)
  <2>1. f.tag = "ArgsK" /\ f.callee.tag # "Plain" => f.callee.tag = "Continuation"
    BY FrameFacts DEF Plain, Resumptions
  <2>2. f.tag = "ArgsK" /\ f.callee.tag # "Plain" => f.callee.k \in DOMAIN h
    BY <2>1, FrameFacts
  <2>3. \A i \in DOMAIN h : g[i] = Stack(h, i)
    OBVIOUS
  <2> HIDE DEF g
  <2> QED
    BY <2>2, <2>3 DEF PartAt
<1> HIDE DEF g
<1>3. CASE f.tag = "HandlerK"
  BY <1>1, <1>3 DEF Shown
<1>4. CASE f.tag = "ArgsK"
  <2>1. Seen(h, f) = [tag |-> "ArgsK",
                      callee |-> IF f.callee.tag = "Plain" THEN f.callee
                                 ELSE [tag |-> "Continuation", part |-> ToNearest(g[f.callee.k])]]
    BY <1>1, <1>4 DEF Shown
  <2> QED
    BY <1>2, <1>4, <2>1
<1>5. CASE f.tag \notin {"HandlerK", "ArgsK"}
  BY <1>1, <1>5 DEF Shown
<1> QED
  BY <1>3, <1>4, <1>5

\* What a slot shows is one of what the slots show, with the slot's tag.
LEMMA ViewFacts ==
    ASSUME NEW h, Heap(h), NEW j \in DOMAIN h
    PROVE  View(h, j) \in Views(h) /\ View(h, j).tag = h[j].tag
<1>1. h[j] \in Frames(DOMAIN h)
  BY HeapFacts
<1> QED
  BY <1>1, SeenFacts DEF View, Views

\* A stack has the frames of its slot's chain, but for the last, and from any of
\* them on it is that slot's stack.
LEMMA StackFacts ==
    ASSUME NEW h, Heap(h), NEW i \in DOMAIN h, NEW s, s = Chain(h, i)
    PROVE  /\ Stack(h, i) \in Seq(Views(h)) /\ Len(s) \in Nat /\ Len(Stack(h, i)) = Len(s) - 1
           /\ \A m \in 1..Len(s) - 1 : Stack(h, i)[m] = View(h, s[m])
           /\ \A m \in 1..Len(s) : SubSeq(Stack(h, i), m, Len(Stack(h, i))) = Stack(h, s[m])
<1> DEFINE Good(j) ==
        LET c == Chain(h, j)  t == Stack(h, j)
        IN  /\ t \in Seq(Views(h)) /\ Len(c) \in Nat /\ Len(t) = Len(c) - 1
            /\ \A m \in 1..Len(c) - 1 : t[m] = View(h, c[m])
            /\ \A m \in 1..Len(c) : SubSeq(t, m, Len(t)) = Stack(h, c[m])
           S == {n \in Nat : \A j \in DOMAIN h : j < n => Good(j)}
<1>1. 0 \in S
  BY HeapFacts, SMT
<1>2. ASSUME NEW n \in Nat, n \in S PROVE n + 1 \in S
  <2> SUFFICES ASSUME NEW j \in DOMAIN h, j < n + 1 PROVE Good(j)
    BY SMT
  <2> DEFINE c == Chain(h, j)  t == Stack(h, j)
  <2>1. CASE h[j].tag = "Halt"
    <3>1. c = <<j>> /\ t = <<>>
      BY <2>1, ChainStep, StackStep
    <3>2. /\ t \in Seq(Views(h)) /\ Len(c) = 1 /\ Len(t) = 0 /\ c[1] = j
      BY <3>1, SMT
    <3>3. SubSeq(t, 1, 0) = <<>>
      BY <3>1, SMT
    <3> HIDE DEF c, t
    <3>4. /\ \A m \in 1..Len(c) - 1 : t[m] = View(h, c[m])
          /\ \A m \in 1..Len(c) : SubSeq(t, m, Len(t)) = Stack(h, c[m])
      <4>1. 1..Len(c) = {1} /\ 1..Len(c) - 1 = {} /\ Len(c) \in Nat /\ Len(t) = Len(c) - 1
        BY <3>2, SMT
      <4>2. \A m \in 1..Len(c) : m = 1
        BY <4>1
      <4> QED
        BY <3>1, <3>2, <3>3, <4>1, <4>2 DEF t
    <3> QED
      BY <3>2, <3>4, SMT DEF c, t
  <2>2. CASE h[j].tag # "Halt"
    <3> DEFINE k == h[j].k  ck == Chain(h, k)  tk == Stack(h, k)  v == View(h, j)
    <3>1. k \in DOMAIN h /\ k < n
      <4>1. h[j].k \in DOMAIN h /\ h[j].k < j /\ h[j].k \in Nat /\ j \in Nat
        BY <2>2, HeapFacts
      <4> QED
        BY <4>1, SMT
    <3>2. Good(k)
      BY <1>2, <3>1
    <3>3. c = <<j>> \o ck /\ t = <<v>> \o tk
      BY <2>2, ChainStep, StackStep
    <3>4. v \in Views(h) /\ ck \in Seq(DOMAIN h)
      BY <3>1, ViewFacts, ChainFacts DEF ChainWhole
    <3>5. /\ tk \in Seq(Views(h)) /\ Len(ck) \in Nat /\ Len(tk) = Len(ck) - 1
          /\ \A m \in 1..Len(ck) - 1 : tk[m] = View(h, ck[m])
          /\ \A m \in 1..Len(ck) : SubSeq(tk, m, Len(tk)) = Stack(h, ck[m])
      BY <3>2
    <3>6. k = h[j].k /\ v = View(h, j) /\ t = Stack(h, j) /\ c = Chain(h, j)
      OBVIOUS
    <3> HIDE DEF k, ck, tk, v, c, t
    <3>7. /\ t \in Seq(Views(h)) /\ Len(c) = Len(ck) + 1 /\ Len(t) = Len(tk) + 1
          /\ t[1] = v /\ c[1] = j
          /\ \A m \in 1..Len(ck) : c[m + 1] = ck[m]
          /\ \A m \in 1..Len(tk) : t[m + 1] = tk[m]
      BY <3>3, <3>4, <3>5, SMT
    <3>8. ASSUME NEW m \in 1..Len(c) - 1 PROVE t[m] = View(h, c[m])
      <4>1. CASE m = 1
        BY <3>6, <3>7, <4>1
      <4>2. CASE m # 1
        <5>1. m - 1 \in 1..Len(ck) - 1 /\ m - 1 \in 1..Len(ck) /\ m - 1 \in 1..Len(tk)
              /\ (m - 1) + 1 = m
          BY <3>5, <3>7, <4>2, SMT
        <5>2. t[m] = tk[m - 1] /\ c[m] = ck[m - 1]
          BY <3>7, <5>1
        <5> QED
          BY <3>5, <5>1, <5>2
      <4> QED
        BY <4>1, <4>2
    <3>9. ASSUME NEW m \in 1..Len(c) PROVE SubSeq(t, m, Len(t)) = Stack(h, c[m])
      <4>1. CASE m = 1
        <5>1. SubSeq(t, 1, Len(t)) = t
          BY <3>7, SMT
        <5> QED
          BY <3>6, <3>7, <4>1, <5>1
      <4>2. CASE m # 1
        <5>1. m - 1 \in 1..Len(ck) /\ (m - 1) + 1 = m /\ m - 1 >= 1
          BY <3>5, <3>7, <4>2, SMT
        <5>2. c[m] = ck[m - 1] /\ SubSeq(tk, m - 1, Len(tk)) = Stack(h, ck[m - 1])
          BY <3>5, <3>7, <5>1
        <5>3. SubSeq(t, m, Len(t)) = SubSeq(tk, m - 1, Len(tk))
          BY <3>5, <3>7, <5>1, SMT
        <5> QED
          BY <5>2, <5>3
      <4> QED
        BY <4>1, <4>2
    <3>10. Len(c) \in Nat /\ Len(t) = Len(c) - 1
      BY <3>5, <3>7, SMT
    <3> QED
      BY <3>6, <3>7, <3>8, <3>9, <3>10
  <2> QED
    BY <2>1, <2>2
<1>3. i + 1 \in S
  <2>1. Nat \subseteq S
    <3> HIDE DEF S
    <3> QED
      BY <1>1, <1>2, SetInduction
  <2> HIDE DEF S
  <2> QED
    BY <2>1, HeapFacts, SMT
<1>4. i < i + 1
  BY HeapFacts, SMT
<1>5. Good(i)
  BY <1>3, <1>4
<1> QED
  BY <1>5

\* A stack of one frame.
LEMMA OneFrame ==
    ASSUME NEW V, NEW s \in Seq(V), Len(s) = 1, NEW v \in V, s[1] = v PROVE s = <<v>>
<1>1. <<v>> \in Seq(V) /\ Len(<<v>>) = 1 /\ <<v>>[1] = v
  BY SMT
<1>2. \A m \in 1..1 : s[m] = <<v>>[m]
  BY <1>1, SMT
<1>3. s = [m \in 1..1 |-> s[m]] /\ <<v>> = [m \in 1..1 |-> <<v>>[m]]
  BY <1>1, SMT
<1> QED
  BY <1>2, <1>3

\* ... and of two.
LEMMA TwoFrames ==
    ASSUME NEW V, NEW a \in V, NEW b \in V
    PROVE  <<b>> \in Seq(V) /\ <<a>> \o <<b>> = <<a, b>>
<1> DEFINE p == <<a>> \o <<b>>  q == <<a, b>>
<1>1. p \in Seq(V) /\ Len(p) = 2 /\ p[1] = a /\ p[2] = b /\ <<b>> \in Seq(V)
  BY SMT
<1>2. q \in Seq(V) /\ Len(q) = 2 /\ q[1] = a /\ q[2] = b
  BY SMT
<1> HIDE DEF p, q
<1>3. p = [m \in 1..2 |-> p[m]] /\ q = [m \in 1..2 |-> q[m]]
  BY <1>1, <1>2, SMT
<1>4. \A m \in 1..2 : m = 1 \/ m = 2
  BY SMT
<1>5. \A m \in 1..2 : p[m] = q[m]
  BY <1>1, <1>2, <1>4
<1>6. p = q
  BY <1>3, <1>5
<1> QED
  BY <1>1, <1>6 DEF p, q

\* The part of a stack up to its first handler.
LEMMA NearestIs ==
    ASSUME NEW V, NEW s \in Seq(V), NEW n \in 1..Len(s), s[n].tag = "HandlerK",
           \A m \in 1..n - 1 : s[m].tag # "HandlerK"
    PROVE  ToNearest(s) = SubSeq(s, 1, n)
<1> DEFINE I == {m \in 1..Len(s) : s[m].tag = "HandlerK"}
           l == IF I # {} THEN Min(I) ELSE 0
<1>1. ToNearest(s) = SubSeq(s, 1, l)
  BY DEF ToNearest, SelectInSeq
<1>2. I \subseteq Nat /\ n \in I
  BY SMT
<1>3. l \in I /\ l <= n
  <2>1. I # {}
    BY <1>2
  <2>2. Min(I) \in I /\ \A m \in I : Min(I) <= m
    <3> HIDE DEF I
    <3> QED
      BY <1>2, <2>1, MinFacts
  <2> QED
    BY <1>2, <2>1, <2>2
<1>4. l \in 1..Len(s) /\ s[l].tag = "HandlerK"
  BY <1>3
<1> HIDE DEF l
<1>5. l = n
  <2>1. l \notin 1..n - 1
    BY <1>4
  <2> QED
    BY <1>3, <1>4, <2>1, SMT
<1> QED
  BY <1>1, <1>5

\* What a resumption puts back: what the slots of its block show.
LEMMA PartFacts ==
    ASSUME NEW h, Heap(h), NEW P, Unspent(h, P), NEW i \in P,
           NEW s, s = Chain(h, i), NEW n, n = BlockSize(h, i)
    PROVE  /\ n \in 1..Len(s) - 1 /\ PartAt(h, i) = SubSeq(Stack(h, i), 1, n)
           /\ PartAt(h, i) \in Seq(Views(h)) /\ Len(PartAt(h, i)) = n
           /\ \A m \in 1..n : PartAt(h, i)[m] = View(h, s[m])
<1> DEFINE t == Stack(h, i)
<1>1. i \in DOMAIN h
  BY DEF Unspent
<1>2. /\ t \in Seq(Views(h)) /\ Len(s) \in Nat /\ Len(t) = Len(s) - 1
      /\ \A m \in 1..Len(s) - 1 : t[m] = View(h, s[m])
  BY <1>1, StackFacts
<1>3. ChainWhole(h, i, s)
  BY <1>1, ChainFacts
<1>4. /\ n \in 1..Len(s) /\ n < Len(s) /\ h[s[n]].tag = "HandlerK"
      /\ \A m \in 1..n - 1 : h[s[m]].tag # "HandlerK"
  BY BlockCopied
<1> HIDE DEF t
<1>5. n \in 1..Len(s) - 1 /\ n \in 1..Len(t) /\ n \in Nat
      /\ \A m \in 1..n : m \in 1..Len(s) - 1 /\ m \in 1..Len(t) /\ s[m] \in DOMAIN h
  BY <1>2, <1>3, <1>4, SMT DEF ChainWhole
<1>6. \A m \in 1..n : t[m] = View(h, s[m]) /\ t[m].tag = h[s[m]].tag
  BY <1>2, <1>5, ViewFacts
<1>7. n \in 1..n /\ \A m \in 1..n - 1 : m \in 1..n
  BY <1>5, SMT
<1>8. PartAt(h, i) = SubSeq(t, 1, n)
  <2>1. t[n].tag = "HandlerK" /\ \A m \in 1..n - 1 : t[m].tag # "HandlerK"
    BY <1>4, <1>6, <1>7
  <2>2. ToNearest(t) = SubSeq(t, 1, n)
    BY <1>2, <1>5, <2>1, NearestIs
  <2> QED
    BY <2>2 DEF PartAt, t
<1>9. /\ SubSeq(t, 1, n) \in Seq(Views(h)) /\ Len(SubSeq(t, 1, n)) = n
      /\ \A m \in 1..n : SubSeq(t, 1, n)[m] = t[m]
  BY <1>2, <1>5, SMT
<1> QED
  BY <1>5, <1>6, <1>8, <1>9 DEF t

\* ... which is what the first of them shows, on the part of its outer frame.
LEMMA PartStep ==
    ASSUME NEW h, Heap(h), NEW P, Unspent(h, P), NEW i \in P
    PROVE  PartAt(h, i) = IF h[i].tag = "HandlerK" THEN <<View(h, i)>>
                          ELSE <<View(h, i)>> \o PartAt(h, h[i].k)
<1> DEFINE v == View(h, i)  k == h[i].k  t == Stack(h, i)
<1>1. i \in DOMAIN h /\ h[i].tag # "Halt"
  BY DEF Unspent
<1>2. k \in DOMAIN h
  BY <1>1, HeapFacts
<1>3. t = <<v>> \o Stack(h, k) /\ v \in Views(h) /\ v.tag = h[i].tag
  BY <1>1, StackStep, ViewFacts
<1>4. Stack(h, k) \in Seq(Views(h))
  BY <1>2, StackFacts
<1>5. t \in Seq(Views(h)) /\ Len(t) = Len(Stack(h, k)) + 1 /\ t[1] = v
      /\ \A m \in 1..Len(Stack(h, k)) : t[m + 1] = Stack(h, k)[m]
  BY <1>3, <1>4, SMT
<1>6. PartAt(h, i) = ToNearest(t) /\ PartAt(h, k) = ToNearest(Stack(h, k))
  BY DEF PartAt
<1>7. CASE h[i].tag = "HandlerK"
  <2>1. 1 \in 1..Len(t) /\ 1..1 - 1 = {}
    BY <1>4, <1>5, SMT
  <2>2. ToNearest(t) = SubSeq(t, 1, 1)
    BY <1>3, <1>5, <1>7, <2>1, NearestIs
  <2>3. SubSeq(t, 1, 1) = <<v>>
    <3> DEFINE u == Stack(h, k)
    <3>1. t = <<v>> \o u /\ v \in Views(h) /\ u \in Seq(Views(h))
      BY <1>3, <1>4
    <3> HIDE DEF t, u, v
    <3>2. SubSeq(t, 1, 1) \in Seq(Views(h)) /\ Len(SubSeq(t, 1, 1)) = 1 /\ SubSeq(t, 1, 1)[1] = v
      BY <3>1, SMT
    <3> QED
      BY <3>1, <3>2, OneFrame
  <2> QED
    BY <1>6, <1>7, <2>2, <2>3
<1>8. CASE h[i].tag # "HandlerK"
  <2> DEFINE u == Stack(h, k)  n == BlockSize(h, k)
  <2>1. k \in P
    BY <1>8 DEF Unspent
  <2>2. /\ n \in 1..Len(Chain(h, k)) - 1 /\ PartAt(h, k) = SubSeq(u, 1, n)
        /\ \A m \in 1..n - 1 : h[Chain(h, k)[m]].tag # "HandlerK"
        /\ h[Chain(h, k)[n]].tag = "HandlerK"
    BY <2>1, PartFacts, BlockCopied
  <2>3. /\ u \in Seq(Views(h)) /\ Len(u) = Len(Chain(h, k)) - 1 /\ Len(u) \in Nat
        /\ \A m \in 1..Len(Chain(h, k)) - 1 : u[m] = View(h, Chain(h, k)[m])
    BY <1>2, StackFacts, SMT
  <2>4. \A m \in 1..Len(Chain(h, k)) - 1 : Chain(h, k)[m] \in DOMAIN h
    BY <1>2, ChainFacts, SMT DEF ChainWhole
  <2>5. \A m \in 1..Len(u) : u[m].tag = h[Chain(h, k)[m]].tag
    BY <2>3, <2>4, ViewFacts
  <2> HIDE DEF u, n
  <2>6. n \in 1..Len(u) /\ u[n].tag = "HandlerK" /\ \A m \in 1..n - 1 : u[m].tag # "HandlerK"
    <3>1. n \in 1..Len(u) /\ \A m \in 1..n - 1 : m \in 1..Len(u)
      BY <2>2, <2>3, SMT
    <3> QED
      BY <2>2, <2>5, <3>1
  <2>7. t \in Seq(Views(h)) /\ Len(t) = Len(u) + 1 /\ t[1] = v
        /\ (\A m \in 1..Len(u) : t[m + 1] = u[m]) /\ t = <<v>> \o u
    BY <1>3, <1>5 DEF u
  <2> HIDE DEF t, v
  <2>8. n + 1 \in 1..Len(t) /\ t[n + 1].tag = "HandlerK"
    BY <2>3, <2>6, <2>7, SMT
  <2>9. ASSUME NEW m \in 1..(n + 1) - 1 PROVE t[m].tag # "HandlerK"
    <3>1. CASE m = 1
      BY <1>3, <1>8, <2>7, <3>1
    <3>2. CASE m # 1
      <4>1. m - 1 \in 1..n - 1 /\ m - 1 \in 1..Len(u) /\ (m - 1) + 1 = m
        BY <2>6, <3>2, SMT
      <4> QED
        BY <2>6, <2>7, <4>1
    <3> QED
      BY <3>1, <3>2
  <2>10. ToNearest(t) = SubSeq(t, 1, n + 1)
    BY <2>7, <2>8, <2>9, NearestIs
  <2>11. v \in Views(h)
    BY <1>3 DEF v
  <2>12. SubSeq(t, 1, n + 1) = <<v>> \o SubSeq(u, 1, n)
    BY <2>3, <2>6, <2>7, <2>11, SMT
  <2> QED
    BY <1>6, <1>8, <2>2, <2>10, <2>12 DEF t, u, v
<1> QED
  BY <1>7, <1>8

-----------------------------------------------------------------------------
(* What steps leave as it reads. *)

\* Two frames show the same, in two arenas, if the resumptions in them do.
LEMMA SeenSame ==
    ASSUME NEW h, Heap(h), NEW g, Heap(g), NEW f \in Frames(DOMAIN h), NEW e \in Frames(DOMAIN g),
           e.tag = f.tag, f.tag = "HandlerK" => e.clauses = f.clauses,
           f.tag = "ArgsK" => e.callee = f.callee,
           f.tag = "ArgsK" /\ f.callee.tag = "Continuation" =>
                PartAt(g, f.callee.k) = PartAt(h, f.callee.k)
    PROVE  Seen(g, e) = Seen(h, f)
<1>1. CASE f.tag = "HandlerK"
  BY <1>1, SeenFacts
<1>2. CASE f.tag = "ArgsK"
  <2>1. f.callee.tag = "Plain" \/ f.callee.tag = "Continuation"
    BY <1>2, FrameFacts DEF Plain, Resumptions
  <2>2. /\ Seen(h, f) = [tag |-> "ArgsK",
                         callee |-> IF f.callee.tag = "Plain" THEN f.callee
                                    ELSE [tag |-> "Continuation", part |-> PartAt(h, f.callee.k)]]
        /\ Seen(g, e) = [tag |-> "ArgsK",
                         callee |-> IF e.callee.tag = "Plain" THEN e.callee
                                    ELSE [tag |-> "Continuation", part |-> PartAt(g, e.callee.k)]]
    BY <1>2, SeenFacts
  <2>3. e.callee = f.callee
    BY <1>2
  <2>4. CASE f.callee.tag = "Plain"
    BY <2>2, <2>3, <2>4
  <2>5. CASE f.callee.tag = "Continuation"
    BY <1>2, <2>2, <2>3, <2>5
  <2> QED
    BY <2>1, <2>4, <2>5
<1>3. CASE f.tag \notin {"HandlerK", "ArgsK"}
  BY <1>3, SeenFacts
<1> QED
  BY <1>1, <1>2, <1>3

\* A slot with the same frame shows the same, if what its resumption puts back
\* reads alike.
LEMMA ViewSame ==
    ASSUME NEW h, Heap(h), NEW g, Heap(g), NEW j \in DOMAIN h, j \in DOMAIN g, g[j] = h[j],
           h[j].tag = "ArgsK" /\ h[j].callee.tag = "Continuation" =>
                PartAt(g, h[j].callee.k) = PartAt(h, h[j].callee.k)
    PROVE  View(g, j) = View(h, j)
<1>1. h[j] \in Frames(DOMAIN h) /\ g[j] \in Frames(DOMAIN g)
  BY HeapFacts
<1>2. Seen(g, g[j]) = Seen(h, h[j])
  BY <1>1, SeenSame
<1> QED
  BY <1>2 DEF View

\* The resumptions that frames in A wait to call are on slots in P.
CalleesIn(h, A, P) ==
    \A j \in A : h[j].tag = "ArgsK" /\ h[j].callee.tag = "Continuation" => h[j].callee.k \in P

\* Arenas that agree on a path and on what can be put back are read alike.
LEMMA SameReading ==
    ASSUME NEW h, Heap(h), NEW g, Heap(g), NEW C, C \subseteq DOMAIN h,
           \A j \in C : h[j].tag # "Halt" => h[j].k \in C,
           NEW P, Unspent(h, P), CalleesIn(h, C, P), CalleesIn(h, P, P),
           \A j \in C \cup P : j \in DOMAIN g /\ g[j] = h[j]
    PROVE  /\ \A j \in P : View(g, j) = View(h, j) /\ PartAt(g, j) = PartAt(h, j)
           /\ \A j \in C : View(g, j) = View(h, j) /\ Stack(g, j) = Stack(h, j)
<1>1. Unspent(g, P) /\ P \subseteq DOMAIN h
  BY DEF Unspent
<1> DEFINE S == {n \in Nat : \A j \in P : j < n =>
                    View(g, j) = View(h, j) /\ PartAt(g, j) = PartAt(h, j)}
<1>2. 0 \in S
  BY <1>1, HeapFacts, SMT
<1>3. ASSUME NEW n \in Nat, n \in S PROVE n + 1 \in S
  <2> SUFFICES ASSUME NEW j \in P, j < n + 1
               PROVE  View(g, j) = View(h, j) /\ PartAt(g, j) = PartAt(h, j)
    BY SMT
  <2>1. j \in DOMAIN h /\ j \in DOMAIN g /\ g[j] = h[j] /\ h[j].tag # "Halt"
    BY <1>1 DEF Unspent
  <2>2. \A r \in RefsOf(h[j]) : r < n
    <3> SUFFICES ASSUME NEW r \in RefsOf(h[j]) PROVE r < n
      OBVIOUS
    <3>1. r < j /\ r \in Nat /\ j \in Nat
      BY <2>1, HeapFacts
    <3> QED
      BY <3>1, SMT
  <2>3. \A r \in P : r < n => View(g, r) = View(h, r) /\ PartAt(g, r) = PartAt(h, r)
    BY <1>3
  <2>4. h[j] \in Frames(DOMAIN h)
    BY <2>1, HeapFacts
  <2>5. h[j].tag = "ArgsK" /\ h[j].callee.tag = "Continuation" =>
            h[j].callee.k \in RefsOf(h[j]) /\ h[j].callee.k \in P
    BY <2>4, FrameFacts DEF CalleesIn
  <2>6. h[j].tag = "ArgsK" /\ h[j].callee.tag = "Continuation" =>
            PartAt(g, h[j].callee.k) = PartAt(h, h[j].callee.k)
    BY <2>2, <2>3, <2>5
  <2>7. View(g, j) = View(h, j)
    BY <2>1, <2>6, ViewSame
  <2>8. h[j].tag # "HandlerK" => PartAt(g, h[j].k) = PartAt(h, h[j].k)
    <3>1. h[j].tag # "HandlerK" => h[j].k \in P
      BY DEF Unspent
    <3>2. h[j].k \in RefsOf(h[j])
      BY <2>1, HeapFacts
    <3> QED
      BY <2>2, <2>3, <3>1, <3>2
  <2>9. PartAt(h, j) = IF h[j].tag = "HandlerK" THEN <<View(h, j)>>
                       ELSE <<View(h, j)>> \o PartAt(h, h[j].k)
    BY PartStep
  <2>10. PartAt(g, j) = IF g[j].tag = "HandlerK" THEN <<View(g, j)>>
                        ELSE <<View(g, j)>> \o PartAt(g, g[j].k)
    BY <1>1, PartStep
  <2>11. CASE h[j].tag = "HandlerK"
    BY <2>1, <2>7, <2>9, <2>10, <2>11
  <2>12. CASE h[j].tag # "HandlerK"
    BY <2>1, <2>7, <2>8, <2>9, <2>10, <2>12
  <2> QED
    BY <2>7, <2>11, <2>12
<1>4. \A j \in P : View(g, j) = View(h, j) /\ PartAt(g, j) = PartAt(h, j)
  <2>1. Nat \subseteq S
    <3> HIDE DEF S
    <3> QED
      BY <1>2, <1>3, SetInduction
  <2>2. \A j \in P : j + 1 \in S /\ j < j + 1
    <3> HIDE DEF S
    <3> QED
      BY <1>1, <2>1, HeapFacts, SMT
  <2> QED
    BY <2>2
<1>5. \A j \in C : View(g, j) = View(h, j)
  <2> SUFFICES ASSUME NEW j \in C PROVE View(g, j) = View(h, j)
    OBVIOUS
  <2>1. j \in DOMAIN h /\ j \in DOMAIN g /\ g[j] = h[j]
    OBVIOUS
  <2>2. h[j].tag = "ArgsK" /\ h[j].callee.tag = "Continuation" =>
            PartAt(g, h[j].callee.k) = PartAt(h, h[j].callee.k)
    BY <1>4 DEF CalleesIn
  <2> QED
    BY <2>1, <2>2, ViewSame
<1> DEFINE T == {n \in Nat : \A j \in C : j < n => Stack(g, j) = Stack(h, j)}
<1>6. 0 \in T
  BY HeapFacts, SMT
<1>7. ASSUME NEW n \in Nat, n \in T PROVE n + 1 \in T
  <2> SUFFICES ASSUME NEW j \in C, j < n + 1 PROVE Stack(g, j) = Stack(h, j)
    BY SMT
  <2>1. j \in DOMAIN h /\ j \in DOMAIN g /\ g[j] = h[j] /\ View(g, j) = View(h, j)
    BY <1>5
  <2>2. h[j].tag # "Halt" => h[j].k \in C /\ h[j].k < n
    <3>1. h[j].tag # "Halt" => h[j].k < j /\ h[j].k \in Nat /\ j \in Nat
      BY <2>1, HeapFacts
    <3> QED
      BY <3>1, SMT
  <2>3. h[j].tag # "Halt" => Stack(g, h[j].k) = Stack(h, h[j].k)
    BY <1>7, <2>2
  <2>4. /\ Stack(h, j) = IF h[j].tag = "Halt" THEN <<>> ELSE <<View(h, j)>> \o Stack(h, h[j].k)
        /\ Stack(g, j) = IF g[j].tag = "Halt" THEN <<>> ELSE <<View(g, j)>> \o Stack(g, g[j].k)
    BY <2>1, StackStep
  <2>5. CASE h[j].tag = "Halt"
    BY <2>1, <2>4, <2>5
  <2>6. CASE h[j].tag # "Halt"
    BY <2>1, <2>3, <2>4, <2>6
  <2> QED
    BY <2>5, <2>6
<1>8. \A j \in C : Stack(g, j) = Stack(h, j)
  <2>1. Nat \subseteq T
    <3> HIDE DEF T
    <3> QED
      BY <1>6, <1>7, SetInduction
  <2>2. \A j \in C : j + 1 \in T /\ j < j + 1
    <3> HIDE DEF T
    <3> QED
      BY <2>1, HeapFacts, SMT
  <2> QED
    BY <2>2
<1> QED
  BY <1>4, <1>5, <1>8

\* Of a machine in order: its path, and what can be put back, together.
LEMMA Together ==
    ASSUME NEW h, NEW c, NEW R, InOrder(h, c, R)
    PROVE  \E C, P : /\ c \in C /\ Path(h, C) /\ Unspent(h, P) /\ P \cap C = {}
                     /\ \A r \in R \cup Callees(h) : r.k \in P
                     /\ \A A \in SUBSET DOMAIN h : CalleesIn(h, A, P)
<1>1. Heap(h)
  BY DEF InOrder
<1>2. PICK C : /\ c \in C /\ Path(h, C)
               /\ \A r \in R \cup Callees(h) :
                      \E B : r.k \in B /\ Unspent(h, B) /\ B \cap C = {}
  BY DEF InOrder, Apart
<1> DEFINE P == UNION {B \in SUBSET DOMAIN h : Unspent(h, B) /\ B \cap C = {}}
<1>3. Unspent(h, P) /\ P \cap C = {}
  BY DEF Unspent
<1>4. \A r \in R \cup Callees(h) : r.k \in P
  BY <1>2 DEF Unspent
<1>5. ASSUME NEW A \in SUBSET DOMAIN h PROVE CalleesIn(h, A, P)
  <2>1. \A j \in A : h[j].tag = "ArgsK" /\ h[j].callee.tag = "Continuation" =>
            h[j].callee \in Callees(h)
    BY <1>1, CalleeFacts
  <2> HIDE DEF P
  <2> QED
    BY <1>4, <2>1 DEF CalleesIn
<1> HIDE DEF P
<1> QED
  BY <1>2, <1>3, <1>4, <1>5

\* From c, and what the resumptions R put back, g reads as h does.
ReadsAs(g, h, c, R) ==
    Stack(g, c) = Stack(h, c) /\ \A r \in R : PartAt(g, r.k) = PartAt(h, r.k)

\* Slots that nobody reaches can be dropped.
LEMMA ReachedReads ==
    ASSUME NEW h, NEW c, NEW R, InOrder(h, c, R), NEW roots, roots \subseteq DOMAIN h,
           {c} \cup {r.k : r \in R} \subseteq roots \cup {Halt}
    PROVE  ReadsAs(Reached(h, roots), h, c, R)
<1> DEFINE g == Reached(h, roots)
<1>1. InOrder(g, c, R)
  BY ReachedInOrder
<1>2. Heap(h) /\ Heap(g)
  BY <1>1 DEF InOrder
<1>3. PICK U : g = [i \in U |-> h[i]] /\ roots \cup {Halt} \subseteq U /\ Closed(h, U)
  BY <1>2, ReachedIs
<1>4. DOMAIN g = U /\ U \subseteq DOMAIN h /\ \A i \in U : g[i] = h[i]
  BY <1>3 DEF Closed
<1> HIDE DEF g
<1>5. PICK C, P : /\ c \in C /\ Path(h, C) /\ Unspent(h, P) /\ P \cap C = {}
                  /\ \A r \in R \cup Callees(h) : r.k \in P
                  /\ \A A \in SUBSET DOMAIN h : CalleesIn(h, A, P)
  BY Together
<1> DEFINE D == C \cap U  Q == P \cap U
<1>6. \A j \in U : h[j].tag # "Halt" => h[j].k \in U
  BY <1>2, <1>3, <1>4, HeapFacts DEF Closed
<1>7. D \subseteq DOMAIN h /\ \A j \in D : h[j].tag # "Halt" => h[j].k \in D
  BY <1>4, <1>5, <1>6 DEF Path
<1>8. Unspent(h, Q)
  BY <1>5, <1>6 DEF Unspent
<1>9. CalleesIn(h, D, Q) /\ CalleesIn(h, Q, Q)
  <2>1. ASSUME NEW j \in U, h[j].tag = "ArgsK", h[j].callee.tag = "Continuation"
        PROVE  h[j].callee.k \in U
    BY <1>2, <1>3, <1>4, <2>1, HeapFacts, FrameFacts DEF Closed
  <2>2. CalleesIn(h, D, P) /\ CalleesIn(h, Q, P)
    BY <1>4, <1>5
  <2> QED
    BY <2>1, <2>2 DEF CalleesIn
<1>10. \A j \in D \cup Q : j \in DOMAIN g /\ g[j] = h[j]
  BY <1>4
<1>11. c \in D /\ \A r \in R : r.k \in Q
  BY <1>3, <1>5
<1> HIDE DEF D, Q
<1>12. /\ \A j \in Q : PartAt(g, j) = PartAt(h, j)
       /\ \A j \in D : Stack(g, j) = Stack(h, j)
  BY <1>2, <1>7, <1>8, <1>9, <1>10, SameReading
<1> QED
  BY <1>11, <1>12 DEF ReadsAs, g

\* The frame on top can be consumed.
LEMMA ConsumedReads ==
    ASSUME NEW h, NEW c, NEW R, InOrder(h, c, R), h[c].tag # "Halt",
           NEW Q, Q \subseteq R \cup Callees(h), \A r \in Q : r.k \in RefsOf(h[c])
    PROVE  ReadsAs(Consumed(h, c), h, h[c].k, R \cup Q)
<1> DEFINE d == Consumed(h, c)
<1>1. Heap(h) /\ c \in DOMAIN h /\ Heap(d)
  BY ConsumedInOrder DEF InOrder
<1>2. DOMAIN d = DOMAIN h /\ \A j \in DOMAIN h \ {c} : d[j] = h[j]
  BY DEF Consumed
<1> HIDE DEF d
<1>3. PICK C, P : /\ c \in C /\ Path(h, C) /\ Unspent(h, P) /\ P \cap C = {}
                  /\ \A r \in R \cup Callees(h) : r.k \in P
                  /\ \A A \in SUBSET DOMAIN h : CalleesIn(h, A, P)
  BY Together
<1> DEFINE D == {j \in C : j < c}
<1>4. \A j \in C : j \in DOMAIN h /\ j \in Nat
                   /\ (h[j].tag # "Halt" => h[j].k \in C /\ h[j].k < j /\ h[j].k \in Nat)
  BY <1>1, <1>3, HeapFacts DEF Path
<1>5. h[c].k \in D
  BY <1>3, <1>4
<1>6. \A j \in D : h[j].tag # "Halt" => h[j].k \in D
  <2> SUFFICES ASSUME NEW j \in C, j < c, h[j].tag # "Halt" PROVE h[j].k < c
    BY <1>4
  <2>1. h[j].k < j /\ h[j].k \in Nat /\ j \in Nat /\ c \in Nat
    BY <1>3, <1>4
  <2> QED
    BY <2>1, SMT
<1>7. c \notin D /\ D \subseteq DOMAIN h
  BY <1>3, <1>4, SMT
<1> HIDE DEF D
<1>8. \A j \in D \cup P : j \in DOMAIN d /\ d[j] = h[j]
  BY <1>2, <1>3, <1>7 DEF Unspent
<1>9. CalleesIn(h, D, P) /\ CalleesIn(h, P, P)
  BY <1>3, <1>7 DEF Unspent
<1>10. /\ \A j \in P : PartAt(d, j) = PartAt(h, j)
       /\ \A j \in D : Stack(d, j) = Stack(h, j)
  BY <1>1, <1>3, <1>6, <1>7, <1>8, <1>9, SameReading
<1>11. \A r \in R \cup Q : r.k \in P
  BY <1>3
<1> QED
  BY <1>5, <1>10, <1>11 DEF ReadsAs, d

\* Spending the top frame and collecting what no root reaches leaves the rest
\* to read as it did.
LEMMA SpentReads ==
    ASSUME NEW h, NEW c, NEW R, InOrder(h, c, R), h[c].tag # "Halt",
           NEW Q, Q \subseteq R \cup Callees(h), \A r \in Q : r.k \in RefsOf(h[c]),
           NEW g, g = Reached(Consumed(h, c), RefsOf(h[c]) \cup {r.k : r \in R})
    PROVE  ReadsAs(g, h, h[c].k, R \cup Q)
<1> DEFINE d == Consumed(h, c)  roots == RefsOf(h[c]) \cup {r.k : r \in R}
<1>1. InOrder(d, h[c].k, R \cup Q) /\ ReadsAs(d, h, h[c].k, R \cup Q)
  BY ConsumedInOrder, ConsumedReads
<1>2. Heap(h) /\ R \subseteq Resumptions(DOMAIN h) /\ c \in DOMAIN h /\ DOMAIN d = DOMAIN h
  BY DEF InOrder, Consumed
<1>3. g = Reached(d, roots)
  OBVIOUS
<1> HIDE DEF d
<1>4. roots \subseteq DOMAIN d
  BY <1>2, HeapFacts DEF Resumptions
<1>5. {h[c].k} \cup {r.k : r \in R \cup Q} \subseteq roots \cup {Halt}
  <2>1. h[c].k \in RefsOf(h[c])
    BY <1>2, HeapFacts
  <2> QED
    BY <2>1
<1> HIDE DEF roots
<1>6. ReadsAs(g, d, h[c].k, R \cup Q)
  BY <1>1, <1>3, <1>4, <1>5, ReachedReads
<1> QED
  BY <1>1, <1>6 DEF ReadsAs

\* Slots can be added.
LEMMA GrownReads ==
    ASSUME NEW h, NEW k, NEW R, InOrder(h, k, R), NEW g, Heap(g),
           DOMAIN h \subseteq DOMAIN g, \A j \in DOMAIN h : g[j] = h[j]
    PROVE  /\ ReadsAs(g, h, k, R \cup Callees(h))
           /\ \A j \in DOMAIN h : View(g, j) = View(h, j)
<1>1. Heap(h)
  BY DEF InOrder
<1>2. PICK C, P : /\ k \in C /\ Path(h, C) /\ Unspent(h, P) /\ P \cap C = {}
                  /\ \A r \in R \cup Callees(h) : r.k \in P
                  /\ \A A \in SUBSET DOMAIN h : CalleesIn(h, A, P)
  BY Together
<1> DEFINE D == DOMAIN h
<1>3. \A j \in D : h[j].tag # "Halt" => h[j].k \in D
  BY <1>1, HeapFacts
<1>4. CalleesIn(h, D, P) /\ CalleesIn(h, P, P)
  BY <1>2 DEF Unspent
<1>5. \A j \in D \cup P : j \in DOMAIN g /\ g[j] = h[j]
  BY <1>2 DEF Unspent
<1>6. D \subseteq DOMAIN h
  OBVIOUS
<1> HIDE DEF D
<1>7. /\ \A j \in P : PartAt(g, j) = PartAt(h, j)
      /\ \A j \in D : View(g, j) = View(h, j) /\ Stack(g, j) = Stack(h, j)
  BY <1>1, <1>2, <1>3, <1>4, <1>5, <1>6, SameReading
<1>8. k \in D
  BY <1>2 DEF Path, D
<1> QED
  BY <1>2, <1>7, <1>8 DEF ReadsAs, D

\* A frame on top of the machine's path.
LEMMA AllocatedReads ==
    ASSUME NEW h, NEW k, NEW R, InOrder(h, k, R), Room(h, 1),
           NEW frame \in Frames(DOMAIN h), frame.tag # "Halt", frame.k = k,
           frame.tag = "ArgsK" /\ frame.callee.tag = "Continuation" =>
                frame.callee \in R \cup Callees(h),
           NEW new, new = FreeSlots(h)[1], NEW g, g = Allocated(h, frame)
    PROVE  /\ Stack(g, new) = <<Seen(h, frame)>> \o Stack(h, k)
           /\ \A r \in R : PartAt(g, r.k) = PartAt(h, r.k)
<1>1. Heap(h) /\ InOrder(g, new, R)
  BY AllocatedInOrder DEF InOrder
<1>2. /\ DOMAIN g = DOMAIN h \cup {new} /\ g[new] = frame
      /\ \A j \in DOMAIN h : g[j] = h[j]
  <2>1. OneMore(h, g, new, frame)
    BY <1>1, AllocatedIs
  <2> QED
    BY <2>1 DEF OneMore
<1>3. Heap(g)
  BY <1>1 DEF InOrder
<1>4. ReadsAs(g, h, k, R \cup Callees(h))
  BY <1>2, <1>3, GrownReads
<1>5. Seen(g, frame) = Seen(h, frame)
  <2>1. frame \in Frames(DOMAIN g)
    BY <1>2, <1>3, HeapFacts
  <2>2. frame.tag = "ArgsK" /\ frame.callee.tag = "Continuation" =>
            PartAt(g, frame.callee.k) = PartAt(h, frame.callee.k)
    BY <1>4 DEF ReadsAs
  <2> QED
    BY <1>1, <1>3, <2>1, <2>2, SeenSame
<1>6. Stack(g, new) = <<View(g, new)>> \o Stack(g, k)
  BY <1>2, <1>3, StackStep
<1> QED
  BY <1>2, <1>4, <1>5, <1>6 DEF View, ReadsAs

\* A call of a resumption puts back its part of the stack, on its caller's.
LEMMA CopiedReads ==
    ASSUME NEW h, NEW k, NEW R, InOrder(h, k, R), NEW r \in R,
           Room(h, BlockSize(h, r.k)), NEW g, g = Copied(h, r.k, k).konts
    PROVE  /\ Stack(g, Copied(h, r.k, k).cont) = PartAt(h, r.k) \o Stack(h, k)
           /\ \A q \in R : PartAt(g, q.k) = PartAt(h, q.k)
<1> DEFINE s == Chain(h, r.k)  n == BlockSize(h, r.k)  c == Copied(h, r.k, k).cont
           part == PartAt(h, r.k)
<1>1. Heap(h) /\ Heap(g) /\ k \in DOMAIN h
  BY CopiedInOrder DEF InOrder
<1>2. PICK B : r.k \in B /\ Unspent(h, B)
  BY DEF InOrder, Apart
<1>3. /\ n \in 1..Len(s) - 1 /\ part \in Seq(Views(h)) /\ Len(part) = n
      /\ \A m \in 1..n : part[m] = View(h, s[m])
      /\ \A m \in 1..n : s[m] \in B
  BY <1>1, <1>2, PartFacts, BlockCopied
<1>4. n \in Nat /\ n >= 1
  <2>1. Len(s) \in Nat
    BY <1>1, <1>2, StackFacts DEF Unspent
  <2> HIDE DEF s, n
  <2> QED
    BY <1>3, <2>1, SMT
<1> HIDE DEF s, n, c, part
<1>5. PICK top \in Nat : CopyOf(h, g, s, n, k, top) /\ c = top + n
  <2>1. s = Chain(h, r.k) /\ n = BlockSize(h, r.k) /\ c = Copied(h, r.k, k).cont
    BY DEF s, n, c
  <2>2. Room(h, n)
    BY <2>1
  <2> QED
    BY <1>1, <1>4, <2>1, <2>2, CopiedIs
<1>6. ReadsAs(g, h, k, R \cup Callees(h))
  <2>1. DOMAIN h \subseteq DOMAIN g /\ \A j \in DOMAIN h : g[j] = h[j]
    BY <1>5 DEF CopyOf
  <2> QED
    BY <1>1, <2>1, GrownReads
<1>7. ASSUME NEW p \in 1..n
      PROVE  /\ top + p \in DOMAIN g /\ g[top + p].tag # "Halt"
             /\ g[top + p].k = IF p = 1 THEN k ELSE top + (p - 1)
             /\ View(g, top + p) = part[n + 1 - p] /\ part[n + 1 - p] \in Views(h)
  <2> DEFINE f == h[s[n + 1 - p]]  t == IF p = 1 THEN k ELSE top + (p - 1)
  <2>1. n + 1 - p \in 1..n
    BY <1>4, SMT
  <2>2. /\ s[n + 1 - p] \in DOMAIN h /\ f.tag # "Halt" /\ f \in Frames(DOMAIN h)
        /\ part[n + 1 - p] = Seen(h, f) /\ part[n + 1 - p] \in Views(h)
    <3>1. s[n + 1 - p] \in DOMAIN h /\ f.tag # "Halt"
      BY <1>2, <1>3, <2>1 DEF Unspent
    <3>2. part[n + 1 - p] = View(h, s[n + 1 - p])
      BY <1>3, <2>1
    <3> QED
      BY <1>1, <3>1, <3>2, HeapFacts, ViewFacts DEF View
  <2>3. top + p \in DOMAIN g /\ g[top + p] = Redirected(f, t)
    BY <1>5 DEF CopyOf
  <2>4. f.tag = "ArgsK" /\ f.callee.tag = "Continuation" =>
            PartAt(g, f.callee.k) = PartAt(h, f.callee.k)
    <3>1. f.tag = "ArgsK" /\ f.callee.tag = "Continuation" => f.callee \in Callees(h)
      BY <1>1, <2>2, CalleeFacts
    <3> QED
      BY <1>6, <3>1 DEF ReadsAs
  <2> DEFINE e == Redirected(f, t)
  <2> HIDE DEF f, t
  <2>5. e.tag = f.tag /\ e.k = t /\ (f.tag = "ArgsK" => e.callee = f.callee)
        /\ (f.tag = "HandlerK" => e.clauses = f.clauses)
    BY <2>2, FrameCopied
  <2>6. e \in Frames(DOMAIN g)
    BY <1>1, <2>3, HeapFacts
  <2> HIDE DEF e
  <2>7. Seen(g, e) = Seen(h, f)
    BY <1>1, <2>2, <2>4, <2>5, <2>6, SeenSame
  <2> QED
    BY <2>2, <2>3, <2>5, <2>7 DEF View, e, t
<1> DEFINE Good(p) == Stack(g, top + p) = SubSeq(part, n + 1 - p, n) \o Stack(h, k)
           S == {p \in Nat : 1 <= p /\ p <= n => Good(p)}
<1> HIDE DEF Good
<1>8. 0 \in S
  BY SMT
<1>9. Stack(g, k) = Stack(h, k) /\ Stack(h, k) \in Seq(Views(h))
  BY <1>1, <1>6, StackFacts DEF ReadsAs
<1>10. ASSUME NEW p \in Nat, p \in S PROVE p + 1 \in S
  <2> SUFFICES ASSUME p + 1 <= n PROVE Good(p + 1)
    BY SMT
  <2>1. p + 1 \in 1..n /\ n + 1 - (p + 1) = n - p /\ n - p \in 1..n
    BY <1>4, SMT
  <2> DEFINE t == IF p + 1 = 1 THEN k ELSE top + ((p + 1) - 1)  v == part[n - p]
  <2>2. Stack(g, top + (p + 1)) = <<v>> \o Stack(g, t) /\ v \in Views(h)
    <3>1. /\ top + (p + 1) \in DOMAIN g /\ g[top + (p + 1)].tag # "Halt"
          /\ g[top + (p + 1)].k = t /\ View(g, top + (p + 1)) = v /\ v \in Views(h)
      BY <1>7, <2>1
    <3> QED
      BY <1>1, <3>1, StackStep
  <2> HIDE DEF v
  <2>3. CASE p = 0
    <3>1. t = k
      BY <2>3
    <3>2. SubSeq(part, n - p, n) = <<v>>
      <4>1. n - p = n
        BY <1>4, <2>3, SMT
      <4>2. SubSeq(part, n, n) \in Seq(Views(h)) /\ Len(SubSeq(part, n, n)) = 1
            /\ SubSeq(part, n, n)[1] = part[n]
        BY <1>3, <1>4, SMT
      <4>3. v = part[n]
        BY <4>1 DEF v
      <4> DEFINE q == SubSeq(part, n, n)
      <4>4. q \in Seq(Views(h)) /\ Len(q) = 1 /\ q[1] = v /\ v \in Views(h)
        BY <2>2, <4>2, <4>3
      <4> HIDE DEF q
      <4>5. q = <<v>>
        BY <4>4, OneFrame
      <4> QED
        BY <4>1, <4>5 DEF q
    <3>3. Stack(g, top + (p + 1)) = SubSeq(part, n - p, n) \o Stack(h, k)
      <4> HIDE DEF t
      <4> QED
        BY <1>9, <2>2, <3>1, <3>2
    <3> QED
      BY <2>1, <3>3 DEF Good
  <2>4. CASE p # 0
    <3>1. t = top + p /\ 1 <= p /\ p <= n /\ n + 1 - p = (n - p) + 1
      BY <1>4, <2>4, SMT
    <3>2. Stack(g, t) = SubSeq(part, n + 1 - p, n) \o Stack(h, k)
      BY <1>10, <3>1 DEF Good
    <3>3. SubSeq(part, n - p, n) = <<v>> \o SubSeq(part, n + 1 - p, n)
      <4> DEFINE q == SubSeq(part, n + 1 - p, n)  l == SubSeq(part, n - p, n)
      <4>1. /\ q \in Seq(Views(h)) /\ Len(q) = p /\ \A m \in 1..p : q[m] = part[(n - p) + m]
            /\ l \in Seq(Views(h)) /\ Len(l) = p + 1
            /\ \A m \in 1..p + 1 : l[m] = part[(n - p) + m - 1]
        BY <1>3, <1>4, <2>1, <3>1, SMT
      <4> HIDE DEF q, l
      <4>2. /\ <<v>> \o q \in Seq(Views(h)) /\ Len(<<v>> \o q) = p + 1 /\ (<<v>> \o q)[1] = v
            /\ \A m \in 1..p : (<<v>> \o q)[m + 1] = q[m]
        BY <2>2, <4>1, SMT
      <4>3. ASSUME NEW m \in 1..p + 1 PROVE l[m] = (<<v>> \o q)[m]
        <5>1. CASE m = 1
          <6>1. (n - p) + m - 1 = n - p
            BY <1>4, <5>1, SMT
          <6> QED
            BY <4>1, <4>2, <5>1, <6>1 DEF v
        <5>2. CASE m # 1
          <6>1. m - 1 \in 1..p /\ (m - 1) + 1 = m /\ (n - p) + (m - 1) = (n - p) + m - 1
            BY <1>4, <5>2, SMT
          <6> QED
            BY <4>1, <4>2, <6>1
        <5> QED
          BY <5>1, <5>2
      <4>4. l = [m \in 1..p + 1 |-> l[m]] /\ <<v>> \o q = [m \in 1..p + 1 |-> (<<v>> \o q)[m]]
        BY <4>1, <4>2, SMT
      <4>5. l = <<v>> \o q
        BY <4>3, <4>4
      <4> QED
        BY <4>5 DEF l, q
    <3>4. \A q \in Seq(Views(h)), u \in Seq(Views(h)) : <<v>> \o (q \o u) = (<<v>> \o q) \o u
      BY <2>2, SMT
    <3>5. SubSeq(part, n + 1 - p, n) \in Seq(Views(h))
      BY <1>3, <1>4, <3>1, SMT
    <3>6. Stack(g, top + (p + 1)) = SubSeq(part, n - p, n) \o Stack(h, k)
      <4> HIDE DEF t
      <4> QED
        BY <1>9, <2>2, <3>2, <3>3, <3>4, <3>5
    <3> QED
      BY <2>1, <3>6 DEF Good
  <2> QED
    BY <2>3, <2>4
<1>11. n \in S
  <2>1. Nat \subseteq S
    <3> HIDE DEF S
    <3> QED
      BY <1>8, <1>10, SetInduction
  <2> QED
    BY <1>4, <2>1
<1>12. Stack(g, top + n) = part \o Stack(h, k)
  <2>1. n + 1 - n = 1 /\ n <= n
    BY <1>4, SMT
  <2>2. SubSeq(part, 1, n) = part
    BY <1>3, <1>4, SMT
  <2> QED
    BY <1>4, <1>11, <2>1, <2>2 DEF Good
<1> QED
  BY <1>5, <1>6, <1>12 DEF ReadsAs, c, part

-----------------------------------------------------------------------------
(* Unwinding. *)

\* The frames of a stack that hold a wanted slot, and the first of them.
Wanted(h, c, W) == {m \in 1..Len(Stack(h, c)) : Chain(h, c)[m] \in W}
Nearest(h, c, W) == IF Wanted(h, c, W) # {} THEN Min(Wanted(h, c, W)) ELSE 0

\* From the slot that unwinding finds on, the stack is that slot's.
LEMMA FoundReads ==
    ASSUME NEW h, Heap(h), NEW c \in DOMAIN h, NEW W, \A j \in W : h[j].tag # "Halt",
           NEW f, f = FirstFrame(h, c, W), NEW n, n = Nearest(h, c, W),
           NEW t, t = Stack(h, c)
    PROVE  /\ f = Halt <=> n = 0
           /\ f # Halt => /\ f \in DOMAIN h /\ h[f].tag # "Halt"
                          /\ n \in Nat /\ n >= 1
                          /\ SubSeq(t, (n - 1) + 1, Len(t)) = Stack(h, f)
                          /\ SubSeq(t, n + 1, Len(t)) = Stack(h, h[f].k)
<1> DEFINE s == Chain(h, c)  I == Wanted(h, c, W)
<1>1. /\ Len(s) \in Nat /\ Len(t) = Len(s) - 1
      /\ \A m \in 1..Len(s) : SubSeq(t, m, Len(t)) = Stack(h, s[m])
  BY StackFacts
<1>2. ChainWhole(h, c, s)
  BY ChainFacts
<1>3. /\ f = Halt => \A m \in 1..Len(s) : s[m] \notin W
      /\ f # Halt => \E l \in 1..Len(s) :
            f = s[l] /\ f \in W /\ l < Len(s) /\ \A m \in 1..l - 1 : s[m] \notin W
  BY FirstFrameFacts
<1>4. I = {m \in 1..Len(s) - 1 : s[m] \in W}
  BY <1>1 DEF Wanted
<1>5. n = IF I # {} THEN Min(I) ELSE 0
  BY DEF Nearest
<1> HIDE DEF s, I
<1>6. CASE f = Halt
  <2>1. I = {}
    <3>1. \A m \in 1..Len(s) - 1 : m \in 1..Len(s)
      BY <1>1, SMT
    <3> QED
      BY <1>3, <1>4, <1>6, <3>1
  <2> QED
    BY <1>5, <1>6, <2>1
<1>7. CASE f # Halt
  <2>1. PICK l \in 1..Len(s) :
            f = s[l] /\ f \in W /\ l < Len(s) /\ \A m \in 1..l - 1 : s[m] \notin W
    BY <1>3, <1>7
  <2>2. l \in 1..Len(s) - 1 /\ l \in Nat /\ l + 1 \in 1..Len(s) /\ l >= 1 /\ (l - 1) + 1 = l
    BY <1>1, <2>1, SMT
  <2>3. n = l
    <3>1. l \in I /\ I \subseteq Nat
      BY <1>1, <1>4, <2>1, <2>2, SMT
    <3>2. Min(I) \in I /\ \A m \in I : Min(I) <= m
      BY <3>1, MinFacts
    <3>3. n \in I /\ n <= l
      BY <1>5, <3>1, <3>2
    <3>4. n \in 1..Len(s) - 1 /\ s[n] \in W
      BY <1>4, <3>3
    <3>5. n \notin 1..l - 1
      BY <2>1, <3>4
    <3> QED
      BY <1>1, <2>2, <3>3, <3>4, <3>5, SMT
  <2>4. h[f].k = s[l + 1] /\ h[f].tag # "Halt" /\ f \in DOMAIN h
    <3>1. s \in Seq(DOMAIN h)
      BY <1>2 DEF ChainWhole
    <3>2. s[l] \in DOMAIN h
      BY <2>1, <3>1, SMT
    <3> QED
      BY <1>2, <2>1, <2>2, <3>2 DEF ChainWhole
  <2>5. SubSeq(t, l, Len(t)) = Stack(h, f) /\ SubSeq(t, l + 1, Len(t)) = Stack(h, h[f].k)
    BY <1>1, <2>1, <2>2, <2>4
  <2>6. n # 0
    BY <2>2, <2>3, SMT
  <2> QED
    BY <1>7, <2>2, <2>3, <2>4, <2>5, <2>6
<1> QED
  BY <1>6, <1>7

\* A frame is wanted for its tag if the one on the stack has it.
LEMMA WantedTagged ==
    ASSUME NEW h, Heap(h), NEW c \in DOMAIN h, NEW tag, NEW t, t = Stack(h, c)
    PROVE  Wanted(h, c, Tagged(h, tag)) = {m \in 1..Len(t) : t[m].tag = tag}
<1> DEFINE s == Chain(h, c)
<1>1. /\ Len(s) \in Nat /\ Len(t) = Len(s) - 1 /\ ChainWhole(h, c, s)
      /\ \A m \in 1..Len(s) - 1 : t[m] = View(h, s[m])
  BY StackFacts, ChainFacts
<1> HIDE DEF s
<1>2. \A m \in 1..Len(t) : m \in 1..Len(s) - 1 /\ s[m] \in DOMAIN h
  BY <1>1, SMT DEF ChainWhole
<1>3. \A m \in 1..Len(t) : t[m].tag = h[s[m]].tag
  BY <1>1, <1>2, ViewFacts
<1> QED
  BY <1>2, <1>3 DEF Wanted, Tagged, s

\* ... and for its clauses likewise.
LEMMA WantedAnswers ==
    ASSUME NEW h, Heap(h), NEW c \in DOMAIN h, NEW e, NEW t, t = Stack(h, c)
    PROVE  Wanted(h, c, {j \in DOMAIN h : Answers(h[j], e)})
           = {m \in 1..Len(t) : t[m].tag = "HandlerK" /\ e \in t[m].clauses}
<1> DEFINE s == Chain(h, c)  W == {j \in DOMAIN h : Answers(h[j], e)}
<1>1. /\ Len(s) \in Nat /\ Len(t) = Len(s) - 1 /\ ChainWhole(h, c, s)
      /\ \A m \in 1..Len(s) - 1 : t[m] = View(h, s[m])
  BY StackFacts, ChainFacts
<1> HIDE DEF s
<1>2. \A m \in 1..Len(t) : m \in 1..Len(s) - 1 /\ s[m] \in DOMAIN h
  BY <1>1, SMT DEF ChainWhole
<1>3. \A m \in 1..Len(t) : t[m] = Seen(h, h[s[m]]) /\ h[s[m]] \in Frames(DOMAIN h)
  BY <1>1, <1>2, HeapFacts DEF View
<1>4. \A m \in 1..Len(t) :
        /\ t[m].tag = h[s[m]].tag
        /\ h[s[m]].tag = "HandlerK" => t[m].clauses = h[s[m]].clauses
  BY <1>3, SeenFacts
<1>5. \A m \in 1..Len(t) : Answers(h[s[m]], e) <=> t[m].tag = "HandlerK" /\ e \in t[m].clauses
  BY <1>4 DEF Answers
<1>6. \A m \in 1..Len(t) : s[m] \in W <=> t[m].tag = "HandlerK" /\ e \in t[m].clauses
  BY <1>2, <1>5
<1> HIDE DEF W
<1>7. Wanted(h, c, W) = {m \in 1..Len(t) : t[m].tag = "HandlerK" /\ e \in t[m].clauses}
  BY <1>6 DEF Wanted, s
<1> QED
  BY <1>7 DEF W

-----------------------------------------------------------------------------
(* Steps of the machine are steps on the stack. *)

\* What the resumptions R put back.
Parts(h, R) == {PartAt(h, r.k) : r \in R}

\* The held parts of DelimitedStack are the parts of the held resumptions,
\* before and after.
LEMMA HeldParts ==
    /\ {Part(konts, r) : r \in held} = Parts(konts, held)
    /\ {Part(konts, r) : r \in held}' = Parts(konts', held')
BY DEF Part, Parts, PartAt

\* Arenas that read alike have the same parts.
LEMMA SameParts ==
    ASSUME NEW g, NEW h, NEW c, NEW R, ReadsAs(g, h, c, R), NEW Q, Q \subseteq R
    PROVE  Parts(g, Q) = Parts(h, Q)
BY DEF ReadsAs, Parts

\* A frame on top of a stack.
LEMMA OnTop ==
    ASSUME NEW V, NEW s \in Seq(V), NEW v \in V
    PROVE  /\ <<v>> \o s # <<>> /\ Head(<<v>> \o s) = v /\ Tail(<<v>> \o s) = s
           /\ <<v>> \o s \in Seq(V)
<1>1. <<v>> \o s \in Seq(V) /\ Head(<<v>> \o s) = v /\ Len(<<v>> \o s) = Len(s) + 1
      /\ Len(s) \in Nat
  BY SMT
<1>2. <<v>> \o s # <<>>
  BY <1>1, SMT
<1>3. Tail(<<v>> \o s) = s
  BY SMT
<1> QED
  BY <1>1, <1>2, <1>3

\* The machine goes on where the arena h reads as a stack.
LEMMA ContinueReads ==
    ASSUME NEW h, NEW c, NEW doing, InOrder(h, c, held'), Continue(h, c, doing)
    PROVE  /\ Stack(konts, cont)' = Stack(h, c) /\ control' = doing
           /\ {Part(konts, r) : r \in held}' = Parts(h, held')
<1> DEFINE roots == {c} \cup {r.k : r \in held'}
<1>1. roots \subseteq DOMAIN h
  BY DEF InOrder, Resumptions
<1>2. konts' = Reached(h, roots) /\ cont' = c /\ control' = doing
  BY DEF Continue
<1>3. {c} \cup {r.k : r \in held'} \subseteq roots \cup {Halt}
  OBVIOUS
<1> HIDE DEF roots
<1>4. ReadsAs(konts', h, c, held')
  BY <1>1, <1>2, <1>3, ReachedReads
<1>5. Parts(konts', held') = Parts(h, held')
  BY <1>4, SameParts
<1> QED
  BY <1>2, <1>4, <1>5, HeldParts DEF ReadsAs

\* The arena h puts back what the machine's does.
Alike(h) == InOrder(konts, cont, held) /\ Parts(h, held) = Parts(konts, held)

\* Continuing at a slot of an arena that reads alike is going on with the
\* slot's stack.
LEMMA GoesOn ==
    ASSUME NEW h, Alike(h), held' = held, NEW c, NEW doing, InOrder(h, c, held),
           Continue(h, c, doing)
    PROVE  Promised!GoOn(Stack(h, c), doing)
<1>1. /\ Stack(konts, cont)' = Stack(h, c) /\ control' = doing
      /\ {Part(konts, r) : r \in held}' = Parts(h, held)
  BY ContinueReads
<1> QED
  BY <1>1, HeldParts DEF Alike, Promised!GoOn

\* A fault leaves the stack as it is.
LEMMA Faults == ASSUME Fault, held' = held PROVE Promised!GoOn(Stack(konts, cont), "Faulted")
BY DEF Fault, Promised!GoOn

\* Pushing a frame is going on with what it shows on top of the stack.
LEMMA Pushes ==
    ASSUME NEW h, Alike(h), held' = held, NEW k, InOrder(h, k, held), NEW doing,
           NEW frame \in Frames(DOMAIN h), frame.tag # "Halt", frame.k = k,
           frame.tag = "ArgsK" /\ frame.callee.tag = "Continuation" => frame.callee \in held,
           Push(h, frame, doing)
    PROVE  Promised!GoOn(<<Seen(h, frame)>> \o Stack(h, k), doing)
<1> DEFINE g == Allocated(h, frame)  new == FreeSlots(h)[1]
<1>1. Room(h, 1) /\ Continue(g, new, doing)
  BY DEF Push
<1>2. InOrder(g, new, held)
  BY <1>1, AllocatedInOrder
<1>3. /\ Stack(g, new) = <<Seen(h, frame)>> \o Stack(h, k)
      /\ \A r \in held : PartAt(g, r.k) = PartAt(h, r.k)
  BY <1>1, AllocatedReads
<1> HIDE DEF g, new
<1>4. Alike(g)
  BY <1>3 DEF Alike, Parts
<1>5. Promised!GoOn(Stack(g, new), doing)
  BY <1>1, <1>2, <1>4, GoesOn
<1> QED
  BY <1>3, <1>5

\* Pushing a frame of a tag alone is going on with that tag on top.
LEMMA PushesPlain ==
    ASSUME NEW h, Alike(h), held' = held, NEW k, InOrder(h, k, held), NEW doing,
           NEW tag \in {"PendingK", "LoopK", "ReturnK", "ReturnExprK"},
           Push(h, Frame(tag, k), doing)
    PROVE  Promised!GoOn(<<Promised!Frame(tag)>> \o Stack(h, k), doing)
<1> DEFINE frame == Frame(tag, k)
<1>1. Heap(h) /\ k \in DOMAIN h
  BY DEF InOrder
<1>2. frame \in Frames(DOMAIN h) /\ frame.tag = tag /\ frame.k = k /\ tag # "Halt"
      /\ tag \notin {"HandlerK", "ArgsK"}
  BY <1>1, PlainFrame
<1> HIDE DEF frame
<1>3. Seen(h, frame) = Promised!Frame(tag)
  BY <1>1, <1>2, SeenFacts DEF Promised!Frame
<1>4. Push(h, frame, doing)
  BY DEF frame
<1>5. Promised!GoOn(<<Seen(h, frame)>> \o Stack(h, k), doing)
  BY <1>2, <1>4, Pushes
<1> QED
  BY <1>3, <1>5

\* do_perform
LEMMA Performs ==
    ASSUME NEW h, Alike(h), NEW k, InOrder(h, k, held), NEW e \in Effects,
           DoPerform(h, e, k)
    PROVE  Promised!Perform(e, Stack(h, k))
<1> DEFINE W == {j \in DOMAIN h : Answers(h[j], e)}  f == FirstFrame(h, k, W)
           t == Stack(h, k)  n == Nearest(h, k, W)
<1>1. Heap(h) /\ k \in DOMAIN h
  BY DEF InOrder
<1>2. Promised!First(t, LAMBDA g : g.tag = "HandlerK" /\ e \in g.clauses) = n
  <2>1. Wanted(h, k, W) = {m \in 1..Len(t) : t[m].tag = "HandlerK" /\ e \in t[m].clauses}
    BY <1>1, WantedAnswers
  <2> HIDE DEF t, W
  <2> QED
    BY <2>1 DEF Promised!First, Promised!SelectInSeq, Promised!Min, Min, Nearest
<1>3. /\ f = Halt <=> n = 0
      /\ f # Halt => SubSeq(t, n + 1, Len(t)) = Stack(h, h[f].k)
  <2>1. \A j \in W : h[j].tag # "Halt"
    BY DEF Answers
  <2> HIDE DEF W
  <2> QED
    BY <1>1, <2>1, FoundReads
<1>4. CASE f = Halt
  <2>1. held' = held /\ Continue(h, k, "Suspend")
    BY <1>4 DEF DoPerform
  <2>2. Promised!GoOn(t, "Suspend")
    BY <2>1, GoesOn
  <2>3. n = 0
    BY <1>3, <1>4
  <2> HIDE DEF t, n
  <2> QED
    BY <1>2, <2>2, <2>3 DEF Promised!Perform, t
<1>5. CASE f # Halt
  <2>1. held' \subseteq held \cup {Resumption(k, e)} /\ Continue(h, h[f].k, "Eval")
    BY <1>5 DEF DoPerform
  <2>2. InOrder(h, h[f].k, held \cup {Resumption(k, e)})
    BY <1>5, Captured
  <2> HIDE DEF f, W
  <2>3. InOrder(h, h[f].k, held')
    BY <2>1, <2>2, Dropped
  <2>4. /\ Stack(konts, cont)' = Stack(h, h[f].k) /\ control' = "Eval"
        /\ {Part(konts, r) : r \in held}' = Parts(h, held')
    BY <2>1, <2>3, ContinueReads
  <2>5. PartAt(h, k) = Promised!Delimited(t)
    <3> HIDE DEF t
    <3>1. Promised!Delimited(t) = ToNearest(t)
      BY DEF Promised!Delimited, Promised!First, Promised!SelectInSeq, Promised!Min,
             ToNearest, SelectInSeq, Min
    <3> QED
      BY <3>1 DEF PartAt, t
  <2>6. {Part(konts, r) : r \in held}'
           \in SUBSET ({Part(konts, r) : r \in held} \cup {Promised!Delimited(t)})
    <3>1. Parts(h, held') \subseteq Parts(h, held) \cup {PartAt(h, k)}
      BY <2>1 DEF Parts, Resumption
    <3> HIDE DEF t
    <3> QED
      BY <2>4, <2>5, <3>1, HeldParts DEF Alike
  <2>7. Stack(konts, cont)' = Promised!Below(t, n) /\ n # 0
    BY <1>3, <1>5, <2>4 DEF Promised!Below, f
  <2> HIDE DEF t, n
  <2> QED
    BY <1>2, <2>4, <2>6, <2>7 DEF Promised!Perform, t
<1> QED
  BY <1>4, <1>5

\* A new frame is one that a program pushes.
LEMMA NewFrames ==
    ASSUME control = "Eval", NEW v \in Promised!Pushable, NEW V, v \in V,
           Stack(konts, cont) \in Seq(V),
           Promised!GoOn(<<v>> \o Stack(konts, cont), "Eval")
    PROVE  Promised!Evaluate
<1> DEFINE s == Stack(konts, cont)  t == Stack(konts, cont)'
<1>1. t = <<v>> \o s /\ control' = "Eval"
      /\ {Part(konts, r) : r \in held}' = {Part(konts, r) : r \in held}
  BY DEF Promised!GoOn
<1>2. s \in Seq(V)
  OBVIOUS
<1> HIDE DEF s
<1>3. t # <<>> /\ Head(t) = v /\ Tail(t) = s
  <2>1. <<v>> \o s # <<>> /\ Head(<<v>> \o s) = v /\ Tail(<<v>> \o s) = s
    BY <1>2, OnTop
  <2> HIDE DEF t
  <2> QED
    BY <1>1, <2>1
<1>4. Promised!NewFrame
  BY <1>1, <1>3 DEF Promised!NewFrame, s
<1> QED
  BY <1>4 DEF Promised!Evaluate

\* Evaluating an expression is a step on the stack.
LEMMA EvaluationImplemented ==
    ASSUME MachineInOrder,
           Literal \/ Block \/ Call \/ Handle \/ PerformNow \/ Loop \/ Return
    PROVE  Promised!Evaluate
<1> DEFINE s == Stack(konts, cont)  V == Views(konts)
<1>1. InOrder(konts, cont, held) /\ Heap(konts) /\ cont \in DOMAIN konts /\ Alike(konts)
      /\ held \subseteq Resumptions(DOMAIN konts)
  BY DEF MachineInOrder, InOrder, Alike
<1>2. control = "Eval"
  BY DEF Literal, Block, Call, Handle, PerformNow, Loop, Return, Evaluating
<1>3. s \in Seq(V)
  BY <1>1, StackFacts
<1>4. ASSUME NEW v \in Promised!Pushable, Promised!GoOn(<<v>> \o s, "Eval")
      PROVE  Promised!Evaluate
  <2> DEFINE U == V \cup {v}
  <2>1. s \in Seq(U) /\ v \in U
    <3> HIDE DEF s, V
    <3> QED
      BY <1>3, SMT
  <2> QED
    BY <1>2, <1>4, <2>1, NewFrames
<1>5. ASSUME NEW tag \in {"PendingK", "LoopK", "ReturnExprK"},
             Push(konts, Frame(tag, cont), "Eval"), held' = held
      PROVE  Promised!Evaluate
  <2>1. Promised!GoOn(<<Promised!Frame(tag)>> \o s, "Eval")
    BY <1>1, <1>5, PushesPlain
  <2>2. Promised!Frame(tag) \in Promised!Pushable
    BY DEF Promised!Pushable
  <2> QED
    BY <1>4, <2>1, <2>2
<1>6. CASE Literal
  <2>1. CASE Continue(konts, cont, "Value")
    BY <1>1, <1>2, <1>6, <2>1, GoesOn DEF Literal, Evaluating, Promised!Evaluate
  <2>2. CASE Fault
    BY <1>2, <1>6, <2>2, Faults DEF Literal, Evaluating, Promised!Evaluate
  <2> QED
    BY <1>6, <2>1, <2>2 DEF Literal
<1>7. CASE Block
  BY <1>5, <1>7 DEF Block, Evaluating
<1>8. CASE Call
  <2>1. PICK callee \in held \cup {Plain} : Push(konts, ArgsK(callee, cont), "Eval")
    BY <1>8 DEF Call
  <2>2. held' = held
    BY <1>8 DEF Call, Evaluating
  <2> DEFINE frame == ArgsK(callee, cont)
  <2>3. /\ frame \in Frames(DOMAIN konts) /\ frame.tag = "ArgsK" /\ frame.k = cont
        /\ frame.callee = callee
    BY <1>1 DEF ArgsK, Frames
  <2>4. callee.tag = "Continuation" => callee \in held
    BY DEF Plain
  <2> HIDE DEF frame
  <2>5. Promised!GoOn(<<Seen(konts, frame)>> \o s, "Eval")
    <3>1. Push(konts, frame, "Eval") /\ frame.tag # "Halt"
      BY <2>1, <2>3 DEF frame
    <3> QED
      BY <1>1, <2>2, <2>3, <2>4, <3>1, Pushes
  <2>6. Seen(konts, frame) \in Promised!Pushable
    <3>1. Seen(konts, frame) =
            [tag |-> "ArgsK",
             callee |-> IF callee.tag = "Plain" THEN callee
                        ELSE [tag |-> "Continuation", part |-> PartAt(konts, callee.k)]]
      BY <1>1, <2>3, SeenFacts
    <3>2. CASE callee = Plain
      BY <3>1, <3>2 DEF Plain, Promised!Plain, Promised!CallOf, Promised!Pushable
    <3>3. CASE callee \in held
      <4>1. callee.tag # "Plain"
        BY <1>1, <3>3 DEF Resumptions
      <4>2. PartAt(konts, callee.k) \in {Part(konts, r) : r \in held}
        BY <3>3, HeldParts DEF Parts
      <4>3. Seen(konts, frame) = Promised!CallOf(Promised!Resumed(PartAt(konts, callee.k)))
        BY <3>1, <4>1 DEF Promised!CallOf, Promised!Resumed
      <4> QED
        BY <4>2, <4>3 DEF Promised!Pushable
    <3> QED
      BY <3>2, <3>3
  <2> QED
    BY <1>4, <2>5, <2>6
<1>9. CASE Handle
  <2>1. PICK clauses \in ClauseSets : Push(konts, HandlerK(clauses, cont), "Eval")
    BY <1>9 DEF Handle
  <2>2. held' = held
    BY <1>9 DEF Handle, Evaluating
  <2> DEFINE frame == HandlerK(clauses, cont)
  <2>3. /\ frame \in Frames(DOMAIN konts) /\ frame.tag = "HandlerK" /\ frame.k = cont
        /\ frame.clauses = clauses
    BY <1>1 DEF HandlerK, Frames
  <2> HIDE DEF frame
  <2>4. Promised!GoOn(<<Seen(konts, frame)>> \o s, "Eval")
    <3>1. Push(konts, frame, "Eval") /\ frame.tag # "Halt" /\ frame.tag # "ArgsK"
      BY <2>1, <2>3 DEF frame
    <3> QED
      BY <1>1, <2>2, <2>3, <3>1, Pushes
  <2>5. Seen(konts, frame) = Promised!Handler(clauses)
    BY <1>1, <2>3, SeenFacts DEF Promised!Handler
  <2>6. Promised!Handler(clauses) \in Promised!Pushable
    BY DEF Promised!Pushable
  <2> QED
    BY <1>4, <2>4, <2>5, <2>6
<1>10. CASE PerformNow
  <2>1. PICK e \in Effects : DoPerform(konts, e, cont)
    BY <1>10 DEF PerformNow
  <2>2. Promised!Perform(e, s)
    BY <1>1, <2>1, Performs
  <2> QED
    BY <1>2, <2>2 DEF Promised!Evaluate
<1>11. CASE Loop
  BY <1>5, <1>11 DEF Loop, Evaluating
<1>12. CASE Return
  <2>1. CASE Push(konts, Frame("ReturnExprK", cont), "Eval")
    BY <1>5, <1>12, <2>1 DEF Return, Evaluating
  <2>2. CASE Continue(konts, cont, "Returning")
    <3>1. Promised!GoOn(s, "Returning")
      BY <1>1, <1>12, <2>2, GoesOn DEF Return, Evaluating
    <3> QED
      BY <1>2, <3>1 DEF Promised!Evaluate
  <2> QED
    BY <1>12, <2>1, <2>2 DEF Return
<1> QED
  BY <1>6, <1>7, <1>8, <1>9, <1>10, <1>11, <1>12

\* What break, continue and return unwind to.
LEMMA UnwindsTo ==
    ASSUME MachineInOrder, NEW tag, tag # "Halt",
           NEW f, f = FirstFrame(konts, cont, Tagged(konts, tag)),
           NEW n, n = Nearest(konts, cont, Tagged(konts, tag))
    PROVE  /\ f = Halt <=> n = 0
           /\ f # Halt => /\ InOrder(konts, konts[f].k, held)
                          /\ f \in DOMAIN konts /\ konts[f].tag = tag
                          /\ Promised!Below(Stack(konts, cont), n - 1) = Stack(konts, f)
                          /\ Promised!Below(Stack(konts, cont), n) = Stack(konts, konts[f].k)
<1> DEFINE t == Stack(konts, cont)  W == Tagged(konts, tag)
<1>1. InOrder(konts, cont, held) /\ Heap(konts) /\ cont \in DOMAIN konts
  BY DEF MachineInOrder, InOrder
<1>2. \A j \in W : konts[j].tag # "Halt" /\ konts[j].tag = tag
  BY DEF Tagged
<1> HIDE DEF W
<1>3. /\ f = Halt <=> n = 0
      /\ f # Halt => /\ f \in DOMAIN konts
                     /\ SubSeq(t, (n - 1) + 1, Len(t)) = Stack(konts, f)
                     /\ SubSeq(t, n + 1, Len(t)) = Stack(konts, konts[f].k)
  <2>1. f = FirstFrame(konts, cont, W) /\ t = Stack(konts, cont) /\ n = Nearest(konts, cont, W)
    BY DEF W
  <2>2. \A j \in W : konts[j].tag # "Halt"
    BY <1>2
  <2> HIDE DEF t
  <2>3. f = Halt <=> n = 0
    BY <1>1, <2>1, <2>2, FoundReads
  <2>4. f # Halt => f \in DOMAIN konts
    BY <1>1, <2>1, <2>2, FoundReads
  <2>5. f # Halt => SubSeq(t, n + 1, Len(t)) = Stack(konts, konts[f].k)
    BY <1>1, <2>1, <2>2, FoundReads
  <2>6. f # Halt => SubSeq(t, (n - 1) + 1, Len(t)) = Stack(konts, f)
    BY <1>1, <2>1, <2>2, FoundReads
  <2> QED
    BY <2>3, <2>4, <2>5, <2>6
<1>4. f # Halt => InOrder(konts, konts[f].k, held) /\ konts[f].tag = tag
  BY <1>1, <1>2, FurtherDown DEF W
<1> QED
  BY <1>3, <1>4 DEF Promised!Below

\* The loop and the function that unwinding stops at are those nearest in the
\* stack.
LEMMA UnwindsAt ==
    ASSUME MachineInOrder
    PROVE  /\ Promised!LoopAt = Nearest(konts, cont, Tagged(konts, "LoopK"))
           /\ Promised!ReturnAt = Nearest(konts, cont, Tagged(konts, "ReturnK"))
<1>1. Heap(konts) /\ cont \in DOMAIN konts
  BY DEF MachineInOrder, InOrder
<1>2. \A tag : Wanted(konts, cont, Tagged(konts, tag))
               = {m \in 1..Len(Stack(konts, cont)) : Stack(konts, cont)[m].tag = tag}
  BY <1>1, WantedTagged
<1>3. Promised!LoopAt = Nearest(konts, cont, Tagged(konts, "LoopK"))
  <2> DEFINE I == {m \in 1..Len(Stack(konts, cont)) : Stack(konts, cont)[m].tag = "LoopK"}
  <2>1. Wanted(konts, cont, Tagged(konts, "LoopK")) = I
    BY <1>2
  <2>2. I = {m \in 1..Len(Stack(konts, cont)) : Stack(konts, cont)[m].tag = "LoopK"}
    OBVIOUS
  <2> HIDE DEF I
  <2>3. Promised!LoopAt = IF I # {} THEN Min(I) ELSE 0
    BY <2>2 DEF Promised!LoopAt, Promised!First, Promised!SelectInSeq, Promised!Min, Min
  <2> QED
    BY <2>1, <2>3 DEF Nearest
<1>4. Promised!ReturnAt = Nearest(konts, cont, Tagged(konts, "ReturnK"))
  <2> DEFINE I == {m \in 1..Len(Stack(konts, cont)) : Stack(konts, cont)[m].tag = "ReturnK"}
  <2>1. Wanted(konts, cont, Tagged(konts, "ReturnK")) = I
    BY <1>2
  <2>2. I = {m \in 1..Len(Stack(konts, cont)) : Stack(konts, cont)[m].tag = "ReturnK"}
    OBVIOUS
  <2> HIDE DEF I
  <2>3. Promised!ReturnAt = IF I # {} THEN Min(I) ELSE 0
    BY <2>2 DEF Promised!ReturnAt, Promised!First, Promised!SelectInSeq, Promised!Min, Min
  <2> QED
    BY <2>1, <2>3 DEF Nearest
<1> QED
  BY <1>3, <1>4

\* break, continue and return.
LEMMA UnwindImplemented ==
    ASSUME MachineInOrder, Break \/ ContinueLoop \/ HandleReturn
    PROVE  Promised!StackNext
<1> DEFINE s == Stack(konts, cont)
<1>1. InOrder(konts, cont, held) /\ Heap(konts) /\ cont \in DOMAIN konts /\ Alike(konts)
  BY DEF MachineInOrder, InOrder, Alike
<1>2. /\ LoopFrame = Halt <=> Promised!LoopAt = 0
      /\ LoopFrame # Halt =>
           /\ InOrder(konts, konts[LoopFrame].k, held)
           /\ LoopFrame \in DOMAIN konts /\ konts[LoopFrame].tag = "LoopK"
           /\ Promised!Below(s, Promised!LoopAt - 1) = Stack(konts, LoopFrame)
           /\ Promised!Below(s, Promised!LoopAt) = Stack(konts, konts[LoopFrame].k)
  BY UnwindsTo, UnwindsAt DEF LoopFrame
<1>3. /\ ReturnPoint = Halt <=> Promised!ReturnAt = 0
      /\ ReturnPoint # Halt =>
           /\ InOrder(konts, konts[ReturnPoint].k, held)
           /\ Promised!Below(s, Promised!ReturnAt) = Stack(konts, konts[ReturnPoint].k)
  BY UnwindsTo, UnwindsAt DEF ReturnPoint
<1> HIDE DEF s
<1>4. CASE (Break \/ ContinueLoop) /\ LoopFrame = Halt
  <2>1. control = "Eval" /\ held' = held /\ Fault
    BY <1>4 DEF Break, ContinueLoop, Evaluating
  <2>2. Promised!GoOn(s, "Faulted")
    BY <2>1, Faults DEF s
  <2> QED
    BY <2>1, <2>2 DEF Promised!Evaluate, Promised!StackNext, s
<1>5. CASE Break /\ LoopFrame # Halt
  <2>1. control = "Eval" /\ held' = held /\ Continue(konts, konts[LoopFrame].k, "Value")
    BY <1>5 DEF Break, Evaluating
  <2>2. Promised!GoOn(Stack(konts, konts[LoopFrame].k), "Value")
    BY <1>1, <1>2, <1>5, <2>1, GoesOn
  <2>3. Promised!GoOn(Promised!Below(s, Promised!LoopAt), "Value") /\ Promised!LoopAt # 0
    BY <1>2, <1>5, <2>2
  <2>4. Promised!LeaveLoop
    BY <2>1, <2>3 DEF Promised!LeaveLoop, s
  <2> QED
    BY <2>4 DEF Promised!StackNext
<1>6. CASE ContinueLoop /\ LoopFrame # Halt
  <2> DEFINE k == konts[LoopFrame].k
  <2>1. control = "Eval" /\ held' = held
    BY <1>6 DEF ContinueLoop, Evaluating
  <2>2. PICK doing \in {"Eval", "Value"} : Push(konts, Frame("LoopK", k), doing)
    BY <1>6 DEF ContinueLoop
  <2>3. Promised!GoOn(<<Promised!Frame("LoopK")>> \o Stack(konts, k), doing)
    BY <1>1, <1>2, <1>6, <2>1, <2>2, PushesPlain
  <2>4. Stack(konts, LoopFrame) = <<Promised!Frame("LoopK")>> \o Stack(konts, k)
    <3>1. LoopFrame \in DOMAIN konts /\ konts[LoopFrame].tag = "LoopK"
      BY <1>2, <1>6
    <3>2. View(konts, LoopFrame) = Promised!Frame("LoopK")
      BY <1>1, <3>1, HeapFacts, SeenFacts DEF View, Promised!Frame
    <3> QED
      BY <1>1, <3>1, <3>2, StackStep
  <2> HIDE DEF k
  <2>5. Promised!GoOn(Promised!Below(s, Promised!LoopAt - 1), doing) /\ Promised!LoopAt # 0
    BY <1>2, <1>6, <2>3, <2>4
  <2>6. Promised!NextRound
    BY <2>1, <2>5 DEF Promised!NextRound, s
  <2> QED
    BY <2>6 DEF Promised!StackNext
<1>7. CASE HandleReturn
  <2>1. control = "Returning" /\ held' = held
    BY <1>7 DEF HandleReturn
  <2>2. CASE ReturnPoint = Halt
    <3>1. Promised!GoOn(s, "Halted")
      BY <1>1, <1>7, <2>1, <2>2, GoesOn DEF HandleReturn, s
    <3> QED
      BY <1>3, <2>1, <2>2, <3>1 DEF Promised!Finish, Promised!StackNext, s
  <2>3. CASE ReturnPoint # Halt
    <3>1. Promised!GoOn(Stack(konts, konts[ReturnPoint].k), "Value")
      BY <1>1, <1>3, <1>7, <2>1, <2>3, GoesOn DEF HandleReturn
    <3>2. Promised!GoOn(Promised!Below(s, Promised!ReturnAt), "Value") /\ Promised!ReturnAt # 0
      BY <1>3, <2>3, <3>1
    <3> QED
      BY <2>1, <3>2 DEF Promised!Finish, Promised!StackNext, s
  <2> QED
    BY <2>2, <2>3
<1> QED
  BY <1>4, <1>5, <1>6, <1>7

\* The frame on top gets the value.
LEMMA TopSupplied ==
    ASSUME MachineInOrder, control = "Value", konts[cont].tag # "Halt"
    PROVE  /\ Stack(konts, cont) = <<View(konts, cont)>> \o Stack(konts, konts[cont].k)
           /\ Head(Stack(konts, cont)) = View(konts, cont)
           /\ Tail(Stack(konts, cont)) = Stack(konts, konts[cont].k)
           /\ Promised!Supply(konts[cont].tag)
           /\ konts[cont].tag \notin {"HandlerK", "ArgsK"} =>
                View(konts, cont) = Promised!Frame(konts[cont].tag)
<1> DEFINE s == Stack(konts, cont)  v == View(konts, cont)  u == Stack(konts, konts[cont].k)
<1>1. Heap(konts) /\ cont \in DOMAIN konts /\ konts[cont].k \in DOMAIN konts
      /\ konts[cont] \in Frames(DOMAIN konts)
  BY HeapFacts DEF MachineInOrder, InOrder
<1>2. s = <<v>> \o u
  BY <1>1, StackStep
<1>3. v \in Views(konts) /\ v.tag = konts[cont].tag /\ u \in Seq(Views(konts))
  BY <1>1, ViewFacts, StackFacts
<1>4. konts[cont].tag \notin {"HandlerK", "ArgsK"} => v = Promised!Frame(konts[cont].tag)
  BY <1>1, SeenFacts DEF View, Promised!Frame
<1> HIDE DEF s, v, u
<1>5. s # <<>> /\ Head(s) = v /\ Tail(s) = u
  BY <1>2, <1>3, OnTop
<1>6. Promised!Supply(konts[cont].tag)
  BY <1>3, <1>5 DEF Promised!Supply, s
<1> QED
  BY <1>2, <1>4, <1>5, <1>6 DEF s, v, u

\* While a frame is applied, the arena reads as it did below it.
LEMMA SpentAlike ==
    ASSUME MachineInOrder, konts[cont].tag # "Halt"
    PROVE  /\ Alike(Spent) /\ InOrder(Spent, konts[cont].k, held)
           /\ Stack(Spent, konts[cont].k) = Stack(konts, konts[cont].k)
           /\ konts[cont].tag = "ArgsK" /\ konts[cont].callee.tag = "Continuation" =>
                PartAt(Spent, konts[cont].callee.k) = PartAt(konts, konts[cont].callee.k)
<1>1. InOrder(konts, cont, held) /\ Heap(konts) /\ cont \in DOMAIN konts
  BY DEF MachineInOrder, InOrder
<1>2. Spent = Reached(Consumed(konts, cont), RefsOf(konts[cont]) \cup {r.k : r \in held})
  BY DEF Spent, Consumed
<1>3. ReadsAs(Spent, konts, konts[cont].k, held)
  <2>1. {} \subseteq held \cup Callees(konts) /\ \A r \in {} : r.k \in RefsOf(konts[cont])
    OBVIOUS
  <2>2. ReadsAs(Spent, konts, konts[cont].k, held \cup {})
    BY <1>1, <1>2, <2>1, SpentReads
  <2>3. held \cup {} = held
    OBVIOUS
  <2> QED
    BY <2>2, <2>3
<1>4. ASSUME konts[cont].tag = "ArgsK", konts[cont].callee.tag = "Continuation"
      PROVE  PartAt(Spent, konts[cont].callee.k) = PartAt(konts, konts[cont].callee.k)
  <2> DEFINE Q == {konts[cont].callee}
  <2>1. Q \subseteq held \cup Callees(konts)
    BY <1>1, <1>4, CalleeFacts
  <2>2. \A r \in Q : r.k \in RefsOf(konts[cont])
    BY <1>4 DEF RefsOf
  <2> HIDE DEF Q
  <2>3. ReadsAs(Spent, konts, konts[cont].k, held \cup Q)
    BY <1>1, <1>2, <2>1, <2>2, SpentReads
  <2> QED
    BY <2>3 DEF Q, ReadsAs
<1>5. Parts(Spent, held) = Parts(konts, held)
  BY <1>3, SameParts
<1> QED
  BY <1>1, <1>3, <1>4, <1>5, SpentFacts DEF Alike, ReadsAs

\* apply_cont, except for a call.
LEMMA ApplicationImplemented ==
    ASSUME MachineInOrder,
           \/ ApplyPending \/ ApplyPerformArgs \/ ApplyHandler \/ ApplyLoop
           \/ ApplyReturn \/ ApplyReturnExpr
    PROVE  Promised!Proceed
<1> DEFINE s == Stack(konts, cont)  k == konts[cont].k  u == Stack(konts, k)
<1>1. control = "Value" /\ konts[cont].tag # "Halt"
  BY DEF ApplyPending, ApplyPerformArgs, ApplyHandler, ApplyLoop, ApplyReturn,
         ApplyReturnExpr, Applying
<1>2. /\ s = <<View(konts, cont)>> \o u /\ Tail(s) = u
      /\ Promised!Supply(konts[cont].tag)
      /\ konts[cont].tag \notin {"HandlerK", "ArgsK"} =>
           View(konts, cont) = Promised!Frame(konts[cont].tag)
  BY <1>1, TopSupplied
<1>3. Alike(Spent) /\ InOrder(Spent, k, held) /\ Stack(Spent, k) = u
  BY <1>1, SpentAlike
<1> HIDE DEF s, k, u
<1>4. ASSUME NEW doing, Continue(Spent, k, doing), held' = held
      PROVE  Promised!GoOn(Tail(s), doing)
  BY <1>2, <1>3, <1>4, GoesOn
<1>5. ASSUME NEW doing, NEW tag \in {"PendingK", "LoopK"}, konts[cont].tag = tag,
             Push(Spent, Frame(tag, k), doing), held' = held
      PROVE  Promised!GoOn(s, doing)
  <2>1. Promised!GoOn(<<Promised!Frame(tag)>> \o Stack(Spent, k), doing)
    BY <1>3, <1>5, PushesPlain
  <2>2. s = <<Promised!Frame(tag)>> \o u
    BY <1>2, <1>5
  <2> QED
    BY <1>3, <2>1, <2>2
<1>6. CASE ApplyPending
  <2>1. konts[cont].tag = "PendingK" /\ held' = held
    BY <1>6 DEF ApplyPending, Applying
  <2>2. CASE Push(Spent, Frame("PendingK", k), "Eval")
    <3>1. Promised!GoOn(s, "Eval")
      BY <1>5, <2>1, <2>2
    <3> QED
      BY <1>2, <2>1, <3>1 DEF Promised!Proceed, s
  <2>3. ASSUME NEW doing \in {"Eval", "Value"}, Continue(Spent, k, doing)
        PROVE  Promised!Proceed
    <3>1. Promised!GoOn(Tail(s), doing)
      BY <1>4, <2>1, <2>3
    <3> QED
      BY <1>2, <2>1, <3>1 DEF Promised!Proceed, s
  <2>4. CASE Fault
    <3>1. Promised!GoOn(s, "Faulted")
      BY <2>1, <2>4, Faults DEF s
    <3> QED
      BY <1>2, <2>1, <3>1 DEF Promised!Proceed, s
  <2> QED
    BY <1>6, <2>2, <2>3, <2>4 DEF ApplyPending, k
<1>7. CASE ApplyPerformArgs
  <2>1. konts[cont].tag = "PendingK"
    BY <1>7 DEF ApplyPerformArgs, Applying
  <2>2. PICK e \in Effects : DoPerform(Spent, e, k)
    BY <1>7 DEF ApplyPerformArgs, k
  <2>3. Promised!Perform(e, Stack(Spent, k))
    BY <1>3, <2>2, Performs
  <2>4. Stack(Spent, k) = Tail(s)
    BY <1>2, <1>3
  <2>5. Promised!Perform(e, Tail(s))
    BY <2>3, <2>4
  <2> QED
    BY <1>2, <2>1, <2>5 DEF Promised!Proceed, s
<1>8. CASE ApplyHandler
  <2>1. konts[cont].tag = "HandlerK" /\ held' = held
    BY <1>8 DEF ApplyHandler, Applying
  <2>2. PICK doing \in {"Eval", "Value"} : Continue(Spent, k, doing)
    BY <1>8 DEF ApplyHandler, k
  <2>3. Promised!GoOn(Tail(s), doing)
    BY <1>4, <2>1, <2>2
  <2> QED
    BY <1>2, <2>1, <2>3 DEF Promised!Proceed, s
<1>9. CASE ApplyLoop
  <2>1. konts[cont].tag = "LoopK" /\ held' = held
    BY <1>9 DEF ApplyLoop, Applying
  <2>2. ASSUME NEW doing \in {"Eval", "Value"}, Push(Spent, Frame("LoopK", k), doing)
        PROVE  Promised!Proceed
    <3>1. Promised!GoOn(s, doing)
      BY <1>5, <2>1, <2>2
    <3> QED
      BY <1>2, <2>1, <3>1 DEF Promised!Proceed, s
  <2>3. CASE Continue(Spent, k, "Value")
    <3>1. Promised!GoOn(Tail(s), "Value")
      BY <1>4, <2>1, <2>3
    <3> QED
      BY <1>2, <2>1, <3>1 DEF Promised!Proceed, s
  <2> QED
    BY <1>9, <2>2, <2>3 DEF ApplyLoop, k
<1>10. CASE ApplyReturn
  <2>1. konts[cont].tag = "ReturnK" /\ held' = held /\ Continue(Spent, k, "Value")
    BY <1>10 DEF ApplyReturn, Applying, k
  <2>2. Promised!GoOn(Tail(s), "Value")
    BY <1>4, <2>1
  <2> QED
    BY <1>2, <2>1, <2>2 DEF Promised!Proceed, s
<1>11. CASE ApplyReturnExpr
  <2>1. konts[cont].tag = "ReturnExprK" /\ held' = held /\ Continue(Spent, k, "Returning")
    BY <1>11 DEF ApplyReturnExpr, Applying, k
  <2>2. Promised!GoOn(Tail(s), "Returning")
    BY <1>4, <2>1
  <2> QED
    BY <1>2, <2>1, <2>2 DEF Promised!Proceed, s
<1> QED
  BY <1>6, <1>7, <1>8, <1>9, <1>10, <1>11

\* The end of the program.
LEMMA HaltImplemented == ASSUME MachineInOrder, ApplyHalt PROVE Promised!StackNext
<1>1. konts[cont].tag = "Halt" /\ control = "Value" /\ held' = held
      /\ Continue(Spent, cont, "Halted")
  BY DEF ApplyHalt, Applying
<1>2. cont = Halt /\ InOrder(konts, cont, held) /\ Heap(konts) /\ cont \in DOMAIN konts
  BY <1>1, AtHalt DEF MachineInOrder, InOrder
<1>3. konts[Halt] = HaltK /\ konts = [j \in DOMAIN konts |-> konts[j]]
  BY <1>2 DEF Heap
<1>4. [konts EXCEPT ![cont] = HaltK] = konts
  BY <1>2, <1>3
<1> DEFINE roots == {r.k : r \in held}
<1>5. Spent = Reached(konts, roots)
  BY <1>2, <1>3, <1>4 DEF Spent, RefsOf, HaltK
<1>6. roots \subseteq DOMAIN konts
  BY <1>2 DEF InOrder, Resumptions
<1>7. {cont} \cup {r.k : r \in held} \subseteq roots \cup {Halt}
  BY <1>2
<1> HIDE DEF roots
<1>8. InOrder(Spent, cont, held) /\ ReadsAs(Spent, konts, cont, held)
  BY <1>2, <1>5, <1>6, <1>7, ReachedInOrder, ReachedReads
<1>9. Alike(Spent) /\ Stack(Spent, cont) = Stack(konts, cont)
  <2>1. Parts(Spent, held) = Parts(konts, held)
    BY <1>8, SameParts
  <2> QED
    BY <1>2, <1>8, <2>1 DEF Alike, ReadsAs
<1>10. Promised!GoOn(Stack(konts, cont), "Halted")
  <2>1. Promised!GoOn(Stack(Spent, cont), "Halted")
    BY <1>1, <1>8, <1>9, GoesOn
  <2> QED
    BY <1>9, <2>1
<1>11. Stack(konts, cont) = <<>>
  BY <1>1, <1>2, StackStep
<1> QED
  BY <1>1, <1>10, <1>11 DEF Promised!Finish, Promised!StackNext

\* A call: of a resumption, which goes on top of its caller's stack, or of a
\* function.
LEMMA CallImplemented == ASSUME MachineInOrder, ApplyArgs PROVE Promised!Called
<1> DEFINE s == Stack(konts, cont)  k == konts[cont].k  u == Stack(konts, k)
           callee == konts[cont].callee  seen == Head(s).callee  h == Spent
<1>1. konts[cont].tag = "ArgsK" /\ control = "Value" /\ held' = held
      /\ CallFunction(h, callee, k)
  BY DEF ApplyArgs, Applying, CallFunction
<1>2. Tail(s) = u /\ Head(s) = View(konts, cont) /\ Promised!Supply("ArgsK")
  BY <1>1, TopSupplied
<1>3. /\ callee.tag \in {"Plain", "Continuation"}
      /\ seen = IF callee.tag = "Plain" THEN callee
                ELSE [tag |-> "Continuation", part |-> PartAt(konts, callee.k)]
  <2>1. Heap(konts) /\ konts[cont] \in Frames(DOMAIN konts)
    BY HeapFacts DEF MachineInOrder, InOrder
  <2>2. View(konts, cont) =
          [tag |-> "ArgsK",
           callee |-> IF callee.tag = "Plain" THEN callee
                      ELSE [tag |-> "Continuation", part |-> PartAt(konts, callee.k)]]
    BY <1>1, <2>1, SeenFacts DEF View
  <2>3. callee \in {Plain} \cup Resumptions(DOMAIN konts)
    BY <1>1, <2>1, FrameFacts
  <2> QED
    BY <1>2, <2>2, <2>3 DEF Plain, Resumptions
<1>4. /\ Alike(h) /\ InOrder(h, k, held) /\ Stack(h, k) = u
      /\ callee.tag = "Continuation" => /\ PartAt(h, callee.k) = PartAt(konts, callee.k)
                                        /\ InOrder(h, k, held \cup {callee})
  BY <1>1, SpentAlike, SpentFacts
<1> HIDE DEF s, k, u, callee, seen, h
<1>5. CASE /\ callee.tag = "Continuation" /\ Room(h, BlockSize(h, callee.k))
           /\ LET new == Rebased(h, callee.k, k) IN Continue(new.konts, new.cont, "Value")
  <2> DEFINE R == held \cup {callee}
             g == Copied(h, callee.k, k).konts  c == Copied(h, callee.k, k).cont
  <2>1. InOrder(h, k, R) /\ callee \in R /\ held \subseteq R
    BY <1>4, <1>5
  <2> HIDE DEF R
  <2>2. BlockSize(h, callee.k) # 0 /\ InOrder(g, c, R)
    BY <1>5, <2>1, CopiedInOrder
  <2>3. /\ Stack(g, c) = PartAt(h, callee.k) \o u
        /\ \A r \in R : PartAt(g, r.k) = PartAt(h, r.k)
    BY <1>4, <1>5, <2>1, CopiedReads
  <2>4. Continue(g, c, "Value")
    BY <1>5, <2>2 DEF Rebased
  <2> HIDE DEF g, c
  <2>5. InOrder(g, c, held) /\ Alike(g)
    BY <1>4, <2>1, <2>2, <2>3, Dropped DEF Alike, Parts
  <2>6. Promised!GoOn(Stack(g, c), "Value")
    BY <1>1, <2>4, <2>5, GoesOn
  <2>7. seen.tag = "Continuation" /\ Stack(g, c) = seen.part \o Tail(s)
    BY <1>2, <1>3, <1>4, <1>5, <2>3
  <2>8. Promised!GoOn(seen.part \o Tail(s), "Value")
    BY <2>6, <2>7
  <2> QED
    BY <1>2, <2>7, <2>8 DEF Promised!Called, seen, s
<1>6. ASSUME callee.tag = "Plain" PROVE seen.tag = "Plain"
  BY <1>3, <1>6
<1>7. ASSUME NEW doing \in {"Eval", "Value"}, Push(h, Frame("ReturnK", k), doing),
             callee.tag = "Plain"
      PROVE  Promised!Called
  <2>1. Promised!GoOn(<<Promised!Frame("ReturnK")>> \o Tail(s), doing)
    BY <1>1, <1>2, <1>4, <1>7, PushesPlain
  <2> QED
    BY <1>2, <1>6, <1>7, <2>1 DEF Promised!Called, seen, s
<1>8. CASE /\ callee.tag = "Plain" /\ Room(h, 2)
           /\ Push(Allocated(h, Frame("ReturnK", k)),
                   Frame("ReturnExprK", FreeSlots(h)[1]), "Eval")
  <2> DEFINE frame == Frame("ReturnK", k)  g == Allocated(h, frame)  c == FreeSlots(h)[1]
  <2>1. Room(h, 1) /\ Heap(h) /\ k \in DOMAIN h
    <3>1. Heap(h) /\ k \in DOMAIN h
      BY <1>4 DEF InOrder
    <3>2. PICK top \in Nat : Len(FreeSlots(h)) = MaxKonts - top
      BY <3>1, SlotsFacts
    <3> QED
      BY <1>8, <3>1, <3>2, ContinuationAssumption, SMT DEF Room
  <2>2. /\ frame \in Frames(DOMAIN h) /\ frame.tag = "ReturnK" /\ frame.k = k
        /\ frame.tag # "Halt" /\ frame.tag # "ArgsK"
    BY <2>1, PlainFrame
  <2>3. Push(g, Frame("ReturnExprK", c), "Eval")
    BY <1>8
  <2> HIDE DEF frame
  <2>4. InOrder(g, c, held)
    BY <1>4, <2>1, <2>2, AllocatedInOrder
  <2>5. /\ Stack(g, c) = <<Seen(h, frame)>> \o u
        /\ \A r \in held : PartAt(g, r.k) = PartAt(h, r.k)
    BY <1>4, <2>1, <2>2, AllocatedReads
  <2>6. Seen(h, frame) = Promised!Frame("ReturnK")
    BY <2>1, <2>2, SeenFacts DEF Promised!Frame
  <2> HIDE DEF g, c
  <2>7. Alike(g)
    BY <1>4, <2>5 DEF Alike, Parts
  <2>8. Promised!GoOn(<<Promised!Frame("ReturnExprK")>> \o Stack(g, c), "Eval")
    BY <1>1, <2>3, <2>4, <2>7, PushesPlain
  <2>9. <<Promised!Frame("ReturnExprK")>> \o Stack(g, c)
        = <<Promised!Frame("ReturnExprK"), Promised!Frame("ReturnK")>> \o Tail(s)
    <3> DEFINE a == Promised!Frame("ReturnExprK")  b == Promised!Frame("ReturnK")
               V == Views(konts) \cup {a, b}
    <3>1. u \in Seq(V)
      <4>1. Heap(konts) /\ k \in DOMAIN konts
        BY <1>1, HeapFacts DEF MachineInOrder, InOrder, k
      <4>2. u \in Seq(Views(konts))
        BY <4>1, StackFacts DEF u
      <4> HIDE DEF a, b
      <4> QED
        BY <4>2, SMT
    <3>2. a \in V /\ b \in V
      OBVIOUS
    <3> HIDE DEF a, b, V
    <3>3. <<a>> \o (<<b>> \o u) = <<a, b>> \o u
      <4>1. <<b>> \in Seq(V) /\ <<a>> \o <<b>> = <<a, b>>
        BY <3>2, TwoFrames
      <4>2. \A q \in Seq(V), w \in Seq(V) : <<a>> \o (q \o w) = (<<a>> \o q) \o w
        BY <3>2, SMT
      <4> QED
        BY <3>1, <4>1, <4>2
    <3> QED
      BY <1>2, <2>5, <2>6, <3>3 DEF a, b
  <2>10. Promised!GoOn(<<Promised!Frame("ReturnExprK"), Promised!Frame("ReturnK")>> \o Tail(s),
                       "Eval")
    BY <2>8, <2>9
  <2> QED
    BY <1>2, <1>6, <1>8, <2>10 DEF Promised!Called, seen, s
<1>9. CASE callee.tag = "Plain" /\ Continue(h, k, "Value")
  <2>1. Promised!GoOn(Tail(s), "Value")
    BY <1>1, <1>2, <1>4, <1>9, GoesOn
  <2> QED
    BY <1>2, <1>6, <1>9, <2>1 DEF Promised!Called, seen, s
<1>10. CASE callee.tag = "Plain" /\ Fault
  <2>1. Promised!GoOn(s, "Faulted")
    BY <1>1, <1>10, Faults DEF s
  <2> QED
    BY <1>2, <1>6, <1>10, <2>1 DEF Promised!Called, seen, s
<1> QED
  BY <1>1, <1>5, <1>7, <1>8, <1>9, <1>10 DEF CallFunction

\* Every step of the machine is a step on the stack, or leaves it as it is.
LEMMA StepImplemented ==
    ASSUME MachineInOrder, [Next]_vars PROVE [Promised!StackNext]_Promised!svars
<1>1. CASE Answer
  <2>1. InOrder(konts, cont, held) /\ Alike(konts)
    BY DEF MachineInOrder, Alike
  <2>2. Promised!GoOn(Stack(konts, cont), "Value") /\ control = "Suspend"
    BY <1>1, <2>1, GoesOn DEF Answer
  <2> QED
    BY <2>2 DEF Promised!Finish, Promised!StackNext
<1>2. CASE UNCHANGED vars
  BY <1>2 DEF vars, Promised!svars
<1> QED
  BY <1>1, <1>2, EvaluationImplemented, UnwindImplemented, ApplicationImplemented,
     HaltImplemented, CallImplemented DEF Next, Promised!StackNext

\* The machine starts with an empty stack, and nothing captured.
LEMMA InitImplemented == Init => Promised!StackInit
<1> SUFFICES ASSUME Init PROVE Promised!StackInit
  OBVIOUS
<1>1. cont = Halt /\ held = {} /\ control = "Eval"
  BY DEF Init
<1>2. Heap(konts) /\ cont \in DOMAIN konts /\ konts[cont].tag = "Halt"
  BY <1>1, InitInOrder, HeapFacts DEF MachineInOrder, InOrder
<1>3. Stack(konts, cont) = <<>>
  BY <1>2, StackStep
<1> QED
  BY <1>1, <1>3 DEF Promised!StackInit

\* The arena of shared, consumed and copied frames implements a stack whose
\* captured parts are values, for every step of the machine: what a resumption
\* puts back never changes, however often it is called and whatever else runs
\* in between.
THEOREM StackImplemented == Spec => ImplementsStack
BY AlwaysInOrder, StepImplemented, InitImplemented, PTL
   DEF Spec, ImplementsStack, Promised!StackSpec

==============================================================================
