---------------------------- MODULE QueueLemmas ----------------------------
(***************************************************************************)
(* Sequences without repetition, as the ready queue and the wait lists are *)
(* used: pushed at the back, popped at the front, put one after another;   *)
(* and induction over the naturals, from the well-foundedness of <, for    *)
(* what is defined step by step over a sequence.                           *)
(***************************************************************************)
EXTENDS Integers, Sequences, Functions, WellFoundedInduction, TLAPS

\* The elements of a queue; none exactly when it is empty.
LEMMA SeqRange ==
    ASSUME NEW S, NEW q \in Seq(S)
    PROVE  Range(q) \subseteq S /\ (Range(q) = {} <=> q = <<>>)
<1>1. Range(q) = {q[i] : i \in 1 .. Len(q)}
  BY DEF Range
<1>2. Range(q) \subseteq S
  BY <1>1, SMT
<1>3. q = <<>> <=> Len(q) = 0
  BY SMT
<1>4. Len(q) = 0 => Range(q) = {}
  BY <1>1, SMT
<1>5. Len(q) # 0 => q[1] \in Range(q)
  BY <1>1, SMT
<1> QED
  BY <1>2, <1>3, <1>4, <1>5

\* The empty queue.
LEMMA EmptyRange == Range(<<>>) = {} /\ IsInjective(<<>>)
BY DEF Range, IsInjective

\* A queue of one.
LEMMA Single ==
    ASSUME NEW S, NEW x \in S
    PROVE  <<x>> \in Seq(S) /\ IsInjective(<<x>>) /\ Range(<<x>>) = {x}
<1>1. <<x>> \in Seq(S) /\ DOMAIN <<x>> = {1} /\ <<x>>[1] = x
  BY SMT
<1> QED
  BY <1>1 DEF Range, IsInjective

\* push_back
LEMMA PushBack ==
    ASSUME NEW S, NEW q \in Seq(S), NEW x \in S, x \notin Range(q), IsInjective(q)
    PROVE  /\ Append(q, x) \in Seq(S) /\ Append(q, x) # <<>>
           /\ Range(Append(q, x)) = Range(q) \cup {x}
           /\ IsInjective(Append(q, x))
<1> DEFINE r == Append(q, x)
<1>1. r \in Seq(S) /\ Len(r) = Len(q) + 1 /\ DOMAIN r = 1 .. Len(q) + 1 /\ DOMAIN q = 1 .. Len(q)
  BY SMT
<1>2. /\ r[Len(q) + 1] = x
      /\ \A i \in 1 .. Len(q) : r[i] = q[i] /\ q[i] # x
  BY SMT DEF Range
<1> HIDE DEF r
<1>3. Range(r) = Range(q) \cup {x}
  BY <1>1, <1>2, SMT DEF Range
<1>4. IsInjective(r)
  BY <1>1, <1>2, SMT DEF IsInjective
<1>5. r # <<>>
  BY <1>1, SMT
<1> QED
  BY <1>1, <1>3, <1>4, <1>5 DEF r

\* pop_front
LEMMA PopFront ==
    ASSUME NEW S, NEW q \in Seq(S), q # <<>>, IsInjective(q)
    PROVE  /\ Head(q) \in S /\ Head(q) \in Range(q)
           /\ Tail(q) \in Seq(S)
           /\ Range(Tail(q)) = Range(q) \ {Head(q)}
           /\ IsInjective(Tail(q))
<1> DEFINE r == Tail(q)
<1>1. /\ r \in Seq(S) /\ Len(r) = Len(q) - 1 /\ Len(q) >= 1 /\ Len(q) \in Nat
      /\ DOMAIN r = 1 .. Len(q) - 1 /\ DOMAIN q = 1 .. Len(q)
  BY SMT
<1>2. Head(q) = q[1] /\ \A i \in 1 .. Len(q) - 1 : r[i] = q[i + 1]
  BY <1>1, SMT
<1> HIDE DEF r
<1>3. Head(q) \in S /\ Head(q) \in Range(q)
  BY <1>1, <1>2, SMT DEF Range
<1>4. IsInjective(r)
  <2> SUFFICES ASSUME NEW a \in 1 .. Len(q) - 1, NEW b \in 1 .. Len(q) - 1, r[a] = r[b]
               PROVE  a = b
    BY <1>1 DEF IsInjective
  <2>1. q[a + 1] = q[b + 1] /\ a + 1 \in 1 .. Len(q) /\ b + 1 \in 1 .. Len(q)
    BY <1>1, <1>2, SMT
  <2>2. a + 1 = b + 1
    BY <1>1, <2>1 DEF IsInjective
  <2> QED
    BY <2>2, SMT
<1>5. Range(r) \subseteq Range(q) \ {Head(q)}
  BY <1>1, <1>2, SMT DEF Range, IsInjective
<1>6. ASSUME NEW y \in Range(q) \ {Head(q)} PROVE y \in Range(r)
  <2>1. PICK i \in 1 .. Len(q) : q[i] = y
    BY <1>1 DEF Range
  <2>2. i # 1 /\ i - 1 \in 1 .. Len(q) - 1 /\ q[i] = r[i - 1]
    BY <1>1, <1>2, <1>6, <2>1, SMT
  <2> QED
    BY <1>1, <2>1, <2>2 DEF Range
<1> QED
  BY <1>1, <1>3, <1>4, <1>5, <1>6 DEF r

\* A batch of wake-ups appended to the queue, or the paused fiber put before it.
LEMMA Joined ==
    ASSUME NEW S, NEW p \in Seq(S), NEW q \in Seq(S),
           IsInjective(p), IsInjective(q), Range(p) \cap Range(q) = {}
    PROVE  /\ p \o q \in Seq(S)
           /\ Range(p \o q) = Range(p) \cup Range(q)
           /\ IsInjective(p \o q)
<1> DEFINE r == p \o q
<1>1. /\ r \in Seq(S) /\ Len(p) \in Nat /\ Len(q) \in Nat
      /\ DOMAIN r = 1 .. Len(p) + Len(q) /\ DOMAIN p = 1 .. Len(p) /\ DOMAIN q = 1 .. Len(q)
  BY SMT
<1>2. /\ \A i \in 1 .. Len(p) : r[i] = p[i]
      /\ \A i \in 1 .. Len(q) : r[Len(p) + i] = q[i]
      /\ \A i \in Len(p) + 1 .. Len(p) + Len(q) : r[i] = q[i - Len(p)]
  BY <1>1, SMT
<1> HIDE DEF r
<1>3. Range(r) \subseteq Range(p) \cup Range(q)
  <2> SUFFICES ASSUME NEW i \in 1 .. Len(p) + Len(q) PROVE r[i] \in Range(p) \cup Range(q)
    BY <1>1 DEF Range
  <2>1. CASE i \in 1 .. Len(p)
    BY <1>1, <1>2, <2>1 DEF Range
  <2>2. CASE i \notin 1 .. Len(p)
    <3>1. i \in Len(p) + 1 .. Len(p) + Len(q) /\ i - Len(p) \in 1 .. Len(q)
      BY <1>1, <2>2, SMT
    <3> QED
      BY <1>1, <1>2, <3>1 DEF Range
  <2> QED
    BY <2>1, <2>2
<1>4. Range(p) \subseteq Range(r)
  BY <1>1, <1>2, SMT DEF Range
<1>5. Range(q) \subseteq Range(r)
  <2> SUFFICES ASSUME NEW i \in 1 .. Len(q) PROVE q[i] \in Range(r)
    BY <1>1 DEF Range
  <2>1. Len(p) + i \in 1 .. Len(p) + Len(q) /\ r[Len(p) + i] = q[i]
    BY <1>1, <1>2, SMT
  <2> QED
    BY <1>1, <2>1 DEF Range
<1>6. IsInjective(r)
  <2> SUFFICES ASSUME NEW a \in DOMAIN r, NEW b \in DOMAIN r, r[a] = r[b] PROVE a = b
    BY DEF IsInjective
  <2>1. CASE a \in 1 .. Len(p) /\ b \in 1 .. Len(p)
    BY <1>1, <1>2, <2>1 DEF IsInjective
  <2>2. CASE a \notin 1 .. Len(p) /\ b \notin 1 .. Len(p)
    <3>1. a - Len(p) \in 1 .. Len(q) /\ b - Len(p) \in 1 .. Len(q)
      BY <1>1, <2>2, SMT
    <3>2. a - Len(p) = b - Len(p)
      BY <1>1, <1>2, <2>2, <3>1, SMT DEF IsInjective
    <3> QED
      BY <1>1, <3>2, SMT
  <2>3. CASE a \in 1 .. Len(p) <=> b \notin 1 .. Len(p)
    <3>1. \A i \in 1 .. Len(p), j \in 1 .. Len(q) : p[i] # q[j]
      BY <1>1 DEF Range
    <3> QED
      BY <1>1, <1>2, <2>3, <3>1, SMT
  <2> QED
    BY <2>1, <2>2, <2>3
<1> QED
  BY <1>1, <1>3, <1>4, <1>5, <1>6 DEF r

-----------------------------------------------------------------------------
(* Induction. *)

\* A set of naturals that has an element has a least one.
LEMMA Least ==
    ASSUME NEW T, T \subseteq Nat, T # {}
    PROVE \E n \in T : \A m \in T : n <= m
<1>1. IsWellFoundedOn(OpToRel(<,Nat), Nat)
  BY NatLessThanWellFounded
<1> DEFINE R == OpToRel(<,Nat)
<1>2. \E x \in T : \A y \in T : ~ (<<y, x>> \in R)
  <2> HIDE DEF R
  <2> QED
    BY <1>1, WFMin DEF R
<1>3. \A x, y \in Nat : y < x => <<y, x>> \in R
  BY DEF OpToRel
<1> HIDE DEF R
<1>4. PICK x \in T : \A y \in T : ~ (<<y, x>> \in R)
  BY <1>2
<1>5. \A y \in T : ~(y < x)
  BY <1>3, <1>4
<1>6. \A y \in T : x <= y
  BY <1>5, SMT
<1> QED
  BY <1>6

\* Induction over the naturals, for a set instead of a predicate.
LEMMA SetInduction ==
    ASSUME NEW S, 0 \in S, \A n \in Nat : n \in S => n + 1 \in S
    PROVE  Nat \subseteq S
<1> SUFFICES ASSUME Nat \ S # {} PROVE FALSE
  OBVIOUS
<1>1. PICK n \in Nat \ S : \A m \in Nat \ S : n <= m
  BY Least
<1>2. n # 0 /\ n - 1 \in Nat
  BY SMT
<1> QED
  BY <1>1, <1>2, SMT

=============================================================================
