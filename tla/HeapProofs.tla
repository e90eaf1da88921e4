----------------------------- MODULE HeapProofs ------------------------------
(***************************************************************************)
(* The heap of the interpreter, whatever program runs: the arenas of       *)
(* arena.rs, the collection that gc.rs runs over them, and the invariant   *)
(* that every id held by a thing of the heap, or by the registers, is the  *)
(* id of a slot in use.  Allocation, walk, sweep and each family of        *)
(* interpreter steps lead from a sound heap to a sound heap.  Last comes   *)
(* marking, which follows every field that can hold an id.                 *)
(***************************************************************************)
EXTENDS DurableProps, QueueLemmas, SequencesExt, SequenceTheorems, FiniteSetTheorems, TLAPS

\* An arena as alloc and sweep leave it: free ids are ids, none is free twice.
WellFormed(arena, Things) ==
    /\ arena \in [slots : Seq(Things), free_list : Seq(Nat), allocations : Nat]
    /\ \A i \in DOMAIN arena.free_list : arena.free_list[i] \in IdsOf(arena)
    /\ \A i, j \in DOMAIN arena.free_list : arena.free_list[i] = arena.free_list[j] => i = j

InUse(arena) == IdsOf(arena) \ FreeIds(arena)

-----------------------------------------------------------------------------

\* A new arena is well formed.
LEMMA NewArenaWellFormed == ASSUME NEW Things PROVE WellFormed(NewArena, Things)
  BY DEF WellFormed, NewArena

\* With no free slot, the arena grows by one.
LEMMA AllocGrows ==
  ASSUME NEW Things, NEW arena, WellFormed(arena, Things), NEW x \in Things,
         arena.free_list = <<>>
  PROVE  /\ WellFormed(Alloc(arena, x), Things)
         /\ NextId(arena) = Len(arena.slots)
         /\ Alloc(arena, x).slots = Append(arena.slots, x)
         /\ FreeIds(Alloc(arena, x)) = {} /\ FreeIds(arena) = {}
  <1> DEFINE after == Alloc(arena, x)
  <1>1. after = [slots |-> Append(arena.slots, x), free_list |-> <<>>,
                 allocations |-> arena.allocations + 1]
    BY DEF Alloc, WellFormed
  <1>2. QED
    BY <1>1 DEF WellFormed, NextId, FreeIds, IdsOf

\* With a free slot, the last one freed is used and leaves the free list.
LEMMA AllocReuses ==
  ASSUME NEW Things, NEW arena, WellFormed(arena, Things), NEW x \in Things,
         arena.free_list # <<>>
  PROVE  LET last == Len(arena.free_list) IN
         /\ NextId(arena) = arena.free_list[last]
         /\ NextId(arena) \in IdsOf(arena)
         /\ Alloc(arena, x) =
              [slots |-> [arena.slots EXCEPT ![NextId(arena) + 1] = x],
               free_list |-> SubSeq(arena.free_list, 1, last - 1),
               allocations |-> arena.allocations + 1]
         /\ WellFormed(Alloc(arena, x), Things)
         /\ FreeIds(Alloc(arena, x)) = FreeIds(arena) \ {NextId(arena)}
  <1> DEFINE last == Len(arena.free_list)
             after == Alloc(arena, x)
             slots == [arena.slots EXCEPT ![NextId(arena) + 1] = x]
             free == SubSeq(arena.free_list, 1, last - 1)
  <1>1. last \in Nat \ {0} /\ DOMAIN arena.free_list = 1 .. last
    BY DEF WellFormed
  <1>2. NextId(arena) = arena.free_list[last] /\ NextId(arena) \in IdsOf(arena)
    BY <1>1 DEF NextId, WellFormed
  <1>3. after = [slots |-> slots, free_list |-> free, allocations |-> arena.allocations + 1]
    BY DEF Alloc, WellFormed
  <1>4. slots \in Seq(Things) /\ Len(slots) = Len(arena.slots)
    BY <1>2 DEF IdsOf, WellFormed
  <1>5. /\ free \in Seq(Nat) /\ DOMAIN free = 1 .. last - 1
        /\ \A i \in 1 .. last - 1 : free[i] = arena.free_list[i]
    BY <1>1 DEF WellFormed
  <1>6. /\ 1 .. last - 1 \subseteq 1 .. last /\ last \notin 1 .. last - 1 /\ last \in 1 .. last
        /\ (1 .. last) \ {last} = 1 .. last - 1
    BY <1>1
  <1>7. /\ \A i \in 1 .. last : arena.free_list[i] \in IdsOf(arena)
        /\ \A i, j \in 1 .. last : arena.free_list[i] = arena.free_list[j] => i = j
    BY <1>1 DEF WellFormed
  <1>8. /\ after \in [slots : Seq(Things), free_list : Seq(Nat), allocations : Nat]
        /\ after.free_list = free /\ after.slots = slots
    BY <1>3, <1>4, <1>5 DEF WellFormed
  <1> HIDE DEF after, slots, free, last
  <1>9. WellFormed(after, Things)
    <2>1. \A i \in DOMAIN free : free[i] \in IdsOf(after)
      BY <1>4, <1>5, <1>6, <1>7, <1>8 DEF IdsOf
    <2>2. \A i, j \in DOMAIN free : free[i] = free[j] => i = j
      BY <1>5, <1>6, <1>7
    <2>3. QED
      BY <1>8, <2>1, <2>2 DEF WellFormed
  <1>10. FreeIds(after) = FreeIds(arena) \ {NextId(arena)}
    <2>1. FreeIds(after) = {arena.free_list[i] : i \in 1 .. last - 1}
      BY <1>5, <1>8 DEF FreeIds
    <2>2. \A i \in 1 .. last - 1 : arena.free_list[i] # arena.free_list[last]
      BY <1>6, <1>7
    <2>3. FreeIds(arena) = {arena.free_list[i] : i \in 1 .. last}
      BY <1>1 DEF FreeIds
    <2>4. QED
      BY <1>2, <1>6, <2>1, <2>2, <2>3
  <1>11. QED
    BY <1>2, <1>3, <1>9, <1>10 DEF after, slots, free, last

\* What alloc returns was not in use and is now, holding what was stored; every
\* id that was in use still is and names what it named (src/arena.rs, alloc).
THEOREM AllocNeverTakesWhatIsInUse ==
  ASSUME NEW Things, NEW arena, WellFormed(arena, Things), NEW x \in Things
  PROVE  /\ WellFormed(Alloc(arena, x), Things)
         /\ NextId(arena) \notin InUse(arena)
         /\ InUse(Alloc(arena, x)) = InUse(arena) \cup {NextId(arena)}
         /\ Slot(Alloc(arena, x), NextId(arena)) = x
         /\ \A id \in InUse(arena) : Slot(Alloc(arena, x), id) = Slot(arena, id)
  <1> DEFINE after == Alloc(arena, x)
             n == Len(arena.slots)
  <1>0. n \in Nat /\ arena.slots \in Seq(Things)
    BY DEF WellFormed
  <1>1. CASE arena.free_list = <<>>
    <2>1. /\ WellFormed(after, Things) /\ NextId(arena) = n
          /\ after.slots = Append(arena.slots, x)
          /\ FreeIds(after) = {} /\ FreeIds(arena) = {}
      BY <1>1, AllocGrows
    <2>2. InUse(after) = 0 .. n /\ InUse(arena) = 0 .. n - 1
      BY <1>0, <2>1 DEF InUse, IdsOf
    <2>3. QED
      BY <1>0, <2>1, <2>2 DEF Slot
  <1>2. CASE arena.free_list # <<>>
    <2>1. /\ WellFormed(after, Things) /\ NextId(arena) \in IdsOf(arena)
          /\ NextId(arena) \in FreeIds(arena)
          /\ after.slots = [arena.slots EXCEPT ![NextId(arena) + 1] = x]
          /\ FreeIds(after) = FreeIds(arena) \ {NextId(arena)}
      <3>1. NextId(arena) \in FreeIds(arena)
        BY <1>2 DEF NextId, FreeIds, WellFormed
      <3>2. QED
        BY <1>2, <3>1, AllocReuses
    <2>2. IdsOf(after) = IdsOf(arena)
      BY <1>0, <2>1 DEF IdsOf
    <2>3. InUse(after) = InUse(arena) \cup {NextId(arena)} /\ NextId(arena) \notin InUse(arena)
      BY <2>1, <2>2 DEF InUse
    <2>4. Slot(after, NextId(arena)) = x
      BY <1>0, <2>1 DEF Slot, IdsOf
    <2>5. \A id \in InUse(arena) : Slot(after, id) = Slot(arena, id)
      BY <1>0, <2>1, <2>3 DEF Slot, InUse, IdsOf
    <2>6. QED
      BY <2>1, <2>3, <2>4, <2>5
  <1>3. QED
    BY <1>1, <1>2

\* f starts with base, goes on by step and stays in In.
Stepped(f, N, base, step, In) ==
    /\ f = [n \in 0 .. N |-> f[n]]
    /\ f[0] = base
    /\ \A n \in 1 .. N : f[n] = step[<<n, f[n - 1]>>]
    /\ \A n \in 0 .. N : f[n] \in In[n]

\* What is defined step by step over 0 .. N exists, and is in In[n] after n steps if
\* the first is in In[0] and every step leads on from In[n - 1] to In[n].
LEMMA StepByStep ==
    ASSUME NEW N \in Nat, NEW base, NEW step, NEW In,
           base \in In[0],
           \A n \in 1 .. N : \A s \in In[n - 1] : step[<<n, s>>] \in In[n]
    PROVE  \E f : Stepped(f, N, base, step, In)
<1> DEFINE Up(m, f) == /\ f = [n \in 0 .. m |-> IF n = 0 THEN base ELSE step[<<n, f[n - 1]>>]]
                       /\ \A n \in 0 .. m : f[n] \in In[n]
           S == {m \in Nat : m <= N => \E f : Up(m, f)}
<1>1. 0 \in S
  <2> DEFINE f == [n \in 0 .. 0 |-> base]
  <2>1. \A n \in 0 .. 0 : n = 0
    BY SMT
  <2>2. Up(0, f)
    BY <2>1
  <2> QED
    BY <2>2
<1>2. ASSUME NEW m \in Nat, m \in S PROVE m + 1 \in S
  <2> SUFFICES ASSUME m + 1 <= N PROVE \E f : Up(m + 1, f)
    OBVIOUS
  <2>1. PICK f : Up(m, f)
    BY <1>2, SMT
  <2> DEFINE g == [n \in 0 .. m + 1 |-> IF n = m + 1 THEN step[<<m + 1, f[m]>>] ELSE f[n]]
  <2>2. \A n \in 0 .. m : g[n] = f[n] /\ n \in 0 .. m + 1
    BY SMT
  <2>3. g[m + 1] = step[<<m + 1, f[m]>>] /\ m + 1 \in 0 .. m + 1
    BY SMT
  <2>4. \A n \in 0 .. m : f[n] = IF n = 0 THEN base ELSE step[<<n, f[n - 1]>>]
    BY <2>1
  <2> DEFINE h == [n \in 0 .. m + 1 |-> IF n = 0 THEN base ELSE step[<<n, g[n - 1]>>]]
  <2>5. ASSUME NEW n \in 0 .. m + 1 PROVE g[n] = h[n]
    <3>1. h[n] = IF n = 0 THEN base ELSE step[<<n, g[n - 1]>>]
      OBVIOUS
    <3> HIDE DEF h, g
    <3>2. CASE n \in 0 .. m
      <4>1. n # 0 => n - 1 \in 0 .. m
        BY <3>2, SMT
      <4> QED
        BY <2>2, <2>4, <3>1, <3>2, <4>1
    <3>3. CASE n = m + 1
      <4>1. n # 0 /\ n - 1 = m /\ m \in 0 .. m
        BY <3>3, SMT
      <4> QED
        BY <2>2, <2>3, <3>1, <3>3, <4>1
    <3> QED
      BY <3>2, <3>3, SMT
  <2>6. g = h
    <3>1. \A n \in 0 .. m + 1 : g[n] = h[n]
      BY <2>5
    <3> QED
      BY <3>1, Zenon
  <2>7. \A n \in 0 .. m + 1 : g[n] \in In[n]
    <3>1. f[m] \in In[m]
      BY <2>1, SMT
    <3>2. m + 1 \in 1 .. N /\ (m + 1) - 1 = m
      BY SMT
    <3>3. g[m + 1] \in In[m + 1]
      BY <2>3, <3>1, <3>2
    <3>4. \A n \in 0 .. m : g[n] \in In[n]
      BY <2>1, <2>2
    <3> HIDE DEF g
    <3> QED
      BY <3>3, <3>4, SMT
  <2>8. Up(m + 1, g)
    BY <2>6, <2>7
  <2> QED
    BY <2>8
<1> HIDE DEF S
<1>3. Nat \subseteq S
  BY <1>1, <1>2, SetInduction
<1>4. PICK f : Up(N, f)
  BY <1>3 DEF S
<1>5. \A n \in 1 .. N : n \in 0 .. N /\ n # 0
  BY SMT
<1>6. 0 \in 0 .. N
  BY SMT
<1>7. \A n \in 0 .. N : f[n] = IF n = 0 THEN base ELSE step[<<n, f[n - 1]>>]
  BY <1>4
<1> DEFINE h == [n \in 0 .. N |-> IF n = 0 THEN base ELSE step[<<n, f[n - 1]>>]]
<1>8. f = [n \in 0 .. N |-> f[n]]
  <2>1. h = [n \in 0 .. N |-> h[n]]
    OBVIOUS
  <2>2. f = h
    BY <1>4
  <2> HIDE DEF h
  <2> QED
    BY <2>1, <2>2
<1> QED
  BY <1>4, <1>5, <1>6, <1>7, <1>8 DEF Stepped

\* Two that take the same steps from the same start are the same.
LEMMA SameSteps ==
    ASSUME NEW N \in Nat, NEW f, NEW g, f[0] = g[0],
           \A n \in 1 .. N : f[n - 1] = g[n - 1] => f[n] = g[n]
    PROVE  \A n \in 0 .. N : f[n] = g[n]
<1> DEFINE S == {m \in Nat : m <= N => f[m] = g[m]}
<1>1. 0 \in S
  OBVIOUS
<1>2. ASSUME NEW m \in Nat, m \in S PROVE m + 1 \in S
  <2>1. m + 1 <= N => m + 1 \in 1 .. N /\ (m + 1) - 1 = m /\ m <= N
    BY SMT
  <2> QED
    BY <1>2, <2>1
<1> HIDE DEF S
<1>3. Nat \subseteq S
  BY <1>1, <1>2, SetInduction
<1>4. \A n \in 0 .. N : n \in Nat /\ n <= N
  BY SMT
<1> QED
  BY <1>3, <1>4 DEF S

\* What SameSteps says of two functions, as one formula.
Alike(N, f, g) ==
    f[0] = g[0] /\ (\A n \in 1 .. N : f[n - 1] = g[n - 1] => f[n] = g[n])
        => \A n \in 0 .. N : f[n] = g[n]

\* It holds of any two.
LEMMA EachAlike == ASSUME NEW N \in Nat, NEW f, NEW g PROVE Alike(N, f, g)
  BY SameSteps DEF Alike

\* The ids up to n that are not marked, each once.
UnmarkedBelow(marked, n) ==
    {s \in Seq(Nat) : /\ \A i \in 1 .. Len(s) : s[i] < n /\ s[i] \notin marked
                      /\ \A i, j \in 1 .. Len(s) : s[i] = s[j] => i = j
                      /\ \A id \in Nat : id < n /\ id \notin marked => \E i \in 1 .. Len(s)
                             : s[i] = id}

\* One slot further.
LEMMA UnmarkedStep ==
    ASSUME NEW marked, NEW n \in Nat \ {0}, NEW s \in UnmarkedBelow(marked, n - 1)
    PROVE  (IF n - 1 \in marked THEN s ELSE Append(s, n - 1)) \in UnmarkedBelow(marked, n)
<1>1. /\ s \in Seq(Nat) /\ Len(s) \in Nat
      /\ \A i \in 1 .. Len(s) : s[i] \in Nat /\ s[i] < n - 1 /\ s[i] \notin marked
      /\ \A i, j \in 1 .. Len(s) : s[i] = s[j] => i = j
      /\ \A id \in Nat : id < n - 1 /\ id \notin marked => \E i \in 1 .. Len(s) : s[i] = id
  BY DEF UnmarkedBelow
<1>2. n - 1 \in Nat /\ \A id \in Nat : id < n => id < n - 1 \/ id = n - 1
  BY SMT
<1>3. CASE n - 1 \in marked
  <2>1. \A i \in 1 .. Len(s) : s[i] < n
    BY <1>1, SMT
  <2>2. \A id \in Nat : id < n /\ id \notin marked => \E i \in 1 .. Len(s) : s[i] = id
    BY <1>1, <1>2, <1>3
  <2> QED
    BY <1>1, <1>3, <2>1, <2>2 DEF UnmarkedBelow
<1>4. CASE n - 1 \notin marked
  <2> DEFINE t == Append(s, n - 1)
  <2>1. /\ t \in Seq(Nat) /\ Len(t) = Len(s) + 1 /\ t[Len(s) + 1] = n - 1
        /\ \A i \in 1 .. Len(s) : t[i] = s[i]
    BY <1>1, <1>2
  <2> HIDE DEF t
  <2>2. \A i \in 1 .. Len(t) : i \in 1 .. Len(s) \/ i = Len(s) + 1
    BY <1>1, <2>1, SMT
  <2>3. \A i \in 1 .. Len(t) : t[i] < n /\ t[i] \notin marked
    <3> TAKE i \in 1 .. Len(t)
    <3>1. CASE i \in 1 .. Len(s)
      <4>1. t[i] = s[i] /\ s[i] \in Nat /\ s[i] < n - 1 /\ s[i] \notin marked
        BY <1>1, <2>1, <3>1
      <4> QED
        BY <4>1, SMT
    <3>2. CASE i = Len(s) + 1
      BY <1>4, <2>1, <3>2, SMT
    <3> QED
      BY <2>2, <3>1, <3>2
  <2>4. \A i, j \in 1 .. Len(t) : t[i] = t[j] => i = j
    <3>1. \A i \in 1 .. Len(s) : t[i] # n - 1
      BY <1>1, <2>1, SMT
    <3> QED
      BY <1>1, <2>1, <2>2, <3>1
  <2>5. \A id \in Nat : id < n /\ id \notin marked => \E i \in 1 .. Len(t) : t[i] = id
    <3>1. Len(s) + 1 \in 1 .. Len(t) /\ \A i \in 1 .. Len(s) : i \in 1 .. Len(t)
      BY <1>1, <2>1, SMT
    <3> QED
      BY <1>1, <1>2, <2>1, <3>1
  <2>6. t \in UnmarkedBelow(marked, n)
    BY <2>1, <2>3, <2>4, <2>5 DEF UnmarkedBelow
  <2> QED
    BY <1>4, <2>6 DEF t
<1> QED
  BY <1>3, <1>4

\* What sweep pushes on the free list are the ids that are not marked.
LEMMA UnmarkedAll ==
    ASSUME NEW arena, NEW marked, Len(arena.slots) \in Nat
    PROVE  Unmarked(arena, marked) \in UnmarkedBelow(marked, Len(arena.slots))
<1> DEFINE N == Len(arena.slots)
           In == [n \in 0 .. N |-> UnmarkedBelow(marked, n)]
           NextOf(n, s) == IF n - 1 \in marked THEN s ELSE Append(s, n - 1)
           Below(f) == f = [n \in 0 .. N |->
                IF n = 0 THEN <<>>
                ELSE IF n - 1 \in marked THEN f[n - 1] ELSE Append(f[n - 1], n - 1)]
           step == [p \in (1 .. N) \X Seq(Nat) |-> NextOf(p[1], p[2])]
           h == CHOOSE g : Below(g)
<1>0. /\ 0 \in 0 .. N
      /\ \A n \in 1 .. N : n \in Nat \ {0} /\ n \in 0 .. N /\ n - 1 \in 0 .. N /\ n # 0
      /\ \A n \in 0 .. N : n # 0 => n \in 1 .. N
  BY SMT
<1>1. <<>> \in In[0]
  <2>1. <<>> \in Seq(Nat) /\ Len(<<>>) = 0
    OBVIOUS
  <2>2. <<>> \in UnmarkedBelow(marked, 0)
    BY <2>1, SMT DEF UnmarkedBelow
  <2> QED
    BY <1>0, <2>2
<1>2. ASSUME NEW n \in 1 .. N, NEW s \in In[n - 1]
      PROVE  step[<<n, s>>] = NextOf(n, s) /\ NextOf(n, s) \in In[n]
  <2>1. s \in UnmarkedBelow(marked, n - 1) /\ s \in Seq(Nat)
    BY <1>0 DEF UnmarkedBelow
  <2>2. NextOf(n, s) \in UnmarkedBelow(marked, n)
    BY <1>0, <2>1, UnmarkedStep
  <2> QED
    BY <1>0, <2>1, <2>2
<1> HIDE DEF In, step
<1>3. \A n \in 1 .. N : \A s \in In[n - 1] : step[<<n, s>>] \in In[n]
  BY <1>2
<1>4. PICK f : /\ f = [n \in 0 .. N |-> f[n]]
               /\ f[0] = <<>>
               /\ \A n \in 1 .. N : f[n] = step[<<n, f[n - 1]>>]
               /\ \A n \in 0 .. N : f[n] \in In[n]
  <2> HIDE DEF N
  <2>1. N \in Nat
    BY DEF N
  <2>2. \E f : Stepped(f, N, <<>>, step, In)
    BY <1>1, <1>3, <2>1, StepByStep
  <2> QED
    BY <2>2 DEF Stepped
<1>5. \A n \in 1 .. N : f[n] = NextOf(n, f[n - 1])
  BY <1>0, <1>2, <1>4
<1>6. Below(f)
  <2>1. \A n \in 0 .. N : f[n] = IF n = 0 THEN <<>>
                ELSE IF n - 1 \in marked THEN f[n - 1] ELSE Append(f[n - 1], n - 1)
    BY <1>0, <1>4, <1>5
  <2> QED
    BY <1>4, <2>1, Zenon
<1>7. Below(h)
  BY <1>6
<1> HIDE DEF h
<1>8. \A n \in 0 .. N : h[n] = IF n = 0 THEN <<>> ELSE NextOf(n, h[n - 1])
  BY <1>7
<1>9. f[N] = h[N]
  <2>1. f[0] = h[0]
    BY <1>0, <1>4, <1>8
  <2>2. \A n \in 1 .. N : f[n - 1] = h[n - 1] => f[n] = h[n]
    BY <1>0, <1>5, <1>8
  <2>3. N \in 0 .. N
    BY SMT
  <2> HIDE DEF N
  <2>4. N \in Nat
    BY DEF N
  <2> QED
    <3>1. \A n \in 0 .. N : f[n] = h[n]
      <4>1. Alike(N, f, h)
        BY <2>4, EachAlike
      <4> QED
        BY <2>1, <2>2, <4>1 DEF Alike
    <3> QED
      BY <2>3, <3>1
<1>10. Unmarked(arena, marked) = h[N]
  BY DEF Unmarked, h
<1>11. N \in 0 .. N
  BY SMT
<1> QED
  BY <1>4, <1>9, <1>10, <1>11 DEF In

\* A sequence is the concatenation of its parts.
LEMMA TwoParts ==
    ASSUME NEW S, NEW s \in Seq(S), NEW t \in Seq(S), NEW u \in Seq(S),
           Len(u) = Len(s) + Len(t),
           \A i \in 1 .. Len(s) : u[i] = s[i],
           \A i \in Len(s) + 1 .. Len(s) + Len(t) : u[i] = t[i - Len(s)]
    PROVE  s \o t = u
<1>1. /\ s \o t \in Seq(S) /\ Len(s \o t) = Len(u)
      /\ \A i \in 1 .. Len(u) : (s \o t)[i] = u[i]
  OBVIOUS
<1> QED
  BY <1>1, SeqEqual

\* Lists of 1 and of 1, one after the other.
LEMMA Cat11 ==
    ASSUME NEW a1, NEW b1
    PROVE  <<a1>> \o <<b1>> = <<a1, b1>>
<1> DEFINE S == {a1, b1}
           s == <<a1>>
           t == <<b1>>
           u == <<a1, b1>>
<1>1. s \in Seq(S) /\ t \in Seq(S) /\ u \in Seq(S)
  OBVIOUS
<1>2. Len(s) = 1 /\ Len(t) = 1 /\ Len(u) = 2
  OBVIOUS
<1>3. \A i \in 1 .. Len(s) : u[i] = s[i]
  BY <1>2
<1>4. \A i \in Len(s) + 1 .. Len(s) + Len(t) : u[i] = t[i - Len(s)]
  BY <1>2
<1>5. Len(u) = Len(s) + Len(t)
  BY <1>2
<1> HIDE DEF s, t, u, S
<1>6. s \o t = u
  BY <1>1, <1>3, <1>4, <1>5, TwoParts
<1> QED
  BY <1>6 DEF s, t, u

\* Lists of 2 and of 1, one after the other.
LEMMA Cat21 ==
    ASSUME NEW a1, NEW a2, NEW b1
    PROVE  <<a1, a2>> \o <<b1>> = <<a1, a2, b1>>
<1> DEFINE S == {a1, a2, b1}
           s == <<a1, a2>>
           t == <<b1>>
           u == <<a1, a2, b1>>
<1>1. s \in Seq(S) /\ t \in Seq(S) /\ u \in Seq(S)
  OBVIOUS
<1>2. Len(s) = 2 /\ Len(t) = 1 /\ Len(u) = 3
  OBVIOUS
<1>3. \A i \in 1 .. Len(s) : u[i] = s[i]
  BY <1>2
<1>4. \A i \in Len(s) + 1 .. Len(s) + Len(t) : u[i] = t[i - Len(s)]
  BY <1>2
<1>5. Len(u) = Len(s) + Len(t)
  BY <1>2
<1> HIDE DEF s, t, u, S
<1>6. s \o t = u
  BY <1>1, <1>3, <1>4, <1>5, TwoParts
<1> QED
  BY <1>6 DEF s, t, u

\* Lists of 3 and of 1, one after the other.
LEMMA Cat31 ==
    ASSUME NEW a1, NEW a2, NEW a3, NEW b1
    PROVE  <<a1, a2, a3>> \o <<b1>> = <<a1, a2, a3, b1>>
<1> DEFINE S == {a1, a2, a3, b1}
           s == <<a1, a2, a3>>
           t == <<b1>>
           u == <<a1, a2, a3, b1>>
<1>1. s \in Seq(S) /\ t \in Seq(S) /\ u \in Seq(S)
  OBVIOUS
<1>2. Len(s) = 3 /\ Len(t) = 1 /\ Len(u) = 4
  OBVIOUS
<1>3. \A i \in 1 .. Len(s) : u[i] = s[i]
  BY <1>2
<1>4. \A i \in Len(s) + 1 .. Len(s) + Len(t) : u[i] = t[i - Len(s)]
  BY <1>2
<1>5. Len(u) = Len(s) + Len(t)
  BY <1>2
<1> HIDE DEF s, t, u, S
<1>6. s \o t = u
  BY <1>1, <1>3, <1>4, <1>5, TwoParts
<1> QED
  BY <1>6 DEF s, t, u

\* Lists of 4 and of 1, one after the other.
LEMMA Cat41 ==
    ASSUME NEW a1, NEW a2, NEW a3, NEW a4, NEW b1
    PROVE  <<a1, a2, a3, a4>> \o <<b1>> = <<a1, a2, a3, a4, b1>>
<1> DEFINE S == {a1, a2, a3, a4, b1}
           s == <<a1, a2, a3, a4>>
           t == <<b1>>
           u == <<a1, a2, a3, a4, b1>>
<1>1. s \in Seq(S) /\ t \in Seq(S) /\ u \in Seq(S)
  OBVIOUS
<1>2. Len(s) = 4 /\ Len(t) = 1 /\ Len(u) = 5
  OBVIOUS
<1>3. \A i \in 1 .. Len(s) : u[i] = s[i]
  BY <1>2
<1>4. \A i \in Len(s) + 1 .. Len(s) + Len(t) : u[i] = t[i - Len(s)]
  BY <1>2
<1>5. Len(u) = Len(s) + Len(t)
  BY <1>2
<1> HIDE DEF s, t, u, S
<1>6. s \o t = u
  BY <1>1, <1>3, <1>4, <1>5, TwoParts
<1> QED
  BY <1>6 DEF s, t, u

\* Lists of 5 and of 1, one after the other.
LEMMA Cat51 ==
    ASSUME NEW a1, NEW a2, NEW a3, NEW a4, NEW a5, NEW b1
    PROVE  <<a1, a2, a3, a4, a5>> \o <<b1>> = <<a1, a2, a3, a4, a5, b1>>
<1> DEFINE S == {a1, a2, a3, a4, a5, b1}
           s == <<a1, a2, a3, a4, a5>>
           t == <<b1>>
           u == <<a1, a2, a3, a4, a5, b1>>
<1>1. s \in Seq(S) /\ t \in Seq(S) /\ u \in Seq(S)
  OBVIOUS
<1>2. Len(s) = 5 /\ Len(t) = 1 /\ Len(u) = 6
  OBVIOUS
<1>3. \A i \in 1 .. Len(s) : u[i] = s[i]
  BY <1>2
<1>4. \A i \in Len(s) + 1 .. Len(s) + Len(t) : u[i] = t[i - Len(s)]
  BY <1>2
<1>5. Len(u) = Len(s) + Len(t)
  BY <1>2
<1> HIDE DEF s, t, u, S
<1>6. s \o t = u
  BY <1>1, <1>3, <1>4, <1>5, TwoParts
<1> QED
  BY <1>6 DEF s, t, u

\* Lists of 6 and of 1, one after the other.
LEMMA Cat61 ==
    ASSUME NEW a1, NEW a2, NEW a3, NEW a4, NEW a5, NEW a6, NEW b1
    PROVE  <<a1, a2, a3, a4, a5, a6>> \o <<b1>> = <<a1, a2, a3, a4, a5, a6, b1>>
<1> DEFINE S == {a1, a2, a3, a4, a5, a6, b1}
           s == <<a1, a2, a3, a4, a5, a6>>
           t == <<b1>>
           u == <<a1, a2, a3, a4, a5, a6, b1>>
<1>1. s \in Seq(S) /\ t \in Seq(S) /\ u \in Seq(S)
  OBVIOUS
<1>2. Len(s) = 6 /\ Len(t) = 1 /\ Len(u) = 7
  OBVIOUS
<1>3. \A i \in 1 .. Len(s) : u[i] = s[i]
  BY <1>2
<1>4. \A i \in Len(s) + 1 .. Len(s) + Len(t) : u[i] = t[i - Len(s)]
  BY <1>2
<1>5. Len(u) = Len(s) + Len(t)
  BY <1>2
<1> HIDE DEF s, t, u, S
<1>6. s \o t = u
  BY <1>1, <1>3, <1>4, <1>5, TwoParts
<1> QED
  BY <1>6 DEF s, t, u

\* Lists of 2 and of 2, one after the other.
LEMMA Cat22 ==
    ASSUME NEW a1, NEW a2, NEW b1, NEW b2
    PROVE  <<a1, a2>> \o <<b1, b2>> = <<a1, a2, b1, b2>>
<1> DEFINE S == {a1, a2, b1, b2}
           s == <<a1, a2>>
           t == <<b1, b2>>
           u == <<a1, a2, b1, b2>>
<1>1. s \in Seq(S) /\ t \in Seq(S) /\ u \in Seq(S)
  OBVIOUS
<1>2. Len(s) = 2 /\ Len(t) = 2 /\ Len(u) = 4
  OBVIOUS
<1>3. \A i \in 1 .. Len(s) : u[i] = s[i]
  BY <1>2
<1>4. \A i \in Len(s) + 1 .. Len(s) + Len(t) : u[i] = t[i - Len(s)]
  BY <1>2
<1>5. Len(u) = Len(s) + Len(t)
  BY <1>2
<1> HIDE DEF s, t, u, S
<1>6. s \o t = u
  BY <1>1, <1>3, <1>4, <1>5, TwoParts
<1> QED
  BY <1>6 DEF s, t, u

\* Lists of 2 and of 3, one after the other.
LEMMA Cat23 ==
    ASSUME NEW a1, NEW a2, NEW b1, NEW b2, NEW b3
    PROVE  <<a1, a2>> \o <<b1, b2, b3>> = <<a1, a2, b1, b2, b3>>
<1> DEFINE S == {a1, a2, b1, b2, b3}
           s == <<a1, a2>>
           t == <<b1, b2, b3>>
           u == <<a1, a2, b1, b2, b3>>
<1>1. s \in Seq(S) /\ t \in Seq(S) /\ u \in Seq(S)
  OBVIOUS
<1>2. Len(s) = 2 /\ Len(t) = 3 /\ Len(u) = 5
  OBVIOUS
<1>3. \A i \in 1 .. Len(s) : u[i] = s[i]
  BY <1>2
<1>4. \A i \in Len(s) + 1 .. Len(s) + Len(t) : u[i] = t[i - Len(s)]
  BY <1>2
<1>5. Len(u) = Len(s) + Len(t)
  BY <1>2
<1> HIDE DEF s, t, u, S
<1>6. s \o t = u
  BY <1>1, <1>3, <1>4, <1>5, TwoParts
<1> QED
  BY <1>6 DEF s, t, u

\* Lists of 2 and of 4, one after the other.
LEMMA Cat24 ==
    ASSUME NEW a1, NEW a2, NEW b1, NEW b2, NEW b3, NEW b4
    PROVE  <<a1, a2>> \o <<b1, b2, b3, b4>> = <<a1, a2, b1, b2, b3, b4>>
<1> DEFINE S == {a1, a2, b1, b2, b3, b4}
           s == <<a1, a2>>
           t == <<b1, b2, b3, b4>>
           u == <<a1, a2, b1, b2, b3, b4>>
<1>1. s \in Seq(S) /\ t \in Seq(S) /\ u \in Seq(S)
  OBVIOUS
<1>2. Len(s) = 2 /\ Len(t) = 4 /\ Len(u) = 6
  OBVIOUS
<1>3. \A i \in 1 .. Len(s) : u[i] = s[i]
  BY <1>2
<1>4. \A i \in Len(s) + 1 .. Len(s) + Len(t) : u[i] = t[i - Len(s)]
  BY <1>2
<1>5. Len(u) = Len(s) + Len(t)
  BY <1>2
<1> HIDE DEF s, t, u, S
<1>6. s \o t = u
  BY <1>1, <1>3, <1>4, <1>5, TwoParts
<1> QED
  BY <1>6 DEF s, t, u

\* Lists of 3 and of 2, one after the other.
LEMMA Cat32 ==
    ASSUME NEW a1, NEW a2, NEW a3, NEW b1, NEW b2
    PROVE  <<a1, a2, a3>> \o <<b1, b2>> = <<a1, a2, a3, b1, b2>>
<1> DEFINE S == {a1, a2, a3, b1, b2}
           s == <<a1, a2, a3>>
           t == <<b1, b2>>
           u == <<a1, a2, a3, b1, b2>>
<1>1. s \in Seq(S) /\ t \in Seq(S) /\ u \in Seq(S)
  OBVIOUS
<1>2. Len(s) = 3 /\ Len(t) = 2 /\ Len(u) = 5
  OBVIOUS
<1>3. \A i \in 1 .. Len(s) : u[i] = s[i]
  BY <1>2
<1>4. \A i \in Len(s) + 1 .. Len(s) + Len(t) : u[i] = t[i - Len(s)]
  BY <1>2
<1>5. Len(u) = Len(s) + Len(t)
  BY <1>2
<1> HIDE DEF s, t, u, S
<1>6. s \o t = u
  BY <1>1, <1>3, <1>4, <1>5, TwoParts
<1> QED
  BY <1>6 DEF s, t, u

\* Lists of 4 and of 2, one after the other.
LEMMA Cat42 ==
    ASSUME NEW a1, NEW a2, NEW a3, NEW a4, NEW b1, NEW b2
    PROVE  <<a1, a2, a3, a4>> \o <<b1, b2>> = <<a1, a2, a3, a4, b1, b2>>
<1> DEFINE S == {a1, a2, a3, a4, b1, b2}
           s == <<a1, a2, a3, a4>>
           t == <<b1, b2>>
           u == <<a1, a2, a3, a4, b1, b2>>
<1>1. s \in Seq(S) /\ t \in Seq(S) /\ u \in Seq(S)
  OBVIOUS
<1>2. Len(s) = 4 /\ Len(t) = 2 /\ Len(u) = 6
  OBVIOUS
<1>3. \A i \in 1 .. Len(s) : u[i] = s[i]
  BY <1>2
<1>4. \A i \in Len(s) + 1 .. Len(s) + Len(t) : u[i] = t[i - Len(s)]
  BY <1>2
<1>5. Len(u) = Len(s) + Len(t)
  BY <1>2
<1> HIDE DEF s, t, u, S
<1>6. s \o t = u
  BY <1>1, <1>3, <1>4, <1>5, TwoParts
<1> QED
  BY <1>6 DEF s, t, u

\* Lists of 5 and of 2, one after the other.
LEMMA Cat52 ==
    ASSUME NEW a1, NEW a2, NEW a3, NEW a4, NEW a5, NEW b1, NEW b2
    PROVE  <<a1, a2, a3, a4, a5>> \o <<b1, b2>> = <<a1, a2, a3, a4, a5, b1, b2>>
<1> DEFINE S == {a1, a2, a3, a4, a5, b1, b2}
           s == <<a1, a2, a3, a4, a5>>
           t == <<b1, b2>>
           u == <<a1, a2, a3, a4, a5, b1, b2>>
<1>1. s \in Seq(S) /\ t \in Seq(S) /\ u \in Seq(S)
  OBVIOUS
<1>2. Len(s) = 5 /\ Len(t) = 2 /\ Len(u) = 7
  OBVIOUS
<1>3. \A i \in 1 .. Len(s) : u[i] = s[i]
  BY <1>2
<1>4. \A i \in Len(s) + 1 .. Len(s) + Len(t) : u[i] = t[i - Len(s)]
  BY <1>2
<1>5. Len(u) = Len(s) + Len(t)
  BY <1>2
<1> HIDE DEF s, t, u, S
<1>6. s \o t = u
  BY <1>1, <1>3, <1>4, <1>5, TwoParts
<1> QED
  BY <1>6 DEF s, t, u

F(name, type) == [name |-> name, type |-> type]

\* The fields of one type, one by one.
LEMMA Fields1 == ASSUME NEW a, NEW T PROVE Fields(<<a>>, T) = <<F(a, T)>>
  BY DEF Fields, F
\* Two fields of one type, one by one.
LEMMA Fields2 == ASSUME NEW a, NEW b, NEW T PROVE Fields(<<a, b>>, T) = <<F(a, T), F(b, T)>>
  BY DEF Fields, F
\* Three fields of one type, one by one.
LEMMA Fields3 == ASSUME NEW a, NEW b, NEW c, NEW T
                 PROVE Fields(<<a, b, c>>, T) = <<F(a, T), F(b, T), F(c, T)>>
  BY DEF Fields, F
\* Four fields of one type, one by one.
LEMMA Fields4 == ASSUME NEW a, NEW b, NEW c, NEW d, NEW T
                 PROVE Fields(<<a, b, c, d>>, T) = <<F(a, T), F(b, T), F(c, T), F(d, T)>>
  BY DEF Fields, F

\* The environment field that frames share.
LEMMA EnvIs == Env = <<F("env", Ref("envs"))>>
  BY Fields1 DEF Env
\* The field for the frame below, that frames share.
LEMMA KIs == K = <<F("k", Ref("conts"))>>
  BY Fields1 DEF K

\* The writer's tables of the heap, by name.
LEMMA WrittenIs ==
    /\ Written["Value"] = WriteValue
    /\ Written["Object"] = WriteObject
    /\ Written["Property"] = WriteProperty
    /\ Written["ObjectKind"] = WriteObjectKind
    /\ Written["Env"] = WriteEnv
    /\ Written["Binding"] = WriteBinding
    /\ Written["Handler"] = WriteHandler
    /\ Written["Control"] = WriteControl
    /\ Written["FiberStatus"] = WriteFiberStatus
    /\ Written["Fiber"] = WriteFiber
    /\ Written["Kont"] = WriteKont
  BY WrittenAssumption DEF WriterTables

\* The writer's fields of the value Undefined.
LEMMA WValueUndefined ==
    /\ VariantIn(Written["Value"], "Undefined")
       = Variant(0, "Undefined",
           <<>>)
    /\ \E v \in Written["Value"] : v.is = "Undefined"
<1>1. VariantIn(Written["Value"], "Undefined") = Variant(0, "Undefined",
            <<>>)
  BY WrittenIs DEF VariantIn, WriteValue, Variant
<1>2. \E v \in Written["Value"] : v.is = "Undefined"
  BY WrittenIs DEF WriteValue, Variant
<1> QED
  BY <1>1, <1>2

\* The writer's fields of the value Int.
LEMMA WValueInt ==
    /\ VariantIn(Written["Value"], "Int")
       = Variant(3, "Int",
           <<F("n", Num("i32"))>>)
    /\ \E v \in Written["Value"] : v.is = "Int"
<1>1. Fields(<<"n">>, Num("i32")) = <<F("n", Num("i32"))>>
  BY Fields1
<1>2. VariantIn(Written["Value"], "Int") = Variant(3, "Int",
            Fields(<<"n">>, Num("i32")))
  BY WrittenIs DEF VariantIn, WriteValue, Variant
<1>3. \E v \in Written["Value"] : v.is = "Int"
  BY WrittenIs DEF WriteValue, Variant
<1> QED
  BY <1>1, <1>2, <1>3

\* The writer's fields of the value String.
LEMMA WValueString ==
    /\ VariantIn(Written["Value"], "String")
       = Variant(5, "String",
           <<F("s", Num("u32"))>>)
    /\ \E v \in Written["Value"] : v.is = "String"
<1>1. Ids(<<"s">>) = <<F("s", Num("u32"))>>
  BY Fields1 DEF Ids
<1>2. VariantIn(Written["Value"], "String") = Variant(5, "String",
            Ids(<<"s">>))
  BY WrittenIs DEF VariantIn, WriteValue, Variant
<1>3. \E v \in Written["Value"] : v.is = "String"
  BY WrittenIs DEF WriteValue, Variant
<1> QED
  BY <1>1, <1>2, <1>3

\* The writer's fields of the value Object.
LEMMA WValueObject ==
    /\ VariantIn(Written["Value"], "Object")
       = Variant(6, "Object",
           <<F("o", Ref("objects"))>>)
    /\ \E v \in Written["Value"] : v.is = "Object"
<1>1. Fields(<<"o">>, Ref("objects")) = <<F("o", Ref("objects"))>>
  BY Fields1
<1>2. VariantIn(Written["Value"], "Object") = Variant(6, "Object",
            Fields(<<"o">>, Ref("objects")))
  BY WrittenIs DEF VariantIn, WriteValue, Variant
<1>3. \E v \in Written["Value"] : v.is = "Object"
  BY WrittenIs DEF WriteValue, Variant
<1> QED
  BY <1>1, <1>2, <1>3

\* The writer's fields of the value Function.
LEMMA WValueFunction ==
    /\ VariantIn(Written["Value"], "Function")
       = Variant(7, "Function",
           <<F("o", Ref("objects"))>>)
    /\ \E v \in Written["Value"] : v.is = "Function"
<1>1. Fields(<<"o">>, Ref("objects")) = <<F("o", Ref("objects"))>>
  BY Fields1
<1>2. VariantIn(Written["Value"], "Function") = Variant(7, "Function",
            Fields(<<"o">>, Ref("objects")))
  BY WrittenIs DEF VariantIn, WriteValue, Variant
<1>3. \E v \in Written["Value"] : v.is = "Function"
  BY WrittenIs DEF WriteValue, Variant
<1> QED
  BY <1>1, <1>2, <1>3

\* The writer's fields of the value Handler.
LEMMA WValueHandler ==
    /\ VariantIn(Written["Value"], "Handler")
       = Variant(9, "Handler",
           <<F("h", Ref("handlers"))>>)
    /\ \E v \in Written["Value"] : v.is = "Handler"
<1>1. Fields(<<"h">>, Ref("handlers")) = <<F("h", Ref("handlers"))>>
  BY Fields1
<1>2. VariantIn(Written["Value"], "Handler") = Variant(9, "Handler",
            Fields(<<"h">>, Ref("handlers")))
  BY WrittenIs DEF VariantIn, WriteValue, Variant
<1>3. \E v \in Written["Value"] : v.is = "Handler"
  BY WrittenIs DEF WriteValue, Variant
<1> QED
  BY <1>1, <1>2, <1>3

\* The writer's fields of the value Continuation.
LEMMA WValueContinuation ==
    /\ VariantIn(Written["Value"], "Continuation")
       = Variant(10, "Continuation",
           <<F("k", Ref("conts")), F("env", Ref("envs"))>>)
    /\ \E v \in Written["Value"] : v.is = "Continuation"
<1>1. <<F("k", Ref("conts"))>>
     \o <<F("env", Ref("envs"))>>
     = <<F("k", Ref("conts")), F("env", Ref("envs"))>>
  BY Cat11
<1>2. VariantIn(Written["Value"], "Continuation") = Variant(10, "Continuation",
            K \o Env)
  BY WrittenIs DEF VariantIn, WriteValue, Variant
<1>3. \E v \in Written["Value"] : v.is = "Continuation"
  BY WrittenIs DEF WriteValue, Variant
<1> QED
  BY <1>1, KIs, EnvIs, <1>2, <1>3

\* The writer's fields of an object.
LEMMA WObjectObject ==
    /\ VariantIn(Written["Object"], "Object")
       = Variant(Untagged, "Object",
           <<F("properties", Many(One("Property"))),
             F("prototype", Opt(Ref("objects"))), F("kind", One("ObjectKind"))>>)
    /\ \E v \in Written["Object"] : v.is = "Object"
<1>1. Fields(<<"properties">>, Many(One("Property"))) = <<F("properties", Many(One("Property")))>>
  BY Fields1
<1>2. Fields(<<"prototype">>, Opt(Ref("objects"))) = <<F("prototype", Opt(Ref("objects")))>>
  BY Fields1
<1>3. Fields(<<"kind">>, One("ObjectKind")) = <<F("kind", One("ObjectKind"))>>
  BY Fields1
<1>4. <<F("properties", Many(One("Property")))>>
     \o <<F("prototype", Opt(Ref("objects")))>>
     = <<F("properties", Many(One("Property"))),
          F("prototype", Opt(Ref("objects")))>>
  BY Cat11
<1>5. <<F("properties", Many(One("Property"))),
          F("prototype", Opt(Ref("objects")))>>
     \o <<F("kind", One("ObjectKind"))>>
     = <<F("properties", Many(One("Property"))),
          F("prototype", Opt(Ref("objects"))), F("kind", One("ObjectKind"))>>
  BY Cat21
<1>6. VariantIn(Written["Object"], "Object") = Variant(Untagged, "Object",
            Fields(<<"properties">>, Many(One("Property")))
            \o Fields(<<"prototype">>, Opt(Ref("objects")))
            \o Fields(<<"kind">>, One("ObjectKind")))
  BY WrittenIs DEF VariantIn, WriteObject, Variant, Untagged
<1>7. \E v \in Written["Object"] : v.is = "Object"
  BY WrittenIs DEF WriteObject, Variant
<1> QED
  BY <1>1, <1>2, <1>3, <1>4, <1>5, <1>6, <1>7

\* The writer's fields of a property.
LEMMA WPropertyProperty ==
    /\ VariantIn(Written["Property"], "Property")
       = Variant(Untagged, "Property",
           <<F("key", Num("u32")), F("value", One("Value")),
             F("writable", Num("u8")), F("enumerable", Num("u8")),
             F("configurable", Num("u8"))>>)
    /\ \E v \in Written["Property"] : v.is = "Property"
<1>1. Ids(<<"key">>) = <<F("key", Num("u32"))>>
  BY Fields1 DEF Ids
<1>2. Fields(<<"value">>, One("Value")) = <<F("value", One("Value"))>>
  BY Fields1
<1>3. Fields(<<"writable", "enumerable", "configurable">>, Num("u8"))
          = <<F("writable", Num("u8")), F("enumerable", Num("u8")),
          F("configurable", Num("u8"))>>
  BY Fields3
<1>4. <<F("key", Num("u32"))>>
     \o <<F("value", One("Value"))>>
     = <<F("key", Num("u32")), F("value", One("Value"))>>
  BY Cat11
<1>5. <<F("key", Num("u32")), F("value", One("Value"))>>
     \o <<F("writable", Num("u8")), F("enumerable", Num("u8")),
          F("configurable", Num("u8"))>>
     = <<F("key", Num("u32")), F("value", One("Value")),
          F("writable", Num("u8")), F("enumerable", Num("u8")),
          F("configurable", Num("u8"))>>
  BY Cat23
<1>6. VariantIn(Written["Property"], "Property") = Variant(Untagged, "Property",
            Ids(<<"key">>) \o Fields(<<"value">>, One("Value"))
            \o Fields(<<"writable", "enumerable", "configurable">>, Num("u8")))
  BY WrittenIs DEF VariantIn, WriteProperty, Variant, Untagged
<1>7. \E v \in Written["Property"] : v.is = "Property"
  BY WrittenIs DEF WriteProperty, Variant
<1> QED
  BY <1>1, <1>2, <1>3, <1>4, <1>5, <1>6, <1>7

\* The writer's fields of the kind of object Ordinary.
LEMMA WObjectKindOrdinary ==
    /\ VariantIn(Written["ObjectKind"], "Ordinary")
       = Variant(0, "Ordinary",
           <<>>)
    /\ \E v \in Written["ObjectKind"] : v.is = "Ordinary"
<1>1. VariantIn(Written["ObjectKind"], "Ordinary") = Variant(0, "Ordinary",
            <<>>)
  BY WrittenIs DEF VariantIn, WriteObjectKind, Variant
<1>2. \E v \in Written["ObjectKind"] : v.is = "Ordinary"
  BY WrittenIs DEF WriteObjectKind, Variant
<1> QED
  BY <1>1, <1>2

\* The writer's fields of the kind of object Function.
LEMMA WObjectKindFunction ==
    /\ VariantIn(Written["ObjectKind"], "Function")
       = Variant(2, "Function",
           <<F("params_start", Num("u32")), F("params_count", Num("u16")),
             F("body", Num("u32")), F("expr_body", Opt(Num("u32"))),
             F("env", Ref("envs")), F("name", Opt(Num("u32")))>>)
    /\ \E v \in Written["ObjectKind"] : v.is = "Function"
<1>1. Ids(<<"params_start">>) = <<F("params_start", Num("u32"))>>
  BY Fields1 DEF Ids
<1>2. Fields(<<"params_count">>, Num("u16")) = <<F("params_count", Num("u16"))>>
  BY Fields1
<1>3. Ids(<<"body">>) = <<F("body", Num("u32"))>>
  BY Fields1 DEF Ids
<1>4. Fields(<<"expr_body">>, Opt(Num("u32"))) = <<F("expr_body", Opt(Num("u32")))>>
  BY Fields1
<1>5. Fields(<<"name">>, Opt(Num("u32"))) = <<F("name", Opt(Num("u32")))>>
  BY Fields1
<1>6. <<F("params_start", Num("u32"))>>
     \o <<F("params_count", Num("u16"))>>
     = <<F("params_start", Num("u32")), F("params_count", Num("u16"))>>
  BY Cat11
<1>7. <<F("params_start", Num("u32")), F("params_count", Num("u16"))>>
     \o <<F("body", Num("u32"))>>
     = <<F("params_start", Num("u32")), F("params_count", Num("u16")),
          F("body", Num("u32"))>>
  BY Cat21
<1>8. <<F("params_start", Num("u32")), F("params_count", Num("u16")),
          F("body", Num("u32"))>>
     \o <<F("expr_body", Opt(Num("u32")))>>
     = <<F("params_start", Num("u32")), F("params_count", Num("u16")),
          F("body", Num("u32")), F("expr_body", Opt(Num("u32")))>>
  BY Cat31
<1>9. <<F("params_start", Num("u32")), F("params_count", Num("u16")),
          F("body", Num("u32")), F("expr_body", Opt(Num("u32")))>>
     \o <<F("env", Ref("envs"))>>
     = <<F("params_start", Num("u32")), F("params_count", Num("u16")),
          F("body", Num("u32")), F("expr_body", Opt(Num("u32"))),
          F("env", Ref("envs"))>>
  BY Cat41
<1>10. <<F("params_start", Num("u32")), F("params_count", Num("u16")),
          F("body", Num("u32")), F("expr_body", Opt(Num("u32"))),
          F("env", Ref("envs"))>>
     \o <<F("name", Opt(Num("u32")))>>
     = <<F("params_start", Num("u32")), F("params_count", Num("u16")),
          F("body", Num("u32")), F("expr_body", Opt(Num("u32"))),
          F("env", Ref("envs")), F("name", Opt(Num("u32")))>>
  BY Cat51
<1>11. VariantIn(Written["ObjectKind"], "Function") = Variant(2, "Function",
            Ids(<<"params_start">>) \o Fields(<<"params_count">>, Num("u16")) \o Ids(<<"body">>)
            \o Fields(<<"expr_body">>, Opt(Num("u32"))) \o Env
            \o Fields(<<"name">>, Opt(Num("u32"))))
  BY WrittenIs DEF VariantIn, WriteObjectKind, Variant
<1>12. \E v \in Written["ObjectKind"] : v.is = "Function"
  BY WrittenIs DEF WriteObjectKind, Variant
<1> QED
  BY <1>1, <1>2, <1>3, <1>4, <1>5, <1>6, <1>7, <1>8, <1>9, <1>10, EnvIs, <1>11, <1>12

\* The writer's fields of an environment.
LEMMA WEnvEnv ==
    /\ VariantIn(Written["Env"], "Env")
       = Variant(Untagged, "Env",
           <<F("bindings", Many(One("Binding"))), F("parent", Opt(Ref("envs")))>>)
    /\ \E v \in Written["Env"] : v.is = "Env"
<1>1. Fields(<<"bindings">>, Many(One("Binding"))) = <<F("bindings", Many(One("Binding")))>>
  BY Fields1
<1>2. Fields(<<"parent">>, Opt(Ref("envs"))) = <<F("parent", Opt(Ref("envs")))>>
  BY Fields1
<1>3. <<F("bindings", Many(One("Binding")))>>
     \o <<F("parent", Opt(Ref("envs")))>>
     = <<F("bindings", Many(One("Binding"))), F("parent", Opt(Ref("envs")))>>
  BY Cat11
<1>4. VariantIn(Written["Env"], "Env") = Variant(Untagged, "Env",
            Fields(<<"bindings">>, Many(One("Binding")))
            \o Fields(<<"parent">>, Opt(Ref("envs"))))
  BY WrittenIs DEF VariantIn, WriteEnv, Variant, Untagged
<1>5. \E v \in Written["Env"] : v.is = "Env"
  BY WrittenIs DEF WriteEnv, Variant
<1> QED
  BY <1>1, <1>2, <1>3, <1>4, <1>5

\* The writer's fields of a binding.
LEMMA WBindingBinding ==
    /\ VariantIn(Written["Binding"], "Binding")
       = Variant(Untagged, "Binding",
           <<F("key", Num("u32")), F("value", One("Value"))>>)
    /\ \E v \in Written["Binding"] : v.is = "Binding"
<1>1. Ids(<<"key">>) = <<F("key", Num("u32"))>>
  BY Fields1 DEF Ids
<1>2. Fields(<<"value">>, One("Value")) = <<F("value", One("Value"))>>
  BY Fields1
<1>3. <<F("key", Num("u32"))>>
     \o <<F("value", One("Value"))>>
     = <<F("key", Num("u32")), F("value", One("Value"))>>
  BY Cat11
<1>4. VariantIn(Written["Binding"], "Binding") = Variant(Untagged, "Binding",
            Ids(<<"key">>) \o Fields(<<"value">>, One("Value")))
  BY WrittenIs DEF VariantIn, WriteBinding, Variant, Untagged
<1>5. \E v \in Written["Binding"] : v.is = "Binding"
  BY WrittenIs DEF WriteBinding, Variant
<1> QED
  BY <1>1, <1>2, <1>3, <1>4, <1>5

\* The writer's fields of a handler.
LEMMA WHandlerHandler ==
    /\ VariantIn(Written["Handler"], "Handler")
       = Variant(Untagged, "Handler",
           <<F("clauses_start", Num("u32")), F("clauses_count", Num("u16")),
             F("return_param", Num("u32")), F("return_body", Num("u32")),
             F("env", Ref("envs"))>>)
    /\ \E v \in Written["Handler"] : v.is = "Handler"
<1>1. Ids(<<"clauses_start">>) = <<F("clauses_start", Num("u32"))>>
  BY Fields1 DEF Ids
<1>2. Fields(<<"clauses_count">>, Num("u16")) = <<F("clauses_count", Num("u16"))>>
  BY Fields1
<1>3. Ids(<<"return_param", "return_body">>) = <<F("return_param", Num("u32")),
                                                 F("return_body", Num("u32"))>>
  BY Fields2 DEF Ids
<1>4. <<F("clauses_start", Num("u32"))>>
     \o <<F("clauses_count", Num("u16"))>>
     = <<F("clauses_start", Num("u32")), F("clauses_count", Num("u16"))>>
  BY Cat11
<1>5. <<F("clauses_start", Num("u32")), F("clauses_count", Num("u16"))>>
     \o <<F("return_param", Num("u32")), F("return_body", Num("u32"))>>
     = <<F("clauses_start", Num("u32")), F("clauses_count", Num("u16")),
          F("return_param", Num("u32")), F("return_body", Num("u32"))>>
  BY Cat22
<1>6. <<F("clauses_start", Num("u32")), F("clauses_count", Num("u16")),
          F("return_param", Num("u32")), F("return_body", Num("u32"))>>
     \o <<F("env", Ref("envs"))>>
     = <<F("clauses_start", Num("u32")), F("clauses_count", Num("u16")),
          F("return_param", Num("u32")), F("return_body", Num("u32")),
          F("env", Ref("envs"))>>
  BY Cat41
<1>7. VariantIn(Written["Handler"], "Handler") = Variant(Untagged, "Handler",
            Ids(<<"clauses_start">>) \o Fields(<<"clauses_count">>, Num("u16"))
            \o Ids(<<"return_param", "return_body">>) \o Env)
  BY WrittenIs DEF VariantIn, WriteHandler, Variant, Untagged
<1>8. \E v \in Written["Handler"] : v.is = "Handler"
  BY WrittenIs DEF WriteHandler, Variant
<1> QED
  BY <1>1, <1>2, <1>3, <1>4, <1>5, <1>6, EnvIs, <1>7, <1>8

\* The writer's fields of the control Expr.
LEMMA WControlExpr ==
    /\ VariantIn(Written["Control"], "Expr")
       = Variant(0, "Expr",
           <<F("e", Num("u32"))>>)
    /\ \E v \in Written["Control"] : v.is = "Expr"
<1>1. Ids(<<"e">>) = <<F("e", Num("u32"))>>
  BY Fields1 DEF Ids
<1>2. VariantIn(Written["Control"], "Expr") = Variant(0, "Expr",
            Ids(<<"e">>))
  BY WrittenIs DEF VariantIn, WriteControl, Variant
<1>3. \E v \in Written["Control"] : v.is = "Expr"
  BY WrittenIs DEF WriteControl, Variant
<1> QED
  BY <1>1, <1>2, <1>3

\* The writer's fields of the control Value.
LEMMA WControlValue ==
    /\ VariantIn(Written["Control"], "Value")
       = Variant(2, "Value",
           <<F("v", One("Value"))>>)
    /\ \E v \in Written["Control"] : v.is = "Value"
<1>1. Fields(<<"v">>, One("Value")) = <<F("v", One("Value"))>>
  BY Fields1
<1>2. VariantIn(Written["Control"], "Value") = Variant(2, "Value",
            Fields(<<"v">>, One("Value")))
  BY WrittenIs DEF VariantIn, WriteControl, Variant
<1>3. \E v \in Written["Control"] : v.is = "Value"
  BY WrittenIs DEF WriteControl, Variant
<1> QED
  BY <1>1, <1>2, <1>3

\* The writer's fields of the control Returning.
LEMMA WControlReturning ==
    /\ VariantIn(Written["Control"], "Returning")
       = Variant(3, "Returning",
           <<F("v", One("Value"))>>)
    /\ \E v \in Written["Control"] : v.is = "Returning"
<1>1. Fields(<<"v">>, One("Value")) = <<F("v", One("Value"))>>
  BY Fields1
<1>2. VariantIn(Written["Control"], "Returning") = Variant(3, "Returning",
            Fields(<<"v">>, One("Value")))
  BY WrittenIs DEF VariantIn, WriteControl, Variant
<1>3. \E v \in Written["Control"] : v.is = "Returning"
  BY WrittenIs DEF WriteControl, Variant
<1> QED
  BY <1>1, <1>2, <1>3

\* The writer's fields of the control Halted.
LEMMA WControlHalted ==
    /\ VariantIn(Written["Control"], "Halted")
       = Variant(4, "Halted",
           <<F("v", One("Value"))>>)
    /\ \E v \in Written["Control"] : v.is = "Halted"
<1>1. Fields(<<"v">>, One("Value")) = <<F("v", One("Value"))>>
  BY Fields1
<1>2. VariantIn(Written["Control"], "Halted") = Variant(4, "Halted",
            Fields(<<"v">>, One("Value")))
  BY WrittenIs DEF VariantIn, WriteControl, Variant
<1>3. \E v \in Written["Control"] : v.is = "Halted"
  BY WrittenIs DEF WriteControl, Variant
<1> QED
  BY <1>1, <1>2, <1>3

\* The writer's fields of the control Suspend.
LEMMA WControlSuspend ==
    /\ VariantIn(Written["Control"], "Suspend")
       = Variant(5, "Suspend",
           <<F("effect", Num("u32")), F("args", Many(One("Value")))>>)
    /\ \E v \in Written["Control"] : v.is = "Suspend"
<1>1. Ids(<<"effect">>) = <<F("effect", Num("u32"))>>
  BY Fields1 DEF Ids
<1>2. Fields(<<"args">>, Many(One("Value"))) = <<F("args", Many(One("Value")))>>
  BY Fields1
<1>3. <<F("effect", Num("u32"))>>
     \o <<F("args", Many(One("Value")))>>
     = <<F("effect", Num("u32")), F("args", Many(One("Value")))>>
  BY Cat11
<1>4. VariantIn(Written["Control"], "Suspend") = Variant(5, "Suspend",
            Ids(<<"effect">>) \o Fields(<<"args">>, Many(One("Value"))))
  BY WrittenIs DEF VariantIn, WriteControl, Variant
<1>5. \E v \in Written["Control"] : v.is = "Suspend"
  BY WrittenIs DEF WriteControl, Variant
<1> QED
  BY <1>1, <1>2, <1>3, <1>4, <1>5

\* The writer's fields of the status Ready.
LEMMA WFiberStatusReady ==
    /\ VariantIn(Written["FiberStatus"], "Ready")
       = Variant(0, "Ready",
           <<>>)
    /\ \E v \in Written["FiberStatus"] : v.is = "Ready"
<1>1. VariantIn(Written["FiberStatus"], "Ready") = Variant(0, "Ready",
            <<>>)
  BY WrittenIs DEF VariantIn, WriteFiberStatus, Variant
<1>2. \E v \in Written["FiberStatus"] : v.is = "Ready"
  BY WrittenIs DEF WriteFiberStatus, Variant
<1> QED
  BY <1>1, <1>2

\* The writer's fields of the status Running.
LEMMA WFiberStatusRunning ==
    /\ VariantIn(Written["FiberStatus"], "Running")
       = Variant(1, "Running",
           <<>>)
    /\ \E v \in Written["FiberStatus"] : v.is = "Running"
<1>1. VariantIn(Written["FiberStatus"], "Running") = Variant(1, "Running",
            <<>>)
  BY WrittenIs DEF VariantIn, WriteFiberStatus, Variant
<1>2. \E v \in Written["FiberStatus"] : v.is = "Running"
  BY WrittenIs DEF WriteFiberStatus, Variant
<1> QED
  BY <1>1, <1>2

\* The writer's fields of the status Completed.
LEMMA WFiberStatusCompleted ==
    /\ VariantIn(Written["FiberStatus"], "Completed")
       = Variant(3, "Completed",
           <<F("v", One("Value"))>>)
    /\ \E v \in Written["FiberStatus"] : v.is = "Completed"
<1>1. Fields(<<"v">>, One("Value")) = <<F("v", One("Value"))>>
  BY Fields1
<1>2. VariantIn(Written["FiberStatus"], "Completed") = Variant(3, "Completed",
            Fields(<<"v">>, One("Value")))
  BY WrittenIs DEF VariantIn, WriteFiberStatus, Variant
<1>3. \E v \in Written["FiberStatus"] : v.is = "Completed"
  BY WrittenIs DEF WriteFiberStatus, Variant
<1> QED
  BY <1>1, <1>2, <1>3

\* The writer's fields of a fiber.
LEMMA WFiberFiber ==
    /\ VariantIn(Written["Fiber"], "Fiber")
       = Variant(Untagged, "Fiber",
           <<F("id", Num("u32")), F("control", One("Control")),
             F("cont", Ref("conts")), F("env", Ref("envs")),
             F("status", One("FiberStatus")), F("meter", Num("u32"))>>)
    /\ \E v \in Written["Fiber"] : v.is = "Fiber"
<1>1. Ids(<<"id">>) = <<F("id", Num("u32"))>>
  BY Fields1 DEF Ids
<1>2. Fields(<<"control">>, One("Control")) = <<F("control", One("Control"))>>
  BY Fields1
<1>3. Fields(<<"cont">>, Ref("conts")) = <<F("cont", Ref("conts"))>>
  BY Fields1
<1>4. Fields(<<"status">>, One("FiberStatus")) = <<F("status", One("FiberStatus"))>>
  BY Fields1
<1>5. Ids(<<"meter">>) = <<F("meter", Num("u32"))>>
  BY Fields1 DEF Ids
<1>6. <<F("id", Num("u32"))>>
     \o <<F("control", One("Control"))>>
     = <<F("id", Num("u32")), F("control", One("Control"))>>
  BY Cat11
<1>7. <<F("id", Num("u32")), F("control", One("Control"))>>
     \o <<F("cont", Ref("conts"))>>
     = <<F("id", Num("u32")), F("control", One("Control")),
          F("cont", Ref("conts"))>>
  BY Cat21
<1>8. <<F("id", Num("u32")), F("control", One("Control")),
          F("cont", Ref("conts"))>>
     \o <<F("env", Ref("envs"))>>
     = <<F("id", Num("u32")), F("control", One("Control")),
          F("cont", Ref("conts")), F("env", Ref("envs"))>>
  BY Cat31
<1>9. <<F("id", Num("u32")), F("control", One("Control")),
          F("cont", Ref("conts")), F("env", Ref("envs"))>>
     \o <<F("status", One("FiberStatus"))>>
     = <<F("id", Num("u32")), F("control", One("Control")),
          F("cont", Ref("conts")), F("env", Ref("envs")),
          F("status", One("FiberStatus"))>>
  BY Cat41
<1>10. <<F("id", Num("u32")), F("control", One("Control")),
          F("cont", Ref("conts")), F("env", Ref("envs")),
          F("status", One("FiberStatus"))>>
     \o <<F("meter", Num("u32"))>>
     = <<F("id", Num("u32")), F("control", One("Control")),
          F("cont", Ref("conts")), F("env", Ref("envs")),
          F("status", One("FiberStatus")), F("meter", Num("u32"))>>
  BY Cat51
<1>11. VariantIn(Written["Fiber"], "Fiber") = Variant(Untagged, "Fiber",
            Ids(<<"id">>) \o Fields(<<"control">>, One("Control"))
            \o Fields(<<"cont">>, Ref("conts")) \o Env
            \o Fields(<<"status">>, One("FiberStatus")) \o Ids(<<"meter">>))
  BY WrittenIs DEF VariantIn, WriteFiber, Variant, Untagged
<1>12. \E v \in Written["Fiber"] : v.is = "Fiber"
  BY WrittenIs DEF WriteFiber, Variant
<1> QED
  BY <1>1, <1>2, <1>3, <1>4, <1>5, <1>6, <1>7, <1>8, <1>9, <1>10, EnvIs, <1>11, <1>12

\* Halt is in one of the writer's tables of frames only.
LEMMA WKontOnlyHalt ==
    LET it == Variant(0, "Halt",
            <<>>) IN
    it \in WriteKont /\ it.is = "Halt" /\ \A v \in WriteKont : v.is = "Halt" => v = it
<1> DEFINE it == Variant(0, "Halt",
            <<>>)
<1>1. \A v \in WriteOperatorKonts : v.is = "Halt" => v = it
  BY DEF WriteOperatorKonts, Variant
<1>2. \A v \in WriteControlKonts : v.is = "Halt" => v = it
  BY DEF WriteControlKonts, Variant
<1>3. \A v \in WriteCollectingKonts : v.is = "Halt" => v = it
  BY DEF WriteCollectingKonts, Variant
<1>4. \A v \in WriteEffectKonts : v.is = "Halt" => v = it
  BY DEF WriteEffectKonts, Variant
<1>5. it \in WriteOperatorKonts /\ it.is = "Halt"
  BY DEF WriteOperatorKonts, Variant
<1> QED
  BY <1>1, <1>2, <1>3, <1>4, <1>5 DEF WriteKont

\* The writer's fields of the frame Halt.
LEMMA WKontHalt ==
    /\ VariantIn(Written["Kont"], "Halt")
       = Variant(0, "Halt",
           <<>>)
    /\ \E v \in Written["Kont"] : v.is = "Halt"
<1>1. VariantIn(Written["Kont"], "Halt") = Variant(0, "Halt",
            <<>>)
  BY WKontOnlyHalt, WrittenIs DEF VariantIn
<1>2. \E v \in Written["Kont"] : v.is = "Halt"
  BY WKontOnlyHalt, WrittenIs
<1> QED
  BY <1>1, <1>2

\* MemberK is in one of the writer's tables of frames only.
LEMMA WKontOnlyMemberK ==
    LET it == Variant(7, "MemberK",
            Ids(<<"property">>) \o K) IN
    it \in WriteKont /\ it.is = "MemberK" /\ \A v \in WriteKont : v.is = "MemberK" => v = it
<1> DEFINE it == Variant(7, "MemberK",
            Ids(<<"property">>) \o K)
<1>1. \A v \in WriteOperatorKonts : v.is = "MemberK" => v = it
  BY DEF WriteOperatorKonts, Variant
<1>2. \A v \in WriteControlKonts : v.is = "MemberK" => v = it
  BY DEF WriteControlKonts, Variant
<1>3. \A v \in WriteCollectingKonts : v.is = "MemberK" => v = it
  BY DEF WriteCollectingKonts, Variant
<1>4. \A v \in WriteEffectKonts : v.is = "MemberK" => v = it
  BY DEF WriteEffectKonts, Variant
<1>5. it \in WriteOperatorKonts /\ it.is = "MemberK"
  BY DEF WriteOperatorKonts, Variant
<1> QED
  BY <1>1, <1>2, <1>3, <1>4, <1>5 DEF WriteKont

\* The writer's fields of the frame MemberK.
LEMMA WKontMemberK ==
    /\ VariantIn(Written["Kont"], "MemberK")
       = Variant(7, "MemberK",
           <<F("property", Num("u32")), F("k", Ref("conts"))>>)
    /\ \E v \in Written["Kont"] : v.is = "MemberK"
<1>1. Ids(<<"property">>) = <<F("property", Num("u32"))>>
  BY Fields1 DEF Ids
<1>2. <<F("property", Num("u32"))>>
     \o <<F("k", Ref("conts"))>>
     = <<F("property", Num("u32")), F("k", Ref("conts"))>>
  BY Cat11
<1>3. VariantIn(Written["Kont"], "MemberK") = Variant(7, "MemberK",
            Ids(<<"property">>) \o K)
  BY WKontOnlyMemberK, WrittenIs DEF VariantIn
<1>4. \E v \in Written["Kont"] : v.is = "MemberK"
  BY WKontOnlyMemberK, WrittenIs
<1> QED
  BY <1>1, <1>2, KIs, <1>3, <1>4

\* AssignVarK is in one of the writer's tables of frames only.
LEMMA WKontOnlyAssignVarK ==
    LET it == Variant(10, "AssignVarK",
            Ids(<<"name">>) \o Env \o K) IN
    it \in WriteKont /\ it.is = "AssignVarK" /\ \A v \in WriteKont : v.is = "AssignVarK" => v = it
<1> DEFINE it == Variant(10, "AssignVarK",
            Ids(<<"name">>) \o Env \o K)
<1>1. \A v \in WriteOperatorKonts : v.is = "AssignVarK" => v = it
  BY DEF WriteOperatorKonts, Variant
<1>2. \A v \in WriteControlKonts : v.is = "AssignVarK" => v = it
  BY DEF WriteControlKonts, Variant
<1>3. \A v \in WriteCollectingKonts : v.is = "AssignVarK" => v = it
  BY DEF WriteCollectingKonts, Variant
<1>4. \A v \in WriteEffectKonts : v.is = "AssignVarK" => v = it
  BY DEF WriteEffectKonts, Variant
<1>5. it \in WriteOperatorKonts /\ it.is = "AssignVarK"
  BY DEF WriteOperatorKonts, Variant
<1> QED
  BY <1>1, <1>2, <1>3, <1>4, <1>5 DEF WriteKont

\* The writer's fields of the frame AssignVarK.
LEMMA WKontAssignVarK ==
    /\ VariantIn(Written["Kont"], "AssignVarK")
       = Variant(10, "AssignVarK",
           <<F("name", Num("u32")), F("env", Ref("envs")), F("k", Ref("conts"))>>)
    /\ \E v \in Written["Kont"] : v.is = "AssignVarK"
<1>1. Ids(<<"name">>) = <<F("name", Num("u32"))>>
  BY Fields1 DEF Ids
<1>2. <<F("name", Num("u32"))>>
     \o <<F("env", Ref("envs"))>>
     = <<F("name", Num("u32")), F("env", Ref("envs"))>>
  BY Cat11
<1>3. <<F("name", Num("u32")), F("env", Ref("envs"))>>
     \o <<F("k", Ref("conts"))>>
     = <<F("name", Num("u32")), F("env", Ref("envs")), F("k", Ref("conts"))>>
  BY Cat21
<1>4. VariantIn(Written["Kont"], "AssignVarK") = Variant(10, "AssignVarK",
            Ids(<<"name">>) \o Env \o K)
  BY WKontOnlyAssignVarK, WrittenIs DEF VariantIn
<1>5. \E v \in Written["Kont"] : v.is = "AssignVarK"
  BY WKontOnlyAssignVarK, WrittenIs
<1> QED
  BY <1>1, <1>2, <1>3, EnvIs, KIs, <1>4, <1>5

\* CalleeK is in one of the writer's tables of frames only.
LEMMA WKontOnlyCalleeK ==
    LET it == Variant(25, "CalleeK",
            Ids(<<"args_start">>) \o U16(<<"args_count">>) \o Env \o K) IN
    it \in WriteKont /\ it.is = "CalleeK" /\ \A v \in WriteKont : v.is = "CalleeK" => v = it
<1> DEFINE it == Variant(25, "CalleeK",
            Ids(<<"args_start">>) \o U16(<<"args_count">>) \o Env \o K)
<1>1. \A v \in WriteOperatorKonts : v.is = "CalleeK" => v = it
  BY DEF WriteOperatorKonts, Variant
<1>2. \A v \in WriteControlKonts : v.is = "CalleeK" => v = it
  BY DEF WriteControlKonts, Variant
<1>3. \A v \in WriteCollectingKonts : v.is = "CalleeK" => v = it
  BY DEF WriteCollectingKonts, Variant
<1>4. \A v \in WriteEffectKonts : v.is = "CalleeK" => v = it
  BY DEF WriteEffectKonts, Variant
<1>5. it \in WriteControlKonts /\ it.is = "CalleeK"
  BY DEF WriteControlKonts, Variant
<1> QED
  BY <1>1, <1>2, <1>3, <1>4, <1>5 DEF WriteKont

\* The writer's fields of the frame CalleeK.
LEMMA WKontCalleeK ==
    /\ VariantIn(Written["Kont"], "CalleeK")
       = Variant(25, "CalleeK",
           <<F("args_start", Num("u32")), F("args_count", Num("u16")),
             F("env", Ref("envs")), F("k", Ref("conts"))>>)
    /\ \E v \in Written["Kont"] : v.is = "CalleeK"
<1>1. Ids(<<"args_start">>) = <<F("args_start", Num("u32"))>>
  BY Fields1 DEF Ids
<1>2. U16(<<"args_count">>) = <<F("args_count", Num("u16"))>>
  BY Fields1 DEF U16
<1>3. <<F("args_start", Num("u32"))>>
     \o <<F("args_count", Num("u16"))>>
     = <<F("args_start", Num("u32")), F("args_count", Num("u16"))>>
  BY Cat11
<1>4. <<F("args_start", Num("u32")), F("args_count", Num("u16"))>>
     \o <<F("env", Ref("envs"))>>
     = <<F("args_start", Num("u32")), F("args_count", Num("u16")),
          F("env", Ref("envs"))>>
  BY Cat21
<1>5. <<F("args_start", Num("u32")), F("args_count", Num("u16")),
          F("env", Ref("envs"))>>
     \o <<F("k", Ref("conts"))>>
     = <<F("args_start", Num("u32")), F("args_count", Num("u16")),
          F("env", Ref("envs")), F("k", Ref("conts"))>>
  BY Cat31
<1>6. VariantIn(Written["Kont"], "CalleeK") = Variant(25, "CalleeK",
            Ids(<<"args_start">>) \o U16(<<"args_count">>) \o Env \o K)
  BY WKontOnlyCalleeK, WrittenIs DEF VariantIn
<1>7. \E v \in Written["Kont"] : v.is = "CalleeK"
  BY WKontOnlyCalleeK, WrittenIs
<1> QED
  BY <1>1, <1>2, <1>3, <1>4, <1>5, EnvIs, KIs, <1>6, <1>7

\* ArgsK is in one of the writer's tables of frames only.
LEMMA WKontOnlyArgsK ==
    LET it == Variant(26, "ArgsK",
            Value1("callee") \o Values("done") \o Ids(<<"args_start">>)
            \o U16(<<"args_idx", "args_count">>) \o Env \o K) IN
    it \in WriteKont /\ it.is = "ArgsK" /\ \A v \in WriteKont : v.is = "ArgsK" => v = it
<1> DEFINE it == Variant(26, "ArgsK",
            Value1("callee") \o Values("done") \o Ids(<<"args_start">>)
            \o U16(<<"args_idx", "args_count">>) \o Env \o K)
<1>1. \A v \in WriteOperatorKonts : v.is = "ArgsK" => v = it
  BY DEF WriteOperatorKonts, Variant
<1>2. \A v \in WriteControlKonts : v.is = "ArgsK" => v = it
  BY DEF WriteControlKonts, Variant
<1>3. \A v \in WriteCollectingKonts : v.is = "ArgsK" => v = it
  BY DEF WriteCollectingKonts, Variant
<1>4. \A v \in WriteEffectKonts : v.is = "ArgsK" => v = it
  BY DEF WriteEffectKonts, Variant
<1>5. it \in WriteCollectingKonts /\ it.is = "ArgsK"
  BY DEF WriteCollectingKonts, Variant
<1> QED
  BY <1>1, <1>2, <1>3, <1>4, <1>5 DEF WriteKont

\* The writer's fields of the frame ArgsK.
LEMMA WKontArgsK ==
    /\ VariantIn(Written["Kont"], "ArgsK")
       = Variant(26, "ArgsK",
           <<F("callee", One("Value")), F("done", Many(One("Value"))),
             F("args_start", Num("u32")), F("args_idx", Num("u16")),
             F("args_count", Num("u16")), F("env", Ref("envs")),
             F("k", Ref("conts"))>>)
    /\ \E v \in Written["Kont"] : v.is = "ArgsK"
<1>1. Value1("callee") = <<F("callee", One("Value"))>>
  BY Fields1 DEF Value1
<1>2. Values("done") = <<F("done", Many(One("Value")))>>
  BY Fields1 DEF Values
<1>3. Ids(<<"args_start">>) = <<F("args_start", Num("u32"))>>
  BY Fields1 DEF Ids
<1>4. U16(<<"args_idx", "args_count">>) = <<F("args_idx", Num("u16")), F("args_count", Num("u16"))>>
  BY Fields2 DEF U16
<1>5. <<F("callee", One("Value"))>>
     \o <<F("done", Many(One("Value")))>>
     = <<F("callee", One("Value")), F("done", Many(One("Value")))>>
  BY Cat11
<1>6. <<F("callee", One("Value")), F("done", Many(One("Value")))>>
     \o <<F("args_start", Num("u32"))>>
     = <<F("callee", One("Value")), F("done", Many(One("Value"))),
          F("args_start", Num("u32"))>>
  BY Cat21
<1>7. <<F("callee", One("Value")), F("done", Many(One("Value"))),
          F("args_start", Num("u32"))>>
     \o <<F("args_idx", Num("u16")), F("args_count", Num("u16"))>>
     = <<F("callee", One("Value")), F("done", Many(One("Value"))),
          F("args_start", Num("u32")), F("args_idx", Num("u16")),
          F("args_count", Num("u16"))>>
  BY Cat32
<1>8. <<F("callee", One("Value")), F("done", Many(One("Value"))),
          F("args_start", Num("u32")), F("args_idx", Num("u16")),
          F("args_count", Num("u16"))>>
     \o <<F("env", Ref("envs"))>>
     = <<F("callee", One("Value")), F("done", Many(One("Value"))),
          F("args_start", Num("u32")), F("args_idx", Num("u16")),
          F("args_count", Num("u16")), F("env", Ref("envs"))>>
  BY Cat51
<1>9. <<F("callee", One("Value")), F("done", Many(One("Value"))),
          F("args_start", Num("u32")), F("args_idx", Num("u16")),
          F("args_count", Num("u16")), F("env", Ref("envs"))>>
     \o <<F("k", Ref("conts"))>>
     = <<F("callee", One("Value")), F("done", Many(One("Value"))),
          F("args_start", Num("u32")), F("args_idx", Num("u16")),
          F("args_count", Num("u16")), F("env", Ref("envs")),
          F("k", Ref("conts"))>>
  BY Cat61
<1>10. VariantIn(Written["Kont"], "ArgsK") = Variant(26, "ArgsK",
            Value1("callee") \o Values("done") \o Ids(<<"args_start">>)
            \o U16(<<"args_idx", "args_count">>) \o Env \o K)
  BY WKontOnlyArgsK, WrittenIs DEF VariantIn
<1>11. \E v \in Written["Kont"] : v.is = "ArgsK"
  BY WKontOnlyArgsK, WrittenIs
<1> QED
  BY <1>1, <1>2, <1>3, <1>4, <1>5, <1>6, <1>7, <1>8, <1>9, EnvIs, KIs, <1>10, <1>11

\* ReturnK is in one of the writer's tables of frames only.
LEMMA WKontOnlyReturnK ==
    LET it == Variant(27, "ReturnK",
            Env \o K) IN
    it \in WriteKont /\ it.is = "ReturnK" /\ \A v \in WriteKont : v.is = "ReturnK" => v = it
<1> DEFINE it == Variant(27, "ReturnK",
            Env \o K)
<1>1. \A v \in WriteOperatorKonts : v.is = "ReturnK" => v = it
  BY DEF WriteOperatorKonts, Variant
<1>2. \A v \in WriteControlKonts : v.is = "ReturnK" => v = it
  BY DEF WriteControlKonts, Variant
<1>3. \A v \in WriteCollectingKonts : v.is = "ReturnK" => v = it
  BY DEF WriteCollectingKonts, Variant
<1>4. \A v \in WriteEffectKonts : v.is = "ReturnK" => v = it
  BY DEF WriteEffectKonts, Variant
<1>5. it \in WriteCollectingKonts /\ it.is = "ReturnK"
  BY DEF WriteCollectingKonts, Variant
<1> QED
  BY <1>1, <1>2, <1>3, <1>4, <1>5 DEF WriteKont

\* The writer's fields of the frame ReturnK.
LEMMA WKontReturnK ==
    /\ VariantIn(Written["Kont"], "ReturnK")
       = Variant(27, "ReturnK",
           <<F("env", Ref("envs")), F("k", Ref("conts"))>>)
    /\ \E v \in Written["Kont"] : v.is = "ReturnK"
<1>1. <<F("env", Ref("envs"))>>
     \o <<F("k", Ref("conts"))>>
     = <<F("env", Ref("envs")), F("k", Ref("conts"))>>
  BY Cat11
<1>2. VariantIn(Written["Kont"], "ReturnK") = Variant(27, "ReturnK",
            Env \o K)
  BY WKontOnlyReturnK, WrittenIs DEF VariantIn
<1>3. \E v \in Written["Kont"] : v.is = "ReturnK"
  BY WKontOnlyReturnK, WrittenIs
<1> QED
  BY <1>1, EnvIs, KIs, <1>2, <1>3

\* ReturnExprK is in one of the writer's tables of frames only.
LEMMA WKontOnlyReturnExprK ==
    LET it == Variant(28, "ReturnExprK",
            K) IN
    it \in WriteKont /\ it.is = "ReturnExprK" /\ \A v \in WriteKont : v.is = "ReturnExprK" => v = it
<1> DEFINE it == Variant(28, "ReturnExprK",
            K)
<1>1. \A v \in WriteOperatorKonts : v.is = "ReturnExprK" => v = it
  BY DEF WriteOperatorKonts, Variant
<1>2. \A v \in WriteControlKonts : v.is = "ReturnExprK" => v = it
  BY DEF WriteControlKonts, Variant
<1>3. \A v \in WriteCollectingKonts : v.is = "ReturnExprK" => v = it
  BY DEF WriteCollectingKonts, Variant
<1>4. \A v \in WriteEffectKonts : v.is = "ReturnExprK" => v = it
  BY DEF WriteEffectKonts, Variant
<1>5. it \in WriteCollectingKonts /\ it.is = "ReturnExprK"
  BY DEF WriteCollectingKonts, Variant
<1> QED
  BY <1>1, <1>2, <1>3, <1>4, <1>5 DEF WriteKont

\* The writer's fields of the frame ReturnExprK.
LEMMA WKontReturnExprK ==
    /\ VariantIn(Written["Kont"], "ReturnExprK")
       = Variant(28, "ReturnExprK",
           <<F("k", Ref("conts"))>>)
    /\ \E v \in Written["Kont"] : v.is = "ReturnExprK"
<1>1. VariantIn(Written["Kont"], "ReturnExprK") = Variant(28, "ReturnExprK",
            K)
  BY WKontOnlyReturnExprK, WrittenIs DEF VariantIn
<1>2. \E v \in Written["Kont"] : v.is = "ReturnExprK"
  BY WKontOnlyReturnExprK, WrittenIs
<1> QED
  BY KIs, <1>1, <1>2

\* ObjectK is in one of the writer's tables of frames only.
LEMMA WKontOnlyObjectK ==
    LET it == Variant(30, "ObjectK",
            Fields(<<"done">>, Many(One("Binding"))) \o Ids(<<"props_start">>)
            \o U16(<<"props_idx", "props_count">>) \o Env \o K) IN
    it \in WriteKont /\ it.is = "ObjectK" /\ \A v \in WriteKont : v.is = "ObjectK" => v = it
<1> DEFINE it == Variant(30, "ObjectK",
            Fields(<<"done">>, Many(One("Binding"))) \o Ids(<<"props_start">>)
            \o U16(<<"props_idx", "props_count">>) \o Env \o K)
<1>1. \A v \in WriteOperatorKonts : v.is = "ObjectK" => v = it
  BY DEF WriteOperatorKonts, Variant
<1>2. \A v \in WriteControlKonts : v.is = "ObjectK" => v = it
  BY DEF WriteControlKonts, Variant
<1>3. \A v \in WriteCollectingKonts : v.is = "ObjectK" => v = it
  BY DEF WriteCollectingKonts, Variant
<1>4. \A v \in WriteEffectKonts : v.is = "ObjectK" => v = it
  BY DEF WriteEffectKonts, Variant
<1>5. it \in WriteCollectingKonts /\ it.is = "ObjectK"
  BY DEF WriteCollectingKonts, Variant
<1> QED
  BY <1>1, <1>2, <1>3, <1>4, <1>5 DEF WriteKont

\* The writer's fields of the frame ObjectK.
LEMMA WKontObjectK ==
    /\ VariantIn(Written["Kont"], "ObjectK")
       = Variant(30, "ObjectK",
           <<F("done", Many(One("Binding"))), F("props_start", Num("u32")),
             F("props_idx", Num("u16")), F("props_count", Num("u16")),
             F("env", Ref("envs")), F("k", Ref("conts"))>>)
    /\ \E v \in Written["Kont"] : v.is = "ObjectK"
<1>1. Fields(<<"done">>, Many(One("Binding"))) = <<F("done", Many(One("Binding")))>>
  BY Fields1
<1>2. Ids(<<"props_start">>) = <<F("props_start", Num("u32"))>>
  BY Fields1 DEF Ids
<1>3. U16(<<"props_idx", "props_count">>) = <<F("props_idx", Num("u16")),
                                              F("props_count", Num("u16"))>>
  BY Fields2 DEF U16
<1>4. <<F("done", Many(One("Binding")))>>
     \o <<F("props_start", Num("u32"))>>
     = <<F("done", Many(One("Binding"))), F("props_start", Num("u32"))>>
  BY Cat11
<1>5. <<F("done", Many(One("Binding"))), F("props_start", Num("u32"))>>
     \o <<F("props_idx", Num("u16")), F("props_count", Num("u16"))>>
     = <<F("done", Many(One("Binding"))), F("props_start", Num("u32")),
          F("props_idx", Num("u16")), F("props_count", Num("u16"))>>
  BY Cat22
<1>6. <<F("done", Many(One("Binding"))), F("props_start", Num("u32")),
          F("props_idx", Num("u16")), F("props_count", Num("u16"))>>
     \o <<F("env", Ref("envs"))>>
     = <<F("done", Many(One("Binding"))), F("props_start", Num("u32")),
          F("props_idx", Num("u16")), F("props_count", Num("u16")),
          F("env", Ref("envs"))>>
  BY Cat41
<1>7. <<F("done", Many(One("Binding"))), F("props_start", Num("u32")),
          F("props_idx", Num("u16")), F("props_count", Num("u16")),
          F("env", Ref("envs"))>>
     \o <<F("k", Ref("conts"))>>
     = <<F("done", Many(One("Binding"))), F("props_start", Num("u32")),
          F("props_idx", Num("u16")), F("props_count", Num("u16")),
          F("env", Ref("envs")), F("k", Ref("conts"))>>
  BY Cat51
<1>8. VariantIn(Written["Kont"], "ObjectK") = Variant(30, "ObjectK",
            Fields(<<"done">>, Many(One("Binding"))) \o Ids(<<"props_start">>)
            \o U16(<<"props_idx", "props_count">>) \o Env \o K)
  BY WKontOnlyObjectK, WrittenIs DEF VariantIn
<1>9. \E v \in Written["Kont"] : v.is = "ObjectK"
  BY WKontOnlyObjectK, WrittenIs
<1> QED
  BY <1>1, <1>2, <1>3, <1>4, <1>5, <1>6, <1>7, EnvIs, KIs, <1>8, <1>9

\* HandlerK is in one of the writer's tables of frames only.
LEMMA WKontOnlyHandlerK ==
    LET it == Variant(38, "HandlerK",
            Ids(<<"clauses_start">>) \o U16(<<"clauses_count">>) \o Env
            \o Ids(<<"return_body", "return_param">>) \o K) IN
    it \in WriteKont /\ it.is = "HandlerK" /\ \A v \in WriteKont : v.is = "HandlerK" => v = it
<1> DEFINE it == Variant(38, "HandlerK",
            Ids(<<"clauses_start">>) \o U16(<<"clauses_count">>) \o Env
            \o Ids(<<"return_body", "return_param">>) \o K)
<1>1. \A v \in WriteOperatorKonts : v.is = "HandlerK" => v = it
  BY DEF WriteOperatorKonts, Variant
<1>2. \A v \in WriteControlKonts : v.is = "HandlerK" => v = it
  BY DEF WriteControlKonts, Variant
<1>3. \A v \in WriteCollectingKonts : v.is = "HandlerK" => v = it
  BY DEF WriteCollectingKonts, Variant
<1>4. \A v \in WriteEffectKonts : v.is = "HandlerK" => v = it
  BY DEF WriteEffectKonts, Variant
<1>5. it \in WriteEffectKonts /\ it.is = "HandlerK"
  BY DEF WriteEffectKonts, Variant
<1> QED
  BY <1>1, <1>2, <1>3, <1>4, <1>5 DEF WriteKont

\* The writer's fields of the frame HandlerK.
LEMMA WKontHandlerK ==
    /\ VariantIn(Written["Kont"], "HandlerK")
       = Variant(38, "HandlerK",
           <<F("clauses_start", Num("u32")), F("clauses_count", Num("u16")),
             F("env", Ref("envs")), F("return_body", Num("u32")),
             F("return_param", Num("u32")), F("k", Ref("conts"))>>)
    /\ \E v \in Written["Kont"] : v.is = "HandlerK"
<1>1. Ids(<<"clauses_start">>) = <<F("clauses_start", Num("u32"))>>
  BY Fields1 DEF Ids
<1>2. U16(<<"clauses_count">>) = <<F("clauses_count", Num("u16"))>>
  BY Fields1 DEF U16
<1>3. Ids(<<"return_body", "return_param">>) = <<F("return_body", Num("u32")),
                                                 F("return_param", Num("u32"))>>
  BY Fields2 DEF Ids
<1>4. <<F("clauses_start", Num("u32"))>>
     \o <<F("clauses_count", Num("u16"))>>
     = <<F("clauses_start", Num("u32")), F("clauses_count", Num("u16"))>>
  BY Cat11
<1>5. <<F("clauses_start", Num("u32")), F("clauses_count", Num("u16"))>>
     \o <<F("env", Ref("envs"))>>
     = <<F("clauses_start", Num("u32")), F("clauses_count", Num("u16")),
          F("env", Ref("envs"))>>
  BY Cat21
<1>6. <<F("clauses_start", Num("u32")), F("clauses_count", Num("u16")),
          F("env", Ref("envs"))>>
     \o <<F("return_body", Num("u32")), F("return_param", Num("u32"))>>
     = <<F("clauses_start", Num("u32")), F("clauses_count", Num("u16")),
          F("env", Ref("envs")), F("return_body", Num("u32")),
          F("return_param", Num("u32"))>>
  BY Cat32
<1>7. <<F("clauses_start", Num("u32")), F("clauses_count", Num("u16")),
          F("env", Ref("envs")), F("return_body", Num("u32")),
          F("return_param", Num("u32"))>>
     \o <<F("k", Ref("conts"))>>
     = <<F("clauses_start", Num("u32")), F("clauses_count", Num("u16")),
          F("env", Ref("envs")), F("return_body", Num("u32")),
          F("return_param", Num("u32")), F("k", Ref("conts"))>>
  BY Cat51
<1>8. VariantIn(Written["Kont"], "HandlerK") = Variant(38, "HandlerK",
            Ids(<<"clauses_start">>) \o U16(<<"clauses_count">>) \o Env
            \o Ids(<<"return_body", "return_param">>) \o K)
  BY WKontOnlyHandlerK, WrittenIs DEF VariantIn
<1>9. \E v \in Written["Kont"] : v.is = "HandlerK"
  BY WKontOnlyHandlerK, WrittenIs
<1> QED
  BY <1>1, <1>2, <1>3, <1>4, <1>5, <1>6, <1>7, EnvIs, KIs, <1>8, <1>9

\* PerformArgsK is in one of the writer's tables of frames only.
LEMMA WKontOnlyPerformArgsK ==
    LET it == Variant(39, "PerformArgsK",
            Ids(<<"effect">>) \o Values("done") \o Ids(<<"args_start">>)
            \o U16(<<"args_idx", "args_count">>) \o Env \o K) IN
    it \in WriteKont /\ it.is = "PerformArgsK" /\ \A v \in WriteKont
        : v.is = "PerformArgsK" => v = it
<1> DEFINE it == Variant(39, "PerformArgsK",
            Ids(<<"effect">>) \o Values("done") \o Ids(<<"args_start">>)
            \o U16(<<"args_idx", "args_count">>) \o Env \o K)
<1>1. \A v \in WriteOperatorKonts : v.is = "PerformArgsK" => v = it
  BY DEF WriteOperatorKonts, Variant
<1>2. \A v \in WriteControlKonts : v.is = "PerformArgsK" => v = it
  BY DEF WriteControlKonts, Variant
<1>3. \A v \in WriteCollectingKonts : v.is = "PerformArgsK" => v = it
  BY DEF WriteCollectingKonts, Variant
<1>4. \A v \in WriteEffectKonts : v.is = "PerformArgsK" => v = it
  BY DEF WriteEffectKonts, Variant
<1>5. it \in WriteEffectKonts /\ it.is = "PerformArgsK"
  BY DEF WriteEffectKonts, Variant
<1> QED
  BY <1>1, <1>2, <1>3, <1>4, <1>5 DEF WriteKont

\* The writer's fields of the frame PerformArgsK.
LEMMA WKontPerformArgsK ==
    /\ VariantIn(Written["Kont"], "PerformArgsK")
       = Variant(39, "PerformArgsK",
           <<F("effect", Num("u32")), F("done", Many(One("Value"))),
             F("args_start", Num("u32")), F("args_idx", Num("u16")),
             F("args_count", Num("u16")), F("env", Ref("envs")),
             F("k", Ref("conts"))>>)
    /\ \E v \in Written["Kont"] : v.is = "PerformArgsK"
<1>1. Ids(<<"effect">>) = <<F("effect", Num("u32"))>>
  BY Fields1 DEF Ids
<1>2. Values("done") = <<F("done", Many(One("Value")))>>
  BY Fields1 DEF Values
<1>3. Ids(<<"args_start">>) = <<F("args_start", Num("u32"))>>
  BY Fields1 DEF Ids
<1>4. U16(<<"args_idx", "args_count">>) = <<F("args_idx", Num("u16")), F("args_count", Num("u16"))>>
  BY Fields2 DEF U16
<1>5. <<F("effect", Num("u32"))>>
     \o <<F("done", Many(One("Value")))>>
     = <<F("effect", Num("u32")), F("done", Many(One("Value")))>>
  BY Cat11
<1>6. <<F("effect", Num("u32")), F("done", Many(One("Value")))>>
     \o <<F("args_start", Num("u32"))>>
     = <<F("effect", Num("u32")), F("done", Many(One("Value"))),
          F("args_start", Num("u32"))>>
  BY Cat21
<1>7. <<F("effect", Num("u32")), F("done", Many(One("Value"))),
          F("args_start", Num("u32"))>>
     \o <<F("args_idx", Num("u16")), F("args_count", Num("u16"))>>
     = <<F("effect", Num("u32")), F("done", Many(One("Value"))),
          F("args_start", Num("u32")), F("args_idx", Num("u16")),
          F("args_count", Num("u16"))>>
  BY Cat32
<1>8. <<F("effect", Num("u32")), F("done", Many(One("Value"))),
          F("args_start", Num("u32")), F("args_idx", Num("u16")),
          F("args_count", Num("u16"))>>
     \o <<F("env", Ref("envs"))>>
     = <<F("effect", Num("u32")), F("done", Many(One("Value"))),
          F("args_start", Num("u32")), F("args_idx", Num("u16")),
          F("args_count", Num("u16")), F("env", Ref("envs"))>>
  BY Cat51
<1>9. <<F("effect", Num("u32")), F("done", Many(One("Value"))),
          F("args_start", Num("u32")), F("args_idx", Num("u16")),
          F("args_count", Num("u16")), F("env", Ref("envs"))>>
     \o <<F("k", Ref("conts"))>>
     = <<F("effect", Num("u32")), F("done", Many(One("Value"))),
          F("args_start", Num("u32")), F("args_idx", Num("u16")),
          F("args_count", Num("u16")), F("env", Ref("envs")),
          F("k", Ref("conts"))>>
  BY Cat61
<1>10. VariantIn(Written["Kont"], "PerformArgsK") = Variant(39, "PerformArgsK",
            Ids(<<"effect">>) \o Values("done") \o Ids(<<"args_start">>)
            \o U16(<<"args_idx", "args_count">>) \o Env \o K)
  BY WKontOnlyPerformArgsK, WrittenIs DEF VariantIn
<1>11. \E v \in Written["Kont"] : v.is = "PerformArgsK"
  BY WKontOnlyPerformArgsK, WrittenIs
<1> QED
  BY <1>1, <1>2, <1>3, <1>4, <1>5, <1>6, <1>7, <1>8, <1>9, EnvIs, KIs, <1>10, <1>11

\* HandleWithK is in one of the writer's tables of frames only.
LEMMA WKontOnlyHandleWithK ==
    LET it == Variant(40, "HandleWithK",
            Ids(<<"body">>) \o Env \o K) IN
    it \in WriteKont /\ it.is = "HandleWithK" /\ \A v \in WriteKont : v.is = "HandleWithK" => v = it
<1> DEFINE it == Variant(40, "HandleWithK",
            Ids(<<"body">>) \o Env \o K)
<1>1. \A v \in WriteOperatorKonts : v.is = "HandleWithK" => v = it
  BY DEF WriteOperatorKonts, Variant
<1>2. \A v \in WriteControlKonts : v.is = "HandleWithK" => v = it
  BY DEF WriteControlKonts, Variant
<1>3. \A v \in WriteCollectingKonts : v.is = "HandleWithK" => v = it
  BY DEF WriteCollectingKonts, Variant
<1>4. \A v \in WriteEffectKonts : v.is = "HandleWithK" => v = it
  BY DEF WriteEffectKonts, Variant
<1>5. it \in WriteEffectKonts /\ it.is = "HandleWithK"
  BY DEF WriteEffectKonts, Variant
<1> QED
  BY <1>1, <1>2, <1>3, <1>4, <1>5 DEF WriteKont

\* The writer's fields of the frame HandleWithK.
LEMMA WKontHandleWithK ==
    /\ VariantIn(Written["Kont"], "HandleWithK")
       = Variant(40, "HandleWithK",
           <<F("body", Num("u32")), F("env", Ref("envs")), F("k", Ref("conts"))>>)
    /\ \E v \in Written["Kont"] : v.is = "HandleWithK"
<1>1. Ids(<<"body">>) = <<F("body", Num("u32"))>>
  BY Fields1 DEF Ids
<1>2. <<F("body", Num("u32"))>>
     \o <<F("env", Ref("envs"))>>
     = <<F("body", Num("u32")), F("env", Ref("envs"))>>
  BY Cat11
<1>3. <<F("body", Num("u32")), F("env", Ref("envs"))>>
     \o <<F("k", Ref("conts"))>>
     = <<F("body", Num("u32")), F("env", Ref("envs")), F("k", Ref("conts"))>>
  BY Cat21
<1>4. VariantIn(Written["Kont"], "HandleWithK") = Variant(40, "HandleWithK",
            Ids(<<"body">>) \o Env \o K)
  BY WKontOnlyHandleWithK, WrittenIs DEF VariantIn
<1>5. \E v \in Written["Kont"] : v.is = "HandleWithK"
  BY WKontOnlyHandleWithK, WrittenIs
<1> QED
  BY <1>1, <1>2, <1>3, EnvIs, KIs, <1>4, <1>5

\* Whether the walk enters a field.
Follows(all, T, I, field) ==
    /\ all \/ field.name \in Traced(T, I)
    /\ field.type.t = "num" => "to" \in DOMAIN field.type

Followed(all, T, I, fields) == {field \in Range(fields) : Follows(all, T, I, field)}

\* What the walk enters is said by the fields of the variant and the traced ones.
LEMMA EnteredIs ==
    ASSUME NEW all \in BOOLEAN, NEW T \in TracedTypes, NEW I, NEW tag, NEW fields,
           VariantIn(Written[T], I) = Variant(tag, I, fields), \E v \in Written[T] : v.is = I
    PROVE  Entered[all][T][I] = Followed(all, T, I, fields)
<1>1. I \in {v.is : v \in Written[T]}
  OBVIOUS
<1>2. VariantOf[T] = ByName(Written[T])
  BY DEF VariantOf
<1>3. I \in DOMAIN VariantOf[T] /\ VariantOf[T][I] = VariantIn(Written[T], I)
  BY <1>1, <1>2 DEF ByName
<1>4. VariantOf[T][I].fields = fields
  BY <1>3 DEF Variant
<1> QED
  BY <1>3, <1>4 DEF Entered, EnteredOf, Followed, Follows

\* Which types are ids of a collected arena.
LEMMA TypeShapes ==
    /\ \A w : Num(w).t = "num" /\ "to" \notin DOMAIN Num(w)
    /\ \A a : Ref(a).t = "num" /\ "to" \in DOMAIN Ref(a) /\ Ref(a).to = a
    /\ \A x : Opt(x).t = "opt" /\ Opt(x).of = x
    /\ \A x : Many(x).t = "many" /\ Many(x).of = x
    /\ \A n : One(n).t = "one" /\ One(n).of = n
  BY DEF Num, Ref, Opt, Many, One

\* What a walk enters of the value Undefined.
LEMMA EValueUndefined ==
    ASSUME NEW all \in BOOLEAN
    PROVE  Entered[all]["Value"]["Undefined"] = {}
<1> DEFINE fields == <<>>
<1>1. Range(fields) = {}
  BY DEF Range
<1> HIDE DEF fields
<1>2. Entered[all]["Value"]["Undefined"] = Followed(all, "Value", "Undefined", fields)
  BY WValueUndefined, EnteredIs DEF TracedTypes, fields
<1> QED
  BY <1>1, <1>2 DEF Followed

\* What a walk enters of the value Int.
LEMMA EValueInt ==
    ASSUME NEW all \in BOOLEAN
    PROVE  Entered[all]["Value"]["Int"] = {}
<1> DEFINE fields == <<F("n", Num("i32"))>>
<1>1. Range(fields) = {F("n", Num("i32"))}
  BY DEF Range
<1>2. ~Follows(all, "Value", "Int", F("n", Num("i32")))
  BY TypeShapes DEF Follows, F
<1> HIDE DEF fields
<1>3. Entered[all]["Value"]["Int"] = Followed(all, "Value", "Int", fields)
  BY WValueInt, EnteredIs DEF TracedTypes, fields
<1> QED
  BY <1>1, <1>2, <1>3 DEF Followed

\* What a walk enters of the value String.
LEMMA EValueString ==
    ASSUME NEW all \in BOOLEAN
    PROVE  Entered[all]["Value"]["String"] = {}
<1> DEFINE fields == <<F("s", Num("u32"))>>
<1>1. Range(fields) = {F("s", Num("u32"))}
  BY DEF Range
<1>2. ~Follows(all, "Value", "String", F("s", Num("u32")))
  BY TypeShapes DEF Follows, F
<1> HIDE DEF fields
<1>3. Entered[all]["Value"]["String"] = Followed(all, "Value", "String", fields)
  BY WValueString, EnteredIs DEF TracedTypes, fields
<1> QED
  BY <1>1, <1>2, <1>3 DEF Followed

\* What a walk enters of the value Object.
LEMMA EValueObject ==
    ASSUME NEW all \in BOOLEAN
    PROVE  Entered[all]["Value"]["Object"] = {F("o", Ref("objects"))}
<1> DEFINE fields == <<F("o", Ref("objects"))>>
<1>1. Range(fields) = {F("o", Ref("objects"))}
  BY DEF Range
<1>2. Follows(all, "Value", "Object", F("o", Ref("objects")))
  BY TypeShapes DEF Follows, F, Traced, ValueTraced
<1> HIDE DEF fields
<1>3. Entered[all]["Value"]["Object"] = Followed(all, "Value", "Object", fields)
  BY WValueObject, EnteredIs DEF TracedTypes, fields
<1> QED
  BY <1>1, <1>2, <1>3 DEF Followed

\* What a walk enters of the value Function.
LEMMA EValueFunction ==
    ASSUME NEW all \in BOOLEAN
    PROVE  Entered[all]["Value"]["Function"] = {F("o", Ref("objects"))}
<1> DEFINE fields == <<F("o", Ref("objects"))>>
<1>1. Range(fields) = {F("o", Ref("objects"))}
  BY DEF Range
<1>2. Follows(all, "Value", "Function", F("o", Ref("objects")))
  BY TypeShapes DEF Follows, F, Traced, ValueTraced
<1> HIDE DEF fields
<1>3. Entered[all]["Value"]["Function"] = Followed(all, "Value", "Function", fields)
  BY WValueFunction, EnteredIs DEF TracedTypes, fields
<1> QED
  BY <1>1, <1>2, <1>3 DEF Followed

\* What a walk enters of the value Handler.
LEMMA EValueHandler ==
    ASSUME NEW all \in BOOLEAN
    PROVE  Entered[all]["Value"]["Handler"] = {F("h", Ref("handlers"))}
<1> DEFINE fields == <<F("h", Ref("handlers"))>>
<1>1. Range(fields) = {F("h", Ref("handlers"))}
  BY DEF Range
<1>2. Follows(all, "Value", "Handler", F("h", Ref("handlers")))
  BY TypeShapes DEF Follows, F, Traced, ValueTraced
<1> HIDE DEF fields
<1>3. Entered[all]["Value"]["Handler"] = Followed(all, "Value", "Handler", fields)
  BY WValueHandler, EnteredIs DEF TracedTypes, fields
<1> QED
  BY <1>1, <1>2, <1>3 DEF Followed

\* What a walk enters of the value Continuation.
LEMMA EValueContinuation ==
    ASSUME NEW all \in BOOLEAN
    PROVE  Entered[all]["Value"]["Continuation"] = {F("k", Ref("conts")), F("env", Ref("envs"))}
<1> DEFINE fields == <<F("k", Ref("conts")), F("env", Ref("envs"))>>
<1>1. Range(fields) = {F("k", Ref("conts")), F("env", Ref("envs"))}
  BY DEF Range
<1>2. Follows(all, "Value", "Continuation", F("k", Ref("conts")))
  BY TypeShapes DEF Follows, F, Traced, ValueTraced
<1>3. Follows(all, "Value", "Continuation", F("env", Ref("envs")))
  BY TypeShapes DEF Follows, F, Traced, ValueTraced
<1> HIDE DEF fields
<1>4. Entered[all]["Value"]["Continuation"] = Followed(all, "Value", "Continuation", fields)
  BY WValueContinuation, EnteredIs DEF TracedTypes, fields
<1> QED
  BY <1>1, <1>2, <1>3, <1>4 DEF Followed

\* What a walk enters of an object.
LEMMA EObjectObject ==
    ASSUME NEW all \in BOOLEAN
    PROVE  Entered[all]["Object"]["Object"] = {F("properties", Many(One("Property"))),
                 F("prototype", Opt(Ref("objects"))),
                 F("kind", One("ObjectKind"))}
<1> DEFINE fields == <<F("properties", Many(One("Property"))),
          F("prototype", Opt(Ref("objects"))), F("kind", One("ObjectKind"))>>
<1>1. Range(fields) = {F("properties", Many(One("Property"))),
          F("prototype", Opt(Ref("objects"))), F("kind", One("ObjectKind"))}
  BY DEF Range
<1>2. Follows(all, "Object", "Object", F("properties", Many(One("Property"))))
  BY TypeShapes DEF Follows, F, Traced
<1>3. Follows(all, "Object", "Object", F("prototype", Opt(Ref("objects"))))
  BY TypeShapes DEF Follows, F, Traced
<1>4. Follows(all, "Object", "Object", F("kind", One("ObjectKind")))
  BY TypeShapes DEF Follows, F, Traced
<1> HIDE DEF fields
<1>5. Entered[all]["Object"]["Object"] = Followed(all, "Object", "Object", fields)
  BY WObjectObject, EnteredIs DEF TracedTypes, fields
<1> QED
  BY <1>1, <1>2, <1>3, <1>4, <1>5 DEF Followed

\* What a walk enters of a property.
LEMMA EPropertyProperty ==
    ASSUME NEW all \in BOOLEAN
    PROVE  Entered[all]["Property"]["Property"] = {F("value", One("Value"))}
<1> DEFINE fields == <<F("key", Num("u32")), F("value", One("Value")),
          F("writable", Num("u8")), F("enumerable", Num("u8")),
          F("configurable", Num("u8"))>>
<1>1. Range(fields) = {F("key", Num("u32")), F("value", One("Value")),
          F("writable", Num("u8")), F("enumerable", Num("u8")),
          F("configurable", Num("u8"))}
  BY DEF Range
<1>2. ~Follows(all, "Property", "Property", F("key", Num("u32")))
  BY TypeShapes DEF Follows, F
<1>3. Follows(all, "Property", "Property", F("value", One("Value")))
  BY TypeShapes DEF Follows, F, Traced
<1>4. ~Follows(all, "Property", "Property", F("writable", Num("u8")))
  BY TypeShapes DEF Follows, F
<1>5. ~Follows(all, "Property", "Property", F("enumerable", Num("u8")))
  BY TypeShapes DEF Follows, F
<1>6. ~Follows(all, "Property", "Property", F("configurable", Num("u8")))
  BY TypeShapes DEF Follows, F
<1> HIDE DEF fields
<1>7. Entered[all]["Property"]["Property"] = Followed(all, "Property", "Property", fields)
  BY WPropertyProperty, EnteredIs DEF TracedTypes, fields
<1> QED
  BY <1>1, <1>2, <1>3, <1>4, <1>5, <1>6, <1>7 DEF Followed

\* What a walk enters of the kind of object Ordinary.
LEMMA EObjectKindOrdinary ==
    ASSUME NEW all \in BOOLEAN
    PROVE  Entered[all]["ObjectKind"]["Ordinary"] = {}
<1> DEFINE fields == <<>>
<1>1. Range(fields) = {}
  BY DEF Range
<1> HIDE DEF fields
<1>2. Entered[all]["ObjectKind"]["Ordinary"] = Followed(all, "ObjectKind", "Ordinary", fields)
  BY WObjectKindOrdinary, EnteredIs DEF TracedTypes, fields
<1> QED
  BY <1>1, <1>2 DEF Followed

\* What a walk enters of the kind of object Function.
LEMMA EObjectKindFunction ==
    ASSUME NEW all \in BOOLEAN
    PROVE  /\ {F("env", Ref("envs"))} \subseteq Entered[all]["ObjectKind"]["Function"]
           /\ Entered[all]["ObjectKind"]["Function"] \subseteq
                {F("expr_body", Opt(Num("u32"))), F("env", Ref("envs")),
                 F("name", Opt(Num("u32")))}
<1> DEFINE fields == <<F("params_start", Num("u32")), F("params_count", Num("u16")),
          F("body", Num("u32")), F("expr_body", Opt(Num("u32"))),
          F("env", Ref("envs")), F("name", Opt(Num("u32")))>>
<1>1. Range(fields) = {F("params_start", Num("u32")), F("params_count", Num("u16")),
          F("body", Num("u32")), F("expr_body", Opt(Num("u32"))),
          F("env", Ref("envs")), F("name", Opt(Num("u32")))}
  BY DEF Range
<1>2. ~Follows(all, "ObjectKind", "Function", F("params_start", Num("u32")))
  BY TypeShapes DEF Follows, F
<1>3. ~Follows(all, "ObjectKind", "Function", F("params_count", Num("u16")))
  BY TypeShapes DEF Follows, F
<1>4. ~Follows(all, "ObjectKind", "Function", F("body", Num("u32")))
  BY TypeShapes DEF Follows, F
<1>5. Follows(all, "ObjectKind", "Function", F("env", Ref("envs")))
  BY TypeShapes DEF Follows, F, Traced, ObjectKindTraced
<1> HIDE DEF fields
<1>6. Entered[all]["ObjectKind"]["Function"] = Followed(all, "ObjectKind", "Function", fields)
  BY WObjectKindFunction, EnteredIs DEF TracedTypes, fields
<1> QED
  BY <1>1, <1>2, <1>3, <1>4, <1>5, <1>6 DEF Followed

\* What a walk enters of an environment.
LEMMA EEnvEnv ==
    ASSUME NEW all \in BOOLEAN
    PROVE  Entered[all]["Env"]["Env"] = {F("bindings", Many(One("Binding"))),
                 F("parent", Opt(Ref("envs")))}
<1> DEFINE fields == <<F("bindings", Many(One("Binding"))), F("parent", Opt(Ref("envs")))>>
<1>1. Range(fields) = {F("bindings", Many(One("Binding"))), F("parent", Opt(Ref("envs")))}
  BY DEF Range
<1>2. Follows(all, "Env", "Env", F("bindings", Many(One("Binding"))))
  BY TypeShapes DEF Follows, F, Traced
<1>3. Follows(all, "Env", "Env", F("parent", Opt(Ref("envs"))))
  BY TypeShapes DEF Follows, F, Traced
<1> HIDE DEF fields
<1>4. Entered[all]["Env"]["Env"] = Followed(all, "Env", "Env", fields)
  BY WEnvEnv, EnteredIs DEF TracedTypes, fields
<1> QED
  BY <1>1, <1>2, <1>3, <1>4 DEF Followed

\* What a walk enters of a binding.
LEMMA EBindingBinding ==
    ASSUME NEW all \in BOOLEAN
    PROVE  Entered[all]["Binding"]["Binding"] = {F("value", One("Value"))}
<1> DEFINE fields == <<F("key", Num("u32")), F("value", One("Value"))>>
<1>1. Range(fields) = {F("key", Num("u32")), F("value", One("Value"))}
  BY DEF Range
<1>2. ~Follows(all, "Binding", "Binding", F("key", Num("u32")))
  BY TypeShapes DEF Follows, F
<1>3. Follows(all, "Binding", "Binding", F("value", One("Value")))
  BY TypeShapes DEF Follows, F, Traced
<1> HIDE DEF fields
<1>4. Entered[all]["Binding"]["Binding"] = Followed(all, "Binding", "Binding", fields)
  BY WBindingBinding, EnteredIs DEF TracedTypes, fields
<1> QED
  BY <1>1, <1>2, <1>3, <1>4 DEF Followed

\* What a walk enters of a handler.
LEMMA EHandlerHandler ==
    ASSUME NEW all \in BOOLEAN
    PROVE  Entered[all]["Handler"]["Handler"] = {F("env", Ref("envs"))}
<1> DEFINE fields == <<F("clauses_start", Num("u32")), F("clauses_count", Num("u16")),
          F("return_param", Num("u32")), F("return_body", Num("u32")),
          F("env", Ref("envs"))>>
<1>1. Range(fields) = {F("clauses_start", Num("u32")), F("clauses_count", Num("u16")),
          F("return_param", Num("u32")), F("return_body", Num("u32")),
          F("env", Ref("envs"))}
  BY DEF Range
<1>2. ~Follows(all, "Handler", "Handler", F("clauses_start", Num("u32")))
  BY TypeShapes DEF Follows, F
<1>3. ~Follows(all, "Handler", "Handler", F("clauses_count", Num("u16")))
  BY TypeShapes DEF Follows, F
<1>4. ~Follows(all, "Handler", "Handler", F("return_param", Num("u32")))
  BY TypeShapes DEF Follows, F
<1>5. ~Follows(all, "Handler", "Handler", F("return_body", Num("u32")))
  BY TypeShapes DEF Follows, F
<1>6. Follows(all, "Handler", "Handler", F("env", Ref("envs")))
  BY TypeShapes DEF Follows, F, Traced
<1> HIDE DEF fields
<1>7. Entered[all]["Handler"]["Handler"] = Followed(all, "Handler", "Handler", fields)
  BY WHandlerHandler, EnteredIs DEF TracedTypes, fields
<1> QED
  BY <1>1, <1>2, <1>3, <1>4, <1>5, <1>6, <1>7 DEF Followed

\* What a walk enters of the control Expr.
LEMMA EControlExpr ==
    ASSUME NEW all \in BOOLEAN
    PROVE  Entered[all]["Control"]["Expr"] = {}
<1> DEFINE fields == <<F("e", Num("u32"))>>
<1>1. Range(fields) = {F("e", Num("u32"))}
  BY DEF Range
<1>2. ~Follows(all, "Control", "Expr", F("e", Num("u32")))
  BY TypeShapes DEF Follows, F
<1> HIDE DEF fields
<1>3. Entered[all]["Control"]["Expr"] = Followed(all, "Control", "Expr", fields)
  BY WControlExpr, EnteredIs DEF TracedTypes, fields
<1> QED
  BY <1>1, <1>2, <1>3 DEF Followed

\* What a walk enters of the control Value.
LEMMA EControlValue ==
    ASSUME NEW all \in BOOLEAN
    PROVE  Entered[all]["Control"]["Value"] = {F("v", One("Value"))}
<1> DEFINE fields == <<F("v", One("Value"))>>
<1>1. Range(fields) = {F("v", One("Value"))}
  BY DEF Range
<1>2. Follows(all, "Control", "Value", F("v", One("Value")))
  BY TypeShapes DEF Follows, F, Traced, RootTraced
<1> HIDE DEF fields
<1>3. Entered[all]["Control"]["Value"] = Followed(all, "Control", "Value", fields)
  BY WControlValue, EnteredIs DEF TracedTypes, fields
<1> QED
  BY <1>1, <1>2, <1>3 DEF Followed

\* What a walk enters of the control Returning.
LEMMA EControlReturning ==
    ASSUME NEW all \in BOOLEAN
    PROVE  Entered[all]["Control"]["Returning"] = {F("v", One("Value"))}
<1> DEFINE fields == <<F("v", One("Value"))>>
<1>1. Range(fields) = {F("v", One("Value"))}
  BY DEF Range
<1>2. Follows(all, "Control", "Returning", F("v", One("Value")))
  BY TypeShapes DEF Follows, F, Traced, RootTraced
<1> HIDE DEF fields
<1>3. Entered[all]["Control"]["Returning"] = Followed(all, "Control", "Returning", fields)
  BY WControlReturning, EnteredIs DEF TracedTypes, fields
<1> QED
  BY <1>1, <1>2, <1>3 DEF Followed

\* What a walk enters of the control Halted.
LEMMA EControlHalted ==
    ASSUME NEW all \in BOOLEAN
    PROVE  Entered[all]["Control"]["Halted"] = {F("v", One("Value"))}
<1> DEFINE fields == <<F("v", One("Value"))>>
<1>1. Range(fields) = {F("v", One("Value"))}
  BY DEF Range
<1>2. Follows(all, "Control", "Halted", F("v", One("Value")))
  BY TypeShapes DEF Follows, F, Traced, RootTraced
<1> HIDE DEF fields
<1>3. Entered[all]["Control"]["Halted"] = Followed(all, "Control", "Halted", fields)
  BY WControlHalted, EnteredIs DEF TracedTypes, fields
<1> QED
  BY <1>1, <1>2, <1>3 DEF Followed

\* What a walk enters of the control Suspend.
LEMMA EControlSuspend ==
    ASSUME NEW all \in BOOLEAN
    PROVE  Entered[all]["Control"]["Suspend"] = {F("args", Many(One("Value")))}
<1> DEFINE fields == <<F("effect", Num("u32")), F("args", Many(One("Value")))>>
<1>1. Range(fields) = {F("effect", Num("u32")), F("args", Many(One("Value")))}
  BY DEF Range
<1>2. ~Follows(all, "Control", "Suspend", F("effect", Num("u32")))
  BY TypeShapes DEF Follows, F
<1>3. Follows(all, "Control", "Suspend", F("args", Many(One("Value"))))
  BY TypeShapes DEF Follows, F, Traced, RootTraced
<1> HIDE DEF fields
<1>4. Entered[all]["Control"]["Suspend"] = Followed(all, "Control", "Suspend", fields)
  BY WControlSuspend, EnteredIs DEF TracedTypes, fields
<1> QED
  BY <1>1, <1>2, <1>3, <1>4 DEF Followed

\* What a walk enters of the status Ready.
LEMMA EFiberStatusReady ==
    ASSUME NEW all \in BOOLEAN
    PROVE  Entered[all]["FiberStatus"]["Ready"] = {}
<1> DEFINE fields == <<>>
<1>1. Range(fields) = {}
  BY DEF Range
<1> HIDE DEF fields
<1>2. Entered[all]["FiberStatus"]["Ready"] = Followed(all, "FiberStatus", "Ready", fields)
  BY WFiberStatusReady, EnteredIs DEF TracedTypes, fields
<1> QED
  BY <1>1, <1>2 DEF Followed

\* What a walk enters of the status Running.
LEMMA EFiberStatusRunning ==
    ASSUME NEW all \in BOOLEAN
    PROVE  Entered[all]["FiberStatus"]["Running"] = {}
<1> DEFINE fields == <<>>
<1>1. Range(fields) = {}
  BY DEF Range
<1> HIDE DEF fields
<1>2. Entered[all]["FiberStatus"]["Running"] = Followed(all, "FiberStatus", "Running", fields)
  BY WFiberStatusRunning, EnteredIs DEF TracedTypes, fields
<1> QED
  BY <1>1, <1>2 DEF Followed

\* What a walk enters of the status Completed.
LEMMA EFiberStatusCompleted ==
    ASSUME NEW all \in BOOLEAN
    PROVE  Entered[all]["FiberStatus"]["Completed"] = {F("v", One("Value"))}
<1> DEFINE fields == <<F("v", One("Value"))>>
<1>1. Range(fields) = {F("v", One("Value"))}
  BY DEF Range
<1>2. Follows(all, "FiberStatus", "Completed", F("v", One("Value")))
  BY TypeShapes DEF Follows, F, Traced, RootTraced
<1> HIDE DEF fields
<1>3. Entered[all]["FiberStatus"]["Completed"] = Followed(all, "FiberStatus", "Completed", fields)
  BY WFiberStatusCompleted, EnteredIs DEF TracedTypes, fields
<1> QED
  BY <1>1, <1>2, <1>3 DEF Followed

\* What a walk enters of a fiber.
LEMMA EFiberFiber ==
    ASSUME NEW all \in BOOLEAN
    PROVE  Entered[all]["Fiber"]["Fiber"] = {F("control", One("Control")), F("cont", Ref("conts")),
                 F("env", Ref("envs")), F("status", One("FiberStatus"))}
<1> DEFINE fields == <<F("id", Num("u32")), F("control", One("Control")),
          F("cont", Ref("conts")), F("env", Ref("envs")),
          F("status", One("FiberStatus")), F("meter", Num("u32"))>>
<1>1. Range(fields) = {F("id", Num("u32")), F("control", One("Control")),
          F("cont", Ref("conts")), F("env", Ref("envs")),
          F("status", One("FiberStatus")), F("meter", Num("u32"))}
  BY DEF Range
<1>2. ~Follows(all, "Fiber", "Fiber", F("id", Num("u32")))
  BY TypeShapes DEF Follows, F
<1>3. Follows(all, "Fiber", "Fiber", F("control", One("Control")))
  BY TypeShapes DEF Follows, F, Traced, RootTraced
<1>4. Follows(all, "Fiber", "Fiber", F("cont", Ref("conts")))
  BY TypeShapes DEF Follows, F, Traced, RootTraced
<1>5. Follows(all, "Fiber", "Fiber", F("env", Ref("envs")))
  BY TypeShapes DEF Follows, F, Traced, RootTraced
<1>6. Follows(all, "Fiber", "Fiber", F("status", One("FiberStatus")))
  BY TypeShapes DEF Follows, F, Traced, RootTraced
<1>7. ~Follows(all, "Fiber", "Fiber", F("meter", Num("u32")))
  BY TypeShapes DEF Follows, F
<1> HIDE DEF fields
<1>8. Entered[all]["Fiber"]["Fiber"] = Followed(all, "Fiber", "Fiber", fields)
  BY WFiberFiber, EnteredIs DEF TracedTypes, fields
<1> QED
  BY <1>1, <1>2, <1>3, <1>4, <1>5, <1>6, <1>7, <1>8 DEF Followed

\* What a walk enters of the frame Halt.
LEMMA EKontHalt ==
    ASSUME NEW all \in BOOLEAN
    PROVE  Entered[all]["Kont"]["Halt"] = {}
<1> DEFINE fields == <<>>
<1>1. Range(fields) = {}
  BY DEF Range
<1> HIDE DEF fields
<1>2. Entered[all]["Kont"]["Halt"] = Followed(all, "Kont", "Halt", fields)
  BY WKontHalt, EnteredIs DEF TracedTypes, fields
<1> QED
  BY <1>1, <1>2 DEF Followed

\* What a walk enters of the frame MemberK.
LEMMA EKontMemberK ==
    ASSUME NEW all \in BOOLEAN
    PROVE  Entered[all]["Kont"]["MemberK"] = {F("k", Ref("conts"))}
<1> DEFINE fields == <<F("property", Num("u32")), F("k", Ref("conts"))>>
<1>1. Range(fields) = {F("property", Num("u32")), F("k", Ref("conts"))}
  BY DEF Range
<1>2. ~Follows(all, "Kont", "MemberK", F("property", Num("u32")))
  BY TypeShapes DEF Follows, F
<1>3. Follows(all, "Kont", "MemberK", F("k", Ref("conts")))
  BY TypeShapes DEF Follows, F, Traced, KontTraced
<1> HIDE DEF fields
<1>4. Entered[all]["Kont"]["MemberK"] = Followed(all, "Kont", "MemberK", fields)
  BY WKontMemberK, EnteredIs DEF TracedTypes, fields
<1> QED
  BY <1>1, <1>2, <1>3, <1>4 DEF Followed

\* What a walk enters of the frame AssignVarK.
LEMMA EKontAssignVarK ==
    ASSUME NEW all \in BOOLEAN
    PROVE  Entered[all]["Kont"]["AssignVarK"] = {F("env", Ref("envs")), F("k", Ref("conts"))}
<1> DEFINE fields == <<F("name", Num("u32")), F("env", Ref("envs")), F("k", Ref("conts"))>>
<1>1. Range(fields) = {F("name", Num("u32")), F("env", Ref("envs")), F("k", Ref("conts"))}
  BY DEF Range
<1>2. ~Follows(all, "Kont", "AssignVarK", F("name", Num("u32")))
  BY TypeShapes DEF Follows, F
<1>3. Follows(all, "Kont", "AssignVarK", F("env", Ref("envs")))
  BY TypeShapes DEF Follows, F, Traced, KontTraced
<1>4. Follows(all, "Kont", "AssignVarK", F("k", Ref("conts")))
  BY TypeShapes DEF Follows, F, Traced, KontTraced
<1> HIDE DEF fields
<1>5. Entered[all]["Kont"]["AssignVarK"] = Followed(all, "Kont", "AssignVarK", fields)
  BY WKontAssignVarK, EnteredIs DEF TracedTypes, fields
<1> QED
  BY <1>1, <1>2, <1>3, <1>4, <1>5 DEF Followed

\* What a walk enters of the frame CalleeK.
LEMMA EKontCalleeK ==
    ASSUME NEW all \in BOOLEAN
    PROVE  Entered[all]["Kont"]["CalleeK"] = {F("env", Ref("envs")), F("k", Ref("conts"))}
<1> DEFINE fields == <<F("args_start", Num("u32")), F("args_count", Num("u16")),
          F("env", Ref("envs")), F("k", Ref("conts"))>>
<1>1. Range(fields) = {F("args_start", Num("u32")), F("args_count", Num("u16")),
          F("env", Ref("envs")), F("k", Ref("conts"))}
  BY DEF Range
<1>2. ~Follows(all, "Kont", "CalleeK", F("args_start", Num("u32")))
  BY TypeShapes DEF Follows, F
<1>3. ~Follows(all, "Kont", "CalleeK", F("args_count", Num("u16")))
  BY TypeShapes DEF Follows, F
<1>4. Follows(all, "Kont", "CalleeK", F("env", Ref("envs")))
  BY TypeShapes DEF Follows, F, Traced, KontTraced
<1>5. Follows(all, "Kont", "CalleeK", F("k", Ref("conts")))
  BY TypeShapes DEF Follows, F, Traced, KontTraced
<1> HIDE DEF fields
<1>6. Entered[all]["Kont"]["CalleeK"] = Followed(all, "Kont", "CalleeK", fields)
  BY WKontCalleeK, EnteredIs DEF TracedTypes, fields
<1> QED
  BY <1>1, <1>2, <1>3, <1>4, <1>5, <1>6 DEF Followed

\* What a walk enters of the frame ArgsK.
LEMMA EKontArgsK ==
    ASSUME NEW all \in BOOLEAN
    PROVE  Entered[all]["Kont"]["ArgsK"] = {F("callee", One("Value")),
                                            F("done", Many(One("Value"))),
                 F("env", Ref("envs")), F("k", Ref("conts"))}
<1> DEFINE fields == <<F("callee", One("Value")), F("done", Many(One("Value"))),
          F("args_start", Num("u32")), F("args_idx", Num("u16")),
          F("args_count", Num("u16")), F("env", Ref("envs")),
          F("k", Ref("conts"))>>
<1>1. Range(fields) = {F("callee", One("Value")), F("done", Many(One("Value"))),
          F("args_start", Num("u32")), F("args_idx", Num("u16")),
          F("args_count", Num("u16")), F("env", Ref("envs")),
          F("k", Ref("conts"))}
  BY DEF Range
<1>2. Follows(all, "Kont", "ArgsK", F("callee", One("Value")))
  BY TypeShapes DEF Follows, F, Traced, KontTraced
<1>3. Follows(all, "Kont", "ArgsK", F("done", Many(One("Value"))))
  BY TypeShapes DEF Follows, F, Traced, KontTraced
<1>4. ~Follows(all, "Kont", "ArgsK", F("args_start", Num("u32")))
  BY TypeShapes DEF Follows, F
<1>5. ~Follows(all, "Kont", "ArgsK", F("args_idx", Num("u16")))
  BY TypeShapes DEF Follows, F
<1>6. ~Follows(all, "Kont", "ArgsK", F("args_count", Num("u16")))
  BY TypeShapes DEF Follows, F
<1>7. Follows(all, "Kont", "ArgsK", F("env", Ref("envs")))
  BY TypeShapes DEF Follows, F, Traced, KontTraced
<1>8. Follows(all, "Kont", "ArgsK", F("k", Ref("conts")))
  BY TypeShapes DEF Follows, F, Traced, KontTraced
<1> HIDE DEF fields
<1>9. Entered[all]["Kont"]["ArgsK"] = Followed(all, "Kont", "ArgsK", fields)
  BY WKontArgsK, EnteredIs DEF TracedTypes, fields
<1> QED
  BY <1>1, <1>2, <1>3, <1>4, <1>5, <1>6, <1>7, <1>8, <1>9 DEF Followed

\* What a walk enters of the frame ReturnK.
LEMMA EKontReturnK ==
    ASSUME NEW all \in BOOLEAN
    PROVE  Entered[all]["Kont"]["ReturnK"] = {F("env", Ref("envs")), F("k", Ref("conts"))}
<1> DEFINE fields == <<F("env", Ref("envs")), F("k", Ref("conts"))>>
<1>1. Range(fields) = {F("env", Ref("envs")), F("k", Ref("conts"))}
  BY DEF Range
<1>2. Follows(all, "Kont", "ReturnK", F("env", Ref("envs")))
  BY TypeShapes DEF Follows, F, Traced, KontTraced
<1>3. Follows(all, "Kont", "ReturnK", F("k", Ref("conts")))
  BY TypeShapes DEF Follows, F, Traced, KontTraced
<1> HIDE DEF fields
<1>4. Entered[all]["Kont"]["ReturnK"] = Followed(all, "Kont", "ReturnK", fields)
  BY WKontReturnK, EnteredIs DEF TracedTypes, fields
<1> QED
  BY <1>1, <1>2, <1>3, <1>4 DEF Followed

\* What a walk enters of the frame ReturnExprK.
LEMMA EKontReturnExprK ==
    ASSUME NEW all \in BOOLEAN
    PROVE  Entered[all]["Kont"]["ReturnExprK"] = {F("k", Ref("conts"))}
<1> DEFINE fields == <<F("k", Ref("conts"))>>
<1>1. Range(fields) = {F("k", Ref("conts"))}
  BY DEF Range
<1>2. Follows(all, "Kont", "ReturnExprK", F("k", Ref("conts")))
  BY TypeShapes DEF Follows, F, Traced, KontTraced
<1> HIDE DEF fields
<1>3. Entered[all]["Kont"]["ReturnExprK"] = Followed(all, "Kont", "ReturnExprK", fields)
  BY WKontReturnExprK, EnteredIs DEF TracedTypes, fields
<1> QED
  BY <1>1, <1>2, <1>3 DEF Followed

\* What a walk enters of the frame ObjectK.
LEMMA EKontObjectK ==
    ASSUME NEW all \in BOOLEAN
    PROVE  Entered[all]["Kont"]["ObjectK"] = {F("done", Many(One("Binding"))),
                                              F("env", Ref("envs")),
                 F("k", Ref("conts"))}
<1> DEFINE fields == <<F("done", Many(One("Binding"))), F("props_start", Num("u32")),
          F("props_idx", Num("u16")), F("props_count", Num("u16")),
          F("env", Ref("envs")), F("k", Ref("conts"))>>
<1>1. Range(fields) = {F("done", Many(One("Binding"))), F("props_start", Num("u32")),
          F("props_idx", Num("u16")), F("props_count", Num("u16")),
          F("env", Ref("envs")), F("k", Ref("conts"))}
  BY DEF Range
<1>2. Follows(all, "Kont", "ObjectK", F("done", Many(One("Binding"))))
  BY TypeShapes DEF Follows, F, Traced, KontTraced
<1>3. ~Follows(all, "Kont", "ObjectK", F("props_start", Num("u32")))
  BY TypeShapes DEF Follows, F
<1>4. ~Follows(all, "Kont", "ObjectK", F("props_idx", Num("u16")))
  BY TypeShapes DEF Follows, F
<1>5. ~Follows(all, "Kont", "ObjectK", F("props_count", Num("u16")))
  BY TypeShapes DEF Follows, F
<1>6. Follows(all, "Kont", "ObjectK", F("env", Ref("envs")))
  BY TypeShapes DEF Follows, F, Traced, KontTraced
<1>7. Follows(all, "Kont", "ObjectK", F("k", Ref("conts")))
  BY TypeShapes DEF Follows, F, Traced, KontTraced
<1> HIDE DEF fields
<1>8. Entered[all]["Kont"]["ObjectK"] = Followed(all, "Kont", "ObjectK", fields)
  BY WKontObjectK, EnteredIs DEF TracedTypes, fields
<1> QED
  BY <1>1, <1>2, <1>3, <1>4, <1>5, <1>6, <1>7, <1>8 DEF Followed

\* What a walk enters of the frame HandlerK.
LEMMA EKontHandlerK ==
    ASSUME NEW all \in BOOLEAN
    PROVE  Entered[all]["Kont"]["HandlerK"] = {F("env", Ref("envs")), F("k", Ref("conts"))}
<1> DEFINE fields == <<F("clauses_start", Num("u32")), F("clauses_count", Num("u16")),
          F("env", Ref("envs")), F("return_body", Num("u32")),
          F("return_param", Num("u32")), F("k", Ref("conts"))>>
<1>1. Range(fields) = {F("clauses_start", Num("u32")), F("clauses_count", Num("u16")),
          F("env", Ref("envs")), F("return_body", Num("u32")),
          F("return_param", Num("u32")), F("k", Ref("conts"))}
  BY DEF Range
<1>2. ~Follows(all, "Kont", "HandlerK", F("clauses_start", Num("u32")))
  BY TypeShapes DEF Follows, F
<1>3. ~Follows(all, "Kont", "HandlerK", F("clauses_count", Num("u16")))
  BY TypeShapes DEF Follows, F
<1>4. Follows(all, "Kont", "HandlerK", F("env", Ref("envs")))
  BY TypeShapes DEF Follows, F, Traced, KontTraced
<1>5. ~Follows(all, "Kont", "HandlerK", F("return_body", Num("u32")))
  BY TypeShapes DEF Follows, F
<1>6. ~Follows(all, "Kont", "HandlerK", F("return_param", Num("u32")))
  BY TypeShapes DEF Follows, F
<1>7. Follows(all, "Kont", "HandlerK", F("k", Ref("conts")))
  BY TypeShapes DEF Follows, F, Traced, KontTraced
<1> HIDE DEF fields
<1>8. Entered[all]["Kont"]["HandlerK"] = Followed(all, "Kont", "HandlerK", fields)
  BY WKontHandlerK, EnteredIs DEF TracedTypes, fields
<1> QED
  BY <1>1, <1>2, <1>3, <1>4, <1>5, <1>6, <1>7, <1>8 DEF Followed

\* What a walk enters of the frame PerformArgsK.
LEMMA EKontPerformArgsK ==
    ASSUME NEW all \in BOOLEAN
    PROVE  Entered[all]["Kont"]["PerformArgsK"] = {F("done", Many(One("Value"))),
                                                   F("env", Ref("envs")),
                 F("k", Ref("conts"))}
<1> DEFINE fields == <<F("effect", Num("u32")), F("done", Many(One("Value"))),
          F("args_start", Num("u32")), F("args_idx", Num("u16")),
          F("args_count", Num("u16")), F("env", Ref("envs")),
          F("k", Ref("conts"))>>
<1>1. Range(fields) = {F("effect", Num("u32")), F("done", Many(One("Value"))),
          F("args_start", Num("u32")), F("args_idx", Num("u16")),
          F("args_count", Num("u16")), F("env", Ref("envs")),
          F("k", Ref("conts"))}
  BY DEF Range
<1>2. ~Follows(all, "Kont", "PerformArgsK", F("effect", Num("u32")))
  BY TypeShapes DEF Follows, F
<1>3. Follows(all, "Kont", "PerformArgsK", F("done", Many(One("Value"))))
  BY TypeShapes DEF Follows, F, Traced, KontTraced
<1>4. ~Follows(all, "Kont", "PerformArgsK", F("args_start", Num("u32")))
  BY TypeShapes DEF Follows, F
<1>5. ~Follows(all, "Kont", "PerformArgsK", F("args_idx", Num("u16")))
  BY TypeShapes DEF Follows, F
<1>6. ~Follows(all, "Kont", "PerformArgsK", F("args_count", Num("u16")))
  BY TypeShapes DEF Follows, F
<1>7. Follows(all, "Kont", "PerformArgsK", F("env", Ref("envs")))
  BY TypeShapes DEF Follows, F, Traced, KontTraced
<1>8. Follows(all, "Kont", "PerformArgsK", F("k", Ref("conts")))
  BY TypeShapes DEF Follows, F, Traced, KontTraced
<1> HIDE DEF fields
<1>9. Entered[all]["Kont"]["PerformArgsK"] = Followed(all, "Kont", "PerformArgsK", fields)
  BY WKontPerformArgsK, EnteredIs DEF TracedTypes, fields
<1> QED
  BY <1>1, <1>2, <1>3, <1>4, <1>5, <1>6, <1>7, <1>8, <1>9 DEF Followed

\* What a walk enters of the frame HandleWithK.
LEMMA EKontHandleWithK ==
    ASSUME NEW all \in BOOLEAN
    PROVE  Entered[all]["Kont"]["HandleWithK"] = {F("env", Ref("envs")), F("k", Ref("conts"))}
<1> DEFINE fields == <<F("body", Num("u32")), F("env", Ref("envs")), F("k", Ref("conts"))>>
<1>1. Range(fields) = {F("body", Num("u32")), F("env", Ref("envs")), F("k", Ref("conts"))}
  BY DEF Range
<1>2. ~Follows(all, "Kont", "HandleWithK", F("body", Num("u32")))
  BY TypeShapes DEF Follows, F
<1>3. Follows(all, "Kont", "HandleWithK", F("env", Ref("envs")))
  BY TypeShapes DEF Follows, F, Traced, KontTraced
<1>4. Follows(all, "Kont", "HandleWithK", F("k", Ref("conts")))
  BY TypeShapes DEF Follows, F, Traced, KontTraced
<1> HIDE DEF fields
<1>5. Entered[all]["Kont"]["HandleWithK"] = Followed(all, "Kont", "HandleWithK", fields)
  BY WKontHandleWithK, EnteredIs DEF TracedTypes, fields
<1> QED
  BY <1>1, <1>2, <1>3, <1>4, <1>5 DEF Followed

-----------------------------------------------------------------------------
(* The things of the machine, over sets S of ids they may refer to: an id  *)
(* in S.closures is that of a function's object.                           *)

IdSets == [objects : SUBSET Nat, closures : SUBSET Nat, envs : SUBSET Nat,
           conts : SUBSET Nat, handlers : SUBSET Nat]

UpToOne(T) == {<<>>} \cup {<<x>> : x \in T}

Ints == {IntValue(n) : n \in Nat}
Strs == {Str(n) : n \in Nat}
ObjsIn(S) == {Obj(o) : o \in S.objects}
FunsIn(S) == {Fun(o) : o \in S.closures}
HandlersOf(S) == {Thing("Handler", [h |-> h]) : h \in S.handlers}
Resumes(S) == {Thing("Continuation", [k |-> k, env |-> e]) : k \in S.conts, e \in S.envs}
ValuesIn(S) == {Undefined} \cup Ints \cup Strs \cup ObjsIn(S) \cup FunsIn(S) \cup HandlersOf(S)
               \cup Resumes(S)

BindingsIn(S) == {Binding(X, v) : v \in ValuesIn(S)}

ClosuresIn(S) == {Closure(e) : e \in S.envs}
ObjectsIn(S) == {ObjectWith(v) : v \in ValuesIn(S)} \cup ClosuresIn(S)

EnvsIn(S) == {EnvWith(bindings, parent) : bindings \in UpToOne(BindingsIn(S)),
                                          parent \in UpToOne(S.envs)}

HandlersIn(S) ==
    {Thing("Handler", [clauses_start |-> 0, clauses_count |-> 1, return_param |-> 0,
                       return_body |-> 0, env |-> e]) : e \in S.envs}

\* The fields of a frame of each kind there is.
FrameFields(S) == [
    Halt |-> {<<>>},
    MemberK |-> [property : Nat, k : S.conts],
    AssignVarK |-> [name : Nat, env : S.envs, k : S.conts],
    CalleeK |-> [args_start : Nat, args_count : Nat, env : S.envs, k : S.conts],
    ArgsK |-> [callee : ValuesIn(S), done : {<<>>}, args_start : Nat, args_idx : Nat,
               args_count : Nat, env : S.envs, k : S.conts],
    ReturnK |-> [env : S.envs, k : S.conts],
    ReturnExprK |-> [k : S.conts],
    ObjectK |-> [done : {<<>>}, props_start : Nat, props_idx : Nat, props_count : Nat,
                 env : S.envs, k : S.conts],
    HandlerK |-> [clauses_start : Nat, clauses_count : Nat, env : S.envs, return_body : Nat,
                  return_param : Nat, k : S.conts],
    PerformArgsK |-> [effect : Nat, done : {<<>>}, args_start : Nat, args_idx : Nat,
                      args_count : Nat, env : S.envs, k : S.conts],
    HandleWithK |-> [body : Nat, env : S.envs, k : S.conts]]

KontsIn(S) == UNION {{Thing(is, f) : f \in FrameFields(S)[is]} : is \in DOMAIN FrameFields(S)}

WithValueIn(S) ==
    UNION {{Thing(is, [v |-> v]) : v \in ValuesIn(S)} : is \in {"Value", "Returning", "Halted"}}
SuspendsIn(S) ==
    {Thing("Suspend", [effect |-> n, args |-> args]) : n \in Nat, args \in UpToOne(ValuesIn(S))}
ControlsIn(S) == {SomeExpr} \cup WithValueIn(S) \cup SuspendsIn(S)

StatusesIn(S) == {Ready, Running} \cup {Completed(v) : v \in ValuesIn(S)}

FibersIn(S) ==
    {Fiber(id, ctl, k, e, status) : id \in Nat, ctl \in ControlsIn(S), k \in S.conts,
                                    e \in S.envs, status \in StatusesIn(S)}

-----------------------------------------------------------------------------
(* The ids in them. *)

ValueIds(v) ==
    CASE v.is \in {"Object", "Function"} -> {<<"objects", v.f.o>>}
      [] v.is = "Handler" -> {<<"handlers", v.f.h>>}
      [] v.is = "Continuation" -> {<<"conts", v.f.k>>, <<"envs", v.f.env>>}
      [] OTHER -> {}

\* A field at the level of values, as InPart and InThing are a field at theirs.
InValue(all, type, x) == OwnIds(type, x)

\* Field by field.
LEMMA LevelFields ==
    ASSUME NEW all, NEW T \in TracedTypes, NEW x
    PROVE  /\ ValueRefs(all, T, x) =
                UNION {InValue(all, field.type, x.f[field.name]) : field \in Entered[all][T][x.is]}
           /\ PartRefs(all, T, x) =
                UNION {InPart(all, field.type, x.f[field.name]) : field \in Entered[all][T][x.is]}
           /\ ThingRefs(all, T, x) =
                UNION {InThing(all, field.type, x.f[field.name]) : field \in Entered[all][T][x.is]}
  BY DEF ValueRefs, PartRefs, ThingRefs, EnteredIn, InValue

\* A sequence of one.
LEMMA One1 == ASSUME NEW x PROVE DOMAIN <<x>> = {1} /\ <<x>>[1] = x
  BY SMT

\* An id of an arena.
LEMMA RefField ==
    ASSUME NEW all, NEW a, NEW x
    PROVE  /\ InValue(all, Ref(a), x) = {<<a, x>>}
           /\ InPart(all, Ref(a), x) = {<<a, x>>}
           /\ InThing(all, Ref(a), x) = {<<a, x>>}
<1>1. Base(Ref(a)) = Ref(a) /\ Inside(Ref(a), x) = <<x>>
  BY TypeShapes DEF Base, Inside
<1> QED
  BY <1>1, TypeShapes, One1 DEF InValue, InPart, InThing, OwnIds

\* A thing.
LEMMA OneField ==
    ASSUME NEW all, NEW n, NEW x
    PROVE  /\ InPart(all, One(n), x) = ValueRefs(all, n, x)
           /\ InThing(all, One(n), x) = PartRefs(all, n, x)
           /\ Refs(all, One(n), x) = ThingRefs(all, n, x)
<1>1. Base(One(n)) = One(n) /\ Inside(One(n), x) = <<x>>
  BY TypeShapes DEF Base, Inside
<1> QED
  BY <1>1, TypeShapes, One1 DEF InPart, InThing, OwnIds, Refs

\* A list of things.
LEMMA ManyField ==
    ASSUME NEW all, NEW n, NEW s
    PROVE  /\ InPart(all, Many(One(n)), s) = UNION {ValueRefs(all, n, s[i]) : i \in DOMAIN s}
           /\ InThing(all, Many(One(n)), s) = UNION {PartRefs(all, n, s[i]) : i \in DOMAIN s}
           /\ Refs(all, Many(One(n)), s) = UNION {ThingRefs(all, n, s[i]) : i \in DOMAIN s}
<1>1. Base(Many(One(n))) = One(n) /\ Inside(Many(One(n)), s) = s
  BY TypeShapes DEF Base, Inside
<1> QED
  BY <1>1, TypeShapes DEF InPart, InThing, OwnIds, Refs

\* An id that may be missing.
LEMMA OptField ==
    ASSUME NEW all, NEW a, NEW w, NEW s
    PROVE  /\ InPart(all, Opt(Ref(a)), s) = {<<a, s[i]>> : i \in DOMAIN s}
           /\ InThing(all, Opt(Ref(a)), s) = {<<a, s[i]>> : i \in DOMAIN s}
           /\ InPart(all, Opt(Num(w)), s) = {} /\ InThing(all, Opt(Num(w)), s) = {}
<1>1. Base(Opt(Ref(a))) = Ref(a) /\ Inside(Opt(Ref(a)), s) = s
  BY TypeShapes DEF Base, Inside
<1>2. Base(Opt(Num(w))) = Num(w) /\ Inside(Opt(Num(w)), s) = s
  BY TypeShapes DEF Base, Inside
<1> QED
  BY <1>1, <1>2, TypeShapes DEF InPart, InThing, OwnIds

\* What a walk enters through a thing with one field to follow.
LEMMA OneFollowed ==
    ASSUME NEW all, NEW T \in TracedTypes, NEW x, NEW a, NEW A,
           Entered[all][T][x.is] = {F(a, A)}
    PROVE  /\ ValueRefs(all, T, x) = InValue(all, A, x.f[a])
           /\ PartRefs(all, T, x) = InPart(all, A, x.f[a])
           /\ ThingRefs(all, T, x) = InThing(all, A, x.f[a])
<1> DEFINE fa == F(a, A)
<1>1. fa.name = a /\ fa.type = A
  BY DEF F
<1>2. Entered[all][T][x.is] = {fa}
  OBVIOUS
<1> HIDE DEF fa
<1>3. ValueRefs(all, T, x) = InValue(all, A, x.f[a])
  <2>1. UNION {InValue(all, field.type, x.f[field.name]) : field \in {fa}}
        = InValue(all, fa.type, x.f[fa.name])
    OBVIOUS
  <2>2. ValueRefs(all, T, x) = UNION {InValue(all, field.type, x.f[field.name])
            : field \in Entered[all][T][x.is]}
    BY LevelFields
  <2>3. ValueRefs(all, T, x) = UNION {InValue(all, field.type, x.f[field.name]) : field \in {fa}}
    BY <1>2, <2>2
  <2> QED
    BY <1>1, <2>1, <2>3
<1>4. PartRefs(all, T, x) = InPart(all, A, x.f[a])
  <2>1. UNION {InPart(all, field.type, x.f[field.name]) : field \in {fa}}
        = InPart(all, fa.type, x.f[fa.name])
    OBVIOUS
  <2>2. PartRefs(all, T, x) = UNION {InPart(all, field.type, x.f[field.name])
            : field \in Entered[all][T][x.is]}
    BY LevelFields
  <2>3. PartRefs(all, T, x) = UNION {InPart(all, field.type, x.f[field.name]) : field \in {fa}}
    BY <1>2, <2>2
  <2> QED
    BY <1>1, <2>1, <2>3
<1>5. ThingRefs(all, T, x) = InThing(all, A, x.f[a])
  <2>1. UNION {InThing(all, field.type, x.f[field.name]) : field \in {fa}}
        = InThing(all, fa.type, x.f[fa.name])
    OBVIOUS
  <2>2. ThingRefs(all, T, x) = UNION {InThing(all, field.type, x.f[field.name])
            : field \in Entered[all][T][x.is]}
    BY LevelFields
  <2>3. ThingRefs(all, T, x) = UNION {InThing(all, field.type, x.f[field.name]) : field \in {fa}}
    BY <1>2, <2>2
  <2> QED
    BY <1>1, <2>1, <2>3
<1> QED
  BY <1>3, <1>4, <1>5

\* What a walk enters through a thing with two fields to follow.
LEMMA TwoFollowed ==
    ASSUME NEW all, NEW T \in TracedTypes, NEW x, NEW a, NEW A, NEW b, NEW B,
           Entered[all][T][x.is] = {F(a, A), F(b, B)}
    PROVE  /\ ValueRefs(all, T, x) = InValue(all, A, x.f[a]) \cup InValue(all, B, x.f[b])
           /\ PartRefs(all, T, x) = InPart(all, A, x.f[a]) \cup InPart(all, B, x.f[b])
           /\ ThingRefs(all, T, x) = InThing(all, A, x.f[a]) \cup InThing(all, B, x.f[b])
<1> DEFINE fa == F(a, A)
           fb == F(b, B)
<1>1. fa.name = a /\ fa.type = A /\ fb.name = b /\ fb.type = B
  BY DEF F
<1>2. Entered[all][T][x.is] = {fa, fb}
  OBVIOUS
<1> HIDE DEF fa, fb
<1>3. ValueRefs(all, T, x) = InValue(all, A, x.f[a]) \cup InValue(all, B, x.f[b])
  <2>1. UNION {InValue(all, field.type, x.f[field.name]) : field \in {fa, fb}}
        = InValue(all, fa.type, x.f[fa.name]) \cup InValue(all, fb.type, x.f[fb.name])
    OBVIOUS
  <2>2. ValueRefs(all, T, x) = UNION {InValue(all, field.type, x.f[field.name])
            : field \in Entered[all][T][x.is]}
    BY LevelFields
  <2>3. ValueRefs(all, T, x) = UNION {InValue(all, field.type, x.f[field.name])
            : field \in {fa, fb}}
    BY <1>2, <2>2
  <2> QED
    BY <1>1, <2>1, <2>3
<1>4. PartRefs(all, T, x) = InPart(all, A, x.f[a]) \cup InPart(all, B, x.f[b])
  <2>1. UNION {InPart(all, field.type, x.f[field.name]) : field \in {fa, fb}}
        = InPart(all, fa.type, x.f[fa.name]) \cup InPart(all, fb.type, x.f[fb.name])
    OBVIOUS
  <2>2. PartRefs(all, T, x) = UNION {InPart(all, field.type, x.f[field.name])
            : field \in Entered[all][T][x.is]}
    BY LevelFields
  <2>3. PartRefs(all, T, x) = UNION {InPart(all, field.type, x.f[field.name]) : field \in {fa, fb}}
    BY <1>2, <2>2
  <2> QED
    BY <1>1, <2>1, <2>3
<1>5. ThingRefs(all, T, x) = InThing(all, A, x.f[a]) \cup InThing(all, B, x.f[b])
  <2>1. UNION {InThing(all, field.type, x.f[field.name]) : field \in {fa, fb}}
        = InThing(all, fa.type, x.f[fa.name]) \cup InThing(all, fb.type, x.f[fb.name])
    OBVIOUS
  <2>2. ThingRefs(all, T, x) = UNION {InThing(all, field.type, x.f[field.name])
            : field \in Entered[all][T][x.is]}
    BY LevelFields
  <2>3. ThingRefs(all, T, x) = UNION {InThing(all, field.type, x.f[field.name])
            : field \in {fa, fb}}
    BY <1>2, <2>2
  <2> QED
    BY <1>1, <2>1, <2>3
<1> QED
  BY <1>3, <1>4, <1>5

\* What a walk enters through a thing with three fields to follow.
LEMMA ThreeFollowed ==
    ASSUME NEW all, NEW T \in TracedTypes, NEW x, NEW a, NEW A, NEW b, NEW B, NEW c, NEW C,
           Entered[all][T][x.is] = {F(a, A), F(b, B), F(c, C)}
    PROVE  /\ ValueRefs(all, T, x) = InValue(all, A, x.f[a]) \cup InValue(all, B, x.f[b])
                  \cup InValue(all, C, x.f[c])
           /\ PartRefs(all, T, x) = InPart(all, A, x.f[a]) \cup InPart(all, B, x.f[b])
                  \cup InPart(all, C, x.f[c])
           /\ ThingRefs(all, T, x) = InThing(all, A, x.f[a]) \cup InThing(all, B, x.f[b])
                  \cup InThing(all, C, x.f[c])
<1> DEFINE fa == F(a, A)
           fb == F(b, B)
           fc == F(c, C)
<1>1. fa.name = a /\ fa.type = A /\ fb.name = b /\ fb.type = B /\ fc.name = c /\ fc.type = C
  BY DEF F
<1>2. Entered[all][T][x.is] = {fa, fb, fc}
  OBVIOUS
<1> HIDE DEF fa, fb, fc
<1>3. ValueRefs(all, T, x) = InValue(all, A, x.f[a]) \cup InValue(all, B, x.f[b])
          \cup InValue(all, C, x.f[c])
  <2>1. UNION {InValue(all, field.type, x.f[field.name]) : field \in {fa, fb, fc}}
        = InValue(all, fa.type, x.f[fa.name]) \cup InValue(all, fb.type, x.f[fb.name])
            \cup InValue(all, fc.type, x.f[fc.name])
    OBVIOUS
  <2>2. ValueRefs(all, T, x) = UNION {InValue(all, field.type, x.f[field.name])
            : field \in Entered[all][T][x.is]}
    BY LevelFields
  <2>3. ValueRefs(all, T, x) = UNION {InValue(all, field.type, x.f[field.name])
            : field \in {fa, fb, fc}}
    BY <1>2, <2>2
  <2> QED
    BY <1>1, <2>1, <2>3
<1>4. PartRefs(all, T, x) = InPart(all, A, x.f[a]) \cup InPart(all, B, x.f[b])
          \cup InPart(all, C, x.f[c])
  <2>1. UNION {InPart(all, field.type, x.f[field.name]) : field \in {fa, fb, fc}}
        = InPart(all, fa.type, x.f[fa.name]) \cup InPart(all, fb.type, x.f[fb.name])
            \cup InPart(all, fc.type, x.f[fc.name])
    OBVIOUS
  <2>2. PartRefs(all, T, x) = UNION {InPart(all, field.type, x.f[field.name])
            : field \in Entered[all][T][x.is]}
    BY LevelFields
  <2>3. PartRefs(all, T, x) = UNION {InPart(all, field.type, x.f[field.name])
            : field \in {fa, fb, fc}}
    BY <1>2, <2>2
  <2> QED
    BY <1>1, <2>1, <2>3
<1>5. ThingRefs(all, T, x) = InThing(all, A, x.f[a]) \cup InThing(all, B, x.f[b])
          \cup InThing(all, C, x.f[c])
  <2>1. UNION {InThing(all, field.type, x.f[field.name]) : field \in {fa, fb, fc}}
        = InThing(all, fa.type, x.f[fa.name]) \cup InThing(all, fb.type, x.f[fb.name])
            \cup InThing(all, fc.type, x.f[fc.name])
    OBVIOUS
  <2>2. ThingRefs(all, T, x) = UNION {InThing(all, field.type, x.f[field.name])
            : field \in Entered[all][T][x.is]}
    BY LevelFields
  <2>3. ThingRefs(all, T, x) = UNION {InThing(all, field.type, x.f[field.name])
            : field \in {fa, fb, fc}}
    BY <1>2, <2>2
  <2> QED
    BY <1>1, <2>1, <2>3
<1> QED
  BY <1>3, <1>4, <1>5

\* What a walk enters through a thing with four fields to follow.
LEMMA FourFollowed ==
    ASSUME NEW all, NEW T \in TracedTypes, NEW x, NEW a, NEW A, NEW b, NEW B, NEW c, NEW C,
           NEW d, NEW D,
           Entered[all][T][x.is] = {F(a, A), F(b, B), F(c, C), F(d, D)}
    PROVE  /\ ValueRefs(all, T, x) = InValue(all, A, x.f[a]) \cup InValue(all, B, x.f[b])
                  \cup InValue(all, C, x.f[c]) \cup InValue(all, D, x.f[d])
           /\ PartRefs(all, T, x) = InPart(all, A, x.f[a]) \cup InPart(all, B, x.f[b])
                  \cup InPart(all, C, x.f[c]) \cup InPart(all, D, x.f[d])
           /\ ThingRefs(all, T, x) = InThing(all, A, x.f[a]) \cup InThing(all, B, x.f[b])
                  \cup InThing(all, C, x.f[c]) \cup InThing(all, D, x.f[d])
<1> DEFINE fa == F(a, A)
           fb == F(b, B)
           fc == F(c, C)
           fd == F(d, D)
<1>1. fa.name = a /\ fa.type = A /\ fb.name = b /\ fb.type = B /\ fc.name = c /\ fc.type = C
          /\ fd.name = d /\ fd.type = D
  BY DEF F
<1>2. Entered[all][T][x.is] = {fa, fb, fc, fd}
  OBVIOUS
<1> HIDE DEF fa, fb, fc, fd
<1>3. ValueRefs(all, T, x) = InValue(all, A, x.f[a]) \cup InValue(all, B, x.f[b])
          \cup InValue(all, C, x.f[c]) \cup InValue(all, D, x.f[d])
  <2>1. UNION {InValue(all, field.type, x.f[field.name]) : field \in {fa, fb, fc, fd}}
        = InValue(all, fa.type, x.f[fa.name]) \cup InValue(all, fb.type, x.f[fb.name])
            \cup InValue(all, fc.type, x.f[fc.name]) \cup InValue(all, fd.type, x.f[fd.name])
    OBVIOUS
  <2>2. ValueRefs(all, T, x) = UNION {InValue(all, field.type, x.f[field.name])
            : field \in Entered[all][T][x.is]}
    BY LevelFields
  <2>3. ValueRefs(all, T, x) = UNION {InValue(all, field.type, x.f[field.name])
            : field \in {fa, fb, fc, fd}}
    BY <1>2, <2>2
  <2> QED
    BY <1>1, <2>1, <2>3
<1>4. PartRefs(all, T, x) = InPart(all, A, x.f[a]) \cup InPart(all, B, x.f[b])
          \cup InPart(all, C, x.f[c]) \cup InPart(all, D, x.f[d])
  <2>1. UNION {InPart(all, field.type, x.f[field.name]) : field \in {fa, fb, fc, fd}}
        = InPart(all, fa.type, x.f[fa.name]) \cup InPart(all, fb.type, x.f[fb.name])
            \cup InPart(all, fc.type, x.f[fc.name]) \cup InPart(all, fd.type, x.f[fd.name])
    OBVIOUS
  <2>2. PartRefs(all, T, x) = UNION {InPart(all, field.type, x.f[field.name])
            : field \in Entered[all][T][x.is]}
    BY LevelFields
  <2>3. PartRefs(all, T, x) = UNION {InPart(all, field.type, x.f[field.name])
            : field \in {fa, fb, fc, fd}}
    BY <1>2, <2>2
  <2> QED
    BY <1>1, <2>1, <2>3
<1>5. ThingRefs(all, T, x) = InThing(all, A, x.f[a]) \cup InThing(all, B, x.f[b])
          \cup InThing(all, C, x.f[c]) \cup InThing(all, D, x.f[d])
  <2>1. UNION {InThing(all, field.type, x.f[field.name]) : field \in {fa, fb, fc, fd}}
        = InThing(all, fa.type, x.f[fa.name]) \cup InThing(all, fb.type, x.f[fb.name])
            \cup InThing(all, fc.type, x.f[fc.name]) \cup InThing(all, fd.type, x.f[fd.name])
    OBVIOUS
  <2>2. ThingRefs(all, T, x) = UNION {InThing(all, field.type, x.f[field.name])
            : field \in Entered[all][T][x.is]}
    BY LevelFields
  <2>3. ThingRefs(all, T, x) = UNION {InThing(all, field.type, x.f[field.name])
            : field \in {fa, fb, fc, fd}}
    BY <1>2, <2>2
  <2> QED
    BY <1>1, <2>1, <2>3
<1> QED
  BY <1>3, <1>4, <1>5

\* Through a thing with nothing to follow a walk enters nothing.
LEMMA NoneFollowed ==
    ASSUME NEW all, NEW T \in TracedTypes, NEW x, Entered[all][T][x.is] = {}
    PROVE  ValueRefs(all, T, x) = {} /\ PartRefs(all, T, x) = {} /\ ThingRefs(all, T, x) = {}
  BY LevelFields

\* What a value refers to, wherever it is.
LEMMA ValueRefsAre ==
    ASSUME NEW all \in BOOLEAN, NEW S, NEW v \in ValuesIn(S)
    PROVE  /\ ValueRefs(all, "Value", v) = ValueIds(v)
           /\ PartRefs(all, "Value", v) = ValueIds(v)
<1>0. "Value" \in TracedTypes
  BY DEF TracedTypes
<1>1. CASE v.is \in {"Undefined", "Int", "String"}
  <2>1. Entered[all]["Value"][v.is] = {}
    BY <1>1, EValueUndefined, EValueInt, EValueString
  <2>2. ValueIds(v) = {}
    BY <1>1 DEF ValueIds
  <2> QED
    BY <1>0, <2>1, <2>2, NoneFollowed
<1>2. CASE v.is \in {"Object", "Function"}
  <2>1. Entered[all]["Value"][v.is] = {F("o", Ref("objects"))}
    BY <1>2, EValueObject, EValueFunction
  <2>2. ValueIds(v) = {<<"objects", v.f.o>>}
    BY <1>2 DEF ValueIds
  <2> QED
    BY <1>0, <2>1, <2>2, OneFollowed, RefField
<1>3. CASE v.is = "Handler"
  <2>1. Entered[all]["Value"][v.is] = {F("h", Ref("handlers"))}
    BY <1>3, EValueHandler
  <2>2. ValueIds(v) = {<<"handlers", v.f.h>>}
    BY <1>3 DEF ValueIds
  <2> QED
    BY <1>0, <2>1, <2>2, OneFollowed, RefField
<1>4. CASE v.is = "Continuation"
  <2>1. Entered[all]["Value"][v.is] = {F("k", Ref("conts")), F("env", Ref("envs"))}
    BY <1>4, EValueContinuation
  <2>2. ValueIds(v) = {<<"conts", v.f.k>>, <<"envs", v.f.env>>}
    BY <1>4 DEF ValueIds
  <2>3. /\ ValueRefs(all, "Value", v)
             = InValue(all, Ref("conts"), v.f["k"]) \cup InValue(all, Ref("envs"), v.f["env"])
        /\ PartRefs(all, "Value", v)
             = InPart(all, Ref("conts"), v.f["k"]) \cup InPart(all, Ref("envs"), v.f["env"])
    BY <1>0, <2>1, TwoFollowed
  <2> QED
    BY <2>2, <2>3, RefField
<1>5. v.is \in {"Undefined", "Int", "String", "Object", "Function", "Handler", "Continuation"}
  BY DEF ValuesIn, Ints, Strs, ObjsIn, FunsIn, HandlersOf, Resumes, Undefined, IntValue, Str,
     Obj, Fun, Thing
<1> QED
  BY <1>1, <1>2, <1>3, <1>4, <1>5

\* The ids of a frame.
KontIds(x) ==
    CASE x.is = "Halt" -> {}
      [] x.is \in {"MemberK", "ReturnExprK"} -> {<<"conts", x.f.k>>}
      [] x.is = "ArgsK" -> ValueIds(x.f.callee) \cup {<<"envs", x.f.env>>, <<"conts", x.f.k>>}
      [] OTHER -> {<<"envs", x.f.env>>, <<"conts", x.f.k>>}

\* The kinds of frames.
LEMMA KontShape ==
    ASSUME NEW S, NEW x \in KontsIn(S)
    PROVE  /\ x.is \in {"Halt", "MemberK", "AssignVarK", "CalleeK", "ArgsK", "ReturnK",
                        "ReturnExprK",
                       "ObjectK", "HandlerK", "PerformArgsK", "HandleWithK"}
           /\ x.f \in FrameFields(S)[x.is]
           /\ x = Thing(x.is, x.f)
<1>1. PICK is \in DOMAIN FrameFields(S) : x \in {Thing(is, f) : f \in FrameFields(S)[is]}
  BY DEF KontsIn
<1>2. PICK f \in FrameFields(S)[is] : x = Thing(is, f)
  BY <1>1
<1>3. x.is = is /\ x.f = f
  BY <1>2 DEF Thing
<1>4. is \in {"Halt", "MemberK", "AssignVarK", "CalleeK", "ArgsK", "ReturnK", "ReturnExprK",
              "ObjectK", "HandlerK", "PerformArgsK", "HandleWithK"}
  BY <1>1 DEF FrameFields
<1> QED
  BY <1>2, <1>3, <1>4

\* A list of nothing holds nothing.
LEMMA NoneInside ==
    ASSUME NEW all, NEW n
    PROVE  /\ InPart(all, Many(One(n)), <<>>) = {} /\ InThing(all, Many(One(n)), <<>>) = {}
           /\ Refs(all, Many(One(n)), <<>>) = {}
           /\ \A a : InThing(all, Opt(Ref(a)), <<>>) = {}
<1>1. DOMAIN <<>> = {}
  OBVIOUS
<1>2. \A a : InThing(all, Opt(Ref(a)), <<>>) = {<<a, <<>>[i]>> : i \in DOMAIN <<>>}
  BY OptField
<1> QED
  BY <1>1, <1>2, ManyField

\* What a frame refers to is the ids of a frame.
LEMMA KontRefsAre ==
    ASSUME NEW all \in BOOLEAN, NEW S, NEW x \in KontsIn(S)
    PROVE  ThingRefs(all, "Kont", x) = KontIds(x)
<1>0. "Kont" \in TracedTypes
  BY DEF TracedTypes
<1>. x.f \in FrameFields(S)[x.is]
  BY KontShape
<1>1. CASE x.is = "Halt"
  <2>1. Entered[all]["Kont"][x.is] = {}
    BY <1>1, EKontHalt
  <2>2. ThingRefs(all, "Kont", x) = {}
    BY <1>0, <2>1, NoneFollowed
  <2> QED
    BY <1>1, <2>2 DEF KontIds
<1>2. CASE x.is \in {"MemberK", "ReturnExprK"}
  <2>1. Entered[all]["Kont"][x.is] = {F("k", Ref("conts"))}
    BY <1>2, EKontMemberK, EKontReturnExprK
  <2>2. ThingRefs(all, "Kont", x) = InThing(all, Ref("conts"), x.f["k"])
    BY <1>0, <2>1, OneFollowed
  <2>3. KontIds(x) = {<<"conts", x.f.k>>}
    BY <1>2 DEF KontIds
  <2> QED
    BY <2>2, <2>3, RefField
<1>3. CASE x.is \in {"AssignVarK", "CalleeK", "ReturnK", "HandlerK", "HandleWithK"}
  <2>1. Entered[all]["Kont"][x.is] = {F("env", Ref("envs")), F("k", Ref("conts"))}
    BY <1>3, EKontAssignVarK, EKontCalleeK, EKontReturnK, EKontHandlerK, EKontHandleWithK
  <2>2. ThingRefs(all, "Kont", x)
        = InThing(all, Ref("envs"), x.f["env"]) \cup InThing(all, Ref("conts"), x.f["k"])
    BY <1>0, <2>1, TwoFollowed
  <2>3. KontIds(x) = {<<"envs", x.f.env>>, <<"conts", x.f.k>>}
    BY <1>3 DEF KontIds
  <2> QED
    BY <2>2, <2>3, RefField
<1>4. CASE x.is = "ArgsK"
  <2>1. Entered[all]["Kont"][x.is] = {F("callee", One("Value")), F("done", Many(One("Value"))),
                                      F("env", Ref("envs")), F("k", Ref("conts"))}
    BY <1>4, EKontArgsK
  <2>2. ThingRefs(all, "Kont", x)
        = InThing(all, One("Value"), x.f["callee"]) \cup InThing(all, Many(One("Value")),
            x.f["done"])
          \cup InThing(all, Ref("envs"), x.f["env"]) \cup InThing(all, Ref("conts"), x.f["k"])
    BY <1>0, <2>1, FourFollowed
  <2>3. KontIds(x) = ValueIds(x.f.callee) \cup {<<"envs", x.f.env>>, <<"conts", x.f.k>>}
    BY <1>4 DEF KontIds
  <2>4. x.f \in FrameFields(S).ArgsK
    BY <1>4
  <2>5. x.f.done = <<>> /\ x.f.callee \in ValuesIn(S)
    BY <2>4 DEF FrameFields
  <2>6. InThing(all, One("Value"), x.f["callee"]) = ValueIds(x.f.callee)
    BY <2>5, OneField, ValueRefsAre
  <2>7. InThing(all, Many(One("Value")), x.f["done"]) = {}
    BY <2>5, NoneInside
  <2> QED
    BY <2>2, <2>3, <2>6, <2>7, RefField
<1>5. CASE x.is = "ObjectK"
  <2>1. Entered[all]["Kont"][x.is] = {F("done", Many(One("Binding"))), F("env", Ref("envs")),
                                      F("k", Ref("conts"))}
    BY <1>5, EKontObjectK
  <2>2. ThingRefs(all, "Kont", x)
        = InThing(all, Many(One("Binding")), x.f["done"])
          \cup InThing(all, Ref("envs"), x.f["env"]) \cup InThing(all, Ref("conts"), x.f["k"])
    BY <1>0, <2>1, ThreeFollowed
  <2>3. KontIds(x) = {<<"envs", x.f.env>>, <<"conts", x.f.k>>}
    BY <1>5 DEF KontIds
  <2>4. x.f \in FrameFields(S).ObjectK
    BY <1>5
  <2>5. x.f.done = <<>>
    BY <2>4 DEF FrameFields
  <2>7. InThing(all, Many(One("Binding")), x.f["done"]) = {}
    BY <2>5, NoneInside
  <2> QED
    BY <2>2, <2>3, <2>7, RefField
<1>6. CASE x.is = "PerformArgsK"
  <2>1. Entered[all]["Kont"][x.is] = {F("done", Many(One("Value"))), F("env", Ref("envs")),
                                      F("k", Ref("conts"))}
    BY <1>6, EKontPerformArgsK
  <2>2. ThingRefs(all, "Kont", x)
        = InThing(all, Many(One("Value")), x.f["done"])
          \cup InThing(all, Ref("envs"), x.f["env"]) \cup InThing(all, Ref("conts"), x.f["k"])
    BY <1>0, <2>1, ThreeFollowed
  <2>3. KontIds(x) = {<<"envs", x.f.env>>, <<"conts", x.f.k>>}
    BY <1>6 DEF KontIds
  <2>4. x.f \in FrameFields(S).PerformArgsK
    BY <1>6
  <2>5. x.f.done = <<>>
    BY <2>4 DEF FrameFields
  <2>7. InThing(all, Many(One("Value")), x.f["done"]) = {}
    BY <2>5, NoneInside
  <2> QED
    BY <2>2, <2>3, <2>7, RefField
<1> QED
  BY <1>1, <1>2, <1>3, <1>4, <1>5, <1>6, KontShape

-----------------------------------------------------------------------------

\* What a binding refers to is what its value refers to.
LEMMA BindingRefsAre ==
    ASSUME NEW all \in BOOLEAN, NEW S, NEW x \in BindingsIn(S)
    PROVE  /\ PartRefs(all, "Binding", x) = ValueIds(x.f.value)
           /\ ThingRefs(all, "Binding", x) = ValueIds(x.f.value)
<1>0. "Binding" \in TracedTypes
  BY DEF TracedTypes
<1>1. x.is = "Binding" /\ x.f.value \in ValuesIn(S)
  BY DEF BindingsIn, Binding, Thing
<1>2. Entered[all]["Binding"][x.is] = {F("value", One("Value"))}
  BY <1>1, EBindingBinding
<1>3. PartRefs(all, "Binding", x) = InPart(all, One("Value"), x.f["value"])
  BY <1>0, <1>2, OneFollowed
<1>4. ThingRefs(all, "Binding", x) = InThing(all, One("Value"), x.f["value"])
  BY <1>0, <1>2, OneFollowed
<1> QED
  BY <1>1, <1>3, <1>4, OneField, ValueRefsAre

\* A handler refers to its environment.
LEMMA HandlerRefsAre ==
    ASSUME NEW all \in BOOLEAN, NEW S, NEW x \in HandlersIn(S)
    PROVE  ThingRefs(all, "Handler", x) = {<<"envs", x.f.env>>}
<1>0. "Handler" \in TracedTypes
  BY DEF TracedTypes
<1>1. x.is = "Handler"
  BY DEF HandlersIn, Thing
<1>2. Entered[all]["Handler"][x.is] = {F("env", Ref("envs"))}
  BY <1>1, EHandlerHandler
<1>3. ThingRefs(all, "Handler", x) = InThing(all, Ref("envs"), x.f["env"])
  BY <1>0, <1>2, OneFollowed
<1> QED
  BY <1>3, RefField

\* What is bound in an environment and the one around it.
BoundIds(bindings) == UNION {ValueIds(bindings[i].f.value) : i \in DOMAIN bindings}
ParentIds(parent) == {<<"envs", parent[i]>> : i \in DOMAIN parent}
EnvIds(x) == BoundIds(x.f.bindings) \cup ParentIds(x.f.parent)

\* Something or nothing.
LEMMA UpToOneIs ==
    ASSUME NEW T, NEW s \in UpToOne(T)
    PROVE  s = <<>> \/ (\E x \in T : s = <<x>> /\ DOMAIN s = {1} /\ s[1] = x)
  BY One1 DEF UpToOne

\* An environment refers to what it binds and to its parent.
LEMMA EnvRefsAre ==
    ASSUME NEW all \in BOOLEAN, NEW S, NEW x \in EnvsIn(S)
    PROVE  ThingRefs(all, "Env", x) = EnvIds(x)
<1>0. "Env" \in TracedTypes
  BY DEF TracedTypes
<1>1. x.is = "Env" /\ x.f.bindings \in UpToOne(BindingsIn(S))
  BY DEF EnvsIn, EnvWith, Thing
<1>2. Entered[all]["Env"][x.is] = {F("bindings", Many(One("Binding"))),
                                   F("parent", Opt(Ref("envs")))}
  BY <1>1, EEnvEnv
<1>3. ThingRefs(all, "Env", x) = InThing(all, Many(One("Binding")), x.f["bindings"])
                                 \cup InThing(all, Opt(Ref("envs")), x.f["parent"])
  BY <1>0, <1>2, TwoFollowed
<1>4. \A i \in DOMAIN x.f.bindings : x.f.bindings[i] \in BindingsIn(S)
  BY <1>1, UpToOneIs
<1>5. \A i \in DOMAIN x.f.bindings :
        PartRefs(all, "Binding", x.f.bindings[i]) = ValueIds(x.f.bindings[i].f.value)
  BY <1>4, BindingRefsAre
<1>6. InThing(all, Many(One("Binding")), x.f["bindings"]) = BoundIds(x.f.bindings)
  <2>1. InThing(all, Many(One("Binding")), x.f["bindings"])
        = UNION {PartRefs(all, "Binding", x.f.bindings[i]) : i \in DOMAIN x.f.bindings}
    BY ManyField
  <2> QED
    BY <1>5, <2>1 DEF BoundIds
<1>7. InThing(all, Opt(Ref("envs")), x.f["parent"]) = ParentIds(x.f.parent)
  BY OptField DEF ParentIds
<1> QED
  BY <1>3, <1>6, <1>7 DEF EnvIds

\* A property refers to what its value refers to.
LEMMA PropertyRefsAre ==
    ASSUME NEW all \in BOOLEAN, NEW S, NEW v \in ValuesIn(S)
    PROVE  PartRefs(all, "Property", Thing("Property",
             [key |-> P, value |-> v, writable |-> 1, enumerable |-> 1, configurable |-> 1]))
           = ValueIds(v)
<1> DEFINE x == Thing("Property",
             [key |-> P, value |-> v, writable |-> 1, enumerable |-> 1, configurable |-> 1])
<1>0. "Property" \in TracedTypes
  BY DEF TracedTypes
<1>1. x.is = "Property" /\ x.f["value"] = v
  BY DEF Thing
<1> HIDE DEF x
<1>2. Entered[all]["Property"][x.is] = {F("value", One("Value"))}
  BY <1>1, EPropertyProperty
<1>3. PartRefs(all, "Property", x) = InPart(all, One("Value"), x.f["value"])
  BY <1>0, <1>2, OneFollowed
<1>4. PartRefs(all, "Property", x) = ValueIds(v)
  BY <1>1, <1>3, OneField, ValueRefsAre
<1> QED
  BY <1>4 DEF x

\* An ordinary object has nothing of its own; a function has its environment.
LEMMA KindRefsAre ==
    ASSUME NEW all \in BOOLEAN
    PROVE  /\ PartRefs(all, "ObjectKind", Thing("Ordinary", <<>>)) = {}
           /\ \A e : PartRefs(all, "ObjectKind", Closure(e).f.kind) = {<<"envs", e>>}
<1>0. "ObjectKind" \in TracedTypes
  BY DEF TracedTypes
<1>1. PartRefs(all, "ObjectKind", Thing("Ordinary", <<>>)) = {}
  <2> DEFINE x == Thing("Ordinary", <<>>)
  <2>1. x.is = "Ordinary"
    BY DEF Thing
  <2> HIDE DEF x
  <2>2. Entered[all]["ObjectKind"][x.is] = {}
    BY <2>1, EObjectKindOrdinary
  <2>3. PartRefs(all, "ObjectKind", x) = {}
    BY <1>0, <2>2, NoneFollowed
  <2> QED
    BY <2>3 DEF x
<1>2. ASSUME NEW e PROVE PartRefs(all, "ObjectKind", Closure(e).f.kind) = {<<"envs", e>>}
  <2> DEFINE x == Closure(e).f.kind
             inside == Entered[all]["ObjectKind"]["Function"]
             fe == F("env", Ref("envs"))  fb == F("expr_body", Opt(Num("u32")))
             fn == F("name", Opt(Num("u32")))
  <2>1. x.is = "Function" /\ x.f["env"] = e
    BY DEF Closure, Thing
  <2>2. fe.name = "env" /\ fe.type = Ref("envs") /\ fb.type = Opt(Num("u32"))
        /\ fn.type = Opt(Num("u32"))
    BY DEF F
  <2>3. fe \in inside /\ inside \subseteq {fb, fe, fn}
    BY EObjectKindFunction
  <2> HIDE DEF x, inside, fe, fb, fn
  <2>4. PartRefs(all, "ObjectKind", x)
        = UNION {InPart(all, field.type, x.f[field.name])
            : field \in Entered[all]["ObjectKind"][x.is]}
    BY <1>0, LevelFields
  <2>5. Entered[all]["ObjectKind"][x.is] = inside
    BY <2>1 DEF inside
  <2>6. PartRefs(all, "ObjectKind", x)
        = UNION {InPart(all, field.type, x.f[field.name]) : field \in inside}
    BY <2>4, <2>5
  <2>7. InPart(all, fb.type, x.f[fb.name]) = {} /\ InPart(all, fn.type, x.f[fn.name]) = {}
    BY <2>2, OptField
  <2>8. InPart(all, fe.type, x.f[fe.name]) = {<<"envs", e>>}
    BY <2>1, <2>2, RefField
  <2>9. PartRefs(all, "ObjectKind", x) = {<<"envs", e>>}
    BY <2>3, <2>6, <2>7, <2>8
  <2> QED
    BY <2>9 DEF x
<1> QED
  BY <1>1, <1>2

\* An object with a property refers to what the property is, a closure to its
\* environment.
LEMMA ObjectRefsAre ==
    ASSUME NEW all \in BOOLEAN
    PROVE  /\ \A S : \A v \in ValuesIn(S) : ThingRefs(all, "Object", ObjectWith(v)) = ValueIds(v)
           /\ \A e : ThingRefs(all, "Object", Closure(e)) = {<<"envs", e>>}
<1>0. "Object" \in TracedTypes
  BY DEF TracedTypes
<1>1. ASSUME NEW x, x.is = "Object"
      PROVE  ThingRefs(all, "Object", x)
             = InThing(all, Many(One("Property")), x.f["properties"])
               \cup InThing(all, Opt(Ref("objects")), x.f["prototype"])
               \cup InThing(all, One("ObjectKind"), x.f["kind"])
  <2>1. Entered[all]["Object"][x.is] = {F("properties", Many(One("Property"))),
                 F("prototype", Opt(Ref("objects"))), F("kind", One("ObjectKind"))}
    BY <1>1, EObjectObject
  <2> QED
    BY <1>0, <2>1, ThreeFollowed
<1>2. ASSUME NEW S, NEW v \in ValuesIn(S)
      PROVE  ThingRefs(all, "Object", ObjectWith(v)) = ValueIds(v)
  <2> DEFINE x == ObjectWith(v)
             p == Thing("Property",
                    [key |-> P, value |-> v, writable |-> 1, enumerable |-> 1, configurable |-> 1])
             ordinary == Thing("Ordinary", <<>>)
  <2>1. /\ x.is = "Object" /\ x.f["properties"] = <<p>>
        /\ x.f["prototype"] = <<>> /\ x.f["kind"] = ordinary
    BY DEF ObjectWith, Thing
  <2>2. PartRefs(all, "Property", p) = ValueIds(v)
    BY PropertyRefsAre
  <2>3. PartRefs(all, "ObjectKind", ordinary) = {}
    BY KindRefsAre
  <2> HIDE DEF x, p, ordinary
  <2>4. InThing(all, Many(One("Property")), <<p>>) = PartRefs(all, "Property", p)
    <3>1. InThing(all, Many(One("Property")), <<p>>)
          = UNION {PartRefs(all, "Property", <<p>>[i]) : i \in DOMAIN <<p>>}
      BY ManyField
    <3> QED
      BY <3>1, One1
  <2>5. InThing(all, Opt(Ref("objects")), <<>>) = {}
    BY NoneInside
  <2>6. InThing(all, One("ObjectKind"), ordinary) = {}
    BY <2>3, OneField
  <2>7. ThingRefs(all, "Object", x) = ValueIds(v)
    BY <1>1, <2>1, <2>2, <2>4, <2>5, <2>6
  <2> QED
    BY <2>7 DEF x
<1>3. ASSUME NEW e PROVE ThingRefs(all, "Object", Closure(e)) = {<<"envs", e>>}
  <2> DEFINE x == Closure(e)
             kind == Closure(e).f.kind
  <2>1. /\ x.is = "Object" /\ x.f["properties"] = <<>>
        /\ x.f["prototype"] = <<>> /\ x.f["kind"] = kind
    BY DEF Closure, Thing
  <2>3. PartRefs(all, "ObjectKind", kind) = {<<"envs", e>>}
    BY KindRefsAre
  <2> HIDE DEF x, kind
  <2>4. InThing(all, Many(One("Property")), <<>>) = {}
    BY NoneInside
  <2>5. InThing(all, Opt(Ref("objects")), <<>>) = {}
    BY NoneInside
  <2>6. InThing(all, One("ObjectKind"), kind) = {<<"envs", e>>}
    BY <2>3, OneField
  <2>7. ThingRefs(all, "Object", x) = {<<"envs", e>>}
    BY <1>1, <2>1, <2>4, <2>5, <2>6
  <2> QED
    BY <2>7 DEF x
<1> QED
  BY <1>2, <1>3

-----------------------------------------------------------------------------

ControlIds(c) ==
    CASE c.is \in {"Value", "Returning", "Halted"} -> ValueIds(c.f.v)
      [] c.is = "Suspend" -> UNION {ValueIds(c.f.args[i]) : i \in DOMAIN c.f.args}
      [] OTHER -> {}

StatusIds(s) == IF s.is = "Completed" THEN ValueIds(s.f.v) ELSE {}

\* The shapes of the control register.
LEMMA ControlShape ==
    ASSUME NEW S, NEW c \in ControlsIn(S)
    PROVE  \/ c = SomeExpr /\ c.is = "Expr"
           \/ /\ c.is \in {"Value", "Returning", "Halted"}
              /\ c.f.v \in ValuesIn(S) /\ c.f["v"] = c.f.v /\ c = Thing(c.is, [v |-> c.f.v])
           \/ /\ c.is = "Suspend" /\ c.f.effect \in Nat /\ c.f.args \in UpToOne(ValuesIn(S))
              /\ c = Thing("Suspend", [effect |-> c.f.effect, args |-> c.f.args])
<1>1. CASE c = SomeExpr
  BY <1>1 DEF SomeExpr, Thing
<1>2. CASE c \in WithValueIn(S)
  <2>1. PICK is \in {"Value", "Returning", "Halted"}, v \in ValuesIn(S) : c = Thing(is, [v |-> v])
    BY <1>2 DEF WithValueIn
  <2> QED
    BY <2>1 DEF Thing
<1>3. CASE c \in SuspendsIn(S)
  BY <1>3 DEF SuspendsIn, Thing
<1> QED
  BY <1>1, <1>2, <1>3 DEF ControlsIn

\* What the control register refers to.
LEMMA ControlRefsAre ==
    ASSUME NEW all \in BOOLEAN, NEW S, NEW c \in ControlsIn(S)
    PROVE  /\ PartRefs(all, "Control", c) = ControlIds(c)
           /\ ThingRefs(all, "Control", c) = ControlIds(c)
<1>0. "Control" \in TracedTypes
  BY DEF TracedTypes
<1>1. CASE c.is = "Expr"
  <2>1. Entered[all]["Control"][c.is] = {}
    BY <1>1, EControlExpr
  <2>2. PartRefs(all, "Control", c) = {} /\ ThingRefs(all, "Control", c) = {}
    BY <1>0, <2>1, NoneFollowed
  <2> QED
    BY <1>1, <2>2 DEF ControlIds
<1>2. CASE c.is \in {"Value", "Returning", "Halted"}
  <2>1. Entered[all]["Control"][c.is] = {F("v", One("Value"))}
    BY <1>2, EControlValue, EControlReturning, EControlHalted
  <2>2. PartRefs(all, "Control", c) = InPart(all, One("Value"), c.f["v"])
    BY <1>0, <2>1, OneFollowed
  <2>9. ThingRefs(all, "Control", c) = InThing(all, One("Value"), c.f["v"])
    BY <1>0, <2>1, OneFollowed
  <2>3. c.f.v \in ValuesIn(S)
    BY <1>2, ControlShape
  <2>4. ControlIds(c) = ValueIds(c.f.v)
    BY <1>2 DEF ControlIds
  <2> QED
    BY <2>2, <2>9, <2>3, <2>4, OneField, ValueRefsAre
<1>3. CASE c.is = "Suspend"
  <2>1. Entered[all]["Control"][c.is] = {F("args", Many(One("Value")))}
    BY <1>3, EControlSuspend
  <2>2. PartRefs(all, "Control", c) = InPart(all, Many(One("Value")), c.f["args"])
    BY <1>0, <2>1, OneFollowed
  <2>9. ThingRefs(all, "Control", c) = InThing(all, Many(One("Value")), c.f["args"])
    BY <1>0, <2>1, OneFollowed
  <2>3. c.f.args \in UpToOne(ValuesIn(S))
    BY <1>3, ControlShape
  <2>4. \A i \in DOMAIN c.f.args : c.f.args[i] \in ValuesIn(S)
    BY <2>3, UpToOneIs
  <2>5. \A i \in DOMAIN c.f.args :
          /\ ValueRefs(all, "Value", c.f.args[i]) = ValueIds(c.f.args[i])
          /\ PartRefs(all, "Value", c.f.args[i]) = ValueIds(c.f.args[i])
    BY <2>4, ValueRefsAre
  <2>6. ControlIds(c) = UNION {ValueIds(c.f.args[i]) : i \in DOMAIN c.f.args}
    BY <1>3 DEF ControlIds
  <2>7. /\ InPart(all, Many(One("Value")), c.f["args"])
           = UNION {ValueRefs(all, "Value", c.f.args[i]) : i \in DOMAIN c.f.args}
        /\ InThing(all, Many(One("Value")), c.f["args"])
           = UNION {PartRefs(all, "Value", c.f.args[i]) : i \in DOMAIN c.f.args}
    BY ManyField
  <2> QED
    BY <2>2, <2>9, <2>5, <2>6, <2>7
<1> QED
  BY <1>1, <1>2, <1>3, ControlShape

\* The shapes of a status.
LEMMA StatusShape ==
    ASSUME NEW S, NEW s \in StatusesIn(S)
    PROVE  \/ s = Ready /\ s.is = "Ready"
           \/ s = Running /\ s.is = "Running"
           \/ s.is = "Completed" /\ s.f.v \in ValuesIn(S) /\ s = Completed(s.f.v)
  BY DEF StatusesIn, Ready, Running, Completed, Thing

\* What a status refers to: the value of the completed.
LEMMA StatusRefsAre ==
    ASSUME NEW all \in BOOLEAN, NEW S, NEW s \in StatusesIn(S)
    PROVE  /\ PartRefs(all, "FiberStatus", s) = StatusIds(s)
           /\ ThingRefs(all, "FiberStatus", s) = StatusIds(s)
<1>0. "FiberStatus" \in TracedTypes
  BY DEF TracedTypes
<1>1. CASE s.is \in {"Ready", "Running"}
  <2>1. Entered[all]["FiberStatus"][s.is] = {}
    BY <1>1, EFiberStatusReady, EFiberStatusRunning
  <2>2. PartRefs(all, "FiberStatus", s) = {} /\ ThingRefs(all, "FiberStatus", s) = {}
    BY <1>0, <2>1, NoneFollowed
  <2> QED
    BY <1>1, <2>2 DEF StatusIds
<1>2. CASE s.is = "Completed"
  <2>1. Entered[all]["FiberStatus"][s.is] = {F("v", One("Value"))}
    BY <1>2, EFiberStatusCompleted
  <2>2. PartRefs(all, "FiberStatus", s) = InPart(all, One("Value"), s.f["v"])
    BY <1>0, <2>1, OneFollowed
  <2>9. ThingRefs(all, "FiberStatus", s) = InThing(all, One("Value"), s.f["v"])
    BY <1>0, <2>1, OneFollowed
  <2>3. s.f.v \in ValuesIn(S)
    BY <1>2, StatusShape
  <2>4. StatusIds(s) = ValueIds(s.f.v)
    BY <1>2 DEF StatusIds
  <2> QED
    BY <2>2, <2>9, <2>3, <2>4, OneField, ValueRefsAre
<1> QED
  BY <1>1, <1>2, StatusShape

FiberIds(x) == ControlIds(x.f.control) \cup {<<"conts", x.f.cont>>, <<"envs", x.f.env>>}
               \cup StatusIds(x.f.status)

\* What a fiber refers to: its registers and its status.
LEMMA FiberRefsAre ==
    ASSUME NEW all \in BOOLEAN, NEW S, NEW x \in FibersIn(S)
    PROVE  ThingRefs(all, "Fiber", x) = FiberIds(x)
<1>0. "Fiber" \in TracedTypes
  BY DEF TracedTypes
<1>1. x.is = "Fiber" /\ x.f.control \in ControlsIn(S) /\ x.f.status \in StatusesIn(S)
  BY DEF FibersIn, Fiber, Thing
<1>2. Entered[all]["Fiber"][x.is] = {F("control", One("Control")), F("cont", Ref("conts")),
             F("env", Ref("envs")), F("status", One("FiberStatus"))}
  BY <1>1, EFiberFiber
<1>3. ThingRefs(all, "Fiber", x)
      = InThing(all, One("Control"), x.f["control"]) \cup InThing(all, Ref("conts"), x.f["cont"])
        \cup InThing(all, Ref("envs"), x.f["env"]) \cup InThing(all, One("FiberStatus"),
            x.f["status"])
  BY <1>0, <1>2, FourFollowed
<1>4. InThing(all, One("Control"), x.f["control"]) = ControlIds(x.f.control)
  BY <1>1, ControlRefsAre, OneField
<1>5. InThing(all, One("FiberStatus"), x.f["status"]) = StatusIds(x.f.status)
  BY <1>1, StatusRefsAre, OneField
<1> QED
  BY <1>3, <1>4, <1>5, RefField DEF FiberIds

\* The ids of some sets, each with its arena.
Pairs(S) == {<<"objects", o>> : o \in S.objects} \cup {<<"envs", e>> : e \in S.envs}
            \cup {<<"conts", k>> : k \in S.conts} \cup {<<"handlers", h>> : h \in S.handlers}

\* What of some sets is among some ids.
Cut(S, M) == [objects |-> {o \in S.objects : <<"objects", o>> \in M},
              closures |-> {o \in S.closures : <<"objects", o>> \in M},
              envs |-> {e \in S.envs : <<"envs", e>> \in M},
              conts |-> {k \in S.conts : <<"conts", k>> \in M},
              handlers |-> {h \in S.handlers : <<"handlers", h>> \in M}]

Within(S, T) == /\ S.objects \subseteq T.objects /\ S.closures \subseteq T.closures
                /\ S.envs \subseteq T.envs /\ S.conts \subseteq T.conts
                /\ S.handlers \subseteq T.handlers

\* Ids as pairs, arena by arena.
LEMMA PairsIs ==
    ASSUME NEW S
    PROVE  /\ \A o : <<"objects", o>> \in Pairs(S) <=> o \in S.objects
           /\ \A e : <<"envs", e>> \in Pairs(S) <=> e \in S.envs
           /\ \A k : <<"conts", k>> \in Pairs(S) <=> k \in S.conts
           /\ \A h : <<"handlers", h>> \in Pairs(S) <=> h \in S.handlers
<1>1. ASSUME NEW o PROVE <<"objects", o>> \in Pairs(S) <=> o \in S.objects
  BY DEF Pairs
<1>2. ASSUME NEW o PROVE <<"envs", o>> \in Pairs(S) <=> o \in S.envs
  BY DEF Pairs
<1>3. ASSUME NEW o PROVE <<"conts", o>> \in Pairs(S) <=> o \in S.conts
  BY DEF Pairs
<1>4. ASSUME NEW o PROVE <<"handlers", o>> \in Pairs(S) <=> o \in S.handlers
  BY DEF Pairs
<1> QED
  BY <1>1, <1>2, <1>3, <1>4

\* A pair names its arena.
LEMMA PairsShape ==
    ASSUME NEW S, NEW r \in Pairs(S)
    PROVE  /\ r = <<r[1], r[2]>>
           /\ \/ r[1] = "objects" /\ r[2] \in S.objects
              \/ r[1] = "envs" /\ r[2] \in S.envs
              \/ r[1] = "conts" /\ r[2] \in S.conts
              \/ r[1] = "handlers" /\ r[2] \in S.handlers
  BY DEF Pairs

\* Some ids, cut down to those in M.
LEMMA CutIs ==
    ASSUME NEW S \in IdSets, NEW M
    PROVE  /\ Cut(S, M) \in IdSets
           /\ Within(Cut(S, M), S)
           /\ \A o : o \in Cut(S, M).objects <=> o \in S.objects /\ <<"objects", o>> \in M
           /\ \A o : o \in Cut(S, M).closures <=> o \in S.closures /\ <<"objects", o>> \in M
           /\ \A e : e \in Cut(S, M).envs <=> e \in S.envs /\ <<"envs", e>> \in M
           /\ \A k : k \in Cut(S, M).conts <=> k \in S.conts /\ <<"conts", k>> \in M
           /\ \A h : h \in Cut(S, M).handlers <=> h \in S.handlers /\ <<"handlers", h>> \in M
<1>1. /\ Cut(S, M).objects = {o \in S.objects : <<"objects", o>> \in M}
      /\ Cut(S, M).closures = {o \in S.closures : <<"objects", o>> \in M}
      /\ Cut(S, M).envs = {e \in S.envs : <<"envs", e>> \in M}
      /\ Cut(S, M).conts = {k \in S.conts : <<"conts", k>> \in M}
      /\ Cut(S, M).handlers = {h \in S.handlers : <<"handlers", h>> \in M}
  BY DEF Cut
<1>2. Cut(S, M) \in IdSets
  BY DEF Cut, IdSets
<1> QED
  BY <1>1, <1>2 DEF Within

-----------------------------------------------------------------------------
(* Values. *)

\* The shapes of a value.
LEMMA ValueShape ==
    ASSUME NEW S, NEW v \in ValuesIn(S)
    PROVE  \/ v = Undefined /\ v.is = "Undefined"
           \/ v.is = "Int" /\ v.f.n \in Nat /\ v = IntValue(v.f.n)
           \/ v.is = "String" /\ v.f.s \in Nat /\ v = Str(v.f.s)
           \/ v.is = "Object" /\ v.f.o \in S.objects /\ v = Obj(v.f.o)
           \/ v.is = "Function" /\ v.f.o \in S.closures /\ v = Fun(v.f.o)
           \/ v.is = "Handler" /\ v.f.h \in S.handlers /\ v = Thing("Handler", [h |-> v.f.h])
           \/ /\ v.is = "Continuation" /\ v.f.k \in S.conts /\ v.f.env \in S.envs
              /\ v = Thing("Continuation", [k |-> v.f.k, env |-> v.f.env])
<1>1. CASE v = Undefined
  BY <1>1 DEF Undefined, Thing
<1>2. CASE v \in Ints
  BY <1>2 DEF Ints, IntValue, Thing
<1>3. CASE v \in Strs
  BY <1>3 DEF Strs, Str, Thing
<1>4. CASE v \in ObjsIn(S)
  BY <1>4 DEF ObjsIn, Obj, Thing
<1>5. CASE v \in FunsIn(S)
  BY <1>5 DEF FunsIn, Fun, Thing
<1>6. CASE v \in HandlersOf(S)
  BY <1>6 DEF HandlersOf, Thing
<1>7. CASE v \in Resumes(S)
  BY <1>7 DEF Resumes, Thing
<1> QED
  BY <1>1, <1>2, <1>3, <1>4, <1>5, <1>6, <1>7 DEF ValuesIn

\* The values there are over some ids.
LEMMA ValueMade ==
    ASSUME NEW S
    PROVE  /\ Undefined \in ValuesIn(S)
           /\ \A n \in Nat : IntValue(n) \in ValuesIn(S) /\ Str(n) \in ValuesIn(S)
           /\ \A o \in S.objects : Obj(o) \in ValuesIn(S)
           /\ \A o \in S.closures : Fun(o) \in ValuesIn(S)
           /\ \A h \in S.handlers : Thing("Handler", [h |-> h]) \in ValuesIn(S)
           /\ \A k \in S.conts, e \in S.envs : Thing("Continuation",
                                                     [k |-> k, env |-> e]) \in ValuesIn(S)
<1>1. \A n \in Nat : IntValue(n) \in Ints /\ Str(n) \in Strs
  BY DEF Ints, Strs
<1>2. \A o \in S.objects : Obj(o) \in ObjsIn(S)
  BY DEF ObjsIn
<1>3. \A o \in S.closures : Fun(o) \in FunsIn(S)
  BY DEF FunsIn
<1>4. \A h \in S.handlers : Thing("Handler", [h |-> h]) \in HandlersOf(S)
  BY DEF HandlersOf
<1>5. \A k \in S.conts, e \in S.envs : Thing("Continuation", [k |-> k, env |-> e]) \in Resumes(S)
  BY DEF Resumes
<1> QED
  BY <1>1, <1>2, <1>3, <1>4, <1>5 DEF ValuesIn

\* A value is one over other sets if its ids are in them.
LEMMA ValueMoved ==
    ASSUME NEW S, NEW v \in ValuesIn(S), NEW T,
           v.is = "Object" => v.f.o \in T.objects, v.is = "Function" => v.f.o \in T.closures,
           v.is = "Handler" => v.f.h \in T.handlers,
           v.is = "Continuation" => v.f.k \in T.conts /\ v.f.env \in T.envs
    PROVE  v \in ValuesIn(T)
<1>1. CASE v.is \in {"Undefined", "Int", "String"}
  <2>1. v = Undefined \/ (\E n \in Nat : v = IntValue(n) \/ v = Str(n))
    BY <1>1, ValueShape
  <2> QED
    BY <2>1, ValueMade
<1>2. CASE v.is = "Object"
  BY <1>2, ValueShape, ValueMade
<1>3. CASE v.is = "Function"
  BY <1>3, ValueShape, ValueMade
<1>4. CASE v.is = "Handler"
  BY <1>4, ValueShape, ValueMade
<1>5. CASE v.is = "Continuation"
  BY <1>5, ValueShape, ValueMade
<1> QED
  BY <1>1, <1>2, <1>3, <1>4, <1>5, ValueShape

\* A value over some ids is one over more.
LEMMA ValueMore ==
    ASSUME NEW S, NEW T, Within(S, T), NEW v \in ValuesIn(S)
    PROVE  v \in ValuesIn(T)
  BY ValueShape, ValueMoved DEF Within

\* A value is one over the ids that are kept, if its own are.
LEMMA ValueKept ==
    ASSUME NEW S \in IdSets, NEW M, NEW v \in ValuesIn(S), ValueIds(v) \subseteq M
    PROVE  v \in ValuesIn(Cut(S, M))
<1>1. /\ v.is = "Object" => v.f.o \in Cut(S, M).objects
      /\ v.is = "Function" => v.f.o \in Cut(S, M).closures
  BY ValueShape, CutIs DEF ValueIds
<1>2. /\ v.is = "Handler" => v.f.h \in Cut(S, M).handlers
      /\ v.is = "Continuation" => v.f.k \in Cut(S, M).conts /\ v.f.env \in Cut(S, M).envs
  BY ValueShape, CutIs DEF ValueIds
<1> QED
  BY <1>1, <1>2, ValueMoved

\* A value refers to ids it is a value over.
LEMMA ValueHeld ==
    ASSUME NEW S, S.closures \subseteq S.objects, NEW v \in ValuesIn(S)
    PROVE  ValueIds(v) \subseteq Pairs(S)
  BY ValueShape, PairsIs DEF ValueIds

-----------------------------------------------------------------------------
(* Bindings, objects, environments, handlers. *)

\* A binding is one over any ids its value is over.
LEMMA BindingMoved ==
    ASSUME NEW S, NEW b \in BindingsIn(S), NEW T, b.f.value \in ValuesIn(T)
    PROVE  b \in BindingsIn(T)
<1>1. PICK v \in ValuesIn(S) : b = Binding(X, v)
  BY DEF BindingsIn
<1>2. b.f.value = v
  BY <1>1 DEF Binding, Thing
<1> QED
  BY <1>1, <1>2 DEF BindingsIn

\* A binding is its value under the one name.
LEMMA BindingValue ==
    ASSUME NEW S, NEW b \in BindingsIn(S)
    PROVE  b.f.value \in ValuesIn(S) /\ b = Binding(X, b.f.value)
  BY DEF BindingsIn, Binding, Thing

\* Bindings are over any ids their values are over.
LEMMA BindingsMoved ==
    ASSUME NEW S, NEW s \in UpToOne(BindingsIn(S)), NEW T,
           \A i \in DOMAIN s : s[i].f.value \in ValuesIn(T)
    PROVE  s \in UpToOne(BindingsIn(T))
<1>1. CASE s = <<>>
  BY <1>1 DEF UpToOne
<1>2. CASE s # <<>>
  <2>1. PICK b \in BindingsIn(S) : s = <<b>> /\ DOMAIN s = {1} /\ s[1] = b
    BY <1>2, UpToOneIs
  <2>2. b \in BindingsIn(T)
    BY <2>1, BindingMoved
  <2> QED
    BY <2>1, <2>2 DEF UpToOne
<1> QED
  BY <1>1, <1>2

\* Bindings over some ids are bindings over more.
LEMMA BindingsMore ==
    ASSUME NEW S, NEW T, Within(S, T), NEW s \in UpToOne(BindingsIn(S))
    PROVE  s \in UpToOne(BindingsIn(T))
<1>1. \A i \in DOMAIN s : s[i] \in BindingsIn(S)
  BY UpToOneIs
<1>2. \A i \in DOMAIN s : s[i].f.value \in ValuesIn(T)
  BY <1>1, BindingValue, ValueMore
<1> QED
  BY <1>2, BindingsMoved

\* Bindings are over the ids that are kept, if their own are.
LEMMA BindingsKept ==
    ASSUME NEW S \in IdSets, NEW M, NEW s \in UpToOne(BindingsIn(S)), BoundIds(s) \subseteq M
    PROVE  s \in UpToOne(BindingsIn(Cut(S, M)))
<1>1. \A i \in DOMAIN s : s[i] \in BindingsIn(S)
  BY UpToOneIs
<1>2. \A i \in DOMAIN s : ValueIds(s[i].f.value) \subseteq M
  BY DEF BoundIds
<1>3. \A i \in DOMAIN s : s[i].f.value \in ValuesIn(Cut(S, M))
  BY <1>1, <1>2, BindingValue, ValueKept
<1> QED
  BY <1>3, BindingsMoved

\* Bindings refer to ids they are over.
LEMMA BindingsHeld ==
    ASSUME NEW S, S.closures \subseteq S.objects, NEW s \in UpToOne(BindingsIn(S))
    PROVE  BoundIds(s) \subseteq Pairs(S)
<1>1. \A i \in DOMAIN s : s[i] \in BindingsIn(S)
  BY UpToOneIs
<1>2. \A i \in DOMAIN s : ValueIds(s[i].f.value) \subseteq Pairs(S)
  BY <1>1, BindingValue, ValueHeld
<1> QED
  BY <1>2 DEF BoundIds

\* The shape of an environment.
LEMMA EnvShape ==
    ASSUME NEW S, NEW x \in EnvsIn(S)
    PROVE  /\ x.is = "Env"
           /\ x.f.bindings \in UpToOne(BindingsIn(S)) /\ x.f.parent \in UpToOne(S.envs)
           /\ x = EnvWith(x.f.bindings, x.f.parent)
  BY DEF EnvsIn, EnvWith, Thing

\* Bindings and a parent make an environment.
LEMMA EnvMade ==
    ASSUME NEW S, NEW bindings \in UpToOne(BindingsIn(S)), NEW parent \in UpToOne(S.envs)
    PROVE  EnvWith(bindings, parent) \in EnvsIn(S)
  BY DEF EnvsIn

\* A list of at most one moves with its element.
LEMMA ParentMoved ==
    ASSUME NEW E, NEW s \in UpToOne(E), NEW D, \A i \in DOMAIN s : s[i] \in D
    PROVE  s \in UpToOne(D)
<1>1. CASE s = <<>>
  BY <1>1 DEF UpToOne
<1>2. CASE s # <<>>
  <2>1. PICK e \in E : s = <<e>> /\ DOMAIN s = {1} /\ s[1] = e
    BY <1>2, UpToOneIs
  <2> QED
    BY <2>1 DEF UpToOne
<1> QED
  BY <1>1, <1>2

\* An environment over some ids is one over more.
LEMMA EnvMore ==
    ASSUME NEW S, NEW T, Within(S, T), NEW x \in EnvsIn(S)
    PROVE  x \in EnvsIn(T)
<1>1. x.f.bindings \in UpToOne(BindingsIn(T))
  BY EnvShape, BindingsMore
<1>2. x.f.parent \in UpToOne(T.envs)
  <2>1. x.f.parent \in UpToOne(S.envs)
    BY EnvShape
  <2>2. \A i \in DOMAIN x.f.parent : x.f.parent[i] \in T.envs
    BY <2>1, UpToOneIs DEF Within
  <2> QED
    BY <2>1, <2>2, ParentMoved
<1> QED
  BY <1>1, <1>2, EnvShape, EnvMade

\* An environment is over the ids that are kept, if its own are.
LEMMA EnvKept ==
    ASSUME NEW S \in IdSets, NEW M, NEW x \in EnvsIn(S), EnvIds(x) \subseteq M
    PROVE  x \in EnvsIn(Cut(S, M))
<1>1. x.f.bindings \in UpToOne(BindingsIn(Cut(S, M)))
  BY EnvShape, BindingsKept DEF EnvIds
<1>2. x.f.parent \in UpToOne(Cut(S, M).envs)
  <2>1. x.f.parent \in UpToOne(S.envs)
    BY EnvShape
  <2>2. \A i \in DOMAIN x.f.parent : x.f.parent[i] \in S.envs
    BY <2>1, UpToOneIs
  <2>3. \A i \in DOMAIN x.f.parent : <<"envs", x.f.parent[i]>> \in M
    BY DEF EnvIds, ParentIds
  <2>4. \A i \in DOMAIN x.f.parent : x.f.parent[i] \in Cut(S, M).envs
    BY <2>2, <2>3, CutIs
  <2> QED
    BY <2>1, <2>4, ParentMoved
<1> QED
  BY <1>1, <1>2, EnvShape, EnvMade

\* An environment refers to ids it is over.
LEMMA EnvHeld ==
    ASSUME NEW S, S.closures \subseteq S.objects, NEW x \in EnvsIn(S)
    PROVE  EnvIds(x) \subseteq Pairs(S)
<1>1. BoundIds(x.f.bindings) \subseteq Pairs(S)
  BY EnvShape, BindingsHeld
<1>2. ParentIds(x.f.parent) \subseteq Pairs(S)
  <2>1. \A i \in DOMAIN x.f.parent : x.f.parent[i] \in S.envs
    BY EnvShape, UpToOneIs
  <2> QED
    BY <2>1, PairsIs DEF ParentIds
<1> QED
  BY <1>1, <1>2 DEF EnvIds

\* The shape of a handler.
LEMMA HandlerShape ==
    ASSUME NEW S, NEW x \in HandlersIn(S)
    PROVE  /\ x.is = "Handler" /\ x.f.env \in S.envs
           /\ x = Thing("Handler", [clauses_start |-> 0, clauses_count |-> 1, return_param |-> 0,
                                    return_body |-> 0, env |-> x.f.env])
  BY DEF HandlersIn, Thing

\* A handler moves with its environment.
LEMMA HandlerMoved ==
    ASSUME NEW S, NEW x \in HandlersIn(S), NEW T, x.f.env \in T.envs
    PROVE  x \in HandlersIn(T)
<1>1. x = Thing("Handler", [clauses_start |-> 0, clauses_count |-> 1, return_param |-> 0,
                            return_body |-> 0, env |-> x.f.env])
  BY HandlerShape
<1> QED
  BY <1>1 DEF HandlersIn

\* An object has one property, or is a function with its environment.
LEMMA ObjectShape ==
    ASSUME NEW S, NEW x \in ObjectsIn(S)
    PROVE  (\E v \in ValuesIn(S) : x = ObjectWith(v)) \/ (\E e \in S.envs : x = Closure(e))
  BY DEF ObjectsIn, ClosuresIn

ObjectMade(S) == /\ \A v \in ValuesIn(S) : ObjectWith(v) \in ObjectsIn(S)
                 /\ \A e \in S.envs : Closure(e) \in ClosuresIn(S) /\ Closure(e) \in ObjectsIn(S)

\* The objects and functions there are over some ids.
LEMMA ObjectsMade == ASSUME NEW S PROVE ObjectMade(S)
  BY DEF ObjectMade, ObjectsIn, ClosuresIn

\* An object over some ids is one over more.
LEMMA ObjectMore ==
    ASSUME NEW S, NEW T, Within(S, T), NEW x \in ObjectsIn(S)
    PROVE  x \in ObjectsIn(T)
<1>1. CASE \E v \in ValuesIn(S) : x = ObjectWith(v)
  BY <1>1, ValueMore, ObjectsMade DEF ObjectMade
<1>2. CASE \E e \in S.envs : x = Closure(e)
  BY <1>2, ObjectsMade DEF ObjectMade, Within
<1> QED
  BY <1>1, <1>2, ObjectShape

\* A function over some ids is one over more.
LEMMA ClosureMore ==
    ASSUME NEW S, NEW T, Within(S, T), NEW x \in ClosuresIn(S)
    PROVE  x \in ClosuresIn(T)
  BY DEF Within, ClosuresIn

\* An object is over the ids that are kept, if its own are, and a function stays
\* one.
LEMMA ObjectKept ==
    ASSUME NEW S \in IdSets, NEW M, NEW x \in ObjectsIn(S), NEW all \in BOOLEAN,
           ThingRefs(all, "Object", x) \subseteq M
    PROVE  /\ x \in ObjectsIn(Cut(S, M))
           /\ x \in ClosuresIn(S) => x \in ClosuresIn(Cut(S, M))
<1>1. CASE \E v \in ValuesIn(S) : x = ObjectWith(v)
  <2>1. PICK v \in ValuesIn(S) : x = ObjectWith(v)
    BY <1>1
  <2>2. ThingRefs(all, "Object", x) = ValueIds(v)
    BY <2>1, ObjectRefsAre
  <2>3. v \in ValuesIn(Cut(S, M))
    BY <2>2, ValueKept
  <2>4. x \notin ClosuresIn(S)
    BY <2>1 DEF ClosuresIn, ObjectWith, Closure, Thing
  <2> QED
    BY <2>1, <2>3, <2>4, ObjectsMade DEF ObjectMade
<1>2. CASE \E e \in S.envs : x = Closure(e)
  <2>1. PICK e \in S.envs : x = Closure(e)
    BY <1>2
  <2>2. ThingRefs(all, "Object", x) = {<<"envs", e>>}
    BY <2>1, ObjectRefsAre
  <2>3. e \in Cut(S, M).envs
    BY <2>2, CutIs
  <2> QED
    BY <2>1, <2>3, ObjectsMade DEF ObjectMade
<1> QED
  BY <1>1, <1>2, ObjectShape

\* An object refers to ids it is over.
LEMMA ObjectHeld ==
    ASSUME NEW S, S.closures \subseteq S.objects, NEW x \in ObjectsIn(S), NEW all \in BOOLEAN
    PROVE  ThingRefs(all, "Object", x) \subseteq Pairs(S)
<1>1. CASE \E v \in ValuesIn(S) : x = ObjectWith(v)
  <2>1. PICK v \in ValuesIn(S) : x = ObjectWith(v)
    BY <1>1
  <2>2. ThingRefs(all, "Object", x) = ValueIds(v)
    BY <2>1, ObjectRefsAre
  <2> QED
    BY <2>2, ValueHeld
<1>2. CASE \E e \in S.envs : x = Closure(e)
  <2>1. PICK e \in S.envs : x = Closure(e)
    BY <1>2
  <2>2. ThingRefs(all, "Object", x) = {<<"envs", e>>}
    BY <2>1, ObjectRefsAre
  <2> QED
    BY <2>2, PairsIs
<1> QED
  BY <1>1, <1>2, ObjectShape

-----------------------------------------------------------------------------
(* Frames. *)

\* Fields of a kind of frame make a frame.
LEMMA KontMade ==
    ASSUME NEW S, NEW is \in DOMAIN FrameFields(S), NEW f \in FrameFields(S)[is]
    PROVE  Thing(is, f) \in KontsIn(S)
  BY DEF KontsIn

\* The fields of a frame that are ids of the heap or hold them.
LEMMA KontFields ==
    ASSUME NEW S, NEW x \in KontsIn(S)
    PROVE  /\ x.is # "Halt" => x.f.k \in S.conts
           /\ x.is \notin {"Halt", "MemberK", "ReturnExprK"} => x.f.env \in S.envs
           /\ x.is = "ArgsK" => x.f.callee \in ValuesIn(S)
<1>1. x.f \in FrameFields(S)[x.is] /\
      x.is \in {"Halt", "MemberK", "AssignVarK", "CalleeK", "ArgsK", "ReturnK", "ReturnExprK",
                "ObjectK", "HandlerK", "PerformArgsK", "HandleWithK"}
  BY KontShape
<1>2. CASE x.is = "Halt"
  BY <1>2
<1>3. CASE x.is = "MemberK"
  <2>1. x.f \in FrameFields(S).MemberK
    BY <1>1, <1>3
  <2> QED
    BY <1>3, <2>1 DEF FrameFields
<1>4. CASE x.is = "ReturnExprK"
  <2>1. x.f \in FrameFields(S).ReturnExprK
    BY <1>1, <1>4
  <2> QED
    BY <1>4, <2>1 DEF FrameFields
<1>5. CASE x.is = "AssignVarK"
  <2>1. x.f \in FrameFields(S).AssignVarK
    BY <1>1, <1>5
  <2> QED
    BY <1>5, <2>1 DEF FrameFields
<1>6. CASE x.is = "CalleeK"
  <2>1. x.f \in FrameFields(S).CalleeK
    BY <1>1, <1>6
  <2> QED
    BY <1>6, <2>1 DEF FrameFields
<1>7. CASE x.is = "ArgsK"
  <2>1. x.f \in FrameFields(S).ArgsK
    BY <1>1, <1>7
  <2> QED
    BY <1>7, <2>1 DEF FrameFields
<1>8. CASE x.is = "ReturnK"
  <2>1. x.f \in FrameFields(S).ReturnK
    BY <1>1, <1>8
  <2> QED
    BY <1>8, <2>1 DEF FrameFields
<1>9. CASE x.is = "ObjectK"
  <2>1. x.f \in FrameFields(S).ObjectK
    BY <1>1, <1>9
  <2> QED
    BY <1>9, <2>1 DEF FrameFields
<1>10. CASE x.is = "HandlerK"
  <2>1. x.f \in FrameFields(S).HandlerK
    BY <1>1, <1>10
  <2> QED
    BY <1>10, <2>1 DEF FrameFields
<1>11. CASE x.is = "PerformArgsK"
  <2>1. x.f \in FrameFields(S).PerformArgsK
    BY <1>1, <1>11
  <2> QED
    BY <1>11, <2>1 DEF FrameFields
<1>12. CASE x.is = "HandleWithK"
  <2>1. x.f \in FrameFields(S).HandleWithK
    BY <1>1, <1>12
  <2> QED
    BY <1>12, <2>1 DEF FrameFields
<1> QED
  BY <1>1, <1>2, <1>3, <1>4, <1>5, <1>6, <1>7, <1>8, <1>9, <1>10, <1>11, <1>12

\* A frame moves with its environment, its callee and the frame below.
LEMMA FramesMoved ==
    ASSUME NEW S, NEW is \in DOMAIN FrameFields(S), NEW f \in FrameFields(S)[is], NEW T,
           is # "Halt" => f.k \in T.conts,
           is \notin {"Halt", "MemberK", "ReturnExprK"} => f.env \in T.envs,
           is = "ArgsK" => f.callee \in ValuesIn(T)
    PROVE  is \in DOMAIN FrameFields(T) /\ f \in FrameFields(T)[is]
<1>1. is \in {"Halt", "MemberK", "AssignVarK", "CalleeK", "ArgsK", "ReturnK", "ReturnExprK",
              "ObjectK", "HandlerK", "PerformArgsK", "HandleWithK"}
  BY DEF FrameFields
<1>2. is \in DOMAIN FrameFields(T)
  BY <1>1 DEF FrameFields
<1>3. CASE is = "Halt"
  <2>1. f \in {<<>>}
    BY <1>3 DEF FrameFields
  <2>2. f \in {<<>>}
    BY <1>3, <2>1
  <2>3. FrameFields(T)["Halt"] = {<<>>}
    BY DEF FrameFields
  <2> QED
    BY <1>2, <1>3, <2>2, <2>3
<1>4. CASE is = "MemberK"
  <2>1. f \in [property : Nat, k : S.conts]
    BY <1>4 DEF FrameFields
  <2>2. f \in [property : Nat, k : T.conts]
    BY <1>4, <2>1
  <2>3. FrameFields(T)["MemberK"] = [property : Nat, k : T.conts]
    BY DEF FrameFields
  <2> QED
    BY <1>2, <1>4, <2>2, <2>3
<1>5. CASE is = "AssignVarK"
  <2>1. f \in [name : Nat, env : S.envs, k : S.conts]
    BY <1>5 DEF FrameFields
  <2>2. f \in [name : Nat, env : T.envs, k : T.conts]
    BY <1>5, <2>1
  <2>3. FrameFields(T)["AssignVarK"] = [name : Nat, env : T.envs, k : T.conts]
    BY DEF FrameFields
  <2> QED
    BY <1>2, <1>5, <2>2, <2>3
<1>6. CASE is = "CalleeK"
  <2>1. f \in [args_start : Nat, args_count : Nat, env : S.envs, k : S.conts]
    BY <1>6 DEF FrameFields
  <2>2. f \in [args_start : Nat, args_count : Nat, env : T.envs, k : T.conts]
    BY <1>6, <2>1
  <2>3. FrameFields(T)["CalleeK"] = [args_start : Nat, args_count : Nat, env : T.envs, k : T.conts]
    BY DEF FrameFields
  <2> QED
    BY <1>2, <1>6, <2>2, <2>3
<1>7. CASE is = "ArgsK"
  <2>1. f \in [callee : ValuesIn(S), done : {<<>>}, args_start : Nat, args_idx : Nat,
         args_count : Nat, env : S.envs, k : S.conts]
    BY <1>7 DEF FrameFields
  <2>2. f \in [callee : ValuesIn(T), done : {<<>>}, args_start : Nat, args_idx : Nat,
         args_count : Nat, env : T.envs, k : T.conts]
    BY <1>7, <2>1
  <2>3. FrameFields(T)["ArgsK"] = [callee : ValuesIn(T), done : {<<>>}, args_start
            : Nat, args_idx : Nat,
         args_count : Nat, env : T.envs, k : T.conts]
    BY DEF FrameFields
  <2> QED
    BY <1>2, <1>7, <2>2, <2>3
<1>8. CASE is = "ReturnK"
  <2>1. f \in [env : S.envs, k : S.conts]
    BY <1>8 DEF FrameFields
  <2>2. f \in [env : T.envs, k : T.conts]
    BY <1>8, <2>1
  <2>3. FrameFields(T)["ReturnK"] = [env : T.envs, k : T.conts]
    BY DEF FrameFields
  <2> QED
    BY <1>2, <1>8, <2>2, <2>3
<1>9. CASE is = "ReturnExprK"
  <2>1. f \in [k : S.conts]
    BY <1>9 DEF FrameFields
  <2>2. f \in [k : T.conts]
    BY <1>9, <2>1
  <2>3. FrameFields(T)["ReturnExprK"] = [k : T.conts]
    BY DEF FrameFields
  <2> QED
    BY <1>2, <1>9, <2>2, <2>3
<1>10. CASE is = "ObjectK"
  <2>1. f \in [done : {<<>>}, props_start : Nat, props_idx : Nat, props_count : Nat,
         env : S.envs, k : S.conts]
    BY <1>10 DEF FrameFields
  <2>2. f \in [done : {<<>>}, props_start : Nat, props_idx : Nat, props_count : Nat,
         env : T.envs, k : T.conts]
    BY <1>10, <2>1
  <2>3. FrameFields(T)["ObjectK"] = [done : {<<>>}, props_start : Nat, props_idx
            : Nat, props_count : Nat,
         env : T.envs, k : T.conts]
    BY DEF FrameFields
  <2> QED
    BY <1>2, <1>10, <2>2, <2>3
<1>11. CASE is = "HandlerK"
  <2>1. f \in [clauses_start : Nat, clauses_count : Nat, env : S.envs, return_body : Nat,
         return_param : Nat, k : S.conts]
    BY <1>11 DEF FrameFields
  <2>2. f \in [clauses_start : Nat, clauses_count : Nat, env : T.envs, return_body : Nat,
         return_param : Nat, k : T.conts]
    BY <1>11, <2>1
  <2>3. FrameFields(T)["HandlerK"] = [clauses_start : Nat, clauses_count : Nat, env
            : T.envs, return_body : Nat,
         return_param : Nat, k : T.conts]
    BY DEF FrameFields
  <2> QED
    BY <1>2, <1>11, <2>2, <2>3
<1>12. CASE is = "PerformArgsK"
  <2>1. f \in [effect : Nat, done : {<<>>}, args_start : Nat, args_idx : Nat,
         args_count : Nat, env : S.envs, k : S.conts]
    BY <1>12 DEF FrameFields
  <2>2. f \in [effect : Nat, done : {<<>>}, args_start : Nat, args_idx : Nat,
         args_count : Nat, env : T.envs, k : T.conts]
    BY <1>12, <2>1
  <2>3. FrameFields(T)["PerformArgsK"] = [effect : Nat, done : {<<>>}, args_start
            : Nat, args_idx : Nat,
         args_count : Nat, env : T.envs, k : T.conts]
    BY DEF FrameFields
  <2> QED
    BY <1>2, <1>12, <2>2, <2>3
<1>13. CASE is = "HandleWithK"
  <2>1. f \in [body : Nat, env : S.envs, k : S.conts]
    BY <1>13 DEF FrameFields
  <2>2. f \in [body : Nat, env : T.envs, k : T.conts]
    BY <1>13, <2>1
  <2>3. FrameFields(T)["HandleWithK"] = [body : Nat, env : T.envs, k : T.conts]
    BY DEF FrameFields
  <2> QED
    BY <1>2, <1>13, <2>2, <2>3
<1> QED
  BY <1>1, <1>2, <1>3, <1>4, <1>5, <1>6, <1>7, <1>8, <1>9, <1>10, <1>11, <1>12, <1>13

\* A frame is one over other sets if its ids are in them.
LEMMA KontMoved ==
    ASSUME NEW S, NEW x \in KontsIn(S), NEW T,
           x.is # "Halt" => x.f.k \in T.conts,
           x.is \notin {"Halt", "MemberK", "ReturnExprK"} => x.f.env \in T.envs,
           x.is = "ArgsK" => x.f.callee \in ValuesIn(T)
    PROVE  x \in KontsIn(T)
<1>1. x.is \in DOMAIN FrameFields(S) /\ x.f \in FrameFields(S)[x.is] /\ x = Thing(x.is, x.f)
  BY KontShape DEF FrameFields
<1>2. x.is \in DOMAIN FrameFields(T) /\ x.f \in FrameFields(T)[x.is]
  BY <1>1, FramesMoved
<1> QED
  BY <1>1, <1>2, KontMade

\* A frame over some ids is one over more.
LEMMA KontMore ==
    ASSUME NEW S, NEW T, Within(S, T), NEW x \in KontsIn(S)
    PROVE  x \in KontsIn(T)
<1>1. /\ x.is # "Halt" => x.f.k \in T.conts
      /\ x.is \notin {"Halt", "MemberK", "ReturnExprK"} => x.f.env \in T.envs
  BY KontFields DEF Within
<1>2. x.is = "ArgsK" => x.f.callee \in ValuesIn(T)
  BY KontFields, ValueMore
<1> QED
  BY <1>1, <1>2, KontMoved

\* A frame is over the ids that are kept, if its own are.
LEMMA KontKept ==
    ASSUME NEW S \in IdSets, NEW M, NEW x \in KontsIn(S), KontIds(x) \subseteq M
    PROVE  x \in KontsIn(Cut(S, M))
<1>1. x.is # "Halt" => x.f.k \in Cut(S, M).conts
  BY KontFields, KontShape, CutIs DEF KontIds
<1>2. x.is \notin {"Halt", "MemberK", "ReturnExprK"} => x.f.env \in Cut(S, M).envs
  BY KontFields, KontShape, CutIs DEF KontIds
<1>3. x.is = "ArgsK" => x.f.callee \in ValuesIn(Cut(S, M))
  BY KontFields, ValueKept DEF KontIds
<1> QED
  BY <1>1, <1>2, <1>3, KontMoved

\* A frame refers to ids it is over.
LEMMA KontHeld ==
    ASSUME NEW S, S.closures \subseteq S.objects, NEW x \in KontsIn(S)
    PROVE  KontIds(x) \subseteq Pairs(S)
<1>1. /\ x.is # "Halt" => <<"conts", x.f.k>> \in Pairs(S)
      /\ x.is \notin {"Halt", "MemberK", "ReturnExprK"} => <<"envs", x.f.env>> \in Pairs(S)
  BY KontFields, PairsIs
<1>2. x.is = "ArgsK" => ValueIds(x.f.callee) \subseteq Pairs(S)
  BY KontFields, ValueHeld
<1> QED
  BY <1>1, <1>2, KontShape DEF KontIds

-----------------------------------------------------------------------------
(* Controls, statuses, fibers. *)

\* What the control register may hold over some ids.
LEMMA ControlMade ==
    ASSUME NEW S
    PROVE  /\ SomeExpr \in ControlsIn(S)
           /\ \A v \in ValuesIn(S) : /\ Thing("Value", [v |-> v]) \in ControlsIn(S)
                                    /\ Thing("Returning", [v |-> v]) \in ControlsIn(S)
                                    /\ Thing("Halted", [v |-> v]) \in ControlsIn(S)
           /\ \A n \in Nat : \A args \in UpToOne(ValuesIn(S)) :
                Thing("Suspend", [effect |-> n, args |-> args]) \in ControlsIn(S)
<1>1. \A is \in {"Value", "Returning", "Halted"} : \A v \in ValuesIn(S) :
        Thing(is, [v |-> v]) \in WithValueIn(S)
  BY DEF WithValueIn
<1>2. \A n \in Nat : \A args \in UpToOne(ValuesIn(S)) :
        Thing("Suspend", [effect |-> n, args |-> args]) \in SuspendsIn(S)
  BY DEF SuspendsIn
<1> QED
  BY <1>1, <1>2 DEF ControlsIn

\* Arguments are over any ids each of them is over.
LEMMA ArgsMoved ==
    ASSUME NEW S, NEW s \in UpToOne(ValuesIn(S)), NEW T, \A i \in DOMAIN s : s[i] \in ValuesIn(T)
    PROVE  s \in UpToOne(ValuesIn(T))
  BY ParentMoved

\* The control register moves with the values in it.
LEMMA ControlMoved ==
    ASSUME NEW S, NEW c \in ControlsIn(S), NEW T,
           c.is \in {"Value", "Returning", "Halted"} => c.f.v \in ValuesIn(T),
           c.is = "Suspend" => \A i \in DOMAIN c.f.args : c.f.args[i] \in ValuesIn(T)
    PROVE  c \in ControlsIn(T)
<1>1. CASE c = SomeExpr
  BY <1>1, ControlMade
<1>2. CASE c.is \in {"Value", "Returning", "Halted"}
  <2>1. c = Thing(c.is, [v |-> c.f.v]) /\ c.f.v \in ValuesIn(T)
    BY <1>2, ControlShape
  <2>2. \A v \in ValuesIn(T) : \A is \in {"Value", "Returning", "Halted"} :
          Thing(is, [v |-> v]) \in ControlsIn(T)
    BY ControlMade
  <2> QED
    BY <1>2, <2>1, <2>2
<1>3. CASE c.is = "Suspend"
  <2>1. /\ c.f.effect \in Nat /\ c.f.args \in UpToOne(ValuesIn(S))
        /\ c = Thing("Suspend", [effect |-> c.f.effect, args |-> c.f.args])
    BY <1>3, ControlShape
  <2>2. c.f.args \in UpToOne(ValuesIn(T))
    BY <1>3, <2>1, ArgsMoved
  <2> QED
    BY <2>1, <2>2, ControlMade
<1> QED
  BY <1>1, <1>2, <1>3, ControlShape

\* The values in a control.
LEMMA ControlValues ==
    ASSUME NEW S, NEW c \in ControlsIn(S)
    PROVE  /\ c.is \in {"Value", "Returning", "Halted"} => c.f.v \in ValuesIn(S)
           /\ c.is = "Suspend" => \A i \in DOMAIN c.f.args : c.f.args[i] \in ValuesIn(S)
<1>1. c.is \in {"Value", "Returning", "Halted"} => c.f.v \in ValuesIn(S)
  BY ControlShape
<1>2. ASSUME c.is = "Suspend" PROVE \A i \in DOMAIN c.f.args : c.f.args[i] \in ValuesIn(S)
  <2>1. c.f.args \in UpToOne(ValuesIn(S))
    BY <1>2, ControlShape
  <2> QED
    BY <2>1, UpToOneIs
<1> QED
  BY <1>1, <1>2

\* A control over some ids is one over more.
LEMMA ControlMore ==
    ASSUME NEW S, NEW T, Within(S, T), NEW c \in ControlsIn(S)
    PROVE  c \in ControlsIn(T)
<1>1. /\ c.is \in {"Value", "Returning", "Halted"} => c.f.v \in ValuesIn(T)
      /\ c.is = "Suspend" => \A i \in DOMAIN c.f.args : c.f.args[i] \in ValuesIn(T)
  BY ControlValues, ValueMore
<1> QED
  BY <1>1, ControlMoved

\* A control is over the ids that are kept, if its own are.
LEMMA ControlKept ==
    ASSUME NEW S \in IdSets, NEW M, NEW c \in ControlsIn(S), ControlIds(c) \subseteq M
    PROVE  c \in ControlsIn(Cut(S, M))
<1>1. c.is \in {"Value", "Returning", "Halted"} => c.f.v \in ValuesIn(Cut(S, M))
  BY ControlValues, ValueKept DEF ControlIds
<1>2. ASSUME c.is = "Suspend" PROVE \A i \in DOMAIN c.f.args : c.f.args[i] \in ValuesIn(Cut(S, M))
  <2>1. UNION {ValueIds(c.f.args[i]) : i \in DOMAIN c.f.args} \subseteq M
    BY <1>2 DEF ControlIds
  <2>2. \A i \in DOMAIN c.f.args : ValueIds(c.f.args[i]) \subseteq M
    BY <2>1
  <2> QED
    BY <1>2, <2>2, ControlValues, ValueKept
<1> QED
  BY <1>1, <1>2, ControlMoved

\* A control refers to ids it is over.
LEMMA ControlHeld ==
    ASSUME NEW S, S.closures \subseteq S.objects, NEW c \in ControlsIn(S)
    PROVE  ControlIds(c) \subseteq Pairs(S)
<1>1. c.is \in {"Value", "Returning", "Halted"} => ValueIds(c.f.v) \subseteq Pairs(S)
  BY ControlValues, ValueHeld
<1>2. c.is = "Suspend" => UNION {ValueIds(c.f.args[i]) : i \in DOMAIN c.f.args} \subseteq Pairs(S)
  BY ControlValues, ValueHeld
<1>3. CASE c.is \in {"Value", "Returning", "Halted"}
  BY <1>1, <1>3 DEF ControlIds
<1>4. CASE c.is = "Suspend"
  BY <1>2, <1>4 DEF ControlIds
<1>5. CASE c.is = "Expr"
  BY <1>5 DEF ControlIds
<1> QED
  BY <1>3, <1>4, <1>5, ControlShape

\* A status over some ids is one over more.
LEMMA StatusMore ==
    ASSUME NEW S, NEW T, Within(S, T), NEW s \in StatusesIn(S)
    PROVE  s \in StatusesIn(T)
  BY StatusShape, ValueMore DEF StatusesIn

\* A status refers to ids it is over.
LEMMA StatusHeld ==
    ASSUME NEW S, S.closures \subseteq S.objects, NEW s \in StatusesIn(S)
    PROVE  StatusIds(s) \subseteq Pairs(S)
  BY StatusShape, ValueHeld DEF StatusIds

\* The shape of a fiber.
LEMMA FiberShape ==
    ASSUME NEW S, NEW x \in FibersIn(S)
    PROVE  /\ x.is = "Fiber" /\ x.f.id \in Nat /\ x.f.control \in ControlsIn(S)
           /\ x.f.cont \in S.conts /\ x.f.env \in S.envs /\ x.f.status \in StatusesIn(S)
           /\ x = Fiber(x.f.id, x.f.control, x.f.cont, x.f.env, x.f.status)
  BY DEF FibersIn, Fiber, Thing

\* Registers and a status make a fiber.
LEMMA FiberMade ==
    ASSUME NEW S, NEW id \in Nat, NEW ctl \in ControlsIn(S), NEW k \in S.conts, NEW e \in S.envs,
           NEW status \in StatusesIn(S)
    PROVE  Fiber(id, ctl, k, e, status) \in FibersIn(S)
  BY DEF FibersIn

\* A fiber over some ids is one over more.
LEMMA FiberMore ==
    ASSUME NEW S, NEW T, Within(S, T), NEW x \in FibersIn(S)
    PROVE  x \in FibersIn(T)
<1>1. /\ x.f.id \in Nat /\ x.f.control \in ControlsIn(T)
      /\ x.f.cont \in T.conts /\ x.f.env \in T.envs /\ x.f.status \in StatusesIn(T)
  BY FiberShape, ControlMore, StatusMore DEF Within
<1> QED
  BY <1>1, FiberShape, FiberMade

\* A fiber refers to ids it is over.
LEMMA FiberHeld ==
    ASSUME NEW S, S.closures \subseteq S.objects, NEW x \in FibersIn(S)
    PROVE  FiberIds(x) \subseteq Pairs(S)
  BY FiberShape, ControlHeld, StatusHeld, PairsIs DEF FiberIds

-----------------------------------------------------------------------------
(* Slots. *)

ThingsIn(S) == [objects |-> ObjectsIn(S), envs |-> EnvsIn(S), conts |-> KontsIn(S),
                handlers |-> HandlersIn(S)]

\* What a slot refers to is in the sets it is over.
LEMMA SlotHeld ==
    ASSUME NEW S, S.closures \subseteq S.objects, NEW arena \in DOMAIN ArenaOf,
           NEW x \in ThingsIn(S)[arena], NEW all \in BOOLEAN
    PROVE  Refs(all, One(ArenaOf[arena]), x) \subseteq Pairs(S)
<1>1. CASE arena = "objects"
  <2>1. x \in ObjectsIn(S) /\ ArenaOf[arena] = "Object"
    BY <1>1 DEF ThingsIn, ArenaOf
  <2> QED
    BY <2>1, OneField, ObjectHeld
<1>2. CASE arena = "envs"
  <2>1. x \in EnvsIn(S) /\ ArenaOf[arena] = "Env"
    BY <1>2 DEF ThingsIn, ArenaOf
  <2>2. ThingRefs(all, "Env", x) \subseteq Pairs(S)
    BY <2>1, EnvRefsAre, EnvHeld
  <2> QED
    BY <2>1, <2>2, OneField
<1>3. CASE arena = "conts"
  <2>1. x \in KontsIn(S) /\ ArenaOf[arena] = "Kont"
    BY <1>3 DEF ThingsIn, ArenaOf
  <2>2. ThingRefs(all, "Kont", x) \subseteq Pairs(S)
    BY <2>1, KontRefsAre, KontHeld
  <2> QED
    BY <2>1, <2>2, OneField
<1>4. CASE arena = "handlers"
  <2>1. x \in HandlersIn(S) /\ ArenaOf[arena] = "Handler"
    BY <1>4 DEF ThingsIn, ArenaOf
  <2>2. ThingRefs(all, "Handler", x) = {<<"envs", x.f.env>>}
    BY <2>1, HandlerRefsAre
  <2>3. <<"envs", x.f.env>> \in Pairs(S)
    BY <2>1, HandlerShape, PairsIs
  <2> QED
    BY <2>1, <2>2, <2>3, OneField
<1> QED
  BY <1>1, <1>2, <1>3, <1>4 DEF ArenaOf

\* A slot whose ids are all kept is one over what is kept.
LEMMA SlotKept ==
    ASSUME NEW S \in IdSets, NEW M, NEW arena \in DOMAIN ArenaOf,
           NEW x \in ThingsIn(S)[arena], NEW all \in BOOLEAN,
           Refs(all, One(ArenaOf[arena]), x) \subseteq M
    PROVE  /\ x \in ThingsIn(Cut(S, M))[arena]
           /\ arena = "objects" /\ x \in ClosuresIn(S) => x \in ClosuresIn(Cut(S, M))
<1>1. CASE arena = "objects"
  <2>1. x \in ObjectsIn(S) /\ ArenaOf[arena] = "Object"
    BY <1>1 DEF ThingsIn, ArenaOf
  <2>2. ThingRefs(all, "Object", x) \subseteq M
    BY <2>1, OneField
  <2>3. x \in ObjectsIn(Cut(S, M)) /\ (x \in ClosuresIn(S) => x \in ClosuresIn(Cut(S, M)))
    BY <2>1, <2>2, ObjectKept
  <2> QED
    BY <1>1, <2>3 DEF ThingsIn
<1>2. CASE arena = "envs"
  <2>1. x \in EnvsIn(S) /\ ArenaOf[arena] = "Env"
    BY <1>2 DEF ThingsIn, ArenaOf
  <2>2. EnvIds(x) \subseteq M
    BY <2>1, OneField, EnvRefsAre
  <2>3. x \in EnvsIn(Cut(S, M))
    BY <2>1, <2>2, EnvKept
  <2> QED
    BY <1>2, <2>3 DEF ThingsIn
<1>3. CASE arena = "conts"
  <2>1. x \in KontsIn(S) /\ ArenaOf[arena] = "Kont"
    BY <1>3 DEF ThingsIn, ArenaOf
  <2>2. KontIds(x) \subseteq M
    BY <2>1, OneField, KontRefsAre
  <2>3. x \in KontsIn(Cut(S, M))
    BY <2>1, <2>2, KontKept
  <2> QED
    BY <1>3, <2>3 DEF ThingsIn
<1>4. CASE arena = "handlers"
  <2>1. x \in HandlersIn(S) /\ ArenaOf[arena] = "Handler"
    BY <1>4 DEF ThingsIn, ArenaOf
  <2>2. {<<"envs", x.f.env>>} \subseteq M
    BY <2>1, OneField, HandlerRefsAre
  <2>3. x \in HandlersIn(Cut(S, M))
    BY <2>1, <2>2, HandlerShape, HandlerMoved, CutIs
  <2> QED
    BY <1>4, <2>3 DEF ThingsIn
<1> QED
  BY <1>1, <1>2, <1>3, <1>4 DEF ArenaOf

\* A slot stays one over more.
LEMMA SlotMore ==
    ASSUME NEW S, NEW T, Within(S, T), NEW arena \in DOMAIN ArenaOf, NEW x \in ThingsIn(S)[arena]
    PROVE  x \in ThingsIn(T)[arena]
<1>1. x \in HandlersIn(S) => x \in HandlersIn(T)
  BY HandlerShape, HandlerMoved DEF Within
<1> QED
  BY <1>1, ObjectMore, EnvMore, KontMore DEF ThingsIn, ArenaOf

(* One arena. *)

\* The slots of an arena.
LEMMA SlotOfArena ==
    ASSUME NEW V, NEW a, WellFormed(a, V), NEW id \in IdsOf(a)
    PROVE  id \in Nat /\ Slot(a, id) \in V
<1>1. a.slots \in Seq(V) /\ Len(a.slots) \in Nat
  BY DEF WellFormed
<1>2. id \in Nat /\ id + 1 \in 1 .. Len(a.slots)
  BY <1>1, SMT DEF IdsOf
<1> QED
  BY <1>1, <1>2 DEF Slot

\* A sequence over a set is one over a larger set.
LEMMA SeqMore == ASSUME NEW V, NEW W, V \subseteq W, NEW s \in Seq(V) PROVE s \in Seq(W)
  BY SMT

\* An arena of some things is one of more.
LEMMA WellFormedMore ==
    ASSUME NEW V, NEW W, V \subseteq W, NEW a, WellFormed(a, V)
    PROVE  WellFormed(a, W)
<1>1. a.slots \in Seq(W)
  BY SeqMore DEF WellFormed
<1>2. a \in [slots : Seq(W), free_list : Seq(Nat), allocations : Nat]
  BY <1>1 DEF WellFormed
<1> QED
  BY <1>2 DEF WellFormed

\* How alloc counts.
LEMMA AllocCounts ==
    ASSUME NEW V, NEW a, WellFormed(a, V), NEW x \in V
    PROVE  /\ NextId(a) \in IdsOf(Alloc(a, x)) /\ NextId(a) \in Nat
           /\ IdsOf(a) \subseteq IdsOf(Alloc(a, x))
           /\ Alloc(a, x).allocations = a.allocations + 1
           /\ Len(Alloc(a, x).slots) <= Len(a.slots) + 1
           /\ Len(a.slots) \in Nat /\ Len(Alloc(a, x).slots) \in Nat /\ a.allocations \in Nat
<1>0. Len(a.slots) \in Nat /\ a.slots \in Seq(V) /\ a.allocations \in Nat
  BY DEF WellFormed
<1>1. CASE a.free_list = <<>>
  <2>1. NextId(a) = Len(a.slots) /\ Alloc(a, x).slots = Append(a.slots, x)
    BY <1>1, AllocGrows
  <2>2. Len(Alloc(a, x).slots) = Len(a.slots) + 1
    BY <1>0, <2>1
  <2>3. Alloc(a, x).allocations = a.allocations + 1
    BY <1>1 DEF Alloc, WellFormed
  <2> QED
    BY <1>0, <2>1, <2>2, <2>3, SMT DEF IdsOf
<1>2. CASE a.free_list # <<>>
  <2>1. NextId(a) \in IdsOf(a)
    BY <1>2, AllocReuses
  <2>2. /\ Alloc(a, x).slots = [a.slots EXCEPT ![NextId(a) + 1] = x]
        /\ Alloc(a, x).allocations = a.allocations + 1
    BY <1>2, AllocReuses
  <2>3. Len(Alloc(a, x).slots) = Len(a.slots)
    BY <1>0, <2>2
  <2> QED
    BY <1>0, <2>1, <2>2, <2>3, SMT DEF IdsOf
<1> QED
  BY <1>1, <1>2

\* An assignment to a slot.
LEMMA SetSlotKeeps ==
    ASSUME NEW V, NEW a, WellFormed(a, V), NEW id \in IdsOf(a), NEW x \in V
    PROVE  /\ WellFormed(SetSlot(a, id, x), V)
           /\ IdsOf(SetSlot(a, id, x)) = IdsOf(a) /\ FreeIds(SetSlot(a, id, x)) = FreeIds(a)
           /\ SetSlot(a, id, x).allocations = a.allocations
           /\ Len(SetSlot(a, id, x).slots) = Len(a.slots)
           /\ SetSlot(a, id, x).free_list = a.free_list
           /\ Slot(SetSlot(a, id, x), id) = x
           /\ \A j \in IdsOf(a) : j # id => Slot(SetSlot(a, id, x), j) = Slot(a, j)
<1> DEFINE b == SetSlot(a, id, x)
<1>1. a.slots \in Seq(V) /\ Len(a.slots) \in Nat /\ DOMAIN a.slots = 1 .. Len(a.slots)
  BY DEF WellFormed
<1>2. id \in Nat /\ id + 1 \in 1 .. Len(a.slots)
  BY <1>1, SMT DEF IdsOf
<1>3. b = [slots |-> [a.slots EXCEPT ![id + 1] = x], free_list |-> a.free_list,
           allocations |-> a.allocations]
  <2> DEFINE t == [a.slots EXCEPT ![id + 1] = x]
  <2>1. b = [a EXCEPT !.slots = t]
    BY DEF SetSlot
  <2>2. a = [slots |-> a.slots, free_list |-> a.free_list, allocations |-> a.allocations]
    BY DEF WellFormed
  <2> HIDE DEF t, b
  <2>3. b = [slots |-> t, free_list |-> a.free_list, allocations |-> a.allocations]
    BY <2>1, <2>2
  <2> QED
    BY <2>3 DEF t
<1>4. /\ b.slots \in Seq(V) /\ Len(b.slots) = Len(a.slots)
      /\ b.free_list = a.free_list /\ b.allocations = a.allocations
      /\ b.slots[id + 1] = x
      /\ \A j \in 1 .. Len(a.slots) : j # id + 1 => b.slots[j] = a.slots[j]
  BY <1>1, <1>2, <1>3
<1>5. b \in [slots : Seq(V), free_list : Seq(Nat), allocations : Nat]
  BY <1>3, <1>4 DEF WellFormed
<1> HIDE DEF b
<1>6. IdsOf(b) = IdsOf(a) /\ FreeIds(b) = FreeIds(a)
  BY <1>4 DEF IdsOf, FreeIds
<1>7. WellFormed(b, V)
  BY <1>4, <1>5, <1>6 DEF WellFormed
<1>8. Slot(b, id) = x
  BY <1>4 DEF Slot
<1>9. ASSUME NEW j \in IdsOf(a), j # id PROVE Slot(b, j) = Slot(a, j)
  <2>1. j + 1 \in 1 .. Len(a.slots) /\ j + 1 # id + 1
    BY <1>1, <1>2, <1>9, SMT DEF IdsOf
  <2> QED
    BY <1>4, <2>1 DEF Slot
<1> QED
  BY <1>4, <1>6, <1>7, <1>8, <1>9 DEF b

\* What a sweep leaves.
LEMMA SweepFrees ==
    ASSUME NEW V, NEW a, WellFormed(a, V), NEW marked
    PROVE  /\ WellFormed(Sweep(a, marked), V)
           /\ Sweep(a, marked).slots = a.slots /\ Sweep(a, marked).allocations = a.allocations
           /\ IdsOf(Sweep(a, marked)) = IdsOf(a)
           /\ FreeIds(Sweep(a, marked)) = IdsOf(a) \ marked
<1> DEFINE b == Sweep(a, marked)
           N == Len(a.slots)
           free == Unmarked(a, marked)
<1>1. a.slots \in Seq(V) /\ N \in Nat
  BY DEF WellFormed
<1>2. free \in UnmarkedBelow(marked, N)
  BY <1>1, UnmarkedAll
<1>3. b = [slots |-> a.slots, free_list |-> free, allocations |-> a.allocations]
  BY DEF Sweep, WellFormed
<1>4. b.slots = a.slots /\ b.free_list = free /\ b.allocations = a.allocations
  BY <1>3
<1> HIDE DEF b, free, N
<1>5. /\ free \in Seq(Nat) /\ DOMAIN free = 1 .. Len(free)
      /\ \A i \in 1 .. Len(free) : free[i] \in Nat /\ free[i] < N /\ free[i] \notin marked
      /\ \A i, j \in 1 .. Len(free) : free[i] = free[j] => i = j
      /\ \A id \in Nat : id < N /\ id \notin marked => \E i \in 1 .. Len(free) : free[i] = id
  BY <1>2 DEF UnmarkedBelow
<1>6. IdsOf(b) = IdsOf(a) /\ \A id : id \in IdsOf(a) <=> id \in Nat /\ id < N
  BY <1>1, <1>4, SMT DEF IdsOf, N
<1>7. WellFormed(b, V)
  <2>1. b \in [slots : Seq(V), free_list : Seq(Nat), allocations : Nat]
    BY <1>3, <1>5 DEF WellFormed
  <2> QED
    BY <2>1, <1>4, <1>5, <1>6 DEF WellFormed
<1>8. FreeIds(b) = IdsOf(a) \ marked
  <2>1. FreeIds(b) = {free[i] : i \in 1 .. Len(free)}
    BY <1>4, <1>5 DEF FreeIds
  <2> QED
    BY <2>1, <1>5, <1>6
<1> QED
  BY <1>4, <1>6, <1>7, <1>8 DEF b

-----------------------------------------------------------------------------
(* The heap. *)

Arenas == {"objects", "envs", "conts", "handlers"}

\* All the ids there are.
Ranges(h) == [objects |-> IdsOf(h.objects), closures |-> IdsOf(h.objects),
              envs |-> IdsOf(h.envs), conts |-> IdsOf(h.conts), handlers |-> IdsOf(h.handlers)]

\* Every slot, free or not, holds a thing of its arena over the ids there are, and
\* free lists name slots, each once.
Shaped(h) ==
    /\ h = [objects |-> h.objects, envs |-> h.envs, conts |-> h.conts, handlers |-> h.handlers]
    /\ \A arena \in Arenas : /\ WellFormed(h[arena], ThingsIn(Ranges(h))[arena])
                             /\ h[arena].allocations >= Len(h[arena].slots)

\* None of the ids in S is free, and their slots refer to ids in S.
Sound(h, S) ==
    /\ S \in IdSets
    /\ \A arena \in Arenas : \A id \in S[arena] :
            id \in InUse(h[arena]) /\ Slot(h[arena], id) \in ThingsIn(S)[arena]
    /\ \A o \in S.closures : o \in S.objects /\ Slot(h.objects, o) \in ClosuresIn(S)

\* The arenas are those with things to hold.
LEMMA ArenasAre == DOMAIN ArenaOf = Arenas
  BY DEF ArenaOf, Arenas

\* The ids a heap has slots for.
LEMMA RangesAre ==
    ASSUME NEW h, Shaped(h)
    PROVE  /\ Ranges(h) \in IdSets
           /\ \A arena \in Arenas : Ranges(h)[arena] = IdsOf(h[arena])
           /\ Ranges(h).closures = Ranges(h).objects
<1>1. \A arena \in Arenas : IdsOf(h[arena]) \subseteq Nat
  <2> SUFFICES ASSUME NEW arena \in Arenas PROVE IdsOf(h[arena]) \subseteq Nat
    OBVIOUS
  <2>1. WellFormed(h[arena], ThingsIn(Ranges(h))[arena])
    BY DEF Shaped
  <2> QED
    BY <2>1, SlotOfArena
<1>2. /\ IdsOf(h.objects) \subseteq Nat /\ IdsOf(h.envs) \subseteq Nat
      /\ IdsOf(h.conts) \subseteq Nat /\ IdsOf(h.handlers) \subseteq Nat
  BY <1>1 DEF Arenas
<1>3. Ranges(h) \in IdSets
  BY <1>2 DEF Ranges, IdSets
<1>4. \A arena \in Arenas : Ranges(h)[arena] = IdsOf(h[arena])
  BY DEF Ranges, Arenas
<1> QED
  BY <1>3, <1>4 DEF Ranges

\* The ids in use are ids of slots.
LEMMA SoundWithin ==
    ASSUME NEW h, Shaped(h), NEW S, Sound(h, S)
    PROVE  Within(S, Ranges(h))
<1>1. \A arena \in Arenas : S[arena] \subseteq IdsOf(h[arena])
  BY DEF Sound, InUse
<1>2. S.closures \subseteq S.objects
  BY DEF Sound
<1> QED
  BY <1>1, <1>2 DEF Within, Ranges, Arenas

\* A heap with another arena.
Changed(h, arena, a) == [h EXCEPT ![arena] = a]

\* A heap with one arena changed.
LEMMA OneArena ==
    ASSUME NEW h, Shaped(h), NEW arena \in Arenas, NEW a
    PROVE  LET g == Changed(h, arena, a) IN
           /\ g = [objects |-> g.objects, envs |-> g.envs, conts |-> g.conts,
                   handlers |-> g.handlers]
           /\ g[arena] = a
           /\ \A other \in Arenas : other # arena => g[other] = h[other]
<1> DEFINE r == [objects |-> h.objects, envs |-> h.envs, conts |-> h.conts, handlers |-> h.handlers]
<1>1. h = r
  BY DEF Shaped
<1>2. LET g == [r EXCEPT ![arena] = a] IN
           /\ g = [objects |-> g.objects, envs |-> g.envs, conts |-> g.conts,
                   handlers |-> g.handlers]
           /\ g[arena] = a
           /\ \A other \in Arenas : other # arena => g[other] = r[other]
  BY DEF Arenas
<1> HIDE DEF r
<1> QED
  BY <1>1, <1>2 DEF Changed

\* The things over some ids are things over more.
LEMMA ThingsMore ==
    ASSUME NEW S, NEW T, Within(S, T), NEW arena \in Arenas
    PROVE  ThingsIn(S)[arena] \subseteq ThingsIn(T)[arena]
  BY SlotMore, ArenasAre

\* A heap whose ids are among more ids, each arena of which is as it was or holds
\* things over the ids there were.
LEMMA ShapedAgain ==
    ASSUME NEW h, Shaped(h), NEW arena \in Arenas, NEW a, WellFormed(a, ThingsIn(Ranges(h))[arena]),
           a.allocations >= Len(a.slots), IdsOf(h[arena]) \subseteq IdsOf(a)
    PROVE  LET g == Changed(h, arena, a) IN
           /\ Shaped(g) /\ Within(Ranges(h), Ranges(g))
           /\ \A other \in Arenas : IdsOf(h[other]) \subseteq IdsOf(g[other])
<1> DEFINE g == Changed(h, arena, a)
<1>1. /\ g = [objects |-> g.objects, envs |-> g.envs, conts |-> g.conts, handlers |-> g.handlers]
      /\ g[arena] = a
      /\ \A other \in Arenas : other # arena => g[other] = h[other]
  BY OneArena
<1> HIDE DEF g
<1>2. \A other \in Arenas : IdsOf(h[other]) \subseteq IdsOf(g[other])
  BY <1>1
<1>3. Within(Ranges(h), Ranges(g))
  BY <1>2 DEF Ranges, Within, Arenas
<1>4. ASSUME NEW other \in Arenas
      PROVE  /\ WellFormed(g[other], ThingsIn(Ranges(g))[other])
             /\ g[other].allocations >= Len(g[other].slots)
  <2>1. WellFormed(g[other], ThingsIn(Ranges(h))[other])
        /\ g[other].allocations >= Len(g[other].slots)
    BY <1>1 DEF Shaped
  <2>2. ThingsIn(Ranges(h))[other] \subseteq ThingsIn(Ranges(g))[other]
    BY <1>3, ThingsMore
  <2> QED
    BY <2>1, <2>2, WellFormedMore
<1>5. Shaped(g)
  BY <1>1, <1>4 DEF Shaped
<1> QED
  BY <1>2, <1>3, <1>5 DEF g

\* An allocation.
LEMMA AllocShaped ==
    ASSUME NEW h, Shaped(h), NEW arena \in Arenas, NEW x \in ThingsIn(Ranges(h))[arena]
    PROVE  LET g == Changed(h, arena, Alloc(h[arena], x)) IN
           /\ Shaped(g) /\ Within(Ranges(h), Ranges(g))
           /\ NextId(h[arena]) \in IdsOf(g[arena])
<1>1. WellFormed(h[arena], ThingsIn(Ranges(h))[arena])
          /\ h[arena].allocations >= Len(h[arena].slots)
  BY DEF Shaped
<1>2. /\ WellFormed(Alloc(h[arena], x), ThingsIn(Ranges(h))[arena])
  BY <1>1, AllocNeverTakesWhatIsInUse
<1>3. /\ NextId(h[arena]) \in IdsOf(Alloc(h[arena], x))
      /\ IdsOf(h[arena]) \subseteq IdsOf(Alloc(h[arena], x))
      /\ Alloc(h[arena], x).allocations >= Len(Alloc(h[arena], x).slots)
  BY <1>1, AllocCounts, SMT
<1>4. Changed(h, arena, Alloc(h[arena], x))[arena] = Alloc(h[arena], x)
  BY OneArena
<1>5. LET g == Changed(h, arena, Alloc(h[arena], x)) IN
      Shaped(g) /\ Within(Ranges(h), Ranges(g))
  BY <1>2, <1>3, ShapedAgain
<1> QED
  BY <1>3, <1>4, <1>5

\* Sets of ids with one more.
Grown(S, arena, id, closure) ==
    [objects |-> IF arena = "objects" THEN S.objects \cup {id} ELSE S.objects,
     closures |-> IF closure THEN S.closures \cup {id} ELSE S.closures,
     envs |-> IF arena = "envs" THEN S.envs \cup {id} ELSE S.envs,
     conts |-> IF arena = "conts" THEN S.conts \cup {id} ELSE S.conts,
     handlers |-> IF arena = "handlers" THEN S.handlers \cup {id} ELSE S.handlers]

\* One id more in one arena.
LEMMA GrownIs ==
    ASSUME NEW S \in IdSets, NEW arena \in Arenas, NEW id \in Nat, NEW closure \in BOOLEAN
    PROVE  /\ Grown(S, arena, id, closure) \in IdSets
           /\ Within(S, Grown(S, arena, id, closure))
           /\ Grown(S, arena, id, closure)[arena] = S[arena] \cup {id}
           /\ \A other \in Arenas : other # arena => Grown(S, arena, id, closure)[other] = S[other]
           /\ closure => id \in Grown(S, arena, id, closure).closures
           /\ \A o \in Grown(S, arena, id, closure).closures
                  : o \in S.closures \/ (closure /\ o = id)
<1>1. CASE arena = "objects"
  BY <1>1 DEF Grown, IdSets, Within, Arenas
<1>2. CASE arena = "envs"
  BY <1>2 DEF Grown, IdSets, Within, Arenas
<1>3. CASE arena = "conts"
  BY <1>3 DEF Grown, IdSets, Within, Arenas
<1>4. CASE arena = "handlers"
  BY <1>4 DEF Grown, IdSets, Within, Arenas
<1> QED
  BY <1>1, <1>2, <1>3, <1>4 DEF Arenas

\* What is allocated over ids that can be relied on can be relied on.
LEMMA AllocSound ==
    ASSUME NEW h, Shaped(h), NEW S, Sound(h, S), NEW arena \in Arenas, NEW x \in ThingsIn(S)[arena]
    PROVE  LET g == Changed(h, arena, Alloc(h[arena], x)) IN
           \E T : /\ Sound(g, T) /\ Within(S, T) /\ NextId(h[arena]) \in T[arena]
                  /\ arena = "objects" /\ x \in ClosuresIn(S) => NextId(h[arena]) \in T.closures
<1> DEFINE g == Changed(h, arena, Alloc(h[arena], x))
           id == NextId(h[arena])
           closure == arena = "objects" /\ x \in ClosuresIn(S)
           T == Grown(S, arena, id, closure)
<1>1. /\ g[arena] = Alloc(h[arena], x)
      /\ \A other \in Arenas : other # arena => g[other] = h[other]
  BY OneArena
<1>2. WellFormed(h[arena], ThingsIn(Ranges(h))[arena]) /\ x \in ThingsIn(Ranges(h))[arena]
  BY SoundWithin, ThingsMore DEF Shaped
<1>3. /\ id \notin InUse(h[arena])
      /\ InUse(g[arena]) = InUse(h[arena]) \cup {id}
      /\ Slot(g[arena], id) = x
      /\ \A j \in InUse(h[arena]) : Slot(g[arena], j) = Slot(h[arena], j)
  BY <1>1, <1>2, AllocNeverTakesWhatIsInUse
<1>4. id \in Nat
  BY <1>2, AllocCounts
<1>5. /\ T \in IdSets /\ Within(S, T) /\ T[arena] = S[arena] \cup {id}
      /\ \A other \in Arenas : other # arena => T[other] = S[other]
      /\ closure => id \in T.closures
      /\ \A o \in T.closures : o \in S.closures \/ (closure /\ o = id)
  <2>1. S \in IdSets /\ closure \in BOOLEAN
    BY DEF Sound
  <2> HIDE DEF closure, id
  <2> QED
    BY <1>4, <2>1, GrownIs
<1> HIDE DEF g, id, T
<1>6. ASSUME NEW other \in Arenas, NEW i \in T[other]
      PROVE  i \in InUse(g[other]) /\ Slot(g[other], i) \in ThingsIn(T)[other]
  <2>1. ThingsIn(S)[other] \subseteq ThingsIn(T)[other]
    BY <1>5, ThingsMore
  <2>2. CASE i \in S[other]
    <3>1. i \in InUse(h[other]) /\ Slot(h[other], i) \in ThingsIn(S)[other]
      BY <2>2 DEF Sound
    <3>2. i \in InUse(g[other]) /\ Slot(g[other], i) = Slot(h[other], i)
      BY <1>1, <1>3, <3>1
    <3> QED
      BY <2>1, <3>1, <3>2
  <2>3. CASE i \notin S[other]
    <3>1. other = arena /\ i = id
      BY <1>5, <1>6, <2>3
    <3> QED
      BY <1>3, <2>1, <3>1
  <2> QED
    BY <2>2, <2>3
<1>7. ASSUME NEW o \in T.closures PROVE o \in T.objects /\ Slot(g.objects, o) \in ClosuresIn(T)
  <2>1. ClosuresIn(S) \subseteq ClosuresIn(T)
    BY <1>5, ClosureMore
  <2>2. CASE o \in S.closures
    <3>1. o \in S.objects /\ Slot(h.objects, o) \in ClosuresIn(S)
      BY <2>2 DEF Sound
    <3>2. o \in InUse(h.objects)
      BY <3>1 DEF Sound, Arenas
    <3>3. Slot(g.objects, o) = Slot(h.objects, o)
      BY <1>1, <1>3, <3>2 DEF Arenas
    <3>4. o \in T.objects
      BY <1>5, <3>1 DEF Within
    <3> QED
      BY <2>1, <3>1, <3>3, <3>4
  <2>3. CASE o \notin S.closures
    <3>1. arena = "objects" /\ x \in ClosuresIn(S) /\ o = id
      BY <1>5, <1>7, <2>3
    <3>2. o \in T.objects
      BY <1>5, <3>1
    <3> QED
      BY <1>3, <2>1, <3>1, <3>2
  <2> QED
    BY <2>2, <2>3
<1>8. Sound(g, T)
  BY <1>5, <1>6, <1>7 DEF Sound
<1>9. id \in T[arena]
  BY <1>5
<1> QED
  BY <1>5, <1>8, <1>9 DEF g, id

\* An assignment to a slot that can be relied on, of a thing that can.
LEMMA SetSound ==
    ASSUME NEW h, Shaped(h), NEW S, Sound(h, S), NEW arena \in Arenas \ {"objects"},
           NEW id \in S[arena], NEW x \in ThingsIn(S)[arena]
    PROVE  LET g == Changed(h, arena, SetSlot(h[arena], id, x)) IN
           /\ Shaped(g) /\ Sound(g, S) /\ Within(Ranges(h), Ranges(g))
           /\ g[arena].allocations = h[arena].allocations
<1> DEFINE g == Changed(h, arena, SetSlot(h[arena], id, x))
<1>1. /\ g[arena] = SetSlot(h[arena], id, x)
      /\ \A other \in Arenas : other # arena => g[other] = h[other]
  BY OneArena
<1>2. WellFormed(h[arena], ThingsIn(Ranges(h))[arena]) /\ x \in ThingsIn(Ranges(h))[arena]
  BY SoundWithin, ThingsMore DEF Shaped
<1>3. id \in IdsOf(h[arena])
  BY DEF Sound, InUse
<1>4. /\ WellFormed(SetSlot(h[arena], id, x), ThingsIn(Ranges(h))[arena])
      /\ IdsOf(SetSlot(h[arena], id, x)) = IdsOf(h[arena])
      /\ FreeIds(SetSlot(h[arena], id, x)) = FreeIds(h[arena])
      /\ SetSlot(h[arena], id, x).allocations = h[arena].allocations
      /\ Len(SetSlot(h[arena], id, x).slots) = Len(h[arena].slots)
      /\ Slot(SetSlot(h[arena], id, x), id) = x
      /\ \A j \in IdsOf(h[arena]) : j # id => Slot(SetSlot(h[arena], id, x), j) = Slot(h[arena], j)
  BY <1>2, <1>3, SetSlotKeeps
<1>5. h[arena].allocations >= Len(h[arena].slots)
  BY DEF Shaped
<1>6. Shaped(g) /\ Within(Ranges(h), Ranges(g))
  BY <1>4, <1>5, ShapedAgain
<1> HIDE DEF g
<1>7. ASSUME NEW other \in Arenas, NEW i \in S[other]
      PROVE  i \in InUse(g[other]) /\ Slot(g[other], i) \in ThingsIn(S)[other]
  <2>1. i \in InUse(h[other]) /\ Slot(h[other], i) \in ThingsIn(S)[other]
    BY DEF Sound
  <2>2. CASE other # arena
    BY <1>1, <2>1, <2>2
  <2>3. CASE other = arena
    <3>1. i \in InUse(g[other])
      BY <1>1, <1>4, <2>1, <2>3 DEF InUse
    <3>2. i = id \/ Slot(g[other], i) = Slot(h[other], i)
      BY <1>1, <1>4, <2>1, <2>3 DEF InUse
    <3> QED
      BY <1>1, <1>4, <2>1, <2>3, <3>1, <3>2
  <2> QED
    BY <2>2, <2>3
<1>8. \A o \in S.closures : o \in S.objects /\ Slot(g.objects, o) \in ClosuresIn(S)
  BY <1>1 DEF Sound, Arenas
<1>9. Sound(g, S)
  BY <1>7, <1>8 DEF Sound
<1> QED
  BY <1>1, <1>4, <1>6, <1>9 DEF g

\* All that some ids refer to.
Behind(all, h, T) == UNION {Refs(all, One(ArenaOf[r[1]]), Slot(h[r[1]], r[2])) : r \in T}

\* Where the walk may be after n rounds, in C.
WalkIn(all, h, ids, C, n) ==
    {s \in [marked : SUBSET C, todo : SUBSET C] :
        /\ s.marked \cap s.todo = {} /\ ids \subseteq s.marked \cup s.todo
        /\ Behind(all, h, s.marked) \subseteq s.marked \cup s.todo
        /\ s.todo = {} \/ Cardinality(s.marked) >= n}

\* More is behind more, and what is behind two sets is behind either.
LEMMA BehindMore ==
    ASSUME NEW all, NEW h, NEW T, NEW U
    PROVE  /\ T \subseteq U => Behind(all, h, T) \subseteq Behind(all, h, U)
           /\ Behind(all, h, T \cup U) = Behind(all, h, T) \cup Behind(all, h, U)
           /\ Behind(all, h, {}) = {}
  BY DEF Behind

\* One round further.
LEMMA WalkStep ==
    ASSUME NEW all, NEW h, NEW ids, NEW C, IsFiniteSet(C), Behind(all, h, C) \subseteq C,
           NEW n \in Nat \ {0}, NEW s \in WalkIn(all, h, ids, C, n - 1)
    PROVE  [marked |-> s.marked \cup s.todo,
            todo |-> Behind(all, h, s.todo) \ (s.marked \cup s.todo)]
           \in WalkIn(all, h, ids, C, n)
<1> DEFINE seen == s.marked \cup s.todo
           todo == Behind(all, h, s.todo) \ seen
           t == [marked |-> seen, todo |-> todo]
<1>1. /\ s.marked \subseteq C /\ s.todo \subseteq C /\ s.marked \cap s.todo = {}
      /\ ids \subseteq seen /\ Behind(all, h, s.marked) \subseteq seen
      /\ s.todo = {} \/ Cardinality(s.marked) >= n - 1
  BY DEF WalkIn
<1>2. Behind(all, h, s.todo) \subseteq C
  BY <1>1, BehindMore
<1>3. t \in [marked : SUBSET C, todo : SUBSET C] /\ t.marked = seen /\ t.todo = todo
  BY <1>1, <1>2
<1>4. Behind(all, h, seen) \subseteq seen \cup todo
  BY <1>1, BehindMore
<1>5. todo = {} \/ Cardinality(seen) >= n
  <2>1. CASE s.todo = {}
    BY <2>1, BehindMore
  <2>2. CASE s.todo # {}
    <3>1. PICK x : x \in s.todo
      BY <2>2
    <3>2. IsFiniteSet(s.marked) /\ IsFiniteSet(seen)
      BY <1>1, FS_Subset
    <3>3. Cardinality(s.marked \cup {x}) = Cardinality(s.marked) + 1
              /\ IsFiniteSet(s.marked \cup {x})
      <4>1. x \notin s.marked
        BY <1>1, <3>1
      <4> QED
        BY <3>2, <4>1, FS_AddElement
    <3>4. Cardinality(s.marked \cup {x}) <= Cardinality(seen)
      <4>1. s.marked \cup {x} \in SUBSET seen
        BY <3>1
      <4> HIDE DEF seen
      <4> QED
        BY <3>2, <4>1, FS_Subset
    <3>5. Cardinality(s.marked) \in Nat /\ Cardinality(seen) \in Nat
      BY <3>2, FS_CardinalityType
    <3>6. Cardinality(s.marked) >= n - 1
      BY <1>1, <2>2
    <3> HIDE DEF seen
    <3> QED
      BY <3>3, <3>4, <3>5, <3>6, SMT
  <2> QED
    BY <2>1, <2>2
<1> HIDE DEF seen, todo, t
<1>6. seen \cap todo = {}
  BY DEF todo
<1>7. t \in WalkIn(all, h, ids, C, n)
  BY <1>1, <1>3, <1>4, <1>5, <1>6 DEF WalkIn
<1> QED
  BY <1>7 DEF t, todo, seen

\* The walk ends having marked the ids it began with, what they lead to and
\* nothing else: it goes on for as many rounds as there are slots.
LEMMA ReachedIs ==
    ASSUME NEW all, NEW h, Slots(h) \in Nat, NEW C, IsFiniteSet(C), Cardinality(C) <= Slots(h),
           Behind(all, h, C) \subseteq C, NEW ids, ids \subseteq C
    PROVE  /\ Reached(all, h, ids) \subseteq C /\ ids \subseteq Reached(all, h, ids)
           /\ Behind(all, h, Reached(all, h, ids)) \subseteq Reached(all, h, ids)
<1> DEFINE N == Slots(h)
           base == [marked |-> {}, todo |-> ids]
           States == [marked : SUBSET C, todo : SUBSET C]
           In == [n \in 0 .. N |-> WalkIn(all, h, ids, C, n)]
           NextOf(s) == [marked |-> s.marked \cup s.todo,
                       todo |-> Behind(all, h, s.todo) \ (s.marked \cup s.todo)]
           Rounds(f) == f = [n \in 0 .. N |->
                IF n = 0 THEN [marked |-> {}, todo |-> ids]
                ELSE LET before == f[n - 1]
                         seen == before.marked \cup before.todo IN
                     [marked |-> seen,
                      todo |-> (UNION {Refs(all, One(ArenaOf[r[1]]), Slot(h[r[1]], r[2])) :
                                         r \in before.todo}) \ seen]]
           ByNext(f) == f = [n \in 0 .. N |-> IF n = 0 THEN base ELSE NextOf(f[n - 1])]
           step == [p \in (1 .. N) \X States |-> NextOf(p[2])]
           g == CHOOSE f : Rounds(f)
<1>0. /\ N \in Nat /\ 0 \in 0 .. N /\ N \in 0 .. N
      /\ \A n \in 1 .. N : n \in Nat \ {0} /\ n \in 0 .. N /\ n - 1 \in 0 .. N /\ n # 0
      /\ \A n \in 0 .. N : n # 0 => n \in 1 .. N
  BY SMT
<1>1. base \in In[0]
  <2>1. base \in States /\ base.marked = {} /\ base.todo = ids
    OBVIOUS
  <2>2. Cardinality({}) >= 0
    BY FS_EmptySet
  <2>3. base \in WalkIn(all, h, ids, C, 0)
    BY <2>1, <2>2, BehindMore DEF WalkIn
  <2> QED
    BY <1>0, <2>3
<1>2. ASSUME NEW n \in 1 .. N, NEW s \in In[n - 1]
      PROVE  step[<<n, s>>] = NextOf(s) /\ NextOf(s) \in In[n]
  <2>1. s \in WalkIn(all, h, ids, C, n - 1)
    BY <1>0
  <2>2. NextOf(s) \in WalkIn(all, h, ids, C, n)
    BY <1>0, <2>1, WalkStep
  <2>3. s \in States
    BY <2>1 DEF WalkIn
  <2> QED
    BY <1>0, <2>2, <2>3
<1> HIDE DEF In, step
<1>3. \A n \in 1 .. N : \A s \in In[n - 1] : step[<<n, s>>] \in In[n]
  BY <1>2
<1>4. PICK f : /\ f = [n \in 0 .. N |-> f[n]]
               /\ f[0] = base
               /\ \A n \in 1 .. N : f[n] = step[<<n, f[n - 1]>>]
               /\ \A n \in 0 .. N : f[n] \in In[n]
  <2> HIDE DEF N, base
  <2>1. \E f : Stepped(f, N, base, step, In)
    BY <1>0, <1>1, <1>3, StepByStep
  <2> QED
    BY <2>1 DEF Stepped
<1>5. \A n \in 1 .. N : f[n] = NextOf(f[n - 1])
  BY <1>0, <1>2, <1>4
<1>6. ByNext(f)
  <2> HIDE DEF NextOf, base
  <2>1. \A n \in 0 .. N : f[n] = IF n = 0 THEN base ELSE NextOf(f[n - 1])
    BY <1>0, <1>4, <1>5
  <2> QED
    BY <1>4, <2>1, Zenon
<1>7. ASSUME NEW u PROVE Rounds(u) <=> ByNext(u)
  BY DEF Behind
<1>15. Rounds(g)
  <2> HIDE DEF Rounds, ByNext
  <2>1. Rounds(f)
    BY <1>6, <1>7
  <2> QED
    BY <2>1
<1>16. ByNext(g)
  <2> HIDE DEF Rounds, ByNext, g
  <2> QED
    BY <1>7, <1>15
<1> HIDE DEF g
<1>8. \A n \in 0 .. N : g[n] = IF n = 0 THEN base ELSE NextOf(g[n - 1])
  <2> HIDE DEF NextOf, base
  <2> QED
    BY <1>16
<1>9. f[N] = g[N]
  <2> HIDE DEF NextOf, base, N
  <2>1. f[0] = g[0]
    BY <1>0, <1>4, <1>8
  <2>2. \A n \in 1 .. N : f[n - 1] = g[n - 1] => f[n] = g[n]
    BY <1>0, <1>5, <1>8
  <2>3. \A n \in 0 .. N : f[n] = g[n]
    <3>1. Alike(N, f, g)
      BY <1>0, EachAlike
    <3> QED
      BY <2>1, <2>2, <3>1 DEF Alike
  <2> QED
    BY <1>0, <2>3
<1>10. Reached(all, h, ids) = g[N].marked
  BY DEF Reached, g
<1>11. f[N] \in WalkIn(all, h, ids, C, N)
  BY <1>0, <1>4 DEF In
<1> DEFINE marked == f[N].marked
           todo == f[N].todo
<1>12. /\ marked \subseteq C /\ todo \subseteq C /\ marked \cap todo = {}
       /\ ids \subseteq marked \cup todo /\ Behind(all, h, marked) \subseteq marked \cup todo
       /\ todo = {} \/ Cardinality(marked) >= N
  BY <1>11 DEF WalkIn
<1>13. todo = {}
  <2> SUFFICES ASSUME Cardinality(marked) >= N PROVE todo = {}
    BY <1>12
  <2> HIDE DEF marked, todo, N
  <2>1. Cardinality(marked) <= Cardinality(C) /\ (Cardinality(C) = Cardinality(marked)
            => C = marked)
    BY <1>12, FS_Subset
  <2>2. Cardinality(C) \in Nat /\ Cardinality(marked) \in Nat
    BY <1>12, FS_Subset, FS_CardinalityType
  <2>3. Cardinality(C) <= N
    BY DEF N
  <2>4. Cardinality(C) = Cardinality(marked)
    BY <1>0, <2>1, <2>2, <2>3, SMT
  <2> QED
    BY <1>12, <2>1, <2>4
<1>14. Reached(all, h, ids) = marked
  BY <1>9, <1>10
<1> QED
  BY <1>12, <1>13, <1>14

\* Ids of an arena as pairs are as many.
LEMMA TaggedCount ==
    ASSUME NEW n \in Nat, NEW tag
    PROVE  /\ IsFiniteSet({<<tag, i>> : i \in 0 .. n - 1})
           /\ Cardinality({<<tag, i>> : i \in 0 .. n - 1}) <= n
           /\ Cardinality({<<tag, i>> : i \in 0 .. n - 1}) \in Nat
<1> DEFINE S == 0 .. n - 1
           T == {<<tag, i>> : i \in S}
           f == [i \in S |-> <<tag, i>>]
<1>1. IsFiniteSet(S) /\ Cardinality(S) = n
  <2>1. 0 \in Int /\ n - 1 \in Int
    BY SMT
  <2>2. IsFiniteSet(0 .. n - 1) /\ Cardinality(0 .. n - 1) = IF 0 > n - 1 THEN 0 ELSE n - 1 - 0 + 1
    BY <2>1, FS_Interval
  <2> QED
    BY <2>2, SMT
<1>2. f \in Surjection(S, T)
  <2>1. f \in [S -> T]
    OBVIOUS
  <2>2. \A t \in T : \E s \in S : f[s] = t
    OBVIOUS
  <2> QED
    BY <2>1, <2>2 DEF Surjection
<1> HIDE DEF S, T, f
<1>3. IsFiniteSet(T) /\ Cardinality(T) <= n
  BY <1>1, <1>2, FS_Surjection
<1>4. Cardinality(T) \in Nat
  BY <1>3, FS_CardinalityType
<1> QED
  BY <1>3, <1>4 DEF T, S

\* Two sets together have at most as many elements as both.
LEMMA BothCount ==
    ASSUME NEW S, NEW T, IsFiniteSet(S), IsFiniteSet(T), NEW m \in Nat, NEW n \in Nat,
           Cardinality(S) <= m, Cardinality(T) <= n
    PROVE  IsFiniteSet(S \cup T) /\ Cardinality(S \cup T) <= m + n
<1>1. /\ IsFiniteSet(S \cup T)
      /\ Cardinality(S \cup T) = Cardinality(S) + Cardinality(T) - Cardinality(S \cap T)
  BY FS_Union
<1>2. IsFiniteSet(S \cap T)
  <2>1. S \cap T \in SUBSET S
    OBVIOUS
  <2> QED
    BY <2>1, FS_Subset
<1>3. Cardinality(S \cap T) \in Nat /\ Cardinality(S) \in Nat /\ Cardinality(T) \in Nat
  BY <1>2, FS_CardinalityType
<1> QED
  BY <1>1, <1>3, SMT

\* There are no more ids than slots.
LEMMA PairsCount ==
    ASSUME NEW h, Shaped(h)
    PROVE  /\ IsFiniteSet(Pairs(Ranges(h))) /\ Cardinality(Pairs(Ranges(h))) <= Slots(h)
           /\ Slots(h) \in Nat
<1> DEFINE no == Len(h.objects.slots)  ne == Len(h.envs.slots)
           nc == Len(h.conts.slots)  nh == Len(h.handlers.slots)
           A == {<<"objects", i>> : i \in 0 .. no - 1}
           B == {<<"envs", i>> : i \in 0 .. ne - 1}
           C == {<<"conts", i>> : i \in 0 .. nc - 1}
           D == {<<"handlers", i>> : i \in 0 .. nh - 1}
<1>1. \A arena \in Arenas : Len(h[arena].slots) \in Nat
  <2> SUFFICES ASSUME NEW arena \in Arenas PROVE Len(h[arena].slots) \in Nat
    OBVIOUS
  <2>1. WellFormed(h[arena], ThingsIn(Ranges(h))[arena])
    BY DEF Shaped
  <2>2. h[arena].slots \in Seq(ThingsIn(Ranges(h))[arena])
    BY <2>1 DEF WellFormed
  <2> QED
    BY <2>2, SMT
<1>2. no \in Nat /\ ne \in Nat /\ nc \in Nat /\ nh \in Nat
  BY <1>1 DEF Arenas
<1>3. Pairs(Ranges(h)) = ((A \cup B) \cup C) \cup D
  BY DEF Pairs, Ranges, IdsOf
<1>4. Slots(h) = ((no + ne) + nc) + nh
  BY DEF Slots
<1> HIDE DEF no, ne, nc, nh
<1>5. /\ IsFiniteSet(A) /\ Cardinality(A) <= no /\ IsFiniteSet(B) /\ Cardinality(B) <= ne
      /\ IsFiniteSet(C) /\ Cardinality(C) <= nc /\ IsFiniteSet(D) /\ Cardinality(D) <= nh
  BY <1>2, TaggedCount
<1> HIDE DEF A, B, C, D
<1>6. IsFiniteSet(A \cup B) /\ Cardinality(A \cup B) <= no + ne
  BY <1>2, <1>5, BothCount
<1>7. no + ne \in Nat /\ (no + ne) + nc \in Nat /\ ((no + ne) + nc) + nh \in Nat
  BY <1>2, SMT
<1>8. IsFiniteSet((A \cup B) \cup C) /\ Cardinality((A \cup B) \cup C) <= (no + ne) + nc
  BY <1>2, <1>5, <1>6, <1>7, BothCount
<1>9. /\ IsFiniteSet(((A \cup B) \cup C) \cup D)
      /\ Cardinality(((A \cup B) \cup C) \cup D) <= ((no + ne) + nc) + nh
  BY <1>2, <1>5, <1>7, <1>8, BothCount
<1> QED
  BY <1>3, <1>4, <1>7, <1>9

\* More ids are more pairs.
LEMMA PairsMore ==
    ASSUME NEW S, NEW T, Within(S, T)
    PROVE  Pairs(S) \subseteq Pairs(T)
  BY DEF Pairs, Within

\* A pair is an arena and an id in use of it.
LEMMA PairsArena ==
    ASSUME NEW S, NEW r \in Pairs(S)
    PROVE  r[1] \in Arenas /\ r[2] \in S[r[1]] /\ r = <<r[1], r[2]>>
  BY PairsShape DEF Arenas

\* An id in use, as a pair.
LEMMA PairOf ==
    ASSUME NEW S, NEW arena \in Arenas, NEW id
    PROVE  <<arena, id>> \in Pairs(S) <=> id \in S[arena]
  BY PairsIs DEF Arenas

\* What all slots refer to are ids of slots.
LEMMA RangesClosed ==
    ASSUME NEW h, Shaped(h), NEW all \in BOOLEAN
    PROVE  Behind(all, h, Pairs(Ranges(h))) \subseteq Pairs(Ranges(h))
<1> SUFFICES ASSUME NEW r \in Pairs(Ranges(h))
             PROVE  Refs(all, One(ArenaOf[r[1]]), Slot(h[r[1]], r[2])) \subseteq Pairs(Ranges(h))
  BY DEF Behind
<1>1. r[1] \in Arenas /\ r[2] \in IdsOf(h[r[1]])
  BY PairsArena, RangesAre
<1>2. Slot(h[r[1]], r[2]) \in ThingsIn(Ranges(h))[r[1]]
  <2>1. WellFormed(h[r[1]], ThingsIn(Ranges(h))[r[1]])
    BY <1>1 DEF Shaped
  <2> QED
    BY <1>1, <2>1, SlotOfArena
<1>3. Ranges(h).closures \subseteq Ranges(h).objects
  BY RangesAre
<1> QED
  BY <1>1, <1>2, <1>3, SlotHeld, ArenasAre

\* What can be relied on refers to what can be relied on.
LEMMA SoundClosed ==
    ASSUME NEW h, NEW S, Sound(h, S), NEW all \in BOOLEAN
    PROVE  Behind(all, h, Pairs(S)) \subseteq Pairs(S)
<1> SUFFICES ASSUME NEW r \in Pairs(S)
             PROVE  Refs(all, One(ArenaOf[r[1]]), Slot(h[r[1]], r[2])) \subseteq Pairs(S)
  BY DEF Behind
<1>1. r[1] \in Arenas /\ r[2] \in S[r[1]]
  BY PairsArena
<1>2. Slot(h[r[1]], r[2]) \in ThingsIn(S)[r[1]]
  BY <1>1 DEF Sound
<1>3. S.closures \subseteq S.objects
  BY DEF Sound
<1> QED
  BY <1>1, <1>2, <1>3, SlotHeld, ArenasAre

\* What can be reached from ids that can be relied on can be.
LEMMA ReachedSound ==
    ASSUME NEW h, Shaped(h), NEW S, Sound(h, S), NEW ids, ids \subseteq Pairs(S),
           NEW all \in BOOLEAN
    PROVE  Reached(all, h, ids) \subseteq Pairs(S)
<1>1. Within(S, Ranges(h))
  BY SoundWithin
<1>2. Pairs(S) \in SUBSET Pairs(Ranges(h))
  BY <1>1, PairsMore
<1>3. /\ IsFiniteSet(Pairs(S)) /\ Cardinality(Pairs(S)) <= Cardinality(Pairs(Ranges(h)))
      /\ Cardinality(Pairs(Ranges(h))) <= Slots(h) /\ Slots(h) \in Nat
      /\ IsFiniteSet(Pairs(Ranges(h)))
  BY <1>2, PairsCount, FS_Subset
<1>4. Cardinality(Pairs(S)) \in Nat /\ Cardinality(Pairs(Ranges(h))) \in Nat
  BY <1>3, FS_CardinalityType
<1>5. Cardinality(Pairs(S)) <= Slots(h)
  BY <1>3, <1>4, SMT
<1> QED
  BY <1>3, <1>5, SoundClosed, ReachedIs

\* A collection from roots that are ids in use frees exactly the slots that mark_roots
\* and the work list of Collector::collect do not reach: every slot keeps what it
\* holds, every id in use afterwards was reached, and what could be relied on and was
\* reached still can be.
THEOREM CollectSound ==
    ASSUME NEW h, Shaped(h), NEW S, Sound(h, S), NEW roots, roots \subseteq Pairs(Ranges(h))
    PROVE  LET g == Collected(h, roots)  M == Reached(FALSE, h, roots) IN
           /\ Shaped(g) /\ Ranges(g) = Ranges(h) /\ TotalAllocations(g) = TotalAllocations(h)
           /\ roots \subseteq M /\ Sound(g, Cut(S, M))
           /\ \A arena \in Arenas : g[arena].slots = h[arena].slots
           /\ \A arena \in Arenas : \A id \in IdsOf(h[arena]) :
                id \notin FreeIds(g[arena]) => <<arena, id>> \in M
<1> DEFINE M == Reached(FALSE, h, roots)
           Of(arena) == {r[2] : r \in {m \in M : m[1] = arena}}
           g == Collected(h, roots)
           T == Cut(S, M)
<1>1. roots \subseteq M /\ Behind(FALSE, h, M) \subseteq M /\ M \subseteq Pairs(Ranges(h))
  BY PairsCount, RangesClosed, ReachedIs
<1>2. DOMAIN h = Arenas
  <2> DEFINE r == [objects |-> h.objects, envs |-> h.envs, conts |-> h.conts,
                   handlers |-> h.handlers]
  <2>1. h = r
    BY DEF Shaped
  <2>2. DOMAIN r = Arenas
    BY DEF Arenas
  <2> HIDE DEF r
  <2> QED
    BY <2>1, <2>2
<1>3. g = [arena \in Arenas |-> Sweep(h[arena], Of(arena))]
  BY <1>2 DEF Collected
<1>4. g = [objects |-> g.objects, envs |-> g.envs, conts |-> g.conts, handlers |-> g.handlers]
  BY <1>3 DEF Arenas
<1> HIDE DEF g, M, Of
<1>5. ASSUME NEW arena \in Arenas
      PROVE  /\ WellFormed(g[arena], ThingsIn(Ranges(h))[arena])
             /\ g[arena].slots = h[arena].slots /\ g[arena].allocations = h[arena].allocations
             /\ IdsOf(g[arena]) = IdsOf(h[arena])
             /\ FreeIds(g[arena]) = IdsOf(h[arena]) \ Of(arena)
  <2>1. WellFormed(h[arena], ThingsIn(Ranges(h))[arena])
    BY DEF Shaped
  <2>2. g[arena] = Sweep(h[arena], Of(arena))
    BY <1>3
  <2> QED
    BY <2>1, <2>2, SweepFrees
<1>6. Ranges(g) = Ranges(h)
  BY <1>5 DEF Ranges, Arenas
<1>7. Shaped(g)
  <2>1. ASSUME NEW arena \in Arenas PROVE g[arena].allocations >= Len(g[arena].slots)
    BY <1>5 DEF Shaped
  <2> QED
    BY <1>4, <1>5, <1>6, <2>1 DEF Shaped
<1>8. TotalAllocations(g) = TotalAllocations(h)
  BY <1>5 DEF TotalAllocations, Arenas
<1>9. /\ S \in IdSets /\ T \in IdSets /\ Within(T, S)
      /\ \A arena \in Arenas : \A id : id \in T[arena] <=> id \in S[arena] /\ <<arena, id>> \in M
      /\ \A o : o \in T.closures <=> o \in S.closures /\ <<"objects", o>> \in M
  <2>1. S \in IdSets
    BY DEF Sound
  <2>2. /\ T \in IdSets /\ Within(T, S)
        /\ \A o : o \in T.objects <=> o \in S.objects /\ <<"objects", o>> \in M
        /\ \A o : o \in T.closures <=> o \in S.closures /\ <<"objects", o>> \in M
        /\ \A e : e \in T.envs <=> e \in S.envs /\ <<"envs", e>> \in M
        /\ \A k : k \in T.conts <=> k \in S.conts /\ <<"conts", k>> \in M
        /\ \A i : i \in T.handlers <=> i \in S.handlers /\ <<"handlers", i>> \in M
    BY <2>1, CutIs
  <2> HIDE DEF T
  <2> QED
    BY <2>1, <2>2 DEF Arenas
<1>10. ASSUME NEW arena \in Arenas, NEW id \in T[arena]
       PROVE  /\ id \in InUse(g[arena]) /\ Slot(g[arena], id) \in ThingsIn(T)[arena]
              /\ arena = "objects" /\ Slot(g[arena], id) \in ClosuresIn(S)
                 => Slot(g[arena], id) \in ClosuresIn(T)
  <2>1. id \in S[arena] /\ <<arena, id>> \in M
    BY <1>9
  <2>2. id \in IdsOf(h[arena]) /\ Slot(h[arena], id) \in ThingsIn(S)[arena]
    BY <2>1 DEF Sound, InUse
  <2>3. id \in Of(arena)
    BY <2>1 DEF Of
  <2>4. id \in InUse(g[arena])
    BY <1>5, <2>2, <2>3 DEF InUse
  <2>5. Slot(g[arena], id) = Slot(h[arena], id)
    BY <1>5 DEF Slot
  <2>6. Refs(FALSE, One(ArenaOf[arena]), Slot(h[arena], id)) \subseteq M
    <3> DEFINE r == <<arena, id>>
    <3>1. r \in M /\ r[1] = arena /\ r[2] = id
      BY <2>1
    <3> HIDE DEF r
    <3>2. Refs(FALSE, One(ArenaOf[r[1]]), Slot(h[r[1]], r[2])) \subseteq Behind(FALSE, h, M)
      BY <3>1 DEF Behind
    <3> QED
      BY <1>1, <3>1, <3>2
  <2>7. Slot(h[arena], id) \in ThingsIn(T)[arena]
        /\ (arena = "objects" /\ Slot(h[arena], id) \in ClosuresIn(S)
            => Slot(h[arena], id) \in ClosuresIn(T))
    BY <1>9, <2>2, <2>6, SlotKept, ArenasAre
  <2> QED
    BY <2>4, <2>5, <2>7
<1>11. ASSUME NEW o \in T.closures PROVE o \in T.objects /\ Slot(g.objects, o) \in ClosuresIn(T)
  <2>1. o \in S.closures /\ <<"objects", o>> \in M
    BY <1>9
  <2>2. o \in S.objects /\ Slot(h.objects, o) \in ClosuresIn(S)
    BY <2>1 DEF Sound
  <2>3. "objects" \in Arenas
    BY DEF Arenas
  <2>4. o \in T["objects"]
    BY <1>9, <2>1, <2>2, <2>3
  <2>5. Slot(g.objects, o) = Slot(h.objects, o)
    BY <1>5, <2>3 DEF Slot
  <2> QED
    BY <1>10, <2>2, <2>3, <2>4, <2>5
<1> HIDE DEF T
<1>12. Sound(g, T)
  BY <1>9, <1>10, <1>11 DEF Sound
<1>13. \A arena \in Arenas : g[arena].slots = h[arena].slots
  BY <1>5
<1>14. ASSUME NEW arena \in Arenas, NEW id \in IdsOf(h[arena]), id \notin FreeIds(g[arena])
       PROVE  <<arena, id>> \in M
  <2>1. id \in Of(arena)
    BY <1>5, <1>14
  <2>2. PICK m \in M : m[1] = arena /\ m[2] = id
    BY <2>1 DEF Of
  <2>3. m = <<m[1], m[2]>>
    BY <1>1, PairsArena
  <2> QED
    BY <2>2, <2>3
<1> QED
  BY <1>1, <1>6, <1>7, <1>8, <1>12, <1>13, <1>14 DEF g, M, T

-----------------------------------------------------------------------------
(* Frames. *)

\* The fields of a frame are those of the table.
LEMMA NamesOf ==
    ASSUME NEW is, NEW tag, NEW fields,
           VariantIn(Written["Kont"], is) = Variant(tag, is, fields),
           \E v \in Written["Kont"] : v.is = is
    PROVE  Names(VariantOf["Kont"][is].fields) = Names(fields)
<1>1. "Kont" \in TracedTypes
  BY DEF TracedTypes
<1>2. is \in {v.is : v \in Written["Kont"]}
  OBVIOUS
<1>3. VariantOf["Kont"] = ByName(Written["Kont"])
  BY <1>1 DEF VariantOf
<1>4. VariantOf["Kont"][is] = VariantIn(Written["Kont"], is)
  BY <1>2, <1>3 DEF ByName
<1> QED
  BY <1>4 DEF Variant

\* What a frame is given, over S.
GivenIn(is, given, S) ==
    /\ \A name \in DOMAIN given : name \notin {"k", "env", "callee", "done"} => given[name] \in Nat
    /\ "k" \in DOMAIN given /\ given["k"] \in S.conts
    /\ is \notin {"MemberK", "ReturnExprK"} => "env" \in DOMAIN given /\ given["env"] \in S.envs
    /\ is = "ArgsK" => "callee" \in DOMAIN given /\ given["callee"] \in ValuesIn(S)
    /\ is \in {"ArgsK", "ObjectK", "PerformArgsK"} => "done" \in DOMAIN given
           /\ given["done"] = <<>>

\* The frame MemberK.
LEMMA NMemberK ==
    ASSUME NEW given, NEW S, GivenIn("MemberK", given, S)
    PROVE  Kont("MemberK", given) \in KontsIn(S)
<1> DEFINE fields == <<F("property", Num("u32")), F("k", Ref("conts"))>>
           f == [name \in {"property", "k"} |->
                    IF name \in DOMAIN given THEN given[name] ELSE 0]
<1>1. Names(fields) = {"property", "k"}
  BY DEF Names, F
<1> HIDE DEF fields
<1>2. Names(VariantOf["Kont"]["MemberK"].fields) = {"property", "k"}
  BY <1>1, WKontMemberK, NamesOf DEF fields
<1>3. Kont("MemberK", given) = Thing("MemberK", f)
  BY <1>2 DEF Kont
<1>4. f["property"] \in Nat
  BY DEF GivenIn
<1>5. f["k"] \in S.conts
  BY DEF GivenIn
<1>6. f = [property |-> f["property"], k |-> f["k"]]
  OBVIOUS
<1> HIDE DEF f
<1>7. f \in FrameFields(S)["MemberK"] /\ "MemberK" \in DOMAIN FrameFields(S)
  BY <1>4, <1>5, <1>6 DEF FrameFields
<1> QED
  BY <1>3, <1>7, KontMade

\* The frame AssignVarK.
LEMMA NAssignVarK ==
    ASSUME NEW given, NEW S, GivenIn("AssignVarK", given, S)
    PROVE  Kont("AssignVarK", given) \in KontsIn(S)
<1> DEFINE fields == <<F("name", Num("u32")), F("env", Ref("envs")), F("k", Ref("conts"))>>
           f == [name \in {"name", "env", "k"} |->
                    IF name \in DOMAIN given THEN given[name] ELSE 0]
<1>1. Names(fields) = {"name", "env", "k"}
  BY DEF Names, F
<1> HIDE DEF fields
<1>2. Names(VariantOf["Kont"]["AssignVarK"].fields) = {"name", "env", "k"}
  BY <1>1, WKontAssignVarK, NamesOf DEF fields
<1>3. Kont("AssignVarK", given) = Thing("AssignVarK", f)
  BY <1>2 DEF Kont
<1>4. f["name"] \in Nat
  BY DEF GivenIn
<1>5. f["env"] \in S.envs
  BY DEF GivenIn
<1>6. f["k"] \in S.conts
  BY DEF GivenIn
<1>7. f = [name |-> f["name"], env |-> f["env"], k |-> f["k"]]
  OBVIOUS
<1> HIDE DEF f
<1>8. f \in FrameFields(S)["AssignVarK"] /\ "AssignVarK" \in DOMAIN FrameFields(S)
  BY <1>4, <1>5, <1>6, <1>7 DEF FrameFields
<1> QED
  BY <1>3, <1>8, KontMade

\* The frame CalleeK.
LEMMA NCalleeK ==
    ASSUME NEW given, NEW S, GivenIn("CalleeK", given, S)
    PROVE  Kont("CalleeK", given) \in KontsIn(S)
<1> DEFINE fields == <<F("args_start", Num("u32")), F("args_count", Num("u16")),
          F("env", Ref("envs")), F("k", Ref("conts"))>>
           f == [name \in {"args_start", "args_count", "env", "k"} |->
                    IF name \in DOMAIN given THEN given[name] ELSE 0]
<1>1. Names(fields) = {"args_start", "args_count", "env", "k"}
  BY DEF Names, F
<1> HIDE DEF fields
<1>2. Names(VariantOf["Kont"]["CalleeK"].fields) = {"args_start", "args_count", "env", "k"}
  BY <1>1, WKontCalleeK, NamesOf DEF fields
<1>3. Kont("CalleeK", given) = Thing("CalleeK", f)
  BY <1>2 DEF Kont
<1>4. f["args_start"] \in Nat
  BY DEF GivenIn
<1>5. f["args_count"] \in Nat
  BY DEF GivenIn
<1>6. f["env"] \in S.envs
  BY DEF GivenIn
<1>7. f["k"] \in S.conts
  BY DEF GivenIn
<1>8. f = [args_start |-> f["args_start"], args_count |-> f["args_count"], env |-> f["env"],
           k |-> f["k"]]
  OBVIOUS
<1> HIDE DEF f
<1>9. f \in FrameFields(S)["CalleeK"] /\ "CalleeK" \in DOMAIN FrameFields(S)
  BY <1>4, <1>5, <1>6, <1>7, <1>8 DEF FrameFields
<1> QED
  BY <1>3, <1>9, KontMade

\* The frame ArgsK.
LEMMA NArgsK ==
    ASSUME NEW given, NEW S, GivenIn("ArgsK", given, S)
    PROVE  Kont("ArgsK", given) \in KontsIn(S)
<1> DEFINE fields == <<F("callee", One("Value")), F("done", Many(One("Value"))),
          F("args_start", Num("u32")), F("args_idx", Num("u16")),
          F("args_count", Num("u16")), F("env", Ref("envs")),
          F("k", Ref("conts"))>>
           f == [name \in {"callee", "done", "args_start", "args_idx", "args_count", "env", "k"} |->
                    IF name \in DOMAIN given THEN given[name] ELSE 0]
<1>1. Names(fields) = {"callee", "done", "args_start", "args_idx", "args_count", "env", "k"}
  BY DEF Names, F
<1> HIDE DEF fields
<1>2. Names(VariantOf["Kont"]["ArgsK"].fields) = {"callee", "done", "args_start", "args_idx",
                                                  "args_count", "env", "k"}
  BY <1>1, WKontArgsK, NamesOf DEF fields
<1>3. Kont("ArgsK", given) = Thing("ArgsK", f)
  BY <1>2 DEF Kont
<1>4. f["callee"] \in ValuesIn(S)
  BY DEF GivenIn
<1>5. f["done"] \in {<<>>}
  BY DEF GivenIn
<1>6. f["args_start"] \in Nat
  BY DEF GivenIn
<1>7. f["args_idx"] \in Nat
  BY DEF GivenIn
<1>8. f["args_count"] \in Nat
  BY DEF GivenIn
<1>9. f["env"] \in S.envs
  BY DEF GivenIn
<1>10. f["k"] \in S.conts
  BY DEF GivenIn
<1>11. f = [callee |-> f["callee"], done |-> f["done"], args_start |-> f["args_start"],
            args_idx |-> f["args_idx"], args_count |-> f["args_count"], env |-> f["env"],
            k |-> f["k"]]
  OBVIOUS
<1> HIDE DEF f
<1>12. f \in FrameFields(S)["ArgsK"] /\ "ArgsK" \in DOMAIN FrameFields(S)
  BY <1>4, <1>5, <1>6, <1>7, <1>8, <1>9, <1>10, <1>11 DEF FrameFields
<1> QED
  BY <1>3, <1>12, KontMade

\* The frame ReturnK.
LEMMA NReturnK ==
    ASSUME NEW given, NEW S, GivenIn("ReturnK", given, S)
    PROVE  Kont("ReturnK", given) \in KontsIn(S)
<1> DEFINE fields == <<F("env", Ref("envs")), F("k", Ref("conts"))>>
           f == [name \in {"env", "k"} |->
                    IF name \in DOMAIN given THEN given[name] ELSE 0]
<1>1. Names(fields) = {"env", "k"}
  BY DEF Names, F
<1> HIDE DEF fields
<1>2. Names(VariantOf["Kont"]["ReturnK"].fields) = {"env", "k"}
  BY <1>1, WKontReturnK, NamesOf DEF fields
<1>3. Kont("ReturnK", given) = Thing("ReturnK", f)
  BY <1>2 DEF Kont
<1>4. f["env"] \in S.envs
  BY DEF GivenIn
<1>5. f["k"] \in S.conts
  BY DEF GivenIn
<1>6. f = [env |-> f["env"], k |-> f["k"]]
  OBVIOUS
<1> HIDE DEF f
<1>7. f \in FrameFields(S)["ReturnK"] /\ "ReturnK" \in DOMAIN FrameFields(S)
  BY <1>4, <1>5, <1>6 DEF FrameFields
<1> QED
  BY <1>3, <1>7, KontMade

\* The frame ReturnExprK.
LEMMA NReturnExprK ==
    ASSUME NEW given, NEW S, GivenIn("ReturnExprK", given, S)
    PROVE  Kont("ReturnExprK", given) \in KontsIn(S)
<1> DEFINE fields == <<F("k", Ref("conts"))>>
           f == [name \in {"k"} |->
                    IF name \in DOMAIN given THEN given[name] ELSE 0]
<1>1. Names(fields) = {"k"}
  BY DEF Names, F
<1> HIDE DEF fields
<1>2. Names(VariantOf["Kont"]["ReturnExprK"].fields) = {"k"}
  BY <1>1, WKontReturnExprK, NamesOf DEF fields
<1>3. Kont("ReturnExprK", given) = Thing("ReturnExprK", f)
  BY <1>2 DEF Kont
<1>4. f["k"] \in S.conts
  BY DEF GivenIn
<1>5. f = [k |-> f["k"]]
  OBVIOUS
<1> HIDE DEF f
<1>6. f \in FrameFields(S)["ReturnExprK"] /\ "ReturnExprK" \in DOMAIN FrameFields(S)
  BY <1>4, <1>5 DEF FrameFields
<1> QED
  BY <1>3, <1>6, KontMade

\* The frame ObjectK.
LEMMA NObjectK ==
    ASSUME NEW given, NEW S, GivenIn("ObjectK", given, S)
    PROVE  Kont("ObjectK", given) \in KontsIn(S)
<1> DEFINE fields == <<F("done", Many(One("Binding"))), F("props_start", Num("u32")),
          F("props_idx", Num("u16")), F("props_count", Num("u16")),
          F("env", Ref("envs")), F("k", Ref("conts"))>>
           f == [name \in {"done", "props_start", "props_idx", "props_count", "env", "k"} |->
                    IF name \in DOMAIN given THEN given[name] ELSE 0]
<1>1. Names(fields) = {"done", "props_start", "props_idx", "props_count", "env", "k"}
  BY DEF Names, F
<1> HIDE DEF fields
<1>2. Names(VariantOf["Kont"]["ObjectK"].fields) = {"done", "props_start", "props_idx",
                                                    "props_count", "env", "k"}
  BY <1>1, WKontObjectK, NamesOf DEF fields
<1>3. Kont("ObjectK", given) = Thing("ObjectK", f)
  BY <1>2 DEF Kont
<1>4. f["done"] \in {<<>>}
  BY DEF GivenIn
<1>5. f["props_start"] \in Nat
  BY DEF GivenIn
<1>6. f["props_idx"] \in Nat
  BY DEF GivenIn
<1>7. f["props_count"] \in Nat
  BY DEF GivenIn
<1>8. f["env"] \in S.envs
  BY DEF GivenIn
<1>9. f["k"] \in S.conts
  BY DEF GivenIn
<1>10. f = [done |-> f["done"], props_start |-> f["props_start"], props_idx |-> f["props_idx"],
            props_count |-> f["props_count"], env |-> f["env"], k |-> f["k"]]
  OBVIOUS
<1> HIDE DEF f
<1>11. f \in FrameFields(S)["ObjectK"] /\ "ObjectK" \in DOMAIN FrameFields(S)
  BY <1>4, <1>5, <1>6, <1>7, <1>8, <1>9, <1>10 DEF FrameFields
<1> QED
  BY <1>3, <1>11, KontMade

\* The frame HandlerK.
LEMMA NHandlerK ==
    ASSUME NEW given, NEW S, GivenIn("HandlerK", given, S)
    PROVE  Kont("HandlerK", given) \in KontsIn(S)
<1> DEFINE fields == <<F("clauses_start", Num("u32")), F("clauses_count", Num("u16")),
          F("env", Ref("envs")), F("return_body", Num("u32")),
          F("return_param", Num("u32")), F("k", Ref("conts"))>>
           f == [name \in {"clauses_start", "clauses_count", "env", "return_body",
                           "return_param", "k"} |->
                    IF name \in DOMAIN given THEN given[name] ELSE 0]
<1>1. Names(fields) = {"clauses_start", "clauses_count", "env", "return_body", "return_param", "k"}
  BY DEF Names, F
<1> HIDE DEF fields
<1>2. Names(VariantOf["Kont"]["HandlerK"].fields) = {"clauses_start", "clauses_count", "env",
                                                     "return_body", "return_param", "k"}
  BY <1>1, WKontHandlerK, NamesOf DEF fields
<1>3. Kont("HandlerK", given) = Thing("HandlerK", f)
  BY <1>2 DEF Kont
<1>4. f["clauses_start"] \in Nat
  BY DEF GivenIn
<1>5. f["clauses_count"] \in Nat
  BY DEF GivenIn
<1>6. f["env"] \in S.envs
  BY DEF GivenIn
<1>7. f["return_body"] \in Nat
  BY DEF GivenIn
<1>8. f["return_param"] \in Nat
  BY DEF GivenIn
<1>9. f["k"] \in S.conts
  BY DEF GivenIn
<1>10. f = [clauses_start |-> f["clauses_start"], clauses_count |-> f["clauses_count"],
            env |-> f["env"], return_body |-> f["return_body"],
            return_param |-> f["return_param"], k |-> f["k"]]
  OBVIOUS
<1> HIDE DEF f
<1>11. f \in FrameFields(S)["HandlerK"] /\ "HandlerK" \in DOMAIN FrameFields(S)
  BY <1>4, <1>5, <1>6, <1>7, <1>8, <1>9, <1>10 DEF FrameFields
<1> QED
  BY <1>3, <1>11, KontMade

\* The frame PerformArgsK.
LEMMA NPerformArgsK ==
    ASSUME NEW given, NEW S, GivenIn("PerformArgsK", given, S)
    PROVE  Kont("PerformArgsK", given) \in KontsIn(S)
<1> DEFINE fields == <<F("effect", Num("u32")), F("done", Many(One("Value"))),
          F("args_start", Num("u32")), F("args_idx", Num("u16")),
          F("args_count", Num("u16")), F("env", Ref("envs")),
          F("k", Ref("conts"))>>
           f == [name \in {"effect", "done", "args_start", "args_idx", "args_count", "env", "k"} |->
                    IF name \in DOMAIN given THEN given[name] ELSE 0]
<1>1. Names(fields) = {"effect", "done", "args_start", "args_idx", "args_count", "env", "k"}
  BY DEF Names, F
<1> HIDE DEF fields
<1>2. Names(VariantOf["Kont"]["PerformArgsK"].fields) = {"effect", "done", "args_start",
                                                         "args_idx", "args_count", "env", "k"}
  BY <1>1, WKontPerformArgsK, NamesOf DEF fields
<1>3. Kont("PerformArgsK", given) = Thing("PerformArgsK", f)
  BY <1>2 DEF Kont
<1>4. f["effect"] \in Nat
  BY DEF GivenIn
<1>5. f["done"] \in {<<>>}
  BY DEF GivenIn
<1>6. f["args_start"] \in Nat
  BY DEF GivenIn
<1>7. f["args_idx"] \in Nat
  BY DEF GivenIn
<1>8. f["args_count"] \in Nat
  BY DEF GivenIn
<1>9. f["env"] \in S.envs
  BY DEF GivenIn
<1>10. f["k"] \in S.conts
  BY DEF GivenIn
<1>11. f = [effect |-> f["effect"], done |-> f["done"], args_start |-> f["args_start"],
            args_idx |-> f["args_idx"], args_count |-> f["args_count"], env |-> f["env"],
            k |-> f["k"]]
  OBVIOUS
<1> HIDE DEF f
<1>12. f \in FrameFields(S)["PerformArgsK"] /\ "PerformArgsK" \in DOMAIN FrameFields(S)
  BY <1>4, <1>5, <1>6, <1>7, <1>8, <1>9, <1>10, <1>11 DEF FrameFields
<1> QED
  BY <1>3, <1>12, KontMade

\* The frame HandleWithK.
LEMMA NHandleWithK ==
    ASSUME NEW given, NEW S, GivenIn("HandleWithK", given, S)
    PROVE  Kont("HandleWithK", given) \in KontsIn(S)
<1> DEFINE fields == <<F("body", Num("u32")), F("env", Ref("envs")), F("k", Ref("conts"))>>
           f == [name \in {"body", "env", "k"} |->
                    IF name \in DOMAIN given THEN given[name] ELSE 0]
<1>1. Names(fields) = {"body", "env", "k"}
  BY DEF Names, F
<1> HIDE DEF fields
<1>2. Names(VariantOf["Kont"]["HandleWithK"].fields) = {"body", "env", "k"}
  BY <1>1, WKontHandleWithK, NamesOf DEF fields
<1>3. Kont("HandleWithK", given) = Thing("HandleWithK", f)
  BY <1>2 DEF Kont
<1>4. f["body"] \in Nat
  BY DEF GivenIn
<1>5. f["env"] \in S.envs
  BY DEF GivenIn
<1>6. f["k"] \in S.conts
  BY DEF GivenIn
<1>7. f = [body |-> f["body"], env |-> f["env"], k |-> f["k"]]
  OBVIOUS
<1> HIDE DEF f
<1>8. f \in FrameFields(S)["HandleWithK"] /\ "HandleWithK" \in DOMAIN FrameFields(S)
  BY <1>4, <1>5, <1>6, <1>7 DEF FrameFields
<1> QED
  BY <1>3, <1>8, KontMade

\* A frame over S.
LEMMA FrameMade ==
    ASSUME NEW is \in {"MemberK", "AssignVarK", "CalleeK", "ArgsK", "ReturnK", "ReturnExprK",
                       "ObjectK", "HandlerK", "PerformArgsK", "HandleWithK"},
           NEW given, NEW S, GivenIn(is, given, S)
    PROVE  Kont(is, given) \in KontsIn(S)
  BY NMemberK, NAssignVarK, NCalleeK, NArgsK, NReturnK, NReturnExprK, NObjectK, NHandlerK,
     NPerformArgsK, NHandleWithK

-----------------------------------------------------------------------------
(* Lookups. *)

\* The environment a name is bound in is one of the chain.
LEMMA BinderIs ==
    ASSUME NEW h, Shaped(h), NEW S, Sound(h, S), NEW e \in S.envs
    PROVE  /\ Binder(h.envs, e) \in UpToOne(S.envs)
           /\ Binder(h.envs, e) # <<>> => Slot(h.envs, Binder(h.envs, e)[1]).f.bindings # <<>>
<1> DEFINE envs == h.envs
           N == Len(envs.slots)
           Stays(i) == Slot(envs, i).f.bindings # <<>> \/ Slot(envs, i).f.parent = <<>>
           Next1(i) == IF Stays(i) THEN i ELSE Slot(envs, i).f.parent[1]
           Found(u) == u = [n \in 0 .. N |-> IF n = 0 THEN e ELSE Next1(u[n - 1])]
           g == CHOOSE u : Found(u)
           In == [n \in 0 .. N |-> S.envs]
           step == [p \in (1 .. N) \X S.envs |-> Next1(p[2])]
<1>0. /\ N \in Nat /\ 0 \in 0 .. N /\ N \in 0 .. N
      /\ \A n \in 1 .. N : n \in 0 .. N /\ n - 1 \in 0 .. N /\ n # 0
      /\ \A n \in 0 .. N : n # 0 => n \in 1 .. N
  <2>1. WellFormed(h.envs, ThingsIn(Ranges(h)).envs)
    BY DEF Shaped, Arenas
  <2>2. envs.slots \in Seq(ThingsIn(Ranges(h)).envs)
    BY <2>1 DEF WellFormed
  <2>3. N \in Nat
    BY <2>2
  <2> HIDE DEF N
  <2> QED
    BY <2>3, SMT
<1>1. \A i \in S.envs : Next1(i) \in S.envs
  <2> SUFFICES ASSUME NEW i \in S.envs, ~Stays(i) PROVE Slot(envs, i).f.parent[1] \in S.envs
    OBVIOUS
  <2>1. Slot(envs, i) \in EnvsIn(S)
    BY DEF Sound, Arenas, ThingsIn
  <2>2. Slot(envs, i).f.parent \in UpToOne(S.envs)
    BY <2>1, EnvShape
  <2> QED
    BY <2>2, UpToOneIs
<1> HIDE DEF Stays
<1>2. ASSUME NEW n \in 1 .. N, NEW s \in In[n - 1]
      PROVE  step[<<n, s>>] = Next1(s) /\ Next1(s) \in In[n]
  BY <1>0, <1>1
<1> HIDE DEF step
<1>3. \A n \in 1 .. N : \A s \in In[n - 1] : step[<<n, s>>] \in In[n]
  BY <1>2
<1>4. PICK f : /\ f = [n \in 0 .. N |-> f[n]]
               /\ f[0] = e
               /\ \A n \in 1 .. N : f[n] = step[<<n, f[n - 1]>>]
               /\ \A n \in 0 .. N : f[n] \in In[n]
  <2>1. e \in In[0]
    BY <1>0
  <2> HIDE DEF N, In, Next1
  <2>2. \E f : Stepped(f, N, e, step, In)
    BY <1>0, <1>3, <2>1, StepByStep
  <2> QED
    BY <2>2 DEF Stepped
<1>5. \A n \in 1 .. N : f[n] = Next1(f[n - 1])
  BY <1>0, <1>2, <1>4
<1>6. Found(f)
  <2> HIDE DEF Next1, N
  <2>1. \A n \in 0 .. N : f[n] = IF n = 0 THEN e ELSE Next1(f[n - 1])
    BY <1>0, <1>4, <1>5
  <2> QED
    BY <1>4, <2>1, Zenon
<1>7. Found(g)
  <2> HIDE DEF Found
  <2> QED
    BY <1>6
<1> HIDE DEF g
<1>8. \A n \in 0 .. N : g[n] = IF n = 0 THEN e ELSE Next1(g[n - 1])
  <2> HIDE DEF Next1
  <2> QED
    BY <1>7
<1>9. g[N] \in S.envs
  <2> HIDE DEF Next1
  <2>1. f[0] = g[0]
    BY <1>0, <1>4, <1>8
  <2>2. \A n \in 1 .. N : f[n - 1] = g[n - 1] => f[n] = g[n]
    BY <1>0, <1>5, <1>8
  <2>3. f[N] \in S.envs /\ N \in 0 .. N
    BY <1>0, <1>4
  <2> HIDE DEF N
  <2>4. \A n \in 0 .. N : f[n] = g[n]
    <3>1. Alike(N, f, g)
      BY <1>0, EachAlike
    <3> QED
      BY <2>1, <2>2, <3>1 DEF Alike
  <2> QED
    BY <2>3, <2>4
<1>10. Binder(h.envs, e) = IF Slot(envs, g[N]).f.bindings # <<>> THEN <<g[N]>> ELSE <<>>
  BY DEF Binder, g, Stays
<1> HIDE DEF N, Found
<1> QED
  BY <1>9, <1>10 DEF UpToOne

-----------------------------------------------------------------------------
(* From heap to heap. *)

\* From a heap h of which S can be relied on to g of which T can be: nothing that
\* could be relied on is lost.
Onward(h, g, S, T) ==
    /\ Shaped(g) /\ Sound(g, T) /\ Within(S, T) /\ Within(Ranges(h), Ranges(g))
    /\ TotalAllocations(h) <= TotalAllocations(g)

\* How many allocations there have been.
LEMMA TotalIs ==
    ASSUME NEW h, Shaped(h)
    PROVE  /\ TotalAllocations(h) \in Nat
           /\ \A arena \in Arenas : h[arena].allocations \in Nat
<1>1. \A arena \in Arenas : h[arena].allocations \in Nat
  <2> SUFFICES ASSUME NEW arena \in Arenas PROVE h[arena].allocations \in Nat
    OBVIOUS
  <2>1. WellFormed(h[arena], ThingsIn(Ranges(h))[arena])
    BY DEF Shaped
  <2> QED
    BY <2>1 DEF WellFormed
<1>2. /\ h.objects.allocations \in Nat /\ h.envs.allocations \in Nat
      /\ h.conts.allocations \in Nat /\ h.handlers.allocations \in Nat
  BY <1>1 DEF Arenas
<1> QED
  BY <1>1, <1>2, SMT DEF TotalAllocations

\* A heap in one arena of which there have been more allocations.
LEMMA TotalMore ==
    ASSUME NEW h, Shaped(h), NEW arena \in Arenas, NEW a, h[arena].allocations <= a.allocations,
           Shaped(Changed(h, arena, a))
    PROVE  TotalAllocations(h) <= TotalAllocations(Changed(h, arena, a))
<1> DEFINE g == Changed(h, arena, a)
<1>1. g[arena] = a /\ \A other \in Arenas : other # arena => g[other] = h[other]
  BY OneArena
<1>2. \A other \in Arenas : g[other].allocations \in Nat /\ h[other].allocations \in Nat
  BY TotalIs
<1> HIDE DEF g
<1>3. \A other \in Arenas : h[other].allocations <= g[other].allocations
  BY <1>1, <1>2, SMT
<1>4. /\ h.objects.allocations <= g.objects.allocations /\ h.envs.allocations <= g.envs.allocations
      /\ h.conts.allocations <= g.conts.allocations
      /\ h.handlers.allocations <= g.handlers.allocations
  BY <1>3 DEF Arenas
<1>5. /\ h.objects.allocations \in Nat /\ h.envs.allocations \in Nat
      /\ h.conts.allocations \in Nat /\ h.handlers.allocations \in Nat
      /\ g.objects.allocations \in Nat /\ g.envs.allocations \in Nat
      /\ g.conts.allocations \in Nat /\ g.handlers.allocations \in Nat
  BY <1>2 DEF Arenas
<1>6. TotalAllocations(h) <= TotalAllocations(g)
  BY <1>4, <1>5, SMT DEF TotalAllocations
<1> QED
  BY <1>6 DEF g

\* Within is reflexive and transitive.
LEMMA WithinIs ==
    ASSUME NEW S
    PROVE  Within(S, S) /\ \A T, U : Within(S, T) /\ Within(T, U) => Within(S, U)
  BY DEF Within

\* A sound heap leads on to itself.
LEMMA OnwardSelf ==
    ASSUME NEW h, Shaped(h), NEW S, Sound(h, S)
    PROVE  Onward(h, h, S, S)
<1>1. TotalAllocations(h) <= TotalAllocations(h)
  BY TotalIs, SMT
<1> QED
  BY <1>1, WithinIs DEF Onward

\* What leads on in two steps leads on.
LEMMA OnwardThen ==
    ASSUME NEW h, NEW g, NEW f, NEW S, NEW T, NEW U, Shaped(h), Onward(h, g, S, T),
           Onward(g, f, T, U)
    PROVE  Onward(h, f, S, U)
<1>1. /\ TotalAllocations(h) \in Nat /\ TotalAllocations(g) \in Nat /\ TotalAllocations(f) \in Nat
  BY TotalIs DEF Onward
<1>2. TotalAllocations(h) <= TotalAllocations(f)
  BY <1>1, SMT DEF Onward
<1> QED
  BY <1>2, WithinIs DEF Onward

\* An allocation.
LEMMA OnwardAlloc ==
    ASSUME NEW h, Shaped(h), NEW S, Sound(h, S), NEW arena \in Arenas, NEW x \in ThingsIn(S)[arena]
    PROVE  \E T : /\ Onward(h, Changed(h, arena, Alloc(h[arena], x)), S, T)
                  /\ NextId(h[arena]) \in T[arena]
                  /\ arena = "objects" /\ x \in ClosuresIn(S) => NextId(h[arena]) \in T.closures
<1> DEFINE g == Changed(h, arena, Alloc(h[arena], x))
<1>1. x \in ThingsIn(Ranges(h))[arena]
  BY SoundWithin, ThingsMore
<1>2. Shaped(g) /\ Within(Ranges(h), Ranges(g))
  BY <1>1, AllocShaped
<1>3. TotalAllocations(h) <= TotalAllocations(g)
  <2>1. WellFormed(h[arena], ThingsIn(Ranges(h))[arena])
    BY DEF Shaped
  <2>2. Alloc(h[arena], x).allocations = h[arena].allocations + 1 /\ h[arena].allocations \in Nat
    BY <1>1, <2>1, AllocCounts
  <2>3. h[arena].allocations <= Alloc(h[arena], x).allocations
    BY <2>2, SMT
  <2> QED
    BY <1>2, <2>3, TotalMore
<1>4. PICK T : /\ Sound(g, T) /\ Within(S, T) /\ NextId(h[arena]) \in T[arena]
               /\ arena = "objects" /\ x \in ClosuresIn(S) => NextId(h[arena]) \in T.closures
  BY AllocSound
<1> HIDE DEF g
<1>5. Onward(h, g, S, T)
  BY <1>2, <1>3, <1>4 DEF Onward
<1> QED
  BY <1>4, <1>5 DEF g

\* An assignment.
LEMMA OnwardSet ==
    ASSUME NEW h, Shaped(h), NEW S, Sound(h, S), NEW arena \in Arenas \ {"objects"},
           NEW id \in S[arena], NEW x \in ThingsIn(S)[arena]
    PROVE  Onward(h, Changed(h, arena, SetSlot(h[arena], id, x)), S, S)
<1> DEFINE g == Changed(h, arena, SetSlot(h[arena], id, x))
<1>1. /\ Shaped(g) /\ Sound(g, S) /\ Within(Ranges(h), Ranges(g))
      /\ g[arena].allocations = h[arena].allocations
  BY SetSound
<1>2. g[arena] = SetSlot(h[arena], id, x)
  BY OneArena
<1>3. h[arena].allocations <= SetSlot(h[arena], id, x).allocations
  BY <1>1, <1>2, TotalIs, SMT
<1>4. TotalAllocations(h) <= TotalAllocations(g)
  BY <1>1, <1>3, TotalMore
<1> HIDE DEF g
<1>5. Onward(h, g, S, S)
  BY <1>1, <1>4, WithinIs DEF Onward
<1> QED
  BY <1>5 DEF g

-----------------------------------------------------------------------------
(* The chain of frames. *)

\* A frame going on elsewhere.
LEMMA Relinked ==
    ASSUME NEW S, NEW x \in KontsIn(S), NEW k \in S.conts
    PROVE  [x EXCEPT !.f.k = k] \in KontsIn(S)
<1> DEFINE f == [x.f EXCEPT !.k = k]
<1>1. /\ x.is \in {"Halt", "MemberK", "AssignVarK", "CalleeK", "ArgsK", "ReturnK", "ReturnExprK",
                   "ObjectK", "HandlerK", "PerformArgsK", "HandleWithK"}
      /\ x.f \in FrameFields(S)[x.is] /\ x = Thing(x.is, x.f)
  BY KontShape
<1>2. [x EXCEPT !.f.k = k] = Thing(x.is, f)
  <2>1. [x EXCEPT !.f.k = k] = [x EXCEPT !.f = f]
    OBVIOUS
  <2>2. ASSUME NEW is, NEW old, NEW new
        PROVE  [Thing(is, old) EXCEPT !.f = new] = Thing(is, new)
    BY DEF Thing
  <2> HIDE DEF f
  <2> QED
    BY <1>1, <2>1, <2>2
<1>3. f \in FrameFields(S)[x.is]
  <2>1. CASE x.is = "Halt"
    <3>1. x.f = <<>>
      BY <1>1, <2>1 DEF FrameFields
    <3>2. [<<>> EXCEPT !.k = k] = <<>>
      OBVIOUS
    <3> QED
      BY <2>1, <3>1, <3>2 DEF FrameFields
  <2>2. CASE x.is = "MemberK"
    BY <1>1, <2>2 DEF FrameFields
  <2>3. CASE x.is = "AssignVarK"
    BY <1>1, <2>3 DEF FrameFields
  <2>4. CASE x.is = "CalleeK"
    BY <1>1, <2>4 DEF FrameFields
  <2>5. CASE x.is = "ArgsK"
    BY <1>1, <2>5 DEF FrameFields
  <2>6. CASE x.is = "ReturnK"
    BY <1>1, <2>6 DEF FrameFields
  <2>7. CASE x.is = "ReturnExprK"
    BY <1>1, <2>7 DEF FrameFields
  <2>8. CASE x.is = "ObjectK"
    BY <1>1, <2>8 DEF FrameFields
  <2>9. CASE x.is = "HandlerK"
    BY <1>1, <2>9 DEF FrameFields
  <2>10. CASE x.is = "PerformArgsK"
    BY <1>1, <2>10 DEF FrameFields
  <2>11. CASE x.is = "HandleWithK"
    BY <1>1, <2>11 DEF FrameFields
  <2> HIDE DEF f
  <2> QED
    BY <1>1, <2>1, <2>2, <2>3, <2>4, <2>5, <2>6, <2>7, <2>8, <2>9, <2>10, <2>11
<1>4. x.is \in DOMAIN FrameFields(S)
  BY <1>1 DEF FrameFields
<1> HIDE DEF f
<1> QED
  BY <1>2, <1>3, <1>4, KontMade

\* Everything on the way up from a frame is a frame.
LEMMA ChainIs ==
    ASSUME NEW h, Shaped(h), NEW S, Sound(h, S), NEW k \in S.conts, NEW frames
    PROVE  /\ DOMAIN Chain(h.conts, k, frames) = 0 .. Len(h.conts.slots)
           /\ Len(h.conts.slots) \in Nat
           /\ \A n \in 0 .. Len(h.conts.slots) : Chain(h.conts, k, frames)[n] \in S.conts
<1> DEFINE conts == h.conts
           N == Len(conts.slots)
           Stays(i) == Slot(conts, i).is \in frames \cup {"Halt"}
           Next1(i) == IF Stays(i) THEN i ELSE Slot(conts, i).f.k
           Found(u) == u = [n \in 0 .. N |-> IF n = 0 THEN k ELSE Next1(u[n - 1])]
           g == CHOOSE u : Found(u)
           In == [n \in 0 .. N |-> S.conts]
           step == [p \in (1 .. N) \X S.conts |-> Next1(p[2])]
<1>0. /\ N \in Nat /\ 0 \in 0 .. N /\ N \in 0 .. N
      /\ \A n \in 1 .. N : n \in 0 .. N /\ n - 1 \in 0 .. N /\ n # 0
      /\ \A n \in 0 .. N : n # 0 => n \in 1 .. N
  <2>1. WellFormed(h.conts, ThingsIn(Ranges(h)).conts)
    BY DEF Shaped, Arenas
  <2>2. conts.slots \in Seq(ThingsIn(Ranges(h)).conts)
    BY <2>1 DEF WellFormed
  <2>3. N \in Nat
    BY <2>2
  <2> HIDE DEF N
  <2> QED
    BY <2>3, SMT
<1>1. \A i \in S.conts : Next1(i) \in S.conts
  <2> SUFFICES ASSUME NEW i \in S.conts, ~Stays(i) PROVE Slot(conts, i).f.k \in S.conts
    OBVIOUS
  <2>1. Slot(conts, i) \in KontsIn(S)
    BY DEF Sound, Arenas, ThingsIn
  <2> QED
    BY <2>1, KontFields
<1> HIDE DEF Stays
<1>2. ASSUME NEW n \in 1 .. N, NEW s \in In[n - 1]
      PROVE  step[<<n, s>>] = Next1(s) /\ Next1(s) \in In[n]
  BY <1>0, <1>1
<1> HIDE DEF step
<1>3. \A n \in 1 .. N : \A s \in In[n - 1] : step[<<n, s>>] \in In[n]
  BY <1>2
<1>4. PICK f : /\ f = [n \in 0 .. N |-> f[n]]
               /\ f[0] = k
               /\ \A n \in 1 .. N : f[n] = step[<<n, f[n - 1]>>]
               /\ \A n \in 0 .. N : f[n] \in In[n]
  <2>1. k \in In[0]
    BY <1>0
  <2> HIDE DEF N, In, Next1
  <2>2. \E f : Stepped(f, N, k, step, In)
    BY <1>0, <1>3, <2>1, StepByStep
  <2> QED
    BY <2>2 DEF Stepped
<1>5. \A n \in 1 .. N : f[n] = Next1(f[n - 1])
  BY <1>0, <1>2, <1>4
<1>6. Found(f)
  <2> HIDE DEF Next1, N
  <2>1. \A n \in 0 .. N : f[n] = IF n = 0 THEN k ELSE Next1(f[n - 1])
    BY <1>0, <1>4, <1>5
  <2> QED
    BY <1>4, <2>1, Zenon
<1>7. Found(g)
  <2> HIDE DEF Found
  <2> QED
    BY <1>6
<1> HIDE DEF g
<1>8. \A n \in 0 .. N : g[n] = IF n = 0 THEN k ELSE Next1(g[n - 1])
  <2> HIDE DEF Next1
  <2> QED
    BY <1>7
<1>9. \A n \in 0 .. N : g[n] \in S.conts
  <2> HIDE DEF Next1
  <2>1. f[0] = g[0]
    BY <1>0, <1>4, <1>8
  <2>2. \A n \in 1 .. N : f[n - 1] = g[n - 1] => f[n] = g[n]
    BY <1>0, <1>5, <1>8
  <2>3. \A n \in 0 .. N : f[n] \in S.conts
    BY <1>4
  <2> HIDE DEF N
  <2>4. \A n \in 0 .. N : f[n] = g[n]
    <3>1. Alike(N, f, g)
      BY <1>0, EachAlike
    <3> QED
      BY <2>1, <2>2, <3>1 DEF Alike
  <2> QED
    BY <2>3, <2>4
<1>10. Chain(h.conts, k, frames) = g
  BY DEF Chain, g, Stays
<1>11. DOMAIN g = 0 .. N
  BY <1>7
<1> HIDE DEF Found
<1> QED
  BY <1>0, <1>9, <1>10, <1>11

\* The nearest frame is a frame of the kind.
LEMMA NearestIs ==
    ASSUME NEW h, Shaped(h), NEW S, Sound(h, S), NEW k \in S.conts, NEW frames
    PROVE  LET at == Nearest(h.conts, k, frames) IN
           at = <<>> \/ (\E i \in S.conts : at = <<i>> /\ at[1] = i
               /\ Slot(h.conts, i).is \in frames)
<1> DEFINE last == Chain(h.conts, k, frames)[Len(h.conts.slots)]
<1>1. last \in S.conts
  <2>1. Len(h.conts.slots) \in 0 .. Len(h.conts.slots)
    BY ChainIs, SMT
  <2> QED
    BY <2>1, ChainIs
<1>2. Nearest(h.conts, k, frames) = IF Slot(h.conts, last).is \in frames THEN <<last>> ELSE <<>>
  BY DEF Nearest
<1> HIDE DEF last
<1> QED
  BY <1>1, <1>2

\* All the ids there could be, and the arenas of frames over them.
AllIds == [objects |-> Nat, closures |-> Nat, envs |-> Nat, conts |-> Nat, handlers |-> Nat]
AnyConts == [slots : Seq(KontsIn(AllIds)), free_list : Seq(Nat), allocations : Nat]

\* Ids are among all ids.
LEMMA AmongAll == ASSUME NEW S \in IdSets PROVE Within(S, AllIds)
  BY DEF IdSets, Within, AllIds

\* The continuation arena of a heap.
LEMMA ContsAre ==
    ASSUME NEW h, Shaped(h)
    PROVE  h.conts \in AnyConts
<1>1. WellFormed(h["conts"], ThingsIn(Ranges(h))["conts"])
  BY DEF Shaped, Arenas
<1>2. ThingsIn(Ranges(h))["conts"] \subseteq ThingsIn(AllIds)["conts"]
  BY RangesAre, AmongAll, ThingsMore DEF Arenas
<1>3. WellFormed(h.conts, KontsIn(AllIds))
  BY <1>1, <1>2, WellFormedMore DEF ThingsIn
<1> QED
  BY <1>3 DEF WellFormed, AnyConts

\* One arena changed twice, or not at all.
LEMMA ChangedAgain ==
    ASSUME NEW h, Shaped(h), NEW arena \in Arenas, NEW a, NEW b
    PROVE  /\ Changed(Changed(h, arena, a), arena, b) = Changed(h, arena, b)
           /\ Changed(h, arena, h[arena]) = h
           /\ Changed(h, arena, a)[arena] = a
<1> DEFINE r == [objects |-> h.objects, envs |-> h.envs, conts |-> h.conts, handlers |-> h.handlers]
<1>1. h = r
  BY DEF Shaped
<1>2. /\ [[r EXCEPT ![arena] = a] EXCEPT ![arena] = b] = [r EXCEPT ![arena] = b]
      /\ [r EXCEPT ![arena] = r[arena]] = r
      /\ [r EXCEPT ![arena] = a][arena] = a
  BY DEF Arenas
<1> HIDE DEF r
<1> QED
  BY <1>1, <1>2 DEF Changed

\* Copying one more frame.
LEMMA CopyStep ==
    ASSUME NEW h, Shaped(h), NEW S, Sound(h, S), NEW conts, NEW k, NEW T,
           Onward(h, Changed(h, "conts", conts), S, T), k \in T.conts,
           NEW frame \in KontsIn(S), NEW x, x = [frame EXCEPT !.f.k = k]
    PROVE  \E U : /\ Onward(h, Changed(h, "conts", Alloc(conts, x)), S, U)
                  /\ NextId(conts) \in U.conts
<1> DEFINE g == Changed(h, "conts", conts)
<1>0. "conts" \in Arenas
  BY DEF Arenas
<1>1. g.conts = conts /\ Shaped(g) /\ Sound(g, T) /\ Within(S, T)
  BY <1>0, OneArena DEF Onward
<1>2. Changed(g, "conts", Alloc(conts, x)) = Changed(h, "conts", Alloc(conts, x))
  BY <1>0, ChangedAgain
<1>3. x \in ThingsIn(T)["conts"]
  <2>1. frame \in KontsIn(T)
    BY <1>1, KontMore
  <2> QED
    BY <2>1, Relinked DEF ThingsIn
<1> HIDE DEF g
<1>4. PICK U : Onward(g, Changed(g, "conts", Alloc(g["conts"], x)), T, U)
               /\ NextId(g["conts"]) \in U["conts"]
  BY <1>0, <1>1, <1>3, OnwardAlloc
<1>5. Onward(h, Changed(h, "conts", Alloc(conts, x)), S, U)
  BY <1>1, <1>2, <1>4, OnwardThen DEF g
<1> QED
  BY <1>1, <1>4, <1>5

\* The copy of a captured chain leads on.
LEMMA RebasedIs ==
    ASSUME NEW h, Shaped(h), NEW S, Sound(h, S), NEW captured \in S.conts, NEW k \in S.conts
    PROVE  LET copy == Rebased(h.conts, captured, k) IN
           \E T : Onward(h, Changed(h, "conts", copy.conts), S, T) /\ copy.k \in T.conts
<1> DEFINE chain == Chain(h.conts, captured, {"HandlerK"})
           handlers == {n \in DOMAIN chain : Slot(h.conts, chain[n]).is = "HandlerK"}
           first == CHOOSE n \in handlers : \A m \in handlers : n <= m
           copy == Rebased(h.conts, captured, k)
<1>0. "conts" \in Arenas
  BY DEF Arenas
<1>1. /\ DOMAIN chain = 0 .. Len(h.conts.slots) /\ Len(h.conts.slots) \in Nat
      /\ \A n \in DOMAIN chain : chain[n] \in S.conts
  BY ChainIs
<1> HIDE DEF chain
<1>2. CASE handlers = {}
  <2>1. copy.conts = h.conts /\ copy.k = captured
    BY <1>2 DEF Rebased, chain
  <2>2. Changed(h, "conts", h.conts) = h
    BY <1>0, ChangedAgain
  <2>3. Onward(h, h, S, S)
    BY OnwardSelf
  <2> QED
    BY <2>1, <2>2, <2>3
<1>3. CASE handlers # {}
  <2>1. first \in handlers
    <3>1. handlers \subseteq Nat
      BY <1>1, SMT
    <3> HIDE DEF handlers
    <3>2. \E n \in handlers : \A m \in handlers : n <= m
      BY <1>3, <3>1, Least
    <3> QED
      BY <3>2
  <2>2. first \in Nat /\ \A n \in 1 .. first + 1 : first + 1 - n \in DOMAIN chain
    <3>1. first \in 0 .. Len(h.conts.slots)
      BY <1>1, <2>1
    <3> HIDE DEF first
    <3> QED
      BY <1>1, <3>1, SMT
  <2> DEFINE N == first + 1
             base == [conts |-> h.conts, k |-> k]
             FrameAt(n) == Slot(h.conts, chain[first + 1 - n])
             Next1(n, s) == [conts |-> Alloc(s.conts, [FrameAt(n) EXCEPT !.f.k = s.k]),
                             k |-> NextId(s.conts)]
             Copies(u) == u = [n \in 0 .. first + 1 |-> IF n = 0 THEN base ELSE Next1(n, u[n - 1])]
             g == CHOOSE u : Copies(u)
             States == [conts : AnyConts, k : Nat]
             Good == {s \in States : \E T : Onward(h, Changed(h, "conts", s.conts), S, T)
                                            /\ s.k \in T.conts}
             In == [n \in 0 .. N |-> Good]
             step == [p \in (1 .. N) \X Good |-> Next1(p[1], p[2])]
  <2>3. \A n \in 1 .. N : FrameAt(n) \in KontsIn(S)
    <3> SUFFICES ASSUME NEW n \in 1 .. N PROVE FrameAt(n) \in KontsIn(S)
      OBVIOUS
    <3>1. chain[first + 1 - n] \in S.conts
      BY <1>1, <2>2
    <3> QED
      BY <1>0, <3>1 DEF Sound, ThingsIn
  <2>4. copy = g[N]
    <3>1. copy = IF handlers = {} THEN [conts |-> h.conts, k |-> captured] ELSE g[N]
      BY Zenon DEF Rebased, chain
    <3> QED
      BY <1>3, <3>1
  <2> HIDE DEF first, FrameAt
  <2>5. /\ N \in Nat /\ 0 \in 0 .. N /\ N \in 0 .. N
        /\ \A n \in 1 .. N : n \in 0 .. N /\ n - 1 \in 0 .. N /\ n # 0
        /\ \A n \in 0 .. N : n # 0 => n \in 1 .. N
    BY <2>2, SMT
  <2>6. \A s \in States : \A T : Onward(h, Changed(h, "conts", s.conts), S, T) /\ s.k \in T.conts
                                 => s \in Good
    OBVIOUS
  <2>7. base \in Good
    <3>1. Changed(h, "conts", h.conts) = h /\ Onward(h, h, S, S)
      BY <1>0, ChangedAgain, OnwardSelf
    <3>2. base \in States /\ base.conts = h.conts /\ base.k = k
      BY ContsAre DEF Sound, IdSets
    <3> HIDE DEF Good, States, base
    <3> QED
      BY <2>6, <3>1, <3>2
  <2>8. ASSUME NEW n \in 1 .. N, NEW s \in Good PROVE Next1(n, s) \in Good
    <3>1. PICK T : Onward(h, Changed(h, "conts", s.conts), S, T) /\ s.k \in T.conts
      OBVIOUS
    <3> DEFINE x == [FrameAt(n) EXCEPT !.f.k = s.k]
    <3>2. PICK U : /\ Onward(h, Changed(h, "conts", Alloc(s.conts, x)), S, U)
                   /\ NextId(s.conts) \in U.conts
      BY <2>3, <3>1, CopyStep
    <3> DEFINE t == Next1(n, s)
    <3>3. t.conts = Alloc(s.conts, x) /\ t.k = NextId(s.conts)
      OBVIOUS
    <3>4. Alloc(s.conts, x) \in AnyConts /\ NextId(s.conts) \in Nat
      <4>1. Shaped(Changed(h, "conts", Alloc(s.conts, x))) /\ U \in IdSets
        BY <3>2 DEF Onward, Sound
      <4>2. Changed(h, "conts", Alloc(s.conts, x)).conts = Alloc(s.conts, x)
        BY <1>0, ChangedAgain
      <4> QED
        BY <3>2, <4>1, <4>2, ContsAre DEF IdSets
    <3>5. t \in States
      BY <3>4
    <3> HIDE DEF t, Good, States, x
    <3>6. t \in Good
      BY <2>6, <3>2, <3>3, <3>5
    <3> QED
      BY <3>6 DEF t
  <2> HIDE DEF Good
  <2>9. ASSUME NEW n \in 1 .. N, NEW s \in In[n - 1]
        PROVE  step[<<n, s>>] = Next1(n, s) /\ Next1(n, s) \in In[n]
    <3>1. s \in Good
      BY <2>5
    <3>2. Next1(n, s) \in Good
      BY <2>8, <3>1
    <3> QED
      BY <2>5, <3>1, <3>2
  <2> HIDE DEF step
  <2>10. \A n \in 1 .. N : \A s \in In[n - 1] : step[<<n, s>>] \in In[n]
    BY <2>9
  <2>11. PICK f : /\ f = [n \in 0 .. N |-> f[n]]
                  /\ f[0] = base
                  /\ \A n \in 1 .. N : f[n] = step[<<n, f[n - 1]>>]
                  /\ \A n \in 0 .. N : f[n] \in In[n]
    <3>1. base \in In[0]
      BY <2>5, <2>7
    <3> HIDE DEF N, In, Next1, base
    <3>2. \E f : Stepped(f, N, base, step, In)
      BY <2>5, <2>10, <3>1, StepByStep
    <3> QED
      BY <3>2 DEF Stepped
  <2> HIDE DEF Next1, base
  <2>12. \A n \in 1 .. N : f[n] = Next1(n, f[n - 1])
    BY <2>5, <2>9, <2>11
  <2>13. Copies(f)
    <3>1. \A n \in 0 .. N : f[n] = IF n = 0 THEN base ELSE Next1(n, f[n - 1])
      BY <2>5, <2>11, <2>12
    <3> QED
      BY <2>11, <3>1, Zenon
  <2>14. Copies(g)
    <3> HIDE DEF Copies
    <3> QED
      BY <2>13
  <2> HIDE DEF g
  <2>15. \A n \in 0 .. N : g[n] = IF n = 0 THEN base ELSE Next1(n, g[n - 1])
    BY <2>14
  <2>16. f[N] = g[N]
    <3>1. f[0] = g[0]
      BY <2>5, <2>11, <2>15
    <3>2. \A n \in 1 .. N : f[n - 1] = g[n - 1] => f[n] = g[n]
      BY <2>5, <2>12, <2>15
    <3> HIDE DEF N
    <3>3. \A n \in 0 .. N : f[n] = g[n]
      <4>1. Alike(N, f, g)
        BY <2>5, EachAlike
      <4> QED
        BY <3>1, <3>2, <4>1 DEF Alike
    <3> QED
      BY <2>5, <3>3
  <2>17. copy \in Good
    BY <2>4, <2>5, <2>11, <2>16
  <2> HIDE DEF copy
  <2>18. \E T : Onward(h, Changed(h, "conts", copy.conts), S, T) /\ copy.k \in T.conts
    BY <2>17 DEF Good
  <2> QED
    BY <2>18 DEF copy
<1> QED
  BY <1>2, <1>3

-----------------------------------------------------------------------------
(* The steps of the interpreter. *)

\* The registers hold what is in S.
Runs(S, ctl, e, k, gs) ==
    /\ ctl \in ControlsIn(S) /\ e \in S.envs /\ k \in S.conts /\ gs \in UpToOne(BindingsIn(S))

\* A step after which all that could be relied on still can be, and the registers
\* hold what can be relied on.
LeadsOn(S) == \E T : Onward(heap, heap', S, T) /\ Runs(T, control', env', cont', globals')

\* Where the machine is before a step.
Sane(S) == Shaped(heap) /\ Sound(heap, S) /\ Runs(S, control, env, cont, globals)

HeapOf(o, e, c, d) == [objects |-> o, envs |-> e, conts |-> c, handlers |-> d]

\* A record of arenas with another one.
LEMMA FourArenas ==
    ASSUME NEW o, NEW e, NEW c, NEW d, NEW a
    PROVE  /\ Changed(HeapOf(o, e, c, d), "objects", a) = HeapOf(a, e, c, d)
           /\ Changed(HeapOf(o, e, c, d), "envs", a) = HeapOf(o, a, c, d)
           /\ Changed(HeapOf(o, e, c, d), "conts", a) = HeapOf(o, e, a, d)
           /\ Changed(HeapOf(o, e, c, d), "handlers", a) = HeapOf(o, e, c, a)
<1>1. Changed(HeapOf(o, e, c, d), "objects", a) = HeapOf(a, e, c, d)
  BY DEF Changed, HeapOf
<1>2. Changed(HeapOf(o, e, c, d), "envs", a) = HeapOf(o, a, c, d)
  BY DEF Changed, HeapOf
<1>3. Changed(HeapOf(o, e, c, d), "conts", a) = HeapOf(o, e, a, d)
  BY DEF Changed, HeapOf
<1>4. Changed(HeapOf(o, e, c, d), "handlers", a) = HeapOf(o, e, c, a)
  BY DEF Changed, HeapOf
<1> QED
  BY <1>1, <1>2, <1>3, <1>4

\* A heap with new arenas, one after the other.
LEMMA ArenasChanged ==
    ASSUME NEW h, Shaped(h), NEW a, NEW b
    PROVE  /\ [h EXCEPT !.conts = a] = Changed(h, "conts", a)
           /\ [h EXCEPT !.objects = a] = Changed(h, "objects", a)
           /\ [h EXCEPT !.handlers = a] = Changed(h, "handlers", a)
           /\ [h EXCEPT !.conts = a, !.objects = b] = Changed(Changed(h, "conts", a), "objects", b)
           /\ [h EXCEPT !.conts = a, !.envs = b] = Changed(Changed(h, "conts", a), "envs", b)
           /\ Changed(h, "conts", a).conts = a /\ Changed(h, "conts", a).objects = h.objects
           /\ Changed(h, "conts", a).envs = h.envs /\ Changed(h, "conts", a).handlers = h.handlers
<1>1. [h EXCEPT !.conts = a] = Changed(h, "conts", a)
  BY DEF Changed
<1>2. [h EXCEPT !.objects = a] = Changed(h, "objects", a)
  BY DEF Changed
<1>3. [h EXCEPT !.handlers = a] = Changed(h, "handlers", a)
  BY DEF Changed
<1>4. [h EXCEPT !.conts = a, !.objects = b] = Changed(Changed(h, "conts", a), "objects", b)
  BY DEF Changed
<1>5. [h EXCEPT !.conts = a, !.envs = b] = Changed(Changed(h, "conts", a), "envs", b)
  BY DEF Changed
<1>7. /\ Changed(h, "conts", a).conts = a /\ Changed(h, "conts", a).objects = h.objects
      /\ Changed(h, "conts", a).envs = h.envs /\ Changed(h, "conts", a).handlers = h.handlers
  BY OneArena DEF Arenas
<1> QED
  BY <1>1, <1>2, <1>3, <1>4, <1>5, <1>7

\* Other frames and other environments.
Both(h, envs, conts) == [h EXCEPT !.envs = envs, !.conts = conts]

\* Both arenas changed is one changed after the other.
LEMMA BothChanged ==
    ASSUME NEW h, Shaped(h), NEW a, NEW b
    PROVE  Both(h, b, a) = Changed(Changed(h, "conts", a), "envs", b)
<1> DEFINE g == [h EXCEPT !.envs = b]
<1>3. Both(h, b, a) = [g EXCEPT !.conts = a]
  BY DEF Both
<1>4. g = Changed(h, "envs", b)
  BY DEF Changed
<1> HIDE DEF g
<1>1. Both(h, b, a) = Changed(Changed(h, "envs", b), "conts", a)
  BY <1>3, <1>4 DEF Changed
<1> DEFINE o == h.objects  e == h.envs  c == h.conts  d == h.handlers
<1>5. h = HeapOf(o, e, c, d)
  BY DEF Shaped, HeapOf
<1> HIDE DEF o, e, c, d
<1> QED
  BY <1>1, <1>5, FourArenas

\* An ordinary step.
LEMMA StepsLead ==
    ASSUME NEW S, Sane(S), NEW g, NEW T, Onward(heap, g, S, T),
           NEW ctl \in ControlsIn(T), NEW e \in T.envs, NEW k \in T.conts, Steps(g, ctl, e, k)
    PROVE  LeadsOn(S)
<1>1. globals \in UpToOne(BindingsIn(T))
  BY BindingsMore DEF Sane, Runs, Onward
<1> QED
  BY <1>1 DEF Steps, LeadsOn, Runs

\* Of the current frame, its Halt and the value given to it.
LEMMA FrameGiven ==
    ASSUME NEW S, Sane(S)
    PROVE  /\ Slot(heap.conts, cont) \in KontsIn(S)
           /\ Onward(heap, Changed(heap, "conts", Spent), S, S)
           /\ control.is \in {"Value", "Returning", "Halted"} => Given \in ValuesIn(S)
<1>1. Slot(heap.conts, cont) \in KontsIn(S)
  BY DEF Sane, Runs, Sound, Arenas, ThingsIn
<1>2. Halt \in KontsIn(S)
  <2>1. "Halt" \in DOMAIN FrameFields(S) /\ <<>> \in FrameFields(S)["Halt"]
    BY DEF FrameFields
  <2> QED
    BY <2>1, KontMade DEF Halt
<1>3. Onward(heap, Changed(heap, "conts", SetSlot(heap["conts"], cont, Halt)), S, S)
  <2>1. "conts" \in Arenas \ {"objects"} /\ Halt \in ThingsIn(S)["conts"] /\ cont \in S["conts"]
    BY <1>2 DEF Arenas, ThingsIn, Sane, Runs
  <2> QED
    BY <2>1, OnwardSet DEF Sane
<1>4. control.is \in {"Value", "Returning", "Halted"} => Given \in ValuesIn(S)
  BY ControlValues DEF Sane, Runs, Given
<1> QED
  BY <1>1, <1>3, <1>4 DEF Spent

\* What a name stands for.
LEMMA LookupIs ==
    ASSUME NEW S, Sane(S)
    PROVE  Lookup(env) \in ValuesIn(S)
<1> DEFINE at == Binder(heap.envs, env)
<1>1. /\ at \in UpToOne(S.envs)
      /\ at # <<>> => Slot(heap.envs, at[1]).f.bindings # <<>>
  BY BinderIs DEF Sane, Runs
<1> HIDE DEF at
<1>2. CASE at # <<>>
  <2> DEFINE x == Slot(heap.envs, at[1])
  <2>1. at[1] \in S.envs
    BY <1>1, <1>2, UpToOneIs
  <2>2. x \in EnvsIn(S)
    BY <2>1 DEF Sane, Sound, Arenas, ThingsIn
  <2>3. x.f.bindings # <<>>
    BY <1>1, <1>2
  <2> HIDE DEF x
  <2>4. x.f.bindings \in UpToOne(BindingsIn(S))
    BY <2>2, EnvShape
  <2>5. x.f.bindings[1] \in BindingsIn(S)
    BY <2>3, <2>4, UpToOneIs
  <2>6. x.f.bindings[1].f.value \in ValuesIn(S)
    BY <2>5, BindingValue
  <2> QED
    BY <1>2, <2>6 DEF Lookup, at, x
<1>3. CASE at = <<>> /\ globals # <<>>
  <2>1. globals[1] \in BindingsIn(S)
    BY <1>3, UpToOneIs DEF Sane, Runs
  <2> QED
    BY <1>3, <2>1, BindingValue DEF Lookup, at
<1>4. CASE at = <<>> /\ globals = <<>>
  BY <1>4, ValueMade DEF Lookup, at
<1> QED
  BY <1>2, <1>3, <1>4

\* A value in the control register.
LEMMA ValueOfIn == ASSUME NEW S, NEW v \in ValuesIn(S) PROVE ValueOf(v) \in ControlsIn(S)
  BY ControlMade DEF ValueOf

\* An allocation of one kind, in the arenas' own names.
LEMMA MoreObjects ==
    ASSUME NEW h, Shaped(h), NEW S, Sound(h, S), NEW x \in ObjectsIn(S)
    PROVE  \E T : /\ Onward(h, Changed(h, "objects", Alloc(h.objects, x)), S, T)
                  /\ NextId(h.objects) \in T.objects
                  /\ x \in ClosuresIn(S) => NextId(h.objects) \in T.closures
  BY OnwardAlloc DEF Arenas, ThingsIn

\* An environment allocated leads on, and its id is in use.
LEMMA MoreEnvs ==
    ASSUME NEW h, Shaped(h), NEW S, Sound(h, S), NEW x \in EnvsIn(S)
    PROVE  \E T : /\ Onward(h, Changed(h, "envs", Alloc(h.envs, x)), S, T)
                  /\ NextId(h.envs) \in T.envs
  BY OnwardAlloc DEF Arenas, ThingsIn

\* A frame allocated leads on, and its id is in use.
LEMMA MoreConts ==
    ASSUME NEW h, Shaped(h), NEW S, Sound(h, S), NEW x \in KontsIn(S)
    PROVE  \E T : /\ Onward(h, Changed(h, "conts", Alloc(h.conts, x)), S, T)
                  /\ NextId(h.conts) \in T.conts
  BY OnwardAlloc DEF Arenas, ThingsIn

\* A handler allocated leads on, and its id is in use.
LEMMA MoreHandlers ==
    ASSUME NEW h, Shaped(h), NEW S, Sound(h, S), NEW x \in HandlersIn(S)
    PROVE  \E T : /\ Onward(h, Changed(h, "handlers", Alloc(h.handlers, x)), S, T)
                  /\ NextId(h.handlers) \in T.handlers
  BY OnwardAlloc DEF Arenas, ThingsIn

\* What can be relied on still can be.
LEMMA StillIn ==
    ASSUME NEW S, NEW T, Within(S, T)
    PROVE  /\ \A v \in ValuesIn(S) : v \in ValuesIn(T)
           /\ \A e \in S.envs : e \in T.envs
           /\ \A k \in S.conts : k \in T.conts
           /\ \A c \in ControlsIn(S) : c \in ControlsIn(T)
<1>1. \A v \in ValuesIn(S) : v \in ValuesIn(T)
  BY ValueMore
<1>2. \A c \in ControlsIn(S) : c \in ControlsIn(T)
  BY ControlMore
<1> QED
  BY <1>1, <1>2 DEF Within

\* Evaluating a literal leads on to a sound heap.
LEMMA EvalLiteralLeads == ASSUME NEW S, Sane(S), EvalLiteral PROVE LeadsOn(S)
<1>1. Onward(heap, heap, S, S) /\ env \in S.envs /\ cont \in S.conts
  BY OnwardSelf DEF Sane, Runs
<1>2. /\ ValueOf(Undefined) \in ControlsIn(S) /\ ValueOf(Str(P)) \in ControlsIn(S)
      /\ \A n \in {0, 1} : ValueOf(IntValue(n)) \in ControlsIn(S)
  BY ValueMade, ValueOfIn DEF P
<1>3. PICK ctl \in ControlsIn(S) : Steps(heap, ctl, env, cont)
  BY <1>2 DEF EvalLiteral
<1> QED
  BY <1>1, <1>3, StepsLead

\* Evaluating an identifier leads on to a sound heap.
LEMMA EvalIdentifierLeads == ASSUME NEW S, Sane(S), EvalIdentifier PROVE LeadsOn(S)
<1>1. Onward(heap, heap, S, S) /\ env \in S.envs /\ cont \in S.conts
  BY OnwardSelf DEF Sane, Runs
<1>2. ValueOf(Lookup(env)) \in ControlsIn(S)
  BY LookupIs, ValueOfIn
<1>3. Steps(heap, ValueOf(Lookup(env)), env, cont)
  BY DEF EvalIdentifier
<1> QED
  BY <1>1, <1>2, <1>3, StepsLead

\* Evaluating a function leads on to a sound heap.
LEMMA EvalFunctionLeads == ASSUME NEW S, Sane(S), EvalFunction PROVE LeadsOn(S)
<1> DEFINE g == Changed(heap, "objects", Alloc(heap.objects, Closure(env)))
           ctl == ValueOf(Fun(NextId(heap.objects)))
<1>1. Shaped(heap) /\ Sound(heap, S) /\ env \in S.envs /\ cont \in S.conts
  BY DEF Sane, Runs
<1>2. Closure(env) \in ObjectsIn(S) /\ Closure(env) \in ClosuresIn(S)
  BY <1>1, ObjectsMade DEF ObjectMade
<1>3. PICK T : Onward(heap, g, S, T) /\ NextId(heap.objects) \in T.closures
  BY <1>1, <1>2, MoreObjects
<1>4. ctl \in ControlsIn(T) /\ env \in T.envs /\ cont \in T.conts
  BY <1>1, <1>3, ValueMade, ValueOfIn, StillIn DEF Onward
<1>5. Steps(g, ctl, env, cont)
  <2>1. [heap EXCEPT !.objects = Alloc(@, Closure(env))] = g
    BY DEF Changed
  <2> HIDE DEF g
  <2> QED
    BY <2>1 DEF EvalFunction
<1> HIDE DEF g, ctl
<1> QED
  BY <1>3, <1>4, <1>5, StepsLead

\* Evaluating a handler leads on to a sound heap.
LEMMA EvalHandlerLeads == ASSUME NEW S, Sane(S), EvalHandler PROVE LeadsOn(S)
<1> DEFINE x == Thing("Handler", [clauses_start |-> 0, clauses_count |-> 1, return_param |-> 0,
                                  return_body |-> 0, env |-> env])
           g == Changed(heap, "handlers", Alloc(heap.handlers, x))
           ctl == ValueOf(Thing("Handler", [h |-> NextId(heap.handlers)]))
<1>1. Shaped(heap) /\ Sound(heap, S) /\ env \in S.envs /\ cont \in S.conts
  BY DEF Sane, Runs
<1>2. x \in HandlersIn(S)
  BY <1>1 DEF HandlersIn
<1>3. Steps(g, ctl, env, cont)
  <2>1. [heap EXCEPT !.handlers = Alloc(@, x)] = g
    BY DEF Changed
  <2> HIDE DEF g
  <2> QED
    BY <2>1 DEF EvalHandler
<1> HIDE DEF x
<1>4. PICK T : Onward(heap, g, S, T) /\ NextId(heap.handlers) \in T.handlers
  BY <1>1, <1>2, MoreHandlers
<1>5. ctl \in ControlsIn(T) /\ env \in T.envs /\ cont \in T.conts
  BY <1>1, <1>4, ValueMade, ValueOfIn, StillIn DEF Onward
<1> HIDE DEF g, ctl
<1> QED
  BY <1>3, <1>4, <1>5, StepsLead

\* A frame is pushed onto the chain.
LEMMA PushesLead ==
    ASSUME NEW S, Sane(S), NEW conts, Onward(heap, Changed(heap, "conts", conts), S, S),
           NEW e \in S.envs, NEW frame \in KontsIn(S), Pushes(conts, e, frame)
    PROVE  LeadsOn(S)
<1> DEFINE f == Changed(heap, "conts", conts)
           g == Changed(f, "conts", Alloc(f.conts, frame))
<1>1. Shaped(heap) /\ Shaped(f) /\ Sound(f, S) /\ f.conts = conts
  BY ArenasChanged DEF Sane, Onward
<1>2. PICK T : Onward(f, g, S, T) /\ NextId(f.conts) \in T.conts
  <2> HIDE DEF f
  <2> QED
    BY <1>1, MoreConts
<1>3. Steps(g, SomeExpr, e, NextId(f.conts))
  <2>1. g = Changed(heap, "conts", Alloc(conts, frame))
    BY <1>1, ChangedAgain DEF Arenas
  <2>2. [heap EXCEPT !.conts = Alloc(conts, frame)] = Changed(heap, "conts", Alloc(conts, frame))
    BY DEF Changed
  <2> HIDE DEF f, g
  <2> QED
    BY <1>1, <2>1, <2>2 DEF Pushes
<1>4. SomeExpr \in ControlsIn(T) /\ e \in T.envs
  BY <1>2, ControlMade, StillIn DEF Onward
<1>5. Onward(heap, g, S, T)
  <2> HIDE DEF g
  <2> QED
    BY <1>1, <1>2, OnwardThen
<1> HIDE DEF f, g
<1> QED
  BY <1>2, <1>3, <1>4, <1>5, StepsLead

\* Nothing changed yet.
LEMMA NotYet ==
    ASSUME NEW S, Sane(S)
    PROVE  Onward(heap, Changed(heap, "conts", heap.conts), S, S)
<1>1. Changed(heap, "conts", heap["conts"]) = heap
  BY ChangedAgain DEF Sane, Arenas
<1>2. Onward(heap, heap, S, S)
  BY OnwardSelf DEF Sane
<1> QED
  BY <1>1, <1>2

\* Evaluating an operand leads on to a sound heap.
LEMMA EvalOperandLeads == ASSUME NEW S, Sane(S), EvalOperand PROVE LeadsOn(S)
<1> DEFINE given == [env |-> env, k |-> cont, property |-> P, name |-> X, done |-> <<>>,
                     props_count |-> 1, args_count |-> 1]
<1>1. PICK form \in {"AssignVarK", "ObjectK", "CalleeK", "HandleWithK", "MemberK"} :
        Pushes(heap.conts, env, Kont(form, given))
  BY DEF EvalOperand
<1>2. env \in S.envs /\ cont \in S.conts
  BY DEF Sane, Runs
<1>3. GivenIn(form, given, S)
  BY <1>1, <1>2 DEF GivenIn, P, X
<1> HIDE DEF given
<1>4. Kont(form, given) \in KontsIn(S)
  BY <1>3, FrameMade
<1> QED
  BY <1>1, <1>2, <1>4, NotYet, PushesLead

\* The fields of a handler's frame, and of any frame.
LEMMA FieldsIn ==
    ASSUME NEW S, NEW x \in KontsIn(S)
    PROVE  /\ x.is # "Halt" => x.f.k \in S.conts
           /\ x.is \notin {"Halt", "MemberK", "ReturnExprK"} => x.f.env \in S.envs
           /\ x.is = "ArgsK" => x.f.callee \in ValuesIn(S)
           /\ x.is = "PerformArgsK" => x.f.effect \in Nat
<1>1. x.is = "PerformArgsK" => x.f.effect \in Nat
  <2> SUFFICES ASSUME x.is = "PerformArgsK" PROVE x.f.effect \in Nat
    OBVIOUS
  <2>1. x.f \in FrameFields(S)[x.is]
    BY KontShape
  <2>2. x.f \in FrameFields(S).PerformArgsK
    BY <2>1
  <2> QED
    BY <2>2 DEF FrameFields
<1> QED
  BY <1>1, KontFields

\* An effect is performed: its handler's clause is next, or the runtime.
LEMMA PerformsLead ==
    ASSUME NEW S, Sane(S), NEW conts, Onward(heap, Changed(heap, "conts", conts), S, S),
           NEW effect \in Nat, NEW args \in UpToOne(ValuesIn(S)), NEW k \in S.conts,
           Performs(effect, args, conts, k)
    PROVE  LeadsOn(S)
<1> DEFINE g == Changed(heap, "conts", conts)
<1>1. Shaped(heap) /\ Shaped(g) /\ Sound(g, S) /\ g.conts = conts /\ g.envs = heap.envs
          /\ env \in S.envs
  BY ArenasChanged DEF Sane, Runs, Onward
<1>2. CASE effect # Ask
  <2>1. Steps([heap EXCEPT !.conts = conts], Thing("Suspend", [effect |-> effect, args |-> args]),
              env, k)
    BY <1>2 DEF Performs
  <2>2. [heap EXCEPT !.conts = conts] = g
    BY DEF Changed
  <2>3. Thing("Suspend", [effect |-> effect, args |-> args]) \in ControlsIn(S)
    BY ControlMade
  <2> HIDE DEF g
  <2> QED
    BY <1>1, <2>1, <2>2, <2>3, StepsLead DEF g
<1>3. CASE effect = Ask
  <2> DEFINE handler == Nearest(conts, k, {"HandlerK"})
             frame == Slot(conts, handler[1]).f
             resume == Thing("Continuation", [k |-> k, env |-> env])
             x == EnvWith(<<Binding(X, resume)>>, <<frame.env>>)
             f == Changed(g, "envs", Alloc(heap.envs, x))
  <2>1. handler # <<>>
        /\ Steps([heap EXCEPT !.conts = conts, !.envs = Alloc(@, x)], SomeExpr,
                 NextId(heap.envs), frame.k)
    BY <1>3 DEF Performs
  <2>2. [heap EXCEPT !.conts = conts, !.envs = Alloc(@, x)] = f
    <3> HIDE DEF x
    <3> QED
      BY DEF Changed
  <2>3. frame.env \in S.envs /\ frame.k \in S.conts
    <3>1. PICK i \in S.conts : handler[1] = i /\ Slot(conts, i).is \in {"HandlerK"}
      <4> HIDE DEF g
      <4>1. LET at == Nearest(g.conts, k, {"HandlerK"}) IN
            at = <<>> \/ (\E i \in S.conts : at = <<i>> /\ at[1] = i
                                            /\ Slot(g.conts, i).is \in {"HandlerK"})
        BY <1>1, NearestIs
      <4> QED
        BY <1>1, <2>1, <4>1
    <3>2. Slot(conts, i) \in KontsIn(S)
      <4> HIDE DEF g
      <4>1. Slot(g["conts"], i) \in ThingsIn(S)["conts"]
        BY <1>1, <3>1 DEF Sound, Arenas
      <4> QED
        BY <1>1, <4>1 DEF ThingsIn
    <3> HIDE DEF handler
    <3> QED
      BY <3>1, <3>2, FieldsIn
  <2> HIDE DEF frame
  <2>4. x \in EnvsIn(S)
    <3>1. resume \in ValuesIn(S)
      BY <1>1, ValueMade
    <3> HIDE DEF resume
    <3>2. Binding(X, resume) \in BindingsIn(S)
      BY <3>1 DEF BindingsIn
    <3>3. <<Binding(X, resume)>> \in UpToOne(BindingsIn(S)) /\ <<frame.env>> \in UpToOne(S.envs)
      BY <2>3, <3>2 DEF UpToOne
    <3> QED
      BY <3>3, EnvMade
  <2> HIDE DEF x, g
  <2>5. PICK T : Onward(g, f, S, T) /\ NextId(heap.envs) \in T.envs
    BY <1>1, <2>4, MoreEnvs
  <2> HIDE DEF f
  <2>6. SomeExpr \in ControlsIn(T) /\ frame.k \in T.conts
    BY <2>3, <2>5, ControlMade, StillIn DEF Onward
  <2>7. Onward(heap, f, S, T)
    BY <1>1, <2>5, OnwardThen DEF g
  <2> QED
    BY <2>1, <2>2, <2>5, <2>6, <2>7, StepsLead
<1> QED
  BY <1>2, <1>3

\* Performing an effect leads on to a sound heap.
LEMMA EvalPerformLeads ==
    ASSUME NEW S, Sane(S), family \in Families, EvalPerform
    PROVE  LeadsOn(S)
<1>1. env \in S.envs /\ cont \in S.conts
  BY DEF Sane, Runs
<1>2. ASSUME NEW effect \in family.effects \cap {Ask, Gc}, Performs(effect, <<>>, heap.conts, cont)
      PROVE  LeadsOn(S)
  <2>1. effect \in Nat /\ <<>> \in UpToOne(ValuesIn(S))
    BY FamiliesAssumption DEF UpToOne
  <2> QED
    BY <1>1, <1>2, <2>1, NotYet, PerformsLead
<1>3. ASSUME NEW effect \in family.effects \ {Ask, Gc},
             Pushes(heap.conts, env,
                   Kont("PerformArgsK", [effect |-> effect, done |-> <<>>, args_idx |-> 1,
                                         args_count |-> 1, env |-> env, k |-> cont]))
      PROVE  LeadsOn(S)
  <2> DEFINE given == [effect |-> effect, done |-> <<>>, args_idx |-> 1, args_count |-> 1,
                       env |-> env, k |-> cont]
  <2>1. effect \in Nat
    BY FamiliesAssumption
  <2>2. GivenIn("PerformArgsK", given, S)
    BY <1>1, <2>1 DEF GivenIn
  <2> HIDE DEF given
  <2>3. Kont("PerformArgsK", given) \in KontsIn(S)
    BY <2>2, FrameMade
  <2>4. Pushes(heap.conts, env, Kont("PerformArgsK", given))
    BY <1>3 DEF given
  <2> QED
    BY <1>1, <2>3, <2>4, NotYet, PushesLead
<1> QED
  BY <1>2, <1>3 DEF EvalPerform

-----------------------------------------------------------------------------

\* The last frame leads on to a sound heap.
LEMMA ApplyHaltLeads == ASSUME NEW S, Sane(S), ApplyHalt PROVE LeadsOn(S)
<1>1. Onward(heap, heap, S, S) /\ env \in S.envs /\ cont \in S.conts
  BY OnwardSelf DEF Sane, Runs
<1>2. Given \in ValuesIn(S)
  BY FrameGiven DEF ApplyHalt, Applies
<1>3. Thing("Halted", [v |-> Given]) \in ControlsIn(S)
  BY <1>2, ControlMade
<1>4. Steps(heap, Thing("Halted", [v |-> Given]), env, cont)
  BY DEF ApplyHalt
<1> QED
  BY <1>1, <1>3, <1>4, StepsLead

\* The frame is taken and the machine goes on with the heap as it is.
LEMMA SpentLead ==
    ASSUME NEW S, Sane(S), NEW ctl \in ControlsIn(S), NEW e \in S.envs, NEW k \in S.conts,
           Steps([heap EXCEPT !.conts = Spent], ctl, e, k)
    PROVE  LeadsOn(S)
<1>1. [heap EXCEPT !.conts = Spent] = Changed(heap, "conts", Spent)
  BY DEF Changed
<1> QED
  BY <1>1, FrameGiven, StepsLead

\* Of the frame a step takes.
LEMMA TakenFrame ==
    ASSUME NEW S, Sane(S), NEW is, Applies(is)
    PROVE  /\ is # "Halt" => Frame.k \in S.conts
           /\ is \notin {"Halt", "MemberK", "ReturnExprK"} => Frame.env \in S.envs
           /\ is = "ArgsK" => Frame.callee \in ValuesIn(S)
           /\ is = "PerformArgsK" => Frame.effect \in Nat
           /\ Given \in ValuesIn(S) /\ control \in ControlsIn(S) /\ env \in S.envs
                  /\ cont \in S.conts
<1> DEFINE x == Slot(heap.conts, cont)
<1>1. x \in KontsIn(S) /\ x.is = is /\ control.is = "Value"
  BY FrameGiven DEF Applies
<1>2. Given \in ValuesIn(S)
  BY <1>1, FrameGiven
<1>3. Frame = x.f
  BY DEF Frame
<1> HIDE DEF x
<1> QED
  BY <1>1, <1>2, <1>3, FieldsIn DEF Sane, Runs

\* Returning from an expression frame leads on to a sound heap.
LEMMA ApplyReturnExprLeads == ASSUME NEW S, Sane(S), ApplyReturnExpr PROVE LeadsOn(S)
<1>1. Applies("ReturnExprK")
      /\ Steps([heap EXCEPT !.conts = Spent], Thing("Returning", [v |-> Given]), env, Frame.k)
  BY DEF ApplyReturnExpr
<1>2. Given \in ValuesIn(S) /\ env \in S.envs /\ Frame.k \in S.conts
  BY <1>1, TakenFrame
<1>3. Thing("Returning", [v |-> Given]) \in ControlsIn(S)
  BY <1>2, ControlMade
<1> QED
  BY <1>1, <1>2, <1>3, SpentLead

\* The frame of a return leads on to a sound heap.
LEMMA ApplyReturnLeads == ASSUME NEW S, Sane(S), ApplyReturn PROVE LeadsOn(S)
<1>1. Applies("ReturnK") /\ Steps([heap EXCEPT !.conts = Spent], control, Frame.env, Frame.k)
  BY DEF ApplyReturn
<1>2. control \in ControlsIn(S) /\ Frame.env \in S.envs /\ Frame.k \in S.conts
  BY <1>1, TakenFrame
<1> QED
  BY <1>1, <1>2, SpentLead

\* The frame of a handler leads on to a sound heap.
LEMMA ApplyHandlerLeads == ASSUME NEW S, Sane(S), ApplyHandler PROVE LeadsOn(S)
<1>1. Applies("HandlerK") /\ Steps([heap EXCEPT !.conts = Spent], control, env, Frame.k)
  BY DEF ApplyHandler
<1>2. control \in ControlsIn(S) /\ env \in S.envs /\ Frame.k \in S.conts
  BY <1>1, TakenFrame
<1> QED
  BY <1>1, <1>2, SpentLead

\* The frame of a member leads on to a sound heap.
LEMMA ApplyMemberLeads == ASSUME NEW S, Sane(S), ApplyMember PROVE LeadsOn(S)
<1> DEFINE props == IF Given.is = "Object" THEN Slot(heap.objects, Given.f.o).f.properties ELSE <<>>
           v == IF props = <<>> THEN Undefined ELSE props[1].f.value
<1>1. Applies("MemberK") /\ Steps([heap EXCEPT !.conts = Spent], ValueOf(v), env, Frame.k)
  BY DEF ApplyMember
<1>2. Given \in ValuesIn(S) /\ env \in S.envs /\ Frame.k \in S.conts
  BY <1>1, TakenFrame
<1>3. v \in ValuesIn(S)
  <2>1. CASE Given.is = "Object"
    <3> DEFINE x == Slot(heap.objects, Given.f.o)
    <3>1. Given.f.o \in S.objects
      BY <1>2, <2>1, ValueShape
    <3>2. x \in ObjectsIn(S)
      BY <3>1 DEF Sane, Sound, Arenas, ThingsIn
    <3>3. CASE \E w \in ValuesIn(S) : x = ObjectWith(w)
      <4>1. PICK w \in ValuesIn(S) : x = ObjectWith(w)
        BY <3>3
      <4>2. props = ObjectWith(w).f.properties
        BY <2>1, <4>1
      <4>3. props # <<>> /\ props[1].f.value = w
        <5> HIDE DEF props
        <5> QED
          BY <4>2 DEF ObjectWith, Thing
      <4> QED
        BY <4>1, <4>3
    <3>4. CASE \E e \in S.envs : x = Closure(e)
      <4>1. PICK e \in S.envs : x = Closure(e)
        BY <3>4
      <4>2. props = <<>>
        BY <2>1, <4>1 DEF Closure, Thing
      <4> QED
        BY <4>2, ValueMade
    <3> QED
      BY <3>2, <3>3, <3>4, ObjectShape
  <2>2. CASE Given.is # "Object"
    BY <2>2, ValueMade
  <2> QED
    BY <2>1, <2>2
<1> HIDE DEF v
<1> QED
  BY <1>1, <1>2, <1>3, ValueOfIn, SpentLead

\* The frame of an object leads on to a sound heap.
LEMMA ApplyObjectLeads == ASSUME NEW S, Sane(S), ApplyObject PROVE LeadsOn(S)
<1> DEFINE f == Changed(heap, "conts", Spent)
           g == Changed(f, "objects", Alloc(heap.objects, ObjectWith(Given)))
           ctl == ValueOf(Obj(NextId(heap.objects)))
<1>1. Applies("ObjectK")
      /\ Steps([heap EXCEPT !.conts = Spent, !.objects = Alloc(@, ObjectWith(Given))],
               ctl, env, Frame.k)
  BY DEF ApplyObject
<1>2. Given \in ValuesIn(S) /\ env \in S.envs /\ Frame.k \in S.conts
  BY <1>1, TakenFrame
<1>3. [heap EXCEPT !.conts = Spent, !.objects = Alloc(@, ObjectWith(Given))] = g
  BY DEF Changed
<1>4. Shaped(heap) /\ Shaped(f) /\ Sound(f, S) /\ f.objects = heap.objects /\ Onward(heap, f, S, S)
  BY FrameGiven, ArenasChanged DEF Sane, Onward
<1> HIDE DEF f
<1>5. PICK T : Onward(f, g, S, T) /\ NextId(heap.objects) \in T.objects
  <2>1. ObjectWith(Given) \in ObjectsIn(S)
    BY <1>2, ObjectsMade DEF ObjectMade
  <2> QED
    BY <1>4, <2>1, MoreObjects
<1>6. ctl \in ControlsIn(T) /\ env \in T.envs /\ Frame.k \in T.conts
  BY <1>2, <1>5, ValueMade, ValueOfIn, StillIn DEF Onward
<1> HIDE DEF g, ctl
<1>7. Onward(heap, g, S, T)
  BY <1>4, <1>5, OnwardThen
<1> QED
  BY <1>1, <1>3, <1>6, <1>7, StepsLead

\* The frame of a callee leads on to a sound heap.
LEMMA ApplyCalleeLeads == ASSUME NEW S, Sane(S), ApplyCallee PROVE LeadsOn(S)
<1> DEFINE given == [callee |-> Given, done |-> <<>>, args_idx |-> 1, args_count |-> 1,
                     env |-> Frame.env, k |-> Frame.k]
<1>1. Applies("CalleeK") /\ Pushes(Spent, Frame.env, Kont("ArgsK", given))
  BY DEF ApplyCallee
<1>2. Given \in ValuesIn(S) /\ Frame.env \in S.envs /\ Frame.k \in S.conts
  BY <1>1, TakenFrame
<1>3. GivenIn("ArgsK", given, S)
  BY <1>2 DEF GivenIn
<1> HIDE DEF given
<1>4. Kont("ArgsK", given) \in KontsIn(S)
  BY <1>3, FrameMade
<1> QED
  BY <1>1, <1>2, <1>4, FrameGiven, PushesLead

\* The frame of a handle-with leads on to a sound heap.
LEMMA ApplyHandleWithLeads == ASSUME NEW S, Sane(S), ApplyHandleWith PROVE LeadsOn(S)
<1> DEFINE e == Slot(heap.handlers, Given.f.h).f.env
           given == [clauses_count |-> 1, env |-> e, k |-> Frame.k]
<1>1. Applies("HandleWithK") /\ Given.is = "Handler"
      /\ Pushes(Spent, Frame.env, Kont("HandlerK", given))
  BY DEF ApplyHandleWith
<1>2. Given \in ValuesIn(S) /\ Frame.env \in S.envs /\ Frame.k \in S.conts
  BY <1>1, TakenFrame
<1>3. e \in S.envs
  <2>1. Given.f.h \in S.handlers
    BY <1>1, <1>2, ValueShape
  <2>2. Slot(heap.handlers, Given.f.h) \in HandlersIn(S)
    BY <2>1 DEF Sane, Sound, Arenas, ThingsIn
  <2> QED
    BY <2>2, HandlerShape
<1> HIDE DEF e
<1>4. GivenIn("HandlerK", given, S)
  BY <1>2, <1>3 DEF GivenIn
<1> HIDE DEF given
<1>5. Kont("HandlerK", given) \in KontsIn(S)
  BY <1>4, FrameMade
<1> QED
  BY <1>1, <1>2, <1>5, FrameGiven, PushesLead

\* The frame of the arguments of a perform leads on to a sound heap.
LEMMA ApplyPerformArgsLeads == ASSUME NEW S, Sane(S), ApplyPerformArgs PROVE LeadsOn(S)
<1>1. Applies("PerformArgsK") /\ Performs(Frame.effect, <<Given>>, Spent, Frame.k)
  BY DEF ApplyPerformArgs
<1>2. Given \in ValuesIn(S) /\ Frame.effect \in Nat /\ Frame.k \in S.conts
  BY <1>1, TakenFrame
<1>3. <<Given>> \in UpToOne(ValuesIn(S))
  BY <1>2 DEF UpToOne
<1> QED
  BY <1>1, <1>2, <1>3, FrameGiven, PerformsLead

\* Unwinding to the frame of a call leads on to a sound heap.
LEMMA ReturnLeads == ASSUME NEW S, Sane(S), Return PROVE LeadsOn(S)
<1> DEFINE at == Nearest(heap.conts, cont, {"ReturnK"})
           frame == Slot(heap.conts, at[1]).f
<1>1. control.is = "Returning" /\ Given \in ValuesIn(S)
  BY FrameGiven DEF Return
<1>2. Onward(heap, heap, S, S) /\ env \in S.envs /\ cont \in S.conts /\ Shaped(heap)
          /\ Sound(heap, S)
  BY OnwardSelf DEF Sane, Runs
<1>3. CASE at = <<>>
  <2>1. Steps(heap, Thing("Halted", [v |-> Given]), env, cont)
    BY <1>3 DEF Return
  <2>2. Thing("Halted", [v |-> Given]) \in ControlsIn(S)
    BY <1>1, ControlMade
  <2> QED
    BY <1>2, <2>1, <2>2, StepsLead
<1>4. CASE at # <<>>
  <2>1. Steps(heap, ValueOf(Given), frame.env, frame.k)
    BY <1>4 DEF Return
  <2>2. PICK i \in S.conts : at[1] = i /\ Slot(heap.conts, i).is \in {"ReturnK"}
    BY <1>2, <1>4, NearestIs
  <2>3. Slot(heap.conts, i) \in KontsIn(S)
    BY <1>2 DEF Sound, Arenas, ThingsIn
  <2> HIDE DEF at
  <2>4. frame.env \in S.envs /\ frame.k \in S.conts
    BY <2>2, <2>3, FieldsIn
  <2> QED
    BY <1>1, <1>2, <2>1, <2>4, ValueOfIn, StepsLead
<1> QED
  BY <1>3, <1>4

\* An environment bound anew.
LEMMA Rebound ==
    ASSUME NEW a, NEW i, NEW bindings, NEW parent, NEW new, Slot(a, i) = EnvWith(bindings, parent)
    PROVE  [a EXCEPT !.slots[i + 1].f.bindings = new] = SetSlot(a, i, EnvWith(new, parent))
<1> DEFINE x == a.slots[i + 1]
           y == [x EXCEPT !.f.bindings = new]
<1>1. [a EXCEPT !.slots[i + 1].f.bindings = new] = [a EXCEPT !.slots[i + 1] = y]
  OBVIOUS
<1>2. x = EnvWith(bindings, parent)
  BY DEF Slot
<1>3. y = EnvWith(new, parent)
  <2> HIDE DEF x
  <2> DEFINE f == [x.f EXCEPT !.bindings = new]
  <2>1. x = [is |-> "Env", f |-> [bindings |-> bindings, parent |-> parent]]
    BY <1>2 DEF EnvWith, Thing
  <2>2. y = [x EXCEPT !.f = f]
    OBVIOUS
  <2>3. f = [bindings |-> new, parent |-> parent]
    BY <2>1
  <2> HIDE DEF y, f
  <2>4. y = [is |-> "Env", f |-> f]
    BY <2>1, <2>2
  <2> QED
    BY <2>3, <2>4 DEF EnvWith, Thing
<1> HIDE DEF y
<1> QED
  BY <1>1, <1>3 DEF SetSlot

\* The frame of an assignment leads on to a sound heap.
LEMMA ApplyAssignVarLeads == ASSUME NEW S, Sane(S), ApplyAssignVar PROVE LeadsOn(S)
<1> DEFINE at == Binder(heap.envs, Frame.env)
           f == Changed(heap, "conts", Spent)
           new == <<Binding(X, Given)>>
<1>1. /\ Applies("AssignVarK")
      /\ heap' = [heap EXCEPT !.conts = Spent,
                              !.envs = IF at = <<>> THEN @
                                       ELSE [@ EXCEPT !.slots[at[1] + 1].f.bindings = new]]
      /\ globals' = IF at = <<>> THEN new ELSE globals
      /\ cont' = Frame.k /\ control' = control /\ env' = env
  BY DEF ApplyAssignVar
<1>2. /\ Given \in ValuesIn(S) /\ env \in S.envs /\ Frame.k \in S.conts /\ Frame.env \in S.envs
      /\ control \in ControlsIn(S) /\ globals \in UpToOne(BindingsIn(S))
  BY <1>1, TakenFrame DEF Sane, Runs
<1>3. new \in UpToOne(BindingsIn(S))
  BY <1>2 DEF BindingsIn, UpToOne
<1>4. /\ Shaped(heap) /\ Sound(heap, S) /\ Onward(heap, f, S, S) /\ Shaped(f) /\ Sound(f, S)
      /\ f.envs = heap.envs
  BY FrameGiven, ArenasChanged DEF Sane, Onward
<1>5. /\ at \in UpToOne(S.envs)
      /\ at # <<>> => Slot(heap.envs, at[1]).f.bindings # <<>>
  BY <1>2, <1>4, BinderIs
<1> HIDE DEF at, new
<1>6. CASE at = <<>>
  <2>1. heap' = f
    <3>1. [heap EXCEPT !.conts = Spent, !.envs = @] = Changed(f, "envs", f["envs"])
      BY DEF Changed
    <3>2. Changed(f, "envs", f["envs"]) = f
      <4> HIDE DEF f
      <4> QED
        BY <1>4, ChangedAgain DEF Arenas
    <3>3. heap' = [heap EXCEPT !.conts = Spent, !.envs = @]
      BY <1>1, <1>6
    <3> HIDE DEF f
    <3> QED
      BY <3>1, <3>2, <3>3
  <2> HIDE DEF f
  <2> QED
    BY <1>1, <1>2, <1>3, <1>4, <1>6, <2>1 DEF LeadsOn, Runs
<1>7. CASE at # <<>>
  <2> DEFINE i == at[1]
             x == Slot(heap.envs, i)
             y == EnvWith(new, x.f.parent)
             g == Changed(f, "envs", SetSlot(f["envs"], i, y))
  <2>1. i \in S.envs
    BY <1>5, <1>7, UpToOneIs
  <2>2. x \in EnvsIn(S)
    BY <1>4, <2>1 DEF Sound, Arenas, ThingsIn
  <2>3. x.f.parent \in UpToOne(S.envs) /\ x = EnvWith(x.f.bindings, x.f.parent)
    <3> HIDE DEF x
    <3> QED
      BY <2>2, EnvShape
  <2>4. y \in EnvsIn(S)
    BY <1>3, <2>3, EnvMade
  <2>5. [heap.envs EXCEPT !.slots[i + 1].f.bindings = new] = SetSlot(heap.envs, i, y)
    <3> DEFINE p == x.f.parent  b == x.f.bindings  a == heap.envs
    <3>1. Slot(a, i) = EnvWith(b, p)
      BY <2>3
    <3> HIDE DEF p, b, a, i, x
    <3>2. [a EXCEPT !.slots[i + 1].f.bindings = new] = SetSlot(a, i, EnvWith(new, p))
      BY <3>1, Rebound
    <3> QED
      BY <3>2 DEF p, a
  <2>6. heap' = g
    <3> DEFINE q == [heap.envs EXCEPT !.slots[i + 1].f.bindings = new]
    <3>1. heap' = [heap EXCEPT !.conts = Spent, !.envs = q]
      <4>1. heap' = [heap EXCEPT !.conts = Spent, !.envs
                = [@ EXCEPT !.slots[i + 1].f.bindings = new]]
        BY <1>1, <1>7
      <4> QED
        BY <4>1
    <3>2. [heap EXCEPT !.conts = Spent, !.envs = q] = Changed(f, "envs", q)
      <4> HIDE DEF q
      <4> QED
        BY DEF Changed
    <3>3. q = SetSlot(f["envs"], i, y)
      BY <1>4, <2>5
    <3> HIDE DEF q, f
    <3> QED
      BY <3>1, <3>2, <3>3
  <2>7. Onward(f, g, S, S)
    <3> HIDE DEF f, y, i
    <3>1. "envs" \in Arenas \ {"objects"} /\ y \in ThingsIn(S)["envs"] /\ i \in S["envs"]
      BY <2>1, <2>4 DEF Arenas, ThingsIn
    <3> QED
      BY <1>4, <3>1, OnwardSet
  <2> HIDE DEF f, g
  <2>8. Onward(heap, g, S, S)
    BY <1>4, <2>7, OnwardThen
  <2> QED
    BY <1>1, <1>2, <1>7, <2>6, <2>8 DEF LeadsOn, Runs
<1> QED
  BY <1>6, <1>7

\* A heap with other frames.
LEMMA ContsChanged ==
    ASSUME NEW h, Shaped(h), NEW a
    PROVE  /\ Changed(h, "conts", a).conts = a /\ Changed(h, "conts", a).objects = h.objects
           /\ Changed(h, "conts", a).envs = h.envs /\ Changed(h, "conts", a).handlers = h.handlers
  BY ArenasChanged

\* A closure is called.
LEMMA CalledLeads ==
    ASSUME NEW S, Sane(S), NEW o \in S.closures, NEW arg \in ValuesIn(S), NEW k \in S.conts,
           Called(Spent, o, arg, k)
    PROVE  LeadsOn(S)
<1> DEFINE e == Slot(heap.objects, o).f.kind.f.env
           first == Kont("ReturnK", [env |-> env, k |-> k])
           returning == Alloc(Spent, first)
           second == Kont("ReturnExprK", [k |-> NextId(Spent)])
           conts == Alloc(returning, second)
           x == EnvWith(<<Binding(X, arg)>>, <<e>>)
           h1 == Changed(heap, "conts", Spent)
           h2 == Changed(heap, "conts", returning)
           h3 == Changed(heap, "conts", conts)
           h4 == Changed(h3, "envs", Alloc(heap.envs, x))
<1>1. Steps([heap EXCEPT !.envs = Alloc(@, x), !.conts = conts], SomeExpr, NextId(heap.envs),
            NextId(returning))
  BY DEF Called
<1>2. Shaped(heap) /\ Sound(heap, S) /\ env \in S.envs /\ Onward(heap, h1, S, S)
  BY FrameGiven DEF Sane, Runs
<1>3. e \in S.envs
  <2>1. Slot(heap.objects, o) \in ClosuresIn(S)
    BY <1>2 DEF Sound
  <2>2. PICK c \in S.envs : Slot(heap.objects, o) = Closure(c)
    BY <2>1 DEF ClosuresIn
  <2>3. e = c
    BY <2>2 DEF Closure, Thing
  <2> QED
    BY <2>3
<1> HIDE DEF e
<1>4. /\ h1.conts = Spent /\ Changed(h1, "conts", returning) = h2
      /\ h2.conts = returning /\ Changed(h2, "conts", conts) = h3
      /\ h3.envs = heap.envs
  <2> HIDE DEF conts, returning
  <2>1. h1.conts = Spent /\ h2.conts = returning /\ h3.envs = heap.envs
    BY <1>2, ContsChanged
  <2>2. Changed(h1, "conts", returning) = h2
    BY <1>2, ChangedAgain DEF Arenas
  <2>3. Changed(h2, "conts", conts) = h3
    BY <1>2, ChangedAgain DEF Arenas
  <2> QED
    BY <2>1, <2>2, <2>3
<1>5. [heap EXCEPT !.envs = Alloc(@, x), !.conts = conts] = h4
  <2> DEFINE b == Alloc(heap.envs, x)
  <2> HIDE DEF conts, x
  <2>1. [heap EXCEPT !.envs = Alloc(@, x), !.conts = conts] = Both(heap, b, conts)
    BY Zenon DEF Both
  <2> HIDE DEF b
  <2>2. Both(heap, b, conts) = Changed(Changed(heap, "conts", conts), "envs", b)
    BY <1>2, BothChanged
  <2> QED
    BY <2>1, <2>2 DEF b
<1>6. first \in KontsIn(S)
  <2> DEFINE given == [env |-> env, k |-> k]
  <2>1. GivenIn("ReturnK", given, S)
    BY <1>2 DEF GivenIn
  <2> HIDE DEF given
  <2>2. Kont("ReturnK", given) \in KontsIn(S)
    BY <2>1, FrameMade
  <2> QED
    BY <2>2 DEF given
<1> HIDE DEF first, x
<1>7. Shaped(h1) /\ Sound(h1, S)
  BY <1>2 DEF Onward
<1> HIDE DEF h1, h4
<1>8. PICK T : Onward(h1, h2, S, T) /\ NextId(Spent) \in T.conts
  <2>1. \E T : /\ Onward(h1, Changed(h1, "conts", Alloc(h1.conts, first)), S, T)
               /\ NextId(h1.conts) \in T.conts
    BY <1>6, <1>7, MoreConts
  <2> HIDE DEF h2
  <2> QED
    BY <1>4, <2>1
<1>9. second \in KontsIn(T)
  <2> DEFINE given == [k |-> NextId(Spent)]
  <2>1. GivenIn("ReturnExprK", given, T)
    BY <1>8 DEF GivenIn
  <2> HIDE DEF given
  <2>2. Kont("ReturnExprK", given) \in KontsIn(T)
    BY <2>1, FrameMade
  <2> QED
    BY <2>2 DEF given
<1> HIDE DEF second, returning
<1>10. Shaped(h2) /\ Sound(h2, T) /\ Within(S, T)
  BY <1>8 DEF Onward
<1> HIDE DEF h2
<1>11. PICK U : Onward(h2, h3, T, U) /\ NextId(returning) \in U.conts
  <2>1. \E U : /\ Onward(h2, Changed(h2, "conts", Alloc(h2.conts, second)), T, U)
               /\ NextId(h2.conts) \in U.conts
    BY <1>9, <1>10, MoreConts
  <2> HIDE DEF h3
  <2> QED
    BY <1>4, <2>1 DEF conts
<1> HIDE DEF conts
<1>12. Shaped(h3) /\ Sound(h3, U) /\ Within(T, U) /\ Within(S, U)
  BY <1>10, <1>11, WithinIs DEF Onward
<1>13. x \in EnvsIn(U)
  <2>1. arg \in ValuesIn(U) /\ e \in U.envs
    BY <1>3, <1>12, StillIn
  <2>2. <<Binding(X, arg)>> \in UpToOne(BindingsIn(U)) /\ <<e>> \in UpToOne(U.envs)
    BY <2>1 DEF BindingsIn, UpToOne
  <2> QED
    BY <2>2, EnvMade DEF x
<1> HIDE DEF h3
<1>14. PICK V : Onward(h3, h4, U, V) /\ NextId(heap.envs) \in V.envs
  <2>1. \E V : /\ Onward(h3, Changed(h3, "envs", Alloc(h3.envs, x)), U, V)
               /\ NextId(h3.envs) \in V.envs
    BY <1>12, <1>13, MoreEnvs
  <2> QED
    BY <1>4, <2>1 DEF h4
<1>15. SomeExpr \in ControlsIn(V) /\ NextId(returning) \in V.conts
  BY <1>11, <1>14, ControlMade, StillIn DEF Onward
<1>16. Onward(heap, h4, S, V)
  <2>1. Onward(heap, h2, S, T)
    BY <1>2, <1>8, OnwardThen
  <2>2. Onward(heap, h3, S, U)
    BY <1>2, <1>11, <2>1, OnwardThen
  <2> QED
    BY <1>2, <1>14, <2>2, OnwardThen
<1> QED
  BY <1>1, <1>5, <1>14, <1>15, <1>16, StepsLead

\* A continuation is resumed.
LEMMA ResumedLeads ==
    ASSUME NEW S, Sane(S), NEW captured, captured.k \in S.conts, captured.env \in S.envs,
           NEW arg \in ValuesIn(S), NEW k \in S.conts, Resumed(Spent, captured, arg, k)
    PROVE  LeadsOn(S)
<1> DEFINE copy == Rebased(Spent, captured.k, k)
           f == Changed(heap, "conts", Spent)
           g == Changed(heap, "conts", copy.conts)
<1>1. Steps([heap EXCEPT !.conts = copy.conts], ValueOf(arg), captured.env, copy.k)
  BY DEF Resumed
<1>2. /\ Shaped(heap) /\ Sound(heap, S) /\ Onward(heap, f, S, S) /\ Shaped(f) /\ Sound(f, S)
      /\ f.conts = Spent /\ Changed(f, "conts", copy.conts) = g
  <2> HIDE DEF copy
  <2>1. Shaped(heap) /\ Sound(heap, S) /\ Onward(heap, f, S, S)
    BY FrameGiven DEF Sane
  <2>2. f.conts = Spent
    BY <2>1, ArenasChanged
  <2>3. Changed(f, "conts", copy.conts) = g
    BY <2>1, ChangedAgain DEF Arenas
  <2> QED
    BY <2>1, <2>2, <2>3 DEF Onward
<1>3. [heap EXCEPT !.conts = copy.conts] = g
  BY DEF Changed
<1> HIDE DEF f, g
<1>4. PICK T : Onward(f, Changed(f, "conts", copy.conts), S, T) /\ copy.k \in T.conts
  BY <1>2, RebasedIs
<1> HIDE DEF copy
<1>5. ValueOf(arg) \in ControlsIn(T) /\ captured.env \in T.envs
  BY <1>4, StillIn, ValueOfIn DEF Onward
<1>6. Onward(heap, g, S, T)
  BY <1>2, <1>4, OnwardThen
<1> QED
  BY <1>1, <1>3, <1>4, <1>5, <1>6, StepsLead

\* The frame of arguments, which calls, leads on to a sound heap.
LEMMA ApplyArgsLeads == ASSUME NEW S, Sane(S), ApplyArgs PROVE LeadsOn(S)
<1> DEFINE callee == Frame.callee
<1>1. /\ Applies("ArgsK")
      /\ \/ callee.is = "Function" /\ Called(Spent, callee.f.o, Given, Frame.k)
         \/ callee.is = "Continuation" /\ Resumed(Spent, callee.f, Given, Frame.k)
  BY DEF ApplyArgs
<1>2. callee \in ValuesIn(S) /\ Given \in ValuesIn(S) /\ Frame.k \in S.conts
  BY <1>1, TakenFrame
<1> HIDE DEF callee
<1>3. CASE callee.is = "Function" /\ Called(Spent, callee.f.o, Given, Frame.k)
  <2>1. callee.f.o \in S.closures
    BY <1>2, <1>3, ValueShape
  <2> QED
    BY <1>2, <1>3, <2>1, CalledLeads
<1>4. CASE callee.is = "Continuation" /\ Resumed(Spent, callee.f, Given, Frame.k)
  <2>1. callee.f.k \in S.conts /\ callee.f.env \in S.envs
    BY <1>2, <1>4, ValueShape
  <2> QED
    BY <1>2, <1>4, <2>1, ResumedLeads
<1> QED
  BY <1>1, <1>3, <1>4

\* Any step of the interpreter (CEKH::step), in a heap where every id of the registers
\* and of what they lead to is the id of a slot in use with the right kind of thing in
\* it, ends in such a heap with such registers: calls, captured continuations copied up
\* to their handler, handlers and assignments through a chain of scopes included.
THEOREM StepLeads ==
    ASSUME NEW S, Sane(S), family \in Families, Step
    PROVE  LeadsOn(S)
<1>1. CASE EvalLiteral \/ EvalIdentifier \/ EvalFunction \/ EvalHandler \/ EvalOperand
               \/ EvalPerform
  BY <1>1, EvalLiteralLeads, EvalIdentifierLeads, EvalFunctionLeads, EvalHandlerLeads,
     EvalOperandLeads, EvalPerformLeads
<1>2. CASE ApplyHalt \/ ApplyAssignVar \/ ApplyObject \/ ApplyMember \/ ApplyCallee \/ ApplyArgs
  BY <1>2, ApplyHaltLeads, ApplyAssignVarLeads, ApplyObjectLeads, ApplyMemberLeads,
     ApplyCalleeLeads, ApplyArgsLeads
<1>3. CASE \/ ApplyReturnExpr \/ ApplyReturn \/ ApplyHandleWith \/ ApplyHandler \/ ApplyPerformArgs
           \/ Return
  BY <1>3, ApplyReturnExprLeads, ApplyReturnLeads, ApplyHandleWithLeads, ApplyHandlerLeads,
     ApplyPerformArgsLeads, ReturnLeads
<1> QED
  BY <1>1, <1>2, <1>3 DEF Step

-----------------------------------------------------------------------------
(* Tracing.  Every field that can hold an id is followed, variant by       *)
(* variant of every table the collector meets.                             *)

\* Whether a field of some type can lead to an id.
CanHold(type) ==
    LET base == Base(type) IN
    IF base.t = "one" THEN LeadsToIds[3][base.of] ELSE "to" \in DOMAIN base

\* Whether every one of some fields is followed if it can lead to an id.
Covered(T, I, fields) ==
    /\ \E A : fields \in Seq(A)
    /\ \A i \in DOMAIN fields : CanHold(fields[i].type) => fields[i].name \in Traced(T, I)

\* One level of LeadsToIds, from the one below it.
LeadsNow(below, depth) ==
    [name \in DOMAIN Written |-> \E v \in Written[name] : \E i \in DOMAIN v.fields :
        LET base == Base(v.fields[i].type) IN
        IF base.t = "one" THEN depth > 0 /\ below[base.of] ELSE "to" \in DOMAIN base]

\* LeadsToIds is what it is defined as.
LEMMA LeadsToIdsIs ==
    \A depth \in 0 .. 3 : LeadsToIds[depth] = LeadsNow(LeadsToIds[depth - 1], depth)
<1> DEFINE r0 == LeadsNow(<<>>, 0)
           r1 == LeadsNow(r0, 1)
           r2 == LeadsNow(r1, 2)
           r3 == LeadsNow(r2, 3)
           Levels == [depth \in 0 .. 3 |-> IF depth = 0 THEN r0 ELSE IF depth = 1 THEN r1
                                         ELSE IF depth = 2 THEN r2 ELSE r3]
           Goes1(f) == f = [depth \in 0 .. 3 |-> LeadsNow(f[depth - 1], depth)]
<1>1. \A b, c : LeadsNow(b, 0) = LeadsNow(c, 0)
  <2>1. ~(0 > 0)
    BY SMT
  <2> QED
    BY <2>1, Zenon DEF LeadsNow
<1>2. Levels[0] = r0 /\ Levels[1] = r1 /\ Levels[2] = r2 /\ Levels[3] = r3
  BY SMT
<1>3. \A depth \in 0 .. 3 : Levels[depth] = LeadsNow(Levels[depth - 1], depth)
  <2> HIDE DEF Levels, r0, r1, r2, r3
  <2>1. \A depth \in 0 .. 3 : depth = 0 \/ depth = 1 \/ depth = 2 \/ depth = 3
    BY SMT
  <2>2. 1 - 1 = 0 /\ 2 - 1 = 1 /\ 3 - 1 = 2
    BY SMT
  <2>3. Levels[0] = LeadsNow(Levels[0 - 1], 0)
    BY <1>1, <1>2 DEF r0
  <2>4. Levels[1] = LeadsNow(Levels[0], 1) /\ Levels[2] = LeadsNow(Levels[1], 2)
        /\ Levels[3] = LeadsNow(Levels[2], 3)
    BY <1>2 DEF r1, r2, r3
  <2> QED
    BY <2>1, <2>2, <2>3, <2>4
<1>4. Goes1(Levels)
  <2>1. Levels = [depth \in 0 .. 3 |-> Levels[depth]]
    OBVIOUS
  <2> HIDE DEF Levels
  <2> QED
    BY <1>3, <2>1
<1>5. LeadsToIds = CHOOSE f : Goes1(f)
  BY Zenon DEF LeadsToIds, LeadsNow
<1> HIDE DEF Levels
<1>6. Goes1(LeadsToIds)
  <2> HIDE DEF Goes1
  <2> QED
    BY <1>4, <1>5
<1> QED
  BY <1>6

\* A table of plain numbers, or one that leads to none but such tables, leads nowhere.
LEMMA LeadsNowhere ==
    ASSUME NEW name \in DOMAIN Written, NEW depth \in 0 .. 3,
           \A v \in Written[name] : \A i \in DOMAIN v.fields :
               LET base == Base(v.fields[i].type) IN
               IF base.t = "one" THEN depth > 0 => ~LeadsToIds[depth - 1][base.of]
               ELSE "to" \notin DOMAIN base
    PROVE  ~LeadsToIds[depth][name]
<1>1. LeadsToIds[depth] = LeadsNow(LeadsToIds[depth - 1], depth)
  BY LeadsToIdsIs
<1> DEFINE below == LeadsToIds[depth - 1]
<1> HIDE DEF below
<1>2. LeadsToIds[depth] = LeadsNow(below, depth)
  BY <1>1 DEF below
<1>3. \A v \in Written[name] : \A i \in DOMAIN v.fields :
        ~(LET base == Base(v.fields[i].type) IN
          IF base.t = "one" THEN depth > 0 /\ below[base.of] ELSE "to" \in DOMAIN base)
  BY Zenon DEF below
<1> QED
  BY <1>2, <1>3, Zenon DEF LeadsNow

\* An enum without fields leads nowhere.
LEMMA EnumsLeadNowhere ==
    \A depth \in 0 .. 3 :
        ~LeadsToIds[depth]["BinaryOp"] /\ ~LeadsToIds[depth]["UnaryOp"]
        /\ ~LeadsToIds[depth]["NativeFn"]
<1>1. \A names : \A v \in Enum(names) : v.fields = <<>>
  BY DEF Enum, Variant
<1>2. /\ Written["BinaryOp"] = BinaryOps /\ Written["UnaryOp"] = UnaryOps
      /\ Written["NativeFn"] = NativeFns
      /\ {"BinaryOp", "UnaryOp", "NativeFn"} \subseteq DOMAIN Written
  BY WrittenAssumption DEF WriterTables
<1>3. \A v \in BinaryOps \cup UnaryOps \cup NativeFns : v.fields = <<>>
  BY <1>1, Zenon DEF BinaryOps, UnaryOps, NativeFns
<1>4. ASSUME NEW depth \in 0 .. 3, NEW name \in {"BinaryOp", "UnaryOp", "NativeFn"}
      PROVE  ~LeadsToIds[depth][name]
  <2>1. \A v \in Written[name] : v.fields = <<>>
    BY <1>2, <1>3
  <2>2. \A v \in Written[name] : DOMAIN v.fields = {}
    BY <2>1
  <2>3. name \in DOMAIN Written
    BY <1>2
  <2> QED
    BY <2>2, <2>3, LeadsNowhere
<1> QED
  BY <1>4

\* The values of the host are trees without ids.
LEMMA HostLeadsNowhere ==
    \A depth \in 0 .. 3 : ~LeadsToIds[depth]["HostValue"] /\ ~LeadsToIds[depth]["HostPair"]
<1>1. /\ Written["HostValue"] = WriteHostValue /\ Written["HostPair"] = WriteHostPair
      /\ "HostValue" \in DOMAIN Written /\ "HostPair" \in DOMAIN Written
  BY WrittenAssumption DEF WriterTables
<1> DEFINE Plain(type) == type.t = "num" /\ "to" \notin DOMAIN type
           Host(type) == type.t = "one" /\ type.of \in {"HostValue", "HostPair"}
           Leaf1(v) == \A i \in DOMAIN v.fields : Plain(v.fields[i].type)
                           \/ Host(Base(v.fields[i].type))
<1>2. \A t, I, fields : Variant(t, I, fields).fields = fields
  BY DEF Variant
<1>3. \A t, I : Leaf1(Variant(t, I, <<>>))
  BY <1>2
<1>4. \A t, I, a, w : Leaf1(Variant(t, I, Fields(<<a>>, Num(w))))
  <2> SUFFICES ASSUME NEW t, NEW I, NEW a, NEW w PROVE Leaf1(Variant(t, I, Fields(<<a>>, Num(w))))
    OBVIOUS
  <2>1. Variant(t, I, Fields(<<a>>, Num(w))).fields = <<F(a, Num(w))>>
    BY <1>2, Fields1
  <2>2. \A i \in DOMAIN <<F(a, Num(w))>> : <<F(a, Num(w))>>[i].type = Num(w)
    BY DEF F
  <2> QED
    BY <2>1, <2>2, TypeShapes
<1>5. \A t, I, a : /\ Leaf1(Variant(t, I, Fields(<<a>>, Many(One("HostValue")))))
                   /\ Leaf1(Variant(t, I, Fields(<<a>>, Many(One("HostPair")))))
  <2> SUFFICES ASSUME NEW t, NEW I, NEW a, NEW n \in {"HostValue", "HostPair"}
               PROVE  Leaf1(Variant(t, I, Fields(<<a>>, Many(One(n)))))
    OBVIOUS
  <2>1. Variant(t, I, Fields(<<a>>, Many(One(n)))).fields = <<F(a, Many(One(n)))>>
    BY <1>2, Fields1
  <2>2. \A i \in DOMAIN <<F(a, Many(One(n)))>> : <<F(a, Many(One(n)))>>[i].type = Many(One(n))
    BY DEF F
  <2>3. Host(Base(Many(One(n))))
    BY TypeShapes DEF Base
  <2> QED
    BY <2>1, <2>2, <2>3
<1>6. \A v \in WriteHostPair : Leaf1(v)
  <2> DEFINE fs == Fields(<<"key">>, Num("str")) \o Fields(<<"value">>, One("HostValue"))
             gs == <<F("key", Num("str")), F("value", One("HostValue"))>>
  <2>1. fs = gs
    BY Fields1, Cat11
  <2>2. Plain(gs[1].type) /\ Host(Base(gs[2].type)) /\ DOMAIN gs = 1 .. 2
    BY TypeShapes DEF F, Base
  <2>3. \A i \in 1 .. 2 : i = 1 \/ i = 2
    BY SMT
  <2>4. \A v \in WriteHostPair : v.fields = gs
    <3> HIDE DEF gs, fs
    <3>1. \A v \in WriteHostPair : v = Variant(Untagged, "HostPair", fs)
      BY DEF WriteHostPair, fs
    <3> QED
      BY <1>2, <2>1, <3>1
  <2> HIDE DEF gs
  <2> QED
    BY <2>2, <2>3, <2>4
<1>7. \A v \in WriteHostValue : Leaf1(v)
  <2> HIDE DEF Leaf1
  <2> QED
    BY <1>3, <1>4, <1>5 DEF WriteHostValue
<1>8. ASSUME NEW depth \in 0 .. 3,
             depth > 0 => ~LeadsToIds[depth - 1]["HostValue"] /\ ~LeadsToIds[depth - 1]["HostPair"]
      PROVE  ~LeadsToIds[depth]["HostValue"] /\ ~LeadsToIds[depth]["HostPair"]
  <2>1. ASSUME NEW name \in {"HostValue", "HostPair"} PROVE ~LeadsToIds[depth][name]
    <3>1. \A v \in Written[name] : Leaf1(v)
      <4> HIDE DEF Leaf1
      <4> QED
        BY <1>1, <1>6, <1>7
    <3>2. ASSUME NEW type, Plain(type) \/ Host(Base(type))
          PROVE  LET base == Base(type) IN
                 IF base.t = "one" THEN depth > 0 => ~LeadsToIds[depth - 1][base.of]
                 ELSE "to" \notin DOMAIN base
      <4>1. CASE Plain(type)
        <5>1. Base(type) = type
          BY <4>1 DEF Base
        <5> QED
          BY <4>1, <5>1
      <4>2. CASE Host(Base(type))
        BY <1>8, <4>2
      <4> QED
        BY <3>2, <4>1, <4>2
    <3>3. \A v \in Written[name] : \A i \in DOMAIN v.fields :
               LET base == Base(v.fields[i].type) IN
               IF base.t = "one" THEN depth > 0 => ~LeadsToIds[depth - 1][base.of]
               ELSE "to" \notin DOMAIN base
      BY <3>1, <3>2
    <3>4. name \in DOMAIN Written
      BY <1>1
    <3> QED
      BY <3>3, <3>4, LeadsNowhere
  <2> QED
    BY <2>1
<1> DEFINE Not(depth) == ~LeadsToIds[depth]["HostValue"] /\ ~LeadsToIds[depth]["HostPair"]
<1>9. Not(0) /\ (Not(0) => Not(1)) /\ (Not(1) => Not(2)) /\ (Not(2) => Not(3))
  <2>1. 1 - 1 = 0 /\ 2 - 1 = 1 /\ 3 - 1 = 2 /\ ~(0 > 0)
    BY SMT
  <2>2. 0 \in 0 .. 3 /\ 1 \in 0 .. 3 /\ 2 \in 0 .. 3 /\ 3 \in 0 .. 3
    BY SMT
  <2> QED
    BY <1>8, <2>1, <2>2
<1> HIDE DEF Not
<1>10. \A depth \in 0 .. 3 : depth = 0 \/ depth = 1 \/ depth = 2 \/ depth = 3
  BY SMT
<1>11. \A depth \in 0 .. 3 : Not(depth)
  BY <1>9, <1>10
<1> QED
  BY <1>11 DEF Not

\* One list of fields after another.
LEMMA CoveredJoined ==
    \A T, I, a, b : Covered(T, I, a) /\ Covered(T, I, b) => Covered(T, I, a \o b)
<1> SUFFICES ASSUME NEW T, NEW I, NEW a, NEW b, Covered(T, I, a), Covered(T, I, b)
             PROVE  Covered(T, I, a \o b)
  OBVIOUS
<1>1. PICK A, B : a \in Seq(A) /\ b \in Seq(B)
  BY DEF Covered
<1>2. a \in Seq(A \cup B) /\ b \in Seq(A \cup B)
  BY <1>1, SMT
<1>3. a \o b \in Seq(A \cup B)
  BY <1>2
<1>4. \A i \in DOMAIN (a \o b) :
        \/ i \in DOMAIN a /\ (a \o b)[i] = a[i]
        \/ i - Len(a) \in DOMAIN b /\ (a \o b)[i] = b[i - Len(a)]
  BY <1>2, SMT
<1>5. \A i \in DOMAIN (a \o b) :
        CanHold((a \o b)[i].type) => (a \o b)[i].name \in Traced(T, I)
  <2>1. \A i \in DOMAIN a : CanHold(a[i].type) => a[i].name \in Traced(T, I)
    BY DEF Covered
  <2>2. \A i \in DOMAIN b : CanHold(b[i].type) => b[i].name \in Traced(T, I)
    BY DEF Covered
  <2> QED
    BY <1>4, <2>1, <2>2
<1> QED
  BY <1>3, <1>5 DEF Covered

\* No fields at all.
LEMMA CoveredNone == \A T, I : Covered(T, I, <<>>)
  BY DEF Covered

\* Fields of one type, which either leads nowhere or whose names are all followed.
LEMMA CoveredFields ==
    ASSUME NEW T, NEW I, NEW type, NEW S, NEW names \in Seq(S),
           CanHold(type) => \A i \in 1 .. Len(names) : names[i] \in Traced(T, I)
    PROVE  Covered(T, I, Fields(names, type))
<1> DEFINE fs == Fields(names, type)
           n == Len(names)
           A == {[name |-> x, type |-> type] : x \in S}
<1>1. n \in Nat /\ DOMAIN names = 1 .. n /\ \A i \in 1 .. n : names[i] \in S
  OBVIOUS
<1>2. fs = [i \in 1 .. n |-> [name |-> names[i], type |-> type]]
  BY <1>1 DEF Fields
<1> HIDE DEF n
<1>3. fs \in [1 .. n -> A]
  BY <1>1, <1>2
<1>4. fs \in Seq(A)
  <2> HIDE DEF fs, A
  <2> QED
    BY <1>1, <1>3, SeqDef
<1>5. \A i \in DOMAIN fs : i \in 1 .. n /\ fs[i].name = names[i] /\ fs[i].type = type
  BY <1>2
<1> HIDE DEF fs
<1>6. \A i \in DOMAIN fs : CanHold(fs[i].type) => fs[i].name \in Traced(T, I)
  BY <1>5 DEF n
<1>7. Covered(T, I, fs)
  <2> HIDE DEF A
  <2> QED
    BY <1>4, <1>6 DEF Covered
<1> QED
  BY <1>7 DEF fs

\* Fields of plain numbers, up to four at once.
LEMMA CoveredPlain ==
    \A T, I, type :
        ~CanHold(type) =>
            /\ \A a : Covered(T, I, Fields(<<a>>, type))
            /\ \A a, b : Covered(T, I, Fields(<<a, b>>, type))
            /\ \A a, b, c : Covered(T, I, Fields(<<a, b, c>>, type))
            /\ \A a, b, c, d : Covered(T, I, Fields(<<a, b, c, d>>, type))
<1> SUFFICES ASSUME NEW T, NEW I, NEW type, ~CanHold(type)
             PROVE  /\ \A a : Covered(T, I, Fields(<<a>>, type))
                    /\ \A a, b : Covered(T, I, Fields(<<a, b>>, type))
                    /\ \A a, b, c : Covered(T, I, Fields(<<a, b, c>>, type))
                    /\ \A a, b, c, d : Covered(T, I, Fields(<<a, b, c, d>>, type))
  OBVIOUS
<1>1. ASSUME NEW S, NEW names \in Seq(S) PROVE Covered(T, I, Fields(names, type))
  BY <1>1, CoveredFields
<1>2. \A a : <<a>> \in Seq({a})
  OBVIOUS
<1>3. \A a, b : <<a, b>> \in Seq({a, b})
  OBVIOUS
<1>4. \A a, b, c : <<a, b, c>> \in Seq({a, b, c})
  OBVIOUS
<1>5. \A a, b, c, d : <<a, b, c, d>> \in Seq({a, b, c, d})
  OBVIOUS
<1> QED
  BY <1>1, <1>2, <1>3, <1>4, <1>5, Zenon

\* A field that is followed.
LEMMA CoveredFollowed ==
    \A T, I, type : \A a : a \in Traced(T, I) => Covered(T, I, Fields(<<a>>, type))
<1> SUFFICES ASSUME NEW T, NEW I, NEW type, NEW a, a \in Traced(T, I)
             PROVE  Covered(T, I, Fields(<<a>>, type))
  OBVIOUS
<1>1. <<a>> \in Seq({a})
  OBVIOUS
<1>2. \A i \in 1 .. Len(<<a>>) : <<a>>[i] = a
  OBVIOUS
<1> QED
  BY <1>1, <1>2, CoveredFields

\* The types that lead nowhere.
LEMMA NoLeads ==
    /\ \A w : ~CanHold(Num(w)) /\ ~CanHold(Opt(Num(w)))
    /\ ~CanHold(One("BinaryOp")) /\ ~CanHold(One("UnaryOp")) /\ ~CanHold(One("NativeFn"))
    /\ ~CanHold(Many(One("HostValue")))
<1>1. 3 \in 0 .. 3
  BY SMT
<1>2. ~LeadsToIds[3]["BinaryOp"] /\ ~LeadsToIds[3]["UnaryOp"] /\ ~LeadsToIds[3]["NativeFn"]
      /\ ~LeadsToIds[3]["HostValue"]
  BY <1>1, EnumsLeadNowhere, HostLeadsNowhere
<1>3. \A w : Base(Num(w)) = Num(w) /\ Base(Opt(Num(w))) = Num(w)
  BY TypeShapes DEF Base
<1>4. \A n : Base(One(n)) = One(n) /\ Base(Many(One(n))) = One(n)
  BY TypeShapes DEF Base
<1>5. \A n : CanHold(One(n)) = LeadsToIds[3][n] /\ CanHold(Many(One(n))) = LeadsToIds[3][n]
  BY <1>4, TypeShapes DEF CanHold
<1>6. \A w : ~CanHold(Num(w)) /\ ~CanHold(Opt(Num(w)))
  BY <1>3, TypeShapes DEF CanHold
<1> QED
  BY <1>2, <1>5, <1>6

\* What the ids of a table's fields, and the fields at the end of most frames, are.
LEMMA CoveredEnds ==
    /\ \A T, I : \A a : Covered(T, I, Ids(<<a>>)) /\ Covered(T, I, U16(<<a>>))
    /\ \A T, I : \A a, b : Covered(T, I, Ids(<<a, b>>)) /\ Covered(T, I, U16(<<a, b>>))
    /\ \A T, I : \A a, b, c : Covered(T, I, Ids(<<a, b, c>>))
    /\ \A T, I : \A a, b, c, d : Covered(T, I, Ids(<<a, b, c, d>>))
    /\ \A T, I : "env" \in Traced(T, I) => Covered(T, I, Env)
    /\ \A T, I : "k" \in Traced(T, I) => Covered(T, I, K)
    /\ \A T, I : \A a : a \in Traced(T, I) =>
        Covered(T, I, Value1(a)) /\ Covered(T, I, Values(a))
<1>1. \A w : ~CanHold(Num(w))
  BY NoLeads
<1>2. \A T, I : "env" \in Traced(T, I) => Covered(T, I, Env)
  BY CoveredFollowed DEF Env
<1>3. \A T, I : "k" \in Traced(T, I) => Covered(T, I, K)
  BY CoveredFollowed DEF K
<1>4. \A T, I : \A a : a \in Traced(T, I) =>
        Covered(T, I, Value1(a)) /\ Covered(T, I, Values(a))
  BY CoveredFollowed, Zenon DEF Value1, Values
<1>5. \A T, I : \A a : Covered(T, I, Ids(<<a>>)) /\ Covered(T, I, U16(<<a>>))
  BY <1>1, CoveredPlain, Zenon DEF Ids, U16
<1>6. \A T, I : \A a, b : Covered(T, I, Ids(<<a, b>>)) /\ Covered(T, I, U16(<<a, b>>))
  BY <1>1, CoveredPlain, Zenon DEF Ids, U16
<1>7. \A T, I : \A a, b, c : Covered(T, I, Ids(<<a, b, c>>))
  BY <1>1, CoveredPlain, Zenon DEF Ids
<1>8. \A T, I : \A a, b, c, d : Covered(T, I, Ids(<<a, b, c, d>>))
  BY <1>1, CoveredPlain, Zenon DEF Ids
<1> QED
  BY <1>2, <1>3, <1>4, <1>5, <1>6, <1>7, <1>8

\* What a variant is made of.
LEMMA VariantHas ==
    \A tag, I, fields : Variant(tag, I, fields).is = I /\ Variant(tag, I, fields).fields = fields
  BY DEF Variant

\* Whether what is in the fields of a type's variants is followed, some of them.
AllCovered(T, variants) == \A v \in variants : Covered(T, v.is, v.fields)

\* One variant.
LEMMA CoveredVariant ==
    \A T, tag, I, fields : Covered(T, I, fields) => AllCovered(T, {Variant(tag, I, fields)})
<1> SUFFICES ASSUME NEW T, NEW tag, NEW I, NEW fields, Covered(T, I, fields)
             PROVE  AllCovered(T, {Variant(tag, I, fields)})
  OBVIOUS
<1> DEFINE v == Variant(tag, I, fields)
<1>1. v.is = I /\ v.fields = fields
  BY VariantHas
<1> HIDE DEF v
<1>2. AllCovered(T, {v})
  BY <1>1 DEF AllCovered
<1> QED
  BY <1>2 DEF v

\* The collector follows every kind of value.
LEMMA CoversValue == AllCovered("Value", WriteValue)
<1>1. AllCovered("Value", {Variant(0, "Undefined", <<>>)})
  BY CoveredNone, CoveredVariant
<1>2. AllCovered("Value", {Variant(1, "Null", <<>>)})
  BY CoveredNone, CoveredVariant
<1>3. AllCovered("Value", {Variant(2, "Bool", Fields(<<"b">>, Num("u8")))})
  <2>1. Covered("Value", "Bool", Fields(<<"b">>, Num("u8")))
    BY NoLeads, CoveredPlain
  <2> QED
    BY <2>1, CoveredVariant
<1>4. AllCovered("Value", {Variant(3, "Int", Fields(<<"n">>, Num("i32")))})
  <2>1. Covered("Value", "Int", Fields(<<"n">>, Num("i32")))
    BY NoLeads, CoveredPlain
  <2> QED
    BY <2>1, CoveredVariant
<1>5. AllCovered("Value", {Variant(4, "Float", Fields(<<"f">>, Num("f64")))})
  <2>1. Covered("Value", "Float", Fields(<<"f">>, Num("f64")))
    BY NoLeads, CoveredPlain
  <2> QED
    BY <2>1, CoveredVariant
<1>6. AllCovered("Value", {Variant(5, "String", Ids(<<"s">>))})
  <2>1. Covered("Value", "String", Ids(<<"s">>))
    BY CoveredEnds
  <2> QED
    BY <2>1, CoveredVariant
<1>7. AllCovered("Value", {Variant(6, "Object", Fields(<<"o">>, Ref("objects")))})
  <2>1. "o" \in Traced("Value", "Object")
    BY DEF Traced, ValueTraced
  <2>2. Covered("Value", "Object", Fields(<<"o">>, Ref("objects")))
    BY <2>1, CoveredFollowed
  <2> QED
    BY <2>2, CoveredVariant
<1>8. AllCovered("Value", {Variant(7, "Function", Fields(<<"o">>, Ref("objects")))})
  <2>1. "o" \in Traced("Value", "Function")
    BY DEF Traced, ValueTraced
  <2>2. Covered("Value", "Function", Fields(<<"o">>, Ref("objects")))
    BY <2>1, CoveredFollowed
  <2> QED
    BY <2>2, CoveredVariant
<1>9. AllCovered("Value", {Variant(8, "Array", Fields(<<"o">>, Ref("objects")))})
  <2>1. "o" \in Traced("Value", "Array")
    BY DEF Traced, ValueTraced
  <2>2. Covered("Value", "Array", Fields(<<"o">>, Ref("objects")))
    BY <2>1, CoveredFollowed
  <2> QED
    BY <2>2, CoveredVariant
<1>10. AllCovered("Value", {Variant(9, "Handler", Fields(<<"h">>, Ref("handlers")))})
  <2>1. "h" \in Traced("Value", "Handler")
    BY DEF Traced, ValueTraced
  <2>2. Covered("Value", "Handler", Fields(<<"h">>, Ref("handlers")))
    BY <2>1, CoveredFollowed
  <2> QED
    BY <2>2, CoveredVariant
<1>11. AllCovered("Value", {Variant(10, "Continuation", K \o Env)})
  <2>1. "k" \in Traced("Value", "Continuation") /\ "env" \in Traced("Value", "Continuation")
    BY DEF Traced, ValueTraced
  <2>2. Covered("Value", "Continuation", K)
    BY <2>1, CoveredEnds
  <2>3. Covered("Value", "Continuation", Env)
    BY <2>1, CoveredEnds
  <2> QED
    BY <2>2, <2>3, CoveredJoined, CoveredVariant
<1> QED
  BY <1>1, <1>2, <1>3, <1>4, <1>5, <1>6, <1>7, <1>8, <1>9, <1>10, <1>11 DEF AllCovered, WriteValue

\* The collector follows every object.
LEMMA CoversObject == AllCovered("Object", WriteObject)
<1>1. AllCovered("Object", {Variant(Untagged, "Object", Fields(<<"properties">>,
      Many(One("Property"))) \o Fields(<<"prototype">>, Opt(Ref("objects"))) \o Fields(<<"kind">>,
      One("ObjectKind")))})
  <2>1. "properties" \in Traced("Object", "Object") /\ "prototype" \in Traced("Object", "Object") /\
        "kind" \in Traced("Object", "Object")
    BY DEF Traced
  <2>2. Covered("Object", "Object", Fields(<<"properties">>, Many(One("Property"))))
    BY <2>1, CoveredFollowed
  <2>3. Covered("Object", "Object", Fields(<<"prototype">>, Opt(Ref("objects"))))
    BY <2>1, CoveredFollowed
  <2>4. Covered("Object", "Object", Fields(<<"kind">>, One("ObjectKind")))
    BY <2>1, CoveredFollowed
  <2> QED
    BY <2>2, <2>3, <2>4, CoveredJoined, CoveredVariant
<1> QED
  BY <1>1 DEF WriteObject

\* The collector follows every property.
LEMMA CoversProperty == AllCovered("Property", WriteProperty)
<1>1. AllCovered("Property", {Variant(Untagged, "Property", Ids(<<"key">>) \o
      Fields(<<"value">>, One("Value")) \o Fields(<<"writable", "enumerable", "configurable">>,
      Num("u8")))})
  <2>1. "value" \in Traced("Property", "Property")
    BY DEF Traced
  <2>2. Covered("Property", "Property", Ids(<<"key">>))
    BY CoveredEnds
  <2>3. Covered("Property", "Property", Fields(<<"value">>, One("Value")))
    BY <2>1, CoveredFollowed
  <2>4. Covered("Property", "Property", Fields(<<"writable", "enumerable", "configurable">>,
                                               Num("u8")))
    BY NoLeads, CoveredPlain
  <2> QED
    BY <2>2, <2>3, <2>4, CoveredJoined, CoveredVariant
<1> QED
  BY <1>1 DEF WriteProperty

\* The collector follows every kind of object.
LEMMA CoversObjectKind == AllCovered("ObjectKind", WriteObjectKind)
<1>1. AllCovered("ObjectKind", {Variant(0, "Ordinary", <<>>)})
  BY CoveredNone, CoveredVariant
<1>2. AllCovered("ObjectKind", {Variant(1, "Array", Fields(<<"elements">>,
      Many(One("Value"))))})
  <2>1. "elements" \in Traced("ObjectKind", "Array")
    BY DEF Traced, ObjectKindTraced
  <2>2. Covered("ObjectKind", "Array", Fields(<<"elements">>, Many(One("Value"))))
    BY <2>1, CoveredFollowed
  <2> QED
    BY <2>2, CoveredVariant
<1>3. AllCovered("ObjectKind", {Variant(2, "Function", Ids(<<"params_start">>) \o
      Fields(<<"params_count">>, Num("u16")) \o Ids(<<"body">>) \o Fields(<<"expr_body">>,
      Opt(Num("u32"))) \o Env \o Fields(<<"name">>, Opt(Num("u32"))))})
  <2>1. "env" \in Traced("ObjectKind", "Function")
    BY DEF Traced, ObjectKindTraced
  <2>2. Covered("ObjectKind", "Function", Ids(<<"params_start">>))
    BY CoveredEnds
  <2>3. Covered("ObjectKind", "Function", Fields(<<"params_count">>, Num("u16")))
    BY NoLeads, CoveredPlain
  <2>4. Covered("ObjectKind", "Function", Ids(<<"body">>))
    BY CoveredEnds
  <2>5. Covered("ObjectKind", "Function", Fields(<<"expr_body">>, Opt(Num("u32"))))
    BY NoLeads, CoveredPlain
  <2>6. Covered("ObjectKind", "Function", Env)
    BY <2>1, CoveredEnds
  <2>7. Covered("ObjectKind", "Function", Fields(<<"name">>, Opt(Num("u32"))))
    BY NoLeads, CoveredPlain
  <2> QED
    BY <2>2, <2>3, <2>4, <2>5, <2>6, <2>7, CoveredJoined, CoveredVariant
<1>4. AllCovered("ObjectKind", {Variant(3, "BoundFunction", Fields(<<"target">>,
      Ref("objects")) \o Fields(<<"this_arg">>, One("Value")) \o Fields(<<"bound_args">>,
      Many(One("Value"))))})
  <2>1. "target" \in Traced("ObjectKind", "BoundFunction") /\ "this_arg" \in Traced("ObjectKind",
        "BoundFunction") /\ "bound_args" \in Traced("ObjectKind", "BoundFunction")
    BY DEF Traced, ObjectKindTraced
  <2>2. Covered("ObjectKind", "BoundFunction", Fields(<<"target">>, Ref("objects")))
    BY <2>1, CoveredFollowed
  <2>3. Covered("ObjectKind", "BoundFunction", Fields(<<"this_arg">>, One("Value")))
    BY <2>1, CoveredFollowed
  <2>4. Covered("ObjectKind", "BoundFunction", Fields(<<"bound_args">>, Many(One("Value"))))
    BY <2>1, CoveredFollowed
  <2> QED
    BY <2>2, <2>3, <2>4, CoveredJoined, CoveredVariant
<1>5. AllCovered("ObjectKind", {Variant(4, "NativeFunction", Fields(<<"native">>,
      One("NativeFn")))})
  <2>1. Covered("ObjectKind", "NativeFunction", Fields(<<"native">>, One("NativeFn")))
    BY NoLeads, CoveredPlain
  <2> QED
    BY <2>1, CoveredVariant
<1> QED
  BY <1>1, <1>2, <1>3, <1>4, <1>5 DEF AllCovered, WriteObjectKind

\* The collector follows every environment.
LEMMA CoversEnv == AllCovered("Env", WriteEnv)
<1>1. AllCovered("Env", {Variant(Untagged, "Env", Fields(<<"bindings">>, Many(One("Binding")))
      \o Fields(<<"parent">>, Opt(Ref("envs"))))})
  <2>1. "bindings" \in Traced("Env", "Env") /\ "parent" \in Traced("Env", "Env")
    BY DEF Traced
  <2>2. Covered("Env", "Env", Fields(<<"bindings">>, Many(One("Binding"))))
    BY <2>1, CoveredFollowed
  <2>3. Covered("Env", "Env", Fields(<<"parent">>, Opt(Ref("envs"))))
    BY <2>1, CoveredFollowed
  <2> QED
    BY <2>2, <2>3, CoveredJoined, CoveredVariant
<1> QED
  BY <1>1 DEF WriteEnv

\* The collector follows every binding.
LEMMA CoversBinding == AllCovered("Binding", WriteBinding)
<1>1. AllCovered("Binding", {Variant(Untagged, "Binding", Ids(<<"key">>) \o
      Fields(<<"value">>, One("Value")))})
  <2>1. "value" \in Traced("Binding", "Binding")
    BY DEF Traced
  <2>2. Covered("Binding", "Binding", Ids(<<"key">>))
    BY CoveredEnds
  <2>3. Covered("Binding", "Binding", Fields(<<"value">>, One("Value")))
    BY <2>1, CoveredFollowed
  <2> QED
    BY <2>2, <2>3, CoveredJoined, CoveredVariant
<1> QED
  BY <1>1 DEF WriteBinding

\* The collector follows every handler.
LEMMA CoversHandler == AllCovered("Handler", WriteHandler)
<1>1. AllCovered("Handler", {Variant(Untagged, "Handler", Ids(<<"clauses_start">>) \o
      Fields(<<"clauses_count">>, Num("u16")) \o Ids(<<"return_param", "return_body">>) \o Env)})
  <2>1. "env" \in Traced("Handler", "Handler")
    BY DEF Traced
  <2>2. Covered("Handler", "Handler", Ids(<<"clauses_start">>))
    BY CoveredEnds
  <2>3. Covered("Handler", "Handler", Fields(<<"clauses_count">>, Num("u16")))
    BY NoLeads, CoveredPlain
  <2>4. Covered("Handler", "Handler", Ids(<<"return_param", "return_body">>))
    BY CoveredEnds
  <2>5. Covered("Handler", "Handler", Env)
    BY <2>1, CoveredEnds
  <2> QED
    BY <2>2, <2>3, <2>4, <2>5, CoveredJoined, CoveredVariant
<1> QED
  BY <1>1 DEF WriteHandler

\* The collector follows every kind of control.
LEMMA CoversControl == AllCovered("Control", WriteControl)
<1>1. AllCovered("Control", {Variant(0, "Expr", Ids(<<"e">>))})
  <2>1. Covered("Control", "Expr", Ids(<<"e">>))
    BY CoveredEnds
  <2> QED
    BY <2>1, CoveredVariant
<1>2. AllCovered("Control", {Variant(1, "Stmt", Ids(<<"s">>))})
  <2>1. Covered("Control", "Stmt", Ids(<<"s">>))
    BY CoveredEnds
  <2> QED
    BY <2>1, CoveredVariant
<1>3. AllCovered("Control", {Variant(2, "Value", Fields(<<"v">>, One("Value")))})
  <2>1. "v" \in Traced("Control", "Value")
    BY DEF Traced, RootTraced
  <2>2. Covered("Control", "Value", Fields(<<"v">>, One("Value")))
    BY <2>1, CoveredFollowed
  <2> QED
    BY <2>2, CoveredVariant
<1>4. AllCovered("Control", {Variant(3, "Returning", Fields(<<"v">>, One("Value")))})
  <2>1. "v" \in Traced("Control", "Returning")
    BY DEF Traced, RootTraced
  <2>2. Covered("Control", "Returning", Fields(<<"v">>, One("Value")))
    BY <2>1, CoveredFollowed
  <2> QED
    BY <2>2, CoveredVariant
<1>5. AllCovered("Control", {Variant(4, "Halted", Fields(<<"v">>, One("Value")))})
  <2>1. "v" \in Traced("Control", "Halted")
    BY DEF Traced, RootTraced
  <2>2. Covered("Control", "Halted", Fields(<<"v">>, One("Value")))
    BY <2>1, CoveredFollowed
  <2> QED
    BY <2>2, CoveredVariant
<1>6. AllCovered("Control", {Variant(5, "Suspend", Ids(<<"effect">>) \o Fields(<<"args">>,
      Many(One("Value"))))})
  <2>1. "args" \in Traced("Control", "Suspend")
    BY DEF Traced, RootTraced
  <2>2. Covered("Control", "Suspend", Ids(<<"effect">>))
    BY CoveredEnds
  <2>3. Covered("Control", "Suspend", Fields(<<"args">>, Many(One("Value"))))
    BY <2>1, CoveredFollowed
  <2> QED
    BY <2>2, <2>3, CoveredJoined, CoveredVariant
<1> QED
  BY <1>1, <1>2, <1>3, <1>4, <1>5, <1>6 DEF AllCovered, WriteControl

\* The collector follows every status of a fiber.
LEMMA CoversFiberStatus == AllCovered("FiberStatus", WriteFiberStatus)
<1>1. AllCovered("FiberStatus", {Variant(0, "Ready", <<>>)})
  BY CoveredNone, CoveredVariant
<1>2. AllCovered("FiberStatus", {Variant(1, "Running", <<>>)})
  BY CoveredNone, CoveredVariant
<1>3. AllCovered("FiberStatus", {Variant(2, "Blocked", Ids(<<"effect">>) \o Fields(<<"args">>,
      Many(One("Value"))))})
  <2>1. "args" \in Traced("FiberStatus", "Blocked")
    BY DEF Traced, RootTraced
  <2>2. Covered("FiberStatus", "Blocked", Ids(<<"effect">>))
    BY CoveredEnds
  <2>3. Covered("FiberStatus", "Blocked", Fields(<<"args">>, Many(One("Value"))))
    BY <2>1, CoveredFollowed
  <2> QED
    BY <2>2, <2>3, CoveredJoined, CoveredVariant
<1>4. AllCovered("FiberStatus", {Variant(3, "Completed", Fields(<<"v">>, One("Value")))})
  <2>1. "v" \in Traced("FiberStatus", "Completed")
    BY DEF Traced, RootTraced
  <2>2. Covered("FiberStatus", "Completed", Fields(<<"v">>, One("Value")))
    BY <2>1, CoveredFollowed
  <2> QED
    BY <2>2, CoveredVariant
<1>5. AllCovered("FiberStatus", {Variant(4, "Failed", Fields(<<"message">>, Num("str")))})
  <2>1. Covered("FiberStatus", "Failed", Fields(<<"message">>, Num("str")))
    BY NoLeads, CoveredPlain
  <2> QED
    BY <2>1, CoveredVariant
<1>6. AllCovered("FiberStatus", {Variant(5, "BlockedOnHost", Ids(<<"effect">>) \o
      Fields(<<"args">>, Many(One("HostValue"))))})
  <2>1. Covered("FiberStatus", "BlockedOnHost", Ids(<<"effect">>))
    BY CoveredEnds
  <2>2. Covered("FiberStatus", "BlockedOnHost", Fields(<<"args">>, Many(One("HostValue"))))
    BY NoLeads, CoveredPlain
  <2> QED
    BY <2>1, <2>2, CoveredJoined, CoveredVariant
<1> QED
  BY <1>1, <1>2, <1>3, <1>4, <1>5, <1>6 DEF AllCovered, WriteFiberStatus

\* The collector follows every fiber.
LEMMA CoversFiber == AllCovered("Fiber", WriteFiber)
<1>1. AllCovered("Fiber", {Variant(Untagged, "Fiber", Ids(<<"id">>) \o Fields(<<"control">>,
      One("Control")) \o Fields(<<"cont">>, Ref("conts")) \o Env \o Fields(<<"status">>,
      One("FiberStatus")) \o Ids(<<"meter">>))})
  <2>1. "control" \in Traced("Fiber", "Fiber") /\ "cont" \in Traced("Fiber", "Fiber") /\ "env" \in
        Traced("Fiber", "Fiber") /\ "status" \in Traced("Fiber", "Fiber")
    BY DEF Traced, RootTraced
  <2>2. Covered("Fiber", "Fiber", Ids(<<"id">>))
    BY CoveredEnds
  <2>3. Covered("Fiber", "Fiber", Fields(<<"control">>, One("Control")))
    BY <2>1, CoveredFollowed
  <2>4. Covered("Fiber", "Fiber", Fields(<<"cont">>, Ref("conts")))
    BY <2>1, CoveredFollowed
  <2>5. Covered("Fiber", "Fiber", Env)
    BY <2>1, CoveredEnds
  <2>6. Covered("Fiber", "Fiber", Fields(<<"status">>, One("FiberStatus")))
    BY <2>1, CoveredFollowed
  <2>7. Covered("Fiber", "Fiber", Ids(<<"meter">>))
    BY CoveredEnds
  <2> QED
    BY <2>2, <2>3, <2>4, <2>5, <2>6, <2>7, CoveredJoined, CoveredVariant
<1> QED
  BY <1>1 DEF WriteFiber

\* The collector follows the frames of operators, properties and assignments.
LEMMA CoversOperatorKonts == AllCovered("Kont", WriteOperatorKonts)
<1>1. AllCovered("Kont", {Variant(0, "Halt", <<>>)})
  BY CoveredNone, CoveredVariant
<1>2. AllCovered("Kont", {Variant(1, "UnaryK", Fields(<<"op">>, One("UnaryOp")) \o K)})
  <2>1. "k" \in Traced("Kont", "UnaryK")
    BY DEF Traced, KontTraced
  <2>2. Covered("Kont", "UnaryK", Fields(<<"op">>, One("UnaryOp")))
    BY NoLeads, CoveredPlain
  <2>3. Covered("Kont", "UnaryK", K)
    BY <2>1, CoveredEnds
  <2> QED
    BY <2>2, <2>3, CoveredJoined, CoveredVariant
<1>3. AllCovered("Kont", {Variant(2, "BinaryLeftK", Fields(<<"op">>, One("BinaryOp")) \o
      Ids(<<"right">>) \o Env \o K)})
  <2>1. "env" \in Traced("Kont", "BinaryLeftK") /\ "k" \in Traced("Kont", "BinaryLeftK")
    BY DEF Traced, KontTraced
  <2>2. Covered("Kont", "BinaryLeftK", Fields(<<"op">>, One("BinaryOp")))
    BY NoLeads, CoveredPlain
  <2>3. Covered("Kont", "BinaryLeftK", Ids(<<"right">>))
    BY CoveredEnds
  <2>4. Covered("Kont", "BinaryLeftK", Env)
    BY <2>1, CoveredEnds
  <2>5. Covered("Kont", "BinaryLeftK", K)
    BY <2>1, CoveredEnds
  <2> QED
    BY <2>2, <2>3, <2>4, <2>5, CoveredJoined, CoveredVariant
<1>4. AllCovered("Kont", {Variant(3, "BinaryRightK", Fields(<<"op">>, One("BinaryOp")) \o
      Value1("left") \o K)})
  <2>1. "left" \in Traced("Kont", "BinaryRightK") /\ "k" \in Traced("Kont", "BinaryRightK")
    BY DEF Traced, KontTraced
  <2>2. Covered("Kont", "BinaryRightK", Fields(<<"op">>, One("BinaryOp")))
    BY NoLeads, CoveredPlain
  <2>3. Covered("Kont", "BinaryRightK", Value1("left"))
    BY <2>1, CoveredEnds
  <2>4. Covered("Kont", "BinaryRightK", K)
    BY <2>1, CoveredEnds
  <2> QED
    BY <2>2, <2>3, <2>4, CoveredJoined, CoveredVariant
<1>5. AllCovered("Kont", {Variant(4, "AndK", Ids(<<"right">>) \o Env \o K)})
  <2>1. "env" \in Traced("Kont", "AndK") /\ "k" \in Traced("Kont", "AndK")
    BY DEF Traced, KontTraced
  <2>2. Covered("Kont", "AndK", Ids(<<"right">>))
    BY CoveredEnds
  <2>3. Covered("Kont", "AndK", Env)
    BY <2>1, CoveredEnds
  <2>4. Covered("Kont", "AndK", K)
    BY <2>1, CoveredEnds
  <2> QED
    BY <2>2, <2>3, <2>4, CoveredJoined, CoveredVariant
<1>6. AllCovered("Kont", {Variant(5, "OrK", Ids(<<"right">>) \o Env \o K)})
  <2>1. "env" \in Traced("Kont", "OrK") /\ "k" \in Traced("Kont", "OrK")
    BY DEF Traced, KontTraced
  <2>2. Covered("Kont", "OrK", Ids(<<"right">>))
    BY CoveredEnds
  <2>3. Covered("Kont", "OrK", Env)
    BY <2>1, CoveredEnds
  <2>4. Covered("Kont", "OrK", K)
    BY <2>1, CoveredEnds
  <2> QED
    BY <2>2, <2>3, <2>4, CoveredJoined, CoveredVariant
<1>7. AllCovered("Kont", {Variant(6, "NullishK", Ids(<<"right">>) \o Env \o K)})
  <2>1. "env" \in Traced("Kont", "NullishK") /\ "k" \in Traced("Kont", "NullishK")
    BY DEF Traced, KontTraced
  <2>2. Covered("Kont", "NullishK", Ids(<<"right">>))
    BY CoveredEnds
  <2>3. Covered("Kont", "NullishK", Env)
    BY <2>1, CoveredEnds
  <2>4. Covered("Kont", "NullishK", K)
    BY <2>1, CoveredEnds
  <2> QED
    BY <2>2, <2>3, <2>4, CoveredJoined, CoveredVariant
<1>8. AllCovered("Kont", {Variant(7, "MemberK", Ids(<<"property">>) \o K)})
  <2>1. "k" \in Traced("Kont", "MemberK")
    BY DEF Traced, KontTraced
  <2>2. Covered("Kont", "MemberK", Ids(<<"property">>))
    BY CoveredEnds
  <2>3. Covered("Kont", "MemberK", K)
    BY <2>1, CoveredEnds
  <2> QED
    BY <2>2, <2>3, CoveredJoined, CoveredVariant
<1>9. AllCovered("Kont", {Variant(8, "IndexObjK", Ids(<<"index">>) \o Env \o K)})
  <2>1. "env" \in Traced("Kont", "IndexObjK") /\ "k" \in Traced("Kont", "IndexObjK")
    BY DEF Traced, KontTraced
  <2>2. Covered("Kont", "IndexObjK", Ids(<<"index">>))
    BY CoveredEnds
  <2>3. Covered("Kont", "IndexObjK", Env)
    BY <2>1, CoveredEnds
  <2>4. Covered("Kont", "IndexObjK", K)
    BY <2>1, CoveredEnds
  <2> QED
    BY <2>2, <2>3, <2>4, CoveredJoined, CoveredVariant
<1>10. AllCovered("Kont", {Variant(9, "IndexKeyK", Value1("obj") \o K)})
  <2>1. "obj" \in Traced("Kont", "IndexKeyK") /\ "k" \in Traced("Kont", "IndexKeyK")
    BY DEF Traced, KontTraced
  <2>2. Covered("Kont", "IndexKeyK", Value1("obj"))
    BY <2>1, CoveredEnds
  <2>3. Covered("Kont", "IndexKeyK", K)
    BY <2>1, CoveredEnds
  <2> QED
    BY <2>2, <2>3, CoveredJoined, CoveredVariant
<1>11. AllCovered("Kont", {Variant(10, "AssignVarK", Ids(<<"name">>) \o Env \o K)})
  <2>1. "env" \in Traced("Kont", "AssignVarK") /\ "k" \in Traced("Kont", "AssignVarK")
    BY DEF Traced, KontTraced
  <2>2. Covered("Kont", "AssignVarK", Ids(<<"name">>))
    BY CoveredEnds
  <2>3. Covered("Kont", "AssignVarK", Env)
    BY <2>1, CoveredEnds
  <2>4. Covered("Kont", "AssignVarK", K)
    BY <2>1, CoveredEnds
  <2> QED
    BY <2>2, <2>3, <2>4, CoveredJoined, CoveredVariant
<1>12. AllCovered("Kont", {Variant(11, "UpdateVarK", Ids(<<"name">>) \o Fields(<<"is_pre",
      "is_inc">>, Num("u8")) \o Env \o K)})
  <2>1. "env" \in Traced("Kont", "UpdateVarK") /\ "k" \in Traced("Kont", "UpdateVarK")
    BY DEF Traced, KontTraced
  <2>2. Covered("Kont", "UpdateVarK", Ids(<<"name">>))
    BY CoveredEnds
  <2>3. Covered("Kont", "UpdateVarK", Fields(<<"is_pre", "is_inc">>, Num("u8")))
    BY NoLeads, CoveredPlain
  <2>4. Covered("Kont", "UpdateVarK", Env)
    BY <2>1, CoveredEnds
  <2>5. Covered("Kont", "UpdateVarK", K)
    BY <2>1, CoveredEnds
  <2> QED
    BY <2>2, <2>3, <2>4, <2>5, CoveredJoined, CoveredVariant
<1>13. AllCovered("Kont", {Variant(12, "AssignMemberObjK", Ids(<<"property", "value">>) \o Env
      \o K)})
  <2>1. "env" \in Traced("Kont", "AssignMemberObjK") /\ "k" \in Traced("Kont", "AssignMemberObjK")
    BY DEF Traced, KontTraced
  <2>2. Covered("Kont", "AssignMemberObjK", Ids(<<"property", "value">>))
    BY CoveredEnds
  <2>3. Covered("Kont", "AssignMemberObjK", Env)
    BY <2>1, CoveredEnds
  <2>4. Covered("Kont", "AssignMemberObjK", K)
    BY <2>1, CoveredEnds
  <2> QED
    BY <2>2, <2>3, <2>4, CoveredJoined, CoveredVariant
<1>14. AllCovered("Kont", {Variant(13, "AssignMemberValK", Value1("obj") \o
      Ids(<<"property">>) \o K)})
  <2>1. "obj" \in Traced("Kont", "AssignMemberValK") /\ "k" \in Traced("Kont", "AssignMemberValK")
    BY DEF Traced, KontTraced
  <2>2. Covered("Kont", "AssignMemberValK", Value1("obj"))
    BY <2>1, CoveredEnds
  <2>3. Covered("Kont", "AssignMemberValK", Ids(<<"property">>))
    BY CoveredEnds
  <2>4. Covered("Kont", "AssignMemberValK", K)
    BY <2>1, CoveredEnds
  <2> QED
    BY <2>2, <2>3, <2>4, CoveredJoined, CoveredVariant
<1>15. AllCovered("Kont", {Variant(14, "AssignIndexObjK", Ids(<<"index", "value">>) \o Env \o
      K)})
  <2>1. "env" \in Traced("Kont", "AssignIndexObjK") /\ "k" \in Traced("Kont", "AssignIndexObjK")
    BY DEF Traced, KontTraced
  <2>2. Covered("Kont", "AssignIndexObjK", Ids(<<"index", "value">>))
    BY CoveredEnds
  <2>3. Covered("Kont", "AssignIndexObjK", Env)
    BY <2>1, CoveredEnds
  <2>4. Covered("Kont", "AssignIndexObjK", K)
    BY <2>1, CoveredEnds
  <2> QED
    BY <2>2, <2>3, <2>4, CoveredJoined, CoveredVariant
<1> QED
  BY <1>1, <1>2, <1>3, <1>4, <1>5, <1>6, <1>7, <1>8, <1>9, <1>10, <1>11, <1>12, <1>13, <1>14, <1>15
     DEF AllCovered, WriteOperatorKonts

\* The collector follows the frames of conditions, loops and callees.
LEMMA CoversControlKonts == AllCovered("Kont", WriteControlKonts)
<1>1. AllCovered("Kont", {Variant(15, "AssignIndexKeyK", Value1("obj") \o Ids(<<"value">>) \o
      Env \o K)})
  <2>1. "obj" \in Traced("Kont", "AssignIndexKeyK") /\ "env" \in Traced("Kont", "AssignIndexKeyK")
        /\ "k" \in Traced("Kont", "AssignIndexKeyK")
    BY DEF Traced, KontTraced
  <2>2. Covered("Kont", "AssignIndexKeyK", Value1("obj"))
    BY <2>1, CoveredEnds
  <2>3. Covered("Kont", "AssignIndexKeyK", Ids(<<"value">>))
    BY CoveredEnds
  <2>4. Covered("Kont", "AssignIndexKeyK", Env)
    BY <2>1, CoveredEnds
  <2>5. Covered("Kont", "AssignIndexKeyK", K)
    BY <2>1, CoveredEnds
  <2> QED
    BY <2>2, <2>3, <2>4, <2>5, CoveredJoined, CoveredVariant
<1>2. AllCovered("Kont", {Variant(16, "AssignIndexValK", Value1("obj") \o Value1("key") \o
      K)})
  <2>1. "obj" \in Traced("Kont", "AssignIndexValK") /\ "key" \in Traced("Kont", "AssignIndexValK")
        /\ "k" \in Traced("Kont", "AssignIndexValK")
    BY DEF Traced, KontTraced
  <2>2. Covered("Kont", "AssignIndexValK", Value1("obj"))
    BY <2>1, CoveredEnds
  <2>3. Covered("Kont", "AssignIndexValK", Value1("key"))
    BY <2>1, CoveredEnds
  <2>4. Covered("Kont", "AssignIndexValK", K)
    BY <2>1, CoveredEnds
  <2> QED
    BY <2>2, <2>3, <2>4, CoveredJoined, CoveredVariant
<1>3. AllCovered("Kont", {Variant(17, "IfK", Ids(<<"consequent", "alternate">>) \o Env \o K)})
  <2>1. "env" \in Traced("Kont", "IfK") /\ "k" \in Traced("Kont", "IfK")
    BY DEF Traced, KontTraced
  <2>2. Covered("Kont", "IfK", Ids(<<"consequent", "alternate">>))
    BY CoveredEnds
  <2>3. Covered("Kont", "IfK", Env)
    BY <2>1, CoveredEnds
  <2>4. Covered("Kont", "IfK", K)
    BY <2>1, CoveredEnds
  <2> QED
    BY <2>2, <2>3, <2>4, CoveredJoined, CoveredVariant
<1>4. AllCovered("Kont", {Variant(18, "CondK", Ids(<<"consequent", "alternate">>) \o Env \o
      K)})
  <2>1. "env" \in Traced("Kont", "CondK") /\ "k" \in Traced("Kont", "CondK")
    BY DEF Traced, KontTraced
  <2>2. Covered("Kont", "CondK", Ids(<<"consequent", "alternate">>))
    BY CoveredEnds
  <2>3. Covered("Kont", "CondK", Env)
    BY <2>1, CoveredEnds
  <2>4. Covered("Kont", "CondK", K)
    BY <2>1, CoveredEnds
  <2> QED
    BY <2>2, <2>3, <2>4, CoveredJoined, CoveredVariant
<1>5. AllCovered("Kont", {Variant(19, "WhileK", Ids(<<"test", "body">>) \o Env \o K)})
  <2>1. "env" \in Traced("Kont", "WhileK") /\ "k" \in Traced("Kont", "WhileK")
    BY DEF Traced, KontTraced
  <2>2. Covered("Kont", "WhileK", Ids(<<"test", "body">>))
    BY CoveredEnds
  <2>3. Covered("Kont", "WhileK", Env)
    BY <2>1, CoveredEnds
  <2>4. Covered("Kont", "WhileK", K)
    BY <2>1, CoveredEnds
  <2> QED
    BY <2>2, <2>3, <2>4, CoveredJoined, CoveredVariant
<1>6. AllCovered("Kont", {Variant(20, "WhileBodyK", Ids(<<"test", "body">>) \o Env \o K)})
  <2>1. "env" \in Traced("Kont", "WhileBodyK") /\ "k" \in Traced("Kont", "WhileBodyK")
    BY DEF Traced, KontTraced
  <2>2. Covered("Kont", "WhileBodyK", Ids(<<"test", "body">>))
    BY CoveredEnds
  <2>3. Covered("Kont", "WhileBodyK", Env)
    BY <2>1, CoveredEnds
  <2>4. Covered("Kont", "WhileBodyK", K)
    BY <2>1, CoveredEnds
  <2> QED
    BY <2>2, <2>3, <2>4, CoveredJoined, CoveredVariant
<1>7. AllCovered("Kont", {Variant(21, "ForTestK", Ids(<<"test", "update", "body">>) \o Env \o
      K)})
  <2>1. "env" \in Traced("Kont", "ForTestK") /\ "k" \in Traced("Kont", "ForTestK")
    BY DEF Traced, KontTraced
  <2>2. Covered("Kont", "ForTestK", Ids(<<"test", "update", "body">>))
    BY CoveredEnds
  <2>3. Covered("Kont", "ForTestK", Env)
    BY <2>1, CoveredEnds
  <2>4. Covered("Kont", "ForTestK", K)
    BY <2>1, CoveredEnds
  <2> QED
    BY <2>2, <2>3, <2>4, CoveredJoined, CoveredVariant
<1>8. AllCovered("Kont", {Variant(22, "ForTestResultK", Ids(<<"test", "update", "body">>) \o
      Env \o K)})
  <2>1. "env" \in Traced("Kont", "ForTestResultK") /\ "k" \in Traced("Kont", "ForTestResultK")
    BY DEF Traced, KontTraced
  <2>2. Covered("Kont", "ForTestResultK", Ids(<<"test", "update", "body">>))
    BY CoveredEnds
  <2>3. Covered("Kont", "ForTestResultK", Env)
    BY <2>1, CoveredEnds
  <2>4. Covered("Kont", "ForTestResultK", K)
    BY <2>1, CoveredEnds
  <2> QED
    BY <2>2, <2>3, <2>4, CoveredJoined, CoveredVariant
<1>9. AllCovered("Kont", {Variant(23, "ForBodyK", Ids(<<"test", "update", "body">>) \o Env \o
      K)})
  <2>1. "env" \in Traced("Kont", "ForBodyK") /\ "k" \in Traced("Kont", "ForBodyK")
    BY DEF Traced, KontTraced
  <2>2. Covered("Kont", "ForBodyK", Ids(<<"test", "update", "body">>))
    BY CoveredEnds
  <2>3. Covered("Kont", "ForBodyK", Env)
    BY <2>1, CoveredEnds
  <2>4. Covered("Kont", "ForBodyK", K)
    BY <2>1, CoveredEnds
  <2> QED
    BY <2>2, <2>3, <2>4, CoveredJoined, CoveredVariant
<1>10. AllCovered("Kont", {Variant(24, "ForUpdateK", Ids(<<"test", "update", "body">>) \o Env
      \o K)})
  <2>1. "env" \in Traced("Kont", "ForUpdateK") /\ "k" \in Traced("Kont", "ForUpdateK")
    BY DEF Traced, KontTraced
  <2>2. Covered("Kont", "ForUpdateK", Ids(<<"test", "update", "body">>))
    BY CoveredEnds
  <2>3. Covered("Kont", "ForUpdateK", Env)
    BY <2>1, CoveredEnds
  <2>4. Covered("Kont", "ForUpdateK", K)
    BY <2>1, CoveredEnds
  <2> QED
    BY <2>2, <2>3, <2>4, CoveredJoined, CoveredVariant
<1>11. AllCovered("Kont", {Variant(25, "CalleeK", Ids(<<"args_start">>) \o
      U16(<<"args_count">>) \o Env \o K)})
  <2>1. "env" \in Traced("Kont", "CalleeK") /\ "k" \in Traced("Kont", "CalleeK")
    BY DEF Traced, KontTraced
  <2>2. Covered("Kont", "CalleeK", Ids(<<"args_start">>))
    BY CoveredEnds
  <2>3. Covered("Kont", "CalleeK", U16(<<"args_count">>))
    BY CoveredEnds
  <2>4. Covered("Kont", "CalleeK", Env)
    BY <2>1, CoveredEnds
  <2>5. Covered("Kont", "CalleeK", K)
    BY <2>1, CoveredEnds
  <2> QED
    BY <2>2, <2>3, <2>4, <2>5, CoveredJoined, CoveredVariant
<1> QED
  BY <1>1, <1>2, <1>3, <1>4, <1>5, <1>6, <1>7, <1>8, <1>9, <1>10, <1>11 DEF AllCovered,
     WriteControlKonts

\* The collector follows the frames of arguments, literals, bindings and blocks.
LEMMA CoversCollectingKonts == AllCovered("Kont", WriteCollectingKonts)
<1>1. AllCovered("Kont", {Variant(26, "ArgsK", Value1("callee") \o Values("done") \o
      Ids(<<"args_start">>) \o U16(<<"args_idx", "args_count">>) \o Env \o K)})
  <2>1. "callee" \in Traced("Kont", "ArgsK") /\ "done" \in Traced("Kont", "ArgsK") /\ "env" \in
        Traced("Kont", "ArgsK") /\ "k" \in Traced("Kont", "ArgsK")
    BY DEF Traced, KontTraced
  <2>2. Covered("Kont", "ArgsK", Value1("callee"))
    BY <2>1, CoveredEnds
  <2>3. Covered("Kont", "ArgsK", Values("done"))
    BY <2>1, CoveredEnds
  <2>4. Covered("Kont", "ArgsK", Ids(<<"args_start">>))
    BY CoveredEnds
  <2>5. Covered("Kont", "ArgsK", U16(<<"args_idx", "args_count">>))
    BY CoveredEnds
  <2>6. Covered("Kont", "ArgsK", Env)
    BY <2>1, CoveredEnds
  <2>7. Covered("Kont", "ArgsK", K)
    BY <2>1, CoveredEnds
  <2> QED
    BY <2>2, <2>3, <2>4, <2>5, <2>6, <2>7, CoveredJoined, CoveredVariant
<1>2. AllCovered("Kont", {Variant(27, "ReturnK", Env \o K)})
  <2>1. "env" \in Traced("Kont", "ReturnK") /\ "k" \in Traced("Kont", "ReturnK")
    BY DEF Traced, KontTraced
  <2>2. Covered("Kont", "ReturnK", Env)
    BY <2>1, CoveredEnds
  <2>3. Covered("Kont", "ReturnK", K)
    BY <2>1, CoveredEnds
  <2> QED
    BY <2>2, <2>3, CoveredJoined, CoveredVariant
<1>3. AllCovered("Kont", {Variant(28, "ReturnExprK", K)})
  <2>1. "k" \in Traced("Kont", "ReturnExprK")
    BY DEF Traced, KontTraced
  <2>2. Covered("Kont", "ReturnExprK", K)
    BY <2>1, CoveredEnds
  <2> QED
    BY <2>2, CoveredVariant
<1>4. AllCovered("Kont", {Variant(29, "ArrayK", Values("done") \o Ids(<<"elems_start">>) \o
      U16(<<"elems_idx", "elems_count">>) \o Env \o K)})
  <2>1. "done" \in Traced("Kont", "ArrayK") /\ "env" \in Traced("Kont", "ArrayK") /\ "k" \in
        Traced("Kont", "ArrayK")
    BY DEF Traced, KontTraced
  <2>2. Covered("Kont", "ArrayK", Values("done"))
    BY <2>1, CoveredEnds
  <2>3. Covered("Kont", "ArrayK", Ids(<<"elems_start">>))
    BY CoveredEnds
  <2>4. Covered("Kont", "ArrayK", U16(<<"elems_idx", "elems_count">>))
    BY CoveredEnds
  <2>5. Covered("Kont", "ArrayK", Env)
    BY <2>1, CoveredEnds
  <2>6. Covered("Kont", "ArrayK", K)
    BY <2>1, CoveredEnds
  <2> QED
    BY <2>2, <2>3, <2>4, <2>5, <2>6, CoveredJoined, CoveredVariant
<1>5. AllCovered("Kont", {Variant(30, "ObjectK", Fields(<<"done">>, Many(One("Binding"))) \o
      Ids(<<"props_start">>) \o U16(<<"props_idx", "props_count">>) \o Env \o K)})
  <2>1. "done" \in Traced("Kont", "ObjectK") /\ "env" \in Traced("Kont", "ObjectK") /\ "k" \in
        Traced("Kont", "ObjectK")
    BY DEF Traced, KontTraced
  <2>2. Covered("Kont", "ObjectK", Fields(<<"done">>, Many(One("Binding"))))
    BY <2>1, CoveredFollowed
  <2>3. Covered("Kont", "ObjectK", Ids(<<"props_start">>))
    BY CoveredEnds
  <2>4. Covered("Kont", "ObjectK", U16(<<"props_idx", "props_count">>))
    BY CoveredEnds
  <2>5. Covered("Kont", "ObjectK", Env)
    BY <2>1, CoveredEnds
  <2>6. Covered("Kont", "ObjectK", K)
    BY <2>1, CoveredEnds
  <2> QED
    BY <2>2, <2>3, <2>4, <2>5, <2>6, CoveredJoined, CoveredVariant
<1>6. AllCovered("Kont", {Variant(31, "LetK", Ids(<<"name">>) \o Env \o K)})
  <2>1. "env" \in Traced("Kont", "LetK") /\ "k" \in Traced("Kont", "LetK")
    BY DEF Traced, KontTraced
  <2>2. Covered("Kont", "LetK", Ids(<<"name">>))
    BY CoveredEnds
  <2>3. Covered("Kont", "LetK", Env)
    BY <2>1, CoveredEnds
  <2>4. Covered("Kont", "LetK", K)
    BY <2>1, CoveredEnds
  <2> QED
    BY <2>2, <2>3, <2>4, CoveredJoined, CoveredVariant
<1>7. AllCovered("Kont", {Variant(32, "ConstK", Ids(<<"name">>) \o Env \o K)})
  <2>1. "env" \in Traced("Kont", "ConstK") /\ "k" \in Traced("Kont", "ConstK")
    BY DEF Traced, KontTraced
  <2>2. Covered("Kont", "ConstK", Ids(<<"name">>))
    BY CoveredEnds
  <2>3. Covered("Kont", "ConstK", Env)
    BY <2>1, CoveredEnds
  <2>4. Covered("Kont", "ConstK", K)
    BY <2>1, CoveredEnds
  <2> QED
    BY <2>2, <2>3, <2>4, CoveredJoined, CoveredVariant
<1>8. AllCovered("Kont", {Variant(33, "VarK", Ids(<<"name">>) \o Env \o K)})
  <2>1. "env" \in Traced("Kont", "VarK") /\ "k" \in Traced("Kont", "VarK")
    BY DEF Traced, KontTraced
  <2>2. Covered("Kont", "VarK", Ids(<<"name">>))
    BY CoveredEnds
  <2>3. Covered("Kont", "VarK", Env)
    BY <2>1, CoveredEnds
  <2>4. Covered("Kont", "VarK", K)
    BY <2>1, CoveredEnds
  <2> QED
    BY <2>2, <2>3, <2>4, CoveredJoined, CoveredVariant
<1>9. AllCovered("Kont", {Variant(34, "SeqK", Ids(<<"stmts_start", "stmts_idx",
      "stmts_count">>) \o Env \o K)})
  <2>1. "env" \in Traced("Kont", "SeqK") /\ "k" \in Traced("Kont", "SeqK")
    BY DEF Traced, KontTraced
  <2>2. Covered("Kont", "SeqK", Ids(<<"stmts_start", "stmts_idx", "stmts_count">>))
    BY CoveredEnds
  <2>3. Covered("Kont", "SeqK", Env)
    BY <2>1, CoveredEnds
  <2>4. Covered("Kont", "SeqK", K)
    BY <2>1, CoveredEnds
  <2> QED
    BY <2>2, <2>3, <2>4, CoveredJoined, CoveredVariant
<1>10. AllCovered("Kont", {Variant(35, "ExprStmtK", K)})
  <2>1. "k" \in Traced("Kont", "ExprStmtK")
    BY DEF Traced, KontTraced
  <2>2. Covered("Kont", "ExprStmtK", K)
    BY <2>1, CoveredEnds
  <2> QED
    BY <2>2, CoveredVariant
<1>11. AllCovered("Kont", {Variant(36, "BlockK", Ids(<<"stmts_start", "stmts_idx",
      "stmts_count", "final_expr">>) \o Env \o K)})
  <2>1. "env" \in Traced("Kont", "BlockK") /\ "k" \in Traced("Kont", "BlockK")
    BY DEF Traced, KontTraced
  <2>2. Covered("Kont", "BlockK", Ids(<<"stmts_start", "stmts_idx", "stmts_count", "final_expr">>))
    BY CoveredEnds
  <2>3. Covered("Kont", "BlockK", Env)
    BY <2>1, CoveredEnds
  <2>4. Covered("Kont", "BlockK", K)
    BY <2>1, CoveredEnds
  <2> QED
    BY <2>2, <2>3, <2>4, CoveredJoined, CoveredVariant
<1> QED
  BY <1>1, <1>2, <1>3, <1>4, <1>5, <1>6, <1>7, <1>8, <1>9, <1>10, <1>11 DEF AllCovered,
     WriteCollectingKonts

\* The collector follows the frames of matches, handlers and effects.
LEMMA CoversEffectKonts == AllCovered("Kont", WriteEffectKonts)
<1>1. AllCovered("Kont", {Variant(37, "MatchK", Ids(<<"arms_start">>) \o U16(<<"arms_idx",
      "arms_count">>) \o Env \o K)})
  <2>1. "env" \in Traced("Kont", "MatchK") /\ "k" \in Traced("Kont", "MatchK")
    BY DEF Traced, KontTraced
  <2>2. Covered("Kont", "MatchK", Ids(<<"arms_start">>))
    BY CoveredEnds
  <2>3. Covered("Kont", "MatchK", U16(<<"arms_idx", "arms_count">>))
    BY CoveredEnds
  <2>4. Covered("Kont", "MatchK", Env)
    BY <2>1, CoveredEnds
  <2>5. Covered("Kont", "MatchK", K)
    BY <2>1, CoveredEnds
  <2> QED
    BY <2>2, <2>3, <2>4, <2>5, CoveredJoined, CoveredVariant
<1>2. AllCovered("Kont", {Variant(38, "HandlerK", Ids(<<"clauses_start">>) \o
      U16(<<"clauses_count">>) \o Env \o Ids(<<"return_body", "return_param">>) \o K)})
  <2>1. "env" \in Traced("Kont", "HandlerK") /\ "k" \in Traced("Kont", "HandlerK")
    BY DEF Traced, KontTraced
  <2>2. Covered("Kont", "HandlerK", Ids(<<"clauses_start">>))
    BY CoveredEnds
  <2>3. Covered("Kont", "HandlerK", U16(<<"clauses_count">>))
    BY CoveredEnds
  <2>4. Covered("Kont", "HandlerK", Env)
    BY <2>1, CoveredEnds
  <2>5. Covered("Kont", "HandlerK", Ids(<<"return_body", "return_param">>))
    BY CoveredEnds
  <2>6. Covered("Kont", "HandlerK", K)
    BY <2>1, CoveredEnds
  <2> QED
    BY <2>2, <2>3, <2>4, <2>5, <2>6, CoveredJoined, CoveredVariant
<1>3. AllCovered("Kont", {Variant(39, "PerformArgsK", Ids(<<"effect">>) \o Values("done") \o
      Ids(<<"args_start">>) \o U16(<<"args_idx", "args_count">>) \o Env \o K)})
  <2>1. "done" \in Traced("Kont", "PerformArgsK") /\ "env" \in Traced("Kont", "PerformArgsK") /\ "k"
        \in Traced("Kont", "PerformArgsK")
    BY DEF Traced, KontTraced
  <2>2. Covered("Kont", "PerformArgsK", Ids(<<"effect">>))
    BY CoveredEnds
  <2>3. Covered("Kont", "PerformArgsK", Values("done"))
    BY <2>1, CoveredEnds
  <2>4. Covered("Kont", "PerformArgsK", Ids(<<"args_start">>))
    BY CoveredEnds
  <2>5. Covered("Kont", "PerformArgsK", U16(<<"args_idx", "args_count">>))
    BY CoveredEnds
  <2>6. Covered("Kont", "PerformArgsK", Env)
    BY <2>1, CoveredEnds
  <2>7. Covered("Kont", "PerformArgsK", K)
    BY <2>1, CoveredEnds
  <2> QED
    BY <2>2, <2>3, <2>4, <2>5, <2>6, <2>7, CoveredJoined, CoveredVariant
<1>4. AllCovered("Kont", {Variant(40, "HandleWithK", Ids(<<"body">>) \o Env \o K)})
  <2>1. "env" \in Traced("Kont", "HandleWithK") /\ "k" \in Traced("Kont", "HandleWithK")
    BY DEF Traced, KontTraced
  <2>2. Covered("Kont", "HandleWithK", Ids(<<"body">>))
    BY CoveredEnds
  <2>3. Covered("Kont", "HandleWithK", Env)
    BY <2>1, CoveredEnds
  <2>4. Covered("Kont", "HandleWithK", K)
    BY <2>1, CoveredEnds
  <2> QED
    BY <2>2, <2>3, <2>4, CoveredJoined, CoveredVariant
<1> QED
  BY <1>1, <1>2, <1>3, <1>4 DEF AllCovered, WriteEffectKonts

\* Every field that can lead to an id is followed, in every variant.
LEMMA FollowsAll == FollowsIds
<1>1. ASSUME NEW T \in TracedTypes PROVE AllCovered(T, Written[T])
  <2>1. Written["Kont"] = WriteKont
    BY WrittenIs
  <2>2. AllCovered("Kont", WriteKont)
    BY CoversOperatorKonts, CoversControlKonts, CoversCollectingKonts, CoversEffectKonts
       DEF AllCovered, WriteKont
  <2> QED
    BY <2>1, <2>2, WrittenIs, CoversValue, CoversObject, CoversProperty, CoversObjectKind,
       CoversEnv, CoversBinding, CoversHandler, CoversControl, CoversFiberStatus, CoversFiber
       DEF TracedTypes
<1>2. ASSUME NEW T \in TracedTypes, NEW v \in Written[T], NEW i \in DOMAIN v.fields,
             CanHold(v.fields[i].type)
      PROVE  v.fields[i].name \in Traced(T, v.is)
  BY <1>1, <1>2 DEF AllCovered, Covered
<1> QED
  BY <1>2, Zenon DEF FollowsIds, CanHold

\* Whatever frame, value, object, environment, handler or root a collection meets, it
\* follows every field that can lead to an id, and so TracesEveryReference holds.
THEOREM TracesEveryReferenceHolds == Spec => []TracesEveryReference
<1>1. TracesEveryReference
  BY FollowsAll DEF TracesEveryReference
<1> QED
  BY <1>1, PTL

==============================================================================
