----------------------------- MODULE CodecProofs -----------------------------
(***************************************************************************)
(* The codec of src/snapshot.rs: what the tables of SnapshotWriter write,  *)
(* the tables of SnapshotReader read back.  The two sides are compared     *)
(* type by type and variant by variant: each value of each variant,        *)
(* however deep, is read as it was written, once its fields are.           *)
(***************************************************************************)
EXTENDS HeapProofs

-----------------------------------------------------------------------------
(* Sequences of sequences, put together.                                   *)

Listed(s) == \E A : s \in Seq(A)

\* How sequences are put together, one after another.
LEMMA FlatIs ==
    ASSUME NEW A, NEW ss \in Seq(Seq(A))
    PROVE  \E f : /\ f[0] = <<>> /\ \A n \in 1 .. Len(ss) : f[n] = f[n - 1] \o ss[n]
                  /\ \A n \in 0 .. Len(ss) : f[n] \in Seq(A)
                  /\ FlattenSeq(ss) = f[Len(ss)]
<1> DEFINE B == Seq(A)
           N == Len(ss)
           In == [n \in 0 .. N |-> B]
           step == [p \in (1 .. N) \X B |-> p[2] \o ss[p[1]]]
           Flat(u) == u = [i \in 1 .. N |-> IF i = 1 THEN ss[i] ELSE u[i - 1] \o ss[i]]
           g == CHOOSE u : Flat(u)
<1>1. N \in Nat /\ \A n \in 1 .. N : ss[n] \in B
  OBVIOUS
<1>2. <<>> \in B
  BY SMT
<1>3. \A s, t \in B : s \o t \in B
  BY SMT
<1>4. \A s \in B : <<>> \o s = s
  BY ConcatEmptySeq
<1> HIDE DEF B
<1>5. /\ 0 \in 0 .. N /\ N \in 0 .. N /\ (N # 0 => 1 \in 1 .. N)
      /\ \A n \in 1 .. N : n \in 0 .. N /\ n - 1 \in 0 .. N /\ n # 0
      /\ \A n \in 1 .. N : n # 1 => n - 1 \in 1 .. N
      /\ \A n \in 0 .. N : n # 0 => n \in 1 .. N
      /\ 1 - 1 = 0
  BY <1>1, SMT
<1> HIDE DEF N
<1>6. ASSUME NEW n \in 1 .. N, NEW s \in B
      PROVE  step[<<n, s>>] = s \o ss[n] /\ s \o ss[n] \in B
  BY <1>1, <1>3
<1>7. \A n \in 1 .. N : \A s \in In[n - 1] : step[<<n, s>>] \in In[n]
  BY <1>5, <1>6
<1>8. <<>> \in In[0]
  BY <1>2, <1>5
<1> HIDE DEF step
<1>9. PICK f : /\ f = [n \in 0 .. N |-> f[n]]
               /\ f[0] = <<>>
               /\ \A n \in 1 .. N : f[n] = step[<<n, f[n - 1]>>]
               /\ \A n \in 0 .. N : f[n] \in In[n]
  <2> HIDE DEF In
  <2>1. \E f : Stepped(f, N, <<>>, step, In)
    BY <1>1, <1>7, <1>8, StepByStep
  <2> QED
    BY <2>1 DEF Stepped
<1>10. \A n \in 0 .. N : f[n] \in B
  BY <1>9
<1>11. \A n \in 1 .. N : f[n] = f[n - 1] \o ss[n]
  BY <1>5, <1>6, <1>9, <1>10
<1>12. CASE N = 0
  <2>1. FlattenSeq(ss) = ss
    BY <1>12 DEF FlattenSeq, N
  <2>2. ss = <<>>
    BY <1>12 DEF N
  <2>3. f[0] = <<>> /\ (\A n \in 1 .. N : f[n] = f[n - 1] \o ss[n])
        /\ (\A n \in 0 .. N : f[n] \in Seq(A)) /\ FlattenSeq(ss) = f[N]
    BY <1>9, <1>10, <1>11, <1>12, <2>1, <2>2 DEF B
  <2> QED
    BY <2>3 DEF N
<1>13. CASE N # 0
  <2> DEFINE u == [i \in 1 .. N |-> f[i]]
  <2>1. \A i \in 1 .. N : u[i] = IF i = 1 THEN ss[i] ELSE u[i - 1] \o ss[i]
    <3> SUFFICES ASSUME NEW i \in 1 .. N PROVE u[i] = IF i = 1 THEN ss[i] ELSE u[i - 1] \o ss[i]
      OBVIOUS
    <3>1. CASE i = 1
      <4>1. f[i] = f[0] \o ss[i]
        BY <1>5, <1>11, <3>1
      <4>2. <<>> \o ss[i] = ss[i]
        BY <1>1, <1>4
      <4> QED
        BY <1>9, <3>1, <4>1, <4>2
    <3>2. CASE i # 1
      <4>1. i - 1 \in 1 .. N
        BY <1>5, <3>2
      <4>2. u[i - 1] = f[i - 1] /\ u[i] = f[i]
        BY <4>1
      <4> QED
        BY <1>11, <3>2, <4>2
    <3> QED
      BY <3>1, <3>2
  <2>2. Flat(u)
    <3>1. u = [i \in 1 .. N |-> u[i]]
      OBVIOUS
    <3> HIDE DEF u
    <3> QED
      BY <2>1, <3>1, Zenon
  <2>3. Flat(g)
    <3> HIDE DEF Flat, u
    <3> QED
      BY <2>2
  <2>4. FlattenSeq(ss) = g[N]
    BY <1>13, Zenon DEF FlattenSeq, N
  <2> HIDE DEF g
  <2>5. \A i \in 1 .. N : g[i] = IF i = 1 THEN ss[i] ELSE g[i - 1] \o ss[i]
    BY <2>3
  <2> DEFINE h == [n \in 0 .. N |-> IF n = 0 THEN <<>> ELSE g[n]]
  <2>6. h[0] = f[0]
    BY <1>5, <1>9
  <2>7. \A n \in 1 .. N : h[n - 1] = f[n - 1] => h[n] = f[n]
    <3> SUFFICES ASSUME NEW n \in 1 .. N, h[n - 1] = f[n - 1] PROVE h[n] = f[n]
      OBVIOUS
    <3>1. h[n] = g[n]
      BY <1>5
    <3>2. CASE n = 1
      <4>1. f[n] = f[0] \o ss[n] /\ g[n] = ss[n]
        BY <1>5, <1>11, <2>5, <3>2
      <4>2. <<>> \o ss[n] = ss[n]
        BY <1>1, <1>4
      <4> QED
        BY <1>9, <3>1, <4>1, <4>2
    <3>3. CASE n # 1
      <4>1. n - 1 \in 1 .. N /\ n - 1 \in 0 .. N /\ n - 1 # 0
        BY <1>5, <3>3
      <4>2. h[n - 1] = g[n - 1]
        BY <4>1
      <4>3. g[n] = g[n - 1] \o ss[n]
        BY <2>5, <3>3
      <4> QED
        BY <1>11, <3>1, <4>2, <4>3
    <3> QED
      BY <3>2, <3>3
  <2>8. h[N] = g[N]
    BY <1>5, <1>13
  <2> HIDE DEF h
  <2>9. \A n \in 0 .. N : h[n] = f[n]
    <3>1. N \in Nat
      BY <1>1
    <3>2. Alike(N, h, f)
      BY <3>1, EachAlike
    <3> QED
      BY <2>6, <2>7, <3>2 DEF Alike
  <2>10. FlattenSeq(ss) = f[N]
    BY <1>5, <2>4, <2>8, <2>9
  <2>11. f[0] = <<>> /\ (\A n \in 1 .. N : f[n] = f[n - 1] \o ss[n])
        /\ (\A n \in 0 .. N : f[n] \in Seq(A)) /\ FlattenSeq(ss) = f[N]
    BY <1>9, <1>10, <1>11, <2>10 DEF B
  <2> QED
    BY <2>11 DEF N
<1> QED
  BY <1>12, <1>13

\* Lists put together one after the other are flattened one after the other.
LEMMA FlatCat ==
    ASSUME NEW A, NEW a \in Seq(Seq(A)), NEW b \in Seq(Seq(A))
    PROVE  /\ FlattenSeq(a \o b) = FlattenSeq(a) \o FlattenSeq(b)
           /\ FlattenSeq(a) \in Seq(A)
<1> DEFINE B == Seq(A)
           L == Len(a)
           M == Len(b)
           c == a \o b
<1>1. /\ L \in Nat /\ M \in Nat /\ Len(c) = L + M /\ c \in Seq(B)
      /\ \A n \in 1 .. L : c[n] = a[n] /\ a[n] \in B
      /\ \A n \in 1 .. M : c[L + n] = b[n] /\ b[n] \in B
  <2> HIDE DEF B
  <2>1. L \in Nat /\ M \in Nat /\ Len(c) = L + M /\ c \in Seq(B)
    BY DEF B
  <2>2. \A n \in 1 .. L : c[n] = a[n] /\ a[n] \in B
    BY DEF B
  <2>3. \A n \in 1 .. M : c[L + n] = b[n] /\ b[n] \in B
    BY DEF B
  <2> QED
    BY <2>1, <2>2, <2>3
<1> HIDE DEF c
<1>2. PICK f : /\ f[0] = <<>> /\ \A n \in 1 .. L : f[n] = f[n - 1] \o a[n]
               /\ \A n \in 0 .. L : f[n] \in B
               /\ FlattenSeq(a) = f[L]
  BY FlatIs
<1>3. PICK g : /\ g[0] = <<>> /\ \A n \in 1 .. M : g[n] = g[n - 1] \o b[n]
               /\ \A n \in 0 .. M : g[n] \in B
               /\ FlattenSeq(b) = g[M]
  BY FlatIs
<1>4. PICK h : /\ h[0] = <<>> /\ \A n \in 1 .. L + M : h[n] = h[n - 1] \o c[n]
               /\ FlattenSeq(c) = h[L + M]
  <2>1. c \in Seq(Seq(A)) /\ Len(c) = L + M
    BY <1>1
  <2> HIDE DEF L, M, B
  <2>2. \E h : /\ h[0] = <<>> /\ \A n \in 1 .. Len(c) : h[n] = h[n - 1] \o c[n]
               /\ FlattenSeq(c) = h[Len(c)]
    BY <2>1, FlatIs
  <2> QED
    BY <2>1, <2>2
<1>5. \A s, t, u \in B : (s \o t) \o u = s \o (t \o u)
  BY ConcatAssociative
<1>6. \A s \in B : s \o <<>> = s
  BY ConcatEmptySeq
<1> HIDE DEF B, L, M
<1>7. /\ \A n \in 1 .. L : n \in 1 .. L + M /\ n - 1 \in 0 .. L
      /\ \A n \in 1 .. M : L + n \in 1 .. L + M /\ (L + n) - 1 = L + (n - 1) /\ n - 1 \in 0 .. M
      /\ L \in 0 .. L /\ M \in 0 .. M /\ 0 \in 0 .. M /\ L + 0 = L
      /\ \A n \in 1 .. M : n \in 0 .. M
  BY <1>1, SMT
<1>8. \A n \in 0 .. L : h[n] = f[n]
  <2>1. h[0] = f[0]
    BY <1>2, <1>4
  <2>2. \A n \in 1 .. L : h[n - 1] = f[n - 1] => h[n] = f[n]
    BY <1>1, <1>2, <1>4, <1>7
  <2>3. L \in Nat
    BY <1>1
  <2>4. Alike(L, h, f)
    BY <2>3, EachAlike
  <2> QED
    BY <2>1, <2>2, <2>4 DEF Alike
<1> DEFINE p == [n \in 0 .. M |-> h[L + n]]
           q == [n \in 0 .. M |-> f[L] \o g[n]]
<1>9. p[0] = q[0]
  <2>1. p[0] = h[L] /\ q[0] = f[L] \o <<>>
    BY <1>3, <1>7
  <2> QED
    BY <1>2, <1>6, <1>7, <1>8, <2>1
<1>10. \A n \in 1 .. M : p[n - 1] = q[n - 1] => p[n] = q[n]
  <2> SUFFICES ASSUME NEW n \in 1 .. M, p[n - 1] = q[n - 1] PROVE p[n] = q[n]
    OBVIOUS
  <2>1. p[n] = h[L + n] /\ q[n] = f[L] \o g[n] /\ p[n - 1] = h[L + (n - 1)]
        /\ q[n - 1] = f[L] \o g[n - 1]
    BY <1>7
  <2>2. h[L + n] = h[L + (n - 1)] \o b[n]
    BY <1>1, <1>4, <1>7
  <2>3. g[n] = g[n - 1] \o b[n]
    BY <1>3
  <2>4. f[L] \in B /\ g[n - 1] \in B /\ b[n] \in B
    BY <1>1, <1>2, <1>3, <1>7
  <2> HIDE DEF p, q
  <2>5. (f[L] \o g[n - 1]) \o b[n] = f[L] \o (g[n - 1] \o b[n])
    BY <1>5, <2>4
  <2> QED
    BY <2>1, <2>2, <2>3, <2>5
<1>11. p[M] = h[L + M] /\ q[M] = f[L] \o g[M]
  BY <1>7
<1> HIDE DEF p, q
<1>12. \A n \in 0 .. M : p[n] = q[n]
  <2>1. M \in Nat
    BY <1>1
  <2>2. Alike(M, p, q)
    BY <2>1, EachAlike
  <2> QED
    BY <1>9, <1>10, <2>2 DEF Alike
<1>13. h[L + M] = f[L] \o g[M]
  BY <1>7, <1>11, <1>12
<1> QED
  BY <1>2, <1>3, <1>4, <1>7, <1>13 DEF B, c

\* One list, and none, flattened.
LEMMA FlatOne ==
    ASSUME NEW A, NEW s \in Seq(A)
    PROVE  FlattenSeq(<<s>>) = s /\ FlattenSeq(<<>>) = <<>>
<1>1. <<s>> \in Seq(Seq(A)) /\ Len(<<s>>) = 1 /\ <<s>>[1] = s
  OBVIOUS
<1>2. PICK f : /\ f[0] = <<>> /\ \A n \in 1 .. Len(<<s>>) : f[n] = f[n - 1] \o <<s>>[n]
               /\ FlattenSeq(<<s>>) = f[Len(<<s>>)]
  BY <1>1, FlatIs
<1>3. f[1] = f[0] \o s
  <2>1. 1 \in 1 .. 1 /\ 1 - 1 = 0
    BY SMT
  <2> QED
    BY <1>1, <1>2, <2>1
<1>4. <<>> \o s = s
  BY ConcatEmptySeq
<1>5. FlattenSeq(<<>>) = <<>>
  BY DEF FlattenSeq
<1> QED
  BY <1>1, <1>2, <1>3, <1>4, <1>5

-----------------------------------------------------------------------------
(* Writing, round by round.                                                *)

\* s after n rounds of writing what is still to be written.
After(s, n) == Unfolded(Written, s, n)

\* The rounds of writing, one by one.
LEMMA Rounds ==
    ASSUME NEW s
    PROVE  /\ After(s, 0) = s
           /\ \A n \in Nat : After(s, n + 1) = Unfold(Written, After(s, n))
<1> DEFINE Up(m, f) == f = [n \in 0 .. m |-> IF n = 0 THEN s ELSE Unfold(Written, f[n - 1])]
           S == {m \in Nat : \E f : Up(m, f)}
           g(m) == CHOOSE f : Up(m, f)
<1>1. 0 \in S
  <2> DEFINE f == [n \in 0 .. 0 |-> s]
  <2>1. \A n \in 0 .. 0 : n = 0
    BY SMT
  <2>2. f = [n \in 0 .. 0 |-> IF n = 0 THEN s ELSE Unfold(Written, f[n - 1])]
    BY <2>1
  <2> QED
    BY <2>2
<1>2. ASSUME NEW m \in Nat, m \in S PROVE m + 1 \in S
  <2>1. PICK f : Up(m, f)
    BY <1>2
  <2> DEFINE h == [n \in 0 .. m + 1 |-> IF n = m + 1 THEN Unfold(Written, f[m]) ELSE f[n]]
             k == [n \in 0 .. m + 1 |-> IF n = 0 THEN s ELSE Unfold(Written, h[n - 1])]
  <2>2. \A n \in 0 .. m : h[n] = f[n] /\ n \in 0 .. m + 1
    BY SMT
  <2>3. h[m + 1] = Unfold(Written, f[m])
    BY SMT
  <2>4. \A n \in 0 .. m : f[n] = IF n = 0 THEN s ELSE Unfold(Written, f[n - 1])
    <3> HIDE DEF h, k
    <3>1. f = [n \in 0 .. m |-> IF n = 0 THEN s ELSE Unfold(Written, f[n - 1])]
      BY <2>1
    <3> QED
      BY <3>1, Zenon
  <2>5. ASSUME NEW n \in 0 .. m + 1 PROVE h[n] = k[n]
    <3>1. k[n] = IF n = 0 THEN s ELSE Unfold(Written, h[n - 1])
      OBVIOUS
    <3> HIDE DEF k, h
    <3>2. CASE n \in 0 .. m
      <4>1. n # 0 => n - 1 \in 0 .. m
        BY <3>2, SMT
      <4> QED
        BY <2>2, <2>4, <3>1, <3>2, <4>1
    <3>3. CASE n = m + 1
      <4>1. n # 0 /\ n - 1 = m /\ m \in 0 .. m
        BY <3>3, SMT
      <4> QED
        BY <2>2, <2>3, <3>1, <3>3, <4>1
    <3> QED
      BY <3>2, <3>3, SMT
  <2>6. h = k
    <3>1. \A n \in 0 .. m + 1 : h[n] = k[n]
      BY <2>5
    <3> QED
      BY <3>1, Zenon
  <2>7. Up(m + 1, h)
    BY <2>6
  <2> HIDE DEF h
  <2> QED
    BY <2>7
<1> HIDE DEF S
<1>3. Nat \subseteq S
  BY <1>1, <1>2, SetInduction
<1> HIDE DEF Up
<1>4. \A m \in Nat : Up(m, g(m))
  BY <1>3 DEF S
<1>5. \A m : After(s, m) = g(m)[m]
  BY DEF After, Unfolded, Up
<1> HIDE DEF g
<1>6. \A m \in Nat : \A n \in 0 .. m : g(m)[n] = IF n = 0 THEN s ELSE Unfold(Written, g(m)[n - 1])
  <2> SUFFICES ASSUME NEW m \in Nat PROVE \A n \in 0 .. m :
                    g(m)[n] = IF n = 0 THEN s ELSE Unfold(Written, g(m)[n - 1])
    OBVIOUS
  <2>1. Up(m, g(m))
    BY <1>4
  <2> DEFINE f == g(m)
  <2>2. f = [n \in 0 .. m |-> IF n = 0 THEN s ELSE Unfold(Written, f[n - 1])]
    BY <2>1 DEF Up
  <2> HIDE DEF f
  <2>3. \A n \in 0 .. m : f[n] = IF n = 0 THEN s ELSE Unfold(Written, f[n - 1])
    BY <2>2, Zenon
  <2> QED
    BY <2>3 DEF f
<1>7. After(s, 0) = s
  <2>1. 0 \in Nat /\ 0 \in 0 .. 0
    BY SMT
  <2> QED
    BY <1>5, <1>6, <2>1
<1>8. ASSUME NEW n \in Nat PROVE After(s, n + 1) = Unfold(Written, After(s, n))
  <2> DEFINE f == g(n)
             h == g(n + 1)
  <2>0. n \in Nat /\ n + 1 \in Nat /\ 0 \in 0 .. n /\ 0 \in 0 .. n + 1 /\ n \in 0 .. n
            /\ n + 1 \in 0 .. n + 1
        /\ n + 1 # 0 /\ (n + 1) - 1 = n
    BY SMT
  <2>1. \A i \in 1 .. n : i \in 0 .. n /\ i \in 0 .. n + 1 /\ i # 0
    BY SMT
  <2>2. f[0] = h[0]
    BY <1>6, <2>0
  <2>3. \A i \in 1 .. n : f[i - 1] = h[i - 1] => f[i] = h[i]
    <3>1. \A i \in 1 .. n : f[i] = Unfold(Written, f[i - 1]) /\ h[i] = Unfold(Written, h[i - 1])
      BY <1>6, <2>0, <2>1
    <3> QED
      BY <3>1
  <2>4. h[n + 1] = Unfold(Written, h[n])
    BY <1>6, <2>0
  <2> HIDE DEF f, h
  <2>5. \A i \in 0 .. n : f[i] = h[i]
    <3>1. Alike(n, f, h)
      BY EachAlike
    <3> QED
      BY <2>2, <2>3, <3>1 DEF Alike
  <2>6. After(s, n) = f[n] /\ After(s, n + 1) = h[n + 1]
    BY <1>5 DEF f, h
  <2> QED
    BY <2>0, <2>4, <2>5, <2>6
<1> QED
  BY <1>7, <1>8

\* A round now or later.
LEMMA Shifted ==
    ASSUME NEW s, NEW n \in Nat
    PROVE  After(s, n + 1) = After(Unfold(Written, s), n)
<1> DEFINE f == [i \in 0 .. n |-> After(s, i + 1)]
           g == [i \in 0 .. n |-> After(Unfold(Written, s), i)]
<1>1. /\ 0 \in 0 .. n /\ n \in 0 .. n /\ 0 + 1 = 1 /\ 0 \in Nat
      /\ \A i \in 1 .. n : i \in 0 .. n /\ i - 1 \in 0 .. n /\ i - 1 \in Nat /\ i \in Nat
             /\ (i - 1) + 1 = i
  BY SMT
<1>2. f[0] = g[0]
  <2>1. f[0] = After(s, 0 + 1) /\ g[0] = After(Unfold(Written, s), 0)
    BY <1>1
  <2>2. After(s, 0 + 1) = Unfold(Written, After(s, 0))
    BY <1>1, Rounds, Zenon
  <2>3. After(s, 0) = s /\ After(Unfold(Written, s), 0) = Unfold(Written, s)
    BY Rounds
  <2> QED
    BY <2>1, <2>2, <2>3
<1>3. \A i \in 1 .. n : f[i - 1] = g[i - 1] => f[i] = g[i]
  <2> SUFFICES ASSUME NEW i \in 1 .. n, f[i - 1] = g[i - 1] PROVE f[i] = g[i]
    OBVIOUS
  <2>1. /\ f[i - 1] = After(s, (i - 1) + 1) /\ f[i] = After(s, i + 1)
        /\ g[i - 1] = After(Unfold(Written, s), i - 1) /\ g[i] = After(Unfold(Written, s), i)
    BY <1>1
  <2>2. After(s, i + 1) = Unfold(Written, After(s, i))
    BY <1>1, Rounds, Zenon
  <2>3. After(Unfold(Written, s), (i - 1) + 1) = Unfold(Written, After(Unfold(Written, s), i - 1))
    BY <1>1, Rounds, Zenon
  <2> HIDE DEF f, g
  <2> QED
    BY <1>1, <2>1, <2>2, <2>3
<1>4. f[n] = After(s, n + 1) /\ g[n] = After(Unfold(Written, s), n)
  BY <1>1
<1> HIDE DEF f, g
<1>5. \A i \in 0 .. n : f[i] = g[i]
  <2>1. Alike(n, f, g)
    BY EachAlike
  <2> QED
    BY <1>2, <1>3, <2>1 DEF Alike
<1> QED
  BY <1>1, <1>4, <1>5

-----------------------------------------------------------------------------
(* What is written next to each other does not mix.                        *)

\* A list is a list of its members.
LEMMA ListedIs ==
    ASSUME NEW s, Listed(s)
    PROVE  /\ Len(s) \in Nat /\ DOMAIN s = 1 .. Len(s)
           /\ s \in Seq({s[i] : i \in 1 .. Len(s)})
           /\ s = [i \in 1 .. Len(s) |-> s[i]]
<1>1. PICK A : s \in Seq(A)
  BY DEF Listed
<1>2. Len(s) \in Nat /\ DOMAIN s = 1 .. Len(s)
  BY <1>1
<1>3. s \in Seq({s[i] : i \in 1 .. Len(s)})
  BY <1>1
<1>4. s = [i \in 1 .. Len(s) |-> s[i]]
  BY <1>1
<1> QED
  BY <1>2, <1>3, <1>4

\* What is defined over 1 .. n is a list.
LEMMA ListedMade ==
    ASSUME NEW n \in Nat, NEW s, DOMAIN s = 1 .. n, s = [i \in 1 .. n |-> s[i]]
    PROVE  Listed(s) /\ Len(s) = n
<1> DEFINE A == {s[i] : i \in 1 .. n}
<1>1. s \in [1 .. n -> A]
  OBVIOUS
<1> HIDE DEF A
<1>2. s \in Seq(A)
  BY <1>1
<1>3. Len(s) = n
  BY <1>1
<1> QED
  BY <1>2, <1>3 DEF Listed

\* Two lists, one after the other.
LEMMA ListedCat ==
    ASSUME NEW s, Listed(s), NEW t, Listed(t)
    PROVE  /\ Listed(s \o t) /\ Len(s \o t) = Len(s) + Len(t)
           /\ \A i \in 1 .. Len(s) : (s \o t)[i] = s[i]
           /\ \A i \in 1 .. Len(t) : (s \o t)[Len(s) + i] = t[i]
<1> DEFINE A == {s[i] : i \in 1 .. Len(s)} \cup {t[i] : i \in 1 .. Len(t)}
<1>1. s \in Seq(A) /\ t \in Seq(A)
  <2>1. s \in Seq({s[i] : i \in 1 .. Len(s)}) /\ t \in Seq({t[i] : i \in 1 .. Len(t)})
    BY ListedIs
  <2> DEFINE B == {s[i] : i \in 1 .. Len(s)}
             C == {t[i] : i \in 1 .. Len(t)}
  <2>2. s \in Seq(B) /\ t \in Seq(C) /\ B \subseteq A /\ C \subseteq A
    BY <2>1
  <2> HIDE DEF A, B, C
  <2> QED
    BY <2>2
<1> HIDE DEF A
<1>2. s \o t \in Seq(A) /\ Len(s \o t) = Len(s) + Len(t)
  BY <1>1
<1>3. \A i \in 1 .. Len(s) : (s \o t)[i] = s[i]
  BY <1>1
<1>4. \A i \in 1 .. Len(t) : (s \o t)[Len(s) + i] = t[i]
  BY <1>1
<1> QED
  BY <1>2, <1>3, <1>4 DEF Listed

\* The list of one, and the empty one.
LEMMA ListedOne ==
    ASSUME NEW x
    PROVE  Listed(<<x>>) /\ Listed(<<>>) /\ Len(<<x>>) = 1 /\ <<x>>[1] = x /\ Len(<<>>) = 0
<1>1. <<x>> \in Seq({x}) /\ <<>> \in Seq({x})
  BY SMT
<1> QED
  BY <1>1 DEF Listed

\* A member of a list of lists is a list, and they are put together in order.
LEMMA FlatListed ==
    ASSUME NEW ss, Listed(ss), \A i \in 1 .. Len(ss) : Listed(ss[i])
    PROVE  Listed(FlattenSeq(ss)) /\ \E A : ss \in Seq(Seq(A))
<1> DEFINE N == Len(ss)
           A == UNION {{ss[i][j] : j \in 1 .. Len(ss[i])} : i \in 1 .. N}
<1>1. \A i \in 1 .. N : ss[i] \in Seq(A)
  <2> SUFFICES ASSUME NEW i \in 1 .. N PROVE ss[i] \in Seq(A)
    OBVIOUS
  <2> DEFINE B == {ss[i][j] : j \in 1 .. Len(ss[i])}
  <2>1. ss[i] \in Seq(B)
    BY ListedIs
  <2>2. B \subseteq A
    OBVIOUS
  <2> HIDE DEF A, B
  <2> QED
    BY <2>1, <2>2
<1>2. ss = [i \in 1 .. N |-> ss[i]] /\ N \in Nat
  BY ListedIs
<1> HIDE DEF A, N
<1>3. ss \in Seq(Seq(A))
  <2> DEFINE B == Seq(A)
  <2> HIDE DEF B
  <2>1. \A i \in 1 .. N : ss[i] \in B
    BY <1>1 DEF B
  <2>2. ss \in [1 .. N -> B]
    BY <1>2, <2>1, Zenon
  <2>3. ss \in Seq(B)
    BY <1>2, <2>2
  <2> QED
    BY <2>3 DEF B
<1>4. FlattenSeq(ss) \in Seq(A)
  <2>1. <<>> \in Seq(Seq(A))
    BY SMT
  <2> QED
    BY <1>3, <2>1, FlatCat
<1> QED
  BY <1>3, <1>4 DEF Listed

\* Lists of anything are flattened one after the other.
LEMMA FlatListedCat ==
    ASSUME NEW a, Listed(a), \A i \in 1 .. Len(a) : Listed(a[i]),
           NEW b, Listed(b), \A i \in 1 .. Len(b) : Listed(b[i])
    PROVE  FlattenSeq(a \o b) = FlattenSeq(a) \o FlattenSeq(b)
<1>1. /\ Listed(a \o b) /\ Len(a \o b) = Len(a) + Len(b)
      /\ \A i \in 1 .. Len(a) : (a \o b)[i] = a[i]
      /\ \A i \in 1 .. Len(b) : (a \o b)[Len(a) + i] = b[i]
  BY ListedCat
<1>2. PICK A : a \in Seq(Seq(A))
  BY FlatListed
<1>3. PICK B : b \in Seq(Seq(B))
  BY FlatListed
<1> DEFINE C == A \cup B
<1>4. Seq(A) \subseteq Seq(C) /\ Seq(B) \subseteq Seq(C)
  <2>1. A \subseteq C /\ B \subseteq C
    OBVIOUS
  <2> HIDE DEF C
  <2> QED
    BY <2>1
<1> HIDE DEF C
<1>5. a \in Seq(Seq(C)) /\ b \in Seq(Seq(C))
  <2> DEFINE SA == Seq(A)
             SB == Seq(B)
             SC == Seq(C)
  <2>1. a \in Seq(SA) /\ b \in Seq(SB) /\ SA \subseteq SC /\ SB \subseteq SC
    BY <1>2, <1>3, <1>4
  <2> HIDE DEF SA, SB, SC
  <2>2. a \in Seq(SC) /\ b \in Seq(SC)
    BY <2>1
  <2> QED
    BY <2>2 DEF SC
<1> QED
  BY <1>5, FlatCat

-----------------------------------------------------------------------------

\* What one round makes of the members of a list.
Split(s) == [i \in 1 .. Len(s) |->
    IF s[i].w = "todo" THEN Begun(Written, s[i].v.type, s[i].v.x) ELSE <<s[i]>>]

\* A list whose next round is lists.
Fine(s) == Listed(s) /\ \A i \in 1 .. Len(s) : Listed(Split(s)[i])

\* A round writes each element in its place.
LEMMA UnfoldIs ==
    ASSUME NEW s
    PROVE  Unfold(Written, s) = FlattenSeq(Split(s))
  BY DEF Unfold, Split

\* The parts a round makes are as many as the elements.
LEMMA SplitIs ==
    ASSUME NEW s, Fine(s)
    PROVE  Listed(Split(s)) /\ Len(Split(s)) = Len(s) /\ Listed(Unfold(Written, s))
<1> DEFINE p == Split(s)
<1>1. Len(s) \in Nat /\ DOMAIN p = 1 .. Len(s) /\ p = [i \in 1 .. Len(s) |-> p[i]]
  BY ListedIs DEF Fine, Split
<1>2. \A i \in 1 .. Len(s) : Listed(p[i])
  BY DEF Fine
<1> HIDE DEF p
<1>3. Listed(p) /\ Len(p) = Len(s)
  BY <1>1, ListedMade
<1>4. Listed(FlattenSeq(p))
  BY <1>2, <1>3, FlatListed
<1> QED
  BY <1>3, <1>4, UnfoldIs DEF p

\* What has the members of one list and then those of another is the two put together.
Spliced(c, a, b) ==
    /\ Listed(c) /\ Len(c) = Len(a) + Len(b)
    /\ \A i \in 1 .. Len(a) : c[i] = a[i]
    /\ \A i \in 1 .. Len(b) : c[Len(a) + i] = b[i]

\* Parts one after the other are parts.
LEMMA CatMade ==
    ASSUME NEW a, Listed(a), NEW b, Listed(b), NEW c, Spliced(c, a, b)
    PROVE  c = a \o b
<1> DEFINE d == a \o b
           L == Len(a)
           M == Len(b)
<1>1. /\ Listed(d) /\ Len(d) = L + M
      /\ \A i \in 1 .. L : d[i] = a[i]
      /\ \A i \in 1 .. M : d[L + i] = b[i]
  BY ListedCat
<1>2. L \in Nat /\ M \in Nat
  BY ListedIs
<1>3. c = [i \in 1 .. L + M |-> c[i]]
  BY ListedIs DEF Spliced
<1>4. /\ \A i \in 1 .. L : c[i] = a[i]
      /\ \A i \in 1 .. M : c[L + i] = b[i]
  BY DEF Spliced
<1> HIDE DEF d, L, M
<1>5. d = [i \in 1 .. L + M |-> d[i]]
  <2>1. d = [i \in 1 .. Len(d) |-> d[i]]
    BY <1>1, ListedIs
  <2> QED
    BY <1>1, <2>1
<1>6. \A i \in 1 .. L + M : i \in 1 .. L \/ (i - L \in 1 .. M /\ i = L + (i - L))
  BY <1>2, SMT
<1>7. \A i \in 1 .. L + M : c[i] = d[i]
  <2> SUFFICES ASSUME NEW i \in 1 .. L + M PROVE c[i] = d[i]
    OBVIOUS
  <2>1. CASE i \in 1 .. L
    BY <1>1, <1>4, <2>1
  <2>2. CASE i - L \in 1 .. M /\ i = L + (i - L)
    BY <1>1, <1>4, <2>2
  <2> QED
    BY <1>6, <2>1, <2>2
<1>8. [i \in 1 .. L + M |-> c[i]] = [i \in 1 .. L + M |-> d[i]]
  BY <1>7, Zenon
<1>9. c = d
  BY <1>3, <1>5, <1>8
<1> QED
  BY <1>9 DEF d

\* The parts of two lists are those of one and then those of the other.
LEMMA SplitCat ==
    ASSUME NEW s, Fine(s), NEW t, Fine(t), NEW a, a = Split(s), NEW b, b = Split(t),
           NEW c, c = Split(s \o t)
    PROVE  c = a \o b /\ Fine(s \o t)
<1> DEFINE u == s \o t
           L == Len(s)
           M == Len(t)
<1>1. /\ Listed(u) /\ Len(u) = L + M /\ L \in Nat /\ M \in Nat
      /\ \A i \in 1 .. L : u[i] = s[i]
      /\ \A i \in 1 .. M : u[L + i] = t[i]
  BY ListedCat, ListedIs DEF Fine
<1>2. /\ Listed(a) /\ Len(a) = L /\ Listed(b) /\ Len(b) = M
      /\ \A i \in 1 .. L : Listed(a[i])
      /\ \A i \in 1 .. M : Listed(b[i])
  BY SplitIs DEF Fine
<1> HIDE DEF u
<1>3. /\ \A i \in 1 .. L : i \in 1 .. L + M
      /\ \A i \in 1 .. M : L + i \in 1 .. L + M
      /\ \A i \in 1 .. L + M : i \in 1 .. L \/ (i - L \in 1 .. M /\ i = L + (i - L))
  BY <1>1, SMT
<1>4. c = Split(u)
  BY DEF u
<1>5. \A i \in 1 .. L : c[i] = a[i]
  BY <1>1, <1>3, <1>4 DEF Split
<1>6. \A i \in 1 .. M : c[L + i] = b[i]
  BY <1>1, <1>3, <1>4 DEF Split
<1>7. Listed(c) /\ Len(c) = L + M
  <2>1. DOMAIN c = 1 .. L + M /\ c = [i \in 1 .. L + M |-> c[i]]
    BY <1>1, <1>4 DEF Split
  <2>2. L + M \in Nat
    BY <1>1
  <2> HIDE DEF L, M
  <2> QED
    BY <2>1, <2>2, ListedMade
<1> HIDE DEF L, M
<1>8. c = a \o b
  <2>1. Listed(c) /\ Len(c) = Len(a) + Len(b)
    BY <1>2, <1>7
  <2>2. /\ \A i \in 1 .. Len(a) : c[i] = a[i]
        /\ \A i \in 1 .. Len(b) : c[Len(a) + i] = b[i]
    BY <1>2, <1>5, <1>6
  <2>3. Listed(a) /\ Listed(b)
    BY <1>2
  <2>4. Spliced(c, a, b)
    BY <2>1, <2>2 DEF Spliced
  <2> QED
    BY <2>3, <2>4, CatMade
<1>9. \A i \in 1 .. Len(u) : Listed(c[i])
  <2> SUFFICES ASSUME NEW i \in 1 .. L + M PROVE Listed(c[i])
    BY <1>1
  <2>1. CASE i \in 1 .. L
    BY <1>2, <1>5, <2>1
  <2>2. CASE i - L \in 1 .. M /\ i = L + (i - L)
    BY <1>2, <1>6, <2>2
  <2> QED
    BY <1>3, <2>1, <2>2
<1>10. Fine(u)
  BY <1>1, <1>4, <1>9 DEF Fine
<1> QED
  BY <1>8, <1>10 DEF u

\* A round over two lists is a round over each.
LEMMA UnfoldCat ==
    ASSUME NEW s, Fine(s), NEW t, Fine(t)
    PROVE  /\ Unfold(Written, s \o t) = Unfold(Written, s) \o Unfold(Written, t)
           /\ Fine(s \o t)
<1>1. Split(s \o t) = Split(s) \o Split(t) /\ Fine(s \o t)
  BY SplitCat
<1>2. /\ Listed(Split(s)) /\ \A i \in 1 .. Len(Split(s)) : Listed(Split(s)[i])
      /\ Listed(Split(t)) /\ \A i \in 1 .. Len(Split(t)) : Listed(Split(t)[i])
  BY SplitIs DEF Fine
<1>3. FlattenSeq(Split(s) \o Split(t)) = FlattenSeq(Split(s)) \o FlattenSeq(Split(t))
  BY <1>2, FlatListedCat
<1>4. Unfold(Written, s \o t) = FlattenSeq(Split(s \o t))
  BY UnfoldIs
<1>5. Unfold(Written, s) = FlattenSeq(Split(s)) /\ Unfold(Written, t) = FlattenSeq(Split(t))
  BY UnfoldIs
<1> QED
  BY <1>1, <1>3, <1>4, <1>5

-----------------------------------------------------------------------------

\* Written on and on, s stays a list of lists.
Goes(s) == \A n \in Nat : Fine(After(s, n))

\* Two that can be written to the end can be written one after the other.
LEMMA GoesBoth ==
    ASSUME NEW s, Goes(s), NEW t, Goes(t)
    PROVE  /\ Goes(s \o t)
           /\ \A n \in Nat : After(s \o t, n) = After(s, n) \o After(t, n)
<1> DEFINE u == s \o t
           S == {n \in Nat : After(u, n) = After(s, n) \o After(t, n)}
<1>1. 0 \in S
  <2>1. After(u, 0) = u /\ After(s, 0) = s /\ After(t, 0) = t
    BY Rounds
  <2> QED
    BY <2>1
<1>2. ASSUME NEW n \in Nat, n \in S PROVE n + 1 \in S
  <2>1. /\ After(u, n + 1) = Unfold(Written, After(u, n))
        /\ After(s, n + 1) = Unfold(Written, After(s, n))
        /\ After(t, n + 1) = Unfold(Written, After(t, n))
    BY Rounds
  <2>2. Fine(After(s, n)) /\ Fine(After(t, n))
    BY DEF Goes
  <2>3. After(u, n) = After(s, n) \o After(t, n)
    BY <1>2
  <2> HIDE DEF u
  <2>4. Unfold(Written, After(s, n) \o After(t, n))
        = Unfold(Written, After(s, n)) \o Unfold(Written, After(t, n))
    BY <2>2, UnfoldCat
  <2>5. After(u, n + 1) = After(s, n + 1) \o After(t, n + 1)
    BY <2>1, <2>3, <2>4
  <2>6. n + 1 \in Nat
    BY SMT
  <2> QED
    BY <2>5, <2>6
<1> HIDE DEF S
<1>3. Nat \subseteq S
  BY <1>1, <1>2, SetInduction
<1>4. \A n \in Nat : After(u, n) = After(s, n) \o After(t, n)
  BY <1>3 DEF S
<1> HIDE DEF u
<1>5. ASSUME NEW n \in Nat PROVE Fine(After(u, n))
  <2>1. Fine(After(s, n)) /\ Fine(After(t, n))
    BY DEF Goes
  <2>2. Fine(After(s, n) \o After(t, n))
    BY <2>1, UnfoldCat
  <2> QED
    BY <1>4, <2>2
<1> QED
  BY <1>4, <1>5 DEF u, Goes

\* What a round leaves as it is stays.
LEMMA StaysWritten ==
    ASSUME NEW s, Fine(s), Unfold(Written, s) = s
    PROVE  Goes(s) /\ \A n \in Nat : After(s, n) = s
<1> DEFINE S == {n \in Nat : After(s, n) = s}
<1>1. 0 \in S
  BY Rounds
<1>2. ASSUME NEW n \in Nat, n \in S PROVE n + 1 \in S
  <2>1. After(s, n + 1) = Unfold(Written, After(s, n))
    BY Rounds
  <2>2. n + 1 \in Nat
    BY SMT
  <2> QED
    BY <1>2, <2>1, <2>2
<1> HIDE DEF S
<1>3. Nat \subseteq S
  BY <1>1, <1>2, SetInduction
<1>4. \A n \in Nat : After(s, n) = s
  BY <1>3 DEF S
<1> QED
  BY <1>4 DEF Goes

\* Nothing is written as nothing.
LEMMA NothingWritten == Goes(<<>>) /\ \A n \in Nat : After(<<>>, n) = <<>>
<1>1. Split(<<>>) = <<>>
  <2>1. 1 .. Len(<<>>) = {}
    BY SMT
  <2>2. Split(<<>>) = [i \in {} |-> Split(<<>>)[i]]
    BY <2>1 DEF Split
  <2>3. <<>> = [i \in {} |-> Split(<<>>)[i]]
    BY SMT
  <2> QED
    BY <2>2, <2>3
<1>2. FlattenSeq(<<>>) = <<>>
  BY DEF FlattenSeq
<1>3. Fine(<<>>)
  <2>1. 1 .. Len(<<>>) = {}
    BY SMT
  <2> QED
    BY <2>1, ListedOne DEF Fine
<1>4. Unfold(Written, <<>>) = <<>>
  BY <1>1, <1>2, UnfoldIs
<1> QED
  BY <1>3, <1>4, StaysWritten

\* A round over a single member.
LEMMA UnfoldOne ==
    ASSUME NEW x, NEW b, Listed(b),
           b = IF x.w = "todo" THEN Begun(Written, x.v.type, x.v.x) ELSE <<x>>
    PROVE  Fine(<<x>>) /\ Unfold(Written, <<x>>) = b
<1>1. Listed(<<x>>) /\ Len(<<x>>) = 1 /\ <<x>>[1] = x
  BY ListedOne
<1>2. 1 .. 1 = {1}
  BY SMT
<1>3. Split(<<x>>)[1] = b
  BY <1>1, <1>2 DEF Split
<1>4. Fine(<<x>>)
  BY <1>1, <1>2, <1>3 DEF Fine
<1>5. Split(<<x>>) = <<b>>
  <2>1. Listed(Split(<<x>>)) /\ Len(Split(<<x>>)) = 1
    BY <1>1, <1>4, SplitIs
  <2>2. Split(<<x>>) = [i \in 1 .. 1 |-> Split(<<x>>)[i]]
    BY <2>1, ListedIs
  <2> DEFINE p == Split(<<x>>)
  <2> HIDE DEF p
  <2>3. p = [i \in 1 .. 1 |-> p[i]] /\ p[1] = b
    BY <1>3, <2>2 DEF p
  <2>4. p = <<b>>
    BY <1>2, <2>3
  <2> QED
    BY <2>4 DEF p
<1>6. FlattenSeq(<<b>>) = b
  <2>1. PICK A : b \in Seq(A)
    BY DEF Listed
  <2> QED
    BY <2>1, FlatOne
<1> QED
  BY <1>4, <1>5, <1>6, UnfoldIs

\* A token is written.
LEMMA TokenWritten ==
    ASSUME NEW w, w # "todo", NEW v
    PROVE  /\ Goes(Token(w, v)) /\ \A n \in Nat : After(Token(w, v), n) = Token(w, v)
           /\ Listed(Token(w, v)) /\ Len(Token(w, v)) = 1 /\ Token(w, v)[1] = [w |-> w, v |-> v]
<1> DEFINE x == [w |-> w, v |-> v]
<1>1. x.w # "todo"
  OBVIOUS
<1>2. Token(w, v) = <<x>>
  BY DEF Token
<1> HIDE DEF x
<1>3. Fine(<<x>>) /\ Unfold(Written, <<x>>) = <<x>>
  BY <1>1, ListedOne, UnfoldOne
<1>4. Goes(<<x>>) /\ \A n \in Nat : After(<<x>>, n) = <<x>>
  BY <1>3, StaysWritten
<1> QED
  BY <1>2, <1>4, ListedOne DEF x

\* What is still to be written is written with what it begins with.
LEMMA TodoWritten ==
    ASSUME NEW T, NEW x, Listed(Begun(Written, T, x)), Goes(Begun(Written, T, x))
    PROVE  /\ Goes(<<Todo(T, x)>>)
           /\ \A n \in Nat : After(<<Todo(T, x)>>, n + 1) = After(Begun(Written, T, x), n)
<1> DEFINE y == Todo(T, x)
           b == Begun(Written, T, x)
<1>1. y.w = "todo" /\ y.v.type = T /\ y.v.x = x
  BY DEF Todo
<1>2. b = IF y.w = "todo" THEN Begun(Written, y.v.type, y.v.x) ELSE <<y>>
  BY <1>1
<1> HIDE DEF y
<1>3. Fine(<<y>>) /\ Unfold(Written, <<y>>) = b
  <2> HIDE DEF b
  <2>1. Listed(b)
    BY DEF b
  <2> QED
    BY <1>2, <2>1, UnfoldOne
<1>4. \A n \in Nat : After(<<y>>, n + 1) = After(b, n)
  BY <1>3, Shifted
<1>5. ASSUME NEW n \in Nat PROVE Fine(After(<<y>>, n))
  <2>1. CASE n = 0
    BY <1>3, <2>1, Rounds
  <2>2. CASE n # 0
    <3>1. n - 1 \in Nat /\ (n - 1) + 1 = n
      BY <2>2, SMT
    <3>2. After(<<y>>, n) = After(b, n - 1)
      BY <1>4, <3>1
    <3> QED
      BY <3>1, <3>2 DEF Goes
  <2> QED
    BY <2>1, <2>2
<1> QED
  BY <1>4, <1>5 DEF Goes, y

-----------------------------------------------------------------------------

\* Several are written one behind the other.
Strung(u, ts, n) ==
    /\ u[0] = <<>> /\ u[Len(ts)] = After(ts, n)
    /\ \A i \in 1 .. Len(ts) : u[i] = u[i - 1] \o After(<<ts[i]>>, n)
    /\ \A i \in 0 .. Len(ts) : Listed(u[i])

\* Things that can each be written to the end can be written together.
LEMMA GoesAll ==
    ASSUME NEW ts, Listed(ts), \A i \in 1 .. Len(ts) : Goes(<<ts[i]>>)
    PROVE  Goes(ts) /\ \A n \in Nat : \E u : Strung(u, ts, n)
<1> DEFINE N == Len(ts)
           p == [i \in 0 .. N |-> SubSeq(ts, 1, i)]
           S == {i \in Nat : i <= N => Goes(p[i])}
<1>1. N \in Nat /\ 0 \in 0 .. N /\ N \in 0 .. N
      /\ \A i \in 1 .. N : i \in 0 .. N /\ i - 1 \in 0 .. N
  <2>1. N \in Nat
    BY ListedIs
  <2> QED
    BY <2>1, SMT
<1>2. PICK A : ts \in Seq(A)
  BY DEF Listed
<1>3. p[0] = <<>> /\ p[N] = ts /\ \A i \in 1 .. N : p[i] = p[i - 1] \o <<ts[i]>>
  <2>1. SubSeq(ts, 1, 0) = <<>>
    BY <1>2
  <2>2. SubSeq(ts, 1, Len(ts)) = ts
    BY <1>2
  <2>3. ASSUME NEW i \in 1 .. N PROVE SubSeq(ts, 1, i) = SubSeq(ts, 1, i - 1) \o <<ts[i]>>
    <3>1. i \in 1 .. Len(ts)
      OBVIOUS
    <3> DEFINE x == ts[i]
    <3>2. x \in A
      BY <1>2
    <3> HIDE DEF N, x
    <3>3. SubSeq(ts, 1, i) = Append(SubSeq(ts, 1, i - 1), ts[i])
      BY <1>2, <3>1
    <3>4. SubSeq(ts, 1, i - 1) \in Seq(A)
      BY <1>2, <3>1
    <3>5. Append(SubSeq(ts, 1, i - 1), x) = SubSeq(ts, 1, i - 1) \o <<x>>
      BY <3>2, <3>4
    <3> QED
      BY <3>3, <3>5 DEF x
  <2> QED
    BY <1>1, <2>1, <2>2, <2>3
<1> HIDE DEF p
<1>4. \A i \in 1 .. N : Goes(<<ts[i]>>)
  OBVIOUS
<1> HIDE DEF N
<1>5. 0 \in S
  BY <1>3, NothingWritten
<1>6. ASSUME NEW i \in Nat, i \in S PROVE i + 1 \in S
  <2>0. i + 1 \in Nat
    BY SMT
  <2> SUFFICES ASSUME i + 1 <= N PROVE Goes(p[i + 1])
    BY <2>0
  <2>1. i + 1 \in 1 .. N /\ (i + 1) - 1 = i /\ i <= N
    BY <1>1, SMT
  <2>2. Goes(p[i])
    BY <1>6, <2>1
  <2>3. p[i + 1] = p[i] \o <<ts[i + 1]>>
    BY <1>3, <2>1
  <2>4. Goes(<<ts[i + 1]>>)
    BY <1>4, <2>1
  <2>5. Goes(p[i] \o <<ts[i + 1]>>)
    BY <2>2, <2>4, GoesBoth
  <2> QED
    BY <2>3, <2>5
<1> HIDE DEF S
<1>7. Nat \subseteq S
  BY <1>5, <1>6, SetInduction
<1>8. \A i \in 0 .. N : Goes(p[i])
  <2>1. \A i \in 0 .. N : i \in Nat /\ i <= N
    BY <1>1, SMT
  <2> QED
    BY <1>7, <2>1 DEF S
<1>9. Goes(ts)
  BY <1>1, <1>3, <1>8
<1>10. ASSUME NEW n \in Nat PROVE \E u : Strung(u, ts, n)
  <2> DEFINE u == [i \in 0 .. N |-> After(p[i], n)]
  <2>1. u[0] = <<>>
    BY <1>1, <1>3, NothingWritten
  <2>2. u[N] = After(ts, n)
    BY <1>1, <1>3
  <2>3. ASSUME NEW i \in 1 .. N PROVE u[i] = u[i - 1] \o After(<<ts[i]>>, n)
    <3>1. u[i] = After(p[i], n) /\ u[i - 1] = After(p[i - 1], n)
      BY <1>1
    <3>2. Goes(p[i - 1]) /\ Goes(<<ts[i]>>)
      BY <1>1, <1>4, <1>8
    <3>3. After(p[i - 1] \o <<ts[i]>>, n) = After(p[i - 1], n) \o After(<<ts[i]>>, n)
      BY <3>2, GoesBoth
    <3>4. p[i] = p[i - 1] \o <<ts[i]>>
      BY <1>3
    <3> HIDE DEF u
    <3> QED
      BY <3>1, <3>3, <3>4
  <2>4. ASSUME NEW i \in 0 .. N PROVE Listed(u[i])
    BY <1>8 DEF Goes, Fine
  <2> HIDE DEF u
  <2>5. Strung(u, ts, n)
    BY <2>1, <2>2, <2>3, <2>4 DEF Strung, N
  <2> QED
    BY <2>5
<1> QED
  BY <1>9, <1>10

-----------------------------------------------------------------------------
(* Where what was written is.                                              *)

\* w is in s from pos on.
HasAt(s, pos, w) ==
    /\ pos \in Nat \ {0} /\ Len(s) \in Nat /\ Listed(w)
    /\ pos + Len(w) <= Len(s) + 1
    /\ \A j \in 1 .. Len(w) : s[pos + (j - 1)] = w[j]

\* Where two lists are, the second is behind the first.
LEMMA HasBoth ==
    ASSUME NEW s, NEW pos, NEW a, Listed(a), NEW b, Listed(b), HasAt(s, pos, a \o b)
    PROVE  /\ HasAt(s, pos, a) /\ HasAt(s, pos + Len(a), b)
           /\ Len(a \o b) = Len(a) + Len(b) /\ Len(a) \in Nat /\ Len(b) \in Nat
<1> DEFINE c == a \o b
           L == Len(a)
           M == Len(b)
<1>1. /\ L \in Nat /\ M \in Nat
      /\ Len(c) = L + M
      /\ \A i \in 1 .. L : c[i] = a[i]
      /\ \A i \in 1 .. M : c[L + i] = b[i]
  BY ListedCat, ListedIs
<1>2. HasAt(s, pos, c)
  OBVIOUS
<1> HIDE DEF c
<1>3. /\ pos \in Nat \ {0} /\ Len(s) \in Nat
      /\ pos + (L + M) <= Len(s) + 1
      /\ \A j \in 1 .. L + M : s[pos + (j - 1)] = c[j]
  BY <1>1, <1>2 DEF HasAt
<1> HIDE DEF L, M
<1> DEFINE len == Len(s)
<1>4. len \in Nat /\ pos + (L + M) <= len + 1
  BY <1>3
<1> HIDE DEF len
<1>5. /\ \A j \in 1 .. L : j \in 1 .. L + M
      /\ \A j \in 1 .. M : L + j \in 1 .. L + M /\ pos + ((L + j) - 1) = (pos + L) + (j - 1)
      /\ pos + L <= len + 1 /\ (pos + L) + M <= len + 1 /\ pos + L \in Nat \ {0}
  BY <1>1, <1>3, <1>4, SMT
<1>6. HasAt(s, pos, a)
  <2>1. \A j \in 1 .. L : s[pos + (j - 1)] = a[j]
    BY <1>1, <1>3, <1>5
  <2> QED
    BY <1>3, <1>5, <2>1 DEF HasAt, L, len
<1>7. HasAt(s, pos + L, b)
  <2>1. \A j \in 1 .. M : s[(pos + L) + (j - 1)] = b[j]
    BY <1>1, <1>3, <1>5
  <2> QED
    BY <1>3, <1>5, <2>1 DEF HasAt, M, len
<1> QED
  BY <1>1, <1>6, <1>7 DEF L, M, c

\* Where each of several begins.
Placed(p, ts, n, s, pos) ==
    /\ p[0] = pos /\ p[Len(ts)] = pos + Len(After(ts, n))
    /\ \A i \in 1 .. Len(ts) : /\ p[i] = p[i - 1] + Len(After(<<ts[i]>>, n))
                               /\ HasAt(s, p[i - 1], After(<<ts[i]>>, n))
    /\ \A i \in 0 .. Len(ts) : p[i] \in Nat

\* Each of the things written together has its place.
LEMMA AllPlaced ==
    ASSUME NEW ts, Listed(ts), \A i \in 1 .. Len(ts) : Goes(<<ts[i]>>),
           NEW n \in Nat, NEW s, NEW pos, HasAt(s, pos, After(ts, n))
    PROVE  \E p : Placed(p, ts, n, s, pos)
<1> DEFINE N == Len(ts)
           w(i) == After(<<ts[i]>>, n)
<1>1. PICK u : Strung(u, ts, n)
  BY GoesAll
<1>2. /\ u[0] = <<>> /\ u[N] = After(ts, n)
      /\ \A i \in 1 .. N : u[i] = u[i - 1] \o w(i)
      /\ \A i \in 0 .. N : Listed(u[i])
  BY <1>1 DEF Strung
<1>3. \A i \in 1 .. N : Listed(w(i))
  BY DEF Goes, Fine
<1>4. N \in Nat
  BY ListedIs
<1> HIDE DEF w, N
<1>5. 0 \in 0 .. N /\ N \in 0 .. N /\ \A i \in 1 .. N : i \in 0 .. N /\ i - 1 \in 0 .. N
  BY <1>4, SMT
<1> DEFINE S == {m \in Nat : m <= N => HasAt(s, pos, u[N - m])}
<1>6. 0 \in S
  <2>1. N - 0 = N
    BY <1>4, SMT
  <2> QED
    BY <1>2, <2>1
<1>7. ASSUME NEW m \in Nat, m \in S PROVE m + 1 \in S
  <2>0. m + 1 \in Nat
    BY SMT
  <2> SUFFICES ASSUME m + 1 <= N PROVE HasAt(s, pos, u[N - (m + 1)])
    BY <2>0
  <2>1. m <= N /\ N - m \in 1 .. N /\ (N - m) - 1 = N - (m + 1)
    BY <1>4, SMT
  <2>2. HasAt(s, pos, u[N - m])
    BY <1>7, <2>1
  <2>3. u[N - m] = u[N - (m + 1)] \o w(N - m)
    BY <1>2, <2>1
  <2>4. Listed(u[N - (m + 1)]) /\ Listed(w(N - m))
    BY <1>2, <1>3, <1>5, <2>1
  <2>5. HasAt(s, pos, u[N - (m + 1)] \o w(N - m))
    BY <2>2, <2>3
  <2> QED
    BY <2>4, <2>5, HasBoth
<1> HIDE DEF S
<1>8. Nat \subseteq S
  BY <1>6, <1>7, SetInduction
<1>9. \A i \in 0 .. N : HasAt(s, pos, u[i])
  <2> SUFFICES ASSUME NEW i \in 0 .. N PROVE HasAt(s, pos, u[i])
    OBVIOUS
  <2>1. N - i \in Nat /\ N - i <= N /\ N - (N - i) = i
    BY <1>4, SMT
  <2>2. N - i \in S
    BY <1>8, <2>1
  <2>3. HasAt(s, pos, u[N - (N - i)])
    BY <2>1, <2>2 DEF S
  <2> QED
    BY <2>1, <2>3
<1> DEFINE p == [i \in 0 .. N |-> pos + Len(u[i])]
<1>10. p[0] = pos
  <2>1. p[0] = pos + Len(<<>>)
    BY <1>2, <1>5
  <2>2. pos \in Nat
    BY DEF HasAt
  <2> QED
    BY <2>1, <2>2, SMT
<1>11. p[N] = pos + Len(After(ts, n))
  BY <1>2, <1>5
<1>12. ASSUME NEW i \in 1 .. N
       PROVE  p[i] = p[i - 1] + Len(w(i)) /\ HasAt(s, p[i - 1], w(i))
  <2>1. p[i] = pos + Len(u[i]) /\ p[i - 1] = pos + Len(u[i - 1])
    BY <1>5
  <2> HIDE DEF p
  <2>2. HasAt(s, pos, u[i - 1] \o w(i))
    BY <1>2, <1>5, <1>9
  <2>3. Listed(u[i - 1]) /\ Listed(w(i))
    BY <1>2, <1>3, <1>5
  <2>4. /\ HasAt(s, pos + Len(u[i - 1]), w(i))
        /\ Len(u[i - 1] \o w(i)) = Len(u[i - 1]) + Len(w(i))
        /\ Len(u[i - 1]) \in Nat /\ Len(w(i)) \in Nat
    <3> DEFINE x == u[i - 1]
               y == w(i)
    <3>1. HasAt(s, pos, x \o y) /\ Listed(x) /\ Listed(y)
      BY <2>2, <2>3
    <3> HIDE DEF x, y
    <3>2. HasAt(s, pos + Len(x), y)
      BY <3>1, HasBoth
    <3>3. Len(x \o y) = Len(x) + Len(y) /\ Len(x) \in Nat /\ Len(y) \in Nat
      BY <3>1, HasBoth
    <3> QED
      BY <3>2, <3>3 DEF x, y
  <2>5. Len(u[i]) = Len(u[i - 1]) + Len(w(i))
    BY <1>2, <2>4
  <2>6. pos \in Nat
    BY DEF HasAt
  <2> DEFINE a == Len(u[i - 1])
             b == Len(w(i))
             c == Len(u[i])
  <2>7. c = a + b /\ a \in Nat /\ b \in Nat /\ p[i] = pos + c /\ p[i - 1] = pos + a
    BY <2>1, <2>4, <2>5
  <2> HIDE DEF a, b, c
  <2>8. p[i] = p[i - 1] + b
    BY <2>6, <2>7, SMT
  <2> QED
    BY <2>1, <2>4, <2>8 DEF b
<1>13. ASSUME NEW i \in 0 .. N PROVE p[i] \in Nat
  <2>1. Len(u[i]) \in Nat
    BY <1>2, ListedIs
  <2>2. pos \in Nat
    BY DEF HasAt
  <2> QED
    BY <2>1, <2>2
<1> HIDE DEF p
<1>14. Placed(p, ts, n, s, pos)
  BY <1>10, <1>11, <1>12, <1>13 DEF Placed, N, w
<1> QED
  BY <1>14

-----------------------------------------------------------------------------
(* Reading, round by round.                                                *)

\* The types a reader goes into.
LEMMA TypesAre ==
    /\ \A w \in Widths : Num(w) \in Leaves(Readable)
    /\ \A n \in DOMAIN Readable : One(n) \in Leaves(Readable)
    /\ Leaves(Readable) \subseteq Types(Readable)
    /\ \A T \in Leaves(Readable) : Opt(T) \in Types(Readable) /\ Many(T) \in Types(Readable)
<1> DEFINE names == DOMAIN Readable
<1> HIDE DEF names
<1>1. \A w \in Widths : Num(w) \in Leaves(Readable)
  BY DEF Leaves, Num
<1>2. \A n \in names : One(n) \in Leaves(Readable)
  BY DEF Leaves, One, names
<1> DEFINE L == Leaves(Readable)
<1> HIDE DEF L
<1>3. \A T \in L : Opt(T) \in Types(Readable) /\ Many(T) \in Types(Readable)
  BY DEF Types, L, Opt, Many
<1>4. L \subseteq Types(Readable)
  BY DEF Types, L
<1> QED
  BY <1>1, <1>2, <1>3, <1>4 DEF names, L

\* What Get makes of s: for a type and a position, that many rounds deep.
Reader(s) == CHOOSE get : get =
    [n \in 0 .. MaxDepth |->
        [at \in Types(Readable) \X Nat |->
            IF n = 0 THEN Failed ELSE GetOne(get[n - 1], Readable, at[1], s, at[2])]]

\* The rounds of reading, one by one.
LEMMA ReaderIs ==
    ASSUME NEW s, NEW T \in Types(Readable), NEW pos \in Nat
    PROVE  /\ \A n \in 1 .. MaxDepth :
                Reader(s)[n][<<T, pos>>] = GetOne(Reader(s)[n - 1], Readable, T, s, pos)
           /\ Get(Readable, T, s, pos) = Reader(s)[MaxDepth][<<T, pos>>]
<1> DEFINE Row(n, g) == [at \in Types(Readable) \X Nat |->
                IF n = 0 THEN Failed ELSE GetOne(g[n - 1], Readable, at[1], s, at[2])]
           base == [at \in Types(Readable) \X Nat |-> Failed]
           Up1(g) == [at \in Types(Readable) \X Nat |-> GetOne(g, Readable, at[1], s, at[2])]
           Up(m, f) == f = [n \in 0 .. m |-> IF n = 0 THEN base ELSE Up1(f[n - 1])]
           S == {m \in Nat : \E f : Up(m, f)}
<1>1. \A n, g : Row(n, g) = IF n = 0 THEN base ELSE Up1(g[n - 1])
  <2> SUFFICES ASSUME NEW n, NEW g PROVE Row(n, g) = IF n = 0 THEN base ELSE Up1(g[n - 1])
    OBVIOUS
  <2>1. CASE n = 0
    BY <2>1
  <2>2. CASE n # 0
    BY <2>2
  <2> QED
    BY <2>1, <2>2
<1>2. \A f : f = [n \in 0 .. MaxDepth |-> Row(n, f)] <=> Up(MaxDepth, f)
  <2> HIDE DEF Row, base, Up1
  <2> SUFFICES ASSUME NEW f PROVE f = [n \in 0 .. MaxDepth |-> Row(n, f)] <=> Up(MaxDepth, f)
    OBVIOUS
  <2>1. \A n \in 0 .. MaxDepth : Row(n, f) = IF n = 0 THEN base ELSE Up1(f[n - 1])
    BY <1>1
  <2>2. [n \in 0 .. MaxDepth |-> Row(n, f)]
        = [n \in 0 .. MaxDepth |-> IF n = 0 THEN base ELSE Up1(f[n - 1])]
    BY <2>1, Zenon
  <2> QED
    BY <2>2
<1> HIDE DEF base, Up1
<1>3. 0 \in S
  <2> DEFINE f == [n \in 0 .. 0 |-> base]
  <2>1. \A n \in 0 .. 0 : n = 0
    BY SMT
  <2>2. f = [n \in 0 .. 0 |-> IF n = 0 THEN base ELSE Up1(f[n - 1])]
    BY <2>1
  <2> QED
    BY <2>2
<1>4. ASSUME NEW m \in Nat, m \in S PROVE m + 1 \in S
  <2>1. PICK f : Up(m, f)
    BY <1>4
  <2> DEFINE h == [n \in 0 .. m + 1 |-> IF n = m + 1 THEN Up1(f[m]) ELSE f[n]]
             k == [n \in 0 .. m + 1 |-> IF n = 0 THEN base ELSE Up1(h[n - 1])]
  <2>2. \A n \in 0 .. m : h[n] = f[n] /\ n \in 0 .. m + 1
    BY SMT
  <2>3. h[m + 1] = Up1(f[m])
    BY SMT
  <2>4. \A n \in 0 .. m : f[n] = IF n = 0 THEN base ELSE Up1(f[n - 1])
    <3> HIDE DEF h, k
    <3>1. f = [n \in 0 .. m |-> IF n = 0 THEN base ELSE Up1(f[n - 1])]
      BY <2>1
    <3> QED
      BY <3>1, Zenon
  <2>5. ASSUME NEW n \in 0 .. m + 1 PROVE h[n] = k[n]
    <3>1. k[n] = IF n = 0 THEN base ELSE Up1(h[n - 1])
      OBVIOUS
    <3> HIDE DEF k, h
    <3>2. CASE n \in 0 .. m
      <4>1. n # 0 => n - 1 \in 0 .. m
        BY <3>2, SMT
      <4> QED
        BY <2>2, <2>4, <3>1, <3>2, <4>1
    <3>3. CASE n = m + 1
      <4>1. n # 0 /\ n - 1 = m /\ m \in 0 .. m
        BY <3>3, SMT
      <4> QED
        BY <2>2, <2>3, <3>1, <3>3, <4>1
    <3> QED
      BY <3>2, <3>3, SMT
  <2>6. h = k
    <3>1. \A n \in 0 .. m + 1 : h[n] = k[n]
      BY <2>5
    <3> QED
      BY <3>1, Zenon
  <2>7. Up(m + 1, h)
    BY <2>6
  <2> HIDE DEF h
  <2> QED
    BY <2>7
<1> HIDE DEF S, Up
<1>5. MaxDepth \in Nat
  BY DepthAssumption
<1>6. \E f : Up(MaxDepth, f)
  <2>1. Nat \subseteq S
    BY <1>3, <1>4, SetInduction
  <2> QED
    BY <1>5, <2>1 DEF S
<1> DEFINE r == Reader(s)
<1>7. r = CHOOSE get : get = [n \in 0 .. MaxDepth |-> Row(n, get)]
  BY DEF Reader
<1> HIDE DEF r, Row
<1>8. Up(MaxDepth, r)
  <2>1. \E get : get = [n \in 0 .. MaxDepth |-> Row(n, get)]
    BY <1>2, <1>6
  <2>2. r = [n \in 0 .. MaxDepth |-> Row(n, r)]
    BY <1>7, <2>1, Zenon
  <2> QED
    BY <1>2, <2>2
<1>9. r = [n \in 0 .. MaxDepth |-> IF n = 0 THEN base ELSE Up1(r[n - 1])]
  BY <1>8 DEF Up
<1>10. ASSUME NEW n \in 1 .. MaxDepth PROVE r[n][<<T, pos>>] = GetOne(r[n - 1], Readable, T, s, pos)
  <2>1. n \in 0 .. MaxDepth /\ n # 0
    BY SMT
  <2>2. r[n] = Up1(r[n - 1])
    BY <1>9, <2>1, Zenon
  <2>3. <<T, pos>> \in Types(Readable) \X Nat
    OBVIOUS
  <2>4. Up1(r[n - 1])[<<T, pos>>] = GetOne(r[n - 1], Readable, <<T, pos>>[1], s, <<T, pos>>[2])
    BY <2>3 DEF Up1
  <2>5. <<T, pos>>[1] = T /\ <<T, pos>>[2] = pos
    OBVIOUS
  <2> QED
    BY <2>2, <2>4, <2>5
<1>11. Get(Readable, T, s, pos) = r[MaxDepth][<<T, pos>>]
  BY <1>7 DEF Get, Row
<1> QED
  BY <1>10, <1>11 DEF r

-----------------------------------------------------------------------------
(* What is written is read.                                                *)

\* Read as T2 what was written as T1 is the same, if there are k rounds for it.
Reads(k, T1, T2, x) ==
    /\ T2 \in Types(Readable)
    /\ Goes(<<Todo(T1, x)>>)
    /\ \A d \in Nat : d >= k /\ d <= MaxDepth =>
        \A s, pos : HasAt(s, pos, After(<<Todo(T1, x)>>, d)) =>
            Reader(s)[d][<<T2, pos>>] = Got(x, pos + Len(After(<<Todo(T1, x)>>, d)))

\* What is read in k rounds is read in more.
LEMMA ReadsDeeper ==
    ASSUME NEW k \in Nat, NEW l \in Nat, k <= l, NEW T1, NEW T2, NEW x, Reads(k, T1, T2, x)
    PROVE  Reads(l, T1, T2, x)
<1>1. \A d \in Nat : d >= l => d >= k
  BY SMT
<1> QED
  BY <1>1 DEF Reads

\* A token is read where it is.
LEMMA TokenTaken ==
    ASSUME NEW s, NEW pos, NEW w, NEW v, w # "todo", HasAt(s, pos, Token(w, v))
    PROVE  Take(s, w, pos) = Got(v, pos + 1) /\ pos \in Nat /\ pos + 1 \in Nat
<1>1. Len(Token(w, v)) = 1 /\ Token(w, v)[1] = [w |-> w, v |-> v]
  BY TokenWritten
<1>2. pos \in Nat \ {0} /\ Len(s) \in Nat /\ pos + 1 <= Len(s) + 1
      /\ \A j \in 1 .. 1 : s[pos + (j - 1)] = Token(w, v)[j]
  BY <1>1 DEF HasAt
<1>3. pos <= Len(s) /\ pos + 1 \in Nat
  BY <1>2, SMT
<1>4. s[pos] = [w |-> w, v |-> v]
  <2>1. 1 \in 1 .. 1 /\ pos + (1 - 1) = pos
    BY <1>2, SMT
  <2> QED
    BY <1>1, <1>2, <2>1
<1> QED
  BY <1>2, <1>3, <1>4 DEF Take

\* A number is read as it was written, in one round.
LEMMA ReadsNum ==
    ASSUME NEW w \in Widths, NEW T1, T1.t = "num", T1.w = w, NEW x
    PROVE  Reads(1, T1, Num(w), x)
<1>0. w # "todo"
  BY DEF Widths
<1>1. Begun(Written, T1, x) = Token(w, x)
  BY DEF Begun
<1>2. /\ Listed(Token(w, x)) /\ Goes(Token(w, x)) /\ Len(Token(w, x)) = 1
      /\ \A n \in Nat : After(Token(w, x), n) = Token(w, x)
  BY <1>0, TokenWritten
<1>3. /\ Goes(<<Todo(T1, x)>>)
      /\ \A n \in Nat : After(<<Todo(T1, x)>>, n + 1) = Token(w, x)
  BY <1>1, <1>2, TodoWritten
<1>4. Num(w) \in Types(Readable)
  BY TypesAre
<1>5. ASSUME NEW d \in Nat, d >= 1, d <= MaxDepth, NEW s, NEW pos,
             HasAt(s, pos, After(<<Todo(T1, x)>>, d))
      PROVE  Reader(s)[d][<<Num(w), pos>>] = Got(x, pos + Len(After(<<Todo(T1, x)>>, d)))
  <2>1. d - 1 \in Nat /\ (d - 1) + 1 = d /\ d \in 1 .. MaxDepth
    BY <1>5, DepthAssumption, SMT
  <2>2. After(<<Todo(T1, x)>>, d) = Token(w, x)
    BY <1>3, <2>1
  <2>3. Take(s, w, pos) = Got(x, pos + 1) /\ pos \in Nat
    BY <1>0, <1>5, <2>2, TokenTaken
  <2>4. Reader(s)[d][<<Num(w), pos>>] = GetOne(Reader(s)[d - 1], Readable, Num(w), s, pos)
    BY <1>4, <2>1, <2>3, ReaderIs
  <2>5. GetOne(Reader(s)[d - 1], Readable, Num(w), s, pos) = Take(s, w, pos)
    BY DEF GetOne, Num
  <2> QED
    BY <1>2, <2>2, <2>3, <2>4, <2>5
<1> QED
  BY <1>3, <1>4, <1>5 DEF Reads

\* Several of one type are read where each is.
EachRead(get, T, x, p) == \A i \in 1 .. Len(x) : get[<<T, p[i - 1]>>] = Got(x[i], p[i])

\* Things read each in its place are read as a list.
LEMMA ManyRead ==
    ASSUME NEW get, NEW T, NEW x, Listed(x), NEW p, NEW pos, p[0] = pos, EachRead(get, T, x, p)
    PROVE  GetMany(get, T, Len(x), pos) = Got(x, p[Len(x)])
<1> DEFINE N == Len(x)
           Body(i, before) ==
                IF ~before.ok THEN Failed
                ELSE LET next == get[<<T, before.pos>>] IN
                     IF next.ok THEN Got(Append(before.x, next.x), next.pos) ELSE Failed
           Up(f) == f = [i \in 0 .. N |-> IF i = 0 THEN Got(<<>>, pos) ELSE Body(i, f[i - 1])]
           g == [i \in 0 .. N |-> Got(SubSeq(x, 1, i), p[i])]
           r == CHOOSE f : Up(f)
<1>1. PICK A : x \in Seq(A)
  BY DEF Listed
<1>2. /\ N \in Nat /\ 0 \in 0 .. N /\ N \in 0 .. N
      /\ \A i \in 1 .. N : i \in 0 .. N /\ i - 1 \in 0 .. N /\ i # 0
      /\ \A i \in 0 .. N : i # 0 => i \in 1 .. N
  <2>1. N \in Nat
    BY ListedIs
  <2> QED
    BY <2>1, SMT
<1>3. g[0] = Got(<<>>, pos)
  <2>1. SubSeq(x, 1, 0) = <<>>
    BY <1>1
  <2> QED
    BY <1>2, <2>1
<1>4. ASSUME NEW i \in 1 .. N PROVE g[i] = Body(i, g[i - 1])
  <2>1. SubSeq(x, 1, i) = Append(SubSeq(x, 1, i - 1), x[i])
    BY <1>1
  <2>2. g[i] = Got(SubSeq(x, 1, i), p[i]) /\ g[i - 1] = Got(SubSeq(x, 1, i - 1), p[i - 1])
    BY <1>2
  <2>3. get[<<T, p[i - 1]>>] = Got(x[i], p[i])
    BY DEF EachRead
  <2> HIDE DEF g
  <2> DEFINE b == g[i - 1]
             c == get[<<T, b.pos>>]
  <2>4. b.ok /\ b.x = SubSeq(x, 1, i - 1) /\ b.pos = p[i - 1]
    BY <2>2 DEF Got
  <2>5. c.ok /\ c.x = x[i] /\ c.pos = p[i]
    BY <2>3, <2>4 DEF Got
  <2>6. Body(i, b) = Got(Append(b.x, c.x), c.pos)
    BY <2>4, <2>5
  <2> QED
    BY <2>1, <2>2, <2>4, <2>5, <2>6
<1>5. Up(g)
  <2>1. g = [i \in 0 .. N |-> g[i]]
    OBVIOUS
  <2> HIDE DEF g, Body
  <2>2. \A i \in 0 .. N : g[i] = IF i = 0 THEN Got(<<>>, pos) ELSE Body(i, g[i - 1])
    BY <1>2, <1>3, <1>4
  <2>3. [i \in 0 .. N |-> g[i]] = [i \in 0 .. N |-> IF i = 0 THEN Got(<<>>, pos) ELSE Body(i,
            g[i - 1])]
    BY <2>2, Zenon
  <2> QED
    BY <2>1, <2>3
<1>6. Up(r)
  <2> HIDE DEF Up, g
  <2> QED
    BY <1>5
<1>7. GetMany(get, T, N, pos) = r[N]
  BY Zenon DEF GetMany
<1> HIDE DEF r, g
<1>8. r[0] = g[0]
  <2> HIDE DEF Body
  <2>1. r[0] = IF 0 = 0 THEN Got(<<>>, pos) ELSE Body(0, r[0 - 1])
    BY <1>2, <1>6, Zenon
  <2> QED
    BY <1>3, <2>1
<1>9. \A i \in 1 .. N : r[i - 1] = g[i - 1] => r[i] = g[i]
  <2> HIDE DEF Body
  <2>1. \A i \in 0 .. N : r[i] = IF i = 0 THEN Got(<<>>, pos) ELSE Body(i, r[i - 1])
    BY <1>6, Zenon
  <2>2. \A i \in 1 .. N : r[i] = Body(i, r[i - 1])
    BY <1>2, <2>1
  <2> QED
    BY <1>4, <2>2
<1>10. r[N] = g[N]
  <2>1. N \in Nat
    BY <1>2
  <2> HIDE DEF N
  <2>2. \A i \in 0 .. N : r[i] = g[i]
    <3>1. Alike(N, r, g)
      BY <2>1, EachAlike
    <3> QED
      BY <1>8, <1>9, <3>1 DEF Alike
  <2> QED
    BY <1>2, <2>2
<1>11. g[N] = Got(x, p[N])
  <2>1. SubSeq(x, 1, N) = x
    BY <1>1
  <2> QED
    BY <1>2, <2>1 DEF g
<1> QED
  BY <1>7, <1>10, <1>11

\* The fields of a thing are read where each is.
EachFieldRead(get, fs, f, p) ==
    /\ f = [n \in Names(fs) |-> f[n]]
    /\ \A i \in 1 .. Len(fs) : get[<<fs[i].type, p[i - 1]>>] = Got(f[fs[i].name], p[i])

\* Fields read each in its place are read as a record.
LEMMA FieldsRead ==
    ASSUME NEW get, NEW fs, Listed(fs), NEW f, NEW p, NEW pos, p[0] = pos,
           EachFieldRead(get, fs, f, p)
    PROVE  GetFields(get, fs, pos) = Got(f, p[Len(fs)])
<1> DEFINE N == Len(fs)
           Body(i, before) ==
                IF ~before.ok THEN Failed
                ELSE LET next == get[<<fs[i].type, before.pos>>] IN
                     IF next.ok
                     THEN Got([n \in DOMAIN before.x \cup {fs[i].name} |->
                                 IF n = fs[i].name THEN next.x ELSE before.x[n]], next.pos)
                     ELSE Failed
           Up(h) == h = [i \in 0 .. N |-> IF i = 0 THEN Got(<<>>, pos) ELSE Body(i, h[i - 1])]
           Upto(i) == {fs[j].name : j \in 1 .. i}
           g == [i \in 0 .. N |-> Got([n \in Upto(i) |-> f[n]], p[i])]
           r == CHOOSE h : Up(h)
<1>2. /\ N \in Nat /\ 0 \in 0 .. N /\ N \in 0 .. N
      /\ \A i \in 1 .. N : i \in 0 .. N /\ i - 1 \in 0 .. N /\ i # 0
      /\ \A i \in 0 .. N : i # 0 => i \in 1 .. N
  <2>1. N \in Nat
    BY ListedIs
  <2> QED
    BY <2>1, SMT
<1>3. g[0] = Got(<<>>, pos)
  <2>1. Upto(0) = {}
    <3>1. 1 .. 0 = {}
      BY SMT
    <3> QED
      BY <3>1
  <2>2. [n \in {} |-> f[n]] = <<>>
    BY SMT
  <2>3. g[0] = Got([n \in Upto(0) |-> f[n]], p[0])
    BY <1>2
  <2> HIDE DEF g, Upto
  <2>4. [n \in Upto(0) |-> f[n]] = <<>>
    BY <2>1, <2>2
  <2> QED
    BY <2>3, <2>4
<1>4. ASSUME NEW i \in 1 .. N PROVE g[i] = Body(i, g[i - 1])
  <2>1. Upto(i) = Upto(i - 1) \cup {fs[i].name}
    <3>1. 1 .. i = 1 .. i - 1 \cup {i}
      BY <1>2, SMT
    <3> QED
      BY <3>1
  <2>2. g[i] = Got([n \in Upto(i) |-> f[n]], p[i]) /\ g[i - 1]
            = Got([n \in Upto(i - 1) |-> f[n]], p[i - 1])
    BY <1>2
  <2>3. get[<<fs[i].type, p[i - 1]>>] = Got(f[fs[i].name], p[i])
    BY DEF EachFieldRead
  <2> HIDE DEF g, Upto
  <2> DEFINE b == g[i - 1]
             c == get[<<fs[i].type, b.pos>>]
             part == [n \in Upto(i - 1) |-> f[n]]
  <2>4. b.ok /\ b.x = part /\ b.pos = p[i - 1]
    BY <2>2 DEF Got
  <2>5. c.ok /\ c.x = f[fs[i].name] /\ c.pos = p[i]
    BY <2>3, <2>4 DEF Got
  <2>6. Body(i, b) = Got([n \in DOMAIN b.x \cup {fs[i].name} |->
                                 IF n = fs[i].name THEN c.x ELSE b.x[n]], c.pos)
    BY <2>4, <2>5
  <2>7. [n \in DOMAIN b.x \cup {fs[i].name} |-> IF n = fs[i].name THEN c.x ELSE b.x[n]]
        = [n \in Upto(i) |-> f[n]]
    <3>1. DOMAIN part = Upto(i - 1) /\ \A n \in Upto(i - 1) : part[n] = f[n]
      OBVIOUS
    <3> HIDE DEF part, b, c
    <3>2. DOMAIN b.x \cup {fs[i].name} = Upto(i)
      BY <2>1, <2>4, <3>1
    <3>3. \A n \in Upto(i) : (IF n = fs[i].name THEN c.x ELSE b.x[n]) = f[n]
      <4> SUFFICES ASSUME NEW n \in Upto(i) PROVE (IF n = fs[i].name THEN c.x ELSE b.x[n]) = f[n]
        OBVIOUS
      <4>1. CASE n = fs[i].name
        BY <2>5, <4>1
      <4>2. CASE n # fs[i].name
        BY <2>1, <2>4, <3>1, <4>2
      <4> QED
        BY <4>1, <4>2
    <3>4. [n \in Upto(i) |-> IF n = fs[i].name THEN c.x ELSE b.x[n]] = [n \in Upto(i) |-> f[n]]
      BY <3>3, Zenon
    <3> QED
      BY <3>2, <3>4
  <2> HIDE DEF b, c, part, Body
  <2> QED
    BY <2>2, <2>5, <2>6, <2>7 DEF b
<1>5. Up(g)
  <2>1. g = [i \in 0 .. N |-> g[i]]
    OBVIOUS
  <2> HIDE DEF g, Body
  <2>2. \A i \in 0 .. N : g[i] = IF i = 0 THEN Got(<<>>, pos) ELSE Body(i, g[i - 1])
    BY <1>2, <1>3, <1>4
  <2>3. [i \in 0 .. N |-> g[i]] = [i \in 0 .. N |-> IF i = 0 THEN Got(<<>>, pos) ELSE Body(i,
            g[i - 1])]
    BY <2>2, Zenon
  <2> QED
    BY <2>1, <2>3
<1>6. Up(r)
  <2> HIDE DEF Up, g
  <2> QED
    BY <1>5
<1>7. GetFields(get, fs, pos) = r[N]
  BY Zenon DEF GetFields
<1>11. g[N] = Got(f, p[N])
  <2>1. Upto(N) = Names(fs)
    BY ListedIs DEF Names
  <2>2. g[N] = Got([n \in Upto(N) |-> f[n]], p[N])
    BY <1>2
  <2> HIDE DEF g, Upto
  <2>3. [n \in Upto(N) |-> f[n]] = f
    BY <2>1 DEF EachFieldRead
  <2> QED
    BY <2>2, <2>3
<1> HIDE DEF r, g
<1>8. r[0] = g[0]
  <2> HIDE DEF Body
  <2>1. r[0] = IF 0 = 0 THEN Got(<<>>, pos) ELSE Body(0, r[0 - 1])
    BY <1>2, <1>6, Zenon
  <2> QED
    BY <1>3, <2>1
<1>9. \A i \in 1 .. N : r[i - 1] = g[i - 1] => r[i] = g[i]
  <2> HIDE DEF Body
  <2>1. \A i \in 0 .. N : r[i] = IF i = 0 THEN Got(<<>>, pos) ELSE Body(i, r[i - 1])
    BY <1>6, Zenon
  <2>2. \A i \in 1 .. N : r[i] = Body(i, r[i - 1])
    BY <1>2, <2>1
  <2> QED
    BY <1>4, <2>2
<1>10. r[N] = g[N]
  <2>1. N \in Nat
    BY <1>2
  <2> HIDE DEF N
  <2>2. \A i \in 0 .. N : r[i] = g[i]
    <3>1. Alike(N, r, g)
      BY <2>1, EachAlike
    <3> QED
      BY <1>8, <1>9, <3>1 DEF Alike
  <2> QED
    BY <1>2, <2>2
<1> QED
  BY <1>7, <1>10, <1>11

\* A thing that begins with a token.
BeginsWith(T1, x, w, v, ts) ==
    /\ w # "todo" /\ Listed(ts) /\ \A i \in 1 .. Len(ts) : Goes(<<ts[i]>>)
    /\ Begun(Written, T1, x) = Token(w, v) \o ts

\* What begins with a token is written as the token and the rest.
LEMMA Begins ==
    ASSUME NEW T1, NEW x, NEW w, NEW v, NEW ts, BeginsWith(T1, x, w, v, ts)
    PROVE  /\ Goes(<<Todo(T1, x)>>)
           /\ \A n \in Nat : /\ After(<<Todo(T1, x)>>, n + 1) = Token(w, v) \o After(ts, n)
                             /\ Listed(After(ts, n))
<1> DEFINE a == Token(w, v)
           b == a \o ts
<1>1. Goes(ts) /\ Listed(ts)
  BY GoesAll DEF BeginsWith
<1>2. Listed(a) /\ Goes(a) /\ \A n \in Nat : After(a, n) = a
  BY TokenWritten DEF BeginsWith
<1>3. Begun(Written, T1, x) = b
  BY DEF BeginsWith
<1> HIDE DEF a
<1>4. Goes(b) /\ \A n \in Nat : After(b, n) = a \o After(ts, n)
  <2>1. Goes(a \o ts) /\ \A n \in Nat : After(a \o ts, n) = After(a, n) \o After(ts, n)
    BY <1>1, <1>2, GoesBoth
  <2> QED
    BY <1>2, <2>1
<1>5. Listed(b)
  BY <1>1, <1>2, ListedCat
<1> HIDE DEF b
<1>6. Goes(<<Todo(T1, x)>>) /\ \A n \in Nat : After(<<Todo(T1, x)>>, n + 1) = After(b, n)
  BY <1>3, <1>4, <1>5, TodoWritten
<1>7. \A n \in Nat : Listed(After(ts, n))
  BY <1>1 DEF Goes, Fine
<1> QED
  BY <1>4, <1>6, <1>7 DEF a

\* The first token is there, the rest behind it.
Advances(s, pos, w, v, whole, rest) ==
    /\ Take(s, w, pos) = Got(v, pos + 1) /\ pos \in Nat /\ pos + 1 \in Nat
    /\ HasAt(s, pos + 1, rest)
    /\ pos + Len(whole) = (pos + 1) + Len(rest)

\* What begins with a token is read by the token and the rest.
LEMMA BeginsRead ==
    ASSUME NEW T1, NEW x, NEW w, NEW v, NEW ts, BeginsWith(T1, x, w, v, ts),
           NEW n \in Nat, NEW s, NEW pos, NEW c, c = After(<<Todo(T1, x)>>, n + 1),
           NEW b, b = After(ts, n), HasAt(s, pos, c)
    PROVE  Advances(s, pos, w, v, c, b)
<1> DEFINE a == Token(w, v)
<1>1. c = a \o b /\ Listed(b)
  <2>1. After(<<Todo(T1, x)>>, n + 1) = Token(w, v) \o After(ts, n) /\ Listed(After(ts, n))
    BY Begins, Zenon
  <2> QED
    BY <2>1
<1>2. Listed(a) /\ Len(a) = 1
  BY TokenWritten DEF BeginsWith
<1>3. HasAt(s, pos, c)
  OBVIOUS
<1> HIDE DEF a
<1>4. HasAt(s, pos, a \o b)
  BY <1>1, <1>3
<1>5. /\ HasAt(s, pos, a) /\ HasAt(s, pos + Len(a), b)
      /\ Len(a \o b) = Len(a) + Len(b) /\ Len(b) \in Nat
  <2>1. Listed(a) /\ Listed(b) /\ HasAt(s, pos, a \o b)
    BY <1>1, <1>2, <1>4
  <2>2. HasAt(s, pos, a)
    BY <2>1, HasBoth
  <2>3. HasAt(s, pos + Len(a), b)
    BY <2>1, HasBoth
  <2>4. Len(a \o b) = Len(a) + Len(b) /\ Len(b) \in Nat
    BY <2>1, HasBoth
  <2> QED
    BY <2>2, <2>3, <2>4
<1>6. Take(s, w, pos) = Got(v, pos + 1) /\ pos \in Nat /\ pos + 1 \in Nat
  <2>1. HasAt(s, pos, Token(w, v))
    BY <1>5 DEF a
  <2> QED
    BY <2>1, TokenTaken DEF BeginsWith
<1>7. Len(c) = 1 + Len(b)
  BY <1>1, <1>2, <1>5
<1>8. pos + (1 + Len(b)) = (pos + 1) + Len(b)
  BY <1>5, <1>6
<1> QED
  BY <1>2, <1>5, <1>6, <1>7, <1>8 DEF Advances

\* Nothing is read as it was written.
LEMMA ReadsNone ==
    ASSUME NEW T1, NEW T2 \in Leaves(Readable)
    PROVE  Reads(1, Opt(T1), Opt(T2), <<>>)
<1>1. Begun(Written, Opt(T1), <<>>) = Token("u8", 0)
  BY DEF Begun, Opt
<1>2. /\ Listed(Token("u8", 0)) /\ Goes(Token("u8", 0)) /\ Len(Token("u8", 0)) = 1
      /\ \A n \in Nat : After(Token("u8", 0), n) = Token("u8", 0)
  BY TokenWritten
<1>3. /\ Goes(<<Todo(Opt(T1), <<>>)>>)
      /\ \A n \in Nat : After(<<Todo(Opt(T1), <<>>)>>, n + 1) = Token("u8", 0)
  <2> DEFINE a == Token("u8", 0)
             T == Opt(T1)
             x == <<>>
  <2>1. Begun(Written, T, x) = a /\ Listed(a) /\ Goes(a) /\ \A n \in Nat : After(a, n) = a
    BY <1>1, <1>2
  <2> HIDE DEF a, T, x
  <2>2. Goes(<<Todo(T, x)>>) /\ \A n \in Nat : After(<<Todo(T, x)>>, n + 1)
            = After(Begun(Written, T, x), n)
    BY <2>1, TodoWritten
  <2>3. Goes(<<Todo(T, x)>>) /\ \A n \in Nat : After(<<Todo(T, x)>>, n + 1) = a
    BY <2>1, <2>2
  <2> QED
    BY <2>3 DEF a, T, x
<1>4. Opt(T2) \in Types(Readable)
  BY TypesAre
<1>5. ASSUME NEW d \in Nat, d >= 1, d <= MaxDepth, NEW s, NEW pos,
             HasAt(s, pos, After(<<Todo(Opt(T1), <<>>)>>, d))
      PROVE  Reader(s)[d][<<Opt(T2), pos>>]
             = Got(<<>>, pos + Len(After(<<Todo(Opt(T1), <<>>)>>, d)))
  <2>1. d - 1 \in Nat /\ (d - 1) + 1 = d /\ d \in 1 .. MaxDepth
    BY <1>5, DepthAssumption, SMT
  <2>2. After(<<Todo(Opt(T1), <<>>)>>, d) = Token("u8", 0)
    BY <1>3, <2>1
  <2>3. Take(s, "u8", pos) = Got(0, pos + 1) /\ pos \in Nat
    BY <1>5, <2>2, TokenTaken
  <2> DEFINE r == Reader(s)
  <2>4. r[d][<<Opt(T2), pos>>] = GetOne(r[d - 1], Readable, Opt(T2), s, pos)
    BY <1>4, <2>1, <2>3, ReaderIs
  <2> HIDE DEF r
  <2> DEFINE got == Take(s, "u8", pos)
  <2>5. got.ok /\ got.x = 0 /\ got.pos = pos + 1
    BY <2>3 DEF Got
  <2> HIDE DEF got
  <2>6. GetOne(r[d - 1], Readable, Opt(T2), s, pos) = Got(<<>>, pos + 1)
    BY <2>5 DEF GetOne, Opt, got
  <2> QED
    BY <1>2, <2>2, <2>4, <2>6 DEF r
<1> QED
  BY <1>3, <1>4, <1>5 DEF Reads

\* Something optional is read as it was written, one round deeper.
LEMMA ReadsSome ==
    ASSUME NEW k \in Nat, NEW T1, NEW T2 \in Leaves(Readable), NEW y, Reads(k, T1, T2, y)
    PROVE  Reads(k + 1, Opt(T1), Opt(T2), <<y>>)
<1> DEFINE ts == <<Todo(T1, y)>>
           O1 == Opt(T1)
           O2 == Opt(T2)
           x == <<y>>
<1>1. Begun(Written, O1, x) = Token("u8", 1) \o ts
  <2>1. x # <<>> /\ x[1] = y
    BY SMT
  <2> QED
    BY <2>1 DEF Begun, Opt
<1>2. Listed(ts) /\ Len(ts) = 1 /\ ts[1] = Todo(T1, y)
  BY ListedOne
<1>3. Goes(ts)
  BY DEF Reads
<1>4. \A i \in 1 .. Len(ts) : Goes(<<ts[i]>>)
  <2>1. \A i \in 1 .. 1 : i = 1
    BY SMT
  <2> QED
    BY <1>2, <1>3, <2>1
<1>5. O2 \in Types(Readable) /\ O2.t = "opt" /\ O2.of = T2
  BY TypesAre DEF Opt
<1>6. T2 \in Types(Readable)
  BY TypesAre
<1>7. \A d \in Nat : d >= k /\ d <= MaxDepth =>
        \A s, pos : HasAt(s, pos, After(ts, d)) =>
            Reader(s)[d][<<T2, pos>>] = Got(y, pos + Len(After(ts, d)))
  BY DEF Reads
<1> HIDE DEF ts, O1, O2, x
<1>14. BeginsWith(O1, x, "u8", 1, ts)
  BY <1>1, <1>2, <1>4 DEF BeginsWith
<1>8. Goes(<<Todo(O1, x)>>)
  BY <1>14, Begins
<1>9. ASSUME NEW d \in Nat, d >= k + 1, d <= MaxDepth, NEW s, NEW pos,
             HasAt(s, pos, After(<<Todo(O1, x)>>, d))
      PROVE  Reader(s)[d][<<O2, pos>>] = Got(x, pos + Len(After(<<Todo(O1, x)>>, d)))
  <2>1. /\ d - 1 \in Nat /\ (d - 1) + 1 = d /\ d \in 1 .. MaxDepth
        /\ d - 1 >= k /\ d - 1 <= MaxDepth
    BY <1>9, DepthAssumption, SMT
  <2>2. HasAt(s, pos, After(<<Todo(O1, x)>>, (d - 1) + 1))
    BY <1>9, <2>1
  <2>3. /\ Take(s, "u8", pos) = Got(1, pos + 1) /\ pos \in Nat /\ pos + 1 \in Nat
        /\ HasAt(s, pos + 1, After(ts, d - 1))
        /\ pos + Len(After(<<Todo(O1, x)>>, (d - 1) + 1)) = (pos + 1) + Len(After(ts, d - 1))
    <3> DEFINE m == d - 1
               w == "u8"
               whole == After(<<Todo(O1, x)>>, m + 1)
               rest == After(ts, m)
    <3>1. m \in Nat /\ HasAt(s, pos, whole) /\ BeginsWith(O1, x, w, 1, ts)
      BY <1>14, <2>1, <2>2
    <3> HIDE DEF m, w
    <3>2. whole = After(<<Todo(O1, x)>>, m + 1) /\ rest = After(ts, m)
      OBVIOUS
    <3> HIDE DEF whole, rest
    <3>3. Advances(s, pos, w, 1, whole, rest)
      BY <3>1, <3>2, BeginsRead
    <3> QED
      BY <3>3 DEF Advances, m, w, whole, rest
  <2> DEFINE r == Reader(s)
             end == (pos + 1) + Len(After(ts, d - 1))
  <2>4. r[d - 1][<<T2, pos + 1>>] = Got(y, end)
    BY <1>7, <2>1, <2>3
  <2>5. r[d][<<O2, pos>>] = GetOne(r[d - 1], Readable, O2, s, pos)
    BY <1>5, <2>1, <2>3, ReaderIs
  <2> HIDE DEF r, end
  <2> DEFINE some == Take(s, "u8", pos)
  <2>6. some.ok /\ some.x = 1 /\ some.pos = pos + 1
    BY <2>3 DEF Got
  <2> HIDE DEF some
  <2> DEFINE got == r[d - 1][<<T2, some.pos>>]
  <2>7. got.ok /\ got.x = y /\ got.pos = end
    BY <2>4, <2>6 DEF Got
  <2> HIDE DEF got
  <2>8. GetOne(r[d - 1], Readable, O2, s, pos) = Got(<<got.x>>, got.pos)
    <3>1. GetOne(r[d - 1], Readable, O2, s, pos)
          = IF ~some.ok THEN Failed
            ELSE IF some.x = 0 THEN Got(<<>>, some.pos)
            ELSE IF got.ok THEN Got(<<got.x>>, got.pos) ELSE Failed
      BY <1>5 DEF GetOne, some, got
    <3> QED
      BY <2>6, <2>7, <3>1
  <2> QED
    BY <2>1, <2>3, <2>5, <2>7, <2>8 DEF r, end, x
<1>10. Reads(k + 1, O1, O2, x)
  BY <1>5, <1>8, <1>9 DEF Reads
<1> QED
  BY <1>10 DEF O1, O2, x

\* A list is read as it was written, one round deeper than its elements.
LEMMA ReadsMany ==
    ASSUME NEW k \in Nat, NEW T1, NEW T2 \in Leaves(Readable), NEW x, Listed(x),
           \A i \in 1 .. Len(x) : Reads(k, T1, T2, x[i])
    PROVE  Reads(k + 1, Many(T1), Many(T2), x)
<1> DEFINE N == Len(x)
           ts == [i \in 1 .. N |-> Todo(T1, x[i])]
           O1 == Many(T1)
           O2 == Many(T2)
<1>1. Begun(Written, O1, x) = Token("u32", N) \o ts
  BY DEF Begun, Many
<1>2. N \in Nat
  BY ListedIs
<1>3. Listed(ts) /\ Len(ts) = N
  <2>1. DOMAIN ts = 1 .. N /\ ts = [i \in 1 .. N |-> ts[i]]
    OBVIOUS
  <2> HIDE DEF ts, N
  <2> QED
    BY <1>2, <2>1, ListedMade
<1>4. \A i \in 1 .. N : ts[i] = Todo(T1, x[i])
  OBVIOUS
<1>5. \A i \in 1 .. N : Reads(k, T1, T2, x[i])
  OBVIOUS
<1>6. O2 \in Types(Readable) /\ O2.t = "many" /\ O2.of = T2
  BY TypesAre DEF Many
<1> HIDE DEF ts, N, O1, O2
<1>7. \A i \in 1 .. Len(ts) : Goes(<<ts[i]>>)
  BY <1>3, <1>4, <1>5 DEF Reads
<1>14. BeginsWith(O1, x, "u32", N, ts)
  BY <1>1, <1>3, <1>7 DEF BeginsWith
<1>8. Goes(<<Todo(O1, x)>>)
  BY <1>14, Begins
<1>9. ASSUME NEW d \in Nat, d >= k + 1, d <= MaxDepth, NEW s, NEW pos,
             HasAt(s, pos, After(<<Todo(O1, x)>>, d))
      PROVE  Reader(s)[d][<<O2, pos>>] = Got(x, pos + Len(After(<<Todo(O1, x)>>, d)))
  <2>1. /\ d - 1 \in Nat /\ (d - 1) + 1 = d /\ d \in 1 .. MaxDepth
        /\ d - 1 >= k /\ d - 1 <= MaxDepth
    BY <1>9, DepthAssumption, SMT
  <2>2. HasAt(s, pos, After(<<Todo(O1, x)>>, (d - 1) + 1))
    BY <1>9, <2>1
  <2>3. /\ Take(s, "u32", pos) = Got(N, pos + 1) /\ pos \in Nat /\ pos + 1 \in Nat
        /\ HasAt(s, pos + 1, After(ts, d - 1))
        /\ pos + Len(After(<<Todo(O1, x)>>, (d - 1) + 1)) = (pos + 1) + Len(After(ts, d - 1))
    <3> DEFINE m == d - 1
               w == "u32"
               whole == After(<<Todo(O1, x)>>, m + 1)
               rest == After(ts, m)
    <3>1. m \in Nat /\ HasAt(s, pos, whole) /\ BeginsWith(O1, x, w, N, ts)
      BY <1>14, <2>1, <2>2
    <3> HIDE DEF m, w
    <3>2. whole = After(<<Todo(O1, x)>>, m + 1) /\ rest = After(ts, m)
      OBVIOUS
    <3> HIDE DEF whole, rest
    <3>3. Advances(s, pos, w, N, whole, rest)
      BY <3>1, <3>2, BeginsRead
    <3> QED
      BY <3>3 DEF Advances, m, w, whole, rest
  <2> DEFINE r == Reader(s)
             get == r[d - 1]
             end == (pos + 1) + Len(After(ts, d - 1))
  <2>4. PICK p : Placed(p, ts, d - 1, s, pos + 1)
    BY <1>3, <1>7, <2>1, <2>3, AllPlaced
  <2>5. p[0] = pos + 1 /\ p[N] = end
    BY <1>3, <2>4 DEF Placed
  <2>6. ASSUME NEW i \in 1 .. N PROVE get[<<T2, p[i - 1]>>] = Got(x[i], p[i])
    <3>1. /\ HasAt(s, p[i - 1], After(<<ts[i]>>, d - 1))
          /\ p[i] = p[i - 1] + Len(After(<<ts[i]>>, d - 1))
      BY <1>3, <2>4 DEF Placed
    <3>2. ts[i] = Todo(T1, x[i]) /\ Reads(k, T1, T2, x[i])
      BY <1>4, <1>5
    <3>3. HasAt(s, p[i - 1], After(<<Todo(T1, x[i])>>, d - 1))
      BY <3>1, <3>2
    <3>4. Reader(s)[d - 1][<<T2, p[i - 1]>>]
          = Got(x[i], p[i - 1] + Len(After(<<Todo(T1, x[i])>>, d - 1)))
      BY <2>1, <3>2, <3>3 DEF Reads
    <3> QED
      BY <3>1, <3>2, <3>4
  <2>7. r[d][<<O2, pos>>] = GetOne(get, Readable, O2, s, pos)
    BY <1>6, <2>1, <2>3, ReaderIs
  <2> HIDE DEF r, end, get
  <2>8. GetMany(get, T2, N, pos + 1) = Got(x, end)
    <3>1. EachRead(get, T2, x, p)
      BY <2>6 DEF N, EachRead
    <3>2. GetMany(get, T2, Len(x), pos + 1) = Got(x, p[Len(x)])
      BY <2>5, <3>1, ManyRead
    <3> QED
      BY <2>5, <3>2 DEF N
  <2> DEFINE n == Take(s, "u32", pos)
  <2>9. n.ok /\ n.x = N /\ n.pos = pos + 1
    BY <2>3 DEF Got
  <2> HIDE DEF n
  <2>10. GetOne(get, Readable, O2, s, pos) = IF n.ok THEN GetMany(get, T2, n.x, n.pos) ELSE Failed
    BY <1>6 DEF GetOne, n
  <2> QED
    BY <2>1, <2>3, <2>7, <2>8, <2>9, <2>10 DEF r, end
<1>10. Reads(k + 1, O1, O2, x)
  BY <1>6, <1>8, <1>9 DEF Reads
<1> QED
  BY <1>10 DEF O1, O2

\* Fields read as rf are those written as wf, with k rounds for each.
Matches(k, wf, rf, f) ==
    /\ Listed(wf) /\ Listed(rf) /\ Len(rf) = Len(wf)
    /\ f = [n \in Names(rf) |-> f[n]]
    /\ \A i \in 1 .. Len(rf) : /\ rf[i].name = wf[i].name
                               /\ Reads(k, wf[i].type, rf[i].type, f[rf[i].name])

TodoFields(wf, f) == [i \in 1 .. Len(wf) |-> Todo(wf[i].type, f[wf[i].name])]

\* Fields that match can be written to the end.
LEMMA TodoFieldsGo ==
    ASSUME NEW k, NEW wf, NEW rf, NEW f, Matches(k, wf, rf, f)
    PROVE  /\ Listed(TodoFields(wf, f)) /\ Len(TodoFields(wf, f)) = Len(wf)
           /\ \A i \in 1 .. Len(TodoFields(wf, f)) : Goes(<<TodoFields(wf, f)[i]>>)
<1> DEFINE ts == TodoFields(wf, f)
           N == Len(wf)
<1>1. DOMAIN ts = 1 .. N /\ ts = [i \in 1 .. N |-> ts[i]]
  BY DEF TodoFields
<1>2. N \in Nat
  BY ListedIs DEF Matches
<1>3. \A i \in 1 .. N : ts[i] = Todo(wf[i].type, f[wf[i].name])
  BY DEF TodoFields
<1> HIDE DEF ts
<1>4. Listed(ts) /\ Len(ts) = N
  <2> HIDE DEF N
  <2> QED
    BY <1>1, <1>2, ListedMade
<1>5. \A i \in 1 .. N : Goes(<<Todo(wf[i].type, f[wf[i].name])>>)
  <2> SUFFICES ASSUME NEW i \in 1 .. N PROVE Goes(<<Todo(wf[i].type, f[wf[i].name])>>)
    OBVIOUS
  <2>1. rf[i].name = wf[i].name /\ Reads(k, wf[i].type, rf[i].type, f[rf[i].name])
    BY DEF Matches
  <2> QED
    BY <2>1 DEF Reads
<1> QED
  BY <1>3, <1>4, <1>5 DEF ts

\* Fields that match are read as a variant.
LEMMA VariantRead ==
    ASSUME NEW k \in Nat, NEW wf, NEW rf, NEW f, Matches(k, wf, rf, f), NEW tag, NEW is,
           NEW d \in Nat, d >= k, d <= MaxDepth, NEW s, NEW pos,
           HasAt(s, pos, After(TodoFields(wf, f), d))
    PROVE  GetVariant(Reader(s)[d], Variant(tag, is, rf), pos)
           = Got([is |-> is, f |-> f], pos + Len(After(TodoFields(wf, f), d)))
<1> DEFINE ts == TodoFields(wf, f)
           get == Reader(s)[d]
           N == Len(rf)
           end == pos + Len(After(ts, d))
<1>1. /\ Listed(ts) /\ Len(ts) = N
      /\ \A i \in 1 .. Len(ts) : Goes(<<ts[i]>>)
  <2>1. Len(rf) = Len(wf)
    BY DEF Matches
  <2>2. /\ Listed(ts) /\ Len(ts) = Len(wf)
        /\ \A i \in 1 .. Len(ts) : Goes(<<ts[i]>>)
    BY TodoFieldsGo
  <2> HIDE DEF ts
  <2> QED
    BY <2>1, <2>2
<1>2. \A i \in 1 .. N : ts[i] = Todo(wf[i].type, f[wf[i].name])
  BY DEF TodoFields, Matches
<1>3. PICK p : Placed(p, ts, d, s, pos)
  <2>1. HasAt(s, pos, After(ts, d))
    OBVIOUS
  <2> HIDE DEF ts
  <2> QED
    BY <1>1, <2>1, AllPlaced
<1>4. p[0] = pos /\ p[N] = end
  BY <1>1, <1>3 DEF Placed
<1> HIDE DEF ts
<1>5. ASSUME NEW i \in 1 .. N PROVE get[<<rf[i].type, p[i - 1]>>] = Got(f[rf[i].name], p[i])
  <2> DEFINE x == f[rf[i].name]
             T1 == wf[i].type
             T2 == rf[i].type
  <2>1. /\ HasAt(s, p[i - 1], After(<<ts[i]>>, d))
        /\ p[i] = p[i - 1] + Len(After(<<ts[i]>>, d))
    BY <1>1, <1>3 DEF Placed
  <2>2. rf[i].name = wf[i].name /\ Reads(k, T1, T2, x)
    BY DEF Matches
  <2>3. ts[i] = Todo(T1, x)
    BY <1>2, <2>2
  <2> HIDE DEF x, T1, T2
  <2>4. HasAt(s, p[i - 1], After(<<Todo(T1, x)>>, d))
    BY <2>1, <2>3
  <2>5. Reader(s)[d][<<T2, p[i - 1]>>] = Got(x, p[i - 1] + Len(After(<<Todo(T1, x)>>, d)))
    BY <2>2, <2>4 DEF Reads
  <2> QED
    BY <2>1, <2>3, <2>5 DEF x, T2
<1> HIDE DEF get, end
<1>6. GetFields(get, rf, pos) = Got(f, end)
  <2>1. EachFieldRead(get, rf, f, p)
    BY <1>5 DEF EachFieldRead, Matches
  <2>2. Listed(rf)
    BY DEF Matches
  <2>3. GetFields(get, rf, pos) = Got(f, p[Len(rf)])
    BY <1>4, <2>1, <2>2, FieldsRead
  <2> QED
    BY <1>4, <2>3
<1> DEFINE var == Variant(tag, is, rf)
           got == GetFields(get, var.fields, pos)
<1>7. var.fields = rf /\ var.is = is
  BY DEF Variant
<1>8. got.ok /\ got.x = f /\ got.pos = end
  BY <1>6, <1>7 DEF Got
<1> HIDE DEF got, var
<1>9. GetVariant(get, var, pos) = IF got.ok THEN Got([is |-> var.is, f |-> got.x],
                                                     got.pos) ELSE Failed
  BY DEF GetVariant, got
<1>10. GetVariant(get, var, pos) = Got([is |-> is, f |-> f], end)
  BY <1>7, <1>8, <1>9
<1> QED
  BY <1>10 DEF var, get, end, ts

-----------------------------------------------------------------------------

\* The reader's table has this variant, at this tag of its own.
Tagged(n, tag, is, rf) ==
    /\ tag # Untagged
    /\ \A v \in Readable[n] : v.tag # Untagged
    /\ Variant(tag, is, rf) \in Readable[n]
    /\ \A v \in Readable[n] : v.tag = tag => v = Variant(tag, is, rf)

\* A thing of one variant that is written with its tag and read by it.
LEMMA ReadsTagged ==
    ASSUME NEW k \in Nat, NEW n \in DOMAIN Readable, NEW is, NEW f, NEW tag, NEW wf, NEW rf,
           VariantIn(Written[n], is) = Variant(tag, is, wf), Tagged(n, tag, is, rf),
           Matches(k, wf, rf, f)
    PROVE  Reads(k + 1, One(n), One(n), [is |-> is, f |-> f])
<1> DEFINE x == [is |-> is, f |-> f]
           T == One(n)
           ts == TodoFields(wf, f)
           V == Variant(tag, is, rf)
<1>1. Begun(Written, T, x) = Token("u8", tag) \o ts
  <2> DEFINE var == VariantIn(Written[n], is)
  <2>1. var.tag = tag /\ var.fields = wf /\ tag # Untagged
    BY DEF Variant, Tagged
  <2>2. x.is = is /\ x.f = f /\ T.t = "one" /\ T.of = n
    BY DEF One
  <2> HIDE DEF x, T, var
  <2>3. Begun(Written, T, x)
        = (IF var.tag = Untagged THEN <<>> ELSE Token("u8", var.tag))
          \o [i \in 1 .. Len(var.fields) |-> Todo(var.fields[i].type, f[var.fields[i].name])]
    BY <2>2 DEF Begun, var
  <2>4. Begun(Written, T, x) = Token("u8", tag) \o [i \in 1 .. Len(wf) |-> Todo(wf[i].type,
            f[wf[i].name])]
    BY <2>1, <2>3
  <2> QED
    BY <2>4 DEF TodoFields
<1>2. T \in Types(Readable) /\ T.t = "one" /\ T.of = n
  BY TypesAre DEF One
<1>3. BeginsWith(T, x, "u8", tag, ts)
  BY <1>1, TodoFieldsGo DEF BeginsWith
<1> HIDE DEF ts, T, x
<1>4. Goes(<<Todo(T, x)>>)
  BY <1>3, Begins
<1>5. ASSUME NEW d \in Nat, d >= k + 1, d <= MaxDepth, NEW s, NEW pos,
             HasAt(s, pos, After(<<Todo(T, x)>>, d))
      PROVE  Reader(s)[d][<<T, pos>>] = Got(x, pos + Len(After(<<Todo(T, x)>>, d)))
  <2>1. /\ d - 1 \in Nat /\ (d - 1) + 1 = d /\ d \in 1 .. MaxDepth
        /\ d - 1 >= k /\ d - 1 <= MaxDepth
    BY <1>5, DepthAssumption, SMT
  <2>2. HasAt(s, pos, After(<<Todo(T, x)>>, (d - 1) + 1))
    BY <1>5, <2>1
  <2>3. /\ Take(s, "u8", pos) = Got(tag, pos + 1) /\ pos \in Nat /\ pos + 1 \in Nat
        /\ HasAt(s, pos + 1, After(ts, d - 1))
        /\ pos + Len(After(<<Todo(T, x)>>, (d - 1) + 1)) = (pos + 1) + Len(After(ts, d - 1))
    <3> DEFINE m == d - 1
               w == "u8"
               whole == After(<<Todo(T, x)>>, m + 1)
               rest == After(ts, m)
    <3>1. m \in Nat /\ HasAt(s, pos, whole) /\ BeginsWith(T, x, w, tag, ts)
      BY <1>3, <2>1, <2>2
    <3> HIDE DEF m, w
    <3>2. whole = After(<<Todo(T, x)>>, m + 1) /\ rest = After(ts, m)
      OBVIOUS
    <3> HIDE DEF whole, rest
    <3>3. Advances(s, pos, w, tag, whole, rest)
      BY <3>1, <3>2, BeginsRead
    <3> QED
      BY <3>3 DEF Advances, m, w, whole, rest
  <2> DEFINE r == Reader(s)
             get == r[d - 1]
             end == (pos + 1) + Len(After(ts, d - 1))
  <2>4. GetVariant(get, V, pos + 1) = Got(x, end)
    <3>1. HasAt(s, pos + 1, After(TodoFields(wf, f), d - 1))
      BY <2>3 DEF ts
    <3>2. GetVariant(Reader(s)[d - 1], Variant(tag, is, rf), pos + 1)
          = Got([is |-> is, f |-> f], (pos + 1) + Len(After(TodoFields(wf, f), d - 1)))
      BY <2>1, <3>1, VariantRead
    <3> QED
      BY <3>2 DEF ts, x
  <2>5. r[d][<<T, pos>>] = GetOne(get, Readable, T, s, pos)
    BY <1>2, <2>1, <2>3, ReaderIs
  <2> HIDE DEF r, end, get
  <2> DEFINE tok == Take(s, "u8", pos)
  <2>6. tok.ok /\ tok.x = tag /\ tok.pos = pos + 1
    BY <2>3 DEF Got
  <2> HIDE DEF tok
  <2>7. /\ ~(\E v \in Readable[n] : v.tag = Untagged)
        /\ \E v \in Readable[n] : v.tag = tok.x
        /\ (CHOOSE v \in Readable[n] : v.tag = tok.x) = V
    <3>1. V \in Readable[n] /\ V.tag = tag /\ \A v \in Readable[n] : v.tag = tag => v = V
      BY DEF Tagged, Variant
    <3>2. ~(\E v \in Readable[n] : v.tag = Untagged)
      BY DEF Tagged
    <3> HIDE DEF V
    <3> QED
      BY <2>6, <3>1, <3>2
  <2> HIDE DEF V
  <2>8. GetOne(get, Readable, T, s, pos)
        = IF \E v \in Readable[n] : v.tag = Untagged
          THEN GetVariant(get, CHOOSE v \in Readable[n] : TRUE, pos)
          ELSE IF tok.ok /\ \E v \in Readable[n] : v.tag = tok.x
          THEN GetVariant(get, CHOOSE v \in Readable[n] : v.tag = tok.x, tok.pos)
          ELSE Failed
    BY <1>2 DEF GetOne, tok
  <2>9. GetOne(get, Readable, T, s, pos) = GetVariant(get, V, pos + 1)
    BY <2>6, <2>7, <2>8
  <2> QED
    BY <2>1, <2>3, <2>4, <2>5, <2>9 DEF r, end
<1>6. Reads(k + 1, T, T, x)
  BY <1>2, <1>4, <1>5 DEF Reads
<1> QED
  BY <1>6 DEF T, x

\* A thing of the only variant there is.
LEMMA ReadsUntagged ==
    ASSUME NEW k \in Nat, NEW n \in DOMAIN Readable, NEW is, NEW f, NEW wf, NEW rf,
           VariantIn(Written[n], is) = Variant(Untagged, is, wf),
           Readable[n] = {Variant(Untagged, is, rf)},
           Matches(k, wf, rf, f)
    PROVE  Reads(k + 1, One(n), One(n), [is |-> is, f |-> f])
<1> DEFINE x == [is |-> is, f |-> f]
           T == One(n)
           ts == TodoFields(wf, f)
           V == Variant(Untagged, is, rf)
<1>0. /\ Listed(ts) /\ Goes(ts)
      /\ \A m \in Nat : Listed(After(ts, m))
  <2>1. Listed(ts) /\ \A i \in 1 .. Len(ts) : Goes(<<ts[i]>>)
    BY TodoFieldsGo
  <2> HIDE DEF ts
  <2>2. Goes(ts)
    BY <2>1, GoesAll
  <2> QED
    BY <2>1, <2>2 DEF Goes, Fine
<1>1. Begun(Written, T, x) = ts
  <2> DEFINE var == VariantIn(Written[n], is)
  <2>1. var.tag = Untagged /\ var.fields = wf
    BY DEF Variant
  <2>2. x.is = is /\ x.f = f /\ T.t = "one" /\ T.of = n
    BY DEF One
  <2> HIDE DEF x, T, var
  <2>3. Begun(Written, T, x)
        = (IF var.tag = Untagged THEN <<>> ELSE Token("u8", var.tag))
          \o [i \in 1 .. Len(var.fields) |-> Todo(var.fields[i].type, f[var.fields[i].name])]
    BY <2>2 DEF Begun, var
  <2>4. Begun(Written, T, x) = <<>> \o [i \in 1 .. Len(wf) |-> Todo(wf[i].type, f[wf[i].name])]
    BY <2>1, <2>3
  <2>5. Begun(Written, T, x) = <<>> \o ts
    BY <2>4 DEF TodoFields
  <2>6. <<>> \o ts = ts
    <3>1. PICK A : ts \in Seq(A)
      BY <1>0 DEF Listed
    <3> HIDE DEF ts
    <3> QED
      BY <3>1, ConcatEmptySeq
  <2> QED
    BY <2>5, <2>6
<1>2. T \in Types(Readable) /\ T.t = "one" /\ T.of = n
  BY TypesAre DEF One
<1> HIDE DEF ts, T, x
<1>4. Goes(<<Todo(T, x)>>) /\ \A m \in Nat : After(<<Todo(T, x)>>, m + 1) = After(ts, m)
  <2>1. Listed(Begun(Written, T, x)) /\ Goes(Begun(Written, T, x))
    BY <1>0, <1>1
  <2>2. /\ Goes(<<Todo(T, x)>>)
        /\ \A m \in Nat : After(<<Todo(T, x)>>, m + 1) = After(Begun(Written, T, x), m)
    BY <2>1, TodoWritten
  <2> QED
    BY <1>1, <2>2
<1>5. ASSUME NEW d \in Nat, d >= k + 1, d <= MaxDepth, NEW s, NEW pos,
             HasAt(s, pos, After(<<Todo(T, x)>>, d))
      PROVE  Reader(s)[d][<<T, pos>>] = Got(x, pos + Len(After(<<Todo(T, x)>>, d)))
  <2>1. /\ d - 1 \in Nat /\ (d - 1) + 1 = d /\ d \in 1 .. MaxDepth
        /\ d - 1 >= k /\ d - 1 <= MaxDepth
    BY <1>5, DepthAssumption, SMT
  <2>2. After(<<Todo(T, x)>>, d) = After(ts, d - 1)
    BY <1>4, <2>1
  <2>3. HasAt(s, pos, After(ts, d - 1)) /\ pos \in Nat
    BY <1>5, <2>2 DEF HasAt
  <2> DEFINE r == Reader(s)
             get == r[d - 1]
             end == pos + Len(After(ts, d - 1))
  <2>4. GetVariant(get, V, pos) = Got(x, end)
    <3>1. HasAt(s, pos, After(TodoFields(wf, f), d - 1))
      BY <2>3 DEF ts
    <3>2. GetVariant(Reader(s)[d - 1], Variant(Untagged, is, rf), pos)
          = Got([is |-> is, f |-> f], pos + Len(After(TodoFields(wf, f), d - 1)))
      BY <2>1, <3>1, VariantRead
    <3> QED
      BY <3>2 DEF ts, x
  <2>5. r[d][<<T, pos>>] = GetOne(get, Readable, T, s, pos)
    BY <1>2, <2>1, <2>3, ReaderIs
  <2> HIDE DEF r, end, get
  <2>7. /\ \E v \in Readable[n] : v.tag = Untagged
        /\ (CHOOSE v \in Readable[n] : TRUE) = V
    <3>1. V.tag = Untagged /\ Readable[n] = {V}
      BY DEF Variant
    <3> HIDE DEF V
    <3> QED
      BY <3>1
  <2> HIDE DEF V
  <2>9. GetOne(get, Readable, T, s, pos) = GetVariant(get, V, pos)
    <3> DEFINE tok == Take(s, "u8", pos)
    <3> HIDE DEF tok
    <3>8. GetOne(get, Readable, T, s, pos)
        = IF \E v \in Readable[n] : v.tag = Untagged
          THEN GetVariant(get, CHOOSE v \in Readable[n] : TRUE, pos)
          ELSE IF tok.ok /\ \E v \in Readable[n] : v.tag = tok.x
          THEN GetVariant(get, CHOOSE v \in Readable[n] : v.tag = tok.x, tok.pos)
          ELSE Failed
      BY <1>2 DEF GetOne, tok
    <3> QED
      BY <2>7, <3>8
  <2> QED
    BY <2>1, <2>2, <2>4, <2>5, <2>9 DEF r, end
<1>6. Reads(k + 1, T, T, x)
  BY <1>2, <1>4, <1>5 DEF Reads
<1> QED
  BY <1>6 DEF T, x

-----------------------------------------------------------------------------
(* The reader's tables.                                                    *)

\* The reader's tables of the heap, by name.
LEMMA ReadableIs ==
    /\ Readable["Value"] = ReadValue
    /\ Readable["Object"] = ReadObject
    /\ Readable["Property"] = ReadProperty
    /\ Readable["ObjectKind"] = ReadObjectKind
    /\ Readable["Env"] = ReadEnv
    /\ Readable["Binding"] = ReadBinding
    /\ Readable["Handler"] = ReadHandler
    /\ Readable["Control"] = ReadControl
    /\ Readable["FiberStatus"] = ReadFiberStatus
    /\ Readable["Fiber"] = ReadFiber
    /\ Readable["Kont"] = ReadOperatorKonts \cup ReadControlKonts \cup ReadCollectingKonts
  BY ReadableAssumption DEF ReaderTables

\* Every value is read by its tag.
LEMMA AllTaggedValue == \A v \in Readable["Value"] : v.tag # Untagged
<1>1. \A v \in ReadValue : v.tag # Untagged
  BY DEF ReadValue, Variant, Untagged
<1> QED
  BY <1>1, ReadableIs

\* Every kind of object is read by its tag.
LEMMA AllTaggedObjectKind == \A v \in Readable["ObjectKind"] : v.tag # Untagged
<1>1. \A v \in ReadObjectKind : v.tag # Untagged
  BY DEF ReadObjectKind, Variant, Untagged
<1> QED
  BY <1>1, ReadableIs

\* Every control is read by its tag.
LEMMA AllTaggedControl == \A v \in Readable["Control"] : v.tag # Untagged
<1>1. \A v \in ReadControl : v.tag # Untagged
  BY DEF ReadControl, Variant, Untagged
<1> QED
  BY <1>1, ReadableIs

\* Every status is read by its tag.
LEMMA AllTaggedFiberStatus == \A v \in Readable["FiberStatus"] : v.tag # Untagged
<1>1. \A v \in ReadFiberStatus : v.tag # Untagged
  BY DEF ReadFiberStatus, Variant, Untagged
<1> QED
  BY <1>1, ReadableIs

\* Every frame is read by its tag.
LEMMA AllTaggedKont == \A v \in Readable["Kont"] : v.tag # Untagged
<1>1. \A v \in ReadOperatorKonts : v.tag # Untagged
  BY DEF ReadOperatorKonts, Variant, Untagged
<1>2. \A v \in ReadControlKonts : v.tag # Untagged
  BY DEF ReadControlKonts, Variant, Untagged
<1>3. \A v \in ReadCollectingKonts : v.tag # Untagged
  BY DEF ReadCollectingKonts, Variant, Untagged
<1> QED
  BY <1>1, <1>2, <1>3, ReadableIs

\* The reader's fields of the value Undefined.
LEMMA RValueUndefined ==
    Tagged("Value", 0, "Undefined",
        <<>>)
<1> DEFINE it == Variant(0, "Undefined",
            <<>>)
<1>1. it \in ReadValue
  BY DEF ReadValue
<1>2. \A v \in ReadValue : v.tag = 0 => v = it
  BY DEF ReadValue, Variant
<1>3. it = Variant(0, "Undefined",
            <<>>)
  OBVIOUS
<1> HIDE DEF it
<1>4. 0 # Untagged
  BY DEF Untagged
<1> QED
  BY <1>1, <1>2, <1>3, <1>4, ReadableIs, AllTaggedValue DEF Tagged

\* The reader's fields of the value Int.
LEMMA RValueInt ==
    Tagged("Value", 3, "Int",
        <<F("n", Num("i32"))>>)
<1>1. Fields(<<"n">>, Num("i32")) = <<F("n", Num("i32"))>>
  BY Fields1
<1> DEFINE it == Variant(3, "Int",
            Fields(<<"n">>, Num("i32")))
<1>2. it \in ReadValue
  BY DEF ReadValue
<1>3. \A v \in ReadValue : v.tag = 3 => v = it
  BY DEF ReadValue, Variant
<1>4. it = Variant(3, "Int",
            <<F("n", Num("i32"))>>)
  BY <1>1
<1> HIDE DEF it
<1>5. 3 # Untagged
  BY DEF Untagged
<1> QED
  BY <1>2, <1>3, <1>4, <1>5, ReadableIs, AllTaggedValue DEF Tagged

\* The reader's fields of the value String.
LEMMA RValueString ==
    Tagged("Value", 5, "String",
        <<F("s", Num("u32"))>>)
<1>1. Ids(<<"s">>) = <<F("s", Num("u32"))>>
  BY Fields1 DEF Ids
<1> DEFINE it == Variant(5, "String",
            Ids(<<"s">>))
<1>2. it \in ReadValue
  BY DEF ReadValue
<1>3. \A v \in ReadValue : v.tag = 5 => v = it
  BY DEF ReadValue, Variant
<1>4. it = Variant(5, "String",
            <<F("s", Num("u32"))>>)
  BY <1>1
<1> HIDE DEF it
<1>5. 5 # Untagged
  BY DEF Untagged
<1> QED
  BY <1>2, <1>3, <1>4, <1>5, ReadableIs, AllTaggedValue DEF Tagged

\* The reader's fields of the value Object.
LEMMA RValueObject ==
    Tagged("Value", 6, "Object",
        <<F("o", Num("u32"))>>)
<1>1. Ids(<<"o">>) = <<F("o", Num("u32"))>>
  BY Fields1 DEF Ids
<1> DEFINE it == Variant(6, "Object",
            Ids(<<"o">>))
<1>2. it \in ReadValue
  BY DEF ReadValue
<1>3. \A v \in ReadValue : v.tag = 6 => v = it
  BY DEF ReadValue, Variant
<1>4. it = Variant(6, "Object",
            <<F("o", Num("u32"))>>)
  BY <1>1
<1> HIDE DEF it
<1>5. 6 # Untagged
  BY DEF Untagged
<1> QED
  BY <1>2, <1>3, <1>4, <1>5, ReadableIs, AllTaggedValue DEF Tagged

\* The reader's fields of the value Function.
LEMMA RValueFunction ==
    Tagged("Value", 7, "Function",
        <<F("o", Num("u32"))>>)
<1>1. Ids(<<"o">>) = <<F("o", Num("u32"))>>
  BY Fields1 DEF Ids
<1> DEFINE it == Variant(7, "Function",
            Ids(<<"o">>))
<1>2. it \in ReadValue
  BY DEF ReadValue
<1>3. \A v \in ReadValue : v.tag = 7 => v = it
  BY DEF ReadValue, Variant
<1>4. it = Variant(7, "Function",
            <<F("o", Num("u32"))>>)
  BY <1>1
<1> HIDE DEF it
<1>5. 7 # Untagged
  BY DEF Untagged
<1> QED
  BY <1>2, <1>3, <1>4, <1>5, ReadableIs, AllTaggedValue DEF Tagged

\* The reader's fields of the value Handler.
LEMMA RValueHandler ==
    Tagged("Value", 9, "Handler",
        <<F("h", Num("u32"))>>)
<1>1. Ids(<<"h">>) = <<F("h", Num("u32"))>>
  BY Fields1 DEF Ids
<1> DEFINE it == Variant(9, "Handler",
            Ids(<<"h">>))
<1>2. it \in ReadValue
  BY DEF ReadValue
<1>3. \A v \in ReadValue : v.tag = 9 => v = it
  BY DEF ReadValue, Variant
<1>4. it = Variant(9, "Handler",
            <<F("h", Num("u32"))>>)
  BY <1>1
<1> HIDE DEF it
<1>5. 9 # Untagged
  BY DEF Untagged
<1> QED
  BY <1>2, <1>3, <1>4, <1>5, ReadableIs, AllTaggedValue DEF Tagged

\* The reader's fields of the value Continuation.
LEMMA RValueContinuation ==
    Tagged("Value", 10, "Continuation",
        <<F("k", Num("u32")), F("env", Num("u32"))>>)
<1>1. Ids(<<"k", "env">>) = <<F("k", Num("u32")), F("env", Num("u32"))>>
  BY Fields2 DEF Ids
<1> DEFINE it == Variant(10, "Continuation",
            Ids(<<"k", "env">>))
<1>2. it \in ReadValue
  BY DEF ReadValue
<1>3. \A v \in ReadValue : v.tag = 10 => v = it
  BY DEF ReadValue, Variant
<1>4. it = Variant(10, "Continuation",
            <<F("k", Num("u32")), F("env", Num("u32"))>>)
  BY <1>1
<1> HIDE DEF it
<1>5. 10 # Untagged
  BY DEF Untagged
<1> QED
  BY <1>2, <1>3, <1>4, <1>5, ReadableIs, AllTaggedValue DEF Tagged

\* The reader's fields of an object.
LEMMA RObjectObject ==
    Readable["Object"] = {Variant(Untagged, "Object",
        <<F("properties", Many(One("Property"))),
          F("prototype", Opt(Num("u32"))), F("kind", One("ObjectKind"))>>)}
<1>1. Fields(<<"properties">>, Many(One("Property"))) = <<F("properties", Many(One("Property")))>>
  BY Fields1
<1>2. Fields(<<"prototype">>, Opt(Num("u32"))) = <<F("prototype", Opt(Num("u32")))>>
  BY Fields1
<1>3. Fields(<<"kind">>, One("ObjectKind")) = <<F("kind", One("ObjectKind"))>>
  BY Fields1
<1>4. <<F("properties", Many(One("Property")))>>
     \o <<F("prototype", Opt(Num("u32")))>>
     = <<F("properties", Many(One("Property"))),
          F("prototype", Opt(Num("u32")))>>
  BY Cat11
<1>5. <<F("properties", Many(One("Property"))),
          F("prototype", Opt(Num("u32")))>>
     \o <<F("kind", One("ObjectKind"))>>
     = <<F("properties", Many(One("Property"))),
          F("prototype", Opt(Num("u32"))), F("kind", One("ObjectKind"))>>
  BY Cat21
<1>6. Readable["Object"] = {Variant(Untagged, "Object",
            Fields(<<"properties">>, Many(One("Property")))
            \o Fields(<<"prototype">>, Opt(Num("u32"))) \o Fields(<<"kind">>, One("ObjectKind")))}
  BY ReadableIs DEF ReadObject
<1> QED
  BY <1>1, <1>2, <1>3, <1>4, <1>5, <1>6

\* The reader's fields of a property.
LEMMA RPropertyProperty ==
    Readable["Property"] = {Variant(Untagged, "Property",
        <<F("key", Num("u32")), F("value", One("Value")),
          F("writable", Num("u8")), F("enumerable", Num("u8")),
          F("configurable", Num("u8"))>>)}
<1>1. Ids(<<"key">>) = <<F("key", Num("u32"))>>
  BY Fields1 DEF Ids
<1>2. AValue("value") = <<F("value", One("Value"))>>
  BY Fields1 DEF AValue
<1>3. Flag(<<"writable", "enumerable", "configurable">>) = <<F("writable", Num("u8")),
          F("enumerable", Num("u8")),
          F("configurable", Num("u8"))>>
  BY Fields3 DEF Flag
<1>4. <<F("key", Num("u32"))>>
     \o <<F("value", One("Value"))>>
     = <<F("key", Num("u32")), F("value", One("Value"))>>
  BY Cat11
<1>5. <<F("key", Num("u32")), F("value", One("Value"))>>
     \o <<F("writable", Num("u8")), F("enumerable", Num("u8")),
          F("configurable", Num("u8"))>>
     = <<F("key", Num("u32")), F("value", One("Value")),
          F("writable", Num("u8")), F("enumerable", Num("u8")),
          F("configurable", Num("u8"))>>
  BY Cat23
<1>6. Readable["Property"] = {Variant(Untagged, "Property",
            Ids(<<"key">>) \o AValue("value")
            \o Flag(<<"writable", "enumerable", "configurable">>))}
  BY ReadableIs DEF ReadProperty
<1> QED
  BY <1>1, <1>2, <1>3, <1>4, <1>5, <1>6

\* The reader's fields of the kind of object Ordinary.
LEMMA RObjectKindOrdinary ==
    Tagged("ObjectKind", 0, "Ordinary",
        <<>>)
<1> DEFINE it == Variant(0, "Ordinary",
            <<>>)
<1>1. it \in ReadObjectKind
  BY DEF ReadObjectKind
<1>2. \A v \in ReadObjectKind : v.tag = 0 => v = it
  BY DEF ReadObjectKind, Variant
<1>3. it = Variant(0, "Ordinary",
            <<>>)
  OBVIOUS
<1> HIDE DEF it
<1>4. 0 # Untagged
  BY DEF Untagged
<1> QED
  BY <1>1, <1>2, <1>3, <1>4, ReadableIs, AllTaggedObjectKind DEF Tagged

\* The reader's fields of the kind of object Function.
LEMMA RObjectKindFunction ==
    Tagged("ObjectKind", 2, "Function",
        <<F("params_start", Num("u32")), F("params_count", Num("u16")),
          F("body", Num("u32")), F("expr_body", Opt(Num("u32"))),
          F("env", Num("u32")), F("name", Opt(Num("u32")))>>)
<1>1. Ids(<<"params_start">>) = <<F("params_start", Num("u32"))>>
  BY Fields1 DEF Ids
<1>2. Count(<<"params_count">>) = <<F("params_count", Num("u16"))>>
  BY Fields1 DEF Count
<1>3. Ids(<<"body">>) = <<F("body", Num("u32"))>>
  BY Fields1 DEF Ids
<1>4. Fields(<<"expr_body">>, Opt(Num("u32"))) = <<F("expr_body", Opt(Num("u32")))>>
  BY Fields1
<1>5. Ids(<<"env">>) = <<F("env", Num("u32"))>>
  BY Fields1 DEF Ids
<1>6. Fields(<<"name">>, Opt(Num("u32"))) = <<F("name", Opt(Num("u32")))>>
  BY Fields1
<1>7. <<F("params_start", Num("u32"))>>
     \o <<F("params_count", Num("u16"))>>
     = <<F("params_start", Num("u32")), F("params_count", Num("u16"))>>
  BY Cat11
<1>8. <<F("params_start", Num("u32")), F("params_count", Num("u16"))>>
     \o <<F("body", Num("u32"))>>
     = <<F("params_start", Num("u32")), F("params_count", Num("u16")),
          F("body", Num("u32"))>>
  BY Cat21
<1>9. <<F("params_start", Num("u32")), F("params_count", Num("u16")),
          F("body", Num("u32"))>>
     \o <<F("expr_body", Opt(Num("u32")))>>
     = <<F("params_start", Num("u32")), F("params_count", Num("u16")),
          F("body", Num("u32")), F("expr_body", Opt(Num("u32")))>>
  BY Cat31
<1>10. <<F("params_start", Num("u32")), F("params_count", Num("u16")),
          F("body", Num("u32")), F("expr_body", Opt(Num("u32")))>>
     \o <<F("env", Num("u32"))>>
     = <<F("params_start", Num("u32")), F("params_count", Num("u16")),
          F("body", Num("u32")), F("expr_body", Opt(Num("u32"))),
          F("env", Num("u32"))>>
  BY Cat41
<1>11. <<F("params_start", Num("u32")), F("params_count", Num("u16")),
          F("body", Num("u32")), F("expr_body", Opt(Num("u32"))),
          F("env", Num("u32"))>>
     \o <<F("name", Opt(Num("u32")))>>
     = <<F("params_start", Num("u32")), F("params_count", Num("u16")),
          F("body", Num("u32")), F("expr_body", Opt(Num("u32"))),
          F("env", Num("u32")), F("name", Opt(Num("u32")))>>
  BY Cat51
<1> DEFINE it == Variant(2, "Function",
            Ids(<<"params_start">>) \o Count(<<"params_count">>) \o Ids(<<"body">>)
            \o Fields(<<"expr_body">>, Opt(Num("u32"))) \o Ids(<<"env">>)
            \o Fields(<<"name">>, Opt(Num("u32"))))
<1>12. it \in ReadObjectKind
  BY DEF ReadObjectKind
<1>13. \A v \in ReadObjectKind : v.tag = 2 => v = it
  BY DEF ReadObjectKind, Variant
<1>14. it = Variant(2, "Function",
            <<F("params_start", Num("u32")), F("params_count", Num("u16")),
              F("body", Num("u32")), F("expr_body", Opt(Num("u32"))),
              F("env", Num("u32")), F("name", Opt(Num("u32")))>>)
  BY <1>1, <1>2, <1>3, <1>4, <1>5, <1>6, <1>7, <1>8, <1>9, <1>10, <1>11
<1> HIDE DEF it
<1>15. 2 # Untagged
  BY DEF Untagged
<1> QED
  BY <1>12, <1>13, <1>14, <1>15, ReadableIs, AllTaggedObjectKind DEF Tagged

\* The reader's fields of an environment.
LEMMA REnvEnv ==
    Readable["Env"] = {Variant(Untagged, "Env",
        <<F("bindings", Many(One("Binding"))), F("parent", Opt(Num("u32")))>>)}
<1>1. Fields(<<"bindings">>, Many(One("Binding"))) = <<F("bindings", Many(One("Binding")))>>
  BY Fields1
<1>2. Fields(<<"parent">>, Opt(Num("u32"))) = <<F("parent", Opt(Num("u32")))>>
  BY Fields1
<1>3. <<F("bindings", Many(One("Binding")))>>
     \o <<F("parent", Opt(Num("u32")))>>
     = <<F("bindings", Many(One("Binding"))), F("parent", Opt(Num("u32")))>>
  BY Cat11
<1>4. Readable["Env"] = {Variant(Untagged, "Env",
            Fields(<<"bindings">>, Many(One("Binding")))
            \o Fields(<<"parent">>, Opt(Num("u32"))))}
  BY ReadableIs DEF ReadEnv
<1> QED
  BY <1>1, <1>2, <1>3, <1>4

\* The reader's fields of a binding.
LEMMA RBindingBinding ==
    Readable["Binding"] = {Variant(Untagged, "Binding",
        <<F("key", Num("u32")), F("value", One("Value"))>>)}
<1>1. Ids(<<"key">>) = <<F("key", Num("u32"))>>
  BY Fields1 DEF Ids
<1>2. AValue("value") = <<F("value", One("Value"))>>
  BY Fields1 DEF AValue
<1>3. <<F("key", Num("u32"))>>
     \o <<F("value", One("Value"))>>
     = <<F("key", Num("u32")), F("value", One("Value"))>>
  BY Cat11
<1>4. Readable["Binding"] = {Variant(Untagged, "Binding",
            Ids(<<"key">>) \o AValue("value"))}
  BY ReadableIs DEF ReadBinding
<1> QED
  BY <1>1, <1>2, <1>3, <1>4

\* The reader's fields of a handler.
LEMMA RHandlerHandler ==
    Readable["Handler"] = {Variant(Untagged, "Handler",
        <<F("clauses_start", Num("u32")), F("clauses_count", Num("u16")),
          F("return_param", Num("u32")), F("return_body", Num("u32")),
          F("env", Num("u32"))>>)}
<1>1. Ids(<<"clauses_start">>) = <<F("clauses_start", Num("u32"))>>
  BY Fields1 DEF Ids
<1>2. Count(<<"clauses_count">>) = <<F("clauses_count", Num("u16"))>>
  BY Fields1 DEF Count
<1>3. Ids(<<"return_param", "return_body", "env">>) = <<F("return_param", Num("u32")),
                                                        F("return_body", Num("u32")),
          F("env", Num("u32"))>>
  BY Fields3 DEF Ids
<1>4. <<F("clauses_start", Num("u32"))>>
     \o <<F("clauses_count", Num("u16"))>>
     = <<F("clauses_start", Num("u32")), F("clauses_count", Num("u16"))>>
  BY Cat11
<1>5. <<F("clauses_start", Num("u32")), F("clauses_count", Num("u16"))>>
     \o <<F("return_param", Num("u32")), F("return_body", Num("u32")),
          F("env", Num("u32"))>>
     = <<F("clauses_start", Num("u32")), F("clauses_count", Num("u16")),
          F("return_param", Num("u32")), F("return_body", Num("u32")),
          F("env", Num("u32"))>>
  BY Cat23
<1>6. Readable["Handler"] = {Variant(Untagged, "Handler",
            Ids(<<"clauses_start">>) \o Count(<<"clauses_count">>)
            \o Ids(<<"return_param", "return_body", "env">>))}
  BY ReadableIs DEF ReadHandler
<1> QED
  BY <1>1, <1>2, <1>3, <1>4, <1>5, <1>6

\* The reader's fields of the control Expr.
LEMMA RControlExpr ==
    Tagged("Control", 0, "Expr",
        <<F("e", Num("u32"))>>)
<1>1. Ids(<<"e">>) = <<F("e", Num("u32"))>>
  BY Fields1 DEF Ids
<1> DEFINE it == Variant(0, "Expr",
            Ids(<<"e">>))
<1>2. it \in ReadControl
  BY DEF ReadControl
<1>3. \A v \in ReadControl : v.tag = 0 => v = it
  BY DEF ReadControl, Variant
<1>4. it = Variant(0, "Expr",
            <<F("e", Num("u32"))>>)
  BY <1>1
<1> HIDE DEF it
<1>5. 0 # Untagged
  BY DEF Untagged
<1> QED
  BY <1>2, <1>3, <1>4, <1>5, ReadableIs, AllTaggedControl DEF Tagged

\* The reader's fields of the control Value.
LEMMA RControlValue ==
    Tagged("Control", 2, "Value",
        <<F("v", One("Value"))>>)
<1>1. AValue("v") = <<F("v", One("Value"))>>
  BY Fields1 DEF AValue
<1> DEFINE it == Variant(2, "Value",
            AValue("v"))
<1>2. it \in ReadControl
  BY DEF ReadControl
<1>3. \A v \in ReadControl : v.tag = 2 => v = it
  BY DEF ReadControl, Variant
<1>4. it = Variant(2, "Value",
            <<F("v", One("Value"))>>)
  BY <1>1
<1> HIDE DEF it
<1>5. 2 # Untagged
  BY DEF Untagged
<1> QED
  BY <1>2, <1>3, <1>4, <1>5, ReadableIs, AllTaggedControl DEF Tagged

\* The reader's fields of the control Returning.
LEMMA RControlReturning ==
    Tagged("Control", 3, "Returning",
        <<F("v", One("Value"))>>)
<1>1. AValue("v") = <<F("v", One("Value"))>>
  BY Fields1 DEF AValue
<1> DEFINE it == Variant(3, "Returning",
            AValue("v"))
<1>2. it \in ReadControl
  BY DEF ReadControl
<1>3. \A v \in ReadControl : v.tag = 3 => v = it
  BY DEF ReadControl, Variant
<1>4. it = Variant(3, "Returning",
            <<F("v", One("Value"))>>)
  BY <1>1
<1> HIDE DEF it
<1>5. 3 # Untagged
  BY DEF Untagged
<1> QED
  BY <1>2, <1>3, <1>4, <1>5, ReadableIs, AllTaggedControl DEF Tagged

\* The reader's fields of the control Halted.
LEMMA RControlHalted ==
    Tagged("Control", 4, "Halted",
        <<F("v", One("Value"))>>)
<1>1. AValue("v") = <<F("v", One("Value"))>>
  BY Fields1 DEF AValue
<1> DEFINE it == Variant(4, "Halted",
            AValue("v"))
<1>2. it \in ReadControl
  BY DEF ReadControl
<1>3. \A v \in ReadControl : v.tag = 4 => v = it
  BY DEF ReadControl, Variant
<1>4. it = Variant(4, "Halted",
            <<F("v", One("Value"))>>)
  BY <1>1
<1> HIDE DEF it
<1>5. 4 # Untagged
  BY DEF Untagged
<1> QED
  BY <1>2, <1>3, <1>4, <1>5, ReadableIs, AllTaggedControl DEF Tagged

\* The reader's fields of the control Suspend.
LEMMA RControlSuspend ==
    Tagged("Control", 5, "Suspend",
        <<F("effect", Num("u32")), F("args", Many(One("Value")))>>)
<1>1. Ids(<<"effect">>) = <<F("effect", Num("u32"))>>
  BY Fields1 DEF Ids
<1>2. SomeValues("args") = <<F("args", Many(One("Value")))>>
  BY Fields1 DEF SomeValues
<1>3. <<F("effect", Num("u32"))>>
     \o <<F("args", Many(One("Value")))>>
     = <<F("effect", Num("u32")), F("args", Many(One("Value")))>>
  BY Cat11
<1> DEFINE it == Variant(5, "Suspend",
            Ids(<<"effect">>) \o SomeValues("args"))
<1>4. it \in ReadControl
  BY DEF ReadControl
<1>5. \A v \in ReadControl : v.tag = 5 => v = it
  BY DEF ReadControl, Variant
<1>6. it = Variant(5, "Suspend",
            <<F("effect", Num("u32")), F("args", Many(One("Value")))>>)
  BY <1>1, <1>2, <1>3
<1> HIDE DEF it
<1>7. 5 # Untagged
  BY DEF Untagged
<1> QED
  BY <1>4, <1>5, <1>6, <1>7, ReadableIs, AllTaggedControl DEF Tagged

\* The reader's fields of the status Ready.
LEMMA RFiberStatusReady ==
    Tagged("FiberStatus", 0, "Ready",
        <<>>)
<1> DEFINE it == Variant(0, "Ready",
            <<>>)
<1>1. it \in ReadFiberStatus
  BY DEF ReadFiberStatus
<1>2. \A v \in ReadFiberStatus : v.tag = 0 => v = it
  BY DEF ReadFiberStatus, Variant
<1>3. it = Variant(0, "Ready",
            <<>>)
  OBVIOUS
<1> HIDE DEF it
<1>4. 0 # Untagged
  BY DEF Untagged
<1> QED
  BY <1>1, <1>2, <1>3, <1>4, ReadableIs, AllTaggedFiberStatus DEF Tagged

\* The reader's fields of the status Running.
LEMMA RFiberStatusRunning ==
    Tagged("FiberStatus", 1, "Running",
        <<>>)
<1> DEFINE it == Variant(1, "Running",
            <<>>)
<1>1. it \in ReadFiberStatus
  BY DEF ReadFiberStatus
<1>2. \A v \in ReadFiberStatus : v.tag = 1 => v = it
  BY DEF ReadFiberStatus, Variant
<1>3. it = Variant(1, "Running",
            <<>>)
  OBVIOUS
<1> HIDE DEF it
<1>4. 1 # Untagged
  BY DEF Untagged
<1> QED
  BY <1>1, <1>2, <1>3, <1>4, ReadableIs, AllTaggedFiberStatus DEF Tagged

\* The reader's fields of the status Completed.
LEMMA RFiberStatusCompleted ==
    Tagged("FiberStatus", 3, "Completed",
        <<F("v", One("Value"))>>)
<1>1. AValue("v") = <<F("v", One("Value"))>>
  BY Fields1 DEF AValue
<1> DEFINE it == Variant(3, "Completed",
            AValue("v"))
<1>2. it \in ReadFiberStatus
  BY DEF ReadFiberStatus
<1>3. \A v \in ReadFiberStatus : v.tag = 3 => v = it
  BY DEF ReadFiberStatus, Variant
<1>4. it = Variant(3, "Completed",
            <<F("v", One("Value"))>>)
  BY <1>1
<1> HIDE DEF it
<1>5. 3 # Untagged
  BY DEF Untagged
<1> QED
  BY <1>2, <1>3, <1>4, <1>5, ReadableIs, AllTaggedFiberStatus DEF Tagged

\* The reader's fields of a fiber.
LEMMA RFiberFiber ==
    Readable["Fiber"] = {Variant(Untagged, "Fiber",
        <<F("id", Num("u32")), F("control", One("Control")),
          F("cont", Num("u32")), F("env", Num("u32")),
          F("status", One("FiberStatus")), F("meter", Num("u32"))>>)}
<1>1. Ids(<<"id">>) = <<F("id", Num("u32"))>>
  BY Fields1 DEF Ids
<1>2. Fields(<<"control">>, One("Control")) = <<F("control", One("Control"))>>
  BY Fields1
<1>3. Ids(<<"cont", "env">>) = <<F("cont", Num("u32")), F("env", Num("u32"))>>
  BY Fields2 DEF Ids
<1>4. Fields(<<"status">>, One("FiberStatus")) = <<F("status", One("FiberStatus"))>>
  BY Fields1
<1>5. Ids(<<"meter">>) = <<F("meter", Num("u32"))>>
  BY Fields1 DEF Ids
<1>6. <<F("id", Num("u32"))>>
     \o <<F("control", One("Control"))>>
     = <<F("id", Num("u32")), F("control", One("Control"))>>
  BY Cat11
<1>7. <<F("id", Num("u32")), F("control", One("Control"))>>
     \o <<F("cont", Num("u32")), F("env", Num("u32"))>>
     = <<F("id", Num("u32")), F("control", One("Control")),
          F("cont", Num("u32")), F("env", Num("u32"))>>
  BY Cat22
<1>8. <<F("id", Num("u32")), F("control", One("Control")),
          F("cont", Num("u32")), F("env", Num("u32"))>>
     \o <<F("status", One("FiberStatus"))>>
     = <<F("id", Num("u32")), F("control", One("Control")),
          F("cont", Num("u32")), F("env", Num("u32")),
          F("status", One("FiberStatus"))>>
  BY Cat41
<1>9. <<F("id", Num("u32")), F("control", One("Control")),
          F("cont", Num("u32")), F("env", Num("u32")),
          F("status", One("FiberStatus"))>>
     \o <<F("meter", Num("u32"))>>
     = <<F("id", Num("u32")), F("control", One("Control")),
          F("cont", Num("u32")), F("env", Num("u32")),
          F("status", One("FiberStatus")), F("meter", Num("u32"))>>
  BY Cat51
<1>10. Readable["Fiber"] = {Variant(Untagged, "Fiber",
            Ids(<<"id">>) \o Fields(<<"control">>, One("Control")) \o Ids(<<"cont", "env">>)
            \o Fields(<<"status">>, One("FiberStatus")) \o Ids(<<"meter">>))}
  BY ReadableIs DEF ReadFiber
<1> QED
  BY <1>1, <1>2, <1>3, <1>4, <1>5, <1>6, <1>7, <1>8, <1>9, <1>10

\* The reader's fields of the frame Halt.
LEMMA RKontHalt ==
    Tagged("Kont", 0, "Halt",
        <<>>)
<1> DEFINE it == Variant(0, "Halt",
            <<>>)
<1>1. it \in ReadOperatorKonts
  BY DEF ReadOperatorKonts
<1>2. \A v \in ReadOperatorKonts : v.tag = 0 => v = it
  BY SMTT(30) DEF ReadOperatorKonts, Variant
<1>3. \A v \in ReadControlKonts : v.tag = 0 => v = it
  BY SMTT(30) DEF ReadControlKonts, Variant
<1>4. \A v \in ReadCollectingKonts : v.tag = 0 => v = it
  BY SMTT(30) DEF ReadCollectingKonts, Variant
<1>5. it = Variant(0, "Halt",
            <<>>)
  OBVIOUS
<1> HIDE DEF it
<1>6. 0 # Untagged
  BY DEF Untagged
<1> QED
  BY <1>1, <1>2, <1>3, <1>4, <1>5, <1>6, ReadableIs, AllTaggedKont DEF Tagged

\* The reader's fields of the frame MemberK.
LEMMA RKontMemberK ==
    Tagged("Kont", 7, "MemberK",
        <<F("property", Num("u32")), F("k", Num("u32"))>>)
<1>1. Ids(<<"property", "k">>) = <<F("property", Num("u32")), F("k", Num("u32"))>>
  BY Fields2 DEF Ids
<1> DEFINE it == Variant(7, "MemberK",
            Ids(<<"property", "k">>))
<1>2. it \in ReadOperatorKonts
  BY DEF ReadOperatorKonts
<1>3. \A v \in ReadOperatorKonts : v.tag = 7 => v = it
  BY SMTT(30) DEF ReadOperatorKonts, Variant
<1>4. \A v \in ReadControlKonts : v.tag = 7 => v = it
  BY SMTT(30) DEF ReadControlKonts, Variant
<1>5. \A v \in ReadCollectingKonts : v.tag = 7 => v = it
  BY SMTT(30) DEF ReadCollectingKonts, Variant
<1>6. it = Variant(7, "MemberK",
            <<F("property", Num("u32")), F("k", Num("u32"))>>)
  BY <1>1
<1> HIDE DEF it
<1>7. 7 # Untagged
  BY DEF Untagged
<1> QED
  BY <1>2, <1>3, <1>4, <1>5, <1>6, <1>7, ReadableIs, AllTaggedKont DEF Tagged

\* The reader's fields of the frame AssignVarK.
LEMMA RKontAssignVarK ==
    Tagged("Kont", 10, "AssignVarK",
        <<F("name", Num("u32")), F("env", Num("u32")), F("k", Num("u32"))>>)
<1>1. Ids(<<"name", "env", "k">>) = <<F("name", Num("u32")), F("env", Num("u32")),
                                      F("k", Num("u32"))>>
  BY Fields3 DEF Ids
<1> DEFINE it == Variant(10, "AssignVarK",
            Ids(<<"name", "env", "k">>))
<1>2. it \in ReadOperatorKonts
  BY DEF ReadOperatorKonts
<1>3. \A v \in ReadOperatorKonts : v.tag = 10 => v = it
  BY SMTT(30) DEF ReadOperatorKonts, Variant
<1>4. \A v \in ReadControlKonts : v.tag = 10 => v = it
  BY SMTT(30) DEF ReadControlKonts, Variant
<1>5. \A v \in ReadCollectingKonts : v.tag = 10 => v = it
  BY SMTT(30) DEF ReadCollectingKonts, Variant
<1>6. it = Variant(10, "AssignVarK",
            <<F("name", Num("u32")), F("env", Num("u32")), F("k", Num("u32"))>>)
  BY <1>1
<1> HIDE DEF it
<1>7. 10 # Untagged
  BY DEF Untagged
<1> QED
  BY <1>2, <1>3, <1>4, <1>5, <1>6, <1>7, ReadableIs, AllTaggedKont DEF Tagged

\* The reader's fields of the frame CalleeK.
LEMMA RKontCalleeK ==
    Tagged("Kont", 25, "CalleeK",
        <<F("args_start", Num("u32")), F("args_count", Num("u16")),
          F("env", Num("u32")), F("k", Num("u32"))>>)
<1>1. Ids(<<"args_start">>) = <<F("args_start", Num("u32"))>>
  BY Fields1 DEF Ids
<1>2. Count(<<"args_count">>) = <<F("args_count", Num("u16"))>>
  BY Fields1 DEF Count
<1>3. Ids(<<"env", "k">>) = <<F("env", Num("u32")), F("k", Num("u32"))>>
  BY Fields2 DEF Ids
<1>4. <<F("args_start", Num("u32"))>>
     \o <<F("args_count", Num("u16"))>>
     = <<F("args_start", Num("u32")), F("args_count", Num("u16"))>>
  BY Cat11
<1>5. <<F("args_start", Num("u32")), F("args_count", Num("u16"))>>
     \o <<F("env", Num("u32")), F("k", Num("u32"))>>
     = <<F("args_start", Num("u32")), F("args_count", Num("u16")),
          F("env", Num("u32")), F("k", Num("u32"))>>
  BY Cat22
<1> DEFINE it == Variant(25, "CalleeK",
            Ids(<<"args_start">>) \o Count(<<"args_count">>) \o Ids(<<"env", "k">>))
<1>6. it \in ReadControlKonts
  BY DEF ReadControlKonts
<1>7. \A v \in ReadOperatorKonts : v.tag = 25 => v = it
  BY SMTT(30) DEF ReadOperatorKonts, Variant
<1>8. \A v \in ReadControlKonts : v.tag = 25 => v = it
  BY SMTT(30) DEF ReadControlKonts, Variant
<1>9. \A v \in ReadCollectingKonts : v.tag = 25 => v = it
  BY SMTT(30) DEF ReadCollectingKonts, Variant
<1>10. it = Variant(25, "CalleeK",
            <<F("args_start", Num("u32")), F("args_count", Num("u16")),
              F("env", Num("u32")), F("k", Num("u32"))>>)
  BY <1>1, <1>2, <1>3, <1>4, <1>5
<1> HIDE DEF it
<1>11. 25 # Untagged
  BY DEF Untagged
<1> QED
  BY <1>6, <1>7, <1>8, <1>9, <1>10, <1>11, ReadableIs, AllTaggedKont DEF Tagged

\* The reader's fields of the frame ArgsK.
LEMMA RKontArgsK ==
    Tagged("Kont", 26, "ArgsK",
        <<F("callee", One("Value")), F("done", Many(One("Value"))),
          F("args_start", Num("u32")), F("args_idx", Num("u16")),
          F("args_count", Num("u16")), F("env", Num("u32")), F("k", Num("u32"))>>)
<1>1. AValue("callee") = <<F("callee", One("Value"))>>
  BY Fields1 DEF AValue
<1>2. SomeValues("done") = <<F("done", Many(One("Value")))>>
  BY Fields1 DEF SomeValues
<1>3. Ids(<<"args_start">>) = <<F("args_start", Num("u32"))>>
  BY Fields1 DEF Ids
<1>4. Count(<<"args_idx", "args_count">>) = <<F("args_idx", Num("u16")),
                                              F("args_count", Num("u16"))>>
  BY Fields2 DEF Count
<1>5. Ids(<<"env", "k">>) = <<F("env", Num("u32")), F("k", Num("u32"))>>
  BY Fields2 DEF Ids
<1>6. <<F("callee", One("Value"))>>
     \o <<F("done", Many(One("Value")))>>
     = <<F("callee", One("Value")), F("done", Many(One("Value")))>>
  BY Cat11
<1>7. <<F("callee", One("Value")), F("done", Many(One("Value")))>>
     \o <<F("args_start", Num("u32"))>>
     = <<F("callee", One("Value")), F("done", Many(One("Value"))),
          F("args_start", Num("u32"))>>
  BY Cat21
<1>8. <<F("callee", One("Value")), F("done", Many(One("Value"))),
          F("args_start", Num("u32"))>>
     \o <<F("args_idx", Num("u16")), F("args_count", Num("u16"))>>
     = <<F("callee", One("Value")), F("done", Many(One("Value"))),
          F("args_start", Num("u32")), F("args_idx", Num("u16")),
          F("args_count", Num("u16"))>>
  BY Cat32
<1>9. <<F("callee", One("Value")), F("done", Many(One("Value"))),
          F("args_start", Num("u32")), F("args_idx", Num("u16")),
          F("args_count", Num("u16"))>>
     \o <<F("env", Num("u32")), F("k", Num("u32"))>>
     = <<F("callee", One("Value")), F("done", Many(One("Value"))),
          F("args_start", Num("u32")), F("args_idx", Num("u16")),
          F("args_count", Num("u16")), F("env", Num("u32")), F("k", Num("u32"))>>
  BY Cat52
<1> DEFINE it == Variant(26, "ArgsK",
            AValue("callee") \o SomeValues("done") \o Ids(<<"args_start">>)
            \o Count(<<"args_idx", "args_count">>) \o Ids(<<"env", "k">>))
<1>10. it \in ReadControlKonts
  BY DEF ReadControlKonts
<1>11. \A v \in ReadOperatorKonts : v.tag = 26 => v = it
  BY SMTT(30) DEF ReadOperatorKonts, Variant
<1>12. \A v \in ReadControlKonts : v.tag = 26 => v = it
  BY SMTT(30) DEF ReadControlKonts, Variant
<1>13. \A v \in ReadCollectingKonts : v.tag = 26 => v = it
  BY SMTT(30) DEF ReadCollectingKonts, Variant
<1>14. it = Variant(26, "ArgsK",
            <<F("callee", One("Value")), F("done", Many(One("Value"))),
              F("args_start", Num("u32")), F("args_idx", Num("u16")),
              F("args_count", Num("u16")), F("env", Num("u32")),
              F("k", Num("u32"))>>)
  BY <1>1, <1>2, <1>3, <1>4, <1>5, <1>6, <1>7, <1>8, <1>9
<1> HIDE DEF it
<1>15. 26 # Untagged
  BY DEF Untagged
<1> QED
  BY <1>10, <1>11, <1>12, <1>13, <1>14, <1>15, ReadableIs, AllTaggedKont DEF Tagged

\* The reader's fields of the frame ReturnK.
LEMMA RKontReturnK ==
    Tagged("Kont", 27, "ReturnK",
        <<F("env", Num("u32")), F("k", Num("u32"))>>)
<1>1. Ids(<<"env", "k">>) = <<F("env", Num("u32")), F("k", Num("u32"))>>
  BY Fields2 DEF Ids
<1> DEFINE it == Variant(27, "ReturnK",
            Ids(<<"env", "k">>))
<1>2. it \in ReadControlKonts
  BY DEF ReadControlKonts
<1>3. \A v \in ReadOperatorKonts : v.tag = 27 => v = it
  BY SMTT(30) DEF ReadOperatorKonts, Variant
<1>4. \A v \in ReadControlKonts : v.tag = 27 => v = it
  BY SMTT(30) DEF ReadControlKonts, Variant
<1>5. \A v \in ReadCollectingKonts : v.tag = 27 => v = it
  BY SMTT(30) DEF ReadCollectingKonts, Variant
<1>6. it = Variant(27, "ReturnK",
            <<F("env", Num("u32")), F("k", Num("u32"))>>)
  BY <1>1
<1> HIDE DEF it
<1>7. 27 # Untagged
  BY DEF Untagged
<1> QED
  BY <1>2, <1>3, <1>4, <1>5, <1>6, <1>7, ReadableIs, AllTaggedKont DEF Tagged

\* The reader's fields of the frame ReturnExprK.
LEMMA RKontReturnExprK ==
    Tagged("Kont", 28, "ReturnExprK",
        <<F("k", Num("u32"))>>)
<1>1. Ids(<<"k">>) = <<F("k", Num("u32"))>>
  BY Fields1 DEF Ids
<1> DEFINE it == Variant(28, "ReturnExprK",
            Ids(<<"k">>))
<1>2. it \in ReadControlKonts
  BY DEF ReadControlKonts
<1>3. \A v \in ReadOperatorKonts : v.tag = 28 => v = it
  BY SMTT(30) DEF ReadOperatorKonts, Variant
<1>4. \A v \in ReadControlKonts : v.tag = 28 => v = it
  BY SMTT(30) DEF ReadControlKonts, Variant
<1>5. \A v \in ReadCollectingKonts : v.tag = 28 => v = it
  BY SMTT(30) DEF ReadCollectingKonts, Variant
<1>6. it = Variant(28, "ReturnExprK",
            <<F("k", Num("u32"))>>)
  BY <1>1
<1> HIDE DEF it
<1>7. 28 # Untagged
  BY DEF Untagged
<1> QED
  BY <1>2, <1>3, <1>4, <1>5, <1>6, <1>7, ReadableIs, AllTaggedKont DEF Tagged

\* The reader's fields of the frame ObjectK.
LEMMA RKontObjectK ==
    Tagged("Kont", 30, "ObjectK",
        <<F("done", Many(One("Binding"))), F("props_start", Num("u32")),
          F("props_idx", Num("u16")), F("props_count", Num("u16")),
          F("env", Num("u32")), F("k", Num("u32"))>>)
<1>1. Fields(<<"done">>, Many(One("Binding"))) = <<F("done", Many(One("Binding")))>>
  BY Fields1
<1>2. Ids(<<"props_start">>) = <<F("props_start", Num("u32"))>>
  BY Fields1 DEF Ids
<1>3. Count(<<"props_idx", "props_count">>) = <<F("props_idx", Num("u16")),
                                                F("props_count", Num("u16"))>>
  BY Fields2 DEF Count
<1>4. Ids(<<"env", "k">>) = <<F("env", Num("u32")), F("k", Num("u32"))>>
  BY Fields2 DEF Ids
<1>5. <<F("done", Many(One("Binding")))>>
     \o <<F("props_start", Num("u32"))>>
     = <<F("done", Many(One("Binding"))), F("props_start", Num("u32"))>>
  BY Cat11
<1>6. <<F("done", Many(One("Binding"))), F("props_start", Num("u32"))>>
     \o <<F("props_idx", Num("u16")), F("props_count", Num("u16"))>>
     = <<F("done", Many(One("Binding"))), F("props_start", Num("u32")),
          F("props_idx", Num("u16")), F("props_count", Num("u16"))>>
  BY Cat22
<1>7. <<F("done", Many(One("Binding"))), F("props_start", Num("u32")),
          F("props_idx", Num("u16")), F("props_count", Num("u16"))>>
     \o <<F("env", Num("u32")), F("k", Num("u32"))>>
     = <<F("done", Many(One("Binding"))), F("props_start", Num("u32")),
          F("props_idx", Num("u16")), F("props_count", Num("u16")),
          F("env", Num("u32")), F("k", Num("u32"))>>
  BY Cat42
<1> DEFINE it == Variant(30, "ObjectK",
            Fields(<<"done">>, Many(One("Binding"))) \o Ids(<<"props_start">>)
            \o Count(<<"props_idx", "props_count">>) \o Ids(<<"env", "k">>))
<1>8. it \in ReadCollectingKonts
  BY DEF ReadCollectingKonts
<1>9. \A v \in ReadOperatorKonts : v.tag = 30 => v = it
  BY SMTT(30) DEF ReadOperatorKonts, Variant
<1>10. \A v \in ReadControlKonts : v.tag = 30 => v = it
  BY SMTT(30) DEF ReadControlKonts, Variant
<1>11. \A v \in ReadCollectingKonts : v.tag = 30 => v = it
  BY SMTT(30) DEF ReadCollectingKonts, Variant
<1>12. it = Variant(30, "ObjectK",
            <<F("done", Many(One("Binding"))), F("props_start", Num("u32")),
              F("props_idx", Num("u16")), F("props_count", Num("u16")),
              F("env", Num("u32")), F("k", Num("u32"))>>)
  BY <1>1, <1>2, <1>3, <1>4, <1>5, <1>6, <1>7
<1> HIDE DEF it
<1>13. 30 # Untagged
  BY DEF Untagged
<1> QED
  BY <1>8, <1>9, <1>10, <1>11, <1>12, <1>13, ReadableIs, AllTaggedKont DEF Tagged

\* The reader's fields of the frame HandlerK.
LEMMA RKontHandlerK ==
    Tagged("Kont", 38, "HandlerK",
        <<F("clauses_start", Num("u32")), F("clauses_count", Num("u16")),
          F("env", Num("u32")), F("return_body", Num("u32")),
          F("return_param", Num("u32")), F("k", Num("u32"))>>)
<1>1. Ids(<<"clauses_start">>) = <<F("clauses_start", Num("u32"))>>
  BY Fields1 DEF Ids
<1>2. Count(<<"clauses_count">>) = <<F("clauses_count", Num("u16"))>>
  BY Fields1 DEF Count
<1>3. Ids(<<"env", "return_body", "return_param", "k">>) = <<F("env", Num("u32")),
          F("return_body", Num("u32")),
          F("return_param", Num("u32")), F("k", Num("u32"))>>
  BY Fields4 DEF Ids
<1>4. <<F("clauses_start", Num("u32"))>>
     \o <<F("clauses_count", Num("u16"))>>
     = <<F("clauses_start", Num("u32")), F("clauses_count", Num("u16"))>>
  BY Cat11
<1>5. <<F("clauses_start", Num("u32")), F("clauses_count", Num("u16"))>>
     \o <<F("env", Num("u32")), F("return_body", Num("u32")),
          F("return_param", Num("u32")), F("k", Num("u32"))>>
     = <<F("clauses_start", Num("u32")), F("clauses_count", Num("u16")),
          F("env", Num("u32")), F("return_body", Num("u32")),
          F("return_param", Num("u32")), F("k", Num("u32"))>>
  BY Cat24
<1> DEFINE it == Variant(38, "HandlerK",
            Ids(<<"clauses_start">>) \o Count(<<"clauses_count">>)
            \o Ids(<<"env", "return_body", "return_param", "k">>))
<1>6. it \in ReadCollectingKonts
  BY DEF ReadCollectingKonts
<1>7. \A v \in ReadOperatorKonts : v.tag = 38 => v = it
  BY SMTT(30) DEF ReadOperatorKonts, Variant
<1>8. \A v \in ReadControlKonts : v.tag = 38 => v = it
  BY SMTT(30) DEF ReadControlKonts, Variant
<1>9. \A v \in ReadCollectingKonts : v.tag = 38 => v = it
  BY SMTT(30) DEF ReadCollectingKonts, Variant
<1>10. it = Variant(38, "HandlerK",
            <<F("clauses_start", Num("u32")), F("clauses_count", Num("u16")),
              F("env", Num("u32")), F("return_body", Num("u32")),
              F("return_param", Num("u32")), F("k", Num("u32"))>>)
  BY <1>1, <1>2, <1>3, <1>4, <1>5
<1> HIDE DEF it
<1>11. 38 # Untagged
  BY DEF Untagged
<1> QED
  BY <1>6, <1>7, <1>8, <1>9, <1>10, <1>11, ReadableIs, AllTaggedKont DEF Tagged

\* The reader's fields of the frame PerformArgsK.
LEMMA RKontPerformArgsK ==
    Tagged("Kont", 39, "PerformArgsK",
        <<F("effect", Num("u32")), F("done", Many(One("Value"))),
          F("args_start", Num("u32")), F("args_idx", Num("u16")),
          F("args_count", Num("u16")), F("env", Num("u32")), F("k", Num("u32"))>>)
<1>1. Ids(<<"effect">>) = <<F("effect", Num("u32"))>>
  BY Fields1 DEF Ids
<1>2. SomeValues("done") = <<F("done", Many(One("Value")))>>
  BY Fields1 DEF SomeValues
<1>3. Ids(<<"args_start">>) = <<F("args_start", Num("u32"))>>
  BY Fields1 DEF Ids
<1>4. Count(<<"args_idx", "args_count">>) = <<F("args_idx", Num("u16")),
                                              F("args_count", Num("u16"))>>
  BY Fields2 DEF Count
<1>5. Ids(<<"env", "k">>) = <<F("env", Num("u32")), F("k", Num("u32"))>>
  BY Fields2 DEF Ids
<1>6. <<F("effect", Num("u32"))>>
     \o <<F("done", Many(One("Value")))>>
     = <<F("effect", Num("u32")), F("done", Many(One("Value")))>>
  BY Cat11
<1>7. <<F("effect", Num("u32")), F("done", Many(One("Value")))>>
     \o <<F("args_start", Num("u32"))>>
     = <<F("effect", Num("u32")), F("done", Many(One("Value"))),
          F("args_start", Num("u32"))>>
  BY Cat21
<1>8. <<F("effect", Num("u32")), F("done", Many(One("Value"))),
          F("args_start", Num("u32"))>>
     \o <<F("args_idx", Num("u16")), F("args_count", Num("u16"))>>
     = <<F("effect", Num("u32")), F("done", Many(One("Value"))),
          F("args_start", Num("u32")), F("args_idx", Num("u16")),
          F("args_count", Num("u16"))>>
  BY Cat32
<1>9. <<F("effect", Num("u32")), F("done", Many(One("Value"))),
          F("args_start", Num("u32")), F("args_idx", Num("u16")),
          F("args_count", Num("u16"))>>
     \o <<F("env", Num("u32")), F("k", Num("u32"))>>
     = <<F("effect", Num("u32")), F("done", Many(One("Value"))),
          F("args_start", Num("u32")), F("args_idx", Num("u16")),
          F("args_count", Num("u16")), F("env", Num("u32")), F("k", Num("u32"))>>
  BY Cat52
<1> DEFINE it == Variant(39, "PerformArgsK",
            Ids(<<"effect">>) \o SomeValues("done") \o Ids(<<"args_start">>)
            \o Count(<<"args_idx", "args_count">>) \o Ids(<<"env", "k">>))
<1>10. it \in ReadCollectingKonts
  BY DEF ReadCollectingKonts
<1>11. \A v \in ReadOperatorKonts : v.tag = 39 => v = it
  BY SMTT(30) DEF ReadOperatorKonts, Variant
<1>12. \A v \in ReadControlKonts : v.tag = 39 => v = it
  BY SMTT(30) DEF ReadControlKonts, Variant
<1>13. \A v \in ReadCollectingKonts : v.tag = 39 => v = it
  BY SMTT(30) DEF ReadCollectingKonts, Variant
<1>14. it = Variant(39, "PerformArgsK",
            <<F("effect", Num("u32")), F("done", Many(One("Value"))),
              F("args_start", Num("u32")), F("args_idx", Num("u16")),
              F("args_count", Num("u16")), F("env", Num("u32")),
              F("k", Num("u32"))>>)
  BY <1>1, <1>2, <1>3, <1>4, <1>5, <1>6, <1>7, <1>8, <1>9
<1> HIDE DEF it
<1>15. 39 # Untagged
  BY DEF Untagged
<1> QED
  BY <1>10, <1>11, <1>12, <1>13, <1>14, <1>15, ReadableIs, AllTaggedKont DEF Tagged

\* The reader's fields of the frame HandleWithK.
LEMMA RKontHandleWithK ==
    Tagged("Kont", 40, "HandleWithK",
        <<F("body", Num("u32")), F("env", Num("u32")), F("k", Num("u32"))>>)
<1>1. Ids(<<"body", "env", "k">>) = <<F("body", Num("u32")), F("env", Num("u32")),
                                      F("k", Num("u32"))>>
  BY Fields3 DEF Ids
<1> DEFINE it == Variant(40, "HandleWithK",
            Ids(<<"body", "env", "k">>))
<1>2. it \in ReadCollectingKonts
  BY DEF ReadCollectingKonts
<1>3. \A v \in ReadOperatorKonts : v.tag = 40 => v = it
  BY SMTT(30) DEF ReadOperatorKonts, Variant
<1>4. \A v \in ReadControlKonts : v.tag = 40 => v = it
  BY SMTT(30) DEF ReadControlKonts, Variant
<1>5. \A v \in ReadCollectingKonts : v.tag = 40 => v = it
  BY SMTT(30) DEF ReadCollectingKonts, Variant
<1>6. it = Variant(40, "HandleWithK",
            <<F("body", Num("u32")), F("env", Num("u32")), F("k", Num("u32"))>>)
  BY <1>1
<1> HIDE DEF it
<1>7. 40 # Untagged
  BY DEF Untagged
<1> QED
  BY <1>2, <1>3, <1>4, <1>5, <1>6, <1>7, ReadableIs, AllTaggedKont DEF Tagged

\* No fields match.
LEMMA Matches0 ==
    ASSUME NEW k, NEW f, f = <<>>
    PROVE  Matches(k, <<>>,
                      <<>>, f)
<1>1. Listed(<<>>) /\ Len(<<>>) = 0
  BY DEF Listed
<1>2. Names(<<>>) = {}
  BY DEF Names
<1>3. f = [n \in {} |-> f[n]]
  OBVIOUS
<1>4. f = [n \in Names(<<>>) |-> f[n]]
  BY <1>2, <1>3
<1>5. 1 .. 0 = {}
  BY SMT
<1> QED
  BY <1>1, <1>4, <1>5 DEF Matches

\* Fields match, 1 of them, if each does.
LEMMA Matches1 ==
    ASSUME NEW k, NEW f, NEW n1,
           NEW W1, NEW R1,
           f = [n \in {n1} |-> f[n]],
           Reads(k, W1, R1, f[n1])
    PROVE  Matches(k, <<F(n1, W1)>>,
                      <<F(n1, R1)>>, f)
<1> DEFINE wf == <<F(n1, W1)>>
           rf == <<F(n1, R1)>>
<1>1. Len(wf) = 1 /\ Len(rf) = 1 /\ DOMAIN rf = 1 .. 1
  BY SMT
<1>2. Listed(wf)
  <2> DEFINE A == {F(n1, W1)}
  <2>1. wf \in Seq(A)
    BY SMT
  <2> QED
    BY <2>1 DEF Listed
<1>3. Listed(rf)
  <2> DEFINE A == {F(n1, R1)}
  <2>1. rf \in Seq(A)
    BY SMT
  <2> QED
    BY <2>1 DEF Listed
<1>4. wf[1].name = n1 /\ wf[1].type = W1 /\ rf[1].name = n1 /\ rf[1].type = R1
  BY DEF F
<1> HIDE DEF wf, rf
<1>5. \A i \in 1 .. 1 : i = 1
  BY SMT
<1>6. Names(rf) = {n1}
  <2>1. Names(rf) = {rf[i].name : i \in 1 .. 1}
    BY <1>1 DEF Names
  <2>2. 1 \in 1 .. 1
    BY SMT
  <2>3. n1 \in Names(rf)
    BY <2>1, <2>2, <1>4, Zenon
  <2>4. ASSUME NEW i \in 1 .. 1 PROVE rf[i].name \in {n1}
    <3>1. CASE i = 1
      BY <3>1, <1>4, Zenon
    <3> QED
      BY <1>5, <3>1
  <2> QED
    BY <2>1, <2>3, <2>4, Zenon
<1>7. ASSUME NEW i \in 1 .. 1
       PROVE  rf[i].name = wf[i].name /\ Reads(k, wf[i].type, rf[i].type, f[rf[i].name])
  <2>1. CASE i = 1
    BY <1>4, <2>1
  <2> QED
    BY <1>5, <2>1
<1>8. f = [n \in Names(rf) |-> f[n]]
  BY <1>6
<1> QED
  BY <1>1, <1>2, <1>3, <1>7, <1>8 DEF Matches, wf, rf

\* Fields match, 2 of them, if each does.
LEMMA Matches2 ==
    ASSUME NEW k, NEW f, NEW n1, NEW n2,
           NEW W1, NEW W2, NEW R1, NEW R2,
           f = [n \in {n1, n2} |-> f[n]],
           Reads(k, W1, R1, f[n1]), Reads(k, W2, R2, f[n2])
    PROVE  Matches(k, <<F(n1, W1), F(n2, W2)>>,
                      <<F(n1, R1), F(n2, R2)>>, f)
<1> DEFINE wf == <<F(n1, W1), F(n2, W2)>>
           rf == <<F(n1, R1), F(n2, R2)>>
<1>1. Len(wf) = 2 /\ Len(rf) = 2 /\ DOMAIN rf = 1 .. 2
  BY SMT
<1>2. Listed(wf)
  <2> DEFINE A == {F(n1, W1), F(n2, W2)}
  <2>1. wf \in Seq(A)
    BY SMT
  <2> QED
    BY <2>1 DEF Listed
<1>3. Listed(rf)
  <2> DEFINE A == {F(n1, R1), F(n2, R2)}
  <2>1. rf \in Seq(A)
    BY SMT
  <2> QED
    BY <2>1 DEF Listed
<1>4. wf[1].name = n1 /\ wf[1].type = W1 /\ rf[1].name = n1 /\ rf[1].type = R1
  BY DEF F
<1>5. wf[2].name = n2 /\ wf[2].type = W2 /\ rf[2].name = n2 /\ rf[2].type = R2
  BY DEF F
<1> HIDE DEF wf, rf
<1>6. \A i \in 1 .. 2 : i = 1 \/ i = 2
  BY SMT
<1>7. Names(rf) = {n1, n2}
  <2>1. Names(rf) = {rf[i].name : i \in 1 .. 2}
    BY <1>1 DEF Names
  <2>2. 1 \in 1 .. 2 /\ 2 \in 1 .. 2
    BY SMT
  <2>3. n1 \in Names(rf)
    BY <2>1, <2>2, <1>4, Zenon
  <2>4. n2 \in Names(rf)
    BY <2>1, <2>2, <1>5, Zenon
  <2>5. ASSUME NEW i \in 1 .. 2 PROVE rf[i].name \in {n1, n2}
    <3>1. CASE i = 1
      BY <3>1, <1>4, Zenon
    <3>2. CASE i = 2
      BY <3>2, <1>5, Zenon
    <3> QED
      BY <1>6, <3>1, <3>2
  <2> QED
    BY <2>1, <2>3, <2>4, <2>5, Zenon
<1>8. ASSUME NEW i \in 1 .. 2
       PROVE  rf[i].name = wf[i].name /\ Reads(k, wf[i].type, rf[i].type, f[rf[i].name])
  <2>1. CASE i = 1
    BY <1>4, <2>1
  <2>2. CASE i = 2
    BY <1>5, <2>2
  <2> QED
    BY <1>6, <2>1, <2>2
<1>9. f = [n \in Names(rf) |-> f[n]]
  BY <1>7
<1> QED
  BY <1>1, <1>2, <1>3, <1>8, <1>9 DEF Matches, wf, rf

\* Fields match, 3 of them, if each does.
LEMMA Matches3 ==
    ASSUME NEW k, NEW f, NEW n1, NEW n2, NEW n3,
           NEW W1, NEW W2, NEW W3, NEW R1, NEW R2, NEW R3,
           f = [n \in {n1, n2, n3} |-> f[n]],
           Reads(k, W1, R1, f[n1]), Reads(k, W2, R2, f[n2]), Reads(k, W3, R3, f[n3])
    PROVE  Matches(k, <<F(n1, W1), F(n2, W2), F(n3, W3)>>,
                      <<F(n1, R1), F(n2, R2), F(n3, R3)>>, f)
<1> DEFINE wf == <<F(n1, W1), F(n2, W2), F(n3, W3)>>
           rf == <<F(n1, R1), F(n2, R2), F(n3, R3)>>
<1>1. Len(wf) = 3 /\ Len(rf) = 3 /\ DOMAIN rf = 1 .. 3
  BY SMT
<1>2. Listed(wf)
  <2> DEFINE A == {F(n1, W1), F(n2, W2), F(n3, W3)}
  <2>1. wf \in Seq(A)
    BY SMT
  <2> QED
    BY <2>1 DEF Listed
<1>3. Listed(rf)
  <2> DEFINE A == {F(n1, R1), F(n2, R2), F(n3, R3)}
  <2>1. rf \in Seq(A)
    BY SMT
  <2> QED
    BY <2>1 DEF Listed
<1>4. wf[1].name = n1 /\ wf[1].type = W1 /\ rf[1].name = n1 /\ rf[1].type = R1
  BY DEF F
<1>5. wf[2].name = n2 /\ wf[2].type = W2 /\ rf[2].name = n2 /\ rf[2].type = R2
  BY DEF F
<1>6. wf[3].name = n3 /\ wf[3].type = W3 /\ rf[3].name = n3 /\ rf[3].type = R3
  BY DEF F
<1> HIDE DEF wf, rf
<1>7. \A i \in 1 .. 3 : i = 1 \/ i = 2 \/ i = 3
  BY SMT
<1>8. Names(rf) = {n1, n2, n3}
  <2>1. Names(rf) = {rf[i].name : i \in 1 .. 3}
    BY <1>1 DEF Names
  <2>2. 1 \in 1 .. 3 /\ 2 \in 1 .. 3 /\ 3 \in 1 .. 3
    BY SMT
  <2>3. n1 \in Names(rf)
    BY <2>1, <2>2, <1>4, Zenon
  <2>4. n2 \in Names(rf)
    BY <2>1, <2>2, <1>5, Zenon
  <2>5. n3 \in Names(rf)
    BY <2>1, <2>2, <1>6, Zenon
  <2>6. ASSUME NEW i \in 1 .. 3 PROVE rf[i].name \in {n1, n2, n3}
    <3>1. CASE i = 1
      BY <3>1, <1>4, Zenon
    <3>2. CASE i = 2
      BY <3>2, <1>5, Zenon
    <3>3. CASE i = 3
      BY <3>3, <1>6, Zenon
    <3> QED
      BY <1>7, <3>1, <3>2, <3>3
  <2> QED
    BY <2>1, <2>3, <2>4, <2>5, <2>6, Zenon
<1>9. ASSUME NEW i \in 1 .. 3
       PROVE  rf[i].name = wf[i].name /\ Reads(k, wf[i].type, rf[i].type, f[rf[i].name])
  <2>1. CASE i = 1
    BY <1>4, <2>1
  <2>2. CASE i = 2
    BY <1>5, <2>2
  <2>3. CASE i = 3
    BY <1>6, <2>3
  <2> QED
    BY <1>7, <2>1, <2>2, <2>3
<1>10. f = [n \in Names(rf) |-> f[n]]
  BY <1>8
<1> QED
  BY <1>1, <1>2, <1>3, <1>9, <1>10 DEF Matches, wf, rf

\* Fields match, 4 of them, if each does.
LEMMA Matches4 ==
    ASSUME NEW k, NEW f, NEW n1, NEW n2, NEW n3, NEW n4,
           NEW W1, NEW W2, NEW W3, NEW W4, NEW R1, NEW R2, NEW R3, NEW R4,
           f = [n \in {n1, n2, n3, n4} |-> f[n]],
           Reads(k, W1, R1, f[n1]), Reads(k, W2, R2, f[n2]), Reads(k, W3, R3, f[n3]),
           Reads(k, W4, R4, f[n4])
    PROVE  Matches(k, <<F(n1, W1), F(n2, W2), F(n3, W3), F(n4, W4)>>,
                      <<F(n1, R1), F(n2, R2), F(n3, R3), F(n4, R4)>>, f)
<1> DEFINE wf == <<F(n1, W1), F(n2, W2), F(n3, W3), F(n4, W4)>>
           rf == <<F(n1, R1), F(n2, R2), F(n3, R3), F(n4, R4)>>
<1>1. Len(wf) = 4 /\ Len(rf) = 4 /\ DOMAIN rf = 1 .. 4
  BY SMT
<1>2. Listed(wf)
  <2> DEFINE A == {F(n1, W1), F(n2, W2), F(n3, W3), F(n4, W4)}
  <2>1. wf \in Seq(A)
    BY SMT
  <2> QED
    BY <2>1 DEF Listed
<1>3. Listed(rf)
  <2> DEFINE A == {F(n1, R1), F(n2, R2), F(n3, R3), F(n4, R4)}
  <2>1. rf \in Seq(A)
    BY SMT
  <2> QED
    BY <2>1 DEF Listed
<1>4. wf[1].name = n1 /\ wf[1].type = W1 /\ rf[1].name = n1 /\ rf[1].type = R1
  BY DEF F
<1>5. wf[2].name = n2 /\ wf[2].type = W2 /\ rf[2].name = n2 /\ rf[2].type = R2
  BY DEF F
<1>6. wf[3].name = n3 /\ wf[3].type = W3 /\ rf[3].name = n3 /\ rf[3].type = R3
  BY DEF F
<1>7. wf[4].name = n4 /\ wf[4].type = W4 /\ rf[4].name = n4 /\ rf[4].type = R4
  BY DEF F
<1> HIDE DEF wf, rf
<1>8. \A i \in 1 .. 4 : i = 1 \/ i = 2 \/ i = 3 \/ i = 4
  BY SMT
<1>9. Names(rf) = {n1, n2, n3, n4}
  <2>1. Names(rf) = {rf[i].name : i \in 1 .. 4}
    BY <1>1 DEF Names
  <2>2. 1 \in 1 .. 4 /\ 2 \in 1 .. 4 /\ 3 \in 1 .. 4 /\ 4 \in 1 .. 4
    BY SMT
  <2>3. n1 \in Names(rf)
    BY <2>1, <2>2, <1>4, Zenon
  <2>4. n2 \in Names(rf)
    BY <2>1, <2>2, <1>5, Zenon
  <2>5. n3 \in Names(rf)
    BY <2>1, <2>2, <1>6, Zenon
  <2>6. n4 \in Names(rf)
    BY <2>1, <2>2, <1>7, Zenon
  <2>7. ASSUME NEW i \in 1 .. 4 PROVE rf[i].name \in {n1, n2, n3, n4}
    <3>1. CASE i = 1
      BY <3>1, <1>4, Zenon
    <3>2. CASE i = 2
      BY <3>2, <1>5, Zenon
    <3>3. CASE i = 3
      BY <3>3, <1>6, Zenon
    <3>4. CASE i = 4
      BY <3>4, <1>7, Zenon
    <3> QED
      BY <1>8, <3>1, <3>2, <3>3, <3>4
  <2> QED
    BY <2>1, <2>3, <2>4, <2>5, <2>6, <2>7, Zenon
<1>10. ASSUME NEW i \in 1 .. 4
       PROVE  rf[i].name = wf[i].name /\ Reads(k, wf[i].type, rf[i].type, f[rf[i].name])
  <2>1. CASE i = 1
    BY <1>4, <2>1
  <2>2. CASE i = 2
    BY <1>5, <2>2
  <2>3. CASE i = 3
    BY <1>6, <2>3
  <2>4. CASE i = 4
    BY <1>7, <2>4
  <2> QED
    BY <1>8, <2>1, <2>2, <2>3, <2>4
<1>11. f = [n \in Names(rf) |-> f[n]]
  BY <1>9
<1> QED
  BY <1>1, <1>2, <1>3, <1>10, <1>11 DEF Matches, wf, rf

\* Fields match, 5 of them, if each does.
LEMMA Matches5 ==
    ASSUME NEW k, NEW f, NEW n1, NEW n2, NEW n3, NEW n4, NEW n5,
           NEW W1, NEW W2, NEW W3, NEW W4, NEW W5, NEW R1, NEW R2, NEW R3, NEW R4, NEW R5,
           f = [n \in {n1, n2, n3, n4, n5} |-> f[n]],
           Reads(k, W1, R1, f[n1]), Reads(k, W2, R2, f[n2]), Reads(k, W3, R3, f[n3]),
           Reads(k, W4, R4, f[n4]), Reads(k, W5, R5, f[n5])
    PROVE  Matches(k, <<F(n1, W1), F(n2, W2), F(n3, W3), F(n4, W4), F(n5, W5)>>,
                      <<F(n1, R1), F(n2, R2), F(n3, R3), F(n4, R4), F(n5, R5)>>, f)
<1> DEFINE wf == <<F(n1, W1), F(n2, W2), F(n3, W3), F(n4, W4), F(n5, W5)>>
           rf == <<F(n1, R1), F(n2, R2), F(n3, R3), F(n4, R4), F(n5, R5)>>
<1>1. Len(wf) = 5 /\ Len(rf) = 5 /\ DOMAIN rf = 1 .. 5
  BY SMT
<1>2. Listed(wf)
  <2> DEFINE A == {F(n1, W1), F(n2, W2), F(n3, W3), F(n4, W4), F(n5, W5)}
  <2>1. wf \in Seq(A)
    BY SMT
  <2> QED
    BY <2>1 DEF Listed
<1>3. Listed(rf)
  <2> DEFINE A == {F(n1, R1), F(n2, R2), F(n3, R3), F(n4, R4), F(n5, R5)}
  <2>1. rf \in Seq(A)
    BY SMT
  <2> QED
    BY <2>1 DEF Listed
<1>4. wf[1].name = n1 /\ wf[1].type = W1 /\ rf[1].name = n1 /\ rf[1].type = R1
  BY DEF F
<1>5. wf[2].name = n2 /\ wf[2].type = W2 /\ rf[2].name = n2 /\ rf[2].type = R2
  BY DEF F
<1>6. wf[3].name = n3 /\ wf[3].type = W3 /\ rf[3].name = n3 /\ rf[3].type = R3
  BY DEF F
<1>7. wf[4].name = n4 /\ wf[4].type = W4 /\ rf[4].name = n4 /\ rf[4].type = R4
  BY DEF F
<1>8. wf[5].name = n5 /\ wf[5].type = W5 /\ rf[5].name = n5 /\ rf[5].type = R5
  BY DEF F
<1> HIDE DEF wf, rf
<1>9. \A i \in 1 .. 5 : i = 1 \/ i = 2 \/ i = 3 \/ i = 4 \/ i = 5
  BY SMT
<1>10. Names(rf) = {n1, n2, n3, n4, n5}
  <2>1. Names(rf) = {rf[i].name : i \in 1 .. 5}
    BY <1>1 DEF Names
  <2>2. 1 \in 1 .. 5 /\ 2 \in 1 .. 5 /\ 3 \in 1 .. 5 /\ 4 \in 1 .. 5 /\ 5 \in 1 .. 5
    BY SMT
  <2>3. n1 \in Names(rf)
    BY <2>1, <2>2, <1>4, Zenon
  <2>4. n2 \in Names(rf)
    BY <2>1, <2>2, <1>5, Zenon
  <2>5. n3 \in Names(rf)
    BY <2>1, <2>2, <1>6, Zenon
  <2>6. n4 \in Names(rf)
    BY <2>1, <2>2, <1>7, Zenon
  <2>7. n5 \in Names(rf)
    BY <2>1, <2>2, <1>8, Zenon
  <2>8. ASSUME NEW i \in 1 .. 5 PROVE rf[i].name \in {n1, n2, n3, n4, n5}
    <3>1. CASE i = 1
      BY <3>1, <1>4, Zenon
    <3>2. CASE i = 2
      BY <3>2, <1>5, Zenon
    <3>3. CASE i = 3
      BY <3>3, <1>6, Zenon
    <3>4. CASE i = 4
      BY <3>4, <1>7, Zenon
    <3>5. CASE i = 5
      BY <3>5, <1>8, Zenon
    <3> QED
      BY <1>9, <3>1, <3>2, <3>3, <3>4, <3>5
  <2> QED
    BY <2>1, <2>3, <2>4, <2>5, <2>6, <2>7, <2>8, Zenon
<1>11. ASSUME NEW i \in 1 .. 5
       PROVE  rf[i].name = wf[i].name /\ Reads(k, wf[i].type, rf[i].type, f[rf[i].name])
  <2>1. CASE i = 1
    BY <1>4, <2>1
  <2>2. CASE i = 2
    BY <1>5, <2>2
  <2>3. CASE i = 3
    BY <1>6, <2>3
  <2>4. CASE i = 4
    BY <1>7, <2>4
  <2>5. CASE i = 5
    BY <1>8, <2>5
  <2> QED
    BY <1>9, <2>1, <2>2, <2>3, <2>4, <2>5
<1>12. f = [n \in Names(rf) |-> f[n]]
  BY <1>10
<1> QED
  BY <1>1, <1>2, <1>3, <1>11, <1>12 DEF Matches, wf, rf

\* Fields match, 6 of them, if each does.
LEMMA Matches6 ==
    ASSUME NEW k, NEW f, NEW n1, NEW n2, NEW n3, NEW n4, NEW n5, NEW n6,
           NEW W1, NEW W2, NEW W3, NEW W4, NEW W5, NEW W6, NEW R1, NEW R2, NEW R3, NEW R4,
           NEW R5, NEW R6,
           f = [n \in {n1, n2, n3, n4, n5, n6} |-> f[n]],
           Reads(k, W1, R1, f[n1]), Reads(k, W2, R2, f[n2]), Reads(k, W3, R3, f[n3]),
           Reads(k, W4, R4, f[n4]), Reads(k, W5, R5, f[n5]), Reads(k, W6, R6, f[n6])
    PROVE  Matches(k, <<F(n1, W1), F(n2, W2), F(n3, W3), F(n4, W4), F(n5, W5), F(n6, W6)>>,
                      <<F(n1, R1), F(n2, R2), F(n3, R3), F(n4, R4), F(n5, R5), F(n6, R6)>>, f)
<1> DEFINE wf == <<F(n1, W1), F(n2, W2), F(n3, W3), F(n4, W4), F(n5, W5), F(n6, W6)>>
           rf == <<F(n1, R1), F(n2, R2), F(n3, R3), F(n4, R4), F(n5, R5), F(n6, R6)>>
<1>1. Len(wf) = 6 /\ Len(rf) = 6 /\ DOMAIN rf = 1 .. 6
  BY SMT
<1>2. Listed(wf)
  <2> DEFINE A == {F(n1, W1), F(n2, W2), F(n3, W3), F(n4, W4), F(n5, W5), F(n6, W6)}
  <2>1. wf \in Seq(A)
    BY SMT
  <2> QED
    BY <2>1 DEF Listed
<1>3. Listed(rf)
  <2> DEFINE A == {F(n1, R1), F(n2, R2), F(n3, R3), F(n4, R4), F(n5, R5), F(n6, R6)}
  <2>1. rf \in Seq(A)
    BY SMT
  <2> QED
    BY <2>1 DEF Listed
<1>4. wf[1].name = n1 /\ wf[1].type = W1 /\ rf[1].name = n1 /\ rf[1].type = R1
  BY DEF F
<1>5. wf[2].name = n2 /\ wf[2].type = W2 /\ rf[2].name = n2 /\ rf[2].type = R2
  BY DEF F
<1>6. wf[3].name = n3 /\ wf[3].type = W3 /\ rf[3].name = n3 /\ rf[3].type = R3
  BY DEF F
<1>7. wf[4].name = n4 /\ wf[4].type = W4 /\ rf[4].name = n4 /\ rf[4].type = R4
  BY DEF F
<1>8. wf[5].name = n5 /\ wf[5].type = W5 /\ rf[5].name = n5 /\ rf[5].type = R5
  BY DEF F
<1>9. wf[6].name = n6 /\ wf[6].type = W6 /\ rf[6].name = n6 /\ rf[6].type = R6
  BY DEF F
<1> HIDE DEF wf, rf
<1>10. \A i \in 1 .. 6 : i = 1 \/ i = 2 \/ i = 3 \/ i = 4 \/ i = 5 \/ i = 6
  BY SMT
<1>11. Names(rf) = {n1, n2, n3, n4, n5, n6}
  <2>1. Names(rf) = {rf[i].name : i \in 1 .. 6}
    BY <1>1 DEF Names
  <2>2. 1 \in 1 .. 6 /\ 2 \in 1 .. 6 /\ 3 \in 1 .. 6 /\ 4 \in 1 .. 6 /\ 5 \in 1 .. 6 /\ 6 \in 1 .. 6
    BY SMT
  <2>3. n1 \in Names(rf)
    BY <2>1, <2>2, <1>4, Zenon
  <2>4. n2 \in Names(rf)
    BY <2>1, <2>2, <1>5, Zenon
  <2>5. n3 \in Names(rf)
    BY <2>1, <2>2, <1>6, Zenon
  <2>6. n4 \in Names(rf)
    BY <2>1, <2>2, <1>7, Zenon
  <2>7. n5 \in Names(rf)
    BY <2>1, <2>2, <1>8, Zenon
  <2>8. n6 \in Names(rf)
    BY <2>1, <2>2, <1>9, Zenon
  <2>9. ASSUME NEW i \in 1 .. 6 PROVE rf[i].name \in {n1, n2, n3, n4, n5, n6}
    <3>1. CASE i = 1
      BY <3>1, <1>4, Zenon
    <3>2. CASE i = 2
      BY <3>2, <1>5, Zenon
    <3>3. CASE i = 3
      BY <3>3, <1>6, Zenon
    <3>4. CASE i = 4
      BY <3>4, <1>7, Zenon
    <3>5. CASE i = 5
      BY <3>5, <1>8, Zenon
    <3>6. CASE i = 6
      BY <3>6, <1>9, Zenon
    <3> QED
      BY <1>10, <3>1, <3>2, <3>3, <3>4, <3>5, <3>6
  <2> QED
    BY <2>1, <2>3, <2>4, <2>5, <2>6, <2>7, <2>8, <2>9, Zenon
<1>12. ASSUME NEW i \in 1 .. 6
       PROVE  rf[i].name = wf[i].name /\ Reads(k, wf[i].type, rf[i].type, f[rf[i].name])
  <2>1. CASE i = 1
    BY <1>4, <2>1
  <2>2. CASE i = 2
    BY <1>5, <2>2
  <2>3. CASE i = 3
    BY <1>6, <2>3
  <2>4. CASE i = 4
    BY <1>7, <2>4
  <2>5. CASE i = 5
    BY <1>8, <2>5
  <2>6. CASE i = 6
    BY <1>9, <2>6
  <2> QED
    BY <1>10, <2>1, <2>2, <2>3, <2>4, <2>5, <2>6
<1>13. f = [n \in Names(rf) |-> f[n]]
  BY <1>11
<1> QED
  BY <1>1, <1>2, <1>3, <1>12, <1>13 DEF Matches, wf, rf

\* Fields match, 7 of them, if each does.
LEMMA Matches7 ==
    ASSUME NEW k, NEW f, NEW n1, NEW n2, NEW n3, NEW n4, NEW n5, NEW n6, NEW n7,
           NEW W1, NEW W2, NEW W3, NEW W4, NEW W5, NEW W6, NEW W7, NEW R1, NEW R2, NEW R3,
           NEW R4, NEW R5, NEW R6, NEW R7,
           f = [n \in {n1, n2, n3, n4, n5, n6, n7} |-> f[n]],
           Reads(k, W1, R1, f[n1]), Reads(k, W2, R2, f[n2]), Reads(k, W3, R3, f[n3]),
           Reads(k, W4, R4, f[n4]), Reads(k, W5, R5, f[n5]), Reads(k, W6, R6, f[n6]),
           Reads(k, W7, R7, f[n7])
    PROVE  Matches(k, <<F(n1, W1), F(n2, W2), F(n3, W3), F(n4, W4), F(n5, W5), F(n6, W6),
                        F(n7, W7)>>,
                      <<F(n1, R1), F(n2, R2), F(n3, R3), F(n4, R4), F(n5, R5), F(n6, R6),
                        F(n7, R7)>>, f)
<1> DEFINE wf == <<F(n1, W1), F(n2, W2), F(n3, W3), F(n4, W4), F(n5, W5), F(n6, W6),
                        F(n7, W7)>>
           rf == <<F(n1, R1), F(n2, R2), F(n3, R3), F(n4, R4), F(n5, R5), F(n6, R6),
                        F(n7, R7)>>
<1>1. Len(wf) = 7 /\ Len(rf) = 7 /\ DOMAIN rf = 1 .. 7
  BY SMT
<1>2. Listed(wf)
  <2> DEFINE A == {F(n1, W1), F(n2, W2), F(n3, W3), F(n4, W4), F(n5, W5), F(n6, W6), F(n7, W7)}
  <2>1. wf \in Seq(A)
    BY SMT
  <2> QED
    BY <2>1 DEF Listed
<1>3. Listed(rf)
  <2> DEFINE A == {F(n1, R1), F(n2, R2), F(n3, R3), F(n4, R4), F(n5, R5), F(n6, R6), F(n7, R7)}
  <2>1. rf \in Seq(A)
    BY SMT
  <2> QED
    BY <2>1 DEF Listed
<1>4. wf[1].name = n1 /\ wf[1].type = W1 /\ rf[1].name = n1 /\ rf[1].type = R1
  BY DEF F
<1>5. wf[2].name = n2 /\ wf[2].type = W2 /\ rf[2].name = n2 /\ rf[2].type = R2
  BY DEF F
<1>6. wf[3].name = n3 /\ wf[3].type = W3 /\ rf[3].name = n3 /\ rf[3].type = R3
  BY DEF F
<1>7. wf[4].name = n4 /\ wf[4].type = W4 /\ rf[4].name = n4 /\ rf[4].type = R4
  BY DEF F
<1>8. wf[5].name = n5 /\ wf[5].type = W5 /\ rf[5].name = n5 /\ rf[5].type = R5
  BY DEF F
<1>9. wf[6].name = n6 /\ wf[6].type = W6 /\ rf[6].name = n6 /\ rf[6].type = R6
  BY DEF F
<1>10. wf[7].name = n7 /\ wf[7].type = W7 /\ rf[7].name = n7 /\ rf[7].type = R7
  BY DEF F
<1> HIDE DEF wf, rf
<1>11. \A i \in 1 .. 7 : i = 1 \/ i = 2 \/ i = 3 \/ i = 4 \/ i = 5 \/ i = 6 \/ i = 7
  BY SMT
<1>12. Names(rf) = {n1, n2, n3, n4, n5, n6, n7}
  <2>1. Names(rf) = {rf[i].name : i \in 1 .. 7}
    BY <1>1 DEF Names
  <2>2. 1 \in 1 .. 7 /\ 2 \in 1 .. 7 /\ 3 \in 1 .. 7 /\ 4 \in 1 .. 7 /\ 5 \in 1 .. 7
            /\ 6 \in 1 .. 7 /\
        7 \in 1 .. 7
    BY SMT
  <2>3. n1 \in Names(rf)
    BY <2>1, <2>2, <1>4, Zenon
  <2>4. n2 \in Names(rf)
    BY <2>1, <2>2, <1>5, Zenon
  <2>5. n3 \in Names(rf)
    BY <2>1, <2>2, <1>6, Zenon
  <2>6. n4 \in Names(rf)
    BY <2>1, <2>2, <1>7, Zenon
  <2>7. n5 \in Names(rf)
    BY <2>1, <2>2, <1>8, Zenon
  <2>8. n6 \in Names(rf)
    BY <2>1, <2>2, <1>9, Zenon
  <2>9. n7 \in Names(rf)
    BY <2>1, <2>2, <1>10, Zenon
  <2>10. ASSUME NEW i \in 1 .. 7 PROVE rf[i].name \in {n1, n2, n3, n4, n5, n6, n7}
    <3>1. CASE i = 1
      BY <3>1, <1>4, Zenon
    <3>2. CASE i = 2
      BY <3>2, <1>5, Zenon
    <3>3. CASE i = 3
      BY <3>3, <1>6, Zenon
    <3>4. CASE i = 4
      BY <3>4, <1>7, Zenon
    <3>5. CASE i = 5
      BY <3>5, <1>8, Zenon
    <3>6. CASE i = 6
      BY <3>6, <1>9, Zenon
    <3>7. CASE i = 7
      BY <3>7, <1>10, Zenon
    <3> QED
      BY <1>11, <3>1, <3>2, <3>3, <3>4, <3>5, <3>6, <3>7
  <2> QED
    BY <2>1, <2>3, <2>4, <2>5, <2>6, <2>7, <2>8, <2>9, <2>10, Zenon
<1>13. ASSUME NEW i \in 1 .. 7
       PROVE  rf[i].name = wf[i].name /\ Reads(k, wf[i].type, rf[i].type, f[rf[i].name])
  <2>1. CASE i = 1
    BY <1>4, <2>1
  <2>2. CASE i = 2
    BY <1>5, <2>2
  <2>3. CASE i = 3
    BY <1>6, <2>3
  <2>4. CASE i = 4
    BY <1>7, <2>4
  <2>5. CASE i = 5
    BY <1>8, <2>5
  <2>6. CASE i = 6
    BY <1>9, <2>6
  <2>7. CASE i = 7
    BY <1>10, <2>7
  <2> QED
    BY <1>11, <2>1, <2>2, <2>3, <2>4, <2>5, <2>6, <2>7
<1>14. f = [n \in Names(rf) |-> f[n]]
  BY <1>12
<1> QED
  BY <1>1, <1>2, <1>3, <1>13, <1>14 DEF Matches, wf, rf

\* Fields match, 14 of them, if each does.
LEMMA Matches14 ==
    ASSUME NEW k, NEW f, NEW n1, NEW n2, NEW n3, NEW n4, NEW n5, NEW n6, NEW n7, NEW n8, NEW n9,
           NEW n10,
           NEW n11, NEW n12, NEW n13, NEW n14,
           NEW W1, NEW W2, NEW W3, NEW W4, NEW W5, NEW W6, NEW W7, NEW W8, NEW W9, NEW W10,
           NEW W11, NEW W12, NEW W13, NEW W14, NEW R1, NEW R2, NEW R3, NEW R4, NEW R5,
           NEW R6, NEW R7, NEW R8, NEW R9, NEW R10, NEW R11, NEW R12, NEW R13, NEW R14,
           f = [n \in {n1, n2, n3, n4, n5, n6, n7, n8, n9, n10, n11, n12, n13, n14} |-> f[n]],
           Reads(k, W1, R1, f[n1]), Reads(k, W2, R2, f[n2]), Reads(k, W3, R3, f[n3]),
           Reads(k, W4, R4, f[n4]), Reads(k, W5, R5, f[n5]), Reads(k, W6, R6, f[n6]),
           Reads(k, W7, R7, f[n7]), Reads(k, W8, R8, f[n8]), Reads(k, W9, R9, f[n9]),
           Reads(k, W10, R10, f[n10]), Reads(k, W11, R11, f[n11]),
           Reads(k, W12, R12, f[n12]), Reads(k, W13, R13, f[n13]),
           Reads(k, W14, R14, f[n14])
    PROVE  Matches(k, <<F(n1, W1), F(n2, W2), F(n3, W3), F(n4, W4), F(n5, W5), F(n6, W6),
                        F(n7, W7), F(n8, W8), F(n9, W9), F(n10, W10), F(n11, W11),
                        F(n12, W12), F(n13, W13), F(n14, W14)>>,
                      <<F(n1, R1), F(n2, R2), F(n3, R3), F(n4, R4), F(n5, R5), F(n6, R6),
                        F(n7, R7), F(n8, R8), F(n9, R9), F(n10, R10), F(n11, R11),
                        F(n12, R12), F(n13, R13), F(n14, R14)>>, f)
<1> DEFINE wf == <<F(n1, W1), F(n2, W2), F(n3, W3), F(n4, W4), F(n5, W5), F(n6, W6),
                        F(n7, W7), F(n8, W8), F(n9, W9), F(n10, W10), F(n11, W11),
                        F(n12, W12), F(n13, W13), F(n14, W14)>>
           rf == <<F(n1, R1), F(n2, R2), F(n3, R3), F(n4, R4), F(n5, R5), F(n6, R6),
                        F(n7, R7), F(n8, R8), F(n9, R9), F(n10, R10), F(n11, R11),
                        F(n12, R12), F(n13, R13), F(n14, R14)>>
<1>1. Len(wf) = 14 /\ Len(rf) = 14 /\ DOMAIN rf = 1 .. 14
  BY SMT
<1>2. Listed(wf)
  <2> DEFINE A == {F(n1, W1), F(n2, W2), F(n3, W3), F(n4, W4), F(n5, W5), F(n6, W6),
                F(n7, W7), F(n8, W8), F(n9, W9), F(n10, W10), F(n11, W11), F(n12, W12),
                F(n13, W13), F(n14, W14)}
  <2>1. wf \in Seq(A)
    BY SMT
  <2> QED
    BY <2>1 DEF Listed
<1>3. Listed(rf)
  <2> DEFINE A == {F(n1, R1), F(n2, R2), F(n3, R3), F(n4, R4), F(n5, R5), F(n6, R6),
                F(n7, R7), F(n8, R8), F(n9, R9), F(n10, R10), F(n11, R11), F(n12, R12),
                F(n13, R13), F(n14, R14)}
  <2>1. rf \in Seq(A)
    BY SMT
  <2> QED
    BY <2>1 DEF Listed
<1>4. wf[1].name = n1 /\ wf[1].type = W1 /\ rf[1].name = n1 /\ rf[1].type = R1
  BY DEF F
<1>5. wf[2].name = n2 /\ wf[2].type = W2 /\ rf[2].name = n2 /\ rf[2].type = R2
  BY DEF F
<1>6. wf[3].name = n3 /\ wf[3].type = W3 /\ rf[3].name = n3 /\ rf[3].type = R3
  BY DEF F
<1>7. wf[4].name = n4 /\ wf[4].type = W4 /\ rf[4].name = n4 /\ rf[4].type = R4
  BY DEF F
<1>8. wf[5].name = n5 /\ wf[5].type = W5 /\ rf[5].name = n5 /\ rf[5].type = R5
  BY DEF F
<1>9. wf[6].name = n6 /\ wf[6].type = W6 /\ rf[6].name = n6 /\ rf[6].type = R6
  BY DEF F
<1>10. wf[7].name = n7 /\ wf[7].type = W7 /\ rf[7].name = n7 /\ rf[7].type = R7
  BY DEF F
<1>11. wf[8].name = n8 /\ wf[8].type = W8 /\ rf[8].name = n8 /\ rf[8].type = R8
  BY DEF F
<1>12. wf[9].name = n9 /\ wf[9].type = W9 /\ rf[9].name = n9 /\ rf[9].type = R9
  BY DEF F
<1>13. wf[10].name = n10 /\ wf[10].type = W10 /\ rf[10].name = n10 /\ rf[10].type = R10
  BY DEF F
<1>14. wf[11].name = n11 /\ wf[11].type = W11 /\ rf[11].name = n11 /\ rf[11].type = R11
  BY DEF F
<1>15. wf[12].name = n12 /\ wf[12].type = W12 /\ rf[12].name = n12 /\ rf[12].type = R12
  BY DEF F
<1>16. wf[13].name = n13 /\ wf[13].type = W13 /\ rf[13].name = n13 /\ rf[13].type = R13
  BY DEF F
<1>17. wf[14].name = n14 /\ wf[14].type = W14 /\ rf[14].name = n14 /\ rf[14].type = R14
  BY DEF F
<1> HIDE DEF wf, rf
<1>18. \A i \in 1 .. 14 : i = 1 \/ i = 2 \/ i = 3 \/ i = 4 \/ i = 5 \/ i = 6 \/ i = 7 \/ i = 8
           \/ i = 9 \/ i = 10 \/ i = 11 \/
        i = 12 \/ i = 13 \/ i = 14
  BY SMT
<1>19. Names(rf) = {n1, n2, n3, n4, n5, n6, n7, n8, n9, n10, n11, n12, n13, n14}
  <2>1. Names(rf) = {rf[i].name : i \in 1 .. 14}
    BY <1>1 DEF Names
  <2>2. 1 \in 1 .. 14 /\ 2 \in 1 .. 14 /\ 3 \in 1 .. 14 /\ 4 \in 1 .. 14 /\ 5 \in 1 .. 14 /\
        6 \in 1 .. 14 /\ 7 \in 1 .. 14 /\ 8 \in 1 .. 14 /\ 9 \in 1 .. 14 /\ 10 \in 1 .. 14 /\
        11 \in 1 .. 14 /\ 12 \in 1 .. 14 /\ 13 \in 1 .. 14 /\ 14 \in 1 .. 14
    BY SMT
  <2>3. n1 \in Names(rf)
    BY <2>1, <2>2, <1>4, Zenon
  <2>4. n2 \in Names(rf)
    BY <2>1, <2>2, <1>5, Zenon
  <2>5. n3 \in Names(rf)
    BY <2>1, <2>2, <1>6, Zenon
  <2>6. n4 \in Names(rf)
    BY <2>1, <2>2, <1>7, Zenon
  <2>7. n5 \in Names(rf)
    BY <2>1, <2>2, <1>8, Zenon
  <2>8. n6 \in Names(rf)
    BY <2>1, <2>2, <1>9, Zenon
  <2>9. n7 \in Names(rf)
    BY <2>1, <2>2, <1>10, Zenon
  <2>10. n8 \in Names(rf)
    BY <2>1, <2>2, <1>11, Zenon
  <2>11. n9 \in Names(rf)
    BY <2>1, <2>2, <1>12, Zenon
  <2>12. n10 \in Names(rf)
    BY <2>1, <2>2, <1>13, Zenon
  <2>13. n11 \in Names(rf)
    BY <2>1, <2>2, <1>14, Zenon
  <2>14. n12 \in Names(rf)
    BY <2>1, <2>2, <1>15, Zenon
  <2>15. n13 \in Names(rf)
    BY <2>1, <2>2, <1>16, Zenon
  <2>16. n14 \in Names(rf)
    BY <2>1, <2>2, <1>17, Zenon
  <2>17. ASSUME NEW i \in 1 .. 14 PROVE rf[i].name \in {n1, n2, n3, n4, n5, n6, n7, n8, n9, n10,
                                                        n11, n12, n13, n14}
    <3>1. CASE i = 1
      BY <3>1, <1>4, Zenon
    <3>2. CASE i = 2
      BY <3>2, <1>5, Zenon
    <3>3. CASE i = 3
      BY <3>3, <1>6, Zenon
    <3>4. CASE i = 4
      BY <3>4, <1>7, Zenon
    <3>5. CASE i = 5
      BY <3>5, <1>8, Zenon
    <3>6. CASE i = 6
      BY <3>6, <1>9, Zenon
    <3>7. CASE i = 7
      BY <3>7, <1>10, Zenon
    <3>8. CASE i = 8
      BY <3>8, <1>11, Zenon
    <3>9. CASE i = 9
      BY <3>9, <1>12, Zenon
    <3>10. CASE i = 10
      BY <3>10, <1>13, Zenon
    <3>11. CASE i = 11
      BY <3>11, <1>14, Zenon
    <3>12. CASE i = 12
      BY <3>12, <1>15, Zenon
    <3>13. CASE i = 13
      BY <3>13, <1>16, Zenon
    <3>14. CASE i = 14
      BY <3>14, <1>17, Zenon
    <3> QED
      BY <1>18, <3>1, <3>2, <3>3, <3>4, <3>5, <3>6, <3>7, <3>8, <3>9, <3>10, <3>11, <3>12, <3>13,
       <3>14
  <2> QED
    BY <2>1, <2>3, <2>4, <2>5, <2>6, <2>7, <2>8, <2>9, <2>10, <2>11, <2>12, <2>13, <2>14, <2>15,
       <2>16, <2>17, Zenon
<1>20. ASSUME NEW i \in 1 .. 14
       PROVE  rf[i].name = wf[i].name /\ Reads(k, wf[i].type, rf[i].type, f[rf[i].name])
  <2>1. CASE i = 1
    BY <1>4, <2>1
  <2>2. CASE i = 2
    BY <1>5, <2>2
  <2>3. CASE i = 3
    BY <1>6, <2>3
  <2>4. CASE i = 4
    BY <1>7, <2>4
  <2>5. CASE i = 5
    BY <1>8, <2>5
  <2>6. CASE i = 6
    BY <1>9, <2>6
  <2>7. CASE i = 7
    BY <1>10, <2>7
  <2>8. CASE i = 8
    BY <1>11, <2>8
  <2>9. CASE i = 9
    BY <1>12, <2>9
  <2>10. CASE i = 10
    BY <1>13, <2>10
  <2>11. CASE i = 11
    BY <1>14, <2>11
  <2>12. CASE i = 12
    BY <1>15, <2>12
  <2>13. CASE i = 13
    BY <1>16, <2>13
  <2>14. CASE i = 14
    BY <1>17, <2>14
  <2> QED
    BY <1>18, <2>1, <2>2, <2>3, <2>4, <2>5, <2>6, <2>7, <2>8, <2>9, <2>10, <2>11, <2>12, <2>13,
       <2>14
<1>21. f = [n \in Names(rf) |-> f[n]]
  BY <1>19
<1> QED
  BY <1>1, <1>2, <1>3, <1>20, <1>21 DEF Matches, wf, rf

\* Fields match, 20 of them, if each does.
LEMMA Matches20 ==
    ASSUME NEW k, NEW f, NEW n1, NEW n2, NEW n3, NEW n4, NEW n5, NEW n6, NEW n7, NEW n8, NEW n9,
           NEW n10,
           NEW n11, NEW n12, NEW n13, NEW n14, NEW n15, NEW n16, NEW n17, NEW n18, NEW n19,
           NEW n20,
           NEW W1, NEW W2, NEW W3, NEW W4, NEW W5, NEW W6, NEW W7, NEW W8, NEW W9, NEW W10,
           NEW W11, NEW W12, NEW W13, NEW W14, NEW W15, NEW W16, NEW W17, NEW W18, NEW W19,
           NEW W20, NEW R1, NEW R2, NEW R3, NEW R4, NEW R5, NEW R6, NEW R7, NEW R8, NEW R9,
           NEW R10, NEW R11, NEW R12, NEW R13, NEW R14, NEW R15, NEW R16, NEW R17, NEW R18,
           NEW R19, NEW R20,
           f = [n \in {n1, n2, n3, n4, n5, n6, n7, n8, n9, n10, n11, n12, n13, n14, n15, n16, n17,
                n18, n19, n20} |-> f[n]],
           Reads(k, W1, R1, f[n1]), Reads(k, W2, R2, f[n2]), Reads(k, W3, R3, f[n3]),
           Reads(k, W4, R4, f[n4]), Reads(k, W5, R5, f[n5]), Reads(k, W6, R6, f[n6]),
           Reads(k, W7, R7, f[n7]), Reads(k, W8, R8, f[n8]), Reads(k, W9, R9, f[n9]),
           Reads(k, W10, R10, f[n10]), Reads(k, W11, R11, f[n11]),
           Reads(k, W12, R12, f[n12]), Reads(k, W13, R13, f[n13]),
           Reads(k, W14, R14, f[n14]), Reads(k, W15, R15, f[n15]),
           Reads(k, W16, R16, f[n16]), Reads(k, W17, R17, f[n17]),
           Reads(k, W18, R18, f[n18]), Reads(k, W19, R19, f[n19]),
           Reads(k, W20, R20, f[n20])
    PROVE  Matches(k, <<F(n1, W1), F(n2, W2), F(n3, W3), F(n4, W4), F(n5, W5), F(n6, W6),
                        F(n7, W7), F(n8, W8), F(n9, W9), F(n10, W10), F(n11, W11),
                        F(n12, W12), F(n13, W13), F(n14, W14), F(n15, W15), F(n16, W16),
                        F(n17, W17), F(n18, W18), F(n19, W19), F(n20, W20)>>,
                      <<F(n1, R1), F(n2, R2), F(n3, R3), F(n4, R4), F(n5, R5), F(n6, R6),
                        F(n7, R7), F(n8, R8), F(n9, R9), F(n10, R10), F(n11, R11),
                        F(n12, R12), F(n13, R13), F(n14, R14), F(n15, R15), F(n16, R16),
                        F(n17, R17), F(n18, R18), F(n19, R19), F(n20, R20)>>, f)
<1> DEFINE wf == <<F(n1, W1), F(n2, W2), F(n3, W3), F(n4, W4), F(n5, W5), F(n6, W6),
                        F(n7, W7), F(n8, W8), F(n9, W9), F(n10, W10), F(n11, W11),
                        F(n12, W12), F(n13, W13), F(n14, W14), F(n15, W15), F(n16, W16),
                        F(n17, W17), F(n18, W18), F(n19, W19), F(n20, W20)>>
           rf == <<F(n1, R1), F(n2, R2), F(n3, R3), F(n4, R4), F(n5, R5), F(n6, R6),
                        F(n7, R7), F(n8, R8), F(n9, R9), F(n10, R10), F(n11, R11),
                        F(n12, R12), F(n13, R13), F(n14, R14), F(n15, R15), F(n16, R16),
                        F(n17, R17), F(n18, R18), F(n19, R19), F(n20, R20)>>
<1>1. Len(wf) = 20 /\ Len(rf) = 20 /\ DOMAIN rf = 1 .. 20
  BY SMT
<1>2. Listed(wf)
  <2> DEFINE A == {F(n1, W1), F(n2, W2), F(n3, W3), F(n4, W4), F(n5, W5), F(n6, W6),
                F(n7, W7), F(n8, W8), F(n9, W9), F(n10, W10), F(n11, W11), F(n12, W12),
                F(n13, W13), F(n14, W14), F(n15, W15), F(n16, W16), F(n17, W17),
                F(n18, W18), F(n19, W19), F(n20, W20)}
  <2>1. wf \in Seq(A)
    BY SMT
  <2> QED
    BY <2>1 DEF Listed
<1>3. Listed(rf)
  <2> DEFINE A == {F(n1, R1), F(n2, R2), F(n3, R3), F(n4, R4), F(n5, R5), F(n6, R6),
                F(n7, R7), F(n8, R8), F(n9, R9), F(n10, R10), F(n11, R11), F(n12, R12),
                F(n13, R13), F(n14, R14), F(n15, R15), F(n16, R16), F(n17, R17),
                F(n18, R18), F(n19, R19), F(n20, R20)}
  <2>1. rf \in Seq(A)
    BY SMT
  <2> QED
    BY <2>1 DEF Listed
<1>4. wf[1].name = n1 /\ wf[1].type = W1 /\ rf[1].name = n1 /\ rf[1].type = R1
  BY DEF F
<1>5. wf[2].name = n2 /\ wf[2].type = W2 /\ rf[2].name = n2 /\ rf[2].type = R2
  BY DEF F
<1>6. wf[3].name = n3 /\ wf[3].type = W3 /\ rf[3].name = n3 /\ rf[3].type = R3
  BY DEF F
<1>7. wf[4].name = n4 /\ wf[4].type = W4 /\ rf[4].name = n4 /\ rf[4].type = R4
  BY DEF F
<1>8. wf[5].name = n5 /\ wf[5].type = W5 /\ rf[5].name = n5 /\ rf[5].type = R5
  BY DEF F
<1>9. wf[6].name = n6 /\ wf[6].type = W6 /\ rf[6].name = n6 /\ rf[6].type = R6
  BY DEF F
<1>10. wf[7].name = n7 /\ wf[7].type = W7 /\ rf[7].name = n7 /\ rf[7].type = R7
  BY DEF F
<1>11. wf[8].name = n8 /\ wf[8].type = W8 /\ rf[8].name = n8 /\ rf[8].type = R8
  BY DEF F
<1>12. wf[9].name = n9 /\ wf[9].type = W9 /\ rf[9].name = n9 /\ rf[9].type = R9
  BY DEF F
<1>13. wf[10].name = n10 /\ wf[10].type = W10 /\ rf[10].name = n10 /\ rf[10].type = R10
  BY DEF F
<1>14. wf[11].name = n11 /\ wf[11].type = W11 /\ rf[11].name = n11 /\ rf[11].type = R11
  BY DEF F
<1>15. wf[12].name = n12 /\ wf[12].type = W12 /\ rf[12].name = n12 /\ rf[12].type = R12
  BY DEF F
<1>16. wf[13].name = n13 /\ wf[13].type = W13 /\ rf[13].name = n13 /\ rf[13].type = R13
  BY DEF F
<1>17. wf[14].name = n14 /\ wf[14].type = W14 /\ rf[14].name = n14 /\ rf[14].type = R14
  BY DEF F
<1>18. wf[15].name = n15 /\ wf[15].type = W15 /\ rf[15].name = n15 /\ rf[15].type = R15
  BY DEF F
<1>19. wf[16].name = n16 /\ wf[16].type = W16 /\ rf[16].name = n16 /\ rf[16].type = R16
  BY DEF F
<1>20. wf[17].name = n17 /\ wf[17].type = W17 /\ rf[17].name = n17 /\ rf[17].type = R17
  BY DEF F
<1>21. wf[18].name = n18 /\ wf[18].type = W18 /\ rf[18].name = n18 /\ rf[18].type = R18
  BY DEF F
<1>22. wf[19].name = n19 /\ wf[19].type = W19 /\ rf[19].name = n19 /\ rf[19].type = R19
  BY DEF F
<1>23. wf[20].name = n20 /\ wf[20].type = W20 /\ rf[20].name = n20 /\ rf[20].type = R20
  BY DEF F
<1> HIDE DEF wf, rf
<1>24. \A i \in 1 .. 20 : i = 1 \/ i = 2 \/ i = 3 \/ i = 4 \/ i = 5 \/ i = 6 \/ i = 7 \/ i = 8
           \/ i = 9 \/ i = 10 \/ i = 11 \/
        i = 12 \/ i = 13 \/ i = 14 \/ i = 15 \/ i = 16 \/ i = 17 \/ i = 18 \/ i = 19 \/ i = 20
  BY SMT
<1>25. Names(rf) = {n1, n2, n3, n4, n5, n6, n7, n8, n9, n10, n11, n12, n13, n14, n15, n16, n17,
            n18, n19, n20}
  <2>1. Names(rf) = {rf[i].name : i \in 1 .. 20}
    BY <1>1 DEF Names
  <2>2. 1 \in 1 .. 20 /\ 2 \in 1 .. 20 /\ 3 \in 1 .. 20 /\ 4 \in 1 .. 20 /\ 5 \in 1 .. 20 /\
        6 \in 1 .. 20 /\ 7 \in 1 .. 20 /\ 8 \in 1 .. 20 /\ 9 \in 1 .. 20 /\ 10 \in 1 .. 20 /\
        11 \in 1 .. 20 /\ 12 \in 1 .. 20 /\ 13 \in 1 .. 20 /\ 14 \in 1 .. 20 /\ 15 \in 1 .. 20 /\
        16 \in 1 .. 20 /\ 17 \in 1 .. 20 /\ 18 \in 1 .. 20 /\ 19 \in 1 .. 20 /\ 20 \in 1 .. 20
    BY SMT
  <2>3. n1 \in Names(rf)
    BY <2>1, <2>2, <1>4, Zenon
  <2>4. n2 \in Names(rf)
    BY <2>1, <2>2, <1>5, Zenon
  <2>5. n3 \in Names(rf)
    BY <2>1, <2>2, <1>6, Zenon
  <2>6. n4 \in Names(rf)
    BY <2>1, <2>2, <1>7, Zenon
  <2>7. n5 \in Names(rf)
    BY <2>1, <2>2, <1>8, Zenon
  <2>8. n6 \in Names(rf)
    BY <2>1, <2>2, <1>9, Zenon
  <2>9. n7 \in Names(rf)
    BY <2>1, <2>2, <1>10, Zenon
  <2>10. n8 \in Names(rf)
    BY <2>1, <2>2, <1>11, Zenon
  <2>11. n9 \in Names(rf)
    BY <2>1, <2>2, <1>12, Zenon
  <2>12. n10 \in Names(rf)
    BY <2>1, <2>2, <1>13, Zenon
  <2>13. n11 \in Names(rf)
    BY <2>1, <2>2, <1>14, Zenon
  <2>14. n12 \in Names(rf)
    BY <2>1, <2>2, <1>15, Zenon
  <2>15. n13 \in Names(rf)
    BY <2>1, <2>2, <1>16, Zenon
  <2>16. n14 \in Names(rf)
    BY <2>1, <2>2, <1>17, Zenon
  <2>17. n15 \in Names(rf)
    BY <2>1, <2>2, <1>18, Zenon
  <2>18. n16 \in Names(rf)
    BY <2>1, <2>2, <1>19, Zenon
  <2>19. n17 \in Names(rf)
    BY <2>1, <2>2, <1>20, Zenon
  <2>20. n18 \in Names(rf)
    BY <2>1, <2>2, <1>21, Zenon
  <2>21. n19 \in Names(rf)
    BY <2>1, <2>2, <1>22, Zenon
  <2>22. n20 \in Names(rf)
    BY <2>1, <2>2, <1>23, Zenon
  <2>23. ASSUME NEW i \in 1 .. 20 PROVE rf[i].name \in {n1, n2, n3, n4, n5, n6, n7, n8, n9, n10,
                                                        n11, n12, n13, n14, n15, n16, n17,
            n18, n19, n20}
    <3>1. CASE i = 1
      BY <3>1, <1>4, Zenon
    <3>2. CASE i = 2
      BY <3>2, <1>5, Zenon
    <3>3. CASE i = 3
      BY <3>3, <1>6, Zenon
    <3>4. CASE i = 4
      BY <3>4, <1>7, Zenon
    <3>5. CASE i = 5
      BY <3>5, <1>8, Zenon
    <3>6. CASE i = 6
      BY <3>6, <1>9, Zenon
    <3>7. CASE i = 7
      BY <3>7, <1>10, Zenon
    <3>8. CASE i = 8
      BY <3>8, <1>11, Zenon
    <3>9. CASE i = 9
      BY <3>9, <1>12, Zenon
    <3>10. CASE i = 10
      BY <3>10, <1>13, Zenon
    <3>11. CASE i = 11
      BY <3>11, <1>14, Zenon
    <3>12. CASE i = 12
      BY <3>12, <1>15, Zenon
    <3>13. CASE i = 13
      BY <3>13, <1>16, Zenon
    <3>14. CASE i = 14
      BY <3>14, <1>17, Zenon
    <3>15. CASE i = 15
      BY <3>15, <1>18, Zenon
    <3>16. CASE i = 16
      BY <3>16, <1>19, Zenon
    <3>17. CASE i = 17
      BY <3>17, <1>20, Zenon
    <3>18. CASE i = 18
      BY <3>18, <1>21, Zenon
    <3>19. CASE i = 19
      BY <3>19, <1>22, Zenon
    <3>20. CASE i = 20
      BY <3>20, <1>23, Zenon
    <3> QED
      BY <1>24, <3>1, <3>2, <3>3, <3>4, <3>5, <3>6, <3>7, <3>8, <3>9, <3>10, <3>11, <3>12, <3>13,
       <3>14, <3>15, <3>16, <3>17, <3>18, <3>19, <3>20
  <2> QED
    BY <2>1, <2>3, <2>4, <2>5, <2>6, <2>7, <2>8, <2>9, <2>10, <2>11, <2>12, <2>13, <2>14, <2>15,
       <2>16, <2>17, <2>18, <2>19, <2>20, <2>21, <2>22, <2>23, Zenon
<1>26. ASSUME NEW i \in 1 .. 20
       PROVE  rf[i].name = wf[i].name /\ Reads(k, wf[i].type, rf[i].type, f[rf[i].name])
  <2>1. CASE i = 1
    BY <1>4, <2>1
  <2>2. CASE i = 2
    BY <1>5, <2>2
  <2>3. CASE i = 3
    BY <1>6, <2>3
  <2>4. CASE i = 4
    BY <1>7, <2>4
  <2>5. CASE i = 5
    BY <1>8, <2>5
  <2>6. CASE i = 6
    BY <1>9, <2>6
  <2>7. CASE i = 7
    BY <1>10, <2>7
  <2>8. CASE i = 8
    BY <1>11, <2>8
  <2>9. CASE i = 9
    BY <1>12, <2>9
  <2>10. CASE i = 10
    BY <1>13, <2>10
  <2>11. CASE i = 11
    BY <1>14, <2>11
  <2>12. CASE i = 12
    BY <1>15, <2>12
  <2>13. CASE i = 13
    BY <1>16, <2>13
  <2>14. CASE i = 14
    BY <1>17, <2>14
  <2>15. CASE i = 15
    BY <1>18, <2>15
  <2>16. CASE i = 16
    BY <1>19, <2>16
  <2>17. CASE i = 17
    BY <1>20, <2>17
  <2>18. CASE i = 18
    BY <1>21, <2>18
  <2>19. CASE i = 19
    BY <1>22, <2>19
  <2>20. CASE i = 20
    BY <1>23, <2>20
  <2> QED
    BY <1>24, <2>1, <2>2, <2>3, <2>4, <2>5, <2>6, <2>7, <2>8, <2>9, <2>10, <2>11, <2>12, <2>13,
       <2>14, <2>15, <2>16, <2>17, <2>18, <2>19, <2>20
<1>27. f = [n \in Names(rf) |-> f[n]]
  BY <1>25
<1> QED
  BY <1>1, <1>2, <1>3, <1>26, <1>27 DEF Matches, wf, rf

-----------------------------------------------------------------------------
(* The tables of what is around the heap: arenas, fibers, the program.     *)

\* The writer's tables around the heap, by name.
LEMMA MoreWrittenIs ==
    /\ Written["Objects"] = WriteArena("Object")
    /\ Written["Envs"] = WriteArena("Env")
    /\ Written["Conts"] = WriteArena("Kont")
    /\ Written["Handlers"] = WriteArena("Handler")
    /\ Written["Ast"] = WriteAst
    /\ Written["Waiters"] = WriteWaiters
    /\ Written["Meter"] = WriteMeter
    /\ Written["Runtime"] = WriteRuntime
  BY WrittenAssumption DEF WriterTables

\* The reader's tables around the heap, by name.
LEMMA MoreReadableIs ==
    /\ Readable["Objects"] = ReadArena("Object")
    /\ Readable["Envs"] = ReadArena("Env")
    /\ Readable["Conts"] = ReadArena("Kont")
    /\ Readable["Handlers"] = ReadArena("Handler")
    /\ Readable["Ast"] = ReadAst
    /\ Readable["Waiters"] = ReadWaiters
    /\ Readable["Meter"] = ReadMeter
    /\ Readable["Runtime"] = ReadRuntime
  BY ReadableAssumption DEF ReaderTables

\* A table with one variant has that one.
LEMMA OnlyVariant ==
    ASSUME NEW is, NEW fields
    PROVE  VariantIn({Variant(Untagged, is, fields)}, is) = Variant(Untagged, is, fields)
<1> DEFINE v == Variant(Untagged, is, fields)
<1>1. v.is = is
  BY DEF Variant
<1> HIDE DEF v
<1>2. (CHOOSE u \in {v} : u.is = is) = v
  BY <1>1
<1> QED
  BY <1>2 DEF VariantIn, v

\* The fields of an arena.
LEMMA ArenaFields ==
    ASSUME NEW elem
    PROVE
    Fields(<<"slots">>, Many(One(elem))) \o Fields(<<"free_list">>, Many(Num("u32")))
        \o Fields(<<"allocations">>, Num("u64"))
    = <<F("slots", Many(One(elem))), F("free_list", Many(Num("u32"))),
        F("allocations", Num("u64"))>>
<1>1. Fields(<<"slots">>, Many(One(elem))) = <<F("slots", Many(One(elem)))>>
  BY Fields1
<1>2. Fields(<<"free_list">>, Many(Num("u32"))) = <<F("free_list", Many(Num("u32")))>>
  BY Fields1
<1>3. Fields(<<"allocations">>, Num("u64")) = <<F("allocations", Num("u64"))>>
  BY Fields1
<1>4. <<F("slots", Many(One(elem)))>>
     \o <<F("free_list", Many(Num("u32")))>>
     = <<F("slots", Many(One(elem))), F("free_list", Many(Num("u32")))>>
  BY Cat11
<1>5. <<F("slots", Many(One(elem))), F("free_list", Many(Num("u32")))>>
     \o <<F("allocations", Num("u64"))>>
     = <<F("slots", Many(One(elem))), F("free_list", Many(Num("u32"))),
          F("allocations", Num("u64"))>>
  BY Cat21
<1> QED
  BY <1>1, <1>2, <1>3, <1>4, <1>5

\* The fields of those who wait for a fiber.
LEMMA WaitersFields ==
    Ids(<<"fiber">>) \o Fields(<<"waiters">>, Many(Num("u32")))
    = <<F("fiber", Num("u32")), F("waiters", Many(Num("u32")))>>
<1>1. Ids(<<"fiber">>) = <<F("fiber", Num("u32"))>>
  BY Fields1 DEF Ids
<1>2. Fields(<<"waiters">>, Many(Num("u32"))) = <<F("waiters", Many(Num("u32")))>>
  BY Fields1
<1>3. <<F("fiber", Num("u32"))>>
     \o <<F("waiters", Many(Num("u32")))>>
     = <<F("fiber", Num("u32")), F("waiters", Many(Num("u32")))>>
  BY Cat11
<1> QED
  BY <1>1, <1>2, <1>3

\* The fields of a meter.
LEMMA MeterFields ==
    Fields(<<"remaining">>, Opt(Num("u64"))) \o Fields(<<"parent">>, Opt(Num("u32")))
    = <<F("remaining", Opt(Num("u64"))), F("parent", Opt(Num("u32")))>>
<1>1. Fields(<<"remaining">>, Opt(Num("u64"))) = <<F("remaining", Opt(Num("u64")))>>
  BY Fields1
<1>2. Fields(<<"parent">>, Opt(Num("u32"))) = <<F("parent", Opt(Num("u32")))>>
  BY Fields1
<1>3. <<F("remaining", Opt(Num("u64")))>>
     \o <<F("parent", Opt(Num("u32")))>>
     = <<F("remaining", Opt(Num("u64"))), F("parent", Opt(Num("u32")))>>
  BY Cat11
<1> QED
  BY <1>1, <1>2, <1>3

\* The writer's fields of the arena of objects.
LEMMA WObjects ==
    VariantIn(Written["Objects"], "Arena") = Variant(Untagged, "Arena",
        <<F("slots", Many(One("Object"))), F("free_list", Many(Num("u32"))),
          F("allocations", Num("u64"))>>)
  BY ArenaFields, MoreWrittenIs, OnlyVariant DEF WriteArena

\* The reader's fields of the arena of objects.
LEMMA RObjects ==
    Readable["Objects"] = {Variant(Untagged, "Arena",
        <<F("slots", Many(One("Object"))), F("free_list", Many(Num("u32"))),
          F("allocations", Num("u64"))>>)}
  BY ArenaFields, MoreReadableIs DEF ReadArena

\* The writer's fields of the arena of environments.
LEMMA WEnvs ==
    VariantIn(Written["Envs"], "Arena") = Variant(Untagged, "Arena",
        <<F("slots", Many(One("Env"))), F("free_list", Many(Num("u32"))),
          F("allocations", Num("u64"))>>)
  BY ArenaFields, MoreWrittenIs, OnlyVariant DEF WriteArena

\* The reader's fields of the arena of environments.
LEMMA REnvs ==
    Readable["Envs"] = {Variant(Untagged, "Arena",
        <<F("slots", Many(One("Env"))), F("free_list", Many(Num("u32"))),
          F("allocations", Num("u64"))>>)}
  BY ArenaFields, MoreReadableIs DEF ReadArena

\* The writer's fields of the arena of frames.
LEMMA WConts ==
    VariantIn(Written["Conts"], "Arena") = Variant(Untagged, "Arena",
        <<F("slots", Many(One("Kont"))), F("free_list", Many(Num("u32"))),
          F("allocations", Num("u64"))>>)
  BY ArenaFields, MoreWrittenIs, OnlyVariant DEF WriteArena

\* The reader's fields of the arena of frames.
LEMMA RConts ==
    Readable["Conts"] = {Variant(Untagged, "Arena",
        <<F("slots", Many(One("Kont"))), F("free_list", Many(Num("u32"))),
          F("allocations", Num("u64"))>>)}
  BY ArenaFields, MoreReadableIs DEF ReadArena

\* The writer's fields of the arena of handlers.
LEMMA WHandlers ==
    VariantIn(Written["Handlers"], "Arena") = Variant(Untagged, "Arena",
        <<F("slots", Many(One("Handler"))), F("free_list", Many(Num("u32"))),
          F("allocations", Num("u64"))>>)
  BY ArenaFields, MoreWrittenIs, OnlyVariant DEF WriteArena

\* The reader's fields of the arena of handlers.
LEMMA RHandlers ==
    Readable["Handlers"] = {Variant(Untagged, "Arena",
        <<F("slots", Many(One("Handler"))), F("free_list", Many(Num("u32"))),
          F("allocations", Num("u64"))>>)}
  BY ArenaFields, MoreReadableIs DEF ReadArena

\* The writer's fields of those who wait for a fiber.
LEMMA WWaiters ==
    VariantIn(Written["Waiters"], "Waiters") = Variant(Untagged, "Waiters",
        <<F("fiber", Num("u32")), F("waiters", Many(Num("u32")))>>)
  BY WaitersFields, MoreWrittenIs, OnlyVariant DEF WriteWaiters

\* The reader's fields of those who wait for a fiber.
LEMMA RWaiters ==
    Readable["Waiters"] = {Variant(Untagged, "Waiters",
        <<F("fiber", Num("u32")), F("waiters", Many(Num("u32")))>>)}
  BY WaitersFields, MoreReadableIs DEF ReadWaiters

\* The writer's fields of a meter.
LEMMA WMeter ==
    VariantIn(Written["Meter"], "Meter") = Variant(Untagged, "Meter",
        <<F("remaining", Opt(Num("u64"))), F("parent", Opt(Num("u32")))>>)
  BY MeterFields, MoreWrittenIs, OnlyVariant DEF WriteMeter

\* The reader's fields of a meter.
LEMMA RMeter ==
    Readable["Meter"] = {Variant(Untagged, "Meter",
        <<F("remaining", Opt(Num("u64"))), F("parent", Opt(Num("u32")))>>)}
  BY MeterFields, MoreReadableIs DEF ReadMeter

\* The writer's fields of the program.
LEMMA WAst ==
    VariantIn(Written["Ast"], "Ast") = Variant(Untagged, "Ast",
        <<F("exprs", Many(One("Expr"))), F("stmts", Many(One("Stmt"))),
          F("patterns", Many(One("Pattern"))),
          F("expr_lists", Many(Num("u32"))), F("stmt_lists", Many(Num("u32"))),
          F("param_lists", Many(Num("u32"))),
          F("prop_lists", Many(One("PropEntry"))),
          F("pattern_lists", Many(Num("u32"))),
          F("pattern_fields", Many(One("PatternField"))),
          F("arms", Many(One("MatchArm"))),
          F("effect_clauses", Many(One("EffectClause"))),
          F("floats", Many(Num("f64"))), F("root_start", Num("u32")),
          F("root_count", Num("u32"))>>)
<1> DEFINE rows == Rows(<<<<"exprs", Many(One("Expr"))>>, <<"stmts", Many(One("Stmt"))>>,
            <<"patterns", Many(One("Pattern"))>>, <<"expr_lists", Many(Num("u32"))>>,
            <<"stmt_lists", Many(Num("u32"))>>, <<"param_lists", Many(Num("u32"))>>,
            <<"prop_lists", Many(One("PropEntry"))>>,
            <<"pattern_lists", Many(Num("u32"))>>,
            <<"pattern_fields", Many(One("PatternField"))>>,
            <<"arms", Many(One("MatchArm"))>>,
            <<"effect_clauses", Many(One("EffectClause"))>>,
            <<"floats", Many(Num("f64"))>>, <<"root_start", Num("u32")>>,
            <<"root_count", Num("u32")>>>>)
           fields == <<F("exprs", Many(One("Expr"))), F("stmts", Many(One("Stmt"))),
          F("patterns", Many(One("Pattern"))),
          F("expr_lists", Many(Num("u32"))), F("stmt_lists", Many(Num("u32"))),
          F("param_lists", Many(Num("u32"))),
          F("prop_lists", Many(One("PropEntry"))),
          F("pattern_lists", Many(Num("u32"))),
          F("pattern_fields", Many(One("PatternField"))),
          F("arms", Many(One("MatchArm"))),
          F("effect_clauses", Many(One("EffectClause"))),
          F("floats", Many(Num("f64"))), F("root_start", Num("u32")),
          F("root_count", Num("u32"))>>
<1>1. rows = fields
  BY DEF Rows, F
<1>2. Written["Ast"] = {Variant(Untagged, "Ast", rows)}
  BY MoreWrittenIs DEF WriteAst
<1> HIDE DEF rows, fields
<1>3. VariantIn(Written["Ast"], "Ast") = Variant(Untagged, "Ast", rows)
  BY <1>2, OnlyVariant
<1> QED
  BY <1>1, <1>3 DEF fields

\* The reader's fields of the program.
LEMMA RAst ==
    Readable["Ast"] = {Variant(Untagged, "Ast",
        <<F("exprs", Many(One("Expr"))), F("stmts", Many(One("Stmt"))),
          F("patterns", Many(One("Pattern"))),
          F("expr_lists", Many(Num("u32"))), F("stmt_lists", Many(Num("u32"))),
          F("param_lists", Many(Num("u32"))),
          F("prop_lists", Many(One("PropEntry"))),
          F("pattern_lists", Many(Num("u32"))),
          F("pattern_fields", Many(One("PatternField"))),
          F("arms", Many(One("MatchArm"))),
          F("effect_clauses", Many(One("EffectClause"))),
          F("floats", Many(Num("f64"))), F("root_start", Num("u32")),
          F("root_count", Num("u32"))>>)}
<1> DEFINE rows == Rows(<<<<"exprs", Many(One("Expr"))>>, <<"stmts", Many(One("Stmt"))>>,
            <<"patterns", Many(One("Pattern"))>>, <<"expr_lists", Many(Num("u32"))>>,
            <<"stmt_lists", Many(Num("u32"))>>, <<"param_lists", Many(Num("u32"))>>,
            <<"prop_lists", Many(One("PropEntry"))>>,
            <<"pattern_lists", Many(Num("u32"))>>,
            <<"pattern_fields", Many(One("PatternField"))>>,
            <<"arms", Many(One("MatchArm"))>>,
            <<"effect_clauses", Many(One("EffectClause"))>>,
            <<"floats", Many(Num("f64"))>>, <<"root_start", Num("u32")>>,
            <<"root_count", Num("u32")>>>>)
           fields == <<F("exprs", Many(One("Expr"))), F("stmts", Many(One("Stmt"))),
          F("patterns", Many(One("Pattern"))),
          F("expr_lists", Many(Num("u32"))), F("stmt_lists", Many(Num("u32"))),
          F("param_lists", Many(Num("u32"))),
          F("prop_lists", Many(One("PropEntry"))),
          F("pattern_lists", Many(Num("u32"))),
          F("pattern_fields", Many(One("PatternField"))),
          F("arms", Many(One("MatchArm"))),
          F("effect_clauses", Many(One("EffectClause"))),
          F("floats", Many(Num("f64"))), F("root_start", Num("u32")),
          F("root_count", Num("u32"))>>
<1>1. rows = fields
  BY DEF Rows, F
<1>2. Readable["Ast"] = {Variant(Untagged, "Ast", rows)}
  BY MoreReadableIs DEF ReadAst
<1> HIDE DEF rows, fields
<1> QED
  BY <1>1, <1>2 DEF fields

\* The writer's fields of a runtime.
LEMMA WRuntime ==
    VariantIn(Written["Runtime"], "Runtime") = Variant(Untagged, "Runtime",
        <<F("magic", Num("magic")), F("version", Num("u8")),
          F("strings", Many(Num("str"))), F("ast", One("Ast")),
          F("objects", One("Objects")), F("envs", One("Envs")),
          F("conts", One("Conts")), F("handlers", One("Handlers")),
          F("control", One("Control")), F("env", Ref("envs")),
          F("cont", Ref("conts")), F("globals", Many(One("Binding"))),
          F("fibers", Many(One("Fiber"))), F("ready_queue", Many(Num("u32"))),
          F("next_fiber_id", Num("u32")),
          F("join_waiters", Many(One("Waiters"))),
          F("effects", Many(One("Grant"))), F("meters", Many(One("Meter"))),
          F("steps_total", Num("u64")), F("quantum", Num("u64"))>>)
<1> DEFINE rows == Rows(<<<<"magic", Num("magic")>>, <<"version", Num("u8")>>,
            <<"strings", Many(Num("str"))>>, <<"ast", One("Ast")>>,
            <<"objects", One("Objects")>>, <<"envs", One("Envs")>>,
            <<"conts", One("Conts")>>, <<"handlers", One("Handlers")>>,
            <<"control", One("Control")>>, <<"env", Ref("envs")>>,
            <<"cont", Ref("conts")>>, <<"globals", Many(One("Binding"))>>,
            <<"fibers", Many(One("Fiber"))>>, <<"ready_queue", Many(Num("u32"))>>,
            <<"next_fiber_id", Num("u32")>>, <<"join_waiters", Many(One("Waiters"))>>,
            <<"effects", Many(One("Grant"))>>, <<"meters", Many(One("Meter"))>>,
            <<"steps_total", Num("u64")>>, <<"quantum", Num("u64")>>>>)
           fields == <<F("magic", Num("magic")), F("version", Num("u8")),
          F("strings", Many(Num("str"))), F("ast", One("Ast")),
          F("objects", One("Objects")), F("envs", One("Envs")),
          F("conts", One("Conts")), F("handlers", One("Handlers")),
          F("control", One("Control")), F("env", Ref("envs")),
          F("cont", Ref("conts")), F("globals", Many(One("Binding"))),
          F("fibers", Many(One("Fiber"))), F("ready_queue", Many(Num("u32"))),
          F("next_fiber_id", Num("u32")),
          F("join_waiters", Many(One("Waiters"))),
          F("effects", Many(One("Grant"))), F("meters", Many(One("Meter"))),
          F("steps_total", Num("u64")), F("quantum", Num("u64"))>>
<1>1. rows = fields
  BY DEF Rows, F
<1>2. Written["Runtime"] = {Variant(Untagged, "Runtime", rows)}
  BY MoreWrittenIs DEF WriteRuntime
<1> HIDE DEF rows, fields
<1>3. VariantIn(Written["Runtime"], "Runtime") = Variant(Untagged, "Runtime", rows)
  BY <1>2, OnlyVariant
<1> QED
  BY <1>1, <1>3 DEF fields

\* The reader's fields of a runtime.
LEMMA RRuntime ==
    Readable["Runtime"] = {Variant(Untagged, "Runtime",
        <<F("magic", Num("magic")), F("version", Num("u8")),
          F("strings", Many(Num("str"))), F("ast", One("Ast")),
          F("objects", One("Objects")), F("envs", One("Envs")),
          F("conts", One("Conts")), F("handlers", One("Handlers")),
          F("control", One("Control")), F("env", Num("u32")),
          F("cont", Num("u32")), F("globals", Many(One("Binding"))),
          F("fibers", Many(One("Fiber"))), F("ready_queue", Many(Num("u32"))),
          F("next_fiber_id", Num("u32")),
          F("join_waiters", Many(One("Waiters"))),
          F("effects", Many(One("Grant"))), F("meters", Many(One("Meter"))),
          F("steps_total", Num("u64")), F("quantum", Num("u64"))>>)}
<1> DEFINE rows == Rows(<<<<"magic", Num("magic")>>, <<"version", Num("u8")>>,
            <<"strings", Many(Num("str"))>>, <<"ast", One("Ast")>>,
            <<"objects", One("Objects")>>, <<"envs", One("Envs")>>,
            <<"conts", One("Conts")>>, <<"handlers", One("Handlers")>>,
            <<"control", One("Control")>>, <<"env", Num("u32")>>, <<"cont", Num("u32")>>,
            <<"globals", Many(One("Binding"))>>, <<"fibers", Many(One("Fiber"))>>,
            <<"ready_queue", Many(Num("u32"))>>, <<"next_fiber_id", Num("u32")>>,
            <<"join_waiters", Many(One("Waiters"))>>, <<"effects", Many(One("Grant"))>>,
            <<"meters", Many(One("Meter"))>>, <<"steps_total", Num("u64")>>,
            <<"quantum", Num("u64")>>>>)
           fields == <<F("magic", Num("magic")), F("version", Num("u8")),
          F("strings", Many(Num("str"))), F("ast", One("Ast")),
          F("objects", One("Objects")), F("envs", One("Envs")),
          F("conts", One("Conts")), F("handlers", One("Handlers")),
          F("control", One("Control")), F("env", Num("u32")),
          F("cont", Num("u32")), F("globals", Many(One("Binding"))),
          F("fibers", Many(One("Fiber"))), F("ready_queue", Many(Num("u32"))),
          F("next_fiber_id", Num("u32")),
          F("join_waiters", Many(One("Waiters"))),
          F("effects", Many(One("Grant"))), F("meters", Many(One("Meter"))),
          F("steps_total", Num("u64")), F("quantum", Num("u64"))>>
<1>1. rows = fields
  BY DEF Rows, F
<1>2. Readable["Runtime"] = {Variant(Untagged, "Runtime", rows)}
  BY MoreReadableIs DEF ReadRuntime
<1> HIDE DEF rows, fields
<1> QED
  BY <1>1, <1>2 DEF fields

-----------------------------------------------------------------------------
(* What is written as a variant is read as it.                             *)

\* The names the reader has tables for.
LEMMA ReadableNames ==
    /\ "Value" \in DOMAIN Readable /\ "Binding" \in DOMAIN Readable
    /\ "Property" \in DOMAIN Readable /\ "ObjectKind" \in DOMAIN Readable
    /\ "Object" \in DOMAIN Readable /\ "Env" \in DOMAIN Readable
    /\ "Handler" \in DOMAIN Readable /\ "Kont" \in DOMAIN Readable
    /\ "Control" \in DOMAIN Readable /\ "FiberStatus" \in DOMAIN Readable
    /\ "Fiber" \in DOMAIN Readable /\ "Objects" \in DOMAIN Readable
    /\ "Envs" \in DOMAIN Readable /\ "Conts" \in DOMAIN Readable
    /\ "Handlers" \in DOMAIN Readable /\ "Waiters" \in DOMAIN Readable
    /\ "Meter" \in DOMAIN Readable /\ "Ast" \in DOMAIN Readable
    /\ "Runtime" \in DOMAIN Readable
  BY ReadableAssumption DEF ReaderTables

\* One round more.
LEMMA TaggedBack ==
    ASSUME NEW k \in Nat, NEW l, l = k + 1, NEW n \in DOMAIN Readable, NEW is, NEW f, NEW tag,
           NEW wf, NEW rf,
           VariantIn(Written[n], is) = Variant(tag, is, wf), Tagged(n, tag, is, rf),
           Matches(k, wf, rf, f)
    PROVE  Reads(l, One(n), One(n), [is |-> is, f |-> f])
<1>1. Reads(k + 1, One(n), One(n), [is |-> is, f |-> f])
  BY ReadsTagged
<1> QED
  BY <1>1

\* What has a single variant and no tag is read as it was written.
LEMMA UntaggedBack ==
    ASSUME NEW k \in Nat, NEW l, l = k + 1, NEW n \in DOMAIN Readable, NEW is, NEW f, NEW wf,
           NEW rf,
           VariantIn(Written[n], is) = Variant(Untagged, is, wf),
           Readable[n] = {Variant(Untagged, is, rf)},
           Matches(k, wf, rf, f)
    PROVE  Reads(l, One(n), One(n), [is |-> is, f |-> f])
<1>1. Reads(k + 1, One(n), One(n), [is |-> is, f |-> f])
  BY ReadsUntagged
<1> QED
  BY <1>1

\* Numbers of every width, at any depth.
LEMMA NumberRead ==
    ASSUME NEW k \in Nat, k >= 1, NEW x, NEW a
    PROVE  /\ Reads(k, Num("u8"), Num("u8"), x) /\ Reads(k, Num("u16"), Num("u16"), x)
           /\ Reads(k, Num("u32"), Num("u32"), x) /\ Reads(k, Num("u64"), Num("u64"), x)
           /\ Reads(k, Num("i32"), Num("i32"), x) /\ Reads(k, Num("f64"), Num("f64"), x)
           /\ Reads(k, Num("str"), Num("str"), x) /\ Reads(k, Num("magic"), Num("magic"), x)
           /\ Reads(k, Ref(a), Num("u32"), x)
<1>1. \A w \in {"u8", "u16", "u32", "u64", "i32", "f64", "str", "magic"} :
            Reads(k, Num(w), Num(w), x)
  <2> SUFFICES ASSUME NEW w \in {"u8", "u16", "u32", "u64", "i32", "f64", "str", "magic"}
               PROVE  Reads(k, Num(w), Num(w), x)
    OBVIOUS
  <2>1. w \in Widths
    BY DEF Widths
  <2>3. Num(w).t = "num" /\ Num(w).w = w
    BY DEF Num
  <2>2. Reads(1, Num(w), Num(w), x)
    BY <2>1, <2>3, ReadsNum
  <2> QED
    BY <2>2, ReadsDeeper
<1>2. Reads(k, Ref(a), Num("u32"), x)
  <2>1. "u32" \in Widths
    BY DEF Widths
  <2>3. Ref(a).t = "num" /\ Ref(a).w = "u32"
    BY DEF Ref
  <2>2. Reads(1, Ref(a), Num("u32"), x)
    BY <2>1, <2>3, ReadsNum
  <2> QED
    BY <2>2, ReadsDeeper
<1> QED
  BY <1>1, <1>2

\* The value Undefined is read as it was written, once its fields are.
LEMMA BackValueUndefined ==
    ASSUME NEW f, f = <<>>
    PROVE  Reads(2, One("Value"), One("Value"), [is |-> "Undefined", f |-> f])
<1> DEFINE wf == <<>>
           rf == <<>>
<1>1. Matches(1, wf, rf, f)
  BY Matches0
<1> HIDE DEF wf, rf
<1>2. VariantIn(Written["Value"], "Undefined") = Variant(0, "Undefined", wf)
  BY WValueUndefined DEF wf
<1>3. Tagged("Value", 0, "Undefined", rf)
  BY RValueUndefined DEF rf
<1>4. "Value" \in DOMAIN Readable
  BY ReadableNames
<1> DEFINE n == "Value"
           is == "Undefined"
           k == 1
           l == 2
<1>5. k \in Nat /\ l = k + 1 /\ n \in DOMAIN Readable /\ Matches(k, wf, rf, f)
  BY <1>1, <1>4
<1>6. VariantIn(Written[n], is) = Variant(0, is, wf)
  BY <1>2
<1>7. Tagged(n, 0, is, rf)
  BY <1>3
<1> HIDE DEF n, is, k, l
<1>8. Reads(l, One(n), One(n), [is |-> is, f |-> f])
  BY <1>5, <1>6, <1>7, TaggedBack
<1> QED
  BY <1>8 DEF n, is, k, l

\* The value Int is read as it was written, once its fields are.
LEMMA BackValueInt ==
    ASSUME NEW f, f = [n \in {"n"} |-> f[n]]
    PROVE  Reads(2, One("Value"), One("Value"), [is |-> "Int", f |-> f])
<1> DEFINE wf == <<F("n", Num("i32"))>>
           rf == <<F("n", Num("i32"))>>
<1>1. Matches(1, wf, rf, f)
  <2>1. Reads(1, Num("i32"), Num("i32"), f["n"])
    BY NumberRead
  <2> QED
    BY <2>1, Matches1
<1> HIDE DEF wf, rf
<1>2. VariantIn(Written["Value"], "Int") = Variant(3, "Int", wf)
  BY WValueInt DEF wf
<1>3. Tagged("Value", 3, "Int", rf)
  BY RValueInt DEF rf
<1>4. "Value" \in DOMAIN Readable
  BY ReadableNames
<1> DEFINE n == "Value"
           is == "Int"
           k == 1
           l == 2
<1>5. k \in Nat /\ l = k + 1 /\ n \in DOMAIN Readable /\ Matches(k, wf, rf, f)
  BY <1>1, <1>4
<1>6. VariantIn(Written[n], is) = Variant(3, is, wf)
  BY <1>2
<1>7. Tagged(n, 3, is, rf)
  BY <1>3
<1> HIDE DEF n, is, k, l
<1>8. Reads(l, One(n), One(n), [is |-> is, f |-> f])
  BY <1>5, <1>6, <1>7, TaggedBack
<1> QED
  BY <1>8 DEF n, is, k, l

\* The value String is read as it was written, once its fields are.
LEMMA BackValueString ==
    ASSUME NEW f, f = [n \in {"s"} |-> f[n]]
    PROVE  Reads(2, One("Value"), One("Value"), [is |-> "String", f |-> f])
<1> DEFINE wf == <<F("s", Num("u32"))>>
           rf == <<F("s", Num("u32"))>>
<1>1. Matches(1, wf, rf, f)
  <2>1. Reads(1, Num("u32"), Num("u32"), f["s"])
    BY NumberRead
  <2> QED
    BY <2>1, Matches1
<1> HIDE DEF wf, rf
<1>2. VariantIn(Written["Value"], "String") = Variant(5, "String", wf)
  BY WValueString DEF wf
<1>3. Tagged("Value", 5, "String", rf)
  BY RValueString DEF rf
<1>4. "Value" \in DOMAIN Readable
  BY ReadableNames
<1> DEFINE n == "Value"
           is == "String"
           k == 1
           l == 2
<1>5. k \in Nat /\ l = k + 1 /\ n \in DOMAIN Readable /\ Matches(k, wf, rf, f)
  BY <1>1, <1>4
<1>6. VariantIn(Written[n], is) = Variant(5, is, wf)
  BY <1>2
<1>7. Tagged(n, 5, is, rf)
  BY <1>3
<1> HIDE DEF n, is, k, l
<1>8. Reads(l, One(n), One(n), [is |-> is, f |-> f])
  BY <1>5, <1>6, <1>7, TaggedBack
<1> QED
  BY <1>8 DEF n, is, k, l

\* The value Object is read as it was written, once its fields are.
LEMMA BackValueObject ==
    ASSUME NEW f, f = [n \in {"o"} |-> f[n]]
    PROVE  Reads(2, One("Value"), One("Value"), [is |-> "Object", f |-> f])
<1> DEFINE wf == <<F("o", Ref("objects"))>>
           rf == <<F("o", Num("u32"))>>
<1>1. Matches(1, wf, rf, f)
  <2>1. Reads(1, Ref("objects"), Num("u32"), f["o"])
    BY NumberRead
  <2> QED
    BY <2>1, Matches1
<1> HIDE DEF wf, rf
<1>2. VariantIn(Written["Value"], "Object") = Variant(6, "Object", wf)
  BY WValueObject DEF wf
<1>3. Tagged("Value", 6, "Object", rf)
  BY RValueObject DEF rf
<1>4. "Value" \in DOMAIN Readable
  BY ReadableNames
<1> DEFINE n == "Value"
           is == "Object"
           k == 1
           l == 2
<1>5. k \in Nat /\ l = k + 1 /\ n \in DOMAIN Readable /\ Matches(k, wf, rf, f)
  BY <1>1, <1>4
<1>6. VariantIn(Written[n], is) = Variant(6, is, wf)
  BY <1>2
<1>7. Tagged(n, 6, is, rf)
  BY <1>3
<1> HIDE DEF n, is, k, l
<1>8. Reads(l, One(n), One(n), [is |-> is, f |-> f])
  BY <1>5, <1>6, <1>7, TaggedBack
<1> QED
  BY <1>8 DEF n, is, k, l

\* The value Function is read as it was written, once its fields are.
LEMMA BackValueFunction ==
    ASSUME NEW f, f = [n \in {"o"} |-> f[n]]
    PROVE  Reads(2, One("Value"), One("Value"), [is |-> "Function", f |-> f])
<1> DEFINE wf == <<F("o", Ref("objects"))>>
           rf == <<F("o", Num("u32"))>>
<1>1. Matches(1, wf, rf, f)
  <2>1. Reads(1, Ref("objects"), Num("u32"), f["o"])
    BY NumberRead
  <2> QED
    BY <2>1, Matches1
<1> HIDE DEF wf, rf
<1>2. VariantIn(Written["Value"], "Function") = Variant(7, "Function", wf)
  BY WValueFunction DEF wf
<1>3. Tagged("Value", 7, "Function", rf)
  BY RValueFunction DEF rf
<1>4. "Value" \in DOMAIN Readable
  BY ReadableNames
<1> DEFINE n == "Value"
           is == "Function"
           k == 1
           l == 2
<1>5. k \in Nat /\ l = k + 1 /\ n \in DOMAIN Readable /\ Matches(k, wf, rf, f)
  BY <1>1, <1>4
<1>6. VariantIn(Written[n], is) = Variant(7, is, wf)
  BY <1>2
<1>7. Tagged(n, 7, is, rf)
  BY <1>3
<1> HIDE DEF n, is, k, l
<1>8. Reads(l, One(n), One(n), [is |-> is, f |-> f])
  BY <1>5, <1>6, <1>7, TaggedBack
<1> QED
  BY <1>8 DEF n, is, k, l

\* The value Handler is read as it was written, once its fields are.
LEMMA BackValueHandler ==
    ASSUME NEW f, f = [n \in {"h"} |-> f[n]]
    PROVE  Reads(2, One("Value"), One("Value"), [is |-> "Handler", f |-> f])
<1> DEFINE wf == <<F("h", Ref("handlers"))>>
           rf == <<F("h", Num("u32"))>>
<1>1. Matches(1, wf, rf, f)
  <2>1. Reads(1, Ref("handlers"), Num("u32"), f["h"])
    BY NumberRead
  <2> QED
    BY <2>1, Matches1
<1> HIDE DEF wf, rf
<1>2. VariantIn(Written["Value"], "Handler") = Variant(9, "Handler", wf)
  BY WValueHandler DEF wf
<1>3. Tagged("Value", 9, "Handler", rf)
  BY RValueHandler DEF rf
<1>4. "Value" \in DOMAIN Readable
  BY ReadableNames
<1> DEFINE n == "Value"
           is == "Handler"
           k == 1
           l == 2
<1>5. k \in Nat /\ l = k + 1 /\ n \in DOMAIN Readable /\ Matches(k, wf, rf, f)
  BY <1>1, <1>4
<1>6. VariantIn(Written[n], is) = Variant(9, is, wf)
  BY <1>2
<1>7. Tagged(n, 9, is, rf)
  BY <1>3
<1> HIDE DEF n, is, k, l
<1>8. Reads(l, One(n), One(n), [is |-> is, f |-> f])
  BY <1>5, <1>6, <1>7, TaggedBack
<1> QED
  BY <1>8 DEF n, is, k, l

\* The value Continuation is read as it was written, once its fields are.
LEMMA BackValueContinuation ==
    ASSUME NEW f, f = [n \in {"k", "env"} |-> f[n]]
    PROVE  Reads(2, One("Value"), One("Value"), [is |-> "Continuation", f |-> f])
<1> DEFINE wf == <<F("k", Ref("conts")), F("env", Ref("envs"))>>
           rf == <<F("k", Num("u32")), F("env", Num("u32"))>>
<1>1. Matches(1, wf, rf, f)
  <2>1. Reads(1, Ref("conts"), Num("u32"), f["k"])
    BY NumberRead
  <2>2. Reads(1, Ref("envs"), Num("u32"), f["env"])
    BY NumberRead
  <2> QED
    BY <2>1, <2>2, Matches2
<1> HIDE DEF wf, rf
<1>2. VariantIn(Written["Value"], "Continuation") = Variant(10, "Continuation", wf)
  BY WValueContinuation DEF wf
<1>3. Tagged("Value", 10, "Continuation", rf)
  BY RValueContinuation DEF rf
<1>4. "Value" \in DOMAIN Readable
  BY ReadableNames
<1> DEFINE n == "Value"
           is == "Continuation"
           k == 1
           l == 2
<1>5. k \in Nat /\ l = k + 1 /\ n \in DOMAIN Readable /\ Matches(k, wf, rf, f)
  BY <1>1, <1>4
<1>6. VariantIn(Written[n], is) = Variant(10, is, wf)
  BY <1>2
<1>7. Tagged(n, 10, is, rf)
  BY <1>3
<1> HIDE DEF n, is, k, l
<1>8. Reads(l, One(n), One(n), [is |-> is, f |-> f])
  BY <1>5, <1>6, <1>7, TaggedBack
<1> QED
  BY <1>8 DEF n, is, k, l

\* A binding is read as it was written, once its fields are.
LEMMA BackBindingBinding ==
    ASSUME NEW f, f = [n \in {"key", "value"} |-> f[n]],
           Reads(2, One("Value"), One("Value"), f["value"])
    PROVE  Reads(3, One("Binding"), One("Binding"), [is |-> "Binding", f |-> f])
<1> DEFINE wf == <<F("key", Num("u32")), F("value", One("Value"))>>
           rf == <<F("key", Num("u32")), F("value", One("Value"))>>
<1>1. Matches(2, wf, rf, f)
  <2>1. Reads(2, Num("u32"), Num("u32"), f["key"])
    BY NumberRead
  <2> QED
    BY <2>1, Matches2
<1> HIDE DEF wf, rf
<1>2. VariantIn(Written["Binding"], "Binding") = Variant(Untagged, "Binding", wf)
  BY WBindingBinding DEF wf
<1>3. Readable["Binding"] = {Variant(Untagged, "Binding", rf)}
  BY RBindingBinding DEF rf
<1>4. "Binding" \in DOMAIN Readable
  BY ReadableNames
<1> DEFINE n == "Binding"
           is == "Binding"
           k == 2
           l == 3
<1>5. k \in Nat /\ l = k + 1 /\ n \in DOMAIN Readable /\ Matches(k, wf, rf, f)
  BY <1>1, <1>4
<1>6. VariantIn(Written[n], is) = Variant(Untagged, is, wf)
  BY <1>2
<1>7. Readable[n] = {Variant(Untagged, is, rf)}
  BY <1>3
<1> HIDE DEF n, is, k, l
<1>8. Reads(l, One(n), One(n), [is |-> is, f |-> f])
  BY <1>5, <1>6, <1>7, UntaggedBack
<1> QED
  BY <1>8 DEF n, is, k, l

\* A property is read as it was written, once its fields are.
LEMMA BackPropertyProperty ==
    ASSUME NEW f, f = [n \in {"key", "value", "writable", "enumerable", "configurable"} |-> f[n]],
           Reads(2, One("Value"), One("Value"), f["value"])
    PROVE  Reads(3, One("Property"), One("Property"), [is |-> "Property", f |-> f])
<1> DEFINE wf == <<F("key", Num("u32")), F("value", One("Value")),
                F("writable", Num("u8")), F("enumerable", Num("u8")),
                F("configurable", Num("u8"))>>
           rf == <<F("key", Num("u32")), F("value", One("Value")),
                F("writable", Num("u8")), F("enumerable", Num("u8")),
                F("configurable", Num("u8"))>>
<1>1. Matches(2, wf, rf, f)
  <2>1. Reads(2, Num("u32"), Num("u32"), f["key"])
    BY NumberRead
  <2>2. Reads(2, Num("u8"), Num("u8"), f["writable"])
    BY NumberRead
  <2>3. Reads(2, Num("u8"), Num("u8"), f["enumerable"])
    BY NumberRead
  <2>4. Reads(2, Num("u8"), Num("u8"), f["configurable"])
    BY NumberRead
  <2> QED
    BY <2>1, <2>2, <2>3, <2>4, Matches5, SMTT(15), ZenonT(30)
<1> HIDE DEF wf, rf
<1>2. VariantIn(Written["Property"], "Property") = Variant(Untagged, "Property", wf)
  BY WPropertyProperty DEF wf
<1>3. Readable["Property"] = {Variant(Untagged, "Property", rf)}
  BY RPropertyProperty DEF rf
<1>4. "Property" \in DOMAIN Readable
  BY ReadableNames
<1> DEFINE n == "Property"
           is == "Property"
           k == 2
           l == 3
<1>5. k \in Nat /\ l = k + 1 /\ n \in DOMAIN Readable /\ Matches(k, wf, rf, f)
  BY <1>1, <1>4
<1>6. VariantIn(Written[n], is) = Variant(Untagged, is, wf)
  BY <1>2
<1>7. Readable[n] = {Variant(Untagged, is, rf)}
  BY <1>3
<1> HIDE DEF n, is, k, l
<1>8. Reads(l, One(n), One(n), [is |-> is, f |-> f])
  BY <1>5, <1>6, <1>7, UntaggedBack
<1> QED
  BY <1>8 DEF n, is, k, l

\* The kind of object Ordinary is read as it was written, once its fields are.
LEMMA BackObjectKindOrdinary ==
    ASSUME NEW f, f = <<>>
    PROVE  Reads(3, One("ObjectKind"), One("ObjectKind"), [is |-> "Ordinary", f |-> f])
<1> DEFINE wf == <<>>
           rf == <<>>
<1>1. Matches(2, wf, rf, f)
  BY Matches0
<1> HIDE DEF wf, rf
<1>2. VariantIn(Written["ObjectKind"], "Ordinary") = Variant(0, "Ordinary", wf)
  BY WObjectKindOrdinary DEF wf
<1>3. Tagged("ObjectKind", 0, "Ordinary", rf)
  BY RObjectKindOrdinary DEF rf
<1>4. "ObjectKind" \in DOMAIN Readable
  BY ReadableNames
<1> DEFINE n == "ObjectKind"
           is == "Ordinary"
           k == 2
           l == 3
<1>5. k \in Nat /\ l = k + 1 /\ n \in DOMAIN Readable /\ Matches(k, wf, rf, f)
  BY <1>1, <1>4
<1>6. VariantIn(Written[n], is) = Variant(0, is, wf)
  BY <1>2
<1>7. Tagged(n, 0, is, rf)
  BY <1>3
<1> HIDE DEF n, is, k, l
<1>8. Reads(l, One(n), One(n), [is |-> is, f |-> f])
  BY <1>5, <1>6, <1>7, TaggedBack
<1> QED
  BY <1>8 DEF n, is, k, l

\* The kind of object Function is read as it was written, once its fields are.
LEMMA BackObjectKindFunction ==
    ASSUME NEW f, f = [n \in {"params_start", "params_count", "body", "expr_body", "env",
                              "name"} |-> f[n]],
           Reads(2, Opt(Num("u32")), Opt(Num("u32")), f["expr_body"]),
           Reads(2, Opt(Num("u32")), Opt(Num("u32")), f["name"])
    PROVE  Reads(3, One("ObjectKind"), One("ObjectKind"), [is |-> "Function", f |-> f])
<1> DEFINE wf == <<F("params_start", Num("u32")), F("params_count", Num("u16")),
                F("body", Num("u32")), F("expr_body", Opt(Num("u32"))),
                F("env", Ref("envs")), F("name", Opt(Num("u32")))>>
           rf == <<F("params_start", Num("u32")), F("params_count", Num("u16")),
                F("body", Num("u32")), F("expr_body", Opt(Num("u32"))),
                F("env", Num("u32")), F("name", Opt(Num("u32")))>>
<1>1. Matches(2, wf, rf, f)
  <2>1. Reads(2, Num("u32"), Num("u32"), f["params_start"])
    BY NumberRead
  <2>2. Reads(2, Num("u16"), Num("u16"), f["params_count"])
    BY NumberRead
  <2>3. Reads(2, Num("u32"), Num("u32"), f["body"])
    BY NumberRead
  <2>4. Reads(2, Ref("envs"), Num("u32"), f["env"])
    BY NumberRead
  <2> QED
    BY <2>1, <2>2, <2>3, <2>4, Matches6, SMTT(15), ZenonT(30)
<1> HIDE DEF wf, rf
<1>2. VariantIn(Written["ObjectKind"], "Function") = Variant(2, "Function", wf)
  BY WObjectKindFunction DEF wf
<1>3. Tagged("ObjectKind", 2, "Function", rf)
  BY RObjectKindFunction DEF rf
<1>4. "ObjectKind" \in DOMAIN Readable
  BY ReadableNames
<1> DEFINE n == "ObjectKind"
           is == "Function"
           k == 2
           l == 3
<1>5. k \in Nat /\ l = k + 1 /\ n \in DOMAIN Readable /\ Matches(k, wf, rf, f)
  BY <1>1, <1>4
<1>6. VariantIn(Written[n], is) = Variant(2, is, wf)
  BY <1>2
<1>7. Tagged(n, 2, is, rf)
  BY <1>3
<1> HIDE DEF n, is, k, l
<1>8. Reads(l, One(n), One(n), [is |-> is, f |-> f])
  BY <1>5, <1>6, <1>7, TaggedBack
<1> QED
  BY <1>8 DEF n, is, k, l

\* An object is read as it was written, once its fields are.
LEMMA BackObjectObject ==
    ASSUME NEW f, f = [n \in {"properties", "prototype", "kind"} |-> f[n]],
           Reads(4, Many(One("Property")), Many(One("Property")), f["properties"]),
           Reads(4, Opt(Ref("objects")), Opt(Num("u32")), f["prototype"]),
           Reads(4, One("ObjectKind"), One("ObjectKind"), f["kind"])
    PROVE  Reads(5, One("Object"), One("Object"), [is |-> "Object", f |-> f])
<1> DEFINE wf == <<F("properties", Many(One("Property"))),
                F("prototype", Opt(Ref("objects"))),
                F("kind", One("ObjectKind"))>>
           rf == <<F("properties", Many(One("Property"))),
                F("prototype", Opt(Num("u32"))), F("kind", One("ObjectKind"))>>
<1>1. Matches(4, wf, rf, f)
  <2> QED
    BY Matches3
<1> HIDE DEF wf, rf
<1>2. VariantIn(Written["Object"], "Object") = Variant(Untagged, "Object", wf)
  BY WObjectObject DEF wf
<1>3. Readable["Object"] = {Variant(Untagged, "Object", rf)}
  BY RObjectObject DEF rf
<1>4. "Object" \in DOMAIN Readable
  BY ReadableNames
<1> DEFINE n == "Object"
           is == "Object"
           k == 4
           l == 5
<1>5. k \in Nat /\ l = k + 1 /\ n \in DOMAIN Readable /\ Matches(k, wf, rf, f)
  BY <1>1, <1>4
<1>6. VariantIn(Written[n], is) = Variant(Untagged, is, wf)
  BY <1>2
<1>7. Readable[n] = {Variant(Untagged, is, rf)}
  BY <1>3
<1> HIDE DEF n, is, k, l
<1>8. Reads(l, One(n), One(n), [is |-> is, f |-> f])
  BY <1>5, <1>6, <1>7, UntaggedBack
<1> QED
  BY <1>8 DEF n, is, k, l

\* An environment is read as it was written, once its fields are.
LEMMA BackEnvEnv ==
    ASSUME NEW f, f = [n \in {"bindings", "parent"} |-> f[n]],
           Reads(4, Many(One("Binding")), Many(One("Binding")), f["bindings"]),
           Reads(4, Opt(Ref("envs")), Opt(Num("u32")), f["parent"])
    PROVE  Reads(5, One("Env"), One("Env"), [is |-> "Env", f |-> f])
<1> DEFINE wf == <<F("bindings", Many(One("Binding"))),
                F("parent", Opt(Ref("envs")))>>
           rf == <<F("bindings", Many(One("Binding"))),
                F("parent", Opt(Num("u32")))>>
<1>1. Matches(4, wf, rf, f)
  <2> QED
    BY Matches2
<1> HIDE DEF wf, rf
<1>2. VariantIn(Written["Env"], "Env") = Variant(Untagged, "Env", wf)
  BY WEnvEnv DEF wf
<1>3. Readable["Env"] = {Variant(Untagged, "Env", rf)}
  BY REnvEnv DEF rf
<1>4. "Env" \in DOMAIN Readable
  BY ReadableNames
<1> DEFINE n == "Env"
           is == "Env"
           k == 4
           l == 5
<1>5. k \in Nat /\ l = k + 1 /\ n \in DOMAIN Readable /\ Matches(k, wf, rf, f)
  BY <1>1, <1>4
<1>6. VariantIn(Written[n], is) = Variant(Untagged, is, wf)
  BY <1>2
<1>7. Readable[n] = {Variant(Untagged, is, rf)}
  BY <1>3
<1> HIDE DEF n, is, k, l
<1>8. Reads(l, One(n), One(n), [is |-> is, f |-> f])
  BY <1>5, <1>6, <1>7, UntaggedBack
<1> QED
  BY <1>8 DEF n, is, k, l

\* A handler is read as it was written, once its fields are.
LEMMA BackHandlerHandler ==
    ASSUME NEW f, f = [n \in {"clauses_start", "clauses_count", "return_param", "return_body",
                              "env"} |-> f[n]]
    PROVE  Reads(2, One("Handler"), One("Handler"), [is |-> "Handler", f |-> f])
<1> DEFINE wf == <<F("clauses_start", Num("u32")), F("clauses_count", Num("u16")),
                F("return_param", Num("u32")), F("return_body", Num("u32")),
                F("env", Ref("envs"))>>
           rf == <<F("clauses_start", Num("u32")), F("clauses_count", Num("u16")),
                F("return_param", Num("u32")), F("return_body", Num("u32")),
                F("env", Num("u32"))>>
<1>1. Matches(1, wf, rf, f)
  <2>1. Reads(1, Num("u32"), Num("u32"), f["clauses_start"])
    BY NumberRead
  <2>2. Reads(1, Num("u16"), Num("u16"), f["clauses_count"])
    BY NumberRead
  <2>3. Reads(1, Num("u32"), Num("u32"), f["return_param"])
    BY NumberRead
  <2>4. Reads(1, Num("u32"), Num("u32"), f["return_body"])
    BY NumberRead
  <2>5. Reads(1, Ref("envs"), Num("u32"), f["env"])
    BY NumberRead
  <2> QED
    BY <2>1, <2>2, <2>3, <2>4, <2>5, Matches5, SMTT(15), ZenonT(30)
<1> HIDE DEF wf, rf
<1>2. VariantIn(Written["Handler"], "Handler") = Variant(Untagged, "Handler", wf)
  BY WHandlerHandler DEF wf
<1>3. Readable["Handler"] = {Variant(Untagged, "Handler", rf)}
  BY RHandlerHandler DEF rf
<1>4. "Handler" \in DOMAIN Readable
  BY ReadableNames
<1> DEFINE n == "Handler"
           is == "Handler"
           k == 1
           l == 2
<1>5. k \in Nat /\ l = k + 1 /\ n \in DOMAIN Readable /\ Matches(k, wf, rf, f)
  BY <1>1, <1>4
<1>6. VariantIn(Written[n], is) = Variant(Untagged, is, wf)
  BY <1>2
<1>7. Readable[n] = {Variant(Untagged, is, rf)}
  BY <1>3
<1> HIDE DEF n, is, k, l
<1>8. Reads(l, One(n), One(n), [is |-> is, f |-> f])
  BY <1>5, <1>6, <1>7, UntaggedBack
<1> QED
  BY <1>8 DEF n, is, k, l

\* The frame Halt is read as it was written, once its fields are.
LEMMA BackKontHalt ==
    ASSUME NEW f, f = <<>>
    PROVE  Reads(3, One("Kont"), One("Kont"), [is |-> "Halt", f |-> f])
<1> DEFINE wf == <<>>
           rf == <<>>
<1>1. Matches(2, wf, rf, f)
  BY Matches0
<1> HIDE DEF wf, rf
<1>2. VariantIn(Written["Kont"], "Halt") = Variant(0, "Halt", wf)
  BY WKontHalt DEF wf
<1>3. Tagged("Kont", 0, "Halt", rf)
  BY RKontHalt DEF rf
<1>4. "Kont" \in DOMAIN Readable
  BY ReadableNames
<1> DEFINE n == "Kont"
           is == "Halt"
           k == 2
           l == 3
<1>5. k \in Nat /\ l = k + 1 /\ n \in DOMAIN Readable /\ Matches(k, wf, rf, f)
  BY <1>1, <1>4
<1>6. VariantIn(Written[n], is) = Variant(0, is, wf)
  BY <1>2
<1>7. Tagged(n, 0, is, rf)
  BY <1>3
<1> HIDE DEF n, is, k, l
<1>8. Reads(l, One(n), One(n), [is |-> is, f |-> f])
  BY <1>5, <1>6, <1>7, TaggedBack
<1> QED
  BY <1>8 DEF n, is, k, l

\* The frame MemberK is read as it was written, once its fields are.
LEMMA BackKontMemberK ==
    ASSUME NEW f, f = [n \in {"property", "k"} |-> f[n]]
    PROVE  Reads(3, One("Kont"), One("Kont"), [is |-> "MemberK", f |-> f])
<1> DEFINE wf == <<F("property", Num("u32")), F("k", Ref("conts"))>>
           rf == <<F("property", Num("u32")), F("k", Num("u32"))>>
<1>1. Matches(2, wf, rf, f)
  <2>1. Reads(2, Num("u32"), Num("u32"), f["property"])
    BY NumberRead
  <2>2. Reads(2, Ref("conts"), Num("u32"), f["k"])
    BY NumberRead
  <2> QED
    BY <2>1, <2>2, Matches2
<1> HIDE DEF wf, rf
<1>2. VariantIn(Written["Kont"], "MemberK") = Variant(7, "MemberK", wf)
  BY WKontMemberK DEF wf
<1>3. Tagged("Kont", 7, "MemberK", rf)
  BY RKontMemberK DEF rf
<1>4. "Kont" \in DOMAIN Readable
  BY ReadableNames
<1> DEFINE n == "Kont"
           is == "MemberK"
           k == 2
           l == 3
<1>5. k \in Nat /\ l = k + 1 /\ n \in DOMAIN Readable /\ Matches(k, wf, rf, f)
  BY <1>1, <1>4
<1>6. VariantIn(Written[n], is) = Variant(7, is, wf)
  BY <1>2
<1>7. Tagged(n, 7, is, rf)
  BY <1>3
<1> HIDE DEF n, is, k, l
<1>8. Reads(l, One(n), One(n), [is |-> is, f |-> f])
  BY <1>5, <1>6, <1>7, TaggedBack
<1> QED
  BY <1>8 DEF n, is, k, l

\* The frame AssignVarK is read as it was written, once its fields are.
LEMMA BackKontAssignVarK ==
    ASSUME NEW f, f = [n \in {"name", "env", "k"} |-> f[n]]
    PROVE  Reads(3, One("Kont"), One("Kont"), [is |-> "AssignVarK", f |-> f])
<1> DEFINE wf == <<F("name", Num("u32")), F("env", Ref("envs")),
                F("k", Ref("conts"))>>
           rf == <<F("name", Num("u32")), F("env", Num("u32")), F("k", Num("u32"))>>
<1>1. Matches(2, wf, rf, f)
  <2>1. Reads(2, Num("u32"), Num("u32"), f["name"])
    BY NumberRead
  <2>2. Reads(2, Ref("envs"), Num("u32"), f["env"])
    BY NumberRead
  <2>3. Reads(2, Ref("conts"), Num("u32"), f["k"])
    BY NumberRead
  <2> QED
    BY <2>1, <2>2, <2>3, Matches3
<1> HIDE DEF wf, rf
<1>2. VariantIn(Written["Kont"], "AssignVarK") = Variant(10, "AssignVarK", wf)
  BY WKontAssignVarK DEF wf
<1>3. Tagged("Kont", 10, "AssignVarK", rf)
  BY RKontAssignVarK DEF rf
<1>4. "Kont" \in DOMAIN Readable
  BY ReadableNames
<1> DEFINE n == "Kont"
           is == "AssignVarK"
           k == 2
           l == 3
<1>5. k \in Nat /\ l = k + 1 /\ n \in DOMAIN Readable /\ Matches(k, wf, rf, f)
  BY <1>1, <1>4
<1>6. VariantIn(Written[n], is) = Variant(10, is, wf)
  BY <1>2
<1>7. Tagged(n, 10, is, rf)
  BY <1>3
<1> HIDE DEF n, is, k, l
<1>8. Reads(l, One(n), One(n), [is |-> is, f |-> f])
  BY <1>5, <1>6, <1>7, TaggedBack
<1> QED
  BY <1>8 DEF n, is, k, l

\* The frame CalleeK is read as it was written, once its fields are.
LEMMA BackKontCalleeK ==
    ASSUME NEW f, f = [n \in {"args_start", "args_count", "env", "k"} |-> f[n]]
    PROVE  Reads(3, One("Kont"), One("Kont"), [is |-> "CalleeK", f |-> f])
<1> DEFINE wf == <<F("args_start", Num("u32")), F("args_count", Num("u16")),
                F("env", Ref("envs")), F("k", Ref("conts"))>>
           rf == <<F("args_start", Num("u32")), F("args_count", Num("u16")),
                F("env", Num("u32")), F("k", Num("u32"))>>
<1>1. Matches(2, wf, rf, f)
  <2>1. Reads(2, Num("u32"), Num("u32"), f["args_start"])
    BY NumberRead
  <2>2. Reads(2, Num("u16"), Num("u16"), f["args_count"])
    BY NumberRead
  <2>3. Reads(2, Ref("envs"), Num("u32"), f["env"])
    BY NumberRead
  <2>4. Reads(2, Ref("conts"), Num("u32"), f["k"])
    BY NumberRead
  <2> QED
    BY <2>1, <2>2, <2>3, <2>4, Matches4
<1> HIDE DEF wf, rf
<1>2. VariantIn(Written["Kont"], "CalleeK") = Variant(25, "CalleeK", wf)
  BY WKontCalleeK DEF wf
<1>3. Tagged("Kont", 25, "CalleeK", rf)
  BY RKontCalleeK DEF rf
<1>4. "Kont" \in DOMAIN Readable
  BY ReadableNames
<1> DEFINE n == "Kont"
           is == "CalleeK"
           k == 2
           l == 3
<1>5. k \in Nat /\ l = k + 1 /\ n \in DOMAIN Readable /\ Matches(k, wf, rf, f)
  BY <1>1, <1>4
<1>6. VariantIn(Written[n], is) = Variant(25, is, wf)
  BY <1>2
<1>7. Tagged(n, 25, is, rf)
  BY <1>3
<1> HIDE DEF n, is, k, l
<1>8. Reads(l, One(n), One(n), [is |-> is, f |-> f])
  BY <1>5, <1>6, <1>7, TaggedBack
<1> QED
  BY <1>8 DEF n, is, k, l

\* The frame ArgsK is read as it was written, once its fields are.
LEMMA BackKontArgsK ==
    ASSUME NEW f, f = [n \in {"callee", "done", "args_start", "args_idx", "args_count", "env",
                              "k"} |-> f[n]],
           Reads(2, One("Value"), One("Value"), f["callee"]),
           Reads(2, Many(One("Value")), Many(One("Value")), f["done"])
    PROVE  Reads(3, One("Kont"), One("Kont"), [is |-> "ArgsK", f |-> f])
<1> DEFINE wf == <<F("callee", One("Value")), F("done", Many(One("Value"))),
                F("args_start", Num("u32")), F("args_idx", Num("u16")),
                F("args_count", Num("u16")), F("env", Ref("envs")),
                F("k", Ref("conts"))>>
           rf == <<F("callee", One("Value")), F("done", Many(One("Value"))),
                F("args_start", Num("u32")), F("args_idx", Num("u16")),
                F("args_count", Num("u16")), F("env", Num("u32")),
                F("k", Num("u32"))>>
<1>1. Matches(2, wf, rf, f)
  <2>1. Reads(2, Num("u32"), Num("u32"), f["args_start"])
    BY NumberRead
  <2>2. Reads(2, Num("u16"), Num("u16"), f["args_idx"])
    BY NumberRead
  <2>3. Reads(2, Num("u16"), Num("u16"), f["args_count"])
    BY NumberRead
  <2>4. Reads(2, Ref("envs"), Num("u32"), f["env"])
    BY NumberRead
  <2>5. Reads(2, Ref("conts"), Num("u32"), f["k"])
    BY NumberRead
  <2> QED
    BY <2>1, <2>2, <2>3, <2>4, <2>5, Matches7, SMTT(15), ZenonT(30)
<1> HIDE DEF wf, rf
<1>2. VariantIn(Written["Kont"], "ArgsK") = Variant(26, "ArgsK", wf)
  BY WKontArgsK DEF wf
<1>3. Tagged("Kont", 26, "ArgsK", rf)
  BY RKontArgsK DEF rf
<1>4. "Kont" \in DOMAIN Readable
  BY ReadableNames
<1> DEFINE n == "Kont"
           is == "ArgsK"
           k == 2
           l == 3
<1>5. k \in Nat /\ l = k + 1 /\ n \in DOMAIN Readable /\ Matches(k, wf, rf, f)
  BY <1>1, <1>4
<1>6. VariantIn(Written[n], is) = Variant(26, is, wf)
  BY <1>2
<1>7. Tagged(n, 26, is, rf)
  BY <1>3
<1> HIDE DEF n, is, k, l
<1>8. Reads(l, One(n), One(n), [is |-> is, f |-> f])
  BY <1>5, <1>6, <1>7, TaggedBack
<1> QED
  BY <1>8 DEF n, is, k, l

\* The frame ReturnK is read as it was written, once its fields are.
LEMMA BackKontReturnK ==
    ASSUME NEW f, f = [n \in {"env", "k"} |-> f[n]]
    PROVE  Reads(3, One("Kont"), One("Kont"), [is |-> "ReturnK", f |-> f])
<1> DEFINE wf == <<F("env", Ref("envs")), F("k", Ref("conts"))>>
           rf == <<F("env", Num("u32")), F("k", Num("u32"))>>
<1>1. Matches(2, wf, rf, f)
  <2>1. Reads(2, Ref("envs"), Num("u32"), f["env"])
    BY NumberRead
  <2>2. Reads(2, Ref("conts"), Num("u32"), f["k"])
    BY NumberRead
  <2> QED
    BY <2>1, <2>2, Matches2
<1> HIDE DEF wf, rf
<1>2. VariantIn(Written["Kont"], "ReturnK") = Variant(27, "ReturnK", wf)
  BY WKontReturnK DEF wf
<1>3. Tagged("Kont", 27, "ReturnK", rf)
  BY RKontReturnK DEF rf
<1>4. "Kont" \in DOMAIN Readable
  BY ReadableNames
<1> DEFINE n == "Kont"
           is == "ReturnK"
           k == 2
           l == 3
<1>5. k \in Nat /\ l = k + 1 /\ n \in DOMAIN Readable /\ Matches(k, wf, rf, f)
  BY <1>1, <1>4
<1>6. VariantIn(Written[n], is) = Variant(27, is, wf)
  BY <1>2
<1>7. Tagged(n, 27, is, rf)
  BY <1>3
<1> HIDE DEF n, is, k, l
<1>8. Reads(l, One(n), One(n), [is |-> is, f |-> f])
  BY <1>5, <1>6, <1>7, TaggedBack
<1> QED
  BY <1>8 DEF n, is, k, l

\* The frame ReturnExprK is read as it was written, once its fields are.
LEMMA BackKontReturnExprK ==
    ASSUME NEW f, f = [n \in {"k"} |-> f[n]]
    PROVE  Reads(3, One("Kont"), One("Kont"), [is |-> "ReturnExprK", f |-> f])
<1> DEFINE wf == <<F("k", Ref("conts"))>>
           rf == <<F("k", Num("u32"))>>
<1>1. Matches(2, wf, rf, f)
  <2>1. Reads(2, Ref("conts"), Num("u32"), f["k"])
    BY NumberRead
  <2> QED
    BY <2>1, Matches1
<1> HIDE DEF wf, rf
<1>2. VariantIn(Written["Kont"], "ReturnExprK") = Variant(28, "ReturnExprK", wf)
  BY WKontReturnExprK DEF wf
<1>3. Tagged("Kont", 28, "ReturnExprK", rf)
  BY RKontReturnExprK DEF rf
<1>4. "Kont" \in DOMAIN Readable
  BY ReadableNames
<1> DEFINE n == "Kont"
           is == "ReturnExprK"
           k == 2
           l == 3
<1>5. k \in Nat /\ l = k + 1 /\ n \in DOMAIN Readable /\ Matches(k, wf, rf, f)
  BY <1>1, <1>4
<1>6. VariantIn(Written[n], is) = Variant(28, is, wf)
  BY <1>2
<1>7. Tagged(n, 28, is, rf)
  BY <1>3
<1> HIDE DEF n, is, k, l
<1>8. Reads(l, One(n), One(n), [is |-> is, f |-> f])
  BY <1>5, <1>6, <1>7, TaggedBack
<1> QED
  BY <1>8 DEF n, is, k, l

\* The frame ObjectK is read as it was written, once its fields are.
LEMMA BackKontObjectK ==
    ASSUME NEW f, f = [n \in {"done", "props_start", "props_idx", "props_count", "env",
                              "k"} |-> f[n]],
           Reads(2, Many(One("Binding")), Many(One("Binding")), f["done"])
    PROVE  Reads(3, One("Kont"), One("Kont"), [is |-> "ObjectK", f |-> f])
<1> DEFINE wf == <<F("done", Many(One("Binding"))), F("props_start", Num("u32")),
                F("props_idx", Num("u16")), F("props_count", Num("u16")),
                F("env", Ref("envs")), F("k", Ref("conts"))>>
           rf == <<F("done", Many(One("Binding"))), F("props_start", Num("u32")),
                F("props_idx", Num("u16")), F("props_count", Num("u16")),
                F("env", Num("u32")), F("k", Num("u32"))>>
<1>1. Matches(2, wf, rf, f)
  <2>1. Reads(2, Num("u32"), Num("u32"), f["props_start"])
    BY NumberRead
  <2>2. Reads(2, Num("u16"), Num("u16"), f["props_idx"])
    BY NumberRead
  <2>3. Reads(2, Num("u16"), Num("u16"), f["props_count"])
    BY NumberRead
  <2>4. Reads(2, Ref("envs"), Num("u32"), f["env"])
    BY NumberRead
  <2>5. Reads(2, Ref("conts"), Num("u32"), f["k"])
    BY NumberRead
  <2> QED
    BY <2>1, <2>2, <2>3, <2>4, <2>5, Matches6, SMTT(15), ZenonT(30)
<1> HIDE DEF wf, rf
<1>2. VariantIn(Written["Kont"], "ObjectK") = Variant(30, "ObjectK", wf)
  BY WKontObjectK DEF wf
<1>3. Tagged("Kont", 30, "ObjectK", rf)
  BY RKontObjectK DEF rf
<1>4. "Kont" \in DOMAIN Readable
  BY ReadableNames
<1> DEFINE n == "Kont"
           is == "ObjectK"
           k == 2
           l == 3
<1>5. k \in Nat /\ l = k + 1 /\ n \in DOMAIN Readable /\ Matches(k, wf, rf, f)
  BY <1>1, <1>4
<1>6. VariantIn(Written[n], is) = Variant(30, is, wf)
  BY <1>2
<1>7. Tagged(n, 30, is, rf)
  BY <1>3
<1> HIDE DEF n, is, k, l
<1>8. Reads(l, One(n), One(n), [is |-> is, f |-> f])
  BY <1>5, <1>6, <1>7, TaggedBack
<1> QED
  BY <1>8 DEF n, is, k, l

\* The frame HandlerK is read as it was written, once its fields are.
LEMMA BackKontHandlerK ==
    ASSUME NEW f, f = [n \in {"clauses_start", "clauses_count", "env", "return_body",
                              "return_param", "k"} |-> f[n]]
    PROVE  Reads(3, One("Kont"), One("Kont"), [is |-> "HandlerK", f |-> f])
<1> DEFINE wf == <<F("clauses_start", Num("u32")), F("clauses_count", Num("u16")),
                F("env", Ref("envs")), F("return_body", Num("u32")),
                F("return_param", Num("u32")), F("k", Ref("conts"))>>
           rf == <<F("clauses_start", Num("u32")), F("clauses_count", Num("u16")),
                F("env", Num("u32")), F("return_body", Num("u32")),
                F("return_param", Num("u32")), F("k", Num("u32"))>>
<1>1. Matches(2, wf, rf, f)
  <2>1. Reads(2, Num("u32"), Num("u32"), f["clauses_start"])
    BY NumberRead
  <2>2. Reads(2, Num("u16"), Num("u16"), f["clauses_count"])
    BY NumberRead
  <2>3. Reads(2, Ref("envs"), Num("u32"), f["env"])
    BY NumberRead
  <2>4. Reads(2, Num("u32"), Num("u32"), f["return_body"])
    BY NumberRead
  <2>5. Reads(2, Num("u32"), Num("u32"), f["return_param"])
    BY NumberRead
  <2>6. Reads(2, Ref("conts"), Num("u32"), f["k"])
    BY NumberRead
  <2> QED
    BY <2>1, <2>2, <2>3, <2>4, <2>5, <2>6, Matches6, SMTT(15), ZenonT(30)
<1> HIDE DEF wf, rf
<1>2. VariantIn(Written["Kont"], "HandlerK") = Variant(38, "HandlerK", wf)
  BY WKontHandlerK DEF wf
<1>3. Tagged("Kont", 38, "HandlerK", rf)
  BY RKontHandlerK DEF rf
<1>4. "Kont" \in DOMAIN Readable
  BY ReadableNames
<1> DEFINE n == "Kont"
           is == "HandlerK"
           k == 2
           l == 3
<1>5. k \in Nat /\ l = k + 1 /\ n \in DOMAIN Readable /\ Matches(k, wf, rf, f)
  BY <1>1, <1>4
<1>6. VariantIn(Written[n], is) = Variant(38, is, wf)
  BY <1>2
<1>7. Tagged(n, 38, is, rf)
  BY <1>3
<1> HIDE DEF n, is, k, l
<1>8. Reads(l, One(n), One(n), [is |-> is, f |-> f])
  BY <1>5, <1>6, <1>7, TaggedBack
<1> QED
  BY <1>8 DEF n, is, k, l

\* The frame PerformArgsK is read as it was written, once its fields are.
LEMMA BackKontPerformArgsK ==
    ASSUME NEW f, f = [n \in {"effect", "done", "args_start", "args_idx", "args_count", "env",
                              "k"} |-> f[n]],
           Reads(2, Many(One("Value")), Many(One("Value")), f["done"])
    PROVE  Reads(3, One("Kont"), One("Kont"), [is |-> "PerformArgsK", f |-> f])
<1> DEFINE wf == <<F("effect", Num("u32")), F("done", Many(One("Value"))),
                F("args_start", Num("u32")), F("args_idx", Num("u16")),
                F("args_count", Num("u16")), F("env", Ref("envs")),
                F("k", Ref("conts"))>>
           rf == <<F("effect", Num("u32")), F("done", Many(One("Value"))),
                F("args_start", Num("u32")), F("args_idx", Num("u16")),
                F("args_count", Num("u16")), F("env", Num("u32")),
                F("k", Num("u32"))>>
<1>1. Matches(2, wf, rf, f)
  <2>1. Reads(2, Num("u32"), Num("u32"), f["effect"])
    BY NumberRead
  <2>2. Reads(2, Num("u32"), Num("u32"), f["args_start"])
    BY NumberRead
  <2>3. Reads(2, Num("u16"), Num("u16"), f["args_idx"])
    BY NumberRead
  <2>4. Reads(2, Num("u16"), Num("u16"), f["args_count"])
    BY NumberRead
  <2>5. Reads(2, Ref("envs"), Num("u32"), f["env"])
    BY NumberRead
  <2>6. Reads(2, Ref("conts"), Num("u32"), f["k"])
    BY NumberRead
  <2> QED
    BY <2>1, <2>2, <2>3, <2>4, <2>5, <2>6, Matches7, SMTT(15), ZenonT(30)
<1> HIDE DEF wf, rf
<1>2. VariantIn(Written["Kont"], "PerformArgsK") = Variant(39, "PerformArgsK", wf)
  BY WKontPerformArgsK DEF wf
<1>3. Tagged("Kont", 39, "PerformArgsK", rf)
  BY RKontPerformArgsK DEF rf
<1>4. "Kont" \in DOMAIN Readable
  BY ReadableNames
<1> DEFINE n == "Kont"
           is == "PerformArgsK"
           k == 2
           l == 3
<1>5. k \in Nat /\ l = k + 1 /\ n \in DOMAIN Readable /\ Matches(k, wf, rf, f)
  BY <1>1, <1>4
<1>6. VariantIn(Written[n], is) = Variant(39, is, wf)
  BY <1>2
<1>7. Tagged(n, 39, is, rf)
  BY <1>3
<1> HIDE DEF n, is, k, l
<1>8. Reads(l, One(n), One(n), [is |-> is, f |-> f])
  BY <1>5, <1>6, <1>7, TaggedBack
<1> QED
  BY <1>8 DEF n, is, k, l

\* The frame HandleWithK is read as it was written, once its fields are.
LEMMA BackKontHandleWithK ==
    ASSUME NEW f, f = [n \in {"body", "env", "k"} |-> f[n]]
    PROVE  Reads(3, One("Kont"), One("Kont"), [is |-> "HandleWithK", f |-> f])
<1> DEFINE wf == <<F("body", Num("u32")), F("env", Ref("envs")),
                F("k", Ref("conts"))>>
           rf == <<F("body", Num("u32")), F("env", Num("u32")), F("k", Num("u32"))>>
<1>1. Matches(2, wf, rf, f)
  <2>1. Reads(2, Num("u32"), Num("u32"), f["body"])
    BY NumberRead
  <2>2. Reads(2, Ref("envs"), Num("u32"), f["env"])
    BY NumberRead
  <2>3. Reads(2, Ref("conts"), Num("u32"), f["k"])
    BY NumberRead
  <2> QED
    BY <2>1, <2>2, <2>3, Matches3
<1> HIDE DEF wf, rf
<1>2. VariantIn(Written["Kont"], "HandleWithK") = Variant(40, "HandleWithK", wf)
  BY WKontHandleWithK DEF wf
<1>3. Tagged("Kont", 40, "HandleWithK", rf)
  BY RKontHandleWithK DEF rf
<1>4. "Kont" \in DOMAIN Readable
  BY ReadableNames
<1> DEFINE n == "Kont"
           is == "HandleWithK"
           k == 2
           l == 3
<1>5. k \in Nat /\ l = k + 1 /\ n \in DOMAIN Readable /\ Matches(k, wf, rf, f)
  BY <1>1, <1>4
<1>6. VariantIn(Written[n], is) = Variant(40, is, wf)
  BY <1>2
<1>7. Tagged(n, 40, is, rf)
  BY <1>3
<1> HIDE DEF n, is, k, l
<1>8. Reads(l, One(n), One(n), [is |-> is, f |-> f])
  BY <1>5, <1>6, <1>7, TaggedBack
<1> QED
  BY <1>8 DEF n, is, k, l

\* The control Expr is read as it was written, once its fields are.
LEMMA BackControlExpr ==
    ASSUME NEW f, f = [n \in {"e"} |-> f[n]]
    PROVE  Reads(4, One("Control"), One("Control"), [is |-> "Expr", f |-> f])
<1> DEFINE wf == <<F("e", Num("u32"))>>
           rf == <<F("e", Num("u32"))>>
<1>1. Matches(3, wf, rf, f)
  <2>1. Reads(3, Num("u32"), Num("u32"), f["e"])
    BY NumberRead
  <2> QED
    BY <2>1, Matches1
<1> HIDE DEF wf, rf
<1>2. VariantIn(Written["Control"], "Expr") = Variant(0, "Expr", wf)
  BY WControlExpr DEF wf
<1>3. Tagged("Control", 0, "Expr", rf)
  BY RControlExpr DEF rf
<1>4. "Control" \in DOMAIN Readable
  BY ReadableNames
<1> DEFINE n == "Control"
           is == "Expr"
           k == 3
           l == 4
<1>5. k \in Nat /\ l = k + 1 /\ n \in DOMAIN Readable /\ Matches(k, wf, rf, f)
  BY <1>1, <1>4
<1>6. VariantIn(Written[n], is) = Variant(0, is, wf)
  BY <1>2
<1>7. Tagged(n, 0, is, rf)
  BY <1>3
<1> HIDE DEF n, is, k, l
<1>8. Reads(l, One(n), One(n), [is |-> is, f |-> f])
  BY <1>5, <1>6, <1>7, TaggedBack
<1> QED
  BY <1>8 DEF n, is, k, l

\* The control Value is read as it was written, once its fields are.
LEMMA BackControlValue ==
    ASSUME NEW f, f = [n \in {"v"} |-> f[n]],
           Reads(3, One("Value"), One("Value"), f["v"])
    PROVE  Reads(4, One("Control"), One("Control"), [is |-> "Value", f |-> f])
<1> DEFINE wf == <<F("v", One("Value"))>>
           rf == <<F("v", One("Value"))>>
<1>1. Matches(3, wf, rf, f)
  <2> QED
    BY Matches1
<1> HIDE DEF wf, rf
<1>2. VariantIn(Written["Control"], "Value") = Variant(2, "Value", wf)
  BY WControlValue DEF wf
<1>3. Tagged("Control", 2, "Value", rf)
  BY RControlValue DEF rf
<1>4. "Control" \in DOMAIN Readable
  BY ReadableNames
<1> DEFINE n == "Control"
           is == "Value"
           k == 3
           l == 4
<1>5. k \in Nat /\ l = k + 1 /\ n \in DOMAIN Readable /\ Matches(k, wf, rf, f)
  BY <1>1, <1>4
<1>6. VariantIn(Written[n], is) = Variant(2, is, wf)
  BY <1>2
<1>7. Tagged(n, 2, is, rf)
  BY <1>3
<1> HIDE DEF n, is, k, l
<1>8. Reads(l, One(n), One(n), [is |-> is, f |-> f])
  BY <1>5, <1>6, <1>7, TaggedBack
<1> QED
  BY <1>8 DEF n, is, k, l

\* The control Returning is read as it was written, once its fields are.
LEMMA BackControlReturning ==
    ASSUME NEW f, f = [n \in {"v"} |-> f[n]],
           Reads(3, One("Value"), One("Value"), f["v"])
    PROVE  Reads(4, One("Control"), One("Control"), [is |-> "Returning", f |-> f])
<1> DEFINE wf == <<F("v", One("Value"))>>
           rf == <<F("v", One("Value"))>>
<1>1. Matches(3, wf, rf, f)
  <2> QED
    BY Matches1
<1> HIDE DEF wf, rf
<1>2. VariantIn(Written["Control"], "Returning") = Variant(3, "Returning", wf)
  BY WControlReturning DEF wf
<1>3. Tagged("Control", 3, "Returning", rf)
  BY RControlReturning DEF rf
<1>4. "Control" \in DOMAIN Readable
  BY ReadableNames
<1> DEFINE n == "Control"
           is == "Returning"
           k == 3
           l == 4
<1>5. k \in Nat /\ l = k + 1 /\ n \in DOMAIN Readable /\ Matches(k, wf, rf, f)
  BY <1>1, <1>4
<1>6. VariantIn(Written[n], is) = Variant(3, is, wf)
  BY <1>2
<1>7. Tagged(n, 3, is, rf)
  BY <1>3
<1> HIDE DEF n, is, k, l
<1>8. Reads(l, One(n), One(n), [is |-> is, f |-> f])
  BY <1>5, <1>6, <1>7, TaggedBack
<1> QED
  BY <1>8 DEF n, is, k, l

\* The control Halted is read as it was written, once its fields are.
LEMMA BackControlHalted ==
    ASSUME NEW f, f = [n \in {"v"} |-> f[n]],
           Reads(3, One("Value"), One("Value"), f["v"])
    PROVE  Reads(4, One("Control"), One("Control"), [is |-> "Halted", f |-> f])
<1> DEFINE wf == <<F("v", One("Value"))>>
           rf == <<F("v", One("Value"))>>
<1>1. Matches(3, wf, rf, f)
  <2> QED
    BY Matches1
<1> HIDE DEF wf, rf
<1>2. VariantIn(Written["Control"], "Halted") = Variant(4, "Halted", wf)
  BY WControlHalted DEF wf
<1>3. Tagged("Control", 4, "Halted", rf)
  BY RControlHalted DEF rf
<1>4. "Control" \in DOMAIN Readable
  BY ReadableNames
<1> DEFINE n == "Control"
           is == "Halted"
           k == 3
           l == 4
<1>5. k \in Nat /\ l = k + 1 /\ n \in DOMAIN Readable /\ Matches(k, wf, rf, f)
  BY <1>1, <1>4
<1>6. VariantIn(Written[n], is) = Variant(4, is, wf)
  BY <1>2
<1>7. Tagged(n, 4, is, rf)
  BY <1>3
<1> HIDE DEF n, is, k, l
<1>8. Reads(l, One(n), One(n), [is |-> is, f |-> f])
  BY <1>5, <1>6, <1>7, TaggedBack
<1> QED
  BY <1>8 DEF n, is, k, l

\* The control Suspend is read as it was written, once its fields are.
LEMMA BackControlSuspend ==
    ASSUME NEW f, f = [n \in {"effect", "args"} |-> f[n]],
           Reads(3, Many(One("Value")), Many(One("Value")), f["args"])
    PROVE  Reads(4, One("Control"), One("Control"), [is |-> "Suspend", f |-> f])
<1> DEFINE wf == <<F("effect", Num("u32")), F("args", Many(One("Value")))>>
           rf == <<F("effect", Num("u32")), F("args", Many(One("Value")))>>
<1>1. Matches(3, wf, rf, f)
  <2>1. Reads(3, Num("u32"), Num("u32"), f["effect"])
    BY NumberRead
  <2> QED
    BY <2>1, Matches2
<1> HIDE DEF wf, rf
<1>2. VariantIn(Written["Control"], "Suspend") = Variant(5, "Suspend", wf)
  BY WControlSuspend DEF wf
<1>3. Tagged("Control", 5, "Suspend", rf)
  BY RControlSuspend DEF rf
<1>4. "Control" \in DOMAIN Readable
  BY ReadableNames
<1> DEFINE n == "Control"
           is == "Suspend"
           k == 3
           l == 4
<1>5. k \in Nat /\ l = k + 1 /\ n \in DOMAIN Readable /\ Matches(k, wf, rf, f)
  BY <1>1, <1>4
<1>6. VariantIn(Written[n], is) = Variant(5, is, wf)
  BY <1>2
<1>7. Tagged(n, 5, is, rf)
  BY <1>3
<1> HIDE DEF n, is, k, l
<1>8. Reads(l, One(n), One(n), [is |-> is, f |-> f])
  BY <1>5, <1>6, <1>7, TaggedBack
<1> QED
  BY <1>8 DEF n, is, k, l

\* The status Ready is read as it was written, once its fields are.
LEMMA BackFiberStatusReady ==
    ASSUME NEW f, f = <<>>
    PROVE  Reads(3, One("FiberStatus"), One("FiberStatus"), [is |-> "Ready", f |-> f])
<1> DEFINE wf == <<>>
           rf == <<>>
<1>1. Matches(2, wf, rf, f)
  BY Matches0
<1> HIDE DEF wf, rf
<1>2. VariantIn(Written["FiberStatus"], "Ready") = Variant(0, "Ready", wf)
  BY WFiberStatusReady DEF wf
<1>3. Tagged("FiberStatus", 0, "Ready", rf)
  BY RFiberStatusReady DEF rf
<1>4. "FiberStatus" \in DOMAIN Readable
  BY ReadableNames
<1> DEFINE n == "FiberStatus"
           is == "Ready"
           k == 2
           l == 3
<1>5. k \in Nat /\ l = k + 1 /\ n \in DOMAIN Readable /\ Matches(k, wf, rf, f)
  BY <1>1, <1>4
<1>6. VariantIn(Written[n], is) = Variant(0, is, wf)
  BY <1>2
<1>7. Tagged(n, 0, is, rf)
  BY <1>3
<1> HIDE DEF n, is, k, l
<1>8. Reads(l, One(n), One(n), [is |-> is, f |-> f])
  BY <1>5, <1>6, <1>7, TaggedBack
<1> QED
  BY <1>8 DEF n, is, k, l

\* The status Running is read as it was written, once its fields are.
LEMMA BackFiberStatusRunning ==
    ASSUME NEW f, f = <<>>
    PROVE  Reads(3, One("FiberStatus"), One("FiberStatus"), [is |-> "Running", f |-> f])
<1> DEFINE wf == <<>>
           rf == <<>>
<1>1. Matches(2, wf, rf, f)
  BY Matches0
<1> HIDE DEF wf, rf
<1>2. VariantIn(Written["FiberStatus"], "Running") = Variant(1, "Running", wf)
  BY WFiberStatusRunning DEF wf
<1>3. Tagged("FiberStatus", 1, "Running", rf)
  BY RFiberStatusRunning DEF rf
<1>4. "FiberStatus" \in DOMAIN Readable
  BY ReadableNames
<1> DEFINE n == "FiberStatus"
           is == "Running"
           k == 2
           l == 3
<1>5. k \in Nat /\ l = k + 1 /\ n \in DOMAIN Readable /\ Matches(k, wf, rf, f)
  BY <1>1, <1>4
<1>6. VariantIn(Written[n], is) = Variant(1, is, wf)
  BY <1>2
<1>7. Tagged(n, 1, is, rf)
  BY <1>3
<1> HIDE DEF n, is, k, l
<1>8. Reads(l, One(n), One(n), [is |-> is, f |-> f])
  BY <1>5, <1>6, <1>7, TaggedBack
<1> QED
  BY <1>8 DEF n, is, k, l

\* The status Completed is read as it was written, once its fields are.
LEMMA BackFiberStatusCompleted ==
    ASSUME NEW f, f = [n \in {"v"} |-> f[n]],
           Reads(2, One("Value"), One("Value"), f["v"])
    PROVE  Reads(3, One("FiberStatus"), One("FiberStatus"), [is |-> "Completed", f |-> f])
<1> DEFINE wf == <<F("v", One("Value"))>>
           rf == <<F("v", One("Value"))>>
<1>1. Matches(2, wf, rf, f)
  <2> QED
    BY Matches1
<1> HIDE DEF wf, rf
<1>2. VariantIn(Written["FiberStatus"], "Completed") = Variant(3, "Completed", wf)
  BY WFiberStatusCompleted DEF wf
<1>3. Tagged("FiberStatus", 3, "Completed", rf)
  BY RFiberStatusCompleted DEF rf
<1>4. "FiberStatus" \in DOMAIN Readable
  BY ReadableNames
<1> DEFINE n == "FiberStatus"
           is == "Completed"
           k == 2
           l == 3
<1>5. k \in Nat /\ l = k + 1 /\ n \in DOMAIN Readable /\ Matches(k, wf, rf, f)
  BY <1>1, <1>4
<1>6. VariantIn(Written[n], is) = Variant(3, is, wf)
  BY <1>2
<1>7. Tagged(n, 3, is, rf)
  BY <1>3
<1> HIDE DEF n, is, k, l
<1>8. Reads(l, One(n), One(n), [is |-> is, f |-> f])
  BY <1>5, <1>6, <1>7, TaggedBack
<1> QED
  BY <1>8 DEF n, is, k, l

\* A fiber is read as it was written, once its fields are.
LEMMA BackFiberFiber ==
    ASSUME NEW f, f = [n \in {"id", "control", "cont", "env", "status", "meter"} |-> f[n]],
           Reads(4, One("Control"), One("Control"), f["control"]),
           Reads(4, One("FiberStatus"), One("FiberStatus"), f["status"])
    PROVE  Reads(5, One("Fiber"), One("Fiber"), [is |-> "Fiber", f |-> f])
<1> DEFINE wf == <<F("id", Num("u32")), F("control", One("Control")),
                F("cont", Ref("conts")), F("env", Ref("envs")),
                F("status", One("FiberStatus")), F("meter", Num("u32"))>>
           rf == <<F("id", Num("u32")), F("control", One("Control")),
                F("cont", Num("u32")), F("env", Num("u32")),
                F("status", One("FiberStatus")), F("meter", Num("u32"))>>
<1>1. Matches(4, wf, rf, f)
  <2>1. Reads(4, Num("u32"), Num("u32"), f["id"])
    BY NumberRead
  <2>2. Reads(4, Ref("conts"), Num("u32"), f["cont"])
    BY NumberRead
  <2>3. Reads(4, Ref("envs"), Num("u32"), f["env"])
    BY NumberRead
  <2>4. Reads(4, Num("u32"), Num("u32"), f["meter"])
    BY NumberRead
  <2> QED
    BY <2>1, <2>2, <2>3, <2>4, Matches6, SMTT(15), ZenonT(30)
<1> HIDE DEF wf, rf
<1>2. VariantIn(Written["Fiber"], "Fiber") = Variant(Untagged, "Fiber", wf)
  BY WFiberFiber DEF wf
<1>3. Readable["Fiber"] = {Variant(Untagged, "Fiber", rf)}
  BY RFiberFiber DEF rf
<1>4. "Fiber" \in DOMAIN Readable
  BY ReadableNames
<1> DEFINE n == "Fiber"
           is == "Fiber"
           k == 4
           l == 5
<1>5. k \in Nat /\ l = k + 1 /\ n \in DOMAIN Readable /\ Matches(k, wf, rf, f)
  BY <1>1, <1>4
<1>6. VariantIn(Written[n], is) = Variant(Untagged, is, wf)
  BY <1>2
<1>7. Readable[n] = {Variant(Untagged, is, rf)}
  BY <1>3
<1> HIDE DEF n, is, k, l
<1>8. Reads(l, One(n), One(n), [is |-> is, f |-> f])
  BY <1>5, <1>6, <1>7, UntaggedBack
<1> QED
  BY <1>8 DEF n, is, k, l

-----------------------------------------------------------------------------
(* The things of the machine come back.                                    *)

\* Records of one field, as functions.
LEMMA Whole1 == ASSUME NEW a PROVE
    /\ [n |-> a] = [m \in {"n"} |-> [n |-> a][m]]
    /\ [s |-> a] = [m \in {"s"} |-> [s |-> a][m]]
    /\ [o |-> a] = [m \in {"o"} |-> [o |-> a][m]]
    /\ [h |-> a] = [m \in {"h"} |-> [h |-> a][m]]
    /\ [e |-> a] = [m \in {"e"} |-> [e |-> a][m]]
    /\ [v |-> a] = [m \in {"v"} |-> [v |-> a][m]]
  OBVIOUS

\* A value is read as it was written.
LEMMA ValueBack ==
    ASSUME NEW S, NEW v \in ValuesIn(S)
    PROVE  Reads(2, One("Value"), One("Value"), v)
<1>1. CASE v = Undefined
  <2> DEFINE f == <<>>
  <2>1. f = <<>>
    OBVIOUS
  <2>2. v = [is |-> "Undefined", f |-> f]
    BY <1>1 DEF Undefined, Thing
  <2> HIDE DEF f
  <2> QED
    BY <2>1, <2>2, BackValueUndefined
<1>2. ASSUME NEW i, v = IntValue(i) PROVE Reads(2, One("Value"), One("Value"), v)
  <2> DEFINE f == [n |-> i]
  <2>1. f = [m \in {"n"} |-> f[m]]
    BY Whole1
  <2>2. v = [is |-> "Int", f |-> f]
    BY <1>2 DEF IntValue, Thing
  <2> HIDE DEF f
  <2> QED
    BY <2>1, <2>2, BackValueInt
<1>3. ASSUME NEW i, v = Str(i) PROVE Reads(2, One("Value"), One("Value"), v)
  <2> DEFINE f == [s |-> i]
  <2>1. f = [m \in {"s"} |-> f[m]]
    BY Whole1
  <2>2. v = [is |-> "String", f |-> f]
    BY <1>3 DEF Str, Thing
  <2> HIDE DEF f
  <2> QED
    BY <2>1, <2>2, BackValueString
<1>4. ASSUME NEW i, v = Obj(i) PROVE Reads(2, One("Value"), One("Value"), v)
  <2> DEFINE f == [o |-> i]
  <2>1. f = [m \in {"o"} |-> f[m]]
    BY Whole1
  <2>2. v = [is |-> "Object", f |-> f]
    BY <1>4 DEF Obj, Thing
  <2> HIDE DEF f
  <2> QED
    BY <2>1, <2>2, BackValueObject
<1>5. ASSUME NEW i, v = Fun(i) PROVE Reads(2, One("Value"), One("Value"), v)
  <2> DEFINE f == [o |-> i]
  <2>1. f = [m \in {"o"} |-> f[m]]
    BY Whole1
  <2>2. v = [is |-> "Function", f |-> f]
    BY <1>5 DEF Fun, Thing
  <2> HIDE DEF f
  <2> QED
    BY <2>1, <2>2, BackValueFunction
<1>6. ASSUME NEW i, v = Thing("Handler", [h |-> i]) PROVE Reads(2, One("Value"), One("Value"), v)
  <2> DEFINE f == [h |-> i]
  <2>1. f = [m \in {"h"} |-> f[m]]
    BY Whole1
  <2>2. v = [is |-> "Handler", f |-> f]
    BY <1>6 DEF Thing
  <2> HIDE DEF f
  <2> QED
    BY <2>1, <2>2, BackValueHandler
<1>7. ASSUME NEW i, NEW j, v = Thing("Continuation", [k |-> i, env |-> j])
      PROVE  Reads(2, One("Value"), One("Value"), v)
  <2> DEFINE f == [k |-> i, env |-> j]
  <2>1. f = [m \in {"k", "env"} |-> f[m]]
    OBVIOUS
  <2>2. v = [is |-> "Continuation", f |-> f]
    BY <1>7 DEF Thing
  <2> HIDE DEF f
  <2> QED
    BY <2>1, <2>2, BackValueContinuation
<1> DEFINE Back == Reads(2, One("Value"), One("Value"), v)
           i1 == v.f.n
           i2 == v.f.s
           i3 == v.f.o
           i4 == v.f.h
           i5 == v.f.k
           i6 == v.f.env
<1>8. \/ v = Undefined \/ v = IntValue(i1) \/ v = Str(i2) \/ v = Obj(i3) \/ v = Fun(i3)
      \/ v = Thing("Handler", [h |-> i4]) \/ v = Thing("Continuation", [k |-> i5, env |-> i6])
  BY ValueShape
<1> HIDE DEF Back, i1, i2, i3, i4, i5, i6
<1>9. /\ v = Undefined => Back
      /\ v = IntValue(i1) => Back
      /\ v = Str(i2) => Back
      /\ v = Obj(i3) => Back
      /\ v = Fun(i3) => Back
  BY <1>1, <1>2, <1>3, <1>4, <1>5, Zenon DEF Back
<1>10. v = Thing("Handler", [h |-> i4]) => Back
  BY <1>6, Zenon DEF Back
<1>11. v = Thing("Continuation", [k |-> i5, env |-> i6]) => Back
  BY <1>7, Zenon DEF Back
<1> QED
  BY <1>8, <1>9, <1>10, <1>11 DEF Back

\* A binding is read as it was written.
LEMMA BindingBack ==
    ASSUME NEW S, NEW b \in BindingsIn(S)
    PROVE  Reads(3, One("Binding"), One("Binding"), b)
<1>1. PICK v \in ValuesIn(S) : b = Binding(X, v)
  BY DEF BindingsIn
<1> DEFINE f == [key |-> X, value |-> v]
<1>2. f = [m \in {"key", "value"} |-> f[m]] /\ f["value"] = v
  OBVIOUS
<1>3. b = [is |-> "Binding", f |-> f]
  BY <1>1 DEF Binding, Thing
<1> HIDE DEF f
<1>4. Reads(2, One("Value"), One("Value"), f["value"])
  BY <1>2, ValueBack
<1> QED
  BY <1>2, <1>3, <1>4, BackBindingBinding

\* A record back from its fields is the record.
LEMMA OneProperty ==
    ASSUME NEW S, NEW v \in ValuesIn(S), NEW p,
           p = Thing("Property", [key |-> P, value |-> v, writable |-> 1, enumerable |-> 1,
                                  configurable |-> 1])
    PROVE  Reads(3, One("Property"), One("Property"), p)
<1> DEFINE f == [key |-> P, value |-> v, writable |-> 1, enumerable |-> 1, configurable |-> 1]
<1>2. f = [m \in {"key", "value", "writable", "enumerable", "configurable"} |-> f[m]]
          /\ f["value"] = v
  OBVIOUS
<1>3. p = [is |-> "Property", f |-> f]
  BY DEF Thing
<1> HIDE DEF f
<1>4. Reads(2, One("Value"), One("Value"), f["value"])
  BY <1>2, ValueBack
<1> QED
  BY <1>2, <1>3, <1>4, BackPropertyProperty

\* A list of one thing or none.
LEMMA FewBack ==
    ASSUME NEW k \in Nat, NEW T1, NEW T2 \in Leaves(Readable), NEW A,
           \A y \in A : Reads(k, T1, T2, y), NEW x \in UpToOne(A)
    PROVE  /\ Reads(k + 1, Many(T1), Many(T2), x)
           /\ Reads(k + 1, Opt(T1), Opt(T2), x)
<1>1. CASE x = <<>>
  <2>1. Listed(<<>>) /\ Len(<<>>) = 0 /\ 1 .. 0 = {}
    BY SMT DEF Listed
  <2>2. Reads(k + 1, Many(T1), Many(T2), <<>>)
    BY <2>1, ReadsMany
  <2>3. Reads(1, Opt(T1), Opt(T2), <<>>)
    BY ReadsNone
  <2>4. Reads(k + 1, Opt(T1), Opt(T2), <<>>)
    <3>1. 1 \in Nat /\ k + 1 \in Nat /\ 1 <= k + 1
      BY SMT
    <3> QED
      BY <2>3, <3>1, ReadsDeeper
  <2> QED
    BY <1>1, <2>2, <2>4
<1>2. ASSUME NEW y \in A, x = <<y>>
      PROVE  Reads(k + 1, Many(T1), Many(T2), x) /\ Reads(k + 1, Opt(T1), Opt(T2), x)
  <2>1. Listed(<<y>>) /\ Len(<<y>>) = 1 /\ <<y>>[1] = y
    BY ListedOne
  <2>2. \A i \in 1 .. Len(<<y>>) : Reads(k, T1, T2, <<y>>[i])
    <3>1. \A i \in 1 .. 1 : i = 1
      BY SMT
    <3> QED
      BY <2>1, <3>1
  <2>3. Reads(k + 1, Many(T1), Many(T2), <<y>>)
    BY <2>1, <2>2, ReadsMany
  <2>4. Reads(k + 1, Opt(T1), Opt(T2), <<y>>)
    BY ReadsSome
  <2> QED
    BY <1>2, <2>3, <2>4
<1> QED
  BY <1>1, <1>2 DEF UpToOne

\* Nothing, and an id, at any depth.
LEMMA NoneBack ==
    ASSUME NEW k \in Nat, k >= 1, NEW T1, NEW T2 \in Leaves(Readable)
    PROVE  Reads(k, Many(T1), Many(T2), <<>>) /\ Reads(k, Opt(T1), Opt(T2), <<>>)
<1>1. Listed(<<>>) /\ Len(<<>>) = 0 /\ 1 .. 0 = {}
  BY SMT DEF Listed
<1>2. k - 1 \in Nat /\ (k - 1) + 1 = k /\ 1 \in Nat /\ 1 <= k
  BY SMT
<1>3. Reads((k - 1) + 1, Many(T1), Many(T2), <<>>)
  BY <1>1, <1>2, ReadsMany
<1>4. Reads(1, Opt(T1), Opt(T2), <<>>)
  BY ReadsNone
<1>5. Reads(k, Opt(T1), Opt(T2), <<>>)
  BY <1>2, <1>4, ReadsDeeper
<1> QED
  BY <1>2, <1>3, <1>5

\* Types a list or an option is made of.
LEMMA LeavesAre ==
    /\ Num("u32") \in Leaves(Readable) /\ One("Value") \in Leaves(Readable)
    /\ One("Property") \in Leaves(Readable) /\ One("Binding") \in Leaves(Readable)
<1>1. "u32" \in Widths
  BY DEF Widths
<1> QED
  BY <1>1, TypesAre, ReadableNames

\* A list of at most one id is read as it was written.
LEMMA MayBack ==
    ASSUME NEW k \in Nat, k >= 2, NEW A, NEW x \in UpToOne(A), NEW a
    PROVE  /\ Reads(k, Opt(Num("u32")), Opt(Num("u32")), x)
           /\ Reads(k, Opt(Ref(a)), Opt(Num("u32")), x)
<1>1. \A y \in A : Reads(1, Num("u32"), Num("u32"), y) /\ Reads(1, Ref(a), Num("u32"), y)
  <2>1. 1 \in Nat /\ 1 >= 1
    BY SMT
  <2> QED
    BY <2>1, NumberRead
<1> DEFINE j == 1
<1>2. j \in Nat /\ j + 1 \in Nat /\ j + 1 <= k
  BY SMT
<1>3. \A y \in A : Reads(j, Num("u32"), Num("u32"), y)
  BY <1>1
<1>4. \A y \in A : Reads(j, Ref(a), Num("u32"), y)
  BY <1>1
<1> HIDE DEF j
<1>5. Reads(j + 1, Opt(Num("u32")), Opt(Num("u32")), x)
  BY <1>2, <1>3, LeavesAre, FewBack
<1>6. Reads(j + 1, Opt(Ref(a)), Opt(Num("u32")), x)
  BY <1>2, <1>4, LeavesAre, FewBack
<1> QED
  BY <1>2, <1>5, <1>6, ReadsDeeper

\* An object with a property is read as it was written.
LEMMA ObjectWithBack ==
    ASSUME NEW S, NEW v \in ValuesIn(S)
    PROVE  Reads(5, One("Object"), One("Object"), ObjectWith(v))
<1> DEFINE p == Thing("Property", [key |-> P, value |-> v, writable |-> 1, enumerable |-> 1,
                                   configurable |-> 1])
           kind == Thing("Ordinary", <<>>)
           f == [properties |-> <<p>>, prototype |-> <<>>, kind |-> kind]
           j == 3
<1>1. Reads(j, One("Property"), One("Property"), p)
  BY OneProperty
<1>2. j \in Nat /\ j + 1 = 4 /\ 3 <= 4 /\ 3 \in Nat /\ 4 \in Nat /\ 4 >= 1
  BY SMT
<1>3. Reads(3, One("ObjectKind"), One("ObjectKind"), kind)
  <2> DEFINE g == <<>>
  <2>1. g = <<>> /\ kind = [is |-> "Ordinary", f |-> g]
    BY DEF Thing
  <2> HIDE DEF g, kind
  <2> QED
    BY <2>1, BackObjectKindOrdinary
<1>4. ObjectWith(v) = [is |-> "Object", f |-> f]
  BY DEF ObjectWith, Thing
<1> HIDE DEF p, kind, j
<1>5. /\ f = [n \in {"properties", "prototype", "kind"} |-> f[n]]
      /\ f["properties"] = <<p>> /\ f["prototype"] = <<>> /\ f["kind"] = kind
  OBVIOUS
<1> HIDE DEF f
<1>6. Reads(j + 1, Many(One("Property")), Many(One("Property")), <<p>>)
  <2>1. <<p>> \in UpToOne({p}) /\ \A y \in {p} : Reads(j, One("Property"), One("Property"), y)
    BY <1>1 DEF UpToOne
  <2> QED
    BY <1>2, <2>1, LeavesAre, FewBack
<1>7. Reads(4, Many(One("Property")), Many(One("Property")), f["properties"])
  BY <1>2, <1>5, <1>6
<1>8. Reads(4, Opt(Ref("objects")), Opt(Num("u32")), f["prototype"])
  BY <1>2, <1>5, LeavesAre, NoneBack
<1>9. Reads(4, One("ObjectKind"), One("ObjectKind"), f["kind"])
  BY <1>2, <1>3, <1>5, ReadsDeeper
<1> QED
  BY <1>4, <1>5, <1>7, <1>8, <1>9, BackObjectObject

\* A function is read as it was written.
LEMMA ClosureBack ==
    ASSUME NEW e
    PROVE  Reads(5, One("Object"), One("Object"), Closure(e))
<1> DEFINE g == [params_start |-> 0, params_count |-> 1, body |-> 0, expr_body |-> <<0>>,
                 env |-> e, name |-> <<>>]
           kind == Thing("Function", g)
           f == [properties |-> <<>>, prototype |-> <<>>, kind |-> kind]
<1>1. Closure(e) = [is |-> "Object", f |-> f]
  BY DEF Closure, Thing
<1>2. kind = [is |-> "Function", f |-> g]
  BY DEF Thing
<1>3. /\ g = [n \in {"params_start", "params_count", "body", "expr_body", "env", "name"} |-> g[n]]
      /\ g["expr_body"] = <<0>> /\ g["name"] = <<>>
  OBVIOUS
<1> HIDE DEF g
<1>4. 3 <= 4 /\ 3 \in Nat /\ 4 \in Nat /\ 4 >= 1 /\ 2 \in Nat /\ 2 >= 2
  BY SMT
<1>5. <<0>> \in UpToOne({0}) /\ <<>> \in UpToOne({0})
  BY DEF UpToOne
<1>6. Reads(2, Opt(Num("u32")), Opt(Num("u32")), g["expr_body"])
  BY <1>3, <1>4, <1>5, MayBack
<1>7. Reads(2, Opt(Num("u32")), Opt(Num("u32")), g["name"])
  BY <1>3, <1>4, <1>5, MayBack
<1>8. Reads(3, One("ObjectKind"), One("ObjectKind"), kind)
  BY <1>2, <1>3, <1>6, <1>7, BackObjectKindFunction
<1> HIDE DEF kind
<1>9. /\ f = [n \in {"properties", "prototype", "kind"} |-> f[n]]
      /\ f["properties"] = <<>> /\ f["prototype"] = <<>> /\ f["kind"] = kind
  OBVIOUS
<1> HIDE DEF f
<1>10. Reads(4, Many(One("Property")), Many(One("Property")), f["properties"])
  BY <1>4, <1>9, LeavesAre, NoneBack
<1>11. Reads(4, Opt(Ref("objects")), Opt(Num("u32")), f["prototype"])
  BY <1>4, <1>9, LeavesAre, NoneBack
<1>12. Reads(4, One("ObjectKind"), One("ObjectKind"), f["kind"])
  BY <1>4, <1>8, <1>9, ReadsDeeper
<1> QED
  BY <1>1, <1>9, <1>10, <1>11, <1>12, BackObjectObject

\* An object is read as it was written.
LEMMA ObjectBack ==
    ASSUME NEW S, NEW x \in ObjectsIn(S)
    PROVE  Reads(5, One("Object"), One("Object"), x)
  BY ObjectShape, ObjectWithBack, ClosureBack

\* An environment is read as it was written.
LEMMA EnvBack ==
    ASSUME NEW S, NEW x \in EnvsIn(S)
    PROVE  Reads(5, One("Env"), One("Env"), x)
<1> DEFINE b == x.f.bindings
           p == x.f.parent
           f == [bindings |-> b, parent |-> p]
           j == 3
<1>1. b \in UpToOne(BindingsIn(S)) /\ p \in UpToOne(S.envs) /\ x = EnvWith(b, p)
  BY EnvShape
<1> HIDE DEF b, p
<1>2. x = [is |-> "Env", f |-> f]
  BY <1>1 DEF EnvWith, Thing
<1>3. f = [n \in {"bindings", "parent"} |-> f[n]] /\ f["bindings"] = b /\ f["parent"] = p
  OBVIOUS
<1> HIDE DEF f
<1>4. j \in Nat /\ j + 1 = 4 /\ 4 \in Nat /\ 4 >= 2
  BY SMT
<1>5. \A y \in BindingsIn(S) : Reads(j, One("Binding"), One("Binding"), y)
  BY BindingBack
<1> HIDE DEF j
<1>6. Reads(j + 1, Many(One("Binding")), Many(One("Binding")), b)
  BY <1>1, <1>4, <1>5, LeavesAre, FewBack
<1>7. Reads(4, Many(One("Binding")), Many(One("Binding")), f["bindings"])
  BY <1>3, <1>4, <1>6
<1>8. Reads(4, Opt(Ref("envs")), Opt(Num("u32")), f["parent"])
  BY <1>1, <1>3, <1>4, MayBack
<1> QED
  BY <1>2, <1>3, <1>7, <1>8, BackEnvEnv

\* A handler is read as it was written.
LEMMA HandlerBack ==
    ASSUME NEW S, NEW x \in HandlersIn(S)
    PROVE  Reads(2, One("Handler"), One("Handler"), x)
<1> DEFINE f == [clauses_start |-> 0, clauses_count |-> 1, return_param |-> 0, return_body |-> 0,
                 env |-> x.f.env]
<1>1. x = [is |-> "Handler", f |-> f]
  BY HandlerShape DEF Thing
<1>2. f = [n \in {"clauses_start", "clauses_count", "return_param", "return_body", "env"} |-> f[n]]
  OBVIOUS
<1> HIDE DEF f
<1> QED
  BY <1>1, <1>2, BackHandlerHandler

\* A frame is read as it was written.
LEMMA KontBack ==
    ASSUME NEW S, NEW x \in KontsIn(S)
    PROVE  Reads(3, One("Kont"), One("Kont"), x)
<1> DEFINE f == x.f
<1>0. /\ x.is \in {"Halt", "MemberK", "AssignVarK", "CalleeK", "ArgsK", "ReturnK", "ReturnExprK",
                   "ObjectK", "HandlerK", "PerformArgsK", "HandleWithK"}
      /\ f \in FrameFields(S)[x.is]
      /\ x = [is |-> x.is, f |-> f]
  BY KontShape DEF Thing
<1> HIDE DEF f
<1>a. 2 \in Nat /\ 2 >= 1
  BY SMT
<1>1. CASE x.is = "Halt"
  <2>1. x = [is |-> "Halt", f |-> f] /\ f \in FrameFields(S)["Halt"]
    BY <1>0, <1>1
  <2>2. f = <<>>
    BY <2>1 DEF FrameFields
  <2> QED
    BY <2>1, <2>2, BackKontHalt
<1>2. CASE x.is = "MemberK"
  <2>1. x = [is |-> "MemberK", f |-> f] /\ f \in FrameFields(S)["MemberK"]
    BY <1>0, <1>2
  <2>2. f = [n \in {"property", "k"} |-> f[n]]
    BY <2>1 DEF FrameFields
  <2> QED
    BY <2>1, <2>2, BackKontMemberK
<1>3. CASE x.is = "AssignVarK"
  <2>1. x = [is |-> "AssignVarK", f |-> f] /\ f \in FrameFields(S)["AssignVarK"]
    BY <1>0, <1>3
  <2>2. f = [n \in {"name", "env", "k"} |-> f[n]]
    BY <2>1 DEF FrameFields
  <2> QED
    BY <2>1, <2>2, BackKontAssignVarK
<1>4. CASE x.is = "CalleeK"
  <2>1. x = [is |-> "CalleeK", f |-> f] /\ f \in FrameFields(S)["CalleeK"]
    BY <1>0, <1>4
  <2>2. f = [n \in {"args_start", "args_count", "env", "k"} |-> f[n]]
    BY <2>1 DEF FrameFields
  <2> QED
    BY <2>1, <2>2, BackKontCalleeK
<1>5. CASE x.is = "ArgsK"
  <2>1. x = [is |-> "ArgsK", f |-> f] /\ f \in FrameFields(S)["ArgsK"]
    BY <1>0, <1>5
  <2>2. f = [n \in {"callee", "done", "args_start", "args_idx", "args_count", "env", "k"} |-> f[n]]
    BY <2>1 DEF FrameFields
  <2>3. f["done"] = <<>>
    BY <2>1 DEF FrameFields
  <2>4. Reads(2, Many(One("Value")), Many(One("Value")), f["done"])
    BY <1>a, <2>3, LeavesAre, NoneBack
  <2>5. f["callee"] \in ValuesIn(S)
    BY <2>1 DEF FrameFields
  <2>6. Reads(2, One("Value"), One("Value"), f["callee"])
    BY <2>5, ValueBack
  <2> QED
    BY <2>1, <2>2, <2>4, <2>6, BackKontArgsK
<1>6. CASE x.is = "ReturnK"
  <2>1. x = [is |-> "ReturnK", f |-> f] /\ f \in FrameFields(S)["ReturnK"]
    BY <1>0, <1>6
  <2>2. f = [n \in {"env", "k"} |-> f[n]]
    BY <2>1 DEF FrameFields
  <2> QED
    BY <2>1, <2>2, BackKontReturnK
<1>7. CASE x.is = "ReturnExprK"
  <2>1. x = [is |-> "ReturnExprK", f |-> f] /\ f \in FrameFields(S)["ReturnExprK"]
    BY <1>0, <1>7
  <2>2. f = [n \in {"k"} |-> f[n]]
    BY <2>1 DEF FrameFields
  <2> QED
    BY <2>1, <2>2, BackKontReturnExprK
<1>8. CASE x.is = "ObjectK"
  <2>1. x = [is |-> "ObjectK", f |-> f] /\ f \in FrameFields(S)["ObjectK"]
    BY <1>0, <1>8
  <2>2. f = [n \in {"done", "props_start", "props_idx", "props_count", "env", "k"} |-> f[n]]
    BY <2>1 DEF FrameFields
  <2>3. f["done"] = <<>>
    BY <2>1 DEF FrameFields
  <2>4. Reads(2, Many(One("Binding")), Many(One("Binding")), f["done"])
    BY <1>a, <2>3, LeavesAre, NoneBack
  <2> QED
    BY <2>1, <2>2, <2>4, BackKontObjectK
<1>9. CASE x.is = "HandlerK"
  <2>1. x = [is |-> "HandlerK", f |-> f] /\ f \in FrameFields(S)["HandlerK"]
    BY <1>0, <1>9
  <2>2. f = [n \in {"clauses_start", "clauses_count", "env", "return_body", "return_param",
                    "k"} |-> f[n]]
    BY <2>1 DEF FrameFields
  <2> QED
    BY <2>1, <2>2, BackKontHandlerK
<1>10. CASE x.is = "PerformArgsK"
  <2>1. x = [is |-> "PerformArgsK", f |-> f] /\ f \in FrameFields(S)["PerformArgsK"]
    BY <1>0, <1>10
  <2>2. f = [n \in {"effect", "done", "args_start", "args_idx", "args_count", "env", "k"} |-> f[n]]
    BY <2>1 DEF FrameFields
  <2>3. f["done"] = <<>>
    BY <2>1 DEF FrameFields
  <2>4. Reads(2, Many(One("Value")), Many(One("Value")), f["done"])
    BY <1>a, <2>3, LeavesAre, NoneBack
  <2> QED
    BY <2>1, <2>2, <2>4, BackKontPerformArgsK
<1>11. CASE x.is = "HandleWithK"
  <2>1. x = [is |-> "HandleWithK", f |-> f] /\ f \in FrameFields(S)["HandleWithK"]
    BY <1>0, <1>11
  <2>2. f = [n \in {"body", "env", "k"} |-> f[n]]
    BY <2>1 DEF FrameFields
  <2> QED
    BY <2>1, <2>2, BackKontHandleWithK
<1> QED
  BY <1>0, <1>1, <1>2, <1>3, <1>4, <1>5, <1>6, <1>7, <1>8, <1>9, <1>10, <1>11

\* The control register is read as it was written.
LEMMA ControlBack ==
    ASSUME NEW S, NEW c \in ControlsIn(S)
    PROVE  Reads(4, One("Control"), One("Control"), c)
<1>1. CASE c = SomeExpr
  <2> DEFINE f == [e |-> 0]
  <2>1. f = [m \in {"e"} |-> f[m]] /\ c = [is |-> "Expr", f |-> f]
    BY <1>1, Whole1 DEF SomeExpr, Thing
  <2> HIDE DEF f
  <2> QED
    BY <2>1, BackControlExpr
<1>2. CASE c.is \in {"Value", "Returning", "Halted"} /\ c.f.v \in ValuesIn(S)
               /\ c = Thing(c.is, [v |-> c.f.v])
  <2> DEFINE v == c.f.v
             f == [v |-> v]
  <2>1. v \in ValuesIn(S) /\ c = [is |-> c.is, f |-> f]
    BY <1>2 DEF Thing
  <2> HIDE DEF v
  <2>2. f = [m \in {"v"} |-> f[m]] /\ f["v"] = v
    OBVIOUS
  <2> HIDE DEF f
  <2>3. Reads(2, One("Value"), One("Value"), f["v"])
    BY <2>1, <2>2, ValueBack
  <2>4. 2 \in Nat /\ 3 \in Nat /\ 2 <= 3
    BY SMT
  <2>5. Reads(3, One("Value"), One("Value"), f["v"])
    BY <2>3, <2>4, ReadsDeeper
  <2> QED
    BY <1>2, <2>1, <2>2, <2>5, BackControlValue, BackControlReturning, BackControlHalted
<1>3. CASE /\ c.is = "Suspend" /\ c.f.effect \in Nat /\ c.f.args \in UpToOne(ValuesIn(S))
           /\ c = Thing("Suspend", [effect |-> c.f.effect, args |-> c.f.args])
  <2> DEFINE a == c.f.args
             f == [effect |-> c.f.effect, args |-> a]
             j == 2
  <2>1. a \in UpToOne(ValuesIn(S)) /\ c = [is |-> "Suspend", f |-> f]
    BY <1>3 DEF Thing
  <2> HIDE DEF a
  <2>2. f = [m \in {"effect", "args"} |-> f[m]] /\ f["args"] = a
    OBVIOUS
  <2> HIDE DEF f
  <2>3. \A y \in ValuesIn(S) : Reads(j, One("Value"), One("Value"), y)
    BY ValueBack
  <2>4. j \in Nat /\ j + 1 = 3
    BY SMT
  <2> HIDE DEF j
  <2>5. Reads(j + 1, Many(One("Value")), Many(One("Value")), a)
    BY <2>1, <2>3, <2>4, LeavesAre, FewBack
  <2>6. Reads(3, Many(One("Value")), Many(One("Value")), f["args"])
    BY <2>2, <2>4, <2>5
  <2> QED
    BY <2>1, <2>2, <2>6, BackControlSuspend
<1> QED
  BY <1>1, <1>2, <1>3, ControlShape

\* A status is read as it was written.
LEMMA StatusBack ==
    ASSUME NEW S, NEW s \in StatusesIn(S)
    PROVE  Reads(3, One("FiberStatus"), One("FiberStatus"), s)
<1>1. CASE s = Ready \/ s = Running
  <2> DEFINE f == <<>>
  <2>1. f = <<>> /\ (s = [is |-> "Ready", f |-> f] \/ s = [is |-> "Running", f |-> f])
    BY <1>1 DEF Ready, Running, Thing
  <2> HIDE DEF f
  <2> QED
    BY <2>1, BackFiberStatusReady, BackFiberStatusRunning
<1>2. CASE s.is = "Completed" /\ s.f.v \in ValuesIn(S) /\ s = Completed(s.f.v)
  <2> DEFINE v == s.f.v
             f == [v |-> v]
  <2>1. v \in ValuesIn(S) /\ s = [is |-> "Completed", f |-> f]
    BY <1>2 DEF Completed, Thing
  <2> HIDE DEF v
  <2>2. f = [m \in {"v"} |-> f[m]] /\ f["v"] = v
    OBVIOUS
  <2> HIDE DEF f
  <2>3. Reads(2, One("Value"), One("Value"), f["v"])
    BY <2>1, <2>2, ValueBack
  <2> QED
    BY <2>1, <2>2, <2>3, BackFiberStatusCompleted
<1> QED
  BY <1>1, <1>2, StatusShape

\* A fiber is read as it was written.
LEMMA FiberBack ==
    ASSUME NEW S, NEW x \in FibersIn(S)
    PROVE  Reads(5, One("Fiber"), One("Fiber"), x)
<1> DEFINE c == x.f.control
           s == x.f.status
           f == [id |-> x.f.id, control |-> c, cont |-> x.f.cont, env |-> x.f.env, status |-> s,
                 meter |-> 0]
<1>1. c \in ControlsIn(S) /\ s \in StatusesIn(S)
  BY FiberShape
<1>2. x = [is |-> "Fiber", f |-> f]
  BY FiberShape DEF Fiber, Thing
<1> HIDE DEF c, s
<1>3. /\ f = [n \in {"id", "control", "cont", "env", "status", "meter"} |-> f[n]]
      /\ f["control"] = c /\ f["status"] = s
  OBVIOUS
<1> HIDE DEF f
<1>4. Reads(4, One("Control"), One("Control"), f["control"])
  BY <1>1, <1>3, ControlBack
<1>5. Reads(3, One("FiberStatus"), One("FiberStatus"), f["status"])
  BY <1>1, <1>3, StatusBack
<1>6. 3 \in Nat /\ 4 \in Nat /\ 3 <= 4
  BY SMT
<1>7. Reads(4, One("FiberStatus"), One("FiberStatus"), f["status"])
  BY <1>5, <1>6, ReadsDeeper
<1> QED
  BY <1>2, <1>3, <1>4, <1>7, BackFiberFiber

\* What is written of the arena of objects is read as it was, once its parts are.
LEMMA BackObjects ==
    ASSUME NEW f, f = [n \in {"slots", "free_list", "allocations"} |-> f[n]],
           Reads(6, Many(One("Object")), Many(One("Object")), f["slots"]),
           Reads(6, Many(Num("u32")), Many(Num("u32")), f["free_list"])
    PROVE  Reads(7, One("Objects"), One("Objects"), [is |-> "Arena", f |-> f])
<1> DEFINE wf == <<F("slots", Many(One("Object"))),
                F("free_list", Many(Num("u32"))), F("allocations", Num("u64"))>>
           rf == <<F("slots", Many(One("Object"))),
                F("free_list", Many(Num("u32"))), F("allocations", Num("u64"))>>
<1>1. Matches(6, wf, rf, f)
  <2>1. Reads(6, Num("u64"), Num("u64"), f["allocations"])
    BY NumberRead
  <2> QED
    BY <2>1, Matches3
<1> HIDE DEF wf, rf
<1>2. VariantIn(Written["Objects"], "Arena") = Variant(Untagged, "Arena", wf)
  BY WObjects DEF wf
<1>3. Readable["Objects"] = {Variant(Untagged, "Arena", rf)}
  BY RObjects DEF rf
<1>4. "Objects" \in DOMAIN Readable
  BY ReadableNames
<1> DEFINE n == "Objects"
           is == "Arena"
           k == 6
           l == 7
<1>5. k \in Nat /\ l = k + 1 /\ n \in DOMAIN Readable /\ Matches(k, wf, rf, f)
  BY <1>1, <1>4
<1>6. VariantIn(Written[n], is) = Variant(Untagged, is, wf)
  BY <1>2
<1>7. Readable[n] = {Variant(Untagged, is, rf)}
  BY <1>3
<1> HIDE DEF n, is, k, l
<1>8. Reads(l, One(n), One(n), [is |-> is, f |-> f])
  BY <1>5, <1>6, <1>7, UntaggedBack
<1> QED
  BY <1>8 DEF n, is, k, l

\* What is written of the arena of environments is read as it was, once its parts
\* are.
LEMMA BackEnvs ==
    ASSUME NEW f, f = [n \in {"slots", "free_list", "allocations"} |-> f[n]],
           Reads(6, Many(One("Env")), Many(One("Env")), f["slots"]),
           Reads(6, Many(Num("u32")), Many(Num("u32")), f["free_list"])
    PROVE  Reads(7, One("Envs"), One("Envs"), [is |-> "Arena", f |-> f])
<1> DEFINE wf == <<F("slots", Many(One("Env"))), F("free_list", Many(Num("u32"))),
                F("allocations", Num("u64"))>>
           rf == <<F("slots", Many(One("Env"))), F("free_list", Many(Num("u32"))),
                F("allocations", Num("u64"))>>
<1>1. Matches(6, wf, rf, f)
  <2>1. Reads(6, Num("u64"), Num("u64"), f["allocations"])
    BY NumberRead
  <2> QED
    BY <2>1, Matches3
<1> HIDE DEF wf, rf
<1>2. VariantIn(Written["Envs"], "Arena") = Variant(Untagged, "Arena", wf)
  BY WEnvs DEF wf
<1>3. Readable["Envs"] = {Variant(Untagged, "Arena", rf)}
  BY REnvs DEF rf
<1>4. "Envs" \in DOMAIN Readable
  BY ReadableNames
<1> DEFINE n == "Envs"
           is == "Arena"
           k == 6
           l == 7
<1>5. k \in Nat /\ l = k + 1 /\ n \in DOMAIN Readable /\ Matches(k, wf, rf, f)
  BY <1>1, <1>4
<1>6. VariantIn(Written[n], is) = Variant(Untagged, is, wf)
  BY <1>2
<1>7. Readable[n] = {Variant(Untagged, is, rf)}
  BY <1>3
<1> HIDE DEF n, is, k, l
<1>8. Reads(l, One(n), One(n), [is |-> is, f |-> f])
  BY <1>5, <1>6, <1>7, UntaggedBack
<1> QED
  BY <1>8 DEF n, is, k, l

\* What is written of the arena of frames is read as it was, once its parts are.
LEMMA BackConts ==
    ASSUME NEW f, f = [n \in {"slots", "free_list", "allocations"} |-> f[n]],
           Reads(6, Many(One("Kont")), Many(One("Kont")), f["slots"]),
           Reads(6, Many(Num("u32")), Many(Num("u32")), f["free_list"])
    PROVE  Reads(7, One("Conts"), One("Conts"), [is |-> "Arena", f |-> f])
<1> DEFINE wf == <<F("slots", Many(One("Kont"))),
                F("free_list", Many(Num("u32"))), F("allocations", Num("u64"))>>
           rf == <<F("slots", Many(One("Kont"))),
                F("free_list", Many(Num("u32"))), F("allocations", Num("u64"))>>
<1>1. Matches(6, wf, rf, f)
  <2>1. Reads(6, Num("u64"), Num("u64"), f["allocations"])
    BY NumberRead
  <2> QED
    BY <2>1, Matches3
<1> HIDE DEF wf, rf
<1>2. VariantIn(Written["Conts"], "Arena") = Variant(Untagged, "Arena", wf)
  BY WConts DEF wf
<1>3. Readable["Conts"] = {Variant(Untagged, "Arena", rf)}
  BY RConts DEF rf
<1>4. "Conts" \in DOMAIN Readable
  BY ReadableNames
<1> DEFINE n == "Conts"
           is == "Arena"
           k == 6
           l == 7
<1>5. k \in Nat /\ l = k + 1 /\ n \in DOMAIN Readable /\ Matches(k, wf, rf, f)
  BY <1>1, <1>4
<1>6. VariantIn(Written[n], is) = Variant(Untagged, is, wf)
  BY <1>2
<1>7. Readable[n] = {Variant(Untagged, is, rf)}
  BY <1>3
<1> HIDE DEF n, is, k, l
<1>8. Reads(l, One(n), One(n), [is |-> is, f |-> f])
  BY <1>5, <1>6, <1>7, UntaggedBack
<1> QED
  BY <1>8 DEF n, is, k, l

\* What is written of the arena of handlers is read as it was, once its parts are.
LEMMA BackHandlers ==
    ASSUME NEW f, f = [n \in {"slots", "free_list", "allocations"} |-> f[n]],
           Reads(6, Many(One("Handler")), Many(One("Handler")), f["slots"]),
           Reads(6, Many(Num("u32")), Many(Num("u32")), f["free_list"])
    PROVE  Reads(7, One("Handlers"), One("Handlers"), [is |-> "Arena", f |-> f])
<1> DEFINE wf == <<F("slots", Many(One("Handler"))),
                F("free_list", Many(Num("u32"))), F("allocations", Num("u64"))>>
           rf == <<F("slots", Many(One("Handler"))),
                F("free_list", Many(Num("u32"))), F("allocations", Num("u64"))>>
<1>1. Matches(6, wf, rf, f)
  <2>1. Reads(6, Num("u64"), Num("u64"), f["allocations"])
    BY NumberRead
  <2> QED
    BY <2>1, Matches3
<1> HIDE DEF wf, rf
<1>2. VariantIn(Written["Handlers"], "Arena") = Variant(Untagged, "Arena", wf)
  BY WHandlers DEF wf
<1>3. Readable["Handlers"] = {Variant(Untagged, "Arena", rf)}
  BY RHandlers DEF rf
<1>4. "Handlers" \in DOMAIN Readable
  BY ReadableNames
<1> DEFINE n == "Handlers"
           is == "Arena"
           k == 6
           l == 7
<1>5. k \in Nat /\ l = k + 1 /\ n \in DOMAIN Readable /\ Matches(k, wf, rf, f)
  BY <1>1, <1>4
<1>6. VariantIn(Written[n], is) = Variant(Untagged, is, wf)
  BY <1>2
<1>7. Readable[n] = {Variant(Untagged, is, rf)}
  BY <1>3
<1> HIDE DEF n, is, k, l
<1>8. Reads(l, One(n), One(n), [is |-> is, f |-> f])
  BY <1>5, <1>6, <1>7, UntaggedBack
<1> QED
  BY <1>8 DEF n, is, k, l

\* What is written of those who wait for a fiber is read as it was, once its parts
\* are.
LEMMA BackWaiters ==
    ASSUME NEW f, f = [n \in {"fiber", "waiters"} |-> f[n]],
           Reads(2, Many(Num("u32")), Many(Num("u32")), f["waiters"])
    PROVE  Reads(3, One("Waiters"), One("Waiters"), [is |-> "Waiters", f |-> f])
<1> DEFINE wf == <<F("fiber", Num("u32")), F("waiters", Many(Num("u32")))>>
           rf == <<F("fiber", Num("u32")), F("waiters", Many(Num("u32")))>>
<1>1. Matches(2, wf, rf, f)
  <2>1. Reads(2, Num("u32"), Num("u32"), f["fiber"])
    BY NumberRead
  <2> QED
    BY <2>1, Matches2
<1> HIDE DEF wf, rf
<1>2. VariantIn(Written["Waiters"], "Waiters") = Variant(Untagged, "Waiters", wf)
  BY WWaiters DEF wf
<1>3. Readable["Waiters"] = {Variant(Untagged, "Waiters", rf)}
  BY RWaiters DEF rf
<1>4. "Waiters" \in DOMAIN Readable
  BY ReadableNames
<1> DEFINE n == "Waiters"
           is == "Waiters"
           k == 2
           l == 3
<1>5. k \in Nat /\ l = k + 1 /\ n \in DOMAIN Readable /\ Matches(k, wf, rf, f)
  BY <1>1, <1>4
<1>6. VariantIn(Written[n], is) = Variant(Untagged, is, wf)
  BY <1>2
<1>7. Readable[n] = {Variant(Untagged, is, rf)}
  BY <1>3
<1> HIDE DEF n, is, k, l
<1>8. Reads(l, One(n), One(n), [is |-> is, f |-> f])
  BY <1>5, <1>6, <1>7, UntaggedBack
<1> QED
  BY <1>8 DEF n, is, k, l

\* What is written of a meter is read as it was, once its parts are.
LEMMA BackMeter ==
    ASSUME NEW f, f = [n \in {"remaining", "parent"} |-> f[n]],
           Reads(2, Opt(Num("u64")), Opt(Num("u64")), f["remaining"]),
           Reads(2, Opt(Num("u32")), Opt(Num("u32")), f["parent"])
    PROVE  Reads(3, One("Meter"), One("Meter"), [is |-> "Meter", f |-> f])
<1> DEFINE wf == <<F("remaining", Opt(Num("u64"))), F("parent", Opt(Num("u32")))>>
           rf == <<F("remaining", Opt(Num("u64"))), F("parent", Opt(Num("u32")))>>
<1>1. Matches(2, wf, rf, f)
  <2> QED
    BY Matches2
<1> HIDE DEF wf, rf
<1>2. VariantIn(Written["Meter"], "Meter") = Variant(Untagged, "Meter", wf)
  BY WMeter DEF wf
<1>3. Readable["Meter"] = {Variant(Untagged, "Meter", rf)}
  BY RMeter DEF rf
<1>4. "Meter" \in DOMAIN Readable
  BY ReadableNames
<1> DEFINE n == "Meter"
           is == "Meter"
           k == 2
           l == 3
<1>5. k \in Nat /\ l = k + 1 /\ n \in DOMAIN Readable /\ Matches(k, wf, rf, f)
  BY <1>1, <1>4
<1>6. VariantIn(Written[n], is) = Variant(Untagged, is, wf)
  BY <1>2
<1>7. Readable[n] = {Variant(Untagged, is, rf)}
  BY <1>3
<1> HIDE DEF n, is, k, l
<1>8. Reads(l, One(n), One(n), [is |-> is, f |-> f])
  BY <1>5, <1>6, <1>7, UntaggedBack
<1> QED
  BY <1>8 DEF n, is, k, l

\* What is written of the program is read as it was, once its parts are.
LEMMA BackAst ==
    ASSUME NEW f, f = [n \in {"exprs", "stmts", "patterns", "expr_lists", "stmt_lists",
                              "param_lists",
                "prop_lists", "pattern_lists", "pattern_fields", "arms", "effect_clauses",
                "floats", "root_start", "root_count"} |-> f[n]],
           Reads(2, Many(One("Expr")), Many(One("Expr")), f["exprs"]),
           Reads(2, Many(One("Stmt")), Many(One("Stmt")), f["stmts"]),
           Reads(2, Many(One("Pattern")), Many(One("Pattern")), f["patterns"]),
           Reads(2, Many(Num("u32")), Many(Num("u32")), f["expr_lists"]),
           Reads(2, Many(Num("u32")), Many(Num("u32")), f["stmt_lists"]),
           Reads(2, Many(Num("u32")), Many(Num("u32")), f["param_lists"]),
           Reads(2, Many(One("PropEntry")), Many(One("PropEntry")), f["prop_lists"]),
           Reads(2, Many(Num("u32")), Many(Num("u32")), f["pattern_lists"]),
           Reads(2, Many(One("PatternField")), Many(One("PatternField")), f["pattern_fields"]),
           Reads(2, Many(One("MatchArm")), Many(One("MatchArm")), f["arms"]),
           Reads(2, Many(One("EffectClause")), Many(One("EffectClause")), f["effect_clauses"]),
           Reads(2, Many(Num("f64")), Many(Num("f64")), f["floats"])
    PROVE  Reads(3, One("Ast"), One("Ast"), [is |-> "Ast", f |-> f])
<1> DEFINE wf == <<F("exprs", Many(One("Expr"))), F("stmts", Many(One("Stmt"))),
                F("patterns", Many(One("Pattern"))),
                F("expr_lists", Many(Num("u32"))),
                F("stmt_lists", Many(Num("u32"))),
                F("param_lists", Many(Num("u32"))),
                F("prop_lists", Many(One("PropEntry"))),
                F("pattern_lists", Many(Num("u32"))),
                F("pattern_fields", Many(One("PatternField"))),
                F("arms", Many(One("MatchArm"))),
                F("effect_clauses", Many(One("EffectClause"))),
                F("floats", Many(Num("f64"))), F("root_start", Num("u32")),
                F("root_count", Num("u32"))>>
           rf == <<F("exprs", Many(One("Expr"))), F("stmts", Many(One("Stmt"))),
                F("patterns", Many(One("Pattern"))),
                F("expr_lists", Many(Num("u32"))),
                F("stmt_lists", Many(Num("u32"))),
                F("param_lists", Many(Num("u32"))),
                F("prop_lists", Many(One("PropEntry"))),
                F("pattern_lists", Many(Num("u32"))),
                F("pattern_fields", Many(One("PatternField"))),
                F("arms", Many(One("MatchArm"))),
                F("effect_clauses", Many(One("EffectClause"))),
                F("floats", Many(Num("f64"))), F("root_start", Num("u32")),
                F("root_count", Num("u32"))>>
<1>1. Matches(2, wf, rf, f)
  <2>100. 2 \in Nat /\ 2 >= 1
    BY SMT
  <2>113. Reads(2, Num("u32"), Num("u32"), f["root_start"])
    BY <2>100, NumberRead, Zenon
  <2>114. Reads(2, Num("u32"), Num("u32"), f["root_count"])
    BY <2>100, NumberRead, Zenon
  <2>1. Len(wf) = 14 /\ Len(rf) = 14 /\ DOMAIN rf = 1 .. 14
    BY SMT
  <2>2. Listed(wf)
    <3> DEFINE A == {F("exprs", Many(One("Expr"))), F("stmts", Many(One("Stmt"))),
                     F("patterns", Many(One("Pattern"))), F("expr_lists", Many(Num("u32"))),
                     F("stmt_lists", Many(Num("u32"))), F("param_lists", Many(Num("u32"))),
                  F("prop_lists", Many(One("PropEntry"))), F("pattern_lists", Many(Num("u32"))),
                  F("pattern_fields", Many(One("PatternField"))),
                  F("arms", Many(One("MatchArm"))), F("effect_clauses",
                                                      Many(One("EffectClause"))),
                                                      F("floats", Many(Num("f64"))),
                  F("root_start", Num("u32")), F("root_count", Num("u32"))}
    <3>1. wf \in Seq(A)
      BY SMT
    <3> QED
      BY <3>1 DEF Listed
  <2>3. Listed(rf)
    <3> DEFINE A == {F("exprs", Many(One("Expr"))), F("stmts", Many(One("Stmt"))),
                     F("patterns", Many(One("Pattern"))), F("expr_lists", Many(Num("u32"))),
                     F("stmt_lists", Many(Num("u32"))), F("param_lists", Many(Num("u32"))),
                  F("prop_lists", Many(One("PropEntry"))), F("pattern_lists", Many(Num("u32"))),
                  F("pattern_fields", Many(One("PatternField"))),
                  F("arms", Many(One("MatchArm"))), F("effect_clauses",
                                                      Many(One("EffectClause"))),
                                                      F("floats", Many(Num("f64"))),
                  F("root_start", Num("u32")), F("root_count", Num("u32"))}
    <3>1. rf \in Seq(A)
      BY SMT
    <3> QED
      BY <3>1 DEF Listed
  <2>4. wf[1].name = "exprs" /\ wf[1].type = Many(One("Expr")) /\ rf[1].name = "exprs"
            /\ rf[1].type = Many(One("Expr"))
    BY DEF F
  <2>5. wf[2].name = "stmts" /\ wf[2].type = Many(One("Stmt")) /\ rf[2].name = "stmts"
            /\ rf[2].type = Many(One("Stmt"))
    BY DEF F
  <2>6. wf[3].name = "patterns" /\ wf[3].type = Many(One("Pattern")) /\ rf[3].name = "patterns"
            /\ rf[3].type = Many(One("Pattern"))
    BY DEF F
  <2>7. wf[4].name = "expr_lists" /\ wf[4].type = Many(Num("u32")) /\ rf[4].name = "expr_lists"
            /\ rf[4].type = Many(Num("u32"))
    BY DEF F
  <2>8. wf[5].name = "stmt_lists" /\ wf[5].type = Many(Num("u32")) /\ rf[5].name = "stmt_lists"
            /\ rf[5].type = Many(Num("u32"))
    BY DEF F
  <2>9. wf[6].name = "param_lists" /\ wf[6].type = Many(Num("u32"))
            /\ rf[6].name = "param_lists" /\ rf[6].type = Many(Num("u32"))
    BY DEF F
  <2>10. wf[7].name = "prop_lists" /\ wf[7].type = Many(One("PropEntry"))
             /\ rf[7].name = "prop_lists" /\ rf[7].type = Many(One("PropEntry"))
    BY DEF F
  <2>11. wf[8].name = "pattern_lists" /\ wf[8].type = Many(Num("u32"))
             /\ rf[8].name = "pattern_lists" /\ rf[8].type = Many(Num("u32"))
    BY DEF F
  <2>12. wf[9].name = "pattern_fields" /\ wf[9].type = Many(One("PatternField"))
             /\ rf[9].name = "pattern_fields" /\ rf[9].type = Many(One("PatternField"))
    BY DEF F
  <2>13. wf[10].name = "arms" /\ wf[10].type = Many(One("MatchArm")) /\ rf[10].name = "arms"
             /\ rf[10].type = Many(One("MatchArm"))
    BY DEF F
  <2>14. wf[11].name = "effect_clauses" /\ wf[11].type = Many(One("EffectClause"))
             /\ rf[11].name = "effect_clauses" /\ rf[11].type = Many(One("EffectClause"))
    BY DEF F
  <2>15. wf[12].name = "floats" /\ wf[12].type = Many(Num("f64")) /\ rf[12].name = "floats"
             /\ rf[12].type = Many(Num("f64"))
    BY DEF F
  <2>16. wf[13].name = "root_start" /\ wf[13].type = Num("u32") /\ rf[13].name = "root_start"
             /\ rf[13].type = Num("u32")
    BY DEF F
  <2>17. wf[14].name = "root_count" /\ wf[14].type = Num("u32") /\ rf[14].name = "root_count"
             /\ rf[14].type = Num("u32")
    BY DEF F
  <2> HIDE DEF wf, rf
  <2>18. \A i \in 1 .. 14 : i = 1 \/ i = 2 \/ i = 3 \/ i = 4 \/ i = 5 \/ i = 6 \/ i = 7 \/ i = 8
             \/ i = 9 \/ i = 10 \/ i = 11 \/
          i = 12 \/ i = 13 \/ i = 14
    BY SMT
  <2>19. Names(rf) = {"exprs", "stmts", "patterns", "expr_lists", "stmt_lists", "param_lists",
                      "prop_lists", "pattern_lists", "pattern_fields", "arms", "effect_clauses",
                      "floats", "root_start", "root_count"}
    <3>1. Names(rf) = {rf[i].name : i \in 1 .. 14}
      BY <2>1 DEF Names
    <3>2. 1 \in 1 .. 14 /\ 2 \in 1 .. 14 /\ 3 \in 1 .. 14 /\ 4 \in 1 .. 14 /\ 5 \in 1 .. 14 /\
          6 \in 1 .. 14 /\ 7 \in 1 .. 14 /\ 8 \in 1 .. 14 /\ 9 \in 1 .. 14 /\ 10 \in 1 .. 14 /\
          11 \in 1 .. 14 /\ 12 \in 1 .. 14 /\ 13 \in 1 .. 14 /\ 14 \in 1 .. 14
      BY SMT
    <3>3. "exprs" \in Names(rf)
      BY <3>1, <3>2, <2>4, Zenon
    <3>4. "stmts" \in Names(rf)
      BY <3>1, <3>2, <2>5, Zenon
    <3>5. "patterns" \in Names(rf)
      BY <3>1, <3>2, <2>6, Zenon
    <3>6. "expr_lists" \in Names(rf)
      BY <3>1, <3>2, <2>7, Zenon
    <3>7. "stmt_lists" \in Names(rf)
      BY <3>1, <3>2, <2>8, Zenon
    <3>8. "param_lists" \in Names(rf)
      BY <3>1, <3>2, <2>9, Zenon
    <3>9. "prop_lists" \in Names(rf)
      BY <3>1, <3>2, <2>10, Zenon
    <3>10. "pattern_lists" \in Names(rf)
      BY <3>1, <3>2, <2>11, Zenon
    <3>11. "pattern_fields" \in Names(rf)
      BY <3>1, <3>2, <2>12, Zenon
    <3>12. "arms" \in Names(rf)
      BY <3>1, <3>2, <2>13, Zenon
    <3>13. "effect_clauses" \in Names(rf)
      BY <3>1, <3>2, <2>14, Zenon
    <3>14. "floats" \in Names(rf)
      BY <3>1, <3>2, <2>15, Zenon
    <3>15. "root_start" \in Names(rf)
      BY <3>1, <3>2, <2>16, Zenon
    <3>16. "root_count" \in Names(rf)
      BY <3>1, <3>2, <2>17, Zenon
    <3>17. ASSUME NEW i \in 1 .. 14 PROVE rf[i].name \in {"exprs", "stmts", "patterns",
                                                          "expr_lists", "stmt_lists",
                                                          "param_lists", "prop_lists",
                                                          "pattern_lists", "pattern_fields",
                                                          "arms", "effect_clauses", "floats",
                                                          "root_start", "root_count"}
      <4>1. CASE i = 1
        BY <4>1, <2>4, Zenon
      <4>2. CASE i = 2
        BY <4>2, <2>5, Zenon
      <4>3. CASE i = 3
        BY <4>3, <2>6, Zenon
      <4>4. CASE i = 4
        BY <4>4, <2>7, Zenon
      <4>5. CASE i = 5
        BY <4>5, <2>8, Zenon
      <4>6. CASE i = 6
        BY <4>6, <2>9, Zenon
      <4>7. CASE i = 7
        BY <4>7, <2>10, Zenon
      <4>8. CASE i = 8
        BY <4>8, <2>11, Zenon
      <4>9. CASE i = 9
        BY <4>9, <2>12, Zenon
      <4>10. CASE i = 10
        BY <4>10, <2>13, Zenon
      <4>11. CASE i = 11
        BY <4>11, <2>14, Zenon
      <4>12. CASE i = 12
        BY <4>12, <2>15, Zenon
      <4>13. CASE i = 13
        BY <4>13, <2>16, Zenon
      <4>14. CASE i = 14
        BY <4>14, <2>17, Zenon
      <4> QED
        BY <2>18, <4>1, <4>2, <4>3, <4>4, <4>5, <4>6, <4>7, <4>8, <4>9, <4>10, <4>11, <4>12, <4>13,
         <4>14
    <3> QED
      BY <3>1, <3>3, <3>4, <3>5, <3>6, <3>7, <3>8, <3>9, <3>10, <3>11, <3>12, <3>13, <3>14, <3>15,
         <3>16, <3>17, Zenon
  <2>20. ASSUME NEW i \in 1 .. 14
         PROVE  rf[i].name = wf[i].name /\ Reads(2, wf[i].type, rf[i].type, f[rf[i].name])
    <3>1. CASE i = 1
      BY <2>4, <3>1
    <3>2. CASE i = 2
      BY <2>5, <3>2
    <3>3. CASE i = 3
      BY <2>6, <3>3
    <3>4. CASE i = 4
      BY <2>7, <3>4
    <3>5. CASE i = 5
      BY <2>8, <3>5
    <3>6. CASE i = 6
      BY <2>9, <3>6
    <3>7. CASE i = 7
      BY <2>10, <3>7
    <3>8. CASE i = 8
      BY <2>11, <3>8
    <3>9. CASE i = 9
      BY <2>12, <3>9
    <3>10. CASE i = 10
      BY <2>13, <3>10
    <3>11. CASE i = 11
      BY <2>14, <3>11
    <3>12. CASE i = 12
      BY <2>15, <3>12
    <3>13. CASE i = 13
      BY <2>113, <2>16, <3>13
    <3>14. CASE i = 14
      BY <2>114, <2>17, <3>14
    <3> QED
      BY <2>18, <3>1, <3>2, <3>3, <3>4, <3>5, <3>6, <3>7, <3>8, <3>9, <3>10, <3>11, <3>12, <3>13,
         <3>14
  <2>21. f = [n \in Names(rf) |-> f[n]]
    BY <2>19
  <2> QED
    BY <2>1, <2>2, <2>3, <2>20, <2>21 DEF Matches, wf, rf
<1> HIDE DEF wf, rf
<1>2. VariantIn(Written["Ast"], "Ast") = Variant(Untagged, "Ast", wf)
  BY WAst DEF wf
<1>3. Readable["Ast"] = {Variant(Untagged, "Ast", rf)}
  BY RAst DEF rf
<1>4. "Ast" \in DOMAIN Readable
  BY ReadableNames
<1> DEFINE n == "Ast"
           is == "Ast"
           k == 2
           l == 3
<1>5. k \in Nat /\ l = k + 1 /\ n \in DOMAIN Readable /\ Matches(k, wf, rf, f)
  BY <1>1, <1>4
<1>6. VariantIn(Written[n], is) = Variant(Untagged, is, wf)
  BY <1>2
<1>7. Readable[n] = {Variant(Untagged, is, rf)}
  BY <1>3
<1> HIDE DEF n, is, k, l
<1>8. Reads(l, One(n), One(n), [is |-> is, f |-> f])
  BY <1>5, <1>6, <1>7, UntaggedBack
<1> QED
  BY <1>8 DEF n, is, k, l

\* What is written of a runtime is read as it was, once its parts are.
LEMMA BackRuntime ==
    ASSUME NEW f, f = [n \in {"magic", "version", "strings", "ast", "objects", "envs", "conts",
                "handlers", "control", "env", "cont", "globals", "fibers", "ready_queue",
                "next_fiber_id", "join_waiters", "effects", "meters", "steps_total",
                "quantum"} |-> f[n]],
           Reads(7, Many(Num("str")), Many(Num("str")), f["strings"]),
           Reads(7, One("Ast"), One("Ast"), f["ast"]),
           Reads(7, One("Objects"), One("Objects"), f["objects"]),
           Reads(7, One("Envs"), One("Envs"), f["envs"]),
           Reads(7, One("Conts"), One("Conts"), f["conts"]),
           Reads(7, One("Handlers"), One("Handlers"), f["handlers"]),
           Reads(7, One("Control"), One("Control"), f["control"]),
           Reads(7, Many(One("Binding")), Many(One("Binding")), f["globals"]),
           Reads(7, Many(One("Fiber")), Many(One("Fiber")), f["fibers"]),
           Reads(7, Many(Num("u32")), Many(Num("u32")), f["ready_queue"]),
           Reads(7, Many(One("Waiters")), Many(One("Waiters")), f["join_waiters"]),
           Reads(7, Many(One("Grant")), Many(One("Grant")), f["effects"]),
           Reads(7, Many(One("Meter")), Many(One("Meter")), f["meters"])
    PROVE  Reads(8, One("Runtime"), One("Runtime"), [is |-> "Runtime", f |-> f])
<1> DEFINE wf == <<F("magic", Num("magic")), F("version", Num("u8")),
                F("strings", Many(Num("str"))), F("ast", One("Ast")),
                F("objects", One("Objects")), F("envs", One("Envs")),
                F("conts", One("Conts")), F("handlers", One("Handlers")),
                F("control", One("Control")), F("env", Ref("envs")),
                F("cont", Ref("conts")), F("globals", Many(One("Binding"))),
                F("fibers", Many(One("Fiber"))),
                F("ready_queue", Many(Num("u32"))),
                F("next_fiber_id", Num("u32")),
                F("join_waiters", Many(One("Waiters"))),
                F("effects", Many(One("Grant"))),
                F("meters", Many(One("Meter"))), F("steps_total", Num("u64")),
                F("quantum", Num("u64"))>>
           rf == <<F("magic", Num("magic")), F("version", Num("u8")),
                F("strings", Many(Num("str"))), F("ast", One("Ast")),
                F("objects", One("Objects")), F("envs", One("Envs")),
                F("conts", One("Conts")), F("handlers", One("Handlers")),
                F("control", One("Control")), F("env", Num("u32")),
                F("cont", Num("u32")), F("globals", Many(One("Binding"))),
                F("fibers", Many(One("Fiber"))),
                F("ready_queue", Many(Num("u32"))),
                F("next_fiber_id", Num("u32")),
                F("join_waiters", Many(One("Waiters"))),
                F("effects", Many(One("Grant"))),
                F("meters", Many(One("Meter"))), F("steps_total", Num("u64")),
                F("quantum", Num("u64"))>>
<1>1. Matches(7, wf, rf, f)
  <2>100. 7 \in Nat /\ 7 >= 1
    BY SMT
  <2>101. Reads(7, Num("magic"), Num("magic"), f["magic"])
    BY <2>100, NumberRead, Zenon
  <2>102. Reads(7, Num("u8"), Num("u8"), f["version"])
    BY <2>100, NumberRead, Zenon
  <2>110. Reads(7, Ref("envs"), Num("u32"), f["env"])
    BY <2>100, NumberRead, Zenon
  <2>111. Reads(7, Ref("conts"), Num("u32"), f["cont"])
    BY <2>100, NumberRead, Zenon
  <2>115. Reads(7, Num("u32"), Num("u32"), f["next_fiber_id"])
    BY <2>100, NumberRead, Zenon
  <2>119. Reads(7, Num("u64"), Num("u64"), f["steps_total"])
    BY <2>100, NumberRead, Zenon
  <2>120. Reads(7, Num("u64"), Num("u64"), f["quantum"])
    BY <2>100, NumberRead, Zenon
  <2>1. Len(wf) = 20 /\ Len(rf) = 20 /\ DOMAIN rf = 1 .. 20
    BY SMT
  <2>2. Listed(wf)
    <3> DEFINE A == {F("magic", Num("magic")), F("version", Num("u8")),
                     F("strings", Many(Num("str"))), F("ast", One("Ast")),
                     F("objects", One("Objects")), F("envs", One("Envs")),
                  F("conts", One("Conts")), F("handlers", One("Handlers")),
                  F("control", One("Control")), F("env", Ref("envs")), F("cont", Ref("conts")),
                  F("globals", Many(One("Binding"))),
                  F("fibers", Many(One("Fiber"))), F("ready_queue", Many(Num("u32"))),
                  F("next_fiber_id", Num("u32")), F("join_waiters", Many(One("Waiters"))),
                  F("effects", Many(One("Grant"))),
                  F("meters", Many(One("Meter"))), F("steps_total", Num("u64")),
                  F("quantum", Num("u64"))}
    <3>1. wf \in Seq(A)
      BY SMT
    <3> QED
      BY <3>1 DEF Listed
  <2>3. Listed(rf)
    <3> DEFINE A == {F("magic", Num("magic")), F("version", Num("u8")),
                     F("strings", Many(Num("str"))), F("ast", One("Ast")),
                     F("objects", One("Objects")), F("envs", One("Envs")),
                  F("conts", One("Conts")), F("handlers", One("Handlers")),
                  F("control", One("Control")), F("env", Num("u32")), F("cont", Num("u32")),
                  F("globals", Many(One("Binding"))),
                  F("fibers", Many(One("Fiber"))), F("ready_queue", Many(Num("u32"))),
                  F("next_fiber_id", Num("u32")), F("join_waiters", Many(One("Waiters"))),
                  F("effects", Many(One("Grant"))),
                  F("meters", Many(One("Meter"))), F("steps_total", Num("u64")),
                  F("quantum", Num("u64"))}
    <3>1. rf \in Seq(A)
      BY SMT
    <3> QED
      BY <3>1 DEF Listed
  <2>4. wf[1].name = "magic" /\ wf[1].type = Num("magic") /\ rf[1].name = "magic"
            /\ rf[1].type = Num("magic")
    BY DEF F
  <2>5. wf[2].name = "version" /\ wf[2].type = Num("u8") /\ rf[2].name = "version"
            /\ rf[2].type = Num("u8")
    BY DEF F
  <2>6. wf[3].name = "strings" /\ wf[3].type = Many(Num("str")) /\ rf[3].name = "strings"
            /\ rf[3].type = Many(Num("str"))
    BY DEF F
  <2>7. wf[4].name = "ast" /\ wf[4].type = One("Ast") /\ rf[4].name = "ast"
            /\ rf[4].type = One("Ast")
    BY DEF F
  <2>8. wf[5].name = "objects" /\ wf[5].type = One("Objects") /\ rf[5].name = "objects"
            /\ rf[5].type = One("Objects")
    BY DEF F
  <2>9. wf[6].name = "envs" /\ wf[6].type = One("Envs") /\ rf[6].name = "envs"
            /\ rf[6].type = One("Envs")
    BY DEF F
  <2>10. wf[7].name = "conts" /\ wf[7].type = One("Conts") /\ rf[7].name = "conts"
             /\ rf[7].type = One("Conts")
    BY DEF F
  <2>11. wf[8].name = "handlers" /\ wf[8].type = One("Handlers") /\ rf[8].name = "handlers"
             /\ rf[8].type = One("Handlers")
    BY DEF F
  <2>12. wf[9].name = "control" /\ wf[9].type = One("Control") /\ rf[9].name = "control"
             /\ rf[9].type = One("Control")
    BY DEF F
  <2>13. wf[10].name = "env" /\ wf[10].type = Ref("envs") /\ rf[10].name = "env"
             /\ rf[10].type = Num("u32")
    BY DEF F
  <2>14. wf[11].name = "cont" /\ wf[11].type = Ref("conts") /\ rf[11].name = "cont"
             /\ rf[11].type = Num("u32")
    BY DEF F
  <2>15. wf[12].name = "globals" /\ wf[12].type = Many(One("Binding"))
             /\ rf[12].name = "globals" /\ rf[12].type = Many(One("Binding"))
    BY DEF F
  <2>16. wf[13].name = "fibers" /\ wf[13].type = Many(One("Fiber")) /\ rf[13].name = "fibers"
             /\ rf[13].type = Many(One("Fiber"))
    BY DEF F
  <2>17. wf[14].name = "ready_queue" /\ wf[14].type = Many(Num("u32"))
             /\ rf[14].name = "ready_queue" /\ rf[14].type = Many(Num("u32"))
    BY DEF F
  <2>18. wf[15].name = "next_fiber_id" /\ wf[15].type = Num("u32")
             /\ rf[15].name = "next_fiber_id" /\ rf[15].type = Num("u32")
    BY DEF F
  <2>19. wf[16].name = "join_waiters" /\ wf[16].type = Many(One("Waiters"))
             /\ rf[16].name = "join_waiters" /\ rf[16].type = Many(One("Waiters"))
    BY DEF F
  <2>20. wf[17].name = "effects" /\ wf[17].type = Many(One("Grant")) /\ rf[17].name = "effects"
             /\ rf[17].type = Many(One("Grant"))
    BY DEF F
  <2>21. wf[18].name = "meters" /\ wf[18].type = Many(One("Meter")) /\ rf[18].name = "meters"
             /\ rf[18].type = Many(One("Meter"))
    BY DEF F
  <2>22. wf[19].name = "steps_total" /\ wf[19].type = Num("u64") /\ rf[19].name = "steps_total"
             /\ rf[19].type = Num("u64")
    BY DEF F
  <2>23. wf[20].name = "quantum" /\ wf[20].type = Num("u64") /\ rf[20].name = "quantum"
             /\ rf[20].type = Num("u64")
    BY DEF F
  <2> HIDE DEF wf, rf
  <2>24. \A i \in 1 .. 20 : i = 1 \/ i = 2 \/ i = 3 \/ i = 4 \/ i = 5 \/ i = 6 \/ i = 7 \/ i = 8
             \/ i = 9 \/ i = 10 \/ i = 11 \/
          i = 12 \/ i = 13 \/ i = 14 \/ i = 15 \/ i = 16 \/ i = 17 \/ i = 18 \/ i = 19 \/ i = 20
    BY SMT
  <2>25. Names(rf) = {"magic", "version", "strings", "ast", "objects", "envs", "conts",
                      "handlers", "control", "env", "cont", "globals", "fibers", "ready_queue",
                      "next_fiber_id", "join_waiters", "effects",
              "meters", "steps_total", "quantum"}
    <3>1. Names(rf) = {rf[i].name : i \in 1 .. 20}
      BY <2>1 DEF Names
    <3>2. 1 \in 1 .. 20 /\ 2 \in 1 .. 20 /\ 3 \in 1 .. 20 /\ 4 \in 1 .. 20 /\ 5 \in 1 .. 20 /\
          6 \in 1 .. 20 /\ 7 \in 1 .. 20 /\ 8 \in 1 .. 20 /\ 9 \in 1 .. 20 /\ 10 \in 1 .. 20 /\
          11 \in 1 .. 20 /\ 12 \in 1 .. 20 /\ 13 \in 1 .. 20 /\ 14 \in 1 .. 20 /\ 15 \in 1 .. 20 /\
          16 \in 1 .. 20 /\ 17 \in 1 .. 20 /\ 18 \in 1 .. 20 /\ 19 \in 1 .. 20 /\ 20 \in 1 .. 20
      BY SMT
    <3>3. "magic" \in Names(rf)
      BY <3>1, <3>2, <2>4, Zenon
    <3>4. "version" \in Names(rf)
      BY <3>1, <3>2, <2>5, Zenon
    <3>5. "strings" \in Names(rf)
      BY <3>1, <3>2, <2>6, Zenon
    <3>6. "ast" \in Names(rf)
      BY <3>1, <3>2, <2>7, Zenon
    <3>7. "objects" \in Names(rf)
      BY <3>1, <3>2, <2>8, Zenon
    <3>8. "envs" \in Names(rf)
      BY <3>1, <3>2, <2>9, Zenon
    <3>9. "conts" \in Names(rf)
      BY <3>1, <3>2, <2>10, Zenon
    <3>10. "handlers" \in Names(rf)
      BY <3>1, <3>2, <2>11, Zenon
    <3>11. "control" \in Names(rf)
      BY <3>1, <3>2, <2>12, Zenon
    <3>12. "env" \in Names(rf)
      BY <3>1, <3>2, <2>13, Zenon
    <3>13. "cont" \in Names(rf)
      BY <3>1, <3>2, <2>14, Zenon
    <3>14. "globals" \in Names(rf)
      BY <3>1, <3>2, <2>15, Zenon
    <3>15. "fibers" \in Names(rf)
      BY <3>1, <3>2, <2>16, Zenon
    <3>16. "ready_queue" \in Names(rf)
      BY <3>1, <3>2, <2>17, Zenon
    <3>17. "next_fiber_id" \in Names(rf)
      BY <3>1, <3>2, <2>18, Zenon
    <3>18. "join_waiters" \in Names(rf)
      BY <3>1, <3>2, <2>19, Zenon
    <3>19. "effects" \in Names(rf)
      BY <3>1, <3>2, <2>20, Zenon
    <3>20. "meters" \in Names(rf)
      BY <3>1, <3>2, <2>21, Zenon
    <3>21. "steps_total" \in Names(rf)
      BY <3>1, <3>2, <2>22, Zenon
    <3>22. "quantum" \in Names(rf)
      BY <3>1, <3>2, <2>23, Zenon
    <3>23. ASSUME NEW i \in 1 .. 20 PROVE rf[i].name \in {"magic", "version", "strings", "ast",
                                                          "objects", "envs", "conts", "handlers",
                                                          "control", "env", "cont", "globals",
                                                          "fibers", "ready_queue",
                                                          "next_fiber_id", "join_waiters",
                                                          "effects",
              "meters", "steps_total", "quantum"}
      <4>1. CASE i = 1
        BY <4>1, <2>4, Zenon
      <4>2. CASE i = 2
        BY <4>2, <2>5, Zenon
      <4>3. CASE i = 3
        BY <4>3, <2>6, Zenon
      <4>4. CASE i = 4
        BY <4>4, <2>7, Zenon
      <4>5. CASE i = 5
        BY <4>5, <2>8, Zenon
      <4>6. CASE i = 6
        BY <4>6, <2>9, Zenon
      <4>7. CASE i = 7
        BY <4>7, <2>10, Zenon
      <4>8. CASE i = 8
        BY <4>8, <2>11, Zenon
      <4>9. CASE i = 9
        BY <4>9, <2>12, Zenon
      <4>10. CASE i = 10
        BY <4>10, <2>13, Zenon
      <4>11. CASE i = 11
        BY <4>11, <2>14, Zenon
      <4>12. CASE i = 12
        BY <4>12, <2>15, Zenon
      <4>13. CASE i = 13
        BY <4>13, <2>16, Zenon
      <4>14. CASE i = 14
        BY <4>14, <2>17, Zenon
      <4>15. CASE i = 15
        BY <4>15, <2>18, Zenon
      <4>16. CASE i = 16
        BY <4>16, <2>19, Zenon
      <4>17. CASE i = 17
        BY <4>17, <2>20, Zenon
      <4>18. CASE i = 18
        BY <4>18, <2>21, Zenon
      <4>19. CASE i = 19
        BY <4>19, <2>22, Zenon
      <4>20. CASE i = 20
        BY <4>20, <2>23, Zenon
      <4> QED
        BY <2>24, <4>1, <4>2, <4>3, <4>4, <4>5, <4>6, <4>7, <4>8, <4>9, <4>10, <4>11, <4>12, <4>13,
         <4>14, <4>15, <4>16, <4>17, <4>18, <4>19, <4>20
    <3> QED
      BY <3>1, <3>3, <3>4, <3>5, <3>6, <3>7, <3>8, <3>9, <3>10, <3>11, <3>12, <3>13, <3>14, <3>15,
         <3>16, <3>17, <3>18, <3>19, <3>20, <3>21, <3>22, <3>23, Zenon
  <2>26. ASSUME NEW i \in 1 .. 20
         PROVE  rf[i].name = wf[i].name /\ Reads(7, wf[i].type, rf[i].type, f[rf[i].name])
    <3>1. CASE i = 1
      BY <2>101, <2>4, <3>1
    <3>2. CASE i = 2
      BY <2>102, <2>5, <3>2
    <3>3. CASE i = 3
      BY <2>6, <3>3
    <3>4. CASE i = 4
      BY <2>7, <3>4
    <3>5. CASE i = 5
      BY <2>8, <3>5
    <3>6. CASE i = 6
      BY <2>9, <3>6
    <3>7. CASE i = 7
      BY <2>10, <3>7
    <3>8. CASE i = 8
      BY <2>11, <3>8
    <3>9. CASE i = 9
      BY <2>12, <3>9
    <3>10. CASE i = 10
      BY <2>110, <2>13, <3>10
    <3>11. CASE i = 11
      BY <2>111, <2>14, <3>11
    <3>12. CASE i = 12
      BY <2>15, <3>12
    <3>13. CASE i = 13
      BY <2>16, <3>13
    <3>14. CASE i = 14
      BY <2>17, <3>14
    <3>15. CASE i = 15
      BY <2>115, <2>18, <3>15
    <3>16. CASE i = 16
      BY <2>19, <3>16
    <3>17. CASE i = 17
      BY <2>20, <3>17
    <3>18. CASE i = 18
      BY <2>21, <3>18
    <3>19. CASE i = 19
      BY <2>119, <2>22, <3>19
    <3>20. CASE i = 20
      BY <2>120, <2>23, <3>20
    <3> QED
      BY <2>24, <3>1, <3>2, <3>3, <3>4, <3>5, <3>6, <3>7, <3>8, <3>9, <3>10, <3>11, <3>12, <3>13,
         <3>14, <3>15, <3>16, <3>17, <3>18, <3>19, <3>20
  <2>27. f = [n \in Names(rf) |-> f[n]]
    BY <2>25
  <2> QED
    BY <2>1, <2>2, <2>3, <2>26, <2>27 DEF Matches, wf, rf
<1> HIDE DEF wf, rf
<1>2. VariantIn(Written["Runtime"], "Runtime") = Variant(Untagged, "Runtime", wf)
  BY WRuntime DEF wf
<1>3. Readable["Runtime"] = {Variant(Untagged, "Runtime", rf)}
  BY RRuntime DEF rf
<1>4. "Runtime" \in DOMAIN Readable
  BY ReadableNames
<1> DEFINE n == "Runtime"
           is == "Runtime"
           k == 7
           l == 8
<1>5. k \in Nat /\ l = k + 1 /\ n \in DOMAIN Readable /\ Matches(k, wf, rf, f)
  BY <1>1, <1>4
<1>6. VariantIn(Written[n], is) = Variant(Untagged, is, wf)
  BY <1>2
<1>7. Readable[n] = {Variant(Untagged, is, rf)}
  BY <1>3
<1> HIDE DEF n, is, k, l
<1>8. Reads(l, One(n), One(n), [is |-> is, f |-> f])
  BY <1>5, <1>6, <1>7, UntaggedBack
<1> QED
  BY <1>8 DEF n, is, k, l

==============================================================================
