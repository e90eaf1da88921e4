---------------------------- MODULE ReplayProofs ----------------------------
(***************************************************************************)
(* The replay log, for any number of fibers, calls, answers, refuels and   *)
(* crashes: it keeps its types, its complete records only get more, a      *)
(* recovery hands over a run that has gone on as far as it can, and, where *)
(* an append that fails leaves nothing, the log explains the run and every *)
(* recovery succeeds.  The last two are about folds over the records and   *)
(* over the turns of the scheduler, which are taken apart by induction.    *)
(***************************************************************************)
EXTENDS ReplayProps, FuelProofs, QueueLemmas

-----------------------------------------------------------------------------
(* The complete records of a file. *)

\* Events, of any file.
WholeOf(s) ==
    LET g == SelectInSeq(s, LAMBDA r : ~r.whole)
    IN  IF g = 0 THEN s ELSE SubSeq(s, 1, g - 1)

\* Events is that of the file.
LEMMA EventsWhole == Events = WholeOf(file) /\ Events' = WholeOf(file')
BY DEF Events, GoodPrefix, WholeOf, SelectInSeq

\* e is what s holds up to the first torn record.
Cut(s, e) ==
    /\ e \in Seq(LogRecord) /\ Len(e) \in Nat /\ Len(e) <= Len(s)
    /\ \A i \in 1 .. Len(e) : e[i] = s[i] /\ s[i].whole
    /\ Len(e) < Len(s) => ~s[Len(e) + 1].whole

\* WholeOf reads a file so.
LEMMA WholeCut == ASSUME NEW s \in Seq(LogRecord) PROVE Cut(s, WholeOf(s))
<1> DEFINE I == {i \in 1 .. Len(s) : ~s[i].whole}
           g == IF I # {} THEN Min(I) ELSE 0
<1>1. WholeOf(s) = IF g = 0 THEN s ELSE SubSeq(s, 1, g - 1)
  BY DEF WholeOf, SelectInSeq
<1>2. Len(s) \in Nat /\ \A i \in 1 .. Len(s) : s[i] \in LogRecord
  OBVIOUS
<1>3. CASE I = {}
  <2>1. WholeOf(s) = s
    BY <1>1, <1>3
  <2>2. \A i \in 1 .. Len(s) : s[i].whole
    BY <1>3
  <2> QED
    BY <1>2, <2>1, <2>2, SMT DEF Cut
<1>4. CASE I # {}
  <2>1. I \subseteq Nat
    BY SMT
  <2>2. \E n \in I : \A m \in I : n <= m
    BY <1>4, <2>1, Least
  <2>3. g \in I /\ \A m \in I : g <= m
    BY <1>4, <2>2 DEF Min
  <2> HIDE DEF g
  <2>4. g \in 1 .. Len(s) /\ ~s[g].whole /\ \A i \in 1 .. g - 1 : s[i].whole
    BY <1>2, <2>3, SMT
  <2> DEFINE e == SubSeq(s, 1, g - 1)
  <2>5. WholeOf(s) = e
    BY <1>1, <2>4
  <2>6. e \in Seq(LogRecord) /\ Len(e) = g - 1 /\ \A i \in 1 .. g - 1 : e[i] = s[i]
    BY <1>2, <2>4, SMT
  <2> HIDE DEF e
  <2> QED
    BY <1>2, <2>4, <2>5, <2>6, SMT DEF Cut
<1> QED
  BY <1>3, <1>4

\* A sequence is determined by its length and its elements.
LEMMA SameSeq ==
    ASSUME NEW S, NEW s \in Seq(S), NEW t \in Seq(S), Len(s) = Len(t),
           \A i \in 1 .. Len(s) : s[i] = t[i]
    PROVE  s = t
BY SMT

\* A file without torn records is read whole.
LEMMA WholeAll ==
    ASSUME NEW s \in Seq(LogRecord), \A i \in 1 .. Len(s) : s[i].whole
    PROVE  WholeOf(s) = s
<1> DEFINE e == WholeOf(s)
<1>1. Cut(s, e)
  BY WholeCut
<1> HIDE DEF e
<1>2. Len(s) \in Nat /\ Len(e) = Len(s)
  BY <1>1, SMT DEF Cut
<1>3. e = s
  BY <1>1, <1>2, SameSeq DEF Cut
<1> QED
  BY <1>3 DEF e

\* What the truncation of a torn tail leaves is read as before.
LEMMA WholeAgain == ASSUME NEW s \in Seq(LogRecord) PROVE WholeOf(WholeOf(s)) = WholeOf(s)
<1> DEFINE e == WholeOf(s)
<1>1. Cut(s, e)
  BY WholeCut
<1> HIDE DEF e
<1>2. e \in Seq(LogRecord) /\ \A i \in 1 .. Len(e) : e[i].whole
  BY <1>1 DEF Cut
<1>3. WholeOf(e) = e
  BY <1>2, WholeAll
<1> QED
  BY <1>3 DEF e

\* A prefix, element by element.
LEMMA PrefixByElements ==
    ASSUME NEW S, NEW s \in Seq(S), NEW t \in Seq(S), Len(s) <= Len(t),
           \A i \in 1 .. Len(s) : s[i] = t[i]
    PROVE  IsPrefix(s, t)
<1>1. Len(s) \in Nat /\ Len(t) \in Nat
  OBVIOUS
<1> DEFINE a == SubSeq(s, 1, Len(s))  b == SubSeq(t, 1, Len(s))
<1>2. a \in Seq(S) /\ Len(a) = Len(s) /\ \A i \in 1 .. Len(s) : a[i] = s[i]
  BY <1>1, SMT
<1>3. b \in Seq(S) /\ Len(b) = Len(s) /\ \A i \in 1 .. Len(s) : b[i] = t[i]
  BY <1>1, SMT
<1> HIDE DEF a, b
<1>4. a = b
  BY <1>2, <1>3, SameSeq
<1> QED
  BY <1>4 DEF IsPrefix, a, b

\* An append changes no complete record, torn tail or not.
LEMMA WholeAppend ==
    ASSUME NEW s \in Seq(LogRecord), NEW rec \in LogRecord
    PROVE  /\ Append(s, rec) \in Seq(LogRecord)
           /\ IsPrefix(WholeOf(s), WholeOf(Append(s, rec)))
           /\ Len(WholeOf(s)) <= Len(WholeOf(Append(s, rec)))
<1> DEFINE t == Append(s, rec)  e == WholeOf(s)  d == WholeOf(t)
<1>1. /\ t \in Seq(LogRecord) /\ Len(s) \in Nat /\ Len(t) = Len(s) + 1
      /\ \A i \in 1 .. Len(s) : t[i] = s[i]
  BY SMT
<1>2. Cut(s, e)
  BY WholeCut
<1>3. Cut(t, d)
  BY <1>1, WholeCut
<1> HIDE DEF t, e, d
<1>4. Len(e) \in Nat /\ Len(e) <= Len(s) /\ Len(d) \in Nat /\ Len(d) <= Len(t)
  BY <1>2, <1>3 DEF Cut
<1>5. Len(e) <= Len(d)
  <2> SUFFICES ASSUME Len(d) < Len(e) PROVE FALSE
    BY <1>4, SMT
  <2>1. Len(d) + 1 \in 1 .. Len(e) /\ Len(d) + 1 \in 1 .. Len(s) /\ Len(d) < Len(t)
    BY <1>1, <1>4, SMT
  <2>2. s[Len(d) + 1].whole /\ ~t[Len(d) + 1].whole
    BY <1>2, <1>3, <2>1 DEF Cut
  <2> QED
    BY <1>1, <2>1, <2>2
<1>6. \A i \in 1 .. Len(e) : i \in 1 .. Len(s) /\ i \in 1 .. Len(d)
  BY <1>1, <1>4, <1>5, SMT
<1>7. \A i \in 1 .. Len(e) : e[i] = d[i]
  BY <1>1, <1>2, <1>3, <1>6 DEF Cut
<1>8. IsPrefix(e, d)
  BY <1>2, <1>3, <1>5, <1>7, PrefixByElements DEF Cut
<1> QED
  BY <1>1, <1>5, <1>8 DEF t, e, d

-----------------------------------------------------------------------------
(* The scheduler's turns until the run is at rest. *)

\* g is the run after each number of turns.
Turns(r, g) ==
    g = [i \in 0 .. Len(r.queue) |-> IF i = 0 THEN r ELSE Onward(g[i - 1])]

\* There is such a function.
LEMMA TurnsExist == ASSUME NEW r, Len(r.queue) \in Nat PROVE \E g : Turns(r, g)
<1> DEFINE up(n, g) == g = [i \in 0 .. n |-> IF i = 0 THEN r ELSE Onward(g[i - 1])]
           S == {n \in Nat : \E g : up(n, g)}
<1>1. 0 \in S
  <2> DEFINE g == [i \in 0 .. 0 |-> r]
  <2>1. up(0, g)
    BY SMT
  <2> QED
    BY <2>1
<1>2. ASSUME NEW n \in Nat, n \in S PROVE n + 1 \in S
  <2>1. PICK g : up(n, g)
    BY <1>2
  <2> DEFINE h == [i \in 0 .. n + 1 |-> IF i <= n THEN g[i] ELSE Onward(g[n])]
  <2>2. \A i \in 0 .. n : h[i] = g[i]
    BY SMT
  <2>3. h[n + 1] = Onward(g[n])
    BY SMT
  <2>4. \A i \in 0 .. n : g[i] = IF i = 0 THEN r ELSE Onward(g[i - 1])
    BY <2>1
  <2>5. \A i \in 0 .. n + 1 : h[i] = IF i = 0 THEN r ELSE Onward(h[i - 1])
    <3> SUFFICES ASSUME NEW i \in 0 .. n + 1
                 PROVE  h[i] = IF i = 0 THEN r ELSE Onward(h[i - 1])
      OBVIOUS
    <3> HIDE DEF h
    <3>1. CASE i \in 0 .. n
      <4>1. i # 0 => i - 1 \in 0 .. n
        BY <3>1, SMT
      <4> QED
        BY <2>2, <2>4, <3>1, <4>1
    <3>2. CASE i = n + 1
      <4>1. i # 0 /\ i - 1 = n /\ n \in 0 .. n
        BY <3>2, SMT
      <4> QED
        BY <2>2, <2>3, <3>2, <4>1
    <3> QED
      BY <3>1, <3>2, SMT
  <2>6. h = [i \in 0 .. n + 1 |-> h[i]]
    OBVIOUS
  <2>7. up(n + 1, h)
    <3> DEFINE k == [i \in 0 .. n + 1 |-> IF i = 0 THEN r ELSE Onward(h[i - 1])]
    <3>1. \A i \in 0 .. n + 1 : k[i] = IF i = 0 THEN r ELSE Onward(h[i - 1])
      OBVIOUS
    <3>2. k = [i \in 0 .. n + 1 |-> k[i]]
      OBVIOUS
    <3>3. h = k
      <4> HIDE DEF h, k
      <4>1. \A i \in 0 .. n + 1 : h[i] = k[i]
        BY <2>5, <3>1
      <4> QED
        BY <2>6, <3>2, <4>1
    <3> QED
      BY <3>3
  <2>8. \E f : up(n + 1, f)
    <3> HIDE DEF h, up
    <3> QED
      BY <2>7
  <2> QED
    BY <2>8
<1>3. Nat \subseteq S
  <2> HIDE DEF S
  <2> QED
    BY <1>1, <1>2, SetInduction
<1> QED
  BY <1>3 DEF Turns

\* RunOut is the last of them.
LEMMA RunOutIsLast ==
    ASSUME NEW r, Len(r.queue) \in Nat
    PROVE  \E g : /\ RunOut(r) = g[Len(r.queue)] /\ g[0] = r
                  /\ \A i \in 1 .. Len(r.queue) : g[i] = Onward(g[i - 1])
<1> DEFINE g == CHOOSE f : Turns(r, f)
<1>1. Turns(r, g)
  BY TurnsExist
<1>2. RunOut(r) = g[Len(r.queue)]
  BY DEF RunOut, Turns
<1> HIDE DEF g
<1>3. \A i \in 0 .. Len(r.queue) : g[i] = IF i = 0 THEN r ELSE Onward(g[i - 1])
  BY <1>1 DEF Turns
<1>4. 0 \in 0 .. Len(r.queue) /\ \A i \in 1 .. Len(r.queue) : i \in 0 .. Len(r.queue) /\ i # 0
  BY SMT
<1>5. g[0] = r /\ \A i \in 1 .. Len(r.queue) : g[i] = Onward(g[i - 1])
  BY <1>3, <1>4
<1> QED
  BY <1>2, <1>5

\* A run at rest does not move.
LEMMA RunOutAtRest ==
    ASSUME NEW r, Len(r.queue) \in Nat, AtRest(r) PROVE RunOut(r) = r
<1> DEFINE n == Len(r.queue)
<1>1. PICK g : /\ RunOut(r) = g[n] /\ g[0] = r
               /\ \A i \in 1 .. n : g[i] = Onward(g[i - 1])
  BY RunOutIsLast
<1>2. Onward(r) = r
  BY DEF Onward
<1>3. n \in Nat
  OBVIOUS
<1> DEFINE S == {i \in Nat : i <= n => g[i] = r}
<1> HIDE DEF n
<1>4. 0 \in S
  BY <1>1
<1>5. ASSUME NEW i \in Nat, i \in S PROVE i + 1 \in S
  <2> SUFFICES ASSUME i + 1 <= n PROVE g[i + 1] = r
    BY SMT
  <2>1. i <= n /\ i + 1 \in 1 .. n /\ (i + 1) - 1 = i
    BY <1>3, SMT
  <2>2. g[i] = r /\ g[i + 1] = Onward(g[i])
    BY <1>1, <1>5, <2>1
  <2> QED
    BY <1>2, <2>2
<1>6. Nat \subseteq S
  <2> HIDE DEF S
  <2> QED
    BY <1>4, <1>5, SetInduction
<1>7. g[n] = r
  BY <1>3, <1>6, SMT
<1> QED
  BY <1>1, <1>7

\* A run that takes a turn comes to the same end.
LEMMA RunOutTurn ==
    ASSUME NEW r, r.queue \in Seq(Fibers), ~AtRest(r)
    PROVE  RunOut(Turn(r)) = RunOut(r)
<1> DEFINE n == Len(r.queue)  t == Turn(r)
<1>1. n \in Nat /\ n >= 1 /\ Tail(r.queue) \in Seq(Fibers) /\ Len(Tail(r.queue)) = n - 1
  <2>1. r.queue # <<>>
    BY DEF AtRest
  <2> QED
    BY <2>1, SMT
<1>2. t.queue = Tail(r.queue)
  BY DEF Turn
<1>3. Onward(r) = t
  BY DEF Onward
<1>4. PICK g : /\ RunOut(r) = g[n] /\ g[0] = r
               /\ \A i \in 1 .. n : g[i] = Onward(g[i - 1])
  BY <1>1, RunOutIsLast
<1> HIDE DEF t
<1>5. Len(t.queue) = n - 1 /\ n - 1 \in Nat
  BY <1>1, <1>2, SMT
<1>6. PICK h : /\ RunOut(t) = h[n - 1] /\ h[0] = t
               /\ \A i \in 1 .. n - 1 : h[i] = Onward(h[i - 1])
  <2>1. PICK h : /\ RunOut(t) = h[Len(t.queue)] /\ h[0] = t
                 /\ \A i \in 1 .. Len(t.queue) : h[i] = Onward(h[i - 1])
    BY <1>5, RunOutIsLast
  <2> QED
    BY <1>5, <2>1
<1> DEFINE S == {i \in Nat : i <= n - 1 => h[i] = g[i + 1]}
<1> HIDE DEF n
<1>7. 0 \in S
  <2>1. 1 \in 1 .. n /\ 1 - 1 = 0 /\ 0 + 1 = 1
    BY <1>1, SMT
  <2>2. g[1] = t
    BY <1>3, <1>4, <2>1
  <2> QED
    BY <1>6, <2>1, <2>2
<1>8. ASSUME NEW i \in Nat, i \in S PROVE i + 1 \in S
  <2> SUFFICES ASSUME i + 1 <= n - 1 PROVE h[i + 1] = g[(i + 1) + 1]
    BY SMT
  <2>1. /\ i <= n - 1 /\ i + 1 \in 1 .. n - 1 /\ (i + 1) - 1 = i
        /\ (i + 1) + 1 \in 1 .. n /\ ((i + 1) + 1) - 1 = i + 1
    BY <1>1, SMT
  <2>2. h[i] = g[i + 1] /\ h[i + 1] = Onward(h[i])
    BY <1>6, <1>8, <2>1
  <2>3. g[(i + 1) + 1] = Onward(g[i + 1])
    BY <1>4, <2>1
  <2> QED
    BY <2>2, <2>3
<1>9. Nat \subseteq S
  <2> HIDE DEF S
  <2> QED
    BY <1>7, <1>8, SetInduction
<1>10. h[n - 1] = g[n]
  BY <1>1, <1>5, <1>9, SMT
<1> QED
  BY <1>4, <1>6, <1>10 DEF t

-----------------------------------------------------------------------------
(* The run that a log stands for. *)

\* g is the run after each number of records.
Replays(s, g) ==
    g = [i \in 0 .. Len(s) |-> IF i = 0 THEN RunOut(FreshRun) ELSE After(g[i - 1], s[i])]

\* There is such a function.
LEMMA ReplaysExist == ASSUME NEW s, Len(s) \in Nat PROVE \E g : Replays(s, g)
<1> DEFINE up(n, g) == g = [i \in 0 .. n |-> IF i = 0 THEN RunOut(FreshRun) ELSE After(g[i - 1], s[i])]
           S == {n \in Nat : \E g : up(n, g)}
<1>1. 0 \in S
  <2> DEFINE g == [i \in 0 .. 0 |-> RunOut(FreshRun)]
  <2>1. up(0, g)
    BY SMT
  <2> QED
    BY <2>1
<1>2. ASSUME NEW n \in Nat, n \in S PROVE n + 1 \in S
  <2>1. PICK g : up(n, g)
    BY <1>2
  <2> DEFINE h == [i \in 0 .. n + 1 |-> IF i <= n THEN g[i] ELSE After(g[n], s[n + 1])]
  <2>2. \A i \in 0 .. n : h[i] = g[i]
    BY SMT
  <2>3. h[n + 1] = After(g[n], s[n + 1])
    BY SMT
  <2>4. \A i \in 0 .. n : g[i] = IF i = 0 THEN RunOut(FreshRun) ELSE After(g[i - 1], s[i])
    BY <2>1
  <2>5. \A i \in 0 .. n + 1 : h[i] = IF i = 0 THEN RunOut(FreshRun) ELSE After(h[i - 1], s[i])
    <3> SUFFICES ASSUME NEW i \in 0 .. n + 1
                 PROVE  h[i] = IF i = 0 THEN RunOut(FreshRun) ELSE After(h[i - 1], s[i])
      OBVIOUS
    <3> HIDE DEF h
    <3>1. CASE i \in 0 .. n
      <4>1. i # 0 => i - 1 \in 0 .. n
        BY <3>1, SMT
      <4> QED
        BY <2>2, <2>4, <3>1, <4>1
    <3>2. CASE i = n + 1
      <4>1. i # 0 /\ i - 1 = n /\ n \in 0 .. n
        BY <3>2, SMT
      <4> QED
        BY <2>2, <2>3, <3>2, <4>1
    <3> QED
      BY <3>1, <3>2, SMT
  <2>6. h = [i \in 0 .. n + 1 |-> h[i]]
    OBVIOUS
  <2>7. up(n + 1, h)
    <3> DEFINE k == [i \in 0 .. n + 1 |-> IF i = 0 THEN RunOut(FreshRun) ELSE After(h[i - 1], s[i])]
    <3>1. \A i \in 0 .. n + 1 : k[i] = IF i = 0 THEN RunOut(FreshRun) ELSE After(h[i - 1], s[i])
      OBVIOUS
    <3>2. k = [i \in 0 .. n + 1 |-> k[i]]
      OBVIOUS
    <3>3. h = k
      <4> HIDE DEF h, k
      <4>1. \A i \in 0 .. n + 1 : h[i] = k[i]
        BY <2>5, <3>1
      <4> QED
        BY <2>6, <3>2, <4>1
    <3> QED
      BY <3>3
  <2>8. \E f : up(n + 1, f)
    <3> HIDE DEF h, up
    <3> QED
      BY <2>7
  <2> QED
    BY <2>8
<1>3. Nat \subseteq S
  <2> HIDE DEF S
  <2> QED
    BY <1>1, <1>2, SetInduction
<1> QED
  BY <1>3 DEF Replays

\* Explained is the last of them.
LEMMA ExplainedIsLast ==
    ASSUME NEW s, Len(s) \in Nat
    PROVE  \E g : /\ Explained(s) = g[Len(s)] /\ g[0] = RunOut(FreshRun)
                  /\ \A i \in 1 .. Len(s) : g[i] = After(g[i - 1], s[i])
<1> DEFINE g == CHOOSE f : Replays(s, f)
<1>1. Replays(s, g)
  BY ReplaysExist
<1>2. Explained(s) = g[Len(s)]
  BY DEF Explained, Replays
<1> HIDE DEF g
<1>3. \A i \in 0 .. Len(s) : g[i] = IF i = 0 THEN RunOut(FreshRun) ELSE After(g[i - 1], s[i])
  BY <1>1 DEF Replays
<1>4. 0 \in 0 .. Len(s) /\ \A i \in 1 .. Len(s) : i \in 0 .. Len(s) /\ i # 0
  BY SMT
<1>5. g[0] = RunOut(FreshRun) /\ \A i \in 1 .. Len(s) : g[i] = After(g[i - 1], s[i])
  BY <1>3, <1>4
<1> QED
  BY <1>2, <1>5

\* An empty log stands for the run that begins and does not go on.
LEMMA ExplainedEmpty == Explained(<<>>) = RunOut(FreshRun)
<1>1. Len(<<>>) = 0
  BY SMT
<1>2. PICK g : Explained(<<>>) = g[Len(<<>>)] /\ g[0] = RunOut(FreshRun)
  BY <1>1, ExplainedIsLast
<1> QED
  BY <1>1, <1>2

\* One record more is one step more.
LEMMA ExplainedAppend ==
    ASSUME NEW s \in Seq(LogRecord), NEW rec \in LogRecord
    PROVE  Explained(Append(s, rec)) = After(Explained(s), rec)
<1> DEFINE n == Len(s)  t == Append(s, rec)
<1>1. n \in Nat /\ Len(t) = n + 1 /\ t[n + 1] = rec /\ \A i \in 1 .. n : t[i] = s[i]
  BY SMT
<1>2. PICK g : /\ Explained(s) = g[n] /\ g[0] = RunOut(FreshRun)
               /\ \A i \in 1 .. n : g[i] = After(g[i - 1], s[i])
  BY <1>1, ExplainedIsLast
<1> HIDE DEF t
<1>3. PICK h : /\ Explained(t) = h[n + 1] /\ h[0] = RunOut(FreshRun)
               /\ \A i \in 1 .. n + 1 : h[i] = After(h[i - 1], t[i])
  <2>1. Len(t) \in Nat
    BY <1>1, SMT
  <2>2. PICK h : /\ Explained(t) = h[Len(t)] /\ h[0] = RunOut(FreshRun)
                 /\ \A i \in 1 .. Len(t) : h[i] = After(h[i - 1], t[i])
    BY <2>1, ExplainedIsLast
  <2> QED
    BY <1>1, <2>2
<1> DEFINE S == {i \in Nat : i <= n => h[i] = g[i]}
<1> HIDE DEF n
<1>4. 0 \in S
  BY <1>2, <1>3
<1>5. ASSUME NEW i \in Nat, i \in S PROVE i + 1 \in S
  <2> SUFFICES ASSUME i + 1 <= n PROVE h[i + 1] = g[i + 1]
    BY SMT
  <2>1. i <= n /\ i + 1 \in 1 .. n /\ i + 1 \in 1 .. n + 1 /\ (i + 1) - 1 = i
    BY <1>1, SMT
  <2>2. h[i] = g[i] /\ t[i + 1] = s[i + 1]
    BY <1>1, <1>5, <2>1
  <2>3. g[i + 1] = After(g[i], s[i + 1])
    BY <1>2, <2>1
  <2>4. h[i + 1] = After(h[i], t[i + 1])
    BY <1>3, <2>1
  <2> QED
    BY <2>2, <2>3, <2>4
<1>6. Nat \subseteq S
  <2> HIDE DEF S
  <2> QED
    BY <1>4, <1>5, SetInduction
<1>7. h[n] = g[n]
  BY <1>1, <1>6, SMT
<1>8. h[n + 1] = After(h[n], rec)
  <2>1. n + 1 \in 1 .. n + 1 /\ (n + 1) - 1 = n
    BY <1>1, SMT
  <2> QED
    BY <1>1, <1>3, <2>1
<1> QED
  BY <1>2, <1>3, <1>7, <1>8 DEF t

-----------------------------------------------------------------------------
(* The operations on a run keep it well formed. *)

\* The run begins well formed.
LEMMA FreshWellFormed == WellFormed(FreshRun)
<1> DEFINE n == Cardinality(Fibers)
<1>1. n \in Nat /\ n >= 1 /\ Fibers = 0 .. n - 1 /\ Calls \in [Fibers -> Nat]
  BY ReplayAssumption, SMT
<1> HIDE DEF n
<1> DEFINE q == [i \in 1 .. n |-> i - 1]
<1>2. q \in Seq(Fibers) /\ DOMAIN q = 1 .. n /\ \A i \in 1 .. n : q[i] = i - 1
  BY <1>1, SMT
<1>3. Order = q
  BY DEF Order, n
<1> HIDE DEF q
<1>4. IsInjective(q)
  BY <1>1, <1>2, SMT DEF IsInjective
<1>5. Range(q) \subseteq Fibers
  BY <1>2, SeqRange
<1>6. IsArena(NewMeters(Budget)) /\ NewMeters(Budget) \in Seq(Meter)
  <2> DEFINE slot == [remaining |-> Budget, parent |-> NoParent]  ms == <<slot>>
  <2>1. slot \in Meter /\ slot.parent = NoParent
    BY ReplayAssumption, SMT DEF Meter, NoParent
  <2> HIDE DEF slot
  <2>2. ms \in Seq(Meter) /\ Len(ms) = 1 /\ ms[1] = slot
    BY <2>1, SMT
  <2> HIDE DEF ms
  <2>3. IsArena(ms)
    BY <2>1, <2>2, SMT DEF IsArena, Root
  <2> QED
    BY <2>2, <2>3 DEF NewMeters, ms, slot
<1> DEFINE r == FreshRun
<1>7. /\ r.queue = q /\ r.status = [f \in Fibers |-> "ready"]
      /\ r.asked = [f \in Fibers |-> 0] /\ r.meters = NewMeters(Budget)
  BY <1>3 DEF FreshRun
<1>8. r \in RunState
  <2>1. <<>> \in Seq(Observed)
    OBVIOUS
  <2>2. /\ [f \in Fibers |-> "ready"] \in [Fibers -> {"ready", "blocked", "finished"}]
        /\ [f \in Fibers |-> 0] \in [Fibers -> Nat]
        /\ [f \in Fibers |-> Nothing] \in [Fibers -> Answers \cup {Nothing}]
    OBVIOUS
  <2> QED
    BY <1>2, <1>3, <1>6, <2>1, <2>2 DEF FreshRun, RunState
<1> HIDE DEF r
<1>9. \A f \in Fibers : r.status[f] = "ready" /\ r.asked[f] = 0 /\ Calls[f] \in Nat
  BY <1>1, <1>7
<1>10. \A f \in Fibers : r.asked[f] <= Calls[f]
  BY <1>9, SMT
<1> QED
  BY <1>4, <1>5, <1>6, <1>7, <1>8, <1>9, <1>10 DEF WellFormed, r

\* The fields of a well-formed run.
LEMMA WellFormedFields ==
    ASSUME NEW r, WellFormed(r)
    PROVE  /\ r \in RunState /\ r.queue \in Seq(Fibers)
           /\ r.status \in [Fibers -> {"ready", "blocked", "finished"}]
           /\ r.asked \in [Fibers -> Nat] /\ r.inbox \in [Fibers -> Answers \cup {Nothing}]
           /\ r.meters \in Seq(Meter) /\ r.trace \in Seq(Observed)
           /\ IsArena(r.meters) /\ IsInjective(r.queue)
           /\ \A f \in Range(r.queue) : r.status[f] = "ready"
           /\ \A f \in Fibers : r.asked[f] <= Calls[f]
BY DEF WellFormed, RunState

\* A turn keeps it so.
LEMMA TurnWellFormed ==
    ASSUME NEW r, WellFormed(r), ~AtRest(r)
    PROVE  WellFormed(Turn(r))
<1> USE WellFormedFields
<1>1. r.queue # <<>>
  BY DEF AtRest
<1> DEFINE f == Head(r.queue)  t == Turn(r)
           stat == [r.status EXCEPT ![f] = IF r.asked[f] < Calls[f] THEN "blocked" ELSE "finished"]
           ask == IF r.asked[f] < Calls[f] THEN [r.asked EXCEPT ![f] = @ + 1] ELSE r.asked
           ms == Charge(r.meters, Root, 1)
           seen == Append(r.trace, <<f, r.inbox[f]>>)
<1>2. /\ f \in Fibers /\ f \in Range(r.queue) /\ Tail(r.queue) \in Seq(Fibers)
      /\ Range(Tail(r.queue)) = Range(r.queue) \ {f} /\ IsInjective(Tail(r.queue))
  BY <1>1, PopFront
<1>3. Range(r.queue) \subseteq Fibers
  BY SeqRange
<1>4. /\ t.queue = Tail(r.queue) /\ t.status = stat /\ t.asked = ask
      /\ t.meters = ms
  BY DEF Turn
<1>5. IsArena(ms) /\ ms \in Seq(Meter)
  <2>1. Root \in 1 .. Len(r.meters)
    BY SMT DEF IsArena, Root
  <2>2. IsArena(ms)
    BY <2>1, ChargeArena
  <2> QED
    BY <2>2 DEF IsArena
<1>6. stat \in [Fibers -> {"ready", "blocked", "finished"}]
  BY <1>2
<1>7. \A g \in Fibers : g # f => stat[g] = r.status[g]
  BY <1>2
<1>8. ask \in [Fibers -> Nat] /\ \A g \in Fibers : ask[g] <= Calls[g]
  <2>1. \A g \in Fibers : r.asked[g] \in Nat /\ Calls[g] \in Nat /\ r.asked[g] <= Calls[g]
    BY ReplayAssumption
  <2>2. CASE r.asked[f] < Calls[f]
    <3>1. ask = [r.asked EXCEPT ![f] = @ + 1]
      BY <2>2
    <3>2. r.asked[f] + 1 \in Nat /\ r.asked[f] + 1 <= Calls[f]
      BY <1>2, <2>1, <2>2, SMT
    <3> HIDE DEF ask, f
    <3> QED
      BY <1>2, <2>1, <3>1, <3>2
  <2>3. CASE ~(r.asked[f] < Calls[f])
    BY <2>1, <2>3
  <2> QED
    BY <2>2, <2>3
<1>9. seen \in Seq(Observed)
  <2>1. <<f, r.inbox[f]>> \in Observed
    BY <1>2 DEF Observed
  <2> HIDE DEF f
  <2> QED
    BY <2>1
<1>10. [r.inbox EXCEPT ![f] = Nothing] \in [Fibers -> Answers \cup {Nothing}]
  BY <1>2
<1>11. t \in RunState
  <2>1. t = [queue |-> Tail(r.queue), status |-> stat, asked |-> ask,
             inbox |-> [r.inbox EXCEPT ![f] = Nothing], meters |-> ms, trace |-> seen]
    BY DEF Turn
  <2> HIDE DEF t, stat, ask, ms, seen, f
  <2> QED
    BY <1>2, <1>5, <1>6, <1>8, <1>9, <1>10, <2>1 DEF RunState
<1>12. \A g \in Range(t.queue) : t.status[g] = "ready"
  <2> HIDE DEF t, stat, f
  <2> QED
    BY <1>2, <1>3, <1>4, <1>7
<1> HIDE DEF t, stat, ask, ms, f
<1> QED
  BY <1>2, <1>4, <1>5, <1>8, <1>11, <1>12 DEF WellFormed, t

\* So does one that ends in an error: the fiber that took it is not queued any more.
LEMMA UnsavedWellFormed ==
    ASSUME NEW r, WellFormed(r), ~AtRest(r)
    PROVE  WellFormed(Unsaved(r))
<1>1. r.queue # <<>>
  BY DEF AtRest
<1> DEFINE f == Head(r.queue)  t == Turn(r)  u == Unsaved(r)
           stat == [t.status EXCEPT ![f] = "finished"]
           seen == Append(r.trace, <<f, "err">>)
<1>2. /\ r.queue \in Seq(Fibers) /\ IsInjective(r.queue) /\ r.asked \in [Fibers -> Nat]
      /\ r.trace \in Seq(Observed) /\ \A g \in Fibers : r.asked[g] <= Calls[g]
  BY WellFormedFields
<1>3. f \in Fibers /\ Range(Tail(r.queue)) = Range(r.queue) \ {f}
  BY <1>1, <1>2, PopFront
<1>4. WellFormed(t) /\ t.queue = Tail(r.queue)
  BY TurnWellFormed DEF Turn
<1>5. /\ t \in RunState /\ t.queue \in Seq(Fibers) /\ IsInjective(t.queue)
      /\ t.status \in [Fibers -> {"ready", "blocked", "finished"}]
      /\ t.inbox \in [Fibers -> Answers \cup {Nothing}]
      /\ t.meters \in Seq(Meter) /\ IsArena(t.meters)
      /\ \A g \in Range(t.queue) : t.status[g] = "ready"
  BY <1>4, WellFormedFields
<1>6. seen \in Seq(Observed)
  <2>1. <<f, "err">> \in Observed
    BY <1>3 DEF Observed
  <2> HIDE DEF f
  <2> QED
    BY <1>2, <2>1
<1>7. /\ stat \in [Fibers -> {"ready", "blocked", "finished"}]
      /\ \A g \in Range(t.queue) : stat[g] = "ready"
  <2>1. Range(t.queue) \subseteq Fibers /\ f \notin Range(t.queue)
    BY <1>3, <1>4, <1>5, SeqRange
  <2> HIDE DEF t, f
  <2> QED
    BY <1>3, <1>5, <2>1
<1>8. u = [t EXCEPT !.status = stat, !.asked = r.asked, !.trace = seen]
  BY DEF Unsaved
<1> HIDE DEF t, u, stat, seen, f
<1>9. u = [queue |-> t.queue, status |-> stat, asked |-> r.asked,
           inbox |-> t.inbox, meters |-> t.meters, trace |-> seen]
  BY <1>5, <1>8 DEF RunState
<1>10. u \in RunState
  BY <1>2, <1>5, <1>6, <1>7, <1>9 DEF RunState
<1> QED
  BY <1>2, <1>5, <1>7, <1>9, <1>10 DEF WellFormed, u

\* An answer keeps it so: a fiber that waits for the host is not queued.
LEMMA AnsweredWellFormed ==
    ASSUME NEW r, WellFormed(r), NEW f \in Blocked(r), NEW a \in Answers
    PROVE  WellFormed(Answered(r, f, a)) /\ Answered(r, f, a).queue # <<>>
<1> USE WellFormedFields
<1> DEFINE t == Answered(r, f, a)
           stat == [r.status EXCEPT ![f] = "ready"]
           box == [r.inbox EXCEPT ![f] = a]
<1>1. f \in Fibers /\ r.status[f] = "blocked"
  BY DEF Blocked
<1>2. f \notin Range(r.queue)
  BY <1>1
<1>3. /\ Append(r.queue, f) \in Seq(Fibers) /\ Append(r.queue, f) # <<>>
      /\ Range(Append(r.queue, f)) = Range(r.queue) \cup {f} /\ IsInjective(Append(r.queue, f))
  BY <1>1, <1>2, PushBack
<1>4. Range(r.queue) \subseteq Fibers
  BY SeqRange
<1>5. stat \in [Fibers -> {"ready", "blocked", "finished"}] /\ box \in [Fibers -> Answers \cup {Nothing}]
  BY <1>1
<1>6. t = [r EXCEPT !.status = stat, !.inbox = box, !.queue = Append(r.queue, f)]
  BY DEF Answered
<1>7. stat[f] = "ready" /\ \A g \in Fibers : g # f => stat[g] = r.status[g]
  BY <1>1
<1> HIDE DEF t, stat, box
<1>8. /\ t \in RunState /\ t.queue = Append(r.queue, f) /\ t.status = stat
      /\ t.asked = r.asked /\ t.meters = r.meters
  <2>1. t = [queue |-> Append(r.queue, f), status |-> stat, asked |-> r.asked,
             inbox |-> box, meters |-> r.meters, trace |-> r.trace]
    <3>1. /\ r = [queue |-> r.queue, status |-> r.status, asked |-> r.asked,
                  inbox |-> r.inbox, meters |-> r.meters, trace |-> r.trace]
      BY DEF RunState
    <3> DEFINE q == Append(r.queue, f)
    <3> HIDE DEF q
    <3>2. t = [r EXCEPT !.status = stat, !.inbox = box, !.queue = q]
      BY <1>6 DEF q
    <3>3. t = [queue |-> q, status |-> stat, asked |-> r.asked,
               inbox |-> box, meters |-> r.meters, trace |-> r.trace]
      BY <3>1, <3>2, Zenon
    <3> QED
      BY <3>3 DEF q
  <2> QED
    BY <1>3, <1>5, <2>1 DEF RunState
<1>9. \A g \in Range(t.queue) : t.status[g] = "ready"
  BY <1>3, <1>4, <1>7, <1>8
<1> QED
  BY <1>3, <1>8, <1>9 DEF WellFormed, t

\* A refuel changes nothing but the meters.
LEMMA RefuelledWellFormed ==
    ASSUME NEW r, WellFormed(r), NEW amount \in Refuels
    PROVE  /\ WellFormed(Refuelled(r, amount))
           /\ Refuelled(r, amount).queue = r.queue /\ Refuelled(r, amount).status = r.status
           /\ Refuelled(r, amount).trace = r.trace
<1> USE WellFormedFields
<1> DEFINE t == Refuelled(r, amount)  ms == AddFuelTo(r.meters, Root, amount)
<1>1. IsArena(ms) /\ ms \in Seq(Meter)
  <2>1. Root \in 1 .. Len(r.meters) /\ amount \in Nat
    BY ReplayAssumption, SMT DEF IsArena, Root, Fuels
  <2>2. IsArena(ms)
    BY <2>1, AddArena
  <2> QED
    BY <2>2 DEF IsArena
<1>2. t = [r EXCEPT !.meters = ms]
  BY DEF Refuelled
<1> HIDE DEF t, ms
<1>3. /\ t \in RunState /\ t.queue = r.queue /\ t.status = r.status /\ t.asked = r.asked
      /\ t.meters = ms /\ t.trace = r.trace
  <2>1. t = [queue |-> r.queue, status |-> r.status, asked |-> r.asked,
             inbox |-> r.inbox, meters |-> ms, trace |-> r.trace]
    BY <1>2 DEF RunState
  <2> QED
    BY <1>1, <2>1 DEF RunState
<1> QED
  BY <1>1, <1>3 DEF WellFormed, t

-----------------------------------------------------------------------------
(* What is appended, and what becomes of the file. *)

\* The events that are logged have their types.
LEMMA EventsTyped ==
    ASSUME TypeOK
    PROVE  /\ \A f \in Fibers, a \in Answers : HostAnswer(f, a) \in Event
           /\ ContinueEvent \in Event /\ DoneEvent \in Event
           /\ \A n \in Refuels : Refuel(n) \in Event
           /\ \A ev \in Appending : ev \in Event
<1>1. rt.asked \in [Fibers -> Nat] /\ outcome.val \in Seq(Observed)
  BY WellFormedFields DEF TypeOK, Outcome
<1>2. \A f \in Fibers, a \in Answers : HostAnswer(f, a) \in Event
  BY <1>1 DEF HostAnswer, Event
<1>3. ContinueEvent \in Event
  BY DEF ContinueEvent, Event
<1>4. DoneEvent \in Event
  BY <1>1 DEF DoneEvent, Event
<1>5. \A n \in Refuels : Refuel(n) \in Event
  BY DEF Refuel, Event
<1>6. Blocked(rt) \subseteq Fibers
  BY DEF Blocked
<1>7. ASSUME NEW ev \in Appending PROVE ev \in Event
  <2> DEFINE fromHost == {HostAnswer(f, a) : f \in Blocked(rt), a \in Answers}
                         \cup (IF Dry(rt) THEN {Refuel(n) : n \in Refuels} ELSE {})
                         \cup (IF done_written THEN {} ELSE {ContinueEvent})
  <2>1. Appending = {} \/ Appending = {DoneEvent} \/ Appending = {ContinueEvent}
        \/ Appending = fromHost
    BY DEF Appending
  <2>2. fromHost \subseteq Event
    BY <1>2, <1>3, <1>5, <1>6
  <2> HIDE DEF fromHost
  <2> QED
    BY <1>3, <1>4, <1>7, <2>1, <2>2
<1> QED
  BY <1>2, <1>3, <1>4, <1>5, <1>7

\* So have their records, whole or torn.
LEMMA RecordTyped ==
    ASSUME TypeOK, NEW ev \in Event
    PROVE  /\ Record(ev) \in LogRecord /\ Torn(ev) \in LogRecord
           /\ Record(ev) = [stamp |-> Steps(rt), ev |-> ev, whole |-> TRUE]
           /\ Torn(ev) = [stamp |-> Steps(rt), ev |-> ev, whole |-> FALSE]
<1>1. Steps(rt) \in Nat
  <2>1. rt.trace \in Seq(Observed)
    BY WellFormedFields DEF TypeOK
  <2> QED
    BY <2>1 DEF Steps
<1>2. Record(ev) = [stamp |-> Steps(rt), ev |-> ev, whole |-> TRUE]
  BY DEF Record
<1>3. Torn(ev) = [stamp |-> Steps(rt), ev |-> ev, whole |-> FALSE]
  BY DEF Torn
<1> QED
  BY <1>1, <1>2, <1>3 DEF LogRecord

\* The file stays, grows by a record, loses a torn tail, or is made anew.
LEMMA FileMoves ==
    ASSUME TypeOK, Next
    PROVE  \/ file' = file
           \/ \E rec \in LogRecord : file' = Append(file, rec)
           \/ file' = Events
           \/ mode = "armed" /\ file' = <<>>
<1> USE EventsTyped, RecordTyped
<1> DEFINE Grows == \E rec \in LogRecord : file' = Append(file, rec)
<1>1. \A ev \in Event : Logged(ev) => Grows
  BY DEF Logged
<1>2. \A ev \in Event : file' \in {Left(ev, what) : what \in {"nothing", "torn", "whole"}}
            => file' = file \/ Grows
  BY DEF Left
<1> HIDE DEF Grows
<1>3. CASE Starting
  BY <1>3 DEF Starting, Start, StartFails, RecordTo, RunUnrecorded, logVars
<1>4. ASSUME NEW f \in Fibers, NEW a \in Answers, ResumeWith(f, a) PROVE Grows
  BY <1>1, <1>4 DEF ResumeWith
<1>5. ASSUME NEW amount \in Refuels, AddFuel(amount) PROVE Grows
  BY <1>1, <1>5 DEF AddFuel
<1>6. CASE Continue
  BY <1>1, <1>6 DEF Continue, logVars, Grows
<1>7. CASE SchedulerTurn \/ SchedulerReturns \/ SnapshotFails
  BY <1>7 DEF SchedulerTurn, SchedulerReturns, SnapshotFails, logVars
<1>8. CASE FinishRun
  BY <1>1, <1>8 DEF FinishRun, logVars, Grows
<1>9. CASE Crash
  <2>1. CASE UNCHANGED file
    BY <2>1
  <2>2. CASE \E ev \in Appending, what \in {"torn", "whole"} : file' = Left(ev, what)
    <3>1. PICK ev \in Appending : \E what \in {"torn", "whole"} : file' = Left(ev, what)
      BY <2>2
    <3>2. file' \in {Left(ev, what) : what \in {"nothing", "torn", "whole"}}
      BY <3>1
    <3> QED
      BY <1>2, <3>2 DEF Grows
  <2> QED
    BY <1>9, <2>1, <2>2 DEF Crash
<1>10. CASE CrashInHeader
  BY <1>10 DEF CrashInHeader
<1>11. CASE AppendFailure
  <2>1. PICK ev \in Appending : \E what \in FailedLeaves : file' = Left(ev, what)
    BY <1>11 DEF AppendFailure
  <2>2. file' \in {Left(ev, what) : what \in {"nothing", "torn", "whole"}}
    BY <2>1, ReplayAssumption
  <2> QED
    BY <1>2, <2>2 DEF Grows
<1>12. CASE BeginReplay \/ ReplayEvent \/ RefuseLog \/ StartOver
  BY <1>12 DEF BeginReplay, ReplayEvent, RefuseLog, StartOver, logVars
<1>13. CASE CaughtUp
  BY <1>13 DEF CaughtUp, Truncated
<1> QED
  BY <1>3, <1>4, <1>5, <1>6, <1>7, <1>8, <1>9, <1>10, <1>11, <1>12, <1>13
     DEF Next, HostCall, Running, Recovery, Grows

\* The complete records of a file are complete records.
LEMMA EventsInLog ==
    ASSUME TypeOK
    PROVE  Cut(file, Events) /\ Events \in Seq(LogRecord) /\ Len(Events) \in Nat
<1>1. file \in Seq(LogRecord)
  BY DEF TypeOK
<1> QED
  BY <1>1, WholeCut, EventsWhole DEF Cut

\* An empty file has no complete record.
LEMMA EventsNone ==
    /\ file = <<>> => Events = <<>>
    /\ file' = <<>> => Events' = <<>>
<1> DEFINE none == <<>>
<1>1. none \in Seq(LogRecord) /\ Len(none) = 0 /\ \A i \in 1 .. 0 : none[i].whole
  BY SMT
<1>2. WholeOf(none) = none
  <2> HIDE DEF none
  <2>1. \A i \in 1 .. Len(none) : none[i].whole
    BY <1>1, SMT
  <2> QED
    BY <1>1, <2>1, WholeAll
<1> QED
  BY <1>2, EventsWhole

\* Whatever happens to the file, its complete records stay the beginning of it.
LEMMA EventsGrow ==
    ASSUME TypeOK, Next
    PROVE  /\ file' \in Seq(LogRecord) /\ Events' \in Seq(LogRecord) /\ Len(Events)' \in Nat
           /\ mode # "armed" => IsPrefix(Events, Events') /\ Len(Events) <= Len(Events)'
<1> DEFINE e == Events  d == Events'
<1>1. file \in Seq(LogRecord)
  BY DEF TypeOK
<1>2. e = WholeOf(file) /\ d = WholeOf(file') /\ e \in Seq(LogRecord) /\ Len(e) \in Nat
  BY EventsWhole, EventsInLog
<1> HIDE DEF e, d
<1>3. IsPrefix(e, e) /\ Len(e) <= Len(e)
  BY <1>2, PrefixByElements
<1>4. CASE file' = file
  BY <1>1, <1>2, <1>3, <1>4 DEF e, d
<1>5. CASE \E rec \in LogRecord : file' = Append(file, rec)
  <2>1. PICK rec \in LogRecord : file' = Append(file, rec)
    BY <1>5
  <2>2. file' \in Seq(LogRecord) /\ IsPrefix(e, d) /\ Len(e) <= Len(d)
    BY <1>1, <1>2, <2>1, WholeAppend
  <2>3. d \in Seq(LogRecord) /\ Len(d) \in Nat
    BY <1>2, <2>2, WholeCut DEF Cut
  <2> QED
    BY <2>2, <2>3 DEF e, d
<1>6. CASE file' = Events
  <2>1. d = e
    BY <1>1, <1>2, <1>6, WholeAgain DEF e
  <2> QED
    BY <1>2, <1>3, <1>6, <2>1 DEF e, d
<1>7. CASE mode = "armed" /\ file' = <<>>
  <2>1. file' \in Seq(LogRecord)
    BY <1>7
  <2> QED
    BY <1>2, <1>7, <2>1, WholeCut DEF Cut, e, d
<1> QED
  BY <1>4, <1>5, <1>6, <1>7, FileMoves

-----------------------------------------------------------------------------
(* Type correctness. *)

\* Nothing was evaluated in the process that was or is to be armed.
Idle == mode \in {"armed", "off", "unrecorded"}

\* Only a recorded run has a header and puts records behind it, and a recovery goes
\* on in a process.
Unstarted ==
    /\ Idle \/ header # "whole" => file = <<>>
    /\ Alive => header = "whole"
    /\ Idle \/ mode = "dead" => cursor = 0
    /\ mode = "replaying" => cursor >= 1

TypeInv == TypeOK /\ Unstarted

\* An outcome of the scheduler has its type.
LEMMA OutcomeTyped ==
    ASSUME NEW r, WellFormed(r)
    PROVE  /\ OutcomeOf(r) \in Outcome
           /\ OutcomeOf(r).kind = "Done" <=> r.queue = <<>> /\ Blocked(r) = {}
           /\ OutcomeOf(r).kind = "Done" => OutcomeOf(r) = [kind |-> "Done", val |-> r.trace]
<1>1. r.trace \in Seq(Observed) /\ <<>> \in Seq(Observed)
  BY WellFormedFields
<1>2. CASE r.queue # <<>>
  BY <1>1, <1>2 DEF OutcomeOf, Outcome
<1>3. CASE r.queue = <<>> /\ Blocked(r) # {}
  BY <1>1, <1>3 DEF OutcomeOf, Outcome
<1>4. CASE r.queue = <<>> /\ Blocked(r) = {}
  BY <1>1, <1>4 DEF OutcomeOf, Outcome
<1> QED
  BY <1>2, <1>3, <1>4

\* The program begins well typed.
LEMMA TypeInit == Init => TypeInv
<1> SUFFICES ASSUME Init PROVE TypeInv
  OBVIOUS
<1>1. file \in Seq(LogRecord)
  BY DEF Init
<1>2. Len(Events) \in Nat
  BY <1>1, WholeCut, EventsWhole DEF Cut
<1>3. outcome \in Outcome
  BY DEF Init, Outcome
<1>4. cursor \in 0 .. Len(Events) + 1 /\ crashes \in 0 .. MaxCrashes /\ h_saved \in BOOLEAN
  BY <1>2, ReplayAssumption, SMT DEF Init
<1> QED
  BY <1>1, <1>3, <1>4, FreshWellFormed DEF Init, TypeInv, TypeOK, Unstarted, Idle, Alive

\* The cursor stays in the log, or behind its end.
LEMMA CursorTyped ==
    ASSUME TypeInv, Next,
           \/ cursor' = cursor \/ cursor' = 0
           \/ mode # "armed" /\ cursor \in 0 .. Len(Events) /\ cursor' = cursor + 1
    PROVE  cursor' \in 0 .. Len(Events)' + 1
<1>1. Len(Events) \in Nat /\ Len(Events)' \in Nat
  BY EventsInLog, EventsGrow DEF TypeInv
<1>2. mode # "armed" => Len(Events) <= Len(Events)'
  BY EventsGrow DEF TypeInv
<1>3. cursor \in 0 .. Len(Events) + 1 /\ (mode = "armed" => cursor = 0)
  BY DEF TypeInv, TypeOK, Unstarted, Idle
<1> QED
  BY <1>1, <1>2, <1>3, SMT

\* What the host and the log do to a run.
LEMMA MovesWellFormed ==
    ASSUME TypeOK
    PROVE  /\ \A f \in Blocked(rt), a \in Answers : WellFormed(Answered(rt, f, a))
           /\ \A amount \in Refuels : WellFormed(Refuelled(rt, amount))
           /\ ~AtRest(rt) => WellFormed(Turn(rt)) /\ WellFormed(Unsaved(rt))
BY AnsweredWellFormed, RefuelledWellFormed, TurnWellFormed, UnsavedWellFormed DEF TypeOK

\* The event a recovery looks at.
LEMMA NextTyped ==
    ASSUME TypeOK, cursor >= 1, cursor <= Len(Events)
    PROVE  /\ cursor \in 1 .. Len(Events) /\ NextRecord \in LogRecord
           /\ NextRecord.ev \in Event /\ NextRecord.stamp \in Nat
           /\ NextRecord.ev.kind \in {"answer", "continue", "refuel", "done"}
           /\ NextRecord.ev.kind = "answer" => NextRecord.ev.answer \in Answers
           /\ NextRecord.ev.kind = "refuel" => NextRecord.ev.amount \in Refuels
<1>1. cursor \in 1 .. Len(Events)
  <2>1. Len(Events) \in Nat /\ cursor \in 0 .. Len(Events) + 1
    BY EventsInLog DEF TypeOK
  <2> QED
    BY <2>1, SMT
<1>2. NextRecord \in LogRecord
  BY <1>1, EventsInLog DEF NextRecord
<1>3. NextRecord.ev \in Event /\ NextRecord.stamp \in Nat
  BY <1>2 DEF LogRecord
<1> DEFINE ev == NextRecord.ev
<1> HIDE DEF ev
<1>4. ev \in Event => /\ ev.kind \in {"answer", "continue", "refuel", "done"}
                      /\ ev.kind = "answer" => ev.answer \in Answers
                      /\ ev.kind = "refuel" => ev.amount \in Refuels
  BY DEF Event
<1> QED
  BY <1>1, <1>2, <1>3, <1>4 DEF ev

\* A replayed event keeps the types.
LEMMA ApplyTyped ==
    ASSUME TypeOK, cursor >= 1, cursor <= Len(Events), Matches(NextRecord.ev),
           Apply(NextRecord.ev)
    PROVE  /\ mode' = mode /\ WellFormed(rt') /\ entry' \in {"sched", "host"}
           /\ unflushed' \in BOOLEAN /\ done_written' \in BOOLEAN
           /\ cursor' = cursor + 1 /\ cursor \in 0 .. Len(Events)
<1> DEFINE ev == NextRecord.ev
<1>1. /\ cursor \in 1 .. Len(Events) /\ ev.kind \in {"answer", "continue", "refuel", "done"}
      /\ ev.kind = "answer" => ev.answer \in Answers
      /\ ev.kind = "refuel" => ev.amount \in Refuels
  BY NextTyped
<1>2. ev.kind = "answer" => ev.fiber \in Blocked(rt)
  BY DEF Matches
<1>3. Apply(ev)
  OBVIOUS
<1> HIDE DEF ev
<1>4. /\ mode' = mode /\ cursor' = cursor + 1 /\ entry' \in {"sched", "host"}
      /\ done_written' \in BOOLEAN
  BY <1>3 DEF Apply
<1>5. unflushed' \in BOOLEAN
  BY <1>1, <1>3 DEF Apply, MeansToResume, TypeOK
<1>6. WellFormed(rt')
  <2>1. CASE ev.kind = "answer"
    BY <1>1, <1>2, <1>3, <2>1, MovesWellFormed DEF Apply
  <2>2. CASE ev.kind = "refuel"
    BY <1>1, <1>3, <2>2, MovesWellFormed DEF Apply
  <2>3. CASE ev.kind \notin {"answer", "refuel"}
    <3>1. rt' = rt
      BY <1>3, <2>3 DEF Apply
    <3> QED
      BY <3>1 DEF TypeOK
  <2> QED
    BY <2>1, <2>2, <2>3
<1>7. cursor \in 0 .. Len(Events)
  BY <1>1, EventsInLog, SMT
<1> QED
  BY <1>4, <1>5, <1>6, <1>7

\* Every step keeps the types.
LEMMA TypeStep == TypeInv /\ [Next]_vars => TypeInv'
<1> SUFFICES ASSUME TypeInv, [Next]_vars PROVE TypeInv'
  OBVIOUS
<1>1. TypeOK
  BY DEF TypeInv
<1>2. CASE UNCHANGED vars
  <2>1. Events' = Events
    BY <1>2, EventsWhole DEF vars, logVars
  <2> QED
    BY <1>2, <2>1 DEF vars, logVars, TypeInv, TypeOK, Unstarted, Idle, Alive
<1>3. CASE Next
  <2>1. file' \in Seq(LogRecord)
    BY <1>1, <1>3, EventsGrow
  \* What is left to show of an action.
  <2> DEFINE Same == /\ mode' = mode /\ header' = header /\ cursor' = cursor
                     /\ file' = file \/ Alive
             Typed == /\ mode' \in {"armed", "off", "unrecorded", "recording", "replaying",
                                   "dead", "refused", "diverged"}
                      /\ header' \in {"none", "torn", "whole"}
                      /\ done_written' \in BOOLEAN /\ unflushed' \in BOOLEAN
                      /\ WellFormed(rt')
                      /\ entry' \in {"host", "sched", "finish", "resume"}
                      /\ outcome' \in Outcome
                      /\ crashes' \in 0 .. MaxCrashes /\ h_saved' \in BOOLEAN
             Moved == \/ cursor' = cursor \/ cursor' = 0
                      \/ mode # "armed" /\ cursor \in 0 .. Len(Events) /\ cursor' = cursor + 1
  <2>2. Typed /\ Moved /\ Unstarted' => TypeInv'
    BY <1>3, <2>1, CursorTyped DEF TypeInv, TypeOK
  <2>3. Same => Moved /\ Unstarted'
    BY DEF TypeInv, Unstarted, Idle, Alive
  <2>4. /\ mode \in {"armed", "off", "unrecorded", "recording", "replaying", "dead",
                     "refused", "diverged"}
        /\ header \in {"none", "torn", "whole"}
        /\ done_written \in BOOLEAN /\ unflushed \in BOOLEAN /\ WellFormed(rt)
        /\ entry \in {"host", "sched", "finish", "resume"} /\ outcome \in Outcome
        /\ crashes \in 0 .. MaxCrashes /\ h_saved \in BOOLEAN
    BY <1>1 DEF TypeOK
  <2>5. /\ Idle \/ header # "whole" => file = <<>>
        /\ Alive => header = "whole"
        /\ Idle \/ mode = "dead" => cursor = 0
        /\ mode = "replaying" => cursor >= 1
    BY DEF TypeInv, Unstarted
  <2>6. crashes < MaxCrashes => crashes + 1 \in 0 .. MaxCrashes
    BY <2>4, ReplayAssumption, SMT
  <2>7. [kind |-> "Error", val |-> <<>>] \in Outcome
    BY DEF Outcome
  <2> HIDE DEF Same
  <2>8. CASE Start
    <3>1. Typed
      BY <2>4, <2>8, FreshWellFormed DEF Start
    <3>2. Moved /\ Unstarted'
      BY <2>5, <2>8 DEF Start, Unstarted, Idle, Alive
    <3> QED
      BY <2>2, <3>1, <3>2
  <2>9. ASSUME NEW f \in Fibers, NEW a \in Answers, ResumeWith(f, a) PROVE TypeInv'
    <3>1. Typed
      BY <1>1, <2>4, <2>9, MovesWellFormed DEF ResumeWith, Logged
    <3>2. Same
      BY <2>9 DEF ResumeWith, Logged, AtHost, Alive, Same
    <3> QED
      BY <2>2, <2>3, <3>1, <3>2
  <2>10. ASSUME NEW amount \in Refuels, AddFuel(amount) PROVE TypeInv'
    <3>1. Typed
      BY <1>1, <2>4, <2>10, MovesWellFormed DEF AddFuel, Logged
    <3>2. Same
      BY <2>10 DEF AddFuel, Logged, AtHost, Alive, Same
    <3> QED
      BY <2>2, <2>3, <3>1, <3>2
  <2>11. CASE Continue
    <3>1. Typed
      BY <2>4, <2>11 DEF Continue, Logged, logVars
    <3>2. Same
      BY <2>11 DEF Continue, Logged, logVars, AtHost, Alive, Same
    <3> QED
      BY <2>2, <2>3, <3>1, <3>2
  <2>12. CASE SchedulerTurn
    <3>1. Typed
      BY <1>1, <2>4, <2>12, MovesWellFormed DEF SchedulerTurn, logVars
    <3>2. Same
      BY <2>12 DEF SchedulerTurn, logVars, Same
    <3> QED
      BY <2>2, <2>3, <3>1, <3>2
  <2>13. CASE SchedulerReturns
    <3>1. Typed
      BY <2>4, <2>13, OutcomeTyped DEF SchedulerReturns, logVars
    <3>2. Same
      BY <2>13 DEF SchedulerReturns, logVars, Same
    <3> QED
      BY <2>2, <2>3, <3>1, <3>2
  <2>14. CASE FinishRun
    <3>1. Typed
      BY <2>4, <2>14 DEF FinishRun, Logged, logVars
    <3>2. Moved
      BY <2>14 DEF FinishRun
    <3>3. Unstarted'
      BY <2>5, <2>14 DEF FinishRun, Logged, logVars, Alive, Idle, Unstarted
    <3> QED
      BY <2>2, <3>1, <3>2, <3>3
  <2>15. CASE Crash
    <3>1. Typed
      BY <2>4, <2>6, <2>15 DEF Crash, Dead
    <3>2. Moved /\ Unstarted'
      BY <2>5, <2>15 DEF Crash, Dead, Unstarted, Idle, Alive
    <3> QED
      BY <2>2, <3>1, <3>2
  <2>16. CASE CrashInHeader
    <3>1. Typed
      BY <2>4, <2>6, <2>16 DEF CrashInHeader, Dead
    <3>2. Moved /\ Unstarted'
      BY <2>16 DEF CrashInHeader, Dead, Unstarted, Idle, Alive
    <3> QED
      BY <2>2, <3>1, <3>2
  <2>17. CASE AppendFailure
    <3>1. Typed
      BY <2>4, <2>7, <2>17 DEF AppendFailure, Dead
    <3>2. mode = "recording"
      <4>1. PICK ev \in Appending : TRUE
        BY <2>17 DEF AppendFailure
      <4> QED
        BY <4>1 DEF Appending, AtHost
    <3>3. Moved /\ Unstarted'
      BY <2>5, <2>17, <3>2 DEF AppendFailure, Dead, Unstarted, Idle, Alive
    <3> QED
      BY <2>2, <3>1, <3>3
  <2>18. CASE BeginReplay
    <3>1. Typed
      BY <2>4, <2>18, FreshWellFormed DEF BeginReplay, logVars
    <3>2. cursor = 0 /\ Len(Events) \in Nat /\ mode # "armed"
      BY <1>1, <2>5, <2>18, EventsInLog DEF BeginReplay
    <3>3. cursor' = 1 /\ mode' = "replaying" /\ header' = "whole"
      BY <2>18 DEF BeginReplay, logVars
    <3>4. Moved /\ Unstarted'
      BY <3>2, <3>3, SMT DEF Unstarted, Idle, Alive
    <3> QED
      BY <2>2, <3>1, <3>4
  <2>19. CASE ReplayEvent
    <3>1. /\ mode = "replaying" /\ cursor >= 1 /\ cursor <= Len(Events)
          /\ header' = header /\ header = "whole" /\ outcome' = outcome /\ crashes' = crashes
          /\ h_saved' = h_saved
      BY <2>5, <2>19 DEF ReplayEvent, Replaying, logVars, Alive
    <3>2. CASE Matches(NextRecord.ev) /\ Apply(NextRecord.ev)
      <4>1. /\ mode' = mode /\ WellFormed(rt') /\ entry' \in {"sched", "host"}
            /\ unflushed' \in BOOLEAN /\ done_written' \in BOOLEAN
            /\ cursor' = cursor + 1 /\ cursor \in 0 .. Len(Events)
        BY <1>1, <3>1, <3>2, ApplyTyped
      <4>2. Typed
        BY <2>4, <3>1, <4>1
      <4>3. Moved
        BY <3>1, <4>1
      <4>4. cursor' >= 1
        BY <3>1, <4>1, SMT
      <4>5. Unstarted'
        BY <3>1, <4>1, <4>4 DEF Unstarted, Idle, Alive
      <4> QED
        BY <2>2, <4>2, <4>3, <4>5
    <3>3. CASE Diverge
      <4>1. Typed
        BY <2>4, <3>1, <3>3 DEF Diverge
      <4>2. Moved /\ Unstarted'
        BY <3>1, <3>3 DEF Diverge, Unstarted, Idle, Alive
      <4> QED
        BY <2>2, <4>1, <4>2
    <3> QED
      BY <2>19, <3>2, <3>3 DEF ReplayEvent
  <2>20. CASE CaughtUp
    <3>1. Typed
      BY <2>4, <2>20 DEF CaughtUp
    <3>2. Moved /\ Unstarted'
      BY <2>5, <2>20 DEF CaughtUp, Replaying, Unstarted, Idle, Alive
    <3> QED
      BY <2>2, <3>1, <3>2
  <2>21. CASE RefuseLog
    <3>1. Typed
      BY <2>4, <2>21 DEF RefuseLog, logVars
    <3>2. Moved /\ Unstarted'
      BY <2>21 DEF RefuseLog, logVars, Unstarted, Idle, Alive
    <3> QED
      BY <2>2, <3>1, <3>2
  <2>22. CASE StartOver
    <3>1. Typed
      BY <2>4, <2>22 DEF StartOver, logVars
    <3>2. Moved /\ Unstarted'
      BY <2>5, <2>22 DEF StartOver, logVars, Unstarted, Idle, Alive
    <3> QED
      BY <2>2, <3>1, <3>2
  <2>23. CASE StartFails
    <3>1. Typed
      BY <2>4, <2>23 DEF StartFails
    <3>2. Moved /\ Unstarted'
      BY <2>5, <2>23 DEF StartFails, Unstarted, Idle, Alive
    <3> QED
      BY <2>2, <3>1, <3>2
  <2>24. CASE RecordTo \/ RunUnrecorded
    <3>1. Typed
      BY <2>4, <2>24 DEF RecordTo, RunUnrecorded, logVars
    <3>2. Moved /\ Unstarted'
      BY <2>5, <2>24 DEF RecordTo, RunUnrecorded, logVars, Unstarted, Idle, Alive
    <3> QED
      BY <2>2, <3>1, <3>2
  <2>25. CASE SnapshotFails
    <3>1. Typed
      BY <1>1, <2>4, <2>25, MovesWellFormed DEF SnapshotFails, logVars
    <3>2. Same
      BY <2>25 DEF SnapshotFails, logVars, Same
    <3> QED
      BY <2>2, <2>3, <3>1, <3>2
  <2> QED
    BY <1>3, <2>8, <2>9, <2>10, <2>11, <2>12, <2>13, <2>14, <2>15, <2>16, <2>17, <2>18,
       <2>19, <2>20, <2>21, <2>22, <2>23, <2>24, <2>25 DEF Next, Starting, HostCall, Running, Recovery
<1> QED
  BY <1>2, <1>3

\* Type correctness with what it rests on.
THEOREM TypeInvHolds == Spec => []TypeInv
<1> QED
  BY TypeInit, TypeStep, PTL DEF Spec

\* The log, the process and the run keep their types (ReplayProps!TypeOK): the
\* cursor of a recovery never leaves the log it reads.
THEOREM ReplayTypeCorrect == Spec => []TypeOK
<1>1. TypeInv => TypeOK
  BY DEF TypeInv
<1> QED
  BY <1>1, TypeInvHolds, PTL

-----------------------------------------------------------------------------
(* A complete record is never lost or changed. *)

\* HistoryOnlyGrows: whatever the host does, whatever a failed append leaves and
\* wherever the process dies, the complete records only get more.
THEOREM HistoryOnlyGrowsHolds == Spec => HistoryOnlyGrows
<1>1. ASSUME TypeInv, [Next]_vars PROVE header = "whole" => IsPrefix(Events, Events')
  <2>1. CASE Next
    <3>1. CASE mode # "armed"
      BY <1>1, <2>1, <3>1, EventsGrow DEF TypeInv
    <3>2. CASE mode = "armed"
      <4> DEFINE d == Events'
      <4>1. Events = <<>> /\ d \in Seq(LogRecord) /\ Len(d) \in Nat
        BY <1>1, <2>1, <3>2, EventsGrow, EventsNone DEF TypeInv, Unstarted, Idle
      <4> HIDE DEF d
      <4>2. IsPrefix(<<>>, d)
        <5> DEFINE none == <<>>
        <5>1. none \in Seq(LogRecord) /\ Len(none) = 0
          BY SMT
        <5> HIDE DEF none
        <5>2. Len(none) <= Len(d) /\ \A i \in 1 .. Len(none) : none[i] = d[i]
          BY <4>1, <5>1, SMT
        <5> QED
          BY <4>1, <5>1, <5>2, PrefixByElements DEF none
      <4> QED
        BY <4>1, <4>2 DEF d
    <3> QED
      BY <3>1, <3>2
  <2>2. CASE UNCHANGED vars
    <3>1. Events' = Events /\ Events \in Seq(LogRecord) /\ Len(Events) \in Nat
      BY <1>1, <2>2, EventsWhole, EventsInLog DEF TypeInv, vars, logVars
    <3> DEFINE e == Events  d == Events'
    <3>2. IsPrefix(e, e) /\ d = e
      <4> HIDE DEF e
      <4>1. e \in Seq(LogRecord) /\ Len(e) \in Nat
        BY <3>1 DEF e
      <4> QED
        BY <3>1, <4>1, PrefixByElements DEF e
    <3> QED
      BY <3>2
  <2> QED
    BY <1>1, <2>1, <2>2
<1>2. TypeInv /\ [Next]_vars => [header = "whole" => IsPrefix(Events, Events')]_vars
  BY <1>1
<1> QED
  BY <1>2, TypeInvHolds, PTL DEF Spec, HistoryOnlyGrows

-----------------------------------------------------------------------------
(* What the outcome says of the run. *)

\* No run was sealed before one was recorded.
HeaderFirst == Idle \/ header # "whole" => ~done_written

OutcomeInv == TypeInv /\ HeaderFirst /\ OutcomeCurrent

\* Fuel is no part of an outcome.
LEMMA OutcomeRefuelled ==
    ASSUME NEW r, WellFormed(r), NEW amount \in Refuels
    PROVE  OutcomeOf(Refuelled(r, amount)) = OutcomeOf(r)
<1> DEFINE t == Refuelled(r, amount)
<1>1. t.queue = r.queue /\ t.status = r.status /\ t.trace = r.trace
  BY RefuelledWellFormed
<1> HIDE DEF t
<1>2. Blocked(t) = Blocked(r)
  BY <1>1 DEF Blocked
<1> QED
  BY <1>1, <1>2 DEF OutcomeOf, t

\* An answer is only for a fiber that waits for one, so never after the end.
LEMMA OutcomeAnswered ==
    ASSUME NEW r, WellFormed(r), NEW f \in Blocked(r), NEW a \in Answers
    PROVE  OutcomeOf(r).kind # "Done" /\ OutcomeOf(Answered(r, f, a)).kind # "Done"
BY AnsweredWellFormed, OutcomeTyped

\* The header comes first.
LEMMA HeaderStep == TypeInv /\ HeaderFirst /\ [Next]_vars => HeaderFirst'
<1> SUFFICES ASSUME TypeInv, HeaderFirst, [Next]_vars PROVE HeaderFirst'
  OBVIOUS
<1> USE DEF HeaderFirst, Idle
<1>0. Alive => header = "whole"
  BY DEF TypeInv, Unstarted
<1>1. CASE UNCHANGED vars
  BY <1>1 DEF vars, logVars
<1>2. CASE Starting
  BY <1>2 DEF Starting, Start, StartFails, RecordTo, RunUnrecorded, logVars
<1>3. ASSUME NEW f \in Fibers, NEW a \in Answers, ResumeWith(f, a) PROVE HeaderFirst'
  BY <1>3 DEF ResumeWith, Logged
<1>4. ASSUME NEW amount \in Refuels, AddFuel(amount) PROVE HeaderFirst'
  BY <1>4 DEF AddFuel, Logged
<1>5. CASE Continue
  BY <1>5 DEF Continue, Logged, logVars
<1>6. CASE SchedulerTurn \/ SchedulerReturns \/ SnapshotFails
  BY <1>6 DEF SchedulerTurn, SchedulerReturns, SnapshotFails, logVars
<1>7. CASE FinishRun
  BY <1>0, <1>7 DEF FinishRun, Logged, logVars, Alive
<1>8. CASE Crash
  BY <1>8 DEF Crash, Dead
<1>9. CASE CrashInHeader
  BY <1>9 DEF CrashInHeader, Dead
<1>10. CASE AppendFailure
  BY <1>10 DEF AppendFailure, Dead
<1>11. CASE BeginReplay \/ RefuseLog \/ StartOver
  BY <1>11 DEF BeginReplay, RefuseLog, StartOver, logVars
<1>12. CASE ReplayEvent
  BY <1>0, <1>12 DEF ReplayEvent, Replaying, logVars, Apply, Diverge, Alive
<1>13. CASE CaughtUp
  BY <1>0, <1>13 DEF CaughtUp, Replaying, Alive
<1> QED
  BY <1>1, <1>2, <1>3, <1>4, <1>5, <1>6, <1>7, <1>8, <1>9, <1>10, <1>11, <1>12, <1>13
     DEF Next, HostCall, Running, Recovery

\* Only a run that is recorded appends.
LEMMA AppendingRecords ==
    ASSUME NEW ev \in Appending
    PROVE  mode = "recording" /\ entry \in {"host", "finish", "resume"}
<1>1. Appending # {}
  OBVIOUS
<1> QED
  BY <1>1 DEF Appending, AtHost

\* Every step keeps the outcome current.
LEMMA OutcomeStep == OutcomeInv /\ [Next]_vars => OutcomeCurrent'
<1> SUFFICES ASSUME OutcomeInv, [Next]_vars PROVE OutcomeCurrent'
  OBVIOUS
<1>1. TypeInv /\ TypeOK /\ HeaderFirst /\ OutcomeCurrent /\ WellFormed(rt)
  BY DEF OutcomeInv, TypeInv, TypeOK
<1>2. OutcomeOf(rt).kind = "Done" <=> rt.queue = <<>> /\ Blocked(rt) = {}
  BY <1>1, OutcomeTyped
<1>3. CASE UNCHANGED vars
  BY <1>1, <1>3 DEF vars, logVars, OutcomeCurrent, Alive, Replaying
<1>4. CASE Start
  <2>1. ~done_written
    BY <1>1, <1>4 DEF Start, HeaderFirst, Idle
  <2> QED
    BY <1>4, <2>1 DEF Start, OutcomeCurrent, Alive, Replaying
<1>5. ASSUME NEW f \in Fibers, NEW a \in Answers, ResumeWith(f, a) PROVE OutcomeCurrent'
  <2>1. f \in Blocked(rt) /\ mode = "recording" /\ entry = "host"
    BY <1>5 DEF ResumeWith, AtHost
  <2>2. OutcomeOf(rt).kind # "Done"
    BY <1>1, <2>1, OutcomeAnswered
  <2>3. outcome.kind # "Done" /\ ~done_written
    BY <1>1, <2>1, <2>2 DEF OutcomeCurrent, Alive
  <2> QED
    BY <1>5, <2>1, <2>3 DEF ResumeWith, OutcomeCurrent, Alive, Replaying
<1>6. ASSUME NEW amount \in Refuels, AddFuel(amount) PROVE OutcomeCurrent'
  <2>1. mode = "recording" /\ entry = "host" /\ rt' = Refuelled(rt, amount)
    BY <1>6 DEF AddFuel, AtHost
  <2>2. OutcomeOf(rt') = OutcomeOf(rt)
    BY <1>1, <2>1, OutcomeRefuelled
  <2> QED
    BY <1>1, <1>6, <2>1, <2>2 DEF AddFuel, OutcomeCurrent, Alive, Replaying
<1>7. CASE Continue
  <2>1. mode = "recording" /\ entry' = "sched"
    BY <1>7 DEF Continue, AtHost
  <2> QED
    BY <1>1, <1>7, <2>1 DEF Continue, OutcomeCurrent, Alive, Replaying
<1>8. CASE SchedulerTurn \/ SnapshotFails
  <2>1. /\ rt.queue # <<>> /\ entry = "sched" /\ entry' = "sched" /\ Alive
        /\ mode' = mode /\ done_written' = done_written
    BY <1>8 DEF SchedulerTurn, SnapshotFails, AtRest, Alive
  <2>2. ~done_written
    BY <1>1, <1>2, <2>1 DEF OutcomeCurrent
  <2> QED
    BY <2>1, <2>2 DEF OutcomeCurrent, Replaying
<1>9. CASE SchedulerReturns
  <2>1. /\ AtRest(rt) /\ rt' = rt /\ outcome' = OutcomeOf(rt) /\ entry' = "finish" /\ Alive
        /\ mode' = mode /\ done_written' = done_written
    BY <1>9 DEF SchedulerReturns
  <2> QED
    BY <1>1, <2>1 DEF OutcomeCurrent, Replaying
<1>10. CASE FinishRun
  <2>1. /\ AtRest(rt) /\ outcome = OutcomeOf(rt) /\ Alive
        /\ done_written => OutcomeOf(rt).kind = "Done"
    BY <1>1, <1>10 DEF FinishRun, OutcomeCurrent
  <2>2. /\ rt' = rt /\ outcome' = outcome /\ entry' = "host"
        /\ done_written' => done_written \/ outcome.kind = "Done"
    BY <1>10 DEF FinishRun, Seals
  <2> QED
    BY <2>1, <2>2 DEF OutcomeCurrent
<1>11. CASE Crash \/ CrashInHeader
  BY <1>11 DEF Crash, CrashInHeader, Dead, OutcomeCurrent, Alive
<1>12. CASE AppendFailure
  <2>1. PICK ev \in Appending : TRUE
    BY <1>12 DEF AppendFailure
  <2>2. mode = "recording"
    BY <2>1, AppendingRecords
  <2>3. /\ rt' = rt /\ done_written' = done_written /\ outcome'.kind # "Done"
        /\ entry' = "host" /\ mode' # "replaying"
    BY <1>12, <2>2 DEF AppendFailure, Dead
  <2> QED
    BY <1>1, <2>2, <2>3 DEF OutcomeCurrent, Alive, Replaying
<1>13. CASE BeginReplay
  BY <1>13 DEF BeginReplay, OutcomeCurrent, Replaying
<1>14. CASE ReplayEvent
  <2> DEFINE ev == NextRecord.ev
  <2>1. /\ Replaying /\ cursor <= Len(Events) /\ cursor >= 1 /\ outcome' = outcome
        /\ Alive /\ entry = "host"
    BY <1>1, <1>14 DEF ReplayEvent, Replaying, TypeInv, Unstarted, Alive
  <2>2. CASE Diverge
    BY <2>2 DEF Diverge, OutcomeCurrent, Alive
  <2>3. CASE Matches(ev) /\ Apply(ev)
    <3>1. /\ ev.kind \in {"answer", "continue", "refuel", "done"}
          /\ ev.kind = "answer" => ev.answer \in Answers
          /\ ev.kind = "refuel" => ev.amount \in Refuels
      BY <1>1, <2>1, NextTyped
    <3> HIDE DEF ev
    <3>2. CASE ev.kind = "answer"
      <4>1. /\ rt' = Answered(rt, ev.fiber, ev.answer) /\ ev.fiber \in Blocked(rt)
            /\ entry' = "host" /\ mode' = mode
        BY <2>3, <3>2 DEF Apply, Matches
      <4>4. unflushed' /\ (done_written' => done_written)
        BY <2>3, <3>2 DEF Apply, MeansToResume
      <4>2. OutcomeOf(rt).kind # "Done" /\ OutcomeOf(rt').kind # "Done"
        BY <1>1, <3>1, <3>2, <4>1, OutcomeAnswered
      <4>3. outcome.kind # "Done" /\ ~done_written
        BY <1>1, <2>1, <4>2 DEF OutcomeCurrent
      <4> QED
        BY <2>1, <4>1, <4>2, <4>3, <4>4 DEF OutcomeCurrent
    <3>3. CASE ev.kind = "refuel"
      <4>1. /\ rt' = Refuelled(rt, ev.amount)
            /\ entry' = "host" /\ mode' = mode
        BY <2>3, <3>3 DEF Apply
      <4>4. unflushed' /\ (done_written' => done_written)
        BY <2>3, <3>3 DEF Apply, MeansToResume
      <4>2. OutcomeOf(rt') = OutcomeOf(rt)
        BY <1>1, <3>1, <3>3, <4>1, OutcomeRefuelled
      <4> QED
        BY <1>1, <2>1, <4>1, <4>2, <4>4 DEF OutcomeCurrent
    <3>4. CASE ev.kind = "continue"
      <4>1. rt' = rt /\ entry' = "sched" /\ (done_written' => done_written)
        BY <2>3, <3>4 DEF Apply
      <4> QED
        BY <1>1, <2>1, <4>1 DEF OutcomeCurrent, Replaying
    <3>5. CASE ev.kind = "done"
      <4>1. /\ rt' = rt /\ entry' = "host" /\ mode' = mode /\ outcome.kind = "Done"
        BY <2>3, <3>5 DEF Apply, Matches
      <4>3. unflushed' = unflushed
        BY <2>3, <3>5 DEF Apply, MeansToResume
      <4>2. outcome = OutcomeOf(rt)
        BY <1>1, <2>1, <4>1 DEF OutcomeCurrent
      <4> QED
        BY <1>1, <2>1, <4>1, <4>2, <4>3 DEF OutcomeCurrent, Replaying
    <3> QED
      BY <3>1, <3>2, <3>3, <3>4, <3>5
  <2> QED
    BY <1>14, <2>2, <2>3 DEF ReplayEvent
<1>15. CASE CaughtUp
  <2>1. /\ Replaying /\ entry = "host" /\ Alive /\ rt' = rt /\ outcome' = outcome
        /\ done_written' = done_written /\ mode' = "recording"
        /\ entry' = IF unflushed THEN "resume" ELSE "finish"
    BY <1>15 DEF CaughtUp, Replaying, Alive
  <2> QED
    BY <1>1, <2>1 DEF OutcomeCurrent, Replaying
<1>16. CASE RefuseLog \/ StartOver \/ StartFails \/ RecordTo \/ RunUnrecorded
  BY <1>16 DEF RefuseLog, StartOver, StartFails, RecordTo, RunUnrecorded, OutcomeCurrent, Alive
<1> QED
  BY <1>3, <1>4, <1>5, <1>6, <1>7, <1>8, <1>9, <1>10, <1>11, <1>12, <1>13, <1>14, <1>15,
     <1>16 DEF Next, Starting, HostCall, Running, Recovery

\* It is current at first, and stays so.
LEMMA OutcomeInit == Init => OutcomeInv
BY TypeInit DEF Init, OutcomeInv, HeaderFirst, Idle, OutcomeCurrent, Alive

\* A step keeps it current, and what it rests on.
LEMMA OutcomeInvStep == OutcomeInv /\ [Next]_vars => OutcomeInv'
BY TypeStep, HeaderStep, OutcomeStep DEF OutcomeInv

\* The outcome stays current for the whole life of the runtime.
THEOREM OutcomeInvHolds == Spec => []OutcomeInv
<1> QED
  BY OutcomeInit, OutcomeInvStep, PTL DEF Spec

\* RecoveryCarriesOn: what a recovery hands to the host is at rest and reported as what
\* it is, whatever the log holds and however often the process died before.
THEOREM RecoveryCarriesOnHolds == Spec => RecoveryCarriesOn
<1> DEFINE Handed == (cursor > 0 /\ cursor' = 0 /\ mode' = "recording") =>
                        AtRest(rt) /\ outcome = OutcomeOf(rt)
<1>1. ASSUME OutcomeInv, [Next]_vars, cursor > 0, cursor' = 0, mode' = "recording"
      PROVE  AtRest(rt) /\ outcome = OutcomeOf(rt)
  <2>1. cursor' # cursor
    BY <1>1
  <2>2. CASE FinishRun
    BY <1>1, <2>2 DEF FinishRun, OutcomeInv, OutcomeCurrent
  <2>3. CASE Dead
    BY <1>1, <2>3 DEF Dead
  <2>4. cursor + 1 # 0
    BY <1>1, SMT DEF OutcomeInv, TypeInv, TypeOK
  <2>5. ~Starting /\ ~Continue /\ ~SchedulerTurn /\ ~SchedulerReturns /\ ~RefuseLog /\ ~StartOver
        /\ ~CaughtUp /\ ~SnapshotFails
    BY <2>1 DEF Starting, Start, StartFails, RecordTo, RunUnrecorded, Continue, SchedulerTurn,
                SchedulerReturns, RefuseLog, StartOver, CaughtUp, SnapshotFails
  <2>6. /\ \A f \in Fibers, a \in Answers : ~ResumeWith(f, a)
        /\ \A amount \in Refuels : ~AddFuel(amount)
    BY <2>1 DEF ResumeWith, AddFuel
  <2>7. ~BeginReplay /\ ~ReplayEvent
    BY <1>1, <2>1, <2>4 DEF BeginReplay, ReplayEvent, Apply, Diverge
  <2>8. Crash \/ CrashInHeader \/ AppendFailure => Dead
    BY <2>1 DEF Crash, CrashInHeader, AppendFailure
  <2>9. ~UNCHANGED vars
    BY <2>1 DEF vars
  <2> QED
    BY <1>1, <2>2, <2>3, <2>5, <2>6, <2>7, <2>8, <2>9 DEF Next, HostCall, Running, Recovery
<1>2. OutcomeInv /\ [Next]_vars => [Handed]_vars
  BY <1>1
<1> QED
  BY <1>2, OutcomeInvHolds, PTL DEF Spec, RecoveryCarriesOn

-----------------------------------------------------------------------------
(* A log, record by record. *)

\* EveryRecordFits, of any sequence of complete records.
FitsAll(e) == \A i \in DOMAIN e : Fits(e[i], Explained(SubSeq(e, 1, i - 1)))

\* The beginnings of a sequence.
LEMMA Beginnings ==
    ASSUME NEW e \in Seq(LogRecord)
    PROVE  /\ SubSeq(e, 1, 0) = <<>> /\ SubSeq(e, 1, Len(e)) = e
           /\ \A i \in 1 .. Len(e) : SubSeq(e, 1, i) = Append(SubSeq(e, 1, i - 1), e[i])
           /\ \A i \in 0 .. Len(e) : SubSeq(e, 1, i) \in Seq(LogRecord)
<1>1. Len(e) \in Nat
  OBVIOUS
<1>2. \A i \in 0 .. Len(e) : /\ SubSeq(e, 1, i) \in Seq(LogRecord) /\ Len(SubSeq(e, 1, i)) = i
                             /\ \A j \in 1 .. i : SubSeq(e, 1, i)[j] = e[j]
  BY <1>1, SMT
<1>3. SubSeq(e, 1, 0) = <<>>
  BY <1>1, <1>2, SMT
<1>4. SubSeq(e, 1, Len(e)) = e
  <2>1. Len(e) \in 0 .. Len(e)
    BY <1>1, SMT
  <2> DEFINE s == SubSeq(e, 1, Len(e))
  <2>2. s \in Seq(LogRecord) /\ Len(s) = Len(e) /\ \A j \in 1 .. Len(e) : s[j] = e[j]
    BY <1>2, <2>1
  <2> HIDE DEF s
  <2>3. s = e
    BY <2>2, SameSeq
  <2> QED
    BY <2>3 DEF s
<1>5. ASSUME NEW i \in 1 .. Len(e)
      PROVE  SubSeq(e, 1, i) = Append(SubSeq(e, 1, i - 1), e[i])
  <2>1. i \in 0 .. Len(e) /\ i - 1 \in 0 .. Len(e) /\ i \in Nat /\ e[i] \in LogRecord
    BY <1>1, SMT
  <2> DEFINE s == SubSeq(e, 1, i)  t == SubSeq(e, 1, i - 1)  u == Append(t, e[i])
  <2>2. s \in Seq(LogRecord) /\ Len(s) = i /\ \A j \in 1 .. i : s[j] = e[j]
    BY <1>2, <2>1
  <2>3. t \in Seq(LogRecord) /\ Len(t) = i - 1 /\ \A j \in 1 .. i - 1 : t[j] = e[j]
    BY <1>2, <2>1
  <2> HIDE DEF s, t
  <2>4. u \in Seq(LogRecord) /\ Len(u) = i /\ u[i] = e[i] /\ \A j \in 1 .. i - 1 : u[j] = t[j]
    BY <2>1, <2>3, SMT
  <2> HIDE DEF u
  <2>5. \A j \in 1 .. i : u[j] = s[j]
    BY <2>1, <2>2, <2>3, <2>4, SMT
  <2>6. u = s
    BY <2>2, <2>4, <2>5, SameSeq
  <2> QED
    BY <2>6 DEF s, t, u
<1> QED
  BY <1>2, <1>3, <1>4, <1>5

\* The beginnings of a sequence are those of a longer one.
LEMMA BeginningsKept ==
    ASSUME NEW e \in Seq(LogRecord), NEW rec \in LogRecord, NEW i \in 0 .. Len(e)
    PROVE  SubSeq(Append(e, rec), 1, i) = SubSeq(e, 1, i)
<1> DEFINE d == Append(e, rec)  s == SubSeq(e, 1, i)  t == SubSeq(d, 1, i)
<1>1. /\ d \in Seq(LogRecord) /\ Len(e) \in Nat /\ Len(d) = Len(e) + 1
      /\ \A j \in 1 .. Len(e) : d[j] = e[j]
  BY SMT
<1> HIDE DEF d
<1>2. s \in Seq(LogRecord) /\ Len(s) = i /\ \A j \in 1 .. i : s[j] = e[j]
  BY <1>1, SMT
<1>3. t \in Seq(LogRecord) /\ Len(t) = i /\ \A j \in 1 .. i : t[j] = d[j]
  BY <1>1, SMT
<1> HIDE DEF s, t
<1>4. \A j \in 1 .. i : t[j] = s[j]
  BY <1>1, <1>2, <1>3, SMT
<1>5. t = s
  BY <1>2, <1>3, <1>4, SameSeq
<1> QED
  BY <1>5 DEF d, s, t

\* A record that fits may be appended.
LEMMA FitsAppend ==
    ASSUME NEW e \in Seq(LogRecord), NEW rec \in LogRecord,
           FitsAll(e), Fits(rec, Explained(e))
    PROVE  FitsAll(Append(e, rec))
<1> DEFINE d == Append(e, rec)  n == Len(e)
<1>1. /\ n \in Nat /\ DOMAIN d = 1 .. n + 1 /\ DOMAIN e = 1 .. n /\ d[n + 1] = rec
      /\ \A j \in 1 .. n : d[j] = e[j]
  BY SMT
<1>2. ASSUME NEW i \in DOMAIN d PROVE Fits(d[i], Explained(SubSeq(d, 1, i - 1)))
  <2>1. i - 1 \in 0 .. n /\ (i \in 1 .. n \/ i = n + 1)
    BY <1>1, SMT
  <2>2. SubSeq(d, 1, i - 1) = SubSeq(e, 1, i - 1)
    BY <2>1, BeginningsKept
  <2> HIDE DEF d
  <2>3. CASE i \in 1 .. n
    BY <1>1, <2>2, <2>3 DEF FitsAll
  <2>4. CASE i = n + 1
    <3>1. i - 1 = n
      BY <1>1, <2>4, SMT
    <3>2. SubSeq(e, 1, n) = e
      BY Beginnings
    <3> QED
      BY <1>1, <2>2, <2>4, <3>1, <3>2
  <2> QED
    BY <2>1, <2>3, <2>4
<1> QED
  BY <1>2 DEF FitsAll

\* An empty log fits.
LEMMA FitsNone == FitsAll(<<>>)
<1>1. DOMAIN <<>> = {}
  BY SMT
<1> QED
  BY <1>1 DEF FitsAll

\* One record further, the run has taken one more.
LEMMA ExplainedNext ==
    ASSUME NEW e \in Seq(LogRecord), NEW i \in 1 .. Len(e)
    PROVE  Explained(SubSeq(e, 1, i)) = After(Explained(SubSeq(e, 1, i - 1)), e[i])
<1>1. i - 1 \in 0 .. Len(e) /\ e[i] \in LogRecord
  BY SMT
<1>2. SubSeq(e, 1, i) = Append(SubSeq(e, 1, i - 1), e[i]) /\ SubSeq(e, 1, i - 1) \in Seq(LogRecord)
  BY <1>1, Beginnings
<1> QED
  BY <1>1, <1>2, ExplainedAppend

-----------------------------------------------------------------------------
(* The log explains the run. *)

\* ReplayInv without what is proved above.
LogSound ==
    /\ TornOnlyLast /\ EveryRecordFits /\ InStep
    /\ mode # "diverged" /\ (mode = "refused" => ~Readable)

LogInv == OutcomeInv /\ LogSound

\* EveryRecordFits in these terms.
LEMMA FitsSplit ==
    /\ EveryRecordFits <=> FitsAll(Events)
    /\ EveryRecordFits' <=> FitsAll(Events')
BY DEF EveryRecordFits, FitsAll, ExplainedBy

\* What a running process may append is true of its run.
LEMMA AppendingFits ==
    ASSUME LogInv, NEW ev \in Appending
    PROVE  /\ mode = "recording" /\ rt = Explained(Events)
           /\ ev \in Event /\ Record(ev) \in LogRecord /\ Record(ev).whole
           /\ Record(ev).ev = ev /\ Fits(Record(ev), rt)
<1>1. TypeOK /\ OutcomeCurrent /\ InStep /\ WellFormed(rt)
  BY DEF LogInv, LogSound, OutcomeInv, TypeInv, TypeOK
<1>2. mode = "recording" /\ entry \in {"host", "finish", "resume"}
  BY AppendingRecords
<1>3. rt = Explained(Events)
  BY <1>1, <1>2 DEF InStep
<1>4. ev \in Event /\ Record(ev) \in LogRecord
      /\ Record(ev) = [stamp |-> Steps(rt), ev |-> ev, whole |-> TRUE]
  BY <1>1, EventsTyped, RecordTyped
<1>5. Record(ev).whole /\ Record(ev).ev = ev /\ Record(ev).stamp = Steps(rt)
  BY <1>4
<1>6. /\ ev.kind = "answer" => ev.fiber \in Blocked(rt) /\ rt.asked[ev.fiber] = ev.call
      /\ ev.kind = "done" => OutcomeOf(rt) = [kind |-> "Done", val |-> ev.result]
  <2>1. \A n \in Refuels : Refuel(n).kind = "refuel"
    BY DEF Refuel
  <2>2. ContinueEvent.kind = "continue"
    BY DEF ContinueEvent
  <2>3. \A f, a : /\ HostAnswer(f, a).kind = "answer" /\ HostAnswer(f, a).fiber = f
                  /\ HostAnswer(f, a).call = rt.asked[f]
    BY DEF HostAnswer
  <2>4. DoneEvent.kind = "done" /\ DoneEvent.result = outcome.val
    BY DEF DoneEvent
  <2>5. CASE entry = "finish"
    <3>1. ev = DoneEvent /\ Seals
      BY <1>2, <2>5 DEF Appending, AtHost
    <3>2. outcome = OutcomeOf(rt) /\ outcome.kind = "Done"
      BY <1>1, <1>2, <2>5, <3>1 DEF OutcomeCurrent, Alive, Seals
    <3>3. OutcomeOf(rt) = [kind |-> "Done", val |-> rt.trace]
      BY <1>1, <3>2, OutcomeTyped
    <3>4. outcome.val = rt.trace
      BY <3>2, <3>3
    <3> QED
      BY <2>4, <3>1, <3>3, <3>4
  <2>6. CASE entry = "resume"
    <3>1. ev = ContinueEvent
      BY <1>2, <2>6 DEF Appending, AtHost
    <3> QED
      BY <2>2, <3>1
  <2>7. CASE entry = "host"
    <3>1. ev \in {HostAnswer(f, a) : f \in Blocked(rt), a \in Answers}
               \cup (IF Dry(rt) THEN {Refuel(n) : n \in Refuels} ELSE {})
               \cup (IF done_written THEN {} ELSE {ContinueEvent})
      BY <1>2, <2>7 DEF Appending
    <3>2. CASE \E f \in Blocked(rt), a \in Answers : ev = HostAnswer(f, a)
      BY <2>3, <3>2
    <3>3. CASE ev = ContinueEvent \/ \E n \in Refuels : ev = Refuel(n)
      BY <2>1, <2>2, <3>3
    <3> QED
      BY <3>1, <3>2, <3>3
  <2> QED
    BY <1>2, <2>5, <2>6, <2>7
<1> QED
  BY <1>2, <1>3, <1>4, <1>5, <1>6 DEF Fits

\* While a run is recorded every record of its file is complete.
LEMMA RecordedWhole ==
    ASSUME TypeOK, TornOnlyLast, mode = "recording"
    PROVE  Events = file /\ \A i \in 1 .. Len(file) : file[i].whole
<1>1. file \in Seq(LogRecord) /\ DOMAIN file = 1 .. Len(file)
  BY DEF TypeOK
<1>2. \A i \in 1 .. Len(file) : file[i].whole
  BY <1>1 DEF TornOnlyLast
<1> QED
  BY <1>1, <1>2, WholeAll, EventsWhole

\* A record appended whole is one more complete record, and the run it stands for
\* has taken one more event.
LEMMA AppendedWhole ==
    ASSUME LogInv, NEW ev \in Appending, file' = Append(file, Record(ev))
    PROVE  /\ Events' = Append(Events, Record(ev)) /\ EveryRecordFits'
           /\ \A i \in DOMAIN file' : file'[i].whole
           /\ Explained(Events') = After(rt, Record(ev))
<1> DEFINE rec == Record(ev)  e == Events
<1>1. TypeOK /\ TornOnlyLast /\ EveryRecordFits
  BY DEF LogInv, LogSound, OutcomeInv, TypeInv
<1>2. mode = "recording" /\ rt = Explained(e) /\ rec \in LogRecord /\ rec.whole /\ Fits(rec, rt)
  BY AppendingFits
<1>3. e = file /\ (\A i \in 1 .. Len(file) : file[i].whole) /\ file \in Seq(LogRecord)
  BY <1>1, <1>2, RecordedWhole DEF TypeOK
<1> HIDE DEF rec
<1> DEFINE f == Append(file, rec)
<1>4. /\ f \in Seq(LogRecord) /\ DOMAIN f = 1 .. Len(f)
      /\ \A i \in 1 .. Len(f) : f[i].whole
  BY <1>2, <1>3, SMT
<1>5. WholeOf(f) = f
  BY <1>4, WholeAll
<1>6. Events' = f
  BY <1>5, EventsWhole DEF rec
<1>7. FitsAll(e)
  BY <1>1, FitsSplit
<1>8. FitsAll(f) /\ Explained(f) = After(Explained(e), rec)
  BY <1>2, <1>3, <1>7, FitsAppend, ExplainedAppend
<1>9. EveryRecordFits'
  BY <1>6, <1>8, FitsSplit
<1> QED
  BY <1>2, <1>3, <1>4, <1>6, <1>8, <1>9 DEF rec

\* A torn one adds nothing.
LEMMA AppendedTorn ==
    ASSUME LogInv, NEW ev \in Appending, file' = Append(file, Torn(ev))
    PROVE  /\ Events' = Events /\ EveryRecordFits'
           /\ \A i \in DOMAIN file' : ~file'[i].whole => i = Len(file')
<1> DEFINE rec == Torn(ev)
<1>1. TypeOK /\ TornOnlyLast /\ EveryRecordFits
  BY DEF LogInv, LogSound, OutcomeInv, TypeInv
<1>2. mode = "recording" /\ ev \in Event
  BY AppendingFits
<1>3. rec \in LogRecord /\ ~rec.whole
  BY <1>1, <1>2, RecordTyped
<1>4. Events = file /\ (\A i \in 1 .. Len(file) : file[i].whole) /\ file \in Seq(LogRecord)
  BY <1>1, <1>2, RecordedWhole DEF TypeOK
<1> HIDE DEF rec
<1> DEFINE f == Append(file, rec)  n == Len(file)
<1>5. /\ f \in Seq(LogRecord) /\ DOMAIN f = 1 .. n + 1 /\ n \in Nat /\ Len(f) = n + 1
      /\ f[n + 1] = rec /\ \A i \in 1 .. n : f[i] = file[i]
  BY <1>3, <1>4, SMT
<1> HIDE DEF f, n
<1> DEFINE d == WholeOf(f)
<1>6. Cut(f, d)
  BY <1>5, WholeCut
<1> HIDE DEF d
<1>7. Len(d) = n
  <2>1. Len(d) \in Nat /\ Len(d) <= n + 1
    BY <1>5, <1>6 DEF Cut
  <2>2. CASE Len(d) < n
    <3>1. Len(d) + 1 \in 1 .. n /\ Len(d) < n + 1
      BY <1>5, <2>1, <2>2, SMT
    <3>2. ~f[Len(d) + 1].whole
      BY <1>5, <1>6, <3>1 DEF Cut
    <3> QED
      BY <1>4, <1>5, <3>1, <3>2 DEF n
  <2>3. CASE Len(d) = n + 1
    <3>1. n + 1 \in 1 .. Len(d)
      BY <1>5, <2>3, SMT
    <3>2. f[n + 1].whole
      BY <1>6, <3>1 DEF Cut
    <3> QED
      BY <1>3, <1>5, <3>2
  <2> QED
    BY <1>5, <2>1, <2>2, <2>3, SMT
<1>8. d = file
  <2>1. d \in Seq(LogRecord) /\ \A i \in 1 .. n : d[i] = f[i]
    BY <1>6, <1>7 DEF Cut
  <2> QED
    BY <1>4, <1>5, <1>7, <2>1, SameSeq DEF n
<1>9. Events' = Events
  BY <1>4, <1>8, EventsWhole DEF d, f, rec
<1>10. \A i \in DOMAIN f : ~f[i].whole => i = Len(f)
  BY <1>4, <1>5, SMT DEF n
<1> QED
  BY <1>1, <1>9, <1>10, FitsSplit DEF f, rec

\* A file that stays is read as before.
LEMMA FileStays ==
    ASSUME LogInv, file' = file
    PROVE  /\ Events' = Events /\ EveryRecordFits'
           /\ Readable' = Readable
           /\ \A i \in DOMAIN file' : ~file'[i].whole => i = Len(file') /\ mode # "recording"
<1>1. Events' = Events
  BY EventsWhole
<1>2. EveryRecordFits'
  BY <1>1, FitsSplit DEF LogInv, LogSound
<1> QED
  BY <1>1, <1>2 DEF LogInv, LogSound, TornOnlyLast, Readable, SealedAtTheEnd, AllDecode

\* Only the end of a file is torn, so no log is found unreadable.
LEMMA NeverGarbled == ASSUME TypeOK, TornOnlyLast PROVE ~Garbled
<1> SUFFICES ASSUME Garbled PROVE FALSE
  OBVIOUS
<1> DEFINE I == {i \in 1 .. Len(file) : ~file[i].whole}
           g == IF I # {} THEN Min(I) ELSE 0
<1>1. GoodPrefix = g
  BY DEF GoodPrefix, SelectInSeq
<1>2. I # {} /\ g # 0 /\ g < Len(file)
  BY <1>1 DEF Garbled
<1>3. \E n \in I : \A m \in I : n <= m
  <2>1. I \subseteq Nat
    BY SMT
  <2> QED
    BY <1>2, <2>1, Least
<1>4. g \in I
  BY <1>2, <1>3 DEF Min
<1>5. g \in 1 .. Len(file) /\ ~file[g].whole
  BY <1>4
<1> HIDE DEF g
<1>6. g = Len(file)
  BY <1>5 DEF TornOnlyLast, TypeOK
<1> QED
  BY <1>2, <1>5, <1>6, SMT

\* A step of the host or of the run that logs an event and applies it.
LEMMA LoggedStep ==
    ASSUME LogInv, NEW ev \in Appending, Logged(ev),
           mode' = "recording", entry' # "sched", rt' = After(rt, Record(ev))
    PROVE  LogSound'
<1>1. /\ Events' = Append(Events, Record(ev)) /\ EveryRecordFits'
      /\ \A i \in DOMAIN file' : file'[i].whole
      /\ Explained(Events') = After(rt, Record(ev))
  BY AppendedWhole DEF Logged
<1>2. rt' = Explained(Events')
  BY <1>1
<1> QED
  BY <1>1, <1>2 DEF LogSound, TornOnlyLast, InStep

\* A replayed event takes the run as far as the records before the next one.
LEMMA ReplayStep == LogInv /\ ReplayEvent => LogSound'
<1> SUFFICES ASSUME LogInv, ReplayEvent PROVE LogSound'
  OBVIOUS
<1> DEFINE rec == NextRecord  ev == NextRecord.ev
<1>1. /\ TypeOK /\ OutcomeCurrent /\ TornOnlyLast /\ EveryRecordFits /\ InStep /\ Unstarted
  BY DEF LogInv, LogSound, OutcomeInv, TypeInv
<1>2. /\ mode = "replaying" /\ entry = "host" /\ cursor >= 1 /\ cursor <= Len(Events)
      /\ file' = file
  BY <1>1 DEF ReplayEvent, Replaying, logVars, Unstarted
<1>3. /\ cursor \in 1 .. Len(Events) /\ rec \in LogRecord
      /\ ev.kind \in {"answer", "continue", "refuel", "done"}
  BY <1>1, <1>2, NextTyped
<1>4. /\ Events' = Events /\ EveryRecordFits'
      /\ \A i \in DOMAIN file' : ~file'[i].whole => i = Len(file') /\ mode # "recording"
  BY <1>2, FileStays
<1>5. rt = ExplainedBy(cursor - 1)
  BY <1>1, <1>2 DEF InStep
<1>6. Fits(rec, rt)
  <2>1. FitsAll(Events) /\ Events \in Seq(LogRecord)
    BY <1>1, FitsSplit, EventsInLog
  <2>2. cursor \in DOMAIN Events
    BY <1>3, <2>1
  <2> QED
    BY <1>5, <2>1, <2>2 DEF FitsAll, ExplainedBy, NextRecord
<1>7. StampMatches
  BY <1>6 DEF Fits, StampMatches
<1>8. Matches(ev)
  <2>1. CASE ev.kind = "answer"
    BY <1>6, <2>1 DEF Fits, Matches
  <2>2. CASE ev.kind = "done"
    <3>1. OutcomeOf(rt) = [kind |-> "Done", val |-> ev.result]
      BY <1>6, <2>2 DEF Fits
    <3>2. outcome = OutcomeOf(rt)
      BY <1>1, <1>2, <3>1 DEF OutcomeCurrent, Alive, Replaying
    <3> QED
      BY <2>2, <3>1, <3>2 DEF Matches
  <2>3. CASE ev.kind \in {"continue", "refuel"}
    BY <2>3 DEF Matches
  <2> QED
    BY <1>3, <2>1, <2>2, <2>3
<1>9. Apply(ev)
  BY <1>7, <1>8 DEF ReplayEvent
<1>10. Explained(SubSeq(Events, 1, cursor)) = After(rt, rec)
  BY <1>1, <1>3, <1>5, EventsInLog, ExplainedNext DEF ExplainedBy, NextRecord
<1>11. cursor' = cursor + 1 /\ cursor' - 1 = cursor /\ cursor' >= 1 /\ mode' = "replaying"
       /\ entry' \in {"host", "sched"}
  <2>1. cursor' = cursor + 1 /\ mode' = mode /\ entry' \in {"host", "sched"}
    BY <1>9 DEF Apply
  <2> QED
    BY <1>2, <1>3, <2>1, SMT
<1>12. (IF entry' = "sched" THEN RunOut(rt') ELSE rt') = After(rt, rec)
  <2> HIDE DEF ev
  <2>1. CASE ev.kind = "answer"
    <3>1. rt' = Answered(rt, ev.fiber, ev.answer) /\ entry' = "host"
      BY <1>9, <2>1 DEF Apply
    <3> QED
      BY <2>1, <3>1 DEF After, ev
  <2>2. CASE ev.kind = "refuel"
    <3>1. rt' = Refuelled(rt, ev.amount) /\ entry' = "host"
      BY <1>9, <2>2 DEF Apply
    <3> QED
      BY <2>2, <3>1 DEF After, ev
  <2>3. CASE ev.kind = "continue"
    <3>1. rt' = rt /\ entry' = "sched"
      BY <1>9, <2>3 DEF Apply
    <3> QED
      BY <2>3, <3>1 DEF After, ev
  <2>4. CASE ev.kind = "done"
    <3>1. rt' = rt /\ entry' = "host"
      BY <1>9, <2>4 DEF Apply
    <3> QED
      BY <2>4, <3>1 DEF After, ev
  <2> QED
    BY <1>3, <2>1, <2>2, <2>3, <2>4 DEF ev
<1>13. InStep'
  <2>1. ExplainedBy(cursor - 1)' = Explained(SubSeq(Events, 1, cursor))
    BY <1>4, <1>11 DEF ExplainedBy
  <2> QED
    BY <1>10, <1>11, <1>12, <2>1 DEF InStep
<1>14. TornOnlyLast'
  BY <1>4, <1>11 DEF TornOnlyLast
<1> QED
  BY <1>4, <1>11, <1>13, <1>14 DEF LogSound

\* Every step but a Snapshot! that fails keeps the log sound, if an append that fails
\* leaves nothing behind.
LEMMA LogStep ==
    ASSUME FailedLeaves \subseteq {"nothing"}
    PROVE  LogInv /\ [Next]_vars /\ ~SnapshotFails => LogSound'
<1> SUFFICES ASSUME LogInv, [Next]_vars, ~SnapshotFails PROVE LogSound'
  OBVIOUS
<1>1. /\ TypeOK /\ OutcomeCurrent /\ TornOnlyLast /\ EveryRecordFits /\ InStep /\ Unstarted
      /\ mode # "diverged" /\ (mode = "refused" => ~Readable)
  BY DEF LogInv, LogSound, OutcomeInv, TypeInv
<1>2. /\ WellFormed(rt) /\ rt.queue \in Seq(Fibers) /\ Len(rt.queue) \in Nat
      /\ file \in Seq(LogRecord)
  <2>1. WellFormed(rt) /\ file \in Seq(LogRecord)
    BY <1>1 DEF TypeOK
  <2> QED
    BY <2>1, WellFormedFields
<1>3. file' = file => /\ Events' = Events /\ EveryRecordFits'
                      /\ Readable' = Readable
                      /\ \A i \in DOMAIN file' : ~file'[i].whole => i = Len(file') /\ mode # "recording"
  BY FileStays
\* A step that leaves the file and the cursor, and of a recording mode.
<1>4. ASSUME file' = file, mode' = mode, cursor' = cursor,
             mode \in {"recording", "replaying"}, entry' # "resume",
             (IF entry' = "sched" THEN RunOut(rt') ELSE rt') =
                (IF entry = "sched" THEN RunOut(rt) ELSE rt)
      PROVE  LogSound'
  <2>1. ExplainedBy(cursor - 1)' = ExplainedBy(cursor - 1)
    BY <1>3, <1>4 DEF ExplainedBy
  <2>2. InStep'
    BY <1>1, <1>3, <1>4, <2>1 DEF InStep
  <2>3. TornOnlyLast'
    BY <1>3, <1>4 DEF TornOnlyLast
  <2> QED
    BY <1>3, <1>4, <2>2, <2>3 DEF LogSound
<1>5. CASE UNCHANGED vars
  <2>1. file' = file /\ mode' = mode /\ cursor' = cursor /\ entry' = entry /\ rt' = rt
    BY <1>5 DEF vars, logVars
  <2>2. ExplainedBy(cursor - 1)' = ExplainedBy(cursor - 1)
    BY <1>3, <2>1 DEF ExplainedBy
  <2>3. InStep'
    BY <1>1, <1>3, <2>1, <2>2 DEF InStep
  <2> QED
    BY <1>1, <1>3, <2>1, <2>3 DEF LogSound, TornOnlyLast
<1>6. CASE Start
  <2>1. file' = <<>> /\ mode' = "recording" /\ rt' = FreshRun /\ entry' = "sched"
    BY <1>6 DEF Start
  <2>2. Events' = <<>> /\ EveryRecordFits'
    BY <2>1, EventsNone, FitsSplit, FitsNone
  <2>3. DOMAIN file' = {}
    BY <2>1, SMT
  <2>4. InStep'
    BY <2>1, <2>2, ExplainedEmpty DEF InStep
  <2> QED
    BY <2>1, <2>2, <2>3, <2>4 DEF LogSound, TornOnlyLast
<1>7. ASSUME NEW f \in Fibers, NEW a \in Answers, ResumeWith(f, a) PROVE LogSound'
  <2> DEFINE ev == HostAnswer(f, a)
  <2>1. /\ AtHost /\ f \in Blocked(rt) /\ Logged(ev) /\ rt' = Answered(rt, f, a)
        /\ mode' = mode /\ entry' = entry
    BY <1>7 DEF ResumeWith
  <2>2. mode = "recording" /\ entry = "host"
    BY <2>1 DEF AtHost
  <2>3. ev \in Appending
    BY <2>1, <2>2 DEF Appending
  <2>4. Record(ev).ev = ev
    BY <2>3, AppendingFits
  <2>5. ev.kind = "answer" /\ ev.fiber = f /\ ev.answer = a
    BY DEF HostAnswer
  <2> HIDE DEF ev
  <2>6. rt' = After(rt, Record(ev))
    BY <2>1, <2>4, <2>5 DEF After
  <2> QED
    BY <2>1, <2>2, <2>3, <2>6, LoggedStep
<1>8. ASSUME NEW amount \in Refuels, AddFuel(amount) PROVE LogSound'
  <2> DEFINE ev == Refuel(amount)
  <2>1. /\ AtHost /\ Dry(rt) /\ Logged(ev) /\ rt' = Refuelled(rt, amount)
        /\ mode' = mode /\ entry' = entry
    BY <1>8 DEF AddFuel
  <2>2. mode = "recording" /\ entry = "host"
    BY <2>1 DEF AtHost
  <2>3. ev \in Appending
    BY <2>1, <2>2 DEF Appending
  <2>4. Record(ev).ev = ev
    BY <2>3, AppendingFits
  <2>5. ev.kind = "refuel" /\ ev.amount = amount
    BY DEF Refuel
  <2> HIDE DEF ev
  <2>6. rt' = After(rt, Record(ev))
    BY <2>1, <2>4, <2>5 DEF After
  <2> QED
    BY <2>1, <2>2, <2>3, <2>6, LoggedStep
<1>9. CASE Continue
  <2>1. /\ mode = "recording" /\ entry \in {"host", "resume"} /\ mode' = mode
        /\ rt' = rt /\ entry' = "sched" /\ cursor' = cursor
    BY <1>9 DEF Continue, AtHost
  <2>2. CASE done_written
    <3>1. file' = file
      BY <1>9, <2>2 DEF Continue, logVars
    <3>2. OutcomeOf(rt).kind = "Done"
      BY <1>1, <2>1, <2>2 DEF OutcomeCurrent, Alive
    <3>3. AtRest(rt)
      BY <1>2, <3>2, OutcomeTyped DEF AtRest
    <3>4. RunOut(rt) = rt
      BY <1>2, <3>3, RunOutAtRest
    <3> QED
      BY <1>4, <2>1, <3>1, <3>4
  <2>3. CASE ~done_written
    <3> DEFINE ev == ContinueEvent
    <3>1. Logged(ev)
      BY <1>9, <2>3 DEF Continue
    <3>2. ev \in Appending
      <4>1. CASE entry = "resume"
        BY <2>1, <4>1 DEF Appending, AtHost
      <4>2. CASE entry = "host"
        <5>1. AtHost
          BY <1>9, <4>2 DEF Continue
        <5> QED
          BY <2>1, <2>3, <4>2, <5>1 DEF Appending
      <4> QED
        BY <2>1, <4>1, <4>2
    <3>3. Record(ev).ev = ev
      BY <3>2, AppendingFits
    <3>4. ev.kind = "continue"
      BY DEF ContinueEvent
    <3> HIDE DEF ev
    <3>5. After(rt, Record(ev)) = RunOut(rt)
      BY <3>3, <3>4 DEF After
    <3>6. /\ EveryRecordFits'
          /\ \A i \in DOMAIN file' : file'[i].whole
          /\ Explained(Events') = After(rt, Record(ev))
      BY <3>1, <3>2, AppendedWhole DEF Logged
    <3>7. InStep'
      BY <2>1, <3>5, <3>6 DEF InStep
    <3> QED
      BY <2>1, <3>6, <3>7 DEF LogSound, TornOnlyLast
  <2> QED
    BY <2>2, <2>3
<1>10. CASE SchedulerTurn
  <2>1. /\ file' = file /\ mode' = mode /\ cursor' = cursor /\ Alive /\ entry = "sched"
        /\ entry' = "sched" /\ ~AtRest(rt) /\ rt' = Turn(rt)
    BY <1>10 DEF SchedulerTurn, logVars
  <2>2. RunOut(rt') = RunOut(rt)
    BY <1>2, <2>1, RunOutTurn
  <2> QED
    BY <1>4, <2>1, <2>2 DEF Alive
<1>11. CASE SchedulerReturns
  <2>1. /\ file' = file /\ mode' = mode /\ cursor' = cursor /\ Alive /\ entry = "sched"
        /\ entry' = "finish" /\ AtRest(rt) /\ rt' = rt
    BY <1>11 DEF SchedulerReturns, logVars
  <2>2. RunOut(rt) = rt
    BY <1>2, <2>1, RunOutAtRest
  <2> QED
    BY <1>4, <2>1, <2>2 DEF Alive
<1>12. CASE FinishRun
  <2>1. Alive /\ entry = "finish" /\ entry' = "host" /\ mode' = mode /\ rt' = rt
    BY <1>12 DEF FinishRun
  <2>2. CASE Seals
    <3> DEFINE ev == DoneEvent
    <3>1. Logged(ev) /\ mode = "recording"
      BY <1>12, <2>2 DEF FinishRun, Seals
    <3>2. ev \in Appending
      BY <2>1, <2>2, <3>1 DEF Appending, AtHost
    <3>3. Record(ev).ev = ev
      BY <3>2, AppendingFits
    <3>4. ev.kind = "done"
      BY DEF DoneEvent
    <3> HIDE DEF ev
    <3>5. rt' = After(rt, Record(ev))
      BY <2>1, <3>3, <3>4 DEF After
    <3> QED
      BY <2>1, <3>1, <3>2, <3>5, LoggedStep
  <2>3. CASE ~Seals
    <3>1. file' = file
      BY <1>12, <2>3 DEF FinishRun, logVars
    <3>2. CASE mode = "recording"
      <4>1. InStep'
        BY <1>1, <1>3, <2>1, <3>1, <3>2 DEF InStep
      <4> QED
        BY <1>3, <2>1, <3>1, <3>2, <4>1 DEF LogSound, TornOnlyLast
    <3>3. CASE mode # "recording"
      <4>1. cursor' = cursor /\ mode = "replaying"
        BY <1>12, <3>3 DEF FinishRun, Alive
      <4> QED
        BY <1>4, <2>1, <3>1, <4>1
    <3> QED
      BY <3>2, <3>3
  <2> QED
    BY <2>2, <2>3
<1>13. CASE Crash
  <2>1. mode' = "dead"
    BY <1>13 DEF Crash, Dead
  <2>2. CASE file' = file
    BY <1>3, <2>1, <2>2 DEF LogSound, TornOnlyLast, InStep
  <2>3. CASE \E ev \in Appending, what \in {"torn", "whole"} : file' = Left(ev, what)
    <3>1. PICK ev \in Appending : \E what \in {"torn", "whole"} : file' = Left(ev, what)
      BY <2>3
    <3>2. CASE file' = Append(file, Torn(ev))
      <4>1. EveryRecordFits' /\ \A i \in DOMAIN file' : ~file'[i].whole => i = Len(file')
        BY <3>2, AppendedTorn
      <4> QED
        BY <2>1, <4>1 DEF LogSound, TornOnlyLast, InStep
    <3>3. CASE file' = Append(file, Record(ev))
      <4>1. EveryRecordFits' /\ \A i \in DOMAIN file' : file'[i].whole
        BY <3>3, AppendedWhole
      <4> QED
        BY <2>1, <4>1 DEF LogSound, TornOnlyLast, InStep
    <3> QED
      BY <3>1, <3>2, <3>3 DEF Left
  <2> QED
    BY <1>13, <2>2, <2>3 DEF Crash
<1>14. CASE CrashInHeader \/ StartFails
  <2>1. file' = <<>> /\ mode' \in {"dead", "off"}
    BY <1>14 DEF CrashInHeader, Dead, StartFails
  <2>2. DOMAIN file' = {}
    BY <2>1, SMT
  <2>4. EveryRecordFits'
    BY <2>1, EventsNone, FitsSplit, FitsNone
  <2> QED
    BY <2>1, <2>2, <2>4 DEF LogSound, TornOnlyLast, InStep
<1>15. CASE AppendFailure
  <2>1. PICK ev \in Appending : \E what \in FailedLeaves : file' = Left(ev, what)
    BY <1>15 DEF AppendFailure
  <2>2. file' = file
    BY <2>1 DEF Left
  <2>3. mode = "recording" /\ rt = Explained(Events)
    BY AppendingFits
  <2>4. CASE mode' = "dead"
    BY <1>3, <2>2, <2>4 DEF LogSound, TornOnlyLast, InStep
  <2>5. CASE mode' # "dead"
    <3>1. mode' = mode /\ entry' = "host" /\ rt' = rt
      BY <1>15, <2>5 DEF AppendFailure, Dead
    <3>2. InStep'
      BY <1>3, <2>2, <2>3, <3>1 DEF InStep
    <3> QED
      BY <1>3, <2>2, <2>3, <3>1, <3>2 DEF LogSound, TornOnlyLast
  <2> QED
    BY <2>4, <2>5
<1>16. CASE BeginReplay
  <2>1. /\ file' = file /\ mode' = "replaying" /\ rt' = FreshRun /\ entry' = "sched"
        /\ cursor' = 1
    BY <1>16 DEF BeginReplay, logVars
  <2>2. SubSeq(Events, 1, 0) = <<>>
    BY <1>1, EventsInLog, Beginnings
  <2>3. ExplainedBy(cursor - 1)' = Explained(<<>>)
    <3>1. cursor' - 1 = 0
      BY <2>1, SMT
    <3> QED
      BY <1>3, <2>1, <2>2, <3>1 DEF ExplainedBy
  <2>4. cursor' >= 1
    BY <2>1, SMT
  <2>5. InStep'
    BY <2>1, <2>3, <2>4, ExplainedEmpty DEF InStep
  <2> QED
    BY <1>3, <2>1, <2>5 DEF LogSound, TornOnlyLast
<1>17. CASE ReplayEvent
  BY <1>17, ReplayStep
<1>18. CASE CaughtUp
  <2>1. /\ mode = "replaying" /\ entry = "host" /\ cursor > Len(Events)
        /\ file' = Events /\ mode' = "recording" /\ entry' # "sched" /\ rt' = rt
    BY <1>18 DEF CaughtUp, Replaying, Replayed, Truncated
  <2>2. /\ Cut(file, Events) /\ Events \in Seq(LogRecord) /\ Len(Events) \in Nat
    BY <1>1, EventsInLog
  <2>3. Events' = Events
    BY <1>2, <2>1, EventsWhole, WholeAgain
  <2>4. cursor - 1 = Len(Events)
    <3>1. cursor \in 0 .. Len(Events) + 1
      BY <1>1 DEF TypeOK
    <3> QED
      BY <2>1, <2>2, <3>1, SMT
  <2>5. rt = Explained(Events)
    BY <1>1, <2>1, <2>2, <2>4, Beginnings DEF InStep, ExplainedBy
  <2>6. InStep'
    BY <2>1, <2>3, <2>5 DEF InStep
  <2>7. TornOnlyLast'
    <3>1. \A i \in 1 .. Len(Events) : Events[i].whole
      BY <2>2 DEF Cut
    <3>2. DOMAIN Events = 1 .. Len(Events)
      BY <2>2
    <3> QED
      BY <2>1, <3>1, <3>2 DEF TornOnlyLast
  <2>8. EveryRecordFits'
    BY <1>1, <2>3, FitsSplit
  <2> QED
    BY <2>1, <2>6, <2>7, <2>8 DEF LogSound
<1>19. CASE RefuseLog
  <2>1. file' = file /\ mode' = "refused" /\ (Garbled \/ ~Readable)
    BY <1>19 DEF RefuseLog, logVars
  <2>2. ~Readable
    BY <1>1, <2>1, NeverGarbled
  <2> QED
    BY <1>3, <2>1, <2>2 DEF LogSound, TornOnlyLast, InStep
<1>20. CASE StartOver \/ RecordTo \/ RunUnrecorded
  <2>1. file' = file /\ mode' \in {"armed", "unrecorded"}
    BY <1>20 DEF StartOver, RecordTo, RunUnrecorded, logVars
  <2> QED
    BY <1>3, <2>1 DEF LogSound, TornOnlyLast, InStep
<1> QED
  BY <1>5, <1>6, <1>7, <1>8, <1>9, <1>10, <1>11, <1>12, <1>13, <1>14, <1>15, <1>16, <1>17,
     <1>18, <1>19, <1>20 DEF Next, Starting, HostCall, Running, Recovery

\* That a Snapshot! has failed is not forgotten.
LEMMA SavedBefore == [Next]_vars /\ h_saved' => h_saved
<1> SUFFICES ASSUME [Next]_vars, h_saved' PROVE h_saved
  OBVIOUS
<1>1. CASE UNCHANGED vars
  BY <1>1 DEF vars
<1>2. CASE Starting
  BY <1>2 DEF Starting, Start, StartFails, RecordTo, RunUnrecorded
<1>3. CASE HostCall \/ Continue
  BY <1>3 DEF HostCall, ResumeWith, AddFuel, Continue
<1>4. CASE Running
  BY <1>4 DEF Running, SchedulerTurn, SchedulerReturns, FinishRun
<1>5. CASE Crash \/ CrashInHeader \/ AppendFailure \/ SnapshotFails
  BY <1>5 DEF Crash, CrashInHeader, AppendFailure, SnapshotFails
<1>6. CASE Recovery
  BY <1>6 DEF Recovery, BeginReplay, ReplayEvent, CaughtUp, RefuseLog, StartOver
<1> QED
  BY <1>1, <1>2, <1>3, <1>4, <1>5, <1>6 DEF Next

\* ReplayInv, the inductive invariant of the log, holds whatever the host does and
\* wherever the process dies, in an append or in a recovery included.  Without the
\* hypothesis it does not: a record that an append has failed to write and left in the
\* file is read back, or hides what is written behind it.
THEOREM ReplayInvHolds == FailedLeaves \subseteq {"nothing"} => (Spec => []ReplayInv)
<1> SUFFICES ASSUME FailedLeaves \subseteq {"nothing"} PROVE Spec => []ReplayInv
  OBVIOUS
<1>1. Init => LogSound
  <2> SUFFICES ASSUME Init PROVE LogSound
    OBVIOUS
  <2>1. file = <<>> /\ mode = "armed" /\ DOMAIN file = {}
    BY SMT DEF Init
  <2>2. file \in Seq(LogRecord) /\ Len(file) = 0
    BY <2>1
  <2>3. Events \in Seq(LogRecord) /\ Len(Events) = 0
    <3>1. Cut(file, Events)
      BY <2>2, WholeCut, EventsWhole
    <3>2. Events \in Seq(LogRecord) /\ Len(Events) \in Nat /\ Len(Events) <= 0
      BY <2>2, <3>1 DEF Cut
    <3> QED
      BY <3>2, SMT
  <2>4. DOMAIN Events = {}
    BY <2>3, SMT
  <2> QED
    BY <2>1, <2>4 DEF LogSound, TornOnlyLast, EveryRecordFits, InStep
<1> DEFINE Inv == OutcomeInv /\ (h_saved => LogSound)
<1>2. Init => Inv
  BY <1>1, OutcomeInit
<1>3. Inv /\ [Next]_vars => Inv'
  <2> SUFFICES ASSUME Inv, [Next]_vars PROVE Inv'
    OBVIOUS
  <2>1. OutcomeInv'
    BY OutcomeInvStep
  <2>2. ASSUME h_saved' PROVE LogSound'
    <3>1. h_saved /\ ~SnapshotFails
      BY <2>2, SavedBefore DEF SnapshotFails
    <3> QED
      BY <3>1, LogStep DEF LogInv
  <2> QED
    BY <2>1, <2>2
<1>4. Inv => ReplayInv
  BY DEF LogSound, OutcomeInv, TypeInv, ReplayInv
<1> QED
  BY <1>2, <1>3, <1>4, PTL DEF Spec

\* LogExplainsRun: whenever the host has control, the run in memory is the one the
\* complete records of the file stand for, as long as no Snapshot! has failed.
THEOREM LogExplainsRunHolds == FailedLeaves \subseteq {"nothing"} => (Spec => []LogExplainsRun)
<1>1. ReplayInv => LogExplainsRun
  BY DEF ReplayInv, InStep, LogExplainsRun
<1> SUFFICES ASSUME FailedLeaves \subseteq {"nothing"} PROVE Spec => []LogExplainsRun
  OBVIOUS
<1>2. Spec => []ReplayInv
  BY ReplayInvHolds
<1> QED
  BY <1>1, <1>2, PTL

\* RecoverySucceeds: recovery succeeds on a log the runtime wrote, wherever it died,
\* if an append that failed left nothing (the hypothesis), nothing is behind Done and
\* no value is too deep to be decoded (Readable), and every Snapshot! of the run could
\* be written (h_saved).  Such a log is neither refused nor does its replay diverge.
THEOREM RecoverySucceedsHolds == FailedLeaves \subseteq {"nothing"} => (Spec => []RecoverySucceeds)
<1>1. ReplayInv => RecoverySucceeds
  BY DEF ReplayInv, RecoverySucceeds
<1> SUFFICES ASSUME FailedLeaves \subseteq {"nothing"} PROVE Spec => []RecoverySucceeds
  OBVIOUS
<1>2. Spec => []ReplayInv
  BY ReplayInvHolds
<1> QED
  BY <1>1, <1>2, PTL

=============================================================================
