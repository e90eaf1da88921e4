---------------------------- MODULE DurableProofs ----------------------------
(***************************************************************************)
(* The durable host of Durable.  The image of a whole runtime is put       *)
(* together from what CodecProofs shows of its parts, and is read as it    *)
(* was written. The heap and the scheduler run, collect, checkpoint, stop  *)
(* and restart: the invariant is that every id held by the registers, the  *)
(* globals or a fiber is in use, that each fiber is listed once, and that  *)
(* the checkpoint is a whole image of a runtime that could start.  Last    *)
(* come the scopes of env.rs.                                              *)
(***************************************************************************)
EXTENDS CodecProofs

-----------------------------------------------------------------------------
(* Lists of things, and the arenas.                                        *)

\* A sequence is a list.
LEMMA SeqListed == ASSUME NEW A, NEW x \in Seq(A) PROVE Listed(x) /\ \A i \in 1 .. Len(x)
                              : x[i] \in A
  BY SMT DEF Listed

\* A list is read as it was written if what it may hold is.
LEMMA SeqBack ==
    ASSUME NEW k \in Nat, NEW l, l = k + 1, NEW T1, NEW T2 \in Leaves(Readable), NEW A,
           \A y \in A : Reads(k, T1, T2, y), NEW x \in Seq(A)
    PROVE  Reads(l, Many(T1), Many(T2), x)
<1>1. Reads(k + 1, Many(T1), Many(T2), x)
  BY SeqListed, ReadsMany
<1> QED
  BY <1>1

\* A list of ids, or of strings, is read as it was written.
LEMMA NumbersBack ==
    ASSUME NEW l \in Nat, l >= 2, NEW A, NEW x \in Seq(A)
    PROVE  Reads(l, Many(Num("u32")), Many(Num("u32")), x)
               /\ Reads(l, Many(Num("str")), Many(Num("str")), x)
<1>1. \A y \in A : Reads(1, Num("u32"), Num("u32"), y) /\ Reads(1, Num("str"), Num("str"), y)
  <2>1. 1 \in Nat /\ 1 >= 1
    BY SMT
  <2> QED
    BY <2>1, NumberRead
<1>2. "u32" \in Widths /\ "str" \in Widths
  BY DEF Widths
<1>3. Num("u32") \in Leaves(Readable) /\ Num("str") \in Leaves(Readable)
  BY <1>2, TypesAre
<1>4. 1 \in Nat /\ 2 \in Nat /\ 2 = 1 + 1 /\ 2 <= l
  BY SMT
<1> DEFINE u == Num("u32")
           s == Num("str")
           one == 1
           two == 2
<1>5. \A y \in A : Reads(one, u, u, y)
  BY <1>1
<1>6. \A y \in A : Reads(one, s, s, y)
  BY <1>1
<1>7. one \in Nat /\ two \in Nat /\ two = one + 1 /\ two <= l /\ u \in Leaves(Readable)
          /\ s \in Leaves(Readable)
  BY <1>3, <1>4
<1> HIDE DEF u, s, one, two
<1>8. Reads(two, Many(u), Many(u), x)
  BY <1>5, <1>7, SeqBack
<1>9. Reads(two, Many(s), Many(s), x)
  BY <1>6, <1>7, SeqBack
<1>10. Reads(l, Many(u), Many(u), x) /\ Reads(l, Many(s), Many(s), x)
  BY <1>7, <1>8, <1>9, ReadsDeeper
<1> QED
  BY <1>10 DEF u, s

\* Any list, read some rounds in.
LEMMA DeepSeq ==
    ASSUME NEW k \in Nat, NEW l \in Nat, k < l, NEW T \in Leaves(Readable), NEW A,
           \A y \in A : Reads(k, T, T, y), NEW x \in Seq(A)
    PROVE  Reads(l, Many(T), Many(T), x)
<1> DEFINE m == k + 1
<1>1. m \in Nat /\ m = k + 1 /\ m <= l
  BY SMT
<1> HIDE DEF m
<1>2. Reads(m, Many(T), Many(T), x)
  BY <1>1, SeqBack
<1> QED
  BY <1>1, <1>2, ReadsDeeper

\* Types the lists of a runtime are made of.
LEMMA ElementLeaves ==
    /\ One("Object") \in Leaves(Readable) /\ One("Env") \in Leaves(Readable)
    /\ One("Kont") \in Leaves(Readable) /\ One("Handler") \in Leaves(Readable)
    /\ One("Fiber") \in Leaves(Readable) /\ One("Waiters") \in Leaves(Readable)
    /\ One("Meter") \in Leaves(Readable) /\ One("Binding") \in Leaves(Readable)
  BY ReadableNames, TypesAre

\* Each arena of a heap is read as it was written.
LEMMA ArenaBack ==
    ASSUME NEW h, Shaped(h)
    PROVE  /\ Reads(7, One("Objects"), One("Objects"), Thing("Arena", h.objects))
           /\ Reads(7, One("Envs"), One("Envs"), Thing("Arena", h.envs))
           /\ Reads(7, One("Conts"), One("Conts"), Thing("Arena", h.conts))
           /\ Reads(7, One("Handlers"), One("Handlers"), Thing("Arena", h.handlers))
<1> DEFINE R == Ranges(h)
<1>1. /\ WellFormed(h.objects, ObjectsIn(R)) /\ WellFormed(h.envs, EnvsIn(R))
      /\ WellFormed(h.conts, KontsIn(R)) /\ WellFormed(h.handlers, HandlersIn(R))
  BY DEF Shaped, Arenas, ThingsIn
<1> HIDE DEF R
<1>2. 2 \in Nat /\ 3 \in Nat /\ 5 \in Nat /\ 6 \in Nat /\ 2 < 6 /\ 3 < 6 /\ 5 < 6 /\ 6 >= 2
  BY SMT
<1>3. ASSUME NEW A, NEW a, WellFormed(a, A)
      PROVE  /\ a = [n \in {"slots", "free_list", "allocations"} |-> a[n]]
             /\ a["slots"] \in Seq(A) /\ a["free_list"] \in Seq(Nat)
             /\ Thing("Arena", a) = [is |-> "Arena", f |-> a]
             /\ Reads(6, Many(Num("u32")), Many(Num("u32")), a["free_list"])
  <2>1. a \in [slots : Seq(A), free_list : Seq(Nat), allocations : Nat]
    BY <1>3 DEF WellFormed
  <2>2. /\ a = [n \in {"slots", "free_list", "allocations"} |-> a[n]]
        /\ a["slots"] \in Seq(A) /\ a["free_list"] \in Seq(Nat)
    BY <2>1
  <2>3. Reads(6, Many(Num("u32")), Many(Num("u32")), a["free_list"])
    BY <1>2, <2>2, NumbersBack
  <2> QED
    BY <2>2, <2>3 DEF Thing
<1>4. Reads(7, One("Objects"), One("Objects"), Thing("Arena", h.objects))
  <2> DEFINE a == h.objects
  <2>1. WellFormed(a, ObjectsIn(R))
    BY <1>1
  <2> HIDE DEF a
  <2>2. Reads(6, Many(One("Object")), Many(One("Object")), a["slots"])
    <3>1. \A y \in ObjectsIn(R) : Reads(5, One("Object"), One("Object"), y)
      BY ObjectBack
    <3>2. a["slots"] \in Seq(ObjectsIn(R))
      BY <1>3, <2>1
    <3> QED
      BY <1>2, <3>1, <3>2, ElementLeaves, DeepSeq
  <2>3. /\ a = [n \in {"slots", "free_list", "allocations"} |-> a[n]]
        /\ Thing("Arena", a) = [is |-> "Arena", f |-> a]
        /\ Reads(6, Many(Num("u32")), Many(Num("u32")), a["free_list"])
    BY <1>3, <2>1
  <2>4. Reads(7, One("Objects"), One("Objects"), [is |-> "Arena", f |-> a])
    BY <2>2, <2>3, BackObjects
  <2> QED
    BY <2>3, <2>4 DEF a
<1>5. Reads(7, One("Envs"), One("Envs"), Thing("Arena", h.envs))
  <2> DEFINE a == h.envs
  <2>1. WellFormed(a, EnvsIn(R))
    BY <1>1
  <2> HIDE DEF a
  <2>2. Reads(6, Many(One("Env")), Many(One("Env")), a["slots"])
    <3>1. \A y \in EnvsIn(R) : Reads(5, One("Env"), One("Env"), y)
      BY EnvBack
    <3>2. a["slots"] \in Seq(EnvsIn(R))
      BY <1>3, <2>1
    <3> QED
      BY <1>2, <3>1, <3>2, ElementLeaves, DeepSeq
  <2>3. /\ a = [n \in {"slots", "free_list", "allocations"} |-> a[n]]
        /\ Thing("Arena", a) = [is |-> "Arena", f |-> a]
        /\ Reads(6, Many(Num("u32")), Many(Num("u32")), a["free_list"])
    BY <1>3, <2>1
  <2>4. Reads(7, One("Envs"), One("Envs"), [is |-> "Arena", f |-> a])
    BY <2>2, <2>3, BackEnvs
  <2> QED
    BY <2>3, <2>4 DEF a
<1>6. Reads(7, One("Conts"), One("Conts"), Thing("Arena", h.conts))
  <2> DEFINE a == h.conts
  <2>1. WellFormed(a, KontsIn(R))
    BY <1>1
  <2> HIDE DEF a
  <2>2. Reads(6, Many(One("Kont")), Many(One("Kont")), a["slots"])
    <3>1. \A y \in KontsIn(R) : Reads(3, One("Kont"), One("Kont"), y)
      BY KontBack
    <3>2. a["slots"] \in Seq(KontsIn(R))
      BY <1>3, <2>1
    <3> QED
      BY <1>2, <3>1, <3>2, ElementLeaves, DeepSeq
  <2>3. /\ a = [n \in {"slots", "free_list", "allocations"} |-> a[n]]
        /\ Thing("Arena", a) = [is |-> "Arena", f |-> a]
        /\ Reads(6, Many(Num("u32")), Many(Num("u32")), a["free_list"])
    BY <1>3, <2>1
  <2>4. Reads(7, One("Conts"), One("Conts"), [is |-> "Arena", f |-> a])
    BY <2>2, <2>3, BackConts
  <2> QED
    BY <2>3, <2>4 DEF a
<1>7. Reads(7, One("Handlers"), One("Handlers"), Thing("Arena", h.handlers))
  <2> DEFINE a == h.handlers
  <2>1. WellFormed(a, HandlersIn(R))
    BY <1>1
  <2> HIDE DEF a
  <2>2. Reads(6, Many(One("Handler")), Many(One("Handler")), a["slots"])
    <3>1. \A y \in HandlersIn(R) : Reads(2, One("Handler"), One("Handler"), y)
      BY HandlerBack
    <3>2. a["slots"] \in Seq(HandlersIn(R))
      BY <1>3, <2>1
    <3> QED
      BY <1>2, <3>1, <3>2, ElementLeaves, DeepSeq
  <2>3. /\ a = [n \in {"slots", "free_list", "allocations"} |-> a[n]]
        /\ Thing("Arena", a) = [is |-> "Arena", f |-> a]
        /\ Reads(6, Many(Num("u32")), Many(Num("u32")), a["free_list"])
    BY <1>3, <2>1
  <2>4. Reads(7, One("Handlers"), One("Handlers"), [is |-> "Arena", f |-> a])
    BY <2>2, <2>3, BackHandlers
  <2> QED
    BY <2>3, <2>4 DEF a
<1> QED
  BY <1>4, <1>5, <1>6, <1>7

-----------------------------------------------------------------------------
(* The program, a meter, those who wait for a fiber.                       *)

ListNames == <<"exprs", "stmts", "patterns", "expr_lists", "stmt_lists",
                      "param_lists", "prop_lists", "pattern_lists", "pattern_fields",
                      "arms", "effect_clauses", "floats">>

EmptyAst == Thing("Ast", [name \in Range(ListNames) \cup {"root_start", "root_count"} |->
                            IF name \in Range(ListNames) THEN <<>> ELSE 0])

\* The lists of the program.
LEMMA ListNamesAre ==
    Range(ListNames) = {"exprs", "stmts", "patterns", "expr_lists", "stmt_lists",
                      "param_lists", "prop_lists", "pattern_lists", "pattern_fields",
                      "arms", "effect_clauses", "floats"}
<1> DEFINE t == ListNames
<1>1. DOMAIN t = 1 .. 12
  BY SMT DEF ListNames
<1>2. t[1] = "exprs"
  BY SMT DEF ListNames
<1>3. t[2] = "stmts"
  BY SMT DEF ListNames
<1>4. t[3] = "patterns"
  BY SMT DEF ListNames
<1>5. t[4] = "expr_lists"
  BY SMT DEF ListNames
<1>6. t[5] = "stmt_lists"
  BY SMT DEF ListNames
<1>7. t[6] = "param_lists"
  BY SMT DEF ListNames
<1>8. t[7] = "prop_lists"
  BY SMT DEF ListNames
<1>9. t[8] = "pattern_lists"
  BY SMT DEF ListNames
<1>10. t[9] = "pattern_fields"
  BY SMT DEF ListNames
<1>11. t[10] = "arms"
  BY SMT DEF ListNames
<1>12. t[11] = "effect_clauses"
  BY SMT DEF ListNames
<1>13. t[12] = "floats"
  BY SMT DEF ListNames
<1> HIDE DEF t
<1>14. \A i \in 1 .. 12 : i = 1 \/ i = 2 \/ i = 3 \/ i = 4 \/ i = 5 \/ i = 6 \/ i = 7 \/ i = 8
           \/ i = 9 \/
        i = 10 \/ i = 11 \/ i = 12
  BY SMT
<1>15. 1 \in 1 .. 12 /\ 2 \in 1 .. 12 /\ 3 \in 1 .. 12 /\ 4 \in 1 .. 12 /\
        5 \in 1 .. 12 /\ 6 \in 1 .. 12 /\ 7 \in 1 .. 12 /\ 8 \in 1 .. 12 /\
        9 \in 1 .. 12 /\ 10 \in 1 .. 12 /\ 11 \in 1 .. 12 /\ 12 \in 1 .. 12
  BY SMT
<1>16. Range(t) = {t[i] : i \in 1 .. 12}
  BY <1>1 DEF Range
<1>17. ASSUME NEW x, x \in Range(t)
       PROVE  x = "exprs" \/ x = "stmts" \/ x = "patterns" \/ x = "expr_lists" \/
               x = "stmt_lists" \/ x = "param_lists" \/ x = "prop_lists" \/
               x = "pattern_lists" \/ x = "pattern_fields" \/ x = "arms" \/
               x = "effect_clauses" \/ x = "floats"
  <2>1. PICK i \in 1 .. 12 : x = t[i]
    BY <1>16, <1>17
  <2>2. CASE i = 1
    BY <2>1, <2>2, <1>2, Zenon
  <2>3. CASE i = 2
    BY <2>1, <2>3, <1>3, Zenon
  <2>4. CASE i = 3
    BY <2>1, <2>4, <1>4, Zenon
  <2>5. CASE i = 4
    BY <2>1, <2>5, <1>5, Zenon
  <2>6. CASE i = 5
    BY <2>1, <2>6, <1>6, Zenon
  <2>7. CASE i = 6
    BY <2>1, <2>7, <1>7, Zenon
  <2>8. CASE i = 7
    BY <2>1, <2>8, <1>8, Zenon
  <2>9. CASE i = 8
    BY <2>1, <2>9, <1>9, Zenon
  <2>10. CASE i = 9
    BY <2>1, <2>10, <1>10, Zenon
  <2>11. CASE i = 10
    BY <2>1, <2>11, <1>11, Zenon
  <2>12. CASE i = 11
    BY <2>1, <2>12, <1>12, Zenon
  <2>13. CASE i = 12
    BY <2>1, <2>13, <1>13, Zenon
  <2> QED
    BY <1>14, <2>2, <2>3, <2>4, <2>5, <2>6, <2>7, <2>8, <2>9, <2>10, <2>11, <2>12, <2>13
<1>18. "exprs" \in Range(t)
  BY <1>15, <1>16, <1>2, Zenon
<1>19. "stmts" \in Range(t)
  BY <1>15, <1>16, <1>3, Zenon
<1>20. "patterns" \in Range(t)
  BY <1>15, <1>16, <1>4, Zenon
<1>21. "expr_lists" \in Range(t)
  BY <1>15, <1>16, <1>5, Zenon
<1>22. "stmt_lists" \in Range(t)
  BY <1>15, <1>16, <1>6, Zenon
<1>23. "param_lists" \in Range(t)
  BY <1>15, <1>16, <1>7, Zenon
<1>24. "prop_lists" \in Range(t)
  BY <1>15, <1>16, <1>8, Zenon
<1>25. "pattern_lists" \in Range(t)
  BY <1>15, <1>16, <1>9, Zenon
<1>26. "pattern_fields" \in Range(t)
  BY <1>15, <1>16, <1>10, Zenon
<1>27. "arms" \in Range(t)
  BY <1>15, <1>16, <1>11, Zenon
<1>28. "effect_clauses" \in Range(t)
  BY <1>15, <1>16, <1>12, Zenon
<1>29. "floats" \in Range(t)
  BY <1>15, <1>16, <1>13, Zenon
<1> QED
  BY <1>17, <1>18, <1>19, <1>20, <1>21, <1>22, <1>23, <1>24, <1>25, <1>26, <1>27, <1>28, <1>29 DEF t

\* Types the lists of the program are made of.
LEMMA AstLeaves ==
    /\ One("Expr") \in Leaves(Readable)
    /\ One("Stmt") \in Leaves(Readable)
    /\ One("Pattern") \in Leaves(Readable)
    /\ Num("u32") \in Leaves(Readable)
    /\ One("PropEntry") \in Leaves(Readable)
    /\ One("PatternField") \in Leaves(Readable)
    /\ One("MatchArm") \in Leaves(Readable)
    /\ One("EffectClause") \in Leaves(Readable)
    /\ Num("f64") \in Leaves(Readable)
<1>1. "Expr" \in DOMAIN Readable /\ "Stmt" \in DOMAIN Readable /\
      "Pattern" \in DOMAIN Readable /\ "PropEntry" \in DOMAIN Readable /\
      "PatternField" \in DOMAIN Readable /\ "MatchArm" \in DOMAIN Readable /\
      "EffectClause" \in DOMAIN Readable
  BY ReadableAssumption DEF ReaderTables
<1>2. "u32" \in Widths /\ "f64" \in Widths
  BY DEF Widths
<1> QED
  BY <1>1, <1>2, TypesAre

\* The program is read as it was written.
LEMMA AstBack == Reads(3, One("Ast"), One("Ast"), EmptyAst)
<1> DEFINE f == EmptyAst.f
           N == Range(ListNames)
<1>1. EmptyAst = [is |-> "Ast", f |-> f]
  BY DEF EmptyAst, Thing
<1>2. f = [n \in N \cup {"root_start", "root_count"} |-> f[n]] /\ \A n \in N : f[n] = <<>>
  BY DEF EmptyAst, Thing
<1>3. N \cup {"root_start", "root_count"}
      = {"exprs", "stmts", "patterns", "expr_lists", "stmt_lists", "param_lists",
         "prop_lists", "pattern_lists", "pattern_fields", "arms", "effect_clauses", "floats",
         "root_start", "root_count"}
  BY ListNamesAre
<1>4. "exprs" \in N /\ "stmts" \in N /\ "patterns" \in N /\ "expr_lists" \in N /\
      "stmt_lists" \in N /\ "param_lists" \in N /\ "prop_lists" \in N /\
      "pattern_lists" \in N /\ "pattern_fields" \in N /\ "arms" \in N /\
      "effect_clauses" \in N /\ "floats" \in N
  BY ListNamesAre
<1> HIDE DEF f, N
<1>5. 2 \in Nat /\ 2 >= 1
  BY SMT
<1>6. \A T \in Leaves(Readable) : Reads(2, Many(T), Many(T), <<>>)
  BY <1>5, NoneBack
<1>7. Reads(2, Many(One("Expr")), Many(One("Expr")), f["exprs"])
  BY <1>2, <1>4, <1>6, AstLeaves, Zenon
<1>8. Reads(2, Many(One("Stmt")), Many(One("Stmt")), f["stmts"])
  BY <1>2, <1>4, <1>6, AstLeaves, Zenon
<1>9. Reads(2, Many(One("Pattern")), Many(One("Pattern")), f["patterns"])
  BY <1>2, <1>4, <1>6, AstLeaves, Zenon
<1>10. Reads(2, Many(Num("u32")), Many(Num("u32")), f["expr_lists"])
  BY <1>2, <1>4, <1>6, AstLeaves, Zenon
<1>11. Reads(2, Many(Num("u32")), Many(Num("u32")), f["stmt_lists"])
  BY <1>2, <1>4, <1>6, AstLeaves, Zenon
<1>12. Reads(2, Many(Num("u32")), Many(Num("u32")), f["param_lists"])
  BY <1>2, <1>4, <1>6, AstLeaves, Zenon
<1>13. Reads(2, Many(One("PropEntry")), Many(One("PropEntry")), f["prop_lists"])
  BY <1>2, <1>4, <1>6, AstLeaves, Zenon
<1>14. Reads(2, Many(Num("u32")), Many(Num("u32")), f["pattern_lists"])
  BY <1>2, <1>4, <1>6, AstLeaves, Zenon
<1>15. Reads(2, Many(One("PatternField")), Many(One("PatternField")), f["pattern_fields"])
  BY <1>2, <1>4, <1>6, AstLeaves, Zenon
<1>16. Reads(2, Many(One("MatchArm")), Many(One("MatchArm")), f["arms"])
  BY <1>2, <1>4, <1>6, AstLeaves, Zenon
<1>17. Reads(2, Many(One("EffectClause")), Many(One("EffectClause")), f["effect_clauses"])
  BY <1>2, <1>4, <1>6, AstLeaves, Zenon
<1>18. Reads(2, Many(Num("f64")), Many(Num("f64")), f["floats"])
  BY <1>2, <1>4, <1>6, AstLeaves, Zenon
<1>19. f = [n \in {"exprs", "stmts", "patterns", "expr_lists", "stmt_lists", "param_lists",
         "prop_lists", "pattern_lists", "pattern_fields", "arms", "effect_clauses",
         "floats", "root_start", "root_count"} |-> f[n]]
  BY <1>2, <1>3, Zenon
<1>20. Reads(3, One("Ast"), One("Ast"), [is |-> "Ast", f |-> f])
  BY <1>7, <1>8, <1>9, <1>10, <1>11, <1>12, <1>13, <1>14, <1>15, <1>16, <1>17, <1>18,
     <1>19, BackAst
<1> QED
  BY <1>1, <1>20

Unlimited == Thing("Meter", [remaining |-> <<>>, parent |-> <<>>])

\* A meter is read as it was written.
LEMMA MeterBack == Reads(3, One("Meter"), One("Meter"), Unlimited)
<1> DEFINE f == [remaining |-> <<>>, parent |-> <<>>]
<1>1. /\ f = [n \in {"remaining", "parent"} |-> f[n]]
      /\ f["remaining"] = <<>> /\ f["parent"] = <<>>
  OBVIOUS
<1>2. Unlimited = [is |-> "Meter", f |-> f]
  BY DEF Unlimited, Thing
<1> HIDE DEF f
<1>3. "u64" \in Widths /\ "u32" \in Widths
  BY DEF Widths
<1>4. Num("u64") \in Leaves(Readable) /\ Num("u32") \in Leaves(Readable) /\ 2 \in Nat /\ 2 >= 1
  BY <1>3, TypesAre, SMT
<1>5. Reads(2, Opt(Num("u64")), Opt(Num("u64")), f["remaining"])
  BY <1>1, <1>4, NoneBack
<1>6. Reads(2, Opt(Num("u32")), Opt(Num("u32")), f["parent"])
  BY <1>1, <1>4, NoneBack
<1> QED
  BY <1>1, <1>2, <1>5, <1>6, BackMeter

\* Who waits for a fiber.
WaitersOf(w, id) == Thing("Waiters", [fiber |-> id, waiters |-> w[id]])

\* Those who wait for a fiber are read as they were written.
LEMMA WaitersBack ==
    ASSUME NEW w, NEW id, NEW A, w[id] \in Seq(A)
    PROVE  Reads(3, One("Waiters"), One("Waiters"), WaitersOf(w, id))
<1> DEFINE s == w[id]
           f == [fiber |-> id, waiters |-> s]
<1>1. f = [n \in {"fiber", "waiters"} |-> f[n]] /\ f["waiters"] = s
  OBVIOUS
<1>2. WaitersOf(w, id) = [is |-> "Waiters", f |-> f]
  BY DEF WaitersOf, Thing
<1>3. s \in Seq(A)
  OBVIOUS
<1> HIDE DEF f, s
<1>4. 2 \in Nat /\ 2 >= 2
  BY SMT
<1>5. Reads(2, Many(Num("u32")), Many(Num("u32")), f["waiters"])
  BY <1>1, <1>3, <1>4, NumbersBack
<1> QED
  BY <1>1, <1>2, <1>5, BackWaiters

-----------------------------------------------------------------------------
(* A whole runtime.                                                        *)

\* What is written of a state, js the list of those who wait.
Image(h, ctl, e, k, gs, fs, queue, js, next) ==
    [magic |-> Magic, version |-> Version, strings |-> [i \in 1 .. 10 |-> i - 1],
     ast |-> EmptyAst, objects |-> Thing("Arena", h.objects),
     envs |-> Thing("Arena", h.envs), conts |-> Thing("Arena", h.conts),
     handlers |-> Thing("Arena", h.handlers), control |-> ctl, env |-> e, cont |-> k,
     globals |-> gs, fibers |-> fs, ready_queue |-> queue, next_fiber_id |-> next,
     join_waiters |-> js, effects |-> <<>>, meters |-> <<Unlimited>>,
     steps_total |-> 0, quantum |-> 1]

\* The fields of the image of a runtime.
LEMMA ImageIs ==
    ASSUME NEW h, NEW ctl, NEW e, NEW k, NEW gs, NEW fs, NEW queue, NEW js, NEW next,
           NEW f, f = Image(h, ctl, e, k, gs, fs, queue, js, next)
    PROVE  /\ f = [n \in {"magic", "version", "strings", "ast", "objects", "envs", "conts",
                          "handlers", "control", "env", "cont", "globals", "fibers",
                          "ready_queue", "next_fiber_id", "join_waiters", "effects",
                          "meters", "steps_total", "quantum"} |-> f[n]]
           /\ f["magic"] = Magic
           /\ f["version"] = Version
           /\ f["strings"] = [i \in 1 .. 10 |-> i - 1]
           /\ f["ast"] = EmptyAst
           /\ f["objects"] = Thing("Arena", h.objects)
           /\ f["envs"] = Thing("Arena", h.envs)
           /\ f["conts"] = Thing("Arena", h.conts)
           /\ f["handlers"] = Thing("Arena", h.handlers)
           /\ f["control"] = ctl
           /\ f["env"] = e
           /\ f["cont"] = k
           /\ f["globals"] = gs
           /\ f["fibers"] = fs
           /\ f["ready_queue"] = queue
           /\ f["next_fiber_id"] = next
           /\ f["join_waiters"] = js
           /\ f["effects"] = <<>>
           /\ f["meters"] = <<Unlimited>>
           /\ f["steps_total"] = 0
           /\ f["quantum"] = 1
  BY DEF Image

\* The image of a runtime is read as it was written, in eight rounds.
LEMMA ImageBack ==
    ASSUME NEW h, Shaped(h), NEW ctl \in ControlsIn(Ranges(h)), NEW e, NEW k,
           NEW gs \in UpToOne(BindingsIn(Ranges(h))), NEW fs \in Seq(FibersIn(Ranges(h))),
           NEW queue \in Seq(Nat), NEW next, NEW w, NEW J, \A id \in J : w[id] \in Seq(Nat),
           NEW js \in Seq({WaitersOf(w, id) : id \in J})
    PROVE  Reads(8, One("Runtime"), One("Runtime"),
                 Thing("Runtime", Image(h, ctl, e, k, gs, fs, queue, js, next)))
<1> DEFINE f == Image(h, ctl, e, k, gs, fs, queue, js, next)
<1>1. Thing("Runtime", f) = [is |-> "Runtime", f |-> f]
  BY DEF Thing
<1>2. f = [n \in {"magic", "version", "strings", "ast", "objects", "envs", "conts", "handlers",
              "control", "env", "cont", "globals", "fibers", "ready_queue",
              "next_fiber_id", "join_waiters", "effects", "meters", "steps_total",
              "quantum"} |-> f[n]]
  BY DEF Image
<1>3. /\ f["strings"] = [i \in 1 .. 10 |-> i - 1] /\ f["ast"] = EmptyAst
      /\ f["objects"] = Thing("Arena", h.objects) /\ f["envs"] = Thing("Arena", h.envs)
      /\ f["conts"] = Thing("Arena", h.conts) /\ f["handlers"] = Thing("Arena", h.handlers)
      /\ f["control"] = ctl /\ f["globals"] = gs /\ f["fibers"] = fs
      /\ f["ready_queue"] = queue /\ f["join_waiters"] = js /\ f["effects"] = <<>>
      /\ f["meters"] = <<Unlimited>>
  BY DEF Image
<1> HIDE DEF f
<1>4. 2 \in Nat /\ 3 \in Nat /\ 4 \in Nat /\ 5 \in Nat /\ 7 \in Nat /\ 7 >= 2 /\ 7 >= 1
      /\ 3 < 7 /\ 5 < 7 /\ 3 <= 7 /\ 4 <= 7
  BY SMT
<1>5. Reads(7, Many(Num("str")), Many(Num("str")), f["strings"])
  <2> DEFINE s == [i \in 1 .. 10 |-> i - 1]
  <2>1. s \in Seq(Int)
    BY SMT
  <2> HIDE DEF s
  <2>2. Reads(7, Many(Num("str")), Many(Num("str")), s)
    BY <1>4, <2>1, NumbersBack
  <2> QED
    BY <1>3, <2>2 DEF s
<1>6. Reads(7, One("Ast"), One("Ast"), f["ast"])
  BY <1>3, <1>4, AstBack, ReadsDeeper
<1>7. Reads(7, One("Objects"), One("Objects"), f["objects"])
  BY <1>3, ArenaBack
<1>8. Reads(7, One("Envs"), One("Envs"), f["envs"])
  BY <1>3, ArenaBack
<1>9. Reads(7, One("Conts"), One("Conts"), f["conts"])
  BY <1>3, ArenaBack
<1>10. Reads(7, One("Handlers"), One("Handlers"), f["handlers"])
  BY <1>3, ArenaBack
<1>11. Reads(7, One("Control"), One("Control"), f["control"])
  BY <1>3, <1>4, ControlBack, ReadsDeeper
<1>12. Reads(7, Many(One("Binding")), Many(One("Binding")), f["globals"])
  <2>1. \A y \in BindingsIn(Ranges(h)) : Reads(3, One("Binding"), One("Binding"), y)
    BY BindingBack
  <2> DEFINE j == 3
             m == 4
  <2>2. j \in Nat /\ m \in Nat /\ m = j + 1 /\ m <= 7 /\ \A y \in BindingsIn(Ranges(h))
            : Reads(j, One("Binding"), One("Binding"), y)
    BY <1>4, <2>1, SMT
  <2> HIDE DEF j, m
  <2>3. Reads(j + 1, Many(One("Binding")), Many(One("Binding")), gs)
    BY <2>2, ElementLeaves, FewBack
  <2>4. Reads(7, Many(One("Binding")), Many(One("Binding")), gs)
    BY <1>4, <2>2, <2>3, ReadsDeeper
  <2> QED
    BY <1>3, <2>4
<1>13. Reads(7, Many(One("Fiber")), Many(One("Fiber")), f["fibers"])
  <2>1. \A y \in FibersIn(Ranges(h)) : Reads(5, One("Fiber"), One("Fiber"), y)
    BY FiberBack
  <2>2. Reads(7, Many(One("Fiber")), Many(One("Fiber")), fs)
    BY <1>4, <2>1, ElementLeaves, DeepSeq
  <2> QED
    BY <1>3, <2>2
<1>14. Reads(7, Many(Num("u32")), Many(Num("u32")), f["ready_queue"])
  BY <1>3, <1>4, NumbersBack
<1>15. Reads(7, Many(One("Waiters")), Many(One("Waiters")), f["join_waiters"])
  <2> DEFINE A == {WaitersOf(w, id) : id \in J}
  <2>1. \A y \in A : Reads(3, One("Waiters"), One("Waiters"), y)
    BY WaitersBack
  <2>2. js \in Seq(A)
    OBVIOUS
  <2> HIDE DEF A
  <2>3. Reads(7, Many(One("Waiters")), Many(One("Waiters")), js)
    BY <1>4, <2>1, <2>2, ElementLeaves, DeepSeq
  <2> QED
    BY <1>3, <2>3
<1>16. Reads(7, Many(One("Grant")), Many(One("Grant")), f["effects"])
  <2>1. "Grant" \in DOMAIN Readable
    BY ReadableAssumption DEF ReaderTables
  <2>2. One("Grant") \in Leaves(Readable)
    BY <2>1, TypesAre
  <2>3. Reads(7, Many(One("Grant")), Many(One("Grant")), <<>>)
    BY <1>4, <2>2, NoneBack
  <2> QED
    BY <1>3, <2>3
<1>17. Reads(7, Many(One("Meter")), Many(One("Meter")), f["meters"])
  <2> DEFINE A == {Unlimited}
             s == <<Unlimited>>
  <2>1. s \in Seq(A)
    BY SMT
  <2>2. \A y \in A : Reads(3, One("Meter"), One("Meter"), y)
    BY MeterBack
  <2>3. f["meters"] = s
    BY <1>3
  <2> HIDE DEF A, s
  <2>4. Reads(7, Many(One("Meter")), Many(One("Meter")), s)
    BY <1>4, <2>1, <2>2, ElementLeaves, DeepSeq
  <2> QED
    BY <2>3, <2>4
<1>18. Reads(8, One("Runtime"), One("Runtime"), [is |-> "Runtime", f |-> f])
  BY <1>2, <1>5, <1>6, <1>7, <1>8, <1>9, <1>10, <1>11, <1>12, <1>13, <1>14, <1>15, <1>16, <1>17,
     BackRuntime
<1> QED
  BY <1>1, <1>18 DEF f

-----------------------------------------------------------------------------
(* What is written is read.                                                *)

\* What is read in as many rounds as the bounded depth allows is got from what was
\* put.
LEMMA GetPut ==
    ASSUME NEW k \in Nat, k >= 1, MaxDepth >= k, NEW n, NEW x, Reads(k, One(n), One(n), x),
           NEW bytes, bytes = Put(Written, One(n), x)
    PROVE  /\ Listed(bytes)
           /\ \E pos : Get(Readable, One(n), bytes, 1) = Got(x, pos)
<1> DEFINE T == One(n)
           t == <<Todo(T, x)>>
<1>1. bytes = After(t, MaxDepth)
  BY DEF Put, After
<1>2. T \in Types(Readable) /\ Goes(t)
  BY DEF Reads
<1>3. MaxDepth \in Nat
  BY DepthAssumption
<1>4. Listed(bytes)
  BY <1>1, <1>2, <1>3 DEF Goes, Fine
<1>5. Len(bytes) \in Nat
  BY <1>4, ListedIs
<1>6. HasAt(bytes, 1, bytes)
  <2> DEFINE N == Len(bytes)
  <2>1. N \in Nat
    BY <1>5
  <2> HIDE DEF N
  <2>2. 1 \in Nat \ {0} /\ 1 + N <= N + 1 /\ \A j \in 1 .. N : 1 + (j - 1) = j
    BY <2>1, SMT
  <2>3. \A j \in 1 .. N : bytes[1 + (j - 1)] = bytes[j]
    BY <2>2
  <2> QED
    BY <1>4, <2>1, <2>2, <2>3 DEF HasAt, N
<1>7. Reader(bytes)[MaxDepth][<<T, 1>>] = Got(x, 1 + Len(After(t, MaxDepth)))
  <2>1. Reads(k, T, T, x) /\ HasAt(bytes, 1, After(t, MaxDepth))
    BY <1>1, <1>6
  <2>2. MaxDepth >= k /\ MaxDepth <= MaxDepth
    BY <1>3, SMT
  <2> HIDE DEF T
  <2> QED
    BY <1>3, <2>1, <2>2 DEF Reads
<1>8. Get(Readable, T, bytes, 1) = Reader(bytes)[MaxDepth][<<T, 1>>]
  <2>1. 1 \in Nat
    BY SMT
  <2> QED
    BY <1>2, <2>1, ReaderIs
<1> QED
  BY <1>4, <1>7, <1>8

\* The image of a runtime passes what decode checks after reading.
LEMMA ImageAcceptable ==
    ASSUME NEW h, Shaped(h), NEW ctl, NEW e \in Ranges(h).envs, NEW k \in Ranges(h).conts, NEW gs,
           NEW fs \in Seq(FibersIn(Ranges(h))), NEW queue, NEW js, NEW next
    PROVE  Acceptable(Image(h, ctl, e, k, gs, fs, queue, js, next))
<1> DEFINE f == Image(h, ctl, e, k, gs, fs, queue, js, next)
<1>1. /\ f.magic = Magic /\ f.version = Version /\ f.envs = Thing("Arena", h.envs)
      /\ f.conts = Thing("Arena", h.conts) /\ f.meters = <<Unlimited>> /\ f.quantum = 1
      /\ f.fibers = fs
  BY DEF Image
<1> HIDE DEF f
<1>2. f.envs.f.slots # <<>>
  <2>1. e \in 0 .. Len(h.envs.slots) - 1
    BY DEF Ranges, IdsOf
  <2>2. h.envs.slots # <<>>
    BY <2>1, SMT
  <2> QED
    BY <1>1, <2>2 DEF Thing
<1>3. f.conts.f.slots # <<>>
  <2>1. k \in 0 .. Len(h.conts.slots) - 1
    BY DEF Ranges, IdsOf
  <2>2. h.conts.slots # <<>>
    BY <2>1, SMT
  <2> QED
    BY <1>1, <2>2 DEF Thing
<1>4. f.meters # <<>> /\ Len(f.meters) = 1 /\ DOMAIN f.meters = {1} /\ f.meters[1] = Unlimited
  BY <1>1, SMT
<1>5. MetersOrdered(f.meters)
  <2>1. Unlimited.f.parent = <<>>
    BY DEF Unlimited, Thing
  <2>2. Range(<<>>) = {}
    <3>1. DOMAIN <<>> = {}
      BY SMT
    <3> QED
      BY <3>1 DEF Range
  <2> QED
    BY <1>4, <2>1, <2>2 DEF MetersOrdered
<1>6. \A i \in DOMAIN fs : fs[i].f.meter < Len(f.meters) /\ HostArgsReadable(fs[i])
  <2> SUFFICES ASSUME NEW i \in DOMAIN fs
               PROVE  fs[i].f.meter < Len(f.meters) /\ HostArgsReadable(fs[i])
    OBVIOUS
  <2>1. fs[i] \in FibersIn(Ranges(h))
    BY SMT
  <2> DEFINE x == fs[i]
  <2> HIDE DEF x
  <2>2. /\ x = Fiber(x.f.id, x.f.control, x.f.cont, x.f.env, x.f.status)
        /\ x.f.status \in StatusesIn(Ranges(h))
    BY <2>1, FiberShape DEF x
  <2>3. x.f.meter = 0
    <3> DEFINE a == x.f.id  b == x.f.control  c == x.f.cont  d == x.f.env  s == x.f.status
    <3>1. x = Fiber(a, b, c, d, s)
      BY <2>2
    <3> HIDE DEF a, b, c, d, s
    <3> QED
      BY <3>1 DEF Fiber, Thing
  <2>4. x.f.status.is # "BlockedOnHost"
    BY <2>2, StatusShape DEF Ready, Running, Completed, Thing
  <2>5. HostArgsReadable(x)
    BY <2>4 DEF HostArgsReadable
  <2>6. 0 < 1
    BY SMT
  <2> QED
    BY <1>4, <2>3, <2>5, <2>6 DEF x
<1>7. 1 > 0
  BY SMT
<1>8. Acceptable(f)
  BY <1>1, <1>2, <1>3, <1>4, <1>5, <1>6, <1>7 DEF Acceptable
<1> QED
  BY <1>8 DEF f

\* A runtime that is the image of a state, but for its strings.
IsImage(rt, h, ctl, e, k, gs, fs, queue, js, next) ==
    /\ rt.objects.f = h.objects /\ rt.envs.f = h.envs /\ rt.conts.f = h.conts
    /\ rt.handlers.f = h.handlers
    /\ rt.control = ctl /\ rt.env = e /\ rt.cont = k /\ rt.globals = gs /\ rt.fibers = fs
    /\ rt.ready_queue = queue /\ rt.next_fiber_id = next /\ rt.join_waiters = js

\* What write_runtime makes of any runtime, whatever its heap, its fibers, its queue and
\* its waiters hold of the things that Machine and Durable build, is accepted by
\* read_runtime and read as that runtime, if things may nest eight deep on the wire.
THEOREM ImageRead ==
    ASSUME MaxDepth >= 8,
           NEW h, Shaped(h), NEW ctl \in ControlsIn(Ranges(h)),
           NEW e \in Ranges(h).envs, NEW k \in Ranges(h).conts,
           NEW gs \in UpToOne(BindingsIn(Ranges(h))), NEW fs \in Seq(FibersIn(Ranges(h))),
           NEW queue \in Seq(Nat), NEW next, NEW w, NEW J, \A id \in J : w[id] \in Seq(Nat),
           NEW js \in Seq({WaitersOf(w, id) : id \in J}),
           NEW bytes,
           bytes = Put(Written, One("Runtime"),
                       Thing("Runtime", Image(h, ctl, e, k, gs, fs, queue, js, next)))
    PROVE  /\ Listed(bytes)
           /\ ReadSnapshot(bytes).ok
           /\ IsImage(ReadSnapshot(bytes).x.f, h, ctl, e, k, gs, fs, queue, js, next)
<1> DEFINE f == Image(h, ctl, e, k, gs, fs, queue, js, next)
           x == Thing("Runtime", f)
<1>1. Reads(8, One("Runtime"), One("Runtime"), x)
  BY ImageBack
<1>2. Acceptable(f)
  BY ImageAcceptable
<1>3. /\ f = [n \in DOMAIN f |-> f[n]]
      /\ "objects" \in DOMAIN f /\ "envs" \in DOMAIN f /\ "conts" \in DOMAIN f
      /\ "handlers" \in DOMAIN f /\ "control" \in DOMAIN f /\ "env" \in DOMAIN f
      /\ "cont" \in DOMAIN f /\ "globals" \in DOMAIN f /\ "fibers" \in DOMAIN f
      /\ "ready_queue" \in DOMAIN f /\ "next_fiber_id" \in DOMAIN f
      /\ "join_waiters" \in DOMAIN f
  BY DEF Image
<1>4. IsImage(f, h, ctl, e, k, gs, fs, queue, js, next)
  BY DEF Image, IsImage, Thing
<1>5. 8 \in Nat /\ 8 >= 1
  BY SMT
<1>6. x.f = f /\ DOMAIN x = {"is", "f"}
  BY DEF Thing
<1> HIDE DEF f, x
<1>7. Listed(bytes) /\ \E pos : Get(Readable, One("Runtime"), bytes, 1) = Got(x, pos)
  BY <1>1, <1>5, GetPut DEF x, f
<1>8. PICK pos : Get(Readable, One("Runtime"), bytes, 1) = Got(x, pos)
  BY <1>7
<1>9. ReadSnapshot(bytes) = Got([x EXCEPT !.f.strings = Interned(x.f.strings)], pos)
  <2>1. Got(x, pos).ok /\ Got(x, pos).x = x /\ Got(x, pos).pos = pos
    BY DEF Got
  <2> QED
    BY <1>2, <1>6, <1>8, <2>1 DEF ReadSnapshot, Checked
<1> DEFINE strings == Interned(x.f.strings)
           y == [x EXCEPT !.f.strings = strings]
<1>10. ReadSnapshot(bytes).ok /\ ReadSnapshot(bytes).x = y
  <2>1. ReadSnapshot(bytes) = Got(y, pos)
    BY <1>9
  <2> HIDE DEF y
  <2> QED
    BY <2>1 DEF Got
<1> HIDE DEF strings
<1>11. y.f = [f EXCEPT !.strings = strings]
  <2>1. x = [is |-> "Runtime", f |-> f]
    BY DEF x, Thing
  <2> DEFINE g == [f EXCEPT !.strings = strings]
  <2>2. y = [x EXCEPT !.f = g]
    BY <1>6, Zenon
  <2> HIDE DEF g, y
  <2>3. y.f = g
    BY <2>1, <2>2
  <2> QED
    BY <2>3 DEF g
<1>12. \A n \in DOMAIN f : n # "strings" => y.f[n] = f[n]
  BY <1>3, <1>11
<1> HIDE DEF y
<1>13. /\ y.f.objects = f.objects /\ y.f.envs = f.envs /\ y.f.conts = f.conts
       /\ y.f.handlers = f.handlers /\ y.f.control = f.control /\ y.f.env = f.env
       /\ y.f.cont = f.cont /\ y.f.globals = f.globals /\ y.f.fibers = f.fibers
       /\ y.f.ready_queue = f.ready_queue /\ y.f.next_fiber_id = f.next_fiber_id
       /\ y.f.join_waiters = f.join_waiters
  BY <1>3, <1>12
<1>14. IsImage(y.f, h, ctl, e, k, gs, fs, queue, js, next)
  BY <1>4, <1>13 DEF IsImage
<1> QED
  BY <1>7, <1>10, <1>14

-----------------------------------------------------------------------------
(* Those who wait, as they are written: fiber by fiber, in some order.     *)

\* A finite set, listed.
LEMMA SetToSeqIs ==
    ASSUME NEW S, IsFiniteSet(S), NEW s, s = SetToSeq(S)
    PROVE  /\ s \in Seq(S) /\ \A x \in S : \E i \in 1 .. Len(s) : s[i] = x
           /\ Len(s) = Cardinality(S) /\ \A i, j \in 1 .. Len(s) : s[i] = s[j] => i = j
<1> DEFINE n == Cardinality(S)
<1>1. n \in Nat
  BY FS_CardinalityType
<1>2. IsFiniteSet(1 .. n) /\ Cardinality(1 .. n) = n
  <2> HIDE DEF n
  <2>1. 1 \in Int /\ n \in Int /\ (IF 1 > n THEN 0 ELSE n - 1 + 1) = n
    BY <1>1, SMT
  <2> QED
    BY <2>1, FS_Interval
<1>3. \E f : f \in Bijection(1 .. n, S)
  BY <1>2, FS_SameCardinalityBij DEF ExistsBijection
<1>4. \E f \in [1 .. n -> S] : IsInjective(f)
  BY <1>3 DEF Bijection, Injection
<1>5. s \in [1 .. n -> S] /\ IsInjective(s)
  BY <1>4 DEF SetToSeq
<1> HIDE DEF n
<1>6. s \in Seq(S) /\ Len(s) = n
  BY <1>1, <1>5, SMT
<1>7. s \in Injection(1 .. n, S)
  BY <1>5 DEF Injection
<1>8. s \in Surjection(1 .. n, S)
  BY <1>2, <1>7, FS_Injection DEF n
<1>9. \A i, j \in 1 .. Len(s) : s[i] = s[j] => i = j
  BY <1>5, <1>6 DEF IsInjective
<1> QED
  BY <1>6, <1>8, <1>9 DEF Surjection, n

Waited(w) == {j \in DOMAIN w : w[j] # <<>>}
WaitersList(w) == SetToSeq({WaitersOf(w, id) : id \in Waited(w)})

\* The list of those who wait has an entry for each fiber waited for.
LEMMA WaitersListIs ==
    ASSUME NEW w, DOMAIN w = FiberId, NEW js, js = WaitersList(w)
    PROVE  /\ js \in Seq({WaitersOf(w, id) : id \in Waited(w)})
           /\ \A id \in Waited(w) : \E i \in 1 .. Len(js) : js[i] = WaitersOf(w, id)
<1> DEFINE J == Waited(w)
           S == {WaitersOf(w, id) : id \in J}
           f == [id \in J |-> WaitersOf(w, id)]
<1>1. IsFiniteSet(FiberId)
  <2>1. 0 \in Int /\ MaxFibers \in Int
    BY DurableAssumption, SMT
  <2> QED
    BY <2>1, FS_Interval DEF FiberId
<1>2. J \in SUBSET FiberId
  BY DEF Waited
<1>3. IsFiniteSet(J)
  BY <1>1, <1>2, FS_Subset
<1>4. f \in Surjection(J, S)
  <2> HIDE DEF J
  <2>1. f \in [J -> S]
    OBVIOUS
  <2>2. \A t \in S : \E s \in J : f[s] = t
    OBVIOUS
  <2> QED
    BY <2>1, <2>2 DEF Surjection
<1>5. IsFiniteSet(S)
  <2> HIDE DEF J, S, f
  <2> QED
    BY <1>3, <1>4, FS_Surjection
<1>6. js = SetToSeq(S)
  BY DEF WaitersList
<1>7. \A id \in J : WaitersOf(w, id) \in S
  OBVIOUS
<1> HIDE DEF J, S
<1>8. js \in Seq(S) /\ \A x \in S : \E i \in 1 .. Len(js) : js[i] = x
  BY <1>5, <1>6, SetToSeqIs
<1> QED
  BY <1>7, <1>8 DEF J, S

\* Each fiber finds those who wait for it.
LEMMA WaitersFound ==
    ASSUME NEW w, DOMAIN w = FiberId, NEW js, js = WaitersList(w), NEW id \in FiberId
    PROVE  LET at == SelectInSeq(js, LAMBDA x : x.f.fiber = id) IN
           (IF at = 0 THEN <<>> ELSE js[at].f.waiters) = w[id]
<1> DEFINE T == {i \in 1 .. Len(js) : js[i].f.fiber = id}
           at == SelectInSeq(js, LAMBDA x : x.f.fiber = id)
<1>1. /\ js \in Seq({WaitersOf(w, j) : j \in Waited(w)})
      /\ \A j \in Waited(w) : \E i \in 1 .. Len(js) : js[i] = WaitersOf(w, j)
  BY WaitersListIs
<1>2. Len(js) \in Nat /\ \A i \in 1 .. Len(js) : js[i] \in {WaitersOf(w, j) : j \in Waited(w)}
  BY <1>1, SeqListed, ListedIs
<1>3. at = IF T # {} THEN Min(T) ELSE 0
  BY DEF SelectInSeq
<1>4. \A j : WaitersOf(w, j).f.fiber = j /\ WaitersOf(w, j).f.waiters = w[j]
  BY DEF WaitersOf, Thing
<1> HIDE DEF at
<1>5. \A i \in T : js[i].f.waiters = w[id] /\ id \in Waited(w)
  BY <1>2, <1>4
<1>6. id \in Waited(w) => T # {}
  BY <1>1, <1>4
<1>7. T \subseteq Nat
  BY SMT
<1>8. CASE T # {}
  <2>1. \E n \in T : \A m \in T : n <= m
    <3> HIDE DEF T
    <3> QED
      BY <1>7, <1>8, Least
  <2>2. Min(T) \in T
    <3> HIDE DEF T
    <3> QED
      BY <2>1 DEF Min
  <2>3. \A i \in T : i # 0
    BY SMT
  <2> HIDE DEF T
  <2> QED
    BY <1>3, <1>5, <1>8, <2>2, <2>3 DEF at
<1>9. CASE T = {}
  <2>1. w[id] = <<>>
    BY <1>6, <1>9 DEF Waited
  <2> HIDE DEF T
  <2> QED
    BY <1>3, <1>9, <2>1 DEF at
<1> QED
  BY <1>8, <1>9

-----------------------------------------------------------------------------
(* The list of fibers: one per id. *)

FiberIn(V) == \A x \in V : x = Fiber(x.f.id, x.f.control, x.f.cont, x.f.env, x.f.status)

OnePerId(fs) == \A i, j \in DOMAIN fs : fs[i].f.id = fs[j].f.id => i = j

ListIds(fs) == {fs[i].f.id : i \in DOMAIN fs}

\* The ids of the fibers that are not finished.
Alive(fs) == {x.f.id : x \in {y \in Range(fs) : y.f.status.is # "Completed"}}

\* The ids of a list of fibers, from its range.
LEMMA IdsOfRange == ASSUME NEW fs PROVE ListIds(fs) = {x.f.id : x \in Range(fs)}
  BY DEF ListIds, Range

\* Where a fiber is.
LEMMA PlaceIs ==
    ASSUME NEW V, NEW fs \in Seq(V), NEW id
    PROVE  /\ PlaceOf(fs, id) # 0 <=> id \in ListIds(fs)
           /\ id \in ListIds(fs) => PlaceOf(fs, id) \in DOMAIN fs /\ fs[PlaceOf(fs, id)].f.id = id
<1> DEFINE T == {i \in 1 .. Len(fs) : fs[i].f.id = id}
<1>1. DOMAIN fs = 1 .. Len(fs) /\ Len(fs) \in Nat
  BY SMT
<1>2. PlaceOf(fs, id) = IF T # {} THEN Min(T) ELSE 0
  BY DEF PlaceOf, SelectInSeq
<1>3. id \in ListIds(fs) <=> T # {}
  BY <1>1 DEF ListIds
<1>4. ASSUME T # {} PROVE Min(T) \in T /\ Min(T) # 0
  <2>1. T \subseteq Nat
    BY <1>1, SMT
  <2>2. \E n \in T : \A m \in T : n <= m
    <3> HIDE DEF T
    <3> QED
      BY <1>4, <2>1, Least
  <2>3. Min(T) \in T
    <3> HIDE DEF T
    <3> QED
      BY <2>2 DEF Min
  <2> HIDE DEF T
  <2>4. T \subseteq 1 .. Len(fs)
    BY DEF T
  <2> QED
    BY <1>1, <2>3, <2>4, SMT
<1>5. T # {} => Min(T) \in DOMAIN fs /\ fs[Min(T)].f.id = id
  BY <1>1, <1>4
<1> HIDE DEF T
<1> QED
  BY <1>2, <1>3, <1>4, <1>5

\* A fiber is in its place.
LEMMA PlaceOfOne ==
    ASSUME NEW V, NEW fs \in Seq(V), OnePerId(fs), NEW i \in DOMAIN fs
    PROVE  PlaceOf(fs, fs[i].f.id) = i
<1>1. fs[i].f.id \in ListIds(fs)
  BY DEF ListIds
<1> QED
  BY <1>1, PlaceIs DEF OnePerId

\* Where fibers with the same ids in the same order are, is the same.
LEMMA SamePlaces ==
    ASSUME NEW fs, NEW gs, Len(fs) = Len(gs), \A i \in 1 .. Len(fs)
               : fs[i].f.id = gs[i].f.id, NEW id
    PROVE  PlaceOf(fs, id) = PlaceOf(gs, id)
<1>1. {i \in 1 .. Len(fs) : fs[i].f.id = id} = {i \in 1 .. Len(gs) : gs[i].f.id = id}
  OBVIOUS
<1> QED
  BY <1>1 DEF PlaceOf, SelectInSeq

\* One fiber put in its place again.
Replaced(fs, at, x) == [fs EXCEPT ![at] = x]

\* A fiber replaced by one with the same id.
LEMMA ReplacedIs ==
    ASSUME NEW V, NEW fs \in Seq(V), OnePerId(fs), NEW at \in DOMAIN fs, NEW x \in V,
           x.f.id = fs[at].f.id
    PROVE  LET gs == Replaced(fs, at, x) IN
           /\ gs \in Seq(V) /\ Len(gs) = Len(fs) /\ DOMAIN gs = DOMAIN fs /\ OnePerId(gs)
           /\ gs[at] = x /\ \A i \in DOMAIN fs : i # at => gs[i] = fs[i]
           /\ ListIds(gs) = ListIds(fs)
           /\ \A id : PlaceOf(gs, id) = PlaceOf(fs, id)
           /\ Range(gs) = (Range(fs) \ {fs[at]}) \cup {x}
           /\ Alive(gs) = (Alive(fs) \ {x.f.id})
                          \cup (IF x.f.status.is # "Completed" THEN {x.f.id} ELSE {})
<1> DEFINE gs == Replaced(fs, at, x)
<1>1. /\ gs \in Seq(V) /\ Len(gs) = Len(fs) /\ DOMAIN gs = DOMAIN fs
      /\ gs[at] = x /\ \A i \in DOMAIN fs : i # at => gs[i] = fs[i]
      /\ DOMAIN fs = 1 .. Len(fs) /\ DOMAIN gs = 1 .. Len(gs)
  BY SMT DEF Replaced
<1> HIDE DEF gs
<1>2. \A i \in DOMAIN fs : gs[i].f.id = fs[i].f.id
  BY <1>1
<1>3. OnePerId(gs)
  BY <1>1, <1>2 DEF OnePerId
<1>4. ListIds(gs) = ListIds(fs)
  BY <1>1, <1>2 DEF ListIds
<1>5. \A id : PlaceOf(gs, id) = PlaceOf(fs, id)
  BY <1>1, <1>2, SamePlaces
<1>6. Range(gs) = (Range(fs) \ {fs[at]}) \cup {x}
  <2>1. \A i \in DOMAIN fs : i # at => fs[i] # fs[at]
    BY DEF OnePerId
  <2> QED
    BY <1>1, <2>1 DEF Range
<1>7. \A y \in Range(fs) \ {fs[at]} : y.f.id # x.f.id
  BY DEF Range, OnePerId
<1>8. Alive(gs) = (Alive(fs) \ {x.f.id}) \cup (IF x.f.status.is # "Completed" THEN {x.f.id} ELSE {})
  BY <1>6, <1>7 DEF Alive
<1> QED
  BY <1>1, <1>3, <1>4, <1>5, <1>6, <1>8 DEF gs

\* A new fiber.
LEMMA AppendedIs ==
    ASSUME NEW V, NEW fs \in Seq(V), OnePerId(fs), NEW x \in V, x.f.id \notin ListIds(fs)
    PROVE  LET gs == Append(fs, x) IN
           /\ gs \in Seq(V) /\ Len(gs) = Len(fs) + 1 /\ OnePerId(gs)
           /\ ListIds(gs) = ListIds(fs) \cup {x.f.id}
           /\ Range(gs) = Range(fs) \cup {x}
           /\ Alive(gs) = Alive(fs) \cup (IF x.f.status.is # "Completed" THEN {x.f.id} ELSE {})
<1> DEFINE gs == Append(fs, x)
<1>1. /\ gs \in Seq(V) /\ Len(gs) = Len(fs) + 1 /\ Len(fs) \in Nat
      /\ DOMAIN fs = 1 .. Len(fs) /\ DOMAIN gs = 1 .. Len(fs) + 1
      /\ gs[Len(fs) + 1] = x /\ \A i \in 1 .. Len(fs) : gs[i] = fs[i]
      /\ \A i \in 1 .. Len(fs) + 1 : i \in 1 .. Len(fs) \/ i = Len(fs) + 1
      /\ \A i \in 1 .. Len(fs) : i \in 1 .. Len(fs) + 1
      /\ Len(fs) + 1 \in 1 .. Len(fs) + 1
  BY SMT
<1> HIDE DEF gs
<1>2. \A i \in 1 .. Len(fs) : fs[i].f.id # x.f.id
  BY <1>1 DEF ListIds
<1>3. OnePerId(gs)
  BY <1>1, <1>2 DEF OnePerId
<1>5. Range(gs) = Range(fs) \cup {x}
  BY <1>1, Zenon DEF Range
<1>4. ListIds(gs) = ListIds(fs) \cup {x.f.id}
  BY <1>5, IdsOfRange
<1>6. Alive(gs) = Alive(fs) \cup (IF x.f.status.is # "Completed" THEN {x.f.id} ELSE {})
  BY <1>5 DEF Alive
<1> QED
  BY <1>1, <1>3, <1>4, <1>5, <1>6 DEF gs

\* swap_remove
LEMMA RemovedIs ==
    ASSUME NEW V, NEW fs \in Seq(V), OnePerId(fs), NEW id \in ListIds(fs)
    PROVE  LET gs == Removed(fs, id) IN
           /\ gs \in Seq(V) /\ Len(gs) = Len(fs) - 1 /\ OnePerId(gs)
           /\ ListIds(gs) = ListIds(fs) \ {id}
           /\ Range(gs) \subseteq Range(fs) /\ Alive(gs) = Alive(fs) \ {id}
           /\ \A x \in Range(gs) : x.f.id # id
<1> DEFINE gs == Removed(fs, id)
           at == PlaceOf(fs, id)
           N == Len(fs)
           hs == [fs EXCEPT ![at] = Last(fs)]
<1>1. at \in DOMAIN fs /\ fs[at].f.id = id
  BY PlaceIs
<1>2. gs = SubSeq(hs, 1, N - 1)
  BY Zenon DEF Removed
<1> HIDE DEF at, gs
<1>3. N \in Nat /\ N >= 1 /\ at \in 1 .. N /\ DOMAIN fs = 1 .. N /\ Last(fs) = fs[N]
          /\ Last(fs) \in V
  <2>1. N \in Nat /\ DOMAIN fs = 1 .. N /\ \A i \in 1 .. N : fs[i] \in V
    BY SMT
  <2>2. at \in 1 .. N
    BY <1>1, <2>1
  <2>3. N >= 1 /\ N \in 1 .. N
    BY <2>1, <2>2, SMT
  <2> QED
    BY <2>1, <2>2, <2>3 DEF Last
<1>4. /\ hs \in Seq(V) /\ Len(hs) = N /\ hs[at] = fs[N]
      /\ \A i \in 1 .. N : i # at => hs[i] = fs[i]
  <2> DEFINE l == Last(fs)
  <2>1. l \in V /\ l = fs[N] /\ hs = [fs EXCEPT ![at] = l]
    BY <1>3
  <2> HIDE DEF l, hs
  <2>2. hs \in Seq(V)
    BY <1>3, <2>1
  <2>3. Len(hs) = N
    BY <1>3, <2>1
  <2>4. hs[at] = fs[N] /\ \A i \in 1 .. N : i # at => hs[i] = fs[i]
    BY <1>3, <2>1
  <2> QED
    BY <2>2, <2>3, <2>4
<1> HIDE DEF hs
<1> HIDE DEF N
<1>5. /\ gs \in Seq(V) /\ Len(gs) = N - 1 /\ DOMAIN gs = 1 .. N - 1
      /\ \A i \in 1 .. N - 1 : gs[i] = hs[i]
  <2>1. N - 1 \in Nat /\ N - 1 <= Len(hs)
    BY <1>3, <1>4, SMT
  <2> DEFINE m == N - 1
  <2>2. gs = SubSeq(hs, 1, m) /\ m \in Nat /\ m <= Len(hs)
    BY <1>2, <2>1
  <2> HIDE DEF m
  <2>3. gs \in Seq(V) /\ Len(gs) = m /\ DOMAIN gs = 1 .. m /\ \A i \in 1 .. m : gs[i] = hs[i]
    BY <1>4, <2>2, SMT
  <2> QED
    BY <2>3 DEF m
<1>6. /\ \A i \in 1 .. N - 1 : i # at => gs[i] = fs[i]
      /\ at # N => gs[at] = fs[N]
      /\ \A i \in 1 .. N - 1 : i \in 1 .. N /\ i # N
      /\ N \in 1 .. N
      /\ \A i \in 1 .. N : i # N => i \in 1 .. N - 1
  <2>1. \A i \in 1 .. N - 1 : i \in 1 .. N /\ i # N
    BY <1>3, SMT
  <2>2. N \in 1 .. N /\ \A i \in 1 .. N : i # N => i \in 1 .. N - 1
    BY <1>3, SMT
  <2> QED
    BY <1>3, <1>4, <1>5, <2>1, <2>2
<1> DEFINE From(i) == IF i = at THEN N ELSE i
<1>7. \A i \in 1 .. N - 1 : From(i) \in 1 .. N /\ From(i) # at /\ gs[i] = fs[From(i)]
  BY <1>3, <1>6
<1>8. \A j \in 1 .. N : j # at => \E i \in 1 .. N - 1 : From(i) = j
  <2> SUFFICES ASSUME NEW j \in 1 .. N, j # at PROVE \E i \in 1 .. N - 1 : From(i) = j
    OBVIOUS
  <2>1. CASE j # N
    <3>1. j \in 1 .. N - 1 /\ From(j) = j
      BY <1>6, <2>1
    <3> QED
      BY <3>1
  <2>2. CASE j = N
    <3>1. at \in 1 .. N - 1 /\ From(at) = j
      BY <1>3, <1>6, <2>2
    <3> QED
      BY <3>1
  <2> QED
    BY <2>1, <2>2
<1>9. \A i, j \in 1 .. N - 1 : From(i) = From(j) => i = j
  BY <1>6
<1> HIDE DEF From
<1>10. OnePerId(gs)
  <2> SUFFICES ASSUME NEW i \in 1 .. N - 1, NEW j \in 1 .. N - 1, gs[i].f.id = gs[j].f.id
               PROVE  i = j
    BY <1>5 DEF OnePerId
  <2>1. fs[From(i)].f.id = fs[From(j)].f.id
    BY <1>7
  <2>2. From(i) \in DOMAIN fs /\ From(j) \in DOMAIN fs
    BY <1>3, <1>7
  <2>3. From(i) = From(j)
    BY <2>1, <2>2 DEF OnePerId
  <2> QED
    BY <1>9, <2>3
<1>11. \A j \in 1 .. N : j # at => fs[j].f.id # id
  BY <1>1, <1>3 DEF OnePerId
<1>12. Range(gs) = {fs[j] : j \in (1 .. N) \ {at}}
  <2>1. Range(gs) = {gs[i] : i \in 1 .. N - 1}
    BY <1>5 DEF Range
  <2>2. \A i \in 1 .. N - 1 : From(i) \in (1 .. N) \ {at} /\ gs[i] = fs[From(i)]
    BY <1>7
  <2>3. \A j \in (1 .. N) \ {at} : \E i \in 1 .. N - 1 : gs[i] = fs[j]
    <3> TAKE j \in (1 .. N) \ {at}
    <3>1. PICK i \in 1 .. N - 1 : From(i) = j
      BY <1>8
    <3> QED
      BY <1>7, <3>1
  <2> DEFINE I == 1 .. N - 1  J == (1 .. N) \ {at}
  <2>4. /\ Range(gs) = {gs[i] : i \in I}
        /\ \A i \in I : From(i) \in J /\ gs[i] = fs[From(i)]
        /\ \A j \in J : \E i \in I : gs[i] = fs[j]
    BY <2>1, <2>2, <2>3
  <2> HIDE DEF I, J
  <2>5. Range(gs) \subseteq {fs[j] : j \in J}
    BY <2>4
  <2>6. {fs[j] : j \in J} \subseteq Range(gs)
    BY <2>4
  <2> QED
    BY <2>5, <2>6 DEF J
<1>13. \A x \in Range(gs) : x \in Range(fs) /\ x.f.id # id
  BY <1>3, <1>11, <1>12 DEF Range
<1>14. \A x \in Range(fs) : x.f.id # id => x \in Range(gs)
  <2> SUFFICES ASSUME NEW j \in 1 .. N, fs[j].f.id # id PROVE fs[j] \in Range(gs)
    BY <1>3 DEF Range
  <2>1. j # at
    BY <1>1
  <2> QED
    BY <1>12, <2>1
<1>15. Alive(gs) = Alive(fs) \ {id}
  BY <1>13, <1>14 DEF Alive
<1>17. ListIds(gs) = ListIds(fs) \ {id}
  BY <1>13, <1>14, IdsOfRange
<1>18. Range(gs) \subseteq Range(fs)
  BY <1>13
<1> QED
  BY <1>5, <1>10, <1>13, <1>15, <1>17, <1>18 DEF gs, N

-----------------------------------------------------------------------------
(* Who runs, who is queued and who waits, of the fibers in A: none twice.  *)

Apart(q, r) == Range(q) \cap Range(r) = {}

Waits(A, q, cur, w) ==
    /\ q \in Seq(A) /\ IsInjective(q)
    /\ cur \in UpToOne(A) /\ Apart(q, cur)
    /\ w \in [FiberId -> Seq(A)]
    /\ \A id \in FiberId : IsInjective(w[id]) /\ Apart(w[id], q) /\ Apart(w[id], cur)
    /\ \A i, j \in FiberId : i # j => Apart(w[i], w[j])

\* One that is selected or none.
LEMMA CurrentIs ==
    ASSUME NEW A, NEW cur \in UpToOne(A)
    PROVE  /\ cur \in Seq(A) /\ IsInjective(cur)
           /\ cur = <<>> => Range(cur) = {}
           /\ cur # <<>> => cur = <<cur[1]>> /\ cur[1] \in A /\ Range(cur) = {cur[1]}
<1>1. CASE cur = <<>>
  BY <1>1, EmptyRange, SMT
<1>2. CASE cur # <<>>
  <2>1. PICK x \in A : cur = <<x>> /\ cur[1] = x
    BY <1>2, UpToOneIs
  <2> QED
    BY <1>2, <2>1, Single
<1> QED
  BY <1>1, <1>2

\* select_next_fiber
LEMMA SelectWaits ==
    ASSUME NEW A, NEW q, NEW w, Waits(A, q, <<>>, w), q # <<>>
    PROVE  /\ Waits(A, Tail(q), <<Head(q)>>, w)
           /\ Head(q) \in A
<1>1. /\ Head(q) \in A /\ Head(q) \in Range(q) /\ Tail(q) \in Seq(A)
      /\ Range(Tail(q)) = Range(q) \ {Head(q)} /\ IsInjective(Tail(q))
  BY PopFront DEF Waits
<1> DEFINE x == Head(q)
           r == Tail(q)
           c == <<x>>
<1>2. c \in UpToOne(A) /\ Range(c) = {x}
  BY <1>1, Single DEF UpToOne
<1>3. \A id \in FiberId : Range(w[id]) \cap Range(q) = {}
  BY DEF Waits, Apart
<1> HIDE DEF x, r, c
<1>4. Apart(r, c) /\ \A id \in FiberId : Apart(w[id], r) /\ Apart(w[id], c)
  BY <1>1, <1>2, <1>3 DEF Apart, r, x
<1>5. Waits(A, r, c, w)
  BY <1>1, <1>2, <1>4 DEF Waits, r
<1> QED
  BY <1>1, <1>5 DEF r, c, x

\* The selected fiber goes to the back of the queue.
LEMMA PreemptWaits ==
    ASSUME NEW A, NEW q, NEW cur, NEW w, Waits(A, q, cur, w), cur # <<>>
    PROVE  Waits(A, Append(q, cur[1]), <<>>, w)
<1> DEFINE x == cur[1]
           r == Append(q, x)
<1>1. x \in A /\ Range(cur) = {x}
  BY CurrentIs DEF Waits
<1>2. x \notin Range(q)
  BY <1>1 DEF Waits, Apart
<1>3. r \in Seq(A) /\ Range(r) = Range(q) \cup {x} /\ IsInjective(r)
  BY <1>1, <1>2, PushBack DEF Waits
<1> HIDE DEF x, r
<1>4. Range(<<>>) = {} /\ <<>> \in UpToOne(A)
  BY EmptyRange DEF UpToOne
<1>5. Apart(r, <<>>) /\ \A id \in FiberId : Apart(w[id], r) /\ Apart(w[id], <<>>)
  BY <1>1, <1>3, <1>4 DEF Waits, Apart
<1>6. Waits(A, r, <<>>, w)
  BY <1>3, <1>4, <1>5 DEF Waits
<1> QED
  BY <1>6 DEF r, x

\* Fewer or more of them.
LEMMA WaitsAmong ==
    ASSUME NEW A, NEW q, NEW cur, NEW w, Waits(A, q, cur, w), NEW B,
           Range(q) \subseteq B, Range(cur) \subseteq B,
           \A id \in FiberId : Range(w[id]) \subseteq B
    PROVE  Waits(B, q, cur, w)
<1>1. ASSUME NEW s \in Seq(A), Range(s) \subseteq B PROVE s \in Seq(B)
  <2>1. \A i \in DOMAIN s : s[i] \in B
    BY <1>1 DEF Range
  <2> QED
    BY <2>1, SMT
<1>2. q \in Seq(B)
  BY <1>1 DEF Waits
<1>3. cur \in UpToOne(B)
  <2>1. cur = <<>> \/ (cur = <<cur[1]>> /\ cur[1] \in B)
    BY CurrentIs DEF Waits
  <2> DEFINE x == cur[1]
  <2>2. cur = <<>> \/ (cur = <<x>> /\ x \in B)
    BY <2>1
  <2> HIDE DEF x
  <2> QED
    BY <2>2 DEF UpToOne
<1>4. w \in [FiberId -> Seq(B)]
  <2>1. w \in [FiberId -> Seq(A)]
    BY DEF Waits
  <2>2. \A id \in FiberId : w[id] \in Seq(B)
    BY <1>1, <2>1
  <2> DEFINE T == Seq(B)
  <2> HIDE DEF T
  <2>3. w = [id \in FiberId |-> w[id]] /\ \A id \in FiberId : w[id] \in T
    BY <2>1, <2>2 DEF T
  <2>4. w \in [FiberId -> T]
    BY <2>3
  <2> QED
    BY <2>4 DEF T
<1> QED
  BY <1>2, <1>3, <1>4 DEF Waits

\* complete_current_fiber: those who joined are queued.
LEMMA CompleteWaits ==
    ASSUME NEW A, NEW q, NEW cur, NEW w, Waits(A, q, cur, w), cur # <<>>, cur[1] \in FiberId
    PROVE  Waits(A \ {cur[1]}, q \o w[cur[1]], <<>>, [w EXCEPT ![cur[1]] = <<>>])
<1> DEFINE x == cur[1]
           u == w[x]
           r == q \o u
           v == [w EXCEPT ![x] = <<>>]
<1>1. x \in A /\ Range(cur) = {x}
  BY CurrentIs DEF Waits
<1>2. u \in Seq(A) /\ IsInjective(u) /\ q \in Seq(A) /\ IsInjective(q) /\ Apart(u, q)
  BY DEF Waits
<1>3. r \in Seq(A) /\ Range(r) = Range(q) \cup Range(u) /\ IsInjective(r)
  BY <1>2, Joined DEF Apart
<1>4. v \in [FiberId -> Seq(A)] /\ v[x] = <<>> /\ \A id \in FiberId : id # x => v[id] = w[id]
  <2>1. w \in [FiberId -> Seq(A)] /\ <<>> \in Seq(A)
    BY SMT DEF Waits
  <2> QED
    BY <2>1
<1> HIDE DEF r, v
<1>5. Range(<<>>) = {} /\ IsInjective(<<>>) /\ <<>> \in UpToOne(A)
  BY EmptyRange DEF UpToOne
<1>6. Apart(r, <<>>) /\ \A id \in FiberId : Apart(v[id], r) /\ Apart(v[id], <<>>)
  <2> SUFFICES ASSUME NEW id \in FiberId PROVE Apart(v[id], r)
    BY <1>5 DEF Apart
  <2>1. CASE id = x
    BY <1>4, <1>5, <2>1 DEF Apart
  <2>2. CASE id # x
    <3>1. Apart(w[id], q) /\ Apart(w[id], u) /\ v[id] = w[id]
      BY <1>4, <2>2 DEF Waits
    <3> QED
      BY <1>3, <3>1 DEF Apart
  <2> QED
    BY <2>1, <2>2
<1>7. \A id \in FiberId : IsInjective(v[id])
  BY <1>4, <1>5 DEF Waits
<1>8. \A i, j \in FiberId : i # j => Apart(v[i], v[j])
  BY <1>4, <1>5 DEF Waits, Apart
<1>9. Waits(A, r, <<>>, v)
  BY <1>3, <1>4, <1>5, <1>6, <1>7, <1>8 DEF Waits
<1>10. x \notin Range(r) /\ \A id \in FiberId : x \notin Range(v[id])
  <2>1. x \notin Range(q) /\ \A id \in FiberId : x \notin Range(w[id])
    BY <1>1 DEF Waits, Apart
  <2> QED
    BY <1>3, <1>4, <1>5, <2>1
<1>11. Range(r) \subseteq A \ {x} /\ \A id \in FiberId : Range(v[id]) \subseteq A \ {x}
  <2>1. Range(r) \subseteq A /\ \A id \in FiberId : Range(v[id]) \subseteq A
    BY <1>3, <1>4, SeqRange
  <2> QED
    BY <1>10, <2>1
<1>12. Waits(A \ {x}, r, <<>>, v)
  BY <1>5, <1>9, <1>11, WaitsAmong
<1> QED
  BY <1>12 DEF r, v

\* A fiber more, at the back of the queue.
LEMMA ForkWaits ==
    ASSUME NEW A, NEW q, NEW cur, NEW w, Waits(A, q, cur, w), NEW n, n \notin A
    PROVE  Waits(A \cup {n}, Append(q, n), cur, w)
<1> DEFINE B == A \cup {n}
           r == Append(q, n)
<1>1. Range(q) \subseteq A /\ Range(cur) \subseteq A /\ \A id \in FiberId : Range(w[id]) \subseteq A
  BY CurrentIs, SeqRange DEF Waits
<1>2. Waits(B, q, cur, w)
  BY <1>1, WaitsAmong
<1>3. n \notin Range(q) /\ n \notin Range(cur) /\ \A id \in FiberId : n \notin Range(w[id])
  BY <1>1
<1>4. n \in B
  OBVIOUS
<1> HIDE DEF B
<1>5. r \in Seq(B) /\ Range(r) = Range(q) \cup {n} /\ IsInjective(r)
  BY <1>2, <1>3, <1>4, PushBack DEF Waits
<1> HIDE DEF r
<1>6. Apart(r, cur) /\ \A id \in FiberId : Apart(w[id], r)
  BY <1>2, <1>3, <1>5 DEF Waits, Apart
<1>7. Waits(B, r, cur, w)
  BY <1>2, <1>5, <1>6 DEF Waits
<1> QED
  BY <1>7 DEF B, r

\* The selected fiber waits for another, or for itself.
LEMMA JoinWaits ==
    ASSUME NEW A, NEW q, NEW cur, NEW w, Waits(A, q, cur, w), cur # <<>>, NEW t \in FiberId
    PROVE  Waits(A, q, <<>>, [w EXCEPT ![t] = Append(@, cur[1])])
<1> DEFINE x == cur[1]
           u == Append(w[t], x)
           v == [w EXCEPT ![t] = Append(@, x)]
<1>1. x \in A /\ Range(cur) = {x}
  BY CurrentIs DEF Waits
<1>2. x \notin Range(q) /\ \A id \in FiberId : x \notin Range(w[id])
  BY <1>1 DEF Waits, Apart
<1>3. u \in Seq(A) /\ Range(u) = Range(w[t]) \cup {x} /\ IsInjective(u)
  BY <1>1, <1>2, PushBack DEF Waits
<1>4. v = [w EXCEPT ![t] = u]
  BY Zenon
<1> HIDE DEF u, v
<1>5. v \in [FiberId -> Seq(A)] /\ v[t] = u /\ \A id \in FiberId : id # t => v[id] = w[id]
  <2>1. w \in [FiberId -> Seq(A)]
    BY DEF Waits
  <2> QED
    BY <1>3, <1>4, <2>1
<1>6. Range(<<>>) = {} /\ <<>> \in UpToOne(A)
  BY EmptyRange DEF UpToOne
<1> DEFINE More(id) == IF id = t THEN {x} ELSE {}
<1>7. \A id \in FiberId : Range(v[id]) = Range(w[id]) \cup More(id)
  BY <1>3, <1>5
<1> HIDE DEF More
<1>70. /\ \A id \in FiberId : More(id) \subseteq {x}
       /\ \A i, j \in FiberId : i # j => More(i) = {} \/ More(j) = {}
  BY DEF More
<1>71. \A id \in FiberId : IsInjective(v[id])
  BY <1>3, <1>5 DEF Waits
<1>72. \A id \in FiberId : Apart(v[id], q) /\ Apart(v[id], <<>>)
  <2> SUFFICES ASSUME NEW id \in FiberId PROVE Apart(v[id], q) /\ Apart(v[id], <<>>)
    OBVIOUS
  <2>1. Range(w[id]) \cap Range(q) = {}
    BY DEF Waits, Apart
  <2> QED
    BY <1>2, <1>6, <1>7, <1>70, <2>1 DEF Apart
<1>8. \A i, j \in FiberId : i # j => Apart(v[i], v[j])
  <2> SUFFICES ASSUME NEW i \in FiberId, NEW j \in FiberId, i # j PROVE Apart(v[i], v[j])
    OBVIOUS
  <2>1. Range(w[i]) \cap Range(w[j]) = {}
    BY DEF Waits, Apart
  <2>2. More(i) \cap More(j) = {} /\ More(i) \cap Range(w[j]) = {} /\ Range(w[i]) \cap More(j) = {}
    BY <1>2, <1>70
  <2> QED
    BY <1>7, <2>1, <2>2 DEF Apart
<1>9. Waits(A, q, <<>>, v)
  <2>1. Apart(q, <<>>)
    BY <1>6 DEF Apart
  <2> QED
    BY <1>5, <1>6, <1>71, <1>72, <1>8, <2>1 DEF Waits
<1> QED
  BY <1>9 DEF v

\* In a checkpoint, the selected fiber is in front.
LEMMA CheckpointWaits ==
    ASSUME NEW A, NEW q, NEW cur, NEW w, Waits(A, q, cur, w)
    PROVE  Waits(A, cur \o q, <<>>, w)
<1> DEFINE r == cur \o q
<1>1. cur \in Seq(A) /\ IsInjective(cur)
  BY CurrentIs DEF Waits
<1>2. r \in Seq(A) /\ Range(r) = Range(cur) \cup Range(q) /\ IsInjective(r)
  BY <1>1, Joined DEF Waits, Apart
<1> HIDE DEF r
<1>3. Range(<<>>) = {} /\ <<>> \in UpToOne(A)
  BY EmptyRange DEF UpToOne
<1>4. Apart(r, <<>>) /\ \A id \in FiberId : Apart(w[id], r) /\ Apart(w[id], <<>>)
  BY <1>2, <1>3 DEF Waits, Apart
<1>5. Waits(A, r, <<>>, w)
  BY <1>2, <1>3, <1>4 DEF Waits
<1> QED
  BY <1>5 DEF r

-----------------------------------------------------------------------------
(* A collection, from the registers, the globals and the fibers.           *)

\* The statuses there are over some ids.
LEMMA StatusMade ==
    ASSUME NEW S
    PROVE  /\ Ready \in StatusesIn(S) /\ Running \in StatusesIn(S)
           /\ \A v \in ValuesIn(S) : Completed(v) \in StatusesIn(S)
  BY DEF StatusesIn

\* A status is over the ids that are kept, if its own are.
LEMMA StatusKept ==
    ASSUME NEW S \in IdSets, NEW M, NEW s \in StatusesIn(S), StatusIds(s) \subseteq M
    PROVE  s \in StatusesIn(Cut(S, M))
<1>1. CASE s = Ready \/ s = Running
  BY <1>1, StatusMade
<1>2. CASE s.is = "Completed"
  <2>1. s.f.v \in ValuesIn(S) /\ s = Completed(s.f.v)
    BY <1>2, StatusShape DEF Ready, Running, Thing
  <2>2. s.f.v \in ValuesIn(Cut(S, M))
    BY <1>2, <2>1, ValueKept DEF StatusIds
  <2> QED
    BY <2>1, <2>2, StatusMade
<1> QED
  BY <1>1, <1>2, StatusShape

\* What a fiber may still be asked for, over S: the result of a finished one; else,
\* unless it is selected and its registers are elsewhere, what it goes on with.
Relied(S, x, cur) ==
    IF x.f.status.is = "Completed" THEN x.f.status \in StatusesIn(S)
    ELSE <<x.f.id>> # cur =>
            x.f.control \in ControlsIn(S) /\ x.f.cont \in S.conts /\ x.f.env \in S.envs

\* What a fiber relies on over some ids it relies on over more.
LEMMA ReliedMore ==
    ASSUME NEW S, NEW T, Within(S, T), NEW x, NEW cur, Relied(S, x, cur)
    PROVE  Relied(T, x, cur)
<1>1. CASE x.f.status.is = "Completed"
  BY <1>1, StatusMore DEF Relied
<1>2. CASE x.f.status.is # "Completed"
  BY <1>2, ControlMore DEF Relied, Within
<1> QED
  BY <1>1, <1>2

\* What a fiber relies on is kept if its ids are.
LEMMA ReliedKept ==
    ASSUME NEW S \in IdSets, NEW M, NEW x, NEW cur, Relied(S, x, cur), FiberIds(x) \subseteq M
    PROVE  Relied(Cut(S, M), x, cur)
<1>1. CASE x.f.status.is = "Completed"
  BY <1>1, StatusKept DEF Relied, FiberIds
<1>2. CASE x.f.status.is # "Completed"
  <2>1. /\ ControlIds(x.f.control) \subseteq M
        /\ <<"conts", x.f.cont>> \in M /\ <<"envs", x.f.env>> \in M
    BY DEF FiberIds
  <2> QED
    BY <1>2, <2>1, ControlKept, CutIs DEF Relied
<1> QED
  BY <1>1, <1>2

\* The registers, the globals and the fibers, over S.
Within4(S, ctl, e, k, gs, fs) ==
    /\ ctl \in ControlsIn(S) /\ e \in S.envs /\ k \in S.conts /\ gs \in UpToOne(BindingsIn(S))
    /\ fs \in Seq(FibersIn(S))

\* What the registers, the globals and the fibers refer to.
LEMMA RootRefsAre ==
    ASSUME NEW all \in BOOLEAN, NEW S, NEW ctl, NEW e, NEW k, NEW gs, NEW fs,
           Within4(S, ctl, e, k, gs, fs)
    PROVE  /\ Refs(all, One("Control"), ctl) = ControlIds(ctl)
           /\ Refs(all, Many(One("Binding")), gs) = BoundIds(gs)
           /\ Refs(all, Many(One("Fiber")), fs) = UNION {FiberIds(fs[i]) : i \in DOMAIN fs}
<1>0. ctl \in ControlsIn(S)
  BY DEF Within4
<1>1. Refs(all, One("Control"), ctl) = ControlIds(ctl)
  <2>1. Refs(all, One("Control"), ctl) = ThingRefs(all, "Control", ctl)
    BY OneField
  <2>2. ThingRefs(all, "Control", ctl) = ControlIds(ctl)
    BY <1>0, ControlRefsAre
  <2> QED
    BY <2>1, <2>2
<1>2. Refs(all, Many(One("Binding")), gs) = BoundIds(gs)
  <2>1. Refs(all, Many(One("Binding")), gs) = UNION {ThingRefs(all, "Binding", gs[i])
            : i \in DOMAIN gs}
    BY ManyField
  <2>2. \A i \in DOMAIN gs : gs[i] \in BindingsIn(S)
    <3>1. gs \in UpToOne(BindingsIn(S))
      BY DEF Within4
    <3>2. gs = <<>> \/ (\E x \in BindingsIn(S) : gs = <<x>> /\ DOMAIN gs = {1} /\ gs[1] = x)
      BY <3>1, UpToOneIs
    <3>3. DOMAIN <<>> = {}
      BY SMT
    <3> QED
      BY <3>2, <3>3
  <2>3. \A i \in DOMAIN gs : ThingRefs(all, "Binding", gs[i]) = ValueIds(gs[i].f.value)
    BY <2>2, BindingRefsAre
  <2> QED
    BY <2>1, <2>3 DEF BoundIds
<1>3. Refs(all, Many(One("Fiber")), fs) = UNION {FiberIds(fs[i]) : i \in DOMAIN fs}
  <2>1. Refs(all, Many(One("Fiber")), fs) = UNION {ThingRefs(all, "Fiber", fs[i]) : i \in DOMAIN fs}
    BY ManyField
  <2>2. \A i \in DOMAIN fs : fs[i] \in FibersIn(S)
    BY DEF Within4
  <2>3. \A i \in DOMAIN fs : ThingRefs(all, "Fiber", fs[i]) = FiberIds(fs[i])
    BY <2>2, FiberRefsAre
  <2> QED
    BY <2>1, <2>3
<1> QED
  BY <1>1, <1>2, <1>3

\* The roots of a collection.
LEMMA RootsAre ==
    ASSUME NEW S, NEW ctl, NEW e, NEW k, NEW gs, NEW fs, Within4(S, ctl, e, k, gs, fs)
    PROVE  Roots(ctl, e, k, gs, fs)
           = {<<"envs", e>>, <<"conts", k>>} \cup ControlIds(ctl) \cup BoundIds(gs)
             \cup UNION {FiberIds(fs[i]) : i \in DOMAIN fs}
<1>0. \A all \in BOOLEAN :
        /\ Refs(all, One("Control"), ctl) = ControlIds(ctl)
        /\ Refs(all, Many(One("Binding")), gs) = BoundIds(gs)
        /\ Refs(all, Many(One("Fiber")), fs) = UNION {FiberIds(fs[i]) : i \in DOMAIN fs}
  BY RootRefsAre
<1>1. /\ Refs(FALSE, One("Control"), ctl) = ControlIds(ctl)
      /\ Refs(FALSE, Many(One("Binding")), gs) = BoundIds(gs)
      /\ Refs(FALSE, Many(One("Fiber")), fs) = UNION {FiberIds(fs[i]) : i \in DOMAIN fs}
  BY <1>0, Zenon
<1> QED
  BY <1>1 DEF Roots

\* The roots are ids in use.
LEMMA RootsHeld ==
    ASSUME NEW S, S.closures \subseteq S.objects,
           NEW ctl, NEW e, NEW k, NEW gs, NEW fs, Within4(S, ctl, e, k, gs, fs)
    PROVE  Roots(ctl, e, k, gs, fs) \subseteq Pairs(S)
<1>1. ControlIds(ctl) \subseteq Pairs(S)
  BY ControlHeld DEF Within4
<1>2. BoundIds(gs) \subseteq Pairs(S)
  BY BindingsHeld DEF Within4
<1>3. \A i \in DOMAIN fs : FiberIds(fs[i]) \subseteq Pairs(S)
  BY FiberHeld DEF Within4
<1>4. <<"envs", e>> \in Pairs(S) /\ <<"conts", k>> \in Pairs(S)
  BY PairsIs DEF Within4
<1>5. UNION {FiberIds(fs[i]) : i \in DOMAIN fs} \subseteq Pairs(S)
  BY <1>3
<1> HIDE DEF Roots
<1> QED
  BY <1>1, <1>2, <1>4, <1>5, RootsAre

\* What is left of S after a collection with these roots, if there was one.
Spared(h, g, S, T, roots) ==
    /\ Shaped(g) /\ Ranges(g) = Ranges(h) /\ TotalAllocations(g) = TotalAllocations(h)
    /\ Sound(g, T) /\ Within(T, S)
    /\ T = S \/ \E M : T = Cut(S, M) /\ roots \subseteq M
    /\ \A o \in S.closures : o \notin FreeIds(g.objects) => o \in T.closures
    /\ \A o : Slot(g.objects, o) = Slot(h.objects, o)

\* A collection leaves a sound heap in which all that its roots name stays.
LEMMA CollectedSpares ==
    ASSUME NEW h, Shaped(h), NEW S, Sound(h, S), NEW roots, roots \subseteq Pairs(Ranges(h))
    PROVE  \E T : Spared(h, Collected(h, roots), S, T, roots)
<1> DEFINE g == Collected(h, roots)
           M == Reached(FALSE, h, roots)
           T == Cut(S, M)
<1>1. /\ Shaped(g) /\ Ranges(g) = Ranges(h) /\ TotalAllocations(g) = TotalAllocations(h)
      /\ roots \subseteq M /\ Sound(g, T)
      /\ \A arena \in Arenas : g[arena].slots = h[arena].slots
      /\ \A arena \in Arenas : \A id \in IdsOf(h[arena]) :
                id \notin FreeIds(g[arena]) => <<arena, id>> \in M
  BY CollectSound
<1>2. S \in IdSets /\ \A o \in S.closures : o \in IdsOf(h.objects)
  BY DEF Sound, InUse, Arenas
<1> HIDE DEF g, M
<1>3. "objects" \in Arenas
  BY DEF Arenas
<1>4. \A o \in S.closures : o \notin FreeIds(g.objects) => o \in T.closures
  BY <1>1, <1>2, <1>3, CutIs
<1>5. \A o : Slot(g.objects, o) = Slot(h.objects, o)
  BY <1>1, <1>3 DEF Slot
<1>6. Within(T, S)
  BY <1>2, CutIs
<1>7. Spared(h, g, S, T, roots)
  BY <1>1, <1>4, <1>5, <1>6 DEF Spared
<1> QED
  BY <1>7 DEF g

\* No collection spares everything.
LEMMA UntouchedSpares ==
    ASSUME NEW h, Shaped(h), NEW S, Sound(h, S), NEW roots
    PROVE  Spared(h, h, S, S, roots)
  BY WithinIs DEF Spared

\* What the roots held is still there.
LEMMA SparedHolds ==
    ASSUME NEW h, NEW g, NEW S, S \in IdSets, NEW T, NEW roots, Spared(h, g, S, T, roots)
    PROVE  /\ \A e \in S.envs : <<"envs", e>> \in roots => e \in T.envs
           /\ \A k \in S.conts : <<"conts", k>> \in roots => k \in T.conts
           /\ \A v \in ValuesIn(S) : ValueIds(v) \subseteq roots => v \in ValuesIn(T)
           /\ \A ctl \in ControlsIn(S) : ControlIds(ctl) \subseteq roots => ctl \in ControlsIn(T)
           /\ \A gs \in UpToOne(BindingsIn(S)) : BoundIds(gs) \subseteq roots
                  => gs \in UpToOne(BindingsIn(T))
           /\ \A x, cur : Relied(S, x, cur) /\ FiberIds(x) \subseteq roots => Relied(T, x, cur)
<1>1. CASE T = S
  BY <1>1
<1>2. CASE T # S
  <2>1. PICK M : T = Cut(S, M) /\ roots \subseteq M
    BY <1>2 DEF Spared
  <2>2. /\ \A e \in S.envs : <<"envs", e>> \in roots => e \in T.envs
        /\ \A k \in S.conts : <<"conts", k>> \in roots => k \in T.conts
    BY <2>1, CutIs
  <2>3. \A v \in ValuesIn(S) : ValueIds(v) \subseteq roots => v \in ValuesIn(T)
    BY <2>1, ValueKept
  <2>4. \A ctl \in ControlsIn(S) : ControlIds(ctl) \subseteq roots => ctl \in ControlsIn(T)
    BY <2>1, ControlKept
  <2>5. \A gs \in UpToOne(BindingsIn(S)) : BoundIds(gs) \subseteq roots
            => gs \in UpToOne(BindingsIn(T))
    BY <2>1, BindingsKept
  <2>6. \A x, cur : Relied(S, x, cur) /\ FiberIds(x) \subseteq roots => Relied(T, x, cur)
    BY <2>1, ReliedKept
  <2> QED
    BY <2>2, <2>3, <2>4, <2>5, <2>6
<1> QED
  BY <1>1, <1>2

-----------------------------------------------------------------------------
(* The heap with all that refers to it.                                    *)

\* Everything refers to ids there are.  What the program can still get at is sound:
\* the globals, the registers if a fiber is selected, and what the fibers are
\* relied on for.
Whole(S, h, ctl, e, k, gs, fs, cur) ==
    /\ Shaped(h) /\ Sound(h, S)
    /\ ctl \in ControlsIn(Ranges(h)) /\ e \in Ranges(h).envs /\ k \in Ranges(h).conts
    /\ gs \in UpToOne(BindingsIn(S))
    /\ fs \in Seq(FibersIn(Ranges(h)))
    /\ cur # <<>> => ctl \in ControlsIn(S) /\ e \in S.envs /\ k \in S.conts
    /\ \A i \in DOMAIN fs : Relied(S, fs[i], cur)

\* The fibers, one per id, those that are not finished once in the queues.
Lined(fs, q, cur, w, next) ==
    /\ OnePerId(fs) /\ Len(fs) <= MaxFibers
    /\ next \in 0 .. MaxFibers + 1 /\ \A id \in ListIds(fs) : id \in 0 .. next - 1
    /\ Waits(Alive(fs), q, cur, w)

HeapInv == \E S : Whole(S, heap, control, env, cont, globals, fibers, current)
LineInv == Lined(fibers, ready_queue, current, join_waiters, next_fiber_id)
BaseInv == alloc_snapshot \in 0 .. TotalAllocations(heap)

\* In a whole state every id held is one of a slot.
LEMMA WholeRanges ==
    ASSUME NEW S, NEW h, NEW ctl, NEW e, NEW k, NEW gs, NEW fs, NEW cur,
           Whole(S, h, ctl, e, k, gs, fs, cur)
    PROVE  /\ Within4(Ranges(h), ctl, e, k, gs, fs)
           /\ Ranges(h).closures \subseteq Ranges(h).objects
           /\ Roots(ctl, e, k, gs, fs) \subseteq Pairs(Ranges(h))
<1>1. Within(S, Ranges(h)) /\ Ranges(h).closures \subseteq Ranges(h).objects
  BY SoundWithin, RangesAre DEF Whole
<1>2. gs \in UpToOne(BindingsIn(Ranges(h)))
  BY <1>1, BindingsMore DEF Whole
<1>3. Within4(Ranges(h), ctl, e, k, gs, fs)
  BY <1>2 DEF Whole, Within4
<1> QED
  BY <1>1, <1>3, RootsHeld

\* After steps of the heap that keep S, all but the registers.
LEMMA WholeOnward ==
    ASSUME NEW S, NEW h, NEW ctl, NEW e, NEW k, NEW gs, NEW fs, NEW cur,
           Whole(S, h, ctl, e, k, gs, fs, cur), NEW g, NEW T, Onward(h, g, S, T)
    PROVE  Whole(T, g, ctl, e, k, gs, fs, cur)
<1>1. Shaped(g) /\ Sound(g, T) /\ Within(S, T) /\ Within(Ranges(h), Ranges(g))
  BY DEF Onward
<1>2. ctl \in ControlsIn(Ranges(g))
  BY <1>1, ControlMore DEF Whole
<1>3. e \in Ranges(g).envs /\ k \in Ranges(g).conts
  BY <1>1 DEF Whole, Within
<1>4. gs \in UpToOne(BindingsIn(T))
  BY <1>1, BindingsMore DEF Whole
<1>5. fs \in Seq(FibersIn(Ranges(g)))
  <2>1. FibersIn(Ranges(h)) \subseteq FibersIn(Ranges(g))
    BY <1>1, FiberMore
  <2>2. fs \in Seq(FibersIn(Ranges(h)))
    BY DEF Whole
  <2> QED
    BY <2>1, <2>2, SeqMore
<1>6. cur # <<>> => ctl \in ControlsIn(T) /\ e \in T.envs /\ k \in T.conts
  BY <1>1, ControlMore DEF Whole, Within
<1>7. \A i \in DOMAIN fs : Relied(T, fs[i], cur)
  BY <1>1, ReliedMore DEF Whole
<1> QED
  BY <1>1, <1>2, <1>3, <1>4, <1>5, <1>6, <1>7 DEF Whole

\* The registers of the selected fiber set anew.
LEMMA WholeSet ==
    ASSUME NEW S, NEW h, NEW ctl, NEW e, NEW k, NEW gs, NEW fs, NEW cur,
           Whole(S, h, ctl, e, k, gs, fs, cur),
           NEW c \in ControlsIn(S), NEW f \in S.envs, NEW l \in S.conts,
           NEW g \in UpToOne(BindingsIn(S))
    PROVE  Whole(S, h, c, f, l, g, fs, cur)
<1>1. Within(S, Ranges(h))
  BY SoundWithin DEF Whole
<1>2. c \in ControlsIn(Ranges(h)) /\ f \in Ranges(h).envs /\ l \in Ranges(h).conts
  BY <1>1, ControlMore DEF Within
<1> QED
  BY <1>2 DEF Whole

\* A fiber that is relied on whoever is selected is relied on when it is this one.
LEMMA ReliedAnyway ==
    ASSUME NEW S, NEW x, NEW cur, Relied(S, x, <<>>)
    PROVE  Relied(S, x, cur)
<1>1. <<x.f.id>> # <<>>
  BY SMT
<1> QED
  BY <1>1 DEF Relied

\* A fiber that is not selected relies on its own registers.
LEMMA ReliedButSelected ==
    ASSUME NEW S, NEW x, NEW cur, Relied(S, x, cur), <<x.f.id>> # cur
    PROVE  Relied(S, x, <<>>)
  BY DEF Relied

\* One fiber of the list put anew.
LEMMA WholeReplaced ==
    ASSUME NEW S, NEW h, NEW ctl, NEW e, NEW k, NEW gs, NEW fs, NEW cur,
           Whole(S, h, ctl, e, k, gs, fs, cur), OnePerId(fs),
           NEW at \in DOMAIN fs, NEW x \in FibersIn(Ranges(h)), x.f.id = fs[at].f.id,
           NEW now, Relied(S, x, now),
           now = cur \/ (now = <<>> /\ cur = <<x.f.id>>) \/ cur = <<>>,
           now # <<>> => ctl \in ControlsIn(S) /\ e \in S.envs /\ k \in S.conts
    PROVE  Whole(S, h, ctl, e, k, gs, Replaced(fs, at, x), now)
<1> DEFINE rs == Replaced(fs, at, x)
<1>1. /\ rs \in Seq(FibersIn(Ranges(h))) /\ DOMAIN rs = DOMAIN fs /\ rs[at] = x
      /\ \A i \in DOMAIN fs : i # at => rs[i] = fs[i]
  BY ReplacedIs DEF Whole
<1> HIDE DEF rs
<1>2. ASSUME NEW i \in DOMAIN fs, i # at PROVE Relied(S, fs[i], now)
  <2>1. Relied(S, fs[i], cur)
    BY DEF Whole
  <2>2. fs[i].f.id # x.f.id
    BY <1>2 DEF OnePerId
  <2>3. <<fs[i].f.id>> # <<x.f.id>>
    BY <2>2, SMT
  <2> QED
    BY <2>1, <2>3, ReliedButSelected, ReliedAnyway
<1>3. \A i \in DOMAIN rs : Relied(S, rs[i], now)
  BY <1>1, <1>2
<1>4. Whole(S, h, ctl, e, k, gs, rs, now)
  BY <1>1, <1>3 DEF Whole
<1> QED
  BY <1>4 DEF rs

-----------------------------------------------------------------------------
(* The heap a run starts with, and after a collection.                     *)

Fresh == [objects |-> {}, closures |-> {}, envs |-> {0}, conts |-> {0}, handlers |-> {}]

\* An arena with one thing in it.
LEMMA OneSlot ==
    ASSUME NEW V, NEW x \in V
    PROVE  LET a == Alloc(NewArena, x) IN
           /\ WellFormed(a, V) /\ IdsOf(a) = {0} /\ FreeIds(a) = {} /\ Slot(a, 0) = x
           /\ Len(a.slots) = 1 /\ a.allocations = 1
<1> DEFINE a == Alloc(NewArena, x)
<1>1. WellFormed(NewArena, V) /\ NewArena.free_list = <<>>
  BY NewArenaWellFormed DEF NewArena
<1>2. WellFormed(a, V) /\ FreeIds(a) = {} /\ a.slots = Append(NewArena.slots, x)
  BY <1>1, AllocGrows
<1>3. a.slots = <<x>>
  BY <1>2 DEF NewArena
<1>4. a.allocations = 1
  BY <1>1 DEF Alloc, NewArena
<1> HIDE DEF a
<1>5. Len(a.slots) = 1 /\ a.slots[1] = x /\ a.slots[0 + 1] = x
  BY <1>3, SMT
<1>6. IdsOf(a) = {0}
  BY <1>5, SMT DEF IdsOf
<1> QED
  BY <1>2, <1>4, <1>5, <1>6 DEF Slot, a

\* The heap a run starts with is sound.
LEMMA NewHeapSound ==
    /\ Shaped(NewHeap) /\ Sound(NewHeap, Fresh) /\ TotalAllocations(NewHeap) = 2
<1> DEFINE h == NewHeap
           x == EnvWith(<<>>, <<>>)
           V == ThingsIn(Ranges(h))
<1>1. /\ h = [objects |-> NewArena, envs |-> Alloc(NewArena, x), conts |-> Alloc(NewArena, Halt),
              handlers |-> NewArena]
  BY DEF NewHeap
<1>2. /\ h = [objects |-> h.objects, envs |-> h.envs, conts |-> h.conts, handlers |-> h.handlers]
      /\ h["objects"] = NewArena /\ h["envs"] = Alloc(NewArena, x)
      /\ h["conts"] = Alloc(NewArena, Halt) /\ h["handlers"] = NewArena
      /\ h.objects = NewArena /\ h.handlers = NewArena
      /\ h.envs = Alloc(NewArena, x) /\ h.conts = Alloc(NewArena, Halt)
  BY <1>1
<1> HIDE DEF h, x
<1>3. \A S : x \in EnvsIn(S) /\ Halt \in KontsIn(S)
  <2> TAKE S
  <2>1. x \in EnvsIn(S)
    <3>1. <<>> \in UpToOne(BindingsIn(S)) /\ <<>> \in UpToOne(S.envs)
      BY DEF UpToOne
    <3> QED
      BY <3>1, EnvMade DEF x
  <2>2. Halt \in KontsIn(S)
    <3>1. "Halt" \in DOMAIN FrameFields(S) /\ <<>> \in FrameFields(S)["Halt"]
      BY DEF FrameFields
    <3>2. Thing("Halt", <<>>) \in KontsIn(S)
      BY <3>1, KontMade
    <3>3. Halt = Thing("Halt", <<>>)
      BY DEF Halt
    <3> QED
      BY <3>2, <3>3
  <2> QED
    BY <2>1, <2>2
<1>4. NewArena.slots = <<>> /\ Len(NewArena.slots) = 0 /\ NewArena.allocations = 0
      /\ IdsOf(NewArena) = {} /\ \A W : WellFormed(NewArena, W)
  <2>1. NewArena.slots = <<>> /\ Len(NewArena.slots) = 0 /\ NewArena.allocations = 0
    BY DEF NewArena
  <2>2. IdsOf(NewArena) = {}
    BY <2>1, SMT DEF IdsOf
  <2> QED
    BY <2>1, <2>2, NewArenaWellFormed
<1> DEFINE a == h["envs"]
           b == h["conts"]
<1>5. /\ \A W : x \in W => WellFormed(a, W)
      /\ IdsOf(a) = {0} /\ FreeIds(a) = {} /\ Slot(a, 0) = x /\ Len(a.slots) = 1
             /\ a.allocations = 1
  <2>1. a = Alloc(NewArena, x)
    BY <1>2
  <2>2. x \in {x}
    OBVIOUS
  <2> HIDE DEF a
  <2> QED
    BY <2>1, <2>2, OneSlot
<1>6. /\ \A W : Halt \in W => WellFormed(b, W)
      /\ IdsOf(b) = {0} /\ FreeIds(b) = {} /\ Slot(b, 0) = Halt /\ Len(b.slots) = 1
             /\ b.allocations = 1
  <2>1. b = Alloc(NewArena, Halt)
    BY <1>2
  <2>2. Halt \in {Halt}
    OBVIOUS
  <2> HIDE DEF b
  <2> QED
    BY <2>1, <2>2, OneSlot
<1> HIDE DEF a, b
<1>7. h["envs"] = a /\ h["conts"] = b /\ h.envs = a /\ h.conts = b
  BY <1>2 DEF a, b
<1>8. \A S : x \in ThingsIn(S)["envs"] /\ Halt \in ThingsIn(S)["conts"]
  BY <1>3 DEF ThingsIn
<1> HIDE DEF V
<1>9. ASSUME NEW arena \in Arenas
      PROVE  WellFormed(h[arena], V[arena]) /\ h[arena].allocations >= Len(h[arena].slots)
  <2>1. CASE arena = "objects" \/ arena = "handlers"
    <3>1. h[arena] = NewArena
      BY <1>2, <2>1
    <3> QED
      BY <1>4, <3>1, SMT
  <2>2. CASE arena = "envs"
    <3>1. h[arena] = a /\ x \in V[arena]
      BY <1>7, <1>8, <2>2 DEF V
    <3>2. WellFormed(a, V[arena])
      BY <1>5, <3>1
    <3>3. a.allocations >= Len(a.slots)
      BY <1>5, SMT
    <3> QED
      BY <3>1, <3>2, <3>3
  <2>3. CASE arena = "conts"
    <3>1. h[arena] = b /\ Halt \in V[arena]
      BY <1>7, <1>8, <2>3 DEF V
    <3>2. WellFormed(b, V[arena])
      BY <1>6, <3>1
    <3>3. b.allocations >= Len(b.slots)
      BY <1>6, SMT
    <3> QED
      BY <3>1, <3>2, <3>3
  <2> QED
    BY <2>1, <2>2, <2>3 DEF Arenas
<1>10. Shaped(h)
  BY <1>2, <1>9 DEF Shaped, V
<1>11. Fresh \in IdSets /\ Fresh["objects"] = {} /\ Fresh["handlers"] = {} /\ Fresh["envs"] = {0}
       /\ Fresh["conts"] = {0} /\ Fresh.closures = {}
  BY DEF Fresh, IdSets
<1>12. ASSUME NEW arena \in Arenas, NEW id \in Fresh[arena]
       PROVE  id \in InUse(h[arena]) /\ Slot(h[arena], id) \in ThingsIn(Fresh)[arena]
  <2>1. CASE arena = "envs"
    BY <1>5, <1>7, <1>8, <1>11, <2>1 DEF InUse
  <2>2. CASE arena = "conts"
    BY <1>6, <1>7, <1>8, <1>11, <2>2 DEF InUse
  <2> QED
    BY <1>11, <2>1, <2>2 DEF Arenas
<1>13. Sound(h, Fresh)
  BY <1>11, <1>12 DEF Sound
<1>14. TotalAllocations(h) = 2
  <2>1. h.objects.allocations = 0 /\ h.handlers.allocations = 0 /\ h.envs.allocations = 1
        /\ h.conts.allocations = 1
    BY <1>2, <1>4, <1>5, <1>6, <1>7
  <2> QED
    BY <2>1, SMT DEF TotalAllocations
<1> QED
  BY <1>10, <1>13, <1>14 DEF h

\* A run starts whole, with its fiber queued.
LEMMA FreshWhole ==
    Whole(Fresh, NewHeap, SomeExpr, 0, 0, <<>>, <<RootFiber>>, <<>>)
<1>1. Shaped(NewHeap) /\ Sound(NewHeap, Fresh)
  BY NewHeapSound
<1>2. Within(Fresh, Ranges(NewHeap))
  BY <1>1, SoundWithin
<1>3. 0 \in Fresh.envs /\ 0 \in Fresh.conts /\ SomeExpr \in ControlsIn(Fresh)
      /\ <<>> \in UpToOne(BindingsIn(Fresh))
  BY DEF Fresh, ControlsIn, UpToOne
<1>4. RootFiber \in FibersIn(Fresh)
  <2>1. Ready \in StatusesIn(Fresh) /\ 0 \in Nat
    BY StatusMade
  <2> QED
    BY <1>3, <2>1, FiberMade DEF RootFiber
<1>5. RootFiber \in FibersIn(Ranges(NewHeap))
  BY <1>2, <1>4, FiberMore
<1>6. /\ <<RootFiber>> \in Seq(FibersIn(Ranges(NewHeap)))
      /\ DOMAIN <<RootFiber>> = {1} /\ <<RootFiber>>[1] = RootFiber
  BY <1>5, SMT
<1>7. Relied(Fresh, RootFiber, <<>>)
  BY <1>3 DEF Relied, RootFiber, Fiber, Thing, Ready
<1>8. SomeExpr \in ControlsIn(Ranges(NewHeap)) /\ 0 \in Ranges(NewHeap).envs
          /\ 0 \in Ranges(NewHeap).conts
  BY <1>2, <1>3, ControlMore DEF Within
<1> QED
  BY <1>1, <1>3, <1>6, <1>7, <1>8 DEF Whole

\* After a collection from the registers, the globals and these fibers.
LEMMA WholeSpared ==
    ASSUME NEW S, NEW h, NEW ctl, NEW e, NEW k, NEW gs, NEW fs, NEW cur,
           Whole(S, h, ctl, e, k, gs, fs, cur),
           NEW g, NEW T, Spared(h, g, S, T, Roots(ctl, e, k, gs, fs))
    PROVE  Whole(T, g, ctl, e, k, gs, fs, cur)
<1> DEFINE roots == Roots(ctl, e, k, gs, fs)
<1>1. /\ ControlIds(ctl) \subseteq roots /\ BoundIds(gs) \subseteq roots
      /\ <<"envs", e>> \in roots /\ <<"conts", k>> \in roots
      /\ \A i \in DOMAIN fs : FiberIds(fs[i]) \subseteq roots
  BY WholeRanges, RootsAre
<1> HIDE DEF roots
<1>2. Shaped(g) /\ Sound(g, T) /\ Ranges(g) = Ranges(h) /\ Spared(h, g, S, T, roots)
  BY DEF Spared, roots
<1>3. S \in IdSets
  BY DEF Whole, Sound
<1>4. gs \in UpToOne(BindingsIn(T))
  BY <1>1, <1>2, <1>3, SparedHolds DEF Whole
<1>5. cur # <<>> => ctl \in ControlsIn(T) /\ e \in T.envs /\ k \in T.conts
  BY <1>1, <1>2, <1>3, SparedHolds DEF Whole
<1>6. \A i \in DOMAIN fs : Relied(T, fs[i], cur)
  BY <1>1, <1>2, <1>3, SparedHolds DEF Whole
<1> QED
  BY <1>2, <1>4, <1>5, <1>6 DEF Whole

\* Collected or not, the heap is sound and what the roots name stays.
LEMMA MayCollectSpares ==
    ASSUME Shaped(heap), NEW S, Sound(heap, S), NEW roots, roots \subseteq Pairs(Ranges(heap)),
           BaseInv
    PROVE  LET after == MayCollect(roots) IN
           /\ \E T : Spared(heap, after.heap, S, T, roots)
           /\ after.base \in 0 .. TotalAllocations(after.heap)
<1> DEFINE after == MayCollect(roots)
<1>0. TotalAllocations(heap) \in Nat
  BY TotalIs
<1>1. CASE ShouldCollect(heap, alloc_snapshot, Threshold)
  <2>1. after.heap = Collected(heap, roots) /\ after.base = TotalAllocations(heap)
    BY <1>1 DEF MayCollect
  <2> HIDE DEF after
  <2>2. PICK T : Spared(heap, after.heap, S, T, roots)
    BY <2>1, CollectedSpares
  <2>3. TotalAllocations(after.heap) = TotalAllocations(heap)
    BY <2>2 DEF Spared
  <2>4. after.base \in 0 .. TotalAllocations(after.heap)
    <3> DEFINE n == TotalAllocations(heap)
    <3> HIDE DEF n
    <3>1. n \in Nat /\ after.base = n /\ TotalAllocations(after.heap) = n
      BY <1>0, <2>1, <2>3 DEF n
    <3> QED
      BY <3>1, SMT
  <2> QED
    BY <2>2, <2>4 DEF after
<1>2. CASE ~ShouldCollect(heap, alloc_snapshot, Threshold)
  <2>1. after.heap = heap /\ after.base = alloc_snapshot
    BY <1>2 DEF MayCollect
  <2> HIDE DEF after
  <2> QED
    BY <2>1, UntouchedSpares DEF BaseInv, after
<1> QED
  BY <1>1, <1>2

-----------------------------------------------------------------------------
(* The slices of the scheduler.                                            *)

RunInv == HeapInv /\ LineInv /\ BaseInv /\ family \in Families

\* A fiber that is not finished is in the list.
LEMMA AliveIs ==
    ASSUME NEW V, NEW fs \in Seq(V), OnePerId(fs), NEW id \in Alive(fs)
    PROVE  /\ PlaceOf(fs, id) \in DOMAIN fs /\ fs[PlaceOf(fs, id)].f.id = id /\ id \in ListIds(fs)
           /\ fs[PlaceOf(fs, id)].f.status.is # "Completed"
<1>1. PICK i \in DOMAIN fs : fs[i].f.id = id /\ fs[i].f.status.is # "Completed"
  BY DEF Alive, Range
<1>2. PlaceOf(fs, id) = i
  BY <1>1, PlaceOfOne
<1> QED
  BY <1>1, <1>2 DEF ListIds

\* What the invariant says of the list of fibers and the queues.
LEMMA LineIs ==
    ASSUME LineInv
    PROVE  /\ OnePerId(fibers) /\ Len(fibers) <= MaxFibers
           /\ next_fiber_id \in 0 .. MaxFibers + 1
           /\ \A id \in ListIds(fibers) : id \in 0 .. next_fiber_id - 1 /\ id \in FiberId
                  /\ id \in Nat
           /\ Waits(Alive(fibers), ready_queue, current, join_waiters)
<1>1. \A id \in ListIds(fibers) : id \in 0 .. next_fiber_id - 1
  BY DEF LineInv, Lined
<1>2. next_fiber_id \in 0 .. MaxFibers + 1
  BY DEF LineInv, Lined
<1>3. \A id \in ListIds(fibers) : id \in FiberId /\ id \in Nat
  BY <1>1, <1>2, DurableAssumption, SMT DEF FiberId
<1> QED
  BY <1>1, <1>2, <1>3 DEF LineInv, Lined

\* The selected fiber.
LEMMA SelectedIs ==
    ASSUME HeapInv, LineInv, current # <<>>
    PROVE  /\ current = <<current[1]>> /\ current[1] \in Alive(fibers) /\ current[1] \in FiberId
           /\ current[1] \in Nat
           /\ PlaceOf(fibers, current[1]) \in DOMAIN fibers
           /\ fibers[PlaceOf(fibers, current[1])].f.id = current[1]
           /\ fibers[PlaceOf(fibers, current[1])].f.status.is # "Completed"
<1>1. current = <<current[1]>> /\ current[1] \in Alive(fibers)
  BY LineIs, CurrentIs DEF Waits
<1>2. PICK S : fibers \in Seq(FibersIn(Ranges(heap)))
  BY DEF HeapInv, Whole
<1> QED
  BY <1>1, <1>2, LineIs, AliveIs

\* The total only grows.
LEMMA BaseStays ==
    ASSUME BaseInv, Shaped(heap), NEW g, Shaped(g), TotalAllocations(heap) <= TotalAllocations(g)
    PROVE  alloc_snapshot \in 0 .. TotalAllocations(g)
<1> DEFINE m == TotalAllocations(heap)
           n == TotalAllocations(g)
<1>1. m \in Nat /\ n \in Nat /\ m <= n /\ alloc_snapshot \in 0 .. m
  BY TotalIs DEF BaseInv
<1> HIDE DEF m, n
<1>2. alloc_snapshot \in 0 .. n
  BY <1>1, SMT
<1> QED
  BY <1>2 DEF n

\* A step of a run keeps to its family.
LEMMA StepFamily == ASSUME Step PROVE family' = family
<1>1. \A h, ctl, e, k : Steps(h, ctl, e, k) => family' = family
  BY DEF Steps
<1>2. \A conts, e, frame : Pushes(conts, e, frame) => family' = family
  BY <1>1 DEF Pushes
<1>3. \A effect, args, conts, k : Performs(effect, args, conts, k) => family' = family
  BY <1>1 DEF Performs
<1> HIDE DEF Steps, Pushes, Performs
<1>4. CASE EvalLiteral \/ EvalIdentifier \/ EvalFunction \/ EvalHandler
  BY <1>1, <1>4 DEF EvalLiteral, EvalIdentifier, EvalFunction, EvalHandler
<1>5. CASE EvalOperand
  BY <1>2, <1>5 DEF EvalOperand
<1>6. CASE EvalPerform
  BY <1>2, <1>3, <1>6 DEF EvalPerform
<1>7. CASE ApplyHalt \/ ApplyObject \/ ApplyReturnExpr \/ ApplyHandler
  BY <1>1, <1>7 DEF ApplyHalt, ApplyObject, ApplyReturnExpr, ApplyHandler
<1>8. CASE ApplyAssignVar
  BY <1>8 DEF ApplyAssignVar
<1>9. CASE ApplyMember \/ ApplyReturn
  BY <1>1, <1>9 DEF ApplyMember, ApplyReturn
<1>10. CASE ApplyCallee \/ ApplyHandleWith
  BY <1>2, <1>10 DEF ApplyCallee, ApplyHandleWith
<1>11. CASE ApplyPerformArgs
  BY <1>3, <1>11 DEF ApplyPerformArgs
<1>12. CASE Return
  BY <1>1, <1>12 DEF Return
<1>13. CASE ApplyArgs
  <2>1. \A conts, o, arg, k : Called(conts, o, arg, k) => family' = family
    BY <1>1 DEF Called
  <2>2. \A conts, captured, arg, k : Resumed(conts, captured, arg, k) => family' = family
    BY <1>1 DEF Resumed
  <2> QED
    BY <1>13, <2>1, <2>2 DEF ApplyArgs
<1> QED
  BY <1>4, <1>5, <1>6, <1>7, <1>8, <1>9, <1>10, <1>11, <1>12, <1>13 DEF Step

\* A step of the interpreter keeps the invariant.
LEMMA InterpretKeeps == ASSUME RunInv, Interpret PROVE RunInv'
<1>1. PICK S : Whole(S, heap, control, env, cont, globals, fibers, current)
  BY DEF RunInv, HeapInv
<1>2. /\ current # <<>> /\ family \in Families /\ Step
      /\ UNCHANGED <<scheduler, alloc_snapshot, file>>
  BY DEF RunInv, Interpret, Works
<1>3. Sane(S)
  BY <1>1, <1>2 DEF Whole, Sane, Runs
<1>4. PICK T : Onward(heap, heap', S, T) /\ Runs(T, control', env', cont', globals')
  BY <1>2, <1>3, StepLeads DEF LeadsOn
<1>5. Whole(T, heap', control, env, cont, globals, fibers, current)
  BY <1>1, <1>4, WholeOnward
<1>6. Whole(T, heap', control', env', cont', globals', fibers, current)
  BY <1>4, <1>5, WholeSet DEF Runs
<1>7. HeapInv'
  BY <1>2, <1>6 DEF HeapInv, scheduler
<1>8. LineInv'
  BY <1>2 DEF RunInv, LineInv, scheduler
<1>9. BaseInv'
  BY <1>1, <1>2, <1>4, BaseStays DEF RunInv, BaseInv, Onward, Whole
<1>10. family' = family
  BY <1>2, StepFamily
<1> QED
  BY <1>2, <1>7, <1>8, <1>9, <1>10 DEF RunInv

\* Selecting a fiber keeps the invariant.
LEMMA SelectKeeps == ASSUME RunInv, Select PROVE RunInv'
<1> DEFINE id == Head(ready_queue)
           at == PlaceOf(fibers, id)
           x == fibers[at]
           y == Fiber(id, x.f.control, x.f.cont, x.f.env, Running)
           c == <<id>>
<1>1. PICK S : Whole(S, heap, control, env, cont, globals, fibers, current)
  BY DEF RunInv, HeapInv
<1>2. /\ current = <<>> /\ ready_queue # <<>> /\ ready_queue' = Tail(ready_queue)
      /\ current' = <<x.f.id>> /\ control' = x.f.control /\ cont' = x.f.cont /\ env' = x.f.env
      /\ fibers' = [fibers EXCEPT ![at].f.status = Running]
      /\ UNCHANGED <<family, heap, globals, join_waiters, next_fiber_id, alloc_snapshot, file>>
  BY DEF Select
<1>3. Waits(Alive(fibers), Tail(ready_queue), c, join_waiters) /\ id \in Alive(fibers)
  BY <1>2, LineIs, SelectWaits DEF RunInv
<1> HIDE DEF id, c
<1>4. fibers \in Seq(FibersIn(Ranges(heap))) /\ OnePerId(fibers)
  BY <1>1, LineIs DEF Whole, RunInv
<1>5. at \in DOMAIN fibers /\ x.f.id = id /\ x.f.status.is # "Completed" /\ id \in ListIds(fibers)
  BY <1>3, <1>4, AliveIs
<1> HIDE DEF at, x
<1>6. x \in FibersIn(Ranges(heap)) /\ x = fibers[at]
  BY <1>4, <1>5 DEF x
<1>7. /\ x.f.id \in Nat /\ x.f.control \in ControlsIn(Ranges(heap))
             /\ x.f.cont \in Ranges(heap).conts
      /\ x.f.env \in Ranges(heap).envs
      /\ x = Fiber(x.f.id, x.f.control, x.f.cont, x.f.env, x.f.status)
  BY <1>6, FiberShape
<1>8. [x EXCEPT !.f.status = Running] = y
  BY <1>5, <1>7 DEF Fiber, Thing
<1>9. fibers' = Replaced(fibers, at, y)
  BY <1>2, <1>6, <1>8, Zenon DEF Replaced
<1>10. Relied(S, x, <<>>)
  BY <1>1, <1>2, <1>5, <1>6 DEF Whole
<1>11. <<x.f.id>> # <<>>
  BY SMT
<1>12. x.f.control \in ControlsIn(S) /\ x.f.cont \in S.conts /\ x.f.env \in S.envs
  BY <1>5, <1>10, <1>11 DEF Relied
<1>13. /\ y \in FibersIn(Ranges(heap)) /\ y.f.id = id /\ y.f.status.is # "Completed"
  <2>1. y \in FibersIn(Ranges(heap))
    BY <1>5, <1>7, StatusMade, FiberMade
  <2> QED
    BY <2>1 DEF Fiber, Thing, Running
<1>14. Relied(S, y, c)
  BY <1>13 DEF Relied, c
<1> HIDE DEF y
<1>15. Whole(S, heap, control', env', cont', globals, fibers, current)
  <2>1. globals \in UpToOne(BindingsIn(S))
    BY <1>1 DEF Whole
  <2> QED
    BY <1>1, <1>2, <1>12, <2>1, WholeSet
<1>16. Whole(S, heap, control', env', cont', globals, fibers', c)
  <2>1. y.f.id = fibers[at].f.id
    BY <1>5, <1>6, <1>13
  <2>2. control' \in ControlsIn(S) /\ env' \in S.envs /\ cont' \in S.conts
    BY <1>2, <1>12
  <2>3. Whole(S, heap, control', env', cont', globals, Replaced(fibers, at, y), c)
    <3> DEFINE ctl == control'
               e == env'
               k == cont'
    <3>1. Whole(S, heap, ctl, e, k, globals, fibers, current)
          /\ ctl \in ControlsIn(S) /\ e \in S.envs /\ k \in S.conts
      BY <1>15, <2>2
    <3> HIDE DEF ctl, e, k
    <3>2. Whole(S, heap, ctl, e, k, globals, Replaced(fibers, at, y), c)
      BY <1>2, <1>4, <1>5, <1>13, <1>14, <2>1, <3>1, WholeReplaced
    <3> QED
      BY <3>2 DEF ctl, e, k
  <2> QED
    BY <1>9, <2>3
<1>17. current' = c /\ c # <<>>
  BY <1>2, <1>5, <1>11 DEF c
<1>18. HeapInv'
  BY <1>2, <1>16, <1>17 DEF HeapInv
<1>19. LineInv'
  <2>1. /\ Len(fibers') = Len(fibers) /\ OnePerId(fibers') /\ ListIds(fibers') = ListIds(fibers)
        /\ Alive(fibers') = (Alive(fibers) \ {id}) \cup {id}
    BY <1>4, <1>5, <1>6, <1>9, <1>13, ReplacedIs
  <2>2. Alive(fibers') = Alive(fibers)
    BY <1>3, <2>1
  <2> QED
    BY <1>2, <1>3, <1>17, <2>1, <2>2 DEF RunInv, LineInv, Lined
<1> QED
  BY <1>2, <1>18, <1>19 DEF RunInv, BaseInv

-----------------------------------------------------------------------------
(* The fiber that runs is saved; a preemption.                             *)

\* The fiber that runs, saved into the list.
LEMMA SavedIs ==
    ASSUME HeapInv, LineInv, current # <<>>, NEW ctl
    PROVE  LET x == Fiber(current[1], ctl, cont, env, Ready)  at == PlaceOf(fibers, current[1]) IN
           /\ SavedFibers(ctl) = Replaced(fibers, at, x)
           /\ at \in DOMAIN fibers /\ fibers[at].f.id = current[1]
           /\ x.f.id = current[1] /\ x.f.status.is # "Completed" /\ x.f.control = ctl
           /\ x.f.cont = cont /\ x.f.env = env
<1> DEFINE x == Fiber(current[1], ctl, cont, env, Ready)
           at == PlaceOf(fibers, current[1])
<1>1. SavedFibers(ctl) = Replaced(fibers, at, x)
  BY Zenon DEF SavedFibers, Replaced
<1>2. x.f.id = current[1] /\ x.f.status.is # "Completed" /\ x.f.control = ctl
      /\ x.f.cont = cont /\ x.f.env = env
  BY DEF Fiber, Thing, Ready
<1>3. at \in DOMAIN fibers /\ fibers[at].f.id = current[1]
  BY SelectedIs
<1> QED
  BY <1>1, <1>2, <1>3

\* Saving the fiber that runs holds no id that was not held.
LEMMA SavedWhole ==
    ASSUME HeapInv, LineInv, current # <<>>,
           NEW T, NEW h, NEW ctl, Whole(T, h, ctl, env, cont, globals, fibers, current),
           NEW now, now = current \/ now = <<>>
    PROVE  Whole(T, h, ctl, env, cont, globals, SavedFibers(ctl), now)
<1> DEFINE x == Fiber(current[1], ctl, cont, env, Ready)
           at == PlaceOf(fibers, current[1])
<1>1. /\ SavedFibers(ctl) = Replaced(fibers, at, x)
      /\ at \in DOMAIN fibers /\ fibers[at].f.id = current[1]
      /\ x.f.id = current[1] /\ x.f.status.is # "Completed" /\ x.f.control = ctl
      /\ x.f.cont = cont /\ x.f.env = env
  BY SavedIs
<1>2. current = <<current[1]>> /\ current[1] \in Nat
  BY SelectedIs
<1>3. x \in FibersIn(Ranges(h))
  BY <1>2, FiberMade, StatusMade DEF Whole
<1> HIDE DEF x, at
<1>4. ctl \in ControlsIn(T) /\ env \in T.envs /\ cont \in T.conts
  BY DEF Whole
<1>5. Relied(T, x, now)
  BY <1>1, <1>4 DEF Relied
<1>6. OnePerId(fibers)
  BY LineIs
<1>7. x.f.id = fibers[at].f.id /\ current = <<x.f.id>>
  BY <1>1, <1>2
<1>8. Whole(T, h, ctl, env, cont, globals, Replaced(fibers, at, x), now)
  BY <1>1, <1>3, <1>4, <1>5, <1>6, <1>7, WholeReplaced
<1> QED
  BY <1>1, <1>8

\* Saving the fiber that runs keeps the fibers in line.
LEMMA SavedLined ==
    ASSUME HeapInv, LineInv, current # <<>>, NEW ctl \in ControlsIn(Ranges(heap)), NEW q, NEW c,
           NEW w,
           Waits(Alive(fibers), q, c, w)
    PROVE  Lined(SavedFibers(ctl), q, c, w, next_fiber_id)
<1> DEFINE x == Fiber(current[1], ctl, cont, env, Ready)
           at == PlaceOf(fibers, current[1])
           fs == SavedFibers(ctl)
<1>1. /\ fs = Replaced(fibers, at, x)
      /\ at \in DOMAIN fibers /\ fibers[at].f.id = current[1]
      /\ x.f.id = current[1] /\ x.f.status.is # "Completed"
  BY SavedIs
<1>2. current[1] \in Alive(fibers) /\ current[1] \in Nat
  BY SelectedIs
<1>3. PICK S : Whole(S, heap, control, env, cont, globals, fibers, current)
  BY DEF HeapInv
<1>4. x \in FibersIn(Ranges(heap))
  BY <1>2, <1>3, FiberMade, StatusMade DEF Whole
<1>5. fibers \in Seq(FibersIn(Ranges(heap))) /\ OnePerId(fibers)
  BY <1>3, LineIs DEF Whole
<1> HIDE DEF x, at, fs
<1>6. /\ Len(fs) = Len(fibers) /\ OnePerId(fs) /\ ListIds(fs) = ListIds(fibers)
      /\ Alive(fs) = (Alive(fibers) \ {current[1]}) \cup {current[1]}
  BY <1>1, <1>4, <1>5, ReplacedIs
<1>7. Alive(fs) = Alive(fibers)
  BY <1>2, <1>6
<1>8. Lined(fs, q, c, w, next_fiber_id)
  BY <1>6, <1>7, LineIs DEF Lined
<1> QED
  BY <1>8 DEF fs

\* A preemption keeps the invariant.
LEMMA PreemptKeeps == ASSUME RunInv, Preempt PROVE RunInv'
<1> DEFINE fs == SavedFibers(control)
           roots == Roots(control, env, cont, globals, fs)
           after == MayCollect(roots)
<1>0. HeapInv /\ LineInv /\ BaseInv /\ family \in Families
  BY DEF RunInv
<1>1. PICK S : Whole(S, heap, control, env, cont, globals, fibers, current)
  BY <1>0 DEF HeapInv
<1>2. /\ current # <<>> /\ fibers' = fs /\ heap' = after.heap /\ alloc_snapshot' = after.base
      /\ ready_queue' = Append(ready_queue, current[1]) /\ current' = <<>>
      /\ UNCHANGED <<family, control, env, cont, globals, join_waiters, next_fiber_id, file>>
  BY DEF Preempt, Works
<1>3. Whole(S, heap, control, env, cont, globals, fs, <<>>)
  BY <1>0, <1>1, <1>2, SavedWhole
<1> HIDE DEF after
<1>4. /\ \E T : Spared(heap, after.heap, S, T, roots)
      /\ after.base \in 0 .. TotalAllocations(after.heap)
  <2>1. roots \subseteq Pairs(Ranges(heap))
    BY <1>3, WholeRanges
  <2>2. Shaped(heap) /\ Sound(heap, S)
    BY <1>1 DEF Whole
  <2> HIDE DEF roots
  <2> QED
    BY <1>0, <2>1, <2>2, MayCollectSpares DEF after
<1>5. PICK T : Spared(heap, after.heap, S, T, roots)
  BY <1>4
<1>6. Whole(T, after.heap, control, env, cont, globals, fs, <<>>)
  BY <1>3, <1>5, WholeSpared
<1>7. HeapInv'
  BY <1>2, <1>6 DEF HeapInv
<1>8. Waits(Alive(fibers), ready_queue', <<>>, join_waiters)
  BY <1>0, <1>2, LineIs, PreemptWaits
<1>9. control \in ControlsIn(Ranges(heap))
  BY <1>1 DEF Whole
<1>10. LineInv'
  BY <1>0, <1>2, <1>8, <1>9, SavedLined DEF LineInv
<1>11. BaseInv'
  BY <1>2, <1>4 DEF BaseInv
<1> QED
  BY <1>0, <1>2, <1>7, <1>10, <1>11 DEF RunInv

-----------------------------------------------------------------------------
(* Effects.                                                                *)

\* The collection while an effect is handled, its argument taken out.
LEMMA AtEffectIs ==
    ASSUME HeapInv, LineInv, BaseInv, NEW effect, Suspended(effect),
           NEW S, Whole(S, heap, control, env, cont, globals, fibers, current)
    PROVE  /\ \E T : /\ Whole(T, AtEffect.heap, Taken, env, cont, globals, fibers, current)
                     /\ Spared(heap, AtEffect.heap, S, T, Roots(Taken, env, cont, globals, fibers))
           /\ AtEffect.base \in 0 .. TotalAllocations(AtEffect.heap)
           /\ current # <<>> /\ Taken \in ControlsIn(S) /\ Taken \in ControlsIn(Ranges(heap))
           /\ Whole(S, heap, Taken, env, cont, globals, fibers, current)
<1> DEFINE roots == Roots(Taken, env, cont, globals, fibers)
<1>1. current # <<>> /\ control.is = "Suspend" /\ control.f.effect = effect
  BY DEF Suspended, Works
<1>2. control \in ControlsIn(S) /\ env \in S.envs /\ cont \in S.conts
      /\ globals \in UpToOne(BindingsIn(S)) /\ Shaped(heap) /\ Sound(heap, S)
  BY <1>1 DEF Whole
<1>3. control = Thing("Suspend", [effect |-> effect, args |-> control.f.args]) /\ effect \in Nat
  BY <1>1, <1>2, ControlShape DEF SomeExpr, Thing
<1>4. Taken = Thing("Suspend", [effect |-> effect, args |-> <<>>])
  <2> DEFINE given == control.f.args
  <2>1. control = Thing("Suspend", [effect |-> effect, args |-> given])
    BY <1>3
  <2> HIDE DEF given
  <2> QED
    BY <2>1 DEF Taken, Thing
<1>5. Taken \in ControlsIn(S)
  <2>1. <<>> \in UpToOne(ValuesIn(S))
    BY DEF UpToOne
  <2> QED
    BY <1>3, <1>4, <2>1, ControlMade
<1> HIDE DEF roots
<1>6. Whole(S, heap, Taken, env, cont, globals, fibers, current)
  BY <1>2, <1>5, WholeSet
<1>7. roots \subseteq Pairs(Ranges(heap))
  BY <1>6, WholeRanges DEF roots
<1>8. /\ \E T : Spared(heap, AtEffect.heap, S, T, roots)
      /\ AtEffect.base \in 0 .. TotalAllocations(AtEffect.heap)
  BY <1>2, <1>7, MayCollectSpares DEF AtEffect, roots
<1>9. PICK T : Spared(heap, AtEffect.heap, S, T, roots)
  BY <1>8
<1>10. Whole(T, AtEffect.heap, Taken, env, cont, globals, fibers, current)
  BY <1>6, <1>9, WholeSpared DEF roots
<1>11. Taken \in ControlsIn(Ranges(heap))
  BY <1>6 DEF Whole
<1> QED
  BY <1>1, <1>5, <1>6, <1>8, <1>9, <1>10, <1>11 DEF roots

\* What an effect is given.
LEMMA ArgumentIs ==
    ASSUME NEW S, Whole(S, heap, control, env, cont, globals, fibers, current),
           NEW effect, Suspended(effect)
    PROVE  Argument \in ValuesIn(S)
<1>1. control \in ControlsIn(S) /\ control.is = "Suspend"
  BY DEF Suspended, Works, Whole
<1>2. control.f.args \in UpToOne(ValuesIn(S))
  BY <1>1, ControlShape DEF SomeExpr, Thing
<1> QED
  BY <1>2, UpToOneIs, ValueMade DEF Argument

\* Fewer fibers.
LEMMA WholeRemoved ==
    ASSUME NEW S, NEW h, NEW ctl, NEW e, NEW k, NEW gs, NEW fs, NEW cur,
           Whole(S, h, ctl, e, k, gs, fs, cur), OnePerId(fs), NEW id \in ListIds(fs)
    PROVE  Whole(S, h, ctl, e, k, gs, Removed(fs, id), cur)
<1> DEFINE rs == Removed(fs, id)
<1>1. rs \in Seq(FibersIn(Ranges(h))) /\ Range(rs) \subseteq Range(fs)
  BY RemovedIs DEF Whole
<1> HIDE DEF rs
<1>2. \A i \in DOMAIN rs : \E j \in DOMAIN fs : rs[i] = fs[j]
  BY <1>1 DEF Range
<1>3. \A i \in DOMAIN rs : Relied(S, rs[i], cur)
  BY <1>2 DEF Whole
<1>4. Whole(S, h, ctl, e, k, gs, rs, cur)
  BY <1>1, <1>3 DEF Whole
<1> QED
  BY <1>4 DEF rs

\* One fiber more.
LEMMA WholeAppended ==
    ASSUME NEW S, NEW h, NEW ctl, NEW e, NEW k, NEW gs, NEW fs, NEW cur,
           Whole(S, h, ctl, e, k, gs, fs, cur), OnePerId(fs),
           NEW x \in FibersIn(Ranges(h)), x.f.id \notin ListIds(fs), Relied(S, x, cur)
    PROVE  Whole(S, h, ctl, e, k, gs, Append(fs, x), cur)
<1> DEFINE rs == Append(fs, x)
<1>1. rs \in Seq(FibersIn(Ranges(h))) /\ Range(rs) = Range(fs) \cup {x}
  BY AppendedIs DEF Whole
<1> HIDE DEF rs
<1>2. \A i \in DOMAIN rs : rs[i] = x \/ \E j \in DOMAIN fs : rs[i] = fs[j]
  BY <1>1 DEF Range
<1>3. \A i \in DOMAIN rs : Relied(S, rs[i], cur)
  BY <1>2 DEF Whole
<1>4. Whole(S, h, ctl, e, k, gs, rs, cur)
  BY <1>1, <1>3 DEF Whole
<1> QED
  BY <1>4 DEF rs

\* A request to collect keeps the invariant.
LEMMA HandleGcKeeps == ASSUME RunInv, HandleGc PROVE RunInv'
<1> DEFINE roots == Roots(Taken, env, cont, globals, fibers)
           g == Collected(heap, roots)
<1>0. HeapInv /\ LineInv /\ BaseInv /\ family \in Families
  BY DEF RunInv
<1>1. PICK S : Whole(S, heap, control, env, cont, globals, fibers, current)
  BY <1>0 DEF HeapInv
<1>2. /\ Suspended(Gc) /\ heap' = g /\ alloc_snapshot' = TotalAllocations(heap)
      /\ control' = ValueOf(Undefined)
      /\ UNCHANGED <<family, env, cont, globals, scheduler, file>>
  BY DEF HandleGc
<1>3. Whole(S, heap, Taken, env, cont, globals, fibers, current) /\ current # <<>>
  BY <1>0, <1>1, <1>2, AtEffectIs
<1> HIDE DEF g, roots
<1>4. PICK T : Spared(heap, g, S, T, roots)
  <2>1. roots \subseteq Pairs(Ranges(heap))
    BY <1>3, WholeRanges DEF roots
  <2>2. Shaped(heap) /\ Sound(heap, S)
    BY <1>1 DEF Whole
  <2> QED
    BY <2>1, <2>2, CollectedSpares DEF g
<1>5. Whole(T, g, Taken, env, cont, globals, fibers, current)
  BY <1>3, <1>4, WholeSpared DEF roots
<1>6. Whole(T, g, ValueOf(Undefined), env, cont, globals, fibers, current)
  <2>1. env \in T.envs /\ cont \in T.conts /\ globals \in UpToOne(BindingsIn(T))
    BY <1>3, <1>5 DEF Whole
  <2>2. ValueOf(Undefined) \in ControlsIn(T)
    BY ValueMade, ValueOfIn
  <2> QED
    BY <1>5, <2>1, <2>2, WholeSet
<1>7. HeapInv'
  BY <1>2, <1>6 DEF HeapInv, scheduler
<1>8. LineInv'
  BY <1>0, <1>2 DEF LineInv, scheduler
<1>9. BaseInv'
  <2> DEFINE m == TotalAllocations(heap)
             n == TotalAllocations(g)
  <2>1. m \in Nat /\ n = m
    BY <1>1, <1>4, TotalIs DEF Whole, Spared
  <2> HIDE DEF m, n
  <2>2. m \in 0 .. n
    BY <2>1, SMT
  <2> QED
    BY <1>2, <2>2 DEF BaseInv, m, n
<1> QED
  BY <1>0, <1>2, <1>7, <1>8, <1>9 DEF RunInv

\* A fork keeps the invariant.
LEMMA HandleForkKeeps == ASSUME RunInv, ~ForkFleeting, HandleFork PROVE RunInv'
<1> DEFINE after == AtEffect
           a == after.heap
           o == Argument.f.o
           e == Slot(a.objects, o).f.kind.f.env
           g == Changed(a, "conts", Alloc(a.conts, Halt))
           n == next_fiber_id
           k == NextId(a.conts)
           x == Fiber(n, SomeExpr, k, e, Ready)
<1>0. HeapInv /\ LineInv /\ BaseInv /\ family \in Families
  BY DEF RunInv
<1>1. PICK S : Whole(S, heap, control, env, cont, globals, fibers, current)
  BY <1>0 DEF HeapInv
<1>2. /\ Suspended(Fork) /\ Argument.is = "Function" /\ Len(fibers) < MaxFibers
      /\ n \in FiberId /\ o \notin FreeIds(a.objects)
      /\ heap' = [a EXCEPT !.conts = Alloc(@, Halt)]
      /\ fibers' = Append(fibers, x) /\ alloc_snapshot' = after.base
      /\ ready_queue' = Append(ready_queue, n) /\ next_fiber_id' = n + 1
      /\ control' = ValueOf(IntValue(n))
      /\ UNCHANGED <<family, env, cont, globals, current, join_waiters, file>>
  BY DEF HandleFork
<1>3. /\ current # <<>> /\ after.base \in 0 .. TotalAllocations(a)
      /\ \E T : /\ Whole(T, a, Taken, env, cont, globals, fibers, current)
                /\ Spared(heap, a, S, T, Roots(Taken, env, cont, globals, fibers))
  BY <1>0, <1>1, <1>2, AtEffectIs
<1>4. PICK T : /\ Whole(T, a, Taken, env, cont, globals, fibers, current)
               /\ Spared(heap, a, S, T, Roots(Taken, env, cont, globals, fibers))
  BY <1>3
<1> HIDE DEF after, a
<1>5. o \in S.closures
  <2>1. Argument \in ValuesIn(S)
    BY <1>1, <1>2, ArgumentIs
  <2> QED
    BY <1>2, <2>1, ValueShape
<1>6. o \in T.closures
  BY <1>2, <1>4, <1>5 DEF Spared
<1>7. e \in T.envs
  <2>1. Slot(a.objects, o) \in ClosuresIn(T)
    BY <1>4, <1>6 DEF Whole, Sound
  <2>2. PICK d \in T.envs : Slot(a.objects, o) = Closure(d)
    BY <2>1 DEF ClosuresIn
  <2>3. Closure(d).f.kind.f.env = d
    BY DEF Closure, Thing
  <2> QED
    BY <2>2, <2>3
<1> HIDE DEF o, e
<1>8. Shaped(a) /\ Sound(a, T)
  BY <1>4 DEF Whole
<1>9. heap' = g
  <2>1. heap' = [a EXCEPT !.conts = Alloc(a.conts, Halt)]
    BY <1>2, Zenon
  <2> QED
    BY <2>1, Zenon DEF Changed
<1> HIDE DEF g, k
<1>10. PICK U : Onward(a, g, T, U) /\ k \in U.conts
  <2>1. Halt \in KontsIn(T)
    <3>1. "Halt" \in DOMAIN FrameFields(T) /\ <<>> \in FrameFields(T)["Halt"]
      BY DEF FrameFields
    <3> QED
      BY <3>1, KontMade DEF Halt
  <2> QED
    BY <1>8, <2>1, MoreConts DEF g, k
<1>11. Whole(U, g, Taken, env, cont, globals, fibers, current) /\ Shaped(g) /\ Within(T, U)
           /\ Sound(g, U)
  BY <1>4, <1>10, WholeOnward DEF Onward
<1>12. Whole(U, g, ValueOf(IntValue(n)), env, cont, globals, fibers, current)
  <2>1. env \in U.envs /\ cont \in U.conts /\ globals \in UpToOne(BindingsIn(U))
    BY <1>3, <1>11 DEF Whole
  <2>2. n \in Nat
    BY <1>2, DurableAssumption DEF FiberId
  <2>3. ValueOf(IntValue(n)) \in ControlsIn(U)
    BY <2>2, ValueMade, ValueOfIn
  <2> QED
    BY <1>11, <2>1, <2>3, WholeSet
<1>13. /\ x \in FibersIn(Ranges(g)) /\ x.f.id = n /\ x.f.status.is # "Completed"
       /\ Relied(U, x, current)
  <2>1. e \in U.envs /\ SomeExpr \in ControlsIn(U) /\ Ready \in StatusesIn(U)
    BY <1>7, <1>11, ControlMade, StatusMade DEF Within
  <2>2. n \in Nat
    BY <1>2, DurableAssumption DEF FiberId
  <2>3. x \in FibersIn(U)
    BY <1>10, <2>1, <2>2, FiberMade
  <2>4. x \in FibersIn(Ranges(g))
    BY <1>11, <2>3, SoundWithin, FiberMore
  <2>5. /\ x.f.id = n /\ x.f.status.is # "Completed" /\ x.f.control = SomeExpr /\ x.f.cont = k
        /\ x.f.env = e
    BY DEF Fiber, Thing, Ready
  <2> HIDE DEF x
  <2>6. Relied(U, x, current)
    BY <1>10, <2>1, <2>5 DEF Relied
  <2> QED
    BY <2>4, <2>5, <2>6
<1> HIDE DEF x
<1>14. n \notin ListIds(fibers) /\ OnePerId(fibers) /\ n \in 0 .. MaxFibers + 1 /\ n \in Nat
       /\ \A id \in ListIds(fibers) : id \in 0 .. n - 1
  <2>1. \A id \in ListIds(fibers) : id \in 0 .. n - 1
    BY <1>0, LineIs
  <2>2. n \in 0 .. MaxFibers + 1
    BY <1>0, LineIs
  <2>3. n \notin 0 .. n - 1 /\ n \in Nat
    BY <2>2, DurableAssumption, SMT
  <2> QED
    BY <1>0, <2>1, <2>2, <2>3, LineIs
<1>15. Whole(U, g, ValueOf(IntValue(n)), env, cont, globals, Append(fibers, x), current)
  BY <1>12, <1>13, <1>14, WholeAppended
<1>16. HeapInv'
  BY <1>2, <1>9, <1>15 DEF HeapInv
<1>17. LineInv'
  <2> DEFINE fs == Append(fibers, x)
  <2>1. fibers \in Seq(FibersIn(Ranges(g)))
    BY <1>11 DEF Whole
  <2>2. /\ Len(fs) = Len(fibers) + 1 /\ OnePerId(fs) /\ ListIds(fs) = ListIds(fibers) \cup {n}
        /\ Alive(fs) = Alive(fibers) \cup {n}
    BY <1>13, <1>14, <2>1, AppendedIs
  <2> HIDE DEF fs
  <2>3. Waits(Alive(fs), Append(ready_queue, n), current, join_waiters)
    <3>1. n \notin Alive(fibers)
      BY <1>14, <2>1, AliveIs
    <3> QED
      BY <1>0, <2>2, <3>1, LineIs, ForkWaits
  <2>4. Len(fibers) \in Nat
    BY <2>1
  <2>5. Len(fs) <= MaxFibers
    BY <1>2, <2>2, <2>4, DurableAssumption, SMT
  <2>6. n + 1 \in 0 .. MaxFibers + 1 /\ \A id \in 0 .. n - 1 : id \in 0 .. n + 1 - 1
        /\ n \in 0 .. n + 1 - 1
    BY <1>2, <1>14, DurableAssumption, SMT DEF FiberId
  <2>7. \A id \in ListIds(fs) : id \in 0 .. n + 1 - 1
    BY <1>14, <2>2, <2>6
  <2>8. Lined(fs, Append(ready_queue, n), current, join_waiters, n + 1)
    BY <2>2, <2>3, <2>5, <2>6, <2>7 DEF Lined
  <2> QED
    BY <1>2, <2>8 DEF LineInv, fs
<1>18. BaseInv'
  <2> DEFINE p == TotalAllocations(a)
             q == TotalAllocations(g)
  <2>1. p \in Nat /\ q \in Nat /\ p <= q /\ after.base \in 0 .. p
    BY <1>3, <1>8, <1>10, <1>11, TotalIs DEF Onward
  <2> HIDE DEF p, q
  <2>2. after.base \in 0 .. q
    BY <2>1, SMT
  <2> QED
    BY <1>2, <1>9, <2>2 DEF BaseInv, q
<1> QED
  BY <1>0, <1>2, <1>16, <1>17, <1>18 DEF RunInv

\* An object for a value.
LEMMA ObjectFor ==
    ASSUME NEW T, NEW a, NEW ctl, NEW fs, NEW cur, NEW e, NEW k, NEW gs,
           Whole(T, a, ctl, e, k, gs, fs, cur), NEW v \in ValuesIn(T)
    PROVE  LET g == Changed(a, "objects", Alloc(a.objects, ObjectWith(v))) IN
           \E U : /\ Onward(a, g, T, U) /\ Whole(U, g, ctl, e, k, gs, fs, cur)
                  /\ Obj(NextId(a.objects)) \in ValuesIn(U)
<1> DEFINE x == ObjectWith(v)
           g == Changed(a, "objects", Alloc(a.objects, x))
<1>1. x \in ObjectsIn(T) /\ Shaped(a) /\ Sound(a, T)
  BY ObjectsMade DEF ObjectMade, Whole
<1> HIDE DEF x, g
<1>2. PICK U : Onward(a, g, T, U) /\ NextId(a.objects) \in U.objects
  BY <1>1, MoreObjects DEF g
<1>3. Whole(U, g, ctl, e, k, gs, fs, cur)
  BY <1>2, WholeOnward
<1>4. Obj(NextId(a.objects)) \in ValuesIn(U)
  BY <1>2, ValueMade
<1> QED
  BY <1>2, <1>3, <1>4 DEF g, x

\* A fiber that is finished is in no queue.
LEMMA FinishedIs ==
    ASSUME NEW V, NEW fs \in Seq(V), OnePerId(fs), NEW at \in DOMAIN fs,
           fs[at].f.status.is = "Completed"
    PROVE  fs[at].f.id \notin Alive(fs)
<1> SUFFICES ASSUME fs[at].f.id \in Alive(fs) PROVE FALSE
  OBVIOUS
<1>1. PlaceOf(fs, fs[at].f.id) = at
  BY PlaceOfOne
<1> QED
  BY <1>1, AliveIs

\* A join of a finished fiber keeps the invariant.
LEMMA JoinFinishedKeeps ==
    ASSUME RunInv, Suspended(Join), NEW at \in DOMAIN fibers,
           fibers[at].f.status.is = "Completed",
           heap' = [AtEffect.heap EXCEPT !.objects = Alloc(@, ObjectWith(fibers[at].f.status.f.v))],
           control' = ValueOf(Obj(NextId(AtEffect.heap.objects))),
           fibers' = Removed(fibers, fibers[at].f.id),
           alloc_snapshot' = AtEffect.base,
           UNCHANGED <<current, join_waiters, family, env, cont, globals, ready_queue,
                       next_fiber_id, file>>
    PROVE  RunInv'
<1> DEFINE after == AtEffect
           a == after.heap
           v == fibers[at].f.status.f.v
           g == Changed(a, "objects", Alloc(a.objects, ObjectWith(v)))
           id == fibers[at].f.id
           new == Obj(NextId(a.objects))
<1>0. HeapInv /\ LineInv /\ BaseInv /\ family \in Families
  BY DEF RunInv
<1>1. PICK S : Whole(S, heap, control, env, cont, globals, fibers, current)
  BY <1>0 DEF HeapInv
<1>3. /\ current # <<>> /\ after.base \in 0 .. TotalAllocations(a)
      /\ \E T : Whole(T, a, Taken, env, cont, globals, fibers, current)
  BY <1>0, <1>1, AtEffectIs
<1>4. PICK T : Whole(T, a, Taken, env, cont, globals, fibers, current)
  BY <1>3
<1>5. heap' = g /\ control' = ValueOf(new)
  <2>1. heap' = [a EXCEPT !.objects = Alloc(a.objects, ObjectWith(v))]
    BY Zenon
  <2> QED
    BY <2>1, Zenon DEF Changed
<1>50. fibers' = Removed(fibers, id) /\ alloc_snapshot' = after.base
  OBVIOUS
<1> HIDE DEF after, a
<1>6. v \in ValuesIn(T)
  <2>1. fibers[at].f.status \in StatusesIn(T)
    BY <1>4 DEF Whole, Relied
  <2> QED
    BY <2>1, StatusShape DEF Ready, Running, Thing
<1> HIDE DEF v
<1>7. PICK U : /\ Onward(a, g, T, U) /\ Whole(U, g, Taken, env, cont, globals, fibers, current)
               /\ new \in ValuesIn(U)
  BY <1>4, <1>6, ObjectFor
<1> HIDE DEF g, new
<1>8. Whole(U, g, ValueOf(new), env, cont, globals, fibers, current)
  <2>1. env \in U.envs /\ cont \in U.conts /\ globals \in UpToOne(BindingsIn(U))
    BY <1>3, <1>7 DEF Whole
  <2> QED
    BY <1>7, <2>1, ValueOfIn, WholeSet
<1>9. id \in ListIds(fibers) /\ OnePerId(fibers)
  BY <1>0, LineIs DEF ListIds
<1>10. Whole(U, g, ValueOf(new), env, cont, globals, Removed(fibers, id), current)
  BY <1>8, <1>9, WholeRemoved
<1>11. HeapInv'
  BY <1>5, <1>10, <1>50 DEF HeapInv
<1>12. LineInv'
  <2> DEFINE fs == Removed(fibers, id)
  <2>1. fibers \in Seq(FibersIn(Ranges(g)))
    BY <1>7 DEF Whole
  <2>2. /\ Len(fs) = Len(fibers) - 1 /\ OnePerId(fs) /\ ListIds(fs) = ListIds(fibers) \ {id}
        /\ Alive(fs) = Alive(fibers) \ {id}
    BY <1>9, <2>1, RemovedIs
  <2> HIDE DEF fs
  <2>3. Alive(fs) = Alive(fibers)
    <3>1. id \notin Alive(fibers)
      BY <1>9, <2>1, FinishedIs
    <3> QED
      BY <2>2, <3>1
  <2>4. Len(fibers) \in Nat /\ Len(fibers) <= MaxFibers
    BY <1>0, <2>1, LineIs
  <2>5. Len(fs) <= MaxFibers
    BY <2>2, <2>4, DurableAssumption, SMT
  <2>6. Lined(fs, ready_queue, current, join_waiters, next_fiber_id)
    BY <1>0, <2>2, <2>3, <2>5, LineIs DEF Lined
  <2> QED
    BY <1>50, <2>6 DEF LineInv, fs
<1>13. BaseInv'
  <2> DEFINE p == TotalAllocations(a)
             q == TotalAllocations(g)
  <2>1. p \in Nat /\ q \in Nat /\ p <= q /\ after.base \in 0 .. p
    BY <1>3, <1>4, <1>7, TotalIs DEF Onward, Whole
  <2> HIDE DEF p, q
  <2>2. after.base \in 0 .. q
    BY <2>1, SMT
  <2> QED
    BY <1>5, <1>50, <2>2 DEF BaseInv, q
<1> QED
  BY <1>0, <1>11, <1>12, <1>13 DEF RunInv

\* A join that waits keeps the invariant.
LEMMA JoinWaitKeeps ==
    ASSUME RunInv, Suspended(Join), NEW at \in DOMAIN fibers,
           heap' = AtEffect.heap, control' = Taken, fibers' = SavedFibers(Taken),
           join_waiters' = [join_waiters EXCEPT ![fibers[at].f.id] = Append(@, current[1])],
           current' = <<>>, alloc_snapshot' = AtEffect.base,
           UNCHANGED <<family, env, cont, globals, ready_queue, next_fiber_id, file>>
    PROVE  RunInv'
<1> DEFINE after == AtEffect
           a == after.heap
           id == fibers[at].f.id
<1>0. HeapInv /\ LineInv /\ BaseInv /\ family \in Families
  BY DEF RunInv
<1>1. PICK S : Whole(S, heap, control, env, cont, globals, fibers, current)
  BY <1>0 DEF HeapInv
<1>3. /\ current # <<>> /\ after.base \in 0 .. TotalAllocations(a)
             /\ Taken \in ControlsIn(Ranges(heap))
      /\ \E T : Whole(T, a, Taken, env, cont, globals, fibers, current)
  BY <1>0, <1>1, AtEffectIs
<1>4. PICK T : Whole(T, a, Taken, env, cont, globals, fibers, current)
  BY <1>3
<1>5. heap' = a /\ alloc_snapshot' = after.base
  OBVIOUS
<1> HIDE DEF after, a
<1>6. Whole(T, a, Taken, env, cont, globals, SavedFibers(Taken), <<>>)
  BY <1>0, <1>3, <1>4, SavedWhole
<1>7. HeapInv'
  BY <1>5, <1>6 DEF HeapInv
<1>8. id \in FiberId
  <2>1. id \in ListIds(fibers)
    BY DEF ListIds
  <2> QED
    BY <1>0, <2>1, LineIs
<1>9. Waits(Alive(fibers), ready_queue, <<>>, join_waiters')
  BY <1>0, <1>3, <1>8, LineIs, JoinWaits
<1>10. LineInv'
  BY <1>0, <1>3, <1>9, SavedLined DEF LineInv
<1>11. BaseInv'
  BY <1>3, <1>5 DEF BaseInv
<1> QED
  BY <1>0, <1>7, <1>10, <1>11 DEF RunInv

\* A join keeps the invariant.
LEMMA HandleJoinKeeps == ASSUME RunInv, HandleJoin PROVE RunInv'
<1>1. /\ Suspended(Join)
      /\ UNCHANGED <<family, env, cont, globals, ready_queue, next_fiber_id, file>>
  BY DEF HandleJoin
<1>2. PICK at \in DOMAIN fibers : LET after == AtEffect  target == fibers[at].f IN
        /\ alloc_snapshot' = after.base
        /\ \/ /\ target.status.is = "Completed"
              /\ heap' = [after.heap EXCEPT !.objects = Alloc(@, ObjectWith(target.status.f.v))]
              /\ control' = ValueOf(Obj(NextId(after.heap.objects)))
              /\ fibers' = Removed(fibers, target.id)
              /\ UNCHANGED <<current, join_waiters>>
           \/ /\ heap' = after.heap
              /\ control' = Taken
              /\ fibers' = SavedFibers(Taken)
              /\ join_waiters' = [join_waiters EXCEPT ![target.id] = Append(@, current[1])]
              /\ current' = <<>>
  BY Zenon DEF HandleJoin
<1> QED
  BY <1>1, <1>2, JoinFinishedKeeps, JoinWaitKeeps

-----------------------------------------------------------------------------
(* A fiber completes.                                                      *)

AnyObjects == [slots : Seq(ObjectsIn(AllIds)), free_list : Seq(Nat), allocations : Nat]
AnyFibers == Seq(FibersIn(AllIds))

\* The objects of a heap are among those there could be.
LEMMA ObjectsAre ==
    ASSUME NEW h, Shaped(h)
    PROVE  h.objects \in AnyObjects
<1>1. WellFormed(h["objects"], ThingsIn(Ranges(h))["objects"])
  BY DEF Shaped, Arenas
<1>2. Ranges(h) \in IdSets
  BY RangesAre
<1>3. ObjectsIn(Ranges(h)) \subseteq ObjectsIn(AllIds)
  BY <1>2, AmongAll, ObjectMore
<1>4. WellFormed(h.objects, ObjectsIn(Ranges(h)))
  BY <1>1 DEF ThingsIn
<1> QED
  BY <1>3, <1>4, WellFormedMore DEF WellFormed, AnyObjects

\* The fibers of a heap are among those there could be.
LEMMA FibersAre ==
    ASSUME NEW h, Shaped(h), NEW fs \in Seq(FibersIn(Ranges(h)))
    PROVE  fs \in AnyFibers
<1>1. Ranges(h) \in IdSets
  BY RangesAre
<1>2. FibersIn(Ranges(h)) \subseteq FibersIn(AllIds)
  BY <1>1, AmongAll, FiberMore
<1> QED
  BY <1>2, SeqMore DEF AnyFibers

\* While the joiners are woken: the fiber has its result v, which is still sound.
Waking(S, h, ctl, e, k, gs, fs, objects, now, v, id) ==
    LET g == Changed(h, "objects", objects) IN
    /\ \E T : Onward(h, g, S, T) /\ Whole(T, g, ctl, e, k, gs, now, <<>>) /\ v \in ValuesIn(T)
    /\ OnePerId(now) /\ Len(now) = Len(fs) /\ ListIds(now) = ListIds(fs)
           /\ Alive(now) = Alive(fs) \ {id}

\* The finished fiber.
LEMMA FinishedStarts ==
    ASSUME HeapInv, LineInv, current # <<>>, NEW v,
           NEW S, Whole(S, heap, control, env, cont, globals, fibers, current), v \in ValuesIn(S)
    PROVE  Waking(S, heap, control, env, cont, globals, fibers, heap.objects,
                  Finished(current[1], v), v, current[1])
<1> DEFINE id == current[1]
           at == PlaceOf(fibers, id)
           x == fibers[at]
           y == Fiber(id, x.f.control, x.f.cont, x.f.env, Completed(v))
           fs == Finished(id, v)
<1>1. /\ current = <<id>> /\ id \in Alive(fibers) /\ id \in Nat /\ at \in DOMAIN fibers
             /\ x.f.id = id
  BY SelectedIs
<1>2. fibers \in Seq(FibersIn(Ranges(heap))) /\ OnePerId(fibers) /\ Shaped(heap) /\ Sound(heap, S)
  BY LineIs DEF Whole
<1>3. fs = [fibers EXCEPT ![at].f.status = Completed(v)]
  BY DEF Finished
<1> HIDE DEF id, at, x, fs
<1>4. x \in FibersIn(Ranges(heap)) /\ x = fibers[at]
  BY <1>1, <1>2 DEF x
<1>5. /\ x.f.control \in ControlsIn(Ranges(heap)) /\ x.f.cont \in Ranges(heap).conts
      /\ x.f.env \in Ranges(heap).envs
      /\ x = Fiber(x.f.id, x.f.control, x.f.cont, x.f.env, x.f.status)
  BY <1>4, FiberShape
<1>6. [x EXCEPT !.f.status = Completed(v)] = y
  BY <1>1, <1>5 DEF Fiber, Thing
<1>7. fs = Replaced(fibers, at, y)
  BY <1>3, <1>4, <1>6, Zenon DEF Replaced
<1>8. v \in ValuesIn(Ranges(heap))
  BY <1>2, SoundWithin, ValueMore
<1>9. y \in FibersIn(Ranges(heap))
  BY <1>1, <1>5, <1>8, StatusMade, FiberMade
<1>10. y.f.id = id /\ y.f.status = Completed(v) /\ y.f.status.is = "Completed"
  BY DEF Fiber, Thing, Completed
<1> HIDE DEF y
<1>11. Relied(S, y, <<>>)
  BY <1>10, StatusMade DEF Relied
<1>12. Whole(S, heap, control, env, cont, globals, fs, <<>>)
  BY <1>1, <1>2, <1>4, <1>7, <1>9, <1>10, <1>11, WholeReplaced
<1>13. /\ OnePerId(fs) /\ Len(fs) = Len(fibers) /\ ListIds(fs) = ListIds(fibers)
       /\ Alive(fs) = (Alive(fibers) \ {id}) \cup {}
  BY <1>1, <1>2, <1>4, <1>7, <1>9, <1>10, ReplacedIs
<1>14. Changed(heap, "objects", heap.objects) = heap /\ Onward(heap, heap, S, S)
  <2>1. "objects" \in Arenas /\ heap["objects"] = heap.objects
    BY DEF Arenas
  <2> QED
    BY <1>2, <2>1, ChangedAgain, OnwardSelf
<1>15. Alive(fs) = Alive(fibers) \ {id}
  BY <1>13
<1> QED
  BY <1>12, <1>13, <1>14, <1>15 DEF Waking, id, fs

\* One joiner more.
WokenOne(fs, w, ok) ==
    LET place == PlaceOf(fs, w) IN
    [fs EXCEPT ![place] = Fiber(w, ok, fs[place].f.cont, fs[place].f.env, Ready)]

\* Waking one more fiber allocates its object and keeps what was in use.
LEMMA WakingGoesOn ==
    ASSUME NEW S, NEW h, Shaped(h), Sound(h, S), NEW ctl, NEW e, NEW k, NEW gs, NEW fs,
           NEW objects, NEW now, NEW v, NEW id,
           Waking(S, h, ctl, e, k, gs, fs, objects, now, v, id),
           NEW w \in Nat, w \in Alive(fs), w # id
    PROVE  Waking(S, h, ctl, e, k, gs, fs, Alloc(objects, ObjectWith(v)),
                  WokenOne(now, w, ValueOf(Obj(NextId(objects)))), v, id)
<1> DEFINE g == Changed(h, "objects", objects)
           more == Alloc(objects, ObjectWith(v))
           f == Changed(h, "objects", more)
           ok == ValueOf(Obj(NextId(objects)))
           at == PlaceOf(now, w)
           x == now[at]
           y == Fiber(w, ok, x.f.cont, x.f.env, Ready)
           new == WokenOne(now, w, ok)
<1>1. /\ OnePerId(now) /\ Len(now) = Len(fs) /\ ListIds(now) = ListIds(fs)
             /\ Alive(now) = Alive(fs) \ {id}
      /\ \E T : Onward(h, g, S, T) /\ Whole(T, g, ctl, e, k, gs, now, <<>>) /\ v \in ValuesIn(T)
  BY DEF Waking
<1>2. PICK T : Onward(h, g, S, T) /\ Whole(T, g, ctl, e, k, gs, now, <<>>) /\ v \in ValuesIn(T)
  BY <1>1
<1>3. g.objects = objects /\ Changed(g, "objects", more) = f
  <2>1. "objects" \in Arenas
    BY DEF Arenas
  <2>2. g["objects"] = objects /\ Changed(g, "objects", more) = f
    BY <2>1, ChangedAgain
  <2> QED
    BY <2>2
<1>4. new = Replaced(now, at, y)
  BY Zenon DEF WokenOne, Replaced
<1> HIDE DEF g, f, at, x, new
<1>5. PICK U : /\ Onward(g, f, T, U) /\ Whole(U, f, ctl, e, k, gs, now, <<>>)
               /\ Obj(NextId(objects)) \in ValuesIn(U)
  BY <1>2, <1>3, ObjectFor
<1>6. Onward(h, f, S, U) /\ v \in ValuesIn(U)
  BY <1>2, <1>5, OnwardThen, ValueMore DEF Onward
<1>7. ok \in ControlsIn(U)
  BY <1>5, ValueOfIn
<1> HIDE DEF ok, more
<1>8. now \in Seq(FibersIn(Ranges(f)))
  BY <1>5 DEF Whole
<1>9. at \in DOMAIN now /\ x.f.id = w /\ x.f.status.is # "Completed" /\ x = now[at]
  BY <1>1, <1>8, AliveIs DEF at, x
<1>10. Relied(U, x, <<>>)
  BY <1>5, <1>9 DEF Whole
<1>11. <<x.f.id>> # <<>>
  BY SMT
<1>12. x.f.cont \in U.conts /\ x.f.env \in U.envs
  BY <1>9, <1>10, <1>11 DEF Relied
<1>13. y \in FibersIn(Ranges(f))
  <2>1. y \in FibersIn(U)
    BY <1>7, <1>12, StatusMade, FiberMade
  <2>2. Within(U, Ranges(f))
    BY <1>5, SoundWithin DEF Whole
  <2> HIDE DEF y
  <2> QED
    BY <2>1, <2>2, FiberMore
<1>14. y.f.id = w /\ y.f.status.is # "Completed" /\ y.f.control = ok /\ y.f.cont = x.f.cont
       /\ y.f.env = x.f.env
  BY DEF Fiber, Thing, Ready
<1> HIDE DEF y
<1>15. Relied(U, y, <<>>)
  BY <1>7, <1>12, <1>14 DEF Relied
<1>16. Whole(U, f, ctl, e, k, gs, new, <<>>)
  <2>1. y.f.id = now[at].f.id
    BY <1>9, <1>14
  <2> QED
    BY <1>1, <1>4, <1>5, <1>9, <1>13, <1>15, <2>1, WholeReplaced
<1>17. /\ OnePerId(new) /\ Len(new) = Len(now) /\ ListIds(new) = ListIds(now)
       /\ Alive(new) = (Alive(now) \ {w}) \cup {w}
  <2>1. y.f.id = now[at].f.id
    BY <1>9, <1>14
  <2> QED
    BY <1>1, <1>4, <1>8, <1>9, <1>13, <1>14, <2>1, ReplacedIs
<1>18. Alive(new) = Alive(fs) \ {id}
  BY <1>1, <1>17
<1> QED
  BY <1>1, <1>6, <1>16, <1>17, <1>18 DEF Waking, f, more, ok, new

\* Being among those that were woken.
LEMMA WakingIn ==
    ASSUME NEW S, NEW h, Shaped(h), NEW ctl, NEW e, NEW k, NEW gs, NEW fs,
           NEW objects, NEW now, NEW v, NEW id,
           Waking(S, h, ctl, e, k, gs, fs, objects, now, v, id)
    PROVE  objects \in AnyObjects /\ now \in AnyFibers
<1> DEFINE g == Changed(h, "objects", objects)
<1>1. PICK T : Shaped(g) /\ Whole(T, g, ctl, e, k, gs, now, <<>>)
  BY DEF Waking, Whole
<1>2. g.objects = objects
  <2>1. "objects" \in Arenas
    BY DEF Arenas
  <2> QED
    BY <2>1, ChangedAgain
<1> HIDE DEF g
<1> QED
  BY <1>1, <1>2, ObjectsAre, FibersAre DEF Whole

\* After all joiners were woken.
LEMMA WokenIs ==
    ASSUME HeapInv, LineInv, current # <<>>, NEW v,
           NEW S, Whole(S, heap, control, env, cont, globals, fibers, current), v \in ValuesIn(S)
    PROVE  LET id == current[1]
               done == Woken(id, v, join_waiters[id]) IN
           Waking(S, heap, control, env, cont, globals, fibers, done.objects, done.fibers, v, id)
<1> DEFINE id == current[1]
           ws == join_waiters[id]
           N == Len(ws)
           done == Woken(id, v, ws)
           base == [objects |-> heap.objects, fibers |-> Finished(id, v)]
           Next1(n, s) ==
               [objects |-> Alloc(s.objects, ObjectWith(v)),
                fibers |-> WokenOne(s.fibers, ws[n], ValueOf(Obj(NextId(s.objects))))]
           Wakes(u) == u = [n \in 0 .. N |-> IF n = 0 THEN base ELSE Next1(n, u[n - 1])]
           g == CHOOSE u : Wakes(u)
           States == [objects : AnyObjects, fibers : AnyFibers]
           IsWaking(objects, now) ==
               Waking(S, heap, control, env, cont, globals, fibers, objects, now, v, id)
           Good == {s \in States : IsWaking(s.objects, s.fibers)}
           In == [n \in 0 .. N |-> Good]
           step == [p \in (1 .. N) \X Good |-> Next1(p[1], p[2])]
<1>1. /\ ws \in Seq(Alive(fibers)) /\ id \in Nat /\ Shaped(heap) /\ Sound(heap, S)
      /\ \A n \in 1 .. N : ws[n] # id
  <2>1. id \in FiberId /\ current = <<id>> /\ id \in Nat
    BY SelectedIs
  <2>2. ws \in Seq(Alive(fibers)) /\ Apart(ws, current)
    BY <2>1, LineIs DEF Waits
  <2>3. Range(current) = {id}
    <3> DEFINE x == id
    <3>1. x \in Nat /\ current = <<x>>
      BY <2>1
    <3> HIDE DEF x
    <3>2. Range(current) = {x}
      BY <3>1, Single
    <3> QED
      BY <3>2 DEF x
  <2> HIDE DEF id, ws
  <2> DEFINE A == Alive(fibers)
  <2> HIDE DEF A
  <2>35. DOMAIN ws = 1 .. N
    <3>1. ws \in Seq(A)
      BY <2>2 DEF A
    <3> QED
      BY <3>1
  <2>4. \A n \in 1 .. N : ws[n] # id
    BY <2>2, <2>3, <2>35 DEF Apart, Range
  <2> QED
    BY <2>1, <2>2, <2>4 DEF Whole
<1>2. N \in Nat /\ \A n \in 1 .. N : ws[n] \in Alive(fibers) /\ ws[n] # id /\ ws[n] \in Nat
  <2>1. N \in Nat /\ \A n \in 1 .. N : ws[n] \in Alive(fibers)
    BY <1>1
  <2>2. Alive(fibers) \subseteq Nat
    <3>1. fibers \in Seq(FibersIn(Ranges(heap)))
      BY DEF Whole
    <3>2. \A x \in Alive(fibers) : x \in ListIds(fibers)
      BY <3>1, LineIs, AliveIs
    <3> QED
      BY <3>2, LineIs
  <2> QED
    BY <1>1, <2>1, <2>2
<1>3. done = g[N]
  BY Zenon DEF Woken, WokenOne
<1>4. IsWaking(heap.objects, Finished(id, v))
  BY FinishedStarts
<1> HIDE DEF IsWaking
<1>5. \A objects, now : IsWaking(objects, now) => objects \in AnyObjects /\ now \in AnyFibers
  BY <1>1, WakingIn DEF IsWaking
<1>6. ASSUME NEW n \in 1 .. N, NEW s, IsWaking(s.objects, s.fibers)
      PROVE  /\ Next1(n, s) \in States
             /\ IsWaking(Next1(n, s).objects, Next1(n, s).fibers)
  <2> DEFINE w == ws[n]
             objects == Alloc(s.objects, ObjectWith(v))
             now == WokenOne(s.fibers, w, ValueOf(Obj(NextId(s.objects))))
  <2>1. w \in Alive(fibers) /\ w # id /\ w \in Nat
    BY <1>2
  <2>2. Next1(n, s) = [objects |-> objects, fibers |-> now]
    OBVIOUS
  <2> HIDE DEF w, id
  <2>3. IsWaking(objects, now)
    BY <1>1, <1>6, <2>1, WakingGoesOn DEF IsWaking
  <2>4. objects \in AnyObjects /\ now \in AnyFibers
    BY <1>5, <2>3
  <2> HIDE DEF objects, now, Next1
  <2> QED
    BY <2>2, <2>3, <2>4
<1> HIDE DEF id, ws, done
<1>7. base \in Good
  <2>1. base.objects = heap.objects /\ base.fibers = Finished(id, v)
    OBVIOUS
  <2>2. heap.objects \in AnyObjects /\ Finished(id, v) \in AnyFibers
    BY <1>4, <1>5
  <2>3. base \in States
    BY <2>2
  <2> HIDE DEF base, States
  <2> QED
    BY <1>4, <2>1, <2>3
<1>8. ASSUME NEW n \in 1 .. N, NEW s \in Good PROVE Next1(n, s) \in Good
  <2>1. IsWaking(s.objects, s.fibers)
    OBVIOUS
  <2>2. Next1(n, s) \in States /\ IsWaking(Next1(n, s).objects, Next1(n, s).fibers)
    BY <1>6, <2>1
  <2> HIDE DEF Next1, States
  <2> QED
    BY <2>2
<1>9. \A s \in Good : IsWaking(s.objects, s.fibers)
  OBVIOUS
<1> HIDE DEF Good
<1>10. /\ 0 \in 0 .. N /\ N \in 0 .. N
       /\ \A n \in 1 .. N : n \in 0 .. N /\ n - 1 \in 0 .. N /\ n # 0
       /\ \A n \in 0 .. N : n # 0 => n \in 1 .. N
  BY <1>2, SMT
<1>11. ASSUME NEW n \in 1 .. N, NEW s \in In[n - 1]
       PROVE  step[<<n, s>>] = Next1(n, s) /\ Next1(n, s) \in In[n]
  <2>1. s \in Good
    BY <1>10
  <2>2. Next1(n, s) \in Good
    BY <1>8, <2>1
  <2> QED
    BY <1>10, <2>1, <2>2
<1> HIDE DEF step
<1>12. \A n \in 1 .. N : \A s \in In[n - 1] : step[<<n, s>>] \in In[n]
  BY <1>11
<1>13. PICK f : /\ f = [n \in 0 .. N |-> f[n]]
                /\ f[0] = base
                /\ \A n \in 1 .. N : f[n] = step[<<n, f[n - 1]>>]
                /\ \A n \in 0 .. N : f[n] \in In[n]
  <2>1. base \in In[0]
    BY <1>7, <1>10
  <2> HIDE DEF N, In, Next1, base
  <2>2. \E f : Stepped(f, N, base, step, In)
    BY <1>2, <1>12, <2>1, StepByStep
  <2> QED
    BY <2>2 DEF Stepped
<1> HIDE DEF Next1, base
<1>14. \A n \in 1 .. N : f[n] = Next1(n, f[n - 1])
  BY <1>10, <1>11, <1>13
<1>15. Wakes(f)
  <2>1. \A n \in 0 .. N : f[n] = IF n = 0 THEN base ELSE Next1(n, f[n - 1])
    BY <1>10, <1>13, <1>14
  <2> QED
    BY <1>13, <2>1, Zenon
<1>16. Wakes(g)
  <2> HIDE DEF Wakes
  <2> QED
    BY <1>15
<1> HIDE DEF g
<1>17. \A n \in 0 .. N : g[n] = IF n = 0 THEN base ELSE Next1(n, g[n - 1])
  BY <1>16
<1>18. f[N] = g[N]
  <2>1. f[0] = g[0]
    BY <1>10, <1>13, <1>17
  <2>2. \A n \in 1 .. N : f[n - 1] = g[n - 1] => f[n] = g[n]
    BY <1>10, <1>14, <1>17
  <2>25. N \in Nat
    BY <1>2
  <2> HIDE DEF N
  <2>3. \A n \in 0 .. N : f[n] = g[n]
    <3>1. Alike(N, f, g)
      BY <2>25, EachAlike
    <3> QED
      BY <2>1, <2>2, <3>1 DEF Alike
  <2> QED
    BY <1>2, <1>10, <2>3
<1>19. done \in Good
  BY <1>3, <1>10, <1>13, <1>18
<1>20. IsWaking(done.objects, done.fibers)
  BY <1>9, <1>19
<1>21. Waking(S, heap, control, env, cont, globals, fibers, done.objects, done.fibers, v, id)
  BY <1>20 DEF IsWaking
<1> QED
  BY <1>21, Zenon DEF done, ws, id

\* complete_current_fiber keeps the heap sound and the queues in order.
LEMMA CompleteKeeps == ASSUME RunInv, Complete PROVE RunInv'
<1> DEFINE id == current[1]
           ws == join_waiters[id]
           done == Woken(id, Given, ws)
           g == Changed(heap, "objects", done.objects)
<1>0. HeapInv /\ LineInv /\ BaseInv /\ family \in Families
  BY DEF RunInv
<1>1. PICK S : Whole(S, heap, control, env, cont, globals, fibers, current)
  BY <1>0 DEF HeapInv
<1>2. /\ current # <<>> /\ control.is = "Halted"
      /\ heap' = [heap EXCEPT !.objects = done.objects]
      /\ fibers' = IF ws = <<>> THEN done.fibers ELSE Removed(done.fibers, id)
      /\ ready_queue' = ready_queue \o ws
      /\ join_waiters' = [join_waiters EXCEPT ![id] = <<>>]
      /\ current' = <<>>
      /\ UNCHANGED <<family, control, env, cont, globals, next_fiber_id, alloc_snapshot, file>>
  BY DEF Complete, Works
<1>3. Given \in ValuesIn(S)
  <2>1. control \in ControlsIn(S)
    BY <1>1, <1>2 DEF Whole
  <2> QED
    BY <1>2, <2>1, ControlShape DEF Given
<1>4. Waking(S, heap, control, env, cont, globals, fibers, done.objects, done.fibers, Given, id)
  BY <1>0, <1>1, <1>2, <1>3, WokenIs
<1>5. heap' = g
  BY <1>2, Zenon DEF Changed
<1>6. /\ current = <<id>> /\ id \in Alive(fibers) /\ id \in FiberId /\ id \in ListIds(fibers)
      /\ OnePerId(fibers) /\ Len(fibers) <= MaxFibers
  <2>1. current = <<id>> /\ id \in Alive(fibers) /\ id \in FiberId
    BY <1>0, <1>2, SelectedIs
  <2>2. fibers \in Seq(FibersIn(Ranges(heap)))
    BY <1>1 DEF Whole
  <2> QED
    BY <1>0, <2>1, <2>2, LineIs, AliveIs
<1>7. Waits(Alive(fibers) \ {id}, ready_queue \o ws, <<>>, [join_waiters EXCEPT ![id] = <<>>])
  BY <1>0, <1>2, <1>6, LineIs, CompleteWaits
<1> HIDE DEF id, ws, done
<1> DEFINE fs == done.fibers
<1>8. /\ \E T : Onward(heap, g, S, T) /\ Whole(T, g, control, env, cont, globals, fs, <<>>)
      /\ OnePerId(fs) /\ Len(fs) = Len(fibers) /\ ListIds(fs) = ListIds(fibers)
             /\ Alive(fs) = Alive(fibers) \ {id}
  BY <1>4 DEF Waking
<1> HIDE DEF g, fs
<1>9. PICK T : Onward(heap, g, S, T) /\ Whole(T, g, control, env, cont, globals, fs, <<>>)
  BY <1>8
<1>10. Len(fs) \in Nat /\ fs \in Seq(FibersIn(Ranges(g)))
  BY <1>9 DEF Whole
<1>11. /\ Whole(T, g, control, env, cont, globals, fibers', <<>>)
       /\ OnePerId(fibers') /\ Len(fibers') <= MaxFibers
              /\ ListIds(fibers') \subseteq ListIds(fibers)
       /\ Alive(fibers') = Alive(fibers) \ {id}
  <2>1. CASE ws = <<>>
    <3>1. fibers' = fs
      BY <1>2, <2>1 DEF fs
    <3> QED
      BY <1>6, <1>8, <1>9, <3>1
  <2>2. CASE ws # <<>>
    <3> DEFINE rs == Removed(fs, id)
    <3>1. fibers' = rs
      BY <1>2, <2>2 DEF fs
    <3>2. id \in ListIds(fs)
      BY <1>6, <1>8
    <3>3. /\ Len(rs) = Len(fs) - 1 /\ OnePerId(rs) /\ ListIds(rs) = ListIds(fs) \ {id}
          /\ Alive(rs) = Alive(fs) \ {id}
      BY <1>8, <1>10, <3>2, RemovedIs
    <3>4. Whole(T, g, control, env, cont, globals, rs, <<>>)
      BY <1>8, <1>9, <3>2, WholeRemoved
    <3> HIDE DEF rs
    <3>5. Len(rs) <= MaxFibers
      <4>1. Len(fs) \in Nat /\ Len(fs) <= MaxFibers
        BY <1>6, <1>8, <1>10
      <4> QED
        BY <3>3, <4>1, DurableAssumption, SMT
    <3>6. Alive(rs) = Alive(fibers) \ {id} /\ ListIds(rs) \subseteq ListIds(fibers)
      BY <1>8, <3>3
    <3> QED
      BY <3>1, <3>3, <3>4, <3>5, <3>6
  <2> QED
    BY <2>1, <2>2
<1>12. HeapInv'
  BY <1>2, <1>5, <1>11 DEF HeapInv
<1>13. LineInv'
  <2>1. /\ next_fiber_id \in 0 .. MaxFibers + 1
        /\ \A x \in ListIds(fibers') : x \in 0 .. next_fiber_id - 1
    BY <1>0, <1>11 DEF LineInv, Lined
  <2>2. Waits(Alive(fibers'), ready_queue', current', join_waiters')
    BY <1>2, <1>7, <1>11
  <2> QED
    BY <1>2, <1>11, <2>1, <2>2 DEF LineInv, Lined
<1>14. BaseInv'
  <2>1. Shaped(g) /\ TotalAllocations(heap) <= TotalAllocations(g) /\ Shaped(heap)
    BY <1>1, <1>9 DEF Onward, Whole
  <2>2. alloc_snapshot \in 0 .. TotalAllocations(g)
    BY <1>0, <2>1, BaseStays
  <2> QED
    BY <1>2, <1>5, <2>2 DEF BaseInv
<1> QED
  BY <1>0, <1>2, <1>12, <1>13, <1>14 DEF RunInv

-----------------------------------------------------------------------------
(* What a checkpoint holds.                                                *)

\* A state a runtime can go on from: whole, with no fiber selected.
Startable(h, ctl, e, k, gs, fs, q, w, next) ==
    /\ \E S : Whole(S, h, ctl, e, k, gs, fs, <<>>)
    /\ Lined(fs, q, <<>>, w, next)

\* The bytes of a checkpoint are the image, put.
LEMMA BytesAre ==
    ASSUME NEW h, Shaped(h), NEW ctl, NEW e, NEW k, NEW gs, NEW fs, NEW q, NEW w, NEW next
    PROVE  Bytes(h, ctl, e, k, gs, fs, q, w, next)
             = Put(Written, One("Runtime"),
                   Thing("Runtime", Image(h, ctl, e, k, gs, fs, q, WaitersList(w), next)))
<1> DEFINE arenas == [arena \in DOMAIN h |-> Thing("Arena", h[arena])]
<1>1. /\ "objects" \in DOMAIN h /\ "envs" \in DOMAIN h /\ "conts" \in DOMAIN h
      /\ "handlers" \in DOMAIN h
  <2>1. h = [objects |-> h.objects, envs |-> h.envs, conts |-> h.conts, handlers |-> h.handlers]
    BY DEF Shaped
  <2> QED
    BY <2>1
<1>2. /\ arenas.objects = Thing("Arena", h.objects) /\ arenas.envs = Thing("Arena", h.envs)
      /\ arenas.conts = Thing("Arena", h.conts) /\ arenas.handlers = Thing("Arena", h.handlers)
  BY <1>1
<1>3. WaitersList(w) = SetToSeq({Thing("Waiters", [fiber |-> id, waiters |-> w[id]]) :
                                    id \in {j \in DOMAIN w : w[j] # <<>>}})
  BY DEF WaitersList, Waited, WaitersOf
<1> QED
  BY <1>2, <1>3, Zenon DEF Bytes, Image, EmptyAst, ListNames, Unlimited

\* The bytes of a checkpoint are read as the image of the runtime.
LEMMA BytesRead ==
    ASSUME NEW h, NEW ctl, NEW e, NEW k, NEW gs, NEW fs, NEW q, NEW w, NEW next,
           Startable(h, ctl, e, k, gs, fs, q, w, next),
           NEW bytes, bytes = Bytes(h, ctl, e, k, gs, fs, q, w, next)
    PROVE  /\ Listed(bytes) /\ ReadSnapshot(bytes).ok
           /\ IsImage(ReadSnapshot(bytes).x.f, h, ctl, e, k, gs, fs, q, WaitersList(w), next)
<1>1. PICK S : Whole(S, h, ctl, e, k, gs, fs, <<>>)
  BY DEF Startable
<1>2. Shaped(h) /\ Within4(Ranges(h), ctl, e, k, gs, fs)
  BY <1>1, WholeRanges DEF Whole
<1>3. Lined(fs, q, <<>>, w, next)
  BY DEF Startable
<1>4. Alive(fs) \subseteq Nat
  <2>1. fs \in Seq(FibersIn(Ranges(h))) /\ OnePerId(fs)
    BY <1>2, <1>3 DEF Within4, Lined
  <2>2. \A x \in Alive(fs) : x \in ListIds(fs)
    BY <2>1, AliveIs
  <2>3. \A x \in ListIds(fs) : x \in Nat
    <3>1. next \in Int /\ \A x \in ListIds(fs) : x \in 0 .. next - 1
      BY <1>3, DurableAssumption, SMT DEF Lined
    <3> QED
      BY <3>1, SMT
  <2> QED
    BY <2>2, <2>3
<1>5. q \in Seq(Nat) /\ DOMAIN w = FiberId /\ \A id \in FiberId : w[id] \in Seq(Nat)
  <2>1. q \in Seq(Alive(fs)) /\ w \in [FiberId -> Seq(Alive(fs))]
    BY <1>3 DEF Lined, Waits
  <2> DEFINE A == Alive(fs)
  <2>2. A \subseteq Nat /\ q \in Seq(A) /\ w \in [FiberId -> Seq(A)]
    BY <1>4, <2>1
  <2> HIDE DEF A
  <2>3. q \in Seq(Nat) /\ \A id \in FiberId : w[id] \in Seq(Nat)
    <3>1. \A s \in Seq(A) : s \in Seq(Nat)
      BY <2>2, SeqMore
    <3> QED
      BY <2>2, <3>1
  <2> QED
    BY <2>2, <2>3
<1> DEFINE js == WaitersList(w)
           J == Waited(w)
<1>6. js \in Seq({WaitersOf(w, id) : id \in J}) /\ \A id \in J : w[id] \in Seq(Nat)
  <2>1. js \in Seq({WaitersOf(w, id) : id \in J})
    BY <1>5, WaitersListIs
  <2>2. J \subseteq FiberId
    BY <1>5 DEF Waited
  <2> QED
    BY <1>5, <2>1, <2>2
<1>7. bytes = Put(Written, One("Runtime"),
                  Thing("Runtime", Image(h, ctl, e, k, gs, fs, q, js, next)))
  BY <1>2, BytesAre
<1>8. MaxDepth >= 8
  BY DurableAssumption
<1>9. /\ ctl \in ControlsIn(Ranges(h)) /\ e \in Ranges(h).envs /\ k \in Ranges(h).conts
      /\ gs \in UpToOne(BindingsIn(Ranges(h))) /\ fs \in Seq(FibersIn(Ranges(h)))
  BY <1>2 DEF Within4
<1> HIDE DEF js, J
<1>10. /\ Listed(bytes) /\ ReadSnapshot(bytes).ok
       /\ IsImage(ReadSnapshot(bytes).x.f, h, ctl, e, k, gs, fs, q, js, next)
  BY <1>2, <1>5, <1>6, <1>7, <1>8, <1>9, ImageRead
<1> QED
  BY <1>10 DEF js

\* The list of those waited for is read as the wait lists of all fibers.
LEMMA WaitersRead ==
    ASSUME NEW rt, NEW w, w = [id \in FiberId |-> w[id]], rt.join_waiters = WaitersList(w),
           DOMAIN join_waiters = FiberId
    PROVE  WaitersIn(rt) = w
<1> DEFINE js == WaitersList(w)
           Found(id) == LET at == SelectInSeq(js, LAMBDA x : x.f.fiber = id) IN
                        IF at = 0 THEN <<>> ELSE js[at].f.waiters
<1>1. WaitersIn(rt) = [id \in FiberId |-> Found(id)]
  <2>1. rt.join_waiters = js
    OBVIOUS
  <2> QED
    BY <2>1, Zenon DEF WaitersIn
<1>2. \A id \in FiberId : Found(id) = w[id]
  <2>1. DOMAIN w = FiberId
    OBVIOUS
  <2> QED
    BY <2>1, WaitersFound
<1> HIDE DEF Found
<1> QED
  BY <1>1, <1>2

\* A run that starts from such a state.
LEMMA Restarts ==
    ASSUME NEW h, NEW ctl, NEW e, NEW k, NEW gs, NEW fs, NEW q, NEW w, NEW next,
           Startable(h, ctl, e, k, gs, fs, q, w, next),
           NEW rt, IsImage(rt, h, ctl, e, k, gs, fs, q, WaitersList(w), next), Restores(rt),
           Shaped(heap), DOMAIN join_waiters = FiberId
    PROVE  HeapInv' /\ LineInv' /\ BaseInv'
<1>1. PICK S : Whole(S, h, ctl, e, k, gs, fs, <<>>)
  BY DEF Startable
<1>2. /\ control' = ctl /\ env' = e /\ cont' = k /\ globals' = gs /\ fibers' = fs
      /\ ready_queue' = q /\ next_fiber_id' = next /\ current' = <<>>
  BY DEF Restores, IsImage
<1>3. heap' = h
  <2> DEFINE g == [arena \in DOMAIN heap |-> rt[arena].f]
  <2>1. DOMAIN heap = {"objects", "envs", "conts", "handlers"}
    <3>1. heap = [objects |-> heap.objects, envs |-> heap.envs, conts |-> heap.conts,
                  handlers |-> heap.handlers]
      BY DEF Shaped
    <3> QED
      BY <3>1
  <2>2. h = [objects |-> h.objects, envs |-> h.envs, conts |-> h.conts, handlers |-> h.handlers]
    BY <1>1 DEF Whole, Shaped
  <2>3. /\ rt["objects"].f = h.objects /\ rt["envs"].f = h.envs /\ rt["conts"].f = h.conts
        /\ rt["handlers"].f = h.handlers
    BY DEF IsImage
  <2>4. g = [objects |-> h.objects, envs |-> h.envs, conts |-> h.conts, handlers |-> h.handlers]
    BY <2>1, <2>3
  <2>5. heap' = g
    BY DEF Restores
  <2> HIDE DEF g
  <2> QED
    BY <2>2, <2>4, <2>5
<1>4. Lined(fs, q, <<>>, w, next)
  BY DEF Startable
<1>5. join_waiters' = w
  <2>1. w = [id \in FiberId |-> w[id]]
    BY <1>4 DEF Lined, Waits
  <2>2. rt.join_waiters = WaitersList(w)
    BY DEF IsImage
  <2>3. WaitersIn(rt) = w
    BY <2>1, <2>2, WaitersRead
  <2> QED
    BY <2>3 DEF Restores
<1>6. HeapInv'
  BY <1>1, <1>2, <1>3 DEF HeapInv
<1>7. LineInv'
  BY <1>2, <1>4, <1>5 DEF LineInv
<1>8. TotalAllocations(heap') \in Nat /\ alloc_snapshot' = TotalAllocations(heap')
  <2>1. TotalAllocations(h) \in Nat
    BY <1>1, TotalIs DEF Whole
  <2> QED
    BY <1>3, <2>1 DEF Restores, Baseline
<1>9. BaseInv'
  <2> DEFINE n == TotalAllocations(heap')
  <2>1. n \in Nat /\ alloc_snapshot' = n
    BY <1>8
  <2> HIDE DEF n
  <2>2. alloc_snapshot' \in 0 .. n
    BY <2>1, SMT
  <2> QED
    BY <2>2 DEF BaseInv, n
<1> QED
  BY <1>6, <1>7, <1>9

-----------------------------------------------------------------------------
(* The two files of a checkpoint.                                          *)

\* The older checkpoint, and the one of the state as it is.
FirstBytes == Bytes(NewHeap, SomeExpr, 0, 0, <<>>, <<RootFiber>>, <<0>>, NoWaiters, 1)
NowBytes == Bytes(heap, control, env, cont, globals, fibers, current \o ready_queue, join_waiters,
                  next_fiber_id)

\* A run that stopped to write: what is written could go on, and sees "restored".
Stopped ==
    /\ current # <<>>
    /\ Startable(heap, control, env, cont, globals, fibers, current \o ready_queue, join_waiters,
                 next_fiber_id)
    /\ fibers[PlaceOf(fibers, current[1])].f.control = ValueOf(Str(Restored))

\* The file at the path is the older checkpoint up to the rename, the new one after
\* it; the state stays what it was when the write began.
FileInv ==
    /\ file.at \in {"before", "torn", "written", "renamed", "past"}
    /\ file.at \in {"before", "torn", "written"} => file.path = FirstBytes
    /\ file.at \in {"torn", "written", "renamed"} => Stopped
    /\ file.at = "written" => file.tmp = NowBytes
    /\ file.at = "renamed" => file.path = NowBytes

\* The runtime a run starts with could start.
LEMMA FreshStartable ==
    Startable(NewHeap, SomeExpr, 0, 0, <<>>, <<RootFiber>>, <<0>>, NoWaiters, 1)
<1> DEFINE fs == <<RootFiber>>
           q == <<0>>
           A == {0}
<1>1. \E S : Whole(S, NewHeap, SomeExpr, 0, 0, <<>>, fs, <<>>)
  BY FreshWhole
<1>2. Len(fs) = 1 /\ DOMAIN fs = {1} /\ fs[1] = RootFiber
  BY SMT
<1>3. RootFiber.f.id = 0 /\ RootFiber.f.status.is = "Ready"
  BY DEF RootFiber, Fiber, Thing, Ready
<1> HIDE DEF fs
<1>4. OnePerId(fs) /\ ListIds(fs) = {0} /\ Alive(fs) = A
  <2>1. OnePerId(fs) /\ ListIds(fs) = {0}
    BY <1>2, <1>3 DEF OnePerId, ListIds
  <2>2. Range(fs) = {RootFiber}
    BY <1>2 DEF Range
  <2> QED
    BY <1>3, <2>1, <2>2 DEF Alive
<1>5. MaxFibers \in Nat /\ Len(fs) <= MaxFibers /\ 1 \in 0 .. MaxFibers + 1 /\ 0 \in 0 .. 1 - 1
  BY <1>2, DurableAssumption, SMT
<1>6. Waits(A, q, <<>>, NoWaiters)
  <2>1. q \in Seq(A) /\ IsInjective(q)
    BY Single
  <2>2. <<>> \in UpToOne(A) /\ <<>> \in Seq(A)
    BY SMT DEF UpToOne
  <2>3. \A id \in FiberId : NoWaiters[id] = <<>>
    BY DEF NoWaiters
  <2>4. NoWaiters \in [FiberId -> Seq(A)]
    BY <2>2 DEF NoWaiters
  <2>5. Range(<<>>) = {} /\ IsInjective(<<>>)
    BY EmptyRange
  <2>6. \A s : Apart(<<>>, s) /\ Apart(s, <<>>)
    BY <2>5 DEF Apart
  <2> HIDE DEF q, A
  <2> QED
    BY <2>1, <2>2, <2>3, <2>4, <2>5, <2>6 DEF Waits
<1>7. Lined(fs, q, <<>>, NoWaiters, 1)
  BY <1>4, <1>5, <1>6 DEF Lined
<1> QED
  BY <1>1, <1>7 DEF Startable, fs

\* A step of a process at work.
LEMMA FileStays ==
    ASSUME FileInv, file' = file, file.at \in {"before", "past"}
    PROVE  FileInv'
<1>1. file.at = "before" => file.path = FirstBytes
  BY DEF FileInv
<1>2. /\ file'.at \in {"before", "past"} /\ (file'.at = "before" => file'.path = FirstBytes)
  BY <1>1
<1> QED
  BY <1>2 DEF FileInv, FirstBytes

-----------------------------------------------------------------------------

\* A request for a snapshot keeps the invariant.
LEMMA HandleSnapshotKeeps ==
    ASSUME RunInv, FileInv, HandleSnapshot
    PROVE  RunInv' /\ FileInv'
<1> DEFINE r == ValueOf(Str(Restored))
           fs == SavedFibers(r)
           h == AtEffect.heap
           q == current \o ready_queue
<1>0. HeapInv /\ LineInv /\ BaseInv /\ family \in Families
  BY DEF RunInv
<1>1. PICK S : Whole(S, heap, control, env, cont, globals, fibers, current)
  BY <1>0 DEF HeapInv
<1>2. /\ Suspended(Snapshot) /\ file.at = "before"
      /\ heap' = h /\ alloc_snapshot' = AtEffect.base
      /\ control' = r /\ fibers' = SavedFibers(control')
      /\ UNCHANGED <<family, env, cont, globals, ready_queue, current, join_waiters, next_fiber_id>>
  BY DEF HandleSnapshot
<1>3. fibers' = fs
  BY <1>2
<1>4. PICK n : /\ n \in {0, Len(NowBytes') \div 2, Len(NowBytes')}
               /\ file' = Staged(NowBytes', n)
  <2>1. PICK bytes \in {Bytes(heap', control', env, cont, globals, fibers', current \o ready_queue,
                              join_waiters, next_fiber_id)} :
           \E n \in {0, Len(bytes) \div 2, Len(bytes)} : file' = Staged(bytes, n)
    BY DEF HandleSnapshot
  <2>2. bytes = NowBytes'
    BY <1>2, <2>1 DEF NowBytes
  <2> QED
    BY <2>1, <2>2
<1>5. /\ current # <<>> /\ AtEffect.base \in 0 .. TotalAllocations(h)
      /\ \E T : Whole(T, h, Taken, env, cont, globals, fibers, current)
  BY <1>0, <1>1, <1>2, AtEffectIs
<1>6. PICK T : Whole(T, h, Taken, env, cont, globals, fibers, current)
  BY <1>5
<1> HIDE DEF h
<1>7. \A Q : r \in ControlsIn(Q)
  <2>1. Restored \in Nat
    BY SMT DEF Restored
  <2> QED
    BY <2>1, ValueMade, ValueOfIn
<1> HIDE DEF r, fs
<1>8. Whole(T, h, r, env, cont, globals, fibers, current)
  <2>1. env \in T.envs /\ cont \in T.conts /\ globals \in UpToOne(BindingsIn(T))
    BY <1>5, <1>6 DEF Whole
  <2> QED
    BY <1>6, <1>7, <2>1, WholeSet
<1>9. /\ Whole(T, h, r, env, cont, globals, fs, current)
      /\ Whole(T, h, r, env, cont, globals, fs, <<>>)
  BY <1>0, <1>5, <1>8, SavedWhole DEF fs
<1>10. Waits(Alive(fibers), ready_queue, current, join_waiters)
  BY <1>0, LineIs
<1>11. Waits(Alive(fibers), q, <<>>, join_waiters)
  BY <1>10, CheckpointWaits
<1> HIDE DEF q
<1>12. /\ Lined(fs, ready_queue, current, join_waiters, next_fiber_id)
       /\ Lined(fs, q, <<>>, join_waiters, next_fiber_id)
  BY <1>0, <1>5, <1>7, <1>10, <1>11, SavedLined DEF fs
<1>13. HeapInv'
  BY <1>2, <1>3, <1>9 DEF HeapInv
<1>14. LineInv'
  BY <1>2, <1>3, <1>12 DEF LineInv
<1>15. BaseInv'
  BY <1>2, <1>5 DEF BaseInv
<1>16. fs[PlaceOf(fs, current[1])].f.control = r
  <2> DEFINE x == Fiber(current[1], r, cont, env, Ready)
             at == PlaceOf(fibers, current[1])
  <2>1. /\ fs = Replaced(fibers, at, x) /\ at \in DOMAIN fibers /\ fibers[at].f.id = current[1]
        /\ x.f.id = current[1] /\ x.f.control = r
    BY <1>0, <1>5, SavedIs DEF fs
  <2>2. fs \in Seq(FibersIn(Ranges(h))) /\ OnePerId(fs)
    BY <1>9, <1>12 DEF Whole, Lined
  <2> HIDE DEF x, at
  <2>3. at \in DOMAIN fs /\ fs[at] = x
    BY <2>1 DEF Replaced
  <2>4. PlaceOf(fs, current[1]) = at
    <3>1. PlaceOf(fs, fs[at].f.id) = at
      BY <2>2, <2>3, PlaceOfOne
    <3> QED
      BY <2>1, <2>3, <3>1
  <2> QED
    BY <2>1, <2>3, <2>4
<1>17. Startable(h, r, env, cont, globals, fs, q, join_waiters, next_fiber_id)
  BY <1>9, <1>12 DEF Startable
<1>18. Stopped'
  BY <1>2, <1>3, <1>5, <1>16, <1>17 DEF Stopped, q, r
<1> DEFINE bytes == NowBytes'
<1>19. Listed(bytes)
  <2>1. bytes = Bytes(h, r, env, cont, globals, fs, q, join_waiters, next_fiber_id)
    BY <1>2, <1>3 DEF NowBytes, q
  <2> HIDE DEF bytes
  <2> QED
    BY <1>17, <2>1, BytesRead
<1>20. file'.path = FirstBytes
  <2>1. file.path = FirstBytes
    BY <1>2 DEF FileInv
  <2> QED
    BY <1>4, <2>1 DEF Staged
<1>21. file'.at = WrittenTo(bytes, n) /\ file'.tmp = SubSeq(bytes, 1, n)
  BY <1>4 DEF Staged
<1> HIDE DEF bytes
<1>22. file'.at = "written" => file'.tmp = bytes
  <2>1. file'.at = "written" => n = Len(bytes)
    BY <1>21 DEF WrittenTo
  <2>2. SubSeq(bytes, 1, Len(bytes)) = bytes
    <3>1. PICK Q : bytes \in Seq(Q)
      BY <1>19 DEF Listed
    <3> QED
      BY <3>1, SMT
  <2> QED
    BY <1>21, <2>1, <2>2
<1>23. file'.at \in {"written", "torn"}
  BY <1>21 DEF WrittenTo
<1>24. FileInv'
  <2>1. FirstBytes' = FirstBytes
    BY DEF FirstBytes
  <2> QED
    BY <1>18, <1>20, <1>22, <1>23, <2>1 DEF FileInv, bytes
<1> QED
  BY <1>0, <1>2, <1>13, <1>14, <1>15, <1>24 DEF RunInv

\* The rename keeps the invariant.
LEMMA RenameKeeps ==
    ASSUME RunInv, FileInv, Rename
    PROVE  RunInv' /\ FileInv'
<1>1. /\ file.at = "written" /\ file'.at = "renamed" /\ file'.path = file.tmp
      /\ UNCHANGED <<registers, scheduler, alloc_snapshot>>
  BY DEF Rename
<1>2. file.tmp = NowBytes /\ Stopped
  BY <1>1 DEF FileInv
<1>3. NowBytes' = NowBytes /\ Stopped'
  BY <1>1, <1>2 DEF NowBytes, Stopped, registers, scheduler
<1>4. FileInv'
  BY <1>1, <1>2, <1>3 DEF FileInv
<1>5. RunInv'
  BY <1>1 DEF RunInv, HeapInv, LineInv, BaseInv, registers, scheduler
<1> QED
  BY <1>4, <1>5

\* A step of the run keeps the invariant.
LEMMA LiveKeeps ==
    ASSUME RunInv, FileInv, Live
    PROVE  RunInv' /\ FileInv'
<1> DEFINE r == ValueOf(Str(Saved))
<1>1. /\ file'.at = "past" /\ control' = r /\ current # <<>>
      /\ UNCHANGED <<family, heap, env, cont, globals, scheduler, alloc_snapshot>>
  BY DEF Live, FileInv, Stopped
<1>2. PICK S : Whole(S, heap, control, env, cont, globals, fibers, current)
  BY DEF RunInv, HeapInv
<1>3. r \in ControlsIn(S)
  <2>1. Saved \in Nat
    BY SMT DEF Saved
  <2> QED
    BY <2>1, ValueMade, ValueOfIn
<1> HIDE DEF r
<1>4. Whole(S, heap, r, env, cont, globals, fibers, current)
  <2>1. env \in S.envs /\ cont \in S.conts /\ globals \in UpToOne(BindingsIn(S))
    BY <1>1, <1>2 DEF Whole
  <2> QED
    BY <1>2, <1>3, <2>1, WholeSet
<1>5. RunInv'
  BY <1>1, <1>4 DEF RunInv, HeapInv, LineInv, BaseInv, scheduler
<1>6. FileInv'
  BY <1>1 DEF FileInv
<1> QED
  BY <1>5, <1>6

\* What a process restores: the older checkpoint or the state as it was.
LEMMA FileRead ==
    ASSUME FileInv, file.at \in {"torn", "written", "renamed"}
    PROVE  /\ ReadSnapshot(file.path).ok
           /\ file.at # "renamed" =>
                IsImage(ReadSnapshot(file.path).x.f, NewHeap, SomeExpr, 0, 0, <<>>, <<RootFiber>>,
                        <<0>>, WaitersList(NoWaiters), 1)
           /\ file.at = "renamed" =>
                IsImage(ReadSnapshot(file.path).x.f, heap, control, env, cont, globals, fibers,
                        current \o ready_queue, WaitersList(join_waiters), next_fiber_id)
<1> DEFINE bytes == file.path
<1>1. CASE file.at # "renamed"
  <2>1. bytes = FirstBytes
    BY <1>1 DEF FileInv
  <2> HIDE DEF bytes
  <2>2. /\ ReadSnapshot(bytes).ok
        /\ IsImage(ReadSnapshot(bytes).x.f, NewHeap, SomeExpr, 0, 0, <<>>, <<RootFiber>>,
                   <<0>>, WaitersList(NoWaiters), 1)
    BY <2>1, FreshStartable, BytesRead DEF FirstBytes
  <2> QED
    BY <1>1, <2>2 DEF bytes
<1>2. CASE file.at = "renamed"
  <2>1. bytes = NowBytes /\ Stopped
    BY <1>2 DEF FileInv
  <2> HIDE DEF bytes
  <2> DEFINE q == current \o ready_queue
  <2>2. Startable(heap, control, env, cont, globals, fibers, q, join_waiters, next_fiber_id)
        /\ bytes = Bytes(heap, control, env, cont, globals, fibers, q, join_waiters, next_fiber_id)
    BY <2>1 DEF NowBytes, Stopped
  <2> HIDE DEF q
  <2>3. /\ ReadSnapshot(bytes).ok
        /\ IsImage(ReadSnapshot(bytes).x.f, heap, control, env, cont, globals, fibers,
                   q, WaitersList(join_waiters), next_fiber_id)
    BY <2>2, BytesRead
  <2> QED
    BY <1>2, <2>3 DEF bytes, q
<1> QED
  BY <1>1, <1>2

\* A restart keeps the invariant.
LEMMA RestoreKeeps ==
    ASSUME RunInv, FileInv, Restore
    PROVE  RunInv' /\ FileInv'
<1> DEFINE rt == ReadSnapshot(file.path).x.f
<1>1. /\ file.at \in {"torn", "written", "renamed"} /\ Restores(rt)
      /\ family' = family /\ file'.at = "past"
  BY DEF Restore
<1>2. Shaped(heap) /\ DOMAIN join_waiters = FiberId
  <2>1. Shaped(heap)
    BY DEF RunInv, HeapInv, Whole
  <2>2. join_waiters \in [FiberId -> Seq(Alive(fibers))]
    BY DEF RunInv, LineInv, Lined, Waits
  <2> QED
    BY <2>1, <2>2
<1>3. file.at # "renamed" =>
        IsImage(rt, NewHeap, SomeExpr, 0, 0, <<>>, <<RootFiber>>, <<0>>, WaitersList(NoWaiters), 1)
  BY <1>1, FileRead
<1>4. file.at = "renamed" =>
        IsImage(rt, heap, control, env, cont, globals, fibers, current \o ready_queue,
                WaitersList(join_waiters), next_fiber_id)
  BY <1>1, FileRead
<1> HIDE DEF rt
<1>5. HeapInv' /\ LineInv' /\ BaseInv'
  <2>1. CASE file.at # "renamed"
    BY <1>1, <1>2, <1>3, <2>1, FreshStartable, Restarts
  <2>2. CASE file.at = "renamed"
    <3> DEFINE q == current \o ready_queue
    <3>1. Startable(heap, control, env, cont, globals, fibers, q, join_waiters, next_fiber_id)
      BY <2>2 DEF FileInv, Stopped
    <3>2. IsImage(rt, heap, control, env, cont, globals, fibers, q, WaitersList(join_waiters),
                  next_fiber_id)
      BY <1>4, <2>2
    <3> HIDE DEF q
    <3> QED
      BY <1>1, <1>2, <3>1, <3>2, Restarts
  <2> QED
    BY <2>1, <2>2
<1>6. FileInv'
  BY <1>1 DEF FileInv
<1> QED
  BY <1>1, <1>5, <1>6 DEF RunInv

-----------------------------------------------------------------------------
(* What a run keeps.                                                       *)

Inv == RunInv /\ FileInv

\* The invariant holds as a run starts.
LEMMA InitInv == Init => Inv
<1> SUFFICES ASSUME Init PROVE Inv
  OBVIOUS
<1>1. /\ family \in Families /\ heap = NewHeap /\ control = SomeExpr /\ env = 0 /\ cont = 0
      /\ globals = <<>> /\ fibers = <<RootFiber>> /\ ready_queue = <<0>> /\ current = <<>>
      /\ join_waiters = NoWaiters /\ next_fiber_id = 1 /\ alloc_snapshot = 0
      /\ file.path = FirstBytes /\ file.at = "before"
  BY DEF Init, FirstBytes
<1>2. HeapInv
  BY <1>1, FreshWhole DEF HeapInv
<1>3. LineInv
  BY <1>1, FreshStartable DEF LineInv, Startable
<1>4. BaseInv
  <2>1. alloc_snapshot \in 0 .. 2
    BY <1>1, SMT
  <2>2. TotalAllocations(heap) = 2
    BY <1>1, NewHeapSound
  <2> QED
    BY <2>1, <2>2 DEF BaseInv
<1> QED
  BY <1>1, <1>2, <1>3, <1>4 DEF Inv, RunInv, FileInv

\* Every step keeps the invariant.
LEMMA NextInv == ASSUME ~ForkFleeting, Inv, [Next]_vars PROVE Inv'
<1>0. RunInv /\ FileInv
  BY DEF Inv
<1>1. CASE Interpret
  <2>1. file' = file /\ file.at \in {"before", "past"}
    BY <1>1 DEF Interpret, Works
  <2> QED
    BY <1>0, <1>1, <2>1, InterpretKeeps, FileStays DEF Inv
<1>2. CASE Select
  <2>1. file' = file /\ file.at \in {"before", "past"}
    BY <1>2 DEF Select
  <2> QED
    BY <1>0, <1>2, <2>1, SelectKeeps, FileStays DEF Inv
<1>3. CASE Complete
  <2>1. file' = file /\ file.at \in {"before", "past"}
    BY <1>3 DEF Complete, Works
  <2> QED
    BY <1>0, <1>3, <2>1, CompleteKeeps, FileStays DEF Inv
<1>4. CASE Preempt
  <2>1. file' = file /\ file.at \in {"before", "past"}
    BY <1>4 DEF Preempt, Works
  <2> QED
    BY <1>0, <1>4, <2>1, PreemptKeeps, FileStays DEF Inv
<1>5. CASE HandleFork
  <2>1. file' = file /\ file.at \in {"before", "past"}
    BY <1>5 DEF HandleFork, Suspended, Works
  <2> QED
    BY <1>0, <1>5, <2>1, HandleForkKeeps, FileStays DEF Inv
<1>6. CASE HandleJoin
  <2>1. file' = file /\ file.at \in {"before", "past"}
    BY <1>6 DEF HandleJoin, Suspended, Works
  <2> QED
    BY <1>0, <1>6, <2>1, HandleJoinKeeps, FileStays DEF Inv
<1>7. CASE HandleGc
  <2>1. file' = file /\ file.at \in {"before", "past"}
    BY <1>7 DEF HandleGc, Suspended, Works
  <2> QED
    BY <1>0, <1>7, <2>1, HandleGcKeeps, FileStays DEF Inv
<1>8. CASE HandleSnapshot
  BY <1>0, <1>8, HandleSnapshotKeeps DEF Inv
<1>9. CASE Rename
  BY <1>0, <1>9, RenameKeeps DEF Inv
<1>10. CASE Live
  BY <1>0, <1>10, LiveKeeps DEF Inv
<1>11. CASE Restore
  BY <1>0, <1>11, RestoreKeeps DEF Inv
<1>12. CASE UNCHANGED vars
  <2>1. RunInv'
    BY <1>0, <1>12 DEF RunInv, HeapInv, LineInv, BaseInv, vars, registers, scheduler
  <2>2. file' = file /\ Stopped' = Stopped /\ NowBytes' = NowBytes /\ FirstBytes' = FirstBytes
    BY <1>12 DEF Stopped, NowBytes, FirstBytes, vars, registers, scheduler
  <2>3. FileInv'
    BY <1>0, <2>2 DEF FileInv
  <2> QED
    BY <2>1, <2>3 DEF Inv
<1> QED
  BY <1>1, <1>2, <1>3, <1>4, <1>5, <1>6, <1>7, <1>8, <1>9, <1>10, <1>11, <1>12 DEF Next

\* Whatever a program does, all it can still get at is in use and holds what it
\* held; files and queues are in order.
THEOREM RunsKeepInv == ASSUME ~ForkFleeting PROVE Spec => []Inv
<1>1. Init => Inv
  BY InitInv
<1>2. Inv /\ [Next]_vars => Inv'
  BY NextInv
<1> QED
  BY <1>1, <1>2, PTL DEF Spec

-----------------------------------------------------------------------------

\* The invariant gives every variable its type.
LEMMA InvTypeOK == Inv => TypeOK
<1> SUFFICES ASSUME Inv PROVE TypeOK
  OBVIOUS
<1>0. HeapInv /\ LineInv /\ BaseInv /\ FileInv
  BY DEF Inv, RunInv
<1>1. PICK S : Whole(S, heap, control, env, cont, globals, fibers, current)
  BY <1>0 DEF HeapInv
<1>2. ASSUME NEW arena \in DOMAIN ArenaOf
      PROVE  /\ heap[arena].allocations >= Len(heap[arena].slots)
             /\ FreeIds(heap[arena]) \subseteq IdsOf(heap[arena])
             /\ IsInjective(heap[arena].free_list)
  <2>1. /\ WellFormed(heap[arena], ThingsIn(Ranges(heap))[arena])
        /\ heap[arena].allocations >= Len(heap[arena].slots)
    BY <1>1, ArenasAre DEF Whole, Shaped
  <2>2. FreeIds(heap[arena]) \subseteq IdsOf(heap[arena])
    BY <2>1 DEF WellFormed, FreeIds
  <2>3. IsInjective(heap[arena].free_list)
    BY <2>1 DEF WellFormed, IsInjective
  <2> QED
    BY <2>1, <2>2, <2>3
<1>3. env \in IdsOf(heap.envs) /\ cont \in IdsOf(heap.conts)
  BY <1>1 DEF Whole, Ranges
<1>4. Len(fibers) <= MaxFibers
  BY <1>0, LineIs
<1>5. \A id \in Alive(fibers) : PlaceOf(fibers, id) # 0
  <2>1. fibers \in Seq(FibersIn(Ranges(heap))) /\ OnePerId(fibers)
    BY <1>0, <1>1, LineIs DEF Whole
  <2>2. \A id \in Alive(fibers) : id \in ListIds(fibers)
    BY <2>1, AliveIs
  <2> QED
    BY <2>1, <2>2, PlaceIs
<1>6. \A i \in DOMAIN ready_queue : PlaceOf(fibers, ready_queue[i]) # 0
  <2> DEFINE A == Alive(fibers)
  <2>1. ready_queue \in Seq(A)
    BY <1>0, LineIs DEF Waits
  <2>2. \A id \in A : PlaceOf(fibers, id) # 0
    BY <1>5
  <2> HIDE DEF A
  <2>3. \A i \in DOMAIN ready_queue : ready_queue[i] \in A
    BY <2>1
  <2> QED
    BY <2>2, <2>3
<1>7. current # <<>> => PlaceOf(fibers, current[1]) # 0
  BY <1>0, <1>5, SelectedIs
<1> QED
  BY <1>0, <1>2, <1>3, <1>4, <1>6, <1>7 DEF TypeOK, BaseInv, FileInv

\* Ids are in range, no slot is free twice, and whoever is queued or selected has a
\* fiber, also in a restored run.
THEOREM TypeCorrect == ASSUME ~ForkFleeting PROVE Spec => []TypeOK
<1>1. Inv => TypeOK
  BY InvTypeOK
<1> QED
  BY <1>1, RunsKeepInv, PTL

\* What a program can get at is in what S has.
LEMMA HeldIsSound ==
    ASSUME NEW S, Whole(S, heap, control, env, cont, globals, fibers, current)
    PROVE  Held \subseteq Pairs(S)
<1>0. S.closures \subseteq S.objects /\ TRUE \in BOOLEAN
  BY DEF Whole, Sound
<1>1. Refs(TRUE, Many(One("Binding")), globals) \subseteq Pairs(S)
  <2>1. Within4(Ranges(heap), control, env, cont, globals, fibers)
    BY WholeRanges
  <2>2. \A all \in BOOLEAN : Refs(all, Many(One("Binding")), globals) = BoundIds(globals)
    BY <2>1, RootRefsAre
  <2>3. globals \in UpToOne(BindingsIn(S))
    BY DEF Whole
  <2>4. BoundIds(globals) \subseteq Pairs(S)
    BY <1>0, <2>3, BindingsHeld
  <2> QED
    BY <2>2, <2>4, Zenon
<1>2. \A c \in ControlsIn(S) : Refs(TRUE, One("Control"), c) \subseteq Pairs(S)
  <2> TAKE c \in ControlsIn(S)
  <2>1. Refs(TRUE, One("Control"), c) = ThingRefs(TRUE, "Control", c)
    BY OneField
  <2>2. \A all \in BOOLEAN : ThingRefs(all, "Control", c) = ControlIds(c)
    BY ControlRefsAre
  <2>3. ThingRefs(TRUE, "Control", c) = ControlIds(c)
    BY <2>2, Zenon
  <2> QED
    BY <1>0, <2>1, <2>3, ControlHeld
<1>3. \A s \in StatusesIn(S) : Refs(TRUE, One("FiberStatus"), s) \subseteq Pairs(S)
  <2> TAKE s \in StatusesIn(S)
  <2>1. Refs(TRUE, One("FiberStatus"), s) = ThingRefs(TRUE, "FiberStatus", s)
    BY OneField
  <2>2. \A all \in BOOLEAN : ThingRefs(all, "FiberStatus", s) = StatusIds(s)
    BY StatusRefsAre
  <2>3. ThingRefs(TRUE, "FiberStatus", s) = StatusIds(s)
    BY <2>2, Zenon
  <2> QED
    BY <1>0, <2>1, <2>3, StatusHeld
<1>4. current # <<>> =>
        Refs(TRUE, One("Control"), control) \cup {<<"envs", env>>, <<"conts", cont>>}
          \subseteq Pairs(S)
  BY <1>2, PairsIs DEF Whole
<1>5. \A i \in DOMAIN fibers : HeldByFiber(fibers[i].f) \subseteq Pairs(S)
  <2> TAKE i \in DOMAIN fibers
  <2> DEFINE x == fibers[i]
  <2>1. Relied(S, x, current)
    BY DEF Whole
  <2> HIDE DEF x
  <2>2. CASE x.f.status.is = "Completed"
    BY <1>3, <2>1, <2>2 DEF Relied, HeldByFiber, x
  <2>3. CASE x.f.status.is # "Completed" /\ <<x.f.id>> = current
    BY <2>3 DEF HeldByFiber, x
  <2>4. CASE x.f.status.is # "Completed" /\ <<x.f.id>> # current
    <3>1. /\ Refs(TRUE, One("Control"), x.f.control) \subseteq Pairs(S)
          /\ <<"envs", x.f.env>> \in Pairs(S) /\ <<"conts", x.f.cont>> \in Pairs(S)
      BY <1>2, <2>1, <2>4, PairsIs DEF Relied
    <3>2. HeldByFiber(x.f) = Refs(TRUE, One("Control"), x.f.control)
                             \cup {<<"envs", x.f.env>>, <<"conts", x.f.cont>>}
      BY <2>4 DEF HeldByFiber
    <3> QED
      BY <3>1, <3>2 DEF x
  <2> QED
    BY <2>2, <2>3, <2>4
<1> HIDE DEF HeldByFiber
<1> QED
  BY <1>1, <1>4, <1>5 DEF Held

\* The invariant leaves no id in use on a free list.
LEMMA InvNothingHeldIsFree == Inv => NothingHeldIsFree
<1> SUFFICES ASSUME Inv PROVE NothingHeldIsFree
  OBVIOUS
<1>1. PICK S : Whole(S, heap, control, env, cont, globals, fibers, current)
  BY DEF Inv, RunInv, HeapInv
<1>2. Held \subseteq Pairs(S)
  BY <1>1, HeldIsSound
<1>3. Shaped(heap) /\ Sound(heap, S)
  BY <1>1 DEF Whole
<1>4. \A all \in BOOLEAN : Reached(all, heap, Held) \subseteq Pairs(S)
  BY <1>2, <1>3, ReachedSound
<1>5. Reached(TRUE, heap, Held) \subseteq Pairs(S)
  BY <1>4, Zenon
<1>6. \A r \in Pairs(S) : r[2] \notin FreeIds(heap[r[1]])
  <2> SUFFICES ASSUME NEW r \in Pairs(S) PROVE r[2] \notin FreeIds(heap[r[1]])
    OBVIOUS
  <2>1. r[1] \in Arenas /\ r[2] \in S[r[1]]
    BY DEF Pairs, Arenas
  <2>2. r[2] \in InUse(heap[r[1]])
    BY <1>3, <2>1 DEF Sound
  <2> QED
    BY <2>2 DEF InUse
<1> QED
  BY <1>5, <1>6 DEF NothingHeldIsFree

\* No slot a program can get at is ever free to be overwritten.
THEOREM NothingHeldIsFreed == ASSUME ~ForkFleeting PROVE Spec => []NothingHeldIsFree
<1>1. Inv => NothingHeldIsFree
  BY InvNothingHeldIsFree
<1> QED
  BY <1>1, RunsKeepInv, PTL

\* The invariant makes of a finished checkpoint a whole image.
LEMMA InvCheckpointWhole == Inv => CheckpointWhole
<1> SUFFICES ASSUME Inv, file.at \in {"torn", "written", "renamed"}
             PROVE  LET got == ReadSnapshot(file.path) IN
                    got.ok /\ (file.at = "renamed" => IsThisRun(got.x.f))
  BY DEF CheckpointWhole
<1> DEFINE got == ReadSnapshot(file.path)
<1>1. FileInv /\ RunInv
  BY DEF Inv
<1>2. got.ok
  BY <1>1, FileRead
<1>3. ASSUME file.at = "renamed" PROVE IsThisRun(got.x.f)
  <2> DEFINE rt == got.x.f
  <2>1. IsImage(rt, heap, control, env, cont, globals, fibers, current \o ready_queue,
                WaitersList(join_waiters), next_fiber_id)
    BY <1>1, <1>3, FileRead
  <2> HIDE DEF got, rt
  <2>2. \A arena \in DOMAIN heap : rt[arena].f = heap[arena]
    <3>1. heap = [objects |-> heap.objects, envs |-> heap.envs, conts |-> heap.conts,
                  handlers |-> heap.handlers]
      BY <1>1 DEF RunInv, HeapInv, Whole, Shaped
    <3>2. DOMAIN heap = {"objects", "envs", "conts", "handlers"}
      BY <3>1
    <3> QED
      BY <2>1, <3>2 DEF IsImage
  <2>3. Stopped
    BY <1>1, <1>3 DEF FileInv
  <2>4. WaitersIn(rt) = join_waiters
    <3>1. join_waiters \in [FiberId -> Seq(Alive(fibers))]
      BY <1>1 DEF RunInv, LineInv, Lined, Waits
    <3>2. rt.join_waiters = WaitersList(join_waiters)
      BY <2>1 DEF IsImage
    <3> QED
      BY <3>1, <3>2, WaitersRead
  <2>5. /\ rt.control = control /\ rt.env = env /\ rt.cont = cont /\ rt.globals = globals
        /\ rt.fibers = fibers /\ rt.next_fiber_id = next_fiber_id
        /\ rt.ready_queue = current \o ready_queue
    BY <2>1 DEF IsImage
  <2> QED
    BY <2>2, <2>3, <2>4, <2>5 DEF IsThisRun, Stopped, rt
<1> QED
  BY <1>2, <1>3

\* Whenever the process dies while it writes, what is at the path can be read and is
\* the older checkpoint or, after the rename, the state the program was in: heap,
\* registers, fibers, queue, wait lists and the next id.
THEOREM CheckpointIsWhole == ASSUME ~ForkFleeting PROVE Spec => []CheckpointWhole
<1>1. Inv => CheckpointWhole
  BY InvCheckpointWhole
<1> QED
  BY <1>1, RunsKeepInv, PTL

-----------------------------------------------------------------------------
(* Scopes, small and large, as maps from names to values.                 *)

\* The maps from some names to some values, and the scopes with them.
MapsOf(A, B) == UNION {[D -> B] : D \in SUBSET A}
ScopesOf(A, B) == {Small(e) : e \in Seq(A \X B)} \cup {Large(m) : m \in MapsOf(A, B)}

\* g is m but for one name.
Extended(g, m, n, v) ==
    /\ DOMAIN g = DOMAIN m \cup {n}
    /\ g[n] = v
    /\ \A k \in DOMAIN m : k # n => g[k] = m[k]

\* A map with a pair more.
LEMMA WithIs ==
    ASSUME NEW A, NEW B, NEW m \in MapsOf(A, B), NEW n \in A, NEW v \in B
    PROVE  With(m, n, v) \in MapsOf(A, B) /\ Extended(With(m, n, v), m, n, v)
<1>1. PICK D \in SUBSET A : m \in [D -> B]
  BY DEF MapsOf
<1>2. With(m, n, v) = [k \in D \cup {n} |-> IF k = n THEN v ELSE m[k]]
  BY <1>1 DEF With
<1>3. D \cup {n} \in SUBSET A
  BY <1>1
<1>4. With(m, n, v) \in [D \cup {n} -> B]
  BY <1>1, <1>2
<1>5. With(m, n, v) \in MapsOf(A, B)
  BY <1>3, <1>4 DEF MapsOf
<1>6. Extended(With(m, n, v), m, n, v)
  BY <1>1, <1>2 DEF Extended
<1> QED
  BY <1>5, <1>6

\* The map of no pairs.
LEMMA NoMap == ASSUME NEW A, NEW B PROVE <<>> \in MapsOf(A, B) /\ DOMAIN <<>> = {}
<1>1. DOMAIN <<>> = {}
  OBVIOUS
<1>2. <<>> \in [{} -> B]
  BY SMT
<1>3. {} \in SUBSET A
  OBVIOUS
<1> QED
  BY <1>1, <1>2, <1>3 DEF MapsOf

\* The map of some pairs is made in as many steps.
MapSteps(f, s, A, B) ==
    /\ f[0] = <<>>
    /\ \A n \in 1 .. Len(s) : f[n] = With(f[n - 1], s[n][1], s[n][2])
    /\ \A n \in 0 .. Len(s) : f[n] \in MapsOf(A, B)
    /\ MapOf(s) = f[Len(s)]

\* There are such steps.
LEMMA MapMade ==
    ASSUME NEW A, NEW B, NEW s \in Seq(A \X B)
    PROVE  \E f : MapSteps(f, s, A, B)
<1> DEFINE N == Len(s)
           M == MapsOf(A, B)
           In == [n \in 0 .. N |-> M]
           step == [p \in (1 .. N) \X M |-> With(p[2], s[p[1]][1], s[p[1]][2])]
           Made(f) == f = [n \in 0 .. N |->
                IF n = 0 THEN <<>> ELSE With(f[n - 1], s[n][1], s[n][2])]
           h == CHOOSE g : Made(g)
<1>1. N \in Nat /\ \A n \in 1 .. N : s[n] \in A \X B
  BY SMT
<1>2. MapOf(s) = h[N]
  BY DEF MapOf
<1> HIDE DEF N
<1>3. /\ 0 \in 0 .. N /\ N \in 0 .. N
      /\ \A n \in 1 .. N : n \in 0 .. N /\ n - 1 \in 0 .. N /\ n # 0
      /\ \A n \in 0 .. N : n # 0 => n \in 1 .. N
  BY <1>1, SMT
<1>4. \A n \in 1 .. N : s[n][1] \in A /\ s[n][2] \in B
  BY <1>1
<1> HIDE DEF M
<1>5. ASSUME NEW n \in 1 .. N, NEW m \in M
      PROVE  step[<<n, m>>] = With(m, s[n][1], s[n][2]) /\ step[<<n, m>>] \in M
  <2>1. step[<<n, m>>] = With(m, s[n][1], s[n][2])
    OBVIOUS
  <2>2. With(m, s[n][1], s[n][2]) \in M
    BY <1>4, WithIs DEF M
  <2> QED
    BY <2>1, <2>2
<1>6. \A n \in 1 .. N : \A m \in In[n - 1] : step[<<n, m>>] \in In[n]
  BY <1>3, <1>5
<1>7. <<>> \in In[0]
  BY <1>3, NoMap DEF M
<1> HIDE DEF step
<1>8. PICK f : /\ f = [n \in 0 .. N |-> f[n]]
               /\ f[0] = <<>>
               /\ \A n \in 1 .. N : f[n] = step[<<n, f[n - 1]>>]
               /\ \A n \in 0 .. N : f[n] \in In[n]
  <2> HIDE DEF In
  <2>1. \E f : Stepped(f, N, <<>>, step, In)
    BY <1>1, <1>6, <1>7, StepByStep
  <2> QED
    BY <2>1 DEF Stepped
<1>9. \A n \in 0 .. N : f[n] \in M
  BY <1>8
<1>10. \A n \in 1 .. N : f[n] = With(f[n - 1], s[n][1], s[n][2])
  BY <1>3, <1>5, <1>8, <1>9
<1>11. Made(f)
  <2>1. \A n \in 0 .. N : f[n] = IF n = 0 THEN <<>> ELSE With(f[n - 1], s[n][1], s[n][2])
    BY <1>3, <1>8, <1>10
  <2> QED
    BY <1>8, <2>1, Zenon
<1>12. Made(h)
  BY <1>11
<1> HIDE DEF h
<1>13. \A n \in 0 .. N : h[n] = IF n = 0 THEN <<>> ELSE With(h[n - 1], s[n][1], s[n][2])
  BY <1>12
<1>14. \A n \in 0 .. N : f[n] = h[n]
  <2>1. f[0] = h[0]
    BY <1>3, <1>8, <1>13
  <2>2. \A n \in 1 .. N : f[n - 1] = h[n - 1] => f[n] = h[n]
    BY <1>3, <1>10, <1>13
  <2>3. N \in Nat
    BY <1>1
  <2>4. \A f1, g1 : Alike(N, f1, g1)
    BY <2>3, EachAlike
  <2> QED
    BY <2>1, <2>2, <2>4 DEF Alike
<1>15. MapOf(s) = f[N]
  BY <1>2, <1>3, <1>14
<1>16. MapSteps(f, s, A, B)
  BY <1>8, <1>9, <1>10, <1>15 DEF MapSteps, N, M
<1> QED
  BY <1>16

\* One pair more is one step more.
LEMMA MapMore ==
    ASSUME NEW A, NEW B, NEW s \in Seq(A \X B)
    PROVE  /\ MapOf(s) \in MapsOf(A, B)
           /\ MapOf(<<>>) = <<>>
           /\ \A p \in A \X B : MapOf(Append(s, p)) = With(MapOf(s), p[1], p[2])
<1>1. PICK f : MapSteps(f, s, A, B)
  BY MapMade
<1>2. Len(s) \in Nat /\ Len(s) \in 0 .. Len(s)
  BY SMT
<1>3. MapOf(s) \in MapsOf(A, B)
  BY <1>1, <1>2 DEF MapSteps
<1>4. MapOf(<<>>) = <<>>
  <2>1. <<>> \in Seq(A \X B) /\ Len(<<>>) = 0
    OBVIOUS
  <2>2. PICK g : MapSteps(g, <<>>, A, B)
    BY <2>1, MapMade
  <2>3. g[0] = <<>> /\ MapOf(<<>>) = g[Len(<<>>)]
    BY <2>2, Zenon DEF MapSteps
  <2> QED
    BY <2>1, <2>3
<1>5. ASSUME NEW p \in A \X B PROVE MapOf(Append(s, p)) = With(MapOf(s), p[1], p[2])
  <2> DEFINE t == Append(s, p)
  <2>1. /\ t \in Seq(A \X B) /\ Len(t) = Len(s) + 1 /\ t[Len(s) + 1] = p
        /\ \A n \in 1 .. Len(s) : t[n] = s[n] /\ n \in 1 .. Len(s) + 1
        /\ Len(s) + 1 \in 1 .. Len(s) + 1 /\ (Len(s) + 1) - 1 = Len(s)
    BY SMT
  <2> HIDE DEF t
  <2>2. PICK g : MapSteps(g, t, A, B)
    BY <2>1, MapMade
  <2>3. g[0] = f[0]
    BY <1>1, <2>2 DEF MapSteps
  <2>4. \A n \in 1 .. Len(s) : g[n - 1] = f[n - 1] => g[n] = f[n]
    BY <1>1, <2>1, <2>2 DEF MapSteps
  <2>5. \A n \in 0 .. Len(s) : g[n] = f[n]
    <3> DEFINE N == Len(s)
    <3>1. /\ N \in Nat
          /\ \A n \in 1 .. N : g[n - 1] = f[n - 1] => g[n] = f[n]
      BY <1>2, <2>4
    <3> HIDE DEF N
    <3>2. Alike(N, g, f)
      BY <3>1, EachAlike
    <3>3. \A n \in 0 .. N : g[n] = f[n]
      BY <2>3, <3>1, <3>2 DEF Alike
    <3> QED
      BY <3>3 DEF N
  <2>6. g[Len(s)] = MapOf(s)
    BY <1>1, <1>2, <2>5 DEF MapSteps
  <2>7. MapOf(t) = With(g[Len(s)], p[1], p[2])
    BY <2>1, <2>2 DEF MapSteps
  <2> QED
    BY <2>6, <2>7 DEF t
<1> QED
  BY <1>3, <1>4, <1>5

\* The names of some pairs, and none twice.
NamesOnce(s) == \A i, j \in 1 .. Len(s) : s[i][1] = s[j][1] => i = j
NamesIn(s) == {s[i][1] : i \in 1 .. Len(s)}

\* A map gives each name of a pair its value.
Gives(m, s) == \A i \in 1 .. Len(s) : m[s[i][1]] = s[i][2]

\* The map of pairs with different names has each with its value.
LEMMA MapOfOnce ==
    ASSUME NEW A, NEW B, NEW s \in Seq(A \X B), NamesOnce(s)
    PROVE  MapOf(s) \in [NamesIn(s) -> B] /\ Gives(MapOf(s), s)
<1>1. PICK f : MapSteps(f, s, A, B)
  BY MapMade
<1> DEFINE N == Len(s)
           Has(n) == /\ DOMAIN f[n] = {s[i][1] : i \in 1 .. n}
                     /\ \A i \in 1 .. n : f[n][s[i][1]] = s[i][2]
           S == {n \in Nat : n <= N => Has(n)}
<1>2. N \in Nat /\ \A i \in 1 .. N : s[i] \in A \X B
  BY SMT
<1>3. /\ f[0] = <<>>
      /\ \A n \in 1 .. N : f[n] = With(f[n - 1], s[n][1], s[n][2])
      /\ \A n \in 0 .. N : f[n] \in MapsOf(A, B)
      /\ MapOf(s) = f[N]
  BY <1>1 DEF MapSteps
<1>4. \A i, j \in 1 .. N : s[i][1] = s[j][1] => i = j
  BY DEF NamesOnce
<1> HIDE DEF N
<1>5. 0 \in S
  <2>1. 1 .. 0 = {}
    BY SMT
  <2> QED
    BY <1>3, <2>1, NoMap
<1>6. ASSUME NEW n \in Nat, n \in S PROVE n + 1 \in S
  <2> SUFFICES ASSUME n + 1 <= N PROVE Has(n + 1)
    OBVIOUS
  <2>1. /\ n + 1 \in 1 .. N /\ (n + 1) - 1 = n /\ n <= N /\ n \in 0 .. N
        /\ 1 .. n + 1 = (1 .. n) \cup {n + 1}
        /\ \A i \in 1 .. n : i \in 1 .. N /\ i # n + 1
    BY <1>2, SMT
  <2>2. Has(n)
    BY <1>6, <2>1
  <2>3. f[n + 1] = With(f[n], s[n + 1][1], s[n + 1][2])
    BY <1>3, <2>1
  <2>4. s[n + 1][1] \in A /\ s[n + 1][2] \in B /\ f[n] \in MapsOf(A, B)
    BY <1>2, <1>3, <2>1
  <2>5. \A i \in 1 .. n : s[i][1] # s[n + 1][1]
    BY <1>4, <2>1
  <2>6. /\ DOMAIN f[n + 1] = DOMAIN f[n] \cup {s[n + 1][1]}
        /\ f[n + 1][s[n + 1][1]] = s[n + 1][2]
        /\ \A k \in DOMAIN f[n] : k # s[n + 1][1] => f[n + 1][k] = f[n][k]
    <3>1. Extended(f[n + 1], f[n], s[n + 1][1], s[n + 1][2])
      BY <2>3, <2>4, WithIs
    <3> QED
      BY <3>1 DEF Extended
  <2>7. DOMAIN f[n + 1] = {s[i][1] : i \in 1 .. n + 1}
    BY <2>1, <2>2, <2>6
  <2>8. \A i \in 1 .. n : f[n + 1][s[i][1]] = s[i][2]
    BY <2>2, <2>5, <2>6
  <2> QED
    BY <2>1, <2>6, <2>7, <2>8
<1> HIDE DEF S
<1>7. Nat \subseteq S
  BY <1>5, <1>6, SetInduction
<1>8. Has(N)
  BY <1>2, <1>7, SMT DEF S
<1>9. MapOf(s) \in MapsOf(A, B)
  BY MapMore
<1>10. PICK D \in SUBSET A : MapOf(s) \in [D -> B]
  BY <1>9 DEF MapsOf
<1>11. DOMAIN MapOf(s) = NamesIn(s)
  BY <1>3, <1>8 DEF NamesIn, N
<1> QED
  BY <1>3, <1>8, <1>10, <1>11 DEF Gives, N

\* A scope that stands for a map: the map itself, or the array of its pairs.
Stands(b, m, A, B) ==
    \/ b = Large(m)
    \/ \E e \in Seq(A \X B) : b = Small(e) /\ NamesOnce(e) /\ m = MapOf(e)

\* Where a name is in an array.
LEMMA PlaceInIs ==
    ASSUME NEW V, NEW e \in Seq(V), NEW n
    PROVE  /\ PlaceIn(Small(e), n) # 0 <=> n \in NamesIn(e)
           /\ PlaceIn(Small(e), n) # 0 => /\ PlaceIn(Small(e), n) \in 1 .. Len(e)
                                          /\ e[PlaceIn(Small(e), n)][1] = n
<1> DEFINE T == {i \in 1 .. Len(e) : e[i][1] = n}
<1>1. Len(e) \in Nat /\ \A i \in 1 .. Len(e) : i \in Nat /\ i # 0
  BY SMT
<1>2. PlaceIn(Small(e), n) = IF T # {} THEN Min(T) ELSE 0
  BY DEF PlaceIn, Small, SelectInSeq
<1>3. n \in NamesIn(e) <=> T # {}
  BY DEF NamesIn
<1>4. ASSUME T # {} PROVE Min(T) \in T
  <2>1. T \subseteq Nat
    BY <1>1
  <2> HIDE DEF T
  <2>2. \E i \in T : \A j \in T : i <= j
    BY <1>4, <2>1, Least
  <2> QED
    BY <2>2 DEF Min
<1>5. T # {} => Min(T) \in 1 .. Len(e) /\ e[Min(T)][1] = n /\ Min(T) # 0
  BY <1>1, <1>4
<1> HIDE DEF T
<1> QED
  BY <1>2, <1>3, <1>5

\* Another value in an array of different names.
LEMMA ValueChanged ==
    ASSUME NEW A, NEW B, NEW e \in Seq(A \X B), NamesOnce(e),
           NEW at \in 1 .. Len(e), NEW v \in B
    PROVE  LET g == [e EXCEPT ![at] = <<e[at][1], v>>] IN
           g \in Seq(A \X B) /\ NamesOnce(g) /\ MapOf(g) = With(MapOf(e), e[at][1], v)
<1> DEFINE n == e[at][1]
           g == [e EXCEPT ![at] = <<n, v>>]
           m == MapOf(e)
<1>1. /\ Len(e) \in Nat /\ e[at] \in A \X B /\ <<n, v>> \in A \X B /\ n \in A
      /\ \A i \in 1 .. Len(e) : e[i] \in A \X B
  BY SMT
<1>2. g \in Seq(A \X B) /\ Len(g) = Len(e)
  <2> DEFINE x == <<n, v>>
  <2>1. x \in A \X B
    BY <1>1
  <2> HIDE DEF x, n
  <2>2. [e EXCEPT ![at] = x] \in Seq(A \X B) /\ Len([e EXCEPT ![at] = x]) = Len(e)
    BY <2>1, SMT
  <2> QED
    BY <2>2 DEF x
<1>3. \A i \in 1 .. Len(e) : g[i] = IF i = at THEN <<n, v>> ELSE e[i]
  <2> HIDE DEF n
  <2> DEFINE x == <<n, v>>
  <2> HIDE DEF x
  <2>1. \A i \in 1 .. Len(e) : [e EXCEPT ![at] = x][i] = IF i = at THEN x ELSE e[i]
    OBVIOUS
  <2> QED
    BY <2>1 DEF x
<1> HIDE DEF g
<1>4. \A i \in 1 .. Len(e) : g[i][1] = e[i][1] /\ g[i][2] = IF i = at THEN v ELSE e[i][2]
  BY <1>3
<1>5. NamesOnce(g)
  BY <1>2, <1>4 DEF NamesOnce
<1>6. NamesIn(g) = NamesIn(e)
  BY <1>2, <1>4 DEF NamesIn
<1>7. /\ m \in [NamesIn(e) -> B] /\ \A i \in 1 .. Len(e) : m[e[i][1]] = e[i][2]
  <2>1. MapOf(e) \in [NamesIn(e) -> B] /\ Gives(MapOf(e), e)
    BY MapOfOnce
  <2> QED
    BY <2>1 DEF Gives
<1>8. /\ MapOf(g) \in [NamesIn(e) -> B] /\ \A i \in 1 .. Len(e) : MapOf(g)[g[i][1]] = g[i][2]
  <2>1. MapOf(g) \in [NamesIn(g) -> B] /\ Gives(MapOf(g), g)
    BY <1>2, <1>5, MapOfOnce
  <2> QED
    BY <1>2, <1>6, <2>1 DEF Gives
<1> HIDE DEF n, m
<1>9. n \in NamesIn(e)
  BY DEF n, NamesIn
<1>10. With(m, n, v) = [k \in NamesIn(e) |-> IF k = n THEN v ELSE m[k]]
  <2>1. DOMAIN m \cup {n} = NamesIn(e)
    BY <1>7, <1>9
  <2> QED
    BY <2>1, Zenon DEF With
<1>11. ASSUME NEW k \in NamesIn(e) PROVE MapOf(g)[k] = IF k = n THEN v ELSE m[k]
  <2>1. PICK i \in 1 .. Len(e) : k = e[i][1]
    BY DEF NamesIn
  <2>2. MapOf(g)[k] = IF i = at THEN v ELSE e[i][2]
    BY <1>4, <1>8, <2>1
  <2>3. k = n <=> i = at
    BY <2>1 DEF n, NamesOnce
  <2> QED
    BY <1>7, <2>1, <2>2, <2>3
<1>12. MapOf(g) = [k \in NamesIn(e) |-> MapOf(g)[k]]
  BY <1>8
<1>13. MapOf(g) = With(m, n, v)
  BY <1>10, <1>11, <1>12
<1> QED
  BY <1>2, <1>5, <1>13 DEF g, n, m

\* A pair more in a scope is a pair more in what it stands for.
LEMMA InsertStands ==
    ASSUME NEW A, NEW B, NEW m \in MapsOf(A, B), NEW b, Stands(b, m, A, B),
           NEW n \in A, NEW v \in B
    PROVE  Stands(Insert(b, n, v), With(m, n, v), A, B)
<1>1. CASE b = Large(m)
  <2>1. b.kind = "Large" /\ b.map = m
    BY <1>1 DEF Large
  <2>2. Insert(b, n, v) = Large(With(m, n, v))
    BY <2>1 DEF Insert
  <2> QED
    BY <2>2 DEF Stands
<1>2. ASSUME NEW e \in Seq(A \X B), b = Small(e), NamesOnce(e), m = MapOf(e)
      PROVE  Stands(Insert(b, n, v), With(m, n, v), A, B)
  <2> DEFINE at == PlaceIn(b, n)
  <2>1. b.kind = "Small" /\ b.entries = e
    BY <1>2 DEF Small
  <2>2. Len(e) \in Nat
    BY SMT
  <2>3. /\ at # 0 <=> n \in NamesIn(e)
        /\ at # 0 => at \in 1 .. Len(e) /\ e[at][1] = n
    BY <1>2, PlaceInIs
  <2> HIDE DEF at
  <2>4. CASE at # 0
    <3> DEFINE g == [e EXCEPT ![at] = <<n, v>>]
    <3>1. Insert(b, n, v) = Small(g)
      BY <2>1, <2>4 DEF Insert, at
    <3>2. g \in Seq(A \X B) /\ NamesOnce(g) /\ MapOf(g) = With(MapOf(e), n, v)
      BY <1>2, <2>3, <2>4, ValueChanged
    <3> HIDE DEF g
    <3> QED
      BY <1>2, <3>1, <3>2 DEF Stands
  <2>5. CASE at = 0 /\ Len(e) < Capacity
    <3> DEFINE g == Append(e, <<n, v>>)
    <3>1. Insert(b, n, v) = Small(g)
      BY <2>1, <2>5 DEF Insert, at
    <3>2. <<n, v>> \in A \X B /\ <<n, v>>[1] = n /\ <<n, v>>[2] = v
      OBVIOUS
    <3>3. MapOf(g) = With(m, n, v)
      BY <1>2, <3>2, MapMore
    <3>4. /\ g \in Seq(A \X B) /\ Len(g) = Len(e) + 1 /\ g[Len(e) + 1] = <<n, v>>
          /\ \A i \in 1 .. Len(e) : g[i] = e[i]
          /\ \A i \in 1 .. Len(g) : i \in 1 .. Len(e) \/ i = Len(e) + 1
      BY <2>2, <3>2, SMT
    <3> HIDE DEF g
    <3>5. \A i \in 1 .. Len(e) : e[i][1] # n
      BY <2>3, <2>5 DEF NamesIn
    <3>6. NamesOnce(g)
      BY <1>2, <3>4, <3>5 DEF NamesOnce
    <3> QED
      BY <3>1, <3>3, <3>4, <3>6 DEF Stands
  <2>6. CASE at = 0 /\ ~(Len(e) < Capacity)
    <3>1. Insert(b, n, v) = Large(With(MapOf(e), n, v))
      BY <2>1, <2>6 DEF Insert, at
    <3> QED
      BY <1>2, <3>1 DEF Stands
  <2> QED
    BY <2>4, <2>5, <2>6
<1> QED
  BY <1>1, <1>2 DEF Stands

\* Scopes stay scopes.
LEMMA InsertIn ==
    ASSUME NEW A, NEW B, NEW b \in ScopesOf(A, B), NEW n \in A, NEW v \in B
    PROVE  Insert(b, n, v) \in ScopesOf(A, B)
<1>1. CASE \E m \in MapsOf(A, B) : b = Large(m)
  <2>1. PICK m \in MapsOf(A, B) : b = Large(m)
    BY <1>1
  <2>2. b.kind = "Large" /\ b.map = m
    BY <2>1 DEF Large
  <2>3. Insert(b, n, v) = Large(With(m, n, v))
    BY <2>2 DEF Insert
  <2>4. With(m, n, v) \in MapsOf(A, B)
    BY WithIs
  <2> QED
    BY <2>3, <2>4 DEF ScopesOf
<1>2. CASE \E e \in Seq(A \X B) : b = Small(e)
  <2>1. PICK e \in Seq(A \X B) : b = Small(e)
    BY <1>2
  <2> DEFINE at == PlaceIn(b, n)
  <2>2. b.kind = "Small" /\ b.entries = e
    BY <2>1 DEF Small
  <2>3. at # 0 => at \in 1 .. Len(e)
    BY <2>1, PlaceInIs
  <2>4. <<n, v>> \in A \X B
    OBVIOUS
  <2> HIDE DEF at
  <2>5. CASE at # 0
    <3>1. Insert(b, n, v) = Small([e EXCEPT ![at] = <<n, v>>])
      BY <2>2, <2>5 DEF Insert, at
    <3>2. [e EXCEPT ![at] = <<n, v>>] \in Seq(A \X B)
      BY <2>3, <2>4, <2>5, SMT
    <3> QED
      BY <3>1, <3>2 DEF ScopesOf
  <2>6. CASE at = 0 /\ Len(e) < Capacity
    <3>1. Insert(b, n, v) = Small(Append(e, <<n, v>>))
      BY <2>2, <2>6 DEF Insert, at
    <3>2. Append(e, <<n, v>>) \in Seq(A \X B)
      BY <2>4
    <3> QED
      BY <3>1, <3>2 DEF ScopesOf
  <2>7. CASE at = 0 /\ ~(Len(e) < Capacity)
    <3>1. Insert(b, n, v) = Large(With(MapOf(e), n, v))
      BY <2>2, <2>7 DEF Insert, at
    <3>2. With(MapOf(e), n, v) \in MapsOf(A, B)
      BY MapMore, WithIs
    <3> QED
      BY <3>1, <3>2 DEF ScopesOf
  <2> QED
    BY <2>5, <2>6, <2>7
<1> QED
  BY <1>1, <1>2 DEF ScopesOf

\* A scope grows in as many steps as there are pairs.
ScopeSteps(f, b, s, A, B) ==
    /\ f[0] = b
    /\ \A n \in 1 .. Len(s) : f[n] = Insert(f[n - 1], s[n][1], s[n][2])
    /\ Inserted(b, s) = f[Len(s)]

\* There are such steps.
LEMMA ScopeMade ==
    ASSUME NEW A, NEW B, NEW b \in ScopesOf(A, B), NEW s \in Seq(A \X B)
    PROVE  \E f : ScopeSteps(f, b, s, A, B)
<1> DEFINE N == Len(s)
           M == ScopesOf(A, B)
           In == [n \in 0 .. N |-> M]
           step == [p \in (1 .. N) \X M |-> Insert(p[2], s[p[1]][1], s[p[1]][2])]
           Made(f) == f = [n \in 0 .. N |->
                IF n = 0 THEN b ELSE Insert(f[n - 1], s[n][1], s[n][2])]
           h == CHOOSE g : Made(g)
<1>1. N \in Nat /\ \A n \in 1 .. N : s[n] \in A \X B
  BY SMT
<1>2. Inserted(b, s) = h[N]
  BY DEF Inserted
<1> HIDE DEF N
<1>3. /\ 0 \in 0 .. N /\ N \in 0 .. N
      /\ \A n \in 1 .. N : n \in 0 .. N /\ n - 1 \in 0 .. N /\ n # 0
      /\ \A n \in 0 .. N : n # 0 => n \in 1 .. N
  BY <1>1, SMT
<1>4. \A n \in 1 .. N : s[n][1] \in A /\ s[n][2] \in B
  BY <1>1
<1> HIDE DEF M
<1>5. ASSUME NEW n \in 1 .. N, NEW m \in M
      PROVE  step[<<n, m>>] = Insert(m, s[n][1], s[n][2]) /\ step[<<n, m>>] \in M
  <2>1. step[<<n, m>>] = Insert(m, s[n][1], s[n][2])
    OBVIOUS
  <2>2. Insert(m, s[n][1], s[n][2]) \in M
    BY <1>4, InsertIn DEF M
  <2> QED
    BY <2>1, <2>2
<1>6. \A n \in 1 .. N : \A m \in In[n - 1] : step[<<n, m>>] \in In[n]
  BY <1>3, <1>5
<1>7. b \in In[0]
  BY <1>3 DEF M
<1> HIDE DEF step
<1>8. PICK f : /\ f = [n \in 0 .. N |-> f[n]]
               /\ f[0] = b
               /\ \A n \in 1 .. N : f[n] = step[<<n, f[n - 1]>>]
               /\ \A n \in 0 .. N : f[n] \in In[n]
  <2> HIDE DEF In
  <2>1. \E f : Stepped(f, N, b, step, In)
    BY <1>1, <1>6, <1>7, StepByStep
  <2> QED
    BY <2>1 DEF Stepped
<1>9. \A n \in 0 .. N : f[n] \in M
  BY <1>8
<1>10. \A n \in 1 .. N : f[n] = Insert(f[n - 1], s[n][1], s[n][2])
  BY <1>3, <1>5, <1>8, <1>9
<1>11. Made(f)
  <2>1. \A n \in 0 .. N : f[n] = IF n = 0 THEN b ELSE Insert(f[n - 1], s[n][1], s[n][2])
    BY <1>3, <1>8, <1>10
  <2> QED
    BY <1>8, <2>1, Zenon
<1>12. Made(h)
  BY <1>11
<1> HIDE DEF h
<1>13. \A n \in 0 .. N : h[n] = IF n = 0 THEN b ELSE Insert(h[n - 1], s[n][1], s[n][2])
  BY <1>12
<1>14. \A n \in 0 .. N : f[n] = h[n]
  <2>1. f[0] = h[0]
    BY <1>3, <1>8, <1>13
  <2>2. \A n \in 1 .. N : f[n - 1] = h[n - 1] => f[n] = h[n]
    BY <1>3, <1>10, <1>13
  <2>3. N \in Nat
    BY <1>1
  <2>4. \A f1, g1 : Alike(N, f1, g1)
    BY <2>3, EachAlike
  <2> QED
    BY <2>1, <2>2, <2>4 DEF Alike
<1>15. Inserted(b, s) = f[N]
  BY <1>2, <1>3, <1>14
<1>16. ScopeSteps(f, b, s, A, B)
  BY <1>8, <1>10, <1>15 DEF ScopeSteps, N
<1> QED
  BY <1>16

\* Pairs put into a scope that stands for the map of others make it stand for that of
\* them all.
LEMMA InsertedStands ==
    ASSUME NEW A, NEW B, NEW r \in Seq(A \X B), NEW b \in ScopesOf(A, B),
           Stands(b, MapOf(r), A, B), NEW s \in Seq(A \X B)
    PROVE  Stands(Inserted(b, s), MapOf(r \o s), A, B)
<1>1. PICK f : ScopeSteps(f, b, s, A, B)
  BY ScopeMade
<1> DEFINE N == Len(s)
           Q(n) == SubSeq(s, 1, n)
           S == {n \in Nat : n <= N => Stands(f[n], MapOf(r \o Q(n)), A, B)}
<1>2. N \in Nat
  BY SMT
<1>3. \A n \in 0 .. N : r \o Q(n) \in Seq(A \X B)
  BY SMT
<1>4. r \o Q(0) = r /\ r \o Q(N) = r \o s
  BY SMT
<1>5. ASSUME NEW n \in Nat, n + 1 <= N
      PROVE  r \o Q(n + 1) = Append(r \o Q(n), s[n + 1]) /\ s[n + 1] \in A \X B
  BY <1>5, SMT
<1>6. /\ f[0] = b
      /\ \A n \in 1 .. N : f[n] = Insert(f[n - 1], s[n][1], s[n][2])
      /\ Inserted(b, s) = f[N]
  BY <1>1 DEF ScopeSteps
<1> HIDE DEF N, Q
<1>7. 0 \in S
  BY <1>4, <1>6
<1>8. ASSUME NEW n \in Nat, n \in S PROVE n + 1 \in S
  <2> SUFFICES ASSUME n + 1 <= N PROVE Stands(f[n + 1], MapOf(r \o Q(n + 1)), A, B)
    OBVIOUS
  <2>1. n + 1 \in 1 .. N /\ (n + 1) - 1 = n /\ n <= N /\ n \in 0 .. N
    BY <1>2, SMT
  <2> DEFINE t == r \o Q(n)  p == s[n + 1]
  <2>2. Stands(f[n], MapOf(t), A, B)
    BY <1>8, <2>1
  <2>3. t \in Seq(A \X B)
    BY <1>3, <2>1
  <2>4. r \o Q(n + 1) = Append(t, p) /\ p \in A \X B
    BY <1>5
  <2>5. f[n + 1] = Insert(f[n], p[1], p[2])
    BY <1>6, <2>1
  <2> HIDE DEF t, p
  <2>6. MapOf(t) \in MapsOf(A, B) /\ MapOf(Append(t, p)) = With(MapOf(t), p[1], p[2])
    BY <2>3, <2>4, MapMore
  <2>7. p[1] \in A /\ p[2] \in B
    BY <2>4
  <2>8. Stands(Insert(f[n], p[1], p[2]), With(MapOf(t), p[1], p[2]), A, B)
    BY <2>2, <2>6, <2>7, InsertStands
  <2> QED
    BY <2>4, <2>5, <2>6, <2>8
<1> HIDE DEF S
<1>9. Nat \subseteq S
  BY <1>7, <1>8, SetInduction
<1>10. Stands(f[N], MapOf(r \o Q(N)), A, B)
  BY <1>2, <1>9, SMT DEF S
<1> QED
  BY <1>4, <1>6, <1>10

\* A scope made of some pairs and given others stands for the map of them all.
LEMMA ScopeStands ==
    ASSUME NEW A, NEW B, NEW r \in Seq(A \X B), NEW s \in Seq(A \X B)
    PROVE  Stands(Inserted(WithSlice(r), s), MapOf(r \o s), A, B)
<1>1. CASE Len(r) <= Capacity
  <2>1. WithSlice(r) = Inserted(NoBindings, r)
    BY <1>1 DEF WithSlice
  <2>2. <<>> \in Seq(A \X B) /\ NamesOnce(<<>>)
    BY DEF NamesOnce
  <2>3. Stands(NoBindings, MapOf(<<>>), A, B) /\ NoBindings \in ScopesOf(A, B)
    BY <2>2 DEF Stands, NoBindings, ScopesOf
  <2>4. Stands(WithSlice(r), MapOf(<<>> \o r), A, B)
    BY <2>1, <2>2, <2>3, InsertedStands
  <2>5. <<>> \o r = r
    BY ConcatEmptySeq
  <2>6. Stands(WithSlice(r), MapOf(r), A, B)
    BY <2>4, <2>5
  <2>7. WithSlice(r) \in ScopesOf(A, B)
    BY <2>6, MapMore DEF Stands, ScopesOf
  <2> QED
    BY <2>6, <2>7, InsertedStands
<1>2. CASE ~(Len(r) <= Capacity)
  <2>1. WithSlice(r) = Large(MapOf(r))
    BY <1>2 DEF WithSlice
  <2>2. Stands(WithSlice(r), MapOf(r), A, B)
    BY <2>1 DEF Stands
  <2>3. WithSlice(r) \in ScopesOf(A, B)
    BY <2>1, MapMore DEF ScopesOf
  <2> QED
    BY <2>2, <2>3, InsertedStands
<1> QED
  BY <1>1, <1>2

\* There are as many elements as there are places, if no two places have the same.
LEMMA Counted ==
    ASSUME NEW T, NEW n \in Nat, NEW f \in [1 .. n -> T],
           \A i, j \in 1 .. n : f[i] = f[j] => i = j, \A x \in T : \E i \in 1 .. n : f[i] = x
    PROVE  Cardinality(T) = n
<1>1. f \in Bijection(1 .. n, T)
  BY DEF Bijection, Injection, Surjection, IsInjective
<1> QED
  BY <1>1, FS_CountingElements DEF ExistsBijection

\* There are as many names as pairs, if no name is there twice.
LEMMA NamesCounted ==
    ASSUME NEW V, NEW s \in Seq(V), NamesOnce(s)
    PROVE  Cardinality(NamesIn(s)) = Len(s)
<1> DEFINE N == Len(s)
           T == NamesIn(s)
           f == [i \in 1 .. N |-> s[i][1]]
<1>1. N \in Nat
  BY SMT
<1>2. \A i \in 1 .. N : f[i] = s[i][1] /\ f[i] \in T
  BY DEF NamesIn
<1>3. f \in [1 .. N -> T]
  BY <1>2
<1>4. \A i, j \in 1 .. N : f[i] = f[j] => i = j
  BY <1>2 DEF NamesOnce
<1>5. \A x \in T : \E i \in 1 .. N : f[i] = x
  BY <1>2 DEF NamesIn
<1> HIDE DEF N, T, f
<1>6. Cardinality(T) = N
  BY <1>1, <1>3, <1>4, <1>5, Counted
<1> QED
  BY <1>6 DEF N, T

\* A map of pairs has finitely many names.
LEMMA MapFinite ==
    ASSUME NEW A, NEW B, NEW s \in Seq(A \X B)
    PROVE  IsFiniteSet(DOMAIN MapOf(s))
<1>1. PICK f : MapSteps(f, s, A, B)
  BY MapMade
<1> DEFINE N == Len(s)
           S == {n \in Nat : n <= N => IsFiniteSet(DOMAIN f[n])}
<1>2. N \in Nat /\ \A i \in 1 .. N : s[i] \in A \X B
  BY SMT
<1>3. /\ f[0] = <<>>
      /\ \A n \in 1 .. N : f[n] = With(f[n - 1], s[n][1], s[n][2])
      /\ MapOf(s) = f[N]
  BY <1>1 DEF MapSteps
<1> HIDE DEF N
<1>4. 0 \in S
  <2>1. DOMAIN f[0] = {}
    BY <1>3
  <2> QED
    BY <2>1, FS_EmptySet
<1>5. ASSUME NEW n \in Nat, n \in S PROVE n + 1 \in S
  <2> SUFFICES ASSUME n + 1 <= N PROVE IsFiniteSet(DOMAIN f[n + 1])
    OBVIOUS
  <2>1. n + 1 \in 1 .. N /\ (n + 1) - 1 = n /\ n <= N
    BY <1>2, SMT
  <2>2. IsFiniteSet(DOMAIN f[n])
    BY <1>5, <2>1
  <2>3. f[n + 1] = With(f[n], s[n + 1][1], s[n + 1][2])
    BY <1>3, <2>1
  <2>4. DOMAIN f[n + 1] = DOMAIN f[n] \cup {s[n + 1][1]}
    BY <2>3 DEF With
  <2> DEFINE D == DOMAIN f[n]  x == s[n + 1][1]
  <2> HIDE DEF D, x
  <2>5. IsFiniteSet(D \cup {x})
    BY <2>2, FS_AddElement DEF D
  <2> QED
    BY <2>4, <2>5 DEF D, x
<1> HIDE DEF S
<1>6. Nat \subseteq S
  BY <1>4, <1>5, SetInduction
<1>7. IsFiniteSet(DOMAIN f[N])
  BY <1>2, <1>6, SMT DEF S
<1> QED
  BY <1>3, <1>7

\* What reading a scope gives, name by name and all of it.
ReadsAs(b, m) ==
    /\ \A name : Bound(b, name) <=> name \in DOMAIN m
    /\ \A name \in DOMAIN m : ValueIn(b, name) = m[name]
    /\ Len(Iterated(b)) = Cardinality(DOMAIN m)
    /\ MapOf(Iterated(b)) = m

\* An array with different names is read as the map of its pairs.
LEMMA SmallReads ==
    ASSUME NEW A, NEW B, NEW e \in Seq(A \X B), NamesOnce(e)
    PROVE  ReadsAs(Small(e), MapOf(e))
<1> DEFINE b == Small(e)  m == MapOf(e)
<1>1. b.kind = "Small" /\ b.entries = e
  BY DEF Small
<1>2. m \in [NamesIn(e) -> B] /\ Gives(m, e)
  BY MapOfOnce
<1>3. DOMAIN m = NamesIn(e) /\ \A i \in 1 .. Len(e) : m[e[i][1]] = e[i][2]
  BY <1>2 DEF Gives
<1>4. ASSUME NEW name
      PROVE  /\ Bound(b, name) <=> name \in NamesIn(e)
             /\ name \in NamesIn(e) => ValueIn(b, name) = m[name]
  <2> DEFINE at == PlaceIn(b, name)
  <2>1. at # 0 <=> name \in NamesIn(e)
    BY PlaceInIs
  <2>2. at # 0 => at \in 1 .. Len(e) /\ e[at][1] = name
    BY PlaceInIs
  <2>3. Bound(b, name) <=> at # 0
    BY <1>1 DEF Bound
  <2>4. ValueIn(b, name) = e[at][2]
    BY <1>1 DEF ValueIn
  <2> HIDE DEF at, b, m
  <2> QED
    BY <1>3, <2>1, <2>2, <2>3, <2>4
<1>5. Iterated(b) = e
  BY <1>1 DEF Iterated
<1>6. Len(e) = Cardinality(NamesIn(e))
  BY NamesCounted
<1> HIDE DEF b, m
<1>7. Len(Iterated(b)) = Cardinality(DOMAIN m) /\ MapOf(Iterated(b)) = m
  BY <1>3, <1>5, <1>6 DEF m
<1>8. ReadsAs(b, m)
  BY <1>3, <1>4, <1>7 DEF ReadsAs
<1> QED
  BY <1>8 DEF b, m

\* A map is read as itself, in whatever order it is gone through.
LEMMA LargeReads ==
    ASSUME NEW A, NEW B, NEW m \in MapsOf(A, B), IsFiniteSet(DOMAIN m)
    PROVE  ReadsAs(Large(m), m)
<1> DEFINE D == DOMAIN m
           T == {<<name, m[name]>> : name \in D}
           s == SetToSeq(T)
           f == [name \in D |-> <<name, m[name]>>]
<1>1. m \in [D -> B] /\ D \in SUBSET A
  BY DEF MapsOf
<1>2. Large(m).kind = "Large" /\ Large(m).map = m
  BY DEF Large
<1>3. Iterated(Large(m)) = s
  BY <1>2 DEF Iterated
<1>4. IsFiniteSet(T)
  <2>1. f \in Surjection(D, T)
    <3>1. f \in [D -> T] /\ \A t \in T : \E x \in D : f[x] = t
      OBVIOUS
    <3> QED
      BY <3>1 DEF Surjection
  <2> HIDE DEF D, T, f
  <2> QED
    BY <2>1, FS_Surjection DEF D
<1>5. T \subseteq A \X B
  BY <1>1
<1>6. \A x \in T : x[1] \in D /\ x[2] = m[x[1]]
  OBVIOUS
<1>7. \A name \in D : <<name, m[name]>> \in T /\ <<name, m[name]>>[1] = name
  OBVIOUS
<1>8. \A x, y \in T : x[1] = y[1] => x = y
  OBVIOUS
<1> HIDE DEF T, D
<1>9. /\ s \in Seq(T) /\ \A x \in T : \E i \in 1 .. Len(s) : s[i] = x
      /\ \A i, j \in 1 .. Len(s) : s[i] = s[j] => i = j
  BY <1>4, SetToSeqIs
<1> HIDE DEF s
<1>10. \A i \in 1 .. Len(s) : s[i] \in T
  BY <1>9, SMT
<1>11. s \in Seq(A \X B)
  BY <1>5, <1>9, SMT
<1>12. NamesOnce(s)
  BY <1>8, <1>9, <1>10 DEF NamesOnce
<1>13. NamesIn(s) = D
  <2>1. NamesIn(s) \subseteq D
    BY <1>6, <1>10 DEF NamesIn
  <2>2. ASSUME NEW name \in D PROVE name \in NamesIn(s)
    <3>1. PICK i \in 1 .. Len(s) : s[i] = <<name, m[name]>>
      BY <1>7, <1>9
    <3>2. s[i][1] = name
      BY <1>7, <3>1
    <3> QED
      BY <3>2 DEF NamesIn
  <2> QED
    BY <2>1, <2>2
<1>14. MapOf(s) \in [D -> B] /\ Gives(MapOf(s), s)
  BY <1>11, <1>12, <1>13, MapOfOnce
<1>15. ASSUME NEW name \in D PROVE MapOf(s)[name] = m[name]
  <2>1. PICK i \in 1 .. Len(s) : s[i][1] = name
    BY <1>13 DEF NamesIn
  <2>2. s[i][2] = m[name]
    BY <1>6, <1>10, <2>1
  <2>3. MapOf(s)[s[i][1]] = s[i][2]
    BY <1>14 DEF Gives
  <2> QED
    BY <2>1, <2>2, <2>3
<1>16. MapOf(s) = m
  BY <1>1, <1>14, <1>15
<1>17. Len(s) = Cardinality(D)
  BY <1>11, <1>12, <1>13, NamesCounted
<1>18. /\ \A name : Bound(Large(m), name) <=> name \in D
       /\ \A name \in D : ValueIn(Large(m), name) = m[name]
  BY <1>2 DEF Bound, ValueIn, D
<1> QED
  BY <1>3, <1>16, <1>17, <1>18 DEF ReadsAs, D

\* A scope made of some pairs and given others, whatever and however many they are, is
\* read as the map of all of them, the last value of a name being its value: across the
\* step from the array to the map, with names that come twice, and gone through once
\* for each name (insert, get, contains and iter in src/env.rs).
THEOREM ScopesAreMaps ==
    ASSUME NEW A, NEW B, NEW r \in Seq(A \X B), NEW s \in Seq(A \X B)
    PROVE  ReadsAs(Inserted(WithSlice(r), s), MapOf(r \o s))
<1> DEFINE b == Inserted(WithSlice(r), s)  t == r \o s
<1>1. t \in Seq(A \X B)
  OBVIOUS
<1>2. Stands(b, MapOf(t), A, B)
  BY ScopeStands
<1> HIDE DEF b, t
<1>3. MapOf(t) \in MapsOf(A, B) /\ IsFiniteSet(DOMAIN MapOf(t))
  BY <1>1, MapMore, MapFinite
<1>4. ASSUME b = Large(MapOf(t)) PROVE ReadsAs(b, MapOf(t))
  BY <1>3, <1>4, LargeReads
<1>5. ASSUME NEW e \in Seq(A \X B), b = Small(e), NamesOnce(e), MapOf(t) = MapOf(e)
      PROVE  ReadsAs(b, MapOf(t))
  BY <1>5, SmallReads
<1>6. ReadsAs(b, MapOf(t))
  BY <1>2, <1>4, <1>5 DEF Stands
<1> QED
  BY <1>6 DEF b, t

\* Some names, each with a number.
LEMMA NamedPairs ==
    ASSUME NEW S, S \subseteq Nat, NEW n, NEW s \in SeqOf(S, n), n \in Nat, NEW v,
           \A i \in Nat : v[i] \in Nat
    PROVE  [i \in DOMAIN s |-> <<s[i], v[i]>>] \in Seq(Nat \X Nat)
<1>1. PICK m \in 0 .. n : s \in [1 .. m -> S]
  BY DEF SeqOf
<1>2. m \in Nat /\ DOMAIN s = 1 .. m /\ \A i \in 1 .. m : i \in Nat
  BY <1>1, SMT
<1>3. \A i \in 1 .. m : s[i] \in Nat
  BY <1>1
<1>4. [i \in 1 .. m |-> <<s[i], v[i]>>] \in [1 .. m -> Nat \X Nat]
  BY <1>2, <1>3
<1>5. [1 .. m -> Nat \X Nat] \subseteq Seq(Nat \X Nat)
  BY <1>2
<1> QED
  BY <1>2, <1>4, <1>5

\* The scopes the runs look at are among them.
LEMMA ScopesBehave == BehavesAsMap
<1>1. ASSUME NEW params \in SeqOf({1, 2, 3}, 3), NEW assigned \in SeqOf({1, 2, 3, 4}, 3)
      PROVE  LET made == [i \in DOMAIN params |-> <<params[i], i>>]
                 later == [i \in DOMAIN assigned |-> <<assigned[i], 10 + i>>] IN
             ReadsAs(Inserted(WithSlice(made), later), MapOf(made \o later))
  <2> DEFINE made == [i \in DOMAIN params |-> <<params[i], i>>]
             later == [i \in DOMAIN assigned |-> <<assigned[i], 10 + i>>]
             v == [i \in Nat |-> i]
             u == [i \in Nat |-> 10 + i]
  <2>1. /\ {1, 2, 3} \subseteq Nat /\ {1, 2, 3, 4} \subseteq Nat /\ 3 \in Nat
        /\ \A i \in Nat : v[i] \in Nat /\ u[i] \in Nat
    BY SMT
  <2>2. DOMAIN params \subseteq Nat /\ DOMAIN assigned \subseteq Nat
    BY SMT DEF SeqOf
  <2>3. \A i \in Nat : v[i] = i /\ u[i] = 10 + i
    OBVIOUS
  <2> HIDE DEF v, u
  <2>4. [i \in DOMAIN params |-> <<params[i], v[i]>>] \in Seq(Nat \X Nat)
    BY <2>1, NamedPairs
  <2>5. [i \in DOMAIN assigned |-> <<assigned[i], u[i]>>] \in Seq(Nat \X Nat)
    BY <2>1, NamedPairs
  <2>6. made = [i \in DOMAIN params |-> <<params[i], v[i]>>]
    BY <2>2, <2>3
  <2>7. later = [i \in DOMAIN assigned |-> <<assigned[i], u[i]>>]
    BY <2>2, <2>3
  <2>8. made \in Seq(Nat \X Nat) /\ later \in Seq(Nat \X Nat)
    BY <2>4, <2>5, <2>6, <2>7
  <2> HIDE DEF made, later
  <2>9. ReadsAs(Inserted(WithSlice(made), later), MapOf(made \o later))
    BY <2>8, ScopesAreMaps
  <2> QED
    BY <2>9 DEF made, later
<1> QED
  BY <1>1 DEF BehavesAsMap, ReadsAs

\* What BindingsAreAMap says of the scopes it looks at, when a run begins or at any time,
\* is an instance of what holds of all scopes (src/env.rs).
THEOREM BindingsAreAMapHolds == Spec => []BindingsAreAMap
<1>1. BindingsAreAMap
  BY ScopesBehave DEF BindingsAreAMap
<1> QED
  BY <1>1, PTL

==============================================================================
