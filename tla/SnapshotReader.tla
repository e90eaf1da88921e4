--------------------------- MODULE SnapshotReader ---------------------------
(***************************************************************************)
(* What src/snapshot.rs reads: one table for each read_ function, and the  *)
(* checks of read_runtime.                                                 *)
(***************************************************************************)
EXTENDS Wire, FiniteSetsExt

CONSTANTS
    MaxHostDepth,  \* MAX_HOST_VALUE_DEPTH
    Readable       \* the table of each type: ReaderTables below

ASSUME ReaderAssumption == MaxHostDepth \in Nat

ReadBinaryOp == Enum(<<"Add", "Sub", "Mul", "Div", "Mod", "Pow", "Eq", "Ne", "Lt", "Le", "Gt",
                       "Ge", "And", "Or", "BitAnd", "BitOr", "BitXor", "Shl", "Shr", "UShr",
                       "NullishCoalesce">>)
ReadUnaryOp == Enum(<<"Neg", "Not", "BitNot", "TypeOf", "Plus", "PreInc", "PreDec", "PostInc",
                      "PostDec">>)
ReadNativeFn == Enum(<<"MathFloor", "MathCeil", "MathRound", "MathAbs", "MathSqrt", "MathPow",
                       "MathMin", "MathMax", "MathSin", "MathCos", "MathLog", "MathExp",
                       "MathTrunc", "MathSign">>)

Flag(names) == Fields(names, Num("u8"))
Count(names) == Fields(names, Num("u16"))
AValue(name) == Fields(<<name>>, One("Value"))
SomeValues(name) == Fields(<<name>>, Many(One("Value")))

ReadValue == {
    Variant(0, "Undefined", <<>>),
    Variant(1, "Null", <<>>),
    Variant(2, "Bool", Flag(<<"b">>)),
    Variant(3, "Int", Fields(<<"n">>, Num("i32"))),
    Variant(4, "Float", Fields(<<"f">>, Num("f64"))),
    Variant(5, "String", Ids(<<"s">>)),
    Variant(6, "Object", Ids(<<"o">>)),
    Variant(7, "Function", Ids(<<"o">>)),
    Variant(8, "Array", Ids(<<"o">>)),
    Variant(9, "Handler", Ids(<<"h">>)),
    Variant(10, "Continuation", Ids(<<"k", "env">>))}

ReadHostValue == {
    Variant(0, "Undefined", <<>>),
    Variant(1, "Null", <<>>),
    Variant(2, "Bool", Flag(<<"b">>)),
    Variant(3, "Int", Fields(<<"n">>, Num("i32"))),
    Variant(4, "Float", Fields(<<"f">>, Num("f64"))),
    Variant(5, "Str", Fields(<<"s">>, Num("str"))),
    Variant(6, "Array", Fields(<<"items">>, Many(One("HostValue")))),
    Variant(7, "Object", Fields(<<"pairs">>, Many(One("HostPair"))))}

ReadHostPair == {Variant(Untagged, "HostPair",
    Fields(<<"key">>, Num("str")) \o Fields(<<"value">>, One("HostValue")))}

ReadObject == {Variant(Untagged, "Object",
    Fields(<<"properties">>, Many(One("Property")))
    \o Fields(<<"prototype">>, Opt(Num("u32"))) \o Fields(<<"kind">>, One("ObjectKind")))}

ReadProperty == {Variant(Untagged, "Property",
    Ids(<<"key">>) \o AValue("value") \o Flag(<<"writable", "enumerable", "configurable">>))}

ReadObjectKind == {
    Variant(0, "Ordinary", <<>>),
    Variant(1, "Array", SomeValues("elements")),
    Variant(2, "Function",
        Ids(<<"params_start">>) \o Count(<<"params_count">>) \o Ids(<<"body">>)
        \o Fields(<<"expr_body">>, Opt(Num("u32"))) \o Ids(<<"env">>)
        \o Fields(<<"name">>, Opt(Num("u32")))),
    Variant(3, "BoundFunction", Ids(<<"target">>) \o AValue("this_arg") \o SomeValues("bound_args")),
    Variant(4, "NativeFunction", Fields(<<"native">>, One("NativeFn")))}

ReadEnv == {Variant(Untagged, "Env",
    Fields(<<"bindings">>, Many(One("Binding"))) \o Fields(<<"parent">>, Opt(Num("u32"))))}

ReadBinding == {Variant(Untagged, "Binding", Ids(<<"key">>) \o AValue("value"))}

\* Mutant of ReadHandler: the fields in the order of the frame's table.
ReadHandlerAsFrame == {Variant(Untagged, "Handler",
    Ids(<<"clauses_start">>) \o Count(<<"clauses_count">>)
    \o Ids(<<"env", "return_body", "return_param">>))}

ReadHandler == {Variant(Untagged, "Handler",
    Ids(<<"clauses_start">>) \o Count(<<"clauses_count">>)
    \o Ids(<<"return_param", "return_body", "env">>))}

ReadControl == {
    Variant(0, "Expr", Ids(<<"e">>)),
    Variant(1, "Stmt", Ids(<<"s">>)),
    Variant(2, "Value", AValue("v")),
    Variant(3, "Returning", AValue("v")),
    Variant(4, "Halted", AValue("v")),
    Variant(5, "Suspend", Ids(<<"effect">>) \o SomeValues("args"))}

ReadFiberStatus == {
    Variant(0, "Ready", <<>>),
    Variant(1, "Running", <<>>),
    Variant(2, "Blocked", Ids(<<"effect">>) \o SomeValues("args")),
    Variant(3, "Completed", AValue("v")),
    Variant(4, "Failed", Fields(<<"message">>, Num("str"))),
    Variant(5, "BlockedOnHost", Ids(<<"effect">>) \o Fields(<<"args">>, Many(One("HostValue"))))}

ReadFiber == {Variant(Untagged, "Fiber",
    Ids(<<"id">>) \o Fields(<<"control">>, One("Control")) \o Ids(<<"cont", "env">>)
    \o Fields(<<"status">>, One("FiberStatus")) \o Ids(<<"meter">>))}

-----------------------------------------------------------------------------
(* The frames. *)

ReadOperatorKonts == {
    Variant(0, "Halt", <<>>),
    Variant(1, "UnaryK", Fields(<<"op">>, One("UnaryOp")) \o Ids(<<"k">>)),
    Variant(2, "BinaryLeftK", Fields(<<"op">>, One("BinaryOp")) \o Ids(<<"right", "env", "k">>)),
    Variant(3, "BinaryRightK", Fields(<<"op">>, One("BinaryOp")) \o AValue("left") \o Ids(<<"k">>)),
    Variant(4, "AndK", Ids(<<"right", "env", "k">>)),
    Variant(5, "OrK", Ids(<<"right", "env", "k">>)),
    Variant(6, "NullishK", Ids(<<"right", "env", "k">>)),
    Variant(7, "MemberK", Ids(<<"property", "k">>)),
    Variant(8, "IndexObjK", Ids(<<"index", "env", "k">>)),
    Variant(9, "IndexKeyK", AValue("obj") \o Ids(<<"k">>)),
    Variant(10, "AssignVarK", Ids(<<"name", "env", "k">>)),
    Variant(11, "UpdateVarK", Ids(<<"name">>) \o Flag(<<"is_pre", "is_inc">>) \o Ids(<<"env", "k">>)),
    Variant(12, "AssignMemberObjK", Ids(<<"property", "value", "env", "k">>)),
    Variant(13, "AssignMemberValK", AValue("obj") \o Ids(<<"property", "k">>)),
    Variant(14, "AssignIndexObjK", Ids(<<"index", "value", "env", "k">>)),
    Variant(15, "AssignIndexKeyK", AValue("obj") \o Ids(<<"value", "env", "k">>)),
    Variant(16, "AssignIndexValK", AValue("obj") \o AValue("key") \o Ids(<<"k">>))}

ReadControlKonts == {
    Variant(17, "IfK", Ids(<<"consequent", "alternate", "env", "k">>)),
    Variant(18, "CondK", Ids(<<"consequent", "alternate", "env", "k">>)),
    Variant(19, "WhileK", Ids(<<"test", "body", "env", "k">>)),
    Variant(20, "WhileBodyK", Ids(<<"test", "body", "env", "k">>)),
    Variant(21, "ForTestK", Ids(<<"test", "update", "body", "env", "k">>)),
    Variant(22, "ForTestResultK", Ids(<<"test", "update", "body", "env", "k">>)),
    Variant(23, "ForBodyK", Ids(<<"test", "update", "body", "env", "k">>)),
    Variant(24, "ForUpdateK", Ids(<<"test", "update", "body", "env", "k">>)),
    Variant(25, "CalleeK", Ids(<<"args_start">>) \o Count(<<"args_count">>) \o Ids(<<"env", "k">>)),
    Variant(26, "ArgsK", AValue("callee") \o SomeValues("done") \o Ids(<<"args_start">>)
        \o Count(<<"args_idx", "args_count">>) \o Ids(<<"env", "k">>)),
    Variant(27, "ReturnK", Ids(<<"env", "k">>)),
    Variant(28, "ReturnExprK", Ids(<<"k">>))}

ReadCollectingKonts == {
    Variant(29, "ArrayK", SomeValues("done") \o Ids(<<"elems_start">>)
        \o Count(<<"elems_idx", "elems_count">>) \o Ids(<<"env", "k">>)),
    Variant(30, "ObjectK", Fields(<<"done">>, Many(One("Binding"))) \o Ids(<<"props_start">>)
        \o Count(<<"props_idx", "props_count">>) \o Ids(<<"env", "k">>)),
    Variant(31, "LetK", Ids(<<"name", "env", "k">>)),
    Variant(32, "ConstK", Ids(<<"name", "env", "k">>)),
    Variant(33, "VarK", Ids(<<"name", "env", "k">>)),
    Variant(34, "SeqK", Ids(<<"stmts_start", "stmts_idx", "stmts_count", "env", "k">>)),
    Variant(35, "ExprStmtK", Ids(<<"k">>)),
    Variant(36, "BlockK",
        Ids(<<"stmts_start", "stmts_idx", "stmts_count", "final_expr", "env", "k">>)),
    Variant(37, "MatchK",
        Ids(<<"arms_start">>) \o Count(<<"arms_idx", "arms_count">>) \o Ids(<<"env", "k">>)),
    Variant(38, "HandlerK", Ids(<<"clauses_start">>) \o Count(<<"clauses_count">>)
        \o Ids(<<"env", "return_body", "return_param", "k">>)),
    Variant(39, "PerformArgsK", Ids(<<"effect">>) \o SomeValues("done") \o Ids(<<"args_start">>)
        \o Count(<<"args_idx", "args_count">>) \o Ids(<<"env", "k">>)),
    Variant(40, "HandleWithK", Ids(<<"body", "env", "k">>))}

-----------------------------------------------------------------------------
(* The program. *)

ReadExpr == {
    Variant(0, "Empty", <<>>),
    Variant(1, "Undefined", <<>>),
    Variant(2, "Null", <<>>),
    Variant(3, "Bool", Flag(<<"b">>)),
    Variant(4, "Int", Fields(<<"n">>, Num("i32"))),
    Variant(5, "Float", Ids(<<"idx">>)),
    Variant(6, "String", Ids(<<"s">>)),
    Variant(7, "Identifier", Ids(<<"s">>)),
    Variant(8, "Binary", Fields(<<"op">>, One("BinaryOp")) \o Ids(<<"left", "right">>)),
    Variant(9, "Unary", Fields(<<"op">>, One("UnaryOp")) \o Ids(<<"operand">>)),
    Variant(10, "Call", Ids(<<"callee", "args_start">>) \o Count(<<"args_count">>)),
    Variant(11, "Member", Ids(<<"object", "property">>)),
    Variant(12, "Index", Ids(<<"object", "index">>)),
    Variant(13, "Assign", Ids(<<"target", "value">>)),
    Variant(14, "Conditional", Ids(<<"test", "consequent", "alternate">>)),
    Variant(15, "Array", Ids(<<"elems_start">>) \o Count(<<"elems_count">>)),
    Variant(16, "Object", Ids(<<"props_start">>) \o Count(<<"props_count">>)),
    Variant(17, "Function",
        Ids(<<"name", "params_start">>) \o Count(<<"params_count">>) \o Ids(<<"body">>)),
    Variant(18, "Handler", Ids(<<"clauses_start">>) \o Count(<<"clauses_count">>)
        \o Ids(<<"return_param", "return_body">>)),
    Variant(19, "Arrow", Ids(<<"params_start">>) \o Count(<<"params_count">>) \o Ids(<<"body">>)
        \o Flag(<<"is_block">>)),
    Variant(20, "This", <<>>),
    Variant(21, "Block", Ids(<<"stmts_start", "stmts_count", "final_expr">>)),
    Variant(22, "Match", Ids(<<"scrutinee", "arms_start">>) \o Count(<<"arms_count">>)),
    Variant(23, "Perform", Ids(<<"effect", "args_start">>) \o Count(<<"args_count">>)),
    Variant(24, "Handle", Ids(<<"body", "clauses_start">>) \o Count(<<"clauses_count">>)
        \o Ids(<<"return_param", "return_body">>)),
    Variant(25, "HandleWith", Ids(<<"body", "handler">>))}

ReadStmt == {
    Variant(0, "Empty", <<>>),
    Variant(1, "Expr", Ids(<<"e">>)),
    Variant(2, "Let", Ids(<<"name", "init">>)),
    Variant(3, "Const", Ids(<<"name", "init">>)),
    Variant(4, "Var", Ids(<<"name", "init">>)),
    Variant(5, "If", Ids(<<"test", "consequent", "alternate">>)),
    Variant(6, "While", Ids(<<"test", "body">>)),
    Variant(7, "For", Ids(<<"init", "test", "update", "body">>)),
    Variant(8, "Block", Ids(<<"stmts_start", "stmts_count">>)),
    Variant(9, "Declarations", Ids(<<"stmts_start", "stmts_count">>)),
    Variant(10, "Return", Ids(<<"e">>)),
    Variant(11, "Break", <<>>),
    Variant(12, "Continue", <<>>),
    Variant(13, "Function",
        Ids(<<"name", "params_start">>) \o Count(<<"params_count">>) \o Ids(<<"body">>))}

ReadPattern == {
    Variant(0, "Wildcard", <<>>),
    Variant(1, "Literal", Ids(<<"e">>)),
    Variant(2, "Var", Ids(<<"s">>)),
    Variant(3, "Array", Ids(<<"elems_start">>) \o Count(<<"elems_count">>)),
    Variant(4, "Object", Ids(<<"fields_start">>) \o Count(<<"fields_count">>))}

ReadAst == {Variant(Untagged, "Ast", Rows(<<
    <<"exprs", Many(One("Expr"))>>, <<"stmts", Many(One("Stmt"))>>,
    <<"patterns", Many(One("Pattern"))>>, <<"expr_lists", Many(Num("u32"))>>,
    <<"stmt_lists", Many(Num("u32"))>>, <<"param_lists", Many(Num("u32"))>>,
    <<"prop_lists", Many(One("PropEntry"))>>, <<"pattern_lists", Many(Num("u32"))>>,
    <<"pattern_fields", Many(One("PatternField"))>>, <<"arms", Many(One("MatchArm"))>>,
    <<"effect_clauses", Many(One("EffectClause"))>>, <<"floats", Many(Num("f64"))>>,
    <<"root_start", Num("u32")>>, <<"root_count", Num("u32")>>>>))}

ReadPropEntry == {Variant(Untagged, "PropEntry", Ids(<<"key", "value">>))}
ReadPatternField == {Variant(Untagged, "PatternField", Ids(<<"key", "pattern">>))}
ReadMatchArm == {Variant(Untagged, "MatchArm", Ids(<<"pattern", "guard", "body">>))}
ReadEffectClause == {Variant(Untagged, "EffectClause",
    Ids(<<"effect", "params_start">>) \o Count(<<"params_count">>) \o Ids(<<"body">>))}

-----------------------------------------------------------------------------
(* The runtime. *)

ReadArena(elem) == {Variant(Untagged, "Arena",
    Fields(<<"slots">>, Many(One(elem))) \o Fields(<<"free_list">>, Many(Num("u32")))
    \o Fields(<<"allocations">>, Num("u64")))}

ReadWaiters == {Variant(Untagged, "Waiters",
    Ids(<<"fiber">>) \o Fields(<<"waiters">>, Many(Num("u32"))))}
ReadEffectKind == Enum(<<"Print", "Fork", "Join", "Gc", "Snapshot", "Host">>)
ReadGrant == {Variant(Untagged, "Grant",
    Ids(<<"name">>) \o Fields(<<"kind">>, One("EffectKind")))}
ReadMeter == {Variant(Untagged, "Meter",
    Fields(<<"remaining">>, Opt(Num("u64"))) \o Fields(<<"parent">>, Opt(Num("u32"))))}

ReadRuntime == {Variant(Untagged, "Runtime", Rows(<<
    <<"magic", Num("magic")>>, <<"version", Num("u8")>>, <<"strings", Many(Num("str"))>>,
    <<"ast", One("Ast")>>, <<"objects", One("Objects")>>, <<"envs", One("Envs")>>,
    <<"conts", One("Conts")>>, <<"handlers", One("Handlers")>>, <<"control", One("Control")>>,
    <<"env", Num("u32")>>, <<"cont", Num("u32")>>, <<"globals", Many(One("Binding"))>>,
    <<"fibers", Many(One("Fiber"))>>, <<"ready_queue", Many(Num("u32"))>>,
    <<"next_fiber_id", Num("u32")>>, <<"join_waiters", Many(One("Waiters"))>>,
    <<"effects", Many(One("Grant"))>>, <<"meters", Many(One("Meter"))>>,
    <<"steps_total", Num("u64")>>, <<"quantum", Num("u64")>>>>))}

ReaderTables == [
    BinaryOp |-> ReadBinaryOp, UnaryOp |-> ReadUnaryOp, NativeFn |-> ReadNativeFn,
    Value |-> ReadValue, HostValue |-> ReadHostValue, HostPair |-> ReadHostPair,
    Object |-> ReadObject, Property |-> ReadProperty, ObjectKind |-> ReadObjectKind,
    Env |-> ReadEnv, Binding |-> ReadBinding, Handler |-> ReadHandler,
    Kont |-> ReadOperatorKonts \cup ReadControlKonts \cup ReadCollectingKonts,
    Control |-> ReadControl, FiberStatus |-> ReadFiberStatus, Fiber |-> ReadFiber,
    Expr |-> ReadExpr, Stmt |-> ReadStmt, Pattern |-> ReadPattern,
    Ast |-> ReadAst, PropEntry |-> ReadPropEntry, PatternField |-> ReadPatternField,
    MatchArm |-> ReadMatchArm, EffectClause |-> ReadEffectClause,
    Objects |-> ReadArena("Object"), Envs |-> ReadArena("Env"),
    Conts |-> ReadArena("Kont"), Handlers |-> ReadArena("Handler"),
    Waiters |-> ReadWaiters, EffectKind |-> ReadEffectKind, Grant |-> ReadGrant,
    Meter |-> ReadMeter, Runtime |-> ReadRuntime]

ASSUME ReadableAssumption == Readable = ReaderTables

-----------------------------------------------------------------------------
(* From the bytes to a runtime. *)

Magic == 1
Version == 3

\* The host values directly inside one.
InsideHost(v) ==
    CASE v.is = "Array" -> v.f.items
      [] v.is = "Object" -> [i \in DOMAIN v.f.pairs |-> v.f.pairs[i].f.value]
      [] OTHER -> <<>>

\* read_host_value_at gives up below MAX_HOST_VALUE_DEPTH.
HostArgsReadable(fiber) ==
    LET status == fiber.f.status
        below[n \in 0 .. MaxHostDepth + 1] ==
            IF n = 0 THEN status.f.args
            ELSE LET above == below[n - 1] IN
                 FlattenSeq([i \in DOMAIN above |-> InsideHost(above[i])])
    IN  status.is = "BlockedOnHost" => below[MaxHostDepth + 1] = <<>>

\* A parent precedes its child, which rules out cycles; slot 0 has no parent.
MetersOrdered(meters) ==
    \A i \in DOMAIN meters : \A p \in Range(meters[i].f.parent) : p < i - 1

\* The checks of read_runtime.
Acceptable(rt) ==
    /\ rt.magic = Magic
    /\ rt.version = Version
    /\ rt.envs.f.slots # <<>>
    /\ rt.conts.f.slots # <<>>
    /\ rt.meters # <<>>
    /\ MetersOrdered(rt.meters)
    /\ \A i \in DOMAIN rt.fibers : /\ rt.fibers[i].f.meter < Len(rt.meters)
                                   /\ HostArgsReadable(rt.fibers[i])
    /\ rt.quantum > 0

\* Interning into a pool that starts with the empty string, 0.
Interned(strings) ==
    FoldLeft(LAMBDA pool, s : IF s \in Range(pool) THEN pool ELSE Append(pool, s), <<0>>, strings)

Checked(got) ==
    IF got.ok /\ Acceptable(got.x.f)
    THEN Got([got.x EXCEPT !.f.strings = Interned(got.x.f.strings)], got.pos)
    ELSE Failed

\* read_runtime; bytes behind the end are not looked at.
ReadSnapshot(s) == Checked(Get(Readable, One("Runtime"), s, 1))
=============================================================================
