--------------------------- MODULE SnapshotWriter ---------------------------
(***************************************************************************)
(* What src/snapshot.rs writes: one table for each write_ function.        *)
(***************************************************************************)
EXTENDS Wire

CONSTANT Written  \* the table of each type: WriterTables below

\* The enums written as their discriminant, in the order of their declaration.
BinaryOps == Enum(<<"Add", "Sub", "Mul", "Div", "Mod", "Pow", "Eq", "Ne", "Lt", "Le", "Gt", "Ge",
                    "And", "Or", "BitAnd", "BitOr", "BitXor", "Shl", "Shr", "UShr",
                    "NullishCoalesce">>)
UnaryOps == Enum(<<"Neg", "Not", "BitNot", "TypeOf", "Plus", "PreInc", "PreDec", "PostInc",
                   "PostDec">>)
NativeFns == Enum(<<"MathFloor", "MathCeil", "MathRound", "MathAbs", "MathSqrt", "MathPow",
                    "MathMin", "MathMax", "MathSin", "MathCos", "MathLog", "MathExp",
                    "MathTrunc", "MathSign">>)

WriteValue == {
    Variant(0, "Undefined", <<>>),
    Variant(1, "Null", <<>>),
    Variant(2, "Bool", Fields(<<"b">>, Num("u8"))),
    Variant(3, "Int", Fields(<<"n">>, Num("i32"))),
    Variant(4, "Float", Fields(<<"f">>, Num("f64"))),
    Variant(5, "String", Ids(<<"s">>)),
    Variant(6, "Object", Fields(<<"o">>, Ref("objects"))),
    Variant(7, "Function", Fields(<<"o">>, Ref("objects"))),
    Variant(8, "Array", Fields(<<"o">>, Ref("objects"))),
    Variant(9, "Handler", Fields(<<"h">>, Ref("handlers"))),
    Variant(10, "Continuation", K \o Env)}

WriteHostValue == {
    Variant(0, "Undefined", <<>>),
    Variant(1, "Null", <<>>),
    Variant(2, "Bool", Fields(<<"b">>, Num("u8"))),
    Variant(3, "Int", Fields(<<"n">>, Num("i32"))),
    Variant(4, "Float", Fields(<<"f">>, Num("f64"))),
    Variant(5, "Str", Fields(<<"s">>, Num("str"))),
    Variant(6, "Array", Fields(<<"items">>, Many(One("HostValue")))),
    Variant(7, "Object", Fields(<<"pairs">>, Many(One("HostPair"))))}

WriteHostPair == {Variant(Untagged, "HostPair",
    Fields(<<"key">>, Num("str")) \o Fields(<<"value">>, One("HostValue")))}

\* An object is its properties, its prototype and its kind.
WriteObject == {Variant(Untagged, "Object",
    Fields(<<"properties">>, Many(One("Property")))
    \o Fields(<<"prototype">>, Opt(Ref("objects"))) \o Fields(<<"kind">>, One("ObjectKind")))}

WriteProperty == {Variant(Untagged, "Property",
    Ids(<<"key">>) \o Fields(<<"value">>, One("Value"))
    \o Fields(<<"writable", "enumerable", "configurable">>, Num("u8")))}

WriteObjectKind == {
    Variant(0, "Ordinary", <<>>),
    Variant(1, "Array", Fields(<<"elements">>, Many(One("Value")))),
    Variant(2, "Function",
        Ids(<<"params_start">>) \o Fields(<<"params_count">>, Num("u16")) \o Ids(<<"body">>)
        \o Fields(<<"expr_body">>, Opt(Num("u32"))) \o Env
        \o Fields(<<"name">>, Opt(Num("u32")))),
    Variant(3, "BoundFunction",
        Fields(<<"target">>, Ref("objects")) \o Fields(<<"this_arg">>, One("Value"))
        \o Fields(<<"bound_args">>, Many(One("Value")))),
    Variant(4, "NativeFunction", Fields(<<"native">>, One("NativeFn")))}

WriteEnv == {Variant(Untagged, "Env",
    Fields(<<"bindings">>, Many(One("Binding"))) \o Fields(<<"parent">>, Opt(Ref("envs"))))}

WriteBinding == {Variant(Untagged, "Binding",
    Ids(<<"key">>) \o Fields(<<"value">>, One("Value")))}

WriteHandler == {Variant(Untagged, "Handler",
    Ids(<<"clauses_start">>) \o Fields(<<"clauses_count">>, Num("u16"))
    \o Ids(<<"return_param", "return_body">>) \o Env)}

WriteControl == {
    Variant(0, "Expr", Ids(<<"e">>)),
    Variant(1, "Stmt", Ids(<<"s">>)),
    Variant(2, "Value", Fields(<<"v">>, One("Value"))),
    Variant(3, "Returning", Fields(<<"v">>, One("Value"))),
    Variant(4, "Halted", Fields(<<"v">>, One("Value"))),
    Variant(5, "Suspend", Ids(<<"effect">>) \o Fields(<<"args">>, Many(One("Value"))))}

\* A failure is written as its message.
WriteFiberStatus == {
    Variant(0, "Ready", <<>>),
    Variant(1, "Running", <<>>),
    Variant(2, "Blocked", Ids(<<"effect">>) \o Fields(<<"args">>, Many(One("Value")))),
    Variant(3, "Completed", Fields(<<"v">>, One("Value"))),
    Variant(4, "Failed", Fields(<<"message">>, Num("str"))),
    Variant(5, "BlockedOnHost",
        Ids(<<"effect">>) \o Fields(<<"args">>, Many(One("HostValue"))))}

WriteFiber == {Variant(Untagged, "Fiber",
    Ids(<<"id">>) \o Fields(<<"control">>, One("Control"))
    \o Fields(<<"cont">>, Ref("conts")) \o Env
    \o Fields(<<"status">>, One("FiberStatus")) \o Ids(<<"meter">>))}

-----------------------------------------------------------------------------
(* The frames. *)

Value1(name) == Fields(<<name>>, One("Value"))
Values(name) == Fields(<<name>>, Many(One("Value")))
U16(names) == Fields(names, Num("u16"))

\* operators, properties and assignments
WriteOperatorKonts == {
    Variant(0, "Halt", <<>>),
    Variant(1, "UnaryK", Fields(<<"op">>, One("UnaryOp")) \o K),
    Variant(2, "BinaryLeftK", Fields(<<"op">>, One("BinaryOp")) \o Ids(<<"right">>) \o Env \o K),
    Variant(3, "BinaryRightK", Fields(<<"op">>, One("BinaryOp")) \o Value1("left") \o K),
    Variant(4, "AndK", Ids(<<"right">>) \o Env \o K),
    Variant(5, "OrK", Ids(<<"right">>) \o Env \o K),
    Variant(6, "NullishK", Ids(<<"right">>) \o Env \o K),
    Variant(7, "MemberK", Ids(<<"property">>) \o K),
    Variant(8, "IndexObjK", Ids(<<"index">>) \o Env \o K),
    Variant(9, "IndexKeyK", Value1("obj") \o K),
    Variant(10, "AssignVarK", Ids(<<"name">>) \o Env \o K),
    Variant(11, "UpdateVarK",
        Ids(<<"name">>) \o Fields(<<"is_pre", "is_inc">>, Num("u8")) \o Env \o K),
    Variant(12, "AssignMemberObjK", Ids(<<"property", "value">>) \o Env \o K),
    Variant(13, "AssignMemberValK", Value1("obj") \o Ids(<<"property">>) \o K),
    Variant(14, "AssignIndexObjK", Ids(<<"index", "value">>) \o Env \o K)}

\* the rest of assignment, conditions, loops and calls
WriteControlKonts == {
    Variant(15, "AssignIndexKeyK", Value1("obj") \o Ids(<<"value">>) \o Env \o K),
    Variant(16, "AssignIndexValK", Value1("obj") \o Value1("key") \o K),
    Variant(17, "IfK", Ids(<<"consequent", "alternate">>) \o Env \o K),
    Variant(18, "CondK", Ids(<<"consequent", "alternate">>) \o Env \o K),
    Variant(19, "WhileK", Ids(<<"test", "body">>) \o Env \o K),
    Variant(20, "WhileBodyK", Ids(<<"test", "body">>) \o Env \o K),
    Variant(21, "ForTestK", Ids(<<"test", "update", "body">>) \o Env \o K),
    Variant(22, "ForTestResultK", Ids(<<"test", "update", "body">>) \o Env \o K),
    Variant(23, "ForBodyK", Ids(<<"test", "update", "body">>) \o Env \o K),
    Variant(24, "ForUpdateK", Ids(<<"test", "update", "body">>) \o Env \o K),
    Variant(25, "CalleeK", Ids(<<"args_start">>) \o U16(<<"args_count">>) \o Env \o K)}

\* arguments, literals, bindings, sequences, matches and handlers
WriteCollectingKonts == {
    Variant(26, "ArgsK", Value1("callee") \o Values("done") \o Ids(<<"args_start">>)
        \o U16(<<"args_idx", "args_count">>) \o Env \o K),
    Variant(27, "ReturnK", Env \o K),
    Variant(28, "ReturnExprK", K),
    Variant(29, "ArrayK", Values("done") \o Ids(<<"elems_start">>)
        \o U16(<<"elems_idx", "elems_count">>) \o Env \o K),
    Variant(30, "ObjectK", Fields(<<"done">>, Many(One("Binding"))) \o Ids(<<"props_start">>)
        \o U16(<<"props_idx", "props_count">>) \o Env \o K),
    Variant(31, "LetK", Ids(<<"name">>) \o Env \o K),
    Variant(32, "ConstK", Ids(<<"name">>) \o Env \o K),
    Variant(33, "VarK", Ids(<<"name">>) \o Env \o K),
    Variant(34, "SeqK", Ids(<<"stmts_start", "stmts_idx", "stmts_count">>) \o Env \o K),
    Variant(35, "ExprStmtK", K),
    Variant(36, "BlockK",
        Ids(<<"stmts_start", "stmts_idx", "stmts_count", "final_expr">>) \o Env \o K)}

WriteEffectKonts == {
    Variant(37, "MatchK", Ids(<<"arms_start">>) \o U16(<<"arms_idx", "arms_count">>) \o Env \o K),
    Variant(38, "HandlerK", Ids(<<"clauses_start">>) \o U16(<<"clauses_count">>) \o Env
        \o Ids(<<"return_body", "return_param">>) \o K),
    Variant(39, "PerformArgsK", Ids(<<"effect">>) \o Values("done") \o Ids(<<"args_start">>)
        \o U16(<<"args_idx", "args_count">>) \o Env \o K),
    Variant(40, "HandleWithK", Ids(<<"body">>) \o Env \o K)}

WriteKont == WriteOperatorKonts \cup WriteControlKonts \cup WriteCollectingKonts
             \cup WriteEffectKonts

-----------------------------------------------------------------------------
(* The program. *)

WriteSimpleExprs == {
    Variant(0, "Empty", <<>>),
    Variant(1, "Undefined", <<>>),
    Variant(2, "Null", <<>>),
    Variant(3, "Bool", Fields(<<"b">>, Num("u8"))),
    Variant(4, "Int", Fields(<<"n">>, Num("i32"))),
    Variant(5, "Float", Ids(<<"idx">>)),
    Variant(6, "String", Ids(<<"s">>)),
    Variant(7, "Identifier", Ids(<<"s">>)),
    Variant(8, "Binary", Fields(<<"op">>, One("BinaryOp")) \o Ids(<<"left", "right">>)),
    Variant(9, "Unary", Fields(<<"op">>, One("UnaryOp")) \o Ids(<<"operand">>)),
    Variant(10, "Call", Ids(<<"callee", "args_start">>) \o U16(<<"args_count">>)),
    Variant(11, "Member", Ids(<<"object", "property">>)),
    Variant(12, "Index", Ids(<<"object", "index">>)),
    Variant(13, "Assign", Ids(<<"target", "value">>)),
    Variant(14, "Conditional", Ids(<<"test", "consequent", "alternate">>)),
    Variant(15, "Array", Ids(<<"elems_start">>) \o U16(<<"elems_count">>)),
    Variant(16, "Object", Ids(<<"props_start">>) \o U16(<<"props_count">>))}

WriteBodyExprs == {
    Variant(17, "Function",
        Ids(<<"name", "params_start">>) \o U16(<<"params_count">>) \o Ids(<<"body">>)),
    Variant(18, "Handler", Ids(<<"clauses_start">>) \o U16(<<"clauses_count">>)
        \o Ids(<<"return_param", "return_body">>)),
    Variant(19, "Arrow", Ids(<<"params_start">>) \o U16(<<"params_count">>) \o Ids(<<"body">>)
        \o Fields(<<"is_block">>, Num("u8"))),
    Variant(20, "This", <<>>),
    Variant(21, "Block", Ids(<<"stmts_start", "stmts_count", "final_expr">>)),
    Variant(22, "Match", Ids(<<"scrutinee", "arms_start">>) \o U16(<<"arms_count">>)),
    Variant(23, "Perform", Ids(<<"effect", "args_start">>) \o U16(<<"args_count">>)),
    Variant(24, "Handle", Ids(<<"body", "clauses_start">>) \o U16(<<"clauses_count">>)
        \o Ids(<<"return_param", "return_body">>)),
    Variant(25, "HandleWith", Ids(<<"body", "handler">>))}

WriteStmt == {
    Variant(0, "Empty", <<>>),
    Variant(1, "Expr", Ids(<<"e">>)),
    Variant(2, "Let", Ids(<<"name", "init">>)),
    Variant(3, "Const", Ids(<<"name", "init">>)),
    Variant(4, "Var", Ids(<<"name", "init">>)),
    Variant(5, "If", Ids(<<"test", "consequent", "alternate">>)),
    Variant(6, "While", Ids(<<"test", "body">>)),
    Variant(7, "For", Ids(<<"init", "test", "update", "body">>)),
    Variant(8, "Block", Ids(<<"stmts_start", "stmts_count">>)),
    Variant(9, "Declarations", Ids(<<"stmts_start", "stmts_count">>)),
    Variant(10, "Return", Ids(<<"e">>)),
    Variant(11, "Break", <<>>),
    Variant(12, "Continue", <<>>),
    Variant(13, "Function",
        Ids(<<"name", "params_start">>) \o U16(<<"params_count">>) \o Ids(<<"body">>))}

WritePattern == {
    Variant(0, "Wildcard", <<>>),
    Variant(1, "Literal", Ids(<<"e">>)),
    Variant(2, "Var", Ids(<<"s">>)),
    Variant(3, "Array", Ids(<<"elems_start">>) \o U16(<<"elems_count">>)),
    Variant(4, "Object", Ids(<<"fields_start">>) \o U16(<<"fields_count">>))}

\* The arena of the program: all its nodes, then its lists.
WriteAst == {Variant(Untagged, "Ast", Rows(<<
    <<"exprs", Many(One("Expr"))>>, <<"stmts", Many(One("Stmt"))>>,
    <<"patterns", Many(One("Pattern"))>>, <<"expr_lists", Many(Num("u32"))>>,
    <<"stmt_lists", Many(Num("u32"))>>, <<"param_lists", Many(Num("u32"))>>,
    <<"prop_lists", Many(One("PropEntry"))>>, <<"pattern_lists", Many(Num("u32"))>>,
    <<"pattern_fields", Many(One("PatternField"))>>, <<"arms", Many(One("MatchArm"))>>,
    <<"effect_clauses", Many(One("EffectClause"))>>, <<"floats", Many(Num("f64"))>>,
    <<"root_start", Num("u32")>>, <<"root_count", Num("u32")>>>>))}

WritePropEntry == {Variant(Untagged, "PropEntry", Ids(<<"key", "value">>))}
WritePatternField == {Variant(Untagged, "PatternField", Ids(<<"key", "pattern">>))}
WriteMatchArm == {Variant(Untagged, "MatchArm", Ids(<<"pattern", "guard", "body">>))}
WriteEffectClause == {Variant(Untagged, "EffectClause",
    Ids(<<"effect", "params_start">>) \o U16(<<"params_count">>) \o Ids(<<"body">>))}

-----------------------------------------------------------------------------
(* The runtime: session, heap, fibers, scheduler. *)

\* An arena is its slots, its free list and its allocation count.
WriteArena(elem) == {Variant(Untagged, "Arena",
    Fields(<<"slots">>, Many(One(elem))) \o Fields(<<"free_list">>, Many(Num("u32")))
    \o Fields(<<"allocations">>, Num("u64")))}

WriteWaiters == {Variant(Untagged, "Waiters",
    Ids(<<"fiber">>) \o Fields(<<"waiters">>, Many(Num("u32"))))}
WriteEffectKind == Enum(<<"Print", "Fork", "Join", "Gc", "Snapshot", "Host">>)
WriteGrant == {Variant(Untagged, "Grant",
    Ids(<<"name">>) \o Fields(<<"kind">>, One("EffectKind")))}
WriteMeter == {Variant(Untagged, "Meter",
    Fields(<<"remaining">>, Opt(Num("u64"))) \o Fields(<<"parent">>, Opt(Num("u32"))))}

\* write_runtime
WriteRuntime == {Variant(Untagged, "Runtime", Rows(<<
    <<"magic", Num("magic")>>, <<"version", Num("u8")>>, <<"strings", Many(Num("str"))>>,
    <<"ast", One("Ast")>>, <<"objects", One("Objects")>>, <<"envs", One("Envs")>>,
    <<"conts", One("Conts")>>, <<"handlers", One("Handlers")>>, <<"control", One("Control")>>,
    <<"env", Ref("envs")>>, <<"cont", Ref("conts")>>, <<"globals", Many(One("Binding"))>>,
    <<"fibers", Many(One("Fiber"))>>, <<"ready_queue", Many(Num("u32"))>>,
    <<"next_fiber_id", Num("u32")>>, <<"join_waiters", Many(One("Waiters"))>>,
    <<"effects", Many(One("Grant"))>>, <<"meters", Many(One("Meter"))>>,
    <<"steps_total", Num("u64")>>, <<"quantum", Num("u64")>>>>))}

WriterTables == [
    BinaryOp |-> BinaryOps, UnaryOp |-> UnaryOps, NativeFn |-> NativeFns,
    Value |-> WriteValue, HostValue |-> WriteHostValue, HostPair |-> WriteHostPair,
    Object |-> WriteObject, Property |-> WriteProperty, ObjectKind |-> WriteObjectKind,
    Env |-> WriteEnv, Binding |-> WriteBinding, Handler |-> WriteHandler, Kont |-> WriteKont,
    Control |-> WriteControl, FiberStatus |-> WriteFiberStatus, Fiber |-> WriteFiber,
    Expr |-> WriteSimpleExprs \cup WriteBodyExprs, Stmt |-> WriteStmt, Pattern |-> WritePattern,
    Ast |-> WriteAst, PropEntry |-> WritePropEntry, PatternField |-> WritePatternField,
    MatchArm |-> WriteMatchArm, EffectClause |-> WriteEffectClause,
    Objects |-> WriteArena("Object"), Envs |-> WriteArena("Env"),
    Conts |-> WriteArena("Kont"), Handlers |-> WriteArena("Handler"),
    Waiters |-> WriteWaiters, EffectKind |-> WriteEffectKind, Grant |-> WriteGrant,
    Meter |-> WriteMeter, Runtime |-> WriteRuntime]

ASSUME WrittenAssumption == Written = WriterTables
=============================================================================
