-------------------------------- MODULE Wire --------------------------------
(***************************************************************************)
(* ByteWriter and ByteReader of src/snapshot.rs, driven by tables.         *)
(*                                                                         *)
(* What crosses the wire is a sequence of tokens: the width a number has   *)
(* in the file (or "str", a length-prefixed string), with its value.  A    *)
(* reader that asks for another width than was written is some bytes off   *)
(* from there on; here it fails at once.                                   *)
(*                                                                         *)
(* A thing is a record: which variant it is and its fields, f.  A table    *)
(* gives each variant the tag in front of it and its fields in order;      *)
(* writing follows the writer's table and reading the reader's.            *)
(***************************************************************************)
EXTENDS Integers, Sequences, SequencesExt, Functions

CONSTANT MaxDepth  \* bound: how deep things nest, lists and options counted

ASSUME DepthAssumption == MaxDepth \in Nat

-----------------------------------------------------------------------------
(* The types of fields. *)

Num(width) == [t |-> "num", w |-> width]
Ref(arena) == [t |-> "num", w |-> "u32", to |-> arena]  \* an id in a collected arena
Opt(type) == [t |-> "opt", of |-> type]
Many(type) == [t |-> "many", of |-> type]
One(name) == [t |-> "one", of |-> name]

\* The fields called names, all of one type.
Fields(names, type) == [i \in DOMAIN names |-> [name |-> names[i], type |-> type]]
Ids(names) == Fields(names, Num("u32"))

\* Fields given one by one, each as a name and a type.
Rows(rows) == [i \in DOMAIN rows |-> [name |-> rows[i][1], type |-> rows[i][2]]]

\* What most things end with.
Env == Fields(<<"env">>, Ref("envs"))
K == Fields(<<"k">>, Ref("conts"))

Untagged == -1
Variant(tag, is, fields) == [tag |-> tag, is |-> is, fields |-> fields]

\* A fieldless enum: the tag of a variant is its place.
Enum(names) == {Variant(i - 1, names[i], <<>>) : i \in DOMAIN names}

Names(fields) == {fields[i].name : i \in DOMAIN fields}

-----------------------------------------------------------------------------
(* Writing. *)

Token(width, n) == <<[w |-> width, v |-> n]>>

\* What is still to be written is a token of its own.
Todo(type, x) == [w |-> "todo", v |-> [type |-> type, x |-> x]]

VariantIn(variants, is) == CHOOSE v \in variants : v.is = is

\* A thing's own token, if it has one, and what is to be written behind it.
Begun(table, type, x) ==
    CASE type.t = "num" -> Token(type.w, x)
      [] type.t = "opt" ->
            IF x = <<>> THEN Token("u8", 0) ELSE Token("u8", 1) \o <<Todo(type.of, x[1])>>
      [] type.t = "many" -> Token("u32", Len(x)) \o [i \in 1 .. Len(x) |-> Todo(type.of, x[i])]
      [] type.t = "one" ->
            LET var == VariantIn(table[type.of], x.is) IN
            (IF var.tag = Untagged THEN <<>> ELSE Token("u8", var.tag))
            \o [i \in 1 .. Len(var.fields) |->
                    Todo(var.fields[i].type, x.f[var.fields[i].name])]

\* One step into everything that is still to be written.
Unfold(table, s) ==
    FlattenSeq([i \in 1 .. Len(s) |->
        IF s[i].w = "todo" THEN Begun(table, s[i].v.type, s[i].v.x) ELSE <<s[i]>>])

Unfolded(table, s, depth) ==
    LET after[n \in 0 .. depth] == IF n = 0 THEN s ELSE Unfold(table, after[n - 1])
    IN  after[depth]

Put(table, type, x) == Unfolded(table, <<Todo(type, x)>>, MaxDepth)

-----------------------------------------------------------------------------
(* Reading: what was read, or not, and the position after it. *)

Got(x, pos) == [ok |-> TRUE, x |-> x, pos |-> pos]
Failed == [ok |-> FALSE]

\* Mutant of Take: a reader past the end of the input gets zeroes.
TakeOrZero(s, width, pos) ==
    IF pos > Len(s) THEN Got(0, pos + 1)
    ELSE IF s[pos].w = width THEN Got(s[pos].v, pos + 1) ELSE Failed

\* Truncated input is an error.
Take(s, width, pos) ==
    IF pos <= Len(s) /\ s[pos].w = width THEN Got(s[pos].v, pos + 1) ELSE Failed

\* The widths there are, and the types with the names of a table.
Widths == {"u8", "u16", "u32", "u64", "i32", "f64", "str", "magic"}
Leaves(table) == [t : {"num"}, w : Widths] \cup [t : {"one"}, of : DOMAIN table]
Types(table) == Leaves(table) \cup [t : {"opt", "many"}, of : Leaves(table)]

\* In what follows get is what a thing of a type is read as at a position.

\* n times the same type
GetMany(get, type, n, pos) ==
    LET got[i \in 0 .. n] ==
            IF i = 0 THEN Got(<<>>, pos)
            ELSE LET before == got[i - 1] IN
                 IF ~before.ok THEN Failed
                 ELSE LET next == get[<<type, before.pos>>] IN
                      IF next.ok THEN Got(Append(before.x, next.x), next.pos) ELSE Failed
    IN  got[n]

\* the fields of a variant, into a record
GetFields(get, fields, pos) ==
    LET got[i \in 0 .. Len(fields)] ==
            IF i = 0 THEN Got(<<>>, pos)
            ELSE LET before == got[i - 1] IN
                 IF ~before.ok THEN Failed
                 ELSE LET next == get[<<fields[i].type, before.pos>>] IN
                      IF next.ok
                      THEN Got([n \in DOMAIN before.x \cup {fields[i].name} |->
                                  IF n = fields[i].name THEN next.x ELSE before.x[n]], next.pos)
                      ELSE Failed
    IN  got[Len(fields)]

\* the rest of a variant, its tag known
GetVariant(get, var, pos) ==
    LET got == GetFields(get, var.fields, pos) IN
    IF got.ok THEN Got([is |-> var.is, f |-> got.x], got.pos) ELSE Failed

\* A thing of a type, get reading what is inside it.
GetOne(get, table, type, s, pos) ==
    CASE type.t = "num" -> Take(s, type.w, pos)
      [] type.t = "opt" ->
            LET some == Take(s, "u8", pos) IN
            IF ~some.ok THEN Failed
            ELSE IF some.x = 0 THEN Got(<<>>, some.pos)
            ELSE LET got == get[<<type.of, some.pos>>] IN
                 IF got.ok THEN Got(<<got.x>>, got.pos) ELSE Failed
      [] type.t = "many" ->
            LET n == Take(s, "u32", pos) IN
            IF n.ok THEN GetMany(get, type.of, n.x, n.pos) ELSE Failed
      [] type.t = "one" ->
            LET tag == Take(s, "u8", pos) IN
            IF \E v \in table[type.of] : v.tag = Untagged
            THEN GetVariant(get, CHOOSE v \in table[type.of] : TRUE, pos)
            ELSE IF tag.ok /\ \E v \in table[type.of] : v.tag = tag.x
            THEN GetVariant(get, CHOOSE v \in table[type.of] : v.tag = tag.x, tag.pos)
            ELSE Failed

Get(table, type, s, pos) ==
    LET get[n \in 0 .. MaxDepth] ==
            [at \in Types(table) \X Nat |->
                IF n = 0 THEN Failed ELSE GetOne(get[n - 1], table, at[1], s, at[2])]
    IN  get[MaxDepth][<<type, pos>>]
=============================================================================
