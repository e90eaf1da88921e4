---------------------------- MODULE SnapshotProps ----------------------------
(***************************************************************************)
(* The two halves of src/snapshot.rs against each other, over samples of   *)
(* every variant either half knows.                                        *)
(***************************************************************************)
EXTENDS SnapshotWriter, SnapshotReader

\* The variant a nested field of type One(name) gets in a sample; host values
\* nest, so theirs is one of the leaves.
Nested(name, n) ==
    LET vars == Written[name]
        tag == n % (IF name = "HostValue" THEN 6 ELSE Cardinality(vars)) IN
    CHOOSE v \in vars : v.tag \in {Untagged, tag}

\* A sample of a type: numbers tell the fields apart; rich says whether options
\* are present and lists have elements.
RECURSIVE Sample(_, _, _), SampleOf(_, _, _)
Sample(type, n, rich) ==
    CASE type.t = "num" -> IF type.w = "u8" THEN n % 2 ELSE n
      [] type.t = "opt" -> IF rich THEN <<Sample(type.of, n, rich)>> ELSE <<>>
      [] type.t = "many" ->
            IF rich THEN <<Sample(type.of, 3 * n, rich), Sample(type.of, 3 * n + 1, rich)>>
            ELSE <<>>
      [] type.t = "one" -> SampleOf(Nested(type.of, n), n, rich)

SampleOf(var, n, rich) ==
    [is |-> var.is,
     f |-> [name \in Names(var.fields) |->
                LET i == CHOOSE j \in DOMAIN var.fields : var.fields[j].name = name IN
                Sample(var.fields[i].type, (7 * n + i) % 9973, rich)]]

Samples(name) == {SampleOf(var, n, rich) : var \in Written[name], n \in {1, 2}, rich \in BOOLEAN}

\* What was written is read as what it was, and reading stops where writing did.
ReadsWhatIsWritten ==
    \A name \in DOMAIN Written : \A x \in Samples(name) :
        LET s == Put(Written, One(name), x) IN
        Get(Readable, One(name), s \o Token("u8", 7), 1) = Got(x, Len(s) + 1)

\* Whatever is cut short anywhere is refused.
RefusesWhatIsCut ==
    \A name \in DOMAIN Written : \A x \in Samples(name) :
        LET s == Put(Written, One(name), x) IN
        \A cut \in 0 .. Len(s) - 1 : ~Get(Readable, One(name), SubSeq(s, 1, cut), 1).ok
=============================================================================
