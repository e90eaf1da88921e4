----------------------------- MODULE HostValues -----------------------------
(***************************************************************************)
(* src/host.rs: values that leave the runtime for the host and come back.  *)
(*                                                                         *)
(* An object is [kind, items]: the elements of an array, or the values of  *)
(* the properties of an ordinary object in the order of their names.  A    *)
(* value is a leaf or the id of an object; a host value is a leaf or a     *)
(* tree [kind, items].                                                     *)
(***************************************************************************)
EXTENDS Arena, SequencesExt, FiniteSets

Leaf(n) == [kind |-> "leaf", n |-> n]
Id(o) == [kind |-> "id", o |-> o]
Tree(kind, items) == [kind |-> kind, items |-> items]

Converted(v) == [ok |-> TRUE, v |-> v]
Refused == [ok |-> FALSE]

\* What became of some items is refused if one was.
AllOf(results) ==
    IF \A i \in DOMAIN results : results[i].ok
    THEN Converted([i \in DOMAIN results |-> results[i].v]) ELSE Refused

\* Mutant of ToHost: an object that was left is still taken for one being visited.
RECURSIVE ToHostOnce(_, _, _)
ToHostOnce(objects, v, visiting) ==
    IF v.kind = "leaf" THEN Converted(v)
    ELSE IF v.o \in visiting \/ Slot(objects, v.o).kind = "Function" THEN Refused
    ELSE LET obj == Slot(objects, v.o)
             before(i) == {obj.items[j].o : j \in {m \in 1 .. i - 1 : obj.items[m].kind = "id"}}
             items == AllOf([i \in DOMAIN obj.items |->
                        ToHostOnce(objects, obj.items[i], visiting \cup {v.o} \cup before(i))]) IN
         IF items.ok THEN Converted(Tree(obj.kind, items.v)) ELSE Refused

\* convert_out: down every item, visiting holding the objects on the way; code and
\* what contains itself do not cross.
RECURSIVE ToHost(_, _, _)
ToHost(objects, v, visiting) ==
    IF v.kind = "leaf" THEN Converted(v)
    ELSE IF v.o \in visiting \/ Slot(objects, v.o).kind = "Function" THEN Refused
    ELSE LET obj == Slot(objects, v.o)
             items == AllOf([i \in DOMAIN obj.items |->
                        ToHost(objects, obj.items[i], visiting \cup {v.o})]) IN
         IF items.ok THEN Converted(Tree(obj.kind, items.v)) ELSE Refused

\* Mutant of Materialized: an object's id is taken before its items have theirs.
MaterializedEarly(id, made, kind) ==
    [objects |-> Alloc(made.objects, [kind |-> kind, items |-> made.items]), v |-> Id(id)]

\* The object of items that have been made.
Materialized(id, made, kind) ==
    [objects |-> Alloc(made.objects, [kind |-> kind, items |-> made.items]),
     v |-> Id(NextId(made.objects))]

\* from_host_value: the items one after the other, then the object that holds them.
RECURSIVE FromHost(_, _)
FromHost(objects, hv) ==
    IF hv.kind = "leaf" THEN [objects |-> objects, v |-> hv]
    ELSE LET made == FoldLeft(LAMBDA acc, item :
                        LET one == FromHost(acc.objects, item) IN
                        [objects |-> one.objects, items |-> Append(acc.items, one.v)],
                        [objects |-> objects, items |-> <<>>], hv.items) IN
         Materialized(NextId(objects), made, hv.kind)

-----------------------------------------------------------------------------
(* Every heap of three objects: arrays of up to two items, an object of    *)
(* one property, a function.                                               *)

Items == {Leaf(7), Id(0), Id(1), Id(2)}
Objects == {Tree("Array", items) : items \in SeqOf(Items, 2)}
           \cup {Tree("Object", <<item>>) : item \in Items} \cup {Tree("Function", <<>>)}
Heaps == {[slots |-> slots, free_list |-> <<>>, allocations |-> 3] :
            slots \in [1 .. 3 -> Objects]}

\* The objects an object leads to in one step or more.
Items1(objs, o) ==
    LET items == Slot(objs, o).items IN
    {items[i].o : i \in {j \in DOMAIN items : items[j].kind = "id"}}
Below(objs, o) ==
    LET one == Items1(objs, o)
        two == one \cup UNION {Items1(objs, p) : p \in one} IN
    two \cup UNION {Items1(objs, p) : p \in two}

\* A value crosses exactly if there is no code in it and no object in it contains
\* itself.
CrossesRightly ==
    \A objs \in Heaps :
        LET inside == {0} \cup Below(objs, 0) IN
        ToHost(objs, Id(0), {}).ok <=>
            \A o \in inside : Slot(objs, o).kind # "Function" /\ o \notin Below(objs, o)

\* What is sent back is the same value again, with free slots or without, and
\* nothing else has changed.
ComesBack ==
    \A objs \in Heaps :
        LET out == ToHost(objs, Id(0), {}) IN
        out.ok =>
            \A free \in {<<>>, <<3, 4>>} :
                LET more == [objs EXCEPT !.slots = @ \o [i \in DOMAIN free |-> Tree("Function", <<>>)],
                                         !.free_list = free]
                    back == FromHost(more, out.v) IN
                /\ ToHost(back.objects, back.v, {}) = out
                /\ \A o \in 0 .. 2 : Slot(back.objects, o) = Slot(objs, o)
=============================================================================
