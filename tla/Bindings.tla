------------------------------ MODULE Bindings ------------------------------
(***************************************************************************)
(* The bindings of one environment in src/env.rs: up to Capacity of them   *)
(* in an array, in the order they were made, more in a hash map.           *)
(***************************************************************************)
EXTENDS Integers, Sequences, SequencesExt, Functions, FiniteSets

Capacity == 2  \* SMALL_ENV_CAPACITY

Small(entries) == [kind |-> "Small", entries |-> entries]
Large(map) == [kind |-> "Large", map |-> map]
NoBindings == Small(<<>>)

\* A map with one more pair, or another value for a name it has.
With(map, name, value) ==
    [n \in DOMAIN map \cup {name} |-> IF n = name THEN value ELSE map[n]]

\* The map of pairs inserted one by one: a later one wins.
MapOf(pairs) ==
    LET map[n \in 0 .. Len(pairs)] ==
            IF n = 0 THEN <<>> ELSE With(map[n - 1], pairs[n][1], pairs[n][2])
    IN  map[Len(pairs)]

PlaceIn(b, name) == SelectInSeq(b.entries, LAMBDA entry : entry[1] = name)

Bound(b, name) ==
    IF b.kind = "Small" THEN PlaceIn(b, name) # 0 ELSE name \in DOMAIN b.map

\* get, of a name that is bound
ValueIn(b, name) ==
    IF b.kind = "Small" THEN b.entries[PlaceIn(b, name)][2] ELSE b.map[name]

\* Mutant of Insert: a full array becomes a map of the new pair alone.
InsertDropping(b, name, value) ==
    CASE b.kind = "Large" -> Large(With(b.map, name, value))
      [] b.kind = "Small" /\ PlaceIn(b, name) # 0 ->
            Small([b.entries EXCEPT ![PlaceIn(b, name)] = <<name, value>>])
      [] b.kind = "Small" /\ PlaceIn(b, name) = 0 ->
            IF Len(b.entries) < Capacity THEN Small(Append(b.entries, <<name, value>>))
            ELSE Large(With(<<>>, name, value))

Insert(b, name, value) ==
    CASE b.kind = "Large" -> Large(With(b.map, name, value))
      [] b.kind = "Small" /\ PlaceIn(b, name) # 0 ->
            Small([b.entries EXCEPT ![PlaceIn(b, name)] = <<name, value>>])
      [] b.kind = "Small" /\ PlaceIn(b, name) = 0 ->
            IF Len(b.entries) < Capacity THEN Small(Append(b.entries, <<name, value>>))
            ELSE Large(With(MapOf(b.entries), name, value))

\* With pairs inserted one by one.
Inserted(b, pairs) ==
    LET made[n \in 0 .. Len(pairs)] ==
            IF n = 0 THEN b ELSE Insert(made[n - 1], pairs[n][1], pairs[n][2])
    IN  made[Len(pairs)]

\* The bindings of a slice: inserted one by one, or one map if they are many.
WithSlice(pairs) ==
    IF Len(pairs) <= Capacity THEN Inserted(NoBindings, pairs) ELSE Large(MapOf(pairs))

\* What iterating gives: an order for a map, the array's own otherwise.
Iterated(b) ==
    IF b.kind = "Small" THEN b.entries
    ELSE SetToSeq({<<name, b.map[name]>> : name \in DOMAIN b.map})

-----------------------------------------------------------------------------

\* Made of some parameters and assigned to, a scope is the map of all the pairs.
BehavesAsMap ==
    \A params \in SeqOf({1, 2, 3}, 3) : \A assigned \in SeqOf({1, 2, 3, 4}, 3) :
        LET made == [i \in DOMAIN params |-> <<params[i], i>>]
            later == [i \in DOMAIN assigned |-> <<assigned[i], 10 + i>>]
            b == Inserted(WithSlice(made), later)
            map == MapOf(made \o later) IN
        /\ \A name \in 1 .. 4 : Bound(b, name) <=> name \in DOMAIN map
        /\ \A name \in DOMAIN map : ValueIn(b, name) = map[name]
        /\ Len(Iterated(b)) = Cardinality(DOMAIN map)
        /\ MapOf(Iterated(b)) = map
=============================================================================
