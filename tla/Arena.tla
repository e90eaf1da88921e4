-------------------------------- MODULE Arena --------------------------------
(***************************************************************************)
(* src/arena.rs: a vector of slots and the list of those free for reuse.   *)
(* An arena is a record, ids count from 0 as in the code.  The marks are   *)
(* clear between collections and are the argument of Sweep here.           *)
(***************************************************************************)
EXTENDS Integers, Sequences

NewArena == [slots |-> <<>>, free_list |-> <<>>, allocations |-> 0]

IdsOf(arena) == 0 .. Len(arena.slots) - 1

FreeIds(arena) == {arena.free_list[i] : i \in DOMAIN arena.free_list}

\* The id alloc returns: the last freed slot, else a new one.
NextId(arena) ==
    IF arena.free_list = <<>> THEN Len(arena.slots)
    ELSE arena.free_list[Len(arena.free_list)]

Alloc(arena, x) ==
    IF arena.free_list = <<>>
    THEN [arena EXCEPT !.slots = Append(@, x), !.allocations = @ + 1]
    ELSE [arena EXCEPT !.slots[NextId(arena) + 1] = x,
                       !.free_list = SubSeq(@, 1, Len(@) - 1),
                       !.allocations = @ + 1]

Slot(arena, id) == arena.slots[id + 1]

\* get_mut, and an assignment through it
SetSlot(arena, id, x) == [arena EXCEPT !.slots[id + 1] = x]

\* The ids that are not marked, in their order.
Unmarked(arena, marked) ==
    LET below[n \in 0 .. Len(arena.slots)] ==
            IF n = 0 THEN <<>>
            ELSE IF n - 1 \in marked THEN below[n - 1] ELSE Append(below[n - 1], n - 1)
    IN  below[Len(arena.slots)]

\* Mutant of Sweep: the free list of the last sweep stays.
SweepAgain(arena, marked) == [arena EXCEPT !.free_list = @ \o Unmarked(arena, marked)]

\* Every slot that is not marked is free; what was free before is unmarked too.
Sweep(arena, marked) == [arena EXCEPT !.free_list = Unmarked(arena, marked)]
=============================================================================
