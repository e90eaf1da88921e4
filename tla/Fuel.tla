-------------------------------- MODULE Fuel --------------------------------
(***************************************************************************)
(* The hierarchical fuel meters of src/fuel.rs, as operators on the meter  *)
(* arena.  An arena is a sequence of meters: slot i of the Vec in the code *)
(* is element i + 1 here, so the root meter is element 1.  Slots are only  *)
(* ever appended; a carved meter's parent is an earlier slot.              *)
(***************************************************************************)
EXTENDS Integers, Sequences

CONSTANTS
    U64,        \* number of values of a u64 (2^64 in the code)
    Unlimited   \* Option::None as a budget

ASSUME FuelAssumption ==
    /\ U64 \in Nat \ {0}
    /\ Unlimited \notin Nat

Root == 1
NoParent == 0

Fuels == 0 .. U64 - 1

Meter == [remaining : Fuels \cup {Unlimited}, parent : Nat]

\* Every arena the runtime can hold: the root first, parents before children.
IsArena(ms) ==
    /\ ms \in Seq(Meter)
    /\ Len(ms) >= 1
    /\ ms[Root].parent = NoParent
    /\ \A i \in 2 .. Len(ms) : ms[i].parent \in 1 .. i - 1 /\ ms[i].remaining # Unlimited

NewMeters(budget) == << [remaining |-> budget, parent |-> NoParent] >>

Saturate(n) == IF n >= U64 THEN U64 - 1 ELSE n

SetRemaining(ms, m, fuel) == [ms EXCEPT ![m] = [@ EXCEPT !.remaining = fuel]]

\* saturating_sub and saturating_add; an unlimited meter ignores both.
Charge(ms, m, spent) ==
    LET rem == ms[m].remaining IN
    IF rem = Unlimited THEN ms
    ELSE SetRemaining(ms, m, IF spent > rem THEN 0 ELSE rem - spent)

AddFuelTo(ms, m, amount) ==
    LET rem == ms[m].remaining IN
    IF rem = Unlimited THEN ms ELSE SetRemaining(ms, m, Saturate(rem + amount))

CanCarve(ms, from, amount) ==
    ms[from].remaining # Unlimited => ms[from].remaining >= amount

\* Mutant of Carve: the child's fuel is not taken from the parent.
CarveFree(ms, from, amount) == Append(ms, [remaining |-> amount, parent |-> from])

\* carve: the amount leaves `from` at once and becomes a slot of its own.
Carve(ms, from, amount) ==
    Append(Charge(ms, from, amount), [remaining |-> amount, parent |-> from])

\* refund_into_parent: take what is left, leave 0, add it to the parent.
RefundIntoParent(ms, m) ==
    IF ms[m].parent = NoParent THEN ms
    ELSE AddFuelTo(SetRemaining(ms, m, 0), ms[m].parent, ms[m].remaining)

=============================================================================
