----------------------------- MODULE FuelProofs -----------------------------
(***************************************************************************)
(* The meter operations keep the arena well formed, and move fuel without  *)
(* creating it.                                                            *)
(***************************************************************************)
EXTENDS Fuel, TLAPS

\* The slots of an arena: in type, the root alone without a parent.
LEMMA ArenaSlot ==
    ASSUME NEW ms, IsArena(ms), NEW m \in 1 .. Len(ms)
    PROVE  /\ ms \in Seq(Meter)
           /\ ms[m] \in Meter
           /\ ms[m].remaining \in Fuels \cup {Unlimited}
           /\ ms[m].parent # NoParent =>
                ms[m].parent \in 1 .. Len(ms) /\ ms[m].remaining \in Fuels
<1>1. ms \in Seq(Meter) /\ ms[m] \in Meter
  BY DEF IsArena
<1>2. ms[m].remaining \in Fuels \cup {Unlimited} /\ ms[m].parent \in Nat
  BY <1>1 DEF Meter
<1>3. ms[m].parent # NoParent => m \in 2 .. Len(ms)
  BY <1>1 DEF IsArena, Root
<1>4. m \in 2 .. Len(ms) => ms[m].parent \in 1 .. m - 1 /\ ms[m].remaining # Unlimited
  BY DEF IsArena
<1>5. m \in 2 .. Len(ms) => 1 .. m - 1 \subseteq 1 .. Len(ms)
  BY <1>1, SMT
<1> QED
  BY <1>1, <1>2, <1>3, <1>4, <1>5

\* Giving a slot another finite amount keeps the arena.
LEMMA SetArena ==
    ASSUME NEW ms, IsArena(ms), NEW m \in 1 .. Len(ms), NEW x \in Fuels
    PROVE  /\ IsArena(SetRemaining(ms, m, x))
           /\ Len(SetRemaining(ms, m, x)) = Len(ms)
<1> DEFINE slot == [ms[m] EXCEPT !.remaining = x]
<1>1. ms \in Seq(Meter) /\ ms[m] \in Meter
  BY ArenaSlot
<1>2. x # Unlimited
  BY FuelAssumption, SMT DEF Fuels
<1>3. slot \in Meter /\ slot.remaining # Unlimited /\ slot.parent = ms[m].parent
  BY <1>1, <1>2 DEF Meter
<1>4. SetRemaining(ms, m, x) = [ms EXCEPT ![m] = slot]
  BY DEF SetRemaining
<1> HIDE DEF slot
<1> DEFINE new == [ms EXCEPT ![m] = slot]
<1>5. new \in Seq(Meter) /\ Len(new) = Len(ms)
  BY <1>1, <1>3, SMT
<1>6. \A i \in 1 .. Len(ms) :
        /\ new[i].parent = ms[i].parent
        /\ new[i].remaining = IF i = m THEN slot.remaining ELSE ms[i].remaining
  BY <1>1, <1>3, SMT
<1> HIDE DEF new
<1>7. IsArena(new)
  BY <1>3, <1>5, <1>6, SMT DEF IsArena, Root
<1> QED
  BY <1>4, <1>5, <1>7 DEF new

\* charge keeps the arena and its length: a charge never underflows.
LEMMA ChargeArena ==
    ASSUME NEW ms, IsArena(ms), NEW m \in 1 .. Len(ms), NEW spent \in Nat
    PROVE  /\ IsArena(Charge(ms, m, spent))
           /\ Len(Charge(ms, m, spent)) = Len(ms)
<1>1. CASE ms[m].remaining = Unlimited
  BY <1>1 DEF Charge
<1>2. CASE ms[m].remaining # Unlimited
  <2> DEFINE left == IF spent > ms[m].remaining THEN 0 ELSE ms[m].remaining - spent
  <2>1. ms[m].remaining \in Fuels
    BY <1>2, ArenaSlot
  <2>2. left \in Fuels
    BY <2>1, FuelAssumption, SMT DEF Fuels
  <2>3. Charge(ms, m, spent) = SetRemaining(ms, m, left)
    BY <1>2 DEF Charge
  <2> HIDE DEF left
  <2> QED
    BY <2>2, <2>3, SetArena
<1> QED
  BY <1>1, <1>2

\* add keeps the arena: the sum saturates instead of leaving the u64 range.
LEMMA AddArena ==
    ASSUME NEW ms, IsArena(ms), NEW m \in 1 .. Len(ms), NEW amount \in Nat
    PROVE  /\ IsArena(AddFuelTo(ms, m, amount))
           /\ Len(AddFuelTo(ms, m, amount)) = Len(ms)
<1>1. CASE ms[m].remaining = Unlimited
  BY <1>1 DEF AddFuelTo
<1>2. CASE ms[m].remaining # Unlimited
  <2> DEFINE sum == Saturate(ms[m].remaining + amount)
  <2>1. ms[m].remaining \in Fuels
    BY <1>2, ArenaSlot
  <2>2. sum \in Fuels
    BY <2>1, FuelAssumption, SMT DEF Fuels, Saturate
  <2>3. AddFuelTo(ms, m, amount) = SetRemaining(ms, m, sum)
    BY <1>2 DEF AddFuelTo
  <2> HIDE DEF sum
  <2> QED
    BY <2>2, <2>3, SetArena
<1> QED
  BY <1>1, <1>2

\* carve appends one slot, whose parent is an earlier one.
LEMMA CarveArena ==
    ASSUME NEW ms, IsArena(ms), NEW m \in 1 .. Len(ms), NEW amount \in Fuels
    PROVE  /\ IsArena(Carve(ms, m, amount))
           /\ Len(Carve(ms, m, amount)) = Len(ms) + 1
<1> DEFINE cs == Charge(ms, m, amount)
           slot == [remaining |-> amount, parent |-> m]
<1>1. IsArena(cs) /\ Len(cs) = Len(ms) /\ cs \in Seq(Meter)
  BY ChargeArena, FuelAssumption DEF Fuels, IsArena
<1>2. slot \in Meter /\ slot.remaining # Unlimited /\ slot.parent = m
  BY FuelAssumption, ArenaSlot DEF Meter, Fuels
<1>3. Carve(ms, m, amount) = Append(cs, slot)
  BY DEF Carve
<1> HIDE DEF cs, slot
<1>4. IsArena(Append(cs, slot)) /\ Len(Append(cs, slot)) = Len(cs) + 1
  BY <1>1, <1>2, SMT DEF IsArena, Root, NoParent
<1> QED
  BY <1>1, <1>3, <1>4

\* refund_into_parent keeps the arena, at the root (no parent) included.
LEMMA RefundArena ==
    ASSUME NEW ms, IsArena(ms), NEW m \in 1 .. Len(ms)
    PROVE  /\ IsArena(RefundIntoParent(ms, m))
           /\ Len(RefundIntoParent(ms, m)) = Len(ms)
<1>1. CASE ms[m].parent = NoParent
  BY <1>1 DEF RefundIntoParent
<1>2. CASE ms[m].parent # NoParent
  <2> DEFINE zs == SetRemaining(ms, m, 0)
             p == ms[m].parent
             left == ms[m].remaining
  <2>1. p \in 1 .. Len(ms) /\ left \in Fuels
    BY <1>2, ArenaSlot
  <2>2. IsArena(zs) /\ Len(zs) = Len(ms)
    BY SetArena, FuelAssumption DEF Fuels
  <2>3. RefundIntoParent(ms, m) = AddFuelTo(zs, p, left)
    BY <1>2 DEF RefundIntoParent
  <2>4. left \in Nat
    BY <2>1, FuelAssumption DEF Fuels
  <2> HIDE DEF zs, p, left
  <2> QED
    BY <2>1, <2>2, <2>3, <2>4, AddArena
<1> QED
  BY <1>1, <1>2

=============================================================================
