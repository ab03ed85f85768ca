------------------------------ MODULE MCBooking ------------------------------
(* Small instances of Booking for TLC.  The cfg files pick the processes;  *)
(* the definitions below are the slots and requests they share.            *)
EXTENDS Booking, TLC

CONSTANTS r1, r2, k1

Slot(s, e) == [start |-> s, end |-> e]
Ask(r, s, k) == [resource |-> r, slot |-> s, key |-> k]

(* Two slots that overlap partially and a third that only touches one.     *)
MCSlots == {Slot(0, 2), Slot(1, 3), Slot(2, 4)}

(* Staff bookings of one resource, without keys.                           *)
OneResource == {Ask(r1, s, NoKey) : s \in MCSlots}

(* One slot: every request wants the same time.                            *)
OneSlot == {Slot(0, 2)}
Contended == {Ask(r1, s, NoKey) : s \in OneSlot}

(* Public bookings: one key on clashing and on disjoint slots, and a       *)
(* booking without a key.                                                  *)
KeySlots == {Slot(0, 2), Slot(2, 4)}
Keyed == {Ask(r1, s, k1) : s \in KeySlots} \union {Ask(r1, Slot(0, 2), NoKey)}

(* The whole business is closed in the second slot.                        *)
NoBlocks == {}
Closed == {[resource |-> NoOne, slot |-> Slot(2, 4)]}

(* A public form submitted twice.                                          *)
Resubmitted == {Ask(r1, s, k1) : s \in OneSlot}

(* Two bookings of one resource that do not clash: each runs its course.   *)
TouchingSlots == KeySlots
Touching == {Ask(r1, s, NoKey) : s \in KeySlots}

Symmetry == Permutations(Submits) \union Permutations(Staff) \union Permutations(Admins)
=============================================================================
