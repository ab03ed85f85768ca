----------------------------- MODULE SlotLedger -----------------------------
(***************************************************************************)
(* What the booking subsystem promises, with none of its machinery: every  *)
(* prospective appointment has a fixed claim on a stretch of one           *)
(* resource's time, and the set of held claims only ever grows by one that *)
(* clashes with no held claim, or shrinks by one.                          *)
(***************************************************************************)
EXTENDS Intervals

CONSTANTS
  Holders,   \* prospective appointments
  Claims     \* records with at least a resource and a slot

VARIABLES
  claim,     \* claim[h]: the resource and slot h is about, never changed
  held       \* the holders whose claim currently occupies its slot

Clash(g, h) ==
  /\ claim[g].resource = claim[h].resource
  /\ Overlaps(claim[g].slot, claim[h].slot)

Init ==
  /\ claim \in [Holders -> Claims]
  /\ held = {}

Take(h) ==
  /\ h \notin held
  /\ \A g \in held : ~Clash(g, h)
  /\ held' = held \union {h}
  /\ UNCHANGED claim

Release(h) ==
  /\ h \in held
  /\ held' = held \ {h}
  /\ UNCHANGED claim

Next == \E h \in Holders : Take(h) \/ Release(h)

Spec == Init /\ [][Next]_<<claim, held>>
=============================================================================
