--------------------------- MODULE MCNotifications ---------------------------
(* Small instances of Notifications for TLC.                               *)
EXTENDS Notifications, TLC

CONSTANTS a1, a2

(* The client books a1, the staff book a2; one of them stands confirmed.   *)
Source == (a1 :> "PUBLIC") @@ (a2 :> "INTERNAL")
OneBooked ==
  {(a1 :> s) @@ (a2 :> "CONFIRMED") : s \in {"NONE", "PENDING_DEPOSIT"}}
    \union {(a1 :> "CONFIRMED") @@ (a2 :> "NONE")}
StartsAt == (a1 :> 2) @@ (a2 :> 2)
LeadHours == (a1 :> 1) @@ (a2 :> 2)
=============================================================================
