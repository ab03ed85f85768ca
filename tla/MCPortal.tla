------------------------------ MODULE MCPortal ------------------------------
(* A small instance of Portal: one service with one option and one linked  *)
(* resource, and room for one more of each.                                *)
EXTENDS Portal, TLC

CONSTANTS s1, s2, o1, o2, r1, r2, n1, n2

Rows0 ==
  (s1 :> [name |-> n1, active |-> TRUE]) @@
  (o1 :> [service |-> s1, name |-> n1, duration |-> 1, active |-> TRUE]) @@
  (r1 :> [name |-> n1, active |-> TRUE])

AnyOrder == Permutations(Requests) \union Permutations(Clients) \union Permutations(Visits)
=============================================================================
