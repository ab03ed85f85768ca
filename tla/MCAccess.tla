-------------------------------- MODULE MCAccess --------------------------------
(***************************************************************************)
(* Instances of Access for TLC.                                            *)
(***************************************************************************)
EXTENDS Access, TLC

(* Webhook workers and cancellations are interchangeable.                  *)
Symmetry == Permutations(Hooks) \union Permutations(Cancels)
=============================================================================
