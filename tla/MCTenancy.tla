------------------------------ MODULE MCTenancy ------------------------------
(* Small instances of Tenancy for TLC.                                     *)
EXTENDS Tenancy, TLC

Symmetry == Permutations(Registrations) \union Permutations(Operators) \union Permutations(Emails)
=============================================================================
