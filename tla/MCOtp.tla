-------------------------------- MODULE MCOtp --------------------------------
(* Small instances of Otp for TLC.                                         *)
EXTENDS Otp, TLC

Delays == <<2>>
LongDelay == <<3>>
Symmetry == Permutations(Senders) \union Permutations(Validators)
=============================================================================
