------------------------------ MODULE Intervals ------------------------------
(***************************************************************************)
(* Half-open time intervals and the one question the booking code asks of  *)
(* two of them: do they share an instant?  The repository query            *)
(* hasActiveOverlap, the EXCLUDE constraint on tstzrange(.., .., '[)') and *)
(* overlapsAny in the availability calculator all ask it the same way.     *)
(***************************************************************************)
EXTENDS Integers

(* startsAt/endsAt pairs; the schema's check appointments_valid_range and  *)
(* the blocked-time validation both require start < end.                   *)
IsInterval(i) == i \in [start : Int, end : Int] /\ i.start < i.end

Overlaps(i, j) == i.start < j.end /\ i.end > j.start
=============================================================================
