--------------------------- MODULE MCAvailability ---------------------------
(* Small instances of Availability for TLC: a day of eight half hours, two *)
(* dates, and clocks that go forward, or back, by an hour.                 *)
EXTENDS Availability, TLC

CONSTANTS r1, r2, h0, h1, h2, s1, s2, s3

Row(day, opens, closes, from, to) ==
  [dayOfWeek |-> day, opensAt |-> opens, closesAt |-> closes, isClosed |-> FALSE,
   validFrom |-> from, validTo |-> to]

RowsOf ==
  (h0 :> {Row(1, 1, 7, 0, 9), Row(2, 1, 7, 0, 9)}) @@
  (h1 :> {Row(1, 4, 6, 0, 9), [Row(2, 0, 7, 0, 9) EXCEPT !.isClosed = TRUE]}) @@
  (h2 :> {Row(1, 0, 4, 0, 9), Row(2, 1, 7, 0, 1)}) @@
  (s1 :> {Row(1, 0, 4, 0, 9), Row(1, 5, 7, 0, 9), Row(2, 0, 5, 0, 9)}) @@
  (s2 :> {Row(1, 2, 5, 1, 9)}) @@
  (s3 :> {Row(2, 3, 7, 0, 9)})

OwnerOf == [w \in {h0, h1, h2} |-> Business] @@ (s1 :> r1) @@ (s2 :> r2) @@ (s3 :> r2)

TwoZones == {[before |-> -5, after |-> -3, at |-> 23],
             [before |-> -3, after |-> -5, at |-> 15]}

TwoRules == {[granularity |-> 2, minNotice |-> 2, maxAdvance |-> 2],
             [granularity |-> 1, minNotice |-> 4, maxAdvance |-> 1]}

TwoBlocks == {[resource |-> Everyone, date |-> 1, startsAt |-> 6, endsAt |-> 7],
              [resource |-> r1, date |-> 2, startsAt |-> 1, endsAt |-> 2]}
=============================================================================
