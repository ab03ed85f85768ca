------------------------- MODULE Availability_proofs -------------------------
(* Machine-checked proofs about Availability, for any resources, rows and  *)
(* replacements, however many of them are under way at once.               *)
EXTENDS Availability, TLAPS

LEMMA InitInv == Init => Inv
<1> SUFFICES ASSUME Init PROVE Inv
  OBVIOUS
<1> USE AvailabilityAssumption DEF Init
<1>1. ReplacementTypes
  BY DEF ReplacementTypes, Owners
<1>2. AloneInv
  BY DEF AloneInv, Underway
<1>3. ReplacedWhole
  BY DEF ReplacedWhole
<1> QED
  BY <1>1, <1>2, <1>3 DEF Inv

(* The owner of a request is the business or one of its resources.         *)
LEMMA OwnerType == \A w \in Replacements : ownerOf[w] \in Owners
BY AvailabilityAssumption DEF Owners

(* A replacement that starts sees all the rows, and is alone or known not  *)
(* to be.                                                                  *)
LEMMA Started ==
  ASSUME Inv, NEW w \in Replacements, StartReplacement(w)
  PROVE  Inv'
<1> USE OwnerType DEF StartReplacement, Inv, calendar
<1>1. ReplacementTypes'
  BY DEF ReplacementTypes
<1>2. AloneInv'
  <2> SUFFICES ASSUME NEW v \in Underway', ownerOf[v] \notin raced'
               PROVE  /\ \A u \in Underway' : ownerOf[u] = ownerOf[v] => u = v
                      /\ seen'[v] = rows'[ownerOf[v]]
                      /\ step'[v] = "insert" => locked'[v] = rows'[ownerOf[v]]
    BY DEF AloneInv
  <2>1. Underway' = Underway \union {w} /\ w \notin Underway
    BY DEF Underway, ReplacementTypes
  <2>2. ownerOf[v] \notin raced
    OBVIOUS
  <2>3. CASE v = w
    <3>1. \A u \in Underway : ownerOf[u] # ownerOf[w]
      BY <2>3
    <3> QED
      BY <2>1, <2>3, <3>1 DEF ReplacementTypes
  <2>4. CASE v # w
    <3>1. v \in Underway /\ ownerOf[v] # ownerOf[w]
      BY <2>1, <2>2, <2>4
    <3>2. /\ \A u \in Underway : ownerOf[u] = ownerOf[v] => u = v
          /\ seen[v] = rows[ownerOf[v]]
          /\ step[v] = "insert" => locked[v] = rows[ownerOf[v]]
      BY <2>2, <3>1 DEF AloneInv
    <3>3. seen'[v] = seen[v] /\ step'[v] = step[v] /\ rows' = rows /\ locked' = locked
      BY <2>4 DEF ReplacementTypes, Underway
    <3> QED
      BY <2>1, <3>1, <3>2, <3>3
  <2> QED
    BY <2>3, <2>4
<1>3. ReplacedWhole'
  BY DEF ReplacedWhole
<1> QED
  BY <1>1, <1>2, <1>3

(* DELETE locks the rows seen that are still there: alone, all of them.    *)
LEMMA Deleted ==
  ASSUME Inv, NEW w \in Replacements, DeleteRows(w)
  PROVE  Inv'
<1> USE OwnerType DEF DeleteRows, Inv, calendar, history
<1>1. ReplacementTypes'
  BY DEF ReplacementTypes
<1>2. AloneInv'
  <2>1. Underway' = Underway
    BY DEF Underway, ReplacementTypes
  <2>2. w \in Underway
    BY DEF Underway
  <2>3. ASSUME NEW v \in Underway, ownerOf[v] \notin raced
        PROVE  /\ \A u \in Underway : ownerOf[u] = ownerOf[v] => u = v
               /\ seen'[v] = rows[ownerOf[v]]
               /\ step'[v] = "insert" => locked'[v] = rows[ownerOf[v]]
    <3>1. /\ \A u \in Underway : ownerOf[u] = ownerOf[v] => u = v
          /\ seen[v] = rows[ownerOf[v]]
          /\ step[v] = "insert" => locked[v] = rows[ownerOf[v]]
      BY <2>3 DEF AloneInv
    <3>2. CASE v = w
      <4>1. locked'[w] = seen[w] \intersect rows[ownerOf[w]]
        BY DEF ReplacementTypes
      <4> QED
        BY <3>1, <3>2, <4>1
    <3>3. CASE v # w
      <4>1. v \in Replacements /\ step'[v] = step[v] /\ locked'[v] = locked[v]
        BY <3>3 DEF Underway, ReplacementTypes
      <4> QED
        BY <3>1, <4>1
    <3> QED
      BY <3>2, <3>3
  <2> QED
    BY <2>1, <2>3 DEF AloneInv
<1>3. ReplacedWhole'
  BY DEF ReplacedWhole
<1> QED
  BY <1>1, <1>2, <1>3

(* INSERT leaves the new rows and, alone, no others.                       *)
LEMMA Inserted ==
  ASSUME Inv, NEW w \in Replacements, InsertRows(w)
  PROVE  Inv'
<1> USE OwnerType DEF InsertRows, Ended, Inv
<1>1. ReplacementTypes'
  BY DEF ReplacementTypes
<1>2. Underway' = Underway \ {w} /\ w \in Underway /\ raced' = raced
  BY DEF Underway, ReplacementTypes
<1>3. AloneInv'
  <2> SUFFICES ASSUME NEW v \in Underway', ownerOf[v] \notin raced
               PROVE  /\ \A u \in Underway' : ownerOf[u] = ownerOf[v] => u = v
                      /\ seen'[v] = rows'[ownerOf[v]]
                      /\ step'[v] = "insert" => locked'[v] = rows'[ownerOf[v]]
    BY <1>2 DEF AloneInv
  <2>1. v \in Underway /\ v # w /\ v \in Replacements
    BY <1>2 DEF Underway
  <2>2. /\ \A u \in Underway : ownerOf[u] = ownerOf[v] => u = v
        /\ seen[v] = rows[ownerOf[v]]
        /\ step[v] = "insert" => locked[v] = rows[ownerOf[v]]
    BY <2>1 DEF AloneInv
  <2>3. ownerOf[v] # ownerOf[w]
    BY <1>2, <2>1, <2>2
  <2>4. /\ seen'[v] = seen[v] /\ step'[v] = step[v] /\ locked'[v] = locked[v]
        /\ rows'[ownerOf[v]] = rows[ownerOf[v]]
    BY <2>1, <2>3 DEF ReplacementTypes
  <2> QED
    BY <1>2, <2>2, <2>4
<1>4. ReplacedWhole'
  <2> SUFFICES ASSUME NEW k \in Owners
               PROVE  last'[k] \in rows'[k] /\ (k \notin raced => rows'[k] = {last'[k]})
    BY <1>2 DEF ReplacedWhole
  <2>1. CASE k = ownerOf[w]
    <3>1. last'[k] = w /\ rows'[k] = (rows[k] \ locked[w]) \union {w}
      BY <2>1 DEF ReplacementTypes
    <3>2. k \notin raced => locked[w] = rows[k]
      BY <1>2, <2>1 DEF AloneInv
    <3> QED
      BY <3>1, <3>2
  <2>2. CASE k # ownerOf[w]
    <3>1. last'[k] = last[k] /\ rows'[k] = rows[k]
      BY <2>2 DEF ReplacementTypes
    <3> QED
      BY <3>1 DEF ReplacedWhole
  <2> QED
    BY <2>1, <2>2
<1> QED
  BY <1>1, <1>3, <1>4

(* A rollback leaves the rows as they were and frees the locks.            *)
LEMMA RolledBack ==
  ASSUME Inv, NEW w \in Replacements, RollBack(w)
  PROVE  Inv'
<1> USE OwnerType DEF RollBack, Ended, Inv, calendar, history
<1>1. ReplacementTypes'
  BY DEF ReplacementTypes
<1>2. Underway' \subseteq Underway \ {w} /\ raced' = raced /\ rows' = rows
  BY DEF Underway, ReplacementTypes
<1>3. \A v \in Replacements \ {w} : seen'[v] = seen[v] /\ step'[v] = step[v] /\ locked'[v] = locked[v]
  BY DEF ReplacementTypes
<1>4. AloneInv'
  BY <1>2, <1>3 DEF AloneInv, Underway
<1>5. ReplacedWhole'
  BY DEF ReplacedWhole
<1> QED
  BY <1>1, <1>4, <1>5

LEMMA Kept ==
  ASSUME Inv, UNCHANGED <<rows, step, seen, locked, raced, last>>
  PROVE  Inv'
BY DEF Inv, ReplacementTypes, AloneInv, ReplacedWhole, Underway

(* Nobody else writes hours, schedules or locks.                           *)
LEMMA Elsewhere ==
  ASSUME [Next]_vars, \A w \in Replacements : ~Replace(w)
  PROVE  UNCHANGED <<rows, step, seen, locked, raced, last>>
<1> DEFINE Same == UNCHANGED <<rows, step, seen, locked, raced, last>>
<1> USE DEF calendar, replacing, history
<1>1. ASSUME UpdateSettings PROVE Same
  BY <1>1 DEF UpdateSettings, UpdateBusiness, UpdateBooking
<1>2. ASSUME EditBlocks PROVE Same
  BY <1>2 DEF EditBlocks, CreateBlockedTime, DeleteBlockedTime
<1>3. ASSUME EditAppointments PROVE Same
  <2>1. ASSUME NEW r, NEW start, Book(r, start) PROVE Same
    BY <2>1 DEF Book
  <2>2. ASSUME NEW a, Cancel(a) PROVE Same
    BY <2>2 DEF Cancel
  <2> QED
    BY <1>3, <2>1, <2>2 DEF EditAppointments
<1>4. ASSUME NEW r, Switch(r) PROVE Same
  BY <1>4 DEF Switch
<1>5. ASSUME Query PROVE Same
  <2>1. ASSUME NEW S, NEW from, NEW to, ResolveCandidateResources(S, from, to) PROVE Same
    BY <2>1 DEF ResolveCandidateResources, Unchanged
  <2>2. ASSUME ReadSettings \/ ReadBusinessHours \/ ReadBlocks \/ ReadAppointments \/ Respond PROVE Same
    BY <2>2 DEF ReadSettings, ReadBusinessHours, ReadBlocks, ReadAppointments, Respond, Unchanged
  <2>3. ASSUME NEW r, OfferSlots(r) PROVE Same
    BY <2>3 DEF OfferSlots, Unchanged
  <2> QED
    BY <1>5, <2>1, <2>2, <2>3 DEF Query
<1>6. CASE UNCHANGED vars
  BY <1>6 DEF vars
<1> QED
  BY <1>1, <1>2, <1>3, <1>4, <1>5, <1>6 DEF Next, SetBusinessHours, SetSchedule

(* The locks of a replacement: the invariant holds in every reachable      *)
(* state.                                                                  *)
THEOREM ReplacementInvariance == Spec => []Inv
<1>1. Inv /\ [Next]_vars => Inv'
  <2> SUFFICES ASSUME Inv, [Next]_vars PROVE Inv'
    OBVIOUS
  <2>1. ASSUME NEW w \in Replacements, Replace(w) PROVE Inv'
    BY <2>1, Started, Deleted, Inserted, RolledBack DEF Replace
  <2>2. ASSUME \A w \in Replacements : ~Replace(w) PROVE Inv'
    BY <2>2, Elsewhere, Kept
  <2> QED
    BY <2>1, <2>2
<1> QED
  BY InitInv, <1>1, PTL DEF Spec

(* replaceBusinessHours and setSchedule: the DELETE and the INSERT of a    *)
(* transaction that no other of the same owner overlaps leave the rows of  *)
(* that request and no others.                                             *)
THEOREM HoursAreReplaced == Spec => []ReplacedWhole
<1>1. Inv => ReplacedWhole
  BY DEF Inv
<1> QED
  BY ReplacementInvariance, <1>1, PTL
-----------------------------------------------------------------------------
(* Days and zones                                                          *)

(* Dates are whole days apart.                                             *)
LEMMA DayGrid == \A m, n \in Int : DAY * m \in Int /\ m * DAY \in Int /\ (m < n => m * DAY + DAY <= n * DAY)
<1> SUFFICES ASSUME NEW m \in Int, NEW n \in Int
             PROVE  DAY * m \in Int /\ m * DAY \in Int /\ (m < n => m * DAY + DAY <= n * DAY)
  OBVIOUS
<1>1. DAY \in Nat /\ DAY > 0
  BY CalendarAssumption
<1>2. ASSUME m < n PROVE m * DAY + DAY <= n * DAY
  <2>1. n - m - 1 \in Nat
    BY <1>2
  <2>2. (n - m - 1) * DAY >= 0
    BY <1>1, <2>1
  <2>3. (n - m - 1) * DAY = n * DAY - m * DAY - DAY
    BY <1>1
  <2> QED
    BY <1>1, <2>2, <2>3
<1> QED
  BY <1>1, <1>2

(* What lies in the day of a date is on that date, at a time of it.        *)
LEMMA DateOf ==
  ASSUME NEW d \in Int, NEW w \in Int, d * DAY <= w, w < d * DAY + DAY
  PROVE  w \div DAY = d /\ w % DAY = w - d * DAY
<1>1. DAY \in Nat /\ DAY > 0
  BY CalendarAssumption
<1> DEFINE q == w \div DAY  r == w % DAY
<1>2. q \in Int /\ r \in 0 .. DAY - 1 /\ w = DAY * q + r
  BY <1>1
<1>3. DAY * q = q * DAY
  BY <1>1, <1>2
<1> HIDE DEF q, r
<1>4. q = d
  BY <1>1, <1>2, <1>3, DayGrid
<1>5. r = w - d * DAY
  BY <1>1, <1>2, <1>3, <1>4
<1> QED
  BY <1>4, <1>5 DEF q, r

(* A zone's offset, an integer.                                            *)
LEMMA OffsetType ==
  ASSUME NEW z \in TimeZones, NEW i \in Int
  PROVE  offsetMs(i, z) \in {z.before, z.after} /\ offsetMs(i, z) \in Int
BY DEF offsetMs, TimeZones

(* The instant of a guess, corrected once: what a local time comes to.     *)
Corrected(g, z) == g - offsetMs(g - offsetMs(g, z), z)

LEMMA Conversion ==
  ASSUME NEW z, NEW d \in Int, NEW t \in Int
  PROVE  d * DAY + t \in Int /\ zonedTimeToUtcMs(d, t, z) = Corrected(d * DAY + t, z)
BY CalendarAssumption DEF zonedTimeToUtcMs, Corrected

(* zonedTimeToUtcMs yields an integer.                                     *)
LEMMA CorrectedType ==
  ASSUME NEW z \in TimeZones, NEW g \in Int
  PROVE  Corrected(g, z) \in Int /\ \E off \in {z.before, z.after} : Corrected(g, z) = g - off
<1>1. g - offsetMs(g, z) \in Int
  BY OffsetType
<1>2. offsetMs(g - offsetMs(g, z), z) \in {z.before, z.after} \intersect Int
  BY <1>1, OffsetType
<1> QED
  BY <1>2 DEF Corrected

(* A local time that the clocks show once is shown at the instant it is    *)
(* converted to.                                                           *)
LEMMA PlainEdge ==
  ASSUME NEW z \in TimeZones, NEW g \in Int, ShownOnce(g, z)
  PROVE  \A i \in Int : WallClock(i, z) = g <=> i = Corrected(g, z)
<1> DEFINE S == {i \in g - Later(z.before, z.after) .. g - Earlier(z.before, z.after) : WallClock(i, z) = g}
<1>1. PICK u \in S : S = {u}
  BY DEF ShownOnce
<1>2. \A i \in Int : WallClock(i, z) = g <=> i \in S
  BY DEF WallClock, offsetMs, TimeZones, Later, Earlier
<1>3. u \in Int /\ WallClock(u, z) = g
  BY <1>1 DEF TimeZones, Later, Earlier
<1>4. \A i \in Int : WallClock(i, z) = g => i = u
  BY <1>1, <1>2
<1> HIDE DEF S
<1>5. u = Corrected(g, z)
  <2>1. g - z.before < z.at => g - z.before = u
    BY <1>4 DEF WallClock, offsetMs, TimeZones
  <2>2. g - z.after >= z.at => g - z.after = u
    BY <1>4 DEF WallClock, offsetMs, TimeZones
  <2> QED
    BY <1>3, <2>1, <2>2 DEF WallClock, offsetMs, TimeZones, Corrected
<1> QED
  BY <1>3, <1>4, <1>5

(* Between two local times that the clocks show once, they show times that *)
(* lie between the two.                                                    *)
LEMMA ClocksWithin ==
  ASSUME NEW z \in TimeZones, NEW g \in Int, NEW h \in Int, ShownOnce(g, z), ShownOnce(h, z), NEW i \in Int
  PROVE  /\ Corrected(g, z) <= i => g <= WallClock(i, z)
         /\ i < Corrected(h, z) => WallClock(i, z) < h
<1> DEFINE u == Corrected(g, z)  v == Corrected(h, z)
<1>1. u \in Int /\ v \in Int
  BY CorrectedType
<1>2. \A j \in Int : WallClock(j, z) = g <=> j = u
  BY PlainEdge
<1>3. \A j \in Int : WallClock(j, z) = h <=> j = v
  BY PlainEdge
<1> HIDE DEF u, v
<1>4. ASSUME u <= i PROVE g <= WallClock(i, z)
  <2>1. g - z.after \in Int /\ g - z.before \in Int
    BY DEF TimeZones
  <2>2. WallClock(g - z.after, z) = g => g - z.after = u
    BY <1>2, <2>1
  <2>3. WallClock(u, z) = g
    BY <1>1, <1>2
  <2> QED
    BY <1>1, <1>4, <2>1, <2>2, <2>3 DEF WallClock, offsetMs, TimeZones
<1>5. ASSUME i < v PROVE WallClock(i, z) < h
  <2>1. h - z.after \in Int /\ h - z.before \in Int
    BY DEF TimeZones
  <2>2. WallClock(h - z.before, z) = h => h - z.before = v
    BY <1>3, <2>1
  <2>3. WallClock(v, z) = h
    BY <1>1, <1>3
  <2> QED
    BY <1>1, <1>5, <2>1, <2>2, <2>3 DEF WallClock, offsetMs, TimeZones
<1> QED
  BY <1>4, <1>5 DEF u, v

-----------------------------------------------------------------------------
(* The calculator                                                          *)

(* A row whose window of date d holds w.                                   *)
Holds(row, w, d, z) ==
  /\ row.dayOfWeek = weekdayOf(d) /\ isApplicable(row, d)
  /\ Corrected(d * DAY + row.opensAt, z) <= w.start
  /\ w.end <= Corrected(d * DAY + row.closesAt, z)

(* A window comes from a row of its date, whose edges hold it.             *)
LEMMA WindowOfRow ==
  ASSUME NEW z \in TimeZones, NEW d \in Int, NEW R, R \subseteq HourRows, NEW i \in Windows(R, d, z)
  PROVE  /\ i.start \in Int /\ i.end \in Int
         /\ \E row \in R : Holds(row, i, d, z)
<1>1. PICK row \in R : /\ row.dayOfWeek = weekdayOf(d) /\ isApplicable(row, d)
                       /\ i = toInterval(d, row, z) /\ IsInterval(i)
  BY DEF Windows
<1>2. row.opensAt \in Int /\ row.closesAt \in Int
  BY CalendarAssumption DEF HourRows
<1>3. /\ i.start = Corrected(d * DAY + row.opensAt, z)
      /\ i.end = Corrected(d * DAY + row.closesAt, z)
  BY <1>1, <1>2, Conversion DEF toInterval
<1>4. i.start \in Int /\ i.end \in Int
  BY <1>1 DEF IsInterval
<1> QED
  BY <1>1, <1>3, <1>4 DEF Holds

(* The edges of a row of hours are converted to integers.                  *)
LEMMA EdgeType ==
  ASSUME NEW z \in TimeZones, NEW d \in Int, NEW row \in HourRows
  PROVE  /\ Corrected(d * DAY + row.opensAt, z) \in Int
         /\ Corrected(d * DAY + row.closesAt, z) \in Int
<1>1. row.opensAt \in Int /\ row.closesAt \in Int
  BY CalendarAssumption DEF HourRows
<1> QED
  BY <1>1, Conversion, CorrectedType

Configs == [zone : TimeZones, hours : SUBSET HourRows, schedule : SUBSET HourRows, busy : SUBSET BusyTimes]

(* A window of Open lies in one of the business and one of the resource.   *)
LEMMA OpenByBoth ==
  ASSUME NEW config \in Configs, NEW d \in Int, NEW w \in Open(config, d)
  PROVE  /\ w.start \in Int /\ w.end \in Int
         /\ \E h \in config.hours : ~h.isClosed /\ Holds(h, w, d, config.zone)
         /\ \E c \in config.schedule : Holds(c, w, d, config.zone)
<1>1. PICK i \in businessWindows(config.hours, d, config.zone),
           j \in resourceWindows(config.schedule, d, config.zone) :
             w = [start |-> Later(i.start, j.start), end |-> Earlier(i.end, j.end)]
  BY DEF Open, intersect
<1>2. /\ config.zone \in TimeZones /\ {h \in config.hours : ~h.isClosed} \subseteq HourRows
      /\ config.schedule \subseteq HourRows
  BY DEF Configs
<1>3. PICK h \in {g \in config.hours : ~g.isClosed} :
        i.start \in Int /\ i.end \in Int /\ Holds(h, i, d, config.zone)
  BY <1>1, <1>2, WindowOfRow DEF businessWindows
<1>4. PICK c \in config.schedule :
        j.start \in Int /\ j.end \in Int /\ Holds(c, j, d, config.zone)
  BY <1>1, <1>2, WindowOfRow DEF resourceWindows
<1>5. /\ w.start \in Int /\ w.end \in Int
      /\ i.start <= w.start /\ w.end <= i.end /\ j.start <= w.start /\ w.end <= j.end
  BY <1>1, <1>3, <1>4 DEF Later, Earlier
<1>6. ASSUME NEW row \in HourRows, NEW k, k.start \in Int, k.end \in Int, k.start <= w.start, w.end <= k.end,
             Holds(row, k, d, config.zone)
      PROVE  Holds(row, w, d, config.zone)
  BY <1>2, <1>5, <1>6, EdgeType DEF Holds
<1> QED
  BY <1>2, <1>3, <1>4, <1>5, <1>6

(* A slot of compute: its date, length, window and notice; and nothing     *)
(* busy in its way.                                                        *)
LEMMA SlotComputed ==
  ASSUME NEW config \in Configs, NEW R, NEW from \in Int, NEW to \in Int, NEW duration \in Nat \ {0}, NEW now,
         NEW slot \in compute(config, R, from, to, duration, now)
  PROVE  /\ slot.date \in from .. to /\ slot.start \in Int /\ slot.end \in Int /\ slot.start < slot.end
         /\ \E w \in Open(config, slot.date) : w.start <= slot.start /\ slot.end <= w.end
         /\ now + R.minNotice <= slot.start /\ slot.start <= now + R.maxAdvance * DAY
         /\ ~overlapsAny(config.busy, slot)
<1>1. PICK date \in from .. to :
        \E w \in Open(config, date) : \E s \in Starts(w, duration, R.granularity) :
          slot = [date |-> date, start |-> s, end |-> s + duration]
  BY DEF compute, eachDateInclusive
<1>2. PICK w \in Open(config, date) : \E s \in Starts(w, duration, R.granularity) :
        slot = [date |-> date, start |-> s, end |-> s + duration]
  BY <1>1
<1>3. PICK s \in Starts(w, duration, R.granularity) :
        slot = [date |-> date, start |-> s, end |-> s + duration]
  BY <1>2
<1>4. w.start \in Int /\ w.end \in Int
  BY OpenByBoth
<1>5. s \in Int /\ w.start <= s /\ s + duration <= w.end
  BY <1>4 DEF Starts
<1>6. /\ now + R.minNotice <= slot.start /\ slot.start <= now + R.maxAdvance * DAY
      /\ ~overlapsAny(config.busy, slot)
  BY DEF compute
<1>7. slot.date = date /\ slot.start = s /\ slot.end = s + duration
  BY <1>3
<1> QED
  BY <1>4, <1>5, <1>6, <1>7

(* What a window's row covers, when the clocks show its edges once.        *)
LEMMA RowCovers ==
  ASSUME NEW z \in TimeZones, NEW d \in Int, NEW row \in HourRows, NEW w, Holds(row, w, d, z),
         Unambiguous(d, row.opensAt, z), Unambiguous(d, row.closesAt, z),
         w.start \in Int, w.end \in Int, NEW t \in Int, w.start <= t, t < w.end
  PROVE  Covers(row, t, z) /\ utcMsToZonedDate(t, z) = d
<1> DEFINE g == d * DAY + row.opensAt  h == d * DAY + row.closesAt  shown == WallClock(t, z)
<1>1. /\ DAY \in Nat \ {0} /\ d * DAY \in Int
      /\ row.opensAt \in 0 .. DAY - 1 /\ row.closesAt \in 0 .. DAY - 1
  BY CalendarAssumption, DayGrid DEF HourRows
<1>2. g \in Int /\ h \in Int /\ shown \in Int
  BY <1>1, OffsetType DEF WallClock
<1>3. Corrected(g, z) <= t /\ t < Corrected(h, z) /\ ShownOnce(g, z) /\ ShownOnce(h, z)
  BY <1>2, EdgeType DEF Holds, Unambiguous
<1>4. g <= shown /\ shown < h
  BY <1>2, <1>3, ClocksWithin
<1> HIDE DEF shown
<1>5. d * DAY <= shown /\ shown < d * DAY + DAY
  BY <1>1, <1>2, <1>4
<1>6. shown \div DAY = d /\ shown % DAY = shown - d * DAY
  BY <1>2, <1>5, DateOf
<1>7. row.opensAt <= shown % DAY /\ shown % DAY < row.closesAt
  BY <1>1, <1>2, <1>4, <1>6
<1> QED
  BY <1>6, <1>7 DEF Covers, Holds, utcMsToZonedDate, shown

(* The rows of the config whose windows are open on the date.              *)
PlainOn(config, d) ==
  \A row \in config.hours \union config.schedule :
    row.dayOfWeek = weekdayOf(d) =>
      Unambiguous(d, row.opensAt, config.zone) /\ Unambiguous(d, row.closesAt, config.zone)

(* Where the edges of a date's windows are shown once, a slot in one of    *)
(* Open is open.                                                           *)
LEMMA OpenThroughout ==
  ASSUME NEW config \in Configs, NEW d \in Int, PlainOn(config, d), NEW w \in Open(config, d),
         NEW t \in Int, w.start <= t, t < w.end
  PROVE  OpenAt(config, t) /\ utcMsToZonedDate(t, config.zone) = d
<1>1. PICK h \in config.hours : ~h.isClosed /\ Holds(h, w, d, config.zone)
  BY OpenByBoth
<1>2. PICK c \in config.schedule : Holds(c, w, d, config.zone)
  BY OpenByBoth
<1>3. /\ config.zone \in TimeZones /\ h \in HourRows /\ c \in HourRows
      /\ w.start \in Int /\ w.end \in Int
  BY OpenByBoth DEF Configs
<1>4. Covers(h, t, config.zone) /\ utcMsToZonedDate(t, config.zone) = d
  <2>1. Unambiguous(d, h.opensAt, config.zone) /\ Unambiguous(d, h.closesAt, config.zone)
    BY <1>1 DEF PlainOn, Holds
  <2> QED
    BY <2>1, <1>1, <1>3, RowCovers
<1>5. Covers(c, t, config.zone)
  <2>1. Unambiguous(d, c.opensAt, config.zone) /\ Unambiguous(d, c.closesAt, config.zone)
    BY <1>2 DEF PlainOn, Holds
  <2> QED
    BY <2>1, <1>2, <1>3, RowCovers
<1> QED
  BY <1>1, <1>4, <1>5 DEF OpenAt

(* Every window of the dates lies in their range.                          *)
LEMMA WindowInRange ==
  ASSUME NEW config \in Configs, config.zone.before - config.zone.after \in -DAY .. DAY,
         NEW from \in Int, NEW to \in Int, NEW d \in from .. to, NEW w \in Open(config, d),
         \A time \in 0 .. DAY - 1 :
           /\ zonedTimeToUtcMs(from, 0, config.zone) <= zonedTimeToUtcMs(from, time, config.zone)
           /\ zonedTimeToUtcMs(to, time, config.zone) <= zonedTimeToUtcMs(to, 0, config.zone) + DAY
  PROVE  /\ zonedTimeToUtcMs(from, 0, config.zone) <= w.start
         /\ w.end <= zonedTimeToUtcMs(to, 0, config.zone) + DAY
<1> DEFINE z == config.zone
           lo == zonedTimeToUtcMs(from, 0, z)  hi == zonedTimeToUtcMs(to, 0, z)
<1>0. /\ z \in TimeZones /\ z.before \in Int /\ z.after \in Int /\ DAY \in Nat \ {0} /\ d \in Int
      /\ from * DAY \in Int /\ to * DAY \in Int /\ d * DAY \in Int
  BY CalendarAssumption, DayGrid DEF Configs, TimeZones
<1>1. PICK h \in config.hours : Holds(h, w, d, z)
  BY OpenByBoth
<1>2. /\ h \in HourRows /\ h.opensAt \in 0 .. DAY - 1 /\ h.closesAt \in 0 .. DAY - 1
      /\ h.opensAt \in Int /\ h.closesAt \in Int /\ w.start \in Int /\ w.end \in Int
  BY <1>0, OpenByBoth DEF Configs, HourRows
<1> DEFINE opens == zonedTimeToUtcMs(d, h.opensAt, z)  closes == zonedTimeToUtcMs(d, h.closesAt, z)
<1>3. opens <= w.start /\ w.end <= closes
  BY <1>0, <1>1, <1>2, Conversion DEF Holds
<1>4. /\ lo \in Int /\ \E off \in {z.before, z.after} : lo = from * DAY - off
      /\ hi \in Int /\ \E off \in {z.before, z.after} : hi = to * DAY - off
  <2>1. /\ from * DAY + 0 = from * DAY /\ to * DAY + 0 = to * DAY
    BY <1>0
  <2> QED
    BY <1>0, <2>1, Conversion, CorrectedType
<1>5. /\ opens \in Int /\ \E off \in {z.before, z.after} : opens = d * DAY + h.opensAt - off
      /\ closes \in Int /\ \E off \in {z.before, z.after} : closes = d * DAY + h.closesAt - off
  BY <1>0, <1>2, Conversion, CorrectedType
<1>6. lo <= opens
  <2>1. CASE d = from
    BY <2>1, <1>2
  <2>2. CASE from < d
    <3>1. from * DAY + DAY <= d * DAY
      BY <2>2, <1>0, DayGrid
    <3> HIDE DEF lo, hi, opens, closes
    <3> QED
      BY <3>1, <1>0, <1>2, <1>4, <1>5
  <2> QED
    BY <1>0, <2>1, <2>2
<1>7. closes <= hi + DAY
  <2>1. CASE d = to
    BY <2>1, <1>2
  <2>2. CASE d < to
    <3>1. d * DAY + DAY <= to * DAY
      BY <2>2, <1>0, DayGrid
    <3> HIDE DEF lo, hi, opens, closes
    <3> QED
      BY <3>1, <1>0, <1>2, <1>4, <1>5
  <2> QED
    BY <1>0, <2>1, <2>2
<1> HIDE DEF lo, hi, opens, closes
<1>8. lo <= w.start /\ w.end <= hi + DAY
  BY <1>0, <1>2, <1>3, <1>4, <1>5, <1>6, <1>7
<1> QED
  BY <1>8 DEF lo, hi
-----------------------------------------------------------------------------
(* The query                                                               *)

(* The rows in the table are rows of hours.                                *)
LEMMA RowsType ==
  ASSUME ReplacementTypes
  PROVE  \A k \in Owners : RowsIn(k) \subseteq HourRows
BY AvailabilityAssumption DEF ReplacementTypes, RowsIn

(* The query asks for the dates from First to Last.                        *)
LEMMA DatesAsked ==
  ASSUME QueryTypes, pc # "idle"
  PROVE  First \in Int /\ Last \in Int /\ asked = First .. Last
<1>1. PICK from \in Dates, to \in Dates : from <= to /\ asked = from .. to
  BY DEF QueryTypes
<1>2. from \in Int /\ to \in Int
  BY AvailabilityAssumption
<1>3. First = from
  BY <1>1, <1>2 DEF First
<1>4. Last = to
  BY <1>1, <1>2 DEF Last
<1> QED
  BY <1>1, <1>2, <1>3, <1>4

LEMMA InitQuery == Init => QueryInv
<1> SUFFICES ASSUME Init PROVE QueryInv
  OBVIOUS
<1> USE DEF Init
<1>1. QueryTypes
  <2>1. Nothing \in [zone : TimeZones, rules : BookingRules, hours : SUBSET HourRows,
                     blocks : SUBSET BusyTimes, appointments : SUBSET BusyTimes,
                     schedule : [Resources -> SUBSET HourRows]]
    BY DEF Nothing, TimeZones, BookingRules
  <2> QED
    BY <2>1 DEF QueryTypes
<1>2. AnswerInv /\ StandingInv /\ SteadyInv
  BY DEF AnswerInv, StandingInv, SteadyInv, NothingStands
<1> QED
  BY <1>1, <1>2 DEF QueryInv

(* What an edit must leave alone, and what it does to the history.         *)
LEMMA Edited ==
  ASSUME QueryInv, Edit, UNCHANGED query, timezone' \in Zones, rules' \in Rules, (blocks' \union appointments') \subseteq BusyTimes
  PROVE  QueryInv'
<1> USE DEF QueryInv, Edit, query
<1>1. QueryTypes'
  BY DEF QueryTypes
<1>2. AnswerInv'
  BY DEF AnswerInv, AsRead, First, Last, Concerning
<1>3. StandingInv'
  BY DEF StandingInv, Range, First, Last
<1>4. SteadyInv'
  BY DEF SteadyInv
<1> QED
  BY <1>1, <1>2, <1>3, <1>4

(* A block has two integers for its ends.                                  *)
LEMMA BlockType ==
  ASSUME timezone \in Zones, NEW b \in BlockRequests
  PROVE  BlockOf(b) \in BusyTimes
<1>1. /\ timezone \in TimeZones /\ b.date \in Int /\ b.startsAt \in Int /\ b.endsAt \in Int
      /\ b.resource \in Resources \union {Everyone}
  BY AvailabilityAssumption, CalendarAssumption
<1>2. /\ zonedTimeToUtcMs(b.date, b.startsAt, timezone) \in Int
      /\ zonedTimeToUtcMs(b.date, b.endsAt, timezone) \in Int
  BY <1>1, Conversion, CorrectedType
<1> QED
  BY <1>1, <1>2 DEF BlockOf, localDateTimeToUtc, BusyTimes

(* Edits of settings, blocks, appointments and resources keep the query's  *)
(* invariant.                                                              *)
LEMMA EditsKept ==
  ASSUME QueryInv, UpdateSettings \/ EditBlocks \/ EditAppointments \/ \E r \in Resources : Switch(r)
  PROVE  QueryInv'
<1> USE DEF calendar
<1>1. timezone \in Zones /\ rules \in Rules /\ blocks \subseteq BusyTimes /\ appointments \subseteq BusyTimes
  BY DEF QueryInv, QueryTypes
<1>2. ASSUME NEW z \in Zones, UpdateBusiness(z) PROVE QueryInv'
  BY <1>1, <1>2, Edited DEF UpdateBusiness
<1>3. ASSUME NEW x \in Rules, UpdateBooking(x) PROVE QueryInv'
  BY <1>1, <1>3, Edited DEF UpdateBooking
<1>4. ASSUME NEW b \in BlockRequests, CreateBlockedTime(b) PROVE QueryInv'
  BY <1>1, <1>4, BlockType, Edited DEF CreateBlockedTime, settings
<1>5. ASSUME NEW b \in blocks, DeleteBlockedTime(b) PROVE QueryInv'
  BY <1>1, <1>5, Edited DEF DeleteBlockedTime, settings
<1>6. ASSUME NEW r \in Resources, NEW d \in Dates, NEW time \in 0 .. DAY - 1, Book(r, localDateTimeToUtc(d, time))
      PROVE  QueryInv'
  <2> DEFINE start == localDateTimeToUtc(d, time)
             slot == [resource |-> r, start |-> start, end |-> start + Duration]
  <2>1. start \in Int
    <3>1. timezone \in TimeZones /\ d \in Int /\ time \in Int
      BY <1>1, AvailabilityAssumption, CalendarAssumption
    <3> QED
      BY <3>1, Conversion, CorrectedType DEF localDateTimeToUtc
  <2>2. slot \in BusyTimes
    BY <2>1, AvailabilityAssumption DEF BusyTimes
  <2>3. /\ appointments' = appointments \union {slot}
        /\ UNCHANGED <<settings, blocks, query>> /\ Edit
    BY <1>6 DEF Book
  <2> HIDE DEF slot
  <2> QED
    BY <1>1, <2>2, <2>3, Edited DEF settings
<1>7. ASSUME NEW a \in appointments, Cancel(a) PROVE QueryInv'
  BY <1>1, <1>7, Edited DEF Cancel, settings
<1>8. ASSUME NEW r \in Resources, Switch(r) PROVE QueryInv'
  BY <1>1, <1>8, Edited DEF Switch, settings
<1> QED
  BY <1>2, <1>3, <1>4, <1>5, <1>6, <1>7, <1>8 DEF UpdateSettings, EditBlocks, EditAppointments

(* So does every step of a replacement.                                    *)
LEMMA ReplacementsKept ==
  ASSUME QueryInv, NEW w \in Replacements, Replace(w)
  PROVE  QueryInv'
<1>1. CASE InsertRows(w)
  <2>1. timezone' \in Zones /\ rules' \in Rules /\ (blocks' \union appointments') \subseteq BusyTimes
    BY <1>1 DEF InsertRows, settings, QueryInv, QueryTypes
  <2> QED
    BY <1>1, <2>1, Edited DEF InsertRows
<1>2. CASE StartReplacement(w) \/ DeleteRows(w) \/ RollBack(w)
  <2>1. UNCHANGED <<settings, calendar, query, standing, steady>>
    BY <1>2 DEF StartReplacement, DeleteRows, RollBack, history
  <2> QED
    BY <2>1 DEF QueryInv, QueryTypes, AnswerInv, StandingInv, SteadyInv, settings, calendar, query,
                AsRead, First, Last, Concerning, Range, RowsIn
<1> QED
  BY <1>1, <1>2 DEF Replace

(* The types of what the query reads.                                      *)
ReadType == [zone : TimeZones, rules : BookingRules, hours : SUBSET HourRows,
             blocks : SUBSET BusyTimes, appointments : SUBSET BusyTimes,
             schedule : [Resources -> SUBSET HourRows]]

(* The steps of the query, one by one.                                     *)
LEMMA Resolved ==
  ASSUME QueryInv, NEW S, S \subseteq Resources, NEW from \in Dates, NEW to \in Dates, from <= to,
         ResolveCandidateResources(S, from, to)
  PROVE  QueryInv'
<1> USE DEF QueryInv, ResolveCandidateResources, Unchanged, settings, calendar
<1>1. QueryTypes'
  BY DEF QueryTypes
<1>2. AnswerInv'
  BY DEF AnswerInv
<1>3. StandingInv'
  BY DEF StandingInv
<1>4. SteadyInv'
  BY <1>2 DEF SteadyInv, AnswerInv
<1> QED
  BY <1>1, <1>2, <1>3, <1>4

LEMMA SettingsRead ==
  ASSUME QueryInv, ReadSettings
  PROVE  QueryInv'
<1> USE DEF QueryInv, ReadSettings, Unchanged, settings, calendar
<1>1. QueryTypes'
  <2>1. timezone \in TimeZones /\ rules \in BookingRules
    BY AvailabilityAssumption DEF QueryTypes
  <2>2. read' \in ReadType /\ read'.zone = timezone
    BY <2>1 DEF QueryTypes, ReadType
  <2> QED
    BY <2>2 DEF QueryTypes, ReadType
<1>2. AnswerInv'
  BY DEF AnswerInv
<1>3. StandingInv'
  BY DEF StandingInv
<1>4. SteadyInv'
  BY <1>2 DEF SteadyInv, AnswerInv, QueryTypes
<1> QED
  BY <1>1, <1>2, <1>3, <1>4

LEMMA HoursRead ==
  ASSUME QueryInv, ReplacementTypes, ReadBusinessHours
  PROVE  QueryInv'
<1> USE DEF QueryInv, ReadBusinessHours, Unchanged, settings, calendar
<1>1. RowsIn(Business) \subseteq HourRows /\ rows' = rows
  BY RowsType DEF Owners
<1>2. read' \in ReadType /\ read'.zone = read.zone /\ read'.rules = read.rules /\ read'.hours = RowsIn(Business)
  BY <1>1 DEF QueryTypes, ReadType
<1>3. QueryTypes'
  BY <1>2 DEF QueryTypes, ReadType
<1>4. AnswerInv'
  BY DEF AnswerInv
<1>5. StandingInv'
  BY DEF StandingInv
<1>6. SteadyInv'
  BY <1>1, <1>2, <1>4 DEF SteadyInv, AnswerInv, RowsIn
<1> QED
  BY <1>3, <1>4, <1>5, <1>6

LEMMA BlocksRead ==
  ASSUME QueryInv, ReadBlocks
  PROVE  QueryInv'
<1> USE DEF QueryInv, ReadBlocks, Unchanged, settings, calendar
<1>1. /\ read' \in ReadType /\ read'.zone = read.zone /\ read'.rules = read.rules /\ read'.hours = read.hours
      /\ read'.blocks = {b \in blocks : Overlaps(b, Range)}
  BY DEF QueryTypes, ReadType
<1>2. QueryTypes'
  BY <1>1 DEF QueryTypes, ReadType
<1>3. AnswerInv'
  BY DEF AnswerInv
<1>4. Range' = Range
  BY <1>1 DEF Range, First, Last
<1>5. StandingInv'
  BY <1>1, <1>4 DEF StandingInv
<1>6. SteadyInv'
  BY <1>1, <1>3 DEF SteadyInv, AnswerInv, RowsIn
<1> QED
  BY <1>2, <1>3, <1>5, <1>6

LEMMA AppointmentsRead ==
  ASSUME QueryInv, ReadAppointments
  PROVE  QueryInv'
<1> USE DEF QueryInv, ReadAppointments, Unchanged, settings, calendar
<1>1. /\ read' \in ReadType /\ read'.zone = read.zone /\ read'.rules = read.rules /\ read'.hours = read.hours
      /\ read'.blocks = read.blocks
      /\ read'.appointments = {a \in appointments : Overlaps(a, Range)}
  BY DEF QueryTypes, ReadType
<1>2. QueryTypes'
  BY <1>1 DEF QueryTypes, ReadType
<1>3. AnswerInv'
  BY DEF AnswerInv
<1>4. Range' = Range
  BY <1>1 DEF Range, First, Last
<1>5. StandingInv'
  BY <1>1, <1>4 DEF StandingInv
<1>6. SteadyInv'
  BY <1>1, <1>3 DEF SteadyInv, AnswerInv, RowsIn
<1> QED
  BY <1>2, <1>3, <1>5, <1>6

LEMMA Offered ==
  ASSUME QueryInv, ReplacementTypes, NEW r \in Resources, OfferSlots(r)
  PROVE  QueryInv'
<1> USE DEF QueryInv, OfferSlots, Unchanged, settings, calendar
<1> DEFINE config == [AsRead(r) EXCEPT !.schedule = RowsIn(r)]
           slots == compute(config, read.rules, First, Last, Duration, Now)
<1>1. RowsIn(r) \subseteq HourRows /\ RowsIn(r)' = RowsIn(r) /\ RowsIn(Business)' = RowsIn(Business)
  BY RowsType DEF Owners, RowsIn
<1>2. /\ read' \in ReadType
      /\ read'.zone = read.zone /\ read'.rules = read.rules /\ read'.hours = read.hours
      /\ read'.blocks = read.blocks /\ read'.appointments = read.appointments
      /\ read'.schedule = [read.schedule EXCEPT ![r] = RowsIn(r)]
      /\ read.schedule \in [Resources -> SUBSET HourRows]
  BY <1>1 DEF QueryTypes, ReadType
<1>3. read'.schedule[r] = RowsIn(r) /\ \A q \in Resources \ {r} : read'.schedule[q] = read.schedule[q]
  BY <1>2
<1>4. First' = First /\ Last' = Last /\ Range' = Range
  BY <1>2 DEF Range, First, Last
<1>5. AsRead(r)' = config /\ \A q \in Resources \ {r} : AsRead(q)' = AsRead(q)
  <2>1. \A q : AsRead(q)' = [zone |-> read.zone, hours |-> read.hours, schedule |-> read'.schedule[q],
                             busy |-> Concerning(read.blocks \union read.appointments, q)]
    BY <1>2 DEF AsRead, Concerning
  <2>2. config = [zone |-> read.zone, hours |-> read.hours, schedule |-> RowsIn(r),
                  busy |-> Concerning(read.blocks \union read.appointments, r)]
    BY DEF AsRead
  <2> HIDE DEF config
  <2> QED
    BY <2>1, <2>2, <1>3 DEF AsRead
<1>6. QueryTypes'
  BY <1>2 DEF QueryTypes, ReadType
<1>7. ASSUME NEW offer \in answer'
      PROVE  \/ offer \in answer /\ offer[1] \in Resources \ todo
             \/ offer[1] = r /\ offer[2] \in slots
  BY <1>7 DEF AnswerInv
<1> HIDE DEF config, slots
<1>8. AnswerInv'
  <2>1. ASSUME NEW offer \in answer'
        PROVE  /\ offer[1] \in Resources \ todo'
               /\ offer[2] \in compute(AsRead(offer[1])', read'.rules, First', Last', Duration, Now)
    <3>1. CASE offer \in answer /\ offer[1] \in Resources \ todo
      <4>1. offer[1] # r /\ offer[2] \in compute(AsRead(offer[1]), read.rules, First, Last, Duration, Now)
        BY <3>1 DEF AnswerInv
      <4>2. AsRead(offer[1])' = AsRead(offer[1])
        BY <3>1, <4>1, <1>5
      <4> QED
        BY <3>1, <4>1, <4>2, <1>2, <1>4
    <3>2. CASE offer[1] = r /\ offer[2] \in slots
      <4>1. AsRead(offer[1])' = config
        BY <3>2, <1>5
      <4> QED
        BY <3>2, <4>1, <1>2, <1>4 DEF slots
    <3> QED
      BY <2>1, <3>1, <3>2, <1>7
  <2> QED
    BY <2>1 DEF AnswerInv
<1>9. StandingInv'
  BY <1>2, <1>4 DEF StandingInv
<1>10. SteadyInv'
  <2>1. ASSUME steady, NEW offer \in answer' PROVE read'.schedule[offer[1]] = RowsIn(offer[1])'
    <3>1. CASE offer \in answer /\ offer[1] \in Resources \ todo
      <4>1. read.schedule[offer[1]] = RowsIn(offer[1])
        BY <2>1, <3>1 DEF SteadyInv
      <4>2. offer[1] # r /\ RowsIn(offer[1])' = RowsIn(offer[1])
        BY <3>1 DEF RowsIn
      <4> QED
        BY <4>1, <4>2, <3>1, <1>3
    <3>2. CASE offer[1] = r
      BY <3>2, <1>1, <1>3
    <3> QED
      BY <2>1, <3>1, <3>2, <1>7
  <2> QED
    BY <2>1, <1>1, <1>2 DEF SteadyInv
<1> QED
  BY <1>6, <1>8, <1>9, <1>10

LEMMA Responded ==
  ASSUME QueryInv, Respond
  PROVE  QueryInv'
<1> USE DEF QueryInv, Respond, Unchanged, settings, calendar
<1>1. QueryTypes'
  <2>1. Nothing \in ReadType
    BY DEF Nothing, TimeZones, BookingRules, ReadType
  <2> QED
    BY <2>1 DEF QueryTypes, ReadType
<1>2. AnswerInv' /\ StandingInv' /\ SteadyInv'
  BY DEF AnswerInv, StandingInv, SteadyInv, NothingStands
<1> QED
  BY <1>1, <1>2

(* Of what the query reads and offers: the invariant holds in every        *)
(* reachable state.                                                        *)
THEOREM QueryInvariance == Spec => []QueryInv
<1>1. Init => QueryInv
  BY InitQuery
<1>2. Inv /\ QueryInv /\ [Next]_vars => QueryInv'
  <2> SUFFICES ASSUME Inv, QueryInv, [Next]_vars PROVE QueryInv'
    OBVIOUS
  <2>1. CASE SetBusinessHours \/ SetSchedule
    BY <2>1, ReplacementsKept DEF SetBusinessHours, SetSchedule
  <2>2. CASE UpdateSettings \/ EditBlocks \/ EditAppointments \/ \E r \in Resources : Switch(r)
    BY <2>2, EditsKept
  <2>3. CASE Query
    <3>1. ReplacementTypes
      BY DEF Inv
    <3>2. ASSUME NEW S \in {Resources \intersect bookable} \union {{r} : r \in Resources},
                 NEW from \in Dates, NEW to \in Dates, from <= to, ResolveCandidateResources(S, from, to)
          PROVE  QueryInv'
      <4>1. S \subseteq Resources
        BY <3>2
      <4> QED
        BY <4>1, <3>2, Resolved
    <3>3. ASSUME NEW r \in Resources, OfferSlots(r) PROVE QueryInv'
      BY <3>1, <3>3, Offered
    <3> QED
      BY <2>3, <3>1, <3>2, <3>3, SettingsRead, HoursRead, BlocksRead, AppointmentsRead, Responded DEF Query
  <2>4. CASE UNCHANGED vars
    BY <2>4 DEF vars, settings, calendar, query, history, QueryInv, QueryTypes, AnswerInv, StandingInv,
                SteadyInv, AsRead, First, Last, Concerning, Range, RowsIn
  <2> QED
    BY <2>1, <2>2, <2>3, <2>4 DEF Next
<1> QED
  BY <1>1, <1>2, ReplacementInvariance, PTL DEF Spec

(* What is known of a slot that is offered.                                *)
LEMMA OfferKnown ==
  ASSUME QueryInv, NEW offer \in answer
  PROVE  /\ pc = "slots" /\ offer[1] \in Resources
         /\ AsRead(offer[1]) \in Configs /\ read.zone \in Zones
         /\ First \in Int /\ Last \in Int /\ Duration \in Nat \ {0}
         /\ offer[2] \in compute(AsRead(offer[1]), read.rules, First, Last, Duration, Now)
<1> USE DEF QueryInv
<1>1. pc = "slots" /\ offer[1] \in Resources
      /\ offer[2] \in compute(AsRead(offer[1]), read.rules, First, Last, Duration, Now)
  BY DEF AnswerInv
<1>2. AsRead(offer[1]) \in Configs
  BY <1>1 DEF QueryTypes, AsRead, Configs, Concerning
<1> QED
  BY <1>1, <1>2, DatesAsked, AvailabilityAssumption DEF QueryTypes

(* Where the clocks show the edges of a date's windows once, its slots lie *)
(* in opening hours and schedule, and on that date.                        *)
LEMMA OfferOpen ==
  ASSUME QueryInv, NEW offer \in answer, PlainDate(offer[1], offer[2].date)
  PROVE  /\ \A t \in offer[2].start .. offer[2].end - 1 : OpenAt(AsRead(offer[1]), t)
         /\ utcMsToZonedDate(offer[2].start, read.zone) = offer[2].date
<1> DEFINE config == AsRead(offer[1])  slot == offer[2]
<1>1. PlainOn(config, slot.date) /\ config.zone = read.zone
  BY DEF PlainOn, PlainDate, AsRead
<1>2. /\ config \in Configs /\ slot.date \in Int /\ slot.start \in Int /\ slot.end \in Int /\ slot.start < slot.end
      /\ \E w \in Open(config, slot.date) : w.start <= slot.start /\ slot.end <= w.end
  <2>1. /\ config \in Configs /\ First \in Int /\ Last \in Int /\ Duration \in Nat \ {0}
        /\ slot \in compute(config, read.rules, First, Last, Duration, Now)
    BY OfferKnown
  <2> HIDE DEF config, slot
  <2>2. /\ slot.date \in First .. Last /\ slot.start \in Int /\ slot.end \in Int /\ slot.start < slot.end
        /\ \E w \in Open(config, slot.date) : w.start <= slot.start /\ slot.end <= w.end
    BY <2>1, SlotComputed
  <2> QED
    BY <2>1, <2>2
<1> HIDE DEF config, slot
<1>3. PICK w \in Open(config, slot.date) : w.start <= slot.start /\ slot.end <= w.end
  BY <1>2
<1>4. w.start \in Int /\ w.end \in Int
  BY <1>2, OpenByBoth
<1>5. ASSUME NEW t \in Int, slot.start <= t, t < slot.end
      PROVE  OpenAt(config, t) /\ utcMsToZonedDate(t, config.zone) = slot.date
  <2>1. w.start <= t /\ t < w.end
    BY <1>2, <1>3, <1>4, <1>5
  <2> QED
    BY <2>1, <1>1, <1>2, OpenThroughout
<1>6. \A t \in slot.start .. slot.end - 1 : t \in Int /\ slot.start <= t /\ t < slot.end
  BY <1>2
<1> QED
  BY <1>1, <1>2, <1>5, <1>6 DEF config, slot

(* Every slot that is offered lies in the hours of the business and in the *)
(* schedule of its resource, from its first instant to its last, in any    *)
(* zone: the calculator's windows, laid out by zonedTimeToUtcMs, are what  *)
(* the clocks on the wall show.                                            *)
THEOREM OffersAreOpen == Spec => []OfferedIsOpen
<1>1. QueryInv => OfferedIsOpen
  BY OfferOpen DEF OfferedIsOpen
<1> QED
  BY QueryInvariance, <1>1, PTL

(* Nothing that stands throughout the query overlaps a slot, though blocks *)
(* and appointments are read one after the other, and only those that the  *)
(* range of the dates touches.                                             *)
LEMMA OfferFree == QueryInv => OfferedIsFree
<1> SUFFICES ASSUME QueryInv, NEW offer \in answer, WholeDates,
                    NEW b \in Concerning(standing.blocks \union standing.appointments, offer[1]),
                    Overlaps(offer[2], b)
             PROVE  FALSE
  BY DEF OfferedIsFree
<1> DEFINE config == AsRead(offer[1])  slot == offer[2]
<1>1. /\ pc = "slots" /\ config \in Configs /\ read.zone \in Zones /\ First \in Int /\ Last \in Int
      /\ slot.date \in First .. Last /\ slot.start \in Int /\ slot.end \in Int
      /\ \E w \in Open(config, slot.date) : w.start <= slot.start /\ slot.end <= w.end
      /\ ~overlapsAny(config.busy, slot) /\ config.zone = read.zone
  <2>1. config.zone = read.zone
    BY DEF AsRead
  <2> QED
    BY <2>1, OfferKnown, SlotComputed
<1> HIDE DEF config, slot
<1>2. /\ Range.start \in Int /\ Range.end \in Int
      /\ Range.start <= slot.start /\ slot.end <= Range.end
  <2>1. PICK w \in Open(config, slot.date) : w.start <= slot.start /\ slot.end <= w.end
    BY <1>1
  <2>2. /\ config.zone \in TimeZones /\ config.zone.before - config.zone.after \in -DAY .. DAY
        /\ DAY \in Int
    BY <1>1, AvailabilityAssumption, CalendarAssumption
  <2>3. /\ Range.start = zonedTimeToUtcMs(First, 0, config.zone)
        /\ Range.end = zonedTimeToUtcMs(Last, 0, config.zone) + DAY
    BY <1>1 DEF Range
  <2>4. Range.start \in Int /\ Range.end \in Int
    BY <1>1, <2>2, <2>3, Conversion, CorrectedType
  <2>5. Range.start <= w.start /\ w.end <= Range.end
    <3>1. \A time \in 0 .. DAY - 1 :
            /\ zonedTimeToUtcMs(First, 0, config.zone) <= zonedTimeToUtcMs(First, time, config.zone)
            /\ zonedTimeToUtcMs(Last, time, config.zone) <= zonedTimeToUtcMs(Last, 0, config.zone) + DAY
      BY <1>1, <2>3 DEF WholeDates
    <3> QED
      BY <3>1, <1>1, <2>2, <2>3, WindowInRange
  <2>6. w.start \in Int /\ w.end \in Int
    BY <1>1, OpenByBoth
  <2> HIDE DEF Range
  <2> QED
    BY <1>1, <2>1, <2>4, <2>5, <2>6
<1>3. b \in standing.blocks \union standing.appointments /\ b.resource \in {offer[1], Everyone}
  BY DEF Concerning
<1>4. b.start \in Int /\ b.end \in Int
  BY <1>3 DEF QueryInv, StandingInv, QueryTypes, BusyTimes
<1>5. Overlaps(b, Range)
  BY <1>1, <1>2, <1>4 DEF Overlaps, slot
<1>6. b \in read.blocks \union read.appointments
  BY <1>1, <1>3, <1>5 DEF QueryInv, StandingInv
<1>7. b \in config.busy
  BY <1>3, <1>6 DEF config, AsRead, Concerning
<1> QED
  BY <1>1, <1>7 DEF overlapsAny, slot

(* A block or an appointment that stands from the query's beginning to its *)
(* end overlaps no slot that it offers, whatever is edited meanwhile.      *)
THEOREM OffersAreFree == Spec => []OfferedIsFree
BY QueryInvariance, OfferFree, PTL

(* calculateAvailability and the check of createAppointment read the same  *)
(* calendar the same way: until somebody edits it, each slot offered can   *)
(* be booked.                                                              *)
THEOREM OffersAreBookable == Spec => []OfferedIsBookable
<1>1. QueryInv => OfferedIsBookable
  <2> SUFFICES ASSUME QueryInv, steady, NEW offer \in answer,
                      PlainDate(offer[1], offer[2].date), WholeDates
               PROVE  TakesBooking(offer[1], offer[2])
    BY DEF OfferedIsBookable
  <2> DEFINE r == offer[1]  slot == offer[2]
  <2>1. /\ pc = "slots" /\ AsRead(r) \in Configs /\ First \in Int /\ Last \in Int /\ Duration \in Nat \ {0}
        /\ slot \in compute(AsRead(r), read.rules, First, Last, Duration, Now)
    BY OfferKnown
  <2>2. /\ \E w \in Open(AsRead(r), slot.date) : w.start <= slot.start /\ slot.end <= w.end
        /\ Now + read.rules.minNotice <= slot.start /\ slot.start <= Now + read.rules.maxAdvance * DAY
    BY <2>1, SlotComputed
  <2>3. utcMsToZonedDate(slot.start, read.zone) = slot.date
    BY OfferOpen
  <2>4. /\ read.zone = timezone /\ read.rules = rules /\ read.hours = RowsIn(Business)
        /\ read.schedule[r] = RowsIn(r)
        /\ blocks \subseteq standing.blocks /\ appointments \subseteq standing.appointments
    BY <2>1 DEF QueryInv, SteadyInv
  <2>5. \A b \in Concerning(blocks, r) \union Concerning(appointments, r) : ~Overlaps(slot, b)
    BY <2>4, OfferFree DEF OfferedIsFree, Concerning
  <2> HIDE DEF r, slot
  <2>6. InWindow(slot)
    BY <2>2, <2>4 DEF InWindow
  <2>7. \A d : Open(Config(r, blocks), d) = Open(AsRead(r), d)
    BY <2>4 DEF Open, Config, AsRead
  <2>8. isBookable(Config(r, blocks), slot)
    <3>1. Config(r, blocks).zone = timezone /\ Config(r, blocks).busy = Concerning(blocks, r)
      BY DEF Config
    <3> QED
      BY <3>1, <2>2, <2>3, <2>4, <2>5, <2>7 DEF isBookable, overlapsAny
  <2>9. ~overlapsAny(Concerning(appointments, r), slot)
    BY <2>5 DEF overlapsAny
  <2> QED
    BY <2>6, <2>8, <2>9 DEF TakesBooking, r, slot
<1> QED
  BY QueryInvariance, <1>1, PTL
=============================================================================
