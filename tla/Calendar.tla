------------------------------ MODULE Calendar ------------------------------
(***************************************************************************)
(* The availability engine and the time-zone helpers under it: opening     *)
(* hours and schedules in local wall-clock time, slots in UTC instants.    *)
(*                                                                         *)
(* An instant is a whole number of half hours, in Intervals' half-open     *)
(* intervals bound; a date is a number of days since the epoch.  A zone is *)
(* its offset from UTC before and after the one transition that it has     *)
(* here (a bound).  The rows of the two tables are sets, as the order of   *)
(* their windows shows only in that of the slots, which are sorted.        *)
(***************************************************************************)
EXTENDS Intervals

CONSTANTS
  DAY,    \* half hours of a day
  WEEK    \* days of a week

ASSUME CalendarAssumption == {DAY, WEEK} \subseteq Nat \ {0}

Later(m, n) == IF m > n THEN m ELSE n
Earlier(m, n) == IF m > n THEN n ELSE m
-----------------------------------------------------------------------------
(* time-zone.ts                                                            *)

offsetMs(instant, zone) == IF instant < zone.at THEN zone.before ELSE zone.after

(* What the clocks of the zone show, counted from its epoch.              *)
WallClock(instant, zone) == instant + offsetMs(instant, zone)

(* A first guess of the offset, corrected once.                            *)
zonedTimeToUtcMs(date, time, zone) ==
  LET guess == date * DAY + time
      utc == guess - offsetMs(guess, zone)
  IN guess - offsetMs(utc, zone)

utcMsToZonedDate(instant, zone) == WallClock(instant, zone) \div DAY

weekdayOf(date) == date % WEEK

eachDateInclusive(from, to) == from .. to
-----------------------------------------------------------------------------
(* AvailabilityCalculator.  A row without validity dates is valid from the *)
(* first to the last date there is.                                        *)

isApplicable(row, date) == row.validFrom <= date /\ date <= row.validTo

toInterval(date, row, zone) ==
  [start |-> zonedTimeToUtcMs(date, row.opensAt, zone),
   end |-> zonedTimeToUtcMs(date, row.closesAt, zone)]

Windows(rows, date, zone) ==
  {i \in {toInterval(date, row, zone) : row \in
            {r \in rows : r.dayOfWeek = weekdayOf(date) /\ isApplicable(r, date)}} : IsInterval(i)}

businessWindows(hours, date, zone) == Windows({h \in hours : ~h.isClosed}, date, zone)

resourceWindows(schedule, date, zone) == Windows(schedule, date, zone)

(* Mutant: of two windows that share an instant, all that either covers.   *)
intersect_Span(A, B) ==
  {i \in {[start |-> Earlier(x.start, y.start), end |-> Later(x.end, y.end)] :
            x \in A, y \in B} : IsInterval(i)}

intersect(A, B) ==
  {i \in {[start |-> Later(x.start, y.start), end |-> Earlier(x.end, y.end)] :
            x \in A, y \in B} : IsInterval(i)}

Open(config, date) ==
  intersect(businessWindows(config.hours, date, config.zone),
            resourceWindows(config.schedule, date, config.zone))

(* Mutant: only a slot that lies within a busy interval.                   *)
overlapsAny_Nested(busy, slot) == \E b \in busy : slot.start >= b.start /\ slot.end <= b.end

overlapsAny(busy, slot) == \E b \in busy : Overlaps(slot, b)

(* The starts of a window's slots: a grid from its own start.              *)
Starts(window, duration, granularity) ==
  {s \in window.start .. window.end - duration : (s - window.start) % granularity = 0}

(* rules: the booking settings; now: the instant of the query.             *)
compute(config, rules, from, to, duration, now) ==
  {slot \in UNION {{[date |-> date, start |-> s, end |-> s + duration] :
                      s \in UNION {Starts(w, duration, rules.granularity) : w \in Open(config, date)}} :
                    date \in eachDateInclusive(from, to)} :
     /\ now + rules.minNotice <= slot.start /\ slot.start <= now + rules.maxAdvance * DAY
     /\ ~overlapsAny(config.busy, slot)}

(* Mutant: a window's first slot is refused.                               *)
isBookable_Inside(config, slot) ==
  /\ \E w \in Open(config, utcMsToZonedDate(slot.start, config.zone)) :
       w.start < slot.start /\ slot.end <= w.end
  /\ ~overlapsAny(config.busy, slot)

(* The check of a booking, for an interval whatever its grid.              *)
isBookable(config, slot) ==
  /\ \E w \in Open(config, utcMsToZonedDate(slot.start, config.zone)) :
       w.start <= slot.start /\ slot.end <= w.end
  /\ ~overlapsAny(config.busy, slot)
-----------------------------------------------------------------------------
(* The opening hours read pointwise, to compare with.                      *)

(* A row covers an instant when the clocks then show a time in it.         *)
Covers(row, instant, zone) ==
  LET date == utcMsToZonedDate(instant, zone)
      time == WallClock(instant, zone) % DAY
  IN /\ row.dayOfWeek = weekdayOf(date) /\ isApplicable(row, date)
     /\ row.opensAt <= time /\ time < row.closesAt

OpenAt(config, instant) ==
  /\ \E h \in config.hours : ~h.isClosed /\ Covers(h, instant, config.zone)
  /\ \E s \in config.schedule : Covers(s, instant, config.zone)

(* The clocks show it once: it is not skipped, nor shown twice.            *)
ShownOnce(local, zone) ==
  LET shown == {t \in local - Later(zone.before, zone.after) .. local - Earlier(zone.before, zone.after) :
                  WallClock(t, zone) = local}
  IN \E t \in shown : shown = {t}

Unambiguous(date, time, zone) == ShownOnce(date * DAY + time, zone)
=============================================================================
