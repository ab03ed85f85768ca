---------------------------- MODULE Availability ----------------------------
(***************************************************************************)
(* An organization's calendar while people edit it and one asks what is    *)
(* free: opening hours and schedules that are replaced as a whole in a     *)
(* transaction, the time zone and the booking rules, blocked times and     *)
(* appointments; and a query that gathers all of it statement by statement,*)
(* without one, and hands it to the engine of Calendar.  (Queries only     *)
(* read, so one stands for all.)                                           *)
(***************************************************************************)
EXTENDS Calendar, FiniteSets

CONSTANTS
  Resources,
  Business,       \* the owner of the opening hours
  Everyone,       \* the resource of a block of the whole business
  Replacements,   \* requests that replace the rows of an owner
  rowsOf,         \* rowsOf[w]: the rows that w brings
  ownerOf,        \* ownerOf[w]: Business, or the resource whose schedule it is
  Original,       \* the replacements that the rows come from at the start
  Zones, Rules,   \* time zones and booking settings to choose from
  BlockRequests,  \* [resource, date, startsAt, endsAt]: in local wall-clock time
  Dates,          \* the dates that the query may ask for
  Duration,       \* of the service option
  Now,            \* the clock, which stands still
  MaxEdits        \* bound

(* Rows of opening hours and schedules, with times from 00:00 to 23:59;    *)
(* what is busy; booking settings; zones, whose clocks never change by     *)
(* more than a day.                                                        *)
HourRows == [dayOfWeek : Int, opensAt : 0 .. DAY - 1, closesAt : 0 .. DAY - 1, isClosed : BOOLEAN,
             validFrom : Int, validTo : Int]
BusyTimes == [resource : Resources \union {Everyone}, start : Int, end : Int]
BookingRules == [granularity : Nat \ {0}, minNotice : Nat, maxAdvance : Nat]
TimeZones == [before : Int, after : Int, at : Int]

ASSUME AvailabilityAssumption ==
  /\ Duration \in Nat \ {0} /\ MaxEdits \in Nat /\ Now \in Int
  /\ Business \notin Resources /\ Everyone \notin Resources
  /\ ownerOf \in [Replacements -> Resources \union {Business}]
  /\ Original \subseteq Replacements
  /\ \A w \in Replacements : rowsOf[w] \subseteq HourRows
  /\ Rules \subseteq BookingRules
  /\ \A z \in Zones : z \in TimeZones /\ z.before - z.after \in -DAY .. DAY
  /\ BlockRequests \subseteq [resource : Resources \union {Everyone}, date : Int,
                              startsAt : 0 .. DAY - 1, endsAt : 0 .. DAY - 1]
  /\ Dates \subseteq Int

Owners == Resources \union {Business}
-----------------------------------------------------------------------------
VARIABLES
  timezone, rules,    \* of business_settings and booking_settings
  rows,               \* rows[k]: the replacements of k whose rows are in the table
  bookable,           \* resources that are active and give the service
  blocks,             \* blocked times: [resource, start, end]
  appointments,       \* active appointments: [resource, start, end]
  step, seen, locked, \* a replacement's step, its snapshot and its row locks
  pc,                 \* the query's next step
  asked,              \* its dates
  todo,               \* resources that it has yet to compute
  read,               \* what it has read
  answer,             \* its slots: <<resource, slot>>
  edits,
  standing,           \* blocks and appointments ever since the query began (history)
  steady,             \* nothing has been edited since (history)
  raced, last         \* owners of overlapping replacements; the latest one (history)

settings == <<timezone, rules>>
calendar == <<rows, bookable, blocks, appointments>>
replacing == <<step, seen, locked>>
query == <<pc, asked, todo, read, answer>>
history == <<standing, steady, raced, last>>
vars == <<settings, calendar, replacing, query, edits, history>>

RowsIn(k) == UNION {rowsOf[w] : w \in rows[k]}
Nothing == [zone |-> [before |-> 0, after |-> 0, at |-> 0],
            rules |-> [granularity |-> 1, minNotice |-> 0, maxAdvance |-> 0], hours |-> {},
            blocks |-> {}, appointments |-> {}, schedule |-> [r \in Resources |-> {}]]
NothingStands == [blocks |-> {}, appointments |-> {}]

Init ==
  /\ timezone \in Zones /\ rules \in Rules
  /\ last \in [Owners -> Original] /\ \A k \in Owners : ownerOf[last[k]] = k
  /\ rows = [k \in Owners |-> {last[k]}]
  /\ bookable = Resources
  /\ blocks = {} /\ appointments = {}
  /\ step = [w \in Replacements |-> IF w \in Original THEN "done" ELSE "idle"]
  /\ seen = [w \in Replacements |-> {}]
  /\ locked = [w \in Replacements |-> {}]
  /\ pc = "idle" /\ asked = {} /\ todo = {} /\ read = Nothing /\ answer = {}
  /\ edits = 0
  /\ standing = NothingStands /\ steady = TRUE
  /\ raced = {}

(* Of blocks and appointments, those in the way of r.                      *)
Concerning(S, r) == {b \in S : b.resource \in {r, Everyone}}

(* What every edit does to the query's history.                            *)
Edit ==
  /\ edits' = edits + 1
  /\ steady' = (pc = "idle")
  /\ standing' = [blocks |-> standing.blocks \intersect blocks',
                  appointments |-> standing.appointments \intersect appointments']
-----------------------------------------------------------------------------
(* replaceBusinessHours and setSchedule: DELETE and INSERT of all the rows *)
(* of an owner in a READ COMMITTED transaction                             *)

(* A schedule with a row that ends before it starts is refused; opening    *)
(* hours are not looked at.                                                *)
Accepts(w) == ownerOf[w] \in Resources => \A row \in rowsOf[w] : row.opensAt < row.closesAt

Underway == {w \in Replacements : step[w] \in {"delete", "insert"}}

(* (The bound counts the edits that are under way.)                        *)
Room == edits + Cardinality(Underway) < MaxEdits

StartReplacement(w) ==
  /\ Room
  /\ step[w] = "idle" /\ Accepts(w)
  /\ step' = [step EXCEPT ![w] = "delete"]
  /\ seen' = [seen EXCEPT ![w] = rows[ownerOf[w]]]
  /\ raced' = IF \E v \in Underway : ownerOf[v] = ownerOf[w]
              THEN raced \union {ownerOf[w]} ELSE raced
  /\ UNCHANGED <<settings, calendar, locked, query, edits, standing, steady, last>>

(* Mutant: the rows are deleted outside the unit of work.                  *)
DeleteRows_Commits(w) ==
  /\ step[w] = "delete"
  /\ step' = [step EXCEPT ![w] = "insert"]
  /\ rows' = [rows EXCEPT ![ownerOf[w]] = @ \ seen[w]]
  /\ UNCHANGED <<settings, bookable, blocks, appointments, seen, locked, query, edits, history>>

(* The statement waits for whoever is deleting a row that it saw, and then *)
(* skips those that are gone; the rows that another has inserted meanwhile *)
(* are not in its snapshot.                                                *)
DeleteRows(w) ==
  /\ step[w] = "delete"
  /\ \A v \in Replacements \ {w} : locked[v] \intersect seen[w] = {}
  /\ step' = [step EXCEPT ![w] = "insert"]
  /\ locked' = [locked EXCEPT ![w] = seen[w] \intersect rows[ownerOf[w]]]
  /\ UNCHANGED <<settings, calendar, seen, query, edits, history>>

Ended(w) ==
  /\ step' = [step EXCEPT ![w] = "done"]
  /\ seen' = [seen EXCEPT ![w] = {}]
  /\ locked' = [locked EXCEPT ![w] = {}]

InsertRows(w) ==
  /\ step[w] = "insert"
  /\ rows' = [rows EXCEPT ![ownerOf[w]] = (@ \ locked[w]) \union {w}]
  /\ last' = [last EXCEPT ![ownerOf[w]] = w]
  /\ Ended(w)
  /\ UNCHANGED <<settings, bookable, blocks, appointments, query, raced>>
  /\ Edit

RollBack(w) ==
  /\ step[w] \in {"delete", "insert"}
  /\ Ended(w)
  /\ UNCHANGED <<settings, calendar, query, edits, history>>
-----------------------------------------------------------------------------
(* The other edits, a statement each                                       *)

UpdateBusiness(z) ==
  /\ timezone # z /\ timezone' = z
  /\ UNCHANGED <<rules, calendar, replacing, query, raced, last>>
  /\ Edit

UpdateBooking(x) ==
  /\ rules # x /\ rules' = x
  /\ UNCHANGED <<timezone, calendar, replacing, query, raced, last>>
  /\ Edit

(* The resource, the service, its option or the link of the two: switched  *)
(* on or off.                                                              *)
Switch(r) ==
  /\ bookable' = IF r \in bookable THEN bookable \ {r} ELSE bookable \union {r}
  /\ UNCHANGED <<settings, rows, blocks, appointments, replacing, query, raced, last>>
  /\ Edit

localDateTimeToUtc(date, time) == zonedTimeToUtcMs(date, time, timezone)

BlockOf(b) ==
  [resource |-> b.resource, start |-> localDateTimeToUtc(b.date, b.startsAt),
   end |-> localDateTimeToUtc(b.date, b.endsAt)]

CreateBlockedTime(b) ==
  /\ BlockOf(b).start < BlockOf(b).end
  /\ blocks' = blocks \union {BlockOf(b)}
  /\ UNCHANGED <<settings, rows, bookable, appointments, replacing, query, raced, last>>
  /\ Edit

DeleteBlockedTime(b) ==
  /\ blocks' = blocks \ {b}
  /\ UNCHANGED <<settings, rows, bookable, appointments, replacing, query, raced, last>>
  /\ Edit

Config(r, busy) ==
  [zone |-> timezone, hours |-> RowsIn(Business), schedule |-> RowsIn(r), busy |-> Concerning(busy, r)]

(* CreateAppointment, of which the availability check and the insertion    *)
(* under the resource's lock are the part that matters here.               *)
Book(r, start) ==
  LET slot == [resource |-> r, start |-> start, end |-> start + Duration] IN
  /\ r \in bookable
  /\ isBookable(Config(r, blocks), slot)
  /\ ~overlapsAny(Concerning(appointments, r), slot)
  /\ appointments' = appointments \union {slot}
  /\ UNCHANGED <<settings, rows, bookable, blocks, replacing, query, raced, last>>
  /\ Edit

Cancel(a) ==
  /\ appointments' = appointments \ {a}
  /\ UNCHANGED <<settings, rows, bookable, blocks, replacing, query, raced, last>>
  /\ Edit
-----------------------------------------------------------------------------
(* CalculateAvailability.execute                                           *)

Unchanged == UNCHANGED <<settings, calendar, replacing, edits, raced, last>>

(* One resource, or any that gives the service.                            *)
ResolveCandidateResources(S, from, to) ==
  /\ pc = "idle"
  /\ S \subseteq bookable
  /\ pc' = "settings" /\ asked' = from .. to /\ todo' = S
  /\ standing' = [blocks |-> blocks, appointments |-> appointments] /\ steady' = TRUE
  /\ Unchanged /\ UNCHANGED <<read, answer>>

ReadSettings ==
  /\ pc = "settings"
  /\ pc' = "hours"
  /\ read' = [read EXCEPT !.zone = timezone, !.rules = rules]
  /\ Unchanged /\ UNCHANGED <<asked, todo, answer, standing, steady>>

ReadBusinessHours ==
  /\ pc = "hours"
  /\ pc' = "blocks"
  /\ read' = [read EXCEPT !.hours = RowsIn(Business)]
  /\ Unchanged /\ UNCHANGED <<asked, todo, answer, standing, steady>>

First == CHOOSE d \in asked : \A e \in asked : d <= e
Last == CHOOSE d \in asked : \A e \in asked : e <= d

(* From the midnight of the first date to a day after that of the last.    *)
Range ==
  [start |-> zonedTimeToUtcMs(First, 0, read.zone), end |-> zonedTimeToUtcMs(Last, 0, read.zone) + DAY]

ReadBlocks ==
  /\ pc = "blocks"
  /\ pc' = "appointments"
  /\ read' = [read EXCEPT !.blocks = {b \in blocks : Overlaps(b, Range)}]
  /\ Unchanged /\ UNCHANGED <<asked, todo, answer, standing, steady>>

(* (Asked for together with the blocks; here it comes back after them.)    *)
ReadAppointments ==
  /\ pc = "appointments"
  /\ pc' = "slots"
  /\ read' = [read EXCEPT !.appointments = {a \in appointments : Overlaps(a, Range)}]
  /\ Unchanged /\ UNCHANGED <<asked, todo, answer, standing, steady>>

AsRead(r) ==
  [zone |-> read.zone, hours |-> read.hours, schedule |-> read.schedule[r],
   busy |-> Concerning(read.blocks \union read.appointments, r)]

OfferSlots(r) ==
  /\ pc = "slots" /\ r \in todo
  /\ todo' = todo \ {r}
  /\ read' = [read EXCEPT !.schedule[r] = RowsIn(r)]
  /\ answer' = answer \union
       {r} \X compute([AsRead(r) EXCEPT !.schedule = RowsIn(r)], read.rules, First, Last, Duration, Now)
  /\ Unchanged /\ UNCHANGED <<pc, asked, standing, steady>>

Respond ==
  /\ pc = "slots" /\ todo = {}
  /\ pc' = "idle" /\ asked' = {} /\ read' = Nothing /\ answer' = {}
  /\ standing' = NothingStands /\ steady' = TRUE
  /\ Unchanged /\ UNCHANGED todo
-----------------------------------------------------------------------------
Replace(w) == StartReplacement(w) \/ DeleteRows(w) \/ InsertRows(w) \/ RollBack(w)

SetBusinessHours == \E w \in Replacements : ownerOf[w] = Business /\ Replace(w)

SetSchedule == \E w \in Replacements : ownerOf[w] \in Resources /\ Replace(w)

UpdateSettings == (\E z \in Zones : UpdateBusiness(z)) \/ (\E x \in Rules : UpdateBooking(x))

EditBlocks ==
  \/ \E b \in BlockRequests : CreateBlockedTime(b)
  \/ \E b \in blocks : DeleteBlockedTime(b)

EditAppointments ==
  \/ \E r \in Resources, d \in Dates, time \in 0 .. DAY - 1 : Book(r, localDateTimeToUtc(d, time))
  \/ \E a \in appointments : Cancel(a)

Query ==
  \/ \E S \in {Resources \intersect bookable} \union {{r} : r \in Resources}, from, to \in Dates :
       from <= to /\ ResolveCandidateResources(S, from, to)
  \/ ReadSettings \/ ReadBusinessHours \/ ReadBlocks \/ ReadAppointments
  \/ (\E r \in Resources : OfferSlots(r)) \/ Respond

Next ==
  \/ SetBusinessHours \/ SetSchedule
  \/ Room /\ (UpdateSettings \/ EditBlocks \/ EditAppointments \/ \E r \in Resources : Switch(r))
  \/ Query

Spec == Init /\ [][Next]_vars
-----------------------------------------------------------------------------
TypeOK ==
  /\ timezone \in Zones /\ rules \in Rules
  /\ \A k \in Owners : rows[k] \subseteq {w \in Replacements : ownerOf[w] = k}
  /\ bookable \subseteq Resources
  /\ \A b \in blocks \union appointments : IsInterval([start |-> b.start, end |-> b.end])
  /\ \A w \in Replacements :
       /\ step[w] \in {"idle", "delete", "insert", "done"}
       /\ locked[w] # {} => step[w] = "insert"
       /\ locked[w] \subseteq rows[ownerOf[w]]
       /\ \A v \in Replacements \ {w} : locked[v] \intersect locked[w] = {}
  /\ pc \in {"idle", "settings", "hours", "blocks", "appointments", "slots"}
  /\ asked \subseteq Dates /\ todo \subseteq Resources
  /\ edits \in 0 .. MaxEdits

(* Whoever reads opening hours or a schedule finds the rows of the last    *)
(* replacement and no others, never a table between its DELETE and its     *)
(* INSERT; replacements that overlap may leave the rows of both.           *)
ReplacedWhole ==
  \A k \in Owners : last[k] \in rows[k] /\ (k \notin raced => rows[k] = {last[k]})

(* The invariant behind it.  Whoever replaces the rows of an owner alone   *)
(* has seen all of them, and then locked all of them.                      *)
ReplacementTypes ==
  /\ rows \in [Owners -> SUBSET Replacements] /\ last \in [Owners -> Replacements]
  /\ step \in [Replacements -> {"idle", "delete", "insert", "done"}]
  /\ {seen, locked} \subseteq [Replacements -> SUBSET Replacements]

AloneInv ==
  \A w \in Underway : ownerOf[w] \notin raced =>
    /\ \A v \in Underway : ownerOf[v] = ownerOf[w] => v = w
    /\ seen[w] = rows[ownerOf[w]]
    /\ step[w] = "insert" => locked[w] = rows[ownerOf[w]]

Inv == ReplacementTypes /\ AloneInv /\ ReplacedWhole

(* The clocks show each edge of the windows of the date once.              *)
PlainDate(r, date) ==
  \A row \in read.hours \union read.schedule[r] :
    row.dayOfWeek = weekdayOf(date) =>
      /\ Unambiguous(date, row.opensAt, read.zone)
      /\ Unambiguous(date, row.closesAt, read.zone)

(* The business and the resource are open during the whole of every slot   *)
(* that is offered, by the clocks on the wall and across their changes.    *)
OfferedIsOpen ==
  \A offer \in answer : LET r == offer[1]  slot == offer[2] IN
    PlainDate(r, slot.date) => \A t \in slot.start .. slot.end - 1 : OpenAt(AsRead(r), t)

(* No time of the first date comes before its midnight, as it does where   *)
(* the clocks skip an hour soon after, and none of the last more than a    *)
(* day after its own.                                                      *)
WholeDates ==
  \A time \in 0 .. DAY - 1 :
    /\ Range.start <= zonedTimeToUtcMs(First, time, read.zone)
    /\ zonedTimeToUtcMs(Last, time, read.zone) <= Range.end

(* A block or an appointment that stood before the query and stands after  *)
(* it overlaps no slot that is offered, whatever is edited meanwhile.      *)
OfferedIsFree ==
  \A offer \in answer : WholeDates =>
    \A b \in Concerning(standing.blocks \union standing.appointments, offer[1]) : ~Overlaps(offer[2], b)

(* The window of the public form.                                          *)
InWindow(slot) == Now + rules.minNotice <= slot.start /\ slot.start <= Now + rules.maxAdvance * DAY

TakesBooking(r, slot) ==
  /\ InWindow(slot)
  /\ isBookable(Config(r, blocks), slot)
  /\ ~overlapsAny(Concerning(appointments, r), slot)

(* The two readings of the calendar agree: while nobody edits it, booking  *)
(* takes each slot that is offered.                                        *)
OfferedIsBookable ==
  steady => \A offer \in answer :
    PlainDate(offer[1], offer[2].date) /\ WholeDates => TakesBooking(offer[1], offer[2])

(* "Computes bookable slots": on any date, in any zone.                    *)
ComputesBookableSlots == steady => \A offer \in answer : TakesBooking(offer[1], offer[2])

(* The invariant behind what is offered.  While nothing is edited, what    *)
(* the query has read is what there is; and of what stands throughout, it  *)
(* has read all that is in its range.                                      *)
QueryTypes ==
  /\ timezone \in Zones /\ rules \in Rules
  /\ blocks \union appointments \subseteq BusyTimes
  /\ pc \in {"idle", "settings", "hours", "blocks", "appointments", "slots"}
  /\ pc # "idle" => \E from, to \in Dates : from <= to /\ asked = from .. to
  /\ read \in [zone : TimeZones, rules : BookingRules, hours : SUBSET HourRows,
              blocks : SUBSET BusyTimes, appointments : SUBSET BusyTimes,
              schedule : [Resources -> SUBSET HourRows]]
  /\ pc \in {"hours", "blocks", "appointments", "slots"} => read.zone \in Zones
  /\ todo \subseteq Resources

AnswerInv ==
  /\ pc # "slots" => answer = {}
  /\ \A offer \in answer :
       /\ offer[1] \in Resources \ todo
       /\ offer[2] \in compute(AsRead(offer[1]), read.rules, First, Last, Duration, Now)

StandingInv ==
  /\ standing.blocks \subseteq blocks /\ standing.appointments \subseteq appointments
  /\ pc \in {"appointments", "slots"} =>
       \A b \in standing.blocks : Overlaps(b, Range) => b \in read.blocks
  /\ pc = "slots" =>
       \A a \in standing.appointments : Overlaps(a, Range) => a \in read.appointments

SteadyInv ==
  pc # "idle" /\ steady =>
    /\ blocks \subseteq standing.blocks /\ appointments \subseteq standing.appointments
    /\ pc # "settings" => read.zone = timezone /\ read.rules = rules
    /\ pc \notin {"settings", "hours"} => read.hours = RowsIn(Business)
    /\ \A offer \in answer : read.schedule[offer[1]] = RowsIn(offer[1])

QueryInv == QueryTypes /\ AnswerInv /\ StandingInv /\ SteadyInv
=============================================================================
