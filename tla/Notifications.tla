--------------------------- MODULE Notifications ---------------------------
(***************************************************************************)
(* How the people of an appointment hear of it: the events of a decision,  *)
(* published after its commit to the dispatcher's handlers, and the        *)
(* reminder job.  Both write the in-app feed, push to the devices of each  *)
(* recipient and mail the client.                                          *)
(*                                                                         *)
(* A publisher is a request that decides on an appointment and publishes;  *)
(* a run is one firing of the cron, of which the next may start before the *)
(* last has ended.  Nothing is in a transaction, and only the tables       *)
(* survive the process.                                                    *)
(***************************************************************************)
EXTENDS Naturals, FiniteSets, Sequences, SequencesExt

CONSTANTS
  Appointments,
  Initially,          \* the statuses that they may have at the start
  source,             \* source[a]: who makes the booking
  startsAt,           \* startsAt[a]: an instant
  reminderHoursBefore,  \* reminderHoursBefore[a]: of a's organization
  remindersEnabled,   \* appointments whose organization sends reminders
  Client, Staff,      \* the client of the appointments, the active staff
  Devices,
  Publishers, Runs,
  MAX_LEAD_HOURS, BATCH_SIZE,
  MaxTime, MaxFaults, MaxEvents     \* bounds

Processes == Publishers \union Runs
Recipients == {Client} \union Staff
Reminder == "reminder"

(* What each decision does to the status, and the events that it publishes,*)
(* in their order; those that nobody handles are left out, which are all   *)
(* that a completed visit or one that nobody came to has.                  *)
Decisions == {
  [from |-> "NONE", to |-> "PENDING_DEPOSIT", events |-> <<"requested", "created">>],
  [from |-> "NONE", to |-> "PENDING_APPROVAL", events |-> <<"created">>],
  [from |-> "NONE", to |-> "CONFIRMED", events |-> <<"created", "confirmed">>],
  [from |-> "PENDING_DEPOSIT", to |-> "CONFIRMED", events |-> <<"depositConfirmed", "confirmed">>],
  [from |-> "PENDING_DEPOSIT", to |-> "REJECTED", events |-> <<"rejected">>],
  [from |-> "PENDING_DEPOSIT", to |-> "CANCELLED", events |-> <<"cancelled">>],
  [from |-> "PENDING_APPROVAL", to |-> "CONFIRMED", events |-> <<"confirmed">>],
  [from |-> "PENDING_APPROVAL", to |-> "REJECTED", events |-> <<"rejected">>],
  [from |-> "PENDING_APPROVAL", to |-> "CANCELLED", events |-> <<"cancelled">>],
  [from |-> "CONFIRMED", to |-> "CANCELLED", events |-> <<"cancelled">>],
  [from |-> "CONFIRMED", to |-> "COMPLETED", events |-> << >>],
  [from |-> "CONFIRMED", to |-> "NO_SHOW", events |-> << >>]}

Statuses == UNION {{d.from, d.to} : d \in Decisions}
Types == {"created", "requested", "depositConfirmed", "confirmed", "rejected", "cancelled", Reminder}
Items == Types \X Appointments \X Recipients

(* Whom the handler of an event tells, the client first.  The staff are    *)
(* not told of a booking that one of them made.                            *)
Audience(e) ==
  CASE e[1] = "created" -> {u \in Staff : source[e[2]] = "PUBLIC"}
    [] e[1] = "cancelled" -> Recipients
    [] OTHER -> {Client}

ASSUME NotificationsAssumption ==
  /\ {startsAt, reminderHoursBefore} \subseteq [Appointments -> Nat]
  /\ Initially \subseteq [Appointments -> Statuses]
  /\ source \in [Appointments -> {"PUBLIC", "INTERNAL"}]
  /\ remindersEnabled \subseteq Appointments
  /\ Client \notin Staff /\ Staff # {} /\ Publishers \intersect Runs = {}
  /\ IsFiniteSet(Appointments) /\ IsFiniteSet(Staff)
  /\ {MAX_LEAD_HOURS, BATCH_SIZE, MaxTime, MaxFaults, MaxEvents} \subseteq Nat
-----------------------------------------------------------------------------
VARIABLES
  now,
  status,       \* status[a]: the appointment's
  feed,         \* feed[<<type, a, x>>]: rows of the feed
  owner,        \* owner[d]: the recipient that d's subscription belongs to
  revoked,      \* devices whose subscription has a revoked_at
  gone,         \* devices whose push service has forgotten them
  screen,       \* screen[d][a]: the last push that d shows of a
  mailed,       \* notices that the client has been mailed
  pc,
  queue,        \* queue[p]: the notices that p has yet to give, the head first
  rest,         \* rest[p]: recipients of the head that are left
  targets,      \* targets[p]: devices that are left to push to
  runAt,        \* runAt[p]: the clock as the run read it
  faults,       \* statements and pushes that failed, and crashes
  published,    \* events of the decisions made so far (history)
  lost,         \* those whose handler failed or died (history)
  touched,      \* devices whose subscription has changed hands (history)
  together,     \* most runs at once (history)
  mixed         \* two processes have been at work at once (history)

database == <<status, feed, owner, revoked>>
world == <<now, gone, screen, mailed, faults>>
process == <<pc, queue, rest, targets, runAt>>
history == <<published, lost, touched, together, mixed>>
vars == <<database, world, process, history>>

Nobody == "nobody"
Nothing == "nothing"
Head1(p) == Head(queue[p])
Busy == {p \in Processes : pc[p] # "idle"}
Larger(m, n) == IF m > n THEN m ELSE n
Smaller(m, n) == IF m > n THEN n ELSE m

Init ==
  /\ now = 0
  /\ status \in Initially
  /\ feed = [i \in Items |-> 0]
  /\ owner = [d \in Devices |-> Client]
  /\ revoked = {} /\ gone = {}
  /\ screen = [d \in Devices |-> [a \in Appointments |-> Nothing]]
  /\ mailed = {}
  /\ pc = [p \in Processes |-> "idle"]
  /\ queue = [p \in Processes |-> << >>]
  /\ rest = [p \in Processes |-> << >>]
  /\ targets = [p \in Processes |-> {}]
  /\ runAt = [p \in Processes |-> 0]
  /\ faults = 0
  /\ published = {} /\ lost = {}
  /\ touched = {}
  /\ together = 0 /\ mixed = FALSE

(* The staff in any order, after the client.                               *)
Order(S) == {q \in SetToSeqs(S) : Client \in S => q[1] = Client}

(* p goes on with the notices of q: a handler tells one recipient after    *)
(* another, or returns at once; a run asks first whether there is anything *)
(* to tell.                                                                *)
GoOn(p, q) ==
  /\ queue' = [queue EXCEPT ![p] = q]
  /\ targets' = [targets EXCEPT ![p] = {}]
  /\ \/ /\ q = << >> \/ p \in Runs
        /\ pc' = [pc EXCEPT ![p] = IF q = << >> THEN "idle" ELSE "check"]
        /\ rest' = [rest EXCEPT ![p] = << >>]
     \/ /\ q # << >> /\ p \in Publishers
        /\ pc' = [pc EXCEPT ![p] = IF Audience(Head(q)) = {} THEN "return" ELSE "feed"]
        /\ \E order \in Order(Audience(Head(q))) : rest' = [rest EXCEPT ![p] = order]

Begin(p, q) ==
  /\ pc[p] = "idle"
  /\ GoOn(p, q)
  /\ mixed' = (mixed \/ Busy # {})

Continue(p, q) ==
  /\ GoOn(p, q)
  /\ runAt' = [runAt EXCEPT ![p] = IF q = << >> THEN 0 ELSE @]
-----------------------------------------------------------------------------
(* The publisher: publishAll after the commit, one handler after another   *)

(* Mutant: those of the appointment before those of its deposit.           *)
PullEvents_Reversed(d) == Reverse(d.events)
PullEvents(d) == d.events

(* (MaxEvents bounds how many decisions are made.)                         *)
Decide(p) ==
  /\ p \in Publishers /\ Cardinality(published) < MaxEvents
  /\ \E a \in Appointments, d \in Decisions :
       /\ status[a] = d.from
       /\ status' = [status EXCEPT ![a] = d.to]
       /\ Begin(p, [i \in DOMAIN d.events |-> <<PullEvents(d)[i], a>>])
       /\ published' = published \union {<<e, a>> : e \in Range(d.events)}
  /\ UNCHANGED <<feed, owner, revoked, world, runAt, lost, touched, together>>
-----------------------------------------------------------------------------
(* AppointmentReminderJob                                                  *)

(* The first of the confirmed appointments of the next days, by their      *)
(* start.                                                                  *)
ConfirmedStartingBetween(from, to) ==
  {a \in Appointments : status[a] = "CONFIRMED" /\ from < startsAt[a] /\ startsAt[a] <= to}

Batches(S) ==
  {SubSeq(q, 1, Smaller(Len(q), BATCH_SIZE)) : q \in {r \in SetToSeqs(S) :
     \A i, k \in DOMAIN r : i < k => startsAt[r[i]] <= startsAt[r[k]]}}

StartRun(j) ==
  /\ j \in Runs
  /\ \E q \in Batches(ConfirmedStartingBetween(now, now + MAX_LEAD_HOURS)) \ {<< >>} :
       Begin(j, [i \in DOMAIN q |-> <<Reminder, q[i]>>])
  /\ runAt' = [runAt EXCEPT ![j] = now]
  /\ together' = Larger(together, Cardinality((Busy \intersect Runs) \union {j}))
  /\ UNCHANGED <<database, world, published, lost, touched>>

ExistsForAppointment(a) == \E x \in Recipients : feed[<<Reminder, a, x>>] > 0

InLead(a, time) == time + reminderHoursBefore[a] >= startsAt[a]

(* Mutant: nobody asks whether the reminder has been sent.                 *)
Due_Again(a, time) == a \in remindersEnabled /\ InLead(a, time)
Due(a, time) == a \in remindersEnabled /\ InLead(a, time) /\ ~ExistsForAppointment(a)

(* Mutant: the first appointment that is not due ends the run.             *)
Skip_Stops(j) == << >>
Skip(j) == Tail(queue[j])

CheckReminder(j) ==
  /\ pc[j] = "check"
  /\ \/ /\ Due(Head1(j)[2], runAt[j])
        /\ rest' = [rest EXCEPT ![j] = <<Client>>]
        /\ pc' = [pc EXCEPT ![j] = "feed"]
        /\ UNCHANGED <<queue, targets, runAt>>
     \/ /\ ~Due(Head1(j)[2], runAt[j])
        /\ Continue(j, Skip(j))
  /\ UNCHANGED <<database, world, history>>
-----------------------------------------------------------------------------
(* One recipient of one notice: notifyClient, notifyStaff                  *)

ActiveDevices(x) == {d \in Devices \ revoked : owner[d] = x}

(* The row of the feed, and the devices to push to.                        *)
Persist(p) ==
  LET item == <<Head1(p)[1], Head1(p)[2], Head(rest[p])>> IN
  /\ pc[p] = "feed"
  /\ feed' = [feed EXCEPT ![item] = @ + 1]
  /\ targets' = [targets EXCEPT ![p] = ActiveDevices(Head(rest[p]))]
  /\ pc' = [pc EXCEPT ![p] = "push"]
  /\ UNCHANGED <<status, owner, revoked, world, queue, rest, runAt, history>>

(* The handler of a booking by the staff has nobody to tell.               *)
Return(p) ==
  /\ pc[p] = "return"
  /\ Continue(p, Tail(queue[p]))
  /\ UNCHANGED <<database, world, history>>

Faulty == faults < MaxFaults /\ faults' = faults + 1

(* The new push replaces what the device showed of the appointment.  It    *)
(* may fail, and nobody tries again; only an endpoint that the push        *)
(* service does not know is marked.                                        *)
Send(p, d) ==
  \/ /\ d \notin gone
     /\ screen' = [screen EXCEPT ![d][Head1(p)[2]] = Head1(p)[1]]
     /\ UNCHANGED <<revoked, faults>>
  \/ Faulty /\ UNCHANGED <<screen, revoked>>
  \/ d \in gone /\ revoked' = revoked \union {d} /\ UNCHANGED <<screen, faults>>

Push(p) ==
  /\ pc[p] = "push"
  /\ \E d \in targets[p] : Send(p, d) /\ targets' = [targets EXCEPT ![p] = @ \ {d}]
  /\ UNCHANGED <<status, feed, owner, now, gone, mailed, pc, queue, rest, runAt, history>>

(* A mail that fails is logged.                                            *)
MailClient(p) ==
  IF Head(rest[p]) # Client THEN UNCHANGED <<mailed, faults>>
  ELSE \/ mailed' = mailed \union {Head1(p)} /\ UNCHANGED faults
       \/ Faulty /\ UNCHANGED mailed

NextRecipient(p) ==
  /\ pc[p] = "push" /\ targets[p] = {}
  /\ MailClient(p)
  /\ IF Len(rest[p]) > 1
     THEN /\ rest' = [rest EXCEPT ![p] = Tail(@)]
          /\ pc' = [pc EXCEPT ![p] = "feed"]
          /\ UNCHANGED <<queue, targets, runAt>>
     ELSE Continue(p, Tail(queue[p]))
  /\ UNCHANGED <<database, now, gone, screen, history>>
-----------------------------------------------------------------------------
(* Mutant: the first handler that fails stops those of the other events.   *)
AfterFailure_None(p) == << >>

(* What is left to p when a notice fails: a publisher's other events have  *)
(* their handlers all the same, a run ends.                                *)
AfterFailure(p) == IF p \in Runs THEN << >> ELSE Tail(queue[p])

Fail(p) ==
  /\ pc[p] \notin {"idle", "return"} /\ Faulty
  /\ Continue(p, AfterFailure(p))
  /\ lost' = IF p \in Publishers THEN lost \union {Head1(p)} ELSE lost
  /\ UNCHANGED <<database, now, gone, screen, mailed, published, touched, together, mixed>>

Crash ==
  /\ Busy # {} /\ Faulty
  /\ pc' = [p \in Processes |-> "idle"]
  /\ queue' = [p \in Processes |-> << >>]
  /\ rest' = [p \in Processes |-> << >>]
  /\ targets' = [p \in Processes |-> {}]
  /\ runAt' = [p \in Processes |-> 0]
  /\ lost' = lost \union UNION {Range(queue[p]) : p \in Publishers}
  /\ UNCHANGED <<database, now, gone, screen, mailed, published, touched, together, mixed>>

Tick ==
  /\ now < MaxTime
  /\ now' = now + 1
  /\ UNCHANGED <<database, gone, screen, mailed, faults, process, history>>
-----------------------------------------------------------------------------
(* The devices: one row per endpoint, which whoever subscribes takes over  *)

(* Here each device changes once (a bound).                                *)
Change(d) == d \notin touched /\ touched' = touched \union {d}

Upsert(d, x) == owner' = [owner EXCEPT ![d] = x] /\ revoked' = revoked \ {d}

Subscribe(d, x) ==
  /\ Change(d) /\ owner[d] # x
  /\ Upsert(d, x)
  /\ UNCHANGED <<status, feed, world, process, published, lost, together, mixed>>

Unsubscribe(d) ==
  /\ Change(d) /\ owner[d] # Nobody
  /\ owner' = [owner EXCEPT ![d] = Nobody]
  /\ revoked' = revoked \ {d}
  /\ UNCHANGED <<status, feed, world, process, published, lost, together, mixed>>

(* The push service forgets the endpoint.                                  *)
Expire(d) ==
  /\ Change(d)
  /\ gone' = gone \union {d}
  /\ UNCHANGED <<database, now, screen, mailed, faults, process, published, lost, together, mixed>>

Notify(p) == Persist(p) \/ Push(p) \/ NextRecipient(p)
Publish(p) == p \in Publishers /\ (Decide(p) \/ Notify(p) \/ Return(p))
Remind(j) == j \in Runs /\ (StartRun(j) \/ CheckReminder(j) \/ Notify(j))

Next ==
  \/ \E p \in Processes : Publish(p) \/ Remind(p) \/ Fail(p)
  \/ \E d \in Devices : Unsubscribe(d) \/ Expire(d) \/ \E x \in Recipients : Subscribe(d, x)
  \/ Crash \/ Tick

Spec == Init /\ [][Next]_vars

(* The cron fires again and again, and statements end.                     *)
FairSpec == Spec /\ \A j \in Runs : WF_vars(Remind(j))
-----------------------------------------------------------------------------
TypeOK ==
  /\ now \in 0 .. MaxTime
  /\ status \in [Appointments -> Statuses]
  /\ feed \in [Items -> Nat]
  /\ owner \in [Devices -> Recipients \union {Nobody}]
  /\ revoked \subseteq gone /\ gone \subseteq Devices
  /\ screen \in [Devices -> [Appointments -> Types \union {Nothing}]]
  /\ mailed \subseteq Types \X Appointments
  /\ pc \in [Processes -> {"idle", "check", "feed", "push", "return"}]
  /\ queue \in [Processes -> Seq(Types \X Appointments)]
  /\ rest \in [Processes -> Seq(Recipients)]
  /\ targets \in [Processes -> SUBSET Devices]
  /\ \A p \in Processes :
       /\ pc[p] = "idle" <=> queue[p] = << >>
       /\ rest[p] # << >> <=> pc[p] \in {"feed", "push"}
  /\ runAt \in [Processes -> 0 .. MaxTime]
  /\ faults \in 0 .. MaxFaults
  /\ lost \subseteq published /\ published \subseteq Types \X Appointments
  /\ touched \subseteq Devices /\ together \in Nat /\ mixed \in BOOLEAN

(* "Idempotent: a reminder is skipped if the feed already has one for the  *)
(* turn": one reminder per appointment, whatever fails or dies, as long as *)
(* no two runs overlap; runs that do may each send one.                    *)
RemindedOnce ==
  \A a \in Appointments : feed[<<Reminder, a, Client>>] <= Larger(together, 1)

HasHeard(x, e) ==
  feed[<<e[1], e[2], x>>] > 0 /\ (x = Client /\ faults = 0 => e \in mailed)

(* "One subscriber cannot break the request or sibling handlers": whoever  *)
(* an event is for (the client of a deposit, a confirmation, a rejection   *)
(* or a cancellation; the staff of a cancellation and of a booking made by *)
(* the client) has it in the feed once the publisher is through, and by    *)
(* mail if no mail failed, but for the events whose own handler failed or  *)
(* died.                                                                   *)
Told ==
  \A e \in published \ lost :
    \/ \E p \in Publishers : e \in Range(queue[p])
    \/ \A x \in Audience(e) : HasHeard(x, e)

(* The push that is due last to the client on the way to a status.  Nobody *)
(* tells the client that a booking waits for approval, and the end of a    *)
(* visit takes nothing off the device.                                     *)
LastWordOn(st) ==
  CASE st \in {"NONE", "PENDING_APPROVAL"} -> {}
    [] st = "PENDING_DEPOSIT" -> {"requested"}
    [] st \in {"CONFIRMED", "COMPLETED", "NO_SHOW"} -> {"confirmed", Reminder}
    [] st = "REJECTED" -> {"rejected"}
    [] st = "CANCELLED" -> {"cancelled"}

Settled == Busy = {} /\ faults = 0

ShowsStatus(d) ==
  owner[d] = Client => \A a \in Appointments :
    screen[d][a] # Nothing => screen[d][a] \in LastWordOn(status[a])

(* When processes do not overlap, what the client's device shows of an     *)
(* appointment in the end is the latest of its statuses that is announced  *)
(* to the client, never an earlier one.                                    *)
LastWord == Settled /\ ~mixed => \A d \in Devices \ touched : ShowsStatus(d)

Rank(a) ==
  Cardinality({b \in ConfirmedStartingBetween(now, now + MAX_LEAD_HOURS) : startsAt[b] <= startsAt[a]})

(* An appointment that is due for its reminder gets it, unless it starts   *)
(* or is cancelled first, or does not fit in the batch: those of others    *)
(* that have theirs, or are not due, or whose organization sends none,     *)
(* take places in it too.                                                  *)
EveryoneReminded ==
  \A a \in remindersEnabled :
    status[a] = "CONFIRMED" /\ InLead(a, now) /\ now < startsAt[a]
      ~> \/ ExistsForAppointment(a)
         \/ status[a] # "CONFIRMED" \/ now >= startsAt[a]
         \/ Rank(a) > BATCH_SIZE

(* The invariants behind the first three.  What the two kinds of process   *)
(* give, and to whom.                                                      *)
QueuesInv ==
  /\ \A p \in Publishers :
       pc[p] # "check" /\ \A e \in Range(queue[p]) : e[1] # Reminder /\ e \in published
  /\ \A j \in Runs : pc[j] \in {"feed", "push"} => rest[j] = <<Client>>

(* Runs that have found no reminder of a and are about to write one: they  *)
(* all did before the first was written, so they are at work together.     *)
Reminding(a) == {j \in Runs : pc[j] = "feed" /\ Head1(j) = <<Reminder, a>>}

RemindersInv ==
  /\ IsFiniteSet(Busy \intersect Runs) /\ Cardinality(Busy \intersect Runs) <= together
  /\ \A a \in Appointments :
       feed[<<Reminder, a, Client>>] + Cardinality(Reminding(a)) <= Larger(together, 1)

(* Whoever is no longer in the rest of a notice has heard of it.           *)
NoticesInv ==
  \A p \in Publishers : pc[p] # "idle" =>
    /\ Range(rest[p]) \subseteq Audience(Head1(p))
    /\ \A x \in Audience(Head1(p)) : x \in Range(rest[p]) \/ HasHeard(x, Head1(p))
    /\ pc[p] = "push" => feed[<<Head1(p)[1], Head1(p)[2], Head(rest[p])>>] > 0
    /\ pc[p] = "return" => Audience(Head1(p)) = {}

(* Of a queue, the notices that p has yet to push to the client's device d.*)
Ahead(p, d) ==
  {i \in DOMAIN queue[p] :
     /\ Client \in Audience(queue[p][i])
     /\ i = 1 => Head(rest[p]) = Client /\ (pc[p] = "feed" \/ d \in targets[p])}

IsLastWord(e) == e[1] \in LastWordOn(status[e[2]])

(* After a notice that is not the last word comes one that is.             *)
EndsWell(q) ==
  \A k \in DOMAIN q : Client \in Audience(q[k]) =>
    \/ IsLastWord(q[k])
    \/ \E i \in DOMAIN q : k < i /\ Client \in Audience(q[i]) /\ q[i][2] = q[k][2] /\ IsLastWord(q[i])

(* What d shows of a is its last word, or the publisher has that to push.  *)
Shows(d, a) ==
  \/ screen[d][a] = Nothing \/ IsLastWord(<<screen[d][a], a>>)
  \/ \E p \in Publishers : \E i \in Ahead(p, d) : queue[p][i][2] = a /\ IsLastWord(queue[p][i])

DevicesInv ==
  /\ gone \subseteq touched
  /\ \A d \in Devices \ touched :
       owner[d] = Client /\ \A p \in Processes : d \in targets[p] => Head(rest[p]) = Client

ScreenInv ==
  /\ DevicesInv
  /\ faults = 0 /\ ~mixed =>
       /\ \A p, q \in Busy : p = q
       /\ \A j \in Runs : \A e \in Range(queue[j]) : e[1] = Reminder /\ status[e[2]] = "CONFIRMED"
       /\ \A p \in Publishers : EndsWell(queue[p])
       /\ \A d \in Devices \ touched, a \in Appointments : Shows(d, a)
=============================================================================
