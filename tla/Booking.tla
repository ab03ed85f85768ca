------------------------------- MODULE Booking -------------------------------
(***************************************************************************)
(* The appointments module of one organization, over a READ COMMITTED      *)
(* database: CreateAppointment, the staff transitions of                   *)
(* AppointmentsService and DepositsService, the ExpireStaleDeposits job,   *)
(* and the resource administration that a booking in flight can race.      *)
(*                                                                         *)
(* Every actor is a process that reads rows, awaits, and later opens a     *)
(* transaction; a step of the model is what happens between two points     *)
(* where another actor's commit can become visible.  A crash of the (one)  *)
(* server process drops every request in flight and rolls its transactions *)
(* back.  An appointment bears the name of the request that creates it     *)
(* (the code draws a random UUID), so the columns that no update touches   *)
(* are the request's own input, claim.                                     *)
(***************************************************************************)
EXTENDS Intervals, FiniteSets

CONSTANTS
  Submits,            \* create-appointment requests, and the appointments they create
  Staff,              \* approve/reject/cancel/complete/no-show/deposit requests
  Admins,             \* resource administration requests
  Job,                \* the single instance of ExpireStaleDeposits
  Resources,
  Slots,              \* intervals that requests ask for and blocks cover
  Keys,               \* idempotency keys
  NoKey,              \* a staff booking carries no key
  NoOne,              \* no process, no appointment
  Claims,             \* the requests that can arrive: resource, slot and key
  StandingBlocks,     \* blocked times that exist at the start
  BatchSize,          \* BATCH_SIZE of the job
  MaxCrashes,         \* bound on server crashes
  WrapsDriverErrors   \* drizzle-orm hides the SQLSTATE of pg errors in "cause"

ASSUME SlotsAssumption ==
  /\ \A s \in Slots : IsInterval(s)
  /\ Claims \subseteq [resource : Resources, slot : Slots, key : Keys \union {NoKey}]
  /\ StandingBlocks \subseteq [resource : Resources \union {NoOne}, slot : Slots]
ASSUME NamesAssumption ==
  /\ NoOne \notin Submits
  /\ NoOne \notin Resources
  /\ NoKey \notin Keys
  /\ Job \notin Staff \union Submits \union Admins
  /\ Staff \intersect Submits = {}
  /\ Admins \intersect (Staff \union Submits) = {}
ASSUME BoundsAssumption ==
  /\ BatchSize \in Nat \ {0}
  /\ MaxCrashes \in Nat
  /\ WrapsDriverErrors \in BOOLEAN
-----------------------------------------------------------------------------
InitialStatuses == {"PENDING_DEPOSIT", "PENDING_APPROVAL", "CONFIRMED"}
PendingStatuses == {"PENDING_DEPOSIT", "PENDING_APPROVAL"}
Blocking == {"PENDING_DEPOSIT", "PENDING_APPROVAL", "CONFIRMED", "COMPLETED"}
Statuses == Blocking \union {"CANCELLED", "REJECTED", "NO_SHOW"}
DepositStatuses == {"NONE", "PENDING", "CONFIRMED", "REJECTED", "EXPIRED"}

Absent == "ABSENT"    \* no row with this id

Mutations == {"approve", "rejectApproval", "cancel", "complete", "noShow"}
Resolutions == {"confirmDeposit", "rejectDeposit"}
Ops == Mutations \union Resolutions

(* The transition table of the Appointment entity, operation by operation. *)
From(op) ==
  CASE op \in Resolutions               -> {"PENDING_DEPOSIT"}
    [] op \in {"approve", "rejectApproval"} -> {"PENDING_APPROVAL"}
    [] op \in {"complete", "noShow"}    -> {"CONFIRMED"}
    [] op = "cancel"                    -> {"CONFIRMED", "PENDING_DEPOSIT", "PENDING_APPROVAL"}

To(op) ==
  CASE op \in {"approve", "confirmDeposit"}        -> "CONFIRMED"
    [] op \in {"rejectApproval", "rejectDeposit"}  -> "REJECTED"
    [] op = "complete"                             -> "COMPLETED"
    [] op = "noShow"                               -> "NO_SHOW"
    [] op = "cancel"                               -> "CANCELLED"

DepositTo(op) == IF op = "confirmDeposit" THEN "CONFIRMED" ELSE "REJECTED"

Errors == {"NotFoundError", "BusinessRuleError", "ConflictError", "23505", "23P01"}

(* AllExceptionsFilter: the HTTP status an error leaves the API with.      *)
HttpStatus(e) ==
  CASE e = "NotFoundError"     -> 404
    [] e = "BusinessRuleError" -> 422
    [] e = "ConflictError"     -> 409
    [] e \in {"23505", "23P01"} -> IF WrapsDriverErrors THEN 500 ELSE 409

(* The one unique violation an insert can raise is on                      *)
(* appointments_idempotency_uq; the test reads code off the error itself.  *)
IsIdempotencyConflict(e) == e = "23505" /\ ~WrapsDriverErrors
-----------------------------------------------------------------------------
VARIABLES
  claim,      \* claim[p]: resource, slot and key of request p and of its appointment
  status,     \* appointments.status by appointment, or Absent
  deposit,    \* deposits.status of the appointment's deposit, or NONE
  elapsed,    \* appointments whose deposit's expiresAt has passed
  active,     \* resources.active
  blocks,     \* blocked_times rows: a resource (NoOne: every resource) and a slot
  lock,       \* holder of the row lock on each resource
  published,  \* domain events handed to the subscribers
  pc,         \* where each process is
  plan,       \* plan[p]: what request p read before its transaction
  result,     \* result[p]: the appointment p answered with
  failure,    \* failure[p]: the error that ended p
  task,       \* task[w]: operation, target and stale reads of a staff request or the job
  batch,      \* deposits the job still has to expire in this run
  edit,       \* edit[o]: the resource object an administration request will save
  crashes

tables == <<claim, status, deposit, elapsed>>
setup == <<active, blocks>>
locals == <<plan, result, failure, task, batch, edit>>
vars == <<tables, setup, lock, published, pc, locals, crashes>>

Workers == Staff \union {Job}
Processes == Submits \union Workers \union Admins

NoPlan == [status |-> Absent, blocked |-> FALSE]
NoTask == [op |-> "none", appt |-> NoOne, seen |-> Absent, seenDeposit |-> "NONE"]
NoEdit == [resource |-> NoOne, active |-> FALSE]

Goto(p, label) == pc' = [pc EXCEPT ![p] = label]

(* A request that ends drops its local objects.                            *)
EndBooking(p) ==
  /\ Goto(p, "done")
  /\ plan' = [plan EXCEPT ![p] = NoPlan]

EndTask(u) ==
  /\ Goto(u, "done")
  /\ task' = [task EXCEPT ![u] = NoTask]

Fail(p, e) == failure' = [failure EXCEPT ![p] = e]

Answer(p, a) == result' = [result EXCEPT ![p] = a]

Unlock(p) == lock' = [lock EXCEPT ![claim[p].resource] = NoOne]

Clash(a, b) ==
  /\ claim[a].resource = claim[b].resource
  /\ Overlaps(claim[a].slot, claim[b].slot)

(* A blocked time of the resource, or of the whole business, in the slot.  *)
Blocked(p) == \E b \in blocks :
  /\ b.resource \in {NoOne, claim[p].resource}
  /\ Overlaps(b.slot, claim[p].slot)

(* Mutant: the lookup finds requests instead of saved appointments.        *)
KeyHolders_AnyRequest(p) == {a \in Submits : claim[p].key # NoKey /\ claim[a].key = claim[p].key}

KeyHolders(p) ==
  {a \in Submits : claim[p].key # NoKey /\ status[a] # Absent /\ claim[a].key = claim[p].key}

(* The repository query run under the resource lock.                       *)
HasActiveOverlap(p) == \E a \in Submits : status[a] \in Blocking /\ Clash(a, p)

(* Mutants: the constraint is missing, or compares slots for equality.     *)
ExclusionViolated_None(a, st) == FALSE

ExclusionViolated_SameSlotOnly(a, st) ==
  /\ st \in Blocking
  /\ \E b \in Submits \ {a} :
       status[b] \in Blocking /\ Clash(a, b) /\ claim[a].slot = claim[b].slot

(* EXCLUDE constraint appointments_no_overlap, for writing st into a's row. *)
ExclusionViolated(a, st) ==
  /\ st \in Blocking
  /\ \E b \in Submits \ {a} : status[b] \in Blocking /\ Clash(a, b)

(* Mutant: no unique index on the idempotency key.                         *)
InsertErrors_NoUniqueIndex(p) == {e \in {"23P01"} : ExclusionViolated(p, plan[p].status)}

(* What inserting p's row would raise: the unique index on the key and the *)
(* exclusion constraint; which one is reported is not specified.           *)
InsertErrors(p) ==
  {e \in {"23505", "23P01"} :
     \/ e = "23505" /\ KeyHolders(p) # {}
     \/ e = "23P01" /\ ExclusionViolated(p, plan[p].status)}

Events == {"AppointmentCreated", "AppointmentConfirmed", "AppointmentRejected",
           "AppointmentCancelled", "AppointmentCompleted", "AppointmentNoShow",
           "DepositRequested", "DepositConfirmed", "DepositRejected", "DepositExpired"}

EventsOfCreate(st) ==
  {"AppointmentCreated"}
    \union (IF st = "CONFIRMED" THEN {"AppointmentConfirmed"} ELSE {})
    \union (IF st = "PENDING_DEPOSIT" THEN {"DepositRequested"} ELSE {})

EventsOfOp(op) ==
  CASE op = "approve"        -> {"AppointmentConfirmed"}
    [] op = "rejectApproval" -> {"AppointmentRejected"}
    [] op = "cancel"         -> {"AppointmentCancelled"}
    [] op = "complete"       -> {"AppointmentCompleted"}
    [] op = "noShow"         -> {"AppointmentNoShow"}
    [] op = "confirmDeposit" -> {"DepositConfirmed", "AppointmentConfirmed"}
    [] op = "rejectDeposit"  -> {"DepositRejected", "AppointmentRejected"}

EventsOfExpiry(seen) ==
  {"DepositExpired"}
    \union (IF seen = "PENDING_DEPOSIT" THEN {"AppointmentCancelled"} ELSE {})

PublishAll(events, a) ==
  /\ published' = published \union (events \X {a})
  /\ UNCHANGED <<tables, setup, lock, result, failure, batch, edit, crashes>>
-----------------------------------------------------------------------------
Init ==
  /\ claim \in [Submits -> Claims]
  /\ status = [a \in Submits |-> Absent]
  /\ deposit = [a \in Submits |-> "NONE"]
  /\ elapsed = {}
  /\ active = [r \in Resources |-> TRUE]
  /\ blocks = StandingBlocks
  /\ lock = [r \in Resources |-> NoOne]
  /\ published = {}
  /\ pc = [p \in Processes |-> "idle"]
  /\ plan = [p \in Submits |-> NoPlan]
  /\ result = [p \in Submits |-> NoOne]
  /\ failure = [p \in Submits \union Staff |-> "none"]
  /\ task = [w \in Workers |-> NoTask]
  /\ batch = {}
  /\ edit = [o \in Admins |-> NoEdit]
  /\ crashes = 0
-----------------------------------------------------------------------------
(* CreateAppointment.execute                                               *)

(* A key seen before returns its appointment without booking anything.     *)
Submit(p) ==
  /\ pc[p] = "idle"
  /\ \/ \E a \in KeyHolders(p) : Answer(p, a) /\ Goto(p, "done")
     \/ KeyHolders(p) = {} /\ Goto(p, "read") /\ UNCHANGED result
  /\ UNCHANGED <<tables, setup, lock, published, plan, failure, task, batch, edit, crashes>>

(* The reads before the transaction.  The gates on rows this module does   *)
(* not hold (access, service, option, link, client, booking window) may    *)
(* refuse; settings and price decide the initial status.                   *)
ReadTenant(p) ==
  /\ pc[p] = "read"
  /\ \/ /\ \E e \in {"NotFoundError", "BusinessRuleError"} : Fail(p, e)
        /\ EndBooking(p)
     \/ /\ active[claim[p].resource]
        /\ \E st \in InitialStatuses :
             plan' = [plan EXCEPT ![p] = [status |-> st, blocked |-> Blocked(p)]]
        /\ Goto(p, "lock")
        /\ UNCHANGED failure
  /\ UNCHANGED <<tables, setup, lock, published, result, task, batch, edit, crashes>>

(* SELECT ... FOR UPDATE on the resource row waits for its holder, then    *)
(* isBookable judges the blocks read earlier and hasActiveOverlap queries. *)
LockResource(p) ==
  LET r == claim[p].resource IN
  /\ pc[p] = "lock"
  /\ lock[r] = NoOne
  /\ \/ /\ \/ ~active[r] /\ Fail(p, "NotFoundError")
           \/ active[r] /\ plan[p].blocked /\ Fail(p, "BusinessRuleError")
           \/ /\ active[r] /\ ~plan[p].blocked /\ HasActiveOverlap(p)
              /\ Fail(p, "ConflictError")
        /\ EndBooking(p)
        /\ UNCHANGED lock
     \/ /\ active[r] /\ ~plan[p].blocked /\ ~HasActiveOverlap(p)
        /\ lock' = [lock EXCEPT ![r] = p]
        /\ Goto(p, "insert")
        /\ UNCHANGED <<plan, failure>>
  /\ UNCHANGED <<tables, setup, published, result, task, batch, edit, crashes>>

(* Mutants: the row outlives the error, or the events are sent regardless. *)
RollBackInsert_NoTransaction(p) ==
  /\ pc[p] = "insert"
  /\ \E e \in InsertErrors(p) : Fail(p, e)
  /\ status' = [status EXCEPT ![p] = plan[p].status]
  /\ EndBooking(p)
  /\ Unlock(p)
  /\ UNCHANGED <<claim, deposit, elapsed, setup, published, result, task, batch, edit, crashes>>

RollBackInsert_PublishesAnyway(p) ==
  /\ pc[p] = "insert"
  /\ \E e \in InsertErrors(p) : Fail(p, e)
  /\ Goto(p, "publish")
  /\ Unlock(p)
  /\ UNCHANGED <<tables, setup, published, plan, result, task, batch, edit, crashes>>

(* A constraint refuses the row: roll back, and replay when the error is   *)
(* recognised as the idempotency index.                                    *)
RollBackInsert(p) ==
  /\ pc[p] = "insert"
  /\ \E e \in InsertErrors(p) :
       \/ /\ IsIdempotencyConflict(e)
          /\ \E a \in KeyHolders(p) : Answer(p, a)
          /\ UNCHANGED failure
       \/ ~IsIdempotencyConflict(e) /\ Fail(p, e) /\ UNCHANGED result
  /\ EndBooking(p)
  /\ Unlock(p)
  /\ UNCHANGED <<tables, setup, published, task, batch, edit, crashes>>

(* The appointment and, if one applies, its deposit commit together.       *)
CommitBooking(p) ==
  /\ pc[p] = "insert"
  /\ InsertErrors(p) = {}
  /\ status' = [status EXCEPT ![p] = plan[p].status]
  /\ deposit' = [deposit EXCEPT ![p] =
                   IF plan[p].status = "PENDING_DEPOSIT" THEN "PENDING" ELSE "NONE"]
  /\ Answer(p, p)
  /\ Unlock(p)
  /\ Goto(p, "publish")
  /\ UNCHANGED <<claim, elapsed, setup, published, plan, failure, task, batch, edit, crashes>>

PublishBooking(p) ==
  /\ pc[p] = "publish"
  /\ PublishAll(EventsOfCreate(plan[p].status), p)
  /\ EndBooking(p)
  /\ UNCHANGED task
-----------------------------------------------------------------------------
(* AppointmentsService.mutate and DepositsService.resolve                  *)

(* mutate reads the appointment before its transaction and without a lock. *)
FetchAppointment(u) ==
  /\ pc[u] = "idle"
  /\ \E op \in Mutations, a \in Submits :
       /\ status[a] # Absent
       /\ task' = [task EXCEPT ![u] =
                     [op |-> op, appt |-> a, seen |-> status[a], seenDeposit |-> "NONE"]]
  /\ Goto(u, "apply")
  /\ UNCHANGED <<tables, setup, lock, published, plan, result, failure, batch, edit, crashes>>

(* resolve reads the deposit first ...                                     *)
FetchDeposit(u) ==
  /\ pc[u] = "idle"
  /\ \E op \in Resolutions, a \in Submits :
       /\ deposit[a] # "NONE"
       /\ task' = [task EXCEPT ![u] =
                     [op |-> op, appt |-> a, seen |-> Absent, seenDeposit |-> deposit[a]]]
  /\ Goto(u, "fetch")
  /\ UNCHANGED <<tables, setup, lock, published, plan, result, failure, batch, edit, crashes>>

(* ... and then, in a second query, its appointment.                       *)
FetchAppointmentOfDeposit(u) ==
  /\ pc[u] = "fetch"
  /\ task' = [task EXCEPT ![u].seen = status[task[u].appt]]
  /\ Goto(u, "apply")
  /\ UNCHANGED <<tables, setup, lock, published, plan, result, failure, batch, edit, crashes>>

(* The entities' guards judge the objects read earlier.                    *)
Allowed(t) ==
  /\ t.seen \in From(t.op)
  /\ t.op \in Resolutions => t.seenDeposit = "PENDING"

Refuse(u) ==
  /\ pc[u] = "apply"
  /\ \/ ~Allowed(task[u]) /\ Fail(u, "BusinessRuleError")
     \/ /\ Allowed(task[u])
        /\ ExclusionViolated(task[u].appt, To(task[u].op))
        /\ Fail(u, "23P01")
  /\ EndTask(u)
  /\ UNCHANGED <<tables, setup, lock, published, plan, result, batch, edit, crashes>>

(* Mutant: the object is saved as it was read, the transition forgotten.   *)
Apply_SavesStale(u) ==
  /\ pc[u] = "apply"
  /\ Allowed(task[u])
  /\ status' = [status EXCEPT ![task[u].appt] = task[u].seen]
  /\ Goto(u, "publish")
  /\ UNCHANGED <<claim, deposit, elapsed, setup, lock, published, locals, crashes>>

(* save upserts by id: it overwrites the status whatever it is by now.     *)
Apply(u) ==
  LET t == task[u] IN
  /\ pc[u] = "apply"
  /\ Allowed(t)
  /\ ~ExclusionViolated(t.appt, To(t.op))
  /\ status' = [status EXCEPT ![t.appt] = To(t.op)]
  /\ deposit' = IF t.op \in Resolutions
                THEN [deposit EXCEPT ![t.appt] = DepositTo(t.op)]
                ELSE deposit
  /\ Goto(u, "publish")
  /\ UNCHANGED <<claim, elapsed, setup, lock, published, locals, crashes>>

PublishChange(u) ==
  /\ pc[u] = "publish"
  /\ PublishAll(EventsOfOp(task[u].op), task[u].appt)
  /\ EndTask(u)
  /\ UNCHANGED plan
-----------------------------------------------------------------------------
(* ExpireStaleDeposits.run                                                 *)

Stale == {a \in elapsed : deposit[a] = "PENDING"}

(* One query fills the batch; a cron tick with nothing stale does nothing. *)
ListExpired ==
  /\ pc[Job] = "idle"
  /\ Stale # {}
  /\ batch' \in SUBSET Stale
  /\ Cardinality(batch') =
       IF Cardinality(Stale) <= BatchSize THEN Cardinality(Stale) ELSE BatchSize
  /\ Goto(Job, "next")
  /\ UNCHANGED <<tables, setup, lock, published, plan, result, failure, task, edit, crashes>>

FetchNext ==
  /\ pc[Job] = "next"
  /\ \E a \in batch :
       /\ task' = [task EXCEPT ![Job] =
                     [op |-> "none", appt |-> a, seen |-> status[a], seenDeposit |-> "PENDING"]]
       /\ batch' = batch \ {a}
  /\ Goto(Job, "expire")
  /\ UNCHANGED <<tables, setup, lock, published, plan, result, failure, edit, crashes>>

(* Mutant: the appointment is left waiting for the expired deposit.        *)
ExpireOne_KeepsAppointment ==
  /\ pc[Job] = "expire"
  /\ deposit' = [deposit EXCEPT ![task[Job].appt] = "EXPIRED"]
  /\ Goto(Job, "publish")
  /\ UNCHANGED <<claim, status, elapsed, setup, lock, published, locals, crashes>>

(* expire() judges the deposit object of the batch, always still PENDING.  *)
ExpireOne ==
  LET t == task[Job] IN
  /\ pc[Job] = "expire"
  /\ deposit' = [deposit EXCEPT ![t.appt] = "EXPIRED"]
  /\ status' = IF t.seen = "PENDING_DEPOSIT"
               THEN [status EXCEPT ![t.appt] = "CANCELLED"]
               ELSE status
  /\ Goto(Job, "publish")
  /\ UNCHANGED <<claim, elapsed, setup, lock, published, locals, crashes>>

(* Mutant: the job is not scheduled again after a batch.                   *)
PublishExpiry_OneShot ==
  /\ pc[Job] = "publish"
  /\ PublishAll(EventsOfExpiry(task[Job].seen), task[Job].appt)
  /\ Goto(Job, IF batch = {} THEN "done" ELSE "next")
  /\ task' = [task EXCEPT ![Job] = NoTask]
  /\ UNCHANGED plan

PublishExpiry ==
  /\ pc[Job] = "publish"
  /\ PublishAll(EventsOfExpiry(task[Job].seen), task[Job].appt)
  /\ Goto(Job, IF batch = {} THEN "idle" ELSE "next")
  /\ task' = [task EXCEPT ![Job] = NoTask]
  /\ UNCHANGED plan
-----------------------------------------------------------------------------
(* ResourcesService                                                        *)

(* The patch sets active or leaves it out; save writes every column, so a  *)
(* patch without active later writes back the value read now.              *)
FetchResource(o) ==
  /\ pc[o] = "idle"
  /\ \E r \in Resources, value \in BOOLEAN :
       edit' = [edit EXCEPT ![o] = [resource |-> r, active |-> value]]
  /\ Goto(o, "save")
  /\ UNCHANGED <<tables, setup, lock, published, plan, result, failure, task, batch, crashes>>

(* Mutant: the update does not wait for the row lock.                      *)
SaveResource_NoWait(o) ==
  /\ pc[o] = "save"
  /\ active' = [active EXCEPT ![edit[o].resource] = edit[o].active]
  /\ edit' = [edit EXCEPT ![o] = NoEdit]
  /\ Goto(o, "done")
  /\ UNCHANGED <<tables, blocks, lock, published, plan, result, failure, task, batch, crashes>>

(* The UPDATE waits for a booking that holds the row lock.                 *)
SaveResource(o) ==
  LET e == edit[o] IN
  /\ pc[o] = "save"
  /\ lock[e.resource] = NoOne
  /\ active' = [active EXCEPT ![e.resource] = e.active]
  /\ edit' = [edit EXCEPT ![o] = NoEdit]
  /\ Goto(o, "done")
  /\ UNCHANGED <<tables, blocks, lock, published, plan, result, failure, task, batch, crashes>>

(* A blocked time is saved without looking at appointments or locks.       *)
CreateBlockedTime(o) ==
  /\ pc[o] = "idle"
  /\ \E r \in Resources \union {NoOne}, s \in Slots :
       blocks' = blocks \union {[resource |-> r, slot |-> s]}
  /\ Goto(o, "done")
  /\ UNCHANGED <<tables, active, lock, published, locals, crashes>>

DeleteBlockedTime(o) ==
  /\ pc[o] = "idle"
  /\ \E b \in blocks : blocks' = blocks \ {b}
  /\ Goto(o, "done")
  /\ UNCHANGED <<tables, active, lock, published, locals, crashes>>
-----------------------------------------------------------------------------
(* Time passes: a deposit's expiresAt falls behind the clock.              *)
TtlElapses(a) ==
  /\ deposit[a] # "NONE"
  /\ elapsed' = elapsed \union {a}
  /\ UNCHANGED <<claim, status, deposit, setup, lock, published, pc, locals, crashes>>

InFlight == {p \in Processes : pc[p] \notin {"idle", "done"}}

(* Mutant: locks survive the process that took them.                       *)
Crash_KeepsLocks ==
  /\ crashes < MaxCrashes
  /\ InFlight # {}
  /\ crashes' = crashes + 1
  /\ pc' = [p \in Processes |->
              IF p = Job THEN "idle" ELSE IF p \in InFlight THEN "done" ELSE pc[p]]
  /\ failure' = [p \in Submits \union Staff |-> IF p \in InFlight THEN "crash" ELSE failure[p]]
  /\ batch' = {}
  /\ task' = [w \in Workers |-> NoTask]
  /\ UNCHANGED <<tables, setup, lock, published, plan, result, edit>>

(* The server dies: requests in flight are cut off, open transactions roll *)
(* back and release their locks, events not yet published are gone.  The   *)
(* job starts afresh at the next cron tick.                                *)
Crash ==
  /\ crashes < MaxCrashes
  /\ InFlight # {}
  /\ crashes' = crashes + 1
  /\ pc' = [p \in Processes |->
              IF p = Job THEN "idle" ELSE IF p \in InFlight THEN "done" ELSE pc[p]]
  /\ failure' = [p \in Submits \union Staff |-> IF p \in InFlight THEN "crash" ELSE failure[p]]
  /\ result' = [p \in Submits |-> IF p \in InFlight THEN NoOne ELSE result[p]]
  /\ lock' = [r \in Resources |-> NoOne]
  /\ batch' = {}
  /\ plan' = [p \in Submits |-> NoPlan]
  /\ task' = [w \in Workers |-> NoTask]
  /\ edit' = [o \in Admins |-> NoEdit]
  /\ UNCHANGED <<tables, setup, published>>
-----------------------------------------------------------------------------
Booker(p) ==
  \/ Submit(p) \/ ReadTenant(p) \/ LockResource(p)
  \/ RollBackInsert(p) \/ CommitBooking(p) \/ PublishBooking(p)
StaffMember(u) ==
  \/ FetchAppointment(u) \/ FetchDeposit(u) \/ FetchAppointmentOfDeposit(u)
  \/ Refuse(u) \/ Apply(u) \/ PublishChange(u)
Expirer == ListExpired \/ FetchNext \/ ExpireOne \/ PublishExpiry
Admin(o) ==
  FetchResource(o) \/ SaveResource(o) \/ CreateBlockedTime(o) \/ DeleteBlockedTime(o)

Next ==
  \/ \E p \in Submits : Booker(p)
  \/ \E u \in Staff : StaffMember(u)
  \/ Expirer
  \/ \E o \in Admins : Admin(o)
  \/ \E a \in Submits : TtlElapses(a)
  \/ Crash

Spec == Init /\ [][Next]_vars

(* A request that has started runs to its end, since Node keeps polling    *)
(* its promises and Postgres wakes lock waiters; cron keeps ticking.  That *)
(* anybody submits anything, or that a deposit's TTL elapses, is not       *)
(* promised.                                                               *)
Fairness ==
  /\ \A p \in Submits : WF_vars(pc[p] # "idle" /\ Booker(p))
  /\ \A u \in Staff : WF_vars(pc[u] # "idle" /\ StaffMember(u))
  /\ \A o \in Admins : WF_vars(pc[o] # "idle" /\ Admin(o))
  /\ WF_vars(Expirer)

FairSpec == Spec /\ Fairness
-----------------------------------------------------------------------------
(* The variables keep their types.                                         *)
TypeOK ==
  /\ claim \in [Submits -> Claims]
  /\ status \in [Submits -> Statuses \union {Absent}]
  /\ deposit \in [Submits -> DepositStatuses]
  /\ elapsed \subseteq Submits
  /\ active \in [Resources -> BOOLEAN]
  /\ blocks \subseteq [resource : Resources \union {NoOne}, slot : Slots]
  /\ lock \in [Resources -> Submits \union {NoOne}]
  /\ published \subseteq Events \X Submits
  /\ pc \in [Processes -> {"idle", "read", "lock", "insert", "publish", "done",
                           "fetch", "apply", "next", "expire", "save"}]
  /\ pc[Job] \in {"idle", "next", "expire", "publish"}
  /\ plan \in [Submits -> [status : InitialStatuses \union {Absent}, blocked : BOOLEAN]]
  /\ result \in [Submits -> Submits \union {NoOne}]
  /\ failure \in [Submits \union Staff -> Errors \union {"none", "crash"}]
  /\ task \in [Workers -> [op : Ops \union {"none"}, appt : Submits \union {NoOne},
                           seen : Statuses \union {Absent}, seenDeposit : DepositStatuses]]
  /\ batch \subseteq Submits
  /\ edit \in [Admins -> [resource : Resources \union {NoOne}, active : BOOLEAN]]
  /\ crashes \in 0..MaxCrashes

(* Two appointments that occupy time never share an instant of a resource, *)
(* whatever stale status a staff request or the job writes back            *)
(* (CreateAppointment, appointments-no-overlap.sql).                       *)
NoDoubleBooking ==
  \A a, b \in Submits :
    a # b /\ status[a] \in Blocking /\ status[b] \in Blocking => ~Clash(a, b)

(* An idempotency key names at most one appointment, although the replay   *)
(* lookup and the insert are awaits apart (appointments_idempotency_uq).   *)
OneAppointmentPerKey ==
  \A a, b \in Submits :
    a # b /\ status[a] # Absent /\ status[b] # Absent /\ claim[a].key = claim[b].key
      => claim[a].key = NoKey

(* Submits with the same key that are answered at all are answered with    *)
(* the same appointment, and it exists, even across a crash after commit.  *)
ReplayAgreement ==
  \A p, q \in Submits :
    /\ result[p] # NoOne => status[result[p]] # Absent
    /\ result[p] # NoOne /\ result[q] # NoOne /\ claim[p].key = claim[q].key
         => p = q \/ claim[p].key = NoKey \/ result[p] = result[q]

(* A slot held for a deposit can always be released by the expiry job: the *)
(* appointment waits for a deposit only while a PENDING deposit exists,    *)
(* however staff, the job and their stale reads interleave (BR-105/106).   *)
PendingDepositBacked ==
  \A a \in Submits : status[a] = "PENDING_DEPOSIT" => deposit[a] = "PENDING"

(* While a booking is between its overlap check and its commit, it alone   *)
(* holds its resource, and that resource cannot be deactivated under it    *)
(* (lockActive's SELECT ... FOR UPDATE).                                   *)
LockProtectsInsert ==
  \A p \in Submits :
    pc[p] = "insert" => lock[claim[p].resource] = p /\ active[claim[p].resource]

(* A request that is refused leaves no appointment and no deposit behind.  *)
RefusalLeavesNothing ==
  \A p \in Submits : failure[p] \in Errors => status[p] = Absent /\ deposit[p] = "NONE"

(* Events leave after the commit: an appointment that subscribers have     *)
(* been told of exists, and one whose decision was announced, or whose     *)
(* deposit's was, never awaits it again.  (A stale save may still replace  *)
(* one decision by another.)                                               *)
AnnouncedIsCommitted ==
  \A ev \in published :
    /\ status[ev[2]] # Absent
    /\ ev[1] \notin {"AppointmentCreated", "DepositRequested", "DepositExpired"}
         => status[ev[2]] \notin PendingStatuses
    /\ ev[1] \in {"DepositConfirmed", "DepositRejected", "DepositExpired"}
         => deposit[ev[2]] \notin {"NONE", "PENDING"}

(* An appointment once decided is never put back in a queue for a decision *)
(* and no appointment disappears, stale writes included.                   *)
DecisionsAreFinal ==
  [][\A a \in Submits :
       status[a] # Absent =>
         /\ status'[a] # Absent
         /\ status'[a] \in PendingStatuses => status'[a] = status[a]]_vars

(* Seen as a ledger of held slots, the whole module does nothing but take  *)
(* free slots and release held ones, one at a time.                        *)
Ledger == INSTANCE SlotLedger
            WITH Holders <- Submits, held <- {a \in Submits : status[a] \in Blocking}
ImplementsLedger == Ledger!Spec

(* A slot whose deposit is overdue is released by the job's batches, even  *)
(* though each run takes a bounded batch read once, and crashes cut it.    *)
OverdueSlotReleased ==
  \A a \in Submits :
    (status[a] = "PENDING_DEPOSIT" /\ a \in elapsed) ~> status[a] # "PENDING_DEPOSIT"

(* Every booking request that starts gets an answer: no transaction keeps  *)
(* the resource lock when it is refused, rolled back or cut by a crash.    *)
EveryBookingEnds == \A p \in Submits : (pc[p] # "idle") ~> (pc[p] = "done")
-----------------------------------------------------------------------------
(* The inductive invariant: the safety properties above and what each      *)
(* process knows, of rows it read some steps ago, that is still true.      *)

(* Until it commits, a booking has no row; from the lock on it has a plan. *)
BookingInv ==
  \A p \in Submits :
    /\ pc[p] \in {"idle", "read", "lock", "insert"} => status[p] = Absent
    /\ pc[p] \in {"lock", "insert", "publish"} => plan[p].status \in InitialStatuses
    /\ pc[p] = "publish" =>
         /\ status[p] # Absent
         /\ plan[p].status = "CONFIRMED" => status[p] \notin PendingStatuses
    /\ failure[p] \in Errors => pc[p] = "done" /\ status[p] = Absent

(* A request is answered with its own appointment or that of its key.      *)
AnswerInv ==
  \A p \in Submits :
    result[p] # NoOne =>
      /\ status[result[p]] # Absent
      /\ result[p] = p \/ (claim[p].key # NoKey /\ claim[result[p]].key = claim[p].key)

(* No deposit without its appointment.                                     *)
DepositInv == \A a \in Submits : status[a] = Absent => deposit[a] = "NONE"

(* Past its first read, a staff request or the job knows what it is about. *)
TaskInv ==
  /\ \A u \in Staff :
       pc[u] \in {"fetch", "apply", "publish"} => task[u].op \in Ops /\ task[u].appt \in Submits
  /\ pc[Job] \in {"expire", "publish"} => task[Job].appt \in Submits

(* A staff request aims at a row that exists; having committed, it leaves  *)
(* it decided, and its deposit too if it was about one.                    *)
StaffInv ==
  \A u \in Staff :
    /\ pc[u] \in {"fetch", "apply", "publish"} =>
         /\ status[task[u].appt] # Absent
         /\ task[u].op \in Resolutions => deposit[task[u].appt] # "NONE"
    /\ pc[u] = "publish" =>
         /\ status[task[u].appt] \notin PendingStatuses
         /\ task[u].op \in Resolutions =>
              deposit[task[u].appt] \notin {"NONE", "PENDING"}

(* The job's batch is stale but never about a row that is not there; what  *)
(* it read of an appointment can only be outdated in one direction.        *)
JobInv ==
  /\ \A a \in batch : status[a] # Absent /\ deposit[a] # "NONE"
  /\ pc[Job] \in {"expire", "publish"} =>
       /\ status[task[Job].appt] # Absent
       /\ deposit[task[Job].appt] # "NONE"
  /\ pc[Job] = "expire" /\ status[task[Job].appt] \in PendingStatuses =>
       task[Job].seen = status[task[Job].appt]
  /\ pc[Job] = "publish" =>
       /\ deposit[task[Job].appt] # "PENDING"
       /\ task[Job].seen = "PENDING_DEPOSIT" => status[task[Job].appt] \notin PendingStatuses

Inv ==
  /\ TypeOK /\ TaskInv
  /\ BookingInv /\ AnswerInv /\ DepositInv /\ StaffInv /\ JobInv
  /\ LockProtectsInsert
  /\ NoDoubleBooking /\ OneAppointmentPerKey
  /\ PendingDepositBacked /\ AnnouncedIsCommitted
-----------------------------------------------------------------------------
(* Statements of the repository about this code that the runs put to test. *)

(* "Client-supplied key that makes a public booking idempotent (double-    *)
(* submit safe)": once a submit has booked, an identical one never fails   *)
(* because of that booking.                                                *)
DoubleSubmitSafe ==
  [][\A p, q \in Submits :
       (/\ p # q /\ claim[p] = claim[q] /\ claim[p].key # NoKey
        /\ status[q] \in Blocking /\ failure'[p] # failure[p])
          => failure'[p] \notin {"ConflictError", "23505", "23P01"}]_vars

(* "Confirm the deposit and the appointment together (BR-105)": where a    *)
(* deposit was requested, a confirmed appointment has a confirmed deposit. *)
ConfirmedTogether ==
  \A a \in Submits :
    status[a] = "CONFIRMED" /\ deposit[a] # "NONE" => deposit[a] = "CONFIRMED"

(* "locks the resource row, re-validates availability": no appointment is  *)
(* committed over a blocked time that exists at that moment.               *)
RevalidatesAvailability ==
  [][\A a \in Submits :
       status[a] = Absent /\ status'[a] # Absent => ~Blocked(a)]_vars

(* "fails with SQLSTATE 23P01, which the global exception filter maps to   *)
(* HTTP 409 (CONFLICT)".                                                   *)
OverlapAnswersConflict ==
  \A p \in Submits \union Staff : failure[p] = "23P01" => HttpStatus(failure[p]) = 409
=============================================================================
