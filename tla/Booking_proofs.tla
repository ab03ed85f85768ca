--------------------------- MODULE Booking_proofs ---------------------------
(* Machine-checked proofs about Booking, for every number of requests,     *)
(* resources, slots, keys and crashes.                                     *)
EXTENDS Booking, TLAPS

(* Every step keeps the types, given what a staff request's task holds.    *)
LEMMA TypeStep == TypeOK /\ TaskInv /\ [Next]_vars => TypeOK'
<1> SUFFICES ASSUME TypeOK, TaskInv, [Next]_vars PROVE TypeOK'
  OBVIOUS
<1> USE NamesAssumption, BoundsAssumption, SlotsAssumption
    DEF TypeOK, Goto, Absent, Processes, Workers
<1>1. ASSUME NEW p \in Submits, Submit(p) PROVE TypeOK'
  <2>1. p \in Processes /\ p # Job
    OBVIOUS
  <2>2. CASE \E a \in KeyHolders(p) : Answer(p, a) /\ Goto(p, "done")
    <3>1. PICK a \in Submits : result' = [result EXCEPT ![p] = a]
      BY <2>2 DEF KeyHolders, Answer
    <3> QED
      BY <1>1, <2>1, <2>2, <3>1 DEF Submit, tables, setup
  <2>3. CASE Goto(p, "read") /\ UNCHANGED result
    BY <1>1, <2>1, <2>3 DEF Submit, tables, setup
  <2> QED
    BY <1>1, <2>2, <2>3 DEF Submit
<1>2. ASSUME NEW p \in Submits, ReadTenant(p) PROVE TypeOK'
  <2>1. p \in Processes /\ p # Job
    OBVIOUS
  <2>2. CASE (\E e \in {"NotFoundError", "BusinessRuleError"} : Fail(p, e)) /\ EndBooking(p)
    <3>1. PICK e \in Errors : failure' = [failure EXCEPT ![p] = e]
      BY <2>2 DEF Fail, Errors
    <3> QED
      BY <1>2, <2>1, <2>2, <3>1 DEF ReadTenant, EndBooking, NoPlan, tables, setup
  <2>3. CASE /\ \E st \in InitialStatuses :
                  plan' = [plan EXCEPT ![p] = [status |-> st, blocked |-> Blocked(p)]]
             /\ Goto(p, "lock") /\ UNCHANGED failure
    <3>1. Blocked(p) \in BOOLEAN
      BY DEF Blocked
    <3> QED
      BY <1>2, <2>1, <2>3, <3>1 DEF ReadTenant, tables, setup
  <2> QED
    BY <1>2, <2>2, <2>3 DEF ReadTenant
<1>3. ASSUME NEW p \in Submits, LockResource(p) PROVE TypeOK'
  <2>1. p \in Processes /\ p # Job
    OBVIOUS
  <2>2. CASE (\E e \in Errors : Fail(p, e)) /\ EndBooking(p) /\ UNCHANGED lock
    <3>1. PICK e \in Errors : failure' = [failure EXCEPT ![p] = e]
      BY <2>2 DEF Fail
    <3> QED
      BY <1>3, <2>1, <2>2, <3>1 DEF LockResource, EndBooking, NoPlan, tables, setup
  <2>3. CASE /\ lock' = [lock EXCEPT ![claim[p].resource] = p]
             /\ Goto(p, "insert") /\ UNCHANGED <<plan, failure>>
    BY <1>3, <2>1, <2>3 DEF LockResource, tables, setup
  <2> QED
    BY <1>3, <2>2, <2>3 DEF LockResource, Errors
<1>4. ASSUME NEW p \in Submits, RollBackInsert(p) PROVE TypeOK'
  <2>1. p \in Processes /\ p # Job
    OBVIOUS
  <2>2. EndBooking(p) /\ Unlock(p) /\ UNCHANGED <<tables, setup, published, task, batch, edit, crashes>>
    BY <1>4 DEF RollBackInsert
  <2>3. CASE (\E a \in KeyHolders(p) : Answer(p, a)) /\ UNCHANGED failure
    <3>1. PICK a \in Submits : result' = [result EXCEPT ![p] = a]
      BY <2>3 DEF KeyHolders, Answer
    <3> QED
      BY <2>1, <2>2, <2>3, <3>1 DEF EndBooking, Unlock, NoPlan, tables, setup
  <2>4. CASE (\E e \in Errors : Fail(p, e)) /\ UNCHANGED result
    <3>1. PICK e \in Errors : failure' = [failure EXCEPT ![p] = e]
      BY <2>4 DEF Fail
    <3> QED
      BY <2>1, <2>2, <2>4, <3>1 DEF EndBooking, Unlock, NoPlan, tables, setup
  <2> QED
    BY <1>4, <2>3, <2>4 DEF RollBackInsert, InsertErrors, Errors
<1>5. ASSUME NEW p \in Submits, CommitBooking(p) PROVE TypeOK'
  BY <1>5 DEF CommitBooking, Unlock, Answer, Statuses, Blocking, InitialStatuses,
     DepositStatuses, setup
<1>6. ASSUME NEW p \in Submits, PublishBooking(p) PROVE TypeOK'
  <2>1. EventsOfCreate(plan[p].status) \subseteq Events
    BY DEF EventsOfCreate, Events
  <2>2. published' \subseteq Events \X Submits
    BY <1>6, <2>1 DEF PublishBooking, PublishAll
  <2> QED
    BY <1>6, <2>2 DEF PublishBooking, PublishAll, EndBooking, NoPlan, tables, setup
<1>7. ASSUME NEW u \in Staff, FetchAppointment(u) PROVE TypeOK'
  BY <1>7 DEF FetchAppointment, Ops, DepositStatuses, tables, setup
<1>8. ASSUME NEW u \in Staff, FetchDeposit(u) PROVE TypeOK'
  BY <1>8 DEF FetchDeposit, Ops, tables, setup
<1>9. ASSUME NEW u \in Staff, FetchAppointmentOfDeposit(u) PROVE TypeOK'
  <2>1. u \in Processes /\ u # Job /\ u \in Workers
    OBVIOUS
  <2>2. task[u].appt \in Submits
    BY <1>9 DEF FetchAppointmentOfDeposit, TaskInv
  <2> DEFINE Tasks == [op : Ops \union {"none"}, appt : Submits \union {NoOne},
                       seen : Statuses \union {Absent}, seenDeposit : DepositStatuses]
  <2>3. [task[u] EXCEPT !.seen = status[task[u].appt]] \in Tasks
    <3>1. task[u] \in Tasks /\ status[task[u].appt] \in Statuses \union {Absent}
      BY <2>1, <2>2
    <3> QED
      BY <3>1
  <2>5. task' \in [Workers -> Tasks]
    BY <1>9, <2>1, <2>3 DEF FetchAppointmentOfDeposit
  <2>4. pc' = [pc EXCEPT ![u] = "apply"]
    BY <1>9 DEF FetchAppointmentOfDeposit
  <2> QED
    BY <1>9, <2>1, <2>4, <2>5 DEF FetchAppointmentOfDeposit, tables, setup
<1>10. ASSUME NEW u \in Staff, Refuse(u) PROVE TypeOK'
  <2>1. u \in Processes /\ u # Job
    OBVIOUS
  <2>2. PICK e \in Errors : failure' = [failure EXCEPT ![u] = e]
    BY <1>10 DEF Refuse, Fail, Errors
  <2> QED
    BY <1>10, <2>1, <2>2 DEF Refuse, EndTask, NoTask, DepositStatuses, tables, setup
<1>11. ASSUME NEW u \in Staff, Apply(u) PROVE TypeOK'
  <2>1. u \in Processes /\ u # Job /\ u \in Workers
    OBVIOUS
  <2>2. task[u].op \in Ops
    BY <1>11 DEF Apply, TaskInv
  <2>5. To(task[u].op) \in Statuses
    BY <2>2 DEF To, Ops, Mutations, Resolutions, Statuses, Blocking
  <2>3. status' \in [Submits -> Statuses \union {Absent}]
    BY <1>11, <2>5 DEF Apply
  <2>4. deposit' \in [Submits -> DepositStatuses]
    BY <1>11 DEF Apply, DepositTo, DepositStatuses
  <2>6. pc' = [pc EXCEPT ![u] = "publish"]
    BY <1>11 DEF Apply
  <2> QED
    BY <1>11, <2>1, <2>3, <2>4, <2>6 DEF Apply, setup, locals
<1>12. ASSUME NEW u \in Staff, PublishChange(u) PROVE TypeOK'
  <2>1. u \in Processes /\ u # Job
    OBVIOUS
  <2>2. EndTask(u) /\ UNCHANGED <<tables, setup, lock, plan, result, failure, batch, edit, crashes>>
    BY <1>12 DEF PublishChange, PublishAll
  <2>3. task[u].op \in Ops /\ task[u].appt \in Submits
    BY <1>12 DEF PublishChange, TaskInv
  <2>4. EventsOfOp(task[u].op) \subseteq Events
    BY <2>3 DEF EventsOfOp, Events, Ops, Mutations, Resolutions
  <2>5. published' \subseteq Events \X Submits
    BY <1>12, <2>3, <2>4 DEF PublishChange, PublishAll
  <2> QED
    BY <2>1, <2>2, <2>5 DEF EndTask, NoTask, DepositStatuses, tables, setup
<1>13. ASSUME ListExpired PROVE TypeOK'
  BY <1>13 DEF ListExpired, Stale, tables, setup
<1>14. ASSUME FetchNext PROVE TypeOK'
  BY <1>14 DEF FetchNext, DepositStatuses, tables, setup
<1>15. ASSUME ExpireOne PROVE TypeOK'
  BY <1>15 DEF ExpireOne, DepositStatuses, Statuses, Blocking, setup, locals
<1>16. ASSUME PublishExpiry PROVE TypeOK'
  <2>1. task[Job].appt \in Submits
    BY <1>16 DEF PublishExpiry, TaskInv
  <2>2. EventsOfExpiry(task[Job].seen) \subseteq Events
    BY DEF EventsOfExpiry, Events
  <2>3. published' \subseteq Events \X Submits
    BY <1>16, <2>1, <2>2 DEF PublishExpiry, PublishAll
  <2> QED
    BY <1>16, <2>3 DEF PublishExpiry, PublishAll, NoTask, DepositStatuses, tables, setup
<1>17. ASSUME NEW o \in Admins, FetchResource(o) PROVE TypeOK'
  BY <1>17 DEF FetchResource, tables, setup
<1>18. ASSUME NEW o \in Admins, SaveResource(o) PROVE TypeOK'
  BY <1>18 DEF SaveResource, NoEdit, tables
<1>19. ASSUME NEW o \in Admins, CreateBlockedTime(o) PROVE TypeOK'
  BY <1>19 DEF CreateBlockedTime, tables, locals
<1>20. ASSUME NEW o \in Admins, DeleteBlockedTime(o) PROVE TypeOK'
  BY <1>20 DEF DeleteBlockedTime, tables, locals
<1>21. ASSUME NEW a \in Submits, TtlElapses(a) PROVE TypeOK'
  BY <1>21 DEF TtlElapses, setup, locals
<1>22. ASSUME Crash PROVE TypeOK'
  BY <1>22 DEF Crash, InFlight, NoPlan, NoTask, NoEdit, DepositStatuses, tables, setup
<1>23. ASSUME UNCHANGED vars PROVE TypeOK'
  BY <1>23 DEF vars, tables, setup, locals
<1> QED
  BY <1>1, <1>2, <1>3, <1>4, <1>5, <1>6, <1>7, <1>8, <1>9, <1>10, <1>11, <1>12, <1>13,
     <1>14, <1>15, <1>16, <1>17, <1>18, <1>19, <1>20, <1>21, <1>22, <1>23
  DEF Next, Booker, StaffMember, Expirer, Admin

(* Every operation of the transition table decides: it leaves the pending  *)
(* statuses, and the deposit, if it is about one, with a decision.         *)
LEMMA ToDecides ==
  ASSUME NEW op \in Ops
  PROVE  /\ To(op) \in Statuses \ PendingStatuses
         /\ To(op) # Absent
         /\ DepositTo(op) \in {"CONFIRMED", "REJECTED"}
  BY DEF Ops, Mutations, Resolutions, To, DepositTo, Statuses, PendingStatuses, Blocking, Absent
-----------------------------------------------------------------------------
(* Frames: which steps can change what a later lemma speaks about.         *)

(* Only three steps write appointments or deposits, and none changes what  *)
(* an appointment is about.                                                *)
LEMMA TablesFrame ==
  ASSUME [Next]_vars
  PROVE  /\ claim' = claim
         /\ \/ UNCHANGED <<status, deposit>>
            \/ \E p \in Submits : CommitBooking(p)
            \/ \E u \in Staff : Apply(u)
            \/ ExpireOne
<1>1. ASSUME NEW p \in Submits, Booker(p)
      PROVE  claim' = claim /\ (UNCHANGED <<status, deposit>> \/ CommitBooking(p))
  BY <1>1 DEF Booker, Submit, ReadTenant, LockResource, RollBackInsert, CommitBooking,
     PublishBooking, PublishAll, tables
<1>2. ASSUME NEW u \in Staff, StaffMember(u)
      PROVE  claim' = claim /\ (UNCHANGED <<status, deposit>> \/ Apply(u))
  BY <1>2 DEF StaffMember, FetchAppointment, FetchDeposit, FetchAppointmentOfDeposit, Refuse,
     Apply, PublishChange, PublishAll, tables
<1>3. ASSUME Expirer
      PROVE  claim' = claim /\ (UNCHANGED <<status, deposit>> \/ ExpireOne)
  BY <1>3 DEF Expirer, ListExpired, FetchNext, ExpireOne, PublishExpiry, PublishAll, tables
<1>4. ASSUME NEW o \in Admins, Admin(o)
      PROVE  UNCHANGED <<claim, status, deposit>>
  BY <1>4 DEF Admin, FetchResource, SaveResource, CreateBlockedTime, DeleteBlockedTime, tables
<1>5. ASSUME NEW a \in Submits, TtlElapses(a)
      PROVE  UNCHANGED <<claim, status, deposit>>
  BY <1>5 DEF TtlElapses
<1>6. CASE Crash
  BY <1>6 DEF Crash, tables
<1>7. CASE UNCHANGED vars
  BY <1>7 DEF vars, tables
<1> QED
  BY <1>1, <1>2, <1>3, <1>4, <1>5, <1>6, <1>7 DEF Next

(* Another actor's step leaves a booking request where it is.              *)
LEMMA BookerFrame ==
  ASSUME TypeOK, [Next]_vars, NEW p \in Submits
  PROVE  \/ Booker(p)
         \/ Crash
         \/ /\ pc'[p] = pc[p] /\ plan'[p] = plan[p]
            /\ failure'[p] = failure[p] /\ result'[p] = result[p]
<1> USE NamesAssumption DEF TypeOK, Goto, Processes, Workers
<1> DEFINE Still == /\ pc'[p] = pc[p] /\ plan'[p] = plan[p]
                    /\ failure'[p] = failure[p] /\ result'[p] = result[p]
<1>1. ASSUME NEW q \in Submits, q # p, Booker(q) PROVE Still
  <2>1. CASE Submit(q)
    BY <1>1, <2>1 DEF Submit, Answer
  <2>2. CASE ReadTenant(q)
    BY <1>1, <2>2 DEF ReadTenant, Fail, EndBooking
  <2>3. CASE LockResource(q)
    BY <1>1, <2>3 DEF LockResource, Fail, EndBooking
  <2>4. CASE RollBackInsert(q)
    BY <1>1, <2>4 DEF RollBackInsert, Fail, EndBooking, Answer
  <2>5. CASE CommitBooking(q)
    BY <1>1, <2>5 DEF CommitBooking, Answer
  <2>6. CASE PublishBooking(q)
    BY <1>1, <2>6 DEF PublishBooking, PublishAll, EndBooking
  <2> QED
    BY <1>1, <2>1, <2>2, <2>3, <2>4, <2>5, <2>6 DEF Booker
<1>2. ASSUME NEW u \in Staff, StaffMember(u) PROVE Still
  <2>1. u # p
    OBVIOUS
  <2> QED
    BY <1>2, <2>1 DEF StaffMember, FetchAppointment, FetchDeposit, FetchAppointmentOfDeposit,
       Refuse, Apply, PublishChange, PublishAll, EndTask, Fail, locals
<1>3. ASSUME Expirer PROVE Still
  <2>1. Job # p
    OBVIOUS
  <2> QED
    BY <1>3, <2>1 DEF Expirer, ListExpired, FetchNext, ExpireOne, PublishExpiry, PublishAll, locals
<1>4. ASSUME NEW o \in Admins, Admin(o) PROVE Still
  <2>1. o # p
    OBVIOUS
  <2> QED
    BY <1>4, <2>1 DEF Admin, FetchResource, SaveResource, CreateBlockedTime, DeleteBlockedTime,
       locals
<1>5. ASSUME NEW a \in Submits, TtlElapses(a) PROVE Still
  BY <1>5 DEF TtlElapses, locals
<1>6. ASSUME UNCHANGED vars PROVE Still
  BY <1>6 DEF vars, locals
<1> QED
  BY <1>1, <1>2, <1>3, <1>4, <1>5, <1>6 DEF Next

(* ... a staff request too ...                                             *)
LEMMA StaffFrame ==
  ASSUME TypeOK, [Next]_vars, NEW u \in Staff
  PROVE  \/ StaffMember(u)
         \/ Crash
         \/ pc'[u] = pc[u] /\ task'[u] = task[u]
<1> USE NamesAssumption DEF TypeOK, Goto, Processes, Workers
<1> DEFINE Still == pc'[u] = pc[u] /\ task'[u] = task[u]
<1>1. ASSUME NEW p \in Submits, Booker(p) PROVE Still
  <2>1. u # p
    OBVIOUS
  <2> QED
    BY <1>1, <2>1 DEF Booker, Submit, ReadTenant, LockResource, RollBackInsert, CommitBooking,
       PublishBooking, PublishAll, EndBooking
<1>2. ASSUME NEW v \in Staff, v # u, StaffMember(v) PROVE Still
  BY <1>2 DEF StaffMember, FetchAppointment, FetchDeposit, FetchAppointmentOfDeposit,
     Refuse, Apply, PublishChange, PublishAll, EndTask, locals
<1>3. ASSUME Expirer PROVE Still
  <2>1. Job # u
    OBVIOUS
  <2> QED
    BY <1>3, <2>1 DEF Expirer, ListExpired, FetchNext, ExpireOne, PublishExpiry, PublishAll, locals
<1>4. ASSUME NEW o \in Admins, Admin(o) PROVE Still
  <2>1. o # u
    OBVIOUS
  <2> QED
    BY <1>4, <2>1 DEF Admin, FetchResource, SaveResource, CreateBlockedTime, DeleteBlockedTime,
       locals
<1>5. ASSUME NEW a \in Submits, TtlElapses(a) PROVE Still
  BY <1>5 DEF TtlElapses, locals
<1>6. ASSUME UNCHANGED vars PROVE Still
  BY <1>6 DEF vars, locals
<1> QED
  BY <1>1, <1>2, <1>3, <1>4, <1>5, <1>6 DEF Next

(* ... and the job.                                                        *)
LEMMA JobFrame ==
  ASSUME TypeOK, [Next]_vars
  PROVE  \/ Expirer
         \/ Crash
         \/ pc'[Job] = pc[Job] /\ task'[Job] = task[Job] /\ batch' = batch
<1> USE NamesAssumption DEF TypeOK, Goto, Processes, Workers
<1> DEFINE Still == pc'[Job] = pc[Job] /\ task'[Job] = task[Job] /\ batch' = batch
<1>1. ASSUME NEW p \in Submits, Booker(p) PROVE Still
  <2>1. Job # p
    OBVIOUS
  <2> QED
    BY <1>1, <2>1 DEF Booker, Submit, ReadTenant, LockResource, RollBackInsert, CommitBooking,
       PublishBooking, PublishAll, EndBooking
<1>2. ASSUME NEW u \in Staff, StaffMember(u) PROVE Still
  <2>1. Job # u
    OBVIOUS
  <2> QED
    BY <1>2, <2>1 DEF StaffMember, FetchAppointment, FetchDeposit, FetchAppointmentOfDeposit,
       Refuse, Apply, PublishChange, PublishAll, EndTask, locals
<1>3. ASSUME NEW o \in Admins, Admin(o) PROVE Still
  <2>1. Job # o
    OBVIOUS
  <2> QED
    BY <1>3, <2>1 DEF Admin, FetchResource, SaveResource, CreateBlockedTime, DeleteBlockedTime,
       locals
<1>4. ASSUME NEW a \in Submits, TtlElapses(a) PROVE Still
  BY <1>4 DEF TtlElapses, locals
<1>5. ASSUME UNCHANGED vars PROVE Still
  BY <1>5 DEF vars, locals
<1> QED
  BY <1>1, <1>2, <1>3, <1>4, <1>5 DEF Next
-----------------------------------------------------------------------------
(* The conjuncts of Inv, one lemma each.                                   *)

(* What a request or the job is about is fixed by its first read.          *)
LEMMA TaskStep == TypeOK /\ TaskInv /\ [Next]_vars => TaskInv'
<1> SUFFICES ASSUME TypeOK, TaskInv, [Next]_vars PROVE TaskInv'
  OBVIOUS
<1> USE NamesAssumption DEF TypeOK, TaskInv, Goto, Processes, Workers
<1>1. ASSUME NEW u \in Staff, pc'[u] \in {"fetch", "apply", "publish"}
      PROVE  task'[u].op \in Ops /\ task'[u].appt \in Submits
  <2>1. CASE StaffMember(u)
    <3>1. CASE FetchAppointment(u)
      BY <3>1 DEF FetchAppointment, Ops
    <3>2. CASE FetchDeposit(u)
      BY <3>2 DEF FetchDeposit, Ops
    <3>3. CASE FetchAppointmentOfDeposit(u)
      BY <3>3 DEF FetchAppointmentOfDeposit
    <3>4. CASE Refuse(u) \/ PublishChange(u)
      BY <1>1, <3>4 DEF Refuse, PublishChange, EndTask
    <3>5. CASE Apply(u)
      BY <3>5 DEF Apply, locals
    <3> QED
      BY <2>1, <3>1, <3>2, <3>3, <3>4, <3>5 DEF StaffMember
  <2>2. CASE Crash
    BY <1>1, <2>2 DEF Crash, InFlight
  <2>3. CASE pc'[u] = pc[u] /\ task'[u] = task[u]
    BY <1>1, <2>3
  <2> QED
    BY <2>1, <2>2, <2>3, StaffFrame
<1>2. ASSUME pc'[Job] \in {"expire", "publish"} PROVE task'[Job].appt \in Submits
  <2>1. CASE Expirer
    BY <1>2, <2>1 DEF Expirer, ListExpired, FetchNext, ExpireOne, PublishExpiry, locals
  <2>2. CASE Crash
    BY <1>2, <2>2 DEF Crash
  <2>3. CASE pc'[Job] = pc[Job] /\ task'[Job] = task[Job]
    BY <1>2, <2>3
  <2> QED
    BY <2>1, <2>2, <2>3, JobFrame
<1> QED
  BY <1>1, <1>2

(* Only its own request inserts an appointment; no row disappears, no      *)
(* status returns to a queue, no deposit reopens.                          *)
Progress ==
  \A a \in Submits :
    /\ status[a] = Absent => status'[a] = Absent \/ CommitBooking(a)
    /\ status[a] # Absent =>
         /\ status'[a] # Absent
         /\ status'[a] \in PendingStatuses => status'[a] = status[a]
    /\ deposit[a] # "NONE" =>
         /\ deposit'[a] # "NONE"
         /\ deposit'[a] = "PENDING" => deposit[a] = "PENDING"

LEMMA ProgressStep ==
  ASSUME TypeOK, TaskInv, BookingInv, DepositInv, StaffInv, JobInv, [Next]_vars
  PROVE  Progress
<1> USE DEF TypeOK, Progress
<1>1. ASSUME NEW p \in Submits, CommitBooking(p) PROVE Progress
  <2>1. status[p] = Absent /\ deposit[p] = "NONE"
    BY <1>1 DEF CommitBooking, BookingInv, DepositInv
  <2> QED
    BY <1>1, <2>1 DEF CommitBooking
<1>2. ASSUME NEW u \in Staff, Apply(u) PROVE Progress
  <2>1. task[u].op \in Ops /\ task[u].appt \in Submits /\ status[task[u].appt] # Absent
    BY <1>2 DEF Apply, TaskInv, StaffInv
  <2> QED
    BY <1>2, <2>1, ToDecides DEF Apply
<1>3. CASE ExpireOne
  <2>1. task[Job].appt \in Submits /\ status[task[Job].appt] # Absent
    BY <1>3 DEF ExpireOne, JobInv, TaskInv
  <2> QED
    BY <1>3, <2>1 DEF ExpireOne, PendingStatuses, Absent
<1>4. CASE UNCHANGED <<status, deposit>>
  BY <1>4
<1> QED
  BY <1>1, <1>2, <1>3, <1>4, TablesFrame

LEMMA BookingStep ==
  ASSUME TypeOK, BookingInv, Progress, [Next]_vars
  PROVE  BookingInv'
<1> DEFINE Good(p) ==
      /\ pc[p] \in {"idle", "read", "lock", "insert"} => status[p] = Absent
      /\ pc[p] \in {"lock", "insert", "publish"} => plan[p].status \in InitialStatuses
      /\ pc[p] = "publish" =>
           /\ status[p] # Absent
           /\ plan[p].status = "CONFIRMED" => status[p] \notin PendingStatuses
      /\ failure[p] \in Errors => pc[p] = "done" /\ status[p] = Absent
<1> SUFFICES ASSUME NEW p \in Submits, Good(p) PROVE Good(p)'
  BY DEF BookingInv
<1> USE NamesAssumption DEF TypeOK, Goto, Processes, Workers
<1>1. CASE Booker(p)
  <2>1. CASE Submit(p)
    BY <2>1 DEF Submit, tables
  <2>2. CASE ReadTenant(p)
    BY <2>2 DEF ReadTenant, EndBooking, Fail, NoPlan, tables
  <2>3. CASE LockResource(p)
    BY <2>3 DEF LockResource, EndBooking, Fail, NoPlan, tables
  <2>4. CASE RollBackInsert(p)
    BY <2>4 DEF RollBackInsert, EndBooking, Fail, NoPlan, tables
  <2>5. CASE CommitBooking(p)
    BY <2>5 DEF CommitBooking, InitialStatuses, PendingStatuses, Absent
  <2>6. CASE PublishBooking(p)
    BY <2>6 DEF PublishBooking, PublishAll, EndBooking, NoPlan, tables
  <2> QED
    BY <1>1, <2>1, <2>2, <2>3, <2>4, <2>5, <2>6 DEF Booker
<1>2. CASE Crash
  <2>1. failure'[p] = IF pc[p] \in {"idle", "done"} THEN failure[p] ELSE "crash"
    BY <1>2 DEF Crash, InFlight
  <2>2. pc'[p] = IF pc[p] \in {"idle", "done"} THEN pc[p] ELSE "done"
    BY <1>2 DEF Crash, InFlight
  <2>3. status' = status
    BY <1>2 DEF Crash, tables
  <2> QED
    BY <2>1, <2>2, <2>3 DEF Errors
<1>3. CASE /\ ~Booker(p)
           /\ pc'[p] = pc[p] /\ plan'[p] = plan[p]
           /\ failure'[p] = failure[p] /\ result'[p] = result[p]
  <2>1. status[p] = Absent => status'[p] = Absent
    BY <1>3 DEF Progress, Booker
  <2>2. status[p] # Absent =>
          /\ status'[p] # Absent
          /\ status'[p] \in PendingStatuses => status'[p] = status[p]
    BY DEF Progress
  <2> QED
    BY <1>3, <2>1, <2>2
<1> QED
  BY <1>1, <1>2, <1>3, BookerFrame

LEMMA DepositStep ==
  ASSUME TypeOK, TaskInv, BookingInv, DepositInv, StaffInv, JobInv, [Next]_vars
  PROVE  DepositInv'
<1> USE DEF TypeOK, DepositInv
<1>1. ASSUME NEW p \in Submits, CommitBooking(p) PROVE DepositInv'
  <2>1. plan[p].status # Absent
    BY <1>1 DEF CommitBooking, BookingInv, InitialStatuses, Absent
  <2> QED
    BY <1>1, <2>1 DEF CommitBooking
<1>2. ASSUME NEW u \in Staff, Apply(u) PROVE DepositInv'
  <2>1. task[u].op \in Ops /\ task[u].appt \in Submits
    BY <1>2 DEF Apply, TaskInv
  <2> QED
    BY <1>2, <2>1, ToDecides DEF Apply
<1>3. CASE ExpireOne
  <2>1. task[Job].appt \in Submits /\ status[task[Job].appt] # Absent
    BY <1>3 DEF ExpireOne, JobInv, TaskInv
  <2> QED
    BY <1>3, <2>1 DEF ExpireOne, Absent
<1>4. CASE UNCHANGED <<status, deposit>>
  BY <1>4
<1> QED
  BY <1>1, <1>2, <1>3, <1>4, TablesFrame

LEMMA PendingDepositStep ==
  ASSUME TypeOK, TaskInv, JobInv, PendingDepositBacked, [Next]_vars
  PROVE  PendingDepositBacked'
<1> USE DEF TypeOK, PendingDepositBacked
<1>1. ASSUME NEW p \in Submits, CommitBooking(p) PROVE PendingDepositBacked'
  BY <1>1 DEF CommitBooking
<1>2. ASSUME NEW u \in Staff, Apply(u) PROVE PendingDepositBacked'
  <2>1. task[u].op \in Ops /\ task[u].appt \in Submits
    BY <1>2 DEF Apply, TaskInv
  <2>2. To(task[u].op) # "PENDING_DEPOSIT"
    BY <2>1, ToDecides DEF PendingStatuses
  <2> QED
    BY <1>2, <2>1, <2>2 DEF Apply
<1>3. CASE ExpireOne
  <2> DEFINE t == task[Job]
  <2>1. t.appt \in Submits
    BY <1>3 DEF ExpireOne, JobInv, TaskInv
  <2>2. status[t.appt] = "PENDING_DEPOSIT" => t.seen = "PENDING_DEPOSIT"
    BY <1>3 DEF ExpireOne, JobInv, PendingStatuses
  <2>3. status'[t.appt] # "PENDING_DEPOSIT"
    BY <1>3, <2>1, <2>2 DEF ExpireOne
  <2> QED
    BY <1>3, <2>1, <2>3 DEF ExpireOne
<1>4. CASE UNCHANGED <<status, deposit>>
  BY <1>4
<1> QED
  BY <1>1, <1>2, <1>3, <1>4, TablesFrame

(* An answered request keeps its answer, which stays in the table.         *)
LEMMA AnswerStep ==
  ASSUME TypeOK, BookingInv, AnswerInv, Progress, [Next]_vars
  PROVE  AnswerInv'
<1> DEFINE Good(p) ==
      result[p] # NoOne =>
        /\ status[result[p]] # Absent
        /\ result[p] = p \/ (claim[p].key # NoKey /\ claim[result[p]].key = claim[p].key)
<1> SUFFICES ASSUME NEW p \in Submits, Good(p) PROVE Good(p)'
  BY DEF AnswerInv
<1>1. claim' = claim
  BY TablesFrame
<1>2. \A a \in Submits : status[a] # Absent => status'[a] # Absent
  BY DEF Progress
<1>3. CASE result'[p] = result[p]
  BY <1>1, <1>2, <1>3 DEF TypeOK
<1>4. CASE result'[p] = NoOne
  BY <1>4
<1>5. CASE result'[p] \in KeyHolders(p)
  BY <1>1, <1>2, <1>5 DEF KeyHolders
<1>6. CASE result'[p] = p /\ status'[p] # Absent
  BY <1>6
<1>7. ASSUME Booker(p)
      PROVE  \/ result'[p] = result[p]
             \/ result'[p] \in KeyHolders(p)
             \/ result'[p] = p /\ status'[p] # Absent
  <2> USE DEF TypeOK, Answer
  <2>1. CASE Submit(p)
    BY <2>1 DEF Submit
  <2>2. CASE RollBackInsert(p)
    BY <2>2 DEF RollBackInsert
  <2>3. CASE CommitBooking(p)
    BY <2>3 DEF CommitBooking, BookingInv, InitialStatuses, Absent
  <2>4. CASE ReadTenant(p) \/ LockResource(p) \/ PublishBooking(p)
    BY <2>4 DEF ReadTenant, LockResource, PublishBooking, PublishAll
  <2> QED
    BY <1>7, <2>1, <2>2, <2>3, <2>4 DEF Booker
<1>8. ASSUME Crash PROVE result'[p] = result[p] \/ result'[p] = NoOne
  BY <1>8 DEF Crash
<1> QED
  BY <1>3, <1>4, <1>5, <1>6, <1>7, <1>8, BookerFrame

(* What a staff request aims at stays there, and decided once it has been. *)
LEMMA StaffStep ==
  ASSUME TypeOK, TaskInv, DepositInv, StaffInv, Progress, [Next]_vars
  PROVE  StaffInv'
<1> DEFINE Good(u) ==
      /\ pc[u] \in {"fetch", "apply", "publish"} =>
           /\ status[task[u].appt] # Absent
           /\ task[u].op \in Resolutions => deposit[task[u].appt] # "NONE"
      /\ pc[u] = "publish" =>
           /\ status[task[u].appt] \notin PendingStatuses
           /\ task[u].op \in Resolutions =>
                deposit[task[u].appt] \notin {"NONE", "PENDING"}
<1> SUFFICES ASSUME NEW u \in Staff, Good(u) PROVE Good(u)'
  BY DEF StaffInv
<1> USE NamesAssumption DEF TypeOK, Goto, Processes, Workers
<1>1. CASE StaffMember(u)
  <2>1. CASE FetchAppointment(u)
    <3>1. \A op \in Mutations : op \notin Resolutions
      BY DEF Mutations, Resolutions
    <3> QED
      BY <2>1, <3>1 DEF FetchAppointment, tables
  <2>2. CASE FetchDeposit(u)
    BY <2>2 DEF FetchDeposit, tables, DepositInv
  <2>3. CASE FetchAppointmentOfDeposit(u)
    BY <2>3 DEF FetchAppointmentOfDeposit, tables
  <2>4. CASE Refuse(u)
    BY <2>4 DEF Refuse, EndTask, tables
  <2>5. CASE Apply(u)
    <3>1. task[u].op \in Ops /\ task[u].appt \in Submits
      BY <2>5 DEF Apply, TaskInv
    <3>2. task' = task /\ pc'[u] = "publish"
      BY <2>5 DEF Apply, locals
    <3>3. status'[task[u].appt] = To(task[u].op)
      BY <2>5, <3>1 DEF Apply
    <3>4. task[u].op \in Resolutions => deposit'[task[u].appt] = DepositTo(task[u].op)
      BY <2>5, <3>1 DEF Apply
    <3>5. task[u].op \notin Resolutions => deposit' = deposit
      BY <2>5 DEF Apply
    <3> QED
      BY <3>1, <3>2, <3>3, <3>4, <3>5, ToDecides
  <2>6. CASE PublishChange(u)
    BY <2>6 DEF PublishChange, PublishAll, EndTask, tables
  <2> QED
    BY <1>1, <2>1, <2>2, <2>3, <2>4, <2>5, <2>6 DEF StaffMember
<1>2. CASE Crash
  BY <1>2 DEF Crash, InFlight
<1>3. CASE pc'[u] = pc[u] /\ task'[u] = task[u]
  <2>1. CASE pc[u] \in {"fetch", "apply", "publish"}
    <3>1. task[u].appt \in Submits
      BY <2>1 DEF TaskInv
    <3> QED
      BY <1>3, <2>1, <3>1 DEF Progress
  <2>2. CASE pc[u] \notin {"fetch", "apply", "publish"}
    BY <1>3, <2>2
  <2> QED
    BY <2>1, <2>2
<1> QED
  BY <1>1, <1>2, <1>3, StaffFrame

(* What the job read of an appointment is outdated in one direction only.  *)
LEMMA JobStep ==
  ASSUME TypeOK, TaskInv, DepositInv, JobInv, Progress, [Next]_vars
  PROVE  JobInv'
<1> USE NamesAssumption DEF TypeOK, Goto, Processes, Workers
<1>1. CASE ListExpired
  <2>1. \A a \in batch' : a \in Submits /\ deposit[a] = "PENDING"
    BY <1>1 DEF ListExpired, Stale
  <2> QED
    BY <1>1, <2>1 DEF ListExpired, JobInv, DepositInv, tables
<1>2. CASE FetchNext
  BY <1>2 DEF FetchNext, JobInv, tables
<1>3. CASE ExpireOne
  <2> DEFINE t == task[Job]
  <2>1. t.appt \in Submits /\ status[t.appt] # Absent
    BY <1>3 DEF ExpireOne, JobInv, TaskInv
  <2>2. task' = task /\ batch' = batch /\ pc'[Job] = "publish"
    BY <1>3 DEF ExpireOne, locals
  <2>3. deposit'[t.appt] = "EXPIRED"
    BY <1>3, <2>1 DEF ExpireOne
  <2>4. t.seen = "PENDING_DEPOSIT" => status'[t.appt] = "CANCELLED"
    BY <1>3, <2>1 DEF ExpireOne
  <2>5. \A a \in batch : status'[a] # Absent /\ deposit'[a] # "NONE"
    BY DEF Progress, JobInv
  <2> QED
    BY <2>1, <2>2, <2>3, <2>4, <2>5 DEF JobInv, PendingStatuses, Progress
<1>4. CASE PublishExpiry
  BY <1>4 DEF PublishExpiry, PublishAll, JobInv, tables
<1>5. CASE Crash
  BY <1>5 DEF Crash, JobInv
<1>6. CASE pc'[Job] = pc[Job] /\ task'[Job] = task[Job] /\ batch' = batch
  <2>1. \A a \in batch : status'[a] # Absent /\ deposit'[a] # "NONE"
    BY DEF Progress, JobInv
  <2>2. CASE pc[Job] \in {"expire", "publish"}
    BY <1>6, <2>1, <2>2 DEF JobInv, TaskInv, Progress
  <2>3. CASE pc[Job] \notin {"expire", "publish"}
    BY <1>6, <2>1, <2>3 DEF JobInv
  <2> QED
    BY <2>2, <2>3
<1> QED
  BY <1>1, <1>2, <1>3, <1>4, <1>5, <1>6, JobFrame DEF Expirer

(* The row lock excludes other bookings and administrators.                *)
LEMMA LockStep ==
  ASSUME TypeOK, LockProtectsInsert, [Next]_vars
  PROVE  LockProtectsInsert'
<1> SUFFICES ASSUME NEW p \in Submits, pc'[p] = "insert"
             PROVE  lock'[claim'[p].resource] = p /\ active'[claim'[p].resource]
  BY DEF LockProtectsInsert
<1> USE NamesAssumption DEF TypeOK, Goto, Processes, Workers
<1> DEFINE r == claim[p].resource
<1>1. claim' = claim /\ r \in Resources
  BY TablesFrame, SlotsAssumption
<1>2. CASE Booker(p)
  <2>1. LockResource(p)
    BY <1>2 DEF Booker, Submit, ReadTenant, RollBackInsert, CommitBooking, PublishBooking,
       EndBooking
  <2>2. lock' = [lock EXCEPT ![r] = p] /\ active[r] /\ active' = active
    BY <2>1 DEF LockResource, EndBooking, setup
  <2> QED
    BY <1>1, <2>2
<1>3. CASE Crash
  BY <1>3 DEF Crash, InFlight
<1>4. CASE pc'[p] = pc[p] /\ ~Booker(p) /\ ~Crash
  <2>1. pc[p] = "insert" /\ lock[r] = p /\ active[r]
    BY <1>4 DEF LockProtectsInsert
  <2>2. ASSUME NEW q \in Submits, q # p, Booker(q) PROVE lock'[r] = p /\ active'[r]
    <3>1. CASE LockResource(q)
      <4>1. active' = active /\ lock[claim[q].resource] = NoOne
        BY <3>1 DEF LockResource, setup
      <4>2. claim[q].resource # r
        BY <2>1, <4>1
      <4>3. lock' = lock \/ lock' = [lock EXCEPT ![claim[q].resource] = q]
        BY <3>1 DEF LockResource
      <4> QED
        BY <1>1, <2>1, <4>1, <4>2, <4>3
    <3>2. CASE RollBackInsert(q) \/ CommitBooking(q)
      <4>1. claim[q].resource # r
        BY <2>1, <2>2, <3>2 DEF RollBackInsert, CommitBooking, LockProtectsInsert
      <4>2. lock' = [lock EXCEPT ![claim[q].resource] = NoOne] /\ active' = active
        BY <3>2 DEF RollBackInsert, CommitBooking, Unlock, setup
      <4> QED
        BY <1>1, <2>1, <4>1, <4>2
    <3>3. CASE Submit(q) \/ ReadTenant(q) \/ PublishBooking(q)
      BY <2>1, <3>3 DEF Submit, ReadTenant, PublishBooking, PublishAll, setup
    <3> QED
      BY <2>2, <3>1, <3>2, <3>3 DEF Booker
  <2>3. ASSUME NEW u \in Staff, StaffMember(u) PROVE lock'[r] = p /\ active'[r]
    BY <2>1, <2>3 DEF StaffMember, FetchAppointment, FetchDeposit, FetchAppointmentOfDeposit,
       Refuse, Apply, PublishChange, PublishAll, setup
  <2>4. ASSUME Expirer PROVE lock'[r] = p /\ active'[r]
    BY <2>1, <2>4 DEF Expirer, ListExpired, FetchNext, ExpireOne, PublishExpiry, PublishAll, setup
  <2>5. ASSUME NEW o \in Admins, Admin(o) PROVE lock'[r] = p /\ active'[r]
    <3>1. CASE SaveResource(o)
      BY <1>1, <2>1, <3>1 DEF SaveResource
    <3>2. CASE FetchResource(o) \/ CreateBlockedTime(o) \/ DeleteBlockedTime(o)
      BY <2>1, <3>2 DEF FetchResource, CreateBlockedTime, DeleteBlockedTime, setup
    <3> QED
      BY <2>5, <3>1, <3>2 DEF Admin
  <2>6. ASSUME NEW a \in Submits, TtlElapses(a) PROVE lock'[r] = p /\ active'[r]
    BY <2>1, <2>6 DEF TtlElapses, setup
  <2>7. ASSUME UNCHANGED vars PROVE lock'[r] = p /\ active'[r]
    BY <2>1, <2>7 DEF vars, setup
  <2> QED
    BY <1>1, <1>4, <2>2, <2>3, <2>4, <2>5, <2>6, <2>7 DEF Next
<1> QED
  BY <1>2, <1>3, <1>4, BookerFrame

(* One write of appointments.status at a time, and none that the exclusion *)
(* constraint refuses.                                                     *)
LEMMA StatusFrame ==
  ASSUME TypeOK, TaskInv, BookingInv, JobInv, [Next]_vars
  PROVE  \/ status' = status
         \/ \E a \in Submits, st \in Statuses :
              status' = [status EXCEPT ![a] = st] /\ ~ExclusionViolated(a, st)
<1>1. ASSUME NEW p \in Submits, CommitBooking(p)
      PROVE  \E st \in Statuses :
               status' = [status EXCEPT ![p] = st] /\ ~ExclusionViolated(p, st)
  <2>1. plan[p].status \in Statuses
    BY <1>1 DEF CommitBooking, BookingInv, InitialStatuses, Statuses, Blocking
  <2> QED
    BY <1>1, <2>1 DEF CommitBooking, InsertErrors
<1>2. ASSUME NEW u \in Staff, Apply(u)
      PROVE  \E a \in Submits, st \in Statuses :
               status' = [status EXCEPT ![a] = st] /\ ~ExclusionViolated(a, st)
  <2>1. task[u].op \in Ops /\ task[u].appt \in Submits
    BY <1>2 DEF Apply, TaskInv
  <2> QED
    BY <1>2, <2>1, ToDecides DEF Apply
<1>3. ASSUME ExpireOne
      PROVE  \/ status' = status
             \/ \E a \in Submits, st \in Statuses :
                  status' = [status EXCEPT ![a] = st] /\ ~ExclusionViolated(a, st)
  <2>1. task[Job].appt \in Submits
    BY <1>3 DEF ExpireOne, JobInv, TaskInv
  <2>2. "CANCELLED" \in Statuses /\ ~ExclusionViolated(task[Job].appt, "CANCELLED")
    BY DEF ExclusionViolated, Blocking, Statuses
  <2> QED
    BY <1>3, <2>1, <2>2 DEF ExpireOne
<1> QED
  BY <1>1, <1>2, <1>3, TablesFrame

LEMMA ClashSymmetric ==
  ASSUME TypeOK, NEW a \in Submits, NEW b \in Submits
  PROVE  Clash(a, b) <=> Clash(b, a)
<1>1. \A x \in Submits : claim[x].slot \in [start : Int, end : Int]
  BY SlotsAssumption DEF TypeOK, IsInterval
<1> QED
  BY <1>1 DEF Clash, Overlaps

LEMMA NoDoubleBookingStep ==
  ASSUME TypeOK, TaskInv, BookingInv, JobInv, NoDoubleBooking, [Next]_vars
  PROVE  NoDoubleBooking'
<1>1. claim' = claim
  BY TablesFrame
<1>2. CASE status' = status
  BY <1>1, <1>2 DEF NoDoubleBooking, Clash
<1>3. ASSUME NEW c \in Submits, NEW st \in Statuses,
             status' = [status EXCEPT ![c] = st], ~ExclusionViolated(c, st)
      PROVE  NoDoubleBooking'
  <2> SUFFICES ASSUME NEW a \in Submits, NEW b \in Submits, a # b,
                      status'[a] \in Blocking, status'[b] \in Blocking
               PROVE  ~Clash(a, b)
    BY <1>1 DEF NoDoubleBooking, Clash
  <2>1. CASE a = c
    BY <1>3, <2>1 DEF TypeOK, ExclusionViolated
  <2>2. CASE b = c
    BY <1>3, <2>2, ClashSymmetric DEF TypeOK, ExclusionViolated
  <2>3. CASE a # c /\ b # c
    BY <1>3, <2>3 DEF TypeOK, NoDoubleBooking
  <2> QED
    BY <2>1, <2>2, <2>3
<1> QED
  BY <1>2, <1>3, StatusFrame

(* The unique index decides at the insert, whatever the lookup had found.  *)
LEMMA OneKeyStep ==
  ASSUME TypeOK, OneAppointmentPerKey, Progress, [Next]_vars
  PROVE  OneAppointmentPerKey'
<1>1. claim' = claim
  BY TablesFrame
<1>2. ASSUME NEW p \in Submits, CommitBooking(p) PROVE OneAppointmentPerKey'
  <2>1. KeyHolders(p) = {}
    BY <1>2 DEF CommitBooking, InsertErrors
  <2>2. \A a \in Submits : a # p => status'[a] = status[a]
    BY <1>2 DEF CommitBooking, TypeOK
  <2>3. \A a \in Submits : status[a] # Absent /\ claim[a].key = claim[p].key => claim[p].key = NoKey
    BY <2>1 DEF KeyHolders
  <2> QED
    BY <1>1, <2>2, <2>3 DEF OneAppointmentPerKey
<1>3. CASE \A p \in Submits : ~CommitBooking(p)
  BY <1>1, <1>3 DEF OneAppointmentPerKey, Progress
<1> QED
  BY <1>2, <1>3

(* What is published was committed in an earlier step, exists ever after   *)
(* and, if it was a decision, is never pending again.                      *)
LEMMA AnnouncedStep ==
  ASSUME TypeOK, TaskInv, BookingInv, StaffInv, JobInv, AnnouncedIsCommitted,
         Progress, [Next]_vars
  PROVE  AnnouncedIsCommitted'
<1> DEFINE Sound(e, a) ==
      /\ status[a] # Absent
      /\ e \notin {"AppointmentCreated", "DepositRequested", "DepositExpired"}
           => status[a] \notin PendingStatuses
      /\ e \in {"DepositConfirmed", "DepositRejected", "DepositExpired"}
           => deposit[a] \notin {"NONE", "PENDING"}
<1> SUFFICES ASSUME NEW e \in Events, NEW a \in Submits, <<e, a>> \in published'
             PROVE  Sound(e, a)'
  <2>1. published' \subseteq Events \X Submits
    BY TypeStep DEF TypeOK
  <2> QED
    BY <2>1 DEF AnnouncedIsCommitted
<1>1. ASSUME Sound(e, a) PROVE Sound(e, a)'
  BY <1>1 DEF Progress
<1>2. ASSUME <<e, a>> \in published PROVE Sound(e, a)
  BY <1>2 DEF AnnouncedIsCommitted
<1>3. ASSUME NEW p \in Submits, PublishBooking(p), <<e, a>> \notin published PROVE Sound(e, a)
  <2>1. a = p /\ e \in EventsOfCreate(plan[p].status)
    BY <1>3 DEF PublishBooking, PublishAll
  <2> QED
    BY <1>3, <2>1 DEF PublishBooking, BookingInv, EventsOfCreate
<1>4. ASSUME NEW u \in Staff, PublishChange(u), <<e, a>> \notin published PROVE Sound(e, a)
  <2>1. a = task[u].appt /\ e \in EventsOfOp(task[u].op)
    BY <1>4 DEF PublishChange, PublishAll
  <2>2. status[a] # Absent /\ status[a] \notin PendingStatuses
    BY <1>4, <2>1 DEF PublishChange, StaffInv
  <2>3. e \in {"DepositConfirmed", "DepositRejected", "DepositExpired"}
          => task[u].op \in Resolutions
    BY <1>4, <2>1 DEF PublishChange, TaskInv, EventsOfOp, Ops, Mutations, Resolutions
  <2> QED
    BY <1>4, <2>1, <2>2, <2>3 DEF PublishChange, StaffInv
<1>5. ASSUME PublishExpiry, <<e, a>> \notin published PROVE Sound(e, a)
  <2>1. a = task[Job].appt /\ e \in EventsOfExpiry(task[Job].seen)
    BY <1>5 DEF PublishExpiry, PublishAll
  <2> QED
    BY <1>5, <2>1 DEF PublishExpiry, JobInv, EventsOfExpiry
<1>6. ASSUME published' # published
      PROVE  \/ \E p \in Submits : PublishBooking(p)
             \/ \E u \in Staff : PublishChange(u)
             \/ PublishExpiry
  <2>1. ASSUME NEW p \in Submits, Booker(p), ~PublishBooking(p) PROVE published' = published
    BY <2>1 DEF Booker, Submit, ReadTenant, LockResource, RollBackInsert, CommitBooking
  <2>2. ASSUME NEW u \in Staff, StaffMember(u), ~PublishChange(u) PROVE published' = published
    BY <2>2 DEF StaffMember, FetchAppointment, FetchDeposit, FetchAppointmentOfDeposit, Refuse,
       Apply
  <2>3. ASSUME Expirer, ~PublishExpiry PROVE published' = published
    BY <2>3 DEF Expirer, ListExpired, FetchNext, ExpireOne
  <2>4. ASSUME NEW o \in Admins, Admin(o) PROVE published' = published
    BY <2>4 DEF Admin, FetchResource, SaveResource, CreateBlockedTime, DeleteBlockedTime
  <2>5. ASSUME NEW b \in Submits, TtlElapses(b) PROVE published' = published
    BY <2>5 DEF TtlElapses
  <2>6. ASSUME Crash PROVE published' = published
    BY <2>6 DEF Crash
  <2>7. ASSUME UNCHANGED vars PROVE published' = published
    BY <2>7 DEF vars
  <2> QED
    BY <1>6, <2>1, <2>2, <2>3, <2>4, <2>5, <2>6, <2>7 DEF Next
<1> QED
  BY <1>1, <1>2, <1>3, <1>4, <1>5, <1>6
-----------------------------------------------------------------------------
LEMMA InvInit == Init => Inv
<1> SUFFICES ASSUME Init PROVE Inv
  OBVIOUS
<1> USE NamesAssumption, BoundsAssumption, SlotsAssumption
    DEF Init, TypeOK, Absent, Processes, Workers, NoPlan, NoTask, NoEdit
<1>1. TypeOK
  BY DEF DepositStatuses, PendingStatuses
<1>2. TaskInv /\ StaffInv /\ JobInv
  BY DEF TaskInv, StaffInv, JobInv
<1>3. BookingInv /\ AnswerInv /\ DepositInv
  BY DEF BookingInv, AnswerInv, DepositInv, Errors
<1>4. LockProtectsInsert /\ PendingDepositBacked /\ AnnouncedIsCommitted
  BY DEF LockProtectsInsert, PendingDepositBacked, AnnouncedIsCommitted
<1>5. NoDoubleBooking /\ OneAppointmentPerKey
  BY DEF NoDoubleBooking, OneAppointmentPerKey, Blocking
<1> QED
  BY <1>1, <1>2, <1>3, <1>4, <1>5 DEF Inv

LEMMA InvStep == Inv /\ [Next]_vars => Inv' /\ Progress
<1> SUFFICES ASSUME Inv, [Next]_vars PROVE Inv' /\ Progress
  OBVIOUS
<1>1. Progress
  BY ProgressStep DEF Inv
<1> QED
  BY <1>1, TypeStep, TaskStep, BookingStep, AnswerStep, DepositStep, StaffStep, JobStep, LockStep,
     NoDoubleBookingStep, OneKeyStep, PendingDepositStep, AnnouncedStep DEF Inv

(* The inductive invariant: every property below follows from it.          *)
THEOREM Invariance == Spec => []Inv
<1>1. QED
  BY InvInit, InvStep, PTL DEF Spec

(* Every reachable state is well typed.                                    *)
THEOREM TypeCorrect == Spec => []TypeOK
<1>1. Inv => TypeOK
  BY DEF Inv
<1> QED
  BY <1>1, Invariance, PTL

(* No interleaving of requests, staff, job and administrators, nor any     *)
(* crash, lets two appointments hold one instant of a resource.            *)
THEOREM BookingSafe == Spec => []NoDoubleBooking
<1>1. Inv => NoDoubleBooking
  BY DEF Inv
<1> QED
  BY <1>1, Invariance, PTL

(* A held slot never waits for a deposit that no longer does.              *)
THEOREM DepositSafe == Spec => []PendingDepositBacked
<1>1. Inv => PendingDepositBacked
  BY DEF Inv
<1> QED
  BY <1>1, Invariance, PTL

(* One appointment per idempotency key, however the submits race.          *)
THEOREM KeySafe == Spec => []OneAppointmentPerKey
<1>1. Inv => OneAppointmentPerKey
  BY DEF Inv
<1> QED
  BY <1>1, Invariance, PTL

(* Submits that share a key are answered with one appointment.             *)
THEOREM AnswersAgree == Spec => []ReplayAgreement
<1>1. Inv => ReplayAgreement
  <2> SUFFICES ASSUME Inv, NEW p \in Submits, NEW q \in Submits, result[p] # NoOne
               PROVE  /\ status[result[p]] # Absent
                      /\ result[q] # NoOne /\ claim[p].key = claim[q].key
                           => p = q \/ claim[p].key = NoKey \/ result[p] = result[q]
    BY DEF ReplayAgreement
  <2>1. \A s \in Submits : result[s] # NoOne =>
          /\ result[s] \in Submits /\ status[result[s]] # Absent
          /\ claim[result[s]].key = claim[s].key
    BY DEF Inv, AnswerInv, TypeOK
  <2> QED
    BY <2>1 DEF Inv, OneAppointmentPerKey
<1> QED
  BY <1>1, Invariance, PTL

(* Between its overlap check and its commit a booking owns its resource.   *)
THEOREM InsertIsProtected == Spec => []LockProtectsInsert
<1>1. Inv => LockProtectsInsert
  BY DEF Inv
<1> QED
  BY <1>1, Invariance, PTL

(* A refused request leaves nothing behind.                                *)
THEOREM RefusalIsClean == Spec => []RefusalLeavesNothing
<1>1. Inv => RefusalLeavesNothing
  BY DEF Inv, BookingInv, DepositInv, RefusalLeavesNothing
<1> QED
  BY <1>1, Invariance, PTL

(* What subscribers were told of exists, and what they were told has been  *)
(* decided is not pending.                                                 *)
THEOREM AnnouncementsHold == Spec => []AnnouncedIsCommitted
<1>1. Inv => AnnouncedIsCommitted
  BY DEF Inv
<1> QED
  BY <1>1, Invariance, PTL

(* Stale writes can move a decided appointment to another decision, never  *)
(* back to a queue.                                                        *)
THEOREM DecisionsHold == Spec => DecisionsAreFinal
<1>1. Inv /\ [Next]_vars =>
        [\A a \in Submits :
           status[a] # Absent =>
             /\ status'[a] # Absent
             /\ status'[a] \in PendingStatuses => status'[a] = status[a]]_vars
  BY InvStep DEF Progress
<1> QED
  BY <1>1, Invariance, PTL DEF Spec, DecisionsAreFinal
-----------------------------------------------------------------------------
(* Refinement.                                                             *)

LEMMA LedgerStep == Inv /\ [Next]_vars => [Ledger!Next]_<<claim, {a \in Submits : status[a] \in Blocking}>>
<1> SUFFICES ASSUME Inv, [Next]_vars
             PROVE  [Ledger!Next]_<<claim, {a \in Submits : status[a] \in Blocking}>>
  OBVIOUS
<1> DEFINE held == {a \in Submits : status[a] \in Blocking}
<1>1. claim' = claim
  BY TablesFrame
<1>2. ASSUME NEW a \in Submits, NEW st \in Statuses,
             status' = [status EXCEPT ![a] = st], ~ExclusionViolated(a, st)
      PROVE  held' = held \/ Ledger!Take(a) \/ Ledger!Release(a)
  <2>1. \A b \in Submits : status'[b] = IF b = a THEN st ELSE status[b]
    BY <1>2 DEF Inv, TypeOK
  <2>2. CASE st \in Blocking /\ a \in held
    BY <2>1, <2>2
  <2>3. CASE st \in Blocking /\ a \notin held
    <3>1. held' = held \union {a}
      BY <2>1, <2>3
    <3>2. \A b \in held : ~Clash(b, a)
      BY <1>2, <2>3, ClashSymmetric DEF Inv, ExclusionViolated
    <3> QED
      BY <1>1, <2>3, <3>1, <3>2 DEF Ledger!Take, Ledger!Clash, Ledger!Overlaps, Clash, Overlaps
  <2>4. CASE st \notin Blocking /\ a \in held
    <3>1. held' = held \ {a}
      BY <2>1, <2>4
    <3> QED
      BY <1>1, <2>4, <3>1 DEF Ledger!Release
  <2>5. CASE st \notin Blocking /\ a \notin held
    BY <2>1, <2>5
  <2> QED
    BY <2>2, <2>3, <2>4, <2>5
<1>3. CASE status' = status
  BY <1>1, <1>3
<1> QED
  BY <1>1, <1>2, <1>3, StatusFrame DEF Inv, Ledger!Next

(* The module implements the abstract ledger of held slots.                *)
THEOREM Refinement == Spec => ImplementsLedger
<1>1. Init => Ledger!Init
  BY DEF Init, Ledger!Init, Blocking, Absent
<1> QED
  BY <1>1, LedgerStep, Invariance, PTL DEF Spec, ImplementsLedger, Ledger!Spec
=============================================================================
