------------------------ MODULE Notifications_proofs ------------------------
(***************************************************************************)
(* Who is told what, proved for any appointments, any staff, any devices   *)
(* and any number of requests and runs: one reminder, whatever fails or    *)
(* dies; every event to everyone that it is for; the right last word.      *)
(*                                                                         *)
(* TypeInv and RemindersInv are inductive together, since a run counts     *)
(* those at work beside it; NoticesInv and Told on top of them, and        *)
(* ScreenInv on top of those.                                              *)
(***************************************************************************)
EXTENDS Notifications, TLAPS, FiniteSetTheorems, SequenceTheorems

Notices == Types \X Appointments

(* Head and tail, and what is in each.                                     *)
LEMMA HeadAndTail ==
  ASSUME NEW S, NEW q \in Seq(S), q # << >>
  PROVE  /\ Head(q) \in S /\ Tail(q) \in Seq(S)
         /\ Range(q) \subseteq S
         /\ Head(q) \in Range(q) /\ Range(Tail(q)) \subseteq Range(q)
         /\ \A e \in Range(q) : e = Head(q) \/ e \in Range(Tail(q))
<1>1. /\ Head(q) \in S /\ Tail(q) \in Seq(S)
      /\ Len(Tail(q)) = Len(q) - 1
      /\ \A i \in 1 .. Len(Tail(q)) : Tail(q)[i] = q[i+1]
  BY HeadTailProperties
<1>2. /\ Len(q) \in Nat \ {0} /\ DOMAIN q = 1 .. Len(q)
      /\ DOMAIN Tail(q) = 1 .. Len(Tail(q))
  BY <1>1, LenProperties, EmptySeq
<1>3. Head(q) = q[1]
  OBVIOUS
<1>4. Range(q) \subseteq S
  BY RangeOfSeq
<1>5. Head(q) \in Range(q)
  BY <1>2, <1>3 DEF Range
<1>6. Range(Tail(q)) \subseteq Range(q)
  BY <1>1, <1>2 DEF Range
<1>7. ASSUME NEW e \in Range(q), e # Head(q)
      PROVE  e \in Range(Tail(q))
  <2>1. PICK i \in 1 .. Len(q) : q[i] = e
    BY <1>2 DEF Range
  <2>2. i # 1
    BY <2>1, <1>3, <1>7
  <2>3. i - 1 \in 1 .. Len(Tail(q)) /\ Tail(q)[i - 1] = e
    BY <2>1, <2>2, <1>1, <1>2
  <2> QED BY <2>3, <1>2 DEF Range
<1> QED BY <1>1, <1>4, <1>5, <1>6, <1>7

(* What is longer than one has a tail, and what is not has none.           *)
LEMMA OneOrMore ==
  \A n \in Nat \ {0} : \/ n = 1 /\ ~(n > 1)
                       \/ n > 1 /\ n # 1 /\ n - 1 # 0
OBVIOUS
LEMMA LongerTail ==
  ASSUME NEW S, NEW q \in Seq(S), q # << >>
  PROVE  \/ Len(q) = 1 /\ ~(Len(q) > 1)
         \/ Len(q) > 1 /\ Len(q) # 1 /\ Tail(q) # << >>
<1>1. Len(q) \in Nat \ {0} /\ Len(Tail(q)) = Len(q) - 1
  BY EmptySeq, HeadTailProperties
<1>2. Len(<< >>) = 0
  BY EmptySeq
<1>3. \/ Len(q) = 1 /\ ~(Len(q) > 1)
      \/ Len(q) > 1 /\ Len(q) # 1 /\ Len(q) - 1 # 0
  BY <1>1, OneOrMore, Zenon
<1> QED BY <1>1, <1>2, <1>3, Zenon


(* An order of a finite set has its members and no other.                  *)
LEMMA OrderOfSet ==
  ASSUME NEW S, IsFiniteSet(S), NEW q \in SetToSeqs(S)
  PROVE  q \in Seq(S) /\ Range(q) = S
<1> DEFINE n == Cardinality(S)
<1>1. n \in Nat
  BY FS_CardinalityType
<1>2. q \in [1 .. n -> S] /\ \A i, j \in 1 .. n : i # j => q[i] # q[j]
  BY DEF SetToSeqs
<1>3. q \in Seq(S)
  BY <1>1, <1>2
<1>4. q \in Injection(1 .. n, S)
  BY <1>2 DEF Injection, IsInjective
<1>5. Cardinality(1 .. n) = n
  BY <1>1, FS_Interval
<1>6. q \in Surjection(1 .. n, S)
  BY <1>4, <1>5, FS_Injection
<1>7. Range(q) = S
  BY <1>6, <1>2 DEF Surjection, Range
<1> QED BY <1>3, <1>7

(* Finitely many people are told of an event.                              *)
LEMMA AudienceType ==
  ASSUME NotificationsAssumption, NEW e
  PROVE  Audience(e) \subseteq Recipients /\ IsFiniteSet(Audience(e))
<1>1. IsFiniteSet({Client})
  BY FS_Singleton
<1>2. IsFiniteSet(Recipients)
  BY <1>1, FS_Union DEF Recipients, NotificationsAssumption
<1>3. Audience(e) \subseteq Recipients
  BY DEF Audience, Recipients
<1> QED BY <1>2, <1>3, FS_Subset

(* The recipients of a notice, the client at their head.                   *)
LEMMA OrderType ==
  ASSUME NotificationsAssumption, NEW e, NEW q \in Order(Audience(e))
  PROVE  /\ q \in Seq(Recipients) /\ (q = << >> <=> Audience(e) = {})
         /\ Range(q) = Audience(e)
         /\ Client \in Audience(e) => Head(q) = Client
<1>1. q \in Seq(Audience(e)) /\ Range(q) = Audience(e)
  BY AudienceType, OrderOfSet DEF Order
<1>2. q \in Seq(Recipients)
  BY <1>1, AudienceType, SeqMonotonic
<1>3. q = << >> <=> Audience(e) = {}
  <2>1. Range(<< >>) = {}
    BY DEF Range
  <2>2. q # << >> => Head(q) \in Range(q)
    BY <1>1, HeadAndTail
  <2> QED BY <1>1, <2>1, <2>2
<1>4. Client \in Audience(e) => Head(q) = Client
  BY DEF Order
<1> QED BY <1>1, <1>2, <1>3, <1>4

(* A batch of a run: some of the appointments that it has read.            *)
LEMMA BatchType ==
  ASSUME NotificationsAssumption, NEW S, S \subseteq Appointments, NEW q \in Batches(S)
  PROVE  q \in Seq(S)
<1>1. IsFiniteSet(S)
  BY FS_Subset DEF NotificationsAssumption
<1>2. PICK r \in SetToSeqs(S) : q = SubSeq(r, 1, Smaller(Len(r), BATCH_SIZE))
  BY DEF Batches
<1>3. r \in Seq(S)
  BY <1>1, OrderOfSet
<1>4. Len(r) \in Nat /\ \A i \in 1 .. Len(r) : r[i] \in S
  BY <1>3, LenProperties
<1>5. Smaller(Len(r), BATCH_SIZE) \in Int /\ Smaller(Len(r), BATCH_SIZE) <= Len(r)
  BY <1>4 DEF Smaller, NotificationsAssumption
<1>6. \A i \in 1 .. Smaller(Len(r), BATCH_SIZE) : r[i] \in S
  BY <1>4, <1>5
<1> QED BY <1>2, <1>5, <1>6, SubSeqProperties

(* One notice for each of a batch, and for each event of a decision.       *)
LEMMA BatchNotices ==
  ASSUME NEW S, S \subseteq Appointments, NEW q \in Seq(S),
         NEW r, r = [i \in DOMAIN q |-> <<Reminder, q[i]>>]
  PROVE  /\ r \in Seq(Notices)
         /\ \A e \in Range(r) : e[1] = Reminder /\ e[2] \in S
<1>1. DOMAIN q = 1 .. Len(q) /\ Len(q) \in Nat /\ \A i \in 1 .. Len(q) : q[i] \in S
  BY LenProperties
<1>2. r \in [1 .. Len(q) -> Notices]
  BY <1>1 DEF Notices, Types
<1>3. r \in Seq(Notices)
  BY <1>1, <1>2
<1> QED BY <1>1, <1>3 DEF Range

(* And one for each event of a decision.                                   *)
LEMMA DecisionNotices ==
  ASSUME NEW d \in Decisions, NEW a \in Appointments,
         NEW r, r = [i \in DOMAIN d.events |-> <<PullEvents(d)[i], a>>]
  PROVE  /\ r \in Seq(Notices)
         /\ Range(r) \subseteq {<<e, a>> : e \in Range(d.events)}
         /\ {<<e, a>> : e \in Range(d.events)} \subseteq Notices \intersect Range(r)
         /\ \A e \in Range(r) : e[1] # Reminder
<1>1. DOMAIN r = DOMAIN d.events /\ \A i \in DOMAIN r : r[i] = <<d.events[i], a>>
  BY DEF PullEvents
<1>2. ASSUME NEW e \in Range(r)
      PROVE  \E i \in DOMAIN d.events : e = <<d.events[i], a>>
  BY <1>1 DEF Range
<1>3. d.events \in Seq(Types \ {Reminder})
  BY DEF Decisions, Types, Reminder
<1>4. DOMAIN d.events = 1 .. Len(d.events) /\ Len(d.events) \in Nat
      /\ \A i \in 1 .. Len(d.events) : d.events[i] \in Types \ {Reminder}
  BY <1>3, LenProperties
<1>5. r \in [1 .. Len(d.events) -> Notices]
  BY <1>1, <1>4 DEF Notices
<1>6. r \in Seq(Notices)
  BY <1>4, <1>5
<1>7. Range(r) \subseteq {<<e, a>> : e \in Range(d.events)}
  BY <1>2 DEF Range
<1>8. {<<e, a>> : e \in Range(d.events)} \subseteq Notices \intersect Range(r)
  <2>1. ASSUME NEW e \in Range(d.events)
        PROVE  <<e, a>> \in Notices \intersect Range(r)
    <3>1. PICK i \in DOMAIN d.events : d.events[i] = e
      BY DEF Range
    <3>2. i \in DOMAIN r /\ r[i] = <<e, a>>
      BY <1>1, <3>1
    <3>3. <<e, a>> \in Range(r)
      BY <3>2 DEF Range
    <3>4. <<e, a>> \in Notices
      BY <1>4, <3>1 DEF Notices
    <3> QED BY <3>3, <3>4
  <2> QED BY <2>1
<1>9. \A e \in Range(r) : e[1] # Reminder
  BY <1>2, <1>4
<1> QED BY <1>6, <1>7, <1>8, <1>9
-----------------------------------------------------------------------------
(* Type correctness                                                        *)

TypeInv == TypeOK /\ QueuesInv

ProcessTypes ==
  /\ pc \in [Processes -> {"idle", "check", "feed", "push", "return"}]
  /\ queue \in [Processes -> Seq(Notices)]
  /\ rest \in [Processes -> Seq(Recipients)]
  /\ targets \in [Processes -> SUBSET Devices]
  /\ \A p \in Processes :
       /\ pc[p] = "idle" <=> queue[p] = << >>
       /\ rest[p] # << >> <=> pc[p] \in {"feed", "push"}

OthersStay(p) ==
  \A o \in Processes \ {p} :
    /\ queue'[o] = queue[o] /\ rest'[o] = rest[o]
    /\ pc'[o] = pc[o] /\ targets'[o] = targets[o]

(* Where p is once it has gone on with q.                                  *)
IsAt(p, q) ==
  /\ queue'[p] = q /\ targets'[p] = {}
  /\ pc'[p] = IF q = << >> THEN "idle"
              ELSE IF p \in Runs THEN "check"
              ELSE IF Audience(Head(q)) = {} THEN "return" ELSE "feed"
  /\ q = << >> \/ p \in Runs => rest'[p] = << >>
  /\ q # << >> /\ p \in Publishers =>
       /\ rest'[p] \in Seq(Recipients)
       /\ Range(rest'[p]) = Audience(Head(q))
       /\ Client \in Audience(Head(q)) => Head(rest'[p]) = Client

(* A process that goes on, alone, with the queue q.                        *)
LEMMA GoOnTypes ==
  ASSUME ProcessTypes, NEW p \in Processes, NEW q \in Seq(Notices), GoOn(p, q)
  PROVE  ProcessTypes' /\ OthersStay(p) /\ IsAt(p, q)
<1>1. /\ queue' = [queue EXCEPT ![p] = q]
      /\ targets' = [targets EXCEPT ![p] = {}]
  BY DEF GoOn
<1>2. CASE q = << >> \/ p \in Runs
  <2>1. ~(q # << >> /\ p \in Publishers)
    BY <1>2, NotificationsAssumption DEF NotificationsAssumption
  <2>2. /\ pc' = [pc EXCEPT ![p] = IF q = << >> THEN "idle" ELSE "check"]
        /\ rest' = [rest EXCEPT ![p] = << >>]
    BY <2>1 DEF GoOn
  <2>3. << >> \in Seq(Recipients)
    BY EmptySeq
  <2>4. IsAt(p, q)
    BY <1>1, <1>2, <2>1, <2>2 DEF IsAt, ProcessTypes
  <2>5. OthersStay(p)
    BY <1>1, <2>2 DEF OthersStay, ProcessTypes
  <2>6. ProcessTypes'
    BY <1>1, <2>2, <2>3 DEF ProcessTypes
  <2> QED BY <2>4, <2>5, <2>6
<1>3. CASE q # << >> /\ p \notin Runs
  <2>1. p \in Publishers
    BY <1>3 DEF Processes
  <2>2. PICK order \in Order(Audience(Head(q))) :
          /\ pc' = [pc EXCEPT ![p] = IF Audience(Head(q)) = {} THEN "return" ELSE "feed"]
          /\ rest' = [rest EXCEPT ![p] = order]
    BY <1>3 DEF GoOn
  <2>3. /\ order \in Seq(Recipients) /\ (order = << >> <=> Audience(Head(q)) = {})
        /\ Range(order) = Audience(Head(q))
        /\ Client \in Audience(Head(q)) => Head(order) = Client
    BY OrderType, NotificationsAssumption
  <2>4. /\ queue'[p] = q /\ targets'[p] = {} /\ rest'[p] = order
        /\ pc'[p] = IF Audience(Head(q)) = {} THEN "return" ELSE "feed"
    BY <1>1, <2>2 DEF ProcessTypes
  <2>5. IsAt(p, q)
    <3>1. CASE Audience(Head(q)) = {}
      BY <1>3, <2>1, <2>3, <2>4, <3>1 DEF IsAt
    <3>2. CASE Audience(Head(q)) # {}
      BY <1>3, <2>1, <2>3, <2>4, <3>2 DEF IsAt
    <3> QED BY <3>1, <3>2
  <2>6. OthersStay(p)
    BY <1>1, <2>2 DEF OthersStay, ProcessTypes
  <2>7. ProcessTypes'
    <3>1. CASE Audience(Head(q)) = {}
      <4>1. pc' = [pc EXCEPT ![p] = "return"] /\ order = << >>
        BY <2>2, <2>3, <3>1
      <4> QED BY <1>1, <1>3, <2>2, <2>3, <4>1 DEF ProcessTypes
    <3>2. CASE Audience(Head(q)) # {}
      <4>1. pc' = [pc EXCEPT ![p] = "feed"] /\ order # << >>
        BY <2>2, <2>3, <3>2
      <4> QED BY <1>1, <1>3, <2>2, <2>3, <4>1 DEF ProcessTypes
    <3> QED BY <3>1, <3>2
  <2> QED BY <2>5, <2>6, <2>7
<1> QED BY <1>2, <1>3

(* A step of p alone, whose queue after it is that of such a process.      *)
LEMMA QueuesStay ==
  ASSUME QueuesInv, NEW p \in Processes, OthersStay(p), published \subseteq published',
         p \in Publishers => pc'[p] # "check" /\ \A e \in Range(queue'[p]) : e[1] # Reminder /\ e \in published',
         p \in Runs /\ pc'[p] \in {"feed", "push"} => rest'[p] = <<Client>>
  PROVE  QueuesInv'
<1>1. ASSUME NEW o \in Publishers
      PROVE  pc'[o] # "check" /\ \A e \in Range(queue'[o]) : e[1] # Reminder /\ e \in published'
  <2>1. CASE o = p
    BY <2>1
  <2>2. CASE o # p
    BY <2>2 DEF OthersStay, QueuesInv, Processes
  <2> QED BY <2>1, <2>2
<1>2. ASSUME NEW j \in Runs, pc'[j] \in {"feed", "push"}
      PROVE  rest'[j] = <<Client>>
  <2>1. CASE j = p
    BY <1>2, <2>1
  <2>2. CASE j # p
    BY <1>2, <2>2 DEF OthersStay, QueuesInv, Processes
  <2> QED BY <2>1, <2>2
<1> QED BY <1>1, <1>2 DEF QueuesInv

(* What is left of the queue of p has the types that the queue had.        *)
LEMMA TailOfQueue ==
  ASSUME TypeInv, NEW p \in Processes, pc[p] # "idle"
  PROVE  /\ queue[p] \in Seq(Notices) /\ queue[p] # << >>
         /\ Head1(p) \in Notices /\ Head1(p) \in Range(queue[p])
         /\ Tail(queue[p]) \in Seq(Notices) /\ << >> \in Seq(Notices)
         /\ Range(Tail(queue[p])) \subseteq Range(queue[p])
<1>1. queue[p] \in Seq(Notices) /\ queue[p] # << >>
  BY DEF TypeInv, TypeOK, Notices
<1> QED BY <1>1, HeadAndTail, EmptySeq DEF Head1

(* The same of what is left of its own queue.                              *)
LEMMA ContinueTypes ==
  ASSUME TypeInv, NEW p \in Processes, pc[p] # "idle",
         NEW q \in {<< >>, Tail(queue[p])}, Continue(p, q), published' = published
  PROVE  /\ ProcessTypes' /\ OthersStay(p) /\ IsAt(p, q) /\ QueuesInv'
         /\ runAt' \in [Processes -> 0 .. MaxTime]
         /\ q \in Seq(Notices)
<1>1. ProcessTypes
  BY DEF TypeInv, TypeOK, ProcessTypes, Notices
<1>2. q \in Seq(Notices) /\ Range(q) \subseteq Range(queue[p])
  <2>1. Range(<< >>) = {}
    BY DEF Range
  <2> QED BY <2>1, TailOfQueue
<1>3. ProcessTypes' /\ OthersStay(p) /\ IsAt(p, q)
  BY <1>1, <1>2, GoOnTypes DEF Continue
<1>4. QueuesInv'
  <2>1. p \in Publishers => pc'[p] # "check" /\ \A e \in Range(queue'[p]) : e[1] # Reminder /\ e \in published'
    BY <1>2, <1>3, NotificationsAssumption DEF IsAt, QueuesInv, TypeInv, NotificationsAssumption
  <2>2. p \in Runs => pc'[p] \notin {"feed", "push"}
    BY <1>3 DEF IsAt
  <2> QED BY <1>3, <2>1, <2>2, QueuesStay DEF TypeInv
<1>5. runAt' \in [Processes -> 0 .. MaxTime]
  BY NotificationsAssumption DEF Continue, TypeInv, TypeOK, NotificationsAssumption
<1> QED BY <1>2, <1>3, <1>4, <1>5

(* Type correctness at the start, and of each action in turn.              *)
LEMMA InitTypes == Init => TypeInv
<1> SUFFICES ASSUME Init
             PROVE  TypeInv
  OBVIOUS
<1>1. /\ << >> \in Seq(Notices) /\ << >> \in Seq(Recipients)
      /\ Range(<< >>) = {}
  BY EmptySeq DEF Range
<1>2. TypeOK
  <2>1. /\ 0 \in 0 .. MaxTime /\ 0 \in 0 .. MaxFaults
        /\ status \in [Appointments -> Statuses]
    BY NotificationsAssumption DEF Init, NotificationsAssumption
  <2>2. /\ feed \in [Items -> Nat]
        /\ owner \in [Devices -> Recipients \union {Nobody}]
        /\ screen \in [Devices -> [Appointments -> Types \union {Nothing}]]
    BY DEF Init, Recipients
  <2>3. /\ pc \in [Processes -> {"idle", "check", "feed", "push", "return"}]
        /\ targets \in [Processes -> SUBSET Devices]
        /\ runAt \in [Processes -> 0 .. MaxTime]
    BY <2>1 DEF Init
  <2>4. /\ queue \in [Processes -> Seq(Types \X Appointments)]
        /\ rest \in [Processes -> Seq(Recipients)]
        /\ \A p \in Processes :
             /\ pc[p] = "idle" <=> queue[p] = << >>
             /\ rest[p] # << >> <=> pc[p] \in {"feed", "push"}
    BY <1>1 DEF Init, Notices
  <2> QED BY <2>1, <2>2, <2>3, <2>4 DEF Init, TypeOK
<1>3. QueuesInv
  BY <1>1 DEF Init, QueuesInv, Processes
<1> QED BY <1>2, <1>3 DEF TypeInv

LEMMA DecideTypes ==
  ASSUME TypeInv, NEW p \in Publishers, Decide(p)
  PROVE  TypeInv'
<1>1. PICK a \in Appointments, d \in Decisions :
        /\ status[a] = d.from
        /\ status' = [status EXCEPT ![a] = d.to]
        /\ Begin(p, [i \in DOMAIN d.events |-> <<PullEvents(d)[i], a>>])
        /\ published' = published \union {<<e, a>> : e \in Range(d.events)}
  BY DEF Decide
<1>2. UNCHANGED <<feed, owner, revoked, world, runAt, lost, touched, together>>
  BY DEF Decide
<1> DEFINE q == [i \in DOMAIN d.events |-> <<PullEvents(d)[i], a>>]
<1>3. /\ q \in Seq(Notices)
      /\ Range(q) \subseteq {<<e, a>> : e \in Range(d.events)}
      /\ {<<e, a>> : e \in Range(d.events)} \subseteq Notices
      /\ \A e \in Range(q) : e[1] # Reminder
  BY DecisionNotices
<1>4. GoOn(p, q) /\ mixed' = (mixed \/ Busy # {})
  BY <1>1 DEF Begin
<1> HIDE DEF q
<1>5. p \in Processes /\ p \notin Runs
  BY NotificationsAssumption DEF NotificationsAssumption, Processes
<1>6. ProcessTypes
  BY DEF TypeInv, TypeOK, ProcessTypes, Notices
<1>7. ProcessTypes' /\ OthersStay(p) /\ IsAt(p, q)
  BY <1>3, <1>4, <1>5, <1>6, GoOnTypes
<1>8. QueuesInv'
  <2>1. pc'[p] # "check" /\ queue'[p] = q
    BY <1>5, <1>7 DEF IsAt
  <2>2. \A e \in Range(q) : e[1] # Reminder /\ e \in published'
    BY <1>1, <1>3
  <2> QED BY <1>1, <1>5, <1>7, <2>1, <2>2, QueuesStay DEF TypeInv
<1>9. status' \in [Appointments -> Statuses]
  <2>1. d.to \in Statuses
    BY DEF Statuses
  <2> QED BY <1>1, <2>1 DEF TypeInv, TypeOK
<1>10. published' \subseteq Notices /\ lost' \subseteq published'
  BY <1>1, <1>2, <1>3 DEF TypeInv, TypeOK, Notices
<1>11. mixed' \in BOOLEAN
  BY <1>4 DEF TypeInv, TypeOK
<1>12. TypeOK'
  BY <1>2, <1>7, <1>9, <1>10, <1>11 DEF TypeInv, TypeOK, ProcessTypes, Notices, world
<1> QED BY <1>8, <1>12 DEF TypeInv

LEMMA StartRunTypes ==
  ASSUME TypeInv, RemindersInv, NEW j \in Runs, StartRun(j)
  PROVE  TypeInv'
<1> DEFINE S == ConfirmedStartingBetween(now, now + MAX_LEAD_HOURS)
<1>1. PICK b \in Batches(S) : Begin(j, [i \in DOMAIN b |-> <<Reminder, b[i]>>])
  BY DEF StartRun
<1>2. /\ runAt' = [runAt EXCEPT ![j] = now]
      /\ together' = Larger(together, Cardinality((Busy \intersect Runs) \union {j}))
      /\ UNCHANGED <<database, world, published, lost, touched>>
  BY DEF StartRun
<1> DEFINE q == [i \in DOMAIN b |-> <<Reminder, b[i]>>]
<1>3. q \in Seq(Notices)
  <2>1. S \subseteq Appointments
    BY DEF ConfirmedStartingBetween
  <2>2. b \in Seq(S)
    BY <2>1, BatchType, NotificationsAssumption
  <2> QED BY <2>1, <2>2, BatchNotices
<1>4. GoOn(j, q) /\ mixed' = (mixed \/ Busy # {})
  BY <1>1 DEF Begin
<1> HIDE DEF q, S
<1>5. j \in Processes /\ j \notin Publishers
  BY NotificationsAssumption DEF NotificationsAssumption, Processes
<1>6. ProcessTypes
  BY DEF TypeInv, TypeOK, ProcessTypes, Notices
<1>7. ProcessTypes' /\ OthersStay(j) /\ IsAt(j, q)
  BY <1>3, <1>4, <1>5, <1>6, GoOnTypes
<1>8. QueuesInv'
  <2>1. pc'[j] \notin {"feed", "push"}
    BY <1>7 DEF IsAt
  <2>2. published' = published
    BY <1>2
  <2> QED BY <1>5, <1>7, <2>1, <2>2, QueuesStay DEF TypeInv
<1>9. runAt' \in [Processes -> 0 .. MaxTime]
  BY <1>2 DEF TypeInv, TypeOK
<1>10. together' \in Nat
  <2>1. IsFiniteSet((Busy \intersect Runs) \union {j})
    BY FS_AddElement DEF RemindersInv
  <2>2. Cardinality((Busy \intersect Runs) \union {j}) \in Nat
    BY <2>1, FS_CardinalityType
  <2> QED BY <1>2, <2>2 DEF Larger, TypeInv, TypeOK
<1>11. mixed' \in BOOLEAN
  BY <1>4 DEF TypeInv, TypeOK
<1>12. TypeOK'
  BY <1>2, <1>7, <1>9, <1>10, <1>11
     DEF TypeInv, TypeOK, ProcessTypes, Notices, world, database
<1> QED BY <1>8, <1>12 DEF TypeInv

LEMMA CheckTypes ==
  ASSUME TypeInv, NEW j \in Runs, CheckReminder(j)
  PROVE  TypeInv'
<1>1. pc[j] = "check" /\ UNCHANGED <<database, world, history>>
  BY DEF CheckReminder
<1>2. j \in Processes /\ j \notin Publishers
  BY NotificationsAssumption DEF NotificationsAssumption, Processes
<1>3. ProcessTypes
  BY DEF TypeInv, TypeOK, ProcessTypes, Notices
<1>4. CASE Due(Head1(j)[2], runAt[j])
  <2>1. /\ rest' = [rest EXCEPT ![j] = <<Client>>]
        /\ pc' = [pc EXCEPT ![j] = "feed"]
        /\ UNCHANGED <<queue, targets, runAt>>
    BY <1>4 DEF CheckReminder
  <2>2. <<Client>> \in Seq(Recipients) /\ <<Client>> # << >>
    BY DEF Recipients
  <2>3. ProcessTypes' /\ OthersStay(j)
    BY <1>1, <1>2, <1>3, <2>1, <2>2 DEF ProcessTypes, OthersStay
  <2>4. QueuesInv'
    BY <1>1, <1>2, <1>3, <2>1, <2>3, QueuesStay DEF TypeInv, history, ProcessTypes
  <2>5. TypeOK'
    BY <1>1, <2>1, <2>3
       DEF TypeInv, TypeOK, ProcessTypes, Notices, database, world, history
  <2> QED BY <2>4, <2>5 DEF TypeInv
<1>5. CASE ~Due(Head1(j)[2], runAt[j])
  <2>1. Continue(j, Tail(queue[j]))
    BY <1>5 DEF CheckReminder, Skip
  <2>2. ProcessTypes' /\ QueuesInv' /\ runAt' \in [Processes -> 0 .. MaxTime]
    BY <1>1, <1>2, <2>1, ContinueTypes DEF history
  <2>3. TypeOK'
    BY <1>1, <2>2
       DEF TypeInv, TypeOK, ProcessTypes, Notices, database, world, history
  <2> QED BY <2>2, <2>3 DEF TypeInv
<1> QED BY <1>4, <1>5

LEMMA PersistTypes ==
  ASSUME TypeInv, NEW p \in Processes, Persist(p)
  PROVE  /\ TypeInv' /\ OthersStay(p)
         /\ <<Head1(p)[1], Head1(p)[2], Head(rest[p])>> \in Items
         /\ pc'[p] = "push" /\ queue'[p] = queue[p] /\ rest'[p] = rest[p]
         /\ targets'[p] = ActiveDevices(Head(rest[p]))
<1> DEFINE item == <<Head1(p)[1], Head1(p)[2], Head(rest[p])>>
<1>1. /\ pc[p] = "feed"
      /\ feed' = [feed EXCEPT ![item] = @ + 1]
      /\ targets' = [targets EXCEPT ![p] = ActiveDevices(Head(rest[p]))]
      /\ pc' = [pc EXCEPT ![p] = "push"]
      /\ UNCHANGED <<status, owner, revoked, world, queue, rest, runAt, history>>
  BY DEF Persist
<1>2. item \in Items
  <2>1. Head1(p) \in Notices
    BY <1>1, TailOfQueue
  <2>2. rest[p] \in Seq(Recipients) /\ rest[p] # << >>
    BY <1>1 DEF TypeInv, TypeOK
  <2>3. Head(rest[p]) \in Recipients
    BY <2>2, HeadAndTail
  <2> QED BY <2>1, <2>3 DEF Items, Notices
<1> HIDE DEF item
<1>3. ProcessTypes' /\ OthersStay(p)
  <2>1. ActiveDevices(Head(rest[p])) \subseteq Devices
    BY DEF ActiveDevices
  <2> QED BY <1>1, <2>1 DEF TypeInv, TypeOK, ProcessTypes, Notices, OthersStay
<1>4. /\ pc'[p] = "push" /\ queue'[p] = queue[p] /\ rest'[p] = rest[p]
      /\ targets'[p] = ActiveDevices(Head(rest[p]))
  BY <1>1 DEF TypeInv, TypeOK
<1>5. QueuesInv'
  BY <1>1, <1>3, <1>4, QueuesStay DEF TypeInv, QueuesInv, history
<1>6. feed' \in [Items -> Nat]
  BY <1>1, <1>2 DEF TypeInv, TypeOK
<1>7. TypeOK'
  BY <1>1, <1>3, <1>6 DEF TypeInv, TypeOK, ProcessTypes, Notices, world, history
<1> QED BY <1>2, <1>3, <1>4, <1>5, <1>7 DEF TypeInv, item

(* A failure is counted, within the bound.                                 *)
LEMMA FaultyType ==
  ASSUME TypeInv, Faulty
  PROVE  faults' \in 0 .. MaxFaults /\ faults' # 0
BY NotificationsAssumption DEF Faulty, TypeInv, TypeOK, NotificationsAssumption

LEMMA PushTypes ==
  ASSUME TypeInv, NEW p \in Processes, Push(p)
  PROVE  TypeInv' /\ OthersStay(p)
<1>1. PICK d \in targets[p] : Send(p, d) /\ targets' = [targets EXCEPT ![p] = @ \ {d}]
  BY DEF Push
<1>2. /\ pc[p] = "push"
      /\ UNCHANGED <<status, feed, owner, now, gone, mailed, pc, queue, rest, runAt, history>>
  BY DEF Push
<1>3. d \in Devices
  BY <1>1 DEF TypeInv, TypeOK
<1>4. Head1(p) \in Notices
  BY <1>2, TailOfQueue
<1>5. /\ screen' \in [Devices -> [Appointments -> Types \union {Nothing}]]
      /\ revoked' \subseteq gone /\ faults' \in 0 .. MaxFaults
  <2>1. CASE /\ screen' = [screen EXCEPT ![d][Head1(p)[2]] = Head1(p)[1]]
             /\ UNCHANGED <<revoked, faults>>
    BY <2>1, <1>3, <1>4 DEF TypeInv, TypeOK, Notices
  <2>2. CASE Faulty /\ UNCHANGED <<screen, revoked>>
    BY <2>2, FaultyType DEF TypeInv, TypeOK
  <2>3. CASE d \in gone /\ revoked' = revoked \union {d} /\ UNCHANGED <<screen, faults>>
    BY <2>3 DEF TypeInv, TypeOK
  <2> QED BY <1>1, <2>1, <2>2, <2>3 DEF Send
<1>6. ProcessTypes' /\ OthersStay(p)
  BY <1>1, <1>2 DEF TypeInv, TypeOK, ProcessTypes, Notices, OthersStay
<1>7. QueuesInv'
  BY <1>2 DEF TypeInv, QueuesInv, history
<1>8. TypeOK'
  BY <1>2, <1>5, <1>6 DEF TypeInv, TypeOK, ProcessTypes, Notices, history
<1> QED BY <1>6, <1>7, <1>8 DEF TypeInv

LEMMA NextRecipientTypes ==
  ASSUME TypeInv, NEW p \in Processes, NextRecipient(p)
  PROVE  /\ TypeInv' /\ OthersStay(p)
         /\ \/ /\ Len(rest[p]) > 1 /\ rest'[p] = Tail(rest[p]) /\ rest'[p] # << >>
               /\ pc'[p] = "feed" /\ queue'[p] = queue[p] /\ targets'[p] = {}
            \/ /\ Len(rest[p]) = 1
               /\ IsAt(p, Tail(queue[p]))
<1>1. /\ pc[p] = "push" /\ targets[p] = {}
      /\ MailClient(p)
      /\ UNCHANGED <<database, now, gone, screen, history>>
  BY DEF NextRecipient
<1>2. /\ rest[p] \in Seq(Recipients) /\ rest[p] # << >>
      /\ Tail(rest[p]) \in Seq(Recipients) /\ Len(Tail(rest[p])) = Len(rest[p]) - 1
      /\ Len(rest[p]) \in Nat \ {0}
  BY <1>1, HeadTailProperties, EmptySeq DEF TypeInv, TypeOK
<1>3. mailed' \subseteq Notices /\ faults' \in 0 .. MaxFaults
  BY <1>1, FaultyType, TailOfQueue DEF MailClient, TypeInv, TypeOK, Notices
<1>4. CASE Len(rest[p]) > 1
  <2>1. /\ rest' = [rest EXCEPT ![p] = Tail(@)]
        /\ pc' = [pc EXCEPT ![p] = "feed"]
        /\ UNCHANGED <<queue, targets, runAt>>
    BY <1>4 DEF NextRecipient
  <2>2. Tail(rest[p]) # << >>
    BY <1>2, <1>4, LongerTail
  <2>3. /\ rest'[p] = Tail(rest[p]) /\ pc'[p] = "feed" /\ queue'[p] = queue[p]
        /\ targets'[p] = {}
    BY <1>1, <2>1 DEF TypeInv, TypeOK
  <2>4. ProcessTypes' /\ OthersStay(p)
    BY <1>1, <1>2, <2>1, <2>2 DEF TypeInv, TypeOK, ProcessTypes, Notices, OthersStay
  <2>5. p \notin Runs
    <3>1. p \in Runs => rest[p] = <<Client>>
      BY <1>1 DEF TypeInv, QueuesInv
    <3>2. Len(rest[p]) # 1 /\ Len(<<Client>>) = 1
      BY <1>2, <1>4, LongerTail
    <3> QED BY <3>1, <3>2
  <2>6. QueuesInv'
    BY <1>1, <2>3, <2>4, <2>5, QueuesStay DEF TypeInv, QueuesInv, history
  <2>7. TypeOK'
    BY <1>1, <1>3, <2>1, <2>4 DEF TypeInv, TypeOK, ProcessTypes, Notices, database, history
  <2> QED BY <1>4, <2>2, <2>3, <2>4, <2>6, <2>7 DEF TypeInv
<1>5. CASE ~(Len(rest[p]) > 1)
  <2>1. Continue(p, Tail(queue[p]))
    BY <1>5 DEF NextRecipient
  <2>2. /\ ProcessTypes' /\ OthersStay(p) /\ IsAt(p, Tail(queue[p])) /\ QueuesInv'
        /\ runAt' \in [Processes -> 0 .. MaxTime]
    BY <1>1, <2>1, ContinueTypes DEF history
  <2>3. TypeOK'
    BY <1>1, <1>3, <2>2 DEF TypeInv, TypeOK, ProcessTypes, Notices, database, history
  <2>4. Len(rest[p]) = 1
    BY <1>2, <1>5, LongerTail
  <2> QED BY <2>2, <2>3, <2>4 DEF TypeInv
<1> QED BY <1>4, <1>5

(* A handler that has nobody to tell.                                      *)
LEMMA ReturnTypes ==
  ASSUME TypeInv, NEW p \in Processes, Return(p)
  PROVE  TypeInv' /\ OthersStay(p) /\ IsAt(p, Tail(queue[p]))
<1>1. /\ pc[p] = "return" /\ Continue(p, Tail(queue[p]))
      /\ UNCHANGED <<database, world, history>>
  BY DEF Return
<1>2. /\ ProcessTypes' /\ OthersStay(p) /\ IsAt(p, Tail(queue[p])) /\ QueuesInv'
      /\ runAt' \in [Processes -> 0 .. MaxTime]
  BY <1>1, ContinueTypes DEF history
<1>3. TypeOK'
  BY <1>1, <1>2 DEF TypeInv, TypeOK, ProcessTypes, Notices, database, world, history
<1> QED BY <1>2, <1>3 DEF TypeInv

LEMMA FailTypes ==
  ASSUME TypeInv, NEW p \in Processes, Fail(p)
  PROVE  /\ TypeInv' /\ OthersStay(p)
         /\ \E q \in {<< >>, Tail(queue[p])} : IsAt(p, q)
         /\ p \in Publishers => IsAt(p, Tail(queue[p])) /\ lost' = lost \union {Head1(p)}
         /\ p \notin Publishers => lost' = lost
<1>1. /\ pc[p] \notin {"idle", "return"} /\ Faulty
      /\ Continue(p, AfterFailure(p))
      /\ lost' = IF p \in Publishers THEN lost \union {Head1(p)} ELSE lost
      /\ UNCHANGED <<database, now, gone, screen, mailed, published, touched, together, mixed>>
  BY DEF Fail
<1>2. AfterFailure(p) \in {<< >>, Tail(queue[p])}
  BY DEF AfterFailure
<1>3. p \in Publishers => AfterFailure(p) = Tail(queue[p])
  BY NotificationsAssumption DEF AfterFailure, NotificationsAssumption
<1>4. /\ ProcessTypes' /\ OthersStay(p) /\ IsAt(p, AfterFailure(p)) /\ QueuesInv'
      /\ runAt' \in [Processes -> 0 .. MaxTime]
  BY <1>1, <1>2, ContinueTypes
<1>5. lost' \subseteq published'
  <2>1. p \in Publishers => Head1(p) \in published
    BY <1>1, TailOfQueue DEF TypeInv, QueuesInv
  <2> QED BY <1>1, <2>1 DEF TypeInv, TypeOK
<1>6. TypeOK'
  BY <1>1, <1>4, <1>5, FaultyType DEF TypeInv, TypeOK, ProcessTypes, Notices, database
<1> QED BY <1>1, <1>2, <1>3, <1>4, <1>6 DEF TypeInv

LEMMA CrashTypes ==
  ASSUME TypeInv, Crash
  PROVE  TypeInv' /\ \A p \in Processes : IsAt(p, << >>)
<1>1. /\ Faulty
      /\ pc' = [p \in Processes |-> "idle"]
      /\ queue' = [p \in Processes |-> << >>]
      /\ rest' = [p \in Processes |-> << >>]
      /\ targets' = [p \in Processes |-> {}]
      /\ runAt' = [p \in Processes |-> 0]
      /\ lost' = lost \union UNION {Range(queue[p]) : p \in Publishers}
      /\ UNCHANGED <<database, now, gone, screen, mailed, published, touched, together, mixed>>
  BY DEF Crash
<1>2. /\ << >> \in Seq(Notices) /\ << >> \in Seq(Recipients)
      /\ Range(<< >>) = {}
  BY EmptySeq DEF Range
<1>3. ProcessTypes'
  BY <1>1, <1>2 DEF ProcessTypes
<1>4. QueuesInv'
  BY <1>1, <1>2 DEF QueuesInv, Processes
<1>5. runAt' \in [Processes -> 0 .. MaxTime]
  BY <1>1, NotificationsAssumption DEF NotificationsAssumption
<1>6. lost' \subseteq published'
  BY <1>1 DEF TypeInv, TypeOK, QueuesInv
<1>7. TypeOK'
  BY <1>1, <1>3, <1>5, <1>6, FaultyType DEF TypeInv, TypeOK, ProcessTypes, Notices, database
<1>8. \A p \in Processes : IsAt(p, << >>)
  BY <1>1 DEF IsAt
<1> QED BY <1>4, <1>7, <1>8 DEF TypeInv

(* Steps of the clock and of the devices leave the processes as they are.  *)
LEMMA WorldTypes ==
  ASSUME TypeInv,
         \/ Tick
         \/ \E d \in Devices : Unsubscribe(d) \/ Expire(d) \/ \E x \in Recipients : Subscribe(d, x)
  PROVE  /\ TypeInv'
         /\ UNCHANGED <<status, feed, screen, mailed, faults, process, published, lost, together, mixed>>
<1>1. CASE Tick
  <2>1. /\ now < MaxTime /\ now' = now + 1
        /\ UNCHANGED <<database, gone, screen, mailed, faults, process, history>>
    BY <1>1 DEF Tick
  <2>2. now' \in 0 .. MaxTime
    BY <2>1, NotificationsAssumption DEF TypeInv, TypeOK, NotificationsAssumption
  <2> QED BY <2>1, <2>2 DEF TypeInv, TypeOK, QueuesInv, database, process, history
<1>2. ASSUME NEW d \in Devices, Unsubscribe(d)
      PROVE  /\ TypeInv'
             /\ UNCHANGED <<status, feed, screen, mailed, faults, process, published, lost, together, mixed>>
  <2>1. /\ owner' = [owner EXCEPT ![d] = Nobody] /\ revoked' = revoked \ {d}
        /\ touched' = touched \union {d}
        /\ UNCHANGED <<status, feed, world, process, published, lost, together, mixed>>
    BY <1>2 DEF Unsubscribe, Change
  <2> QED BY <2>1 DEF TypeInv, TypeOK, QueuesInv, world, process
<1>3. ASSUME NEW d \in Devices, Expire(d)
      PROVE  /\ TypeInv'
             /\ UNCHANGED <<status, feed, screen, mailed, faults, process, published, lost, together, mixed>>
  <2>1. /\ gone' = gone \union {d} /\ touched' = touched \union {d}
        /\ UNCHANGED <<database, now, screen, mailed, faults, process, published, lost, together, mixed>>
    BY <1>3 DEF Expire, Change
  <2> QED BY <2>1 DEF TypeInv, TypeOK, QueuesInv, database, process
<1>4. ASSUME NEW d \in Devices, NEW x \in Recipients, Subscribe(d, x)
      PROVE  /\ TypeInv'
             /\ UNCHANGED <<status, feed, screen, mailed, faults, process, published, lost, together, mixed>>
  <2>1. /\ owner' = [owner EXCEPT ![d] = x] /\ revoked' = revoked \ {d}
        /\ touched' = touched \union {d}
        /\ UNCHANGED <<status, feed, world, process, published, lost, together, mixed>>
    BY <1>4 DEF Subscribe, Change, Upsert
  <2> QED BY <2>1 DEF TypeInv, TypeOK, QueuesInv, world, process
<1> QED BY <1>1, <1>2, <1>3, <1>4

(* Nothing changes.                                                        *)
LEMMA StutterTypes ==
  ASSUME TypeInv, UNCHANGED vars
  PROVE  TypeInv'
BY DEF TypeInv, TypeOK, QueuesInv, vars, database, world, process, history
-----------------------------------------------------------------------------
(* One reminder                                                            *)

RemindersOf(a) == feed[<<Reminder, a, Client>>]

(* Of two numbers, the larger.                                             *)
LEMMA LargerBounds ==
  \A m, n \in Nat : Larger(m, n) \in Nat /\ m <= Larger(m, n) /\ n <= Larger(m, n)
BY DEF Larger

(* Runs about to remind are at work, and so there are finitely many.       *)
LEMMA RemindingType ==
  ASSUME TypeInv, RemindersInv, NEW a \in Appointments
  PROVE  /\ Reminding(a) \subseteq Busy \intersect Runs
         /\ IsFiniteSet(Reminding(a)) /\ Cardinality(Reminding(a)) \in Nat
         /\ RemindersOf(a) \in Nat /\ <<Reminder, a, Client>> \in Items
         /\ Cardinality(Busy \intersect Runs) \in Nat
<1>1. Reminding(a) \subseteq Busy \intersect Runs
  BY DEF Reminding, Busy, Processes
<1>2. IsFiniteSet(Reminding(a)) /\ Cardinality(Reminding(a)) \in Nat
  BY <1>1, FS_Subset, FS_CardinalityType DEF RemindersInv
<1>3. <<Reminder, a, Client>> \in Items
  BY DEF Items, Types, Recipients
<1>4. RemindersOf(a) \in Nat
  BY <1>3 DEF TypeInv, TypeOK, RemindersOf
<1>5. Cardinality(Busy \intersect Runs) \in Nat
  BY FS_CardinalityType DEF RemindersInv
<1> QED BY <1>1, <1>2, <1>3, <1>4, <1>5

(* No run begins, and none comes closer to its reminder.                   *)
LEMMA NoneReminds ==
  ASSUME TypeInv, RemindersInv, together' = together,
         \A j \in Runs : pc'[j] # "idle" => pc[j] # "idle",
         \A j \in Runs : pc'[j] = "feed" => pc[j] = "feed" /\ queue'[j] = queue[j],
         \A a \in Appointments : RemindersOf(a)' = RemindersOf(a)
  PROVE  RemindersInv'
<1>1. (Busy \intersect Runs)' \subseteq Busy \intersect Runs
  BY DEF Busy
<1>2. IsFiniteSet((Busy \intersect Runs)')
      /\ Cardinality((Busy \intersect Runs)') <= Cardinality(Busy \intersect Runs)
      /\ Cardinality((Busy \intersect Runs)') \in Nat
  BY <1>1, FS_Subset, FS_CardinalityType DEF RemindersInv
<1>3. Cardinality(Busy \intersect Runs) \in Nat /\ together \in Nat
  BY FS_CardinalityType DEF RemindersInv, TypeInv, TypeOK
<1>4. Cardinality((Busy \intersect Runs)') <= together'
  BY <1>2, <1>3 DEF RemindersInv
<1>5. ASSUME NEW a \in Appointments
      PROVE  RemindersOf(a)' + Cardinality(Reminding(a)') <= Larger(together', 1)
  <2>1. Reminding(a)' \subseteq Reminding(a)
    BY DEF Reminding, Head1
  <2>2. IsFiniteSet(Reminding(a)) /\ Cardinality(Reminding(a)) \in Nat /\ RemindersOf(a) \in Nat
    BY RemindingType
  <2>3. Cardinality(Reminding(a)') <= Cardinality(Reminding(a)) /\ Cardinality(Reminding(a)') \in Nat
    BY <2>1, <2>2, FS_Subset, FS_CardinalityType
  <2>4. RemindersOf(a) + Cardinality(Reminding(a)) <= Larger(together, 1)
    BY DEF RemindersInv, RemindersOf
  <2>5. Larger(together, 1) \in Nat
    BY <1>3, LargerBounds
  <2> QED BY <2>2, <2>3, <2>4, <2>5
<1> QED BY <1>2, <1>4, <1>5 DEF RemindersInv, RemindersOf

(* The same of a step of p alone.                                          *)
LEMMA NotReminding ==
  ASSUME TypeInv, RemindersInv, together' = together, feed' = feed,
         NEW p \in Processes, OthersStay(p), pc[p] # "idle" \/ p \notin Runs,
         p \notin Runs \/ pc'[p] # "feed"
  PROVE  RemindersInv'
<1>1. ASSUME NEW j \in Runs, pc'[j] # "idle"
      PROVE  pc[j] # "idle"
  BY <1>1 DEF OthersStay, Processes
<1>2. ASSUME NEW j \in Runs, pc'[j] = "feed"
      PROVE  pc[j] = "feed" /\ queue'[j] = queue[j]
  BY <1>2 DEF OthersStay, Processes
<1>3. \A a \in Appointments : RemindersOf(a)' = RemindersOf(a)
  BY DEF RemindersOf
<1> QED BY <1>1, <1>2, <1>3, NoneReminds

(* The clock of the runs at once goes up with the run that starts.         *)
LEMMA StartRunReminds ==
  ASSUME TypeInv, RemindersInv, NEW j \in Runs, StartRun(j)
  PROVE  RemindersInv'
<1> DEFINE B == (Busy \intersect Runs) \union {j}
<1>1. PICK q : GoOn(j, q)
  BY DEF StartRun, Begin
<1>2. /\ together' = Larger(together, Cardinality(B)) /\ feed' = feed
      /\ pc' = [pc EXCEPT ![j] = IF q = << >> THEN "idle" ELSE "check"]
      /\ queue' = [queue EXCEPT ![j] = q]
  BY <1>1, NotificationsAssumption DEF StartRun, GoOn, NotificationsAssumption, database
<1>3. IsFiniteSet(B) /\ Cardinality(B) \in Nat
  BY FS_AddElement, FS_CardinalityType DEF RemindersInv
<1>4. together \in Nat /\ together' \in Nat /\ together <= together' /\ Cardinality(B) <= together'
  BY <1>2, <1>3, LargerBounds DEF TypeInv, TypeOK
<1>5. (Busy \intersect Runs)' \subseteq B
  BY <1>2 DEF Busy, TypeInv, TypeOK, Processes
<1>6. IsFiniteSet((Busy \intersect Runs)') /\ Cardinality((Busy \intersect Runs)') <= together'
  <2>1. IsFiniteSet((Busy \intersect Runs)')
        /\ Cardinality((Busy \intersect Runs)') <= Cardinality(B)
        /\ Cardinality((Busy \intersect Runs)') \in Nat
    BY <1>3, <1>5, FS_Subset, FS_CardinalityType
  <2> QED BY <1>3, <1>4, <2>1
<1>7. ASSUME NEW a \in Appointments
      PROVE  RemindersOf(a)' + Cardinality(Reminding(a)') <= Larger(together', 1)
  <2>1. Reminding(a)' \subseteq Reminding(a)
    BY <1>2 DEF Reminding, Head1, TypeInv, TypeOK, Processes
  <2>2. IsFiniteSet(Reminding(a)) /\ Cardinality(Reminding(a)) \in Nat /\ RemindersOf(a) \in Nat
    BY RemindingType
  <2>3. Cardinality(Reminding(a)') <= Cardinality(Reminding(a)) /\ Cardinality(Reminding(a)') \in Nat
    BY <2>1, <2>2, FS_Subset, FS_CardinalityType
  <2>4. RemindersOf(a) + Cardinality(Reminding(a)) <= Larger(together, 1)
    BY DEF RemindersInv, RemindersOf
  <2>5. Larger(together, 1) <= Larger(together', 1)
        /\ Larger(together, 1) \in Nat /\ Larger(together', 1) \in Nat
    BY <1>4 DEF Larger
  <2>6. RemindersOf(a)' = RemindersOf(a)
    BY <1>2 DEF RemindersOf
  <2> QED BY <2>2, <2>3, <2>4, <2>5, <2>6
<1> QED BY <1>6, <1>7 DEF RemindersInv, RemindersOf

(* A run that finds no reminder: there is none, and of those about to      *)
(* write one, all are at work at once.                                     *)
LEMMA CheckReminds ==
  ASSUME TypeInv, RemindersInv, NEW j \in Runs, CheckReminder(j)
  PROVE  RemindersInv'
<1>1. /\ pc[j] = "check" /\ feed' = feed /\ together' = together
      /\ j \in Processes /\ j \notin Publishers
  BY NotificationsAssumption
     DEF CheckReminder, database, history, NotificationsAssumption, Processes
<1>2. CASE Due(Head1(j)[2], runAt[j])
  <2>1. /\ pc' = [pc EXCEPT ![j] = "feed"]
        /\ UNCHANGED <<queue, targets, runAt>>
    BY <1>2 DEF CheckReminder
  <2>2. (Busy \intersect Runs)' = Busy \intersect Runs
    BY <1>1, <2>1 DEF Busy, TypeInv, TypeOK
  <2>3. ASSUME NEW a \in Appointments
        PROVE  RemindersOf(a)' + Cardinality(Reminding(a)') <= Larger(together', 1)
    <3>1. /\ IsFiniteSet(Reminding(a)) /\ Cardinality(Reminding(a)) \in Nat
          /\ RemindersOf(a) \in Nat /\ RemindersOf(a)' = RemindersOf(a)
          /\ Cardinality(Busy \intersect Runs) \in Nat
      BY <1>1, RemindingType DEF RemindersOf
    <3>2. /\ RemindersOf(a) + Cardinality(Reminding(a)) <= Larger(together, 1)
          /\ IsFiniteSet(Busy \intersect Runs)
          /\ Cardinality(Busy \intersect Runs) <= together
      BY DEF RemindersInv, RemindersOf
    <3>3. together \in Nat /\ Larger(together, 1) \in Nat /\ together <= Larger(together, 1)
      BY LargerBounds DEF TypeInv, TypeOK
    <3>4. CASE Head1(j) = <<Reminder, a>>
      <4>1. RemindersOf(a) = 0
        <5>1. Head1(j)[2] = a
          BY <3>4
        <5>2. ~ExistsForAppointment(a)
          BY <1>2, <5>1 DEF Due
        <5>3. ~(RemindersOf(a) > 0)
          BY <5>2 DEF ExistsForAppointment, RemindersOf, Recipients
        <5> QED BY <3>1, <5>3
      <4>2. Reminding(a)' \subseteq Busy \intersect Runs
        BY <2>2 DEF Reminding, Busy, Processes
      <4>3. /\ Cardinality(Reminding(a)') <= Cardinality(Busy \intersect Runs)
            /\ Cardinality(Reminding(a)') \in Nat
        BY <3>2, <4>2, FS_Subset, FS_CardinalityType
      <4> QED BY <1>1, <3>1, <3>2, <3>3, <4>1, <4>3
    <3>5. CASE Head1(j) # <<Reminder, a>>
      <4>1. Reminding(a)' \subseteq Reminding(a)
        BY <2>1, <3>5 DEF Reminding, Head1, TypeInv, TypeOK, Processes
      <4>2. /\ Cardinality(Reminding(a)') <= Cardinality(Reminding(a))
            /\ Cardinality(Reminding(a)') \in Nat
        BY <3>1, <4>1, FS_Subset, FS_CardinalityType
      <4> QED BY <1>1, <3>1, <3>2, <3>3, <4>2
    <3> QED BY <3>4, <3>5
  <2> QED BY <1>1, <2>2, <2>3 DEF RemindersInv, RemindersOf
<1>3. CASE ~Due(Head1(j)[2], runAt[j])
  <2>1. Continue(j, Tail(queue[j]))
    BY <1>3 DEF CheckReminder, Skip
  <2>2. OthersStay(j) /\ IsAt(j, Tail(queue[j]))
    BY <1>1, <2>1, ContinueTypes DEF CheckReminder, history
  <2>3. pc'[j] # "feed"
    BY <2>2 DEF IsAt
  <2> QED BY <1>1, <2>2, <2>3, NotReminding
<1> QED BY <1>2, <1>3

(* A run that writes its reminder is no longer about to.                   *)
LEMMA PersistReminds ==
  ASSUME TypeInv, RemindersInv, NEW p \in Processes, Persist(p)
  PROVE  RemindersInv'
<1> DEFINE item == <<Head1(p)[1], Head1(p)[2], Head(rest[p])>>
<1>1. /\ pc[p] = "feed" /\ together' = together
      /\ feed' = [feed EXCEPT ![item] = @ + 1]
      /\ pc' = [pc EXCEPT ![p] = "push"] /\ queue' = queue
  BY DEF Persist, history
<1>2. item \in Items /\ Head1(p) \in Notices /\ Head1(p) \in Range(queue[p])
  BY <1>1, PersistTypes, TailOfQueue
<1>3. (Busy \intersect Runs)' = Busy \intersect Runs
  BY <1>1 DEF Busy, TypeInv, TypeOK
<1>4. ASSUME NEW a \in Appointments
      PROVE  RemindersOf(a)' + Cardinality(Reminding(a)') <= Larger(together', 1)
  <2>1. /\ IsFiniteSet(Reminding(a)) /\ Cardinality(Reminding(a)) \in Nat
        /\ RemindersOf(a) \in Nat /\ <<Reminder, a, Client>> \in Items
    BY RemindingType
  <2>2. /\ RemindersOf(a) + Cardinality(Reminding(a)) <= Larger(together, 1)
        /\ Larger(together, 1) \in Nat
    BY LargerBounds DEF RemindersInv, RemindersOf, TypeInv, TypeOK
  <2>3. Reminding(a)' \subseteq Reminding(a) \ {p}
    BY <1>1 DEF Reminding, Head1, TypeInv, TypeOK, Processes
  <2>4. CASE item = <<Reminder, a, Client>>
    <3>1. Head1(p) = <<Reminder, a>>
      BY <1>2, <2>4 DEF Notices
    <3>2. p \in Runs
      BY <1>2, <3>1 DEF TypeInv, QueuesInv, Processes
    <3>3. p \in Reminding(a)
      BY <1>1, <3>1, <3>2 DEF Reminding
    <3>4. IsFiniteSet(Reminding(a) \ {p})
          /\ Cardinality(Reminding(a) \ {p}) = Cardinality(Reminding(a)) - 1
      BY <2>1, <3>3, FS_RemoveElement
    <3>5. /\ Cardinality(Reminding(a)') <= Cardinality(Reminding(a) \ {p})
          /\ Cardinality(Reminding(a)') \in Nat
      BY <2>3, <3>4, FS_Subset, FS_CardinalityType
    <3>6. RemindersOf(a)' = RemindersOf(a) + 1
      BY <1>1, <2>1, <2>4 DEF RemindersOf, TypeInv, TypeOK
    <3> QED BY <1>1, <2>1, <2>2, <3>4, <3>5, <3>6
  <2>5. CASE item # <<Reminder, a, Client>>
    <3>1. RemindersOf(a)' = RemindersOf(a)
      BY <1>1, <2>5 DEF RemindersOf, TypeInv, TypeOK
    <3>2. /\ Cardinality(Reminding(a)') <= Cardinality(Reminding(a))
          /\ Cardinality(Reminding(a)') \in Nat
      BY <2>1, <2>3, FS_Subset, FS_CardinalityType
    <3> QED BY <1>1, <2>1, <2>2, <3>1, <3>2
  <2> QED BY <2>4, <2>5
<1> QED BY <1>1, <1>3, <1>4 DEF RemindersInv, RemindersOf

(* At the start there is no reminder.                                      *)
LEMMA InitReminders == Init => RemindersInv
<1> SUFFICES ASSUME Init
             PROVE  RemindersInv
  OBVIOUS
<1>1. (Busy \intersect Runs) = {}
  BY DEF Init, Busy
<1>2. ASSUME NEW a \in Appointments
      PROVE  Reminding(a) = {} /\ feed[<<Reminder, a, Client>>] = 0
  <2>1. <<Reminder, a, Client>> \in Items
    BY DEF Items, Types, Recipients
  <2> QED BY <2>1 DEF Init, Reminding, Processes
<1>3. together = 0
  BY DEF Init
<1> QED BY <1>1, <1>2, <1>3, FS_EmptySet DEF RemindersInv, Larger

(* Every step keeps the types, and one reminder for each run at work.      *)
LEMMA StepReminders ==
  ASSUME TypeInv, RemindersInv, [Next]_vars
  PROVE  TypeInv' /\ RemindersInv'
<1>1. ASSUME NEW p \in Publishers, Decide(p)
      PROVE  TypeInv' /\ RemindersInv'
  <2>1. PICK q : GoOn(p, q)
    BY <1>1 DEF Decide, Begin
  <2>2. p \in Processes /\ p \notin Runs
    BY NotificationsAssumption DEF NotificationsAssumption, Processes
  <2>3. feed' = feed /\ together' = together
    BY <1>1 DEF Decide
  <2>4. OthersStay(p)
    BY <2>1 DEF GoOn, OthersStay, TypeInv, TypeOK
  <2> QED BY <1>1, <2>2, <2>3, <2>4, DecideTypes, NotReminding
<1>2. ASSUME NEW j \in Runs, StartRun(j) \/ CheckReminder(j)
      PROVE  TypeInv' /\ RemindersInv'
  BY <1>2, StartRunTypes, StartRunReminds, CheckTypes, CheckReminds
<1>3. ASSUME NEW p \in Processes, Persist(p)
      PROVE  TypeInv' /\ RemindersInv'
  BY <1>3, PersistTypes, PersistReminds
<1>4. ASSUME NEW p \in Processes, Push(p)
      PROVE  TypeInv' /\ RemindersInv'
  <2>1. pc[p] = "push" /\ pc' = pc /\ feed' = feed /\ together' = together
    BY <1>4 DEF Push, history
  <2> QED BY <1>4, <2>1, PushTypes, NotReminding
<1>5. ASSUME NEW p \in Processes, NextRecipient(p)
      PROVE  TypeInv' /\ RemindersInv'
  <2>1. pc[p] = "push" /\ feed' = feed /\ together' = together
    BY <1>5 DEF NextRecipient, database, history
  <2>2. p \notin Runs \/ pc'[p] # "feed"
    <3>1. p \in Runs => Len(rest[p]) = 1
      <4>1. p \in Runs => rest[p] = <<Client>>
        BY <2>1 DEF TypeInv, QueuesInv
      <4>2. Len(<<Client>>) = 1
        OBVIOUS
      <4> QED BY <4>1, <4>2
    <3>2. Len(rest[p]) = 1 => ~(Len(rest[p]) > 1)
      BY <2>1, LongerTail DEF TypeInv, TypeOK
    <3>3. p \in Runs => IsAt(p, Tail(queue[p]))
      BY <1>5, <3>1, <3>2, NextRecipientTypes
    <3> QED BY <3>3 DEF IsAt
  <2> QED BY <1>5, <2>1, <2>2, NextRecipientTypes, NotReminding
<1>6. ASSUME NEW p \in Processes, Fail(p)
      PROVE  TypeInv' /\ RemindersInv'
  <2>1. pc[p] # "idle" /\ feed' = feed /\ together' = together
    BY <1>6 DEF Fail, database
  <2>2. p \notin Runs \/ pc'[p] # "feed"
    BY <1>6, FailTypes DEF IsAt
  <2> QED BY <1>6, <2>1, <2>2, FailTypes, NotReminding
<1>7. ASSUME Crash
      PROVE  TypeInv' /\ RemindersInv'
  <2>1. \A p \in Processes : pc'[p] = "idle"
    BY <1>7, CrashTypes DEF IsAt
  <2>2. feed' = feed /\ together' = together
    BY <1>7 DEF Crash, database
  <2> QED BY <1>7, <2>1, <2>2, CrashTypes, NoneReminds DEF Processes, RemindersOf
<1>8. ASSUME \/ Tick
             \/ \E d \in Devices : Unsubscribe(d) \/ Expire(d) \/ \E x \in Recipients : Subscribe(d, x)
      PROVE  TypeInv' /\ RemindersInv'
  <2>1. TypeInv' /\ UNCHANGED <<feed, process, together>>
    BY <1>8, WorldTypes
  <2> QED BY <2>1, NoneReminds DEF process, RemindersOf
<1>9. CASE UNCHANGED vars
  <2>1. UNCHANGED <<feed, pc, queue, together>>
    BY <1>9 DEF vars, database, process, history
  <2> QED BY <1>9, <2>1, StutterTypes, NoneReminds DEF RemindersOf
<1>10. ASSUME NEW p \in Publishers, Return(p)
       PROVE  TypeInv' /\ RemindersInv'
  <2>1. feed' = feed /\ together' = together
    BY <1>10 DEF Return, database, history
  <2>2. p \in Processes /\ p \notin Runs
    BY NotificationsAssumption DEF NotificationsAssumption, Processes
  <2> QED BY <1>10, <2>1, <2>2, ReturnTypes, NotReminding
<1> QED BY <1>1, <1>2, <1>3, <1>4, <1>5, <1>6, <1>7, <1>8, <1>9, <1>10
         DEF Next, Publish, Remind, Notify

(* Type correctness, and what RemindedOnce rests on: a run that has found  *)
(* no reminder (the job's run) is at work together with every other        *)
(* that has, so there are never more of them than there were runs at once. *)
THEOREM TypeCorrectness == Spec => [](TypeInv /\ RemindersInv)
<1>1. Init => TypeInv /\ RemindersInv
  BY InitTypes, InitReminders
<1>2. TypeInv /\ RemindersInv /\ [Next]_vars => TypeInv' /\ RemindersInv'
  BY StepReminders
<1> QED BY <1>1, <1>2, PTL DEF Spec

(* The guard of the reminder job holds: one reminder per appointment,      *)
(* whatever fails or dies between its steps, and with runs that overlap at *)
(* most one for each of them.                                              *)
THEOREM RemindersOnce == Spec => []RemindedOnce
<1>1. ASSUME TypeInv, RemindersInv
      PROVE  RemindedOnce
  <2>1. ASSUME NEW a \in Appointments
        PROVE  feed[<<Reminder, a, Client>>] <= Larger(together, 1)
    <3>1. Cardinality(Reminding(a)) \in Nat /\ RemindersOf(a) \in Nat
      BY <1>1, RemindingType
    <3>2. RemindersOf(a) + Cardinality(Reminding(a)) <= Larger(together, 1)
      BY <1>1 DEF RemindersInv, RemindersOf
    <3>3. Larger(together, 1) \in Nat
      BY <1>1, LargerBounds DEF TypeInv, TypeOK
    <3>4. RemindersOf(a) <= Larger(together, 1)
      BY <3>1, <3>2, <3>3
    <3> QED BY <3>4 DEF RemindersOf
  <2> QED BY <2>1 DEF RemindedOnce
<1> QED BY <1>1, TypeCorrectness, PTL
-----------------------------------------------------------------------------
(* Everyone is told                                                        *)

(* The feed, the mails and the failures only grow.                         *)
Onward ==
  /\ \A i \in Items : feed[i] > 0 => feed'[i] > 0
  /\ mailed \subseteq mailed'
  /\ faults' = 0 => faults = 0

(* After a failure the count is not zero.                                  *)
LEMMA FaultyCounts ==
  ASSUME TypeInv, Faulty
  PROVE  faults' # 0
BY FaultyType

(* Every step leaves what has been heard.                                  *)
LEMMA StepOnward ==
  ASSUME TypeInv, [Next]_vars
  PROVE  Onward
<1>1. ASSUME feed' = feed, mailed' = mailed, faults' = faults
      PROVE  Onward
  BY <1>1 DEF Onward
<1>2. ASSUME NEW p \in Processes, Decide(p) \/ StartRun(p) \/ CheckReminder(p) \/ Return(p)
      PROVE  Onward
  BY <1>1, <1>2 DEF Decide, StartRun, CheckReminder, Return, world, database
<1>3. ASSUME NEW p \in Processes, Persist(p)
      PROVE  Onward
  <2> DEFINE item == <<Head1(p)[1], Head1(p)[2], Head(rest[p])>>
  <2>1. feed' = [feed EXCEPT ![item] = @ + 1] /\ mailed' = mailed /\ faults' = faults
    BY <1>3 DEF Persist, world
  <2> HIDE DEF item
  <2>2. ASSUME NEW i \in Items, feed[i] > 0
        PROVE  feed'[i] > 0
    BY <2>1, <2>2 DEF TypeInv, TypeOK
  <2> QED BY <2>1, <2>2 DEF Onward
<1>4. ASSUME NEW p \in Processes, Push(p)
      PROVE  Onward
  <2>1. feed' = feed /\ mailed' = mailed
    BY <1>4 DEF Push
  <2>2. faults' = faults \/ Faulty
    BY <1>4 DEF Push, Send
  <2> QED BY <2>1, <2>2, FaultyCounts DEF Onward
<1>5. ASSUME NEW p \in Processes, NextRecipient(p)
      PROVE  Onward
  <2>1. feed' = feed /\ mailed \subseteq mailed'
    BY <1>5 DEF NextRecipient, MailClient, database
  <2>2. faults' = faults \/ Faulty
    BY <1>5 DEF NextRecipient, MailClient
  <2> QED BY <2>1, <2>2, FaultyCounts DEF Onward
<1>6. ASSUME NEW p \in Processes, Fail(p)
      PROVE  Onward
  BY <1>6, FaultyCounts DEF Fail, database, Onward
<1>7. ASSUME Crash
      PROVE  Onward
  BY <1>7, FaultyCounts DEF Crash, database, Onward
<1>8. ASSUME \/ Tick
             \/ \E d \in Devices : Unsubscribe(d) \/ Expire(d) \/ \E x \in Recipients : Subscribe(d, x)
      PROVE  Onward
  BY <1>1, <1>8, WorldTypes
<1>9. CASE UNCHANGED vars
  BY <1>1, <1>9 DEF vars, database, world
<1> QED BY <1>2, <1>3, <1>4, <1>5, <1>6, <1>7, <1>8, <1>9 DEF Next, Publish, Remind, Notify

(* Whoever has heard of an event has heard of it for good.                 *)
LEMMA HeardStays ==
  ASSUME Onward, NEW e \in Notices, NEW x \in Recipients, HasHeard(x, e)
  PROVE  HasHeard(x, e)'
<1>1. <<e[1], e[2], x>> \in Items
  BY DEF Items, Notices
<1>2. feed'[<<e[1], e[2], x>>] > 0
  BY <1>1 DEF Onward, HasHeard
<1>3. x = Client /\ faults' = 0 => e \in mailed'
  BY DEF Onward, HasHeard
<1> QED BY <1>2, <1>3 DEF HasHeard

NoticeOf(p) ==
  pc[p] # "idle" =>
    /\ Range(rest[p]) \subseteq Audience(Head1(p))
    /\ \A x \in Audience(Head1(p)) : x \in Range(rest[p]) \/ HasHeard(x, Head1(p))
    /\ pc[p] = "push" => feed[<<Head1(p)[1], Head1(p)[2], Head(rest[p])>>] > 0
    /\ pc[p] = "return" => Audience(Head1(p)) = {}

(* A publisher whose notice and recipients stay.                           *)
LEMMA NoticeStays ==
  ASSUME TypeInv, NEW p \in Publishers, NoticeOf(p), Onward,
         queue'[p] = queue[p], rest'[p] = rest[p], pc'[p] = pc[p]
  PROVE  NoticeOf(p)'
<1> SUFFICES ASSUME pc[p] # "idle"
             PROVE  NoticeOf(p)'
  BY DEF NoticeOf
<1>1. p \in Processes /\ Head1(p) \in Notices /\ Head1(p)' = Head1(p)
  BY TailOfQueue DEF Processes, Head1
<1>2. ASSUME NEW x \in Audience(Head1(p))
      PROVE  x \in Range(rest[p]) \/ HasHeard(x, Head1(p))'
  <2>1. x \in Recipients
    BY AudienceType, NotificationsAssumption
  <2>2. CASE HasHeard(x, Head1(p))
    <3>1. PICK e \in Notices : e = Head1(p)
      BY <1>1
    <3>2. HasHeard(x, e)'
      BY <2>1, <2>2, <3>1, HeardStays
    <3>3. e = Head1(p)'
      BY <1>1, <3>1
    <3> QED BY <3>2, <3>3 DEF HasHeard
  <2> QED BY <2>2 DEF NoticeOf
<1>3. ASSUME pc[p] = "push"
      PROVE  feed'[<<Head1(p)[1], Head1(p)[2], Head(rest[p])>>] > 0
  <2>1. rest[p] \in Seq(Recipients) /\ rest[p] # << >>
    BY <1>1, <1>3 DEF TypeInv, TypeOK
  <2>2. <<Head1(p)[1], Head1(p)[2], Head(rest[p])>> \in Items
    BY <1>1, <2>1, HeadAndTail DEF Items, Notices
  <2> QED BY <1>3, <2>2 DEF NoticeOf, Onward
<1> QED BY <1>1, <1>2, <1>3 DEF NoticeOf

(* A publisher that has gone on is at the first recipient of its notice,   *)
(* if it has any.                                                          *)
LEMMA NoticeBegins ==
  ASSUME NEW p \in Publishers, NEW q, IsAt(p, q)
  PROVE  NoticeOf(p)'
<1>1. p \notin Runs
  BY NotificationsAssumption DEF NotificationsAssumption
<1>2. CASE q = << >>
  BY <1>2 DEF IsAt, NoticeOf
<1>3. CASE q # << >>
  <2>1. /\ pc'[p] = IF Audience(Head(q)) = {} THEN "return" ELSE "feed"
        /\ Head1(p)' = Head(q) /\ Range(rest'[p]) = Audience(Head(q))
    BY <1>1, <1>3 DEF IsAt, Head1
  <2> QED BY <2>1 DEF NoticeOf
<1> QED BY <1>2, <1>3

(* A row of the feed for the recipient in turn.                            *)
LEMMA NoticePersisted ==
  ASSUME TypeInv, NEW p \in Publishers, NoticeOf(p), Persist(p), Onward
  PROVE  NoticeOf(p)'
<1> DEFINE item == <<Head1(p)[1], Head1(p)[2], Head(rest[p])>>
<1>1. p \in Processes
  BY DEF Processes
<1>2. /\ pc[p] = "feed" /\ feed' = [feed EXCEPT ![item] = @ + 1]
      /\ item \in Items /\ queue'[p] = queue[p] /\ rest'[p] = rest[p] /\ pc'[p] = "push"
  BY <1>1, PersistTypes DEF Persist
<1>3. Head1(p) \in Notices /\ Head1(p)' = Head1(p)
  BY <1>1, <1>2, TailOfQueue DEF Head1
<1> HIDE DEF item
<1>4. feed'[item] > 0
  BY <1>2 DEF TypeInv, TypeOK
<1>5. ASSUME NEW x \in Audience(Head1(p))
      PROVE  x \in Range(rest[p]) \/ HasHeard(x, Head1(p))'
  <2>1. x \in Recipients
    BY AudienceType, NotificationsAssumption
  <2>2. CASE HasHeard(x, Head1(p))
    <3>1. PICK e \in Notices : e = Head1(p)
      BY <1>3
    <3>2. HasHeard(x, e)'
      BY <2>1, <2>2, <3>1, HeardStays
    <3>3. e = Head1(p)'
      BY <1>3, <3>1
    <3> QED BY <3>2, <3>3 DEF HasHeard
  <2> QED BY <1>2, <2>2 DEF NoticeOf
<1> QED BY <1>2, <1>3, <1>4, <1>5 DEF NoticeOf, item

(* Whoever p has been through with has heard.                              *)
LEMMA HeadHasHeard ==
  ASSUME TypeInv, NEW p \in Publishers, NoticeOf(p), NextRecipient(p), Onward,
         NEW e \in Notices, e = Head1(p), NEW x \in Audience(e),
         x = Head(rest[p]) \/ x \notin Range(rest[p])
  PROVE  HasHeard(x, e)'
<1>1. p \in Processes /\ pc[p] = "push" /\ feed' = feed /\ MailClient(p)
  BY DEF NextRecipient, database, Processes
<1>2. x \in Recipients
  BY AudienceType, NotificationsAssumption
<1>3. CASE x = Head(rest[p])
  <2>1. feed[<<e[1], e[2], x>>] > 0
    BY <1>1, <1>3 DEF NoticeOf
  <2>2. ASSUME x = Client, faults' = 0
        PROVE  e \in mailed'
    <3>1. ~Faulty
      BY <2>2, FaultyCounts
    <3> QED BY <1>1, <1>3, <2>2, <3>1 DEF MailClient
  <2> QED BY <1>1, <2>1, <2>2 DEF HasHeard
<1>4. CASE x # Head(rest[p])
  <2>1. HasHeard(x, e)
    BY <1>1, <1>4 DEF NoticeOf
  <2> QED BY <1>2, <2>1, HeardStays
<1> QED BY <1>3, <1>4

(* The recipient in turn has heard; the others are left.                   *)
LEMMA NoticeGoesOn ==
  ASSUME TypeInv, NEW p \in Publishers, NoticeOf(p), NextRecipient(p), Onward
  PROVE  NoticeOf(p)'
<1>1. p \in Processes /\ pc[p] = "push"
  BY DEF NextRecipient, Processes
<1>2. CASE IsAt(p, Tail(queue[p]))
  BY <1>2, NoticeBegins
<1>3. CASE /\ rest'[p] = Tail(rest[p]) /\ rest'[p] # << >>
           /\ pc'[p] = "feed" /\ queue'[p] = queue[p] /\ targets'[p] = {}
  <2>1. PICK e \in Notices : e = Head1(p)
    BY <1>1, TailOfQueue
  <2>2. e = Head1(p)'
    BY <1>3, <2>1 DEF Head1
  <2>3. rest[p] \in Seq(Recipients) /\ rest[p] # << >>
    BY <1>1 DEF TypeInv, TypeOK
  <2>4. /\ Range(Tail(rest[p])) \subseteq Range(rest[p])
        /\ \A x \in Range(rest[p]) : x = Head(rest[p]) \/ x \in Range(Tail(rest[p]))
    BY <2>3, HeadAndTail
  <2>5. Range(rest'[p]) \subseteq Audience(e)
    BY <1>1, <1>3, <2>1, <2>4 DEF NoticeOf
  <2>6. ASSUME NEW x \in Audience(e), x \notin Range(rest'[p])
        PROVE  HasHeard(x, e)'
    BY <1>3, <2>1, <2>4, <2>6, HeadHasHeard
  <2> QED BY <1>3, <2>2, <2>5, <2>6 DEF NoticeOf
<1> QED BY <1>1, <1>2, <1>3, NextRecipientTypes

(* The invariant, publisher by publisher.                                  *)
LEMMA NoticesAre == NoticesInv <=> \A p \in Publishers : NoticeOf(p)
BY DEF NoticesInv, NoticeOf

(* A step of p alone, after which p's own notice is in order.              *)
LEMMA NoticesStay ==
  ASSUME TypeInv, NoticesInv, Onward, NEW p \in Processes, OthersStay(p),
         p \in Publishers => NoticeOf(p)'
  PROVE  NoticesInv'
<1>1. ASSUME NEW o \in Publishers
      PROVE  NoticeOf(o)'
  <2>1. CASE o = p
    BY <2>1
  <2>2. CASE o # p
    <3>1. queue'[o] = queue[o] /\ rest'[o] = rest[o] /\ pc'[o] = pc[o]
      BY <2>2 DEF OthersStay, Processes
    <3>2. NoticeOf(o)
      BY NoticesAre
    <3> QED BY <3>1, <3>2, NoticeStays
  <2> QED BY <2>1, <2>2
<1> QED BY <1>1 DEF NoticesInv, NoticeOf

(* Every step keeps what is left of each notice.                           *)
LEMMA StepNotices ==
  ASSUME TypeInv, RemindersInv, NoticesInv, [Next]_vars
  PROVE  NoticesInv'
<1>1. TypeInv' /\ Onward
  BY StepReminders, StepOnward
<1>2. \A p \in Publishers : NoticeOf(p)
  BY NoticesAre
<1>3. ASSUME NEW p \in Publishers, Decide(p)
      PROVE  NoticesInv'
  <2>1. PICK a \in Appointments, d \in Decisions :
          Begin(p, [i \in DOMAIN d.events |-> <<PullEvents(d)[i], a>>])
    BY <1>3 DEF Decide
  <2>2. PICK q \in Seq(Notices) : GoOn(p, q)
    BY <2>1, DecisionNotices DEF Begin
  <2>3. p \in Processes /\ ProcessTypes
    BY DEF Processes, TypeInv, TypeOK, ProcessTypes, Notices
  <2>4. OthersStay(p) /\ IsAt(p, q)
    BY <2>2, <2>3, GoOnTypes
  <2>5. NoticeOf(p)'
    BY <2>4, NoticeBegins
  <2> QED BY <1>1, <2>3, <2>4, <2>5, NoticesStay
<1>4. ASSUME NEW j \in Runs, StartRun(j) \/ CheckReminder(j)
      PROVE  NoticesInv'
  <2>1. j \in Processes /\ j \notin Publishers
    BY NotificationsAssumption DEF NotificationsAssumption, Processes
  <2>2. OthersStay(j)
    BY <1>4, <2>1 DEF StartRun, CheckReminder, Begin, Continue, GoOn, OthersStay, TypeInv, TypeOK
  <2> QED BY <1>1, <2>1, <2>2, NoticesStay
<1>5. ASSUME NEW p \in Processes, Persist(p)
      PROVE  NoticesInv'
  BY <1>1, <1>2, <1>5, PersistTypes, NoticePersisted, NoticesStay
<1>6. ASSUME NEW p \in Processes, Push(p)
      PROVE  NoticesInv'
  <2>1. pc' = pc /\ queue' = queue /\ rest' = rest
    BY <1>6 DEF Push
  <2>2. p \in Publishers => NoticeOf(p)'
    BY <1>1, <1>2, <2>1, NoticeStays
  <2> QED BY <1>1, <1>6, <2>2, PushTypes, NoticesStay
<1>7. ASSUME NEW p \in Processes, NextRecipient(p)
      PROVE  NoticesInv'
  BY <1>1, <1>2, <1>7, NextRecipientTypes, NoticeGoesOn, NoticesStay
<1>8. ASSUME NEW p \in Processes, Fail(p)
      PROVE  NoticesInv'
  BY <1>1, <1>8, FailTypes, NoticeBegins, NoticesStay
<1>9. ASSUME Crash
      PROVE  NoticesInv'
  <2>1. \A p \in Publishers : NoticeOf(p)'
    BY <1>9, CrashTypes, NoticeBegins DEF Processes
  <2> QED BY <2>1 DEF NoticesInv, NoticeOf
<1>10. ASSUME UNCHANGED <<pc, queue, rest>>
       PROVE  NoticesInv'
  <2>1. \A p \in Publishers : NoticeOf(p)'
    BY <1>1, <1>2, <1>10, NoticeStays
  <2> QED BY <2>1 DEF NoticesInv, NoticeOf
<1>11. ASSUME \/ Tick
              \/ \E d \in Devices : Unsubscribe(d) \/ Expire(d) \/ \E x \in Recipients : Subscribe(d, x)
       PROVE  NoticesInv'
  BY <1>10, <1>11, WorldTypes DEF process
<1>12. CASE UNCHANGED vars
  BY <1>10, <1>12 DEF vars, process
<1>13. ASSUME NEW p \in Processes, Return(p)
       PROVE  NoticesInv'
  BY <1>1, <1>13, ReturnTypes, NoticeBegins, NoticesStay
<1> QED BY <1>3, <1>4, <1>5, <1>6, <1>7, <1>8, <1>9, <1>11, <1>12, <1>13
         DEF Next, Publish, Remind, Notify, Processes

Queued(e) == \E p \in Publishers : e \in Range(queue[p])
Heard(e) == \A x \in Audience(e) : HasHeard(x, e)

(* And so has everyone that it is for.                                     *)
LEMMA AllHeardStays ==
  ASSUME Onward, NEW e \in Notices, Heard(e)
  PROVE  Heard(e)'
<1>1. ASSUME NEW x \in Audience(e)
      PROVE  HasHeard(x, e)'
  <2>1. x \in Recipients
    BY AudienceType, NotificationsAssumption
  <2> QED BY <2>1, HeardStays DEF Heard
<1> QED BY <1>1 DEF Heard

(* A step of p alone: what leaves its queue is lost or has been heard.     *)
LEMMA ToldStays ==
  ASSUME TypeInv, Told, Onward, NEW p \in Processes, OthersStay(p),
         published' = published, lost \subseteq lost',
         p \in Publishers => \A e \in Range(queue[p]) : e \in Range(queue'[p]) \/ e \in lost' \/ Heard(e)'
  PROVE  Told'
<1>1. ASSUME NEW e \in published' \ lost'
      PROVE  Queued(e)' \/ Heard(e)'
  <2>1. e \in Notices /\ e \in published \ lost
    BY <1>1 DEF TypeInv, TypeOK, Notices
  <2>2. Queued(e) \/ Heard(e)
    BY <2>1 DEF Told, Queued, Heard
  <2>3. CASE Heard(e)
    BY <2>1, <2>3, AllHeardStays
  <2>4. ASSUME NEW o \in Publishers, e \in Range(queue[o])
        PROVE  Queued(e)' \/ Heard(e)'
    <3>1. CASE o = p
      BY <1>1, <2>4, <3>1 DEF Queued
    <3>2. CASE o # p
      <4>1. queue'[o] = queue[o]
        BY <3>2 DEF OthersStay, Processes
      <4> QED BY <2>4, <4>1 DEF Queued
    <3> QED BY <3>1, <3>2
  <2> QED BY <2>2, <2>3, <2>4 DEF Queued
<1> QED BY <1>1 DEF Told, Queued, Heard

(* The events of a decision are in the queue of its publisher.             *)
LEMMA DecideTold ==
  ASSUME TypeInv, Told, Onward, NEW p \in Publishers, Decide(p)
  PROVE  Told'
<1>1. PICK a \in Appointments, d \in Decisions :
        /\ Begin(p, [i \in DOMAIN d.events |-> <<PullEvents(d)[i], a>>])
        /\ published' = published \union {<<e, a>> : e \in Range(d.events)}
  BY DEF Decide
<1> DEFINE q == [i \in DOMAIN d.events |-> <<PullEvents(d)[i], a>>]
<1>2. q \in Seq(Notices) /\ {<<e, a>> : e \in Range(d.events)} \subseteq Notices \intersect Range(q)
  BY DecisionNotices
<1>3. pc[p] = "idle" /\ GoOn(p, q) /\ lost' = lost
  BY <1>1 DEF Begin, Decide
<1> HIDE DEF q
<1>4. p \in Processes /\ ProcessTypes
  BY DEF Processes, TypeInv, TypeOK, ProcessTypes, Notices
<1>5. OthersStay(p) /\ queue'[p] = q
  BY <1>2, <1>3, <1>4, GoOnTypes DEF IsAt
<1>6. Range(queue[p]) = {}
  <2>1. queue[p] = << >>
    BY <1>3, <1>4 DEF ProcessTypes
  <2> QED BY <2>1 DEF Range
<1>7. ASSUME NEW e \in published' \ lost'
      PROVE  Queued(e)' \/ Heard(e)'
  <2>1. CASE e \in Range(q)
    BY <1>5, <2>1 DEF Queued
  <2>2. CASE e \notin Range(q)
    <3>1. e \in Notices /\ e \in published \ lost
      BY <1>1, <1>2, <1>3, <1>7, <2>2 DEF TypeInv, TypeOK, Notices
    <3>2. CASE Heard(e)
      BY <3>1, <3>2, AllHeardStays
    <3>3. ASSUME NEW o \in Publishers, e \in Range(queue[o])
          PROVE  Queued(e)'
      <4>1. o # p /\ queue'[o] = queue[o]
        BY <1>5, <1>6, <3>3 DEF OthersStay, Processes
      <4> QED BY <3>3, <4>1 DEF Queued
    <3> QED BY <3>1, <3>2, <3>3 DEF Told, Queued, Heard
  <2> QED BY <2>1, <2>2
<1> QED BY <1>7 DEF Told, Queued, Heard

(* Every step keeps the promise.                                           *)
LEMMA StepTold ==
  ASSUME TypeInv, RemindersInv, NoticesInv, Told, [Next]_vars
  PROVE  Told'
<1>1. Onward
  BY StepOnward
<1>2. ASSUME NEW p \in Publishers, Decide(p)
      PROVE  Told'
  BY <1>1, <1>2, DecideTold
<1>3. ASSUME NEW j \in Runs, StartRun(j) \/ CheckReminder(j)
      PROVE  Told'
  <2>1. j \in Processes /\ j \notin Publishers
    BY NotificationsAssumption DEF NotificationsAssumption, Processes
  <2>2. OthersStay(j)
    BY <1>3, <2>1 DEF StartRun, CheckReminder, Begin, Continue, GoOn, OthersStay, TypeInv, TypeOK
  <2>3. published' = published /\ lost' = lost
    BY <1>3 DEF StartRun, CheckReminder, history
  <2> QED BY <1>1, <2>1, <2>2, <2>3, ToldStays
<1>4. ASSUME NEW p \in Processes, Persist(p) \/ Push(p)
      PROVE  Told'
  <2>1. queue' = queue /\ published' = published /\ lost' = lost
    BY <1>4 DEF Persist, Push, history
  <2>2. OthersStay(p)
    BY <1>4, PersistTypes, PushTypes
  <2> QED BY <1>1, <2>1, <2>2, ToldStays
<1>5. ASSUME NEW p \in Processes, NextRecipient(p)
      PROVE  Told'
  <2>1. pc[p] = "push" /\ published' = published /\ lost' = lost
    BY <1>5 DEF NextRecipient, history
  <2>2. ASSUME p \in Publishers, NEW e \in Range(queue[p]), e \notin Range(queue'[p])
        PROVE  Heard(e)'
    <3>1. queue[p] \in Seq(Notices) /\ queue[p] # << >> /\ Head1(p) \in Notices
      BY <2>1, TailOfQueue
    <3>2. Len(rest[p]) = 1 /\ queue'[p] = Tail(queue[p])
      BY <1>5, <2>2, NextRecipientTypes DEF IsAt
    <3>3. e \in Notices /\ e = Head1(p)
      BY <2>2, <3>1, <3>2, HeadAndTail DEF Head1
    <3>4. \A x \in Range(rest[p]) : x = Head(rest[p])
      <4>1. rest[p] \in Seq(Recipients) /\ rest[p] # << >>
        BY <2>1 DEF TypeInv, TypeOK
      <4>2. Tail(rest[p]) \in Seq(Recipients) /\ Len(Tail(rest[p])) = 0
        BY <3>2, <4>1, HeadTailProperties
      <4>3. Tail(rest[p]) = << >>
        BY <4>2, EmptySeq
      <4>4. Range(Tail(rest[p])) = {}
        BY <4>3 DEF Range
      <4> QED BY <4>1, <4>4, HeadAndTail
    <3>5. NoticeOf(p)
      BY <2>2, NoticesAre
    <3>6. ASSUME NEW x \in Audience(e)
          PROVE  HasHeard(x, e)'
      BY <1>1, <1>5, <2>2, <3>3, <3>4, <3>5, HeadHasHeard
    <3> QED BY <3>6 DEF Heard
  <2> QED BY <1>1, <1>5, <2>1, <2>2, NextRecipientTypes, ToldStays
<1>6. ASSUME NEW p \in Processes, Fail(p)
      PROVE  Told'
  <2>1. pc[p] # "idle" /\ published' = published /\ lost \subseteq lost'
    BY <1>6 DEF Fail
  <2>2. ASSUME p \in Publishers, NEW e \in Range(queue[p])
        PROVE  e \in Range(queue'[p]) \/ e \in lost'
    <3>1. queue[p] \in Seq(Notices) /\ queue[p] # << >>
      BY <2>1, TailOfQueue
    <3>2. queue'[p] = Tail(queue[p]) /\ Head1(p) \in lost'
      BY <1>6, <2>2, FailTypes DEF IsAt
    <3> QED BY <2>2, <3>1, <3>2, HeadAndTail DEF Head1
  <2> QED BY <1>1, <1>6, <2>1, <2>2, FailTypes, ToldStays
<1>7. ASSUME Crash
      PROVE  Told'
  <2>1. ASSUME NEW e \in published' \ lost'
        PROVE  Heard(e)'
    <3>1. e \in Notices /\ e \in published \ lost /\ ~Queued(e)
      BY <1>7, <2>1 DEF Crash, TypeInv, TypeOK, Notices, Queued
    <3>2. Heard(e)
      BY <3>1 DEF Told, Queued, Heard
    <3> QED BY <1>1, <3>1, <3>2, AllHeardStays
  <2> QED BY <2>1 DEF Told, Heard
<1>8. ASSUME UNCHANGED <<queue, published, lost>>
      PROVE  Told'
  <2>1. ASSUME NEW e \in published' \ lost'
        PROVE  Queued(e)' \/ Heard(e)'
    <3>1. e \in Notices /\ (Queued(e) \/ Heard(e))
      BY <1>8, <2>1 DEF Told, Queued, Heard, TypeInv, TypeOK, Notices
    <3> QED BY <1>1, <1>8, <3>1, AllHeardStays DEF Queued
  <2> QED BY <2>1 DEF Told, Queued, Heard
<1>9. ASSUME \/ Tick
             \/ \E d \in Devices : Unsubscribe(d) \/ Expire(d) \/ \E x \in Recipients : Subscribe(d, x)
      PROVE  Told'
  BY <1>8, <1>9, WorldTypes DEF process
<1>10. CASE UNCHANGED vars
  BY <1>8, <1>10 DEF vars, process, history
<1>11. ASSUME NEW p \in Publishers, Return(p)
       PROVE  Told'
  <2>1. /\ pc[p] = "return" /\ p \in Processes
        /\ published' = published /\ lost' = lost
    BY <1>11 DEF Return, history, Processes
  <2>2. ASSUME NEW e \in Range(queue[p]), e \notin Range(queue'[p])
        PROVE  Heard(e)'
    <3>1. queue[p] \in Seq(Notices) /\ queue[p] # << >>
      BY <2>1, TailOfQueue
    <3>2. queue'[p] = Tail(queue[p])
      BY <1>11, <2>1, ReturnTypes DEF IsAt
    <3>3. e = Head1(p)
      BY <2>2, <3>1, <3>2, HeadAndTail DEF Head1
    <3>4. Audience(e) = {}
      BY <2>1, <3>3 DEF NoticesInv
    <3> QED BY <3>4 DEF Heard
  <2> QED BY <1>1, <1>11, <2>1, <2>2, ReturnTypes, ToldStays
<1> QED BY <1>2, <1>3, <1>4, <1>5, <1>6, <1>7, <1>9, <1>10, <1>11 DEF Next, Publish, Remind, Notify

(* The publisher's handlers are independent: every event of a decision     *)
(* reaches everyone whom its handler is to tell (the staff of a booking    *)
(* only if the client made it), but for the events whose own handler       *)
(* failed or died.                                                         *)
THEOREM EveryoneIsTold == Spec => [](NoticesInv /\ Told)
<1>1. Init => NoticesInv /\ Told
  BY DEF Init, NoticesInv, Told, Processes
<1>2. TypeInv /\ RemindersInv /\ NoticesInv /\ Told /\ [Next]_vars => NoticesInv' /\ Told'
  BY StepNotices, StepTold
<1> QED BY <1>1, <1>2, TypeCorrectness, PTL DEF Spec
-----------------------------------------------------------------------------
(* The last word                                                           *)

LEMMA WhoIsTold ==
  ASSUME NEW a
  PROVE  /\ \A type \in {"requested", "depositConfirmed", "confirmed", "rejected", "cancelled"} :
              Client \in Audience(<<type, a>>)
         /\ Client \notin Audience(<<"created", a>>)
BY NotificationsAssumption DEF Audience, Recipients, NotificationsAssumption

(* The client hears nothing of a decision, and what was said before still  *)
(* holds; or the last that the client hears of it says what it came to.    *)
LEMMA DecisionEnds ==
  ASSUME NEW d \in Decisions, NEW a
  PROVE  \/ /\ \A k \in DOMAIN d.events : Client \notin Audience(<<d.events[k], a>>)
            /\ LastWordOn(d.from) \subseteq LastWordOn(d.to)
         \/ \E n \in DOMAIN d.events :
              /\ Client \in Audience(<<d.events[n], a>>) /\ d.events[n] \in LastWordOn(d.to)
              /\ \A k \in DOMAIN d.events : Client \in Audience(<<d.events[k], a>>) => k = n \/ k < n
<1>1. CASE d.events = <<"requested", "created">> /\ d.to = "PENDING_DEPOSIT"
  <2>1. DOMAIN d.events = {1, 2} /\ d.events[1] = "requested" /\ d.events[2] = "created"
    BY <1>1
  <2> QED BY <1>1, <2>1, WhoIsTold DEF LastWordOn
<1>2. CASE d.events = <<"created">> /\ d.from = "NONE"
  <2>1. DOMAIN d.events = {1} /\ d.events[1] = "created"
    BY <1>2
  <2>2. LastWordOn(d.from) = {}
    BY <1>2 DEF LastWordOn
  <2> QED BY <2>1, <2>2, WhoIsTold
<1>3. CASE d.events \in {<<"created", "confirmed">>, <<"depositConfirmed", "confirmed">>} /\ d.to = "CONFIRMED"
  <2>1. /\ DOMAIN d.events = {1, 2} /\ d.events[2] = "confirmed"
        /\ d.to = "CONFIRMED"
    BY <1>3
  <2>2. Client \in Audience(<<d.events[2], a>>) /\ d.events[2] \in LastWordOn(d.to)
    BY <2>1, WhoIsTold DEF LastWordOn
  <2>3. 2 \in DOMAIN d.events /\ \A k \in DOMAIN d.events : k = 2 \/ k < 2
    BY <2>1
  <2> QED BY <2>2, <2>3
<1>4. CASE d.events = <<"confirmed">> /\ d.to = "CONFIRMED"
  <2>1. DOMAIN d.events = {1} /\ d.events[1] = "confirmed"
    BY <1>4
  <2> QED BY <1>4, <2>1, WhoIsTold DEF LastWordOn
<1>5. CASE d.events = <<"rejected">> /\ d.to = "REJECTED"
  <2>1. DOMAIN d.events = {1} /\ d.events[1] = "rejected"
    BY <1>5
  <2> QED BY <1>5, <2>1, WhoIsTold DEF LastWordOn
<1>6. CASE d.events = <<"cancelled">> /\ d.to = "CANCELLED"
  <2>1. DOMAIN d.events = {1} /\ d.events[1] = "cancelled"
    BY <1>6
  <2> QED BY <1>6, <2>1, WhoIsTold DEF LastWordOn
<1>7. CASE d.events = << >> /\ d.from = "CONFIRMED" /\ d.to \in {"COMPLETED", "NO_SHOW"}
  <2>1. DOMAIN d.events = {}
    BY <1>7
  <2> QED BY <1>7, <2>1 DEF LastWordOn
<1> QED BY <1>1, <1>2, <1>3, <1>4, <1>5, <1>6, <1>7 DEF Decisions

(* Nothing of q is for the client; q[n] is the last that is, and says what *)
(* the decision d on a came to.                                            *)
Silent(q) == \A k \in DOMAIN q : Client \notin Audience(q[k])

SaysLast(q, n, d, a) ==
  /\ Client \in Audience(q[n]) /\ q[n][2] = a /\ q[n][1] \in LastWordOn(d.to)
  /\ \A k \in DOMAIN q : Client \in Audience(q[k]) => q[k][2] = a /\ (k = n \/ k < n)

(* So it is of the queue that they make.                                   *)
LEMMA EventsEndWell ==
  ASSUME NEW a \in Appointments, NEW d \in Decisions,
         NEW q, q = [i \in DOMAIN d.events |-> <<PullEvents(d)[i], a>>]
  PROVE  \/ Silent(q) /\ LastWordOn(d.from) \subseteq LastWordOn(d.to)
         \/ \E n \in DOMAIN q : SaysLast(q, n, d, a)
<1>1. DOMAIN q = DOMAIN d.events /\ \A i \in DOMAIN q : q[i] = <<d.events[i], a>>
  BY DEF PullEvents
<1>2. \A i \in DOMAIN q : q[i][1] = d.events[i] /\ q[i][2] = a
  BY <1>1
<1>3. CASE /\ \A k \in DOMAIN d.events : Client \notin Audience(<<d.events[k], a>>)
           /\ LastWordOn(d.from) \subseteq LastWordOn(d.to)
  BY <1>1, <1>3 DEF Silent
<1>4. ASSUME NEW n \in DOMAIN d.events,
             Client \in Audience(<<d.events[n], a>>) /\ d.events[n] \in LastWordOn(d.to),
             \A k \in DOMAIN d.events : Client \in Audience(<<d.events[k], a>>) => k = n \/ k < n
      PROVE  n \in DOMAIN q /\ SaysLast(q, n, d, a)
  BY <1>1, <1>2, <1>4 DEF SaysLast
<1> QED BY <1>3, <1>4, DecisionEnds

(* A queue ends well without its head, too.                                *)
LEMMA TailEndsWell ==
  ASSUME NEW q \in Seq(Notices), q # << >>, EndsWell(q)
  PROVE  EndsWell(Tail(q))
<1>1. /\ Tail(q) \in Seq(Notices) /\ Len(Tail(q)) = Len(q) - 1
      /\ \A i \in 1 .. Len(Tail(q)) : Tail(q)[i] = q[i+1]
  BY HeadTailProperties
<1>2. /\ DOMAIN q = 1 .. Len(q) /\ DOMAIN Tail(q) = 1 .. Len(Tail(q))
      /\ Len(q) \in Nat /\ Len(Tail(q)) \in Nat
  BY <1>1, LenProperties
<1>3. ASSUME NEW k \in DOMAIN Tail(q), Client \in Audience(Tail(q)[k])
      PROVE  \/ IsLastWord(Tail(q)[k])
             \/ \E i \in DOMAIN Tail(q) :
                  /\ k < i /\ Client \in Audience(Tail(q)[i])
                  /\ Tail(q)[i][2] = Tail(q)[k][2] /\ IsLastWord(Tail(q)[i])
  <2>1. k + 1 \in DOMAIN q /\ Tail(q)[k] = q[k+1] /\ k \in Nat
    BY <1>1, <1>2
  <2>2. CASE IsLastWord(q[k+1])
    BY <2>1, <2>2
  <2>3. CASE ~IsLastWord(q[k+1])
    <3>1. PICK i \in DOMAIN q : /\ k + 1 < i /\ Client \in Audience(q[i])
                                /\ q[i][2] = q[k+1][2] /\ IsLastWord(q[i])
      BY <1>3, <2>1, <2>3 DEF EndsWell
    <3>2. i \in Nat /\ i - 1 \in DOMAIN Tail(q) /\ k < i - 1
      BY <1>1, <1>2, <2>1, <3>1
    <3>3. Tail(q)[i - 1] = q[i]
      BY <1>1, <1>2, <3>1, <3>2
    <3> QED BY <2>1, <3>1, <3>2, <3>3
  <2> QED BY <2>2, <2>3
<1> QED BY <1>3 DEF EndsWell

(* Steps of p alone, which do not touch the devices.                       *)
LEMMA DevicesStay ==
  ASSUME DevicesInv, NEW p \in Processes, OthersStay(p), gone' = gone, owner' = owner, touched' = touched,
         \A d \in Devices \ touched : d \in targets'[p] => Head(rest'[p]) = Client
  PROVE  DevicesInv'
<1>1. ASSUME NEW d \in Devices \ touched, NEW o \in Processes, d \in targets'[o]
      PROVE  Head(rest'[o]) = Client
  <2>1. CASE o = p
    BY <1>1, <2>1
  <2>2. CASE o # p
    BY <1>1, <2>2 DEF OthersStay, DevicesInv
  <2> QED BY <2>1, <2>2
<1> QED BY <1>1 DEF DevicesInv

(* Every step keeps the devices that have not changed hands the client's.  *)
LEMMA StepDevices ==
  ASSUME TypeInv, RemindersInv, DevicesInv, [Next]_vars
  PROVE  DevicesInv'
<1>1. ASSUME NEW p \in Processes, OthersStay(p), targets'[p] = {},
             gone' = gone, owner' = owner, touched' = touched
      PROVE  DevicesInv'
  BY <1>1, DevicesStay
<1>2. ASSUME NEW p \in Processes, NEW q, GoOn(p, q), gone' = gone, owner' = owner, touched' = touched
      PROVE  DevicesInv'
  <2>1. OthersStay(p) /\ targets'[p] = {}
    BY <1>2 DEF GoOn, OthersStay, TypeInv, TypeOK
  <2> QED BY <1>1, <1>2, <2>1
<1>3. ASSUME NEW p \in Processes, Decide(p) \/ StartRun(p)
      PROVE  DevicesInv'
  <2>1. PICK q : GoOn(p, q)
    BY <1>3 DEF Decide, StartRun, Begin
  <2>2. gone' = gone /\ owner' = owner /\ touched' = touched
    BY <1>3 DEF Decide, StartRun, world, database
  <2> QED BY <1>2, <2>1, <2>2
<1>4. ASSUME NEW j \in Runs, CheckReminder(j)
      PROVE  DevicesInv'
  <2>1. gone' = gone /\ owner' = owner /\ touched' = touched /\ j \in Processes
    BY <1>4 DEF CheckReminder, world, database, history, Processes
  <2>2. CASE Due(Head1(j)[2], runAt[j])
    <3>1. /\ rest' = [rest EXCEPT ![j] = <<Client>>] /\ pc' = [pc EXCEPT ![j] = "feed"]
          /\ targets' = targets /\ queue' = queue
      BY <1>4, <2>2 DEF CheckReminder
    <3>2. rest'[j] = <<Client>>
      BY <2>1, <3>1 DEF TypeInv, TypeOK
    <3>3. Head(rest'[j]) = Client
      BY <3>2
    <3>4. OthersStay(j)
      BY <3>1 DEF OthersStay, TypeInv, TypeOK
    <3> QED BY <2>1, <3>3, <3>4, DevicesStay
  <2>3. CASE ~Due(Head1(j)[2], runAt[j])
    BY <1>2, <1>4, <2>1, <2>3 DEF CheckReminder, Continue
  <2> QED BY <2>2, <2>3
<1>5. ASSUME NEW p \in Processes, Persist(p)
      PROVE  DevicesInv'
  <2>1. gone' = gone /\ owner' = owner /\ touched' = touched
    BY <1>5 DEF Persist, world, history
  <2>2. OthersStay(p) /\ rest'[p] = rest[p] /\ targets'[p] = ActiveDevices(Head(rest[p]))
    BY <1>5, PersistTypes
  <2>3. \A d \in Devices \ touched : d \in targets'[p] => Head(rest'[p]) = Client
    BY <2>2 DEF ActiveDevices, DevicesInv
  <2> QED BY <2>1, <2>2, <2>3, DevicesStay
<1>6. ASSUME NEW p \in Processes, Push(p)
      PROVE  DevicesInv'
  <2>1. gone' = gone /\ owner' = owner /\ touched' = touched /\ rest' = rest
    BY <1>6 DEF Push, history
  <2>2. targets'[p] \subseteq targets[p]
    BY <1>6 DEF Push, TypeInv, TypeOK
  <2>3. \A d \in Devices \ touched : d \in targets'[p] => Head(rest'[p]) = Client
    BY <2>1, <2>2 DEF DevicesInv
  <2> QED BY <1>6, <2>1, <2>3, PushTypes, DevicesStay
<1>7. ASSUME NEW p \in Processes, NextRecipient(p)
      PROVE  DevicesInv'
  <2>1. gone' = gone /\ owner' = owner /\ touched' = touched
    BY <1>7 DEF NextRecipient, database, history
  <2>2. OthersStay(p) /\ targets'[p] = {}
    BY <1>7, NextRecipientTypes DEF IsAt
  <2> QED BY <1>1, <2>1, <2>2
<1>12. ASSUME NEW p \in Processes, Return(p)
       PROVE  DevicesInv'
  <2>1. gone' = gone /\ owner' = owner /\ touched' = touched
    BY <1>12 DEF Return, database, world, history
  <2> QED BY <1>2, <1>12, <2>1 DEF Return, Continue
<1>8. ASSUME NEW p \in Processes, Fail(p)
      PROVE  DevicesInv'
  <2>1. gone' = gone /\ owner' = owner /\ touched' = touched
    BY <1>8 DEF Fail, database
  <2> QED BY <1>2, <1>8, <2>1 DEF Fail, Continue
<1>9. ASSUME Crash
      PROVE  DevicesInv'
  BY <1>9 DEF Crash, database, DevicesInv
<1>10. ASSUME Tick \/ UNCHANGED vars
       PROVE  DevicesInv'
  BY <1>10 DEF Tick, vars, database, world, process, history, DevicesInv
<1>11. ASSUME NEW d \in Devices, Unsubscribe(d) \/ Expire(d) \/ \E x \in Recipients : Subscribe(d, x)
       PROVE  DevicesInv'
  <2>1. /\ touched' = touched \union {d} /\ UNCHANGED <<targets, rest>>
        /\ gone' = gone \/ gone' = gone \union {d}
        /\ \A c \in Devices \ {d} : owner'[c] = owner[c]
    BY <1>11 DEF Unsubscribe, Expire, Subscribe, Upsert, Change, world, process, database, TypeInv, TypeOK
  <2> QED BY <2>1 DEF DevicesInv
<1> QED BY <1>3, <1>4, <1>5, <1>6, <1>7, <1>8, <1>9, <1>10, <1>11, <1>12
         DEF Next, Publish, Remind, Notify, Processes

Calm == faults = 0 /\ ~mixed
Alone == \A p, q \in Busy : p = q
RunsConfirm == \A j \in Runs : \A e \in Range(queue[j]) : e[1] = Reminder /\ status[e[2]] = "CONFIRMED"
AllEndWell == \A p \in Publishers : EndsWell(queue[p])
AllShow == \A d \in Devices \ touched, a \in Appointments : Shows(d, a)

(* Whoever begins while all is calm, begins alone.                         *)
LEMMA BeginsAlone ==
  ASSUME TypeInv, NEW p \in Processes, NEW q, Begin(p, q), ~mixed'
  PROVE  /\ \A o \in Processes : pc[o] = "idle" /\ queue[o] = << >>
         /\ Alone'
<1>1. Busy = {} /\ GoOn(p, q)
  BY DEF Begin
<1>2. \A o \in Processes : pc[o] = "idle" /\ queue[o] = << >>
  BY <1>1 DEF Busy, TypeInv, TypeOK
<1>3. \A o \in Processes \ {p} : pc'[o] = pc[o]
  BY <1>1 DEF GoOn, TypeInv, TypeOK
<1>4. Busy' \subseteq {p}
  BY <1>2, <1>3 DEF Busy
<1> QED BY <1>2, <1>4 DEF Alone

(* Nothing is to come while no publisher is at work.                       *)
LEMMA IdleShows ==
  ASSUME \A p \in Publishers : queue[p] = << >>, NEW d, NEW a, Shows(d, a)
  PROVE  screen[d][a] = Nothing \/ IsLastWord(<<screen[d][a], a>>)
<1>1. \A p \in Publishers : Ahead(p, d) = {}
  BY DEF Ahead
<1> QED BY <1>1 DEF Shows

(* A decision, with nobody at work: what the client last hears of it is    *)
(* what it came to, and of one that the client hears nothing of, what was  *)
(* said before still holds.                                                *)
LEMMA DecideScreens ==
  ASSUME TypeInv, NEW p \in Publishers, Decide(p), ~mixed', AllShow
  PROVE  Alone' /\ RunsConfirm' /\ AllEndWell' /\ AllShow'
<1>1. PICK a \in Appointments, d \in Decisions :
        /\ status[a] = d.from
        /\ status' = [status EXCEPT ![a] = d.to]
        /\ Begin(p, [i \in DOMAIN d.events |-> <<PullEvents(d)[i], a>>])
  BY DEF Decide
<1> PICK q : q = [i \in DOMAIN d.events |-> <<PullEvents(d)[i], a>>]
  OBVIOUS
<1>2. q \in Seq(Notices)
  BY DecisionNotices
<1>3. \/ Silent(q) /\ LastWordOn(d.from) \subseteq LastWordOn(d.to)
      \/ \E n \in DOMAIN q : SaysLast(q, n, d, a)
  BY EventsEndWell
<1>15. status'[a] = d.to
  BY <1>1 DEF TypeInv, TypeOK
<1>4. Begin(p, q)
  BY <1>1
<1>5. p \in Processes /\ ProcessTypes /\ p \notin Runs
  BY NotificationsAssumption DEF Processes, TypeInv, TypeOK, ProcessTypes, Notices, NotificationsAssumption
<1>6. OthersStay(p) /\ IsAt(p, q)
  BY <1>2, <1>4, <1>5, GoOnTypes DEF Begin
<1>8. /\ \A o \in Processes : pc[o] = "idle" /\ queue[o] = << >>
      /\ Alone'
  BY <1>4, <1>5, BeginsAlone
<1>9. Range(<< >>) = {} /\ DOMAIN << >> = {}
  BY DEF Range
<1>10. \A o \in Processes \ {p} : queue'[o] = << >>
  BY <1>6, <1>8 DEF OthersStay
<1>11. RunsConfirm'
  BY <1>5, <1>9, <1>10 DEF RunsConfirm, Processes
<1>12. AllEndWell'
  <2>1. ASSUME NEW o \in Publishers
        PROVE  EndsWell(queue[o])'
    <3>1. CASE o = p
      <4>1. queue'[o] = q
        BY <1>6, <3>1 DEF IsAt
      <4>2. CASE Silent(q)
        BY <4>1, <4>2 DEF EndsWell, Silent
      <4>3. ASSUME NEW n \in DOMAIN q, SaysLast(q, n, d, a)
            PROVE  EndsWell(queue[o])'
        BY <1>15, <4>1, <4>3 DEF EndsWell, IsLastWord, SaysLast
      <4> QED BY <1>3, <4>2, <4>3
    <3>2. CASE o # p
      BY <1>9, <1>10, <3>2 DEF EndsWell, Processes
    <3> QED BY <3>1, <3>2
  <2> QED BY <2>1 DEF AllEndWell
<1>13. screen' = screen /\ touched' = touched
  BY DEF Decide, world
<1>14. ASSUME NEW c \in Devices \ touched, NEW b \in Appointments
       PROVE  Shows(c, b)'
  <2>1. CASE b # a
    <3>1. status'[b] = status[b]
      BY <1>1, <2>1 DEF TypeInv, TypeOK
    <3>2. screen[c][b] = Nothing \/ IsLastWord(<<screen[c][b], b>>)
      BY <1>8, IdleShows DEF AllShow, Processes
    <3> QED BY <1>13, <3>1, <3>2 DEF Shows, IsLastWord
  <2>2. CASE b = a /\ LastWordOn(d.from) \subseteq LastWordOn(d.to)
    <3>1. screen[c][a] = Nothing \/ screen[c][a] \in LastWordOn(d.from)
      BY <1>1, <1>8, IdleShows DEF AllShow, Processes, IsLastWord
    <3>2. screen[c][a] = Nothing \/ screen[c][a] \in LastWordOn(d.to)
      BY <2>2, <3>1
    <3> QED BY <1>13, <1>15, <2>2, <3>2 DEF Shows, IsLastWord
  <2>3. ASSUME b = a, NEW n \in DOMAIN q, SaysLast(q, n, d, a)
        PROVE  Shows(c, b)'
    <3>1. q # << >> /\ (n = 1 => Head(q) = q[n])
      BY <1>9
    <3>2. queue'[p] = q
      BY <1>6 DEF IsAt
    <3>3. n = 1 => Head(rest'[p]) = Client /\ pc'[p] = "feed"
      BY <1>5, <1>6, <2>3, <3>1 DEF IsAt, SaysLast
    <3>4. n \in Ahead(p, c)'
      BY <2>3, <3>2, <3>3 DEF Ahead, SaysLast
    <3>5. queue'[p][n][2] = b /\ IsLastWord(queue[p][n])'
      BY <1>15, <2>3, <3>2 DEF IsLastWord, SaysLast
    <3> QED BY <3>4, <3>5 DEF Shows
  <2> QED BY <1>3, <2>1, <2>2, <2>3
<1> QED BY <1>8, <1>11, <1>12, <1>13, <1>14 DEF AllShow

(* Nobody begins, and so nobody joins.                                     *)
LEMMA AloneStays ==
  ASSUME Alone, \A p \in Processes : pc'[p] # "idle" => pc[p] # "idle"
  PROVE  Alone'
BY DEF Alone, Busy

(* No status changes, and no run has more to give.                         *)
LEMMA ConfirmingStays ==
  ASSUME RunsConfirm, status' = status, \A j \in Runs : Range(queue'[j]) \subseteq Range(queue[j])
  PROVE  RunsConfirm'
BY DEF RunsConfirm

(* The publishers stay, and so does what is shown.                         *)
LEMMA ShownAsBefore ==
  ASSUME AllEndWell, AllShow, status' = status, screen' = screen, touched \subseteq touched',
         \A p \in Publishers : /\ queue'[p] = queue[p] /\ rest'[p] = rest[p]
                               /\ pc'[p] = pc[p] /\ targets'[p] = targets[p]
  PROVE  AllEndWell' /\ AllShow'
<1>1. AllEndWell'
  <2>1. ASSUME NEW p \in Publishers
        PROVE  EndsWell(queue[p])'
    <3>1. EndsWell(queue[p]) /\ queue'[p] = queue[p]
      BY DEF AllEndWell
    <3> QED BY <3>1 DEF EndsWell, IsLastWord
  <2> QED BY <2>1 DEF AllEndWell
<1>2. ASSUME NEW d \in Devices \ touched', NEW a \in Appointments
      PROVE  Shows(d, a)'
  <2>1. Shows(d, a)
    BY DEF AllShow
  <2>2. ASSUME NEW p \in Publishers, NEW i \in Ahead(p, d),
               queue[p][i][2] = a, IsLastWord(queue[p][i])
        PROVE  Shows(d, a)'
    <3>1. i \in Ahead(p, d)'
      BY DEF Ahead
    <3>2. queue'[p][i][2] = a /\ IsLastWord(queue[p][i])'
      BY <2>2 DEF IsLastWord
    <3> QED BY <3>1, <3>2 DEF Shows
  <2>3. ASSUME screen[d][a] = Nothing \/ IsLastWord(<<screen[d][a], a>>)
        PROVE  Shows(d, a)'
    BY <2>3 DEF Shows, IsLastWord
  <2> QED BY <2>1, <2>2, <2>3 DEF Shows
<1> QED BY <1>1, <1>2 DEF AllShow

(* A run that starts alone has read only what is confirmed.                *)
LEMMA StartRunScreens ==
  ASSUME TypeInv, NEW j \in Runs, StartRun(j), ~mixed', AllEndWell, AllShow
  PROVE  Alone' /\ RunsConfirm' /\ AllEndWell' /\ AllShow'
<1> DEFINE S == ConfirmedStartingBetween(now, now + MAX_LEAD_HOURS)
<1>1. PICK b \in Batches(S) : Begin(j, [i \in DOMAIN b |-> <<Reminder, b[i]>>])
  BY DEF StartRun
<1>2. S \subseteq Appointments /\ \A a \in S : status[a] = "CONFIRMED"
  BY DEF ConfirmedStartingBetween
<1>3. b \in Seq(S)
  BY <1>2, BatchType, NotificationsAssumption
<1> PICK q : q = [i \in DOMAIN b |-> <<Reminder, b[i]>>]
  OBVIOUS
<1>4. q \in Seq(Notices) /\ \A e \in Range(q) : e[1] = Reminder /\ e[2] \in S
  BY <1>2, <1>3, BatchNotices
<1>5. Begin(j, q)
  BY <1>1
<1> HIDE DEF S
<1>6. j \in Processes /\ ProcessTypes /\ j \notin Publishers
  BY NotificationsAssumption DEF Processes, TypeInv, TypeOK, ProcessTypes, Notices, NotificationsAssumption
<1>7. OthersStay(j) /\ IsAt(j, q)
  BY <1>4, <1>5, <1>6, GoOnTypes DEF Begin
<1>8. /\ \A o \in Processes : pc[o] = "idle" /\ queue[o] = << >>
      /\ Alone'
  BY <1>5, <1>6, BeginsAlone
<1>9. status' = status /\ screen' = screen /\ touched' = touched
  BY DEF StartRun, database, world
<1>10. RunsConfirm'
  <2>1. ASSUME NEW o \in Runs, NEW e \in Range(queue'[o])
        PROVE  e[1] = Reminder /\ status'[e[2]] = "CONFIRMED"
    <3>1. CASE o = j
      BY <1>2, <1>4, <1>7, <1>9, <2>1, <3>1 DEF IsAt
    <3>2. CASE o # j
      <4>1. queue'[o] = << >>
        BY <1>7, <1>8, <3>2 DEF OthersStay, Processes
      <4> QED BY <2>1, <4>1 DEF Range
    <3> QED BY <3>1, <3>2
  <2> QED BY <2>1 DEF RunsConfirm
<1>11. \A p \in Publishers : /\ queue'[p] = queue[p] /\ rest'[p] = rest[p]
                             /\ pc'[p] = pc[p] /\ targets'[p] = targets[p]
  BY <1>6, <1>7 DEF OthersStay, Processes
<1> QED BY <1>8, <1>9, <1>10, <1>11, ShownAsBefore

(* A process at work, without the publishers.                              *)
LEMMA RunScreens ==
  ASSUME TypeInv, NEW j \in Runs, pc[j] # "idle", OthersStay(j), j \in Processes,
         status' = status, touched' = touched, screen' = screen,
         Range(queue'[j]) \subseteq Range(queue[j]),
         Alone, RunsConfirm, AllEndWell, AllShow
  PROVE  Alone' /\ RunsConfirm' /\ AllEndWell' /\ AllShow'
<1>1. j \notin Publishers
  BY NotificationsAssumption DEF NotificationsAssumption
<1>2. \A p \in Publishers : /\ queue'[p] = queue[p] /\ rest'[p] = rest[p]
                            /\ pc'[p] = pc[p] /\ targets'[p] = targets[p]
  BY <1>1 DEF OthersStay, Processes
<1>3. \A o \in Runs : Range(queue'[o]) \subseteq Range(queue[o])
  BY DEF OthersStay, Processes
<1>4. \A o \in Processes : pc'[o] # "idle" => pc[o] # "idle"
  BY DEF OthersStay
<1> QED BY <1>2, <1>3, <1>4, AloneStays, ConfirmingStays, ShownAsBefore

(* A check of a run shows nothing.                                         *)
LEMMA CheckScreens ==
  ASSUME TypeInv, NEW j \in Runs, CheckReminder(j), Alone, RunsConfirm, AllEndWell, AllShow
  PROVE  Alone' /\ RunsConfirm' /\ AllEndWell' /\ AllShow'
<1>1. /\ pc[j] # "idle" /\ j \in Processes
      /\ status' = status /\ touched' = touched /\ screen' = screen
  BY DEF CheckReminder, database, world, history, Processes
<1>2. OthersStay(j)
  BY DEF CheckReminder, Continue, GoOn, OthersStay, TypeInv, TypeOK
<1>3. queue'[j] = queue[j] \/ queue'[j] = Tail(queue[j])
  BY <1>1 DEF CheckReminder, Continue, GoOn, Skip, TypeInv, TypeOK
<1>4. Range(queue'[j]) \subseteq Range(queue[j])
  BY <1>1, <1>3, TailOfQueue
<1> QED BY <1>1, <1>2, <1>4, RunScreens

(* The devices to push to are all that the client has.                     *)
LEMMA PersistScreens ==
  ASSUME TypeInv, DevicesInv, NEW p \in Processes, Persist(p), Alone, RunsConfirm, AllEndWell, AllShow
  PROVE  Alone' /\ RunsConfirm' /\ AllEndWell' /\ AllShow'
<1>1. /\ pc[p] = "feed" /\ queue' = queue /\ rest' = rest
      /\ status' = status /\ touched' = touched /\ screen' = screen
  BY DEF Persist, world, history
<1>2. OthersStay(p) /\ pc'[p] = "push" /\ targets'[p] = ActiveDevices(Head(rest[p]))
  BY PersistTypes
<1>3. Alone'
  BY <1>1, <1>2, AloneStays DEF OthersStay
<1>4. RunsConfirm'
  BY <1>1, ConfirmingStays
<1>5. AllEndWell'
  BY <1>1 DEF AllEndWell, EndsWell, IsLastWord
<1>6. ASSUME NEW d \in Devices \ touched, NEW a \in Appointments
      PROVE  Shows(d, a)'
  <2>1. Shows(d, a)
    BY DEF AllShow
  <2>2. ASSUME NEW o \in Publishers, NEW i \in Ahead(o, d),
               queue[o][i][2] = a, IsLastWord(queue[o][i])
        PROVE  Shows(d, a)'
    <3>1. i \in Ahead(o, d)'
      <4>1. CASE o # p
        BY <1>1, <1>2, <4>1 DEF Ahead, OthersStay, Processes
      <4>2. CASE o = p
        <5>1. d \in ActiveDevices(Client)
          BY DEF ActiveDevices, DevicesInv, TypeInv, TypeOK
        <5>2. i = 1 => Head(rest'[p]) = Client /\ pc'[p] = "push" /\ d \in targets'[p]
          BY <1>1, <1>2, <4>2, <5>1 DEF Ahead
        <5> QED BY <1>1, <4>2, <5>2 DEF Ahead
      <4> QED BY <4>1, <4>2
    <3>2. queue'[o][i][2] = a /\ IsLastWord(queue[o][i])'
      BY <1>1, <2>2 DEF IsLastWord
    <3> QED BY <3>1, <3>2 DEF Shows
  <2>3. ASSUME screen[d][a] = Nothing \/ IsLastWord(<<screen[d][a], a>>)
        PROVE  Shows(d, a)'
    BY <1>1, <2>3 DEF Shows, IsLastWord
  <2> QED BY <2>1, <2>2, <2>3 DEF Shows
<1> QED BY <1>1, <1>3, <1>4, <1>5, <1>6 DEF AllShow

(* A push to a device of the client that has not changed hands.            *)
LEMMA PushScreens ==
  ASSUME TypeInv, NoticesInv, DevicesInv, NEW p \in Processes, Push(p), faults' = 0,
         Alone, RunsConfirm, AllEndWell, AllShow
  PROVE  Alone' /\ RunsConfirm' /\ AllEndWell' /\ AllShow'
<1>1. PICK c \in targets[p] : Send(p, c) /\ targets' = [targets EXCEPT ![p] = @ \ {c}]
  BY DEF Push
<1>2. /\ pc[p] = "push" /\ pc' = pc /\ queue' = queue /\ rest' = rest
      /\ status' = status /\ touched' = touched
  BY DEF Push, history
<1>3. OthersStay(p) /\ targets'[p] = targets[p] \ {c}
  BY <1>1, PushTypes DEF TypeInv, TypeOK
<1>4. Alone'
  BY <1>2, AloneStays
<1>5. RunsConfirm'
  BY <1>2, ConfirmingStays
<1>6. AllEndWell'
  BY <1>2 DEF AllEndWell, EndsWell, IsLastWord
<1>7. Head1(p) \in Notices /\ queue[p] \in Seq(Notices) /\ queue[p] # << >> /\ Head1(p) \in Range(queue[p])
  BY <1>2, TailOfQueue
<1>8. Head1(p) = queue[p][1] /\ 1 \in DOMAIN queue[p]
  <2>1. Len(queue[p]) \in Nat \ {0} /\ DOMAIN queue[p] = 1 .. Len(queue[p])
    BY <1>7, EmptySeq, LenProperties
  <2> QED BY <2>1 DEF Head1
<1>9. \/ /\ c \notin gone
         /\ screen' = [screen EXCEPT ![c][Head1(p)[2]] = Head1(p)[1]]
      \/ c \in touched /\ screen' = screen
  <2>1. ~Faulty
    BY FaultyCounts
  <2> QED BY <1>1, <2>1 DEF Send, DevicesInv
<1>10. \A d \in Devices, a \in Appointments :
         d # c \/ a # Head1(p)[2] => screen'[d][a] = screen[d][a] \/ d \in touched
  BY <1>9 DEF TypeInv, TypeOK
(* What is still to come, but for the notice that c has just been given.   *)
<1>11. ASSUME NEW d \in Devices, NEW o \in Publishers, NEW i \in Ahead(o, d), o # p \/ d # c \/ i # 1
       PROVE  i \in Ahead(o, d)'
  <2>1. CASE o # p
    BY <1>2, <1>3, <2>1 DEF Ahead, OthersStay, Processes
  <2>2. CASE o = p
    <3>1. i = 1 => Head(rest'[p]) = Client /\ (pc'[p] = "feed" \/ d \in targets'[p])
      BY <1>2, <1>3, <1>11, <2>2 DEF Ahead
    <3> QED BY <1>2, <2>2, <3>1 DEF Ahead
  <2> QED BY <2>1, <2>2
<1>12. ASSUME NEW d \in Devices \ touched, NEW a \in Appointments
       PROVE  Shows(d, a)'
  <2>1. CASE d # c \/ a # Head1(p)[2]
    <3>1. Shows(d, a) /\ screen'[d][a] = screen[d][a]
      BY <1>10, <2>1 DEF AllShow
    <3>2. ASSUME NEW o \in Publishers, NEW i \in Ahead(o, d),
                 queue[o][i][2] = a, IsLastWord(queue[o][i])
          PROVE  Shows(d, a)'
      <4>1. o # p \/ d # c \/ i # 1
        BY <1>8, <2>1, <3>2
      <4>2. i \in Ahead(o, d)'
        BY <1>11, <4>1
      <4>3. queue'[o][i][2] = a /\ IsLastWord(queue[o][i])'
        BY <1>2, <3>2 DEF IsLastWord
      <4> QED BY <4>2, <4>3 DEF Shows
    <3>3. ASSUME screen[d][a] = Nothing \/ IsLastWord(<<screen[d][a], a>>)
          PROVE  Shows(d, a)'
      BY <1>2, <3>1, <3>3 DEF Shows, IsLastWord
    <3> QED BY <3>1, <3>2, <3>3 DEF Shows
  <2>2. CASE d = c /\ a = Head1(p)[2]
    <3>1. screen'[d][a] = Head1(p)[1]
      BY <1>9, <2>2 DEF TypeInv, TypeOK
    <3>2. Head(rest[p]) = Client
      BY <1>1, <2>2 DEF DevicesInv
    <3>3. CASE IsLastWord(Head1(p))
      BY <1>2, <2>2, <3>1, <3>3 DEF Shows, IsLastWord
    <3>4. CASE p \in Runs
      <4>1. Head1(p)[1] = Reminder /\ status[a] = "CONFIRMED"
        BY <1>7, <2>2, <3>4 DEF RunsConfirm
      <4>2. IsLastWord(Head1(p))
        BY <2>2, <4>1 DEF IsLastWord, LastWordOn
      <4> QED BY <3>3, <4>2
    <3>5. CASE p \in Publishers /\ ~IsLastWord(Head1(p))
      <4>1. Client \in Audience(queue[p][1])
        <5>1. rest[p] \in Seq(Recipients) /\ rest[p] # << >>
          BY <1>2 DEF TypeInv, TypeOK
        <5>2. Client \in Range(rest[p])
          BY <3>2, <5>1, HeadAndTail
        <5>3. Range(rest[p]) \subseteq Audience(Head1(p))
          BY <1>2, <3>5 DEF NoticesInv
        <5> QED BY <1>8, <5>2, <5>3
      <4>2. PICK i \in DOMAIN queue[p] :
              /\ 1 < i /\ Client \in Audience(queue[p][i])
              /\ queue[p][i][2] = queue[p][1][2] /\ IsLastWord(queue[p][i])
        BY <1>8, <3>5, <4>1 DEF AllEndWell, EndsWell
      <4>3. i # 1
        BY <4>2
      <4>4. i \in Ahead(p, d)'
        BY <1>2, <4>2, <4>3 DEF Ahead
      <4>5. queue'[p][i][2] = a /\ IsLastWord(queue[p][i])'
        BY <1>2, <1>8, <2>2, <4>2 DEF IsLastWord
      <4> QED BY <3>5, <4>4, <4>5 DEF Shows
    <3> QED BY <3>3, <3>4, <3>5 DEF Processes
  <2> QED BY <2>1, <2>2
<1> QED BY <1>2, <1>4, <1>5, <1>6, <1>12 DEF AllShow

(* A process is through with the client's devices for its head.            *)
LEMMA HeadIsDone ==
  ASSUME TypeInv, NEW p \in Processes, pc[p] # "idle", OthersStay(p),
         status' = status, touched' = touched, screen' = screen,
         queue'[p] = queue[p] \/ IsAt(p, Tail(queue[p])),
         \A d \in Devices : 1 \notin Ahead(p, d),
         Alone, RunsConfirm, AllEndWell, AllShow
  PROVE  Alone' /\ RunsConfirm' /\ AllEndWell' /\ AllShow'
<1>3. queue[p] \in Seq(Notices) /\ queue[p] # << >>
  BY TailOfQueue
<1>4. queue'[p] = queue[p] \/ queue'[p] = Tail(queue[p])
  BY DEF IsAt
<1>5. Alone'
  BY AloneStays DEF OthersStay
<1>6. RunsConfirm'
  <2>1. Range(queue'[p]) \subseteq Range(queue[p])
    BY <1>4, TailOfQueue
  <2>2. \A j \in Runs : Range(queue'[j]) \subseteq Range(queue[j])
    BY <2>1 DEF OthersStay, Processes
  <2> QED BY <2>2, ConfirmingStays
<1>7. AllEndWell'
  <2>1. ASSUME NEW o \in Publishers
        PROVE  EndsWell(queue[o])'
    <3>1. EndsWell(queue[o])
      BY DEF AllEndWell
    <3>2. CASE queue'[o] = queue[o]
      BY <3>1, <3>2 DEF EndsWell, IsLastWord
    <3>3. CASE o = p /\ queue'[o] = Tail(queue[o])
      <4>1. EndsWell(Tail(queue[o]))
        BY <1>3, <3>1, <3>3, TailEndsWell
      <4> QED BY <3>3, <4>1 DEF EndsWell, IsLastWord
    <3> QED BY <1>4, <3>2, <3>3 DEF OthersStay, Processes
  <2> QED BY <2>1 DEF AllEndWell
<1>8. ASSUME NEW d \in Devices, NEW i \in Ahead(p, d), p \in Publishers, IsAt(p, Tail(queue[p]))
      PROVE  i - 1 \in Ahead(p, d)' /\ queue'[p][i - 1] = queue[p][i]
  <2>1. i \in DOMAIN queue[p] /\ i # 1 /\ Client \in Audience(queue[p][i])
    BY DEF Ahead
  <2>2. /\ DOMAIN queue[p] = 1 .. Len(queue[p]) /\ Len(queue[p]) \in Nat
        /\ Tail(queue[p]) \in Seq(Notices) /\ Len(Tail(queue[p])) = Len(queue[p]) - 1
        /\ \A k \in 1 .. Len(Tail(queue[p])) : Tail(queue[p])[k] = queue[p][k+1]
    BY <1>3, HeadTailProperties, LenProperties
  <2>3. /\ i - 1 \in 1 .. Len(Tail(queue[p])) /\ DOMAIN Tail(queue[p]) = 1 .. Len(Tail(queue[p]))
        /\ Tail(queue[p])[i - 1] = queue[p][i]
    <3>1. i - 1 \in 1 .. Len(Tail(queue[p])) /\ (i - 1) + 1 = i
      BY <2>1, <2>2
    <3> QED BY <2>2, <3>1, LenProperties
  <2>4. queue'[p] = Tail(queue[p])
    BY <1>8 DEF IsAt
  <2>5. Tail(queue[p]) # << >>
    <3>1. DOMAIN << >> = {}
      OBVIOUS
    <3> QED BY <2>3, <3>1
  <2>6. i - 1 = 1 => Head(rest'[p]) = Client /\ pc'[p] = "feed"
    <3>1. i - 1 = 1 => Head(Tail(queue[p])) = queue[p][i]
      BY <2>3
    <3>2. Client \in Audience(Head(Tail(queue[p]))) => Head(rest'[p]) = Client /\ pc'[p] = "feed"
      BY <1>8, <2>5, NotificationsAssumption DEF IsAt, NotificationsAssumption
    <3> QED BY <2>1, <3>1, <3>2
  <2> QED BY <2>1, <2>3, <2>4, <2>6 DEF Ahead
<1>9. ASSUME NEW d \in Devices \ touched, NEW a \in Appointments
      PROVE  Shows(d, a)'
  <2>1. Shows(d, a)
    BY DEF AllShow
  <2>2. ASSUME NEW o \in Publishers, NEW i \in Ahead(o, d),
               queue[o][i][2] = a, IsLastWord(queue[o][i])
        PROVE  Shows(d, a)'
    <3>1. CASE o = p /\ IsAt(p, Tail(queue[p]))
      <4>1. i - 1 \in Ahead(o, d)' /\ queue'[o][i - 1] = queue[o][i]
        BY <1>8, <3>1
      <4>2. queue'[o][i - 1][2] = a /\ IsLastWord(queue[o][i - 1])'
        BY <2>2, <4>1 DEF IsLastWord
      <4> QED BY <4>1, <4>2 DEF Shows
    <3>2. CASE o # p \/ ~IsAt(p, Tail(queue[p]))
      <4>1. queue'[o] = queue[o]
        BY <3>2 DEF OthersStay, Processes
      <4>2. i \in Ahead(o, d)'
        <5>1. CASE o # p
          BY <5>1 DEF Ahead, OthersStay, Processes
        <5>2. CASE o = p
          <6>1. i # 1
            BY <2>2, <5>2
          <6> QED BY <4>1, <6>1 DEF Ahead
        <5> QED BY <5>1, <5>2
      <4>3. queue'[o][i][2] = a /\ IsLastWord(queue[o][i])'
        BY <2>2, <4>1 DEF IsLastWord
      <4> QED BY <4>2, <4>3 DEF Shows
    <3> QED BY <3>1, <3>2
  <2>3. ASSUME screen[d][a] = Nothing \/ IsLastWord(<<screen[d][a], a>>)
        PROVE  Shows(d, a)'
    BY <2>3 DEF Shows, IsLastWord
  <2> QED BY <2>1, <2>2, <2>3 DEF Shows
<1> QED BY <1>5, <1>6, <1>7, <1>9 DEF AllShow

(* The client's devices are through before the next recipient.             *)
LEMMA NextRecipientScreens ==
  ASSUME TypeInv, NEW p \in Processes, NextRecipient(p), Alone, RunsConfirm, AllEndWell, AllShow
  PROVE  Alone' /\ RunsConfirm' /\ AllEndWell' /\ AllShow'
<1>1. /\ pc[p] = "push" /\ targets[p] = {}
      /\ status' = status /\ touched' = touched /\ screen' = screen
  BY DEF NextRecipient, database, history
<1>2. OthersStay(p) /\ (queue'[p] = queue[p] \/ IsAt(p, Tail(queue[p])))
  BY NextRecipientTypes
<1>3. \A d \in Devices : 1 \notin Ahead(p, d)
  BY <1>1 DEF Ahead
<1> QED BY <1>1, <1>2, <1>3, HeadIsDone

(* A handler that returns has nothing for the client.                      *)
LEMMA ReturnScreens ==
  ASSUME TypeInv, NoticesInv, NEW p \in Publishers, Return(p), Alone, RunsConfirm, AllEndWell, AllShow
  PROVE  Alone' /\ RunsConfirm' /\ AllEndWell' /\ AllShow'
<1>1. /\ pc[p] = "return" /\ p \in Processes
      /\ status' = status /\ touched' = touched /\ screen' = screen
  BY DEF Return, database, world, history, Processes
<1>2. OthersStay(p) /\ IsAt(p, Tail(queue[p]))
  BY <1>1, ReturnTypes
<1>3. Audience(queue[p][1]) = {}
  <2>1. Audience(Head1(p)) = {}
    BY <1>1 DEF NoticesInv
  <2>2. queue[p] \in Seq(Notices) /\ queue[p] # << >>
    BY <1>1, TailOfQueue
  <2> QED BY <2>1, <2>2 DEF Head1
<1>4. \A d \in Devices : 1 \notin Ahead(p, d)
  BY <1>3 DEF Ahead
<1> QED BY <1>1, <1>2, <1>4, HeadIsDone

(* Every step keeps it.                                                    *)
LEMMA StepScreens ==
  ASSUME TypeInv, RemindersInv, NoticesInv, ScreenInv, [Next]_vars
  PROVE  ScreenInv'
<1>1. DevicesInv /\ DevicesInv'
  BY StepDevices DEF ScreenInv
<1> SUFFICES ASSUME faults' = 0, ~mixed'
             PROVE  Alone' /\ RunsConfirm' /\ AllEndWell' /\ AllShow'
  BY <1>1 DEF ScreenInv, Alone, RunsConfirm, AllEndWell, AllShow
<1>2. faults = 0 /\ ~Faulty
  BY StepOnward, FaultyCounts DEF Onward
<1>3. ~mixed
  BY <1>2 DEF Next, Publish, Remind, Notify, Decide, StartRun, Begin, CheckReminder, Persist, Push,
              NextRecipient, Return, Fail, Crash, Tick, Unsubscribe, Expire, Subscribe, vars, history
<1>4. Alone /\ RunsConfirm /\ AllEndWell /\ AllShow
  BY <1>2, <1>3 DEF ScreenInv, Alone, RunsConfirm, AllEndWell, AllShow
<1>5. ASSUME UNCHANGED <<status, screen, process>>, touched \subseteq touched'
      PROVE  Alone' /\ RunsConfirm' /\ AllEndWell' /\ AllShow'
  <2>1. UNCHANGED <<pc, queue, rest, targets>>
    BY <1>5 DEF process
  <2> QED BY <1>4, <1>5, <2>1, AloneStays, ConfirmingStays, ShownAsBefore
<1>6. ASSUME NEW p \in Publishers, Decide(p)
      PROVE  Alone' /\ RunsConfirm' /\ AllEndWell' /\ AllShow'
  BY <1>4, <1>6, DecideScreens
<1>7. ASSUME NEW j \in Runs, StartRun(j)
      PROVE  Alone' /\ RunsConfirm' /\ AllEndWell' /\ AllShow'
  BY <1>4, <1>7, StartRunScreens
<1>8. ASSUME NEW j \in Runs, CheckReminder(j)
      PROVE  Alone' /\ RunsConfirm' /\ AllEndWell' /\ AllShow'
  BY <1>4, <1>8, CheckScreens
<1>9. ASSUME NEW p \in Processes, Notify(p)
      PROVE  Alone' /\ RunsConfirm' /\ AllEndWell' /\ AllShow'
  BY <1>1, <1>4, <1>9, PersistScreens, PushScreens, NextRecipientScreens DEF Notify
<1>13. ASSUME NEW p \in Publishers, Return(p)
       PROVE  Alone' /\ RunsConfirm' /\ AllEndWell' /\ AllShow'
  BY <1>4, <1>13, ReturnScreens
<1>10. ~Crash /\ \A p \in Processes : ~Fail(p)
  BY <1>2 DEF Crash, Fail
<1>11. ASSUME Tick \/ UNCHANGED vars
       PROVE  Alone' /\ RunsConfirm' /\ AllEndWell' /\ AllShow'
  BY <1>5, <1>11 DEF Tick, vars, database, world, history
<1>12. ASSUME NEW d \in Devices, Unsubscribe(d) \/ Expire(d) \/ \E x \in Recipients : Subscribe(d, x)
       PROVE  Alone' /\ RunsConfirm' /\ AllEndWell' /\ AllShow'
  BY <1>5, <1>12 DEF Unsubscribe, Expire, Subscribe, Change, database, world
<1> QED BY <1>6, <1>7, <1>8, <1>9, <1>10, <1>11, <1>12, <1>13 DEF Next, Publish, Remind

(* At the start nothing is shown.                                          *)
LEMMA InitScreens == Init => ScreenInv
<1> SUFFICES ASSUME Init
             PROVE  ScreenInv
  OBVIOUS
<1>1. DevicesInv
  BY DEF Init, DevicesInv
<1>2. Range(<< >>) = {} /\ DOMAIN << >> = {}
  BY DEF Range
<1>3. Alone /\ RunsConfirm /\ AllEndWell
  BY <1>2 DEF Init, Alone, RunsConfirm, AllEndWell, Busy, EndsWell, Processes
<1>4. AllShow
  BY DEF Init, AllShow, Shows
<1> QED BY <1>1, <1>3, <1>4 DEF ScreenInv, Alone, RunsConfirm, AllEndWell, AllShow

(* When processes do not overlap and nothing fails, what the client's      *)
(* device shows of an appointment in the end is the latest of its statuses *)
(* that is announced to the client: the events of a decision come in an    *)
(* order whose last says what it came to.  A visit that ends is announced  *)
(* to nobody, and so leaves the confirmation or the reminder on show.      *)
THEOREM LastWordStands == Spec => []LastWord
<1>1. Init => ScreenInv
  BY InitScreens
<1>2. TypeInv /\ RemindersInv /\ NoticesInv /\ ScreenInv /\ [Next]_vars => ScreenInv'
  BY StepScreens
<1>3. ASSUME TypeInv, ScreenInv
      PROVE  LastWord
  <2>1. ASSUME Settled, ~mixed, NEW d \in Devices \ touched, NEW a \in Appointments
        PROVE  screen[d][a] # Nothing => screen[d][a] \in LastWordOn(status[a])
    <3>1. \A p \in Publishers : queue[p] = << >>
      BY <1>3, <2>1 DEF Settled, Busy, TypeInv, TypeOK, Processes
    <3>2. Shows(d, a)
      BY <1>3, <2>1 DEF ScreenInv, Settled
    <3>3. screen[d][a] = Nothing \/ IsLastWord(<<screen[d][a], a>>)
      BY <3>1, <3>2, IdleShows
    <3> QED BY <3>3 DEF IsLastWord
  <2> QED BY <2>1 DEF LastWord, ShowsStatus
<1> QED BY <1>1, <1>2, <1>3, TypeCorrectness, EveryoneIsTold, PTL DEF Spec
=============================================================================
