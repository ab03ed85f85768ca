--------------------------- MODULE Access_proofs ---------------------------
(* Machine-checked proofs about Access, for every number of checkouts,     *)
(* grants, cancellations, webhook workers, notifications and crashes, and  *)
(* every period.                                                           *)
EXTENDS Access, TLAPS, FiniteSetTheorems, WellFoundedInduction

LEMMA RankType == NextRank \in Nat
<1>1. IsFiniteSet(Subscriptions)
  BY AccessFinite, FS_Union DEF Subscriptions
<1>2. IsFiniteSet({s \in Subscriptions : born[s] > 0})
  BY <1>1, FS_Subset
<1> QED
  BY <1>2, FS_CardinalityType DEF NextRank

(* Saving an object writes it to its row and to no other.                  *)
LEMMA SaveWrites ==
  ASSUME TypeOK, NEW o \in Objects, Save(o)
  PROVE  /\ row' \in [Subscriptions -> [status : Statuses, end : Ends] \union {NoRow}]
         /\ row'[o.sub] = [status |-> o.status, end |-> o.end]
         /\ \A s \in Subscriptions : s # o.sub => row'[s] = row[s]
         /\ \A s \in Subscriptions : row[s].status # Absent => row'[s].status # Absent
<1>1. o.sub \in Subscriptions /\ o.status \in Statuses /\ o.end \in Ends
  BY DEF Objects
<1>2. o.status # Absent
  BY <1>1 DEF Statuses, Absent
<1> QED
  BY <1>1, <1>2 DEF TypeOK, Save

(* The types of what a notification and its answer change.                 *)
LEMMA AcknowledgeType ==
  ASSUME TypeOK, NEW n \in notices, Acknowledge(n)
  PROVE  notices' \subseteq notices /\ redelivered' \in 0 .. MaxRedeliveries
  BY AccessBounds DEF TypeOK, Acknowledge

LEMMA NotifyType ==
  ASSUME TypeOK, NEW c \in Checkouts, NEW topic \in Topics, Notify(c, topic)
  PROVE  /\ notices' = notices \union {[sub |-> c, topic |-> topic]}
         /\ notices' \subseteq Notices
         /\ sent' \in 0 .. MaxNotices
  BY AccessBounds DEF TypeOK, Notify, Notices

LEMMA ProcessSets ==
  /\ Checkouts \subseteq Subscriptions /\ Checkouts \subseteq Requests
  /\ Cancels \subseteq Requests /\ Hooks \subseteq Requests
  /\ Requests \subseteq Processes /\ Grants \subseteq Processes /\ Job \in Processes
  /\ NoObject \notin Objects
  BY AccessNames DEF Subscriptions, Requests, Processes, NoObject, Objects
-----------------------------------------------------------------------------
(* What a request holds when it saves is a subscription object.            *)
HeldInv ==
  /\ CheckoutInv
  /\ CancelInv
  /\ HookInv

(* The types, action by action.                                            *)
LEMMA TypeStep == TypeOK /\ HeldInv /\ [Next]_vars => TypeOK'
<1> SUFFICES ASSUME TypeOK, HeldInv, [Next]_vars PROVE TypeOK'
  OBVIOUS
<1> USE ProcessSets
<1> USE DEF Goto, Leave, rows, gateway, locals
<1> DEFINE Same == now' = now
<1>0. Same => Ends' = Ends /\ Objects' = Objects
  BY DEF Ends, Objects
<1>e. now \in Ends /\ now + Period \in Ends /\ 0 \in Ends
  BY AccessBounds DEF TypeOK, Ends
<1>f. \A s \in Subscriptions : row[s].end \in Ends
  BY <1>e DEF TypeOK, NoRow
<1>1. ASSUME NEW c \in Checkouts, StartCheckout(c) PROVE TypeOK'
  <2>1. [sub |-> c, status |-> "PENDING", end |-> now] \in Objects
    BY <1>e DEF Objects, Statuses
  <2>2. Same
    BY <1>1 DEF StartCheckout
  <2>3. notices' \subseteq Notices /\ sent' \in 0 .. MaxNotices
    BY <1>1, NotifyType DEF StartCheckout, Topics, TypeOK
  <2>4. born' \in [Subscriptions -> Nat]
    BY <1>1, RankType DEF StartCheckout, TypeOK
  <2>5. held' \in [Requests -> Objects \union {NoObject}]
    BY <1>1, <2>1 DEF StartCheckout, TypeOK
  <2>6. provider' \in [Checkouts -> {"NONE", "PENDING", "AUTHORIZED", "PAUSED", "CANCELLED"}]
    BY <1>1 DEF StartCheckout, TypeOK
  <2> QED
    BY <1>0, <1>1, <2>2, <2>3, <2>4, <2>5, <2>6 DEF StartCheckout, TypeOK
<1>2. ASSUME NEW c \in Checkouts, SaveCheckout(c) PROVE TypeOK'
  <2>1. held[c] \in Objects
    BY <1>2 DEF SaveCheckout, HeldInv, CheckoutInv
  <2> QED
    BY <1>0, <1>2, <2>1, SaveWrites DEF SaveCheckout, TypeOK
<1>3. ASSUME NEW g \in Grants, Grant(g) PROVE TypeOK'
  <2>1. g \in Subscriptions
    BY DEF Subscriptions
  <2>2. [sub |-> g, status |-> "ACTIVE", end |-> now + Period] \in Objects
    BY <1>e, <2>1 DEF Objects, Statuses
  <2> QED
    BY <1>0, <1>3, <2>1, <2>2, SaveWrites, RankType DEF Grant, TypeOK
<1>4. ASSUME NEW x \in Cancels, FetchCurrent(x) PROVE TypeOK'
  <2>1. CASE FindCurrent = {} /\ Leave(x, "failed")
    BY <1>0, <1>4, <2>1 DEF FetchCurrent, TypeOK
  <2>2. ASSUME NEW s \in FindCurrent,
               held' = [held EXCEPT ![x] = [sub |-> s, status |-> "CANCELLED", end |-> row[s].end]],
               Goto(x, IF s \in Checkouts THEN "gateway" ELSE "save")
        PROVE  TypeOK'
    <3>1. s \in Subscriptions /\ row[s].end \in Ends
      BY <1>f DEF FindCurrent, Rows
    <3>2. [sub |-> s, status |-> "CANCELLED", end |-> row[s].end] \in Objects
      BY <3>1 DEF Objects, Statuses
    <3> QED
      BY <1>0, <1>4, <2>2, <3>2 DEF FetchCurrent, TypeOK
  <2> QED
    BY <1>4, <2>1, <2>2 DEF FetchCurrent
<1>5. ASSUME NEW x \in Cancels, CancelAtGateway(x) PROVE TypeOK'
  <2>1. held[x].sub \in Checkouts
    BY <1>5 DEF CancelAtGateway, HeldInv, CancelInv
  <2>2. notices' \subseteq Notices /\ sent' \in 0 .. MaxNotices
    BY <1>5, <2>1, NotifyType DEF CancelAtGateway, Topics, TypeOK
  <2> QED
    BY <1>0, <1>5, <2>1, <2>2 DEF CancelAtGateway, TypeOK
<1>6. ASSUME NEW x \in Cancels, SaveCancelled(x) PROVE TypeOK'
  <2>1. held[x] \in Objects
    BY <1>6 DEF SaveCancelled, HeldInv, CancelInv
  <2> QED
    BY <1>0, <1>6, <2>1, SaveWrites DEF SaveCancelled, TypeOK
<1>7. ASSUME NEW h \in Hooks, Receive(h) PROVE TypeOK'
  <2>1. PICK n \in notices :
          \/ /\ handling' = [handling EXCEPT ![h] = [notice |-> n, change |-> Change(n)]]
             /\ Goto(h, "find")
             /\ UNCHANGED <<notices, redelivered>>
          \/ Acknowledge(n) /\ UNCHANGED <<handling, pc>>
    BY <1>7 DEF Receive
  <2>2. n \in Notices /\ Change(n) \in Changes \union {"none"}
    BY DEF TypeOK, Change, Changes
  <2>3. CASE Acknowledge(n) /\ UNCHANGED <<handling, pc>>
    BY <1>0, <1>7, <2>3, AcknowledgeType DEF Receive, TypeOK
  <2>4. CASE /\ handling' = [handling EXCEPT ![h] = [notice |-> n, change |-> Change(n)]]
             /\ Goto(h, "find")
             /\ UNCHANGED <<notices, redelivered>>
    BY <1>0, <1>7, <2>2, <2>4 DEF Receive, TypeOK
  <2> QED
    BY <2>1, <2>3, <2>4
<1>8. ASSUME NEW h \in Hooks, FindByProvider(h) PROVE TypeOK'
  <2> DEFINE s == handling[h].notice.sub
             change == handling[h].change
  <2>1. Acknowledge(handling[h].notice) => notices' \subseteq notices /\ redelivered' \in 0 .. MaxRedeliveries
    BY AccessBounds DEF TypeOK, Acknowledge
  <2>2. s \in Checkouts /\ change \in Changes \union {"none"}
    BY <1>8 DEF FindByProvider, HeldInv, HookInv, TypeOK, Notices, NoHandling
  <2>3. row[s].end \in Ends
    BY <1>f, <2>2
  <2>4. change # "none" => Changed(s, change) \in Objects
    BY <1>e, <2>2, <2>3 DEF Changes, Changed, Objects, Statuses
  <2> QED
    BY <1>0, <1>8, <2>1, <2>4 DEF FindByProvider, TypeOK
<1>9. ASSUME NEW h \in Hooks, SaveSync(h) PROVE TypeOK'
  <2>1. held[h] \in Objects
    BY <1>9 DEF SaveSync, HeldInv, HookInv
  <2>2. notices' \subseteq notices /\ redelivered' \in 0 .. MaxRedeliveries
    BY <1>9, AccessBounds DEF SaveSync, TypeOK, Acknowledge
  <2> QED
    BY <1>0, <1>9, <2>1, <2>2, SaveWrites DEF SaveSync, TypeOK
<1>10. ASSUME ListExpired PROVE TypeOK'
  <2>1. PICK ss \in SUBSET Subscriptions :
          batch' = {[sub |-> s, status |-> "EXPIRED", end |-> row[s].end] : s \in ss}
    BY <1>10 DEF ListExpired
  <2>2. \A s \in ss : row[s].end \in Ends
    BY <1>f
  <2>3. batch' \subseteq {o \in Objects : o.status = "EXPIRED"}
    BY <2>1, <2>2 DEF Objects, Statuses
  <2> QED
    BY <1>0, <1>10, <2>3 DEF ListExpired, TypeOK
<1>11. ASSUME SaveExpired PROVE TypeOK'
  <2>1. PICK o \in batch : Save(o) /\ batch' = batch \ {o}
                          /\ Goto(Job, IF batch = {o} THEN "idle" ELSE "save")
    BY <1>11 DEF SaveExpired
  <2>2. o \in Objects
    BY DEF TypeOK
  <2> QED
    BY <1>0, <1>11, <2>1, <2>2, SaveWrites DEF SaveExpired, TypeOK
<1>12. ASSUME NEW c \in Checkouts, GatewayStep(c) PROVE TypeOK'
  <2>1. Same /\ notices' \subseteq Notices /\ sent' \in 0 .. MaxNotices
    BY <1>12, NotifyType DEF GatewayStep, Authorize, Charge, ChangeAtGateway, Topics
  <2> QED
    BY <1>0, <1>12, <2>1 DEF GatewayStep, Authorize, Charge, ChangeAtGateway, TypeOK
<1>13. ASSUME Tick PROVE TypeOK'
  <2>1. Ends \subseteq Ends'
    BY <1>13, AccessBounds DEF Tick, Ends, TypeOK
  <2>2. Objects \subseteq Objects'
    BY <2>1 DEF Objects
  <2>3. now' \in 0 .. MaxNow
    BY <1>13, AccessBounds DEF Tick, TypeOK
  <2>4. row' \in [Subscriptions -> [status : Statuses, end : Ends'] \union {NoRow}]
    BY <1>13, <2>1 DEF Tick, TypeOK
  <2> QED
    BY <1>13, <2>2, <2>3, <2>4 DEF Tick, TypeOK
<1>14. ASSUME Crash PROVE TypeOK'
  <2>1. crashes' \in 0 .. MaxCrashes
    BY <1>14, AccessBounds DEF Crash, TypeOK
  <2>2. pc' \in [Processes -> {"idle", "gateway", "find", "save", "done", "failed"}]
    BY <1>14 DEF Crash, TypeOK
  <2> QED
    BY <1>0, <1>14, <2>1, <2>2 DEF Crash, TypeOK
<1>15. CASE UNCHANGED vars
  BY <1>0, <1>15 DEF vars, TypeOK
<1> QED
  BY <1>1, <1>2, <1>3, <1>4, <1>5, <1>6, <1>7, <1>8, <1>9, <1>10, <1>11, <1>12, <1>13, <1>14, <1>15
     DEF Next, CheckoutStep, CancelStep, HookStep, JobStep
-----------------------------------------------------------------------------
(* What a step may write to the rows: nothing, or one object that the      *)
(* gateway justifies and whose row exists or is being created.             *)
Backed(o) ==
  /\ o.sub \in Checkouts =>
       /\ o.status = "CANCELLED" => provider[o.sub] = "CANCELLED"
       /\ o.status \in Paid => o.sub \in mandates
  /\ \/ row[o.sub].status # Absent
     \/ o.sub \in Grants
     \/ o.sub \in Checkouts /\ SaveCheckout(o.sub)

LEMMA SavesAreBacked ==
  ASSUME Inv, [Next]_vars
  PROVE  row' = row \/ \E o \in Objects : Save(o) /\ Backed(o)
<1> USE ProcessSets DEF Inv
<1>1. ASSUME NEW c \in Checkouts, SaveCheckout(c) PROVE \E o \in Objects : Save(o) /\ Backed(o)
  <2>1. held[c] \in Objects /\ held[c].sub = c /\ held[c].status = "PENDING"
    BY <1>1 DEF SaveCheckout, CheckoutInv
  <2>2. Backed(held[c])
    BY <1>1, <2>1 DEF Backed, Paid
  <2> QED
    BY <1>1, <2>1, <2>2 DEF SaveCheckout
<1>2. ASSUME NEW g \in Grants, Grant(g) PROVE \E o \in Objects : Save(o) /\ Backed(o)
  <2> DEFINE o == [sub |-> g, status |-> "ACTIVE", end |-> now + Period]
  <2>1. g \in Subscriptions /\ g \notin Checkouts
    BY AccessNames DEF Subscriptions
  <2>2. now + Period \in Ends
    BY AccessBounds DEF TypeOK, Ends
  <2>3. o \in Objects
    BY <2>1, <2>2 DEF Objects, Statuses
  <2>4. Backed(o)
    BY <2>1 DEF Backed
  <2> QED
    BY <1>2, <2>3, <2>4 DEF Grant
<1>3. ASSUME NEW x \in Cancels, SaveCancelled(x) PROVE \E o \in Objects : Save(o) /\ Backed(o)
  <2>1. held[x] \in Objects /\ held[x].status = "CANCELLED" /\ row[held[x].sub].status # Absent
    BY <1>3 DEF SaveCancelled, CancelInv
  <2>2. held[x].sub \in Checkouts => provider[held[x].sub] = "CANCELLED"
    BY <1>3 DEF SaveCancelled, CancelInv
  <2>3. Backed(held[x])
    BY <2>1, <2>2 DEF Backed, Paid
  <2> QED
    BY <1>3, <2>1, <2>3 DEF SaveCancelled
<1>4. ASSUME NEW h \in Hooks, SaveSync(h) PROVE \E o \in Objects : Save(o) /\ Backed(o)
  <2>1. held[h] \in Objects /\ Backed(held[h])
    BY <1>4 DEF SaveSync, HookInv, Backed
  <2> QED
    BY <1>4, <2>1 DEF SaveSync
<1>5. ASSUME SaveExpired PROVE \E o \in Objects : Save(o) /\ Backed(o)
  <2>1. PICK o \in batch : Save(o)
    BY <1>5 DEF SaveExpired
  <2>2. o \in Objects /\ o.status = "EXPIRED"
    BY DEF TypeOK
  <2>3. Backed(o)
    BY <2>2 DEF BatchInv, Backed
  <2> QED
    BY <2>1, <2>2, <2>3
<1>6. ASSUME NEW c \in Checkouts, GatewayStep(c) PROVE row' = row
  BY <1>6 DEF GatewayStep, Authorize, Charge, ChangeAtGateway, rows
<1>7. ASSUME NEW c \in Checkouts, StartCheckout(c) PROVE row' = row
  BY <1>7 DEF StartCheckout
<1>8. ASSUME NEW x \in Cancels, FetchCurrent(x) \/ CancelAtGateway(x) PROVE row' = row
  BY <1>8 DEF FetchCurrent, CancelAtGateway, rows
<1>9. ASSUME NEW h \in Hooks, Receive(h) \/ FindByProvider(h) PROVE row' = row
  BY <1>9 DEF Receive, FindByProvider, rows
<1>10. ASSUME ListExpired \/ Tick \/ Crash PROVE row' = row
  BY <1>10 DEF ListExpired, Tick, Crash, rows
<1>11. CASE UNCHANGED vars
  BY <1>11 DEF vars, rows
<1> QED
  BY <1>1, <1>2, <1>3, <1>4, <1>5, <1>6, <1>7, <1>8, <1>9, <1>10, <1>11
     DEF Next, CheckoutStep, CancelStep, HookStep, JobStep

(* Mandates, cancelled preapprovals and rows are for good, and only its    *)
(* own save makes the row of a checkout.                                   *)
LEMMA Lasting ==
  ASSUME Inv, [Next]_vars
  PROVE  /\ mandates \subseteq mandates'
         /\ \A c \in Checkouts : provider[c] = "CANCELLED" => provider'[c] = "CANCELLED"
         /\ \A s \in Subscriptions : row[s].status # Absent => row'[s].status # Absent
         /\ \A c \in Checkouts :
              row[c].status = Absent /\ row'[c].status # Absent => SaveCheckout(c)
<1> USE DEF Inv
<1>1. mandates \subseteq mandates'
  <2>1. ASSUME NEW c \in Checkouts, GatewayStep(c) PROVE mandates \subseteq mandates'
    BY <2>1 DEF GatewayStep, Authorize, Charge, ChangeAtGateway
  <2>2. ASSUME NEW c \in Checkouts, CheckoutStep(c) PROVE mandates' = mandates
    BY <2>2 DEF CheckoutStep, StartCheckout, SaveCheckout, gateway
  <2>3. ASSUME NEW x \in Cancels, CancelStep(x) PROVE mandates' = mandates
    BY <2>3 DEF CancelStep, FetchCurrent, CancelAtGateway, SaveCancelled, gateway
  <2>4. ASSUME NEW h \in Hooks, HookStep(h) PROVE mandates' = mandates
    BY <2>4 DEF HookStep, Receive, FindByProvider, SaveSync
  <2>5. ASSUME NEW g \in Grants, Grant(g) PROVE mandates' = mandates
    BY <2>5 DEF Grant, gateway
  <2>6. ASSUME JobStep \/ Tick \/ Crash \/ UNCHANGED vars PROVE mandates' = mandates
    BY <2>6 DEF JobStep, ListExpired, SaveExpired, Tick, Crash, vars, gateway
  <2> QED
    BY <2>1, <2>2, <2>3, <2>4, <2>5, <2>6 DEF Next
<1>2. ASSUME NEW c \in Checkouts, provider[c] = "CANCELLED" PROVE provider'[c] = "CANCELLED"
  <2>1. ASSUME NEW d \in Checkouts, StartCheckout(d) PROVE provider'[c] = "CANCELLED"
    BY <1>2, <2>1 DEF StartCheckout, CheckoutInv, TypeOK
  <2>2. ASSUME NEW d \in Checkouts, GatewayStep(d) PROVE provider'[c] = "CANCELLED"
    BY <1>2, <2>2 DEF GatewayStep, Authorize, Charge, ChangeAtGateway, TypeOK
  <2>3. ASSUME NEW x \in Cancels, CancelAtGateway(x) PROVE provider'[c] = "CANCELLED"
    BY <1>2, <2>3 DEF CancelAtGateway, TypeOK
  <2> QED
    BY <1>2, <2>1, <2>2, <2>3
       DEF Next, CheckoutStep, CancelStep, HookStep, JobStep, SaveCheckout,
       Grant, FetchCurrent, SaveCancelled, Receive, FindByProvider, SaveSync,
       ListExpired, SaveExpired, Tick, Crash, vars, gateway
<1>3. CASE row' = row
  BY <1>1, <1>2, <1>3
<1>4. CASE \E o \in Objects : Save(o) /\ Backed(o)
  <2>1. PICK o \in Objects : Save(o) /\ Backed(o)
    BY <1>4
  <2>2. ASSUME NEW c \in Checkouts, row[c].status = Absent, row'[c].status # Absent
        PROVE  SaveCheckout(c)
    <3>1. c = o.sub
      BY <2>1, <2>2, SaveWrites, ProcessSets
    <3>2. c \notin Grants
      BY AccessNames
    <3> QED
      BY <2>1, <2>2, <3>1, <3>2 DEF Backed
  <2> QED
    BY <1>1, <1>2, <2>1, <2>2, SaveWrites
<1> QED
  BY <1>3, <1>4, SavesAreBacked

(* Cancelled means stopped, paid means authorized: every object written is *)
(* backed, and what backs the other rows lasts.                            *)
LEMMA RowStep ==
  ASSUME Inv, [Next]_vars
  PROVE  CancelledIsStopped' /\ PaidAccessOnly'
<1>1. CASE row' = row
  BY <1>1, Lasting DEF Inv, CancelledIsStopped, PaidAccessOnly
<1>2. CASE \E o \in Objects : Save(o) /\ Backed(o)
  <2>1. PICK o \in Objects : Save(o) /\ Backed(o)
    BY <1>2
  <2>2. \A c \in Checkouts : row'[c].status = IF c = o.sub THEN o.status ELSE row[c].status
    <3>1. TypeOK /\ Save(o)
      BY <2>1 DEF Inv
    <3>2. row'[o.sub] = [status |-> o.status, end |-> o.end]
      BY <3>1, SaveWrites
    <3>3. \A s \in Subscriptions : s # o.sub => row'[s] = row[s]
      BY <3>1, SaveWrites
    <3> QED
      BY <3>2, <3>3, ProcessSets
  <2>3. ASSUME NEW c \in Checkouts, row'[c].status = "CANCELLED" PROVE provider'[c] = "CANCELLED"
    <3>1. provider[c] = "CANCELLED"
      BY <2>1, <2>2, <2>3 DEF Inv, Backed, CancelledIsStopped
    <3> QED
      BY <3>1, Lasting
  <2>4. ASSUME NEW c \in Checkouts, row'[c].status \in Paid PROVE c \in mandates'
    <3>1. c \in mandates
      BY <2>1, <2>2, <2>4 DEF Inv, Backed, PaidAccessOnly
    <3> QED
      BY <3>1, Lasting
  <2> QED
    BY <2>3, <2>4 DEF CancelledIsStopped, PaidAccessOnly
<1> QED
  BY <1>1, <1>2, SavesAreBacked
-----------------------------------------------------------------------------
(* A checkout's own steps, and those of the gateway, keep what is said of  *)
(* it; every other step leaves it where it is.                             *)
LEMMA CheckoutStays ==
  ASSUME Inv, [Next]_vars, NEW c \in Checkouts,
         ~StartCheckout(c), ~SaveCheckout(c), ~Crash
  PROVE  pc'[c] = pc[c] /\ held'[c] = held[c]
<1> USE ProcessSets DEF Inv, TypeOK
<1> USE DEF Goto, Leave
<1>1. ASSUME NEW d \in Checkouts, CheckoutStep(d) PROVE pc'[c] = pc[c] /\ held'[c] = held[c]
  BY <1>1 DEF CheckoutStep, StartCheckout, SaveCheckout
<1>2. ASSUME NEW d \in Checkouts, GatewayStep(d) PROVE pc'[c] = pc[c] /\ held'[c] = held[c]
  BY <1>2 DEF GatewayStep, Authorize, Charge, ChangeAtGateway, locals
<1>3. ASSUME NEW g \in Grants, Grant(g) PROVE pc'[c] = pc[c] /\ held'[c] = held[c]
  BY <1>3, AccessNames DEF Grant
<1>4. ASSUME NEW x \in Cancels, CancelStep(x) PROVE pc'[c] = pc[c] /\ held'[c] = held[c]
  <2>1. x # c
    BY AccessNames
  <2> QED
    BY <1>4, <2>1 DEF CancelStep, FetchCurrent, CancelAtGateway, SaveCancelled
<1>5. ASSUME NEW h \in Hooks, HookStep(h) PROVE pc'[c] = pc[c] /\ held'[c] = held[c]
  <2>1. h # c
    BY AccessNames
  <2> QED
    BY <1>5, <2>1 DEF HookStep, Receive, FindByProvider, SaveSync
<1>6. ASSUME JobStep \/ Tick \/ UNCHANGED vars PROVE pc'[c] = pc[c] /\ held'[c] = held[c]
  <2>1. c # Job
    BY AccessNames DEF Requests
  <2> QED
    BY <1>6, <2>1 DEF JobStep, ListExpired, SaveExpired, Tick, vars, locals
<1> QED
  BY <1>1, <1>2, <1>3, <1>4, <1>5, <1>6 DEF Next

(* The gateway's answer for a preapproval moves only by the steps that     *)
(* speak of it.                                                            *)
LEMMA ProviderMoves ==
  ASSUME Inv, [Next]_vars, NEW c \in Checkouts
  PROVE  \/ provider'[c] = provider[c]
         \/ StartCheckout(c) /\ provider'[c] = "PENDING"
         \/ pc[c] = "done" /\ c \in mandates' /\ ~StartCheckout(c) /\ ~SaveCheckout(c)
         \/ pc[c] = "done" /\ provider'[c] = "CANCELLED"
<1> USE DEF Inv, TypeOK
<1>1. ASSUME NEW d \in Checkouts, StartCheckout(d)
      PROVE  provider'[c] = provider[c] \/ (StartCheckout(c) /\ provider'[c] = "PENDING")
  <2>1. provider' = [provider EXCEPT ![d] = "PENDING"] \/ provider' = provider
    BY <1>1 DEF StartCheckout
  <2>2. CASE d = c
    BY <1>1, <2>1, <2>2
  <2>3. CASE d # c
    BY <2>1, <2>3
  <2> QED
    BY <2>2, <2>3
<1>2. ASSUME NEW d \in Checkouts, GatewayStep(d), provider'[c] # provider[c]
      PROVE  pc[c] = "done" /\ c \in mandates' /\ ~StartCheckout(c) /\ ~SaveCheckout(c)
  <2>1. d = c /\ c \in mandates'
    BY <1>2 DEF GatewayStep, Authorize, Charge, ChangeAtGateway, CheckoutInv
  <2>2. pc[c] = "done"
    BY <1>2, <2>1 DEF GatewayStep, Authorize, Charge, ChangeAtGateway, CheckoutInv
  <2> QED
    BY <2>1, <2>2 DEF StartCheckout, SaveCheckout
<1>3. ASSUME NEW x \in Cancels, CancelAtGateway(x), provider'[c] # provider[c]
      PROVE  pc[c] = "done" /\ provider'[c] = "CANCELLED"
  <2>1. held[x].sub = c /\ provider'[c] = "CANCELLED"
    BY <1>3 DEF CancelAtGateway
  <2> QED
    BY <1>3, <2>1 DEF CancelAtGateway, CancelInv, CheckoutInv
<1>4. ASSUME NEW x \in Cancels, FetchCurrent(x) \/ SaveCancelled(x) PROVE provider' = provider
  BY <1>4 DEF FetchCurrent, SaveCancelled, gateway
<1>5. ASSUME NEW h \in Hooks, HookStep(h) PROVE provider' = provider
  BY <1>5 DEF HookStep, Receive, FindByProvider, SaveSync
<1>6. ASSUME NEW g \in Grants, Grant(g) PROVE provider' = provider
  BY <1>6 DEF Grant, gateway
<1>7. ASSUME NEW d \in Checkouts, SaveCheckout(d) PROVE provider' = provider
  BY <1>7 DEF SaveCheckout, gateway
<1>8. ASSUME JobStep \/ Tick \/ Crash \/ UNCHANGED vars PROVE provider' = provider
  BY <1>8 DEF JobStep, ListExpired, SaveExpired, Tick, Crash, vars, gateway
<1> QED
  BY <1>1, <1>2, <1>3, <1>4, <1>5, <1>6, <1>7, <1>8 DEF Next, CheckoutStep, CancelStep

LEMMA MandatesMove ==
  ASSUME Inv, [Next]_vars, NEW c \in Checkouts, c \in mandates', c \notin mandates
  PROVE  Authorize(c)
<1>1. ASSUME NEW d \in Checkouts, GatewayStep(d) PROVE Authorize(c)
  BY <1>1 DEF GatewayStep, Authorize, Charge, ChangeAtGateway
<1>2. ASSUME NEW d \in Checkouts, CheckoutStep(d) PROVE FALSE
  BY <1>2 DEF CheckoutStep, StartCheckout, SaveCheckout, gateway
<1>3. ASSUME NEW x \in Cancels, CancelStep(x) PROVE FALSE
  BY <1>3 DEF CancelStep, FetchCurrent, CancelAtGateway, SaveCancelled, gateway
<1>4. ASSUME NEW h \in Hooks, HookStep(h) PROVE FALSE
  BY <1>4 DEF HookStep, Receive, FindByProvider, SaveSync
<1>5. ASSUME NEW g \in Grants, Grant(g) PROVE FALSE
  BY <1>5 DEF Grant, gateway
<1>6. ASSUME JobStep \/ Tick \/ Crash \/ UNCHANGED vars PROVE FALSE
  BY <1>6 DEF JobStep, ListExpired, SaveExpired, Tick, Crash, vars, gateway
<1> QED
  BY <1>1, <1>2, <1>3, <1>4, <1>5, <1>6 DEF Next

LEMMA CheckoutInvStep ==
  ASSUME Inv, [Next]_vars, TypeOK'
  PROVE  CheckoutInv'
<1> SUFFICES ASSUME NEW c \in Checkouts
             PROVE  /\ pc'[c] = "idle" => provider'[c] = "NONE"
                    /\ pc'[c] = "save" => held'[c] \in Objects' /\ held'[c].sub = c /\ held'[c].status = "PENDING"
                    /\ row'[c].status # Absent <=> pc'[c] = "done"
                    /\ c \in mandates' => pc'[c] = "done"
                    /\ provider'[c] \in {"AUTHORIZED", "PAUSED"} => c \in mandates'
  BY DEF CheckoutInv
<1> USE ProcessSets
<1>0. /\ pc[c] = "idle" => provider[c] = "NONE"
      /\ pc[c] = "save" => held[c] \in Objects /\ held[c].sub = c /\ held[c].status = "PENDING"
      /\ row[c].status # Absent <=> pc[c] = "done"
      /\ c \in mandates => pc[c] = "done"
      /\ provider[c] \in {"AUTHORIZED", "PAUSED"} => c \in mandates
  BY DEF Inv, CheckoutInv
<1>1. CASE StartCheckout(c)
  <2>1. row' = row /\ mandates' = mandates /\ pc[c] = "idle"
    BY <1>1 DEF StartCheckout
  <2>2. \/ /\ pc'[c] = "save" /\ provider'[c] = "PENDING"
           /\ held'[c].sub = c /\ held'[c].status = "PENDING" /\ held'[c] # NoObject
        \/ pc'[c] = "failed" /\ provider'[c] \in {"PENDING", provider[c]}
    BY <1>1 DEF StartCheckout, Goto, Leave, Inv, TypeOK, NoObject, Absent
  <2>3. held'[c] \in Objects' \union {NoObject}
    BY DEF TypeOK
  <2> QED
    BY <1>0, <2>1, <2>2, <2>3
<1>2. CASE SaveCheckout(c)
  <2>1. pc[c] = "save" /\ pc'[c] = "done" /\ provider' = provider /\ mandates' = mandates
    BY <1>2 DEF SaveCheckout, Goto, Leave, Inv, TypeOK, gateway
  <2>2. row'[c].status = "PENDING"
    <3> DEFINE o == held[c]
    <3>1. o \in Objects /\ o.sub = c /\ o.status = "PENDING" /\ Save(o)
      BY <1>0, <1>2, <2>1 DEF SaveCheckout
    <3>2. TypeOK
      BY DEF Inv
    <3>3. row'[o.sub] = [status |-> o.status, end |-> o.end]
      BY <3>1, <3>2, SaveWrites
    <3> QED
      BY <3>1, <3>3
  <2> QED
    BY <1>0, <2>1, <2>2 DEF Absent
<1>3. CASE Crash
  <2>1. row' = row /\ mandates' = mandates /\ provider' = provider
    BY <1>3 DEF Crash, rows, gateway
  <2>2. c \notin Hooks \union {Job}
    BY AccessNames DEF Requests
  <2>3. pc'[c] = IF pc[c] \in {"gateway", "save"} THEN "failed" ELSE pc[c]
    BY <1>3, <2>2 DEF Crash
  <2> QED
    BY <1>0, <2>1, <2>3
<1>4. CASE ~StartCheckout(c) /\ ~SaveCheckout(c) /\ ~Crash
  <2>1. pc'[c] = pc[c] /\ held'[c] = held[c]
    BY <1>4, CheckoutStays
  <2>2. row'[c].status # Absent <=> row[c].status # Absent
    BY <1>4, Lasting
  <2>3. c \in mandates' => c \in mandates \/ pc[c] = "done"
    BY MandatesMove DEF Authorize
  <2>4. held'[c] \in Objects => held'[c] \in Objects'
    BY DEF TypeOK
  <2> QED
    BY <1>0, <1>4, <2>1, <2>2, <2>3, <2>4, ProviderMoves, Lasting
<1> QED
  BY <1>1, <1>2, <1>3, <1>4
-----------------------------------------------------------------------------
(* A process that does not step keeps its place, its object and what it    *)
(* handles.                                                                *)
LEMMA CancelStays ==
  ASSUME Inv, [Next]_vars, NEW x \in Cancels, ~CancelStep(x), ~Crash
  PROVE  pc'[x] = pc[x] /\ held'[x] = held[x]
<1> USE ProcessSets DEF Inv, TypeOK
<1> USE DEF Goto, Leave
<1>1. ASSUME NEW d \in Checkouts, CheckoutStep(d) PROVE pc'[x] = pc[x] /\ held'[x] = held[x]
  <2>1. d # x
    BY AccessNames
  <2> QED
    BY <1>1, <2>1 DEF CheckoutStep, StartCheckout, SaveCheckout
<1>2. ASSUME NEW d \in Checkouts, GatewayStep(d) PROVE pc'[x] = pc[x] /\ held'[x] = held[x]
  BY <1>2 DEF GatewayStep, Authorize, Charge, ChangeAtGateway, locals
<1>3. ASSUME NEW g \in Grants, Grant(g) PROVE pc'[x] = pc[x] /\ held'[x] = held[x]
  BY <1>3, AccessNames DEF Grant
<1>4. ASSUME NEW y \in Cancels, CancelStep(y) PROVE pc'[x] = pc[x] /\ held'[x] = held[x]
  <2>1. y # x
    BY <1>4
  <2> QED
    BY <1>4, <2>1 DEF CancelStep, FetchCurrent, CancelAtGateway, SaveCancelled
<1>5. ASSUME NEW h \in Hooks, HookStep(h) PROVE pc'[x] = pc[x] /\ held'[x] = held[x]
  <2>1. h # x
    BY AccessNames
  <2> QED
    BY <1>5, <2>1 DEF HookStep, Receive, FindByProvider, SaveSync
<1>6. ASSUME JobStep \/ Tick \/ UNCHANGED vars PROVE pc'[x] = pc[x] /\ held'[x] = held[x]
  <2>1. x # Job
    BY AccessNames DEF Requests
  <2> QED
    BY <1>6, <2>1 DEF JobStep, ListExpired, SaveExpired, Tick, vars, locals
<1> QED
  BY <1>1, <1>2, <1>3, <1>4, <1>5, <1>6 DEF Next

LEMMA CancelInvStep ==
  ASSUME Inv, [Next]_vars, TypeOK'
  PROVE  CancelInv'
<1> SUFFICES ASSUME NEW x \in Cancels
             PROVE  /\ pc'[x] \in {"gateway", "save"} =>
                         /\ held'[x] \in Objects' /\ held'[x].status = "CANCELLED"
                         /\ row'[held'[x].sub].status # Absent
                    /\ pc'[x] = "gateway" => held'[x].sub \in Checkouts
                    /\ pc'[x] = "save" /\ held'[x].sub \in Checkouts =>
                         provider'[held'[x].sub] = "CANCELLED"
  BY DEF CancelInv
<1> USE ProcessSets
<1>0. /\ pc[x] \in {"gateway", "save"} =>
           held[x] \in Objects /\ held[x].status = "CANCELLED" /\ row[held[x].sub].status # Absent
      /\ pc[x] = "gateway" => held[x].sub \in Checkouts
      /\ pc[x] = "save" /\ held[x].sub \in Checkouts => provider[held[x].sub] = "CANCELLED"
  BY DEF Inv, CancelInv
<1>t. \A o \in Objects : o.sub \in Subscriptions
  BY DEF Objects
<1>u. held'[x] \in Objects' \union {NoObject}
  BY DEF TypeOK
<1>n. NoObject.status = Absent /\ Absent # "CANCELLED"
  BY DEF NoObject, Absent
<1>1. CASE FetchCurrent(x)
  <2>1. CASE pc'[x] = "failed"
    BY <2>1
  <2>2. ASSUME NEW s \in FindCurrent,
               held' = [held EXCEPT ![x] = [sub |-> s, status |-> "CANCELLED", end |-> row[s].end]],
               Goto(x, IF s \in Checkouts THEN "gateway" ELSE "save")
        PROVE  /\ held'[x].sub = s /\ held'[x].status = "CANCELLED"
               /\ pc'[x] = IF s \in Checkouts THEN "gateway" ELSE "save"
               /\ row'[s].status # Absent
    <3>1. row' = row
      BY <1>1 DEF FetchCurrent, rows
    <3>2. row[s].status # Absent
      BY DEF FindCurrent, Rows
    <3> QED
      BY <2>2, <3>1, <3>2 DEF Inv, TypeOK, Goto
  <2>3. pc'[x] = "failed" \/ \E s \in FindCurrent :
               /\ held'[x].sub = s /\ held'[x].status = "CANCELLED"
               /\ pc'[x] = IF s \in Checkouts THEN "gateway" ELSE "save"
               /\ row'[s].status # Absent
    <3>1. CASE FindCurrent = {} /\ Leave(x, "failed")
      BY <3>1 DEF Leave, Goto, Inv, TypeOK
    <3> QED
      BY <1>1, <2>2, <3>1 DEF FetchCurrent
  <2> QED
    BY <1>u, <1>n, <2>1, <2>3
<1>2. CASE CancelAtGateway(x)
  <2>1. row' = row /\ pc[x] = "gateway"
    BY <1>2 DEF CancelAtGateway, rows
  <2>2. \/ held' = held /\ provider' = [provider EXCEPT ![held[x].sub] = "CANCELLED"]
        \/ pc'[x] = "failed"
    BY <1>2 DEF CancelAtGateway, Leave, Goto, Inv, TypeOK
  <2>3. provider \in [Checkouts -> {"NONE", "PENDING", "AUTHORIZED", "PAUSED", "CANCELLED"}]
    BY DEF Inv, TypeOK
  <2>4. pc'[x] # "gateway"
    BY <1>2 DEF CancelAtGateway, Leave, Goto, Inv, TypeOK
  <2> QED
    BY <1>0, <1>u, <1>n, <2>1, <2>2, <2>3, <2>4
<1>3. CASE SaveCancelled(x)
  <2>1. pc'[x] = "done"
    BY <1>3 DEF SaveCancelled, Leave, Goto, Inv, TypeOK
  <2> QED
    BY <2>1
<1>4. CASE Crash
  <2>1. x \notin Hooks \union {Job}
    BY AccessNames DEF Requests
  <2>2. pc'[x] \notin {"gateway", "save"}
    BY <1>4, <2>1 DEF Crash
  <2> QED
    BY <2>2
<1>5. CASE ~CancelStep(x) /\ ~Crash
  <2>1. pc'[x] = pc[x] /\ held'[x] = held[x]
    BY <1>5, CancelStays
  <2>2. pc[x] \in {"gateway", "save"} => held'[x] \in Objects'
    BY <1>0, <1>u, <1>n, <2>1
  <2> QED
    BY <1>0, <1>t, <2>1, <2>2, Lasting
<1> QED
  BY <1>1, <1>2, <1>3, <1>4, <1>5 DEF CancelStep

LEMMA HookStays ==
  ASSUME Inv, [Next]_vars, NEW h \in Hooks, ~HookStep(h), ~Crash
  PROVE  pc'[h] = pc[h] /\ held'[h] = held[h] /\ handling'[h] = handling[h]
<1> USE ProcessSets DEF Inv, TypeOK
<1> USE DEF Goto, Leave
<1> DEFINE Same == pc'[h] = pc[h] /\ held'[h] = held[h] /\ handling'[h] = handling[h]
<1>1. ASSUME NEW d \in Checkouts, CheckoutStep(d) PROVE Same
  <2>1. d # h
    BY AccessNames
  <2> QED
    BY <1>1, <2>1 DEF CheckoutStep, StartCheckout, SaveCheckout
<1>2. ASSUME NEW d \in Checkouts, GatewayStep(d) PROVE Same
  BY <1>2 DEF GatewayStep, Authorize, Charge, ChangeAtGateway, locals
<1>3. ASSUME NEW g \in Grants, Grant(g) PROVE Same
  BY <1>3, AccessNames DEF Grant
<1>4. ASSUME NEW x \in Cancels, CancelStep(x) PROVE Same
  <2>1. x # h
    BY AccessNames
  <2> QED
    BY <1>4, <2>1 DEF CancelStep, FetchCurrent, CancelAtGateway, SaveCancelled
<1>5. ASSUME NEW k \in Hooks, HookStep(k) PROVE Same
  <2>1. k # h
    BY <1>5
  <2> QED
    BY <1>5, <2>1 DEF HookStep, Receive, FindByProvider, SaveSync
<1>6. ASSUME JobStep \/ Tick \/ UNCHANGED vars PROVE Same
  <2>1. h # Job
    BY AccessNames DEF Requests
  <2> QED
    BY <1>6, <2>1 DEF JobStep, ListExpired, SaveExpired, Tick, vars, locals
<1> QED
  BY <1>1, <1>2, <1>3, <1>4, <1>5, <1>6 DEF Next

(* What the gateway's answer asks for is backed by the gateway.            *)
LEMMA ChangeIsJustified ==
  ASSUME Inv, NEW n \in notices
  PROVE  Justified(Change(n), n.sub)
<1>1. n.sub \in Checkouts /\ n.topic \in Topics
  BY DEF Inv, TypeOK, Notices
<1>2. provider[n.sub] \in {"AUTHORIZED", "PAUSED"} => n.sub \in mandates
  BY <1>1 DEF Inv, CheckoutInv
<1>3. n.topic # "preapproval" => n.sub \in mandates
  BY DEF Inv, NoticeInv
<1>4. provider[n.sub] \in {"NONE", "PENDING", "AUTHORIZED", "PAUSED", "CANCELLED"}
  BY <1>1 DEF Inv, TypeOK
<1> QED
  BY <1>1, <1>2, <1>3, <1>4 DEF Change, Justified, Changes

LEMMA HookInvStep ==
  ASSUME Inv, [Next]_vars, TypeOK'
  PROVE  HookInv'
<1> SUFFICES ASSUME NEW h \in Hooks
             PROVE  /\ pc'[h] \in {"find", "save"} =>
                         /\ handling'[h].notice \in Notices
                         /\ handling'[h].change = "cancel" =>
                              provider'[handling'[h].notice.sub] = "CANCELLED"
                         /\ handling'[h].change \in Changes \ {"cancel"} =>
                              handling'[h].notice.sub \in mandates'
                    /\ pc'[h] = "save" =>
                         /\ held'[h] \in Objects'
                         /\ held'[h].sub \in Checkouts
                         /\ row'[held'[h].sub].status # Absent
                         /\ held'[h].status = "CANCELLED" => provider'[held'[h].sub] = "CANCELLED"
                         /\ held'[h].status \in Paid => held'[h].sub \in mandates'
  BY DEF HookInv, Justified, Notices
<1> USE ProcessSets
<1>0. /\ pc[h] \in {"find", "save"} =>
           /\ handling[h].notice \in Notices
           /\ Justified(handling[h].change, handling[h].notice.sub)
      /\ pc[h] = "save" =>
           /\ held[h] \in Objects
           /\ held[h].sub \in Checkouts
           /\ row[held[h].sub].status # Absent
           /\ held[h].status = "CANCELLED" => provider[held[h].sub] = "CANCELLED"
           /\ held[h].status \in Paid => held[h].sub \in mandates
  BY DEF Inv, HookInv
<1>u. held'[h] \in Objects' \union {NoObject}
  BY DEF TypeOK
<1>n. NoObject.status = Absent
  BY DEF NoObject
<1>j. \A change, c : c \in Checkouts /\ Justified(change, c) =>
        /\ change = "cancel" => provider'[c] = "CANCELLED"
        /\ change \in Changes \ {"cancel"} => c \in mandates'
  BY Lasting DEF Justified
<1>s. \A n \in Notices : n.sub \in Checkouts
  BY DEF Notices
<1>1. CASE Receive(h)
  <2>1. PICK n \in notices :
          \/ /\ handling' = [handling EXCEPT ![h] = [notice |-> n, change |-> Change(n)]]
             /\ Goto(h, "find")
             /\ UNCHANGED <<notices, redelivered>>
          \/ Acknowledge(n) /\ UNCHANGED <<handling, pc>>
    BY <1>1 DEF Receive
  <2>2. n \in Notices
    BY DEF Inv, TypeOK
  <2>3. pc[h] = "idle" /\ h \in Processes
    BY <1>1 DEF Receive
  <2>4. \/ pc'[h] = "idle"
        \/ pc'[h] = "find" /\ handling'[h] = [notice |-> n, change |-> Change(n)]
    BY <2>1, <2>3 DEF Goto, Inv, TypeOK
  <2> QED
    BY <1>j, <1>s, <2>2, <2>4, ChangeIsJustified DEF Justified
<1>2. CASE FindByProvider(h)
  <2> DEFINE s == handling[h].notice.sub
             change == handling[h].change
  <2>1. pc[h] = "find" /\ row' = row /\ provider' = provider /\ mandates' = mandates
    BY <1>2 DEF FindByProvider, rows
  <2>2. s \in Checkouts /\ Justified(change, s) /\ handling[h].notice \in Notices
    BY <1>0, <1>s, <2>1
  <2>3. change \in Changes \union {"none"}
    BY <2>1, <2>2 DEF Inv, TypeOK, NoHandling, Changes
  <2>4. \/ pc'[h] = "idle"
        \/ /\ pc'[h] = "save" /\ handling' = handling
           /\ held'[h] = Changed(s, change) /\ row[s].status # Absent /\ change # "none"
    BY <1>2 DEF FindByProvider, Leave, Goto, Inv, TypeOK
  <2>5. ASSUME change # "none"
        PROVE  /\ Changed(s, change).sub = s
               /\ Changed(s, change).status = "CANCELLED" => change = "cancel"
               /\ Changed(s, change).status \in Paid => change \in Changes \ {"cancel"}
               /\ Changed(s, change).status # Absent
    BY <2>3, <2>5 DEF Changed, Changes, Paid, Absent
  <2> QED
    BY <1>u, <1>n, <2>1, <2>2, <2>4, <2>5 DEF Justified
<1>3. CASE SaveSync(h)
  <2>1. pc'[h] = "idle"
    BY <1>3 DEF SaveSync, Leave, Goto, Inv, TypeOK
  <2> QED
    BY <2>1
<1>4. CASE Crash
  BY <1>4 DEF Crash
<1>5. CASE ~HookStep(h) /\ ~Crash
  <2>1. pc'[h] = pc[h] /\ held'[h] = held[h] /\ handling'[h] = handling[h]
    BY <1>5, HookStays
  <2>2. pc[h] = "save" => held'[h] \in Objects'
    <3>1. pc[h] = "save" => held[h] # NoObject
      BY <1>0
    <3> QED
      BY <1>u, <2>1, <3>1
  <2>3. pc'[h] \in {"find", "save"} =>
                         /\ handling'[h].notice \in Notices
                         /\ handling'[h].change = "cancel" =>
                              provider'[handling'[h].notice.sub] = "CANCELLED"
                         /\ handling'[h].change \in Changes \ {"cancel"} =>
                              handling'[h].notice.sub \in mandates'
    BY <1>0, <1>j, <1>s, <2>1 DEF Justified
  <2> QED
    BY <1>0, <2>1, <2>2, <2>3, Lasting
<1> QED
  BY <1>1, <1>2, <1>3, <1>4, <1>5 DEF HookStep
-----------------------------------------------------------------------------
LEMMA NoticeInvStep ==
  ASSUME Inv, [Next]_vars
  PROVE  NoticeInv'
<1>0. \A n \in notices : n.topic # "preapproval" => n.sub \in mandates'
  BY Lasting DEF Inv, NoticeInv
<1>1. CASE notices' \subseteq notices
  BY <1>0, <1>1 DEF NoticeInv
<1>2. ASSUME NEW c \in Checkouts, Notify(c, "preapproval") PROVE NoticeInv'
  BY <1>0, <1>2 DEF NoticeInv, Notify
<1>3. ASSUME NEW c \in Checkouts, NEW topic \in Topics, Notify(c, topic), c \in mandates PROVE NoticeInv'
  BY <1>0, <1>3, Lasting DEF NoticeInv, Notify
<1>4. ASSUME NEW c \in Checkouts, CheckoutStep(c) PROVE NoticeInv'
  BY <1>1, <1>2, <1>4 DEF CheckoutStep, StartCheckout, SaveCheckout, gateway
<1>5. ASSUME NEW c \in Checkouts, GatewayStep(c) PROVE NoticeInv'
  <2>1. ASSUME Charge(c) PROVE NoticeInv'
    <3>1. c \in mandates
      BY <2>1 DEF Charge, Inv, CheckoutInv
    <3> QED
      BY <1>3, <2>1, <3>1 DEF Charge
  <2> QED
    BY <1>2, <1>5, <2>1 DEF GatewayStep, Authorize, ChangeAtGateway
<1>6. ASSUME NEW x \in Cancels, CancelStep(x) PROVE NoticeInv'
  <2>1. pc[x] = "gateway" => held[x].sub \in Checkouts
    BY DEF Inv, CancelInv
  <2>2. CASE CancelAtGateway(x)
    BY <1>1, <1>2, <2>1, <2>2 DEF CancelAtGateway
  <2>3. CASE FetchCurrent(x) \/ SaveCancelled(x)
    BY <1>1, <2>3 DEF FetchCurrent, SaveCancelled, gateway
  <2> QED
    BY <1>6, <2>2, <2>3 DEF CancelStep
<1>7. ASSUME NEW h \in Hooks, HookStep(h) PROVE notices' \subseteq notices
  BY <1>7 DEF HookStep, Receive, FindByProvider, SaveSync, Acknowledge
<1>8. ASSUME NEW g \in Grants, Grant(g) PROVE notices' = notices
  BY <1>8 DEF Grant, gateway
<1>9. ASSUME JobStep \/ Tick \/ Crash \/ UNCHANGED vars PROVE notices' = notices
  BY <1>9 DEF JobStep, ListExpired, SaveExpired, Tick, Crash, vars, gateway
<1> QED
  BY <1>1, <1>4, <1>5, <1>6, <1>7, <1>8, <1>9 DEF Next

LEMMA BatchInvStep ==
  ASSUME Inv, [Next]_vars
  PROVE  BatchInv'
<1> USE ProcessSets
<1>0. \A o \in batch : o.sub \in Subscriptions
  BY DEF Inv, TypeOK, Objects
<1>1. CASE batch' \subseteq batch
  BY <1>0, <1>1, Lasting DEF Inv, BatchInv
<1>2. ASSUME ListExpired PROVE BatchInv'
  <2>1. PICK ss \in SUBSET {s \in Subscriptions : Lapsed(s)} :
          batch' = {[sub |-> s, status |-> "EXPIRED", end |-> row[s].end] : s \in ss}
    BY <1>2 DEF ListExpired
  <2>2. row' = row /\ mandates' = mandates
    BY <1>2 DEF ListExpired, rows, gateway
  <2>3. \A s \in ss : row[s].status # Absent /\ (s \in Checkouts => s \in mandates)
    BY DEF Lapsed, Absent, Inv, PaidAccessOnly, Paid
  <2> QED
    BY <2>1, <2>2, <2>3 DEF BatchInv
<1>3. ASSUME NEW c \in Checkouts, CheckoutStep(c) \/ GatewayStep(c) PROVE batch' = batch
  BY <1>3 DEF CheckoutStep, GatewayStep, StartCheckout, SaveCheckout, Authorize, Charge, ChangeAtGateway, locals
<1>4. ASSUME NEW x \in Cancels, CancelStep(x) PROVE batch' = batch
  BY <1>4 DEF CancelStep, FetchCurrent, CancelAtGateway, SaveCancelled
<1>5. ASSUME NEW h \in Hooks, HookStep(h) PROVE batch' = batch
  BY <1>5 DEF HookStep, Receive, FindByProvider, SaveSync
<1>6. ASSUME NEW g \in Grants, Grant(g) PROVE batch' = batch
  BY <1>6 DEF Grant
<1>7. ASSUME SaveExpired \/ Tick \/ Crash \/ UNCHANGED vars PROVE batch' \subseteq batch
  BY <1>7 DEF SaveExpired, Tick, Crash, vars, locals
<1> QED
  BY <1>1, <1>2, <1>3, <1>4, <1>5, <1>6, <1>7 DEF Next, JobStep
-----------------------------------------------------------------------------
LEMMA InvInit == Init => Inv
<1> SUFFICES ASSUME Init PROVE Inv
  OBVIOUS
<1> USE ProcessSets DEF Init
<1>1. TypeOK
  BY AccessBounds DEF TypeOK, Ends
<1>2. CancelledIsStopped /\ PaidAccessOnly
  BY DEF CancelledIsStopped, PaidAccessOnly, NoRow, Absent, Paid
<1>3. CheckoutInv
  BY DEF CheckoutInv, NoRow, Absent
<1>4. CancelInv /\ HookInv
  BY DEF CancelInv, HookInv
<1>5. NoticeInv /\ BatchInv
  BY DEF NoticeInv, BatchInv
<1> QED
  BY <1>1, <1>2, <1>3, <1>4, <1>5 DEF Inv

LEMMA InvStep == Inv /\ [Next]_vars => Inv'
<1> SUFFICES ASSUME Inv, [Next]_vars PROVE Inv'
  OBVIOUS
<1>1. TypeOK'
  BY TypeStep DEF Inv, HeldInv
<1> QED
  BY <1>1, RowStep, CheckoutInvStep, CancelInvStep, HookInvStep, NoticeInvStep, BatchInvStep DEF Inv

(* The inductive invariant of Access.                                      *)
THEOREM AccessInvariance == Spec => []Inv
<1> QED
  BY InvInit, InvStep, PTL DEF Spec

(* Every state is well typed, and no row promises more than one period     *)
(* from now.                                                               *)
THEOREM AccessTypes == Spec => []TypeOK
<1>1. Inv => TypeOK
  BY DEF Inv
<1> QED
  BY <1>1, AccessInvariance, PTL

(* A subscription shown as cancelled is not charged any more.              *)
THEOREM CancelStops == Spec => []CancelledIsStopped
<1>1. Inv => CancelledIsStopped
  BY DEF Inv
<1> QED
  BY <1>1, AccessInvariance, PTL

(* No checkout gives access before its payer authorizes it.                *)
THEOREM NoFreeAccess == Spec => []PaidAccessOnly
<1>1. Inv => PaidAccessOnly
  BY DEF Inv
<1> QED
  BY <1>1, AccessInvariance, PTL

(* A subscription that its payer authorized has a row for the webhooks.    *)
THEOREM AuthorizedHasRow == Spec => []AuthorizedIsKnown
<1>1. Inv => AuthorizedIsKnown
  BY DEF Inv, CheckoutInv, AuthorizedIsKnown, TypeOK
<1> QED
  BY <1>1, AccessInvariance, PTL

(* Of numbers up to a bound there is a greatest: what it lacks of the      *)
(* bound is the least, and less-than is well-founded.                      *)
LEMMA GreatestExists ==
  ASSUME NEW N \in Nat, NEW S \in SUBSET (0 .. N), S # {}
  PROVE  \E x \in S : \A y \in S : y <= x
<1> DEFINE R == OpToRel(<, Nat)
           T == {N - x : x \in S}
<1>1. IsWellFoundedOn(R, Nat)
  BY NatLessThanWellFounded
<1>2. \A x \in S : N - x \in Nat
  OBVIOUS
<1>3. T \subseteq Nat /\ T # {}
  BY <1>2
<1>4. \A m, n \in Nat : m < n => <<m, n>> \in R
  BY DEF OpToRel
<1> HIDE DEF R
<1>5. PICK t \in T : \A u \in T : <<u, t>> \notin R
  BY <1>1, <1>3, WFMin
<1>6. PICK x \in S : t = N - x
  BY DEF T
<1>7. ASSUME NEW y \in S PROVE y <= x
  <2>1. ~(N - y < N - x)
    BY <1>2, <1>4, <1>5, <1>6 DEF T
  <2> QED
    BY <2>1
<1> QED
  BY <1>7

LEMMA LongestIsFetched == TypeOK => GateAgrees
<1> SUFFICES ASSUME TypeOK PROVE GateAgrees
  OBVIOUS
<1> DEFINE actives == {s \in Subscriptions : row[s].status = "ACTIVE"}
           ends == {row[s].end : s \in actives}
<1>1. \A s \in actives : row[s].end \in 0 .. MaxNow + Period
  BY DEF TypeOK, NoRow, Absent, Ends
<1>2. ASSUME NEW s \in Subscriptions, IsActive(s) PROVE CanOperate
  <2>1. now \in Int /\ MaxNow + Period \in Nat /\ s \in actives /\ row[s].end > now
    BY <1>2, AccessBounds DEF TypeOK, IsActive
  <2>2. ends \in SUBSET (0 .. MaxNow + Period) /\ ends # {}
    BY <1>1, <2>1
  <2>3. PICK x \in ends : \A y \in ends : y <= x
    BY <2>1, <2>2, GreatestExists
  <2>4. PICK t \in actives : row[t].end = x
    BY <2>3
  <2>5. t \in FindActive
    BY <2>3, <2>4 DEF FindActive
  <2>6. row[s].end <= row[t].end /\ row[s].end \in Int /\ row[t].end \in Int
    BY <1>1, <2>1, <2>3, <2>4
  <2>7. IsActive(t)
    BY <2>1, <2>4, <2>6 DEF IsActive
  <2> QED
    BY <2>5, <2>7 DEF CanOperate
<1>3. CanOperate => \E s \in Subscriptions : IsActive(s)
  BY DEF CanOperate, FindActive
<1> QED
  BY <1>2, <1>3 DEF GateAgrees

(* OrganizationAccessService.canOperate, of the one row that               *)
(* findActiveByOrganization fetches: with several subscriptions, the gate  *)
(* is open exactly while one of them is active.                            *)
THEOREM GateAsksTheRightRow == Spec => []GateAgrees
<1> QED
  BY AccessTypes, LongestIsFetched, PTL
=============================================================================
