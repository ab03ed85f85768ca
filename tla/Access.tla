--------------------------------- MODULE Access ---------------------------------
(***************************************************************************)
(* The paid access of one organization: its subscription rows, the         *)
(* payment gateway that charges for them, the owner's checkouts and        *)
(* cancellations, the courtesy grants of a super admin, the gateway's      *)
(* webhooks and the hourly job that expires what was not renewed.          *)
(*                                                                         *)
(* Nobody locks a row: every use case reads a subscription, awaits, and    *)
(* saves all its columns.  The object in the hands of a request between    *)
(* the two is held[p].  A subscription bears the name of the request that  *)
(* creates it, and so does its preapproval at the gateway.                 *)
(***************************************************************************)
EXTENDS Integers, FiniteSets

CONSTANTS
  Checkouts,        \* checkout requests, and the subscriptions they create
  Grants,           \* courtesy grants, and the subscriptions they create
  Cancels,          \* cancellation requests
  Hooks,            \* webhook deliveries the server handles at the same time
  Job,              \* the single instance of ExpireSubscriptionsJob
  Nobody,           \* no subscription
  Period,           \* a plan's period, in ticks of the clock
  BatchSize,        \* BATCH_SIZE of the job
  MaxNow,           \* bound on the clock
  MaxNotices,       \* bound on the gateway's notifications
  MaxRedeliveries,  \* bound on notifications delivered again
  MaxCrashes        \* bound on server crashes

Subscriptions == Checkouts \union Grants
Requests == Checkouts \union Cancels \union Hooks
Processes == Requests \union Grants \union {Job}

ASSUME AccessFinite == IsFiniteSet(Checkouts) /\ IsFiniteSet(Grants)
ASSUME AccessNames ==
  /\ Nobody \notin Subscriptions
  /\ Checkouts \intersect (Grants \union Cancels \union Hooks) = {}
  /\ Cancels \intersect (Grants \union Hooks) = {}
  /\ Hooks \intersect Grants = {}
  /\ Job \notin Requests \union Grants
ASSUME AccessBounds ==
  /\ Period \in Nat \ {0}
  /\ BatchSize \in Nat \ {0}
  /\ {MaxNow, MaxNotices, MaxRedeliveries, MaxCrashes} \subseteq Nat

Statuses == {"PENDING", "ACTIVE", "PAST_DUE", "SUSPENDED", "CANCELLED", "EXPIRED"}
Absent == "ABSENT"    \* no row with this id
Changes == {"cancel", "suspend", "markPastDue", "activate"}

(* What the gateway's notification is about: the preapproval itself, or a  *)
(* recurring charge and how it went.                                       *)
Topics == {"preapproval", "approved", "rejected", "in_process"}
-----------------------------------------------------------------------------
VARIABLES
  row,           \* row[s]: status and currentPeriodEnd of a subscription
  born,          \* born[s]: the rank of createdAt, 0 before
  now,           \* the clock
  provider,      \* provider[c]: the preapproval at the gateway
  mandates,      \* preapprovals a payer has authorized
  notices,       \* notifications the gateway has not had a 200 for
  sent,          \* how many it has emitted
  redelivered,   \* how many it has delivered again
  pc,            \* where each process is
  held,          \* held[p]: the subscription object request p will save
  handling,      \* handling[h]: the notification h is about and what it asks for
  batch,         \* the objects the job still has to save
  crashes

rows == <<row, born>>
gateway == <<provider, mandates, notices, sent, redelivered>>
locals == <<pc, held, handling, batch>>
vars == <<rows, now, gateway, locals, crashes>>

NoRow == [status |-> Absent, end |-> 0]
NoObject == [sub |-> Nobody, status |-> Absent, end |-> 0]
NoNotice == [sub |-> Nobody, topic |-> "preapproval"]
NoHandling == [notice |-> NoNotice, change |-> "none"]

Notices == [sub : Checkouts, topic : Topics]

Rows == {s \in Subscriptions : row[s].status # Absent}

(* SubscriptionRepository.save: insert, or overwrite every column.         *)
Save(o) == row' = [row EXCEPT ![o.sub] = [status |-> o.status, end |-> o.end]]

Goto(p, label) == pc' = [pc EXCEPT ![p] = label]

Leave(p, label) ==
  /\ Goto(p, label)
  /\ held' = [held EXCEPT ![p] = NoObject]

NextRank == 1 + Cardinality({s \in Subscriptions : born[s] > 0})

Notify(c, topic) ==
  /\ sent < MaxNotices
  /\ sent' = sent + 1
  /\ notices' = notices \union {[sub |-> c, topic |-> topic]}

(* The gateway takes a 200 for an answer, or delivers once more.           *)
Acknowledge(n) ==
  \/ notices' = notices \ {n} /\ UNCHANGED redelivered
  \/ /\ redelivered < MaxRedeliveries
     /\ redelivered' = redelivered + 1
     /\ UNCHANGED notices
-----------------------------------------------------------------------------
Init ==
  /\ row = [s \in Subscriptions |-> NoRow]
  /\ born = [s \in Subscriptions |-> 0]
  /\ now = 0
  /\ provider = [c \in Checkouts |-> "NONE"]
  /\ mandates = {}
  /\ notices = {}
  /\ sent = 0
  /\ redelivered = 0
  /\ pc = [p \in Processes |-> "idle"]
  /\ held = [p \in Requests |-> NoObject]
  /\ handling = [h \in Hooks |-> NoHandling]
  /\ batch = {}
  /\ crashes = 0
-----------------------------------------------------------------------------
(* StartSubscriptionCheckout.execute                                       *)

(* Mutant: the owner is sent to the hosted checkout before the save.       *)
StartCheckout_AnswersFirst(c) ==
  /\ pc[c] = "idle"
  /\ born' = [born EXCEPT ![c] = NextRank]
  /\ provider' = [provider EXCEPT ![c] = "PENDING"]
  /\ Goto(c, "done")
  /\ UNCHANGED <<row, now, mandates, notices, sent, redelivered, held, handling, batch, crashes>>

(* A PENDING subscription with a placeholder period, then a preapproval    *)
(* for it at the gateway, which may announce it and whose answer may be    *)
(* lost, or which may refuse (as may the plan lookup).                     *)
StartCheckout(c) ==
  /\ pc[c] = "idle"
  /\ \/ /\ born' = [born EXCEPT ![c] = NextRank]
        /\ provider' = [provider EXCEPT ![c] = "PENDING"]
        /\ \/ Notify(c, "preapproval")
           \/ UNCHANGED <<notices, sent>>
        /\ \/ /\ held' = [held EXCEPT ![c] = [sub |-> c, status |-> "PENDING", end |-> now]]
              /\ Goto(c, "save")
           \/ Leave(c, "failed")
     \/ Leave(c, "failed") /\ UNCHANGED <<born, provider, notices, sent>>
  /\ UNCHANGED <<row, now, mandates, redelivered, handling, batch, crashes>>

SaveCheckout(c) ==
  /\ pc[c] = "save"
  /\ Save(held[c])
  /\ Leave(c, "done")
  /\ UNCHANGED <<born, now, gateway, handling, batch, crashes>>

(* GrantSubscription.execute: active at once, without the gateway.         *)
Grant(g) ==
  /\ pc[g] = "idle"
  /\ born' = [born EXCEPT ![g] = NextRank]
  /\ Save([sub |-> g, status |-> "ACTIVE", end |-> now + Period])
  /\ Goto(g, "done")
  /\ UNCHANGED <<now, gateway, held, handling, batch, crashes>>
-----------------------------------------------------------------------------
(* CancelSubscription.execute                                              *)

(* The newest row of the organization, whatever its status.                *)
FindCurrent == {s \in Rows : \A t \in Rows : born[t] <= born[s]}

(* Mutant: the row is marked without telling the gateway.                  *)
FetchCurrent_SkipsGateway(x) ==
  /\ pc[x] = "idle"
  /\ \E s \in FindCurrent :
       /\ held' = [held EXCEPT ![x] = [sub |-> s, status |-> "CANCELLED", end |-> row[s].end]]
       /\ Goto(x, "save")
  /\ UNCHANGED <<rows, now, gateway, handling, batch, crashes>>

FetchCurrent(x) ==
  /\ pc[x] = "idle"
  /\ \/ FindCurrent = {} /\ Leave(x, "failed")
     \/ \E s \in FindCurrent :
          /\ held' = [held EXCEPT ![x] = [sub |-> s, status |-> "CANCELLED", end |-> row[s].end]]
          /\ Goto(x, IF s \in Checkouts THEN "gateway" ELSE "save")
  /\ UNCHANGED <<rows, now, gateway, handling, batch, crashes>>

(* The gateway stops future charges, or refuses; the request fails then,   *)
(* and also when the gateway's answer is lost.                             *)
CancelAtGateway(x) ==
  /\ pc[x] = "gateway"
  /\ \/ /\ provider' = [provider EXCEPT ![held[x].sub] = "CANCELLED"]
        /\ \/ Notify(held[x].sub, "preapproval")
           \/ UNCHANGED <<notices, sent>>
        /\ \/ Goto(x, "save") /\ UNCHANGED held
           \/ Leave(x, "failed")
     \/ Leave(x, "failed") /\ UNCHANGED <<provider, notices, sent>>
  /\ UNCHANGED <<rows, now, mandates, redelivered, handling, batch, crashes>>

SaveCancelled(x) ==
  /\ pc[x] = "save"
  /\ Save(held[x])
  /\ Leave(x, "done")
  /\ UNCHANGED <<born, now, gateway, handling, batch, crashes>>
-----------------------------------------------------------------------------
(* HandleSubscriptionWebhook and SyncSubscriptionFromProvider              *)

(* Mutant: a preapproval that nobody authorized yet opens the period.      *)
Change_OpensPending(n) ==
  CASE n.topic = "preapproval" /\ provider[n.sub] = "CANCELLED" -> "cancel"
    [] n.topic = "preapproval" /\ provider[n.sub] = "PAUSED"    -> "suspend"
    [] n.topic = "rejected"                                     -> "markPastDue"
    [] OTHER                                                    -> "activate"

(* What an event resolved against the gateway asks of our subscription.  A *)
(* charge notification says AUTHORIZED without asking for the preapproval; *)
(* only a rejected charge is told apart from an approved one.              *)
Change(n) ==
  CASE n.topic = "preapproval" /\ provider[n.sub] = "CANCELLED"          -> "cancel"
    [] n.topic = "preapproval" /\ provider[n.sub] = "PAUSED"             -> "suspend"
    [] n.topic = "preapproval" /\ provider[n.sub] \in {"NONE", "PENDING"} -> "none"
    [] n.topic = "rejected"                                              -> "markPastDue"
    [] OTHER                                                             -> "activate"

(* The gateway's API is asked about the notification; when it cannot       *)
(* answer, the notification is taken for an irrelevant one.                *)
Receive(h) ==
  /\ pc[h] = "idle"
  /\ \E n \in notices :
       \/ /\ handling' = [handling EXCEPT ![h] = [notice |-> n, change |-> Change(n)]]
          /\ Goto(h, "find")
          /\ UNCHANGED <<notices, redelivered>>
       \/ Acknowledge(n) /\ UNCHANGED <<handling, pc>>
  /\ UNCHANGED <<rows, now, provider, mandates, sent, held, batch, crashes>>

(* The transitions of the Subscription entity.                             *)
Changed(s, change) ==
  CASE change = "cancel"      -> [sub |-> s, status |-> "CANCELLED", end |-> row[s].end]
    [] change = "suspend"     -> [sub |-> s, status |-> "SUSPENDED", end |-> row[s].end]
    [] change = "markPastDue" -> [sub |-> s, status |-> "PAST_DUE", end |-> row[s].end]
    [] change = "activate"    -> [sub |-> s, status |-> "ACTIVE", end |-> now + Period]

(* Unknown ids and changes that ask for nothing are answered and dropped.  *)
FindByProvider(h) ==
  LET s == handling[h].notice.sub
      change == handling[h].change
      ignored == row[s].status = Absent \/ change = "none" IN
  /\ pc[h] = "find"
  /\ \/ /\ ignored
        /\ Acknowledge(handling[h].notice)
        /\ handling' = [handling EXCEPT ![h] = NoHandling]
        /\ Leave(h, "idle")
     \/ /\ ~ignored
        /\ held' = [held EXCEPT ![h] = Changed(s, change)]
        /\ Goto(h, "save")
        /\ UNCHANGED <<notices, redelivered, handling>>
  /\ UNCHANGED <<rows, now, provider, mandates, sent, batch, crashes>>

SaveSync(h) ==
  /\ pc[h] = "save"
  /\ Save(held[h])
  /\ Acknowledge(handling[h].notice)
  /\ handling' = [handling EXCEPT ![h] = NoHandling]
  /\ Leave(h, "idle")
  /\ UNCHANGED <<born, now, provider, mandates, sent, batch, crashes>>
-----------------------------------------------------------------------------
(* ExpireSubscriptionsJob.run                                              *)

Lapsed(s) == row[s].status \in {"ACTIVE", "PAST_DUE"} /\ row[s].end < now

(* Mutant: only failed charges are looked for.                             *)
ListExpired_PastDueOnly ==
  /\ pc[Job] = "idle"
  /\ \E ss \in SUBSET {s \in Subscriptions : Lapsed(s) /\ row[s].status = "PAST_DUE"} :
       /\ ss # {}
       /\ batch' = {[sub |-> s, status |-> "EXPIRED", end |-> row[s].end] : s \in ss}
  /\ Goto(Job, "save")
  /\ UNCHANGED <<rows, now, gateway, held, handling, crashes>>

(* A batch of lapsed rows, as many as the limit lets through.              *)
ListExpired ==
  LET lapsed == {s \in Subscriptions : Lapsed(s)} IN
  /\ pc[Job] = "idle"
  /\ lapsed # {}
  /\ \E ss \in SUBSET lapsed :
       /\ \/ ss = lapsed /\ Cardinality(ss) <= BatchSize
          \/ Cardinality(ss) = BatchSize
       /\ batch' = {[sub |-> s, status |-> "EXPIRED", end |-> row[s].end] : s \in ss}
  /\ Goto(Job, "save")
  /\ UNCHANGED <<rows, now, gateway, held, handling, crashes>>

SaveExpired ==
  /\ pc[Job] = "save"
  /\ \E o \in batch :
       /\ Save(o)
       /\ batch' = batch \ {o}
       /\ Goto(Job, IF batch = {o} THEN "idle" ELSE "save")
  /\ UNCHANGED <<born, now, gateway, held, handling, crashes>>
-----------------------------------------------------------------------------
(* The payer and the gateway, as far as the code can see them              *)

(* The payer authorizes at the init point, which the checkout answered.    *)
Authorize(c) ==
  /\ pc[c] = "done"
  /\ provider[c] = "PENDING"
  /\ provider' = [provider EXCEPT ![c] = "AUTHORIZED"]
  /\ mandates' = mandates \union {c}
  /\ Notify(c, "preapproval")
  /\ UNCHANGED <<rows, now, redelivered, locals, crashes>>

Charge(c) ==
  /\ provider[c] = "AUTHORIZED"
  /\ \E topic \in Topics \ {"preapproval"} : Notify(c, topic)
  /\ UNCHANGED <<rows, now, provider, mandates, redelivered, locals, crashes>>

(* The gateway pauses or resumes, or the payer cancels there, for good.    *)
ChangeAtGateway(c) ==
  /\ \E from \in {"AUTHORIZED", "PAUSED"}, to \in {"AUTHORIZED", "PAUSED", "CANCELLED"} :
       /\ from # to
       /\ provider[c] = from
       /\ provider' = [provider EXCEPT ![c] = to]
  /\ Notify(c, "preapproval")
  /\ UNCHANGED <<rows, now, mandates, redelivered, locals, crashes>>

Tick ==
  /\ now < MaxNow
  /\ now' = now + 1
  /\ UNCHANGED <<rows, gateway, locals, crashes>>

(* Requests in flight are gone; rows and the gateway stay.                 *)
Crash ==
  /\ crashes < MaxCrashes
  /\ crashes' = crashes + 1
  /\ pc' = [p \in Processes |->
              IF p \in Hooks \union {Job} THEN "idle"
              ELSE IF pc[p] \in {"gateway", "save"} THEN "failed" ELSE pc[p]]
  /\ held' = [p \in Requests |-> NoObject]
  /\ handling' = [h \in Hooks |-> NoHandling]
  /\ batch' = {}
  /\ UNCHANGED <<rows, now, gateway>>
-----------------------------------------------------------------------------
CheckoutStep(c) == StartCheckout(c) \/ SaveCheckout(c)
CancelStep(x) == FetchCurrent(x) \/ CancelAtGateway(x) \/ SaveCancelled(x)
HookStep(h) == Receive(h) \/ FindByProvider(h) \/ SaveSync(h)
JobStep == ListExpired \/ SaveExpired
GatewayStep(c) == Authorize(c) \/ Charge(c) \/ ChangeAtGateway(c)

Next ==
  \/ \E c \in Checkouts : CheckoutStep(c) \/ GatewayStep(c)
  \/ \E g \in Grants : Grant(g)
  \/ \E x \in Cancels : CancelStep(x)
  \/ \E h \in Hooks : HookStep(h)
  \/ JobStep
  \/ Tick
  \/ Crash

Spec == Init /\ [][Next]_vars

(* Cron ticks every hour for ever.                                         *)
FairSpec == Spec /\ WF_vars(JobStep)
-----------------------------------------------------------------------------
(* OrganizationAccessService.canOperate, for an organization that is       *)
(* neither suspended nor on trial.                                         *)

IsActive(s) == row[s].status = "ACTIVE" /\ row[s].end > now

FindActive ==
  LET actives == {s \in Subscriptions : row[s].status = "ACTIVE"} IN
  {s \in actives : \A t \in actives : row[t].end <= row[s].end}

CanOperate == \E s \in FindActive : IsActive(s)
-----------------------------------------------------------------------------
(* Type correctness, with the bound on what a row can promise: no period   *)
(* ever ends later than one period from now, however often and however     *)
(* late the gateway repeats itself (activateForPeriod starts at now).      *)
Ends == {e \in 0 .. MaxNow + Period : e <= now + Period}
Objects == [sub : Subscriptions, status : Statuses, end : Ends]

TypeOK ==
  /\ now \in 0 .. MaxNow
  /\ row \in [Subscriptions -> [status : Statuses, end : Ends] \union {NoRow}]
  /\ born \in [Subscriptions -> Nat]
  /\ provider \in [Checkouts -> {"NONE", "PENDING", "AUTHORIZED", "PAUSED", "CANCELLED"}]
  /\ mandates \subseteq Checkouts
  /\ notices \subseteq Notices
  /\ sent \in 0 .. MaxNotices
  /\ redelivered \in 0 .. MaxRedeliveries
  /\ pc \in [Processes -> {"idle", "gateway", "find", "save", "done", "failed"}]
  /\ held \in [Requests -> Objects \union {NoObject}]
  /\ handling \in [Hooks -> [notice : Notices, change : Changes \union {"none"}] \union {NoHandling}]
  /\ batch \subseteq {o \in Objects : o.status = "EXPIRED"}
  /\ crashes \in 0 .. MaxCrashes

(* CancelSubscription tells the gateway before it saves, and the webhook   *)
(* cancels only what the gateway says is cancelled: no subscription is     *)
(* shown as cancelled while its preapproval can still be charged, whatever *)
(* crashes or fails in between.                                            *)
CancelledIsStopped ==
  \A c \in Checkouts : row[c].status = "CANCELLED" => provider[c] = "CANCELLED"

(* startCheckout gives no access: a checkout's subscription is past        *)
(* PENDING (and not just cancelled) only if its payer has authorized it,   *)
(* whatever notifications arrive late, twice or out of order.              *)
Paid == {"ACTIVE", "PAST_DUE", "SUSPENDED", "EXPIRED"}

PaidAccessOnly == \A c \in Checkouts : row[c].status \in Paid => c \in mandates

(* The init point is handed out after the save, so the payer cannot        *)
(* authorize a subscription that webhooks, which ignore unknown ids, would *)
(* then never find.                                                        *)
AuthorizedIsKnown == \A c \in mandates : row[c].status # Absent

(* The inductive invariant behind the three.  What a request or the job    *)
(* holds between its read and its save is as justified as a row: it was    *)
(* read from a row, or the gateway's answer justifies it.                  *)
CheckoutInv == \A c \in Checkouts :
  /\ pc[c] = "idle" => provider[c] = "NONE"
  /\ pc[c] = "save" => held[c] \in {o \in Objects : o.sub = c /\ o.status = "PENDING"}
  /\ row[c].status # Absent <=> pc[c] = "done"
  /\ c \in mandates => pc[c] = "done"
  /\ provider[c] \in {"AUTHORIZED", "PAUSED"} => c \in mandates

CancelInv == \A x \in Cancels :
  /\ pc[x] \in {"gateway", "save"} =>
       held[x] \in {o \in Objects : o.status = "CANCELLED" /\ row[o.sub].status # Absent}
  /\ pc[x] = "gateway" => held[x].sub \in Checkouts
  /\ pc[x] = "save" /\ held[x].sub \in Checkouts => provider[held[x].sub] = "CANCELLED"

Justified(change, c) ==
  /\ change = "cancel" => provider[c] = "CANCELLED"
  /\ change \in Changes \ {"cancel"} => c \in mandates

HookInv == \A h \in Hooks :
  /\ pc[h] \in {"find", "save"} =>
       /\ handling[h].notice \in Notices
       /\ Justified(handling[h].change, handling[h].notice.sub)
  /\ pc[h] = "save" =>
       /\ held[h] \in Objects
       /\ held[h].sub \in Checkouts
       /\ row[held[h].sub].status # Absent
       /\ held[h].status = "CANCELLED" => provider[held[h].sub] = "CANCELLED"
       /\ held[h].status \in Paid => held[h].sub \in mandates

NoticeInv == \A n \in notices : n.topic # "preapproval" => n.sub \in mandates

BatchInv == \A o \in batch :
  /\ row[o.sub].status # Absent
  /\ o.sub \in Checkouts => o.sub \in mandates

Inv ==
  /\ TypeOK
  /\ CancelledIsStopped
  /\ PaidAccessOnly
  /\ CheckoutInv
  /\ CancelInv
  /\ HookInv
  /\ NoticeInv
  /\ BatchInv

(* findActiveByOrganization fetches one row and canOperate judges that     *)
(* one: the gate opens exactly when some subscription is active, also when *)
(* checkouts and grants have left the organization several.                *)
GateAgrees == CanOperate <=> \E s \in Subscriptions : IsActive(s)

(* ExpireSubscriptionsJob as the safety net of renewals: a lapsed          *)
(* subscription does not stay ACTIVE or PAST_DUE for ever, however many    *)
(* there are per batch and whoever saves it in between.                    *)
LapsedIsExpired == \A s \in Subscriptions : Lapsed(s) ~> ~Lapsed(s)

(* What mercado-pago.gateway.ts says of its idempotency key: a double      *)
(* click does not leave the payer with two authorizations.                 *)
OneAuthorization ==
  Cardinality({c \in Checkouts : provider[c] = "AUTHORIZED"}) <= 1

(* What expire-subscriptions.job.ts says of itself: it marks expired what  *)
(* lapsed without a renewal.                                               *)
ExpiredWithoutRenewal ==
  [][\A s \in Subscriptions :
       row[s].status # "EXPIRED" /\ row'[s].status = "EXPIRED" => row[s].end < now]_vars

(* What cancel-subscription.use-case.ts says: access continues until the   *)
(* period end.                                                             *)
AccessUntilPeriodEnd ==
  \A s \in Subscriptions : row[s].status = "CANCELLED" /\ row[s].end > now => CanOperate
=============================================================================
