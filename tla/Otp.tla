-------------------------------- MODULE Otp --------------------------------
(***************************************************************************)
(* The one-time codes of one customer, that is of one mailbox with one     *)
(* organization: asking for a code, with the wait before each resend and   *)
(* the quota of a sliding window, and validating one, with the limit of    *)
(* wrong guesses.                                                          *)
(*                                                                         *)
(* A sender asks for a code, again if it is refused, and names the code    *)
(* that it is sent in the end; a validator is an HTTP connection and       *)
(* serves one validation after another.  Both work through single          *)
(* statements, without a transaction; hashing and mailing take time.  A    *)
(* request that stops half-way is one that a crash cut off.                *)
(***************************************************************************)
EXTENDS Naturals, FiniteSets, Sequences

CONSTANTS
  Senders,           \* those who ask for a code, and the codes they get
  Validators,
  RESEND_DELAYS,     \* the wait before the first resend, the second, ...
  ResendWindow,
  Ttl,
  MaxAttempts,
  MaxTime,           \* bound on the clock
  NoCode

ASSUME OtpAssumption ==
  /\ RESEND_DELAYS \in Seq(Nat \ {0}) /\ RESEND_DELAYS # << >>
  /\ {ResendWindow, Ttl, MaxAttempts, MaxTime} \subseteq Nat \ {0}
  /\ NoCode \notin Senders
ASSUME OtpNames ==
  /\ IsFiniteSet(Senders) /\ IsFiniteSet(Validators)
  /\ Senders \intersect Validators = {}
ASSUME DelaysGrow ==
  \A m, n \in DOMAIN RESEND_DELAYS : m <= n => RESEND_DELAYS[m] <= RESEND_DELAYS[n]

MAX_SENDS_PER_WINDOW == 1 + Len(RESEND_DELAYS)
-----------------------------------------------------------------------------
VARIABLES
  now,
  saved,         \* codes with a row
  consumed,      \* those of them with a consumed_at
  attempts,      \* attempts[c]: the counter of c's row
  inbox,         \* codes that have been mailed
  pc,
  at,            \* at[c]: the clock as c's request read it, c's created_at
  sent,          \* sent[c]: the codes its request counted
  target,        \* target[v]: the code that v is checking a guess against
  tried,         \* tried[c]: wrong guesses answered for c (history)
  opened,        \* opened[c]: sessions that c has opened (history)
  promised,      \* when a resend was last announced to be ready (history)
  reopens,       \* when the quota was last announced to have room (history)
  crossed,       \* a code was stored in the middle of a refusal (history)
  rush,          \* most requests at once between count and row (history)
  crowd          \* most validations at once (history)

table == <<saved, consumed, attempts>>
request == <<pc, at, sent, target>>
history == <<tried, opened, promised, reopens, crossed, rush, crowd>>
vars == <<now, table, inbox, request, history>>

NoPromise == MaxTime + ResendWindow + 1
Goto(r, label) == pc' = [pc EXCEPT ![r] = label]

Active == saved \ consumed
LatestActive(c) == c \in Active /\ \A d \in Active : at[d] <= at[c]

(* Codes used by their owner do not count.                                 *)
CountedSince(time) == {c \in Active : at[c] + ResendWindow >= time}

Sending == {r \in Senders : pc[r] \in {"wait", "save"}}
Checking == {v \in Validators : pc[v] \in {"guess", "consume"}}
Larger(m, n) == IF m > n THEN m ELSE n

Init ==
  /\ now = 0
  /\ saved = {} /\ consumed = {} /\ inbox = {}
  /\ attempts = [c \in Senders |-> 0]
  /\ pc = [r \in Senders \union Validators |-> "idle"]
  /\ at = [r \in Senders |-> 0]
  /\ sent = [r \in Senders |-> 0]
  /\ target = [v \in Validators |-> NoCode]
  /\ tried = [c \in Senders |-> 0]
  /\ opened = [c \in Senders |-> 0]
  /\ promised = NoPromise /\ reopens = NoPromise /\ crossed = FALSE
  /\ rush = 0 /\ crowd = 0
-----------------------------------------------------------------------------
(* RequestCustomerOtp.execute                                              *)

(* (Of an organization that takes no bookings it is answered like any      *)
(* other, and nothing changes.)                                            *)
Count(r, limit) ==
  LET n == Cardinality(CountedSince(now)) IN
  /\ pc[r] = "idle"
  /\ Goto(r, IF n >= limit THEN "full" ELSE IF n = 0 THEN "save" ELSE "wait")
  /\ at' = [at EXCEPT ![r] = now]
  /\ sent' = [sent EXCEPT ![r] = IF n >= limit THEN @ ELSE n]
  /\ rush' = Larger(rush, Cardinality(Sending'))
  /\ UNCHANGED <<now, table, inbox, target, tried, opened, promised, reopens, crossed, crowd>>

(* Mutant: the quota is off by one.                                        *)
CountSent_OneMore(r) == Count(r, MAX_SENDS_PER_WINDOW + 1)

CountSent(r) == Count(r, MAX_SENDS_PER_WINDOW)

(* Mutant: the place of a code is announced for when the code expires.     *)
Leaves_Expired(c) == at[c] + Ttl
Leaves(c) == at[c] + ResendWindow

(* The quota is used up: the wait that is announced, of a second at least, *)
(* is until the oldest code leaves the window, or a whole window if all    *)
(* have been used since they were counted.                                 *)
FindOldest(r) ==
  LET found == CountedSince(at[r]) IN
  /\ pc[r] = "full"
  /\ \/ found = {} /\ reopens' = at[r] + ResendWindow
     \/ \E c \in found :
          /\ \A d \in found : at[c] <= at[d]
          /\ reopens' = Larger(Leaves(c), at[r] + 1)
  /\ at' = [at EXCEPT ![r] = 0]
  /\ Goto(r, "idle")
  /\ UNCHANGED <<now, table, inbox, sent, target, tried, opened, promised, crossed, rush, crowd>>

Delay(n) == RESEND_DELAYS[IF n \in DOMAIN RESEND_DELAYS THEN n ELSE Len(RESEND_DELAYS)]

(* Mutant: the seconds that are left are never less than one, also where   *)
(* they decide.                                                            *)
ReadyAt_FloorOne(r, c) == Larger(at[c] + Delay(sent[r]), at[r] + 1)

(* When r may send, the newest code being c.                               *)
ReadyAt(r, c) == at[c] + Delay(sent[r])

(* The codes may have been used since they were counted.                   *)
AwaitDelay(r) ==
  /\ pc[r] = "wait"
  /\ \/ /\ Active = {} \/ \E c \in Active : LatestActive(c) /\ ReadyAt(r, c) <= at[r]
        /\ Goto(r, "save")
        /\ UNCHANGED <<at, promised>>
     \/ \E c \in Active :
          /\ LatestActive(c) /\ ReadyAt(r, c) > at[r]
          /\ Goto(r, "idle")
          /\ at' = [at EXCEPT ![r] = 0]
          /\ promised' = ReadyAt(r, c)
  /\ sent' = [sent EXCEPT ![r] = 0]
  /\ UNCHANGED <<now, table, inbox, target, tried, opened, reopens, crossed, rush, crowd>>

SaveCode(r) ==
  /\ pc[r] = "save"
  /\ saved' = saved \union {r}
  /\ promised' = NoPromise /\ reopens' = NoPromise
  /\ crossed' = (crossed \/ \E s \in Senders : pc[s] = "full")
  /\ Goto(r, "mail")
  /\ UNCHANGED <<now, consumed, attempts, inbox, at, sent, target,
                 tried, opened, rush, crowd>>

(* A mail that fails is logged, and the answer is the same.                *)
Mail(r) ==
  /\ pc[r] = "mail"
  /\ inbox' \in {inbox, inbox \union {r}}
  /\ Goto(r, "done")
  /\ UNCHANGED <<now, table, at, sent, target, history>>
-----------------------------------------------------------------------------
(* ValidateCustomerOtp.execute.  The organization's status is not asked.   *)

(* Mutant: one guess too many.                                             *)
Guessable_OffByOne(c) == at[c] + Ttl > now /\ attempts[c] <= MaxAttempts
Guessable(c) == at[c] + Ttl > now /\ attempts[c] < MaxAttempts

(* What the customer typed is the code, which only the mail tells, or not; *)
(* comparing it with the hash takes time.                                  *)
ReadCode(v) ==
  /\ pc[v] = "idle"
  /\ \E c \in Active :
       /\ LatestActive(c) /\ Guessable(c)
       /\ target' = [target EXCEPT ![v] = c]
       /\ \/ c \in inbox /\ Goto(v, "consume")
          \/ Goto(v, "guess")
  /\ crowd' = Larger(crowd, Cardinality(Checking \union {v}))
  /\ UNCHANGED <<now, table, inbox, at, sent, tried, opened, promised, reopens, crossed, rush>>

(* One statement adds one, whatever the counter was when it was checked.   *)
IncrementAttempts(v) ==
  /\ pc[v] = "guess"
  /\ attempts' = [attempts EXCEPT ![target[v]] = @ + 1]
  /\ tried' = [tried EXCEPT ![target[v]] = @ + 1]
  /\ target' = [target EXCEPT ![v] = NoCode]
  /\ Goto(v, "idle")
  /\ UNCHANGED <<now, saved, consumed, inbox, at, sent, opened,
                 promised, reopens, crossed, rush, crowd>>

(* Mutant: the session is opened, and the code stays as it was.            *)
Consume_Forgets(v) ==
  /\ pc[v] = "consume"
  /\ opened' = [opened EXCEPT ![target[v]] = @ + 1]
  /\ target' = [target EXCEPT ![v] = NoCode]
  /\ Goto(v, "idle")
  /\ UNCHANGED <<now, table, inbox, at, sent, tried, promised, reopens, crossed, rush, crowd>>

(* Consumed without a look at whether it already is; then the session's    *)
(* token is signed.                                                        *)
Consume(v) ==
  /\ pc[v] = "consume"
  /\ consumed' = consumed \union {target[v]}
  /\ opened' = [opened EXCEPT ![target[v]] = @ + 1]
  /\ target' = [target EXCEPT ![v] = NoCode]
  /\ Goto(v, "idle")
  /\ UNCHANGED <<now, saved, attempts, inbox, at, sent, tried,
                 promised, reopens, crossed, rush, crowd>>
-----------------------------------------------------------------------------
Tick ==
  /\ now < MaxTime
  /\ now' = now + 1
  /\ UNCHANGED <<table, inbox, request, history>>

OtpRequest(r) ==
  CountSent(r) \/ FindOldest(r) \/ AwaitDelay(r) \/ SaveCode(r) \/ Mail(r)
OtpVerify(v) == ReadCode(v) \/ IncrementAttempts(v) \/ Consume(v)

Next ==
  \/ Tick
  \/ \E r \in Senders : OtpRequest(r)
  \/ \E v \in Validators : OtpVerify(v)

Spec == Init /\ [][Next]_vars
-----------------------------------------------------------------------------
TypeOK ==
  /\ now \in 0 .. MaxTime
  /\ consumed \subseteq saved /\ inbox \subseteq saved /\ saved \subseteq Senders
  /\ attempts \in [Senders -> Nat]
  /\ pc \in [Senders \union Validators -> {"idle", "full", "wait", "save", "mail", "done",
                                          "guess", "consume"}]
  /\ at \in [Senders -> 0 .. MaxTime]
  /\ sent \in [Senders -> Nat]
  /\ target \in [Validators -> saved \union {NoCode}]
  /\ tried \in [Senders -> Nat] /\ opened \in [Senders -> Nat]
  /\ promised \in Nat /\ reopens \in Nat /\ crossed \in BOOLEAN
  /\ rush \in Nat /\ crowd \in Nat

(* The quota of the window, which nobody holds while the code is hashed:   *)
(* requests that overlap can exceed it, by their number less one and no    *)
(* more; one after another they never do.                                  *)
InboxQuota == Cardinality(CountedSince(now)) <= MAX_SENDS_PER_WINDOW + Larger(rush, 1) - 1

(* The limit of wrong guesses is checked before the code is compared and   *)
(* counted after: guesses that overlap exceed it by their number less one, *)
(* and no guess goes uncounted.                                            *)
GuessBudget == \A c \in Senders : tried[c] <= MaxAttempts + Larger(crowd, 1) - 1

(* A code opens one session, unless validations of it overlap, each of     *)
(* which opens its own; never one after the other.                         *)
SingleUse == \A c \in Senders : opened[c] <= Larger(crowd, 1)

(* A wait that was announced does end: who was told when the next resend   *)
(* is ready, and has got no code since, is not sent away again once that   *)
(* time has come, neither for the delay nor for the quota ("con un solo    *)
(* codigo sin consumir, todo reenvio posterior moria [...] esperaras lo    *)
(* que esperaras").  Requests that overlap count each other too late to    *)
(* announce the right wait.                                                *)
WaitEnds ==
  [][\A r \in Senders :
       /\ pc[r] = "wait" /\ pc'[r] = "idle" => rush > 1 \/ at[r] < promised
       /\ pc[r] = "idle" /\ pc'[r] = "full" => rush > 1 \/ now < promised]_vars

(* The quota comes back when its refusal said: who was refused because of  *)
(* it, and has got no code since, finds room later than the instant that   *)
(* was announced; at that very instant the oldest code still counts.  A    *)
(* code stored between the count and the oldest's being found makes the    *)
(* announcement wrong.                                                     *)
QuotaReopens ==
  [][\A r \in Senders :
       pc[r] = "idle" /\ pc'[r] = "full" => rush > 1 \/ crossed \/ now <= reopens]_vars

(* What the error says of its wait ("tells the client how long to wait, so *)
(* the UI can show a real countdown"): later than it, the client is not    *)
(* sent away.  But a refusal for the quota does not look at the newest     *)
(* code, and the delay since that one may still be running.                *)
QuotaWaitSuffices ==
  [][\A r \in Senders :
       pc[r] = "wait" /\ pc'[r] = "idle" => rush > 1 \/ crossed \/ at[r] <= reopens]_vars

(* The inductive invariant behind the others.  A request holds a place of  *)
(* the quota from its count to its row, a validation one of the budget of  *)
(* its code from its check to its count; what is in flight is never more   *)
(* than the most there has been.  While requests do not overlap, nobody    *)
(* finds more codes, or a later one, than whoever was told to wait.        *)
Guessing(c) == {v \in Validators : pc[v] = "guess" /\ target[v] = c}
Consuming(c) == {v \in Validators : pc[v] = "consume" /\ target[v] = c}

StepInv ==
  /\ \A r \in Senders :
       /\ pc[r] \notin {"guess", "consume"}
       /\ pc[r] \in {"idle", "full", "wait", "save"} => r \notin saved
       /\ pc[r] = "mail" => r \in saved
       /\ at[r] <= now
       /\ pc[r] = "wait" => 0 < sent[r] /\ sent[r] < MAX_SENDS_PER_WINDOW
  /\ \A v \in Validators :
       /\ pc[v] \in {"idle", "guess", "consume"}
       /\ pc[v] # "idle" => target[v] \in saved

CountInv ==
  /\ Cardinality(Sending) <= rush /\ Cardinality(Checking) <= crowd
  /\ Cardinality(CountedSince(now)) + Cardinality(Sending) < MAX_SENDS_PER_WINDOW + Larger(rush, 1)

GuessInv == \A c \in Senders :
  /\ tried[c] = attempts[c]
  /\ attempts[c] + Cardinality(Guessing(c)) < MaxAttempts + Larger(crowd, 1)

OpenInv == \A c \in Senders :
  /\ c \notin consumed => opened[c] = 0
  /\ opened[c] + Cardinality(Consuming(c)) <= Larger(crowd, 1)

(* Nobody who counts n codes is told to wait longer than was promised.     *)
WithinPromise(n) == promised # NoPromise => \A c \in Active : at[c] + Delay(n) <= promised

PromiseInv == rush <= 1 =>
  /\ \A n \in 1 .. Cardinality(CountedSince(now)) : WithinPromise(n)
  /\ \A r \in Senders : pc[r] = "wait" =>
       Cardinality(CountedSince(now)) <= sent[r] /\ WithinPromise(sent[r])

(* Who is told when to resend is not beyond the quota.                     *)
RoomInv == rush <= 1 /\ promised # NoPromise =>
  Cardinality(CountedSince(now)) < MAX_SENDS_PER_WINDOW

(* What a refusal for the quota counted is all that can hold places when   *)
(* its wait is over, less the oldest.                                      *)
CountedAfter(time) == {c \in Active : at[c] + ResendWindow > time}

ReopenInv == rush <= 1 /\ ~crossed =>
  /\ \A r \in Senders : pc[r] = "full" =>
       Cardinality(CountedSince(at[r])) <= MAX_SENDS_PER_WINDOW
  /\ reopens # NoPromise => Cardinality(CountedAfter(reopens)) < MAX_SENDS_PER_WINDOW

Inv ==
  /\ TypeOK
  /\ StepInv
  /\ CountInv
  /\ GuessInv
  /\ OpenInv
  /\ PromiseInv
  /\ RoomInv
  /\ ReopenInv
=============================================================================
