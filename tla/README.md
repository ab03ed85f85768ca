# A TLA+ model of api-agendox

api-agendox is the server of a multi-tenant appointment book: a NestJS process
over one PostgreSQL database. Organizations publish services and resources,
customers book through a public portal, staff administer the calendar, a super
admin administers the organizations, a payment gateway reports on their
subscriptions, and cron jobs expire and remind. This directory models what of it
depends on the order in which requests, jobs, webhooks and crashes touch shared
rows, the calendar computations, and how an installation is configured and
filled.

How to read it: a module per component; `MC*` modules and `.cfg` files that
instantiate them for TLC; `*_proofs` modules whose theorems TLAPS checks
(`Platform_proofs` is about `Tenancy` and `Deployment`, the others are named for one);
`PROJECT.json` with the runs, a mutant for every property, and the source lines
that every definition stands for. A definition under a comment that begins with
"Mutant" is one: a plausible bug, used by no specification. `tlc -config X.cfg
MCName` runs a configuration, `tlapm X_proofs.tla` the proofs.

## Inventory

The process is single-threaded but every `await` is a point where another
request, cron job or webhook can run and commit. Transactions run at READ
COMMITTED (`database/transaction/drizzle-unit-of-work.ts`); most services read a
row outside their transaction, change the object, and upsert the whole row.
Domain events are emitted after the commit and their handlers' errors swallowed.

| Component | State it keeps | Operations | What is hard | What makes it correct | Modules |
|---|---|---|---|---|---|
| Appointments, deposits | `appointments`, `deposits` | book, approve, reject, cancel, complete, no-show, confirm/reject a deposit, expire deposits | stale reads before whole-row saves; replay by idempotency key; lock, index and constraint each guard a part; crash between commit and events | no double booking; one appointment per key; a held slot can be released and is; decisions are final | `Booking`, `SlotLedger` |
| Resources, blocks | `resources`, `blocked_times`, schedules, links | create/update, block/unblock, schedule, assign | deactivation or a block racing a booking; a schedule replaced while it is read or replaced | a booking commits only on an active resource; a reader finds whole schedules | `Directory`, `Booking`, `Availability` |
| Availability | none | slots of some days, is an interval bookable | daylight saving, half-open boundaries, steps, reads by several statements | offered slots are open, free and bookable | `Calendar`, `Availability` |
| Subscriptions | `subscriptions` | checkout, webhook, cancel, grant, hourly expiry, `canOperate` | webhooks out of order, gateway call then save, stale batch | access follows the paid period | `Access` |
| Organizations, super admin, users | `organizations`, `users`, trial and settings rows | register, change status, purge, owner's e-mail, create and edit staff | check-then-act outside the transaction, upserts of rows that are gone | created whole, an owner always, gone for good | `Tenancy` |
| Sessions | `refresh_tokens`, `users` | login, refresh, logout, change/reset password, deactivate | rotation race, revoke-all racing rotation, lost answers | a session has one token and is not lost; a password change revokes | `Sessions` |
| One-time codes | `customer_otps` | request and validate a code | attempts and sends counted by check-then-act | bounded mails and guesses; a code is used once | `Otp` |
| Catalog, clients, portal | `services`, `service_options`, `resources`, `clients` | CRUD, profile, booking, own appointments, feed | whole-row saves; find-or-create of a client; conflict sets that differ by table | answered edits stay; one client per e-mail | `Directory`, `Portal` |
| Notifications | feed, push subscriptions | dispatch on events, devices, reminder job | persisted before sent, crash in between, overlapping runs, batch limit | whoever an event is for is told; one reminder per appointment | `Notifications` |
| Configuration, start, seeds, plans, terms | environment, `plans`, demo rows, acceptances | validate and parse; three commands; accept | two parsers of one text; commands killed and run again; builds rolled back | what started is configured; re-execution neither duplicates nor omits | `Environment`, `Deployment` |
| HTTP, guards, throttling, health | none of its own | wiring | - | - | - |

How they meet. A booking asks `canOperate` (Access) and the calendar
(Availability), locks its resource's row, and publishes events (Notifications). A
registration (Tenancy) writes the rows that Access, Sessions and Availability
start from; a purge removes them. The portal identifies its customers by a code
(Otp) and books (Booking). `Booking` implements `SlotLedger`; `Portal` composes the
customers' requests with the staff's edits of `Directory`; `Availability` runs the
engine of `Calendar` over tables that others edit; `Deployment` starts what
`Environment` validates. The others are joined by the inputs they share: where one
module needs an answer of another's it takes every answer that is possible, a
refusal in `Booking.ReadTenant`, a taken slot in `Portal.Refuse`.

## Runs

| Run | Instance | Checks |
|---|---|---|
| `booking_races` | 2 bookings over 3 slots (overlapping, touching), 1 staff, job, 1 crash, fair | `NoDoubleBooking`, `PendingDepositBacked`, `DecisionsAreFinal`, `ImplementsLedger`, `OverdueSlotReleased`, `EveryBookingEnds` |
| `booking_requests` | 2 bookings with and without a key, 1 staff, 1 administrator, job, 1 crash | `LockProtectsInsert`, `OneAppointmentPerKey`, `ReplayAgreement`, `RefusalLeavesNothing`, `AnnouncedIsCommitted` |
| `access` | 1 checkout, 1 grant, 1 cancellation, webhooks, job, 2 notifications, 1 redelivery, 1 crash, clock to 3, fair | `CancelledIsStopped`, `PaidAccessOnly`, `AuthorizedIsKnown`, `LapsedIsExpired` |
| `find_double_checkout` | 2 checkouts | `OneAuthorization`, violated (see Findings) |
| `tenancy` | 2 registrations, 2 operators, 4 requests | `AllOrNothing`, `PurgeIsFinal` |
| `sessions` | 4 requests of any kind, 2 passwords | `LiveIsNew`, `NeverStranded`, `OneTokenPerSession` |
| `otp` | 3 senders, 2 validators, clock to 5 | `InboxQuota`, `GuessBudget`, `SingleUse`, `WaitEnds`, `QuotaReopens` |
| `reminders` | 2 appointments, 2 runs of the job, 1 decision, 1 fault, fair | `RemindedOnce`, `EveryoneReminded` |
| `notices` | 2 appointments (one booked by the staff), decisions, 1 run, 1 device, 1 fault | `Told`, `LastWord` |
| `availability` | 2 resources, 2 dates, 2 zones, 2 rules, 6 replacements, 2 edits | `ReplacedWhole`, `OfferedIsOpen`, `OfferedIsFree`, `OfferedIsBookable` |
| `portal` | 1-2 rows of each kind, 3 edits, 2 bookings | `PatchSticks`, `EachTheirOwn` |
| `deployment` | 902 environments, 2 plans, 2 services, 2 resources, 3 commands, 2 edits, 3 versions of the terms | `Configured`, `NothingTwice`, `DemoStands`, `PlansReconciled`, `GateOpens` |

Every run says `CHECK_DEADLOCK FALSE`: requests, time and edits are finite in an
instance, and the system rightly stops when they are used up. Symmetry is used in
runs without liveness only, over names that nothing compares.

## Booking

`Booking` is one organization's appointment book. A request, staff action,
administrator action or job run is a process with a program counter; one action
is what it does between two points at which another actor's commit can become
visible. Reads whose order nobody can observe are taken together, and an open
transaction that only holds locks is represented by those locks.

| Model | Code |
|---|---|
| `Submit` .. `PublishBooking` | `CreateAppointment.execute`: replay lookup; reads and gates; `lockActive` + `isBookable` + `hasActiveOverlap`; failed insert; insert and commit; `publishAll` |
| `FetchAppointment`, `Refuse`, `Apply`, `PublishChange` | `AppointmentsService.mutate` with its five callers |
| `FetchDeposit`, `FetchAppointmentOfDeposit`, then the same | `DepositsService.resolve` |
| `ListExpired` .. `PublishExpiry` | `ExpireStaleDeposits.run` |
| `FetchResource`, `SaveResource`, `CreateBlockedTime`, `DeleteBlockedTime` | `ResourcesService` |
| `KeyHolders`, `HasActiveOverlap`, `ExclusionViolated`, `InsertErrors` | the two queries, the EXCLUDE constraint and the partial unique index |
| `TtlElapses`, `Crash` | time and the environment |

An appointment bears the name of the request that creates it, in place of the
random UUID, so the columns that no update touches (resource, range, key) are the
request's own input `claim`. Gates on rows the module does not hold (access,
service, option, link, client, booking window) appear as a nondeterministic
refusal in `ReadTenant`; settings and price appear as a nondeterministic initial
status, which covers `computeDeposit` and `requiresManualApproval`. The resource's
`active` flag is tested where the blocks are read, and again under the lock.

`WrapsDriverErrors` says whether the database driver's errors reach the code with
their SQLSTATE on the error itself or hidden in `cause`. The drizzle-orm version
in the lock file hides it; `booking_races` has it TRUE, `booking_requests`
FALSE, and the proofs hold for either.

`SlotLedger` is the promise: a fixed claim per prospective appointment, a set of
held claims that grows by one non-clashing claim or shrinks by one. `Booking`
implements it with `held` = the appointments whose status blocks time.

### Bounds and fairness

`booking_races`, `booking_requests`: two bookings are the smallest clash; a staff
request and the job are the smallest stale-read race on one row; three slots give
an overlap that is not an equality and a touch that is not an overlap. `BatchSize`
is 1, so that the job always leaves something for a later run. One crash at any
point covers the recovery of every step; more crashes only repeat it.

Fairness: a request that started is driven on by the event loop and by PostgreSQL
waking lock waiters, so weak fairness per request once its `pc` has left `idle`. Cron
ticks forever: weak fairness of the job. Nothing says that anybody submits, or
that a deposit's deadline passes.

### Proofs

`Booking_proofs` proves for every value of the constants: `Inv` is inductive and so
`TypeOK`, `NoDoubleBooking`, `PendingDepositBacked`, `OneAppointmentPerKey`,
`ReplayAgreement`, `LockProtectsInsert`, `RefusalLeavesNothing`,
`AnnouncedIsCommitted` always hold, `DecisionsAreFinal` holds of every step, and
`Booking` implements `SlotLedger`. From: `SlotsAssumption` (slots are non-empty
intervals), `NamesAssumption` (the kinds of names are distinct) and
`BoundsAssumption`.

The safety properties are not inductive by themselves. Each process carries
values it read some steps ago, and what matters is how wrong they can have
become: `StaffInv` and `JobInv` say a stale target still exists, and that the
status the job read of a still pending appointment is its status; `BookingInv`
that a request has no row before its own commit; `AnswerInv` that an answered
appointment carries the request's key. The lemma `ProgressStep` collects what no
step ever undoes (rows stay, decisions stay, deposits do not reopen) and the
frame lemmas say which actions can change what; each conjunct of `Inv` then has a
lemma of its own. `StatusFrame` (a step writes at most one status, and none the
exclusion constraint refuses) carries both `NoDoubleBooking` and the refinement.

Only model-checked: the liveness properties (fairness and ENABLED are beyond the
proof system), and the findings.

## Access

`Access` is the paid access of one organization. Its processes are the owner's
checkouts and cancellations, a super admin's grants, the webhook deliveries the
server handles at the same time, and the hourly job. A row can be overwritten by
any of them between another one's read and its save, because `save` writes every
column and nothing is locked; `held[p]` (`batch` for the job) is the object in
between. The gateway keeps a state of its own, tells the server about it by
notifications in any order, and is part of the environment.

| Model | Code |
|---|---|
| `StartCheckout`, `SaveCheckout` | `StartSubscriptionCheckout.execute` up to and from the gateway's answer |
| `Grant` | `GrantSubscription.execute` (nothing it depends on can change in between) |
| `FetchCurrent`, `CancelAtGateway`, `SaveCancelled` | `CancelSubscription.execute` |
| `Receive`, `Change` | the controller's webhook route, `MercadoPagoGateway.parseWebhook` |
| `FindByProvider`, `Changed`, `SaveSync`, `Acknowledge` | `SyncSubscriptionFromProvider.apply`, the entity's transitions, the 200 |
| `ListExpired`, `SaveExpired`, `Lapsed` | `ExpireSubscriptionsJob.run`, `findExpired` |
| `FindActive`, `IsActive`, `CanOperate` | `OrganizationAccessService.canOperate` and its query |
| `Authorize`, `Charge`, `ChangeAtGateway`, `Tick`, `Crash` | the payer, the gateway, time: the environment |

A subscription bears the name of the request that creates it, and so does its
preapproval. The clock counts ticks, of which a plan's period has `Period`. The
gateway announces whatever changes a subscription from its side, and may or may
not announce what our own calls did; a call may take effect there and its answer
be lost. `notices` is a set: the same notification emitted again before the first
one was answered counts once, after that it is a new one, and `Acknowledge` also
lets the gateway deliver one again that was answered. The organization's status
and its trial, the other inputs of `canOperate`, are rows of `Tenancy`; the plan
lookup matters only when it refuses.

### Bounds and fairness

A checkout and a grant give two rows that are active together, so that the gate,
the newest-row query and a batch of one have something to choose. Two
notifications are an authorization and the event that contradicts it, and one of
them may come twice. `Period` is one tick and a period has lapsed one tick after
its end; a row marked past due lapses at one, a webhook brings it back, and its
new period lapses at three, where the clock stops. The run has one webhook at a
time, beside a cancellation, a checkout and the job that are as stale; webhooks
that overlap one another are covered by the proof, for any number of `Hooks`.

Fairness: only the job's, whose cron ticks for ever. Nobody has to pay, the
gateway has to announce nothing, and requests may hang at the gateway.
`TypeOK` carries more than types here: the end of a row, and of every object on
its way to one, is at most one period from now (`Ends`), because
`activateForPeriod` opens the period at the present and never adds to the old one.

### Proofs

`Access_proofs` proves for every value of the constants that `Inv` is inductive
and so `TypeOK`, `CancelledIsStopped`, `PaidAccessOnly`, `AuthorizedIsKnown` and
`GateAgrees` always hold. From: `AccessFinite`, `AccessNames`, `AccessBounds`.

The three safety properties speak of rows, but a row is whatever somebody saved
last, possibly long after reading it. The strengthening therefore says of every
object in somebody's hands what it says of rows: `CancelInv` that a cancellation
about to be saved was accepted by the gateway, `HookInv` that what a webhook is
about to do is justified by the gateway's state or by an authorization,
`BatchInv` that the job expires only what was authorized or granted, `NoticeInv`
that charges are announced only of authorized subscriptions, and `CheckoutInv`
that a subscription has a row exactly when its checkout was answered. They stay
justified because the gateway's `CANCELLED` is final, an authorization is not
forgotten and no row is deleted (lemmas `ProviderMoves`, `MandatesMove`,
`Lasting`). `SavesAreBacked` then says that every save writes a justified object,
and `RowStep` that nothing else writes a row.

`GateAgrees` follows from `TypeOK`: periods are bounded (`Ends`), less-than is
well-founded, and so some active subscription is the longest (`GreatestExists`).

Only model-checked: `LapsedIsExpired` (fairness) and the findings.

## Tenancy

Who exists on the platform: the rows of an organization, of its users, and of the
tables that a registration fills along with them. An operator is whoever makes
the requests that read one row and save it later, the super admin or somebody of
the organization's own staff; `work[a]` is the object in between. Registrations
give their names to the organization, its owner, trial and settings.

| Model | Code |
|---|---|
| `CheckAvailable`, `InsertTenant`, `Welcome`, `GrantPlan` | `SuperAdminService.createOrganization` around `RegisterOrganization.execute`: two lookups, one transaction, events and mail, the courtesy subscription after all of it |
| `FetchOrganization`, `SaveOrganization` | `updateOrganization`, `suspend`, `reactivate`, `disable`: read, set the status, upsert all columns |
| `FetchDisabled`, `Purge` | `deleteOrganization`: the status check, then the transaction over every table |
| `FetchOwner`, `CheckStaffEmail`, `FetchUser`, `FetchLogin`, `SaveUser` | `updateOwnerEmail`, `createReceptionist` and `UsersService.create`, `update`, `resetPassword`, a login; `DrizzleUserRepository.save` |
| `SignIn`, `AccessExpires` | an access token, by which staff reach an organization without a lookup |

`Purge` removes the rows at once, as its transaction does; a later upsert is an
insert, unless an index refuses it, which is why `PurgeIsFinal` speaks of an
organization that nobody holds a row or a token of (`Gone`). Other requests can
and do write: a stale `updateOrganization` undoes a `disable`, and of a purged
organization it inserts the row again, without owner or settings; a
`createReceptionist` or a login that read before the purge leaves a user whose
organization is gone; `deleteOrganization` checks `DISABLED` before the
transaction, so that one reactivated meanwhile is purged all the same; and the
grant after a registration can fail and leave the tenant without the plan it was
sold. `AllOrNothing` and `OwnerStands` except purged organizations for that
reason.

Bounds. Two registrations clash over a slug or an e-mail or do not; two operators
are the smallest stale save; with four requests one of them can disable, another
purge, and two more hold what they read before. A user who is not an owner is
created once per operator.

`Platform_proofs` proves `Inv` inductive, and from it `AllOrNothing`, `OwnerStands`,
`NoSharedNames` and the action property `PurgeIsFinal`. The strengthening says of
what an operator holds in its hands what it says of rows (`Shaped`: an owner stays
the active owner of its organization, and nobody else is one), and that what is
held of an organization or an owner was there when it was read and is gone only
by a deletion (`WorkInv`); without it an upsert could bring a row back beside a
complete tenant. From: `TenancyNames`, `TenancyBound`.

## Sessions

One staff account and its sessions. A refresh token bears the name of the request
that issues it, `from[r]` is the token that r was given. Each request is a read
with a check, the slow verification of a hash, and one transaction.

| Model | Code |
|---|---|
| `VerifyLogin`, `OpenSession`, `Answer` | `LoginStaff.execute`: the account and the password; its save and the token's row in one transaction; the answer, which may be lost |
| `PresentToken`, `CheckAccount`, `Rotate`, `Answer` | `RefreshSession.execute` |
| `Logout` | `LogoutStaff.execute` |
| `VerifyCurrent`, `Change` | `ChangePassword.execute`, by an access token (`access`) |
| `FetchAccount`, `SaveAccount` | `UsersService.resetPassword` and `update` |
| `RefreshExpires`, `AccessExpires` | time |

`LiveIsNew` is what revoke-all achieves: every usable token got its row after the
last change. It is less than the comment on `change-password.use-case.ts` says: a
login or a refresh that verified the old password before the change inserts its
token after it, and the session goes on; a login's save even restores the old
hash. `FindSessionsSurvive.cfg` (`OldSessionsDie`) shows it. `Rotate` revokes without
looking, so that two requests with the same token both get one; `OneTokenPerSession`
therefore assumes that no token is presented twice (`Serial`). A reset or a
deactivation revokes nothing; the account's status is asked at the next refresh.

Bounds. With four requests a login, a refresh of its token and a change can meet
another of any kind, and a lost answer be followed by another refresh. Two
passwords are one to change to and one to change back.

`Sessions_proofs` proves `Inv` inductive, and from it the three properties. `TokenInv`
ties each request's step to the row of its token: one that has not issued has no
row, and what it presents has one; without it a rotation might revoke a token
whose successor is not there. From: `SessionNames`.

## Otp

The one-time codes of one mailbox with one organization; a request to one that is
not there or takes no bookings changes nothing and is left out. A request that is
refused leaves its sender where it was, who may ask again. Neither use case has a
transaction, so that each statement is a step; hashing and mailing sit between.

| Model | Code |
|---|---|
| `CountSent`, `FindOldest`, `AwaitDelay`, `SaveCode`, `Mail` | `RequestCustomerOtp.execute`: the quota of the window, its refusal with the wait until the oldest code leaves, the delay since the newest code, the row, the mail |
| `ReadCode`, `IncrementAttempts`, `Consume` | `ValidateCustomerOtp.execute`: newest active code, expiry and attempts; the comparison; the two outcomes |
| `CountedSince`, `LatestActive` | the repository's queries |
| `Tick` | time |

Every check is made before what it bounds is written. The properties say by how
much overlapping requests can exceed the limit: the history variables `rush` and
`crowd` are the most requests that have been between count and row, and between
check and outcome, at once. With one at a time the limits are exact. When
the newest code is consumed, the one before is the newest active code again and
can still be used within its time.

A refusal announces a wait, and there are two kinds of them. The one for the
delay is right: whoever comes back then is refused neither for the delay nor for
the quota (`WaitEnds`, with `promised`). The one for the quota is right about the
quota only, and only later than the instant it names, at which `gte` still counts
the oldest code (`QuotaReopens`, with `reopens`): the delay since the newest code is
not looked at, and the client may have to wait once more (`QuotaWaitSuffices`,
which `FindQuotaWait` refutes). It counts in one statement and finds the oldest
code in another; a code stored in between (`crossed`) makes the wait wrong.

Bounds. One resend delay of two and a window of four instants let the quota fill,
a delay pass, and codes leave the window; two attempts are a first and a last
one; three senders exceed a quota of two, and one that is refused comes back at every
later instant, also after the one that was announced; two validators are a crowd.
`FindQuotaWait` has a delay of three, longer than what is left of the window, and no
validators.

`Otp_proofs` proves `Inv` inductive, and from it the five properties, for any number
of requests, validators, attempts and any growing delays. A request holds a place
of the quota from its count to its row (`CountInv`), a validation one of its code's
budget from its check to its outcome (`GuessInv`, `OpenInv`); and while requests do
not overlap, nobody counts more codes or finds a later one than who was last told
to wait (`PromiseInv`), as only a row written in between could change that, and it
ends the promise; so the quota has room while that promise stands (`RoomInv`). A
refusal for the quota has counted no more codes than the quota, and those that
can still count when its wait is over are among them, less the oldest
(`ReopenInv`). From: `OtpAssumption`, `OtpNames`, `DelaysGrow`.

## Notifications

Events of decisions, published after the commit to the dispatcher's handlers, and
the reminder job. The two write the feed, push to devices and mail the client.

| Model | Code |
|---|---|
| `Decide`, `Decisions` | the transitions of `Appointment` as publishers: status and events, in `publishAll`'s order |
| `Audience`, `Return` | whom each handler tells; `onCreated` returns unless the client made the booking (`source`) |
| `Persist`, `Push`, `NextRecipient` | `NotificationDispatcher.notifyClient`, `notifyStaff` |
| `Send`, `Expire` | the push provider's answers: delivered, failed, endpoint unknown |
| `StartRun`, `CheckReminder` | `AppointmentReminderJob.run`, `findConfirmedStartingBetween`, `existsForAppointment` |
| `Subscribe`, `Unsubscribe` | a device's subscription, one row per endpoint |
| `Fail`, `Crash`, `Tick` | a statement that fails; the process; time |

`RemindedOnce` bounds the reminders of an appointment by the runs that overlap: the
check and the row are two steps and nothing stops the cron from starting a second
run beside the first. The row of the feed comes before push and mail, so that a
crash in between leaves a reminder that nobody gets and nobody retries;
`EveryoneReminded` therefore speaks of the feed. A failed mail is swallowed (`Told`
requires mail only without faults). `Told` asks no more than the handlers do: of a
booking that the staff made nobody is told, by `onCreated` at least.

`LastWord` holds when processes do not overlap (`mixed`): the pushes of two decisions
made in quick succession can arrive the other way round, and the device then shows
the older one. What it promises is the latest status that is announced to the client
(`LastWordOn`), which is less than "el usuario ve el último estado"
(push-sender.port.ts:13-15): `complete` and `noShow` publish events that no handler
takes, so that the device keeps the confirmation or the reminder of a visit that is
over, and a booking that waits for approval pushes nothing to its client.

Fairness: `reminders` has weak fairness of each run's `Remind`: the cron fires again
and again and statements end. Nothing of the publishers.

Bounds. Two appointments, one booked by the client and one by the staff, so that one
can be skipped or take the other's place in the batch; two runs can overlap; one
fault of any kind at any point; a device changes once. Reads of one recipient whose
order nobody can observe are merged with the write that follows. In `reminders`
there are no devices, in `notices` one. The batch has room for both appointments, so
that `EveryoneReminded` is not excused by its limit; the limit itself is real:
appointments already reminded, not yet due, or of organizations without reminders
take places of it (`Rank`).

`Notifications_proofs` proves `RemindedOnce`, `Told` and `LastWord` for any appointments,
staff, devices, requests and runs. None of them is inductive.

- `RemindedOnce` needs to know who is about to write: `RemindersInv` counts, per
  appointment, its reminders and the runs that have found none (`Reminding`), and bounds
  the sum. A run may join the latter only while there is no reminder, and then all of
  them are at work at once, never more than `together` has counted.
- `Told` needs what lies between the first recipient and the last: `NoticesInv`,
  that everyone an event is for is in the rest of the notice (`rest`) or has heard,
  that a push follows a row, and that a handler returns at once only if it has
  nobody to tell. The handlers' order (`notifyClient`, then `notifyStaff`) and the
  statement that fails between them are in it.
- `LastWord` needs `ScreenInv`: without overlap a publisher works alone, its queue ends
  with what its decision came to, if any of it is for the client (`EndsWell`: a
  confirmed deposit publishes two events for the client, and their order matters), and
  the device shows the last word or has it still ahead of it (`Shows`, `Ahead`). Of a
  decision that the client hears nothing of, what was said before still holds.

From: `NotificationsAssumption`.

## Calendar and Availability

`Calendar` is the availability engine and the time-zone helpers as operators, over
half hours and zones of one transition. `Availability` is an organization's
calendar while people edit it and one query gathers it, statement by statement and
without a transaction, and hands it to that engine.

| Model | Code |
|---|---|
| `zonedTimeToUtcMs`, `weekdayOf`, ... | `shared/.../time-zone.ts` |
| `Windows`, `Open`, `Starts`, `compute`, `isBookable` | `AvailabilityCalculator` |
| `Covers`, `OpenAt` | none: the reference definition, instant by instant, that slots are checked against |
| `ResolveCandidateResources` .. `Respond` | `CalculateAvailability.execute` |
| `StartReplacement`, `DeleteRows`, `InsertRows`, `RollBack` | `replaceBusinessHours` and the schedule of a resource: one transaction, `DELETE` then `INSERT` |
| `UpdateBusiness`, `UpdateBooking`, `Switch`, `CreateBlockedTime`, `DeleteBlockedTime`, `Book`, `Cancel` | settings, resources, blocks, and what `Booking` does to this calendar |

`ReplacedWhole` is about READ COMMITTED: a reader never sees a table between the
`DELETE` and the `INSERT`; two replacements that overlap lock and delete only what
each could see and leave the rows of both. `OfferedIsOpen` compares the slots with
the reference, `OfferedIsFree` with what has stood since before the query, and
`OfferedIsBookable` with `isBookable` and the overlap check of the booking: the
engine's two readings of one calendar. The last two except what the code gets
wrong: dates whose windows begin or end in an hour that the clocks skip or repeat
(`PlainDate`), and dates that the range of the query does not cover (`WholeDates`). On a
last date of 25 hours the query reads no blocks and appointments of the last hour and so
offers it as free (`FindLongDay.cfg`, `ComputesBookableSlots`). Where the clocks skip an
hour soon after midnight, local midnight is converted past the gap and the range starts
after the first slots of the date; that came out of the proof, whose attempt with the
long day alone fails there.

Bounds. A day of eight half hours; two dates on one of which the clocks change, one
zone forward and one back, by an hour; rules that make either limit of the window
bite, and steps of a half hour and an hour; two edits while the query runs. The
clock stands still during a query. `ReadAppointments` comes after `ReadBlocks`, which
the code asks for together.

`Availability_proofs` proves all four, for any number of replacements, owners, dates,
blocks and appointments, and zones of one transition.

- `ReplacedWhole`: who replaces the rows of an owner alone has seen all of them and then
  locked all of them (`AloneInv`).
- `OfferedIsOpen` is about the engine: a window runs from one row's converted opening to
  its converted closing, and between two local times that the clocks show once they show
  only times in between (`ClocksWithin`), so that each instant of it is open
  (`OpenThroughout`).
- `OfferedIsFree` and `OfferedIsBookable` are about the query: `QueryInv` says that every
  slot comes from what was read, that all of what stands throughout was read where the
  range touches it (`StandingInv`; blocks and appointments apart, since a block and an
  appointment of the same times come and go on their own), and that what was read is what
  there is until somebody edits it (`SteadyInv`). That a window lies in the range
  (`WindowInRange`) is where `WholeDates` is needed.

From: `CalendarAssumption` and `AvailabilityAssumption` (times from 00:00 to 23:59, a step
of at least one, clocks that never change by more than a day), and `Inv` for the tables.

## Directory and Portal

`Directory` is what an organization keeps about its business: services, options,
resources, their links, clients. An edit is a `Find` and a `Save`, an upsert that
updates the columns its repository lists (`Service_save` and the others). `Portal`
EXTENDS it with the customers, who are known by the e-mail a code has proved.

| Model | Code |
|---|---|
| `Create`, `Find`, `Save`, `FailSave` and `CreateService` .. `UpdateClient` | the five services' create and update methods, the entities' checks and the repositories' `save`; the unique indexes |
| `Assign`, `Remove` | the links of resources and services |
| `ListServices`, `ListResources`, `Bookable` | the public page; the conditions of a booking |
| `UpdateProfile`, `FindClient`, `Book`, `Refuse` | the portal's profile and booking |
| `ListAppointments`, `GetAppointment`, `CountUnread`, `MarkRead` | the customer's appointments and feed |
| `UpdateBooking` | the organization's switch of public booking |

`PatchSticks`: an answered edit stays, with all that was edited before it, unless
two edits of the row overlap, in which case the later whole-row save loses the
other's columns. An option's name is the exception: the repository leaves it out of
the columns that a conflict updates, so that a rename is answered and not kept
(`FindOptionRename.cfg`, `RenameSticks`). `EachTheirOwn`: customers find all their
appointments and only theirs, although each request looks the client up by e-mail
again and another may create one in between; the unique index is what it rests on.
A service or a resource can be deactivated between the booking's reads and its
insert; `Booking` has the lock that guards the resource, nothing guards the service.

Bounds. One row of each kind, room for one more, two names and two e-mails; three
edits are two that overlap and one after them; two bookings are of two customers,
or before and after an edit. A patch changes one column. `Book` takes its reads
together.

`Portal_proofs` proves both properties, and `OneClientPerEmail`, for any rows and any
number of requests. `Inv` says that whoever a visit or an appointment refers to bears
the e-mail they were found by (`Bears`), which lasts because no save lists the e-mail
(`EmailIsNotSaved`) and the index refuses a second row. `DirectoryInv` says that an edit
of a row without overlap holds the row as it is, with its patch (`PatchInv`), and that a
row about to be created is so by one request (`OverlapInv`). From: `DirectoryNames` (ids
of clients and of options are no other row's) and `InitialClients` (the index held at
the start).

## Environment and Deployment

`Environment` is the two readings of the process environment: `validateEnv`, which
refuses to start, and the configuration's namespaces, which parse the texts again.
`Deployment` starts the server under one of them, runs the three commands that fill
its database, each step a statement or a service call that a kill may be the last
of, lets the owner edit meanwhile, and deploys builds with other versions of the terms.
Where a command is, `at`, is the statement it comes to next and the indices of the
loops around it; `PlansFrom`, `ServicesFrom`, `OptionsFrom`, `ResourcesFrom` and
`AssignmentsFrom` are the heads of the loops, which say where the next round begins
or what follows the last.

| Model | Code |
|---|---|
| `ServerVariables` .. `PaymentVariables`, `appConfig` .. `paymentConfig`, `Constructs` | `config/env.validation.ts`, the files of `config/`, the providers' constructors |
| `Start`, `Stop`, `Migrate` | `main.ts`, the migrations that the demo's columns come with |
| `PlansFrom` .. `StartOf`, `Run`, `FindPlan` .. `AssignService`, `Die` | the commands under `database/seed/` |
| `Edit`, `SetSchedule` | the owner, in the panel |
| `Deploy`, `Accept`, `FindLatest`, `RequiresAcceptance` | the terms of service |

`Configured` compares the two parsers: whatever passes the check is read as
something the providers can use. It leaves out what does not hold: an empty
`SMTP_PASS` beside an `APP_KEY` passes the check and is read as the empty password;
the JWT lifetimes are checked by nobody; an empty `VAPID_SUBJECT` with keys passes
the check, is not replaced by the default and breaks the start; secrets that "must
differ" are not compared. Of each number it speaks only where its text is
`ReadAlike`: the check coerces with `Number`, the configuration parses with
`parseInt` in base ten, and "0x10", "0b11", "1e1" and "0.1e2" are other numbers to
the one than to the other. What both functions make of which texts is a pair of
constants, of which nothing is assumed but that an absent or empty text is no
number; the run has a text of every kind. Without that restriction the statement is
`NumbersAsChecked`, which `FindNumerals` refutes. All of this is about variables of
the process: `ConfigModule` writes those that only the `.env` file has into the
process as the check has coerced them.
`NothingTwice`, `DemoStands`, `PlansReconciled`: a command that was killed is simply run
again. A catalogue row that the owner deactivated is found and left so. The plan's
new name is not among the columns that a save updates (`FindPlanNames.cfg`,
`PlanNamesLand`): the row keeps its legacy name and only the price is corrected.
`GateOpens` excepts a rollback: after an older build has come back, `findLatest`
returns the newer acceptance, equality with the build's version fails, and
accepting again changes nothing; the gate stays shut.

Bounds. The environments vary one group of variables that are checked together at
a time, from the least that starts. The commands run under that least one only, one
at a time, on a database before the migration, with plans under old names, or with a
registered organization. Eight ids are more than the catalogue needs.
Builds with other terms run in production only.

`Platform_proofs` proves all five, for every catalogue of plans, services and staff,
every database that may be there, any ids and any number of edits, commands and
kills, from `CatalogAssumption` (no option twice in a service, no name of two plans,
no assignment of a service that is not in the catalogue: constants of the code that
one can read), `EnvironmentAssumption` (what is absent or empty is no number) and
`DeploymentAssumption` (what was there has each plan once at most). None of the five
is inductive; together they are, with what each rests on:

- `PositionInv` says where a command may be, with `IdsInv`: what a loop has come past
  has an id in the maps that were read, so that every look-up finds one.
- `NothingTwice` needs `NamesInv`: all rows of a kind are in the map that was read,
  inserted since, or renamed by the owner since, so that a name that is not in the map
  is not in the table. For options this is relative to one service and one entry.
- `DemoStands` needs `DemoInv`: while the owner has not edited, the ids lead to rows
  of their names and the entries that the loops have come past stand, and so do the
  options and assignments before the index in the entry that they are at. A command
  that fails forgets all of it; the next starts from what is there.
- `PlansReconciled` needs `PlansInv`: what was found is all that there is of the
  definition, which is one row at most, and another definition has no name in common
  with it, so that saving one neither doubles nor misprices another.
- `Configured` needs `StartInv` only: a server that is up has passed both checks.
  What is left is about texts: a number of a range is one of it to a parser that
  reads it alike, the fallbacks are of their ranges, an address that is aligned
  stays so as the envelope's sender.
- `GateOpens` needs `TermsInv`: versions are accepted in their order and none is newer
  than the build's, until an older build comes back. Then the last row is the newest.

## Findings

One disagreement is a run of the project, `find_double_checkout`: the comment in
`mercado-pago.gateway.ts:34-37` says that a double click returns the preapproval
already created, but the idempotency key is a UUID drawn per request, and two
clicks make two preapprovals that can both be authorized.

The others are kept as configurations that TLC refutes; each checks the one
property it names.

| Configuration | Statement | What the code does |
|---|---|---|
| `FindDoubleSubmit` | "idempotent (double-submit safe)" | two submits in flight: the second meets the first one's row in the overlap check and gets `ConflictError` |
| `FindConfirmedTogether` | "Confirm the deposit and the appointment together" | the job overwrites a confirmed deposit with `EXPIRED` from its stale list |
| `FindRevalidation` | "locks the resource row, re-validates availability" | blocks are those read before the lock |
| `FindOverlapStatus` | "maps to HTTP 409" | a stale transition is refused by the constraint and leaves as 500 |
| `FindRenewalExpired` | expires what lapsed "without a renewal" | the job saves a list read before the loop over a webhook's renewal |
| `FindCancelAccess` | "Access continues until the period end" | `isActiveAt` demands `ACTIVE`, so cancelling closes the gate at once |
| `FindOwnerEmail` | the panel changes the owner's e-mail | the e-mail is not among the columns that the user's save updates |
| `FindSessionsSurvive` | sessions opened with the old password die with the change | a login or refresh in flight inserts its token after the revocation |
| `FindQuotaWait` | a refusal "tells the client how long to wait" (`domain-error.base.ts:58-60`) | the wait announced for the quota leaves out the delay since the newest code: who waits it can be sent away once more |
| `FindNumerals` | the app refuses "to start with an invalid or incomplete environment" (`env.validation.ts:60-61`) | a number in hexadecimal, binary or with an exponent is checked as one and configured as another: `OTP_MAX_ATTEMPTS=0x10` as sixteen attempts and as none |
| `FindLongDay` | "computes bookable slots" | on a last date of 25 hours the last hour is offered without its blocks |
| `FindOptionRename` | an option can be renamed | the name is not among the columns that the save updates |
| `FindPlanNames` | the plans are left equal to the catalogue | the plan's name is not among the columns that the save updates |

Without a configuration of their own, found while modelling: a recurring charge that
is neither approved nor rejected yet opens a period
(`sync-subscription-from-provider.use-case.ts:42`); the comment on a disabled
organization (`organization.entity.ts:61-63`) has no counterpart in the login, which
asks for the user's status alone; `organizations.timezone` and
`business_settings.timezone` are two columns that nothing keeps equal; a deposit of
0.001 passes the check of `updatePayment` and is stored as zero; a window whose edge
falls into the hour that the clocks skip is moved forward in zones east of Greenwich
and back in zones west of it; the client's feed lists the newest fifty and counts all unread.

## What is proved

53 theorems in eight modules hold for every value of the constants that the named
assumptions admit. Each module proves that its component's `Inv`
(`DeploymentInv` of `Deployment`) is inductive, one step per action, and derives the
properties from it; the sections above say what the strengthening is and why the
property alone is not inductive. `Booking_proofs` also proves the refinement of
`SlotLedger`.

| Module | Always | Of every step |
|---|---|---|
| `Booking_proofs` | `TypeOK`, `NoDoubleBooking`, `PendingDepositBacked`, `OneAppointmentPerKey`, `ReplayAgreement`, `LockProtectsInsert`, `RefusalLeavesNothing`, `AnnouncedIsCommitted` | `DecisionsAreFinal`, `ImplementsLedger` |
| `Access_proofs` | `TypeOK`, `CancelledIsStopped`, `PaidAccessOnly`, `AuthorizedIsKnown`, `GateAgrees` | |
| `Platform_proofs` | `AllOrNothing`, `NoSharedNames`, `OwnerStands`; `Configured`, `NothingTwice`, `DemoStands`, `PlansReconciled`, `GateOpens` | `PurgeIsFinal`; `EvidenceStands` |
| `Sessions_proofs` | `LiveIsNew`, `NeverStranded`, `OneTokenPerSession` | |
| `Otp_proofs` | `InboxQuota`, `GuessBudget`, `SingleUse` | `WaitEnds`, `QuotaReopens` |
| `Availability_proofs` | `ReplacedWhole`, `OfferedIsOpen`, `OfferedIsFree`, `OfferedIsBookable` | |
| `Portal_proofs` | `OneClientPerEmail`, `EachTheirOwn`, `PatchSticks` | |
| `Notifications_proofs` | `TypeOK`, `RemindedOnce`, `Told`, `LastWord` | |

Only model-checked: the liveness properties (`OverdueSlotReleased`, `EveryBookingEnds`,
`LapsedIsExpired`, `EveryoneReminded`), since fairness and ENABLED are beyond the proof
system, and the findings. Every safety invariant and action property that a passing
run checks is proved.

Some definitions are in no run, to keep the runs to one question each: the type
invariants and the inductive invariants `Inv` (`DirectoryInv` too, and of
`Deployment` `PositionInv` and those after it), `GateAgrees` of `Access`,
`OwnerStands` of `Tenancy`, `EvidenceStands` of `Deployment` and `ShownIsBookable`
of `Directory`; the parts of `QueryInv` in `Availability`; `QueuesInv`,
`RemindersInv`, `NoticesInv` and `ScreenInv` of `Notifications`. TLC finds no
violation of them on the instances of the runs; add them to the `.cfg` to repeat.

## Not modelled

- HTTP layer, role guards, throttling, health: wiring and a library's in-memory
  counters, no state of the system's own.
- Super admin: feature flags, metrics, the super admin's own login. Single rows that
  nothing else here depends on in time.
- Payment, notification and branding settings: upserts of one row each, whose values
  are inputs of `Booking` and `Notifications`.
- The end of a trial by the clock: `Access` starts when the trial is over.
- Message texts and templates, paging of the feed, prices, snapshot columns, formats,
  wording, logging.
- Hashes, signatures, tokens and random codes are names: nobody guesses one, and a
  wrong guess is an outcome that is always possible.
- PostgreSQL beyond row locks, unique and exclusion constraints and READ COMMITTED
  visibility; a unit of work inside another, which would open a
  second transaction: the modelled use cases have none.
