------------------------------- MODULE Tenancy -------------------------------
(***************************************************************************)
(* Who exists on the platform: organizations, their users, and what a      *)
(* registration creates along with them.  The super admin's requests write *)
(* all of it, those of an organization's own staff its users.  Slugs and   *)
(* staff e-mails are unique platform-wide by an index; everything else a   *)
(* request checks, it checks with a read whose answer may be out of date   *)
(* when it saves the whole row.  Requests share nothing but the tables, so *)
(* that one which never takes its next step stands for one that a crash    *)
(* cut off.                                                                *)
(*                                                                         *)
(* An organization, its first owner, its trial and its settings bear the   *)
(* name of the registration that creates them; another user bears the name *)
(* of the operator who creates it, one at most.                            *)
(***************************************************************************)
EXTENDS Naturals

CONSTANTS
  Registrations,    \* createOrganization requests, and the organizations
  Operators,        \* who makes the other requests, and the user each creates
  Slugs,
  Emails,
  Nowhere,          \* no organization
  Nobody,           \* no user
  NoEmail,
  MaxRequests       \* bound on the operators' requests

Users == Registrations \union Operators
Processes == Registrations \union Operators

ASSUME TenancyBound == MaxRequests \in Nat
ASSUME TenancyNames ==
  /\ Registrations \intersect Operators = {}
  /\ Nowhere \notin Registrations
  /\ Nobody \notin Users
  /\ NoEmail \notin Emails

Absent == "ABSENT"    \* no row with this id
OrganizationStatuses == {"TRIAL", "ACTIVE", "SUSPENDED", "DISABLED"}
Roles == {"OWNER", "ADMIN", "RECEPTIONIST"}    \* resource operators as receptionists
UserStatuses == {"ACTIVE", "INACTIVE"}

UserRows == [org : Registrations, email : Emails, role : Roles, status : UserStatuses]
NoUser == [org |-> Nowhere, email |-> NoEmail, role |-> "OWNER", status |-> Absent]

(* What an operator's request has read, changed and will save.             *)
OrganizationWork(o, status) == [org |-> o, status |-> status, user |-> Nobody, row |-> NoUser]
UserWork(u, row) == [org |-> row.org, status |-> Absent, user |-> u, row |-> row]
NoWork == OrganizationWork(Nowhere, Absent)
-----------------------------------------------------------------------------
VARIABLES
  ask,        \* ask[r]: what registration r asks for
  org,        \* org[o]: the status of an organization's row
  user,       \* user[u]: a user's row
  kit,        \* kit[o]: the other tables with a row of o from its registration
  granted,    \* organizations with a courtesy subscription
  signedIn,   \* organizations of whose owner or admins an access token is valid
  purged,     \* organizations that a deletion has removed (history)
  pc,
  work,       \* work[a]: what operator request a holds between read and save
  named,      \* operators whose name a user has been given (history)
  requests    \* the operators' requests so far, for their bound

tables == <<org, user, kit, granted>>
vars == <<ask, tables, signedIn, purged, pc, work, named, requests>>

Goto(p, label) == pc' = [pc EXCEPT ![p] = label]

(* Operator a is done with a request and free for the next.  A request     *)
(* that a check refuses changes nothing and is no step.                    *)
Finish(a) ==
  /\ Goto(a, "idle")
  /\ work' = [work EXCEPT ![a] = NoWork]

Begin(a, label) ==
  /\ Goto(a, label)
  /\ requests < MaxRequests
  /\ requests' = requests + 1

Exists(o) == org[o] # Absent

(* The two unique indexes.                                                 *)
SlugTaken(slug) == \E o \in Registrations : Exists(o) /\ ask[o].slug = slug
EmailTaken(email) == \E u \in Users : user[u] # NoUser /\ user[u].email = email

(* What else a registration inserts.                                       *)
StartTrial == {"trials"}
InitializeDefaults ==
  {"business_settings", "booking_settings", "payment_settings", "notification_settings",
   "branding_settings", "business_hours"}
Kit == StartTrial \union InitializeDefaults

Owner(r) == [org |-> r, email |-> ask[r].email, role |-> "OWNER", status |-> "ACTIVE"]
-----------------------------------------------------------------------------
Init ==
  /\ ask \in [Registrations -> [slug : Slugs, email : Emails]]
  /\ org = [o \in Registrations |-> Absent]
  /\ user = [u \in Users |-> NoUser]
  /\ kit = [o \in Registrations |-> {}]
  /\ granted = {}
  /\ signedIn = {}
  /\ purged = {}
  /\ pc = [p \in Processes |-> "idle"]
  /\ work = [a \in Operators |-> NoWork]
  /\ named = {}
  /\ requests = 0
 -----------------------------------------------------------------------------
(* SuperAdminService.createOrganization and RegisterOrganization.execute   *)

CheckAvailable(r) ==
  /\ pc[r] = "idle"
  /\ Goto(r, IF SlugTaken(ask[r].slug) \/ EmailTaken(ask[r].email) THEN "failed" ELSE "insert")
  /\ UNCHANGED <<ask, tables, signedIn, purged, work, named, requests>>

(* Mutant: the rows are inserted without a transaction, so that a taken    *)
(* e-mail stops the registration after its first row.                      *)
InsertTenant_NoTransaction(r) ==
  /\ pc[r] = "insert"
  /\ ~SlugTaken(ask[r].slug)
  /\ org' = [org EXCEPT ![r] = "TRIAL"]
  /\ \/ /\ ~EmailTaken(ask[r].email)
        /\ user' = [user EXCEPT ![r] = Owner(r)]
        /\ kit' = [kit EXCEPT ![r] = Kit]
        /\ Goto(r, "welcome")
     \/ EmailTaken(ask[r].email) /\ Goto(r, "failed") /\ UNCHANGED <<user, kit>>
  /\ UNCHANGED <<ask, signedIn, granted, purged, work, named, requests>>

(* One transaction; either index can still refuse it.                      *)
InsertTenant(r) ==
  /\ pc[r] = "insert"
  /\ \/ /\ ~SlugTaken(ask[r].slug)
        /\ ~EmailTaken(ask[r].email)
        /\ org' = [org EXCEPT ![r] = "TRIAL"]
        /\ user' = [user EXCEPT ![r] = Owner(r)]
        /\ kit' = [kit EXCEPT ![r] = Kit]
        /\ Goto(r, "welcome")
     \/ /\ SlugTaken(ask[r].slug) \/ EmailTaken(ask[r].email)
        /\ Goto(r, "failed")
        /\ UNCHANGED <<org, user, kit>>
  /\ UNCHANGED <<ask, signedIn, granted, purged, work, named, requests>>

(* The events and the welcome mail, which never fails the registration.    *)
Welcome(r) ==
  /\ pc[r] = "welcome"
  /\ Goto(r, "done") \/ Goto(r, "grant")
  /\ UNCHANGED <<ask, tables, signedIn, purged, work, named, requests>>

(* With billing=ACTIVE, the courtesy subscription, in a step of its own,   *)
(* which fails when the plan does not exist.                               *)
GrantPlan(r) ==
  /\ pc[r] = "grant"
  /\ \/ granted' = granted \union {r} /\ Goto(r, "done")
     \/ Goto(r, "failed") /\ UNCHANGED granted
  /\ UNCHANGED <<ask, signedIn, org, user, kit, purged, work, named, requests>>
-----------------------------------------------------------------------------
(* updateOrganization, suspendOrganization, reactivateOrganization,        *)
(* disableOrganization: read the row, set a status, save all its columns.  *)

NewOrganizationStatuses(o) == {org[o], "SUSPENDED", "ACTIVE", "DISABLED"}

FetchOrganization(a) ==
  /\ pc[a] = "idle"
  /\ \E o \in Registrations :
       /\ Exists(o)
       /\ \E status \in NewOrganizationStatuses(o) :
            work' = [work EXCEPT ![a] = OrganizationWork(o, status)]
       /\ Begin(a, "saveOrganization")
  /\ UNCHANGED <<ask, tables, signedIn, purged, named>>

(* An upsert: of a row that is gone by now, it is an insert.               *)
SaveOrganization(a) ==
  LET o == work[a].org IN
  /\ pc[a] = "saveOrganization"
  /\ \/ /\ Exists(o) \/ ~SlugTaken(ask[o].slug)
        /\ org' = [org EXCEPT ![o] = work[a].status]
        /\ Finish(a)
     \/ /\ ~Exists(o) /\ SlugTaken(ask[o].slug)
        /\ Finish(a)
        /\ UNCHANGED org
  /\ UNCHANGED <<ask, signedIn, user, kit, granted, purged, named, requests>>

(* deleteOrganization: only what has been disabled is purged.              *)
FetchDisabled(a) ==
  /\ pc[a] = "idle"
  /\ \E o \in Registrations :
       /\ org[o] = "DISABLED"
       /\ work' = [work EXCEPT ![a] = OrganizationWork(o, Absent)]
       /\ Begin(a, "purge")
  /\ UNCHANGED <<ask, tables, signedIn, purged, named>>

(* Every table with an organization_id, and the organization.              *)
Purge(a) ==
  LET o == work[a].org IN
  /\ pc[a] = "purge"
  /\ org' = [org EXCEPT ![o] = Absent]
  /\ user' = [u \in Users |-> IF user[u].org = o THEN NoUser ELSE user[u]]
  /\ kit' = [kit EXCEPT ![o] = {}]
  /\ granted' = granted \ {o}
  /\ purged' = purged \union {o}
  /\ Finish(a)
  /\ UNCHANGED <<ask, signedIn, named, requests>>
-----------------------------------------------------------------------------
(* An owner or an admin gets an access token, which is never looked up     *)
(* again until it expires.                                                 *)
SignIn(o) ==
  /\ o \notin signedIn
  /\ \E u \in Users :
       user[u].org = o /\ user[u].role \in {"OWNER", "ADMIN"} /\ user[u].status = "ACTIVE"
  /\ signedIn' = signedIn \union {o}
  /\ UNCHANGED <<ask, tables, purged, pc, work, named, requests>>

AccessExpires(o) ==
  /\ o \in signedIn
  /\ signedIn' = signedIn \ {o}
  /\ UNCHANGED <<ask, tables, purged, pc, work, named, requests>>

(* The super admin names an organization, which is looked up; the staff's  *)
(* own is the one their token says.                                        *)
Reachable(o) == Exists(o) \/ o \in signedIn

(* Staff accounts: updateOwnerEmail, createReceptionist, updateUser        *)

ActiveOwners(o) ==
  IF Exists(o)
    THEN {u \in Users : user[u].org = o /\ user[u].role = "OWNER" /\ user[u].status = "ACTIVE"}
    ELSE {}

(* The active owner of o is given an e-mail that nobody has; its own is no *)
(* change.                                                                 *)
FetchOwner(a) ==
  /\ pc[a] = "idle"
  /\ \E o \in Registrations, email \in Emails :
       /\ ~EmailTaken(email)
       /\ \E u \in ActiveOwners(o) :
            work' = [work EXCEPT ![a] = UserWork(u, [user[u] EXCEPT !.email = email])]
       /\ Begin(a, "saveOwner")
  /\ UNCHANGED <<ask, tables, signedIn, purged, named>>

(* A super admin creates receptionists; owners and admins anything but     *)
(* owners.                                                                 *)
NewUsers(o, email) ==
  [org : {o}, email : {email}, status : {"ACTIVE"},
   role : IF o \in signedIn THEN Roles \ {"OWNER"} ELSE {"RECEPTIONIST"}]

(* Mutant: an account is created in any organization of that name.         *)
CheckStaffEmail_AnyOrganization(a) ==
  /\ pc[a] = "idle" /\ a \notin named
  /\ \E o \in Registrations, email \in Emails :
       /\ ~EmailTaken(email)
       /\ \E row \in NewUsers(o, email) :
            work' = [work EXCEPT ![a] = UserWork(a, row)]
       /\ named' = named \union {a}
       /\ Begin(a, "saveUser")
  /\ UNCHANGED <<ask, tables, signedIn, purged>>

CheckStaffEmail(a) ==
  /\ pc[a] = "idle" /\ a \notin named
  /\ \E o \in Registrations, email \in Emails :
       /\ Reachable(o) /\ ~EmailTaken(email)
       /\ \E row \in NewUsers(o, email) :
            work' = [work EXCEPT ![a] = UserWork(a, row)]
       /\ named' = named \union {a}
       /\ Begin(a, "saveUser")
  /\ UNCHANGED <<ask, tables, signedIn, purged>>

(* The rows that UsersService.update and resetPassword may save: a name or *)
(* password change keeps what is modelled here, and the owner can be       *)
(* neither demoted nor deactivated.  Only the staff assign roles.          *)
Updated(u) ==
  [org : {user[u].org}, email : {user[u].email},
   role : IF user[u].role # "OWNER" /\ user[u].org \in signedIn
            THEN Roles \ {"OWNER"} ELSE {user[u].role},
   status : {user[u].status} \union
            (IF user[u].role = "OWNER" THEN {"ACTIVE"} ELSE UserStatuses)]

FetchUser(a) ==
  /\ pc[a] = "idle"
  /\ \E u \in Users :
       /\ user[u] # NoUser /\ Reachable(user[u].org)
       /\ \E row \in Updated(u) :
            work' = [work EXCEPT ![a] = UserWork(u, row)]
       /\ Begin(a, "saveUser")
  /\ UNCHANGED <<ask, tables, signedIn, purged, named>>

(* A login saves the row it verified the password against.                 *)
FetchLogin(a) ==
  /\ pc[a] = "idle"
  /\ \E u \in Users :
       /\ user[u].status = "ACTIVE"
       /\ work' = [work EXCEPT ![a] = UserWork(u, user[u])]
       /\ Begin(a, "saveUser")
  /\ UNCHANGED <<ask, tables, signedIn, purged, named>>

(* DrizzleUserRepository.save: an update of a row that is there leaves its *)
(* e-mail alone; a row that is gone by now is inserted again, unless the   *)
(* index on e-mails refuses it.                                            *)
Upsert(u, row) ==
  user' = [user EXCEPT ![u] = IF user[u] = NoUser THEN row ELSE [row EXCEPT !.email = user[u].email]]

SaveUser(a) ==
  LET u == work[a].user IN
  /\ pc[a] \in {"saveUser", "saveOwner"}
  /\ \/ /\ user[u] # NoUser \/ ~EmailTaken(work[a].row.email)
        /\ Upsert(u, work[a].row)
        /\ Finish(a)
     \/ /\ user[u] = NoUser /\ EmailTaken(work[a].row.email)
        /\ Finish(a)
        /\ UNCHANGED user
  /\ UNCHANGED <<ask, signedIn, org, kit, granted, purged, named, requests>>
-----------------------------------------------------------------------------
RegistrationStep(r) == CheckAvailable(r) \/ InsertTenant(r) \/ Welcome(r) \/ GrantPlan(r)
OrganizationStep(a) ==
  FetchOrganization(a) \/ SaveOrganization(a) \/ FetchDisabled(a) \/ Purge(a)
UserStep(a) ==
  FetchOwner(a) \/ CheckStaffEmail(a) \/ FetchUser(a) \/ FetchLogin(a) \/ SaveUser(a)
StaffSession(o) == SignIn(o) \/ AccessExpires(o)

Next ==
  \/ \E r \in Registrations : RegistrationStep(r) \/ StaffSession(r)
  \/ \E a \in Operators : OrganizationStep(a) \/ UserStep(a)

Spec == Init /\ [][Next]_vars
-----------------------------------------------------------------------------
WorkTypes == [org : Registrations \union {Nowhere},
              status : OrganizationStatuses \union {Absent},
              user : Users \union {Nobody},
              row : UserRows \union {NoUser}]

Steps == {"idle", "insert", "welcome", "grant", "saveOrganization", "purge",
          "saveOwner", "saveUser", "done", "failed"}

TypeOK ==
  /\ ask \in [Registrations -> [slug : Slugs, email : Emails]]
  /\ org \in [Registrations -> OrganizationStatuses \union {Absent}]
  /\ user \in [Users -> UserRows \union {NoUser}]
  /\ kit \in [Registrations -> SUBSET Kit]
  /\ granted \subseteq Registrations
  /\ signedIn \subseteq Registrations
  /\ purged \subseteq Registrations
  /\ pc \in [Processes -> Steps]
  /\ work \in [Operators -> WorkTypes]
  /\ named \subseteq Operators
  /\ requests \in 0 .. MaxRequests

(* Login finds a user by e-mail alone and the public site an organization  *)
(* by slug alone: no two rows share one, although every check is made      *)
(* before the row is written and deleted rows may be written again.        *)
NoSharedNames ==
  /\ \A u, v \in Users : user[u] # NoUser /\ user[v] # NoUser /\ u # v => user[u].email # user[v].email
  /\ \A o, p \in Registrations : Exists(o) /\ Exists(p) /\ o # p => ask[o].slug # ask[p].slug

(* A registration leaves an organization with its owner, trial and         *)
(* settings or nothing at all, whatever it collides with and wherever it   *)
(* stops; only a deletion takes them apart.                                *)
AllOrNothing ==
  \A r \in Registrations \ purged :
    /\ kit[r] = IF Exists(r) THEN Kit ELSE {}
    /\ Exists(r) <=> user[r] # NoUser

(* UsersService protects the owner with a check of the row it read: an     *)
(* organization that was never purged has one active owner, the one it was *)
(* registered with, however the requests on its users interleave.          *)
OwnerStands ==
  \A r \in Registrations \ purged : Exists(r) =>
    /\ user[r] # NoUser /\ user[r].org = r /\ user[r].role = "OWNER" /\ user[r].status = "ACTIVE"
    /\ \A u \in Users \ {r} : user[u].org = r => user[u].role # "OWNER"

(* A deletion is irreversible: once no request that read a deleted         *)
(* organization before is still on its way and its staff's access tokens   *)
(* have expired, nothing brings back a row of it.  (What such requests do  *)
(* write is another matter: see the README.)                               *)
Gone(o) ==
  /\ o \in purged /\ ~Exists(o) /\ kit[o] = {} /\ o \notin granted
  /\ \A u \in Users : user[u].org # o
  /\ \A a \in Operators : work[a].org # o
  /\ pc[o] \notin {"welcome", "grant"} /\ o \notin signedIn

PurgeIsFinal == [][\A o \in Registrations : Gone(o) => Gone(o)']_vars

(* The inductive invariant behind these.  The owner that an organization   *)
(* was registered with is shaped so wherever a row of it is held, and so   *)
(* is everybody else as no owner; what a request is about was there when   *)
(* it was read, and is gone only by a deletion.                            *)
Shaped(u, row) ==
  IF u \in Registrations
    THEN row.org = u /\ row.role = "OWNER" /\ row.status = "ACTIVE"
    ELSE row.role # "OWNER"

UserInv == \A u \in Users : user[u] # NoUser => Shaped(u, user[u])

RegistrationInv == \A r \in Registrations :
  pc[r] \in {"idle", "insert"} => ~Exists(r) /\ r \notin purged

WorkOf(a) ==
  /\ pc[a] \in {"idle", "saveOrganization", "purge", "saveOwner", "saveUser"}
  /\ pc[a] \in {"saveOrganization", "purge"} =>
       /\ work[a].org \in Registrations
       /\ Exists(work[a].org) \/ work[a].org \in purged
       /\ pc[a] = "saveOrganization" => work[a].status # Absent
  /\ pc[a] \in {"saveOwner", "saveUser"} =>
       /\ work[a].user \in Users /\ work[a].row # NoUser
       /\ work[a].row.org = work[a].org
       /\ Shaped(work[a].user, work[a].row)
       /\ work[a].user \in Registrations =>
            user[work[a].user] # NoUser \/ work[a].user \in purged

WorkInv == \A a \in Operators : WorkOf(a)

Inv ==
  /\ TypeOK
  /\ UserInv
  /\ RegistrationInv
  /\ WorkInv
  /\ AllOrNothing
  /\ NoSharedNames

(* The super admin's panel says that it changes the e-mail of the owner.   *)
OwnerEmailChanges ==
  [][\A a \in Operators : pc[a] = "saveOwner" /\ pc'[a] = "idle" /\ user[work[a].user] # NoUser =>
       user'[work[a].user].email = work[a].row.email]_vars
=============================================================================
