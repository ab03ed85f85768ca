------------------------------ MODULE Sessions ------------------------------
(***************************************************************************)
(* The sessions of one staff account: login, refresh with rotation,        *)
(* logout, the change of the password by the user, and the reset and the   *)
(* deactivation by somebody else.                                          *)
(*                                                                         *)
(* A request reads rows, verifies hashes (slow, and off the event loop)    *)
(* and writes in one transaction at the end; requests share only the two   *)
(* tables.  A refresh token is named by the request that issues it, and so *)
(* is the temporary password of a reset.  A request that never takes its   *)
(* next step is one that a crash cut off, or whose answer was lost.        *)
(***************************************************************************)
EXTENDS Naturals, FiniteSets

CONSTANTS
  Requests,
  Passwords,     \* those that users choose
  NoToken

ASSUME SessionNames ==
  /\ Passwords # {} /\ Passwords \intersect Requests = {}
  /\ NoToken \notin Requests

Hashes == Passwords \union Requests
Accounts == [hash : Hashes, status : {"ACTIVE", "INACTIVE"}]
-----------------------------------------------------------------------------
VARIABLES
  user,       \* the account's row
  issued,     \* refresh tokens with a row
  revoked,    \* those of them with a revoked_at
  expired,    \* those of them whose time is over
  access,     \* requests whose access token is valid
  known,      \* refresh tokens that a client has been given
  pc,
  hold,       \* hold[r]: the account's row as r read it and will save it
  from,       \* from[r]: the refresh token that r was given
  wanted,     \* wanted[r]: the password that r sets
  out,        \* tokens that have been logged out (history)
  epoch,      \* password changes so far (history)
  born,       \* born[r]: the epoch in which token r got its row (history)
  proved      \* proved[r]: the epoch in which r's session verified a password

account == <<user, issued, revoked>>
request == <<pc, hold, from, wanted>>
history == <<out, epoch, born, proved>>
vars == <<account, expired, access, known, request, history>>

Goto(r, label) == pc' = [pc EXCEPT ![r] = label]

FindByJti(t) == t \in issued
Usable(t) == FindByJti(t) /\ t \notin revoked /\ t \notin expired

Init ==
  /\ user \in [hash : Passwords, status : {"ACTIVE"}]
  /\ issued = {} /\ revoked = {} /\ expired = {} /\ access = {} /\ known = {}
  /\ pc = [r \in Requests |-> "idle"]
  /\ hold = [r \in Requests |-> user]
  /\ from = [r \in Requests |-> NoToken]
  /\ wanted = [r \in Requests |-> user.hash]
  /\ out = {}
  /\ epoch = 0
  /\ born = [r \in Requests |-> 0]
  /\ proved = [r \in Requests |-> 0]
-----------------------------------------------------------------------------
(* LoginStaff.execute                                                      *)

(* The right password of an active account; any other is refused.          *)
VerifyLogin(r) ==
  /\ pc[r] = "idle" /\ user.status = "ACTIVE"
  /\ hold' = [hold EXCEPT ![r] = user]
  /\ proved' = [proved EXCEPT ![r] = epoch]
  /\ Goto(r, "open")
  /\ UNCHANGED <<account, expired, access, known, from, wanted, out, epoch, born>>

Insert(r) ==
  /\ issued' = issued \union {r}
  /\ born' = [born EXCEPT ![r] = epoch]

(* One transaction: the whole row of the account, and the token's.         *)
OpenSession(r) ==
  /\ pc[r] = "open"
  /\ user' = hold[r]
  /\ Insert(r)
  /\ Goto(r, "answer")
  /\ UNCHANGED <<revoked, expired, access, known, hold, from, wanted, out, epoch, proved>>

Answer(r) ==
  /\ pc[r] = "answer"
  /\ known' = known \union {r}
  /\ access' = access \union {r}
  /\ Goto(r, "done")
  /\ UNCHANGED <<account, expired, hold, from, wanted, history>>
-----------------------------------------------------------------------------
(* RefreshSession.execute                                                  *)

PresentToken(r) ==
  /\ pc[r] = "idle"
  /\ \E t \in known :
       /\ Usable(t)
       /\ from' = [from EXCEPT ![r] = t]
       /\ proved' = [proved EXCEPT ![r] = proved[t]]
  /\ Goto(r, "account")
  /\ UNCHANGED <<account, expired, access, known, hold, wanted, out, epoch, born>>

CheckAccount(r) ==
  /\ pc[r] = "account"
  /\ Goto(r, IF user.status = "ACTIVE" THEN "rotate" ELSE "failed")
  /\ UNCHANGED <<account, expired, access, known, hold, from, wanted, history>>

(* Mutant: the old token is not revoked.                                   *)
Rotate_KeepsOld(r) ==
  /\ pc[r] = "rotate"
  /\ Insert(r)
  /\ Goto(r, "answer")
  /\ UNCHANGED <<user, revoked, expired, access, known, hold, from, wanted, out, epoch, proved>>

(* Mutant: the old token is revoked in a step of its own.                  *)
Rotate_InTwoSteps(r) ==
  \/ /\ pc[r] = "rotate" /\ from[r] \notin revoked
     /\ revoked' = revoked \union {from[r]}
     /\ UNCHANGED <<user, issued, expired, access, known, request, history>>
  \/ /\ pc[r] = "rotate" /\ from[r] \in revoked
     /\ Insert(r)
     /\ Goto(r, "answer")
     /\ UNCHANGED <<user, revoked, expired, access, known, hold, from, wanted, out, epoch, proved>>

(* One transaction.  The revocation does not look whether somebody else    *)
(* has revoked the token since it was read.                                *)
Rotate(r) ==
  /\ pc[r] = "rotate"
  /\ revoked' = revoked \union {from[r]}
  /\ Insert(r)
  /\ Goto(r, "answer")
  /\ UNCHANGED <<user, expired, access, known, hold, from, wanted, out, epoch, proved>>
-----------------------------------------------------------------------------
(* LogoutStaff.execute: the signature and the expiry of the token, and its *)
(* row.                                                                    *)
Logout(r) ==
  /\ pc[r] = "idle"
  /\ \E t \in known \ expired :
       /\ revoked' = revoked \union {t}
       /\ out' = out \union {t}
  /\ Goto(r, "done")
  /\ UNCHANGED <<user, issued, expired, access, known, hold, from, wanted, epoch, born, proved>>
-----------------------------------------------------------------------------
(* ChangePassword.execute, for whom the guard lets in: a valid access      *)
(* token, whatever has happened to the account since it was signed.        *)

Authorized == access # {}

VerifyCurrent(r) ==
  /\ pc[r] = "idle" /\ Authorized
  /\ hold' = [hold EXCEPT ![r] = user]
  /\ \E p \in Passwords \ {user.hash} : wanted' = [wanted EXCEPT ![r] = p]
  /\ Goto(r, "change")
  /\ UNCHANGED <<account, expired, access, known, from, history>>

RevokeAllForUser == revoked' = issued

(* Mutant: the sessions are revoked before the transaction that changes    *)
(* the password.                                                           *)
Change_RevokesFirst(r) ==
  \/ /\ pc[r] = "change"
     /\ RevokeAllForUser
     /\ Goto(r, "save")
     /\ UNCHANGED <<user, issued, expired, access, known, hold, from, wanted, history>>
  \/ /\ pc[r] = "save"
     /\ user' = [hold[r] EXCEPT !.hash = wanted[r]]
     /\ epoch' = epoch + 1
     /\ Goto(r, "done")
     /\ UNCHANGED <<issued, revoked, expired, access, known, hold, from, wanted, out, born, proved>>

Change(r) ==
  /\ pc[r] = "change"
  /\ user' = [hold[r] EXCEPT !.hash = wanted[r]]
  /\ RevokeAllForUser
  /\ epoch' = epoch + 1
  /\ Goto(r, "done")
  /\ UNCHANGED <<issued, expired, access, known, hold, from, wanted, out, born, proved>>
-----------------------------------------------------------------------------
(* UsersService.resetPassword and update, by an owner or the super admin   *)

FetchAccount(r) ==
  /\ pc[r] = "idle"
  /\ \E row \in {[user EXCEPT !.hash = r]} \union {[user EXCEPT !.status = s] : s \in {"ACTIVE", "INACTIVE"}} :
       hold' = [hold EXCEPT ![r] = row]
  /\ Goto(r, "save")
  /\ UNCHANGED <<account, expired, access, known, from, wanted, history>>

(* Neither of them touches the sessions.                                   *)
SaveAccount(r) ==
  /\ pc[r] = "save"
  /\ user' = hold[r]
  /\ Goto(r, "done")
  /\ UNCHANGED <<issued, revoked, expired, access, known, hold, from, wanted, history>>
-----------------------------------------------------------------------------
RefreshExpires(t) ==
  /\ t \in issued \ expired
  /\ expired' = expired \union {t}
  /\ UNCHANGED <<account, access, known, request, history>>

AccessExpires(t) ==
  /\ t \in access
  /\ access' = access \ {t}
  /\ UNCHANGED <<account, expired, known, request, history>>

LoginStep(r) == VerifyLogin(r) \/ OpenSession(r) \/ Answer(r)
RefreshStep(r) == PresentToken(r) \/ CheckAccount(r) \/ Rotate(r)
PasswordStep(r) == VerifyCurrent(r) \/ Change(r)
StaffStep(r) == FetchAccount(r) \/ SaveAccount(r)

Next == \E r \in Requests :
  \/ LoginStep(r) \/ RefreshStep(r) \/ Logout(r) \/ PasswordStep(r) \/ StaffStep(r)
  \/ RefreshExpires(r) \/ AccessExpires(r)

Spec == Init /\ [][Next]_vars
-----------------------------------------------------------------------------
Steps == {"idle", "open", "account", "rotate", "answer", "change", "save", "done", "failed"}

TypeOK ==
  /\ user \in Accounts
  /\ issued \subseteq Requests
  /\ revoked \subseteq issued /\ expired \subseteq issued /\ known \subseteq issued
  /\ access \subseteq Requests
  /\ pc \in [Requests -> Steps]
  /\ hold \in [Requests -> Accounts]
  /\ from \in [Requests -> Requests \union {NoToken}]
  /\ wanted \in [Requests -> Hashes]
  /\ out \subseteq revoked
  /\ epoch \in Nat
  /\ born \in [Requests -> Nat]
  /\ proved \in [Requests -> Nat]

(* A password change closes every session that has a token by then: what   *)
(* is not revoked now got its row after the last change.                   *)
LiveIsNew == \A t \in issued \ revoked : born[t] = epoch

(* A rotation that dies half-way costs nobody the session: a token that    *)
(* was neither logged out nor closed by a password change is revoked only  *)
(* once another has taken its place.                                       *)
NeverStranded ==
  \A t \in issued \intersect revoked :
    t \in out \/ born[t] < epoch \/ \E r \in issued : from[r] = t

(* Rotation keeps one usable token per session as long as no token is      *)
(* presented by two requests (two that are in flight at once both get a    *)
(* token, see the README).                                                 *)
Serial == \A r, s \in Requests : r # s /\ from[r] = from[s] => from[r] = NoToken

OneTokenPerSession ==
  Serial => \A t \in issued \ revoked : \A r \in issued : from[r] # t

(* The inductive invariant behind the three.  A token gets its row in the  *)
(* one step of its request that inserts it, and is known to a client only  *)
(* then; so whatever a refresh presents has a row.                         *)
NotIssuedYet == {"idle", "open", "account", "rotate"}

TokenInv == \A r \in Requests :
  /\ pc[r] \in NotIssuedYet => r \notin issued
  /\ pc[r] = "answer" => r \in issued
  /\ from[r] \in issued \union {NoToken}
  /\ pc[r] \in {"idle", "open"} => from[r] = NoToken
  /\ pc[r] \in {"account", "rotate"} => from[r] # NoToken
  /\ r \in issued => born[r] <= epoch

Inv ==
  /\ TypeOK
  /\ TokenInv
  /\ LiveIsNew
  /\ NeverStranded
  /\ OneTokenPerSession

(* "Al cambiarla se revocan todas las sesiones: [...] las sesiones abiertas*)
(* con ella tienen que morir con el cambio": no usable token goes back to  *)
(* a password from before the last change.                                 *)
OldSessionsDie == \A t \in issued \ revoked : proved[t] = epoch
=============================================================================
