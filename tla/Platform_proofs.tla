--------------------------- MODULE Platform_proofs --------------------------
(* Machine-checked proofs about the platform: the organizations that live  *)
(* on it (Tenancy), for every number of organizations and operators, every *)
(* assignment of names to them and every number of requests, overlapping   *)
(* in any way; and how it is deployed, configured and seeded (Deployment), *)
(* for every catalogue of plans, services and resources, every database    *)
(* that may be there, and every number of commands, killed and run again.  *)
EXTENDS Tenancy, Deployment, FiniteSetTheorems, TLAPS
-----------------------------------------------------------------------------
(* Tenancy                                                                 *)

LEMMA RowFacts ==
  /\ NoUser \notin UserRows
  /\ \A row \in UserRows : row.org \in Registrations /\ row.email \in Emails
                            /\ row.role \in Roles /\ row.status \in UserStatuses
  /\ NoUser.org = Nowhere /\ NoUser.status = Absent
  BY TenancyNames DEF NoUser, UserRows, UserStatuses, Absent

(* A row with another e-mail.                                              *)
LEMMA EmailUpdate ==
  ASSUME NEW row \in UserRows, NEW email \in Emails
  PROVE  /\ [row EXCEPT !.email = email] \in UserRows
         /\ [row EXCEPT !.email = email].email = email
         /\ [row EXCEPT !.email = email].org = row.org
         /\ [row EXCEPT !.email = email].role = row.role
         /\ [row EXCEPT !.email = email].status = row.status
  BY DEF UserRows

(* What a request holds.                                                   *)
LEMMA WorkFacts ==
  /\ \A o \in Registrations \union {Nowhere}, status \in OrganizationStatuses \union {Absent} :
       /\ OrganizationWork(o, status) \in WorkTypes
       /\ OrganizationWork(o, status).org = o /\ OrganizationWork(o, status).status = status
  /\ \A u \in Users, row \in UserRows :
       /\ UserWork(u, row) \in WorkTypes
       /\ UserWork(u, row).user = u /\ UserWork(u, row).row = row /\ UserWork(u, row).org = row.org
  /\ NoWork \in WorkTypes /\ NoWork.org = Nowhere
  BY RowFacts DEF OrganizationWork, UserWork, NoWork, WorkTypes

(* What the operators' requests read and change, by cases.                 *)
LEMMA UpdatedRows ==
  ASSUME TypeOK, NEW u \in Users, user[u] # NoUser, NEW row \in Updated(u)
  PROVE  /\ row \in UserRows /\ row.org = user[u].org
         /\ user[u].role = "OWNER" => row.role = "OWNER"
         /\ user[u].role # "OWNER" => row.role # "OWNER"
         /\ user[u].role = "OWNER" /\ user[u].status = "ACTIVE" => row.status = "ACTIVE"
<1>1. user[u] \in UserRows
  BY DEF TypeOK
<1> QED
  BY <1>1, RowFacts DEF Updated, UserRows, Roles, UserStatuses

LEMMA NewRows ==
  ASSUME NEW o \in Registrations, NEW email \in Emails, NEW row \in NewUsers(o, email)
  PROVE  row \in UserRows /\ row.org = o /\ row.email = email /\ row.role # "OWNER"
  BY DEF NewUsers, UserRows, Roles, UserStatuses

(* A save leaves every row but u's, and never a row without content.       *)
LEMMA UpsertWrites ==
  ASSUME TypeOK, NEW u \in Users, NEW row \in UserRows, Upsert(u, row)
  PROVE  /\ user' \in [Users -> UserRows \union {NoUser}]
         /\ user'[u] # NoUser /\ user'[u].org = row.org
         /\ user'[u].role = row.role /\ user'[u].status = row.status
         /\ user'[u].email = IF user[u] = NoUser THEN row.email ELSE user[u].email
         /\ \A v \in Users : v # u => user'[v] = user[v]
<1>1. CASE user[u] = NoUser
  BY <1>1, RowFacts DEF Upsert, TypeOK
<1>2. CASE user[u] # NoUser
  <2>1. user[u] \in UserRows /\ user[u].email \in Emails
    BY <1>2, RowFacts DEF TypeOK
  <2> DEFINE saved == [row EXCEPT !.email = user[u].email]
  <2>2. /\ saved \in UserRows /\ saved.email = user[u].email
        /\ saved.org = row.org /\ saved.role = row.role /\ saved.status = row.status
    BY <2>1, EmailUpdate
  <2>3. user' = [user EXCEPT ![u] = saved]
    BY <1>2 DEF Upsert
  <2> HIDE DEF saved
  <2> QED
    BY <1>2, <2>2, <2>3, RowFacts DEF TypeOK
<1> QED
  BY <1>1, <1>2

(* The types, action by action.                                            *)
LEMMA TypeStep ==
  ASSUME TypeOK, WorkInv, [Next]_vars
  PROVE  TypeOK'
<1> USE TenancyNames, RowFacts DEF Goto, Begin, Finish, tables, Processes
<1>1. ASSUME NEW r \in Registrations, CheckAvailable(r) PROVE TypeOK'
  BY <1>1 DEF CheckAvailable, TypeOK, Steps
<1>2. ASSUME NEW r \in Registrations, InsertTenant(r) PROVE TypeOK'
  <2>1. Owner(r) \in UserRows
    BY DEF TypeOK, Owner, UserRows, Roles, UserStatuses
  <2>2. r \in Users /\ "TRIAL" \in OrganizationStatuses
    BY DEF Users, OrganizationStatuses
  <2>3. user' \in [Users -> UserRows \union {NoUser}]
    BY <1>2, <2>1, <2>2 DEF InsertTenant, TypeOK
  <2>4. org' \in [Registrations -> OrganizationStatuses \union {Absent}]
    BY <1>2, <2>2 DEF InsertTenant, TypeOK
  <2>5. kit' \in [Registrations -> SUBSET Kit] /\ pc' \in [Processes -> Steps]
    BY <1>2 DEF InsertTenant, TypeOK, Steps
  <2> QED
    BY <1>2, <2>3, <2>4, <2>5 DEF InsertTenant, TypeOK
<1>3. ASSUME NEW r \in Registrations, Welcome(r) PROVE TypeOK'
  BY <1>3 DEF Welcome, TypeOK, Steps
<1>4. ASSUME NEW r \in Registrations, GrantPlan(r) PROVE TypeOK'
  BY <1>4 DEF GrantPlan, TypeOK, Steps
<1>5. ASSUME NEW r \in Registrations, SignIn(r) PROVE TypeOK'
  BY <1>5 DEF SignIn, TypeOK
<1>6. ASSUME NEW r \in Registrations, AccessExpires(r) PROVE TypeOK'
  BY <1>6 DEF AccessExpires, TypeOK
<1>7. ASSUME NEW a \in Operators, FetchOrganization(a) PROVE TypeOK'
  <2> PICK o \in Registrations : Exists(o) /\ \E status \in NewOrganizationStatuses(o) :
             work' = [work EXCEPT ![a] = OrganizationWork(o, status)]
    BY <1>7 DEF FetchOrganization
  <2>0. PICK status \in NewOrganizationStatuses(o) : work' = [work EXCEPT ![a] = OrganizationWork(o, status)]
    OBVIOUS
  <2>1. status \in OrganizationStatuses \union {Absent}
    BY DEF NewOrganizationStatuses, OrganizationStatuses, TypeOK, Exists
  <2>2. OrganizationWork(o, status) \in WorkTypes
    BY <2>1, WorkFacts
  <2>8. work' \in [Operators -> WorkTypes]
    BY <1>7, <2>0, <2>2 DEF FetchOrganization, TypeOK
  <2>9. pc' \in [Processes -> Steps] /\ requests' \in 0 .. MaxRequests
    BY <1>7, TenancyBound DEF FetchOrganization, TypeOK, Steps
  <2> QED
    BY <1>7, <2>8, <2>9 DEF FetchOrganization, TypeOK
<1>8. ASSUME NEW a \in Operators, SaveOrganization(a) PROVE TypeOK'
  <2>1. work[a].org \in Registrations /\ work[a].status \in OrganizationStatuses \union {Absent}
    BY <1>8 DEF SaveOrganization, TypeOK, WorkTypes, WorkInv, WorkOf
  <2>2. org' \in [Registrations -> OrganizationStatuses \union {Absent}]
    BY <1>8, <2>1 DEF SaveOrganization, TypeOK
  <2>3. NoWork \in WorkTypes
    BY WorkFacts
  <2>8. work' \in [Operators -> WorkTypes]
    BY <1>8, <2>3 DEF SaveOrganization, TypeOK
  <2>9. pc' \in [Processes -> Steps] /\ requests' \in 0 .. MaxRequests
    BY <1>8, TenancyBound DEF SaveOrganization, TypeOK, Steps
  <2> QED
    BY <1>8, <2>2, <2>8, <2>9 DEF SaveOrganization, TypeOK
<1>9. ASSUME NEW a \in Operators, FetchDisabled(a) PROVE TypeOK'
  <2>8. work' \in [Operators -> WorkTypes]
    BY <1>9, WorkFacts DEF FetchDisabled, TypeOK
  <2>9. pc' \in [Processes -> Steps] /\ requests' \in 0 .. MaxRequests
    BY <1>9, TenancyBound DEF FetchDisabled, TypeOK, Steps
  <2> QED
    BY <1>9, <2>8, <2>9 DEF FetchDisabled, TypeOK
<1>10. ASSUME NEW a \in Operators, Purge(a) PROVE TypeOK'
  <2>1. work[a].org \in Registrations
    BY <1>10 DEF Purge, WorkInv, WorkOf
  <2>2. org' \in [Registrations -> OrganizationStatuses \union {Absent}] /\ kit' \in [Registrations -> SUBSET Kit]
    BY <1>10 DEF Purge, TypeOK
  <2>3. user' \in [Users -> UserRows \union {NoUser}]
    BY <1>10 DEF Purge, TypeOK
  <2>4. granted' \subseteq Registrations /\ purged' \subseteq Registrations
    BY <1>10, <2>1 DEF Purge, TypeOK
  <2>8. work' \in [Operators -> WorkTypes]
    BY <1>10, WorkFacts DEF Purge, TypeOK
  <2>9. pc' \in [Processes -> Steps] /\ requests' \in 0 .. MaxRequests
    BY <1>10, TenancyBound DEF Purge, TypeOK, Steps
  <2> QED
    BY <1>10, <2>2, <2>3, <2>4, <2>8, <2>9 DEF Purge, TypeOK
<1>11. ASSUME NEW a \in Operators, FetchOwner(a) PROVE TypeOK'
  <2> PICK o \in Registrations, email \in Emails :
             \E u \in ActiveOwners(o) : work' = [work EXCEPT ![a] = UserWork(u, [user[u] EXCEPT !.email = email])]
    BY <1>11 DEF FetchOwner
  <2> PICK u \in ActiveOwners(o) : work' = [work EXCEPT ![a] = UserWork(u, [user[u] EXCEPT !.email = email])]
    OBVIOUS
  <2> DEFINE row == [user[u] EXCEPT !.email = email]
  <2>1. u \in Users /\ user[u] \in UserRows
    BY DEF ActiveOwners, TypeOK
  <2>2. row \in UserRows
    BY <2>1, EmailUpdate
  <2>3. work' = [work EXCEPT ![a] = UserWork(u, row)]
    OBVIOUS
  <2> HIDE DEF row
  <2>8. work' \in [Operators -> WorkTypes]
    BY <1>11, WorkFacts, <2>1, <2>2, <2>3 DEF FetchOwner, TypeOK
  <2>9. pc' \in [Processes -> Steps] /\ requests' \in 0 .. MaxRequests
    BY <1>11, TenancyBound DEF FetchOwner, TypeOK, Steps
  <2> QED
    BY <1>11, <2>8, <2>9 DEF FetchOwner, TypeOK
<1>12. ASSUME NEW a \in Operators, CheckStaffEmail(a) PROVE TypeOK'
  <2>0. PICK o \in Registrations, email \in Emails : \E row \in NewUsers(o, email) :
               work' = [work EXCEPT ![a] = UserWork(a, row)]
    BY <1>12 DEF CheckStaffEmail
  <2>1. PICK row \in NewUsers(o, email) : work' = [work EXCEPT ![a] = UserWork(a, row)]
    BY <2>0
  <2>2. a \in Users /\ row \in UserRows
    BY NewRows DEF Users
  <2>3. named' \subseteq Operators
    BY <1>12 DEF CheckStaffEmail, TypeOK
  <2>8. work' \in [Operators -> WorkTypes]
    BY <1>12, WorkFacts, <2>1, <2>2 DEF CheckStaffEmail, TypeOK
  <2>9. pc' \in [Processes -> Steps] /\ requests' \in 0 .. MaxRequests
    BY <1>12, TenancyBound DEF CheckStaffEmail, TypeOK, Steps
  <2> QED
    BY <1>12, <2>3, <2>8, <2>9 DEF CheckStaffEmail, TypeOK
<1>13. ASSUME NEW a \in Operators, FetchUser(a) PROVE TypeOK'
  <2>1. PICK u \in Users : user[u] # NoUser /\ \E row \in Updated(u) : work' = [work EXCEPT ![a] = UserWork(u, row)]
    BY <1>13 DEF FetchUser
  <2>2. PICK row \in Updated(u) : work' = [work EXCEPT ![a] = UserWork(u, row)]
    BY <2>1
  <2>3. row \in UserRows
    BY <2>1, UpdatedRows
  <2>8. work' \in [Operators -> WorkTypes]
    BY <1>13, WorkFacts, <2>2, <2>3 DEF FetchUser, TypeOK
  <2>9. pc' \in [Processes -> Steps] /\ requests' \in 0 .. MaxRequests
    BY <1>13, TenancyBound DEF FetchUser, TypeOK, Steps
  <2> QED
    BY <1>13, <2>8, <2>9 DEF FetchUser, TypeOK
<1>14. ASSUME NEW a \in Operators, FetchLogin(a) PROVE TypeOK'
  <2>1. PICK u \in Users : user[u].status = "ACTIVE" /\ work' = [work EXCEPT ![a] = UserWork(u, user[u])]
    BY <1>14 DEF FetchLogin
  <2>2. user[u] \in UserRows
    BY <2>1 DEF TypeOK, Absent
  <2>8. work' \in [Operators -> WorkTypes]
    BY <1>14, WorkFacts, <2>1, <2>2 DEF FetchLogin, TypeOK
  <2>9. pc' \in [Processes -> Steps] /\ requests' \in 0 .. MaxRequests
    BY <1>14, TenancyBound DEF FetchLogin, TypeOK, Steps
  <2> QED
    BY <1>14, <2>8, <2>9 DEF FetchLogin, TypeOK
<1>15. ASSUME NEW a \in Operators, SaveUser(a) PROVE TypeOK'
  <2>1. work[a].user \in Users /\ work[a].row \in UserRows
    BY <1>15 DEF SaveUser, TypeOK, WorkTypes, WorkInv, WorkOf
  <2>2. user' \in [Users -> UserRows \union {NoUser}]
    BY <1>15, <2>1, UpsertWrites DEF SaveUser, TypeOK
  <2>8. work' \in [Operators -> WorkTypes]
    BY <1>15, WorkFacts DEF SaveUser, TypeOK
  <2>9. pc' \in [Processes -> Steps] /\ requests' \in 0 .. MaxRequests
    BY <1>15, TenancyBound DEF SaveUser, TypeOK, Steps
  <2> QED
    BY <1>15, <2>2, <2>8, <2>9 DEF SaveUser, TypeOK
<1>16. CASE UNCHANGED vars
  BY <1>16 DEF vars, tables, TypeOK
<1> QED
  BY <1>1, <1>2, <1>3, <1>4, <1>5, <1>6, <1>7, <1>8, <1>9, <1>10, <1>11, <1>12, <1>13, <1>14, <1>15, <1>16
  DEF Next, RegistrationStep, StaffSession, OrganizationStep, UserStep

(* A row of a first owner is written as its registration shaped it.        *)
LEMMA ShapeStep ==
  ASSUME TypeOK, UserInv, WorkInv, [Next]_vars
  PROVE  UserInv'
<1> USE DEF tables
<1>1. ASSUME NEW r \in Registrations, CheckAvailable(r) PROVE UserInv'
  BY <1>1 DEF CheckAvailable, UserInv
<1>2. ASSUME NEW r \in Registrations, InsertTenant(r) PROVE UserInv'
  <2>1. Owner(r) # NoUser /\ Shaped(r, Owner(r))
    BY DEF Owner, NoUser, Shaped, Absent
  <2> QED
    BY <1>2, <2>1 DEF InsertTenant, UserInv, TypeOK
<1>3. ASSUME NEW r \in Registrations, Welcome(r) PROVE UserInv'
  BY <1>3 DEF Welcome, UserInv
<1>4. ASSUME NEW r \in Registrations, GrantPlan(r) PROVE UserInv'
  BY <1>4 DEF GrantPlan, UserInv
<1>5. ASSUME NEW r \in Registrations, SignIn(r) PROVE UserInv'
  BY <1>5 DEF SignIn, UserInv
<1>6. ASSUME NEW r \in Registrations, AccessExpires(r) PROVE UserInv'
  BY <1>6 DEF AccessExpires, UserInv
<1>7. ASSUME NEW a \in Operators, FetchOrganization(a) PROVE UserInv'
  BY <1>7 DEF FetchOrganization, UserInv
<1>8. ASSUME NEW a \in Operators, SaveOrganization(a) PROVE UserInv'
  BY <1>8 DEF SaveOrganization, UserInv
<1>9. ASSUME NEW a \in Operators, FetchDisabled(a) PROVE UserInv'
  BY <1>9 DEF FetchDisabled, UserInv
<1>10. ASSUME NEW a \in Operators, Purge(a) PROVE UserInv'
  BY <1>10 DEF Purge, UserInv
<1>11. ASSUME NEW a \in Operators, FetchOwner(a) PROVE UserInv'
  BY <1>11 DEF FetchOwner, UserInv
<1>12. ASSUME NEW a \in Operators, CheckStaffEmail(a) PROVE UserInv'
  BY <1>12 DEF CheckStaffEmail, UserInv
<1>13. ASSUME NEW a \in Operators, FetchUser(a) PROVE UserInv'
  BY <1>13 DEF FetchUser, UserInv
<1>14. ASSUME NEW a \in Operators, FetchLogin(a) PROVE UserInv'
  BY <1>14 DEF FetchLogin, UserInv
<1>15. ASSUME NEW a \in Operators, SaveUser(a) PROVE UserInv'
  <2>1. CASE UNCHANGED user
    BY <2>1 DEF UserInv
  <2>2. CASE Upsert(work[a].user, work[a].row)
    <3>1. /\ work[a].user \in Users /\ work[a].row \in UserRows
          /\ Shaped(work[a].user, work[a].row)
      BY <1>15 DEF SaveUser, TypeOK, WorkTypes, WorkInv, WorkOf
    <3>2. Shaped(work[a].user, user'[work[a].user])
      BY <2>2, <3>1, UpsertWrites DEF Shaped
    <3> QED
      BY <2>2, <3>1, <3>2, UpsertWrites DEF UserInv
  <2> QED
    BY <1>15, <2>1, <2>2 DEF SaveUser
<1>16. CASE UNCHANGED vars
  BY <1>16 DEF vars, tables, UserInv
<1> QED
  BY <1>1, <1>2, <1>3, <1>4, <1>5, <1>6, <1>7, <1>8, <1>9, <1>10, <1>11, <1>12, <1>13, <1>14, <1>15, <1>16
  DEF Next, RegistrationStep, StaffSession, OrganizationStep, UserStep

(* What a registration has written is gone only by a deletion.             *)
Kept == \A o \in Registrations :
  /\ Exists(o) \/ o \in purged => org'[o] # Absent \/ o \in purged'
  /\ user[o] # NoUser \/ o \in purged => user'[o] # NoUser \/ o \in purged'

LEMMA KeptStep ==
  ASSUME TypeOK, UserInv, WorkInv, [Next]_vars
  PROVE  Kept
<1> USE TenancyNames DEF tables, Exists
<1>1. ASSUME NEW r \in Registrations, CheckAvailable(r) PROVE Kept
  BY <1>1 DEF CheckAvailable, Kept
<1>2. ASSUME NEW r \in Registrations, InsertTenant(r) PROVE Kept
  <2>1. Owner(r) # NoUser
    BY DEF Owner, NoUser, Absent
  <2> QED
    BY <1>2, <2>1 DEF InsertTenant, Kept, TypeOK, Users, Absent
<1>3. ASSUME NEW r \in Registrations, Welcome(r) PROVE Kept
  BY <1>3 DEF Welcome, Kept
<1>4. ASSUME NEW r \in Registrations, GrantPlan(r) PROVE Kept
  BY <1>4 DEF GrantPlan, Kept
<1>5. ASSUME NEW r \in Registrations, SignIn(r) PROVE Kept
  BY <1>5 DEF SignIn, Kept
<1>6. ASSUME NEW r \in Registrations, AccessExpires(r) PROVE Kept
  BY <1>6 DEF AccessExpires, Kept
<1>7. ASSUME NEW a \in Operators, FetchOrganization(a) PROVE Kept
  BY <1>7 DEF FetchOrganization, Kept
<1>8. ASSUME NEW a \in Operators, SaveOrganization(a) PROVE Kept
  BY <1>8 DEF SaveOrganization, Kept, TypeOK, WorkInv, WorkOf
<1>9. ASSUME NEW a \in Operators, FetchDisabled(a) PROVE Kept
  BY <1>9 DEF FetchDisabled, Kept
<1>10. ASSUME NEW a \in Operators, Purge(a) PROVE Kept
  <2>1. \A o \in Registrations : user[o] # NoUser => user[o].org = o
    BY DEF UserInv, Shaped, Users
  <2>2. work[a].org \in Registrations
    BY <1>10 DEF Purge, WorkInv, WorkOf
  <2>3. \A o \in Registrations \ {work[a].org} : org'[o] = org[o] /\ user'[o] = user[o]
    <3> SUFFICES ASSUME NEW o \in Registrations, o # work[a].org
                 PROVE  org'[o] = org[o] /\ user'[o] = user[o]
      OBVIOUS
    <3>1. user[o].org # work[a].org
      BY <2>1, <2>2, RowFacts
    <3> QED
      BY <1>10, <3>1 DEF Purge, TypeOK, Users
  <2> QED
    BY <1>10, <2>2, <2>3 DEF Purge, Kept
<1>11. ASSUME NEW a \in Operators, FetchOwner(a) PROVE Kept
  BY <1>11 DEF FetchOwner, Kept
<1>12. ASSUME NEW a \in Operators, CheckStaffEmail(a) PROVE Kept
  BY <1>12 DEF CheckStaffEmail, Kept
<1>13. ASSUME NEW a \in Operators, FetchUser(a) PROVE Kept
  BY <1>13 DEF FetchUser, Kept
<1>14. ASSUME NEW a \in Operators, FetchLogin(a) PROVE Kept
  BY <1>14 DEF FetchLogin, Kept
<1>15. ASSUME NEW a \in Operators, SaveUser(a) PROVE Kept
  <2>1. CASE UNCHANGED user
    BY <1>15, <2>1 DEF SaveUser, Kept
  <2>2. CASE Upsert(work[a].user, work[a].row)
    <3>1. work[a].user \in Users /\ work[a].row \in UserRows
      BY <1>15 DEF SaveUser, TypeOK, WorkTypes, WorkInv, WorkOf
    <3> QED
      BY <1>15, <2>2, <3>1, UpsertWrites DEF SaveUser, Kept, Users
  <2> QED
    BY <1>15, <2>1, <2>2 DEF SaveUser
<1>16. CASE UNCHANGED vars
  BY <1>16 DEF vars, tables, Kept
<1> QED
  BY <1>1, <1>2, <1>3, <1>4, <1>5, <1>6, <1>7, <1>8, <1>9, <1>10, <1>11, <1>12, <1>13, <1>14, <1>15, <1>16
  DEF Next, RegistrationStep, StaffSession, OrganizationStep, UserStep

(* A registration that has not inserted yet has nothing to delete or save. *)
LEMMA RegistrationStepInv ==
  ASSUME TypeOK, RegistrationInv, WorkInv, [Next]_vars
  PROVE  RegistrationInv'
<1> USE TenancyNames DEF Goto, Begin, Finish, tables, Processes, Exists
<1>1. ASSUME NEW r \in Registrations, CheckAvailable(r) PROVE RegistrationInv'
  BY <1>1 DEF CheckAvailable, RegistrationInv, TypeOK
<1>2. ASSUME NEW r \in Registrations, InsertTenant(r) PROVE RegistrationInv'
  BY <1>2 DEF InsertTenant, RegistrationInv, TypeOK
<1>3. ASSUME NEW r \in Registrations, Welcome(r) PROVE RegistrationInv'
  BY <1>3 DEF Welcome, RegistrationInv, TypeOK
<1>4. ASSUME NEW r \in Registrations, GrantPlan(r) PROVE RegistrationInv'
  BY <1>4 DEF GrantPlan, RegistrationInv, TypeOK
<1>5. ASSUME NEW r \in Registrations, SignIn(r) PROVE RegistrationInv'
  BY <1>5 DEF SignIn, RegistrationInv
<1>6. ASSUME NEW r \in Registrations, AccessExpires(r) PROVE RegistrationInv'
  BY <1>6 DEF AccessExpires, RegistrationInv
<1>7. ASSUME NEW a \in Operators, FetchOrganization(a) PROVE RegistrationInv'
  BY <1>7 DEF FetchOrganization, RegistrationInv, TypeOK, WorkInv, WorkOf
<1>8. ASSUME NEW a \in Operators, SaveOrganization(a) PROVE RegistrationInv'
  BY <1>8 DEF SaveOrganization, RegistrationInv, TypeOK, WorkInv, WorkOf
<1>9. ASSUME NEW a \in Operators, FetchDisabled(a) PROVE RegistrationInv'
  BY <1>9 DEF FetchDisabled, RegistrationInv, TypeOK, WorkInv, WorkOf
<1>10. ASSUME NEW a \in Operators, Purge(a) PROVE RegistrationInv'
  BY <1>10 DEF Purge, RegistrationInv, TypeOK, WorkInv, WorkOf
<1>11. ASSUME NEW a \in Operators, FetchOwner(a) PROVE RegistrationInv'
  BY <1>11 DEF FetchOwner, RegistrationInv, TypeOK, WorkInv, WorkOf
<1>12. ASSUME NEW a \in Operators, CheckStaffEmail(a) PROVE RegistrationInv'
  BY <1>12 DEF CheckStaffEmail, RegistrationInv, TypeOK, WorkInv, WorkOf
<1>13. ASSUME NEW a \in Operators, FetchUser(a) PROVE RegistrationInv'
  BY <1>13 DEF FetchUser, RegistrationInv, TypeOK, WorkInv, WorkOf
<1>14. ASSUME NEW a \in Operators, FetchLogin(a) PROVE RegistrationInv'
  BY <1>14 DEF FetchLogin, RegistrationInv, TypeOK, WorkInv, WorkOf
<1>15. ASSUME NEW a \in Operators, SaveUser(a) PROVE RegistrationInv'
  BY <1>15 DEF SaveUser, RegistrationInv, TypeOK, WorkInv, WorkOf
<1>16. CASE UNCHANGED vars
  BY <1>16 DEF vars, tables, RegistrationInv
<1> QED
  BY <1>1, <1>2, <1>3, <1>4, <1>5, <1>6, <1>7, <1>8, <1>9, <1>10, <1>11, <1>12, <1>13, <1>14, <1>15, <1>16
  DEF Next, RegistrationStep, StaffSession, OrganizationStep, UserStep

(* What a request holds stays justified while others take their steps.     *)
LEMMA OthersWork ==
  ASSUME Kept, NEW b \in Operators, WorkOf(b), pc'[b] = pc[b], work'[b] = work[b]
  PROVE  WorkOf(b)'
  BY DEF WorkOf, Kept, Exists

(* A request holds what it read, or the next one's.                        *)
LEMMA WorkStep ==
  ASSUME TypeOK, UserInv, WorkInv, [Next]_vars
  PROVE  WorkInv'
<1> SUFFICES ASSUME NEW b \in Operators PROVE WorkOf(b)'
  BY DEF WorkInv
<1>0. Kept /\ WorkOf(b)
  BY KeptStep DEF WorkInv
<1> USE TenancyNames, <1>0 DEF Goto, Begin, Finish, Processes, tables
<1>1. ASSUME NEW r \in Registrations, CheckAvailable(r) PROVE WorkOf(b)'
  <2>1. pc'[b] = pc[b] /\ work'[b] = work[b]
    BY <1>1 DEF CheckAvailable, TypeOK
  <2> QED
    BY <2>1, <1>0, OthersWork
<1>2. ASSUME NEW r \in Registrations, InsertTenant(r) PROVE WorkOf(b)'
  <2>1. pc'[b] = pc[b] /\ work'[b] = work[b]
    BY <1>2 DEF InsertTenant, TypeOK
  <2> QED
    BY <2>1, <1>0, OthersWork
<1>3. ASSUME NEW r \in Registrations, Welcome(r) PROVE WorkOf(b)'
  <2>1. pc'[b] = pc[b] /\ work'[b] = work[b]
    BY <1>3 DEF Welcome, TypeOK
  <2> QED
    BY <2>1, <1>0, OthersWork
<1>4. ASSUME NEW r \in Registrations, GrantPlan(r) PROVE WorkOf(b)'
  <2>1. pc'[b] = pc[b] /\ work'[b] = work[b]
    BY <1>4 DEF GrantPlan, TypeOK
  <2> QED
    BY <2>1, <1>0, OthersWork
<1>5. ASSUME NEW r \in Registrations, SignIn(r) PROVE WorkOf(b)'
  <2>1. pc'[b] = pc[b] /\ work'[b] = work[b]
    BY <1>5 DEF SignIn, TypeOK
  <2> QED
    BY <2>1, <1>0, OthersWork
<1>6. ASSUME NEW r \in Registrations, AccessExpires(r) PROVE WorkOf(b)'
  <2>1. pc'[b] = pc[b] /\ work'[b] = work[b]
    BY <1>6 DEF AccessExpires, TypeOK
  <2> QED
    BY <2>1, <1>0, OthersWork
<1>7. ASSUME NEW a \in Operators, FetchOrganization(a) PROVE WorkOf(b)'
  <2>1. CASE b # a
    <3>1. pc'[b] = pc[b] /\ work'[b] = work[b]
      BY <1>7, <2>1 DEF FetchOrganization, TypeOK
    <3> QED
      BY <3>1, <1>0, OthersWork
  <2>2. CASE b = a
    <3>0. PICK o \in Registrations : Exists(o) /\ \E status \in NewOrganizationStatuses(o) :
               work' = [work EXCEPT ![a] = OrganizationWork(o, status)]
      BY <1>7 DEF FetchOrganization
    <3>1. PICK status \in NewOrganizationStatuses(o) : work' = [work EXCEPT ![a] = OrganizationWork(o, status)]
      BY <3>0
    <3>2. status \in OrganizationStatuses /\ status # Absent
      BY <3>0 DEF NewOrganizationStatuses, OrganizationStatuses, TypeOK, Exists, Absent
    <3>e. work'[a] = OrganizationWork(o, status)
      BY <3>1 DEF TypeOK
    <3>3. work'[a].org = o /\ work'[a].status = status
      BY <3>e DEF OrganizationWork
    <3>4. pc'[a] = "saveOrganization" /\ org' = org /\ purged' = purged
      BY <1>7 DEF FetchOrganization, TypeOK, tables
    <3> QED
      BY <2>2, <3>0, <3>2, <3>3, <3>4 DEF WorkOf, Exists
  <2> QED
    BY <2>1, <2>2
<1>8. ASSUME NEW a \in Operators, SaveOrganization(a) PROVE WorkOf(b)'
  <2>1. CASE b # a
    <3>1. pc'[b] = pc[b] /\ work'[b] = work[b]
      BY <1>8, <2>1 DEF SaveOrganization, TypeOK
    <3> QED
      BY <3>1, <1>0, OthersWork
  <2>2. CASE b = a
    BY <1>8, <2>2 DEF SaveOrganization, TypeOK, WorkOf
  <2> QED
    BY <2>1, <2>2
<1>9. ASSUME NEW a \in Operators, FetchDisabled(a) PROVE WorkOf(b)'
  <2>1. CASE b # a
    <3>1. pc'[b] = pc[b] /\ work'[b] = work[b]
      BY <1>9, <2>1 DEF FetchDisabled, TypeOK
    <3> QED
      BY <3>1, <1>0, OthersWork
  <2>2. CASE b = a
    <3>1. PICK o \in Registrations : org[o] = "DISABLED" /\ work' = [work EXCEPT ![a] = OrganizationWork(o, Absent)]
      BY <1>9 DEF FetchDisabled
    <3>e. work'[a] = OrganizationWork(o, Absent)
      BY <3>1 DEF TypeOK
    <3>2. work'[a].org = o
      BY <3>e DEF OrganizationWork
    <3>3. pc'[a] = "purge" /\ org' = org /\ purged' = purged
      BY <1>9 DEF FetchDisabled, TypeOK, tables
    <3> QED
      BY <2>2, <3>1, <3>2, <3>3 DEF WorkOf, Exists, Absent
  <2> QED
    BY <2>1, <2>2
<1>10. ASSUME NEW a \in Operators, Purge(a) PROVE WorkOf(b)'
  <2>1. CASE b # a
    <3>1. pc'[b] = pc[b] /\ work'[b] = work[b]
      BY <1>10, <2>1 DEF Purge, TypeOK
    <3> QED
      BY <3>1, <1>0, OthersWork
  <2>2. CASE b = a
    BY <1>10, <2>2 DEF Purge, TypeOK, WorkOf
  <2> QED
    BY <2>1, <2>2
<1>11. ASSUME NEW a \in Operators, FetchOwner(a) PROVE WorkOf(b)'
  <2>1. CASE b # a
    <3>1. pc'[b] = pc[b] /\ work'[b] = work[b]
      BY <1>11, <2>1 DEF FetchOwner, TypeOK
    <3> QED
      BY <3>1, <1>0, OthersWork
  <2>2. CASE b = a
    <3>1. PICK o \in Registrations, email \in Emails :
               \E u \in ActiveOwners(o) : work' = [work EXCEPT ![a] = UserWork(u, [user[u] EXCEPT !.email = email])]
      BY <1>11 DEF FetchOwner
    <3>2. PICK u \in ActiveOwners(o) : work' = [work EXCEPT ![a] = UserWork(u, [user[u] EXCEPT !.email = email])]
      BY <3>1
    <3> DEFINE row == [user[u] EXCEPT !.email = email]
    <3>3. u \in Users /\ user[u] \in UserRows /\ user[u] # NoUser
      BY RowFacts DEF ActiveOwners, TypeOK, Absent
    <3>4. u \in Users /\ row \in UserRows /\ work' = [work EXCEPT ![a] = UserWork(u, row)]
      BY <3>2, <3>3, EmailUpdate
    <3>5. /\ Shaped(u, row)
          /\ u \in Registrations => user[u] # NoUser
      BY <3>3, EmailUpdate DEF UserInv, Shaped
    <3> HIDE DEF row
    <3>e. work'[a] = UserWork(u, row)
      BY <3>4 DEF TypeOK
    <3>6. work'[a].user = u /\ work'[a].row = row /\ work'[a].org = row.org /\ row # NoUser
      BY <3>4, <3>e, RowFacts DEF UserWork
    <3>7. pc'[a] = "saveOwner" /\ user' = user
      BY <1>11 DEF FetchOwner, TypeOK
    <3> QED
      BY <2>2, <3>4, <3>5, <3>6, <3>7 DEF WorkOf
  <2> QED
    BY <2>1, <2>2
<1>12. ASSUME NEW a \in Operators, CheckStaffEmail(a) PROVE WorkOf(b)'
  <2>1. CASE b # a
    <3>1. pc'[b] = pc[b] /\ work'[b] = work[b]
      BY <1>12, <2>1 DEF CheckStaffEmail, TypeOK
    <3> QED
      BY <3>1, <1>0, OthersWork
  <2>2. CASE b = a
    <3>1. PICK o \in Registrations, email \in Emails : \E row \in NewUsers(o, email) :
               work' = [work EXCEPT ![a] = UserWork(a, row)]
      BY <1>12 DEF CheckStaffEmail
    <3>2. PICK row \in NewUsers(o, email) : work' = [work EXCEPT ![a] = UserWork(a, row)]
      BY <3>1
    <3> DEFINE u == a
    <3>4. u \in Users /\ row \in UserRows /\ work' = [work EXCEPT ![a] = UserWork(u, row)]
      BY <3>2, NewRows DEF Users
    <3>5. /\ Shaped(u, row)
          /\ u \in Registrations => user[u] # NoUser
      BY <3>2, NewRows DEF Shaped
    <3>e. work'[a] = UserWork(u, row)
      BY <3>4 DEF TypeOK
    <3>6. work'[a].user = u /\ work'[a].row = row /\ work'[a].org = row.org /\ row # NoUser
      BY <3>4, <3>e, RowFacts DEF UserWork
    <3>7. pc'[a] = "saveUser" /\ user' = user
      BY <1>12 DEF CheckStaffEmail, TypeOK
    <3> QED
      BY <2>2, <3>4, <3>5, <3>6, <3>7 DEF WorkOf
  <2> QED
    BY <2>1, <2>2
<1>13. ASSUME NEW a \in Operators, FetchUser(a) PROVE WorkOf(b)'
  <2>1. CASE b # a
    <3>1. pc'[b] = pc[b] /\ work'[b] = work[b]
      BY <1>13, <2>1 DEF FetchUser, TypeOK
    <3> QED
      BY <3>1, <1>0, OthersWork
  <2>2. CASE b = a
    <3>1. PICK u \in Users : user[u] # NoUser /\ \E row \in Updated(u) : work' = [work EXCEPT ![a] = UserWork(u, row)]
      BY <1>13 DEF FetchUser
    <3>2. PICK row \in Updated(u) : work' = [work EXCEPT ![a] = UserWork(u, row)]
      BY <3>1
    <3>4. u \in Users /\ row \in UserRows /\ work' = [work EXCEPT ![a] = UserWork(u, row)]
      BY <3>1, <3>2, UpdatedRows
    <3>5. /\ Shaped(u, row)
          /\ u \in Registrations => user[u] # NoUser
      BY <3>1, <3>2, UpdatedRows DEF UserInv, Shaped
    <3>e. work'[a] = UserWork(u, row)
      BY <3>4 DEF TypeOK
    <3>6. work'[a].user = u /\ work'[a].row = row /\ work'[a].org = row.org /\ row # NoUser
      BY <3>4, <3>e, RowFacts DEF UserWork
    <3>7. pc'[a] = "saveUser" /\ user' = user
      BY <1>13 DEF FetchUser, TypeOK
    <3> QED
      BY <2>2, <3>4, <3>5, <3>6, <3>7 DEF WorkOf
  <2> QED
    BY <2>1, <2>2
<1>14. ASSUME NEW a \in Operators, FetchLogin(a) PROVE WorkOf(b)'
  <2>1. CASE b # a
    <3>1. pc'[b] = pc[b] /\ work'[b] = work[b]
      BY <1>14, <2>1 DEF FetchLogin, TypeOK
    <3> QED
      BY <3>1, <1>0, OthersWork
  <2>2. CASE b = a
    <3>1. PICK u \in Users : user[u].status = "ACTIVE" /\ work' = [work EXCEPT ![a] = UserWork(u, user[u])]
      BY <1>14 DEF FetchLogin
    <3> DEFINE row == user[u]
    <3>4. u \in Users /\ row \in UserRows /\ work' = [work EXCEPT ![a] = UserWork(u, row)]
      BY <3>1, RowFacts DEF TypeOK, Absent
    <3>5. /\ Shaped(u, row)
          /\ u \in Registrations => user[u] # NoUser
      BY <3>4, RowFacts DEF UserInv
    <3>e. work'[a] = UserWork(u, row)
      BY <3>4 DEF TypeOK
    <3>6. work'[a].user = u /\ work'[a].row = row /\ work'[a].org = row.org /\ row # NoUser
      BY <3>4, <3>e, RowFacts DEF UserWork
    <3>7. pc'[a] = "saveUser" /\ user' = user
      BY <1>14 DEF FetchLogin, TypeOK
    <3> QED
      BY <2>2, <3>4, <3>5, <3>6, <3>7 DEF WorkOf
  <2> QED
    BY <2>1, <2>2
<1>15. ASSUME NEW a \in Operators, SaveUser(a) PROVE WorkOf(b)'
  <2>1. CASE b # a
    <3>1. pc'[b] = pc[b] /\ work'[b] = work[b]
      BY <1>15, <2>1 DEF SaveUser, TypeOK
    <3> QED
      BY <3>1, <1>0, OthersWork
  <2>2. CASE b = a
    BY <1>15, <2>2 DEF SaveUser, TypeOK, WorkOf
  <2> QED
    BY <2>1, <2>2
<1>16. CASE UNCHANGED vars
  BY <1>16, <1>0, OthersWork DEF vars
<1> QED
  BY <1>1, <1>2, <1>3, <1>4, <1>5, <1>6, <1>7, <1>8, <1>9, <1>10, <1>11, <1>12, <1>13, <1>14, <1>15, <1>16
  DEF Next, RegistrationStep, StaffSession, OrganizationStep, UserStep

(* Only the step of a registration and that of a deletion make or remove   *)
(* what belongs together, each all of it.                                  *)
LEMMA WholeStep ==
  ASSUME TypeOK, UserInv, RegistrationInv, WorkInv, AllOrNothing, [Next]_vars
  PROVE  AllOrNothing'
<1> USE TenancyNames DEF tables, Exists
<1>1. ASSUME NEW r \in Registrations, CheckAvailable(r) PROVE AllOrNothing'
  BY <1>1 DEF CheckAvailable, AllOrNothing
<1>2. ASSUME NEW r \in Registrations, InsertTenant(r) PROVE AllOrNothing'
  <2>1. Owner(r) # NoUser
    BY DEF Owner, NoUser, Absent
  <2>2. r \notin purged /\ ~Exists(r)
    BY <1>2 DEF InsertTenant, RegistrationInv
  <2>3. \A o \in Registrations \ {r} : org'[o] = org[o] /\ user'[o] = user[o] /\ kit'[o] = kit[o]
    BY <1>2 DEF InsertTenant, TypeOK, Users
  <2>4. CASE UNCHANGED <<org, user, kit>>
    BY <1>2, <2>4 DEF InsertTenant, AllOrNothing
  <2>5. CASE org'[r] = "TRIAL" /\ user'[r] = Owner(r) /\ kit'[r] = Kit
    BY <1>2, <2>1, <2>3, <2>5 DEF InsertTenant, AllOrNothing, Absent
  <2>6. UNCHANGED <<org, user, kit>> \/ (org'[r] = "TRIAL" /\ user'[r] = Owner(r) /\ kit'[r] = Kit)
    BY <1>2 DEF InsertTenant, TypeOK, Users
  <2> QED
    BY <2>4, <2>5, <2>6
<1>3. ASSUME NEW r \in Registrations, Welcome(r) PROVE AllOrNothing'
  BY <1>3 DEF Welcome, AllOrNothing
<1>4. ASSUME NEW r \in Registrations, GrantPlan(r) PROVE AllOrNothing'
  BY <1>4 DEF GrantPlan, AllOrNothing
<1>5. ASSUME NEW r \in Registrations, SignIn(r) PROVE AllOrNothing'
  BY <1>5 DEF SignIn, AllOrNothing
<1>6. ASSUME NEW r \in Registrations, AccessExpires(r) PROVE AllOrNothing'
  BY <1>6 DEF AccessExpires, AllOrNothing
<1>7. ASSUME NEW a \in Operators, FetchOrganization(a) PROVE AllOrNothing'
  BY <1>7 DEF FetchOrganization, AllOrNothing
<1>8. ASSUME NEW a \in Operators, SaveOrganization(a) PROVE AllOrNothing'
  <2>1. /\ work[a].org \in Registrations
        /\ Exists(work[a].org) \/ work[a].org \in purged
        /\ work[a].status # Absent
    BY <1>8 DEF SaveOrganization, WorkInv, WorkOf
  <2>2. \A o \in Registrations \ purged : org'[o] # Absent <=> org[o] # Absent
    BY <1>8, <2>1 DEF SaveOrganization, TypeOK
  <2> QED
    BY <1>8, <2>2 DEF SaveOrganization, AllOrNothing
<1>9. ASSUME NEW a \in Operators, FetchDisabled(a) PROVE AllOrNothing'
  BY <1>9 DEF FetchDisabled, AllOrNothing
<1>10. ASSUME NEW a \in Operators, Purge(a) PROVE AllOrNothing'
  <2>1. work[a].org \in Registrations
    BY <1>10 DEF Purge, WorkInv, WorkOf
  <2> SUFFICES ASSUME NEW o \in Registrations \ purged, o # work[a].org
               PROVE  org'[o] = org[o] /\ user'[o] = user[o] /\ kit'[o] = kit[o]
    BY <1>10, <2>1 DEF Purge, AllOrNothing
  <2>2. user[o].org # work[a].org
    BY <2>1, RowFacts DEF UserInv, Shaped, Users
  <2> QED
    BY <1>10, <2>2 DEF Purge, TypeOK, Users
<1>11. ASSUME NEW a \in Operators, FetchOwner(a) PROVE AllOrNothing'
  BY <1>11 DEF FetchOwner, AllOrNothing
<1>12. ASSUME NEW a \in Operators, CheckStaffEmail(a) PROVE AllOrNothing'
  BY <1>12 DEF CheckStaffEmail, AllOrNothing
<1>13. ASSUME NEW a \in Operators, FetchUser(a) PROVE AllOrNothing'
  BY <1>13 DEF FetchUser, AllOrNothing
<1>14. ASSUME NEW a \in Operators, FetchLogin(a) PROVE AllOrNothing'
  BY <1>14 DEF FetchLogin, AllOrNothing
<1>15. ASSUME NEW a \in Operators, SaveUser(a) PROVE AllOrNothing'
  <2>1. CASE UNCHANGED user
    BY <1>15, <2>1 DEF SaveUser, AllOrNothing
  <2>2. CASE Upsert(work[a].user, work[a].row)
    <3>1. work[a].user \in Users /\ work[a].row \in UserRows
      BY <1>15 DEF SaveUser, TypeOK, WorkTypes, WorkInv, WorkOf
    <3>2. work[a].user \in Registrations => user[work[a].user] # NoUser \/ work[a].user \in purged
      BY <1>15 DEF SaveUser, WorkInv, WorkOf
    <3>3. \A o \in Registrations \ purged : user'[o] # NoUser <=> user[o] # NoUser
      BY <2>2, <3>1, <3>2, UpsertWrites DEF Users
    <3> QED
      BY <1>15, <3>3 DEF SaveUser, AllOrNothing
  <2> QED
    BY <1>15, <2>1, <2>2 DEF SaveUser
<1>16. CASE UNCHANGED vars
  BY <1>16 DEF vars, tables, AllOrNothing
<1> QED
  BY <1>1, <1>2, <1>3, <1>4, <1>5, <1>6, <1>7, <1>8, <1>9, <1>10, <1>11, <1>12, <1>13, <1>14, <1>15, <1>16
  DEF Next, RegistrationStep, StaffSession, OrganizationStep, UserStep

(* The two unique indexes, which also judge a row that is written again.   *)
LEMMA NamesStep ==
  ASSUME TypeOK, WorkInv, NoSharedNames, [Next]_vars
  PROVE  NoSharedNames'
<1> USE TenancyNames DEF tables, Exists
<1>1. ASSUME NEW r \in Registrations, CheckAvailable(r) PROVE NoSharedNames'
  BY <1>1 DEF CheckAvailable, NoSharedNames
<1>2. ASSUME NEW r \in Registrations, InsertTenant(r) PROVE NoSharedNames'
  <2>1. CASE UNCHANGED <<org, user, kit>>
    BY <1>2, <2>1 DEF InsertTenant, NoSharedNames
  <2>2. CASE /\ ~SlugTaken(ask[r].slug) /\ ~EmailTaken(ask[r].email)
             /\ org' = [org EXCEPT ![r] = "TRIAL"] /\ user' = [user EXCEPT ![r] = Owner(r)]
    <3>1. Owner(r).email = ask[r].email
      BY DEF Owner
    <3>2. user'[r].email = ask[r].email /\ \A u \in Users \ {r} : user'[u] = user[u]
      BY <2>2, <3>1 DEF TypeOK, Users
    <3>3. \A o \in Registrations \ {r} : org'[o] = org[o]
      BY <2>2 DEF TypeOK
    <3> QED
      BY <1>2, <2>2, <3>2, <3>3 DEF InsertTenant, NoSharedNames, SlugTaken, EmailTaken
  <2> QED
    BY <1>2, <2>1, <2>2 DEF InsertTenant
<1>3. ASSUME NEW r \in Registrations, Welcome(r) PROVE NoSharedNames'
  BY <1>3 DEF Welcome, NoSharedNames
<1>4. ASSUME NEW r \in Registrations, GrantPlan(r) PROVE NoSharedNames'
  BY <1>4 DEF GrantPlan, NoSharedNames
<1>5. ASSUME NEW r \in Registrations, SignIn(r) PROVE NoSharedNames'
  BY <1>5 DEF SignIn, NoSharedNames
<1>6. ASSUME NEW r \in Registrations, AccessExpires(r) PROVE NoSharedNames'
  BY <1>6 DEF AccessExpires, NoSharedNames
<1>7. ASSUME NEW a \in Operators, FetchOrganization(a) PROVE NoSharedNames'
  BY <1>7 DEF FetchOrganization, NoSharedNames
<1>8. ASSUME NEW a \in Operators, SaveOrganization(a) PROVE NoSharedNames'
  <2>1. work[a].org \in Registrations
    BY <1>8 DEF SaveOrganization, WorkInv, WorkOf
  <2> QED
    BY <1>8, <2>1 DEF SaveOrganization, NoSharedNames, SlugTaken, TypeOK
<1>9. ASSUME NEW a \in Operators, FetchDisabled(a) PROVE NoSharedNames'
  BY <1>9 DEF FetchDisabled, NoSharedNames
<1>10. ASSUME NEW a \in Operators, Purge(a) PROVE NoSharedNames'
  <2>1. \A u \in Users : user'[u] = NoUser \/ user'[u] = user[u]
    BY <1>10 DEF Purge, TypeOK
  <2>2. \A o \in Registrations : org'[o] = Absent \/ org'[o] = org[o]
    BY <1>10 DEF Purge, TypeOK
  <2> QED
    BY <1>10, <2>1, <2>2 DEF Purge, NoSharedNames
<1>11. ASSUME NEW a \in Operators, FetchOwner(a) PROVE NoSharedNames'
  BY <1>11 DEF FetchOwner, NoSharedNames
<1>12. ASSUME NEW a \in Operators, CheckStaffEmail(a) PROVE NoSharedNames'
  BY <1>12 DEF CheckStaffEmail, NoSharedNames
<1>13. ASSUME NEW a \in Operators, FetchUser(a) PROVE NoSharedNames'
  BY <1>13 DEF FetchUser, NoSharedNames
<1>14. ASSUME NEW a \in Operators, FetchLogin(a) PROVE NoSharedNames'
  BY <1>14 DEF FetchLogin, NoSharedNames
<1>15. ASSUME NEW a \in Operators, SaveUser(a) PROVE NoSharedNames'
  <2>1. CASE UNCHANGED user
    BY <1>15, <2>1 DEF SaveUser, NoSharedNames
  <2>2. CASE /\ Upsert(work[a].user, work[a].row)
             /\ user[work[a].user] # NoUser \/ ~EmailTaken(work[a].row.email)
    <3>1. work[a].user \in Users /\ work[a].row \in UserRows
      BY <1>15 DEF SaveUser, TypeOK, WorkTypes, WorkInv, WorkOf
    <3> QED
      BY <1>15, <2>2, <3>1, UpsertWrites DEF SaveUser, NoSharedNames, EmailTaken
  <2> QED
    BY <1>15, <2>1, <2>2 DEF SaveUser
<1>16. CASE UNCHANGED vars
  BY <1>16 DEF vars, tables, NoSharedNames
<1> QED
  BY <1>1, <1>2, <1>3, <1>4, <1>5, <1>6, <1>7, <1>8, <1>9, <1>10, <1>11, <1>12, <1>13, <1>14, <1>15, <1>16
  DEF Next, RegistrationStep, StaffSession, OrganizationStep, UserStep

-----------------------------------------------------------------------------
LEMMA InitInv == Init => Inv
<1> SUFFICES ASSUME Init PROVE Inv
  OBVIOUS
<1>1. TypeOK
  BY TenancyBound, WorkFacts DEF Init, TypeOK, Steps
<1>2. UserInv /\ RegistrationInv /\ AllOrNothing /\ NoSharedNames
  BY DEF Init, UserInv, RegistrationInv, AllOrNothing, NoSharedNames, Exists, Users
<1>3. WorkInv
  BY DEF Init, WorkInv, WorkOf, Processes
<1> QED
  BY <1>1, <1>2, <1>3 DEF Inv

(* Whatever overlaps: what is registered stays together with its owner     *)
(* until it is deleted, and no request holds anything that says otherwise. *)
THEOREM TenancyInvariance == Spec => []Inv
<1>1. Inv /\ [Next]_vars => Inv'
  BY TypeStep, ShapeStep, RegistrationStepInv, WorkStep, WholeStep, NamesStep DEF Inv
<1> QED
  BY InitInv, <1>1, PTL DEF Spec

(* The transaction of RegisterOrganization and that of a deletion: what is *)
(* registered has its owner, trial and settings, what is not has none.     *)
THEOREM RegistrationIsWhole == Spec => []AllOrNothing
<1>1. Inv => AllOrNothing
  BY DEF Inv
<1> QED
  BY TenancyInvariance, <1>1, PTL

(* The unique indexes on slugs and e-mails, over checks made long before.  *)
THEOREM NamesAreUnique == Spec => []NoSharedNames
<1>1. Inv => NoSharedNames
  BY DEF Inv
<1> QED
  BY TenancyInvariance, <1>1, PTL

(* UsersService's protection of the owner, by reads that are out of date   *)
(* when the whole row is saved.                                            *)
LEMMA OwnerStandsInv == Inv => OwnerStands
<1> SUFFICES ASSUME Inv, NEW r \in Registrations \ purged, Exists(r)
             PROVE  /\ user[r] # NoUser /\ user[r].org = r
                    /\ user[r].role = "OWNER" /\ user[r].status = "ACTIVE"
                    /\ \A u \in Users \ {r} : user[u].org = r => user[u].role # "OWNER"
  BY DEF OwnerStands
<1>1. user[r] # NoUser
  BY DEF Inv, AllOrNothing
<1>2. user[r].org = r /\ user[r].role = "OWNER" /\ user[r].status = "ACTIVE"
  BY <1>1 DEF Inv, UserInv, Shaped, Users
<1>3. ASSUME NEW u \in Users \ {r}, user[u].org = r PROVE user[u].role # "OWNER"
  <2>1. user[u] # NoUser
    BY <1>3, RowFacts, TenancyNames
  <2>2. Shaped(u, user[u])
    BY <2>1 DEF Inv, UserInv
  <2> QED
    BY <1>3, <2>2 DEF Shaped
<1> QED
  BY <1>1, <1>2, <1>3

THEOREM OwnerIsSafe == Spec => []OwnerStands
  BY TenancyInvariance, OwnerStandsInv, PTL

(* Nobody who can still write knows of an organization that is gone.       *)
LEMMA GoneStep ==
  ASSUME Inv, NEW o \in Registrations, Gone(o), [Next]_vars
  PROVE  Gone(o)'
<1> USE TenancyNames DEF Goto, Begin, Finish, tables, Processes, Exists
<1>0. TypeOK /\ o \in Registrations /\ o \notin Operators
  BY DEF Inv
<1> USE <1>0
<1>1. ASSUME NEW r \in Registrations, CheckAvailable(r) PROVE Gone(o)'
  <2>1. /\ r # o \/ (pc[o] \notin {"idle", "insert", "welcome", "grant"} /\ r = o)
        /\ o \in Processes /\ o \notin Operators
    BY DEF Gone, Inv, RegistrationInv, Processes
  <2>2. r # o
    BY <1>1, <2>1 DEF CheckAvailable
  <2> QED
    BY <1>1, <2>1, <2>2 DEF CheckAvailable, Gone, TypeOK
<1>2. ASSUME NEW r \in Registrations, InsertTenant(r) PROVE Gone(o)'
  <2>1. /\ r # o \/ (pc[o] \notin {"idle", "insert", "welcome", "grant"} /\ r = o)
        /\ o \in Processes /\ o \notin Operators
    BY DEF Gone, Inv, RegistrationInv, Processes
  <2>2. r # o
    BY <1>2, <2>1 DEF InsertTenant
  <2>3. /\ org'[o] = org[o] /\ kit'[o] = kit[o] /\ pc'[o] = pc[o]
    BY <1>2, <2>1, <2>2 DEF InsertTenant, TypeOK
  <2>4. \A u \in Users : user'[u].org # o
    BY <1>2, <2>2 DEF InsertTenant, TypeOK, Gone, Owner
  <2> QED
    BY <1>2, <2>3, <2>4 DEF InsertTenant, Gone
<1>3. ASSUME NEW r \in Registrations, Welcome(r) PROVE Gone(o)'
  <2>1. /\ r # o \/ (pc[o] \notin {"idle", "insert", "welcome", "grant"} /\ r = o)
        /\ o \in Processes /\ o \notin Operators
    BY DEF Gone, Inv, RegistrationInv, Processes
  <2>2. r # o
    BY <1>3, <2>1 DEF Welcome
  <2> QED
    BY <1>3, <2>1, <2>2 DEF Welcome, Gone, TypeOK
<1>4. ASSUME NEW r \in Registrations, GrantPlan(r) PROVE Gone(o)'
  <2>1. /\ r # o \/ (pc[o] \notin {"idle", "insert", "welcome", "grant"} /\ r = o)
        /\ o \in Processes /\ o \notin Operators
    BY DEF Gone, Inv, RegistrationInv, Processes
  <2>2. r # o
    BY <1>4, <2>1 DEF GrantPlan
  <2> QED
    BY <1>4, <2>1, <2>2 DEF GrantPlan, Gone, TypeOK
<1>5. ASSUME NEW r \in Registrations, SignIn(r) PROVE Gone(o)'
  BY <1>5 DEF SignIn, Gone
<1>6. ASSUME NEW r \in Registrations, AccessExpires(r) PROVE Gone(o)'
  BY <1>6 DEF AccessExpires, Gone
<1>7. ASSUME NEW a \in Operators, FetchOrganization(a) PROVE Gone(o)'
  <2>1. PICK p \in Registrations : Exists(p) /\ \E status \in NewOrganizationStatuses(p) :
               work' = [work EXCEPT ![a] = OrganizationWork(p, status)]
    BY <1>7 DEF FetchOrganization
  <2>2. p # o
    BY <2>1 DEF Gone
  <2>7. work'[a].org # o
    BY <2>1, <2>2 DEF OrganizationWork, TypeOK
  <2>8. /\ pc'[o] = pc[o] /\ \A b \in Operators \ {a} : work'[b] = work[b]
    BY <1>7, <1>0 DEF FetchOrganization, TypeOK
  <2> QED
    BY <1>7, <2>7, <2>8 DEF FetchOrganization, Gone
<1>8. ASSUME NEW a \in Operators, SaveOrganization(a) PROVE Gone(o)'
  <2>1. work[a].org # o /\ work[a].org \in Registrations
    BY <1>8 DEF SaveOrganization, Inv, WorkInv, WorkOf, Gone
  <2>7. work'[a].org # o
    BY <1>8, RowFacts DEF SaveOrganization, NoWork, OrganizationWork, TypeOK
  <2>2. org'[o] = org[o]
    BY <1>8, <2>1 DEF SaveOrganization, TypeOK
  <2>8. /\ pc'[o] = pc[o] /\ \A b \in Operators \ {a} : work'[b] = work[b]
    BY <1>8, <1>0 DEF SaveOrganization, TypeOK
  <2> QED
    BY <1>8, <2>2, <2>7, <2>8 DEF SaveOrganization, Gone
<1>9. ASSUME NEW a \in Operators, FetchDisabled(a) PROVE Gone(o)'
  <2>1. PICK p \in Registrations : org[p] = "DISABLED" /\ work' = [work EXCEPT ![a] = OrganizationWork(p, Absent)]
    BY <1>9 DEF FetchDisabled
  <2>2. p # o
    BY <2>1 DEF Gone, Absent
  <2>7. work'[a].org # o
    BY <2>1, <2>2 DEF OrganizationWork, TypeOK
  <2>8. /\ pc'[o] = pc[o] /\ \A b \in Operators \ {a} : work'[b] = work[b]
    BY <1>9, <1>0 DEF FetchDisabled, TypeOK
  <2> QED
    BY <1>9, <2>7, <2>8 DEF FetchDisabled, Gone
<1>10. ASSUME NEW a \in Operators, Purge(a) PROVE Gone(o)'
  <2>7. work'[a].org # o
    BY <1>10, RowFacts DEF Purge, NoWork, OrganizationWork, TypeOK
  <2>1. org'[o] = Absent /\ kit'[o] = {}
    BY <1>10 DEF Purge, TypeOK, Gone
  <2>2. \A u \in Users : user'[u].org # o
    BY <1>10, RowFacts DEF Purge, TypeOK, Gone
  <2>8. /\ pc'[o] = pc[o] /\ \A b \in Operators \ {a} : work'[b] = work[b]
    BY <1>10, <1>0 DEF Purge, TypeOK
  <2> QED
    BY <1>10, <2>1, <2>2, <2>7, <2>8 DEF Purge, Gone
<1>11. ASSUME NEW a \in Operators, FetchOwner(a) PROVE Gone(o)'
  <2>1. PICK p \in Registrations, email \in Emails :
               \E u \in ActiveOwners(p) : work' = [work EXCEPT ![a] = UserWork(u, [user[u] EXCEPT !.email = email])]
    BY <1>11 DEF FetchOwner
  <2>2. PICK u \in ActiveOwners(p) : work' = [work EXCEPT ![a] = UserWork(u, [user[u] EXCEPT !.email = email])]
    BY <2>1
  <2>3. u \in Users /\ user[u] \in UserRows /\ user[u].org # o
    BY RowFacts DEF ActiveOwners, TypeOK, Gone, Absent
  <2>4. [user[u] EXCEPT !.email = email].org # o
    BY <2>3, EmailUpdate
  <2>7. work'[a].org # o
    BY <2>2, <2>4 DEF UserWork, TypeOK
  <2>8. /\ pc'[o] = pc[o] /\ \A b \in Operators \ {a} : work'[b] = work[b]
    BY <1>11, <1>0 DEF FetchOwner, TypeOK
  <2> QED
    BY <1>11, <2>7, <2>8 DEF FetchOwner, Gone
<1>12. ASSUME NEW a \in Operators, CheckStaffEmail(a) PROVE Gone(o)'
  <2>1. PICK p \in Registrations, email \in Emails : Reachable(p) /\ \E row \in NewUsers(p, email) :
               work' = [work EXCEPT ![a] = UserWork(a, row)]
    BY <1>12 DEF CheckStaffEmail
  <2>2. PICK row \in NewUsers(p, email) : work' = [work EXCEPT ![a] = UserWork(a, row)]
    BY <2>1
  <2>3. p # o
    BY <2>1 DEF Gone, Reachable
  <2>4. row.org # o
    BY <2>3, NewRows
  <2>7. work'[a].org # o
    BY <2>2, <2>4 DEF UserWork, TypeOK
  <2>8. /\ pc'[o] = pc[o] /\ \A b \in Operators \ {a} : work'[b] = work[b]
    BY <1>12, <1>0 DEF CheckStaffEmail, TypeOK
  <2> QED
    BY <1>12, <2>7, <2>8 DEF CheckStaffEmail, Gone
<1>13. ASSUME NEW a \in Operators, FetchUser(a) PROVE Gone(o)'
  <2>1. PICK u \in Users : user[u] # NoUser /\ \E row \in Updated(u) : work' = [work EXCEPT ![a] = UserWork(u, row)]
    BY <1>13 DEF FetchUser
  <2>2. PICK row \in Updated(u) : work' = [work EXCEPT ![a] = UserWork(u, row)]
    BY <2>1
  <2>3. row.org # o
    BY <2>1, <2>2, UpdatedRows DEF Gone
  <2>7. work'[a].org # o
    BY <2>2, <2>3 DEF UserWork, TypeOK
  <2>8. /\ pc'[o] = pc[o] /\ \A b \in Operators \ {a} : work'[b] = work[b]
    BY <1>13, <1>0 DEF FetchUser, TypeOK
  <2> QED
    BY <1>13, <2>7, <2>8 DEF FetchUser, Gone
<1>14. ASSUME NEW a \in Operators, FetchLogin(a) PROVE Gone(o)'
  <2>1. PICK u \in Users : work' = [work EXCEPT ![a] = UserWork(u, user[u])]
    BY <1>14 DEF FetchLogin
  <2>7. work'[a].org # o
    BY <2>1 DEF UserWork, TypeOK, Gone
  <2>8. /\ pc'[o] = pc[o] /\ \A b \in Operators \ {a} : work'[b] = work[b]
    BY <1>14, <1>0 DEF FetchLogin, TypeOK
  <2> QED
    BY <1>14, <2>7, <2>8 DEF FetchLogin, Gone
<1>15. ASSUME NEW a \in Operators, SaveUser(a) PROVE Gone(o)'
  <2>7. work'[a].org # o
    BY <1>15, RowFacts DEF SaveUser, NoWork, OrganizationWork, TypeOK
  <2>1. ASSUME UNCHANGED user PROVE \A u \in Users : user'[u].org # o
    BY <2>1 DEF Gone
  <2>2. ASSUME Upsert(work[a].user, work[a].row) PROVE \A u \in Users : user'[u].org # o
    <3>1. /\ work[a].user \in Users /\ work[a].row \in UserRows
          /\ work[a].row.org = work[a].org /\ work[a].org # o
      BY <1>15 DEF SaveUser, TypeOK, WorkTypes, Inv, WorkInv, WorkOf, Gone
    <3> QED
      BY <2>2, <3>1, UpsertWrites DEF Gone
  <2>3. \A u \in Users : user'[u].org # o
    BY <1>15, <2>1, <2>2 DEF SaveUser, Gone
  <2>8. /\ pc'[o] = pc[o] /\ \A b \in Operators \ {a} : work'[b] = work[b]
    BY <1>15, <1>0 DEF SaveUser, TypeOK
  <2> QED
    BY <1>15, <2>3, <2>7, <2>8 DEF SaveUser, Gone
<1>16. CASE UNCHANGED vars
  BY <1>16 DEF vars, tables, Gone
<1> QED
  BY <1>1, <1>2, <1>3, <1>4, <1>5, <1>6, <1>7, <1>8, <1>9, <1>10, <1>11, <1>12, <1>13, <1>14, <1>15, <1>16
  DEF Next, RegistrationStep, StaffSession, OrganizationStep, UserStep

(* "A deletion is irreversible": an organization that is deleted, and of   *)
(* which no request is on its way, never has a row again.                  *)
THEOREM DeletionIsFinal == Spec => PurgeIsFinal
<1>1. Inv /\ [Next]_vars => [\A o \in Registrations : Gone(o) => Gone(o)']_vars
  BY GoneStep
<1> QED
  BY TenancyInvariance, <1>1, PTL DEF Spec, PurgeIsFinal
-----------------------------------------------------------------------------
(* Deployment: the catalogues, the rows and where the commands are         *)

(* What a sequence holds.                                                  *)
LEMMA ElementOfSeq ==
  ASSUME NEW S, NEW s \in Seq(S)
  PROVE  DOMAIN s = 1 .. Len(s) /\ Len(s) \in Nat /\ \A k \in DOMAIN s : s[k] \in S
  OBVIOUS

(* The catalogues, with their indices.                                     *)
LEMMA CatalogFacts ==
  /\ DOMAIN PLAN_CATALOG = 1 .. Len(PLAN_CATALOG) /\ Len(PLAN_CATALOG) \in Nat
  /\ DOMAIN CATALOG = 1 .. Len(CATALOG) /\ Len(CATALOG) \in Nat
  /\ DOMAIN STAFF = 1 .. Len(STAFF) /\ Len(STAFF) \in Nat
  /\ \A k \in DOMAIN PLAN_CATALOG :
       PLAN_CATALOG[k].name \in STRING /\ PLAN_CATALOG[k].price \in Nat
  /\ \A k \in DOMAIN CATALOG :
       /\ CATALOG[k].service \in STRING
       /\ DOMAIN CATALOG[k].options = 1 .. Len(CATALOG[k].options) /\ Len(CATALOG[k].options) \in Nat
       /\ \A m \in DOMAIN CATALOG[k].options : CATALOG[k].options[m] \in STRING
  /\ \A k \in DOMAIN STAFF :
       /\ STAFF[k].name \in STRING
       /\ DOMAIN STAFF[k].services = 1 .. Len(STAFF[k].services) /\ Len(STAFF[k].services) \in Nat
<1>0. /\ PLAN_CATALOG \in Seq([name : STRING, price : Nat, legacyNames : SUBSET STRING])
      /\ CATALOG \in Seq([service : STRING, options : Seq(STRING)])
      /\ STAFF \in Seq([name : STRING, services : Seq(STRING)])
  BY CatalogAssumption
<1>1. ASSUME NEW k \in DOMAIN PLAN_CATALOG
      PROVE  PLAN_CATALOG[k] \in [name : STRING, price : Nat, legacyNames : SUBSET STRING]
  BY <1>0, ElementOfSeq
<1>2. ASSUME NEW k \in DOMAIN CATALOG
      PROVE  CATALOG[k] \in [service : STRING, options : Seq(STRING)]
  BY <1>0, ElementOfSeq
<1>3. ASSUME NEW k \in DOMAIN STAFF
      PROVE  STAFF[k] \in [name : STRING, services : Seq(STRING)]
  BY <1>0, ElementOfSeq
<1>4. /\ DOMAIN PLAN_CATALOG = 1 .. Len(PLAN_CATALOG) /\ Len(PLAN_CATALOG) \in Nat
      /\ DOMAIN CATALOG = 1 .. Len(CATALOG) /\ Len(CATALOG) \in Nat
      /\ DOMAIN STAFF = 1 .. Len(STAFF) /\ Len(STAFF) \in Nat
  BY <1>0, ElementOfSeq
<1> QED
  BY <1>1, <1>2, <1>3, <1>4, ElementOfSeq

(* The id of a new row.                                                    *)
LEMMA FreshFacts ==
  ASSUME NEW f, Ids \ DOMAIN f # {}
  PROVE  Fresh(f) \in Ids /\ Fresh(f) \notin DOMAIN f
  BY DEF Fresh

(* The function of nothing.                                                *)
LEMMA NoneFacts == DOMAIN None = {} /\ \A T : None \in [DOMAIN None -> T]
  BY DEF None

(* An insertion adds one row and leaves the others.                        *)
LEMMA InsertAdds ==
  ASSUME RowsTypes, NEW kind \in Kinds, NEW name \in STRING, NEW of \in Ids \union {0},
         Insert(kind, name, of)
  PROVE  /\ Fresh(rows) \in Ids /\ Fresh(rows) \notin DOMAIN rows
         /\ DOMAIN rows' = DOMAIN rows \union {Fresh(rows)}
         /\ rows'[Fresh(rows)].kind = kind /\ rows'[Fresh(rows)].name = name /\ rows'[Fresh(rows)].of = of
         /\ \A i \in DOMAIN rows : rows'[i] = rows[i]
         /\ rows' \in [DOMAIN rows' -> RowTypes]
<1>1. Fresh(rows) \in Ids /\ Fresh(rows) \notin DOMAIN rows
  BY FreshFacts DEF Insert
<1>2. [kind |-> kind, name |-> name, of |-> of, active |-> TRUE] \in RowTypes
  BY DEF RowTypes
<1>3. rows \in [DOMAIN rows -> RowTypes]
  BY DEF RowsTypes
<1> DEFINE row == [kind |-> kind, name |-> name, of |-> of, active |-> TRUE]
<1>4. rows' = [i \in DOMAIN rows \union {Fresh(rows)} |-> IF i = Fresh(rows) THEN row ELSE rows[i]]
  BY DEF Insert, Put
<1>5. row \in RowTypes
  BY <1>2
<1> HIDE DEF row
<1>6. /\ DOMAIN rows' = DOMAIN rows \union {Fresh(rows)}
      /\ rows'[Fresh(rows)] = row
      /\ \A i \in DOMAIN rows : rows'[i] = rows[i]
  BY <1>1, <1>4
<1>7. rows' \in [DOMAIN rows' -> RowTypes]
  BY <1>3, <1>4, <1>5
<1> QED
  BY <1>1, <1>6, <1>7 DEF row

(* An edit leaves of every row its kind, and of an option its name.        *)
LEMMA EditKeeps ==
  ASSUME RowsTypes, Edit
  PROVE  /\ DOMAIN rows' = DOMAIN rows
         /\ rows' \in [DOMAIN rows' -> RowTypes]
         /\ \A i \in DOMAIN rows :
              /\ rows'[i].kind = rows[i].kind /\ rows'[i].of = rows[i].of
              /\ \/ rows'[i].name = rows[i].name
                 \/ rows[i].kind # "option" /\ rows'[i].name = OtherName
<1>1. rows \in [DOMAIN rows -> RowTypes] /\ OtherName \in STRING
  BY DeploymentAssumption DEF RowsTypes
<1>2. PICK i \in DOMAIN rows :
        \/ rows' = [rows EXCEPT ![i].active = FALSE]
        \/ rows[i].kind # "option" /\ rows' = [rows EXCEPT ![i].name = OtherName]
  BY DEF Edit
<1>3. CASE rows' = [rows EXCEPT ![i].active = FALSE]
  BY <1>1, <1>3 DEF RowTypes
<1>4. CASE rows[i].kind # "option" /\ rows' = [rows EXCEPT ![i].name = OtherName]
  BY <1>1, <1>4 DEF RowTypes
<1> QED
  BY <1>2, <1>3, <1>4

(* Where a command c may come to, and that its loops come to no other      *)
(* place.                                                                  *)
Reaches(p, c) ==
  /\ p \in [do : Labels, k : Nat, m : Nat]
  /\ p.do = "end" => p = End
  /\ p.do \in PlanLabels => c \in {"seed", "fixPlans"} /\ p.k \in DOMAIN PLAN_CATALOG
  /\ p.do = "register" => c = "seed"
  /\ p.do \notin PlanLabels \union {"register", "end"} => c = "seedDemo"
  /\ p.do \in ServiceLabels => p.k \in DOMAIN CATALOG
  /\ p.do = "option" => p.m \in DOMAIN CATALOG[p.k].options
  /\ p.do \in ResourceLabels => p.k \in DOMAIN STAFF
  /\ p.do = "assign" => p.m \in DOMAIN STAFF[p.k].services

(* What each loop gives is a place that the command may come to.           *)
LEMMA ReachesEnd == \A c : Reaches(End, c)
  BY DEF Reaches, End, Position, Labels, PlanLabels, ServiceLabels, ResourceLabels

LEMMA PlansReach ==
  ASSUME NEW k \in Nat \ {0}, NEW c \in {"seed", "fixPlans"}
  PROVE  Reaches(PlansFrom(k, c), c)
  BY CatalogFacts
  DEF PlansFrom, End, Position, Reaches, Labels, PlanLabels, ServiceLabels, ResourceLabels

LEMMA ServicesReach ==
  ASSUME NEW k \in Nat \ {0}
  PROVE  Reaches(ServicesFrom(k), "seedDemo")
  BY CatalogFacts
  DEF ServicesFrom, End, Position, Reaches, Labels, PlanLabels, ServiceLabels, ResourceLabels

LEMMA OptionsReach ==
  ASSUME NEW k \in DOMAIN CATALOG, NEW m \in Nat \ {0}
  PROVE  Reaches(OptionsFrom(k, m), "seedDemo")
<1>1. CASE m <= Len(CATALOG[k].options)
  BY <1>1, CatalogFacts
  DEF OptionsFrom, End, Position, Reaches, Labels, PlanLabels, ServiceLabels, ResourceLabels
<1>2. CASE ~(m <= Len(CATALOG[k].options))
  BY <1>2, ServicesReach, CatalogFacts DEF OptionsFrom
<1> QED
  BY <1>1, <1>2

LEMMA ResourcesReach ==
  ASSUME NEW k \in Nat \ {0}
  PROVE  Reaches(ResourcesFrom(k), "seedDemo")
  BY CatalogFacts
  DEF ResourcesFrom, End, Position, Reaches, Labels, PlanLabels, ServiceLabels, ResourceLabels

LEMMA AssignmentsReach ==
  ASSUME NEW k \in DOMAIN STAFF, NEW m \in Nat \ {0}
  PROVE  Reaches(AssignmentsFrom(k, m), "seedDemo")
<1>1. CASE m <= Len(STAFF[k].services)
  BY <1>1, CatalogFacts
  DEF AssignmentsFrom, End, Position, Reaches, Labels, PlanLabels, ServiceLabels, ResourceLabels
<1>2. CASE ~(m <= Len(STAFF[k].services))
  BY <1>2, ResourcesReach, CatalogFacts DEF AssignmentsFrom
<1> QED
  BY <1>1, <1>2

LEMMA FirstReach ==
  /\ Reaches(ServicesFrom(1), "seedDemo") /\ Reaches(ResourcesFrom(1), "seedDemo")
  /\ \A k \in DOMAIN CATALOG : Reaches(OptionsFrom(k, 1), "seedDemo")
  /\ \A k \in DOMAIN STAFF : Reaches(AssignmentsFrom(k, 1), "seedDemo")
<1>1. 1 \in Nat \ {0}
  OBVIOUS
<1> QED
  BY <1>1, ServicesReach, ResourcesReach, OptionsReach, AssignmentsReach

(* What the position says of the command, for each of its statements.      *)
LEMMA AtFacts ==
  ASSUME PositionInv
  PROVE  /\ at.k \in Nat /\ at.m \in Nat
         /\ at.k + 1 \in Nat \ {0} /\ at.m + 1 \in Nat \ {0}
         /\ At("findPlan") \/ At("savePlan") =>
              command \in {"seed", "fixPlans"} /\ at.k \in DOMAIN PLAN_CATALOG
         /\ At("register") => command = "seed"
         /\ At("findOrganization") \/ At("listServices") \/ At("listResources") =>
              command = "seedDemo"
         /\ At("service") \/ At("listOptions") \/ At("option") =>
              command = "seedDemo" /\ at.k \in DOMAIN CATALOG
         /\ At("option") => at.m \in DOMAIN CATALOG[at.k].options
         /\ At("resource") \/ At("schedule") \/ At("assign") =>
              command = "seedDemo" /\ at.k \in DOMAIN STAFF
         /\ At("assign") => at.m \in DOMAIN STAFF[at.k].services
<1>1. at.k \in Nat /\ at.m \in Nat
  BY DEF PositionInv
<1>2. at.k + 1 \in Nat \ {0} /\ at.m + 1 \in Nat \ {0}
  BY <1>1
<1> QED
  BY <1>1, <1>2 DEF PositionInv, At, PlanLabels, ServiceLabels, ResourceLabels

(* Every statement of a command goes on to another, or to its end.         *)
LEMMA PositionsHold ==
  ASSUME ServerTypes, PositionInv,
         [DeploymentNext]_deploymentVars
  PROVE  PositionInv'
<1>a. ASSUME NEW p, Continue(p), Reaches(p, command) PROVE PositionInv'
  BY <1>a DEF Continue, Running, PositionInv, Reaches
<1>b. ASSUME NEW d \in Labels \ {"end"}, NEW k \in Nat, Continue(Position(d, k, 0)),
             \/ d = "savePlan" /\ command \in {"seed", "fixPlans"} /\ k \in DOMAIN PLAN_CATALOG
             \/ d = "listServices" /\ command = "seedDemo"
             \/ d = "listOptions" /\ command = "seedDemo" /\ k \in DOMAIN CATALOG
             \/ d = "schedule" /\ command = "seedDemo" /\ k \in DOMAIN STAFF
      PROVE  PositionInv'
  <2>1. Reaches(Position(d, k, 0), command)
    BY <1>b DEF Reaches, Position, End, Labels, PlanLabels, ServiceLabels, ResourceLabels
  <2> QED
    BY <1>a, <1>b, <2>1
<1>c. ASSUME Fail PROVE PositionInv'
  BY <1>c DEF Fail, PositionInv, Running, Position, End, Labels, PlanLabels, ServiceLabels, ResourceLabels
<1>1. ASSUME UNCHANGED <<at, ends, command>> PROVE PositionInv'
  BY <1>1 DEF PositionInv, Running
<1>2. ASSUME NEW c \in Commands[env], Run(c) PROVE PositionInv'
  <2>1. at' = StartOf(c) /\ command' = c /\ (ends' = IF StartOf(c) = End THEN "done" ELSE "running")
    BY <1>2 DEF Run
  <2>2. c \in {"seed", "fixPlans", "seedDemo"}
    BY DeploymentAssumption DEF ServerTypes
  <2>3. Reaches(StartOf(c), c)
    <3>1. CASE c = "seedDemo"
      BY <3>1 DEF StartOf, Reaches, Position, Labels, PlanLabels, ServiceLabels, ResourceLabels
    <3>2. CASE c # "seedDemo"
      BY <2>2, <3>2, PlansReach DEF StartOf
    <3> QED
      BY <3>1, <3>2
  <2> QED
    BY <2>1, <2>3 DEF Running, PositionInv, Reaches
<1>3. CASE FindPlan
  <2>1. At("findPlan") /\ Continue(Position("savePlan", at.k, 0))
    BY <1>3 DEF FindPlan
  <2>2. command \in {"seed", "fixPlans"} /\ at.k \in Nat /\ at.k \in DOMAIN PLAN_CATALOG
    BY <2>1, AtFacts
  <2> QED
    BY <1>b, <2>1, <2>2 DEF Labels, PlanLabels
<1>4. CASE SavePlan
  <2>1. At("savePlan") /\ Continue(PlansFrom(at.k + 1, command))
    BY <1>4 DEF SavePlan
  <2>2. command \in {"seed", "fixPlans"} /\ at.k + 1 \in Nat \ {0}
    BY <2>1, AtFacts
  <2> QED
    BY <1>a, <2>1, <2>2, PlansReach
<1>5. CASE Register
  BY <1>5, <1>a, ReachesEnd DEF Register
<1>6. CASE FindOrganization
  <2>1. At("findOrganization") /\ (Continue(Position("listServices", 0, 0)) \/ Fail)
    BY <1>6 DEF FindOrganization
  <2>2. command = "seedDemo"
    BY <2>1, AtFacts
  <2> QED
    BY <1>b, <1>c, <2>1, <2>2 DEF Labels
<1>7. CASE ListServices
  <2>1. At("listServices") /\ Continue(ServicesFrom(1))
    BY <1>7 DEF ListServices
  <2>2. command = "seedDemo"
    BY <2>1, AtFacts
  <2> QED
    BY <1>a, <2>1, <2>2, FirstReach
<1>8. CASE CreateService
  <2>1. At("service") /\ Continue(Position("listOptions", at.k, 0))
    BY <1>8 DEF CreateService
  <2>2. command = "seedDemo" /\ at.k \in Nat /\ at.k \in DOMAIN CATALOG
    BY <2>1, AtFacts
  <2> QED
    BY <1>b, <2>1, <2>2 DEF Labels, ServiceLabels
<1>9. CASE ListOptions
  <2>1. At("listOptions") /\ (Continue(OptionsFrom(at.k, 1)) \/ Fail)
    BY <1>9 DEF ListOptions
  <2>2. command = "seedDemo" /\ at.k \in DOMAIN CATALOG
    BY <2>1, AtFacts
  <2> QED
    BY <1>a, <1>c, <2>1, <2>2, FirstReach
<1>10. CASE CreateOption
  <2>1. At("option") /\ Continue(OptionsFrom(at.k, at.m + 1))
    BY <1>10 DEF CreateOption
  <2>2. command = "seedDemo" /\ at.k \in DOMAIN CATALOG /\ at.m + 1 \in Nat \ {0}
    BY <2>1, AtFacts
  <2> QED
    BY <1>a, <2>1, <2>2, OptionsReach
<1>11. CASE ListResources
  <2>1. At("listResources") /\ Continue(ResourcesFrom(1))
    BY <1>11 DEF ListResources
  <2>2. command = "seedDemo"
    BY <2>1, AtFacts
  <2> QED
    BY <1>a, <2>1, <2>2, FirstReach
<1>12. CASE CreateResource
  <2>1. At("resource") /\ Continue(Position("schedule", at.k, 0))
    BY <1>12 DEF CreateResource
  <2>2. command = "seedDemo" /\ at.k \in Nat /\ at.k \in DOMAIN STAFF
    BY <2>1, AtFacts
  <2> QED
    BY <1>b, <2>1, <2>2 DEF Labels, ResourceLabels
<1>13. CASE ReplaceSchedule
  <2>1. At("schedule") /\ Continue(AssignmentsFrom(at.k, 1))
    BY <1>13 DEF ReplaceSchedule
  <2>2. command = "seedDemo" /\ at.k \in DOMAIN STAFF
    BY <2>1, AtFacts
  <2> QED
    BY <1>a, <2>1, <2>2, FirstReach
<1>14. CASE AssignService
  <2>1. At("assign") /\ Continue(AssignmentsFrom(at.k, at.m + 1))
    BY <1>14 DEF AssignService
  <2>2. command = "seedDemo" /\ at.k \in DOMAIN STAFF /\ at.m + 1 \in Nat \ {0}
    BY <2>1, AtFacts
  <2> QED
    BY <1>a, <2>1, <2>2, AssignmentsReach
<1>15. CASE Die
  BY <1>15, <1>c DEF Die
<1> QED
  BY <1>1, <1>2, <1>3, <1>4, <1>5, <1>6, <1>7, <1>8, <1>9, <1>10, <1>11, <1>12, <1>13, <1>14, <1>15
  DEF DeploymentNext, deploymentVars, progress, Deploy, Accept, Start, Stop, Edit, SetSchedule, Migrate,
      PlanStep, DemoStep

(* The same by cases: where each loop goes on, and when it is over.        *)
LEMMA PlansGo ==
  ASSUME NEW k \in Nat, NEW c, NEW p, p = PlansFrom(k, c)
  PROVE  \/ p.do = "findPlan" /\ p.k = k /\ k <= Len(PLAN_CATALOG)
         \/ p.do = "register" /\ ~(k <= Len(PLAN_CATALOG)) /\ c = "seed"
         \/ p.do = "end" /\ p = End /\ ~(k <= Len(PLAN_CATALOG))
  BY DEF PlansFrom, Position, End

LEMMA ServicesGo ==
  ASSUME NEW k \in Nat, NEW p, p = ServicesFrom(k)
  PROVE  \/ p.do = "service" /\ p.k = k /\ k <= Len(CATALOG)
         \/ p.do = "listResources" /\ ~(k <= Len(CATALOG))
  BY DEF ServicesFrom, Position

LEMMA OptionsGo ==
  ASSUME NEW k \in Nat, NEW m \in Nat, NEW p, p = OptionsFrom(k, m)
  PROVE  \/ p.do = "option" /\ p.k = k /\ p.m = m /\ m <= Len(CATALOG[k].options)
         \/ ~(m <= Len(CATALOG[k].options)) /\ p.do = "service" /\ p.k = k + 1 /\ k + 1 <= Len(CATALOG)
         \/ ~(m <= Len(CATALOG[k].options)) /\ p.do = "listResources" /\ ~(k + 1 <= Len(CATALOG))
<1>1. CASE m <= Len(CATALOG[k].options)
  BY <1>1 DEF OptionsFrom, Position
<1>2. CASE ~(m <= Len(CATALOG[k].options))
  <2>1. p = ServicesFrom(k + 1)
    BY <1>2 DEF OptionsFrom
  <2> QED
    BY <1>2, <2>1, ServicesGo
<1> QED
  BY <1>1, <1>2

LEMMA ResourcesGo ==
  ASSUME NEW k \in Nat, NEW p, p = ResourcesFrom(k)
  PROVE  \/ p.do = "resource" /\ p.k = k /\ k <= Len(STAFF) /\ p # End
         \/ p.do = "end" /\ p = End /\ ~(k <= Len(STAFF))
  BY DEF ResourcesFrom, Position, End

LEMMA AssignmentsGo ==
  ASSUME NEW k \in Nat, NEW m \in Nat, NEW p, p = AssignmentsFrom(k, m)
  PROVE  \/ p.do = "assign" /\ p.k = k /\ p.m = m /\ m <= Len(STAFF[k].services) /\ p # End
         \/ ~(m <= Len(STAFF[k].services)) /\ p.do = "resource" /\ p.k = k + 1 /\ k + 1 <= Len(STAFF) /\ p # End
         \/ ~(m <= Len(STAFF[k].services)) /\ p.do = "end" /\ p = End /\ ~(k + 1 <= Len(STAFF))
<1>1. CASE m <= Len(STAFF[k].services)
  BY <1>1 DEF AssignmentsFrom, Position, End
<1>2. CASE ~(m <= Len(STAFF[k].services))
  BY <1>2, ResourcesGo DEF AssignmentsFrom
<1> QED
  BY <1>1, <1>2

(* A command starts before its first loop, or at its first entry.          *)
LEMMA FirstGo ==
  ASSUME NEW c, NEW p, p = StartOf(c)
  PROVE  /\ p.do \in {"findOrganization", "findPlan", "register", "end"}
         /\ p.do = "findPlan" => p.k = 1
         /\ p.do \in {"register", "end"} => ~(1 <= Len(PLAN_CATALOG))
<1>1. CASE c = "seedDemo"
  BY <1>1 DEF StartOf, Position
<1>2. CASE c # "seedDemo" /\ 1 <= Len(PLAN_CATALOG)
  BY <1>2 DEF StartOf, PlansFrom, Position
<1>3. CASE c # "seedDemo" /\ ~(1 <= Len(PLAN_CATALOG)) /\ c = "seed"
  BY <1>3 DEF StartOf, PlansFrom, Position
<1>4. CASE c # "seedDemo" /\ ~(1 <= Len(PLAN_CATALOG)) /\ c # "seed"
  BY <1>4 DEF StartOf, PlansFrom, Position, End
<1> QED
  BY <1>1, <1>2, <1>3, <1>4
-----------------------------------------------------------------------------
(* The types and the ids that the demo has read                            *)

(* What the demo has come past has an id, when this is used.               *)
LEMMA IdsHold ==
  ASSUME PositionInv, IdsInv, [DeploymentNext]_deploymentVars
  PROVE  IdsInv'
<1>1. ASSUME UNCHANGED <<at, serviceIdByName, resourceIdByName>> PROVE IdsInv'
  BY <1>1 DEF IdsInv
<1>2. ASSUME at'.do \notin ServiceLabels \union AfterServices PROVE IdsInv'
  BY <1>2 DEF IdsInv, AfterServices, ResourceLabels
<1>3. ASSUME NEW c \in Commands[env], Run(c) PROVE IdsInv'
  BY <1>2, <1>3, FirstGo DEF Run, ServiceLabels, AfterServices, ResourceLabels
<1>4. CASE PlanStep
  <2>1. at' = Position("savePlan", at.k, 0) \/ at' = PlansFrom(at.k + 1, command) \/ at' = End
    BY <1>4 DEF PlanStep, FindPlan, SavePlan, Register, Continue
  <2>2. at'.do \in {"savePlan", "findPlan", "register", "end"}
    BY <2>1, AtFacts, PlansGo DEF Position, End
  <2> QED
    BY <1>2, <2>2 DEF ServiceLabels, AfterServices, ResourceLabels
<1>5. CASE FindOrganization
  <2>1. at' = Position("listServices", 0, 0) \/ at' = End
    BY <1>5 DEF FindOrganization, Continue, Fail
  <2>2. at'.do \in {"listServices", "end"}
    BY <2>1 DEF Position, End
  <2> QED
    BY <1>2, <2>2 DEF ServiceLabels, AfterServices, ResourceLabels
<1>6. CASE Die
  BY <1>2, <1>6 DEF Die, Fail, End, Position, ServiceLabels, AfterServices, ResourceLabels
<1>7. CASE ListServices
  <2>1. at' = ServicesFrom(1)
    BY <1>7 DEF ListServices, Continue
  <2>2. /\ at'.do \in {"service", "listResources"}
        /\ at'.do = "service" => at'.k = 1
        /\ at'.do = "listResources" => ~(1 <= Len(CATALOG))
    <3>1. CASE 1 <= Len(CATALOG)
      BY <2>1, <3>1 DEF ServicesFrom, Position
    <3>2. CASE ~(1 <= Len(CATALOG))
      BY <2>1, <3>2 DEF ServicesFrom, Position
    <3> QED
      BY <3>1, <3>2
  <2>3. \A k \in DOMAIN CATALOG : ~(k < 1) /\ 1 <= Len(CATALOG)
    BY CatalogFacts
  <2> QED
    BY <2>2, <2>3 DEF IdsInv, ServiceLabels, AfterServices, ResourceLabels
<1>8. CASE CreateService
  <2>1. /\ At("service") /\ at' = Position("listOptions", at.k, 0)
        /\ DOMAIN serviceIdByName' = DOMAIN serviceIdByName \union {CATALOG[at.k].service}
    BY <1>8 DEF CreateService, Continue, Put
  <2>2. at.do = "service" /\ at'.do = "listOptions" /\ at'.k = at.k
    BY <2>1 DEF Position, At
  <2> QED
    BY <2>1, <2>2 DEF IdsInv, ServiceLabels, AfterServices, ResourceLabels
<1>9. CASE ListOptions \/ CreateOption
  <2>1. CASE Fail
    BY <1>2, <2>1 DEF Fail, End, Position, ServiceLabels, AfterServices, ResourceLabels
  <2>2. CASE ~Fail
    <3>1. /\ at.do \in {"listOptions", "option"} /\ UNCHANGED serviceIdByName
          /\ at' = OptionsFrom(at.k, 1) \/ at' = OptionsFrom(at.k, at.m + 1)
      BY <1>9, <2>2 DEF ListOptions, CreateOption, At, Continue
    <3>2. at.k \in DOMAIN CATALOG /\ at.k \in Nat /\ at.m + 1 \in Nat
      BY <3>1, AtFacts, <1>9 DEF ListOptions, CreateOption
    <3>3. /\ at'.do \in {"option", "service", "listResources"}
          /\ at'.do = "option" => at'.k = at.k
          /\ at'.do = "service" => at'.k = at.k + 1
          /\ at'.do = "listResources" => ~(at.k + 1 <= Len(CATALOG))
      BY <3>1, <3>2, OptionsGo
    <3>4. \A k \in DOMAIN CATALOG : k < at.k \/ k = at.k => CATALOG[k].service \in DOMAIN serviceIdByName
      BY <3>1 DEF IdsInv, ServiceLabels
    <3>5. \A k \in DOMAIN CATALOG :
            /\ k < at.k + 1 => k < at.k \/ k = at.k
            /\ ~(at.k + 1 <= Len(CATALOG)) => k < at.k \/ k = at.k
      BY <3>2, CatalogFacts
    <3> QED
      BY <3>1, <3>3, <3>4, <3>5 DEF IdsInv, ServiceLabels, AfterServices, ResourceLabels
  <2> QED
    BY <2>1, <2>2
<1>10. CASE ListResources
  <2>1. at.do = "listResources" /\ at' = ResourcesFrom(1) /\ UNCHANGED serviceIdByName
    BY <1>10 DEF ListResources, At, Continue
  <2>2. at'.do \in {"resource", "end"}
    BY <2>1, ResourcesGo
  <2> QED
    BY <2>1, <2>2 DEF IdsInv, ServiceLabels, AfterServices, ResourceLabels
<1>11. CASE CreateResource
  <2>1. /\ At("resource") /\ at' = Position("schedule", at.k, 0) /\ UNCHANGED serviceIdByName
        /\ STAFF[at.k].name \in DOMAIN resourceIdByName'
    BY <1>11 DEF CreateResource, Continue, Put
  <2>2. at.do = "resource" /\ at'.do = "schedule" /\ at'.k = at.k
    BY <2>1 DEF Position, At
  <2> QED
    BY <2>1, <2>2 DEF IdsInv, ServiceLabels, AfterServices, ResourceLabels
<1>12. CASE ReplaceSchedule \/ AssignService
  <2>1. /\ at.do \in {"schedule", "assign"}
        /\ \E m \in {1, at.m + 1} : at' = AssignmentsFrom(at.k, m) /\ Keep(AssignmentsFrom(at.k, m))
    BY <1>12 DEF ReplaceSchedule, AssignService, At, Continue
  <2>2. at.k \in Nat /\ at.m + 1 \in Nat
    BY AtFacts
  <2>3. /\ at'.do \in {"assign", "resource", "end"}
        /\ at'.do = "assign" => at'.k = at.k
        /\ at'.do # "end" => UNCHANGED <<serviceIdByName, resourceIdByName>>
    BY <2>1, <2>2, AssignmentsGo DEF Keep, reads
  <2> QED
    BY <2>1, <2>3 DEF IdsInv, ServiceLabels, AfterServices, ResourceLabels
<1> QED
  BY <1>1, <1>3, <1>4, <1>5, <1>6, <1>7, <1>8, <1>9, <1>10, <1>11, <1>12
  DEF DeploymentNext, deploymentVars, progress, reads, Deploy, Accept, Start, Stop, Edit, SetSchedule, Migrate,
      DemoStep

(* The commands leave the server, the environment and the terms alone.     *)
LEMMA CommandsKeep ==
  ASSUME PlanStep \/ DemoStep \/ Die \/ \E c \in Commands[env] : Run(c)
  PROVE  UNCHANGED <<env, server, edits, terms>>
  BY DEF PlanStep, FindPlan, SavePlan, Register, DemoStep, FindOrganization, ListServices, CreateService,
     ListOptions, CreateOption, ListResources, CreateResource, ReplaceSchedule, AssignService, Die, Run,
     Continue, Fail

(* The types, part by part.                                                *)
LEMMA ServerTypesHold ==
  ASSUME ServerTypes, [DeploymentNext]_deploymentVars
  PROVE  ServerTypes'
<1>1. ASSUME UNCHANGED <<env, migrated, organized, command, ends>>,
             \/ server' \in {"down", "up", "refused", "broken"} /\ UNCHANGED <<edits, meddled>>
             \/ UNCHANGED server /\ edits < MaxEdits /\ edits' = edits + 1 /\ meddled' = TRUE
      PROVE  ServerTypes'
  <2>1. edits' \in 0 .. MaxEdits
    BY <1>1, DeploymentAssumption DEF ServerTypes
  <2> QED
    BY <1>1, <2>1 DEF ServerTypes
<1>2. CASE Deploy \/ (\E click \in Clicks : Accept(click)) \/ Start \/ Stop \/ Edit \/ SetSchedule
             \/ UNCHANGED deploymentVars
  BY <1>1, <1>2 DEF ServerTypes, Deploy, Accept, Start, Stop, Edit, SetSchedule, deploymentVars, database, progress
<1>3. CASE Migrate
  BY <1>3 DEF Migrate, progress, ServerTypes
<1>4. ASSUME NEW c \in Commands[env], Run(c) PROVE ServerTypes'
  BY <1>4, DeploymentAssumption DEF Run, database, ServerTypes
<1>5. ASSUME NEW p, Continue(p), migrated' = migrated, organized' \in {organized, TRUE} PROVE ServerTypes'
  BY <1>5 DEF Continue, ServerTypes
<1>6. ASSUME Fail PROVE ServerTypes'
  BY <1>6 DEF Fail, database, ServerTypes
<1>7. CASE PlanStep \/ DemoStep \/ Die
  BY <1>5, <1>6, <1>7 DEF PlanStep, FindPlan, SavePlan, Register, DemoStep, FindOrganization, ListServices,
       CreateService, ListOptions, CreateOption, ListResources, CreateResource, ReplaceSchedule, AssignService,
       Die, database
<1> QED
  BY <1>2, <1>3, <1>4, <1>7 DEF DeploymentNext

LEMMA PlansTypesHold ==
  ASSUME PlansTypes, PositionInv, [DeploymentNext]_deploymentVars
  PROVE  PlansTypes'
<1>1. ASSUME plans' = plans, found' \in {found, {}} PROVE PlansTypes'
  BY <1>1 DEF PlansTypes
<1>2. CASE FindPlan
  BY <1>2 DEF FindPlan, findExisting, database, PlansTypes
<1>3. CASE SavePlan
  <2>1. at.k \in DOMAIN PLAN_CATALOG /\ found' = {}
    BY <1>3, AtFacts DEF SavePlan, Forget
  <2>2. Definition.name \in STRING /\ Definition.price \in Nat
    BY <2>1, CatalogFacts DEF Definition
  <2>3. CASE Plan_create(Definition)
    <3> DEFINE row == [name |-> Definition.name, price |-> Definition.price]
    <3>1. row \in [name : STRING, price : Nat]
      BY <2>2
    <3>2. /\ Fresh(plans) \in Ids
          /\ plans' = [i \in DOMAIN plans \union {Fresh(plans)} |-> IF i = Fresh(plans) THEN row ELSE plans[i]]
      BY <2>3, FreshFacts DEF Plan_create, Put
    <3> HIDE DEF row
    <3> QED
      BY <2>1, <3>1, <3>2 DEF PlansTypes
  <2>4. ASSUME NEW i \in found, Plan_update(i, Definition) PROVE PlansTypes'
    BY <2>1, <2>2, <2>4 DEF Plan_update, PlansTypes
  <2> QED
    BY <1>3, <2>3, <2>4 DEF SavePlan
<1>4. CASE Register \/ DemoStep \/ Die \/ (\E c \in Commands[env] : Run(c))
  BY <1>1, <1>4 DEF Register, DemoStep, FindOrganization, ListServices, CreateService, ListOptions,
       CreateOption, ListResources, CreateResource, ReplaceSchedule, AssignService, Keep, Die, Run, Fail, Forget,
       database, reads
<1>5. CASE Deploy \/ (\E click \in Clicks : Accept(click)) \/ Start \/ Stop \/ Edit \/ SetSchedule \/ Migrate
             \/ UNCHANGED deploymentVars
  BY <1>1, <1>5 DEF Deploy, Accept, Start, Stop, Edit, SetSchedule, Migrate, deploymentVars, database, reads
<1> QED
  BY <1>2, <1>3, <1>4, <1>5 DEF DeploymentNext, PlanStep

(* The steps that the rows may change in.                                  *)
LEMMA RowsChange ==
  ASSUME [DeploymentNext]_deploymentVars
  PROVE  rows' = rows \/ Edit \/ CreateService \/ CreateResource \/ CreateOption
<1>1. CASE PlanStep \/ Die \/ (\E c \in Commands[env] : Run(c))
  BY <1>1 DEF PlanStep, FindPlan, SavePlan, Register, Die, Run, Fail, database
<1>2. CASE FindOrganization \/ ListServices \/ ListOptions \/ ListResources \/ ReplaceSchedule \/ AssignService
  BY <1>2 DEF FindOrganization, ListServices, ListOptions, ListResources, ReplaceSchedule, AssignService,
       Fail, database
<1>3. CASE Deploy \/ (\E click \in Clicks : Accept(click)) \/ Start \/ Stop \/ SetSchedule \/ Migrate
             \/ UNCHANGED deploymentVars
  BY <1>3 DEF Deploy, Accept, Start, Stop, SetSchedule, Migrate, deploymentVars, database
<1> QED
  BY <1>1, <1>2, <1>3 DEF DeploymentNext, DemoStep

LEMMA RowsTypesHold ==
  ASSUME RowsTypes, DemoTypes, PositionInv, IdsInv, [DeploymentNext]_deploymentVars
  PROVE  RowsTypes'
<1>1. ASSUME rows' = rows PROVE RowsTypes'
  BY <1>1 DEF RowsTypes
<1>2. ASSUME NEW kind \in Kinds, NEW name \in STRING, NEW of \in Ids \union {0}, Insert(kind, name, of)
      PROVE  RowsTypes'
  BY <1>2, InsertAdds DEF RowsTypes
<1>3. CASE Edit
  BY <1>3, EditKeeps DEF RowsTypes
<1>4. CASE CreateService
  <2>1. CATALOG[at.k].service \in STRING
    BY <1>4, AtFacts, CatalogFacts DEF CreateService
  <2> QED
    BY <1>1, <1>2, <1>4, <2>1 DEF CreateService, Kinds
<1>5. CASE CreateResource
  <2>1. STAFF[at.k].name \in STRING
    BY <1>5, AtFacts, CatalogFacts DEF CreateResource
  <2> QED
    BY <1>1, <1>2, <1>5, <2>1 DEF CreateResource, Kinds
<1>6. CASE CreateOption
  <2>1. at.k \in DOMAIN CATALOG /\ at.m \in DOMAIN CATALOG[at.k].options /\ at.do = "option"
    BY <1>6, AtFacts DEF CreateOption, At
  <2>2. CATALOG[at.k].options[at.m] \in STRING
    BY <2>1, CatalogFacts
  <2>3. serviceId \in Ids
    BY <2>1 DEF IdsInv, ServiceLabels, serviceId, DemoTypes, RowsTypes, OfKind
  <2> QED
    BY <1>1, <1>2, <1>6, <2>2, <2>3 DEF CreateOption, Kinds
<1> QED
  BY <1>1, <1>3, <1>4, <1>5, <1>6, RowsChange

(* One more row, or one more name of a row, is no other kind of row.       *)
LEMMA KindsGrow ==
  ASSUME RowsTypes,
         \/ rows' = rows \/ Edit
         \/ \E kind \in Kinds, name \in STRING, of \in Ids \union {0} : Insert(kind, name, of)
  PROVE  \A kind : OfKind(kind) \subseteq OfKind(kind)'
<1>1. CASE rows' = rows
  BY <1>1 DEF OfKind
<1>2. CASE Edit
  BY <1>2, EditKeeps DEF OfKind
<1>3. ASSUME NEW kind \in Kinds, NEW name \in STRING, NEW of \in Ids \union {0}, Insert(kind, name, of)
      PROVE  \A k : OfKind(k) \subseteq OfKind(k)'
  BY <1>3, InsertAdds DEF OfKind
<1> QED
  BY <1>1, <1>2, <1>3

(* What is assigned, has a schedule or is known by its name has a row of   *)
(* its kind: rows are not deleted, and keep their kind.                    *)
LEMMA DemoTypesHold ==
  ASSUME RowsTypes, DemoTypes, PositionInv, IdsInv, [DeploymentNext]_deploymentVars
  PROVE  DemoTypes'
<1>0. ASSUME \/ rows' = rows \/ Edit
             \/ \E kind \in Kinds, name \in STRING, of \in Ids \union {0} : Insert(kind, name, of),
             UNCHANGED <<links, schedules, serviceIdByName, optionNames, resourceIdByName>>
      PROVE  DemoTypes'
  BY <1>0, KindsGrow DEF DemoTypes
<1>1. ASSUME UNCHANGED <<rows, links, schedules>>,
             Forget \/ UNCHANGED <<serviceIdByName, optionNames, resourceIdByName>>
      PROVE  DemoTypes'
  BY <1>1 DEF DemoTypes, OfKind, Forget, None, reads
<1>2. CASE SetSchedule
  BY <1>2 DEF SetSchedule, reads, DemoTypes, OfKind
<1>3. CASE ListServices
  <2>1. IdByName("service") \in [DOMAIN IdByName("service") -> OfKind("service")]
    BY DEF IdByName, Named, OfKind
  <2> QED
    BY <1>3, <2>1 DEF ListServices, database, DemoTypes, OfKind
<1>4. CASE ListResources
  <2>1. IdByName("resource") \in [DOMAIN IdByName("resource") -> OfKind("resource")]
    BY DEF IdByName, Named, OfKind
  <2> QED
    BY <1>4, <2>1 DEF ListResources, database, DemoTypes, OfKind
<1>5. CASE CreateService
  <2>1. at.k \in DOMAIN CATALOG /\ CATALOG[at.k].service \in STRING
    BY <1>5, AtFacts, CatalogFacts DEF CreateService
  <2>2. CASE Insert("service", CATALOG[at.k].service, 0)
             /\ serviceIdByName' = Put(serviceIdByName, CATALOG[at.k].service, Fresh(rows))
    <3>1. "service" \in Kinds /\ 0 \in Ids \union {0}
      BY DEF Kinds
    <3>2. \A kind : OfKind(kind) \subseteq OfKind(kind)'
      BY <2>1, <2>2, <3>1, KindsGrow
    <3>3. Fresh(rows) \in OfKind("service")'
      <4>1. Fresh(rows) \in DOMAIN rows' /\ rows'[Fresh(rows)].kind = "service"
        BY <2>1, <2>2, <3>1, InsertAdds
      <4> QED
        BY <4>1 DEF OfKind
    <3>4. serviceIdByName' \in [DOMAIN serviceIdByName' -> OfKind("service")']
      BY <2>2, <3>2, <3>3 DEF Put, DemoTypes
    <3> QED
      BY <1>5, <3>2, <3>4 DEF CreateService, DemoTypes
  <2> QED
    BY <1>0, <1>5, <2>2 DEF CreateService
<1>6. CASE CreateResource
  <2>1. at.k \in DOMAIN STAFF /\ STAFF[at.k].name \in STRING
    BY <1>6, AtFacts, CatalogFacts DEF CreateResource
  <2>2. CASE Insert("resource", STAFF[at.k].name, 0)
             /\ resourceIdByName' = Put(resourceIdByName, STAFF[at.k].name, Fresh(rows))
    <3>1. "resource" \in Kinds /\ 0 \in Ids \union {0}
      BY DEF Kinds
    <3>2. \A kind : OfKind(kind) \subseteq OfKind(kind)'
      BY <2>1, <2>2, <3>1, KindsGrow
    <3>3. Fresh(rows) \in OfKind("resource")'
      <4>1. Fresh(rows) \in DOMAIN rows' /\ rows'[Fresh(rows)].kind = "resource"
        BY <2>1, <2>2, <3>1, InsertAdds
      <4> QED
        BY <4>1 DEF OfKind
    <3>4. resourceIdByName' \in [DOMAIN resourceIdByName' -> OfKind("resource")']
      BY <2>2, <3>2, <3>3 DEF Put, DemoTypes
    <3> QED
      BY <1>6, <3>2, <3>4 DEF CreateResource, DemoTypes
  <2> QED
    BY <1>0, <1>6, <2>2 DEF CreateResource
<1>7. CASE CreateOption
  <2>1. at.k \in DOMAIN CATALOG /\ at.m \in DOMAIN CATALOG[at.k].options /\ at.do = "option"
    BY <1>7, AtFacts DEF CreateOption, At
  <2>2. "option" \in Kinds /\ CATALOG[at.k].options[at.m] \in STRING
    BY <2>1, CatalogFacts DEF Kinds
  <2>3. serviceId \in Ids
    BY <2>1 DEF IdsInv, ServiceLabels, serviceId, DemoTypes, RowsTypes, OfKind
  <2>4. \A kind : OfKind(kind) \subseteq OfKind(kind)'
    BY <1>7, <2>2, <2>3, KindsGrow DEF CreateOption
  <2> QED
    BY <1>7, <2>4 DEF CreateOption, DemoTypes
<1>8. CASE ListOptions
  <2>1. {rows[i].name : i \in DOMAIN rows} \subseteq STRING
    BY DEF RowsTypes, RowTypes
  <2>2. CASE ~Fail
    BY <1>8, <2>1, <2>2 DEF ListOptions, database, DemoTypes, OfKind
  <2>3. CASE Fail
    BY <1>1, <2>3 DEF Fail, database
  <2> QED
    BY <2>2, <2>3
<1>9. CASE ReplaceSchedule
  <2>1. at.k \in DOMAIN STAFF /\ at.do = "schedule"
    BY <1>9, AtFacts DEF ReplaceSchedule, At
  <2>2. resourceId \in OfKind("resource")
    BY <2>1 DEF IdsInv, resourceId, DemoTypes
  <2>3. schedules' \in [DOMAIN schedules' -> {"seed", "owner"}] /\ DOMAIN schedules' \subseteq OfKind("resource")
    BY <1>9, <2>2 DEF ReplaceSchedule, Put, DemoTypes
  <2>4. UNCHANGED <<rows, links>> /\ (Forget \/ UNCHANGED reads)
    BY <1>9 DEF ReplaceSchedule, Keep
  <2> QED
    BY <2>3, <2>4 DEF DemoTypes, OfKind, Forget, None, reads
<1>10. CASE AssignService
  <2>1. at.k \in DOMAIN STAFF /\ at.m \in DOMAIN STAFF[at.k].services /\ at.do = "assign"
    BY <1>10, AtFacts DEF AssignService, At
  <2>2. resourceId \in OfKind("resource")
    BY <2>1 DEF IdsInv, resourceId, DemoTypes
  <2>3. STAFF[at.k].services[at.m] \in DOMAIN serviceIdByName
    BY <2>1, CatalogAssumption DEF IdsInv, AfterServices, ResourceLabels
  <2>4. serviceIdByName[STAFF[at.k].services[at.m]] \in OfKind("service")
    BY <2>3 DEF DemoTypes
  <2>5. links' \subseteq OfKind("resource") \X OfKind("service")
    BY <1>10, <2>2, <2>4 DEF AssignService, DemoTypes
  <2>6. UNCHANGED <<rows, schedules>> /\ (Forget \/ UNCHANGED reads)
    BY <1>10 DEF AssignService, Keep
  <2> QED
    BY <2>5, <2>6 DEF DemoTypes, OfKind, Forget, None, reads
<1>11. CASE Edit
  BY <1>0, <1>11 DEF Edit, reads
<1>12. CASE PlanStep \/ FindOrganization \/ Die \/ (\E c \in Commands[env] : Run(c))
  BY <1>1, <1>12 DEF PlanStep, FindPlan, SavePlan, Register, FindOrganization, Die, Run, Fail, Forget, reads, database
<1>13. CASE Deploy \/ (\E click \in Clicks : Accept(click)) \/ Start \/ Stop \/ Migrate
             \/ UNCHANGED deploymentVars
  BY <1>1, <1>13 DEF Deploy, Accept, Start, Stop, Migrate, deploymentVars, database, reads
<1> QED
  BY <1>2, <1>3, <1>4, <1>5, <1>6, <1>7, <1>8, <1>9, <1>10, <1>11, <1>12, <1>13 DEF DeploymentNext, DemoStep

LEMMA TermsTypesHold ==
  ASSUME TermsTypes, [DeploymentNext]_deploymentVars
  PROVE  TermsTypes'
<1>1. CASE Deploy
  BY <1>1, DeploymentAssumption DEF Deploy, TermsTypes
<1>2. ASSUME NEW click \in Clicks, Accept(click) PROVE TermsTypes'
  <2>1. [version |-> build, by |-> click] \in [version : Versions[env], by : Clicks]
    BY DEF TermsTypes
  <2>2. acceptances' = acceptances \/ acceptances' = Append(acceptances, [version |-> build, by |-> click])
    BY <1>2 DEF Accept, Record
  <2> DEFINE T == [version : Versions[env], by : Clicks]
  <2>3. acceptances \in Seq(T) /\ [version |-> build, by |-> click] \in T
    BY <2>1 DEF TermsTypes
  <2> HIDE DEF T
  <2>4. acceptances' \in Seq(T)
    BY <2>2, <2>3
  <2> QED
    BY <1>2, <2>4 DEF Accept, TermsTypes, T
<1>3. ASSUME UNCHANGED terms, UNCHANGED env PROVE TermsTypes'
  BY <1>3 DEF terms, TermsTypes
<1> QED
  BY <1>1, <1>2, <1>3, CommandsKeep DEF DeploymentNext, deploymentVars, Start, Stop, Edit, SetSchedule, Migrate
-----------------------------------------------------------------------------
(* The configuration                                                       *)

(* A number of a range is one of it to the other parser too, when this     *)
(* reads it alike or not at all.                                           *)
LEMMA ReadNumbers ==
  ASSUME NEW v, NEW range, NEW fallback \in range, IsOptionalInt(v, range),
         v \in DOMAIN Number \intersect DOMAIN parseInt => parseInt[v] = Number[v]
  PROVE  toInt(v, fallback) \in range
<1>1. CASE v \in DOMAIN parseInt
  <2>1. v \in DOMAIN Number /\ Number[v] \in range
    BY <1>1, EnvironmentAssumption DEF IsOptionalInt, IsInt, Given
  <2> QED
    BY <1>1, <2>1 DEF toInt
<1>2. CASE v \notin DOMAIN parseInt
  BY <1>2 DEF toInt
<1> QED
  BY <1>1, <1>2

(* The fallbacks are of their ranges.                                      *)
LEMMA RangeFacts ==
  /\ 10 \in PoolSizes /\ 3000 \in Ports /\ 10 \in OtpMinutes
  /\ 5 \in OtpAttempts /\ 60 \in ResendMinutes /\ 465 \in SmtpPorts
  BY DEF PoolSizes, Ports, OtpMinutes, OtpAttempts, ResendMinutes, SmtpPorts

(* The configuration that the environment gives when it is valid.          *)
LEMMA ValidNumbers ==
  ASSUME validateEnv(env)
  PROVE  /\ ReadAlike("DATABASE_POOL_MAX") => databaseConfig(env).poolMax \in PoolSizes
         /\ ReadAlike("PORT") => appConfig(env).port \in Ports
         /\ ReadAlike("OTP_TTL_MINUTES") => authConfig(env).otpTtlMinutes \in OtpMinutes
         /\ ReadAlike("OTP_MAX_ATTEMPTS") => authConfig(env).otpMaxAttempts \in OtpAttempts
         /\ ReadAlike("OTP_RESEND_WINDOW_MINUTES") => authConfig(env).otpResendWindowMinutes \in ResendMinutes
         /\ mailConfig(env).provider = "smtp" /\ ReadAlike("SMTP_PORT") => mailConfig(env).port \in SmtpPorts
<1>1. /\ IsOptionalInt(env["PORT"], Ports) /\ IsOptionalInt(env["DATABASE_POOL_MAX"], PoolSizes)
      /\ IsOptionalInt(env["OTP_TTL_MINUTES"], OtpMinutes) /\ IsOptionalInt(env["OTP_MAX_ATTEMPTS"], OtpAttempts)
      /\ IsOptionalInt(env["OTP_RESEND_WINDOW_MINUTES"], ResendMinutes)
      /\ env["MAIL_PROVIDER"] = "smtp" => IsOptionalInt(env["SMTP_PORT"], SmtpPorts)
  BY DEF validateEnv, ServerVariables, DatabaseVariables, OtpVariables, MailVariables, IsOptionalInt
<1>2. ASSUME NEW variable, NEW range, NEW fallback \in range, ReadAlike(variable),
             IsOptionalInt(env[variable], range)
      PROVE  toInt(env[variable], fallback) \in range
  BY <1>2, ReadNumbers DEF ReadAlike
<1>3. /\ ReadAlike("DATABASE_POOL_MAX") => toInt(env["DATABASE_POOL_MAX"], 10) \in PoolSizes
      /\ ReadAlike("PORT") => toInt(env["PORT"], 3000) \in Ports
      /\ ReadAlike("OTP_TTL_MINUTES") => toInt(env["OTP_TTL_MINUTES"], 10) \in OtpMinutes
      /\ ReadAlike("OTP_MAX_ATTEMPTS") => toInt(env["OTP_MAX_ATTEMPTS"], 5) \in OtpAttempts
      /\ ReadAlike("OTP_RESEND_WINDOW_MINUTES") => toInt(env["OTP_RESEND_WINDOW_MINUTES"], 60) \in ResendMinutes
      /\ env["MAIL_PROVIDER"] = "smtp" /\ ReadAlike("SMTP_PORT") => toInt(env["SMTP_PORT"], 465) \in SmtpPorts
  BY <1>1, <1>2, RangeFacts
<1>4. mailConfig(env).provider = "smtp" => env["MAIL_PROVIDER"] = "smtp"
  BY DEF mailConfig, Or, Unset
<1> QED
  BY <1>3, <1>4 DEF databaseConfig, appConfig, authConfig, mailConfig

LEMMA ValidMail ==
  ASSUME NEW e, validateEnv(e), mailConfig(e).provider = "smtp"
  PROVE  /\ Empty \notin {mailConfig(e).host, mailConfig(e).user}
         /\ ~Misaligned(fromAddress(mailConfig(e)), mailConfig(e).user)
<1>1. e["MAIL_PROVIDER"] = "smtp"
  BY DEF mailConfig, Or, Unset
<1>2. /\ Given(e["SMTP_HOST"]) /\ Given(e["SMTP_USER"])
      /\ ~Misaligned(Or(e["MAIL_FROM"], DefaultFrom), e["SMTP_USER"])
  BY <1>1 DEF validateEnv, MailVariables, validateRelations
<1>3. mailConfig(e).host = e["SMTP_HOST"] /\ mailConfig(e).user = e["SMTP_USER"]
  BY <1>2 DEF mailConfig, Or, Given
<1>4. mailConfig(e).from = Or(e["MAIL_FROM"], DefaultFrom)
  BY DEF mailConfig
<1>5. ~Misaligned(e["SMTP_USER"], e["SMTP_USER"])
  BY DEF Misaligned
<1> QED
  BY <1>2, <1>3, <1>4, <1>5 DEF fromAddress, Given

LEMMA ValidTexts ==
  ASSUME NEW e, validateEnv(e)
  PROVE  /\ databaseConfig(e).url # Empty /\ authConfig(e).accessSecret # Empty
         /\ pushConfig(e).vapidPublicKey # Empty <=> pushConfig(e).vapidPrivateKey # Empty
         /\ paymentConfig(e).provider = "mercadopago" =>
              /\ {appConfig(e).dashboardUrl, paymentConfig(e).apiPublicUrl} \subseteq Https
              /\ Empty \notin {paymentConfig(e).accessToken, paymentConfig(e).webhookSecret}
<1>1. databaseConfig(e).url # Empty /\ authConfig(e).accessSecret # Empty
  BY DEF validateEnv, DatabaseVariables, AuthVariables, databaseConfig, authConfig, Or, Given
<1>2. pushConfig(e).vapidPublicKey # Empty <=> pushConfig(e).vapidPrivateKey # Empty
  BY DEF validateEnv, validateRelations, pushConfig, Or, Given
<1>3. ASSUME paymentConfig(e).provider = "mercadopago"
      PROVE  /\ {appConfig(e).dashboardUrl, paymentConfig(e).apiPublicUrl} \subseteq Https
             /\ Empty \notin {paymentConfig(e).accessToken, paymentConfig(e).webhookSecret}
  <2>1. e["PAYMENT_PROVIDER"] = "mercadopago"
    BY <1>3 DEF paymentConfig, Or, Unset
  <2>2. /\ {e["APP_DASHBOARD_URL"], e["API_PUBLIC_URL"]} \subseteq Https
        /\ Given(e["MP_ACCESS_TOKEN"]) /\ Given(e["MP_WEBHOOK_SECRET"])
    BY <2>1 DEF validateEnv, PaymentVariables
  <2>3. Unset \notin Https
    BY Zenon DEF Unset, Https
  <2>4. \A url \in Https : stripTrailingSlash(url) \in Https
    BY Zenon DEF stripTrailingSlash, Https
  <2>5. /\ appConfig(e).dashboardUrl = stripTrailingSlash(e["APP_DASHBOARD_URL"])
        /\ paymentConfig(e).apiPublicUrl = e["API_PUBLIC_URL"]
        /\ paymentConfig(e).accessToken = e["MP_ACCESS_TOKEN"]
        /\ paymentConfig(e).webhookSecret = e["MP_WEBHOOK_SECRET"]
    BY <2>2, <2>3, Zenon DEF appConfig, paymentConfig, Or, Given
  <2> QED
    BY <2>2, <2>4, <2>5 DEF Given
<1> QED
  BY <1>1, <1>2, <1>3

(* A server that is up has come past both checks.                          *)
LEMMA StartHolds ==
  ASSUME StartInv, [DeploymentNext]_deploymentVars
  PROVE  StartInv'
<1>1. CASE Start
  BY <1>1 DEF Start, StartInv
<1>2. CASE Stop
  BY <1>2 DEF Stop, StartInv
<1>3. ASSUME UNCHANGED <<env, server>> PROVE StartInv'
  BY <1>3 DEF StartInv
<1> QED
  BY <1>1, <1>2, <1>3, CommandsKeep DEF DeploymentNext, deploymentVars, Deploy, Accept, Edit, SetSchedule, Migrate

(* The checks say of the texts what the providers need of the values.      *)
LEMMA StartConfigures ==
  ASSUME StartInv
  PROVE  Configured
<1> SUFFICES ASSUME server = "up" PROVE Configured
  BY Zenon DEF Configured
<1>1. validateEnv(env) /\ Constructs(env)
  BY DEF StartInv
<1>2. ServerConfigured(appConfig(env), databaseConfig(env), authConfig(env))
  BY <1>1, ValidNumbers, ValidTexts DEF ServerConfigured
<1>3. MailConfigured(mailConfig(env))
  BY <1>1, ValidNumbers, ValidMail DEF MailConfigured
<1>4. PushConfigured(pushConfig(env))
  BY <1>1, ValidTexts DEF PushConfigured, Constructs
<1>5. PaymentConfigured(appConfig(env), paymentConfig(env))
  BY <1>1, ValidTexts DEF PaymentConfigured
<1> QED
  BY <1>2, <1>3, <1>4, <1>5 DEF Configured
-----------------------------------------------------------------------------
(* The terms of service                                                    *)

(* A newer build has a newer version, and what is accepted is the newest.  *)
LEMMA TermsHold ==
  ASSUME ServerTypes, TermsTypes, TermsInv, [DeploymentNext]_deploymentVars
  PROVE  TermsInv'
<1>0. build \in Int /\ \A k \in DOMAIN acceptances : acceptances[k].version \in Int
  <2>1. Versions[env] \subseteq Nat
    BY DeploymentAssumption DEF ServerTypes
  <2>2. \A k \in DOMAIN acceptances : acceptances[k] \in [version : Versions[env], by : Clicks]
    BY ElementOfSeq DEF TermsTypes
  <2> QED
    BY <2>1, <2>2 DEF TermsTypes
<1>1. CASE Deploy
  <2>1. build' \in Int
    BY <1>1, DeploymentAssumption DEF Deploy, ServerTypes
  <2>2. reverted' = (reverted \/ build' < build) /\ acceptances' = acceptances
    BY <1>1 DEF Deploy
  <2>3. ASSUME ~reverted' PROVE ~reverted /\ ~(build' < build)
    BY <2>2, <2>3, Zenon
  <2>4. ASSUME ~reverted', NEW k \in DOMAIN acceptances PROVE acceptances[k].version <= build'
    <3>1. acceptances[k].version <= build
      BY <2>3, <2>4 DEF TermsInv
    <3> QED
      BY <1>0, <2>1, <2>3, <2>4, <3>1
  <2> QED
    BY <2>2, <2>3, <2>4 DEF TermsInv
<1>2. ASSUME NEW click \in Clicks, Accept(click) PROVE TermsInv'
  <2>1. UNCHANGED <<build, reverted>>
    BY <1>2 DEF Accept
  <2>2. CASE acceptances' = acceptances
    BY <2>1, <2>2 DEF TermsInv
  <2>3. CASE /\ acceptances' = Append(acceptances, [version |-> build, by |-> click])
             /\ \A k \in DOMAIN acceptances : acceptances[k].version # build
    <3> DEFINE last == Len(acceptances) + 1
    <3>1. /\ DOMAIN acceptances' = DOMAIN acceptances \union {last}
          /\ \A k \in DOMAIN acceptances : acceptances'[k] = acceptances[k] /\ k < last
          /\ acceptances'[last] = [version |-> build, by |-> click]
          /\ DOMAIN acceptances \subseteq Int /\ last \in Int
      <4>1. PICK T : acceptances \in Seq(T) /\ [version |-> build, by |-> click] \in T
        BY DEF TermsTypes
      <4> QED
        BY <2>3, <4>1
    <3> HIDE DEF last
    <3>2. acceptances'[last].version = build
      BY <3>1
    <3>3. ~reverted => \A k \in DOMAIN acceptances : acceptances[k].version < build
      BY <1>0, <2>3 DEF TermsInv
    <3> QED
      BY <1>0, <2>1, <3>1, <3>2, <3>3 DEF TermsInv
  <2> QED
    BY <1>2, <2>2, <2>3 DEF Accept, Record
<1>3. ASSUME UNCHANGED terms PROVE TermsInv'
  BY <1>3 DEF terms, TermsInv
<1> QED
  BY <1>1, <1>2, <1>3, CommandsKeep DEF DeploymentNext, deploymentVars, Start, Stop, Edit, SetSchedule, Migrate

(* What has been accepted last is the build's version, if this has been.   *)
LEMMA TermsOpen ==
  ASSUME ServerTypes, TermsTypes, TermsInv
  PROVE  GateOpens
<1> SUFFICES ASSUME ~reverted
             PROVE  RequiresAcceptance <=> \A k \in DOMAIN acceptances : acceptances[k].version # build
  BY DEF GateOpens
<1>1. /\ DOMAIN acceptances = 1 .. Len(acceptances) /\ Len(acceptances) \in Nat
      /\ build \in Int /\ \A k \in DOMAIN acceptances : acceptances[k].version \in Int
  <2>1. Versions[env] \subseteq Nat
    BY DeploymentAssumption DEF ServerTypes
  <2>2. /\ DOMAIN acceptances = 1 .. Len(acceptances) /\ Len(acceptances) \in Nat
        /\ \A k \in DOMAIN acceptances : acceptances[k] \in [version : Versions[env], by : Clicks]
    BY ElementOfSeq DEF TermsTypes
  <2> QED
    BY <2>1, <2>2 DEF TermsTypes
<1>2. CASE acceptances = << >>
  BY <1>2 DEF RequiresAcceptance, FindLatest
<1>3. CASE acceptances # << >>
  <2>1. Len(acceptances) \in DOMAIN acceptances /\ \A k \in DOMAIN acceptances : k <= Len(acceptances)
    <3>1. Len(acceptances) # 0
      BY <1>1, <1>3 DEF TermsTypes
    <3> QED
      BY <1>1, <3>1
  <2>2. RequiresAcceptance <=> acceptances[Len(acceptances)].version # build
    BY <1>3 DEF RequiresAcceptance, FindLatest
  <2>3. ASSUME NEW k \in DOMAIN acceptances, acceptances[k].version = build
        PROVE  k = Len(acceptances)
    <3>1. k < Len(acceptances) => acceptances[k].version < acceptances[Len(acceptances)].version
      BY <2>1 DEF TermsInv
    <3>2. acceptances[Len(acceptances)].version <= build
      BY <2>1 DEF TermsInv
    <3> QED
      BY <1>1, <2>1, <2>3, <3>1, <3>2
  <2> QED
    BY <2>1, <2>2, <2>3
<1> QED
  BY <1>2, <1>3
-----------------------------------------------------------------------------
(* The plans                                                               *)

LEMMA NamesOfPlans ==
  ASSUME NEW def
  PROVE  RowsOf(def) = {i \in DOMAIN plans : plans[i].name = def.name \/ plans[i].name \in def.legacyNames}
  BY DEF RowsOf, PlansNamed

(* No other definition has the names of the one that is saved, so that it  *)
(* finds no row, and gets one, or finds its one row, and corrects it.      *)
LEMMA PlansHold ==
  ASSUME PlansTypes, PositionInv, PositionInv', PlansInv, [DeploymentNext]_deploymentVars
  PROVE  PlansInv'
<1>1. ASSUME UNCHANGED <<plans, found, at, command, ends>> PROVE PlansInv'
  BY <1>1 DEF PlansInv, RowsOf, Priced, Reconciled, Definition
<1>2. ASSUME plans' = plans, at'.do \notin PlanLabels \union {"register"}, ~Reconciled' PROVE PlansInv'
  BY <1>2 DEF PlansInv, RowsOf, PlanLabels
<1>3. ASSUME NEW c \in Commands[env], Run(c) PROVE PlansInv'
  <2>1. plans' = plans /\ at' = StartOf(c)
    BY <1>3 DEF Run, database
  <2>2. /\ at'.do \in {"findOrganization", "findPlan", "register", "end"}
        /\ at'.do = "findPlan" => at'.k = 1
        /\ at'.do \in {"register", "end"} => ~(1 <= Len(PLAN_CATALOG))
    BY <2>1, FirstGo
  <2>3. \A k \in DOMAIN PLAN_CATALOG : ~(k < 1) /\ 1 <= Len(PLAN_CATALOG)
    BY CatalogFacts
  <2>4. at'.do # "end" => ends' = "running"
    BY <1>3, <2>1 DEF Run, End, Position
  <2> QED
    BY <2>1, <2>2, <2>3, <2>4 DEF PlansInv, RowsOf, Reconciled, PlanLabels
<1>4. CASE FindPlan
  <2>1. /\ At("findPlan") /\ plans' = plans /\ found' = findExisting(Definition) /\ Running'
        /\ at' = Position("savePlan", at.k, 0)
    BY <1>4 DEF FindPlan, Continue, database, Position, End, Running
  <2>2. at.k \in DOMAIN PLAN_CATALOG
    BY <2>1, AtFacts
  <2>3. findExisting(Definition) = RowsOf(Definition)
    <3>1. \A i, j \in RowsOf(Definition) : i = j
      BY <2>2 DEF PlansInv, Definition
    <3> QED
      BY <3>1, NamesOfPlans DEF findExisting
  <2>4. at'.do = "savePlan" /\ at'.k = at.k /\ at.do = "findPlan"
    BY <2>1 DEF Position, At
  <2>5. found' = RowsOf(Definition)'
    BY <2>1, <2>3, <2>4 DEF RowsOf, Definition
  <2> QED
    BY <2>1, <2>4, <2>5 DEF PlansInv, RowsOf, Priced, PlanLabels, Reconciled, Running
<1>5. CASE SavePlan
  <2>1. /\ At("savePlan") /\ at' = PlansFrom(at.k + 1, command) /\ command' = command
        /\ ends' = IF at' = End THEN "done" ELSE "running"
        /\ at.do = "savePlan" /\ found = RowsOf(Definition)
    BY <1>5 DEF SavePlan, Continue, PlansInv, At
  <2>2. PICK q \in DOMAIN PLAN_CATALOG : q = at.k
    BY <2>1, AtFacts
  <2>0. q \in Nat /\ Definition = PLAN_CATALOG[q] /\ command \in {"seed", "fixPlans"}
    BY <2>1, <2>2, AtFacts DEF Definition
  <2>3. ASSUME found = {}, Plan_create(Definition)
        PROVE  /\ \A k \in DOMAIN PLAN_CATALOG : \A i, j \in RowsOf(PLAN_CATALOG[k])' : i = j
               /\ \A k \in DOMAIN PLAN_CATALOG : Priced(PLAN_CATALOG[k]) => Priced(PLAN_CATALOG[k])'
               /\ Priced(PLAN_CATALOG[q])'
    <3> DEFINE new == Fresh(plans)
    <3>1. /\ new \notin DOMAIN plans /\ DOMAIN plans' = DOMAIN plans \union {new}
          /\ \A i \in DOMAIN plans : plans'[i] = plans[i]
          /\ plans'[new].name = Definition.name /\ plans'[new].price = Definition.price
      BY <2>3, FreshFacts DEF Plan_create, Put
    <3> HIDE DEF new
    <3>2. \A def : RowsOf(def) \subseteq RowsOf(def)' /\ RowsOf(def)' \subseteq RowsOf(def) \union {new}
      BY <3>1 DEF RowsOf, PlansNamed
    <3>3. \A def : Priced(def) => Priced(def)'
      BY <3>1, <3>2 DEF Priced, RowsOf, PlansNamed
    <3>4. Priced(PLAN_CATALOG[q])'
      BY <2>0, <3>1 DEF Priced, RowsOf, PlansNamed
    <3>5. ASSUME NEW k \in DOMAIN PLAN_CATALOG, new \in RowsOf(PLAN_CATALOG[k])' PROVE k = q
      BY <2>0, <2>2, <3>1, <3>5, CatalogAssumption DEF RowsOf, PlansNamed
    <3>6. ASSUME NEW k \in DOMAIN PLAN_CATALOG PROVE \A i, j \in RowsOf(PLAN_CATALOG[k])' : i = j
      <4>1. CASE k = q
        BY <2>1, <2>0, <2>2, <2>3, <3>2, <4>1
      <4>2. CASE k # q
        BY <3>2, <3>5, <4>2 DEF PlansInv
      <4> QED
        BY <4>1, <4>2
    <3> QED
      BY <2>0, <2>2, <3>3, <3>4, <3>6
  <2>4. ASSUME NEW p \in found, Plan_update(p, Definition)
        PROVE  /\ \A k \in DOMAIN PLAN_CATALOG : \A i, j \in RowsOf(PLAN_CATALOG[k])' : i = j
               /\ \A k \in DOMAIN PLAN_CATALOG : Priced(PLAN_CATALOG[k]) => Priced(PLAN_CATALOG[k])'
               /\ Priced(PLAN_CATALOG[q])'
    <3>1. /\ DOMAIN plans' = DOMAIN plans
          /\ \A n \in DOMAIN plans : plans'[n].name = plans[n].name /\ (n # p => plans'[n] = plans[n])
          /\ p \in DOMAIN plans /\ plans'[p].price = Definition.price
      BY <2>4 DEF Plan_update, PlansTypes
    <3>2. \A def : RowsOf(def)' = RowsOf(def)
      BY <3>1 DEF RowsOf, PlansNamed
    <3>3. p \in RowsOf(PLAN_CATALOG[q])
      BY <2>1, <2>0, <2>2, <2>4
    <3>4. Priced(PLAN_CATALOG[q])'
      BY <2>0, <2>2, <3>1, <3>2, <3>3 DEF Priced
    <3>5. ASSUME NEW k \in DOMAIN PLAN_CATALOG, k # q, Priced(PLAN_CATALOG[k])
          PROVE  Priced(PLAN_CATALOG[k])'
      <4>1. p \notin RowsOf(PLAN_CATALOG[k])
        BY <2>0, <2>2, <3>3, <3>5, CatalogAssumption DEF RowsOf, PlansNamed
      <4> QED
        BY <3>1, <3>2, <3>5, <4>1 DEF Priced, RowsOf, PlansNamed
    <3> QED
      BY <3>2, <3>4, <3>5 DEF PlansInv
  <2>5. /\ \A k \in DOMAIN PLAN_CATALOG : \A i, j \in RowsOf(PLAN_CATALOG[k])' : i = j
        /\ \A k \in DOMAIN PLAN_CATALOG : Priced(PLAN_CATALOG[k]) => Priced(PLAN_CATALOG[k])'
        /\ Priced(PLAN_CATALOG[q])'
    BY <1>5, <2>3, <2>4 DEF SavePlan
  <2>6. \A k \in DOMAIN PLAN_CATALOG : k < q \/ k = q => Priced(PLAN_CATALOG[k])'
    BY <2>1, <2>2, <2>5 DEF PlansInv, PlanLabels
  <2>7. /\ at'.do \in {"findPlan", "register", "end"}
        /\ at'.do = "findPlan" => at'.k = q + 1
        /\ at'.do \in {"register", "end"} => ~(q + 1 <= Len(PLAN_CATALOG))
    BY <2>1, <2>0, <2>2, PlansGo
  <2>8. \A k \in DOMAIN PLAN_CATALOG :
          /\ k < q + 1 => k < q \/ k = q
          /\ ~(q + 1 <= Len(PLAN_CATALOG)) => k < q \/ k = q
    BY <2>0, <2>2, CatalogFacts
  <2>9. at'.do # "end" => ends' = "running"
    BY <2>1 DEF End, Position
  <2> QED
    BY <2>5, <2>6, <2>7, <2>8, <2>9 DEF PlansInv, Reconciled, PlanLabels
<1>6. CASE Register
  <2>1. at.do = "register" /\ plans' = plans /\ at' = End /\ ends' = "done" /\ command' = command
    BY <1>6 DEF Register, Continue, At
  <2> QED
    BY <2>1 DEF PlansInv, RowsOf, Priced, PlanLabels, End, Position
<1>7. CASE Die
  BY <1>2, <1>7 DEF Die, Fail, database, End, Position, PlanLabels, Reconciled
<1>8. CASE DemoStep
  <2>1. command = "seedDemo" /\ command' = command /\ plans' = plans
    BY <1>8, AtFacts DEF DemoStep, FindOrganization, ListServices, CreateService, ListOptions, CreateOption,
         ListResources, CreateResource, ReplaceSchedule, AssignService, Continue, Fail, database
  <2>2. at'.do \notin PlanLabels \union {"register"}
    BY <2>1 DEF PositionInv
  <2> QED
    BY <1>2, <2>1, <2>2 DEF Reconciled
<1> QED
  BY <1>1, <1>3, <1>4, <1>5, <1>6, <1>7, <1>8
  DEF DeploymentNext, deploymentVars, database, progress, reads, Deploy, Accept, Start, Stop, Edit, SetSchedule,
      Migrate, PlanStep
-----------------------------------------------------------------------------
(* The demo: what is inserted is new                                       *)

(* A row that is like no other before leaves no two alike.                 *)
Unlike(kind, name, of) ==
  \A i \in DOMAIN rows : rows[i].kind = kind /\ rows[i].of = of /\ rows[i].name = name => name = OtherName

LEMMA InsertOnce ==
  ASSUME RowsTypes, NothingTwice,
         NEW kind \in Kinds, NEW name \in STRING, NEW of \in Ids \union {0}, Insert(kind, name, of),
         Unlike(kind, name, of)
  PROVE  NothingTwice'
<1> DEFINE new == Fresh(rows)
<1>1. /\ new \notin DOMAIN rows /\ DOMAIN rows' = DOMAIN rows \union {new}
      /\ rows'[new].kind = kind /\ rows'[new].name = name /\ rows'[new].of = of
      /\ \A i \in DOMAIN rows : rows'[i] = rows[i]
  BY InsertAdds
<1> HIDE DEF new
<1> QED
  BY <1>1 DEF NothingTwice, Unlike

(* The rows that the demo inserts are new in their kind, and for their     *)
(* service.                                                                *)
LEMMA ServiceIsNew ==
  ASSUME RowsTypes, PositionInv, NamesInv, CreateService, rows' # rows
  PROVE  /\ Insert("service", CATALOG[at.k].service, 0) /\ CATALOG[at.k].service \in STRING
         /\ Unlike("service", CATALOG[at.k].service, 0)
<1>1. At("service") /\ at.k \in DOMAIN CATALOG
  BY AtFacts DEF CreateService
<1>2. /\ Insert("service", CATALOG[at.k].service, 0)
      /\ CATALOG[at.k].service \notin DOMAIN serviceIdByName
  BY DEF CreateService
<1> QED
  BY <1>1, <1>2, CatalogFacts DEF NamesInv, OfKind, At, ServiceLabels, Unlike

LEMMA ResourceIsNew ==
  ASSUME RowsTypes, PositionInv, NamesInv, CreateResource, rows' # rows
  PROVE  /\ Insert("resource", STAFF[at.k].name, 0) /\ STAFF[at.k].name \in STRING
         /\ Unlike("resource", STAFF[at.k].name, 0)
<1>1. At("resource") /\ at.k \in DOMAIN STAFF
  BY AtFacts DEF CreateResource
<1>2. /\ Insert("resource", STAFF[at.k].name, 0)
      /\ STAFF[at.k].name \notin DOMAIN resourceIdByName
  BY DEF CreateResource
<1> QED
  BY <1>1, <1>2, CatalogFacts DEF NamesInv, OfKind, At, ResourceLabels, Unlike

LEMMA OptionIsNew ==
  ASSUME RowsTypes, DemoTypes, PositionInv, IdsInv, NamesInv, CreateOption, rows' # rows
  PROVE  /\ Insert("option", CATALOG[at.k].options[at.m], serviceId)
         /\ CATALOG[at.k].options[at.m] \in STRING /\ serviceId \in Ids
         /\ Unlike("option", CATALOG[at.k].options[at.m], serviceId)
<1>1. At("option") /\ at.do = "option" /\ at.k \in DOMAIN CATALOG /\ at.m \in DOMAIN CATALOG[at.k].options
  BY AtFacts DEF CreateOption, At
<1>2. /\ Insert("option", CATALOG[at.k].options[at.m], serviceId)
      /\ CATALOG[at.k].options[at.m] \notin optionNames
  BY DEF CreateOption
<1>3. serviceId \in Ids
  BY <1>1 DEF IdsInv, ServiceLabels, serviceId, DemoTypes, RowsTypes, OfKind
<1>4. CATALOG[at.k].options[at.m] \in STRING
  BY <1>1, CatalogFacts
<1>5. ASSUME NEW m \in DOMAIN CATALOG[at.k].options, m < at.m
      PROVE  CATALOG[at.k].options[m] # CATALOG[at.k].options[at.m]
  <2>1. CATALOG[at.k].options[m] = CATALOG[at.k].options[at.m] => m = at.m
    BY <1>1, CatalogAssumption
  <2> QED
    BY <1>1, <1>5, <2>1, AtFacts, CatalogFacts
<1> QED
  BY <1>1, <1>2, <1>3, <1>4, <1>5 DEF NamesInv, OfKind, Unlike

(* Nothing is inserted that is there.                                      *)
LEMMA NothingTwiceHolds ==
  ASSUME RowsTypes, DemoTypes, PositionInv, IdsInv, NamesInv, NothingTwice, [DeploymentNext]_deploymentVars
  PROVE  NothingTwice'
<1>1. CASE rows' = rows
  BY <1>1 DEF NothingTwice
<1>2. CASE Edit
  BY <1>2, EditKeeps DEF NothingTwice
<1>3. CASE CreateService /\ rows' # rows
  <2>1. "service" \in Kinds /\ 0 \in Ids \union {0}
    BY DEF Kinds
  <2> QED
    BY <1>3, <2>1, ServiceIsNew, InsertOnce
<1>4. CASE CreateResource /\ rows' # rows
  <2>1. "resource" \in Kinds /\ 0 \in Ids \union {0}
    BY DEF Kinds
  <2> QED
    BY <1>4, <2>1, ResourceIsNew, InsertOnce
<1>5. CASE CreateOption /\ rows' # rows
  <2>1. "option" \in Kinds
    BY DEF Kinds
  <2>2. serviceId \in Ids \union {0}
    BY <1>5, OptionIsNew
  <2> QED
    BY <1>5, <2>1, <2>2, OptionIsNew, InsertOnce
<1> QED
  BY <1>1, <1>2, <1>3, <1>4, <1>5, RowsChange

(* The names that were read, and those inserted since, are all there are,  *)
(* but for what the owner has renamed meanwhile.                           *)
LEMMA KnownNamesHold ==
  ASSUME RowsTypes, DemoTypes, PositionInv, IdsInv, NamesInv, [DeploymentNext]_deploymentVars
  PROVE  NamesInv'
<1>0. serviceId \in Ids \/ at.do # "option"
  BY DEF PositionInv, IdsInv, ServiceLabels, serviceId, DemoTypes, RowsTypes, OfKind
<1>1. CASE UNCHANGED <<at, rows, serviceIdByName, optionNames, resourceIdByName>>
  BY <1>1 DEF NamesInv, OfKind, serviceId
<1>2. ASSUME at'.do \notin ServiceLabels \union ResourceLabels PROVE NamesInv'
  BY <1>2 DEF NamesInv, ServiceLabels
<1>3. CASE Edit
  <2>1. UNCHANGED <<at, serviceIdByName, optionNames, resourceIdByName>>
    BY <1>3 DEF Edit, progress, reads
  <2> QED
    BY <1>3, <2>1, EditKeeps DEF NamesInv, OfKind, serviceId
<1>4. ASSUME NEW c \in Commands[env], Run(c) PROVE NamesInv'
  <2>1. at'.do \in {"findOrganization", "findPlan", "register", "end"}
    BY <1>4, FirstGo DEF Run
  <2> QED
    BY <1>2, <2>1 DEF ServiceLabels, ResourceLabels
<1>5. CASE PlanStep \/ FindOrganization \/ Die
  <2>1. \/ at' = Position("savePlan", at.k, 0) \/ at' = PlansFrom(at.k + 1, command)
        \/ at' = Position("listServices", 0, 0) \/ at' = End
    BY <1>5 DEF PlanStep, FindPlan, SavePlan, Register, FindOrganization, Die, Continue, Fail
  <2>2. at'.do \in {"savePlan", "findPlan", "register", "listServices", "end"}
    BY <2>1, AtFacts, PlansGo DEF Position, End
  <2> QED
    BY <1>2, <2>2 DEF ServiceLabels, ResourceLabels
<1>6. CASE ListServices
  <2>1. /\ at' = ServicesFrom(1) /\ rows' = rows /\ serviceIdByName' = IdByName("service")
    BY <1>6 DEF ListServices, Continue, database
  <2>2. at'.do \in {"service", "listResources"}
    BY <2>1, ServicesGo
  <2>3. \A i \in OfKind("service") : rows[i].name \in DOMAIN IdByName("service")
    BY DEF IdByName, OfKind
  <2> QED
    BY <2>1, <2>2, <2>3 DEF NamesInv, OfKind, ServiceLabels, ResourceLabels
<1>7. CASE CreateService
  <2>1. at' = Position("listOptions", at.k, 0) /\ At("service")
    BY <1>7 DEF CreateService, Continue
  <2>2. at'.do = "listOptions" /\ at.do = "service"
    BY <2>1 DEF Position, At
  <2>3. \A i \in OfKind("service") : rows[i].name \in DOMAIN serviceIdByName \union {OtherName}
    BY <2>2 DEF NamesInv, ServiceLabels
  <2>4. \A i \in OfKind("service")' : rows'[i].name \in DOMAIN serviceIdByName' \union {OtherName}
    <3>1. CASE UNCHANGED <<rows, serviceIdByName>>
      BY <2>3, <3>1 DEF OfKind
    <3>2. CASE /\ Insert("service", CATALOG[at.k].service, 0)
               /\ serviceIdByName' = Put(serviceIdByName, CATALOG[at.k].service, Fresh(rows))
      <4>1. DOMAIN serviceIdByName' = DOMAIN serviceIdByName \union {CATALOG[at.k].service}
        BY <3>2 DEF Put
      <4>2. "service" \in Kinds /\ 0 \in Ids \union {0} /\ CATALOG[at.k].service \in STRING
        BY <2>1, AtFacts, CatalogFacts DEF Kinds
      <4>3. /\ DOMAIN rows' = DOMAIN rows \union {Fresh(rows)}
            /\ rows'[Fresh(rows)].name = CATALOG[at.k].service
            /\ \A i \in DOMAIN rows : rows'[i] = rows[i]
        BY <3>2, <4>2, InsertAdds
      <4> QED
        BY <2>3, <4>1, <4>3 DEF OfKind
    <3> QED
      BY <1>7, <3>1, <3>2 DEF CreateService
  <2> QED
    BY <2>2, <2>4 DEF NamesInv, ResourceLabels
<1>8. CASE ListOptions
  <2>1. CASE Fail
    BY <1>2, <2>1 DEF Fail, End, Position, ServiceLabels, ResourceLabels
  <2>2. CASE ~Fail
    <3>1. /\ at.do = "listOptions" /\ at' = OptionsFrom(at.k, 1) /\ UNCHANGED <<rows, serviceIdByName>>
          /\ optionNames' = {rows[i].name : i \in {j \in DOMAIN rows :
                               rows[j].kind = "option" /\ rows[j].of = serviceId}}
      BY <1>8, <2>2 DEF ListOptions, At, Continue, database
    <3>2. at'.do \in {"option", "service", "listResources"} /\ (at'.do = "option" => at'.k = at.k)
      BY <3>1, AtFacts, OptionsGo
    <3>3. at'.do = "option" => serviceId' = serviceId
      BY <3>1, <3>2 DEF serviceId
    <3> QED
      BY <3>1, <3>2, <3>3 DEF NamesInv, OfKind, ServiceLabels, ResourceLabels
  <2> QED
    BY <2>1, <2>2
<1>9. CASE CreateOption
  <2>1. /\ at.do = "option" /\ at' = OptionsFrom(at.k, at.m + 1) /\ serviceIdByName' = serviceIdByName
        /\ optionNames' = IF at'.do = "option" THEN optionNames ELSE {}
    BY <1>9 DEF CreateOption, At, Continue
  <2>2. PICK k \in DOMAIN CATALOG, m \in Nat :
          k = at.k /\ m = at.m /\ m + 1 \in Nat /\ m \in DOMAIN CATALOG[k].options
    BY <1>9, AtFacts DEF CreateOption
  <2>3. /\ at'.do \in {"option", "service", "listResources"}
        /\ at'.do = "option" => at'.k = k /\ at'.m = m + 1
    BY <2>1, <2>2, AtFacts, OptionsGo
  <2>4. at'.do = "option" => serviceId' = serviceId
    BY <2>1, <2>2, <2>3 DEF serviceId
  <2>5. \A n \in Nat : n < m => n < m + 1
    BY <2>2
  <2>6. m < m + 1 /\ DOMAIN CATALOG[k].options \subseteq Nat
    BY <2>2, CatalogFacts
  <2>7. CASE rows' = rows
    BY <2>1, <2>2, <2>3, <2>4, <2>5, <2>6, <2>7 DEF NamesInv, OfKind, ServiceLabels, ResourceLabels
  <2>8. CASE rows' # rows
    <3> DEFINE new == Fresh(rows)
    <3>1. /\ Insert("option", CATALOG[at.k].options[at.m], serviceId)
          /\ CATALOG[at.k].options[at.m] \in STRING /\ serviceId \in Ids \union {0} /\ "option" \in Kinds
      BY <1>9, <2>8, OptionIsNew DEF Kinds
    <3>2. /\ DOMAIN rows' = DOMAIN rows \union {new}
          /\ rows'[new].kind = "option" /\ rows'[new].name = CATALOG[at.k].options[at.m]
          /\ \A i \in DOMAIN rows : rows'[i] = rows[i]
      BY <3>1, InsertAdds
    <3> HIDE DEF new
    <3>3. \A i \in OfKind("service")' : rows'[i].name \in DOMAIN serviceIdByName \union {OtherName}
      BY <2>1, <3>2 DEF NamesInv, OfKind, ServiceLabels
    <3>4. ASSUME at'.do = "option", NEW i \in OfKind("option")', rows'[i].of = serviceId
          PROVE  \/ rows'[i].name \in optionNames
                 \/ \E n \in DOMAIN CATALOG[k].options : n < m + 1 /\ rows'[i].name = CATALOG[k].options[n]
      <4>1. CASE i = new
        BY <2>2, <2>6, <3>2, <4>1
      <4>2. CASE i # new
        BY <2>1, <2>2, <2>5, <2>6, <3>2, <3>4, <4>2 DEF NamesInv, OfKind
      <4> QED
        BY <4>1, <4>2
    <3> QED
      BY <2>1, <2>3, <2>4, <3>3, <3>4 DEF NamesInv, ResourceLabels
  <2> QED
    BY <2>7, <2>8
<1>10. CASE ListResources
  <2>1. at' = ResourcesFrom(1) /\ rows' = rows /\ resourceIdByName' = IdByName("resource")
    BY <1>10 DEF ListResources, Continue, database
  <2>2. at'.do \in {"resource", "end"}
    BY <2>1, ResourcesGo
  <2>3. \A i \in OfKind("resource") : rows[i].name \in DOMAIN IdByName("resource")
    BY DEF IdByName, OfKind
  <2> QED
    BY <2>1, <2>2, <2>3 DEF NamesInv, OfKind, ServiceLabels, ResourceLabels
<1>11. CASE CreateResource
  <2>1. at' = Position("schedule", at.k, 0) /\ At("resource")
    BY <1>11 DEF CreateResource, Continue
  <2>2. at'.do = "schedule" /\ at.do = "resource"
    BY <2>1 DEF Position, At
  <2>3. \A i \in OfKind("resource") : rows[i].name \in DOMAIN resourceIdByName \union {OtherName}
    BY <2>2 DEF NamesInv, ResourceLabels
  <2>4. \A i \in OfKind("resource")' : rows'[i].name \in DOMAIN resourceIdByName' \union {OtherName}
    <3>1. CASE UNCHANGED <<rows, resourceIdByName>>
      BY <2>3, <3>1 DEF OfKind
    <3>2. CASE /\ Insert("resource", STAFF[at.k].name, 0)
               /\ resourceIdByName' = Put(resourceIdByName, STAFF[at.k].name, Fresh(rows))
      <4>1. DOMAIN resourceIdByName' = DOMAIN resourceIdByName \union {STAFF[at.k].name}
        BY <3>2 DEF Put
      <4>2. "resource" \in Kinds /\ 0 \in Ids \union {0} /\ STAFF[at.k].name \in STRING
        BY <2>1, AtFacts, CatalogFacts DEF Kinds
      <4>3. /\ DOMAIN rows' = DOMAIN rows \union {Fresh(rows)}
            /\ rows'[Fresh(rows)].name = STAFF[at.k].name
            /\ \A i \in DOMAIN rows : rows'[i] = rows[i]
        BY <3>2, <4>2, InsertAdds
      <4> QED
        BY <2>3, <4>1, <4>3 DEF OfKind
    <3> QED
      BY <1>11, <3>1, <3>2 DEF CreateResource
  <2> QED
    BY <2>2, <2>4 DEF NamesInv, ServiceLabels
<1>12. CASE ReplaceSchedule \/ AssignService
  <2>1. /\ at.do \in {"schedule", "assign"} /\ rows' = rows
        /\ \E m \in {1, at.m + 1} : at' = AssignmentsFrom(at.k, m) /\ Keep(AssignmentsFrom(at.k, m))
    BY <1>12 DEF ReplaceSchedule, AssignService, At, Continue
  <2>2. /\ at'.do \in {"assign", "resource", "end"}
        /\ at'.do # "end" => UNCHANGED <<serviceIdByName, resourceIdByName>>
    BY <2>1, AtFacts, AssignmentsGo DEF Keep, reads
  <2> QED
    BY <2>1, <2>2 DEF NamesInv, OfKind, ServiceLabels, ResourceLabels
<1> QED
  BY <1>1, <1>3, <1>4, <1>5, <1>6, <1>7, <1>8, <1>9, <1>10, <1>11, <1>12
  DEF DeploymentNext, deploymentVars, progress, reads, database, Deploy, Accept, Start, Stop, SetSchedule, Migrate,
      DemoStep
-----------------------------------------------------------------------------
(* The demo: what it has come past stands                                  *)

(* Rows, assignments and schedules that are added to.                      *)
Grows ==
  /\ \A i \in DOMAIN rows : i \in DOMAIN rows' /\ rows'[i] = rows[i]
  /\ links \subseteq links'
  /\ \A r \in DOMAIN schedules :
       r \in DOMAIN schedules' /\ (schedules[r] = "seed" => schedules'[r] = "seed")

(* What stands, stays.                                                     *)
LEMMA StandsStay ==
  ASSUME Grows
  PROVE  /\ \A kind, name : Named(kind, name) \subseteq Named(kind, name)'
         /\ \A kind, name, of : Has(kind, name, of) => Has(kind, name, of)'
         /\ \A k \in DOMAIN CATALOG : ServiceStands(k) => ServiceStands(k)'
         /\ \A k \in DOMAIN STAFF : ResourceStands(k) => ResourceStands(k)'
<1>1. \A kind, name : Named(kind, name) \subseteq Named(kind, name)'
  BY DEF Grows, Named
<1>2. \A kind, name, of : Has(kind, name, of) => Has(kind, name, of)'
  BY <1>1 DEF Grows, Has, Named
<1>3. ASSUME NEW k \in DOMAIN CATALOG, ServiceStands(k) PROVE ServiceStands(k)'
  BY <1>1, <1>2, <1>3 DEF ServiceStands
<1>4. ASSUME NEW k \in DOMAIN STAFF, ResourceStands(k) PROVE ResourceStands(k)'
  BY <1>1, <1>4 DEF ResourceStands, Grows
<1> QED
  BY <1>1, <1>2, <1>3, <1>4

(* An insertion only adds.                                                 *)
LEMMA InsertGrows ==
  ASSUME RowsTypes, UNCHANGED <<links, schedules>>,
         \/ rows' = rows
         \/ \E kind \in Kinds, name \in STRING, of \in Ids \union {0} : Insert(kind, name, of)
  PROVE  Grows
<1>1. CASE rows' = rows
  BY <1>1 DEF Grows
<1>2. ASSUME NEW kind \in Kinds, NEW name \in STRING, NEW of \in Ids \union {0}, Insert(kind, name, of)
      PROVE  Grows
  BY <1>2, InsertAdds DEF Grows
<1> QED
  BY <1>1, <1>2

(* The ids that have been read lead to rows of their names.                *)
ServiceIds == \A n \in DOMAIN serviceIdByName : rows[serviceIdByName[n]].name = n
ResourceIds == \A n \in DOMAIN resourceIdByName : rows[resourceIdByName[n]].name = n

LEMMA IdsLead ==
  ASSUME DemoTypes
  PROVE  /\ ServiceIds => \A n \in DOMAIN serviceIdByName : serviceIdByName[n] \in Named("service", n)
         /\ ResourceIds => \A n \in DOMAIN resourceIdByName : resourceIdByName[n] \in Named("resource", n)
  BY DEF DemoTypes, ServiceIds, ResourceIds, Named, OfKind

LEMMA IdsStay ==
  ASSUME DemoTypes, Grows
  PROVE  /\ ServiceIds /\ UNCHANGED serviceIdByName => ServiceIds'
         /\ ResourceIds /\ UNCHANGED resourceIdByName => ResourceIds'
  BY DEF DemoTypes, ServiceIds, ResourceIds, OfKind, Grows

LEMMA IdsRead ==
  ASSUME NEW kind, NEW n \in DOMAIN IdByName(kind)
  PROVE  IdByName(kind)[n] \in Named(kind, n)
  BY DEF IdByName, Named

(* Statement by statement: what the demo has come past stands.             *)
AllStands == (\A k \in DOMAIN CATALOG : ServiceStands(k)) /\ (\A k \in DOMAIN STAFF : ResourceStands(k))
DemoHolds == ServicesInv /\ ResourcesInv /\ (at = End /\ ends = "done" => AllStands)

LEMMA ListServicesHolds ==
  ASSUME DemoTypes, ServicesInv, ResourcesInv, ListServices
  PROVE  DemoHolds'
<1>1. /\ at' = ServicesFrom(1) /\ UNCHANGED <<rows, links, schedules, resourceIdByName>>
      /\ serviceIdByName' = IdByName("service")
  BY DEF ListServices, Continue, database
<1>2. /\ at'.do \in {"service", "listResources"}
      /\ at'.do = "service" => at'.k = 1
      /\ at'.do = "listResources" => ~(1 <= Len(CATALOG))
  BY <1>1, ServicesGo
<1>3. \A k \in DOMAIN CATALOG : ~(k < 1) /\ 1 <= Len(CATALOG)
  BY CatalogFacts
<1>4. ServicesInv'
  BY <1>1, <1>2, <1>3, IdsRead DEF ServicesInv, Named, ServiceLabels, AfterServices, ResourceLabels
<1>5. ResourcesInv'
  BY <1>1, <1>2 DEF ResourcesInv, ResourceLabels
<1> QED
  BY <1>2, <1>4, <1>5 DEF DemoHolds, End, Position

LEMMA CreateServiceHolds ==
  ASSUME RowsTypes, DemoTypes, PositionInv, NamesInv, ServicesInv, ResourcesInv, CreateService
  PROVE  DemoHolds'
<1>1. /\ at.do = "service" /\ at' = Position("listOptions", at.k, 0)
      /\ UNCHANGED <<links, schedules, resourceIdByName>>
  BY DEF CreateService, At, Continue
<1>2. at'.do = "listOptions" /\ at'.k = at.k
  BY <1>1 DEF Position
<1>3. "service" \in Kinds /\ 0 \in Ids \union {0} /\ CATALOG[at.k].service \in STRING
  BY AtFacts, CatalogFacts DEF CreateService, Kinds
<1>4. Grows
  BY <1>1, <1>3, InsertGrows DEF CreateService
<1>5. ServiceIds'
  <2>1. CASE serviceIdByName' = serviceIdByName
    BY <1>4, <2>1, IdsStay DEF ServicesInv, ServiceIds
  <2>2. CASE /\ Insert("service", CATALOG[at.k].service, 0)
             /\ serviceIdByName' = Put(serviceIdByName, CATALOG[at.k].service, Fresh(rows))
    <3>1. rows'[Fresh(rows)].name = CATALOG[at.k].service
      BY <1>3, <2>2, InsertAdds
    <3>2. \A n \in DOMAIN serviceIdByName : rows'[serviceIdByName[n]].name = n
      BY <1>4 DEF ServicesInv, DemoTypes, OfKind, Grows
    <3> QED
      BY <2>2, <3>1, <3>2 DEF ServiceIds, Put
  <2> QED
    BY <2>1, <2>2 DEF CreateService
<1>6. ServicesInv'
  BY <1>1, <1>2, <1>4, <1>5, StandsStay DEF ServicesInv, ServiceIds, ServiceLabels, AfterServices, ResourceLabels
<1>7. ResourcesInv'
  BY <1>1, <1>2, <1>4, IdsStay DEF ResourcesInv, ResourceIds, ResourceLabels
<1> QED
  BY <1>2, <1>6, <1>7 DEF DemoHolds, End, Position

(* The options of an entry, so far, and then the entry.                    *)
LEMMA OptionsHold ==
  ASSUME DemoTypes, PositionInv, IdsInv, ServicesInv, ResourcesInv, Grows,
         at.do \in {"listOptions", "option"}, UNCHANGED <<serviceIdByName, resourceIdByName>>,
         NEW k, k = at.k, NEW s, s = serviceId, NEW m \in Nat, at' = OptionsFrom(k, m),
         \A n \in DOMAIN CATALOG[k].options : n < m => Has("option", CATALOG[k].options[n], s)',
         at'.do = "option" => \A n \in optionNames' : Has("option", n, s)'
  PROVE  DemoHolds'
<1>1. k \in DOMAIN CATALOG /\ k \in Nat
  BY CatalogFacts DEF PositionInv, ServiceLabels
<1>2. \/ at'.do = "option" /\ at'.k = k /\ at'.m = m
      \/ ~(m <= Len(CATALOG[k].options)) /\ at'.do = "service" /\ at'.k = k + 1
      \/ ~(m <= Len(CATALOG[k].options)) /\ at'.do = "listResources" /\ ~(k + 1 <= Len(CATALOG))
  BY <1>1, OptionsGo
<1>3. at'.do \in {"option", "service", "listResources"}
  BY <1>2
<1>4. ServiceIds' /\ ResourceIds'
  BY IdsStay DEF ServicesInv, ServiceIds, ResourcesInv, ResourceIds
<1>5. s \in Named("service", CATALOG[k].service)'
  <2>1. CATALOG[k].service \in DOMAIN serviceIdByName
    BY <1>1 DEF IdsInv, ServiceLabels
  <2>2. s \in Named("service", CATALOG[k].service)
    BY <2>1, IdsLead DEF ServicesInv, ServiceIds, serviceId
  <2> QED
    BY <2>2, StandsStay
<1>6. ~(m <= Len(CATALOG[k].options)) => ServiceStands(k)'
  <2>1. \A n \in DOMAIN CATALOG[k].options : n < m \/ m <= Len(CATALOG[k].options)
    BY <1>1, CatalogFacts
  <2> QED
    BY <1>5, <2>1 DEF ServiceStands
<1>7. \A j \in DOMAIN CATALOG : j < k => ServiceStands(j)'
  BY StandsStay DEF ServicesInv, ServiceLabels
<1>8. at'.do = "option" => serviceId' = s
  BY <1>2 DEF serviceId
<1>9. ServicesInv'
  <2>1. CASE at'.do = "option"
    BY <1>2, <1>4, <1>7, <1>8, <2>1 DEF ServicesInv, ServiceIds, ServiceLabels, AfterServices, ResourceLabels
  <2>2. CASE at'.do = "service"
    <3>1. \A j \in DOMAIN CATALOG : j < k + 1 => j < k \/ j = k
      BY <1>1, CatalogFacts
    <3> QED
      BY <1>2, <1>4, <1>6, <1>7, <2>2, <3>1 DEF ServicesInv, ServiceIds, ServiceLabels, AfterServices, ResourceLabels
  <2>3. CASE at'.do = "listResources"
    <3>1. \A j \in DOMAIN CATALOG : j < k \/ j = k \/ k + 1 <= Len(CATALOG)
      BY <1>1, CatalogFacts
    <3> QED
      BY <1>2, <1>4, <1>6, <1>7, <2>3, <3>1 DEF ServicesInv, ServiceIds, ServiceLabels, AfterServices, ResourceLabels
  <2> QED
    BY <1>3, <2>1, <2>2, <2>3
<1>10. ResourcesInv'
  BY <1>3, <1>4 DEF ResourcesInv, ResourceIds, ResourceLabels
<1> QED
  BY <1>3, <1>9, <1>10 DEF DemoHolds, End, Position

LEMMA ListResourcesHolds ==
  ASSUME DemoTypes, PositionInv, ServicesInv, ResourcesInv, ListResources
  PROVE  DemoHolds'
<1>1. /\ at.do = "listResources" /\ at' = ResourcesFrom(1)
      /\ UNCHANGED <<rows, links, schedules, serviceIdByName>>
      /\ resourceIdByName' = IdByName("resource")
  BY DEF ListResources, At, Continue, database
<1>2. /\ at'.do \in {"resource", "end"}
      /\ at'.do = "resource" => at'.k = 1
      /\ at' = End => ~(1 <= Len(STAFF))
  BY <1>1, ResourcesGo DEF End, Position
<1>3. \A k \in DOMAIN STAFF : ~(k < 1) /\ 1 <= Len(STAFF)
  BY CatalogFacts
<1>4. Grows
  BY <1>1 DEF Grows
<1>5. /\ \A k \in DOMAIN CATALOG : ServiceStands(k)'
      /\ ServiceIds'
  BY <1>1, <1>4, StandsStay, IdsStay DEF ServicesInv, ServiceIds, AfterServices
<1>6. ServicesInv'
  BY <1>2, <1>5 DEF ServicesInv, ServiceIds, ServiceLabels
<1>7. ResourcesInv'
  BY <1>1, <1>2, <1>3, IdsRead DEF ResourcesInv, Named, ResourceLabels
<1>8. at' = End => AllStands'
  BY <1>2, <1>3, <1>5 DEF AllStands
<1> QED
  BY <1>6, <1>7, <1>8 DEF DemoHolds

LEMMA CreateResourceHolds ==
  ASSUME RowsTypes, DemoTypes, PositionInv, ServicesInv, ResourcesInv, CreateResource
  PROVE  DemoHolds'
<1>1. /\ at.do = "resource" /\ at' = Position("schedule", at.k, 0)
      /\ UNCHANGED <<links, schedules, serviceIdByName>>
  BY DEF CreateResource, At, Continue
<1>2. at'.do = "schedule" /\ at'.k = at.k
  BY <1>1 DEF Position
<1>3. "resource" \in Kinds /\ 0 \in Ids \union {0} /\ STAFF[at.k].name \in STRING
  BY AtFacts, CatalogFacts DEF CreateResource, Kinds
<1>4. Grows
  BY <1>1, <1>3, InsertGrows DEF CreateResource
<1>5. ResourceIds'
  <2>1. CASE resourceIdByName' = resourceIdByName
    BY <1>4, <2>1, IdsStay DEF ResourcesInv, ResourceIds
  <2>2. CASE /\ Insert("resource", STAFF[at.k].name, 0)
             /\ resourceIdByName' = Put(resourceIdByName, STAFF[at.k].name, Fresh(rows))
    <3>1. rows'[Fresh(rows)].name = STAFF[at.k].name
      BY <1>3, <2>2, InsertAdds
    <3>2. \A n \in DOMAIN resourceIdByName : rows'[resourceIdByName[n]].name = n
      BY <1>4 DEF ResourcesInv, DemoTypes, OfKind, Grows
    <3> QED
      BY <2>2, <3>1, <3>2 DEF ResourceIds, Put
  <2> QED
    BY <2>1, <2>2 DEF CreateResource
<1>6. ServicesInv'
  BY <1>1, <1>2, <1>4, StandsStay, IdsStay DEF ServicesInv, ServiceIds, ServiceLabels, AfterServices, ResourceLabels
<1>7. ResourcesInv'
  BY <1>1, <1>2, <1>4, <1>5, StandsStay DEF ResourcesInv, ResourceIds, ResourceLabels
<1> QED
  BY <1>2, <1>6, <1>7 DEF DemoHolds, End, Position

(* The assignments of an entry, so far, and then the entry.                *)
LEMMA AssignmentsHold ==
  ASSUME DemoTypes, PositionInv, IdsInv, ServicesInv, ResourcesInv, Grows, UNCHANGED rows,
         at.do \in {"schedule", "assign"},
         NEW k, k = at.k, NEW r, r = resourceId, NEW m \in Nat,
         at' = AssignmentsFrom(k, m), Keep(AssignmentsFrom(k, m)),
         r \in DOMAIN schedules' /\ schedules'[r] = "seed",
         \A n \in DOMAIN STAFF[k].services : n < m => <<r, serviceIdByName[STAFF[k].services[n]]>> \in links'
  PROVE  DemoHolds'
<1>1. k \in DOMAIN STAFF /\ k \in Nat
  BY CatalogFacts DEF PositionInv, ResourceLabels
<1>2. \/ at'.do = "assign" /\ at'.k = k /\ at'.m = m /\ at' # End
      \/ ~(m <= Len(STAFF[k].services)) /\ at'.do = "resource" /\ at'.k = k + 1 /\ at' # End
      \/ ~(m <= Len(STAFF[k].services)) /\ at'.do = "end" /\ at' = End /\ ~(k + 1 <= Len(STAFF))
  BY <1>1, AssignmentsGo
<1>3. at'.do \in {"assign", "resource", "end"}
  BY <1>2
<1>4. \/ UNCHANGED <<serviceIdByName, resourceIdByName>>
      \/ at' = End /\ serviceIdByName' = None /\ resourceIdByName' = None
  BY DEF Keep, Forget, reads
<1>5. ServiceIds' /\ ResourceIds'
  BY <1>4, IdsStay DEF ServicesInv, ServiceIds, ResourcesInv, ResourceIds, None
<1>6. r \in Named("resource", STAFF[k].name)'
  <2>1. STAFF[k].name \in DOMAIN resourceIdByName
    BY DEF IdsInv
  <2>2. r \in Named("resource", STAFF[k].name)
    BY <2>1, IdsLead DEF ResourcesInv, ResourceIds, resourceId
  <2> QED
    BY <2>2, StandsStay
<1>7. ASSUME NEW n \in DOMAIN STAFF[k].services
      PROVE  serviceIdByName[STAFF[k].services[n]] \in Named("service", STAFF[k].services[n])'
  <2>1. PICK j \in DOMAIN CATALOG : CATALOG[j].service = STAFF[k].services[n]
    BY <1>1, CatalogAssumption
  <2>2. STAFF[k].services[n] \in DOMAIN serviceIdByName
    BY <2>1 DEF IdsInv, AfterServices, ResourceLabels
  <2>3. serviceIdByName[STAFF[k].services[n]] \in Named("service", STAFF[k].services[n])
    BY <2>2, IdsLead DEF ServicesInv, ServiceIds
  <2> QED
    BY <2>3, StandsStay
<1>8. ~(m <= Len(STAFF[k].services)) => ResourceStands(k)'
  <2>1. \A n \in DOMAIN STAFF[k].services : n < m \/ m <= Len(STAFF[k].services)
    BY <1>1, CatalogFacts
  <2> QED
    BY <1>6, <1>7, <2>1 DEF ResourceStands
<1>9. \A j \in DOMAIN STAFF : j < k => ResourceStands(j)'
  BY StandsStay DEF ResourcesInv, ResourceLabels
<1>10. \A j \in DOMAIN CATALOG : ServiceStands(j)'
  BY StandsStay DEF ServicesInv, AfterServices, ResourceLabels
<1>11. ServicesInv'
  BY <1>3, <1>5, <1>10 DEF ServicesInv, ServiceIds, ServiceLabels
<1>12. ResourcesInv'
  <2>1. CASE at'.do = "assign"
    <3>1. resourceId' = r /\ UNCHANGED serviceIdByName
      BY <1>2, <1>4, <2>1 DEF resourceId
    <3> QED
      BY <1>2, <1>5, <1>9, <2>1, <3>1 DEF ResourcesInv, ResourceIds, ResourceLabels
  <2>2. CASE at'.do = "resource"
    <3>1. \A j \in DOMAIN STAFF : j < k + 1 => j < k \/ j = k
      BY <1>1, CatalogFacts
    <3> QED
      BY <1>2, <1>5, <1>8, <1>9, <2>2, <3>1 DEF ResourcesInv, ResourceIds, ResourceLabels
  <2>3. CASE at'.do = "end"
    BY <1>5, <2>3 DEF ResourcesInv, ResourceIds, ResourceLabels
  <2> QED
    BY <1>3, <2>1, <2>2, <2>3
<1>13. at' = End => AllStands'
  <2>1. \A j \in DOMAIN STAFF : j < k \/ j = k \/ k + 1 <= Len(STAFF)
    BY <1>1, CatalogFacts
  <2> QED
    BY <1>2, <1>8, <1>9, <1>10, <2>1 DEF AllStands
<1> QED
  BY <1>11, <1>12, <1>13 DEF DemoHolds

LEMMA ListOptionsHolds ==
  ASSUME DemoTypes, PositionInv, IdsInv, ServicesInv, ResourcesInv, ListOptions, ~Fail
  PROVE  DemoHolds'
<1>1. /\ at.do = "listOptions" /\ UNCHANGED <<rows, links, schedules, serviceIdByName, resourceIdByName>>
      /\ optionNames' = {rows[i].name : i \in {j \in DOMAIN rows :
                           rows[j].kind = "option" /\ rows[j].of = serviceId}}
      /\ at' = OptionsFrom(at.k, 1)
  BY DEF ListOptions, At, Continue, database
<1>2. PICK k, s : k = at.k /\ s = serviceId
  OBVIOUS
<1>3. k \in DOMAIN CATALOG
  BY <1>1, <1>2 DEF PositionInv, ServiceLabels
<1>4. \A n \in DOMAIN CATALOG[k].options : ~(n < 1)
  BY <1>3, CatalogFacts
<1>5. \A n \in optionNames' : Has("option", n, s)'
  BY <1>1, <1>2 DEF Has, Named
<1>6. Grows
  BY <1>1 DEF Grows
<1>7. 1 \in Nat
  OBVIOUS
<1> QED
  BY <1>1, <1>2, <1>4, <1>5, <1>6, <1>7, OptionsHold

LEMMA CreateOptionHolds ==
  ASSUME RowsTypes, DemoTypes, PositionInv, IdsInv, NamesInv, ServicesInv, ResourcesInv, CreateOption
  PROVE  DemoHolds'
<1>1. /\ at.do = "option" /\ UNCHANGED <<links, schedules, serviceIdByName, resourceIdByName>>
      /\ at' = OptionsFrom(at.k, at.m + 1)
      /\ optionNames' = IF at'.do = "option" THEN optionNames ELSE {}
      /\ \/ CATALOG[at.k].options[at.m] \in optionNames /\ rows' = rows
         \/ Insert("option", CATALOG[at.k].options[at.m], serviceId)
  BY DEF CreateOption, At, Continue
<1>2. PICK k, m, s : k = at.k /\ m = at.m /\ s = serviceId
  OBVIOUS
<1>3. /\ k \in DOMAIN CATALOG /\ m \in DOMAIN CATALOG[k].options /\ m \in Nat /\ m + 1 \in Nat
      /\ CATALOG[k].options[m] \in STRING
  BY <1>1, <1>2, CatalogFacts DEF PositionInv, ServiceLabels
<1>4. s \in Ids \union {0} /\ "option" \in Kinds
  BY <1>1, <1>2, <1>3 DEF IdsInv, ServiceLabels, serviceId, DemoTypes, RowsTypes, OfKind, Kinds
<1>5. Grows
  BY <1>1, <1>2, <1>3, <1>4, InsertGrows
<1>6. /\ \A n \in optionNames : Has("option", n, s)'
      /\ \A n \in DOMAIN CATALOG[k].options : n < m => Has("option", CATALOG[k].options[n], s)'
  BY <1>1, <1>2, <1>5, StandsStay DEF ServicesInv
<1>7. Has("option", CATALOG[k].options[m], s)'
  <2>1. CASE CATALOG[k].options[m] \in optionNames
    BY <1>6, <2>1
  <2>2. CASE Insert("option", CATALOG[k].options[m], s)
    <3>1. /\ Fresh(rows) \in DOMAIN rows' /\ rows'[Fresh(rows)].kind = "option"
          /\ rows'[Fresh(rows)].name = CATALOG[k].options[m] /\ rows'[Fresh(rows)].of = s
      BY <1>3, <1>4, <2>2, InsertAdds DEF Insert, Put
    <3> QED
      BY <3>1 DEF Has, Named
  <2> QED
    BY <1>1, <1>2, <2>1, <2>2
<1>8. \A n \in DOMAIN CATALOG[k].options : n < m + 1 => n < m \/ n = m
  BY <1>3, CatalogFacts
<1>9. \A n \in DOMAIN CATALOG[k].options : n < m + 1 => Has("option", CATALOG[k].options[n], s)'
  BY <1>6, <1>7, <1>8
<1>10. at'.do = "option" => \A n \in optionNames' : Has("option", n, s)'
  BY <1>1, <1>6
<1> QED
  BY <1>1, <1>2, <1>3, <1>5, <1>9, <1>10, OptionsHold

LEMMA ReplaceScheduleHolds ==
  ASSUME DemoTypes, PositionInv, IdsInv, ServicesInv, ResourcesInv, ReplaceSchedule
  PROVE  DemoHolds'
<1>1. /\ at.do = "schedule" /\ UNCHANGED <<rows, links>>
      /\ schedules' = Put(schedules, resourceId, "seed")
      /\ at' = AssignmentsFrom(at.k, 1) /\ Keep(AssignmentsFrom(at.k, 1))
  BY DEF ReplaceSchedule, At, Continue
<1>2. PICK k, r : k = at.k /\ r = resourceId
  OBVIOUS
<1>3. k \in DOMAIN STAFF
  BY <1>1, <1>2 DEF PositionInv, ResourceLabels
<1>4. \A n \in DOMAIN STAFF[k].services : ~(n < 1)
  BY <1>3, CatalogFacts
<1>5. /\ r \in DOMAIN schedules' /\ schedules'[r] = "seed"
      /\ \A q \in DOMAIN schedules : q \in DOMAIN schedules' /\ (q = r \/ schedules'[q] = schedules[q])
  BY <1>1, <1>2 DEF Put
<1>6. Grows
  BY <1>1, <1>5 DEF Grows
<1>7. 1 \in Nat
  OBVIOUS
<1> QED
  BY <1>1, <1>2, <1>4, <1>5, <1>6, <1>7, AssignmentsHold

LEMMA AssignServiceHolds ==
  ASSUME DemoTypes, PositionInv, IdsInv, ServicesInv, ResourcesInv, AssignService
  PROVE  DemoHolds'
<1>1. /\ at.do = "assign" /\ UNCHANGED <<rows, schedules>>
      /\ links' = links \union {<<resourceId, serviceIdByName[STAFF[at.k].services[at.m]]>>}
      /\ at' = AssignmentsFrom(at.k, at.m + 1) /\ Keep(AssignmentsFrom(at.k, at.m + 1))
  BY DEF AssignService, At, Continue
<1>2. PICK k, m, r : k = at.k /\ m = at.m /\ r = resourceId
  OBVIOUS
<1>3. k \in DOMAIN STAFF /\ m \in Nat /\ m + 1 \in Nat
  BY <1>1, <1>2 DEF PositionInv, ResourceLabels
<1>4. /\ r \in DOMAIN schedules' /\ schedules'[r] = "seed"
      /\ \A n \in DOMAIN STAFF[k].services : n < m => <<r, serviceIdByName[STAFF[k].services[n]]>> \in links'
      /\ <<r, serviceIdByName[STAFF[k].services[m]]>> \in links'
  BY <1>1, <1>2 DEF ResourcesInv
<1>5. \A n \in DOMAIN STAFF[k].services : n < m + 1 => n < m \/ n = m
  BY <1>3, CatalogFacts
<1>6. \A n \in DOMAIN STAFF[k].services : n < m + 1 => <<r, serviceIdByName[STAFF[k].services[n]]>> \in links'
  BY <1>4, <1>5
<1>7. Grows
  BY <1>1 DEF Grows
<1> QED
  BY <1>1, <1>2, <1>3, <1>4, <1>6, <1>7, AssignmentsHold

(* A command that has read nothing, and come past nothing.                 *)
LEMMA ForgottenHolds ==
  ASSUME DemoTypes, at'.do \in {"findOrganization", "listServices", "end"}, Forget, Grows
  PROVE  ServicesInv' /\ ResourcesInv'
  BY DEF Forget, None, ServicesInv, ResourcesInv, ServiceLabels, AfterServices, ResourceLabels

LEMMA DemoStepHolds ==
  ASSUME RowsTypes, DemoTypes, PositionInv, IdsInv, NamesInv, ServicesInv, ResourcesInv, DemoStep, ~Fail
  PROVE  DemoHolds'
<1>1. CASE FindOrganization
  <2>1. /\ at' = Position("listServices", 0, 0) /\ at.do = "findOrganization"
        /\ UNCHANGED <<rows, links, schedules, serviceIdByName, resourceIdByName>>
    BY <1>1 DEF FindOrganization, Continue, At, database, reads
  <2>2. at'.do = "listServices"
    BY <2>1 DEF Position
  <2>3. Grows
    BY <2>1 DEF Grows
  <2>4. ServiceIds' /\ ResourceIds'
    BY <2>1, <2>3, IdsStay DEF ServicesInv, ServiceIds, ResourcesInv, ResourceIds
  <2> QED
    BY <2>2, <2>4 DEF DemoHolds, ServicesInv, ServiceIds, ResourcesInv, ResourceIds,
         ServiceLabels, AfterServices, ResourceLabels, End, Position
<1> QED
  BY <1>1, ListServicesHolds, CreateServiceHolds, ListOptionsHolds, CreateOptionHolds,
       ListResourcesHolds, CreateResourceHolds, ReplaceScheduleHolds, AssignServiceHolds DEF DemoStep

(* As far as the demo has come, its catalogue stands, and in the end the   *)
(* whole of it, unless the owner edits it meanwhile.                       *)
LEMMA DemoInvHolds ==
  ASSUME ServerTypes, RowsTypes, DemoTypes, PositionInv, PositionInv', IdsInv, NamesInv, DemoInv, DemoStands,
         [DeploymentNext]_deploymentVars
  PROVE  DemoInv' /\ DemoStands'
<1>1. ASSUME UNCHANGED <<rows, links, schedules, at, command, ends, meddled>>,
             UNCHANGED <<serviceIdByName, optionNames, resourceIdByName>>
      PROVE  DemoInv' /\ DemoStands'
  BY <1>1 DEF DemoInv, DemoStands, ServicesInv, ResourcesInv, ServiceStands, ResourceStands, Has, Named,
       serviceId, resourceId
<1>2. CASE Edit \/ SetSchedule
  <2>1. meddled' = TRUE
    BY <1>2 DEF Edit, SetSchedule
  <2> QED
    BY <2>1 DEF DemoInv, DemoStands
<1>3. ASSUME NEW c \in Commands[env], Run(c) PROVE DemoInv' /\ DemoStands'
  <2>1. /\ command' = c /\ at' = StartOf(c) /\ Forget
        /\ ends' = IF StartOf(c) = End THEN "done" ELSE "running"
        /\ UNCHANGED <<rows, links, schedules>>
    BY <1>3 DEF Run, database
  <2>2. CASE c = "seedDemo"
    <3>1. at' = Position("findOrganization", 0, 0)
      BY <2>1, <2>2 DEF StartOf
    <3>2. at'.do = "findOrganization" /\ ends' = "running"
      BY <2>1, <3>1 DEF Position, End
    <3>3. Grows
      BY <2>1 DEF Grows
    <3> QED
      BY <2>1, <3>2, <3>3, ForgottenHolds DEF DemoInv, DemoStands
  <2>3. CASE c # "seedDemo"
    BY <2>1, <2>3 DEF DemoInv, DemoStands
  <2> QED
    BY <2>2, <2>3
<1>4. ASSUME Fail PROVE DemoInv' /\ DemoStands'
  <2>1. at' = End /\ ends' = "failed" /\ Forget /\ UNCHANGED <<rows, links, schedules>>
    BY <1>4 DEF Fail, database
  <2>2. at'.do = "end"
    BY <2>1 DEF End, Position
  <2>3. Grows
    BY <2>1 DEF Grows
  <2> QED
    BY <2>1, <2>2, <2>3, ForgottenHolds DEF DemoInv, DemoStands
<1>5. CASE PlanStep
  <2>1. command # "seedDemo" /\ command' = command
    BY <1>5, AtFacts DEF PlanStep, FindPlan, SavePlan, Register, Continue
  <2> QED
    BY <2>1 DEF DemoInv, DemoStands
<1>6. CASE DemoStep /\ ~Fail
  <2>1. command = "seedDemo" /\ UNCHANGED <<command, meddled>>
    BY <1>6, AtFacts DEF DemoStep, FindOrganization, ListServices, CreateService, ListOptions, CreateOption,
         ListResources, CreateResource, ReplaceSchedule, AssignService, Continue
  <2>2. ~meddled => DemoHolds'
    BY <1>6, <2>1, DemoStepHolds DEF DemoInv
  <2>3. ends' = "done" => at' = End
    BY DEF PositionInv, Running
  <2> QED
    BY <2>1, <2>2, <2>3 DEF DemoInv, DemoStands, DemoHolds, AllStands
<1> QED
  BY <1>1, <1>2, <1>3, <1>4, <1>5, <1>6
  DEF DeploymentNext, deploymentVars, database, progress, reads, Deploy, Accept, Start, Stop, Migrate, Die
-----------------------------------------------------------------------------
(* An installation                                                         *)

(* The inductive invariant of the commands, the server and the terms.      *)
DeploymentInv ==
  /\ DeploymentTypes /\ PositionInv /\ StartInv
  /\ IdsInv /\ NamesInv /\ NothingTwice /\ DemoInv /\ DemoStands
  /\ PlansInv /\ TermsInv

(* It holds of every database that may be there.                           *)
LEMMA DeploymentStarts == DeploymentInit => DeploymentInv
<1> SUFFICES ASSUME DeploymentInit PROVE DeploymentInv
  OBVIOUS
<1>1. at.do = "end" /\ at.k = 0 /\ at.m = 0 /\ at = End
  BY DEF DeploymentInit, End, Position
<1>2. PICK d \in Databases[env] : migrated = d.migrated /\ plans = d.plans /\ organized = d.organized
  BY DEF DeploymentInit
<1>3. env \in Environments /\ MaxEdits \in Nat
  BY DeploymentAssumption DEF DeploymentInit
<1>4. /\ {migrated, organized} \subseteq BOOLEAN
      /\ DOMAIN plans \subseteq Ids /\ plans \in [DOMAIN plans -> [name : STRING, price : Nat]]
      /\ \A k \in DOMAIN PLAN_CATALOG : \A i, j \in RowsOf(PLAN_CATALOG[k]) : i = j
  BY <1>2, <1>3, DeploymentAssumption DEF RowsOf
<1>5. ServerTypes
  <2>1. edits = 0 /\ meddled = FALSE /\ 0 \in 0 .. MaxEdits
    BY <1>3 DEF DeploymentInit
  <2>2. /\ server \in {"down", "up", "refused", "broken"}
        /\ command \in {"none", "seed", "fixPlans", "seedDemo"}
    BY DEF DeploymentInit
  <2>3. ends \in {"-", "running", "done", "failed"}
    BY DEF DeploymentInit
  <2> QED
    BY <1>3, <1>4, <2>1, <2>2, <2>3 DEF ServerTypes
<1>6. PlansTypes /\ RowsTypes
  BY <1>4, NoneFacts DEF DeploymentInit, PlansTypes, RowsTypes
<1>7. DemoTypes
  BY NoneFacts DEF DeploymentInit, DemoTypes
<1>8. TermsTypes
  <2>1. acceptances \in Seq([version : Versions[env], by : Clicks])
    BY DEF DeploymentInit
  <2>2. build \in Versions[env] /\ reverted \in BOOLEAN
    BY DEF DeploymentInit
  <2> QED
    BY <2>1, <2>2 DEF TermsTypes
<1>9. PositionInv
  <2>1. ~Running
    BY DEF DeploymentInit, Running
  <2>2. at \in [do : Labels, k : Nat, m : Nat]
    BY <1>1 DEF End, Position, Labels
  <2> QED
    BY <1>1, <2>1, <2>2 DEF PositionInv, PlanLabels, ServiceLabels, ResourceLabels
<1>10. StartInv /\ DemoInv /\ DemoStands /\ TermsInv
  BY DEF DeploymentInit, StartInv, DemoInv, DemoStands, TermsInv
<1>11. IdsInv
  BY <1>1 DEF IdsInv, ServiceLabels, AfterServices, ResourceLabels
<1>12. NamesInv
  BY <1>1 DEF NamesInv, ServiceLabels, ResourceLabels
<1>13. NothingTwice
  BY NoneFacts DEF DeploymentInit, NothingTwice
<1>14. PlansInv
  BY <1>1, <1>4 DEF DeploymentInit, PlansInv, PlanLabels, Reconciled
<1> QED
  BY <1>5, <1>6, <1>7, <1>8, <1>9, <1>10, <1>11, <1>12, <1>13, <1>14 DEF DeploymentInv, DeploymentTypes

(* Whatever is deployed, run, killed and run again, in any order and while *)
(* the owner edits: the inductive invariant holds.                         *)
THEOREM DeploymentInvariance == DeploymentSpec => []DeploymentInv
<1>1. ASSUME DeploymentInv, [DeploymentNext]_deploymentVars PROVE DeploymentInv'
  <2>1. /\ ServerTypes /\ PlansTypes /\ RowsTypes /\ DemoTypes /\ TermsTypes
        /\ PositionInv /\ StartInv /\ IdsInv /\ NamesInv /\ NothingTwice /\ DemoInv /\ DemoStands
        /\ PlansInv /\ TermsInv
    BY <1>1 DEF DeploymentInv, DeploymentTypes
  <2>2. PositionInv'
    BY <1>1, <2>1, PositionsHold
  <2>3. ServerTypes' /\ PlansTypes' /\ RowsTypes' /\ DemoTypes' /\ TermsTypes'
    BY <1>1, <2>1, ServerTypesHold, PlansTypesHold, RowsTypesHold, DemoTypesHold, TermsTypesHold
  <2>4. StartInv' /\ IdsInv' /\ NamesInv' /\ NothingTwice' /\ TermsInv'
    BY <1>1, <2>1, StartHolds, IdsHold, KnownNamesHold, NothingTwiceHolds, TermsHold
  <2>5. DemoInv' /\ DemoStands'
    BY <1>1, <2>1, <2>2, DemoInvHolds
  <2>6. PlansInv'
    BY <1>1, <2>1, <2>2, PlansHold
  <2> QED
    BY <2>2, <2>3, <2>4, <2>5, <2>6 DEF DeploymentInv, DeploymentTypes
<1> QED
  BY <1>1, DeploymentStarts, PTL DEF DeploymentSpec

(* validateEnv, validateRelations and the constructors of the providers: a *)
(* server that is up has read from its configuration what they need,       *)
(* though the numbers were checked by another parser than the one that     *)
(* reads them (and are known where the two read them alike).               *)
THEOREM StartsConfigured == DeploymentSpec => []Configured
<1>1. DeploymentInv => Configured
  BY StartConfigures DEF DeploymentInv
<1> QED
  BY <1>1, DeploymentInvariance, PTL

(* seedDemo, "idempotent and re-executable": whatever a run was killed at  *)
(* and whatever the owner has renamed since, nothing is inserted twice.    *)
THEOREM SeedsNothingTwice == DeploymentSpec => []NothingTwice
<1>1. DeploymentInv => NothingTwice
  BY DEF DeploymentInv
<1> QED
  BY <1>1, DeploymentInvariance, PTL

(* A seedDemo that ends well has made or found the whole catalogue, with   *)
(* the options of each service, the schedule and the assignments of each   *)
(* resource, unless the owner has edited it meanwhile.                     *)
THEOREM DemoIsSeeded == DeploymentSpec => []DemoStands
<1>1. DeploymentInv => DemoStands
  BY DEF DeploymentInv
<1> QED
  BY <1>1, DeploymentInvariance, PTL

(* reconcilePlans, "instead of creating a duplicate": a plan keeps the one *)
(* row it has, under the one name or the other, and its price is           *)
(* corrected.                                                              *)
THEOREM PlansAreReconciled == DeploymentSpec => []PlansReconciled
<1>1. ASSUME DeploymentInv, NEW k \in DOMAIN PLAN_CATALOG
      PROVE  Cardinality(RowsOf(PLAN_CATALOG[k])) <= 1 /\ (Reconciled => Priced(PLAN_CATALOG[k]))
  <2>1. \A i, j \in RowsOf(PLAN_CATALOG[k]) : i = j
    BY <1>1 DEF DeploymentInv, PlansInv
  <2>2. RowsOf(PLAN_CATALOG[k]) = {} \/ \E i : RowsOf(PLAN_CATALOG[k]) = {i}
    BY <2>1
  <2>3. Cardinality(RowsOf(PLAN_CATALOG[k])) \in {0, 1}
    BY <2>2, FS_EmptySet, FS_Singleton
  <2> QED
    BY <1>1, <2>3 DEF DeploymentInv, PlansInv
<1>2. DeploymentInv => PlansReconciled
  BY <1>1 DEF PlansReconciled
<1> QED
  BY <1>2, DeploymentInvariance, PTL

(* TermsService.requiresAcceptance, which looks at the last acceptance     *)
(* only: as long as no older build comes back, it asks those who have not  *)
(* accepted the current version, and nobody else.                          *)
THEOREM GateStaysOpen == DeploymentSpec => []GateOpens
<1>1. DeploymentInv => GateOpens
  BY TermsOpen DEF DeploymentInv, DeploymentTypes
<1> QED
  BY <1>1, DeploymentInvariance, PTL

(* ON CONFLICT (organization, version) DO NOTHING: what was accepted, and  *)
(* by whose click, is never overwritten.                                   *)
THEOREM EvidenceIsKept == DeploymentSpec => EvidenceStands
<1>1. ASSUME TermsTypes, [DeploymentNext]_deploymentVars, NEW k \in DOMAIN acceptances
      PROVE  k \in DOMAIN acceptances' /\ acceptances'[k] = acceptances[k]
  <2>1. ASSUME NEW click \in Clicks, Accept(click) PROVE k \in DOMAIN acceptances' /\ acceptances'[k] = acceptances[k]
    <3>1. CASE acceptances' = acceptances
      BY <3>1
    <3>2. CASE acceptances' = Append(acceptances, [version |-> build, by |-> click])
      <4>1. acceptances \in Seq([version : Versions[env], by : Clicks])
            /\ [version |-> build, by |-> click] \in [version : Versions[env], by : Clicks]
        BY <1>1 DEF TermsTypes
      <4> QED
        BY <3>2, <4>1
    <3> QED
      BY <2>1, <3>1, <3>2 DEF Accept, Record
  <2>2. CASE UNCHANGED acceptances
    BY <2>2
  <2> QED
    BY <1>1, <2>1, <2>2, CommandsKeep
    DEF DeploymentNext, deploymentVars, terms, Deploy, Start, Stop, Edit, SetSchedule, Migrate
<1>2. DeploymentInv /\ [DeploymentNext]_deploymentVars =>
        [\A k \in DOMAIN acceptances : k \in DOMAIN acceptances' /\ acceptances'[k] = acceptances[k]]_deploymentVars
  BY <1>1 DEF DeploymentInv, DeploymentTypes
<1> QED
  BY <1>2, DeploymentInvariance, PTL DEF DeploymentSpec, EvidenceStands
=============================================================================
