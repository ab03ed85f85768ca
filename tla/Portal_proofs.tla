---------------------------- MODULE Portal_proofs ----------------------------
(***************************************************************************)
(* What an e-mail address stands for, proved for any catalog, any clients  *)
(* and any number of requests.                                             *)
(***************************************************************************)
EXTENDS Portal, TLAPS

(* Who bears an e-mail goes on bearing it.                                 *)
Lasting == \A c, email : Bears(c, email) => Bears(c, email)'

(* Requests that read: whatever they will save of a client has an e-mail.  *)
LEMMA BeginKeeps ==
  ASSUME FunctionInv, RequestInv,
         NEW q \in Requests, NEW id, NEW row, NEW patch, Begin(q, id, row, patch),
         id \in Clients => "email" \in DOMAIN row
  PROVE  /\ RequestInv'
         /\ request' = [p \in Requests |-> request'[p]]
         /\ rows' = rows
<1>1. request' = [request EXCEPT ![q] = [step |-> "save", id |-> id, row |-> row, patch |-> patch]]
  BY DEF Begin
<1>2. DOMAIN request = Requests
  BY DEF FunctionInv
<1>3. request' = [p \in Requests |-> request'[p]]
  BY <1>1, <1>2
<1>4. ASSUME NEW p \in Saving', request'[p].id \in Clients
      PROVE  "email" \in DOMAIN request'[p].row
  <2>1. p \in Requests /\ request'[p].step = "save"
    BY <1>4, <1>3 DEF Saving
  <2>2. CASE p = q
    BY <1>1, <1>2, <1>4, <2>2
  <2>3. CASE p # q
    BY <1>1, <1>2, <1>4, <2>1, <2>3 DEF RequestInv, Saving
  <2> QED BY <2>2, <2>3
<1> QED BY <1>3, <1>4 DEF RequestInv, Begin

(* A request that ends without a save leaves the rows and the others.      *)
LEMMA DoneKeeps ==
  ASSUME FunctionInv, RequestInv, NEW q \in Requests,
         request' = [request EXCEPT ![q] = Done]
  PROVE  RequestInv' /\ request' = [p \in Requests |-> request'[p]]
<1>1. DOMAIN request = Requests
  BY DEF FunctionInv
<1>2. request' = [p \in Requests |-> request'[p]]
  BY <1>1
<1>3. ASSUME NEW p \in Saving'
      PROVE  p \in Saving /\ request'[p] = request[p]
  <2>1. request'[p].step = "save" /\ p \in Requests
    BY <1>3, <1>2 DEF Saving
  <2>2. p # q
    BY <1>1, <2>1 DEF Done
  <2> QED BY <1>1, <2>1, <2>2 DEF Saving
<1> QED BY <1>2, <1>3 DEF RequestInv

(* No save lists the e-mail among the columns that a conflict updates.     *)
LEMMA EmailIsNotSaved == \A id : "email" \notin Saved(id)
  BY DEF Saved, Service_save, Option_save, Resource_save, Client_save

(* The row of a client that is there keeps its e-mail; a new one has that  *)
(* of the request, which the index has found with nobody else.             *)
LEMMA SaveKeeps ==
  ASSUME FunctionInv, RequestInv, ClientInv, NEW q \in Requests, Save(q)
  PROVE  /\ RequestInv' /\ request' = [p \in Requests |-> request'[p]]
         /\ ClientInv' /\ Lasting
<1> DEFINE id == request[q].id
           row == request[q].row
<1>1. /\ ~Taken(id, row)
      /\ rows' = Put(rows, id, Written(id, row))
      /\ request' = [request EXCEPT ![q] = Done]
      /\ q \in Saving
  BY DEF Save, Upsert, Saving, FunctionInv
<1>2. RequestInv' /\ request' = [p \in Requests |-> request'[p]]
  BY <1>1, DoneKeeps
<1>3. DOMAIN rows' = DOMAIN rows \union {id} /\ rows'[id] = Written(id, row)
  BY <1>1 DEF Put
<1>4. \A c \in DOMAIN rows : c # id => rows'[c] = rows[c]
  BY <1>1 DEF Put
<1>5. id \in Clients => "email" \in DOMAIN row
  BY <1>1 DEF RequestInv
<1>6. ASSUME id \in Clients
      PROVE  /\ "email" \in DOMAIN rows'[id]
             /\ id \in DOMAIN rows => rows'[id].email = rows[id].email
             /\ id \notin DOMAIN rows => rows'[id].email = row.email
  BY <1>3, <1>5, <1>6, EmailIsNotSaved DEF Written
<1>7. \A c \in Clients \intersect DOMAIN rows : c \in DOMAIN rows' /\ rows'[c].email = rows[c].email
  BY <1>3, <1>4, <1>6
<1>8. Lasting
  BY <1>7 DEF Lasting, Bears
<1>9. \A c \in Clients \intersect DOMAIN rows' : "email" \in DOMAIN rows'[c]
  BY <1>3, <1>4, <1>6 DEF ClientInv
<1>10. ASSUME NEW c \in Clients \intersect DOMAIN rows', NEW d \in Clients \intersect DOMAIN rows',
              rows'[c].email = rows'[d].email
       PROVE  c = d
  <2>1. CASE c \in DOMAIN rows /\ d \in DOMAIN rows
    BY <1>7, <1>10, <2>1 DEF ClientInv, OneClientPerEmail
  <2>2. CASE c \notin DOMAIN rows /\ d \in DOMAIN rows
    <3>1. c = id /\ id \in Clients /\ id \notin DOMAIN rows
      BY <1>3, <2>2
    <3>2. rows[d].email = row.email /\ d # id
      BY <3>1, <1>6, <1>7, <1>10, <2>2
    <3> QED BY <3>1, <3>2, <1>1, <2>2 DEF Taken
  <2>3. CASE c \in DOMAIN rows /\ d \notin DOMAIN rows
    <3>1. d = id /\ id \in Clients /\ id \notin DOMAIN rows
      BY <1>3, <2>3
    <3>2. rows[c].email = row.email /\ c # id
      BY <3>1, <1>6, <1>7, <1>10, <2>3
    <3> QED BY <3>1, <3>2, <1>1, <2>3 DEF Taken
  <2>4. CASE c \notin DOMAIN rows /\ d \notin DOMAIN rows
    BY <1>3, <2>4
  <2> QED BY <2>1, <2>2, <2>3, <2>4
<1> QED BY <1>2, <1>8, <1>9, <1>10 DEF ClientInv, OneClientPerEmail
-----------------------------------------------------------------------------
(* The edits, which are of rows that are there or are to be.               *)

LEMMA CreateKeeps ==
  ASSUME FunctionInv, RequestInv, NEW q \in Requests, NEW id, NEW row, Create(q, id, row),
         id \in Clients => "email" \in DOMAIN row
  PROVE  RequestInv' /\ request' = [p \in Requests |-> request'[p]] /\ rows' = rows
  BY BeginKeeps DEF Create

LEMMA FindKeeps ==
  ASSUME FunctionInv, RequestInv, ClientInv, NEW q \in Requests, NEW id, NEW patch, Find(q, id, patch)
  PROVE  RequestInv' /\ request' = [p \in Requests |-> request'[p]] /\ rows' = rows
<1>1. id \in DOMAIN rows /\ Begin(q, id, Patched(rows[id], patch), patch)
  BY DEF Find
<1>2. id \in Clients => "email" \in DOMAIN Patched(rows[id], patch)
  BY <1>1 DEF ClientInv, Patched
<1> QED BY <1>1, <1>2, BeginKeeps

LEMMA EditKeeps ==
  ASSUME FunctionInv, RequestInv, ClientInv, NEW q \in Requests,
         EditServices(q) \/ EditResources(q) \/ EditClients(q)
  PROVE  RequestInv' /\ request' = [p \in Requests |-> request'[p]] /\ rows' = rows
<1>1. CASE CreateService(q)
  <2>1. PICK s \in Fresh(Services), n \in Names : Create(q, s, Service_create(n))
    BY <1>1 DEF CreateService
  <2>2. s \notin Clients
    BY DirectoryNames DEF Fresh
  <2> QED BY <2>1, <2>2, CreateKeeps
<1>2. CASE CreateOption(q)
  <2>1. PICK s \in Services \intersect DOMAIN rows, o \in Fresh(Options), n \in Names, d \in Durations :
          Create(q, o, Option_create(s, n, d))
    BY <1>2 DEF CreateOption
  <2>2. o \notin Clients
    BY DirectoryNames DEF Fresh
  <2> QED BY <2>1, <2>2, CreateKeeps
<1>3. CASE CreateResource(q)
  <2>1. PICK r \in Fresh(Resources), n \in Names : Create(q, r, Resource_create(n))
    BY <1>3 DEF CreateResource
  <2>2. r \notin Clients
    BY DirectoryNames DEF Fresh
  <2> QED BY <2>1, <2>2, CreateKeeps
<1>4. CASE CreateClient(q)
  <2>1. PICK email \in Emails, c \in Fresh(Clients), n \in Names :
          Create(q, c, Client_create(email, n))
    BY <1>4 DEF CreateClient
  <2> QED BY <2>1, CreateKeeps DEF Client_create
<1>5. CASE UpdateService(q) \/ UpdateOption(q) \/ UpdateResource(q) \/ UpdateClient(q)
  <2>1. PICK id, patch : Find(q, id, patch)
    BY <1>5 DEF UpdateService, UpdateOption, UpdateResource, UpdateClient
  <2> QED BY <2>1, FindKeeps
<1>6. CASE \E r \in Resources, s \in Services : Assign(q, r, s) \/ Remove(q, r, s)
  BY <1>6, DoneKeeps DEF Assign, Remove
<1> QED BY <1>1, <1>2, <1>3, <1>4, <1>5, <1>6 DEF EditServices, EditResources, EditClients

LEMMA ProfileKeeps ==
  ASSUME FunctionInv, RequestInv, ClientInv, NEW q \in Requests, NEW email, UpdateProfile(q, email)
  PROVE  RequestInv' /\ request' = [p \in Requests |-> request'[p]] /\ rows' = rows
<1>1. CASE \E c \in FindByEmail(email), n \in Names : Find(q, c, [name |-> n])
  BY <1>1, FindKeeps
<1>2. CASE \E c \in Fresh(Clients), n \in Names : Create(q, c, Client_create(email, n))
  BY <1>2, CreateKeeps DEF Client_create
<1> QED BY <1>1, <1>2 DEF UpdateProfile
-----------------------------------------------------------------------------
(* The rows as they were bear what they bore.                              *)
LEMMA SameRows ==
  ASSUME ClientInv, rows' = rows
  PROVE  ClientInv' /\ Lasting
  BY DEF ClientInv, OneClientPerEmail, Lasting, Bears

(* What only edits the directory keeps the rest.                           *)
LEMMA PortalKeeps ==
  ASSUME Inv, UNCHANGED portal, Lasting, RequestInv', ClientInv',
         request' = [p \in Requests |-> request'[p]]
  PROVE  Inv'
<1>1. VisitInv'
  BY DEF Inv, VisitInv, portal, Lasting
<1>2. AppointmentInv'
  BY DEF Inv, AppointmentInv, portal, Lasting
<1> QED BY <1>1, <1>2 DEF Inv, FunctionInv, portal

LEMMA StaffKeeps == Inv /\ Staff => Inv'
<1> SUFFICES ASSUME Inv, Staff PROVE Inv'
  OBVIOUS
<1>1. FunctionInv /\ RequestInv /\ ClientInv /\ UNCHANGED portal
  BY DEF Inv, Staff
<1>2. PICK q \in Requests :
        EditServices(q) \/ EditResources(q) \/ EditClients(q) \/ Save(q) \/ FailSave(q)
  BY DEF Staff
<1>3. CASE EditServices(q) \/ EditResources(q) \/ EditClients(q)
  BY <1>1, <1>3, EditKeeps, SameRows, PortalKeeps
<1>4. CASE Save(q)
  BY <1>1, <1>4, SaveKeeps, PortalKeeps
<1>5. CASE FailSave(q)
  <2>1. rows' = rows /\ request' = [request EXCEPT ![q] = Done]
    BY <1>5 DEF FailSave
  <2> QED BY <1>1, <2>1, DoneKeeps, SameRows, PortalKeeps
<1> QED BY <1>2, <1>3, <1>4, <1>5

(* A visit's own steps.                                                    *)
LEMMA VisitKeeps ==
  ASSUME Inv, NEW v \in Visits, NEW email,
         FindClient(v, email) \/ Book(v) \/ Refuse(v)
  PROVE  Inv'
<1>1. UNCHANGED directory /\ RequestInv' /\ ClientInv'
  <2>1. UNCHANGED directory
    BY DEF FindClient, Book, Refuse
  <2> QED BY <2>1 DEF Inv, directory, RequestInv, Saving, ClientInv, OneClientPerEmail
<1>2. \A c, e : Bears(c, e)' <=> Bears(c, e)
  BY <1>1 DEF directory, Bears
<1>3. DOMAIN visit = Visits /\ request' = [p \in Requests |-> request'[p]]
  BY <1>1 DEF Inv, FunctionInv, directory
<1>4. CASE FindClient(v, email)
  <2>1. PICK c \in FindByEmail(email) :
          visit' = [visit EXCEPT ![v] = [step |-> "book", by |-> email, client |-> c]]
    BY <1>4 DEF FindClient
  <2>2. Bears(c, email)
    BY DEF FindByEmail, Bears
  <2>3. VisitInv'
    BY <1>2, <1>3, <2>1, <2>2 DEF Inv, VisitInv
  <2>4. AppointmentInv'
    BY <1>2, <1>4 DEF Inv, AppointmentInv, FindClient
  <2>5. FunctionInv'
    BY <1>3, <2>1 DEF FunctionInv
  <2> QED BY <1>1, <2>3, <2>4, <2>5 DEF Inv
<1>5. CASE Book(v)
  <2>1. PICK s \in Services, o \in Options, r \in Resources :
          LET a == [client |-> visit[v].client, by |-> visit[v].by, option |-> o, resource |-> r]
          IN appointments' = appointments \union {a} /\ unread' = unread \union {a}
    BY <1>5 DEF Book
  <2>2. visit[v].step = "book" /\ visit' = [visit EXCEPT ![v] = Done] /\ opened' = opened
    BY <1>5 DEF Book
  <2>3. Bears(visit[v].client, visit[v].by)
    BY <2>2 DEF Inv, VisitInv
  <2>4. VisitInv'
    BY <1>2, <1>3, <2>2 DEF Inv, VisitInv, Done
  <2> DEFINE new == [client |-> visit[v].client, by |-> visit[v].by, option |-> o, resource |-> r]
  <2>5. AppointmentInv'
    <3>1. appointments' = appointments \union {new} /\ unread' = unread \union {new}
      BY <2>1
    <3>2. Bears(new.client, new.by)
      BY <2>3
    <3>3. ASSUME NEW a \in appointments'
          PROVE  Bears(a.client, a.by) /\ (a \in unread' \/ <<a.by, a>> \in opened')
      <4> HIDE DEF new
      <4>1. CASE a = new
        BY <3>1, <3>2, <4>1
      <4>2. CASE a \in appointments
        BY <2>2, <3>1, <4>2 DEF Inv, AppointmentInv
      <4> QED BY <3>1, <4>1, <4>2
    <3>4. \A a \in appointments' : Bears(a.client, a.by)'
      BY <1>2, <3>3
    <3> QED BY <3>3, <3>4 DEF AppointmentInv
  <2>6. FunctionInv'
    BY <1>3, <2>2 DEF FunctionInv
  <2> QED BY <1>1, <2>4, <2>5, <2>6 DEF Inv
<1>6. CASE Refuse(v)
  <2>1. visit' = [visit EXCEPT ![v] = Done]
    BY <1>6 DEF Refuse
  <2>2. VisitInv'
    BY <1>2, <1>3, <2>1 DEF Inv, VisitInv, Done
  <2>3. AppointmentInv'
    BY <1>2, <1>6 DEF Inv, AppointmentInv, Refuse
  <2>4. FunctionInv'
    BY <1>3, <2>1 DEF FunctionInv
  <2> QED BY <1>1, <2>2, <2>3, <2>4 DEF Inv
<1> QED BY <1>4, <1>5, <1>6

(* An item is marked for the client that it is of, who bears the e-mail of *)
(* who booked: the one who opens it.                                       *)
LEMMA MarkKeeps ==
  ASSUME Inv, NEW email \in Emails, NEW item \in appointments, MarkRead(email, item)
  PROVE  Inv'
<1>1. PICK c \in FindByEmail(email) : unread' = MarkedRead(c, item)
  BY DEF MarkRead
<1>2. opened' = opened \union {<<email, item>>}
      /\ UNCHANGED <<directory, publicBookingEnabled, appointments, visit>>
  BY DEF MarkRead
<1>3. RequestInv' /\ ClientInv' /\ VisitInv' /\ FunctionInv'
  BY <1>2 DEF Inv, directory, RequestInv, Saving, ClientInv, OneClientPerEmail, VisitInv, Bears, FunctionInv
<1>4. ASSUME NEW a \in appointments
      PROVE  Bears(a.client, a.by)' /\ (a \in unread \/ <<a.by, a>> \in opened)'
  <2>1. Bears(a.client, a.by) /\ (a \in unread \/ <<a.by, a>> \in opened)
    BY <1>4 DEF Inv, AppointmentInv
  <2>2. CASE a = item /\ a.client = c
    <3>1. a.by = email
      BY <2>1, <2>2 DEF Bears, FindByEmail
    <3> QED BY <1>2, <2>1, <2>2, <3>1 DEF directory, Bears
  <2>3. CASE ~(a = item /\ a.client = c)
    BY <1>1, <1>2, <2>1, <2>3 DEF directory, Bears, MarkedRead
  <2> QED BY <2>2, <2>3
<1> QED BY <1>2, <1>3, <1>4 DEF Inv, AppointmentInv
-----------------------------------------------------------------------------
LEMMA PortalInitial == PortalInit => Inv
<1> SUFFICES ASSUME PortalInit PROVE Inv
  OBVIOUS
<1>1. FunctionInv /\ VisitInv /\ AppointmentInv
  BY DEF PortalInit, Init, FunctionInv, VisitInv, AppointmentInv, Idle
<1>2. Saving = {}
  BY DEF PortalInit, Init, Saving, Idle
<1>3. ClientInv
  BY InitialClients DEF PortalInit, Init, ClientInv, OneClientPerEmail
<1> QED BY <1>1, <1>2, <1>3 DEF Inv, RequestInv

LEMMA PortalStep == Inv /\ [Next]_vars => Inv'
<1> SUFFICES ASSUME Inv, [Next]_vars PROVE Inv'
  OBVIOUS
<1>1. CASE Staff
  BY <1>1, StaffKeeps
<1>2. CASE \E q \in Requests, email \in Emails : UpdateProfile(q, email)
  <2>1. FunctionInv /\ RequestInv /\ ClientInv /\ UNCHANGED portal
    BY <1>2 DEF Inv, UpdateProfile
  <2> QED BY <1>2, <2>1, ProfileKeeps, SameRows, PortalKeeps
<1>3. CASE \E v \in Visits : (\E email \in Emails : FindClient(v, email)) \/ Book(v) \/ Refuse(v)
  BY <1>3, VisitKeeps
<1>4. CASE \E email \in Emails, item \in appointments : MarkRead(email, item)
  BY <1>4, MarkKeeps
<1>5. CASE UpdateBooking \/ UNCHANGED vars
  BY <1>5 DEF Inv, UpdateBooking, vars, portal, directory, FunctionInv, RequestInv, Saving,
              ClientInv, OneClientPerEmail, VisitInv, AppointmentInv, Bears
<1> QED BY <1>1, <1>2, <1>3, <1>4, <1>5 DEF Next, Customer

(* Whoever a request or an appointment refers to bears the e-mail by which *)
(* they were found, and no e-mail has two clients: of every behaviour.     *)
THEOREM PortalInvariance == Spec => []Inv
<1>1. PortalInit => Inv
  BY PortalInitial
<1>2. Inv /\ [Next]_vars => Inv'
  BY PortalStep
<1> QED BY <1>1, <1>2, PTL DEF Spec

(* Email identifies a client within its organization: neither two profiles *)
(* created at once nor any edit leaves two clients of one e-mail.          *)
THEOREM EmailIdentifies == Spec => []OneClientPerEmail
<1>1. Inv => OneClientPerEmail
  BY DEF Inv, ClientInv
<1> QED BY <1>1, PortalInvariance, PTL

(* Customers, found by their e-mail in every request, see the appointments *)
(* that they booked and no others, and what they have not opened is unread.*)
THEOREM CustomersSeeTheirOwn == Spec => []EachTheirOwn
<1>1. Inv => EachTheirOwn
  <2> SUFFICES ASSUME Inv PROVE EachTheirOwn
    OBVIOUS
  <2>1. ASSUME NEW a \in appointments
        PROVE  a.client \in FindByEmail(a.by) /\ (a \in unread \/ <<a.by, a>> \in opened)
    BY <2>1 DEF Inv, AppointmentInv, Bears, FindByEmail
  <2>2. \A a \in appointments : GetAppointment(a.by, a)
    BY <2>1 DEF GetAppointment
  <2>3. \A email \in Emails : \A a \in ListAppointments(email) : a.by = email
    BY <2>1 DEF ListAppointments, FindByEmail
  <2>4. \A a \in appointments : a \in CountUnread(a.by) \/ <<a.by, a>> \in opened
    BY <2>1 DEF CountUnread
  <2> QED BY <2>2, <2>3, <2>4 DEF EachTheirOwn
<1> QED BY <1>1, PortalInvariance, PTL
-----------------------------------------------------------------------------
(* The edits that stick.                                                   *)

(* What a patch brings and the page shows, the save of its kind lists.     *)
LEMMA PatchesAreListed ==
  /\ \A s \in Services, p \in Service_update : Lists(s, p)
  /\ \A o \in Options, p \in Option_update : Lists(o, p)
  /\ \A r \in Resources, p \in Resource_update : Lists(r, p)
  /\ \A c \in Clients, p \in Client_update : Lists(c, p)
  /\ \A c \in Clients : \A n : Lists(c, [name |-> n])
<1>1. \A columns : \A p \in Patches(columns) : DOMAIN p \subseteq columns
  BY DEF Patches
<1>2. \A s \in Services : Saved(s) = {"name", "active"}
  BY DEF Saved, Service_save
<1>3. \A o \in Options : Saved(o) = {"duration", "active"}
  BY DirectoryNames DEF Saved, Option_save
<1>4. \A r \in Resources : Saved(r) = {"name", "active"}
  BY DirectoryNames DEF Saved, Service_save, Resource_save
<1>5. \A c \in Clients : Saved(c) = {"name", "active"}
  BY DirectoryNames DEF Saved, Client_save
<1>6. ASSUME NEW s \in Services, NEW p \in Service_update PROVE Lists(s, p)
  BY <1>1, <1>2 DEF Service_update, Lists
<1>7. ASSUME NEW o \in Options, NEW p \in Option_update PROVE Lists(o, p)
  BY <1>1, <1>3 DEF Option_update, Lists, Shown
<1>8. ASSUME NEW r \in Resources, NEW p \in Resource_update PROVE Lists(r, p)
  BY <1>1, <1>4 DEF Resource_update, Lists
<1>9. ASSUME NEW c \in Clients, NEW p \in Client_update PROVE Lists(c, p)
  BY <1>1, <1>5 DEF Client_update, Lists
<1>10. ASSUME NEW c \in Clients, NEW n PROVE Lists(c, [name |-> n])
  BY <1>5 DEF Lists
<1> QED BY <1>6, <1>7, <1>8, <1>9, <1>10

(* An edit creates a row, or finds one and patches it.                     *)
LEMMA EditsAre ==
  ASSUME NEW q \in Requests,
         \/ EditServices(q) \/ EditResources(q) \/ EditClients(q)
         \/ \E email \in Emails : UpdateProfile(q, email)
  PROVE  \/ \E id, row : Create(q, id, row)
         \/ \E id, patch : Lists(id, patch) /\ Find(q, id, patch)
         \/ \E r \in Resources, s \in Services : Assign(q, r, s) \/ Remove(q, r, s)
<1>1. CASE EditServices(q)
  BY <1>1, PatchesAreListed DEF EditServices, CreateService, UpdateService, CreateOption, UpdateOption
<1>2. CASE EditResources(q)
  BY <1>2, PatchesAreListed DEF EditResources, CreateResource, UpdateResource
<1>3. CASE EditClients(q)
  BY <1>3, PatchesAreListed DEF EditClients, CreateClient, UpdateClient
<1>4. CASE \E email \in Emails : UpdateProfile(q, email)
  BY <1>4, PatchesAreListed DEF UpdateProfile, FindByEmail
<1> QED BY <1>1, <1>2, <1>3, <1>4

(* While nothing is written, fewer rows are without a race.                *)
LEMMA SameTables ==
  ASSUME DirectoryInv, UNCHANGED <<rows, agreed>>, raced \subseteq raced'
  PROVE  PatchSticks' /\ SameColumns'
  BY DEF DirectoryInv, PatchSticks, SameColumns

(* A request that begins overlaps whoever is about to save the same row.   *)
LEMMA BeginSticks ==
  ASSUME DirectoryInv, NEW q \in Requests, NEW id, NEW row, NEW patch, Begin(q, id, row, patch),
         id \in DOMAIN rows => Lists(id, patch) /\ row = Patched(rows[id], patch),
         id \notin DOMAIN rows => \A p \in Saving : request[p].id # id
  PROVE  DirectoryInv'
<1>1. /\ request[q].step = "idle" /\ UNCHANGED <<rows, links, agreed>>
      /\ request' = [request EXCEPT ![q] = [step |-> "save", id |-> id, row |-> row, patch |-> patch]]
      /\ raced' = IF \E p \in Saving : request[p].id = id THEN raced \union {id} ELSE raced
  BY DEF Begin
<1>2. DOMAIN request = Requests
  BY DEF DirectoryInv
<1>3. q \notin Saving /\ Saving' = Saving \union {q}
  BY <1>1, <1>2 DEF Saving
<1>4. /\ \A p \in Saving : request'[p] = request[p]
      /\ request'[q] = [step |-> "save", id |-> id, row |-> row, patch |-> patch]
  BY <1>1, <1>2, <1>3
<1>5. request' = [p \in Requests |-> request'[p]]
  BY <1>1, <1>2
<1>6. raced \subseteq raced'
  BY <1>1
<1>7. OverlapInv'
  <2>1. ASSUME NEW p \in Saving, request[p].id = id
        PROVE  id \in DOMAIN rows' \intersect raced'
    BY <1>1, <2>1
  <2>2. \A p, r \in Saving : p # r /\ request[p].id = request[r].id => request[r].id \in DOMAIN rows' \intersect raced'
    BY <1>1, <1>6 DEF DirectoryInv, OverlapInv
  <2>3. SUFFICES ASSUME NEW p \in Saving', NEW r \in Saving', p # r, request'[p].id = request'[r].id
                 PROVE  request'[r].id \in DOMAIN rows' \intersect raced'
    BY DEF OverlapInv
  <2>4. CASE p \in Saving /\ r \in Saving
    BY <1>4, <2>2, <2>3, <2>4
  <2>5. CASE p = q
    <3>1. r \in Saving /\ request[r].id = id /\ request'[r].id = id
      BY <1>3, <1>4, <2>3, <2>5
    <3> QED BY <3>1, <2>1
  <2>6. CASE r = q
    <3>1. p \in Saving /\ request[p].id = id /\ request'[r].id = id
      BY <1>3, <1>4, <2>3, <2>6
    <3> QED BY <3>1, <2>1
  <2> QED BY <1>3, <2>4, <2>5, <2>6
<1>8. PatchInv'
  <2>1. SUFFICES ASSUME NEW p \in Saving', request'[p].id \in DOMAIN rows'
                 PROVE  /\ Lists(request'[p].id, request'[p].patch)
                        /\ request'[p].id \notin raced' =>
                             request'[p].row = Patched(rows'[request'[p].id], request'[p].patch)
    BY DEF PatchInv, Lists, Shown, Saved, Service_save, Option_save, Resource_save, Client_save
  <2>2. CASE p = q
    BY <1>1, <1>4, <2>1, <2>2
  <2>3. CASE p \in Saving
    BY <1>1, <1>4, <1>6, <2>1, <2>3 DEF DirectoryInv, PatchInv
  <2> QED BY <1>3, <2>2, <2>3
<1> QED BY <1>1, <1>5, <1>6, <1>7, <1>8, SameTables DEF DirectoryInv

(* A request that ends without a save.                                     *)
LEMMA DoneSticks ==
  ASSUME DirectoryInv, NEW q \in Requests, request' = [request EXCEPT ![q] = Done],
         UNCHANGED <<rows, agreed, raced>>
  PROVE  DirectoryInv'
<1>1. DOMAIN request = Requests
  BY DEF DirectoryInv
<1>2. request' = [p \in Requests |-> request'[p]]
  BY <1>1
<1>3. Saving' \subseteq Saving /\ \A p \in Saving' : request'[p] = request[p]
  <2>1. SUFFICES ASSUME NEW p \in Saving' PROVE p \in Saving /\ request'[p] = request[p]
    OBVIOUS
  <2>2. p # q /\ p \in Requests /\ request'[p].step = "save"
    BY <1>1, <1>2, <2>1 DEF Saving, Done
  <2> QED BY <1>1, <2>2 DEF Saving
<1>4. OverlapInv'
  BY <1>3 DEF DirectoryInv, OverlapInv
<1>5. PatchInv'
  BY <1>3 DEF DirectoryInv, PatchInv
<1> QED BY <1>2, <1>4, <1>5, SameTables DEF DirectoryInv

(* A save writes of the row what its edit has patched.                     *)
LEMMA SaveSticks ==
  ASSUME DirectoryInv, NEW q \in Requests, Save(q)
  PROVE  DirectoryInv'
<1> DEFINE id == request[q].id
           row == request[q].row
           patch == request[q].patch
<1>1. /\ rows' = Put(rows, id, Written(id, row))
      /\ agreed' = Put(agreed, id, IF id \in DOMAIN rows THEN Patched(agreed[id], patch) ELSE row)
      /\ request' = [request EXCEPT ![q] = Done]
      /\ raced' = raced
      /\ q \in Saving
  BY DEF Save, Upsert, Saving, DirectoryInv
<1>2. DOMAIN request = Requests
  BY DEF DirectoryInv
<1>3. request' = [p \in Requests |-> request'[p]]
  BY <1>1, <1>2
<1>4. \A p \in Saving' : p \in Saving /\ p # q /\ request'[p] = request[p]
  <2>1. SUFFICES ASSUME NEW p \in Saving' PROVE p \in Saving /\ p # q /\ request'[p] = request[p]
    OBVIOUS
  <2>2. p # q /\ p \in Requests /\ request'[p].step = "save"
    BY <1>1, <1>2, <1>3, <2>1 DEF Saving, Done
  <2> QED BY <1>1, <1>2, <2>2 DEF Saving
<1>5. /\ DOMAIN rows' = DOMAIN rows \union {id}
      /\ rows'[id] = Written(id, row)
      /\ agreed'[id] = IF id \in DOMAIN rows THEN Patched(agreed[id], patch) ELSE row
      /\ \A i \in DOMAIN rows : i # id => rows'[i] = rows[i]
  BY <1>1 DEF Put
<1>6. /\ DOMAIN rows' \subseteq DOMAIN agreed'
      /\ \A i \in DOMAIN rows : i # id => agreed'[i] = agreed[i]
  BY <1>1 DEF Put, DirectoryInv, SameColumns
<1>7. ASSUME id \in DOMAIN rows, id \notin raced
      PROVE  /\ DOMAIN rows'[id] = DOMAIN agreed'[id]
             /\ \A c \in DOMAIN rows'[id] : Shown(id, c) => rows'[id][c] = agreed'[id][c]
  <2>1. Lists(id, patch) /\ row = Patched(rows[id], patch)
    BY <1>1, <1>7 DEF DirectoryInv, PatchInv
  <2>2. DOMAIN rows[id] = DOMAIN agreed[id]
        /\ \A c \in DOMAIN rows[id] : Shown(id, c) => rows[id][c] = agreed[id][c]
    BY <1>7 DEF DirectoryInv, PatchSticks, SameColumns
  <2>3. /\ DOMAIN rows'[id] = DOMAIN rows[id] \union DOMAIN patch
        /\ DOMAIN agreed'[id] = DOMAIN agreed[id] \union DOMAIN patch
    BY <1>5, <1>7, <2>1 DEF Written, Patched
  <2>4. ASSUME NEW c \in DOMAIN rows'[id], Shown(id, c)
        PROVE  rows'[id][c] = agreed'[id][c]
    <3>1. rows'[id][c] = IF c \in Saved(id) THEN row[c] ELSE rows[id][c]
      BY <1>5, <1>7, <2>1, <2>3 DEF Written, Patched
    <3>2. row[c] = IF c \in DOMAIN patch THEN patch[c] ELSE rows[id][c]
      BY <2>1, <2>3 DEF Patched
    <3>3. agreed'[id][c] = IF c \in DOMAIN patch THEN patch[c] ELSE agreed[id][c]
      BY <1>5, <1>7, <2>2, <2>3 DEF Patched
    <3>4. CASE c \in DOMAIN patch
      BY <2>1, <2>4, <3>1, <3>2, <3>3, <3>4 DEF Lists
    <3>5. CASE c \notin DOMAIN patch
      BY <2>2, <2>3, <2>4, <3>1, <3>2, <3>3, <3>5
    <3> QED BY <3>4, <3>5
  <2> QED BY <2>2, <2>3, <2>4
<1>8. ASSUME id \notin DOMAIN rows PROVE rows'[id] = row /\ agreed'[id] = row
  BY <1>5, <1>8 DEF Written
<1>9. PatchSticks' /\ SameColumns'
  <2>1. ASSUME NEW i \in DOMAIN rows' \ raced'
        PROVE  /\ DOMAIN rows'[i] = DOMAIN agreed'[i]
               /\ \A c \in DOMAIN rows'[i] : Shown(i, c) => rows'[i][c] = agreed'[i][c]
    <3>1. CASE i # id
      BY <1>1, <1>5, <1>6, <2>1, <3>1 DEF DirectoryInv, PatchSticks, SameColumns
    <3>2. CASE i = id
      BY <1>1, <1>7, <1>8, <2>1, <3>2
    <3> QED BY <3>1, <3>2
  <2> QED BY <1>6, <2>1 DEF PatchSticks, SameColumns, Shown
<1>10. OverlapInv'
  BY <1>1, <1>4, <1>5 DEF DirectoryInv, OverlapInv
<1>11. PatchInv'
  <2>1. SUFFICES ASSUME NEW p \in Saving', request'[p].id \in DOMAIN rows'
                 PROVE  /\ Lists(request'[p].id, request'[p].patch)
                        /\ request'[p].id \notin raced' =>
                             request'[p].row = Patched(rows'[request'[p].id], request'[p].patch)
    BY DEF PatchInv, Lists, Shown, Saved, Service_save, Option_save, Resource_save, Client_save
  <2>2. p \in Saving /\ p # q /\ request'[p] = request[p]
    BY <1>4, <2>1
  <2>3. CASE request[p].id = id
    <3>1. id \in DOMAIN rows \intersect raced
      BY <1>1, <2>2, <2>3 DEF DirectoryInv, OverlapInv
    <3> QED BY <1>1, <2>2, <2>3, <3>1 DEF DirectoryInv, PatchInv
  <2>4. CASE request[p].id # id
    BY <1>1, <1>5, <2>1, <2>2, <2>4 DEF DirectoryInv, PatchInv
  <2> QED BY <2>3, <2>4
<1> QED BY <1>3, <1>9, <1>10, <1>11 DEF DirectoryInv

LEMMA EditSticks ==
  ASSUME DirectoryInv, NEW q \in Requests,
         \/ EditServices(q) \/ EditResources(q) \/ EditClients(q)
         \/ \E email \in Emails : UpdateProfile(q, email)
  PROVE  DirectoryInv'
<1>1. CASE \E id, row : Create(q, id, row)
  <2>1. PICK id, row : Create(q, id, row)
    BY <1>1
  <2>2. Begin(q, id, row, row) /\ id \notin DOMAIN rows /\ \A p \in Saving : request[p].id # id
    BY <2>1 DEF Create, Fresh
  <2> QED BY <2>2, BeginSticks
<1>2. CASE \E id, patch : Lists(id, patch) /\ Find(q, id, patch)
  <2>1. PICK id, patch : Lists(id, patch) /\ Find(q, id, patch)
    BY <1>2
  <2>2. Begin(q, id, Patched(rows[id], patch), patch) /\ id \in DOMAIN rows
    BY <2>1 DEF Find
  <2> QED BY <2>1, <2>2, BeginSticks
<1>3. CASE \E r \in Resources, s \in Services : Assign(q, r, s) \/ Remove(q, r, s)
  BY <1>3, DoneSticks DEF Assign, Remove
<1> QED BY <1>1, <1>2, <1>3, EditsAre

LEMMA DirectoryStep == DirectoryInv /\ [Next]_vars => DirectoryInv'
<1> SUFFICES ASSUME DirectoryInv, [Next]_vars PROVE DirectoryInv'
  OBVIOUS
<1>1. CASE \E q \in Requests : EditServices(q) \/ EditResources(q) \/ EditClients(q)
  BY <1>1, EditSticks
<1>2. CASE \E q \in Requests, email \in Emails : UpdateProfile(q, email)
  BY <1>2, EditSticks
<1>3. CASE \E q \in Requests : Save(q)
  BY <1>3, SaveSticks
<1>4. CASE \E q \in Requests : FailSave(q)
  BY <1>4, DoneSticks DEF FailSave
<1>5. CASE UNCHANGED directory
  BY <1>5 DEF directory, DirectoryInv, PatchSticks, SameColumns, OverlapInv, PatchInv, Saving, Lists,
              Shown, Saved, Service_save, Option_save, Resource_save, Client_save
<1>6. CASE UpdateBooking \/ UNCHANGED vars
  BY <1>5, <1>6 DEF UpdateBooking, vars
<1>7. CASE \E v \in Visits : (\E email \in Emails : FindClient(v, email)) \/ Book(v) \/ Refuse(v)
  BY <1>5, <1>7 DEF FindClient, Book, Refuse
<1>8. CASE \E email \in Emails, item \in appointments : MarkRead(email, item)
  BY <1>5, <1>8 DEF MarkRead
<1> QED BY <1>1, <1>2, <1>3, <1>4, <1>6, <1>7, <1>8 DEF Next, Staff, Customer

(* An answered edit stays until another edit of its column, whoever edits  *)
(* other rows or other columns meanwhile: unless two edits of the row have *)
(* overlapped, and but for the names of options.                           *)
THEOREM EditsStick == Spec => []PatchSticks
<1>1. PortalInit => DirectoryInv
  <2> SUFFICES ASSUME PortalInit PROVE DirectoryInv
    OBVIOUS
  <2>1. Saving = {} /\ request = [q \in Requests |-> request[q]] /\ rows = agreed
    BY DEF PortalInit, Init, Saving, Idle
  <2> QED BY <2>1 DEF DirectoryInv, PatchSticks, SameColumns, OverlapInv, PatchInv
<1>2. DirectoryInv /\ [Next]_vars => DirectoryInv'
  BY DirectoryStep
<1>3. DirectoryInv => PatchSticks
  BY DEF DirectoryInv
<1> QED BY <1>1, <1>2, <1>3, PTL DEF Spec
=============================================================================
