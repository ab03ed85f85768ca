------------------------------ MODULE Directory ------------------------------
(***************************************************************************)
(* What an organization keeps about its business: services, their options, *)
(* resources, the links of the two, and clients.  A row is edited in two   *)
(* statements with no transaction around them: an entity is found, patched *)
(* in memory and saved as a whole, by an INSERT that on conflict updates   *)
(* the columns that the repository lists.  Requests interleave between the *)
(* two.                                                                    *)
(*                                                                         *)
(* Of the columns there are those that behave differently: name stands for *)
(* all that are only shown (description, color, WhatsApp...), duration for *)
(* the price too, active for a client's status.                            *)
(***************************************************************************)
EXTENDS Naturals

CONSTANTS
  Services, Options, Resources, Clients,  \* ids of rows
  Names, Durations, Emails,
  Initial,     \* the rows at the start, by id
  Requests     \* of staff

Ids == Services \union Options \union Resources \union Clients

ASSUME DirectoryAssumption ==
  /\ Durations \subseteq Nat
  /\ DOMAIN Initial \subseteq Ids
ASSUME DirectoryNames ==
  /\ Clients \intersect (Services \union Options \union Resources) = {}
  /\ Options \intersect (Services \union Resources) = {}
ASSUME InitialClients ==
  /\ \A c \in Clients \intersect DOMAIN Initial : "email" \in DOMAIN Initial[c]
  /\ \A c, d \in Clients \intersect DOMAIN Initial : Initial[c].email = Initial[d].email => c = d
-----------------------------------------------------------------------------
VARIABLES
  rows,       \* rows[id], for the ids that there are
  links,      \* <<resource, service>>
  request,    \* request[q]: what it is about to save
  agreed,     \* agreed[id]: the row that the answers so far amount to (history)
  raced       \* rows of which two edits have overlapped (history)

directory == <<rows, links, request, agreed, raced>>

(* f with value at id, whether or not there was one.                       *)
Put(f, id, value) == [i \in DOMAIN f \union {id} |-> IF i = id THEN value ELSE f[i]]
Patched(row, patch) ==
  [c \in DOMAIN row \union DOMAIN patch |-> IF c \in DOMAIN patch THEN patch[c] ELSE row[c]]

Idle == [step |-> "idle"]
Done == [step |-> "done"]

Init ==
  /\ rows = Initial /\ agreed = Initial
  /\ links = {<<r, s>> : r \in Resources \intersect DOMAIN Initial,
                         s \in Services \intersect DOMAIN Initial}
  /\ request = [q \in Requests |-> Idle]
  /\ raced = {}

Saving == {q \in DOMAIN request : request[q].step = "save"}
(* randomUUID                                                              *)
Fresh(S) == {i \in S \ DOMAIN rows : \A q \in Saving : request[q].id # i}
-----------------------------------------------------------------------------
(* What the entities accept                                                *)

ValuesOf(column) ==
  IF column = "name" THEN Names ELSE IF column = "active" THEN BOOLEAN ELSE Durations

(* (A patch of several columns is patches of one: a bound.)                *)
Patches(columns) == UNION {[{c} -> ValuesOf(c)] : c \in columns}

assertDuration(row) == row.duration > 0

Service_create(name) == [name |-> name, active |-> TRUE]
Option_create(s, name, d) == [service |-> s, name |-> name, duration |-> d, active |-> TRUE]
Resource_create(name) == [name |-> name, active |-> TRUE]
Client_create(email, name) == [email |-> email, name |-> name, active |-> TRUE]

Service_update == Patches({"name", "active"})
Option_update == Patches({"name", "duration", "active"})
Resource_update == Patches({"name", "active"})
Client_update == Patches({"name", "active"})

(* The columns that each save updates.                                     *)
Service_save == {"name", "active"}
Option_save == {"duration", "active"}
Client_save == {"name", "active"}

(* Mutant: a column is missing.                                            *)
Resource_save_NoActive == {"name"}
Resource_save == {"name", "active"}

Saved(id) ==
  IF id \in Services THEN Service_save ELSE IF id \in Options THEN Option_save
  ELSE IF id \in Resources THEN Resource_save ELSE Client_save

(* The unique indexes: services by name, clients by e-mail.                *)
Taken(id, row) ==
  \/ id \in Services /\ \E i \in (Services \intersect DOMAIN rows) \ {id} : rows[i].name = row.name
  \/ id \in Clients /\ \E i \in (Clients \intersect DOMAIN rows) \ {id} : rows[i].email = row.email

(* What the row of id is when row has been saved.                          *)
Written(id, row) ==
  IF id \in DOMAIN rows
    THEN [c \in DOMAIN row |-> IF c \in Saved(id) THEN row[c] ELSE rows[id][c]]
    ELSE row

(* Mutant: on the e-mail's conflict the new row takes the other's place.   *)
Upsert_ByEmail(id, row) ==
  LET others == {i \in (Clients \intersect DOMAIN rows) \ {id} : id \in Clients /\ rows[i].email = row.email}
  IN rows' = Put([i \in DOMAIN rows \ others |-> rows[i]], id, Written(id, row))

(* INSERT ... ON CONFLICT (id) DO UPDATE                                   *)
Upsert(id, row) ==
  /\ ~Taken(id, row)
  /\ rows' = Put(rows, id, Written(id, row))
-----------------------------------------------------------------------------
(* An edit                                                                 *)

Begin(q, id, row, patch) ==
  /\ request[q].step = "idle"
  /\ request' = [request EXCEPT ![q] = [step |-> "save", id |-> id, row |-> row, patch |-> patch]]
  /\ raced' = IF \E p \in Saving : request[p].id = id THEN raced \union {id} ELSE raced
  /\ UNCHANGED <<rows, links, agreed>>

Create(q, id, row) == id \in Fresh(Ids) /\ Begin(q, id, row, row)

Find(q, id, patch) == id \in DOMAIN rows /\ Begin(q, id, Patched(rows[id], patch), patch)

Save(q) ==
  LET r == request[q] IN
  /\ r.step = "save"
  /\ Upsert(r.id, r.row)
  /\ agreed' = Put(agreed, r.id, IF r.id \in DOMAIN rows THEN Patched(agreed[r.id], r.patch) ELSE r.row)
  /\ request' = [request EXCEPT ![q] = Done]
  /\ UNCHANGED <<links, raced>>

(* The statement fails, on an index or for any other reason; nothing is    *)
(* saved and the answer is an error.                                       *)
FailSave(q) ==
  /\ request[q].step = "save"
  /\ request' = [request EXCEPT ![q] = Done]
  /\ UNCHANGED <<rows, links, agreed, raced>>
-----------------------------------------------------------------------------
CreateService(q) == \E s \in Fresh(Services), n \in Names : Create(q, s, Service_create(n))

UpdateService(q) == \E s \in Services, p \in Service_update : Find(q, s, p)

CreateOption(q) ==
  \E s \in Services \intersect DOMAIN rows, o \in Fresh(Options), n \in Names, d \in Durations :
    LET option == Option_create(s, n, d) IN assertDuration(option) /\ Create(q, o, option)

UpdateOption(q) ==
  \E o \in Options \intersect DOMAIN rows, p \in Option_update :
    assertDuration(Patched(rows[o], p)) /\ Find(q, o, p)

EditServices(q) == CreateService(q) \/ UpdateService(q) \/ CreateOption(q) \/ UpdateOption(q)

CreateResource(q) == \E r \in Fresh(Resources), n \in Names : Create(q, r, Resource_create(n))

UpdateResource(q) == \E r \in Resources, p \in Resource_update : Find(q, r, p)

(* Nothing happens when the link is there already.                         *)
Assign(q, r, s) ==
  /\ request[q].step = "idle"
  /\ r \in DOMAIN rows /\ s \in DOMAIN rows
  /\ links' = links \union {<<r, s>>}
  /\ request' = [request EXCEPT ![q] = Done]
  /\ UNCHANGED <<rows, agreed, raced>>

Remove(q, r, s) ==
  /\ request[q].step = "idle"
  /\ links' = links \ {<<r, s>>}
  /\ request' = [request EXCEPT ![q] = Done]
  /\ UNCHANGED <<rows, agreed, raced>>

EditResources(q) ==
  \/ CreateResource(q) \/ UpdateResource(q)
  \/ \E r \in Resources, s \in Services : Assign(q, r, s) \/ Remove(q, r, s)

FindByEmail(email) == {c \in Clients \intersect DOMAIN rows : rows[c].email = email}

CreateClient(q) ==
  \E email \in Emails, c \in Fresh(Clients), n \in Names :
    FindByEmail(email) = {} /\ Create(q, c, Client_create(email, n))

UpdateClient(q) == \E c \in Clients, p \in Client_update : Find(q, c, p)

EditClients(q) == CreateClient(q) \/ UpdateClient(q)
-----------------------------------------------------------------------------
(* What the public page shows: services with an active option, and the     *)
(* resources that give a service.                                          *)

Active(S) == {i \in S \intersect DOMAIN rows : rows[i].active}

ListServices ==
  {offer \in Active(Services) \X Active(Options) : rows[offer[2]].service = offer[1]}

ListResources(s) == {r \in Active(Resources) : <<r, s>> \in links}

(* What CreateAppointment demands of the three.                            *)
Bookable(s, o, r) ==
  /\ s \in Active(Services)
  /\ o \in Active(Options) /\ rows[o].service = s
  /\ r \in Active(Resources)
  /\ <<r, s>> \in links
-----------------------------------------------------------------------------
Shown(id, column) == ~(id \in Options /\ column = "name")

(* An edit that has been answered stays: while no two edits of a row       *)
(* overlap, each column has the value that the last edit of it gave,       *)
(* whatever else has been edited in between.                               *)
PatchSticks ==
  \A id \in DOMAIN rows \ raced : \A c \in DOMAIN rows[id] :
    Shown(id, c) => rows[id][c] = agreed[id][c]

(* The inductive invariant behind it.  Of a row that no two edits of have  *)
(* overlapped, an edit holds the row as it is with its patch, and of the   *)
(* patch the save lists all that is shown; a row that is not there yet is  *)
(* being created by one request only.                                      *)
SameColumns ==
  /\ DOMAIN rows \subseteq DOMAIN agreed
  /\ \A id \in DOMAIN rows \ raced : DOMAIN rows[id] = DOMAIN agreed[id]

OverlapInv ==
  \A p, q \in Saving : p # q /\ request[p].id = request[q].id => request[q].id \in DOMAIN rows \intersect raced

Lists(id, patch) == \A c \in DOMAIN patch : Shown(id, c) => c \in Saved(id)

PatchInv == \A q \in Saving :
  LET r == request[q] IN r.id \in DOMAIN rows =>
    /\ Lists(r.id, r.patch)
    /\ r.id \notin raced => r.row = Patched(rows[r.id], r.patch)

DirectoryInv ==
  /\ request = [q \in Requests |-> request[q]]
  /\ PatchSticks /\ SameColumns
  /\ OverlapInv
  /\ PatchInv

(* "Renombrar una opción": the new name that the answer shows is kept.     *)
RenameSticks ==
  \A o \in (Options \intersect DOMAIN rows) \ raced : rows[o].name = agreed[o].name

(* "Email identifies a client within its organization".                    *)
OneClientPerEmail ==
  \A c, d \in Clients \intersect DOMAIN rows : rows[c].email = rows[d].email => c = d

(* The public page and the booking agree on what may be booked.            *)
ShownIsBookable ==
  \A s \in Services, o \in Options, r \in Resources :
    Bookable(s, o, r) <=> <<s, o>> \in ListServices /\ r \in ListResources(s)
=============================================================================
