------------------------------- MODULE Portal -------------------------------
(***************************************************************************)
(* The customer portal beside the staff's edits of the directory.  A       *)
(* customer is known by the e-mail address that a one-time code proved;    *)
(* every request looks its client up by that address, and what it then     *)
(* does goes by the client's id.  (Whether the slot is free is Booking's   *)
(* matter; here an appointment is what ties a client to the catalog.)      *)
(***************************************************************************)
EXTENDS Directory

CONSTANT Visits   \* requests of customers

VARIABLES
  publicBookingEnabled,
  appointments,   \* [client, by, option, resource]: by is the e-mail of who booked
  unread,         \* items of the feed, one for each appointment
  opened,         \* <<email, item>>: who has marked what (history)
  visit           \* visit[v]: a booking that has found its client

portal == <<publicBookingEnabled, appointments, unread, opened, visit>>
vars == <<directory, portal>>

PortalInit ==
  /\ Init
  /\ publicBookingEnabled = TRUE
  /\ appointments = {} /\ unread = {} /\ opened = {}
  /\ visit = [v \in Visits |-> Idle]
-----------------------------------------------------------------------------
(* The profile: patched when there is a client, created when not.  It is   *)
(* saved like any other row.                                               *)
UpdateProfile(q, email) ==
  /\ \/ \E c \in FindByEmail(email), n \in Names : Find(q, c, [name |-> n])
     \/ /\ FindByEmail(email) = {}
        /\ \E c \in Fresh(Clients), n \in Names : Create(q, c, Client_create(email, n))
  /\ UNCHANGED portal

UpdateBooking ==
  /\ publicBookingEnabled' = ~publicBookingEnabled
  /\ UNCHANGED <<directory, appointments, unread, opened, visit>>

(* A booking without a profile is refused.                                 *)
FindClient(v, email) ==
  /\ visit[v].step = "idle" /\ publicBookingEnabled
  /\ \E c \in FindByEmail(email) :
       visit' = [visit EXCEPT ![v] = [step |-> "book", by |-> email, client |-> c]]
  /\ UNCHANGED <<directory, publicBookingEnabled, appointments, unread, opened>>

Book(v) ==
  /\ visit[v].step = "book"
  /\ visit[v].client \in DOMAIN rows
  /\ \E s \in Services, o \in Options, r \in Resources :
       /\ Bookable(s, o, r)
       /\ LET a == [client |-> visit[v].client, by |-> visit[v].by, option |-> o, resource |-> r]
          IN appointments' = appointments \union {a} /\ unread' = unread \union {a}
  /\ visit' = [visit EXCEPT ![v] = Done]
  /\ UNCHANGED <<directory, publicBookingEnabled, opened>>

(* Refused: the slot, the service or the resource is not to be had.        *)
Refuse(v) ==
  /\ visit[v].step = "book"
  /\ visit' = [visit EXCEPT ![v] = Done]
  /\ UNCHANGED <<directory, publicBookingEnabled, appointments, unread, opened>>

ListAppointments(email) == {a \in appointments : a.client \in FindByEmail(email)}

GetAppointment(email, a) == \E c \in FindByEmail(email) : a \in appointments /\ a.client = c

CountUnread(email) == {i \in unread : i.client \in FindByEmail(email)}

(* The update names the recipient as well as the item.                     *)
MarkedRead(c, item) == {i \in unread : ~(i = item /\ i.client = c)}

MarkRead(email, item) ==
  /\ \E c \in FindByEmail(email) : unread' = MarkedRead(c, item)
  /\ opened' = opened \union {<<email, item>>}
  /\ UNCHANGED <<directory, publicBookingEnabled, appointments, visit>>
-----------------------------------------------------------------------------
Staff ==
  /\ \E q \in Requests :
       EditServices(q) \/ EditResources(q) \/ EditClients(q) \/ Save(q) \/ FailSave(q)
  /\ UNCHANGED portal

Customer ==
  \/ \E q \in Requests, email \in Emails : UpdateProfile(q, email)
  \/ \E v \in Visits : (\E email \in Emails : FindClient(v, email)) \/ Book(v) \/ Refuse(v)
  \/ \E email \in Emails, item \in appointments : MarkRead(email, item)

Next == Staff \/ Customer \/ UpdateBooking

Spec == PortalInit /\ [][Next]_vars
-----------------------------------------------------------------------------
TypeOK ==
  /\ DOMAIN rows \subseteq Ids /\ DOMAIN rows \subseteq DOMAIN agreed
  /\ \A o \in Options \intersect DOMAIN rows :
       rows[o].service \in DOMAIN rows /\ rows[o].duration \in Durations \ {0}
  /\ links \subseteq (Resources \X Services) \intersect ((DOMAIN rows) \X (DOMAIN rows))
  /\ unread \subseteq appointments
  /\ \A a \in appointments : {a.option, a.resource} \subseteq DOMAIN rows

(* A customer finds in the portal all the appointments that they booked    *)
(* and nobody else's, whoever creates or edits clients meanwhile, and what *)
(* they have not opened themselves stays unread.                           *)
EachTheirOwn ==
  /\ \A a \in appointments : GetAppointment(a.by, a)
  /\ \A email \in Emails : \A a \in ListAppointments(email) : a.by = email
  /\ \A a \in appointments : a \in CountUnread(a.by) \/ <<a.by, a>> \in opened

(* The inductive invariant behind it.  A client's e-mail is in every row   *)
(* that is written of them, and no write changes it; so whoever a request  *)
(* has found by an e-mail still bears it when the request is through.      *)
RequestInv ==
  \A q \in Saving : request[q].id \in Clients => "email" \in DOMAIN request[q].row

ClientInv ==
  /\ \A c \in Clients \intersect DOMAIN rows : "email" \in DOMAIN rows[c]
  /\ OneClientPerEmail

Bears(c, email) == c \in Clients \intersect DOMAIN rows /\ rows[c].email = email

VisitInv == \A v \in Visits : visit[v].step = "book" => Bears(visit[v].client, visit[v].by)

AppointmentInv == \A a \in appointments :
  /\ Bears(a.client, a.by)
  /\ a \in unread \/ <<a.by, a>> \in opened

FunctionInv ==
  /\ request = [q \in Requests |-> request[q]]
  /\ visit = [v \in Visits |-> visit[v]]

Inv == FunctionInv /\ RequestInv /\ ClientInv /\ VisitInv /\ AppointmentInv
=============================================================================
