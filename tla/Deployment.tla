----------------------------- MODULE Deployment -----------------------------
(***************************************************************************)
(* How an installation comes up: the server, and the commands that fill    *)
(* its database, pnpm db:seed (the plans and the first organization),      *)
(* pnpm db:fix-plans (the plans alone) and pnpm db:seed:demo (a catalogue  *)
(* of services and resources).  All of them create the application, so     *)
(* none starts in an environment that does not validate; none has a        *)
(* transaction around it, and each is run again after it dies.  With the   *)
(* server comes the version of the terms of service that its build asks    *)
(* the organizations to accept.                                            *)
(***************************************************************************)
EXTENDS Environment, FiniteSets, Sequences

CONSTANTS
  Environments,
  Databases,      \* Databases[e]: what there may be when e is first deployed
  Commands,       \* Commands[e]: those that are run under e
  Versions,       \* Versions[e]: of the terms, in the builds that run under e
  Clicks,         \* requests of the owner to accept: the evidence of each
  PLAN_CATALOG,   \* a sequence of [name, price, legacyNames]
  CATALOG,        \* a sequence of [service, options]
  STAFF,          \* a sequence of [name, services]
  Ids,            \* of the rows
  OtherName,      \* what the owner renames to
  MaxEdits        \* bound

(* The plans that may be the row of a definition.                          *)
PlansNamed(S, def) == {i \in DOMAIN S : S[i].name \in {def.name} \union def.legacyNames}

(* The catalogues of the code: no option twice in a service, no name of    *)
(* two plans, no service that is not there.                                *)
ASSUME CatalogAssumption ==
  /\ PLAN_CATALOG \in Seq([name : STRING, price : Nat, legacyNames : SUBSET STRING])
  /\ CATALOG \in Seq([service : STRING, options : Seq(STRING)])
  /\ STAFF \in Seq([name : STRING, services : Seq(STRING)])
  /\ \A k, l \in DOMAIN PLAN_CATALOG :
       ({PLAN_CATALOG[k].name} \union PLAN_CATALOG[k].legacyNames)
         \intersect ({PLAN_CATALOG[l].name} \union PLAN_CATALOG[l].legacyNames) # {} => k = l
  /\ \A k \in DOMAIN CATALOG : \A m, n \in DOMAIN CATALOG[k].options :
       CATALOG[k].options[m] = CATALOG[k].options[n] => m = n
  /\ \A d \in DOMAIN STAFF : \A m \in DOMAIN STAFF[d].services :
       \E k \in DOMAIN CATALOG : CATALOG[k].service = STAFF[d].services[m]

(* What was deployed before has each plan once at most.                    *)
ASSUME DeploymentAssumption ==
  /\ MaxEdits \in Nat /\ OtherName \in STRING
  /\ \A e \in Environments :
       /\ Versions[e] \subseteq Nat /\ Commands[e] \subseteq {"seed", "fixPlans", "seedDemo"}
       /\ \A d \in Databases[e] :
            /\ {d.migrated, d.organized} \subseteq BOOLEAN
            /\ DOMAIN d.plans \subseteq Ids
            /\ d.plans \in [DOMAIN d.plans -> [name : STRING, price : Nat]]
            /\ \A k \in DOMAIN PLAN_CATALOG : \A i, j \in PlansNamed(d.plans, PLAN_CATALOG[k]) : i = j
-----------------------------------------------------------------------------
VARIABLES
  env,
  server,      \* "down", "up", or how its start ended: "refused", "broken"
  migrated,    \* whether the schema has the columns of the options' names
  plans,       \* plans[id]: [name, price]
  organized,   \* whether the demo's organization is registered
  rows,        \* rows[id]: [kind, name, of, active]; of an option, its service
  links,       \* <<resource, service>>
  schedules,   \* schedules[id]: whose the schedule of a resource is
  build,       \* CURRENT_TERMS_VERSION of the build that is deployed
  acceptances, \* <<[version, by]>>: rows by their accepted_at
  reverted,    \* an older build has replaced a newer one (history)
  command,     \* the command that is run, or was run last
  ends,        \* how it ended, if it has
  at,          \* the statement that it comes to next, and how far its loops are
  found, serviceIdByName, optionNames, resourceIdByName,  \* what it has read
  edits,       \* of the owner, so far
  meddled      \* there has been one since the command started (history)

database == <<migrated, plans, organized, rows, links, schedules>>
terms == <<build, acceptances, reverted>>
reads == <<found, serviceIdByName, optionNames, resourceIdByName>>
progress == <<command, ends, at>>
deploymentVars == <<env, server, database, progress, reads, edits, meddled, terms>>

Running == ends = "running"

(* f with value at x, whether or not there was one.                        *)
Put(f, x, value) == [y \in DOMAIN f \union {x} |-> IF y = x THEN value ELSE f[y]]
None == [x \in {} |-> x]

(* randomUUID                                                              *)
Fresh(f) == CHOOSE i \in Ids \ DOMAIN f : TRUE
Named(kind, name) == {i \in DOMAIN rows : rows[i].kind = kind /\ rows[i].name = name}

Position(do, k, m) == [do |-> do, k |-> k, m |-> m]
End == Position("end", 0, 0)
Forget ==
  found' = {} /\ serviceIdByName' = None /\ optionNames' = {} /\ resourceIdByName' = None

DeploymentInit ==
  /\ env \in Environments /\ server = "down" /\ edits = 0 /\ meddled = FALSE
  /\ command = "none" /\ ends = "-" /\ at = End
  /\ found = {} /\ serviceIdByName = None /\ optionNames = {} /\ resourceIdByName = None
  /\ \E d \in Databases[env] :
       /\ migrated = d.migrated /\ plans = d.plans /\ organized = d.organized
  /\ rows = None /\ links = {} /\ schedules = None
  /\ build \in Versions[env] /\ acceptances = << >> /\ reverted = FALSE
-----------------------------------------------------------------------------
(* The server                                                              *)

(* bootstrap                                                               *)
Start ==
  /\ server = "down"
  /\ server' = IF ~validateEnv(env) THEN "refused" ELSE IF Constructs(env) THEN "up" ELSE "broken"
  /\ UNCHANGED <<env, database, progress, reads, edits, meddled, terms>>

Stop ==
  /\ server = "up"
  /\ server' = "down"
  /\ UNCHANGED <<env, database, progress, reads, edits, meddled, terms>>

(* The owner, through the server: an option keeps its name whatever it is  *)
(* renamed to (see Directory).                                             *)
Edit ==
  /\ server = "up" /\ migrated /\ edits < MaxEdits
  /\ \E i \in DOMAIN rows :
       \/ rows' = [rows EXCEPT ![i].active = FALSE] /\ rows[i].active
       \/ /\ rows[i].kind # "option" /\ rows[i].name # OtherName
          /\ rows[i].kind = "service" => Named("service", OtherName) = {}
          /\ rows' = [rows EXCEPT ![i].name = OtherName]
  /\ edits' = edits + 1 /\ meddled' = TRUE
  /\ UNCHANGED <<env, server, migrated, plans, organized, links, schedules, progress, reads, terms>>

SetSchedule ==
  /\ server = "up" /\ edits < MaxEdits
  /\ \E r \in DOMAIN schedules : schedules[r] = "seed" /\ schedules' = [schedules EXCEPT ![r] = "owner"]
  /\ edits' = edits + 1 /\ meddled' = TRUE
  /\ UNCHANGED <<env, server, migrated, plans, organized, rows, links, progress, reads, terms>>

Migrate ==
  /\ ~migrated /\ migrated' = TRUE
  /\ UNCHANGED <<env, server, plans, organized, rows, links, schedules, progress, reads, edits, meddled, terms>>
-----------------------------------------------------------------------------
(* The commands: what they await next, loop by loop                        *)

(* reconcilePlans, and for seed the registration after it.                 *)
PlansFrom(k, c) ==
  IF k <= Len(PLAN_CATALOG) THEN Position("findPlan", k, 0)
  ELSE IF c = "seed" THEN Position("register", 0, 0) ELSE End

(* seedDemo: the services with their options, the resources with their     *)
(* services.                                                               *)
ServicesFrom(k) ==
  IF k <= Len(CATALOG) THEN Position("service", k, 0) ELSE Position("listResources", 0, 0)
OptionsFrom(k, m) ==
  IF m <= Len(CATALOG[k].options) THEN Position("option", k, m) ELSE ServicesFrom(k + 1)
ResourcesFrom(k) == IF k <= Len(STAFF) THEN Position("resource", k, 0) ELSE End
AssignmentsFrom(k, m) ==
  IF m <= Len(STAFF[k].services) THEN Position("assign", k, m) ELSE ResourcesFrom(k + 1)

StartOf(c) == IF c = "seedDemo" THEN Position("findOrganization", 0, 0) ELSE PlansFrom(1, c)

(* createApplicationContext, as the server's                               *)
Run(c) ==
  /\ ~Running
  /\ validateEnv(env) /\ Constructs(env)
  /\ command' = c /\ at' = StartOf(c)
  /\ ends' = IF StartOf(c) = End THEN "done" ELSE "running"
  /\ meddled' = FALSE
  /\ Forget
  /\ UNCHANGED <<env, server, database, edits, terms>>

At(do) == Running /\ at.do = do

Continue(p) ==
  /\ at' = p
  /\ ends' = IF p = End THEN "done" ELSE "running"
  /\ UNCHANGED <<env, server, command, edits, meddled, terms>>

Fail ==
  /\ ends' = "failed" /\ at' = End
  /\ Forget
  /\ UNCHANGED <<env, server, database, command, edits, meddled, terms>>

(* What a command has read is forgotten at its end.                        *)
Keep(p) == IF p = End THEN Forget ELSE UNCHANGED reads

Definition == PLAN_CATALOG[at.k]
-----------------------------------------------------------------------------
(* reconcilePlans                                                          *)

(* Mutant: the names of old are not looked for.                            *)
findExisting_NoLegacy(def) == {i \in DOMAIN plans : plans[i].name = def.name}

findExisting(def) ==
  LET current == {i \in DOMAIN plans : plans[i].name = def.name}
      legacy == {i \in DOMAIN plans : plans[i].name \in def.legacyNames}
  IN IF current # {} THEN current ELSE legacy

FindPlan ==
  /\ At("findPlan")
  /\ found' = findExisting(Definition)
  /\ Continue(Position("savePlan", at.k, 0))
  /\ UNCHANGED <<database, serviceIdByName, optionNames, resourceIdByName>>

(* save: what ON CONFLICT (id) updates of the row has no name in it, so    *)
(* that a rename is made in memory only.                                   *)
Plan_update(i, def) == plans' = [plans EXCEPT ![i].price = def.price]
Plan_create(def) ==
  Ids \ DOMAIN plans # {} /\ plans' = Put(plans, Fresh(plans), [name |-> def.name, price |-> def.price])

SavePlan ==
  /\ At("savePlan")
  /\ \/ found = {} /\ Plan_create(Definition)
     \/ \E i \in found : Plan_update(i, Definition)
  /\ Continue(PlansFrom(at.k + 1, command))
  /\ Forget
  /\ UNCHANGED <<migrated, organized, rows, links, schedules>>

(* A conflict, which the command takes for done: the slug is that of an    *)
(* earlier registration, or somebody else has the owner's e-mail, and then *)
(* there still is no organization.                                         *)
Register ==
  /\ At("register")
  /\ organized' \in {TRUE, organized}
  /\ Continue(End)
  /\ UNCHANGED <<migrated, plans, rows, links, schedules, reads>>
-----------------------------------------------------------------------------
(* seedDemo                                                                *)

FindOrganization ==
  /\ At("findOrganization")
  /\ \/ organized /\ Continue(Position("listServices", 0, 0)) /\ UNCHANGED <<database, reads>>
     \/ ~organized /\ Fail

(* Mutant: the names of the active rows only.                              *)
IdByName_Active(kind) ==
  [n \in {rows[i].name : i \in {j \in DOMAIN rows : rows[j].kind = kind /\ rows[j].active}} |->
     CHOOSE i \in Named(kind, n) : TRUE]

(* new Map(...): of the rows of one name, one.                             *)
IdByName(kind) ==
  [n \in {rows[i].name : i \in {j \in DOMAIN rows : rows[j].kind = kind}} |->
     CHOOSE i \in Named(kind, n) : TRUE]

ListServices ==
  /\ At("listServices")
  /\ serviceIdByName' = IdByName("service")
  /\ Continue(ServicesFrom(1))
  /\ UNCHANGED <<database, found, optionNames, resourceIdByName>>

ListResources ==
  /\ At("listResources")
  /\ resourceIdByName' = IdByName("resource")
  /\ Continue(ResourcesFrom(1))
  /\ UNCHANGED <<database, found, serviceIdByName, optionNames>>

(* (Ids bounds how many rows there are.)                                   *)
Insert(kind, name, of) ==
  /\ Ids \ DOMAIN rows # {}
  /\ rows' = Put(rows, Fresh(rows), [kind |-> kind, name |-> name, of |-> of, active |-> TRUE])

CreateService ==
  LET name == CATALOG[at.k].service IN
  /\ At("service")
  /\ \/ name \in DOMAIN serviceIdByName /\ UNCHANGED <<rows, serviceIdByName>>
     \/ /\ name \notin DOMAIN serviceIdByName
        /\ Insert("service", name, 0)
        /\ serviceIdByName' = Put(serviceIdByName, name, Fresh(rows))
  /\ Continue(Position("listOptions", at.k, 0))
  /\ UNCHANGED <<migrated, plans, organized, links, schedules, found, optionNames, resourceIdByName>>

(* The id of the entry's service.                                          *)
serviceId == serviceIdByName[CATALOG[at.k].service]

(* Without the columns the query fails: isMissingColumn.                   *)
ListOptions ==
  /\ At("listOptions")
  /\ \/ /\ migrated
        /\ optionNames' = {rows[i].name : i \in {j \in DOMAIN rows :
                             rows[j].kind = "option" /\ rows[j].of = serviceId}}
        /\ Continue(OptionsFrom(at.k, 1))
        /\ UNCHANGED <<database, found, serviceIdByName, resourceIdByName>>
     \/ ~migrated /\ Fail

CreateOption ==
  LET name == CATALOG[at.k].options[at.m] IN
  /\ At("option")
  /\ \/ name \in optionNames /\ UNCHANGED rows
     \/ name \notin optionNames /\ Insert("option", name, serviceId)
  /\ Continue(OptionsFrom(at.k, at.m + 1))
  /\ optionNames' = IF at'.do = "option" THEN optionNames ELSE {}
  /\ UNCHANGED <<migrated, plans, organized, links, schedules, found, serviceIdByName, resourceIdByName>>

CreateResource ==
  LET name == STAFF[at.k].name IN
  /\ At("resource")
  /\ \/ name \in DOMAIN resourceIdByName /\ UNCHANGED <<rows, resourceIdByName>>
     \/ /\ name \notin DOMAIN resourceIdByName
        /\ Insert("resource", name, 0)
        /\ resourceIdByName' = Put(resourceIdByName, name, Fresh(rows))
  /\ Continue(Position("schedule", at.k, 0))
  /\ UNCHANGED <<migrated, plans, organized, links, schedules, found, serviceIdByName, optionNames>>

resourceId == resourceIdByName[STAFF[at.k].name]

(* Mutant: only a resource without a schedule gets one.                    *)
ReplaceSchedule_IfNone ==
  /\ At("schedule")
  /\ schedules' = IF resourceId \in DOMAIN schedules THEN schedules ELSE Put(schedules, resourceId, "seed")
  /\ Continue(AssignmentsFrom(at.k, 1)) /\ Keep(AssignmentsFrom(at.k, 1))
  /\ UNCHANGED <<migrated, plans, organized, rows, links>>

(* The whole schedule is replaced, in a transaction (see Availability).    *)
ReplaceSchedule ==
  /\ At("schedule")
  /\ schedules' = Put(schedules, resourceId, "seed")
  /\ Continue(AssignmentsFrom(at.k, 1)) /\ Keep(AssignmentsFrom(at.k, 1))
  /\ UNCHANGED <<migrated, plans, organized, rows, links>>

AssignService ==
  /\ At("assign")
  /\ links' = links \union {<<resourceId, serviceIdByName[STAFF[at.k].services[at.m]]>>}
  /\ Continue(AssignmentsFrom(at.k, at.m + 1)) /\ Keep(AssignmentsFrom(at.k, at.m + 1))
  /\ UNCHANGED <<migrated, plans, organized, rows, schedules>>
-----------------------------------------------------------------------------
(* The database fails, or the command is killed.                           *)
Die == Running /\ Fail

PlanStep == FindPlan \/ SavePlan \/ Register
DemoStep ==
  \/ FindOrganization \/ ListServices \/ CreateService \/ ListOptions \/ CreateOption
  \/ ListResources \/ CreateResource \/ ReplaceSchedule \/ AssignService

(* TermsService                                                            *)

(* A deploy, forwards or back.                                             *)
Deploy ==
  /\ server = "down"
  /\ build' \in Versions[env] \ {build}
  /\ reverted' = (reverted \/ build' < build)
  /\ UNCHANGED <<env, server, database, progress, reads, edits, meddled, acceptances>>

(* ON CONFLICT (organization, version) DO NOTHING                          *)
Record(version, by) ==
  acceptances' = IF \E k \in DOMAIN acceptances : acceptances[k].version = version THEN acceptances
                 ELSE Append(acceptances, [version |-> version, by |-> by])

(* The server chooses the version, which is its own.  (Acceptances are     *)
(* followed where the builds differ in their version: a bound.)            *)
Accept(click) ==
  /\ server = "up" /\ Cardinality(Versions[env]) > 1
  /\ Record(build, click)
  /\ UNCHANGED <<env, server, database, progress, reads, edits, meddled, build, reverted>>

(* Mutant: the first there was.                                            *)
FindLatest_First == IF acceptances = << >> THEN {} ELSE {acceptances[1].version}

FindLatest == IF acceptances = << >> THEN {} ELSE {acceptances[Len(acceptances)].version}

RequiresAcceptance == build \notin FindLatest
-----------------------------------------------------------------------------
DeploymentNext ==
  \/ Deploy \/ \E click \in Clicks : Accept(click)
  \/ Start \/ Stop \/ Edit \/ SetSchedule \/ Migrate
  \/ \E c \in Commands[env] : Run(c)
  \/ PlanStep \/ DemoStep \/ Die

DeploymentSpec == DeploymentInit /\ [][DeploymentNext]_deploymentVars
-----------------------------------------------------------------------------
Kinds == {"service", "option", "resource"}
RowTypes == [kind : Kinds, name : STRING, of : Ids \union {0}, active : BOOLEAN]
OfKind(kind) == {i \in DOMAIN rows : rows[i].kind = kind}

ServerTypes ==
  /\ env \in Environments /\ server \in {"down", "up", "refused", "broken"}
  /\ {migrated, organized, meddled} \subseteq BOOLEAN /\ edits \in 0 .. MaxEdits
  /\ command \in {"none", "seed", "fixPlans", "seedDemo"}
  /\ ends \in {"-", "running", "done", "failed"}
PlansTypes ==
  /\ DOMAIN plans \subseteq Ids /\ plans \in [DOMAIN plans -> [name : STRING, price : Nat]]
  /\ found \subseteq DOMAIN plans
RowsTypes == DOMAIN rows \subseteq Ids /\ rows \in [DOMAIN rows -> RowTypes]
DemoTypes ==
  /\ links \subseteq OfKind("resource") \X OfKind("service")
  /\ DOMAIN schedules \subseteq OfKind("resource")
  /\ schedules \in [DOMAIN schedules -> {"seed", "owner"}]
  /\ serviceIdByName \in [DOMAIN serviceIdByName -> OfKind("service")] /\ optionNames \subseteq STRING
  /\ resourceIdByName \in [DOMAIN resourceIdByName -> OfKind("resource")]
TermsTypes ==
  /\ build \in Versions[env] /\ reverted \in BOOLEAN
  /\ acceptances \in Seq([version : Versions[env], by : Clicks])
DeploymentTypes == ServerTypes /\ PlansTypes /\ RowsTypes /\ DemoTypes /\ TermsTypes

(* What the providers need of the configuration.  Of a number it is known  *)
(* where both parsers read its text alike, or only one reads it at all.    *)
ReadAlike(variable) ==
  env[variable] \in DOMAIN Number \intersect DOMAIN parseInt => parseInt[env[variable]] = Number[env[variable]]

ServerConfigured(app, db, auth) ==
  /\ db.url # Empty /\ auth.accessSecret # Empty
  /\ ReadAlike("DATABASE_POOL_MAX") => db.poolMax \in PoolSizes
  /\ ReadAlike("PORT") => app.port \in Ports
  /\ ReadAlike("OTP_TTL_MINUTES") => auth.otpTtlMinutes \in OtpMinutes
  /\ ReadAlike("OTP_MAX_ATTEMPTS") => auth.otpMaxAttempts \in OtpAttempts
  /\ ReadAlike("OTP_RESEND_WINDOW_MINUTES") => auth.otpResendWindowMinutes \in ResendMinutes
MailConfigured(mail) == mail.provider = "smtp" =>
  /\ Empty \notin {mail.host, mail.user}
  /\ ReadAlike("SMTP_PORT") => mail.port \in SmtpPorts
  /\ ~Misaligned(fromAddress(mail), mail.user)
PushConfigured(push) ==
  /\ push.vapidPublicKey # Empty <=> push.vapidPrivateKey # Empty
  /\ PushEnabled(push) => setVapidDetails(push)
PaymentConfigured(app, payment) == payment.provider = "mercadopago" =>
  /\ {app.dashboardUrl, payment.apiPublicUrl} \subseteq Https
  /\ Empty \notin {payment.accessToken, payment.webhookSecret}

(* The app "refuses to start with an invalid or incomplete environment     *)
(* (fail fast)": what a server that is up reads from its configuration is  *)
(* what the providers need, though another parser than the one that        *)
(* checked has read it.  Not so a number in a notation that only one of    *)
(* the two understands (see NumbersAsChecked), the password of SMTP, when  *)
(* SMTP_PASS is empty and APP_KEY is what passed the check, nor the TTLs,  *)
(* which nobody checks.                                                    *)
Configured == server = "up" =>
  /\ ServerConfigured(appConfig(env), databaseConfig(env), authConfig(env))
  /\ MailConfigured(mailConfig(env)) /\ PushConfigured(pushConfig(env))
  /\ PaymentConfigured(appConfig(env), paymentConfig(env))

(* The same of the numbers, in whatever notation they are given: those of  *)
(* a server that is up are in the ranges that the check declares.          *)
NumbersAsChecked == server = "up" =>
  /\ databaseConfig(env).poolMax \in PoolSizes /\ appConfig(env).port \in Ports
  /\ authConfig(env).otpTtlMinutes \in OtpMinutes /\ authConfig(env).otpMaxAttempts \in OtpAttempts
  /\ authConfig(env).otpResendWindowMinutes \in ResendMinutes
  /\ mailConfig(env).provider = "smtp" => mailConfig(env).port \in SmtpPorts

(* "Idempotent and re-executable: it identifies what there is by name and  *)
(* only creates what is missing": however often the demo is seeded, killed *)
(* halfway and seeded again, and whatever the owner renames or deactivates *)
(* meanwhile, no name of the catalogue appears twice.                      *)
NothingTwice ==
  \A i, j \in DOMAIN rows :
    /\ i # j /\ rows[i].kind = rows[j].kind
    /\ rows[i].name = rows[j].name /\ rows[i].of = rows[j].of
    => rows[i].name = OtherName

(* A seed that ends well leaves the whole catalogue, with the schedules    *)
(* and the assignments, unless the owner has edited it since it started.   *)
Has(kind, name, of) == \E i \in Named(kind, name) : rows[i].of = of
ServiceStands(k) ==
  \E s \in Named("service", CATALOG[k].service) :
    \A m \in DOMAIN CATALOG[k].options : Has("option", CATALOG[k].options[m], s)
ResourceStands(k) ==
  \E r \in Named("resource", STAFF[k].name) :
    /\ r \in DOMAIN schedules /\ schedules[r] = "seed"
    /\ \A m \in DOMAIN STAFF[k].services : \E s \in Named("service", STAFF[k].services[m]) : <<r, s>> \in links
DemoStands ==
  command = "seedDemo" /\ ends = "done" /\ ~meddled =>
    (\A k \in DOMAIN CATALOG : ServiceStands(k)) /\ (\A k \in DOMAIN STAFF : ResourceStands(k))

(* "It reuses the row that there is (same id)", "instead of creating a     *)
(* duplicate": a plan of the catalogue never has two rows, under its name  *)
(* and under one of old, and a command that ends well has corrected the    *)
(* price of the one.                                                       *)
RowsOf(def) == PlansNamed(plans, def)
Priced(def) == \E i \in RowsOf(def) : plans[i].price = def.price
Reconciled == command \in {"seed", "fixPlans"} /\ ends = "done"
PlansReconciled ==
  \A k \in DOMAIN PLAN_CATALOG :
    /\ Cardinality(RowsOf(PLAN_CATALOG[k])) <= 1
    /\ Reconciled => Priced(PLAN_CATALOG[k])

(* "It leaves the plans equal to the catalogue: it creates those that are  *)
(* missing and corrects those that exist with another name or price".      *)
PlanNamesLand ==
  Reconciled => \A k \in DOMAIN PLAN_CATALOG :
    \E i \in DOMAIN plans : plans[i].name = PLAN_CATALOG[k].name

(* "Already accepted: the original evidence is not overwritten", "a double *)
(* click does not soil the evidence": a version is accepted once, and what *)
(* has been recorded stays as it was.                                      *)
EvidenceStands ==
  [][\A k \in DOMAIN acceptances : k \in DOMAIN acceptances' /\ acceptances'[k] = acceptances[k]]_deploymentVars

(* "What matters is whether they have accepted exactly the current text":  *)
(* who has is not asked again, as long as no older build comes back.  (It  *)
(* then would be asked for ever: accepting an older version once more      *)
(* leaves the newer one the latest.)                                       *)
GateOpens ==
  ~reverted => (RequiresAcceptance <=> \A k \in DOMAIN acceptances : acceptances[k].version # build)

(* The invariants behind these.  Where a command may be, and that a server *)
(* that is up has validated its environment.                               *)
PlanLabels == {"findPlan", "savePlan"}
ServiceLabels == {"service", "listOptions", "option"}
ResourceLabels == {"resource", "schedule", "assign"}
Labels == PlanLabels \union ServiceLabels \union ResourceLabels
            \union {"register", "findOrganization", "listServices", "listResources", "end"}

PositionInv ==
  /\ at \in [do : Labels, k : Nat, m : Nat]
  /\ at.do = "end" => at = End
  /\ Running <=> at # End
  /\ at.do \in PlanLabels => command \in {"seed", "fixPlans"} /\ at.k \in DOMAIN PLAN_CATALOG
  /\ at.do = "register" => command = "seed"
  /\ at.do \notin PlanLabels \union {"register", "end"} => command = "seedDemo"
  /\ at.do \in ServiceLabels => at.k \in DOMAIN CATALOG
  /\ at.do = "option" => at.m \in DOMAIN CATALOG[at.k].options
  /\ at.do \in ResourceLabels => at.k \in DOMAIN STAFF
  /\ at.do = "assign" => at.m \in DOMAIN STAFF[at.k].services

StartInv == server = "up" => validateEnv(env) /\ Constructs(env)

(* Each entry that the demo has come past has an id.                       *)
AfterServices == {"listResources"} \union ResourceLabels
IdsInv ==
  /\ at.do \in ServiceLabels =>
       \A k \in DOMAIN CATALOG : k < at.k \/ (k = at.k /\ at.do # "service") =>
         CATALOG[k].service \in DOMAIN serviceIdByName
  /\ at.do \in AfterServices =>
       \A k \in DOMAIN CATALOG : CATALOG[k].service \in DOMAIN serviceIdByName
  /\ at.do \in {"schedule", "assign"} => STAFF[at.k].name \in DOMAIN resourceIdByName

(* What is there is known by its name, unless the owner has renamed it.    *)
NamesInv ==
  /\ at.do \in ServiceLabels =>
       \A i \in OfKind("service") : rows[i].name \in DOMAIN serviceIdByName \union {OtherName}
  /\ at.do \in ResourceLabels =>
       \A i \in OfKind("resource") : rows[i].name \in DOMAIN resourceIdByName \union {OtherName}
  /\ at.do = "option" =>
       \A i \in OfKind("option") : rows[i].of = serviceId =>
         \/ rows[i].name \in optionNames
         \/ \E m \in DOMAIN CATALOG[at.k].options : m < at.m /\ rows[i].name = CATALOG[at.k].options[m]

(* What the demo has come past stands, as long as the owner edits nothing. *)
ServicesInv ==
  /\ \A n \in DOMAIN serviceIdByName : rows[serviceIdByName[n]].name = n
  /\ at.do \in ServiceLabels => \A k \in DOMAIN CATALOG : k < at.k => ServiceStands(k)
  /\ at.do = "option" =>
       /\ \A n \in optionNames : Has("option", n, serviceId)
       /\ \A m \in DOMAIN CATALOG[at.k].options : m < at.m => Has("option", CATALOG[at.k].options[m], serviceId)
  /\ at.do \in AfterServices => \A k \in DOMAIN CATALOG : ServiceStands(k)

ResourcesInv ==
  /\ \A n \in DOMAIN resourceIdByName : rows[resourceIdByName[n]].name = n
  /\ at.do \in ResourceLabels => \A k \in DOMAIN STAFF : k < at.k => ResourceStands(k)
  /\ at.do = "assign" =>
       /\ resourceId \in DOMAIN schedules /\ schedules[resourceId] = "seed"
       /\ \A m \in DOMAIN STAFF[at.k].services : m < at.m =>
            <<resourceId, serviceIdByName[STAFF[at.k].services[m]]>> \in links

DemoInv == command = "seedDemo" /\ ~meddled => ServicesInv /\ ResourcesInv

(* A definition has one row at most, which is what is found; those that    *)
(* the command has come past have their price.                             *)
PlansInv ==
  /\ \A k \in DOMAIN PLAN_CATALOG : \A i, j \in RowsOf(PLAN_CATALOG[k]) : i = j
  /\ at.do = "savePlan" => found = RowsOf(Definition)
  /\ at.do \in PlanLabels => \A k \in DOMAIN PLAN_CATALOG : k < at.k => Priced(PLAN_CATALOG[k])
  /\ at.do = "register" \/ Reconciled => \A k \in DOMAIN PLAN_CATALOG : Priced(PLAN_CATALOG[k])

(* Until an older build comes back, versions are accepted in their order.  *)
TermsInv == ~reverted =>
  /\ \A k \in DOMAIN acceptances : acceptances[k].version <= build
  /\ \A k, l \in DOMAIN acceptances : k < l => acceptances[k].version < acceptances[l].version
=============================================================================
