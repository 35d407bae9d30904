------------------------------- MODULE Inspector -------------------------------
(***************************************************************************)
(* The IronicInspector controller                                          *)
(* (src/internal/controller/ironicinspector_controller.go) with the        *)
(* objects it works on: its own CR, its TransportURL CRs and the consumer  *)
(* finalizers on their Secrets, the MariaDB database and accounts, the     *)
(* db-sync Job, the Keystone registration, the Topology, the rendered      *)
(* config-data Secret, the StatefulSet and its one pod.                    *)
(*                                                                         *)
(* As in NeutronAgent a reconcile is a sequence of steps between which any *)
(* other actor may act, and `inst', its copy of the CR's status, is lost   *)
(* when it does not reach the deferred patch.  The calls that only put a   *)
(* consumer finalizer on a Secret belong to the step that reads its name.  *)
(***************************************************************************)
EXTENDS Naturals, FiniteSets, SecretConsumer

CONSTANTS
    TransportSecrets,   \* Secrets infra-operator may issue for the main bus
    NotifSecrets,       \* ... and for the notifications bus
    Accounts,           \* names for Spec.DatabaseAccount
    Images,             \* container images
    Topologies,         \* Topology CRs
    None,               \* no account, image, topology, template or pod
    Specs,              \* the specs the user writes
    RapidRotation,      \* may a Secret rotate before its last rotation is done?
    MaxRotations,       \* bound on Secret rotations
    MaxEdits,           \* bound on edits of the spec
    MaxFaults,          \* bound on failed calls
    MaxCrashes          \* bound on operator restarts and failed patches

Buses == {"main", "notif"}
SecretsOf == [main |-> TransportSecrets, notif |-> NotifSecrets]
Secrets == TransportSecrets \cup NotifSecrets
AnySecret == Secrets \cup {NoSecret}
SpecType == [oslo : BOOLEAN, bus : BOOLEAN, standalone : BOOLEAN,
             account : Accounts, image : Images, topo : Topologies \cup {None}]

ASSUME NamesAssumption ==
    /\ NoSecret \notin Secrets /\ TransportSecrets \cap NotifSecrets = {}
    /\ None \notin Accounts \cup Images \cup Topologies
    /\ Specs \subseteq SpecType /\ Specs # {}
ASSUME BoundsAssumption ==
    /\ RapidRotation \in BOOLEAN
    /\ {MaxRotations, MaxEdits, MaxFaults, MaxCrashes} \subseteq Nat

VARIABLES
    cr,         \* lifecycle of the CR: new, active, deleting, gone
    spec,       \* its spec
    status,     \* its status as stored in the API server
    tu,         \* Status.SecretName of the TransportURL CR of each bus
    tuExists,   \* which TransportURL CRs exist
    fin,        \* Secrets with InspectorTransportConsumerFinalizer
    accounts,   \* the MariaDBAccount CRs: none, pending, ready
    dbFin,      \* accounts, and "database", with the controller's finalizer
    job,        \* the db-sync Job: its image, has it completed?
    migrated,   \* images whose db-sync has completed
    keystone,   \* KeystoneService and KeystoneEndpoint CRs: none, pending, ready
    keystoneFin,\* those of them with the controller's finalizer
    topoFin,    \* Topologies with the CR's finalizer
    config,     \* what is rendered into <name>-config-data
    ss,         \* the StatefulSet: its template, is it observed?
    pod,        \* its pod: the template it was made from, the config it loaded
    pc, inst, loc,  \* the reconcile: next step, copy of the status, locals
    queued,     \* is a request for the CR in the work queue?
    spent       \* how much of the four bounds has been used

crVars == <<cr, spec, status>>
busVars == <<tu, tuExists, fin>>
dbVars == <<accounts, dbFin>>
jobVars == <<job, migrated>>
keystoneVars == <<keystone, keystoneFin>>
workload == <<ss, pod>>
reconcile == <<pc, inst, loc>>
external == <<busVars, dbVars, jobVars, keystoneVars, topoFin, config, workload>>
vars == <<crVars, external, reconcile, queued, spent>>

-----------------------------------------------------------------------------
(* Data, with injective hashes: a hash is what was hashed.                 *)

AnyOr(S) == S \cup {None}
Config == [main : AnySecret, notif : AnySecret, account : AnyOr(Accounts)]
NoConfig == [main |-> NoSecret, notif |-> NoSecret, account |-> None]
Applied == [main : AnySecret, notif : AnySecret]
Template == [hash : Config, image : Images, topo : AnyOr(Topologies)]
Status == [main : AnySecret, notif : AnySecret, hash : Config, applied : Applied,
           synced : AnyOr(Images), topo : AnyOr(Topologies), ready : BOOLEAN]
NoStatus == [main |-> NoSecret, notif |-> NoSecret, hash |-> NoConfig,
             applied |-> [main |-> NoSecret, notif |-> NoSecret],
             synced |-> None, topo |-> None, ready |-> FALSE]
NoLocals == [spec |-> None, new |-> NoSecret, notif |-> NoSecret,
             oldNotif |-> NoSecret, ready |-> FALSE, requeue |-> FALSE,
             release |-> {}, deleted |-> FALSE]

ASSUME NoneAssumption == None \notin [template : Template, cfg : Config]

Registrations == {"service", "endpoint"}
NormalSteps == {"transport", "notif", "database", "config", "dbsync", "service",
                "endpoint", "topology", "statefulset", "ready", "accounts",
                "finalize", "finalizeNotif", "deleteNotifURL", "prune"}
DeleteSteps == {"deleteEndpoint", "deleteService", "deleteDatabase",
                "deleteTopology", "collect", "release"}

TypeOK ==
    /\ cr \in {"new", "active", "deleting", "gone"}
    /\ spec \in SpecType /\ status \in Status
    /\ tu \in [Buses -> AnySecret] /\ tuExists \in SUBSET Buses
    /\ fin \in SUBSET Secrets
    /\ accounts \in [Accounts -> {"none", "pending", "ready"}]
    /\ dbFin \in SUBSET (Accounts \cup {"database"})
    /\ job \in [image : AnyOr(Images), done : BOOLEAN]
    /\ migrated \in SUBSET Images
    /\ keystone \in [Registrations -> {"none", "pending", "ready"}]
    /\ keystoneFin \in SUBSET Registrations /\ topoFin \in SUBSET Topologies
    /\ config \in Config
    /\ ss \in [template : AnyOr(Template), observed : BOOLEAN]
    /\ pod = None \/ pod \in [template : Template, cfg : Config]
    /\ pc \in {"idle", "patch"} \cup NormalSteps \cup DeleteSteps
    /\ inst \in Status
    /\ loc \in [spec : AnyOr(SpecType), new : AnySecret, notif : AnySecret,
                oldNotif : AnySecret, ready : BOOLEAN, requeue : BOOLEAN,
                release : SUBSET AnySecret, deleted : BOOLEAN]
    /\ queued \in BOOLEAN
    /\ spent \in [rotations : Nat, edits : Nat, faults : Nat, crashes : Nat]

(* The CR has just been created and nothing has been reconciled yet.       *)
Init ==
    /\ cr = "new" /\ spec \in Specs /\ status = NoStatus
    /\ tu = [b \in Buses |-> NoSecret] /\ tuExists = {} /\ fin = {}
    /\ accounts = [a \in Accounts |-> "none"] /\ dbFin = {}
    /\ job = [image |-> None, done |-> FALSE] /\ migrated = {}
    /\ keystone = [r \in Registrations |-> "none"] /\ keystoneFin = {}
    /\ topoFin = {} /\ config = NoConfig
    /\ ss = [template |-> None, observed |-> TRUE] /\ pod = None
    /\ pc = "idle" /\ inst = NoStatus /\ loc = NoLocals
    /\ queued = TRUE
    /\ spent = [rotations |-> 0, edits |-> 0, faults |-> 0, crashes |-> 0]

-----------------------------------------------------------------------------
(* The reconcile up to the workload.                                       *)

Goto(step) == pc' = step

(* Mutant of Requeue: the RequeueAfter is forgotten.                       *)
Requeue_Never == Goto("patch") /\ UNCHANGED loc

(* Return from the reconcile asking for another one.                       *)
Requeue == Goto("patch") /\ loc' = [loc EXCEPT !.requeue = TRUE]

(* First reconcile: own finalizer and initial conditions only.             *)
ReconcileNew ==
    /\ pc = "idle" /\ queued /\ cr = "new"
    /\ cr' = "active"
    /\ UNCHANGED <<spec, status, external, reconcile, queued, spent>>

(* Fetch the CR, reset its conditions, capture the tracked notifications   *)
(* Secret and branch on the deletion timestamp.                            *)
ReconcileStart ==
    /\ pc = "idle" /\ queued /\ cr \in {"active", "deleting"}
    /\ queued' = FALSE
    /\ inst' = [status EXCEPT !.ready = FALSE]
    /\ loc' = [NoLocals EXCEPT !.spec = spec, !.oldNotif = status.notif]
    /\ Goto(IF cr = "deleting" THEN "deleteEndpoint" ELSE "transport")
    /\ UNCHANGED <<crVars, external, spent>>

(* oslo: create or update the main TransportURL; protect its Secret and    *)
(* track it unless another one still is.  With no Secret yet the reconcile *)
(* goes on with an empty name.  json-rpc: track nothing.                   *)
ReconcileTransportURL ==
    /\ pc = "transport"
    /\ \/ /\ loc.spec.oslo
          /\ tuExists' = tuExists \cup {"main"}
          /\ loc' = [loc EXCEPT !.new = tu["main"]]
          /\ fin' = Manage(fin, tu["main"])
          /\ inst' = IF inst.main = NoSecret THEN [inst EXCEPT !.main = tu["main"]]
                                             ELSE inst
          /\ Goto(IF tu["main"] = NoSecret THEN "database" ELSE "notif")
       \/ /\ ~loc.spec.oslo
          /\ inst' = [inst EXCEPT !.main = NoSecret, !.notif = NoSecret]
          /\ Goto("database")
          /\ UNCHANGED <<tuExists, fin, loc>>
    /\ UNCHANGED <<crVars, tu, dbVars, jobVars, keystoneVars, topoFin, config,
                   workload, queued, spent>>

(* ensureNotificationsTransportURL overwrites the tracked Secret with the  *)
(* current SecretName, or with nil when the bus is off.                    *)
EnsureNotifications ==
    /\ pc = "notif"
    /\ LET new == IF loc.spec.bus THEN tu["notif"] ELSE NoSecret IN
       /\ inst' = [inst EXCEPT !.notif = new]
       /\ loc' = [loc EXCEPT !.notif = new]
       /\ fin' = Manage(fin, new)
    /\ tuExists' = IF loc.spec.bus THEN tuExists \cup {"notif"} ELSE tuExists
    /\ Goto("database")
    /\ UNCHANGED <<crVars, tu, dbVars, jobVars, keystoneVars, topoFin, config,
                   workload, queued, spent>>

(* Mutant of ReconcileDatabase: other accounts are released at once.       *)
ReconcileDatabase_Releases ==
    /\ pc = "database"
    /\ LET a == loc.spec.account IN
       /\ dbFin' = {a, "database"}
       /\ IF accounts[a] = "ready"
          THEN Goto("config") /\ UNCHANGED <<accounts, loc>>
          ELSE accounts' = [accounts EXCEPT ![a] = "pending"] /\ Requeue
    /\ UNCHANGED <<crVars, busVars, jobVars, keystoneVars, topoFin, config,
                   workload, inst, queued, spent>>

(* Ensure account and database exist, each with the finalizer, and wait    *)
(* until mariadb-operator has set them up.                                 *)
ReconcileDatabase ==
    /\ pc = "database"
    /\ LET a == loc.spec.account IN
       /\ dbFin' = dbFin \cup {a, "database"}
       /\ IF accounts[a] = "ready"
          THEN Goto("config") /\ UNCHANGED <<accounts, loc>>
          ELSE accounts' = [accounts EXCEPT ![a] = "pending"] /\ Requeue
    /\ UNCHANGED <<crVars, busVars, jobVars, keystoneVars, topoFin, config,
                   workload, inst, queued, spent>>

(* What is rendered: without a notifications Secret the main URL is used,  *)
(* and under json-rpc neither.                                             *)
Rendered ==
    [main |-> loc.new, account |-> loc.spec.account,
     notif |-> IF loc.notif = NoSecret THEN loc.new ELSE loc.notif]

(* Render config-data and hash the inputs; a changed hash is recorded and  *)
(* the request returns.  oslo without a transport Secret is an error.      *)
ReconcileConfig ==
    /\ pc = "config"
    /\ IF loc.spec.oslo /\ loc.new = NoSecret
       THEN Requeue /\ UNCHANGED <<config, inst>>
       ELSE /\ config' = Rendered
            /\ inst' = [inst EXCEPT !.hash = Rendered]
            /\ IF inst.hash # Rendered THEN Requeue
                                       ELSE Goto("dbsync") /\ UNCHANGED loc
    /\ UNCHANGED <<crVars, busVars, dbVars, jobVars, keystoneVars, topoFin,
                   workload, queued, spent>>

(* Mutant of Synced: the hash of the Job is not compared.                  *)
Synced_Once(image) == inst.synced # None \/ job = [image |-> image, done |-> TRUE]

Synced(image) == inst.synced = image \/ job = [image |-> image, done |-> TRUE]

(* Run the db-sync Job of this image, in place of one of another image,    *)
(* unless the status says it has run; wait for it and record it.           *)
DbSync ==
    /\ pc = "dbsync"
    /\ LET image == loc.spec.image IN
       IF Synced(image)
       THEN /\ inst' = [inst EXCEPT !.synced = image]
            /\ Goto(IF loc.spec.standalone THEN "topology" ELSE "service")
            /\ UNCHANGED <<job, loc>>
       ELSE /\ job' = IF job.image = image THEN job
                      ELSE [image |-> image, done |-> FALSE]
            /\ Requeue /\ UNCHANGED inst
    /\ UNCHANGED <<crVars, busVars, dbVars, migrated, keystoneVars, topoFin,
                   config, workload, queued, spent>>

(* EnsureRegistration: the KeystoneService, then the KeystoneEndpoint, each *)
(* with the finalizer; wait for keystone-operator.                         *)
Register ==
    /\ pc \in Registrations
    /\ keystoneFin' = keystoneFin \cup {pc}
    /\ IF keystone[pc] = "ready"
       THEN /\ Goto(IF pc = "service" THEN "endpoint" ELSE "topology")
            /\ UNCHANGED <<keystone, loc>>
       ELSE keystone' = [keystone EXCEPT ![pc] = "pending"] /\ Requeue
    /\ UNCHANGED <<crVars, busVars, dbVars, jobVars, topoFin, config, workload,
                   inst, queued, spent>>

(* ensureTopology: drop the finalizer from the Topology last applied when  *)
(* the reference has changed, put it on the one referenced, record that.   *)
(* The one referenced may not exist: an error after the first half.        *)
WithoutLast == IF loc.spec.topo # inst.topo THEN topoFin \ {inst.topo} ELSE topoFin
EnsureTopology ==
    /\ pc = "topology"
    /\ \/ /\ topoFin' = WithoutLast \cup ({loc.spec.topo} \ {None})
          /\ inst' = [inst EXCEPT !.topo = loc.spec.topo]
          /\ Goto("statefulset")
          /\ UNCHANGED <<loc, spent>>
       \/ /\ loc.spec.topo # None /\ spent.faults < MaxFaults
          /\ spent' = [spent EXCEPT !.faults = @ + 1]
          /\ topoFin' = WithoutLast
          /\ Requeue /\ UNCHANGED inst
    /\ UNCHANGED <<crVars, busVars, dbVars, jobVars, keystoneVars, config,
                   workload, queued>>

-----------------------------------------------------------------------------
(* The workload, and what follows its readiness.                           *)

(* Mutant of RolledOut: the pod may be of an older template.               *)
RolledOut_Template(hash) ==
    ss.observed /\ ss.template # None /\ ss.template.hash = hash /\ pod # None

(* The StatefulSet and its pod are of this hash and of the same template.  *)
RolledOut(hash) ==
    /\ ss.observed /\ ss.template # None /\ ss.template.hash = hash
    /\ pod # None /\ pod.template = ss.template

(* Create or patch the StatefulSet.  Observed but not ready: wait.  Not    *)
(* observed yet: go on, as not ready.                                      *)
ReconcileStatefulSet ==
    /\ pc = "statefulset"
    /\ LET new == [hash |-> inst.hash, image |-> loc.spec.image,
                   topo |-> loc.spec.topo] IN
       /\ ss' = IF ss.template = new THEN ss ELSE [template |-> new, observed |-> FALSE]
       /\ queued' = (queued \/ ss' # ss)
       /\ \/ ~ss'.observed /\ Goto("accounts") /\ UNCHANGED loc
          \/ ss'.observed /\ RolledOut(inst.hash) /\ Goto("ready") /\ UNCHANGED loc
          \/ ss'.observed /\ ~RolledOut(inst.hash) /\ Requeue
    /\ UNCHANGED <<crVars, busVars, dbVars, jobVars, keystoneVars, topoFin, config,
                   pod, inst, spent>>

(* statefulset.IsReadyForInput: the live read the rotation depends on.     *)
CheckReady ==
    /\ pc = "ready"
    /\ IF RolledOut(inst.hash)
       THEN loc' = [loc EXCEPT !.ready = TRUE] /\ Goto("accounts")
       ELSE Requeue
    /\ UNCHANGED <<crVars, external, inst, queued, spent>>

(* DeleteUnusedMariaDBAccountFinalizers, whatever the readiness.           *)
ReleaseAccounts ==
    /\ pc = "accounts"
    /\ dbFin' = dbFin \cap {loc.spec.account, "database"}
    /\ Goto("finalize")
    /\ UNCHANGED <<crVars, busVars, accounts, jobVars, keystoneVars, topoFin,
                   config, workload, inst, loc, queued, spent>>

(* When ready, the applied hash; then FinalizeSecretRotation.              *)
FinalizeTransport ==
    /\ pc = "finalize"
    /\ fin' = FinAfter(fin, inst.main, loc.new, loc.ready)
    /\ inst' = [inst EXCEPT
                    !.applied = IF loc.ready THEN [main |-> loc.new, notif |-> loc.notif]
                                             ELSE @,
                    !.main = TrackedAfter(inst.main, loc.new, loc.ready)]
    /\ Goto("finalizeNotif")
    /\ UNCHANGED <<crVars, tu, tuExists, dbVars, jobVars, keystoneVars, topoFin,
                   config, workload, loc, queued, spent>>

(* Notifications on: finalize its rotation.  Off: once rolled out release  *)
(* the old Secret and go on to delete the TransportURL, else keep the old  *)
(* Secret tracked.                                                         *)
FinalizeNotifications ==
    /\ pc = "finalizeNotif"
    /\ LET tearDown == loc.notif = NoSecret /\ loc.oldNotif # NoSecret /\ loc.ready IN
       /\ fin' = IF tearDown THEN Remove(fin, loc.oldNotif)
                 ELSE IF loc.notif = NoSecret THEN fin
                 ELSE FinAfter(fin, loc.oldNotif, loc.notif, loc.ready)
       /\ inst' = IF tearDown THEN inst
                  ELSE [inst EXCEPT !.notif =
                            TrackedAfter(loc.oldNotif, loc.notif, loc.ready)]
       /\ Goto(IF tearDown THEN "deleteNotifURL" ELSE "prune")
    /\ UNCHANGED <<crVars, tu, tuExists, dbVars, jobVars, keystoneVars, topoFin,
                   config, workload, loc, queued, spent>>

DeleteNotificationsURL ==
    /\ pc = "deleteNotifURL"
    /\ tuExists' = tuExists \ {"notif"} /\ tu' = [tu EXCEPT !["notif"] = NoSecret]
    /\ inst' = [inst EXCEPT !.notif = NoSecret]
    /\ Goto("prune")
    /\ UNCHANGED <<crVars, fin, dbVars, jobVars, keystoneVars, topoFin, config,
                   workload, loc, queued, spent>>

(* Mutants of Kept: the tracked Secrets only; whatever has the finalizer.  *)
Kept_Tracked == {inst.main, inst.notif}
Kept_All == fin

(* Prune stranded finalizers, then set Ready when every sub-condition is.  *)
Kept == {inst.main, loc.new, inst.notif, loc.notif}
PruneFinalizers ==
    /\ pc = "prune"
    /\ fin' = Prune(fin, Kept)
    /\ inst' = [inst EXCEPT !.ready = loc.ready
                    /\ (loc.spec.oslo /\ loc.spec.bus => loc.notif # NoSecret)]
    /\ Goto("patch")
    /\ UNCHANGED <<crVars, tu, tuExists, dbVars, jobVars, keystoneVars, topoFin,
                   config, workload, loc, queued, spent>>

-----------------------------------------------------------------------------
(* Deletion.                                                               *)

(* Take the finalizer off the KeystoneEndpoint, then the KeystoneService.  *)
DeleteRegistration ==
    /\ pc \in {"deleteEndpoint", "deleteService"}
    /\ LET r == IF pc = "deleteEndpoint" THEN "endpoint" ELSE "service" IN
       keystoneFin' = keystoneFin \ {r}
    /\ Goto(IF pc = "deleteEndpoint" THEN "deleteService" ELSE "deleteDatabase")
    /\ UNCHANGED <<crVars, busVars, dbVars, jobVars, keystone, topoFin, config,
                   workload, inst, loc, queued, spent>>

(* Take it off the database and the account the spec names, unless that    *)
(* account is not there (GetDatabaseByNameAndAccount: not found).          *)
DeleteDatabase ==
    /\ pc = "deleteDatabase"
    /\ LET a == loc.spec.account IN
       dbFin' = IF accounts[a] = "none" THEN dbFin ELSE dbFin \ {a, "database"}
    /\ Goto("deleteTopology")
    /\ UNCHANGED <<crVars, busVars, accounts, jobVars, keystoneVars, topoFin,
                   config, workload, inst, loc, queued, spent>>

(* Mutant of DeleteTopology: the one the spec names, applied or not.       *)
DeleteTopology_Spec ==
    /\ pc = "deleteTopology"
    /\ topoFin' = topoFin \ {loc.spec.topo}
    /\ Goto("collect")
    /\ UNCHANGED <<crVars, busVars, dbVars, jobVars, keystoneVars, config,
                   workload, inst, loc, queued, spent>>

(* Take the finalizer off the Topology the status names.                   *)
DeleteTopology ==
    /\ pc = "deleteTopology"
    /\ topoFin' = topoFin \ {inst.topo}
    /\ Goto("collect")
    /\ UNCHANGED <<crVars, busVars, dbVars, jobVars, keystoneVars, config,
                   workload, inst, loc, queued, spent>>

(* Mutant of CollectSecrets: the live TransportURLs are not asked.         *)
CollectSecrets_Status ==
    /\ pc = "collect"
    /\ loc' = [loc EXCEPT !.release = {inst.main, inst.notif}]
    /\ Goto("release")
    /\ UNCHANGED <<crVars, external, inst, queued, spent>>

(* Collect the Secrets named by the status and by the live TransportURLs,  *)
(* release them one call at a time, then drop the CR's own finalizer.      *)
CollectSecrets ==
    /\ pc = "collect"
    /\ loc' = [loc EXCEPT !.release =
                   {inst.main, inst.notif} \cup {tu[b] : b \in tuExists}]
    /\ Goto("release")
    /\ UNCHANGED <<crVars, external, inst, queued, spent>>

ReleaseSecrets ==
    /\ pc = "release"
    /\ \/ \E s \in loc.release :
             /\ fin' = Remove(fin, s)
             /\ loc' = [loc EXCEPT !.release = @ \ {s}]
             /\ UNCHANGED pc
       \/ /\ loc.release = {}
          /\ loc' = [loc EXCEPT !.deleted = TRUE]
          /\ Goto("patch")
          /\ UNCHANGED fin
    /\ UNCHANGED <<crVars, tu, tuExists, dbVars, jobVars, keystoneVars, topoFin,
                   config, workload, inst, queued, spent>>

-----------------------------------------------------------------------------
(* Every exit.                                                             *)

(* The deferred patch; a change comes back as a watch event.               *)
PatchInstance ==
    /\ pc = "patch"
    /\ cr' = IF loc.deleted THEN "gone" ELSE cr
    /\ status' = inst
    /\ queued' = (queued \/ loc.requeue \/ inst # status)
    /\ Goto("idle") /\ inst' = NoStatus /\ loc' = NoLocals
    /\ UNCHANGED <<spec, external, spent>>

Spend(bound, limit) ==
    /\ spent[bound] < limit
    /\ spent' = [spent EXCEPT ![bound] = @ + 1]

(* A call of the step fails, or an input it checks for is missing (parent  *)
(* Ironic, RBAC, passwords, certificates, networks): retry.                *)
StepFails ==
    /\ pc \in NormalSteps \cup DeleteSteps
    /\ Spend("faults", MaxFaults)
    /\ inst' = IF pc = "notif" /\ loc.spec.bus THEN [inst EXCEPT !.notif = NoSecret]
                                               ELSE inst
    /\ Requeue
    /\ UNCHANGED <<crVars, external, queued>>

(* The operator dies or the patch fails: the copy of the status is lost.   *)
Crash ==
    /\ pc # "idle"
    /\ Spend("crashes", MaxCrashes)
    /\ Goto("idle") /\ inst' = NoStatus /\ loc' = NoLocals
    /\ queued' = TRUE
    /\ UNCHANGED <<crVars, external>>

Reconcile ==
    \/ ReconcileNew \/ ReconcileStart
    \/ ReconcileTransportURL \/ EnsureNotifications
    \/ ReconcileDatabase \/ ReconcileConfig
    \/ DbSync \/ Register \/ EnsureTopology
    \/ ReconcileStatefulSet \/ CheckReady \/ ReleaseAccounts
    \/ FinalizeTransport \/ FinalizeNotifications \/ DeleteNotificationsURL
    \/ PruneFinalizers
    \/ DeleteRegistration \/ DeleteDatabase \/ DeleteTopology
    \/ CollectSecrets \/ ReleaseSecrets
    \/ PatchInstance

-----------------------------------------------------------------------------
(* The rest of the cluster.                                                *)

(* infra-operator issues the first Secret of a TransportURL, and moves it  *)
(* to another one: unless RapidRotation, only once the status shows that   *)
(* the last move is done.                                                  *)
IssueSecret(b) ==
    /\ cr # "gone" /\ b \in tuExists /\ tu[b] = NoSecret
    /\ \E s \in SecretsOf[b] : tu' = [tu EXCEPT ![b] = s]
    /\ queued' = TRUE
    /\ UNCHANGED <<crVars, tuExists, fin, dbVars, jobVars, keystoneVars, topoFin,
                   config, workload, reconcile, spent>>

RotateSecret(b) ==
    /\ cr # "gone" /\ tu[b] # NoSecret /\ (RapidRotation \/ status[b] = tu[b])
    /\ Spend("rotations", MaxRotations)
    /\ \E s \in SecretsOf[b] \ {tu[b]} : tu' = [tu EXCEPT ![b] = s]
    /\ queued' = TRUE
    /\ UNCHANGED <<crVars, tuExists, fin, dbVars, jobVars, keystoneVars, topoFin,
                   config, workload, reconcile>>

(* mariadb-operator sets up an account, the Job completes, keystone-       *)
(* operator registers.  Only the last is watched; the others are polled.   *)
AccountReady ==
    /\ cr # "gone"
    /\ \E a \in Accounts : /\ accounts[a] = "pending"
                           /\ accounts' = [accounts EXCEPT ![a] = "ready"]
    /\ UNCHANGED <<crVars, busVars, dbFin, jobVars, keystoneVars, topoFin, config,
                   workload, reconcile, queued, spent>>

JobDone ==
    /\ cr # "gone" /\ job.image # None /\ ~job.done
    /\ job' = [job EXCEPT !.done = TRUE]
    /\ migrated' = migrated \cup {job.image}
    /\ UNCHANGED <<crVars, busVars, dbVars, keystoneVars, topoFin, config,
                   workload, reconcile, queued, spent>>

Registered ==
    /\ cr # "gone"
    /\ \E r \in Registrations : /\ keystone[r] = "pending"
                                /\ keystone' = [keystone EXCEPT ![r] = "ready"]
    /\ queued' = TRUE
    /\ UNCHANGED <<crVars, busVars, dbVars, jobVars, keystoneFin, topoFin, config,
                   workload, reconcile, spent>>

(* The user, or the parent Ironic, changes the spec or deletes the CR.     *)
EditSpec ==
    /\ cr \in {"new", "active"} /\ Spend("edits", MaxEdits)
    /\ spec' \in Specs \ {spec} /\ queued' = TRUE
    /\ UNCHANGED <<cr, status, external, reconcile>>

DeleteCR ==
    /\ cr = "active" /\ cr' = "deleting" /\ queued' = TRUE
    /\ UNCHANGED <<spec, status, external, reconcile, spent>>

(* The StatefulSet controller observes a template, stops the pod of an     *)
(* older one and only then starts the next, which loads config-data.       *)
Rollout ==
    /\ cr # "gone"
    /\ \/ ~ss.observed /\ ss' = [ss EXCEPT !.observed = TRUE] /\ UNCHANGED pod
       \/ /\ ss.observed /\ UNCHANGED ss
          /\ \/ pod # None /\ pod.template # ss.template /\ pod' = None
             \/ /\ pod = None /\ ss.template # None
                /\ pod' = [template |-> ss.template, cfg |-> config]
    /\ queued' = TRUE
    /\ UNCHANGED <<crVars, busVars, dbVars, jobVars, keystoneVars, topoFin,
                   config, reconcile, spent>>

(* The container restarts inside its pod and loads config-data again.      *)
RestartPod ==
    /\ cr # "gone" /\ pod # None /\ pod.cfg # config
    /\ pod' = [pod EXCEPT !.cfg = config] /\ queued' = TRUE
    /\ UNCHANGED <<crVars, busVars, dbVars, jobVars, keystoneVars, topoFin,
                   config, ss, reconcile, spent>>

Next ==
    \/ Reconcile \/ StepFails \/ Crash
    \/ \E b \in Buses : IssueSecret(b) \/ RotateSecret(b)
    \/ AccountReady \/ JobDone \/ Registered
    \/ EditSpec \/ DeleteCR
    \/ Rollout \/ RestartPod

(* The operators and the StatefulSet controller keep running; users and    *)
(* failures need not act.                                                  *)
Fairness ==
    /\ WF_vars(Reconcile) /\ WF_vars(Rollout)
    /\ WF_vars(AccountReady) /\ WF_vars(JobDone) /\ WF_vars(Registered)
    /\ \A b \in Buses : WF_vars(IssueSecret(b))

Spec == Init /\ [][Next]_vars
FairSpec == Spec /\ Fairness

-----------------------------------------------------------------------------
(* Properties.                                                             *)

Uses(c) == {c.main, c.notif} \ {NoSecret}
InUse == cr \in {"new", "active"}

(* A pod that starts or restarts at any moment, between two steps or after *)
(* a crash, loads only Secrets and the account that carry the controller's *)
(* finalizer (reconcileTransportURL and reconcileServiceDBinstance before  *)
(* generateServiceSecrets, the releases after reconcileStatefulSet).       *)
RenderedProtected ==
    InUse => /\ Uses(config) \subseteq fin
             /\ config.account # None => {config.account, "database"} \subseteq dbFin

(* The controller keeps the promise of SecretConsumption for the transport *)
(* Secret ("the RabbitMQ user backing the secret would be revoked while    *)
(* pods still use it"), as long as the bus stays oslo.                     *)
Consumption == INSTANCE SecretConsumption WITH
    Secrets <- TransportSecrets, held <- fin \cap TransportSecrets,
    rendered <- config.main, used <- IF pod = None THEN {} ELSE {pod.cfg.main},
    retired <- ~InUse
ImplementsConsumption == Consumption!Spec

(* An account is released only once the StatefulSet's template is of a     *)
(* config with another one (DeleteUnusedMariaDBAccountFinalizers after     *)
(* reconcileStatefulSet).                                                  *)
AccountReleasedLate ==
    [][cr = "active" /\ ss.template # None
        => ss.template.hash.account \notin dbFin \ dbFin']_vars

(* The pod of an image starts only after the db-sync of that image has run *)
(* (reconcileInit before reconcileStatefulSet, DbSyncHash).                *)
SchemaFirst == pod # None => pod.template.image \in migrated

(* The CR turns Ready only while the pod has loaded the transport Secret   *)
(* AppliedInputSecretHash stands for.                                      *)
ReadyMeansApplied ==
    [][status'.ready /\ ~status.ready
        => pod # None /\ pod.cfg.main = status'.applied.main]_vars

(* A deleted CR leaves the controller's finalizer on nothing it shares:    *)
(* Secrets, database, accounts, Keystone registration and Topologies.      *)
TopologyReleased == cr = "gone" => topoFin = {}
DeletedReleasesAll ==
    cr = "gone" => /\ fin = {} /\ dbFin = {} /\ keystoneFin = {}
                   /\ TopologyReleased

(* When users and failures are done, whatever was edited or rotated and    *)
(* whichever steps failed, the CR is gone or Ready, with the pod of the    *)
(* current template, the current Secrets, account and Topology protected   *)
(* and no other Secret or account.                                         *)
Current ==
    [main |-> IF spec.oslo THEN tu["main"] ELSE NoSecret, account |-> spec.account,
     notif |-> IF ~spec.oslo THEN NoSecret
               ELSE IF spec.bus THEN tu["notif"] ELSE tu["main"]]
Settled ==
    /\ status.ready /\ status.main = Current.main
    /\ fin = Uses(Current)
    /\ dbFin = {spec.account, "database"}
    /\ spec.standalone \/ keystoneFin = Registrations
    /\ {spec.topo} \ {None} \subseteq topoFin
    /\ RolledOut(Current)
    /\ ss.template.image = spec.image /\ ss.template.topo = spec.topo
Settles == <>[](cr = "gone" \/ Settled)
=============================================================================
