------------------------------ MODULE NeutronAgent ------------------------------
(***************************************************************************)
(* The IronicNeutronAgent controller                                       *)
(* (src/internal/controller/ironicneutronagent_controller.go) with the     *)
(* objects it works on: its own CR, its two TransportURL CRs, the consumer *)
(* finalizers on the Secrets those point to, the rendered config-data      *)
(* Secret, the Deployment and its pods.                                    *)
(*                                                                         *)
(* A reconcile is a sequence of steps with at most one write to the API    *)
(* server each; every other actor (infra-operator, the Deployment          *)
(* controller, kubelet, the user) may act between two of them.  `inst' is  *)
(* the in-memory copy of the CR status the reconcile works on.  It is      *)
(* written back only by the deferred patch, on every exit but a crash.     *)
(***************************************************************************)
EXTENDS Naturals, FiniteSets, SecretConsumer

CONSTANTS
    TransportSecrets,   \* Secrets infra-operator may issue for the main bus
    NotifSecrets,       \* ... and for the notifications bus
    RapidRotation,      \* may a Secret rotate before its last rotation is done?
    MaxRotations,       \* bound on Secret rotations, both buses
    MaxToggles,         \* bound on user edits of Spec.NotificationsBus
    MaxFaults           \* bound on failed calls and operator restarts

Buses == {"main", "notif"}
SecretsOf == [main |-> TransportSecrets, notif |-> NotifSecrets]
Secrets == TransportSecrets \cup NotifSecrets
AnySecret == Secrets \cup {NoSecret}

ASSUME SecretsAssumption ==
    /\ NoSecret \notin Secrets
    /\ TransportSecrets \cap NotifSecrets = {}
    /\ TransportSecrets # {}
ASSUME BoundsAssumption ==
    /\ RapidRotation \in BOOLEAN
    /\ MaxRotations \in Nat /\ MaxToggles \in Nat /\ MaxFaults \in Nat

VARIABLES
    cr,         \* lifecycle of the CR: new, active, deleting (timestamp set), gone
    specNotif,  \* is Spec.NotificationsBus set?
    status,     \* the CR's status as stored in the API server
    tu,         \* Status.SecretName of the TransportURL CR of each bus
    tuExists,   \* which TransportURL CRs exist
    fin,        \* Secrets with NeutronAgentTransportConsumerFinalizer
    config,     \* Secrets rendered into <name>-config-data
    deploy,     \* the Deployment: CONFIG_HASH of its template, is it observed?
    pods,       \* running pods: CONFIG_HASH they carry, Secrets they loaded
    pc,         \* next step of the reconcile in progress
    inst,       \* its copy of the CR status
    loc,        \* its local variables
    queued,     \* is a request for the CR in the work queue?
    spent       \* how much of the three bounds has been used

crVars == <<cr, specNotif, status>>
busVars == <<tu, tuExists>>
workload == <<deploy, pods>>
reconcile == <<pc, inst, loc>>
vars == <<cr, specNotif, status, tu, tuExists, fin, config, deploy, pods,
          pc, inst, loc, queued, spent>>

-----------------------------------------------------------------------------
(* Data.  A rendered configuration names the Secrets whose URLs it holds.  *)
(* Hashes are injective, so a hash is the value that was hashed: the input *)
(* hash covers the rendered config, AppliedInputSecretHash the pair of     *)
(* Secret names.                                                           *)

Config == [main : AnySecret, notif : AnySecret]
NoConfig == [main |-> NoSecret, notif |-> NoSecret]
Status == [main : AnySecret, notif : AnySecret, hash : Config,
           applied : Config, ready : BOOLEAN]
NoStatus == [main |-> NoSecret, notif |-> NoSecret, hash |-> NoConfig,
             applied |-> NoConfig, ready |-> FALSE]
Locals == [bus : BOOLEAN, new : AnySecret, notif : AnySecret, oldNotif : AnySecret,
           ready : BOOLEAN, requeue : BOOLEAN, release : SUBSET AnySecret,
           deleted : BOOLEAN]
NoLocals == [bus |-> FALSE, new |-> NoSecret, notif |-> NoSecret,
             oldNotif |-> NoSecret, ready |-> FALSE, requeue |-> FALSE,
             release |-> {}, deleted |-> FALSE]
Pod == [hash : Config, cfg : Config]

NormalSteps == {"transport", "manage", "notif", "manageNotif", "config",
                "deployment", "ready", "finalize", "finalizeNotif",
                "deleteNotifURL", "prune"}
DeleteSteps == {"collect", "release"}
Steps == {"idle", "patch"} \cup NormalSteps \cup DeleteSteps

TypeOK ==
    /\ cr \in {"new", "active", "deleting", "gone"}
    /\ specNotif \in BOOLEAN
    /\ status \in Status
    /\ tu \in [Buses -> AnySecret]
    /\ tuExists \in SUBSET Buses
    /\ fin \in SUBSET Secrets
    /\ config \in Config
    /\ deploy \in [hash : Config, observed : BOOLEAN]
    /\ pods \in SUBSET Pod
    /\ pc \in Steps
    /\ inst \in Status
    /\ loc \in Locals
    /\ queued \in BOOLEAN
    /\ spent \in [rotations : Nat, toggles : Nat, faults : Nat]

(* The CR has just been created and nothing has been reconciled yet.       *)
Init ==
    /\ cr = "new" /\ specNotif \in (IF NotifSecrets = {} THEN {FALSE} ELSE BOOLEAN)
    /\ status = NoStatus
    /\ tu = [b \in Buses |-> NoSecret] /\ tuExists = {}
    /\ fin = {} /\ config = NoConfig
    /\ deploy = [hash |-> NoConfig, observed |-> TRUE] /\ pods = {}
    /\ pc = "idle" /\ inst = NoStatus /\ loc = NoLocals
    /\ queued = TRUE
    /\ spent = [rotations |-> 0, toggles |-> 0, faults |-> 0]

-----------------------------------------------------------------------------
(* The reconcile.                                                          *)

Goto(step) == pc' = step

(* First reconcile of a CR: own finalizer and initial conditions are       *)
(* patched in and the request returns; the update requeues the CR.         *)
ReconcileNew ==
    /\ pc = "idle" /\ queued /\ cr = "new"
    /\ cr' = "active" /\ queued' = TRUE
    /\ UNCHANGED <<specNotif, status, busVars, fin, config, workload,
                   reconcile, spent>>

(* Fetch the CR, reset its conditions, capture the tracked notifications   *)
(* Secret and branch on the deletion timestamp.                            *)
ReconcileStart ==
    /\ pc = "idle" /\ queued /\ cr \in {"active", "deleting"}
    /\ queued' = FALSE
    /\ inst' = [status EXCEPT !.ready = FALSE]
    /\ loc' = [NoLocals EXCEPT !.bus = specNotif, !.oldNotif = status.notif]
    /\ Goto(IF cr = "deleting" THEN "collect" ELSE "transport")
    /\ UNCHANGED <<crVars, busVars, fin, config, workload, spent>>

(* Create or update the main TransportURL and read its SecretName.  Still  *)
(* empty: the reconcile goes on with an empty name, skipping the           *)
(* notifications bus.                                                      *)
ReconcileTransportURL ==
    /\ pc = "transport"
    /\ tuExists' = tuExists \cup {"main"}
    /\ loc' = [loc EXCEPT !.new = tu["main"]]
    /\ Goto(IF tu["main"] = NoSecret THEN "config" ELSE "manage")
    /\ UNCHANGED <<crVars, tu, fin, config, workload, inst, queued, spent>>

(* Mutant of ManageTransport: the new Secret is tracked at once.           *)
ManageTransport_TracksEarly ==
    /\ pc = "manage"
    /\ fin' = Manage(fin, loc.new)
    /\ inst' = [inst EXCEPT !.main = loc.new]
    /\ Goto("notif")
    /\ UNCHANGED <<crVars, busVars, config, workload, loc, queued, spent>>

(* Protect the Secret, and track it unless another one is still tracked.   *)
ManageTransport ==
    /\ pc = "manage"
    /\ fin' = Manage(fin, loc.new)
    /\ inst' = IF inst.main = NoSecret THEN [inst EXCEPT !.main = loc.new]
                                       ELSE inst
    /\ Goto("notif")
    /\ UNCHANGED <<crVars, busVars, config, workload, loc, queued, spent>>

(* ensureNotificationsTransportURL overwrites the tracked Secret with the  *)
(* TransportURL's current SecretName, or with nil when the bus is off.     *)
EnsureNotifications ==
    /\ pc = "notif"
    /\ LET new == IF loc.bus THEN tu["notif"] ELSE NoSecret IN
       /\ inst' = [inst EXCEPT !.notif = new]
       /\ loc' = [loc EXCEPT !.notif = new]
       /\ Goto(IF new = NoSecret THEN "config" ELSE "manageNotif")
    /\ tuExists' = IF loc.bus THEN tuExists \cup {"notif"} ELSE tuExists
    /\ UNCHANGED <<crVars, tu, fin, config, workload, queued, spent>>

ManageNotifications ==
    /\ pc = "manageNotif"
    /\ fin' = Manage(fin, loc.notif)
    /\ Goto("config")
    /\ UNCHANGED <<crVars, busVars, config, workload, inst, loc, queued, spent>>

(* What is rendered: without a notifications Secret the main URL is used.  *)
Rendered ==
    [main |-> loc.new, notif |-> IF loc.notif = NoSecret THEN loc.new ELSE loc.notif]

(* Render config-data and hash the inputs.  A changed hash is recorded and *)
(* the request returns (RequeueAfter 5s).  With no transport Secret the    *)
(* lookup of "" fails and the reconcile returns that error.                *)
ReconcileConfig ==
    /\ pc = "config"
    /\ IF loc.new = NoSecret
       THEN /\ loc' = [loc EXCEPT !.requeue = TRUE]
            /\ Goto("patch")
            /\ UNCHANGED <<config, inst>>
       ELSE /\ config' = Rendered
            /\ inst' = [inst EXCEPT !.hash = Rendered]
            /\ loc' = [loc EXCEPT !.requeue = (inst.hash # Rendered)]
            /\ Goto(IF inst.hash # Rendered THEN "patch" ELSE "deployment")
    /\ UNCHANGED <<crVars, busVars, fin, workload, queued, spent>>

(* Create or patch the Deployment with the input hash in CONFIG_HASH.      *)
ReconcileDeployment ==
    /\ pc = "deployment"
    /\ deploy' = IF deploy.hash = inst.hash THEN deploy
                 ELSE [hash |-> inst.hash, observed |-> FALSE]
    /\ queued' = (queued \/ deploy' # deploy)
    /\ Goto("ready")
    /\ UNCHANGED <<crVars, busVars, fin, config, pods, inst, loc, spent>>

(* Mutant of RolledOut: pods of older templates are not looked at.         *)
RolledOut_Template(hash) ==
    deploy.observed /\ deploy.hash = hash /\ pods # {}

(* deployment.IsReadyForInput: a live read that the rollout of this hash   *)
(* has completed.                                                          *)
RolledOut(hash) ==
    /\ deploy.observed /\ deploy.hash = hash
    /\ pods # {} /\ \A p \in pods : p.hash = hash

(* Read the workload's readiness once and use it for the applied hash and  *)
(* for both rotations.                                                     *)
CheckReady ==
    /\ pc = "ready"
    /\ LET ready == RolledOut(inst.hash) IN
       /\ loc' = [loc EXCEPT !.ready = ready]
       /\ inst' = IF ready
                  THEN [inst EXCEPT !.applied =
                            [main |-> loc.new, notif |-> loc.notif]]
                  ELSE inst
    /\ Goto("finalize")
    /\ UNCHANGED <<crVars, busVars, fin, config, workload, queued, spent>>

(* Mutant of FinalizeTransport: the status keeps the released Secret.      *)
FinalizeTransport_Untracked ==
    /\ pc = "finalize"
    /\ fin' = FinAfter(fin, inst.main, loc.new, loc.ready)
    /\ Goto("finalizeNotif")
    /\ UNCHANGED <<crVars, busVars, config, workload, inst, loc, queued, spent>>

(* FinalizeSecretRotation of the transport Secret.                         *)
FinalizeTransport ==
    /\ pc = "finalize"
    /\ fin' = FinAfter(fin, inst.main, loc.new, loc.ready)
    /\ inst' = [inst EXCEPT !.main = TrackedAfter(inst.main, loc.new, loc.ready)]
    /\ Goto("finalizeNotif")
    /\ UNCHANGED <<crVars, busVars, config, workload, loc, queued, spent>>

(* Notifications on: finalize its rotation.  Off: once rolled out, release *)
(* the old Secret and go on to delete the TransportURL, else keep tracking *)
(* the old Secret.                                                         *)
FinalizeNotifications ==
    /\ pc = "finalizeNotif"
    /\ \/ /\ loc.notif # NoSecret
          /\ fin' = FinAfter(fin, loc.oldNotif, loc.notif, loc.ready)
          /\ inst' = [inst EXCEPT !.notif =
                          TrackedAfter(loc.oldNotif, loc.notif, loc.ready)]
          /\ Goto("prune")
       \/ /\ loc.notif = NoSecret /\ loc.oldNotif # NoSecret /\ loc.ready
          /\ fin' = Remove(fin, loc.oldNotif)
          /\ Goto("deleteNotifURL")
          /\ UNCHANGED inst
       \/ /\ loc.notif = NoSecret /\ loc.oldNotif # NoSecret /\ ~loc.ready
          /\ inst' = [inst EXCEPT !.notif = loc.oldNotif]
          /\ Goto("prune")
          /\ UNCHANGED fin
       \/ /\ loc.notif = NoSecret /\ loc.oldNotif = NoSecret
          /\ inst' = [inst EXCEPT !.notif = NoSecret]
          /\ Goto("prune")
          /\ UNCHANGED fin
    /\ UNCHANGED <<crVars, busVars, config, workload, loc, queued, spent>>

DeleteNotificationsURL ==
    /\ pc = "deleteNotifURL"
    /\ tuExists' = tuExists \ {"notif"}
    /\ tu' = [tu EXCEPT !["notif"] = NoSecret]
    /\ inst' = [inst EXCEPT !.notif = NoSecret]
    /\ Goto("prune")
    /\ UNCHANGED <<crVars, fin, config, workload, loc, queued, spent>>

(* Mutants of Kept: the tracked Secrets only; whatever has the finalizer.  *)
Kept_Tracked == {inst.main, inst.notif}
Kept_All == fin

(* The Secrets that keep the finalizer at the end of a reconcile.          *)
Kept == {inst.main, loc.new, inst.notif, loc.notif}

(* Prune stranded finalizers, whatever the readiness, then set Ready when  *)
(* every sub-condition is true.                                            *)
PruneFinalizers ==
    /\ pc = "prune"
    /\ fin' = Prune(fin, Kept)
    /\ inst' = [inst EXCEPT !.ready =
                    loc.ready /\ (loc.bus => loc.notif # NoSecret)]
    /\ Goto("patch")
    /\ UNCHANGED <<crVars, busVars, config, workload, loc, queued, spent>>

-----------------------------------------------------------------------------
(* Deletion.                                                               *)

(* Mutant of CollectSecrets: the live TransportURLs are not asked.         *)
CollectSecrets_Status ==
    /\ pc = "collect"
    /\ loc' = [loc EXCEPT !.release = {inst.main, inst.notif}]
    /\ Goto("release")
    /\ UNCHANGED <<crVars, busVars, fin, config, workload, inst, queued, spent>>

(* Collect the Secrets named by the status and by the live TransportURLs.  *)
CollectSecrets ==
    /\ pc = "collect"
    /\ loc' = [loc EXCEPT !.release =
                   {inst.main, inst.notif} \cup {tu[b] : b \in tuExists}]
    /\ Goto("release")
    /\ UNCHANGED <<crVars, busVars, fin, config, workload, inst, queued, spent>>

(* Release them one call at a time, then drop the CR's own finalizer.      *)
ReleaseSecrets ==
    /\ pc = "release"
    /\ \/ \E s \in loc.release :
             /\ fin' = Remove(fin, s)
             /\ loc' = [loc EXCEPT !.release = @ \ {s}]
             /\ UNCHANGED pc
       \/ /\ loc.release = {}
          /\ loc' = [loc EXCEPT !.deleted = TRUE]
          /\ Goto("patch")
          /\ UNCHANGED fin
    /\ UNCHANGED <<crVars, busVars, config, workload, inst, queued, spent>>

-----------------------------------------------------------------------------
(* Every exit.                                                             *)

(* The deferred patch.  A change of the stored CR comes back as a watch    *)
(* event, an error or RequeueAfter as a requeue.  Without its own          *)
(* finalizer a CR under deletion is gone.                                  *)
PatchInstance ==
    /\ pc = "patch"
    /\ cr' = IF loc.deleted THEN "gone" ELSE cr
    /\ status' = inst
    /\ queued' = (queued \/ loc.requeue \/ inst # status)
    /\ Goto("idle") /\ inst' = NoStatus /\ loc' = NoLocals
    /\ UNCHANGED <<specNotif, busVars, fin, config, workload, spent>>

Spend(bound, limit) ==
    /\ spent[bound] < limit
    /\ spent' = [spent EXCEPT ![bound] = @ + 1]

(* A call of the step fails, or an input it waits for is missing: the      *)
(* request returns and is retried.  ensureNotificationsTransportURL has    *)
(* emptied the tracked Secret before its call can fail.                    *)
StepFails ==
    /\ pc \in NormalSteps \cup DeleteSteps
    /\ Spend("faults", MaxFaults)
    /\ inst' = IF pc = "notif" /\ loc.bus THEN [inst EXCEPT !.notif = NoSecret]
                                          ELSE inst
    /\ loc' = [loc EXCEPT !.requeue = TRUE]
    /\ Goto("patch")
    /\ UNCHANGED <<crVars, busVars, fin, config, workload, queued>>

(* The operator dies, or the patch fails: what the reconcile did to other  *)
(* objects stays, its copy of the status is lost.                          *)
Crash ==
    /\ pc # "idle"
    /\ Spend("faults", MaxFaults)
    /\ Goto("idle") /\ inst' = NoStatus /\ loc' = NoLocals
    /\ queued' = TRUE
    /\ UNCHANGED <<crVars, busVars, fin, config, workload>>

Reconcile ==
    \/ ReconcileNew \/ ReconcileStart
    \/ ReconcileTransportURL \/ ManageTransport
    \/ EnsureNotifications \/ ManageNotifications
    \/ ReconcileConfig \/ ReconcileDeployment \/ CheckReady
    \/ FinalizeTransport \/ FinalizeNotifications \/ DeleteNotificationsURL
    \/ PruneFinalizers
    \/ CollectSecrets \/ ReleaseSecrets
    \/ PatchInstance

-----------------------------------------------------------------------------
(* The rest of the cluster.                                                *)

(* infra-operator issues the first Secret of a TransportURL ...            *)
IssueSecret(b) ==
    /\ cr # "gone" /\ b \in tuExists /\ tu[b] = NoSecret
    /\ \E s \in SecretsOf[b] : tu' = [tu EXCEPT ![b] = s]
    /\ queued' = TRUE
    /\ UNCHANGED <<crVars, tuExists, fin, config, workload, reconcile, spent>>

(* ... and moves it to another one when the RabbitMQ user is rotated.      *)
(* Unless RapidRotation, only once the status shows the last move done.    *)
RotateSecret(b) ==
    /\ cr # "gone" /\ tu[b] # NoSecret
    /\ RapidRotation \/ status[b] = tu[b]
    /\ Spend("rotations", MaxRotations)
    /\ \E s \in SecretsOf[b] \ {tu[b]} : tu' = [tu EXCEPT ![b] = s]
    /\ queued' = TRUE
    /\ UNCHANGED <<crVars, tuExists, fin, config, workload, reconcile>>

(* The user sets or unsets Spec.NotificationsBus.                          *)
ToggleNotifications ==
    /\ cr \in {"new", "active"} /\ NotifSecrets # {}
    /\ Spend("toggles", MaxToggles)
    /\ specNotif' = ~specNotif /\ queued' = TRUE
    /\ UNCHANGED <<cr, status, busVars, fin, config, workload, reconcile>>

(* The user, or the parent Ironic, deletes the CR.                         *)
DeleteCR ==
    /\ cr = "active"
    /\ cr' = "deleting" /\ queued' = TRUE
    /\ UNCHANGED <<specNotif, status, busVars, fin, config, workload,
                   reconcile, spent>>

(* The Deployment controller observes a template, starts a pod of it (the  *)
(* pod loads config-data as it is then) and stops pods of older templates. *)
ObserveDeployment ==
    /\ cr # "gone" /\ ~deploy.observed
    /\ deploy' = [deploy EXCEPT !.observed = TRUE]
    /\ queued' = TRUE
    /\ UNCHANGED <<crVars, busVars, fin, config, pods, reconcile, spent>>

StartPod ==
    /\ cr # "gone" /\ deploy.observed /\ deploy.hash # NoConfig
    /\ \A p \in pods : p.hash # deploy.hash
    /\ pods' = pods \cup {[hash |-> deploy.hash, cfg |-> config]}
    /\ queued' = TRUE
    /\ UNCHANGED <<crVars, busVars, fin, config, deploy, reconcile, spent>>

StopPod ==
    /\ cr # "gone" /\ deploy.observed
    /\ \E q \in pods : q.hash = deploy.hash
    /\ \E p \in pods : p.hash # deploy.hash /\ pods' = pods \ {p}
    /\ queued' = TRUE
    /\ UNCHANGED <<crVars, busVars, fin, config, deploy, reconcile, spent>>

(* A container restarts inside its pod and loads config-data again.        *)
RestartPod ==
    /\ cr # "gone"
    /\ \E p \in pods : /\ p.cfg # config
                       /\ pods' = (pods \ {p}) \cup {[p EXCEPT !.cfg = config]}
    /\ queued' = TRUE
    /\ UNCHANGED <<crVars, busVars, fin, config, deploy, reconcile, spent>>

Rollout == ObserveDeployment \/ StartPod \/ StopPod

Next ==
    \/ Reconcile \/ StepFails \/ Crash
    \/ \E b \in Buses : IssueSecret(b) \/ RotateSecret(b)
    \/ ToggleNotifications \/ DeleteCR
    \/ Rollout \/ RestartPod

(* The operator and the cluster's controllers keep running; users and      *)
(* failures need not act.                                                  *)
Fairness ==
    /\ WF_vars(Reconcile) /\ WF_vars(Rollout)
    /\ \A b \in Buses : WF_vars(IssueSecret(b))

Spec == Init /\ [][Next]_vars
FairSpec == Spec /\ Fairness

-----------------------------------------------------------------------------
(* Properties.                                                             *)

(* Secrets a configuration hands to the pod that loads it.                 *)
Uses(c) == {c.main, c.notif} \ {NoSecret}

(* What config-data holds is protected: a pod that starts or restarts at   *)
(* any moment, also between two steps of a reconcile or after a crash,     *)
(* loads Secrets that carry the consumer finalizer (reconcileTransportURL  *)
(* before generateServiceSecrets; PruneSecretConsumerFinalizers' keep).    *)
RenderedProtected ==
    cr \in {"new", "active"} => Uses(config) \subseteq fin

(* The notifications Secret of every running pod carries the finalizer     *)
(* until the pod is replaced: the finalizer is on the Secrets              *)
(* "ironic-neutron-agent is actively consuming".                           *)
ConsumedNotifProtected ==
    cr \in {"new", "active"} => \A p \in pods : p.cfg.notif \in fin

(* For the transport Secret the controller keeps the promise of            *)
(* SecretConsumption: the Secret of every running pod, and the one the     *)
(* next pod will load, keep the finalizer, over every step.                *)
Consumption == INSTANCE SecretConsumption WITH
    Secrets <- TransportSecrets, held <- fin \cap TransportSecrets,
    rendered <- config.main, used <- {p.cfg.main : p \in pods},
    retired <- cr \in {"deleting", "gone"}
ImplementsConsumption == Consumption!Spec

(* The CR turns Ready only while every pod has loaded the transport Secret *)
(* that AppliedInputSecretHash then stands for: "the hash of the input     *)
(* Secret consumed by the currently ready workload".                       *)
ReadyMeansApplied ==
    [][status'.ready /\ ~status.ready =>
        \A p \in pods : p.cfg.main = status'.applied.main]_vars

(* Status.TransportURLSecret leaves a Secret only once no pod uses it.     *)
TrackedUntilUnused ==
    [][(status'.main # status.main /\ status.main # NoSecret)
        => \A p \in pods : p.cfg.main # status.main]_vars

(* A deleted CR leaves its finalizer on no Secret.                         *)
DeletedReleasesAll == cr = "gone" => fin = {}

(* When users and failures are done the books balance, however rotations   *)
(* and toggles fell together and whichever steps failed: the current       *)
(* Secrets and no others are protected, the status tracks them, every pod  *)
(* is of the template rendered from them and the CR is Ready; or the CR is *)
(* deleted.  (PruneSecretConsumerFinalizers' self-healing, and a requeue   *)
(* or a watch event for every change that still needs a reconcile.)        *)
Current == [main |-> tu["main"],
            notif |-> IF specNotif THEN tu["notif"] ELSE tu["main"]]
Settled ==
    /\ fin = Uses(Current)
    /\ status.main = tu["main"] /\ status.ready
    /\ RolledOut(Current)
Settles == <>[](Settled \/ cr = "gone")

(* Moreover every pod ends up having loaded the current Secrets, if no     *)
(* Secret rotates before its last rotation is done and the bus is not      *)
(* toggled (a toggle undone before the Deployment is patched may leave a   *)
(* pod that has restarted in between with the other configuration).        *)
Converges ==
    <>[](cr = "gone" \/ (Settled /\ (spent.toggles = 0 => \A p \in pods : p.cfg = Current)))
=============================================================================
