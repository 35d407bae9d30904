--------------------------------- MODULE Ironic ---------------------------------
(***************************************************************************)
(* The Ironic controller (src/internal/controller/ironic_controller.go)    *)
(* with the controllers of the sub-CRs it creates: the IronicConductors    *)
(* and the IronicAPI, and what it needs of the IronicInspector and the     *)
(* IronicNeutronAgent.  All run in one operator process; each CR has one   *)
(* reconcile in progress at most, reconciles of different CRs interleave.  *)
(*                                                                         *)
(* The parent owns the TransportURLs and the consumer finalizers, the      *)
(* sub-CRs own the pods.  A Secret travels from the parent's inputs into   *)
(* the spec of each sub-CR, from there into its config-data, its workload  *)
(* and its pods; AppliedInputSecretHash and ObservedGeneration travel back *)
(* and decide when the parent releases the Secret that was replaced.       *)
(*                                                                         *)
(* A step of a reconcile ends where another actor could see or change what *)
(* the next one uses.  Finalizers are only read by the properties, so the  *)
(* calls that set them belong to the step they follow.                     *)
(***************************************************************************)
EXTENDS Naturals, Sequences, SecretConsumer

CONSTANTS
    TransportSecrets,   \* Secrets infra-operator may issue for the main bus
    NotifSecrets,       \* ... and for the notifications bus
    ACSecrets,          \* application credentials of ironic
    InspectorACSecrets, \* ... and of ironic-inspector
    Conductors,         \* Spec.IronicConductors: a sequence of sub-CR names
    Inspector, Agent,   \* are replicas of inspector / neutron agent not 0?
    Installed,          \* start from a settled deployment, or from a new CR?
    RapidRotation,      \* may a Secret change before its last change is done?
    MaxRotations,       \* bound on changes of transport Secrets
    MaxEdits,           \* bound on edits of Secrets and buses, and deletions
    MaxRPCEdits,        \* bound on user edits of Spec.RPCTransport
    MaxFaults,          \* bound on failed calls and operator restarts
    MaxDisturbances     \* bound on all of these together

Buses == {"main", "notif"}
SecretsOf == [main |-> TransportSecrets, notif |-> NotifSecrets,
              ac |-> ACSecrets, iac |-> InspectorACSecrets]
Secrets == UNION {SecretsOf[k] : k \in DOMAIN SecretsOf}
AnySecret == Secrets \cup {NoSecret}

(* The sub-CRs in the order the parent reconciles them.                    *)
If(on, name) == IF on THEN <<name>> ELSE <<>>
SubCRs == Conductors \o <<"api">> \o If(Inspector, "inspector") \o If(Agent, "agent")
Children == {SubCRs[i] : i \in 1..Len(SubCRs)}
Services == Children \ {"inspector", "agent"}

NoBus == "no-bus"    \* see Data below

ASSUME SecretsAssumption ==
    /\ NoSecret \notin Secrets /\ NoBus \notin Secrets
    /\ \A j, k \in DOMAIN SecretsOf : j # k => SecretsOf[j] \cap SecretsOf[k] = {}
    /\ TransportSecrets # {}
(* Conductor sub-CRs are named <CR>-conductor[-<group>].                   *)
ASSUME ChildrenAssumption ==
    /\ Conductors \in Seq(STRING) /\ Inspector \in BOOLEAN /\ Agent \in BOOLEAN
    /\ \A i, j \in 1..Len(SubCRs) : SubCRs[i] = SubCRs[j] => i = j
    /\ \A i \in 1..Len(Conductors) : Conductors[i] \notin {"api", "inspector", "agent"}
    /\ "ironic" \notin Children
ASSUME BoundsAssumption ==
    /\ Installed \in BOOLEAN /\ RapidRotation \in BOOLEAN
    /\ {MaxRotations, MaxEdits, MaxRPCEdits, MaxFaults, MaxDisturbances} \subseteq Nat

VARIABLES
    cr,         \* lifecycle of the Ironic CR: new, active, deleting, gone
    spec,       \* the parts of its spec the user edits
    status,     \* its status as stored in the API server
    tu,         \* Status.SecretName of the TransportURL CR of each bus
    tuExists,   \* which TransportURL CRs exist
    fin,        \* Secrets with the consumer finalizer of their kind
    config,     \* Secrets rendered into the parent's config-data
    job,        \* the db-sync Job: none, running, done
    sub,        \* the sub-CRs (spec, status) and their config-data Secrets
    deploy,     \* CONFIG_HASH in the template of their workloads
    pods,       \* their pods: CONFIG_HASH they carry, Secrets they loaded
    pc,         \* next step of the parent's reconcile in progress
    inst,       \* its copy of the status
    loc,        \* its local variables
    run,        \* the reconcile in progress of each sub-CR
    queue,      \* CRs with a request in a work queue
    spent       \* how much of the bounds has been used

crVars == <<cr, spec, status>>
busVars == <<tu, tuExists>>
parentRun == <<pc, inst, loc>>
subVars == <<sub, deploy, pods, run>>
vars == <<cr, spec, status, tu, tuExists, fin, config, job, sub, deploy, pods,
          pc, inst, loc, run, queue, spent>>

-----------------------------------------------------------------------------
(* Data.  Inputs stands for the pieces of a spec that name Secrets, for    *)
(* what is rendered from them and (hashes being injective) for the hash    *)
(* expectedInputHash over them.  An inspector's `ac' is the credential of  *)
(* Spec.IronicInspector.  A workload's CONFIG_HASH covers its config-data  *)
(* and, for conductor and API, the parent's.  NoBus is a transport that    *)
(* uses none of the Secrets: the "fake://" of json-rpc, or the             *)
(* TransportURL that inspector and neutron agent own themselves.           *)

Inputs == [main : AnySecret \cup {NoBus}, notif : AnySecret, ac : AnySecret]
NoInputs == [main |-> NoSecret, notif |-> NoSecret, ac |-> NoSecret]
InputHash == [own : Inputs, parent : Inputs]
NoHash == [own |-> NoInputs, parent |-> NoInputs]

UserSpec == [oslo : BOOLEAN, bus : BOOLEAN, ac : ACSecrets \cup {NoSecret},
          iac : InspectorACSecrets \cup {NoSecret}]
Status == [main : AnySecret, notif : AnySecret, ac : AnySecret, iac : AnySecret,
           hash : Inputs, ready : BOOLEAN]
NoStatus == [main |-> NoSecret, notif |-> NoSecret, ac |-> NoSecret,
             iac |-> NoSecret, hash |-> NoInputs, ready |-> FALSE]
Conditions == {"conductor", "api", "inspector", "agent"}
Locals == [spec : UserSpec, main : AnySecret, notif : AnySecret, oldMain : AnySecret,
           oldNotif : AnySecret, next : Nat, all : BOOLEAN, waiting : BOOLEAN,
           up : SUBSET Conditions, deleted : BOOLEAN]
NoLocals == [spec |-> [oslo |-> TRUE, bus |-> FALSE, ac |-> NoSecret, iac |-> NoSecret],
             main |-> NoSecret, notif |-> NoSecret, oldMain |-> NoSecret,
             oldNotif |-> NoSecret, next |-> 1, all |-> TRUE, waiting |-> FALSE,
             up |-> {}, deleted |-> FALSE]

(* stage: absent, new (no conditions yet), known.                          *)
SubCR == [stage : {"absent", "new", "known"}, spec : Inputs, observed : BOOLEAN,
          hash : InputHash, applied : Inputs, ready : BOOLEAN, config : Inputs]
NoSubCR == [stage |-> "absent", spec |-> NoInputs, observed |-> FALSE,
            hash |-> NoHash, applied |-> NoInputs, ready |-> FALSE,
            config |-> NoInputs]
(* snap is the spec the reconcile read, seen whether it is still current.  *)
SubRun == [pc : {"idle", "render", "patch"}, snap : Inputs,
           seen : BOOLEAN, hash : InputHash, applied : Inputs, ready : BOOLEAN]
NoRun == [pc |-> "idle", snap |-> NoInputs, seen |-> FALSE, hash |-> NoHash,
          applied |-> NoInputs, ready |-> FALSE]
Pod == [hash : InputHash, cfg : Inputs]

NormalSteps == {"transport", "notif", "config", "dbsync", "children", "finalize",
                "deleteNotifURL", "prune"}
Steps == {"idle", "patch", "delete"} \cup NormalSteps

TypeOK ==
    /\ cr \in {"new", "active", "deleting", "gone"}
    /\ spec \in UserSpec /\ status \in Status
    /\ tu \in [Buses -> AnySecret] /\ tuExists \in SUBSET Buses
    /\ fin \in SUBSET Secrets
    /\ config \in Inputs
    /\ job \in {"none", "running", "done"}
    /\ sub \in [Children -> SubCR] /\ run \in [Children -> SubRun]
    /\ deploy \in [Children -> InputHash]
    /\ pods \in [Children -> SUBSET Pod]
    /\ pc \in Steps /\ inst \in Status /\ loc \in Locals
    /\ queue \in SUBSET (Children \cup {"ironic"})
    /\ spent \in [rotations : Nat, edits : Nat, rpc : Nat, faults : Nat]

(* A CR nobody has reconciled yet.                                         *)
InitNew ==
    /\ cr = "new" /\ status = NoStatus
    /\ tu = [b \in Buses |-> NoSecret] /\ tuExists = {}
    /\ fin = {} /\ config = NoInputs /\ job = "none"
    /\ sub = [c \in Children |-> NoSubCR]
    /\ deploy = [c \in Children |-> NoHash] /\ pods = [c \in Children |-> {}]
    /\ queue = {"ironic"}

(* A deployment that is Ready on the Secrets `in', with no event pending.  *)
InitInstalled(in) ==
    LET used(c) == CASE c \in Services -> in
                     [] c = "agent" -> [NoInputs EXCEPT !.main = NoBus, !.ac = spec.ac]
                     [] c = "inspector" -> [NoInputs EXCEPT !.main = NoBus, !.ac = spec.iac]
        own(c) == [used(c) EXCEPT !.notif = NoSecret]
        hash(c) == [own |-> own(c), parent |-> IF c \in Services THEN in ELSE NoInputs]
    IN
    /\ cr = "active"
    /\ status = [main |-> in.main, notif |-> in.notif, ac |-> spec.ac,
                 iac |-> spec.iac, hash |-> in, ready |-> TRUE]
    /\ tu = [main |-> in.main, notif |-> in.notif]
    /\ tuExists = {b \in Buses : in[b] # NoSecret}
    /\ fin = {in.main, in.notif, spec.ac, spec.iac} \ {NoSecret}
    /\ config = in /\ job = "done"
    /\ sub = [c \in Children |->
                 [stage |-> "known", spec |-> used(c), observed |-> TRUE,
                  hash |-> hash(c), applied |-> used(c), ready |-> TRUE,
                  config |-> own(c)]]
    /\ deploy = [c \in Children |-> hash(c)]
    /\ pods = [c \in Children |-> {[hash |-> hash(c), cfg |-> own(c)]}]
    /\ queue = {}

Init ==
    /\ spec \in {s \in UserSpec : s.oslo /\ (s.bus => NotifSecrets # {})}
    /\ \/ ~Installed /\ InitNew
       \/ /\ Installed
          /\ \E m \in TransportSecrets,
                n \in (IF spec.bus THEN NotifSecrets ELSE {NoSecret}) :
                InitInstalled([main |-> m, notif |-> n, ac |-> spec.ac])
    /\ run = [c \in Children |-> NoRun]
    /\ pc = "idle" /\ inst = NoStatus /\ loc = NoLocals
    /\ spent = [rotations |-> 0, edits |-> 0, rpc |-> 0, faults |-> 0]

-----------------------------------------------------------------------------
(* The parent's reconcile.                                                 *)

Goto(step) == pc' = step
Enqueue(crs) == queue' = queue \cup crs

(* First reconcile: own finalizer and initial conditions, then return.     *)
ReconcileNew ==
    /\ pc = "idle" /\ "ironic" \in queue /\ cr = "new"
    /\ cr' = "active"
    /\ UNCHANGED <<spec, status, busVars, fin, config, job, subVars, parentRun,
                   queue, spent>>

(* Fetch the CR, reset its conditions, capture the tracked transport       *)
(* Secrets, branch on the deletion timestamp.                              *)
ReconcileStart ==
    /\ pc = "idle" /\ "ironic" \in queue /\ cr \in {"active", "deleting"}
    /\ queue' = queue \ {"ironic"}
    /\ inst' = [status EXCEPT !.ready = FALSE]
    /\ loc' = [NoLocals EXCEPT !.spec = spec, !.oldMain = status.main,
                               !.oldNotif = status.notif]
    /\ Goto(IF cr = "deleting" THEN "delete" ELSE "transport")
    /\ UNCHANGED <<crVars, busVars, fin, config, job, subVars, spent>>

(* Mutant of ReconcileTransport: the rotated Secret is tracked at once.    *)
ReconcileTransport_TracksEarly ==
    /\ pc = "transport" /\ loc.spec.oslo
    /\ tuExists' = tuExists \cup {"main"}
    /\ loc' = [loc EXCEPT !.main = tu["main"]]
    /\ inst' = [inst EXCEPT !.main = tu["main"]]
    /\ fin' = Manage(fin, tu["main"])
    /\ Goto(IF tu["main"] = NoSecret THEN "patch" ELSE "notif")
    /\ UNCHANGED <<crVars, tu, config, job, subVars, queue, spent>>

(* RPCTransport oslo: create or update the TransportURL; without a Secret  *)
(* yet the request ends here.  The Secret is tracked early when none is,   *)
(* and protected.  Otherwise (json-rpc) the tracked Secrets are released   *)
(* on the spot.                                                            *)
ReconcileTransport ==
    /\ pc = "transport"
    /\ \/ /\ loc.spec.oslo
          /\ tuExists' = tuExists \cup {"main"}
          /\ loc' = [loc EXCEPT !.main = tu["main"]]
          /\ inst' = IF inst.main = NoSecret THEN [inst EXCEPT !.main = tu["main"]]
                                             ELSE inst
          /\ fin' = Manage(fin, tu["main"])
          /\ Goto(IF tu["main"] = NoSecret THEN "patch" ELSE "notif")
       \/ /\ ~loc.spec.oslo
          /\ fin' = Remove(Remove(fin, inst.main), inst.notif)
          /\ inst' = [inst EXCEPT !.main = NoSecret, !.notif = NoSecret]
          /\ Goto("config")
          /\ UNCHANGED <<tuExists, loc>>
    /\ UNCHANGED <<crVars, tu, config, job, subVars, queue, spent>>

(* ensureNotificationsTransportURL overwrites the tracked Secret with the  *)
(* current one, or with nil when the bus is off; the current one is then   *)
(* protected.                                                              *)
ReconcileNotifications ==
    /\ pc = "notif"
    /\ LET new == IF loc.spec.bus THEN tu["notif"] ELSE NoSecret IN
       /\ inst' = [inst EXCEPT !.notif = new]
       /\ loc' = [loc EXCEPT !.notif = new]
       /\ fin' = Manage(fin, new)
    /\ tuExists' = IF loc.spec.bus THEN tuExists \cup {"notif"} ELSE tuExists
    /\ Goto("config")
    /\ UNCHANGED <<crVars, tu, config, job, subVars, queue, spent>>

(* What the parent renders.  The fallback of an unset notifications URL is  *)
(* the main one, which the template then leaves out.                       *)
MainInput == IF loc.spec.oslo THEN loc.main ELSE NoBus
Rendered == [main |-> MainInput, notif |-> loc.notif, ac |-> loc.spec.ac]

(* findObjectsForSrc of conductor and API: the sub-CRs an update of the    *)
(* parent's config-data Secret wakes.                                      *)
Watching == {c \in Services : sub[c].stage # "absent"}

(* Render config-data and hash the inputs.  A changed hash is recorded and *)
(* the request returns; the status update brings the CR back.              *)
ReconcileConfig ==
    /\ pc = "config"
    /\ config' = Rendered
    /\ Enqueue(IF config = Rendered THEN {} ELSE Watching)
    /\ inst' = [inst EXCEPT !.hash = Rendered]
    /\ Goto(IF inst.hash # Rendered THEN "patch" ELSE "dbsync")
    /\ UNCHANGED <<crVars, busVars, fin, job, subVars, loc, spent>>

(* Protect both application credentials.  reconcileUpgrade: the sub-CRs    *)
(* wait for the db-sync Job.                                               *)
ReconcileUpgrade ==
    /\ pc = "dbsync"
    /\ fin' = Manage(Manage(fin, loc.spec.ac), loc.spec.iac)
    /\ \/ job = "done" /\ Goto("children") /\ UNCHANGED <<job, queue>>
       \/ job # "done" /\ job' = "running" /\ Goto("patch") /\ Enqueue({"ironic"})
    /\ UNCHANGED <<crVars, busVars, config, subVars, inst, loc, spent>>

(* What the spec of a conductor or API says.                               *)
ServiceSpec == [main |-> MainInput, notif |-> inst.notif, ac |-> loc.spec.ac]

(* Inspector and neutron agent get their credential only: they have        *)
(* TransportURLs of their own.                                             *)
AgentSpec(c) == [NoInputs EXCEPT !.main = NoBus,
                     !.ac = IF c = "agent" THEN loc.spec.ac ELSE loc.spec.iac]

SubSpec(c) == IF c \in Services THEN ServiceSpec ELSE AgentSpec(c)

(* Mutant of UpToDate: the generation alone decides for every sub-CR.      *)
UpToDate_Generation(c, s) == s.observed

(* When the parent takes a sub-CR's status for the outcome of this spec:   *)
(* its generation is observed and, for conductor and API, the expected     *)
(* input hash applied.                                                     *)
UpToDate(c, s) ==
    /\ s.observed
    /\ c \in Services => s.applied = s.spec

(* Mutant of ConditionOf: every conductor has a condition of its own.      *)
ConditionOf_Name(c) == c

(* All conductors share one condition, set by the last one mirrored.       *)
ConditionOf(c) == IF c \in Services \ {"api"} THEN "conductor" ELSE c

(* Mutant of Mirrored: the condition of an outdated status is taken.       *)
Mirrored_Outdated(c, s) ==
    IF s.ready THEN loc.up \cup {ConditionOf(c)} ELSE loc.up \ {ConditionOf(c)}

(* The true conditions once the status s of c is mirrored into them, which *)
(* happens only when it is the outcome of the current spec.                *)
Mirrored(c, s) ==
    CASE ~UpToDate(c, s) -> loc.up
      [] UpToDate(c, s) /\ s.ready  -> loc.up \cup {ConditionOf(c)}
      [] UpToDate(c, s) /\ ~s.ready -> loc.up \ {ConditionOf(c)}

(* Create or update one sub-CR and look at its status.                     *)
ReconcileSubCR ==
    /\ pc = "children"
    /\ LET c == SubCRs[loc.next]
           s == IF sub[c].spec = SubSpec(c) /\ sub[c].stage # "absent" THEN sub[c]
                ELSE [sub[c] EXCEPT !.spec = SubSpec(c), !.observed = FALSE,
                          !.stage = IF @ = "absent" THEN "new" ELSE @]
       IN
       /\ sub' = [sub EXCEPT ![c] = s]
       /\ run' = [run EXCEPT ![c].seen = @ /\ s = sub[c]]
       /\ Enqueue(IF s = sub[c] THEN {} ELSE {c})
       /\ loc' = [loc EXCEPT
                    !.next = @ + 1,
                    !.all = @ /\ UpToDate(c, s),
                    !.waiting = @ \/ (ConditionOf(c) = "conductor" /\ ~UpToDate(c, s)),
                    !.up = Mirrored(c, s)]
    /\ Goto(IF loc.next = Len(SubCRs) THEN "finalize" ELSE "children")
    /\ UNCHANGED <<crVars, busVars, fin, config, job, deploy, pods, inst, spent>>

(* Conditions after the loop: replicas 0 count as ready, and one conductor *)
(* that is not up to date resets the condition of all.                     *)
Up == (IF loc.waiting THEN loc.up \ {"conductor"} ELSE loc.up)
      \cup (IF Inspector THEN {} ELSE {"inspector"})
      \cup (IF Agent THEN {} ELSE {"agent"})

(* The loop is done: FinalizeSecretRotation of both credentials and of the *)
(* transport.  Notifications on: its rotation too.  Off: when all sub-CRs  *)
(* are up to date release the old Secret and go on to delete the           *)
(* TransportURL, else keep tracking it.                                    *)
FinalizeRotations ==
    /\ pc = "finalize"
    /\ LET off == loc.notif = NoSecret
           f == FinAfter(FinAfter(FinAfter(fin, inst.ac, loc.spec.ac, loc.all),
                                  inst.iac, loc.spec.iac, loc.all),
                         loc.oldMain, loc.main, loc.all)
       IN
       /\ fin' = IF off /\ ~loc.all THEN f
                 ELSE FinAfter(f, loc.oldNotif, loc.notif, loc.all)
       /\ inst' = [inst EXCEPT
                     !.ac = TrackedAfter(@, loc.spec.ac, loc.all),
                     !.iac = TrackedAfter(@, loc.spec.iac, loc.all),
                     !.main = TrackedAfter(loc.oldMain, loc.main, loc.all),
                     !.notif = TrackedAfter(loc.oldNotif, loc.notif, loc.all)]
       /\ Goto(IF off /\ loc.oldNotif # NoSecret /\ loc.all THEN "deleteNotifURL"
               ELSE "prune")
    /\ UNCHANGED <<crVars, busVars, config, job, subVars, loc, queue, spent>>

DeleteNotificationsURL ==
    /\ pc = "deleteNotifURL"
    /\ tuExists' = tuExists \ {"notif"}
    /\ tu' = [tu EXCEPT !["notif"] = NoSecret]
    /\ Goto("prune")
    /\ UNCHANGED <<crVars, fin, config, job, subVars, inst, loc, queue, spent>>

(* Mutant of Kept: only the current Secrets are kept.                      *)
Kept_Current == {loc.main, loc.notif, loc.spec.ac, loc.spec.iac}

(* Mutant of Kept: what carries the finalizer keeps it, nothing is pruned. *)
Kept_Held == fin

(* The Secrets that keep a consumer finalizer.                             *)
Kept == {inst.main, loc.main, inst.notif, loc.notif,
         inst.ac, loc.spec.ac, inst.iac, loc.spec.iac}

(* Prune the stranded finalizers of the three kinds, then set Ready when   *)
(* every sub-condition is true.                                            *)
PruneFinalizers ==
    /\ pc = "prune"
    /\ fin' = Prune(fin, Kept)
    /\ inst' = [inst EXCEPT !.ready =
                    /\ Up = Conditions
                    /\ loc.spec.oslo /\ loc.spec.bus => loc.notif # NoSecret]
    /\ Goto("patch")
    /\ UNCHANGED <<crVars, busVars, config, job, subVars, loc, queue, spent>>

(* Deletion: release what status, spec and live TransportURLs name, prune  *)
(* with nothing to keep, drop the CR's own finalizer.                      *)
ReconcileDelete ==
    /\ pc = "delete"
    /\ LET named == {inst.main, inst.notif, inst.ac, loc.spec.ac, inst.iac, loc.spec.iac}
                    \cup {tu[b] : b \in tuExists}
       IN fin' = Prune(fin \ named, {})
    /\ loc' = [loc EXCEPT !.deleted = TRUE]
    /\ Goto("patch")
    /\ UNCHANGED <<crVars, busVars, config, job, subVars, inst, queue, spent>>

(* The deferred patch, on every exit.                                      *)
PatchInstance ==
    /\ pc = "patch"
    /\ cr' = IF loc.deleted THEN "gone" ELSE cr
    /\ status' = inst
    /\ Enqueue(IF inst = status THEN {} ELSE {"ironic"})
    /\ Goto("idle") /\ inst' = NoStatus /\ loc' = NoLocals
    /\ UNCHANGED <<spec, busVars, fin, config, job, subVars, spent>>

Spend(bound, limit) ==
    /\ spent[bound] < limit
    /\ spent.rotations + spent.edits + spent.rpc + spent.faults < MaxDisturbances
    /\ spent' = [spent EXCEPT ![bound] = @ + 1]

(* A call of the step fails: the request returns with the error.           *)
StepFails ==
    /\ pc \in NormalSteps \cup {"delete"}
    /\ Spend("faults", MaxFaults)
    /\ inst' = IF pc = "notif" /\ loc.spec.bus THEN [inst EXCEPT !.notif = NoSecret]
                                               ELSE inst
    /\ Goto("patch") /\ Enqueue({"ironic"})
    /\ UNCHANGED <<crVars, busVars, fin, config, job, subVars, loc>>

(* The operator restarts: every reconcile in progress is lost, every CR is *)
(* listed and queued again.                                                *)
Crash ==
    /\ cr # "gone"
    /\ Spend("faults", MaxFaults)
    /\ Goto("idle") /\ inst' = NoStatus /\ loc' = NoLocals
    /\ run' = [c \in Children |-> NoRun]
    /\ Enqueue({"ironic"} \cup {c \in Children : sub[c].stage # "absent"})
    /\ UNCHANGED <<crVars, busVars, fin, config, job, sub, deploy, pods>>

ReconcileParent ==
    \/ ReconcileNew \/ ReconcileStart
    \/ ReconcileTransport \/ ReconcileNotifications
    \/ ReconcileConfig \/ ReconcileUpgrade \/ ReconcileSubCR
    \/ FinalizeRotations \/ DeleteNotificationsURL \/ PruneFinalizers
    \/ ReconcileDelete
    \/ PatchInstance

-----------------------------------------------------------------------------
(* A sub-CR's reconcile.                                                   *)

(* First reconcile: conditions, finalizer and ObservedGeneration, return.  *)
SubNew(c) ==
    /\ cr # "gone" /\ run[c].pc = "idle" /\ c \in queue /\ sub[c].stage = "new"
    /\ sub' = [sub EXCEPT ![c].stage = "known", ![c].observed = TRUE]
    /\ UNCHANGED <<crVars, busVars, fin, config, job, deploy, pods, parentRun, run,
                   queue, spent>>

(* Fetch the CR; ObservedGeneration is set before anything is processed.   *)
SubStart(c) ==
    /\ cr # "gone" /\ run[c].pc = "idle" /\ c \in queue /\ sub[c].stage = "known"
    /\ run' = [run EXCEPT ![c] =
                 [pc |-> "render", snap |-> sub[c].spec, seen |-> TRUE,
                  hash |-> sub[c].hash, applied |-> sub[c].applied, ready |-> FALSE]]
    /\ queue' = queue \ {c}
    /\ UNCHANGED <<crVars, busVars, fin, config, job, sub, deploy, pods, parentRun, spent>>

(* Its config-data holds the transport URL and the credential, not the     *)
(* notifications URL.                                                      *)
SubRendered(c) == [run[c].snap EXCEPT !.notif = NoSecret]
SubHash(c) == [own |-> SubRendered(c),
               parent |-> IF c \in Services THEN config ELSE NoInputs]

(* Mutant of RolledOut: an updated template counts as a rollout.           *)
RolledOut_Template(c, hash) == deploy[c] = hash /\ pods[c] # {}

(* IsReadyForInput: the rollout of this hash has completed.                *)
RolledOut(c, hash) ==
    deploy[c] = hash /\ pods[c] # {} /\ \A p \in pods[c] : p.hash = hash

(* Render config-data.  A changed input hash is recorded and the request   *)
(* returns.  Otherwise the Deployment or StatefulSet gets it, and once it  *)
(* is rolled out the inputs of the snapshot count as applied.  A changed   *)
(* workload is a watch event for the sub-CR.                               *)
SubReconcile(c) ==
    /\ cr # "gone" /\ run[c].pc = "render"
    /\ sub' = [sub EXCEPT ![c].config = SubRendered(c)]
    /\ \/ /\ run[c].hash # SubHash(c)
          /\ run' = [run EXCEPT ![c].pc = "patch", ![c].hash = SubHash(c)]
          /\ UNCHANGED deploy
       \/ /\ run[c].hash = SubHash(c)
          /\ deploy' = [deploy EXCEPT ![c] = run[c].hash]
          /\ LET ready == RolledOut(c, run[c].hash) IN
             run' = [run EXCEPT ![c].pc = "patch", ![c].ready = ready,
                                ![c].applied = IF ready THEN run[c].snap ELSE @]
    /\ Enqueue(IF deploy' = deploy THEN {} ELSE {c})
    /\ UNCHANGED <<crVars, busVars, fin, config, job, pods, parentRun, spent>>

(* Whom a status change of a sub-CR wakes: its own controller and, owning  *)
(* it, the parent.  The mutant forgets the owner.                          *)
Woken_Self(c) == {c}
Woken(c) == {c, "ironic"}

(* The deferred patch.                                                     *)
SubPatch(c) ==
    /\ cr # "gone" /\ run[c].pc = "patch"
    /\ sub' = [sub EXCEPT ![c].observed = run[c].seen, ![c].hash = run[c].hash,
                  ![c].applied = run[c].applied, ![c].ready = run[c].ready]
    /\ Enqueue(IF sub' = sub THEN {} ELSE Woken(c))
    /\ run' = [run EXCEPT ![c] = NoRun]
    /\ UNCHANGED <<crVars, busVars, fin, config, job, deploy, pods, parentRun, spent>>

SubFails(c) ==
    /\ cr # "gone" /\ run[c].pc = "render"
    /\ Spend("faults", MaxFaults)
    /\ run' = [run EXCEPT ![c].pc = "patch"]
    /\ Enqueue({c})
    /\ UNCHANGED <<crVars, busVars, fin, config, job, sub, deploy, pods, parentRun>>

ReconcileSub(c) ==
    SubNew(c) \/ SubStart(c) \/ SubReconcile(c) \/ SubPatch(c)

-----------------------------------------------------------------------------
(* The rest of the cluster.                                                *)

(* infra-operator issues the first Secret of a TransportURL and later      *)
(* moves it to another.  Unless RapidRotation, a Secret is only replaced   *)
(* when it is tracked and every conductor and API has applied it.          *)
Replaceable(k, current) ==
    RapidRotation \/ /\ status[k] = current
                     /\ k # "iac" => \A c \in Services : /\ sub[c].spec[k] = current
                                                        /\ sub[c].applied[k] = current

IssueSecret(b) ==
    /\ cr # "gone" /\ b \in tuExists /\ tu[b] = NoSecret
    /\ \E s \in SecretsOf[b] : tu' = [tu EXCEPT ![b] = s]
    /\ Enqueue({"ironic"})
    /\ UNCHANGED <<crVars, tuExists, fin, config, job, subVars, parentRun, spent>>

RotateSecret(b) ==
    /\ cr # "gone" /\ tu[b] # NoSecret
    /\ Replaceable(b, tu[b])
    /\ Spend("rotations", MaxRotations)
    /\ \E s \in SecretsOf[b] \ {tu[b]} : tu' = [tu EXCEPT ![b] = s]
    /\ Enqueue({"ironic"})
    /\ UNCHANGED <<crVars, tuExists, fin, config, job, subVars, parentRun>>

(* The user edits the CR.                                                  *)
Edit(new, bound, limit) ==
    /\ cr \in {"new", "active"} /\ new # spec
    /\ Spend(bound, limit)
    /\ spec' = new
    /\ Enqueue({"ironic"})
    /\ UNCHANGED <<cr, status, busVars, fin, config, job, subVars, parentRun>>

EditCredential(k) ==
    /\ Replaceable(k, spec[k])
    /\ \E s \in SecretsOf[k] \cup {NoSecret} :
          Edit([spec EXCEPT ![k] = s], "edits", MaxEdits)
ToggleNotifications ==
    /\ NotifSecrets # {}
    /\ Edit([spec EXCEPT !.bus = ~@], "edits", MaxEdits)
ToggleRPCTransport == Edit([spec EXCEPT !.oslo = ~@], "rpc", MaxRPCEdits)

DeleteCR ==
    /\ cr = "active"
    /\ Spend("edits", MaxEdits)
    /\ cr' = "deleting" /\ Enqueue({"ironic"})
    /\ UNCHANGED <<spec, status, busVars, fin, config, job, subVars, parentRun>>

JobDone ==
    /\ cr # "gone" /\ job = "running"
    /\ job' = "done" /\ Enqueue({"ironic"})
    /\ UNCHANGED <<crVars, busVars, fin, config, subVars, parentRun, spent>>

(* The workload controllers start a pod of the current template, which     *)
(* loads config-data as it is then, and stop pods of older templates.      *)
Workload(c) ==
    /\ cr # "gone" /\ Enqueue({c})
    /\ UNCHANGED <<crVars, busVars, fin, config, job, sub, deploy, run, parentRun, spent>>

StartPod(c) ==
    /\ Workload(c) /\ deploy[c] # NoHash
    /\ \A p \in pods[c] : p.hash # deploy[c]
    /\ pods' = [pods EXCEPT ![c] = @ \cup {[hash |-> deploy[c], cfg |-> sub[c].config]}]

StopPod(c) ==
    /\ Workload(c)
    /\ \E q \in pods[c] : q.hash = deploy[c]
    /\ \E p \in pods[c] : p.hash # deploy[c] /\ pods' = [pods EXCEPT ![c] = @ \ {p}]

(* A container restarts inside its pod and loads config-data again.        *)
RestartPod(c) ==
    /\ Workload(c)
    /\ \E p \in pods[c] :
          /\ p.cfg # sub[c].config
          /\ pods' = [pods EXCEPT ![c] = (@ \ {p})
                                         \cup {[p EXCEPT !.cfg = sub[c].config]}]

Rollout(c) == StartPod(c) \/ StopPod(c)

Next ==
    \/ ReconcileParent \/ StepFails \/ Crash
    \/ \E c \in Children : ReconcileSub(c) \/ SubFails(c) \/ Rollout(c) \/ RestartPod(c)
    \/ \E b \in Buses : IssueSecret(b) \/ RotateSecret(b)
    \/ \E k \in {"ac", "iac"} : EditCredential(k)
    \/ ToggleNotifications \/ ToggleRPCTransport \/ DeleteCR \/ JobDone

(* The operator and the cluster's controllers keep running; users and      *)
(* failures need not act.                                                  *)
Fairness ==
    /\ WF_vars(ReconcileParent) /\ WF_vars(JobDone)
    /\ \A c \in Children : WF_vars(ReconcileSub(c)) /\ WF_vars(Rollout(c))
    /\ \A b \in Buses : WF_vars(IssueSecret(b))

Spec == Init /\ [][Next]_vars
FairSpec == Spec /\ Fairness

-----------------------------------------------------------------------------
(* Properties.                                                             *)

(* Secrets a configuration hands to the pod that loads it.                 *)
Uses(c) == {c.main, c.ac} \ {NoSecret, NoBus}

(* Conductor and API pods, and any pod that starts from their config-data, *)
(* only use Secrets that carry the consumer finalizer: a new Secret is     *)
(* protected before a sub-CR learns of it and an old one until the last    *)
(* rollout is done ("the service is actively consuming" the Secret).       *)
ServicesProtected ==
    cr \in {"new", "active"} =>
        \A c \in Services : /\ Uses(sub[c].config) \subseteq fin
                            /\ \A p \in pods[c] : Uses(p.cfg) \subseteq fin

(* The same for the neutron agent's and the inspector's credentials.       *)
AgentsProtected ==
    cr \in {"new", "active"} =>
        \A c \in Children \ Services : \A p \in pods[c] : Uses(p.cfg) \subseteq fin

(* The gate of the parent's releases means what it is used for: when       *)
(* ObservedGeneration is current and AppliedInputSecretHash the expected   *)
(* one, every pod of the sub-CR has loaded the Secrets its spec names.     *)
AppliedMeansLoaded ==
    \A c \in Services :
        UpToDate(c, sub[c]) /\ sub[c].stage = "known" =>
            \A p \in pods[c] : p.cfg = [sub[c].spec EXCEPT !.notif = NoSecret]

(* Status stops tracking a transport or credential Secret only when no     *)
(* conductor or API pod uses it.                                           *)
TrackedUntilUnused ==
    [][\A k \in {"main", "ac"} :
        (status'[k] # status[k] /\ status[k] # NoSecret)
            => \A c \in Services : \A p \in pods[c] : status[k] \notin Uses(p.cfg)]_vars

(* Once the parent has no event left to process, its Ready condition does  *)
(* not outlive that of a sub-CR: every sub-CR is ready for the spec it has *)
(* (the sub-CRs' conditions mirrored by reconcileNormal).                  *)
ReadyIsCurrent ==
    (pc = "idle" /\ "ironic" \notin queue /\ status.ready)
        => \A c \in Children : sub[c].ready /\ UpToDate(c, sub[c])

(* When users and failures are done, the CR becomes Ready (unless it lists *)
(* no conductor) with exactly the wanted Secrets protected and tracked and *)
(* every conductor and API pod of the template rendered from them; or the  *)
(* CR is deleted and protects no Secret any more.  Every change that needs *)
(* another reconcile is a watch event or a requeue.                        *)
Current == [main |-> IF spec.oslo THEN tu["main"] ELSE NoBus,
            notif |-> IF spec.oslo /\ spec.bus THEN tu["notif"] ELSE NoSecret,
            ac |-> spec.ac]
Settled ==
    /\ Conductors # <<>> => status.ready
    /\ fin = {Current.main, Current.notif, spec.ac, spec.iac} \ {NoSecret, NoBus}
    /\ spec.oslo => status.main = tu["main"]
    /\ status.ac = spec.ac /\ status.iac = spec.iac
    /\ \A c \in Services :
          RolledOut(c, [own |-> [Current EXCEPT !.notif = NoSecret], parent |-> Current])
Settles == <>[](IF cr = "gone" THEN fin = {} ELSE Settled)
=============================================================================
