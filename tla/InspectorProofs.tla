---------------------------- MODULE InspectorProofs ----------------------------
(***************************************************************************)
(* Proofs about Inspector, for any Secrets, accounts, images, Topologies   *)
(* and specs and any bounds.                                               *)
(***************************************************************************)
EXTENDS Inspector, TLAPS

(* Types.  A reconcile in progress has read the spec.                      *)
TypeInv ==
    /\ TypeOK
    /\ pc # "idle" => loc.spec \in SpecType

Locals == [spec : AnyOr(SpecType), new : AnySecret, notif : AnySecret,
           oldNotif : AnySecret, ready : BOOLEAN, requeue : BOOLEAN,
           release : SUBSET AnySecret, deleted : BOOLEAN]
Spent == [rotations : Nat, edits : Nat, faults : Nat, crashes : Nat]

LEMMA TypeFacts ==
    /\ NoStatus \in Status /\ NoLocals \in Locals /\ NoConfig \in Config
    /\ NoSecret \in AnySecret
    /\ \A b \in Buses : SecretsOf[b] \subseteq Secrets
  BY DEF NoStatus, Status, NoLocals, Locals, NoConfig, Config, Applied, AnyOr, AnySecret,
         Secrets, SecretsOf, Buses

LEMMA SpendType ==
    ASSUME spent \in Spent, NEW bound \in {"rotations", "edits", "faults", "crashes"},
           NEW limit, Spend(bound, limit)
    PROVE  spent' \in Spent
  BY DEF Spend, Spent

LEMMA TypeInit == Init => TypeInv
  <1> SUFFICES ASSUME Init PROVE TypeInv
    OBVIOUS
  <1>1. /\ tu \in [Buses -> AnySecret] /\ accounts \in [Accounts -> {"none", "pending", "ready"}]
        /\ keystone \in [Registrations -> {"none", "pending", "ready"}]
    BY TypeFacts DEF Init
  <1>2. /\ ss \in [template : AnyOr(Template), observed : BOOLEAN]
        /\ job \in [image : AnyOr(Images), done : BOOLEAN]
    BY DEF Init, AnyOr
  <1>3. spec \in SpecType /\ pc = "idle"
    BY NamesAssumption DEF Init
  <1>4. spent \in Spent /\ status \in Status /\ inst \in Status /\ loc \in Locals
    BY TypeFacts DEF Init, Spent
  <1> QED
    BY <1>1, <1>2, <1>3, <1>4, TypeFacts DEF Init, TypeInv, TypeOK, Locals, Spent

(* What a reconcile reads and computes.                                    *)
LEMMA LocalsStep ==
    ASSUME TypeInv, [Next]_vars
    PROVE  loc' \in Locals /\ (pc' # "idle" => loc'.spec \in SpecType)
  <1>0. /\ loc \in Locals /\ (pc # "idle" => loc.spec \in SpecType)
        /\ tu["main"] \in AnySecret /\ tu["notif"] \in AnySecret
        /\ \A b \in tuExists : tu[b] \in AnySecret
        /\ spec \in SpecType /\ status.notif \in AnySecret
        /\ inst.main \in AnySecret /\ inst.notif \in AnySecret
    BY DEF TypeInv, TypeOK, Locals, Status, Buses
  <1> USE <1>0, TypeFacts DEF Goto, Requeue, Locals
  <1>1. CASE ReconcileStart
    BY <1>1 DEF ReconcileStart, NoLocals, AnyOr
  <1>2. CASE ReconcileTransportURL
    BY <1>2 DEF ReconcileTransportURL
  <1>3. CASE EnsureNotifications
    BY <1>3 DEF EnsureNotifications
  <1>4. ASSUME pc # "idle", UNCHANGED loc \/ loc' = [loc EXCEPT !.requeue = TRUE]
        PROVE  loc' \in Locals /\ (pc' # "idle" => loc'.spec \in SpecType)
    BY <1>4
  <1>5. ASSUME ReconcileDatabase \/ ReconcileConfig \/ DbSync \/ Register \/ EnsureTopology
               \/ ReconcileStatefulSet \/ ReleaseAccounts \/ FinalizeTransport
               \/ FinalizeNotifications \/ DeleteNotificationsURL \/ PruneFinalizers
               \/ DeleteRegistration \/ DeleteDatabase \/ DeleteTopology \/ StepFails
        PROVE  pc # "idle" /\ (UNCHANGED loc \/ loc' = [loc EXCEPT !.requeue = TRUE])
    BY <1>5 DEF ReconcileDatabase, ReconcileConfig, DbSync, Register, EnsureTopology,
         ReconcileStatefulSet, ReleaseAccounts, FinalizeTransport, FinalizeNotifications,
         DeleteNotificationsURL, PruneFinalizers, DeleteRegistration, DeleteDatabase,
         DeleteTopology, StepFails, Registrations, NormalSteps, DeleteSteps
  <1>6. CASE CheckReady
    <2>1. pc = "ready" /\ (\/ loc' = [loc EXCEPT !.ready = TRUE]
                           \/ loc' = [loc EXCEPT !.requeue = TRUE])
      BY <1>6 DEF CheckReady
    <2> QED
      BY <2>1
  <1>7. CASE CollectSecrets
    <2>1. {inst.main, inst.notif} \cup {tu[b] : b \in tuExists} \in SUBSET AnySecret
      OBVIOUS
    <2> QED
      BY <1>7, <2>1 DEF CollectSecrets
  <1>8. CASE ReleaseSecrets
    <2>1. \A s : loc.release \ {s} \in SUBSET AnySecret
      OBVIOUS
    <2>2. pc = "release" /\ (\/ \E s : loc' = [loc EXCEPT !.release = loc.release \ {s}]
                             \/ loc' = [loc EXCEPT !.deleted = TRUE])
      BY <1>8 DEF ReleaseSecrets
    <2> QED
      BY <2>1, <2>2
  <1>9. CASE PatchInstance \/ Crash
    BY <1>9 DEF PatchInstance, Crash
  <1>10. ASSUME ReconcileNew \/ (\E b \in Buses : IssueSecret(b) \/ RotateSecret(b))
                \/ AccountReady \/ JobDone \/ Registered \/ EditSpec \/ DeleteCR
                \/ Rollout \/ RestartPod \/ UNCHANGED vars
         PROVE  UNCHANGED <<pc, loc>>
    BY <1>10 DEF ReconcileNew, IssueSecret, RotateSecret, AccountReady, JobDone,
         Registered, EditSpec, DeleteCR, Rollout, RestartPod, reconcile, vars
  <1> QED
    BY <1>1, <1>2, <1>3, <1>4, <1>5, <1>6, <1>7, <1>8, <1>9, <1>10 DEF Next, Reconcile

(* The stored status and the copy of it.                                   *)
LEMMA StatusStep ==
    ASSUME TypeInv, [Next]_vars
    PROVE  inst' \in Status /\ status' \in Status
  <1>0. /\ inst \in Status /\ status \in Status
        /\ tu["main"] \in AnySecret /\ tu["notif"] \in AnySecret
        /\ loc.new \in AnySecret /\ loc.notif \in AnySecret /\ loc.oldNotif \in AnySecret
        /\ pc # "idle" => loc.spec \in SpecType
    BY DEF TypeInv, TypeOK, Buses
  <1> USE <1>0, TypeFacts DEF Status
  <1>1. CASE ReconcileStart
    BY <1>1 DEF ReconcileStart, crVars
  <1>2. CASE ReconcileTransportURL
    BY <1>2 DEF ReconcileTransportURL, crVars
  <1>3. CASE EnsureNotifications
    BY <1>3 DEF EnsureNotifications, crVars
  <1>4. CASE ReconcileConfig
    <2>1. pc = "config" /\ UNCHANGED status
          /\ (UNCHANGED inst \/ inst' = [inst EXCEPT !.hash = Rendered])
      BY <1>4 DEF ReconcileConfig, crVars
    <2>2. loc.spec.account \in Accounts
      BY <2>1 DEF SpecType
    <2>3. Rendered \in Config
      BY <2>2 DEF Rendered, Config, AnyOr
    <2> QED
      BY <2>1, <2>3
  <1>5. CASE DbSync
    <2>1. loc.spec.image \in AnyOr(Images)
      BY <1>5 DEF DbSync, SpecType, AnyOr
    <2> QED
      BY <1>5, <2>1 DEF DbSync, crVars
  <1>6. CASE EnsureTopology
    <2>1. loc.spec.topo \in AnyOr(Topologies)
      BY <1>6 DEF EnsureTopology, SpecType, AnyOr
    <2> QED
      BY <1>6, <2>1 DEF EnsureTopology, crVars
  <1>7. CASE FinalizeTransport
    <2>1. TrackedAfter(inst.main, loc.new, loc.ready) \in AnySecret
      BY DEF TrackedAfter
    <2>2. (IF loc.ready THEN [main |-> loc.new, notif |-> loc.notif] ELSE inst.applied)
              \in Applied
      BY DEF Applied
    <2> QED
      BY <1>7, <2>1, <2>2 DEF FinalizeTransport, crVars
  <1>8. CASE FinalizeNotifications
    <2>1. TrackedAfter(loc.oldNotif, loc.notif, loc.ready) \in AnySecret
      BY DEF TrackedAfter
    <2> QED
      BY <1>8, <2>1 DEF FinalizeNotifications, crVars
  <1>9. CASE DeleteNotificationsURL
    BY <1>9 DEF DeleteNotificationsURL, crVars
  <1>10. CASE PruneFinalizers
    BY <1>10 DEF PruneFinalizers, crVars
  <1>11. CASE PatchInstance \/ Crash \/ StepFails
    BY <1>11 DEF PatchInstance, Crash, StepFails, crVars
  <1>12. ASSUME ReconcileNew \/ ReconcileDatabase \/ Register \/ ReconcileStatefulSet
                \/ CheckReady \/ ReleaseAccounts \/ DeleteRegistration \/ DeleteDatabase
                \/ DeleteTopology \/ CollectSecrets \/ ReleaseSecrets
                \/ (\E b \in Buses : IssueSecret(b) \/ RotateSecret(b))
                \/ AccountReady \/ JobDone \/ Registered \/ EditSpec \/ DeleteCR
                \/ Rollout \/ RestartPod \/ UNCHANGED vars
         PROVE  UNCHANGED <<status, inst>>
    BY <1>12 DEF ReconcileNew, ReconcileDatabase, Register, ReconcileStatefulSet,
         CheckReady, ReleaseAccounts, DeleteRegistration, DeleteDatabase, DeleteTopology,
         CollectSecrets, ReleaseSecrets, IssueSecret, RotateSecret, AccountReady,
         JobDone, Registered, EditSpec, DeleteCR, Rollout, RestartPod, crVars,
         reconcile, vars
  <1> QED
    BY <1>1, <1>2, <1>3, <1>4, <1>5, <1>6, <1>7, <1>8, <1>9, <1>10, <1>11, <1>12
       DEF Next, Reconcile

(* The TransportURLs and the finalizers on their Secrets.                  *)
LEMMA BusStep ==
    ASSUME TypeInv, [Next]_vars
    PROVE  /\ tu' \in [Buses -> AnySecret] /\ tuExists' \in SUBSET Buses
           /\ fin' \in SUBSET Secrets
  <1>0. /\ tu \in [Buses -> AnySecret] /\ tuExists \in SUBSET Buses
        /\ fin \in SUBSET Secrets
        /\ tu["main"] \in AnySecret /\ tu["notif"] \in AnySecret
    BY DEF TypeInv, TypeOK, Buses
  <1> USE <1>0, TypeFacts DEF busVars
  <1>1. CASE ReconcileTransportURL
    BY <1>1 DEF ReconcileTransportURL, Manage, Buses, AnySecret
  <1>2. CASE EnsureNotifications
    BY <1>2 DEF EnsureNotifications, Manage, Buses, AnySecret
  <1>3. CASE FinalizeTransport \/ FinalizeNotifications \/ PruneFinalizers \/ ReleaseSecrets
    BY <1>3 DEF FinalizeTransport, FinalizeNotifications, PruneFinalizers, ReleaseSecrets,
                FinAfter, Remove, Prune
  <1>4. CASE DeleteNotificationsURL
    BY <1>4 DEF DeleteNotificationsURL, Buses
  <1>5. CASE \E b \in Buses : IssueSecret(b) \/ RotateSecret(b)
    BY <1>5 DEF IssueSecret, RotateSecret, AnySecret
  <1>6. ASSUME ReconcileNew \/ ReconcileStart \/ ReconcileDatabase \/ ReconcileConfig
               \/ DbSync \/ Register \/ EnsureTopology \/ ReconcileStatefulSet
               \/ CheckReady \/ ReleaseAccounts \/ DeleteRegistration \/ DeleteDatabase
               \/ DeleteTopology \/ CollectSecrets \/ PatchInstance \/ StepFails \/ Crash
               \/ AccountReady \/ JobDone \/ Registered \/ EditSpec \/ DeleteCR
               \/ Rollout \/ RestartPod \/ UNCHANGED vars
        PROVE  UNCHANGED busVars
    BY <1>6 DEF ReconcileNew, ReconcileStart, ReconcileDatabase, ReconcileConfig, DbSync,
         Register, EnsureTopology, ReconcileStatefulSet, CheckReady, ReleaseAccounts,
         DeleteRegistration, DeleteDatabase, DeleteTopology, CollectSecrets,
         PatchInstance, StepFails, Crash, AccountReady, JobDone, Registered, EditSpec,
         DeleteCR, Rollout, RestartPod, external, vars
  <1> QED
    BY <1>1, <1>2, <1>3, <1>4, <1>5, <1>6 DEF Next, Reconcile

(* Database, db-sync Job, registration and Topology.                       *)
LEMMA ServicesStep ==
    ASSUME TypeInv, [Next]_vars
    PROVE  /\ accounts' \in [Accounts -> {"none", "pending", "ready"}]
           /\ dbFin' \in SUBSET (Accounts \cup {"database"})
           /\ job' \in [image : AnyOr(Images), done : BOOLEAN]
           /\ migrated' \in SUBSET Images
           /\ keystone' \in [Registrations -> {"none", "pending", "ready"}]
           /\ keystoneFin' \in SUBSET Registrations /\ topoFin' \in SUBSET Topologies
  <1>0. /\ accounts \in [Accounts -> {"none", "pending", "ready"}]
        /\ dbFin \in SUBSET (Accounts \cup {"database"})
        /\ job \in [image : AnyOr(Images), done : BOOLEAN]
        /\ migrated \in SUBSET Images
        /\ keystone \in [Registrations -> {"none", "pending", "ready"}]
        /\ keystoneFin \in SUBSET Registrations /\ topoFin \in SUBSET Topologies
        /\ pc # "idle" => /\ loc.spec.account \in Accounts
                          /\ loc.spec.image \in Images
                          /\ loc.spec.topo \in AnyOr(Topologies)
    BY DEF TypeInv, TypeOK, SpecType, AnyOr
  <1> USE <1>0 DEF dbVars, jobVars, keystoneVars, AnyOr
  <1>1. CASE ReconcileDatabase
    BY <1>1 DEF ReconcileDatabase
  <1>2. CASE DbSync
    <2>1. pc = "dbsync" /\ (\/ UNCHANGED job
                            \/ job' = [image |-> loc.spec.image, done |-> FALSE])
      BY <1>2 DEF DbSync
    <2>2. UNCHANGED <<dbVars, migrated, keystoneVars, topoFin>>
      BY <1>2 DEF DbSync
    <2>3. \A i \in Images : [image |-> i, done |-> FALSE]
                                \in [image : AnyOr(Images), done : BOOLEAN]
      OBVIOUS
    <2>4. CASE UNCHANGED job
      BY <2>2, <2>4
    <2>5. CASE job' = [image |-> loc.spec.image, done |-> FALSE]
      BY <2>1, <2>2, <2>3, <2>5
    <2> QED
      BY <2>1, <2>4, <2>5
  <1>3. CASE Register
    BY <1>3 DEF Register
  <1>4. CASE EnsureTopology
    BY <1>4 DEF EnsureTopology, WithoutLast
  <1>5. CASE ReleaseAccounts \/ DeleteRegistration \/ DeleteDatabase \/ DeleteTopology
    BY <1>5 DEF ReleaseAccounts, DeleteRegistration, DeleteDatabase, DeleteTopology
  <1>6. CASE AccountReady \/ Registered
    BY <1>6 DEF AccountReady, Registered
  <1>7. CASE JobDone
    BY <1>7 DEF JobDone
  <1>8. ASSUME \/ ReconcileNew \/ ReconcileStart \/ ReconcileTransportURL
               \/ EnsureNotifications \/ ReconcileConfig \/ ReconcileStatefulSet
               \/ CheckReady \/ FinalizeTransport \/ FinalizeNotifications
               \/ DeleteNotificationsURL \/ PruneFinalizers \/ CollectSecrets
               \/ ReleaseSecrets \/ PatchInstance \/ StepFails \/ Crash
               \/ (\E b \in Buses : IssueSecret(b) \/ RotateSecret(b))
               \/ EditSpec \/ DeleteCR \/ Rollout \/ RestartPod \/ UNCHANGED vars
        PROVE  UNCHANGED <<dbVars, jobVars, keystoneVars, topoFin>>
    BY <1>8 DEF ReconcileNew, ReconcileStart, ReconcileTransportURL, EnsureNotifications,
         ReconcileConfig, ReconcileStatefulSet, CheckReady, FinalizeTransport,
         FinalizeNotifications, DeleteNotificationsURL, PruneFinalizers, CollectSecrets,
         ReleaseSecrets, PatchInstance, StepFails, Crash, IssueSecret, RotateSecret,
         EditSpec, DeleteCR, Rollout, RestartPod, external, vars
  <1> QED
    BY <1>1, <1>2, <1>3, <1>4, <1>5, <1>6, <1>7, <1>8 DEF Next, Reconcile

(* The rendered config, the StatefulSet and its pod.                       *)
LEMMA WorkloadStep ==
    ASSUME TypeInv, [Next]_vars
    PROVE  /\ config' \in Config
           /\ ss' \in [template : AnyOr(Template), observed : BOOLEAN]
           /\ pod' = None \/ pod' \in [template : Template, cfg : Config]
  <1>0. /\ config \in Config
        /\ ss \in [template : AnyOr(Template), observed : BOOLEAN]
        /\ pod = None \/ pod \in [template : Template, cfg : Config]
        /\ inst.hash \in Config /\ loc.new \in AnySecret /\ loc.notif \in AnySecret
        /\ pc # "idle" => /\ loc.spec.account \in Accounts
                          /\ loc.spec.image \in Images
                          /\ loc.spec.topo \in AnyOr(Topologies)
    BY DEF TypeInv, TypeOK, Status, SpecType, AnyOr
  <1> USE <1>0 DEF workload
  <1>1. CASE ReconcileConfig
    <2>1. Rendered \in Config
      BY <1>1 DEF ReconcileConfig, Rendered, Config, AnyOr
    <2> QED
      BY <1>1, <2>1 DEF ReconcileConfig
  <1>2. CASE ReconcileStatefulSet
    <2>1. [hash |-> inst.hash, image |-> loc.spec.image, topo |-> loc.spec.topo] \in Template
      BY <1>2 DEF ReconcileStatefulSet, Template
    <2> QED
      BY <1>2, <2>1 DEF ReconcileStatefulSet, AnyOr
  <1>3. CASE Rollout
    <2>1. /\ UNCHANGED config
          /\ UNCHANGED ss \/ ss' = [ss EXCEPT !.observed = TRUE]
          /\ \/ UNCHANGED pod \/ pod' = None
             \/ ss.template # None /\ pod' = [template |-> ss.template, cfg |-> config]
      BY <1>3 DEF Rollout
    <2>2. ss' \in [template : AnyOr(Template), observed : BOOLEAN]
      BY <2>1
    <2>3. ss.template # None => ss.template \in Template
      BY DEF AnyOr
    <2> QED
      BY <2>1, <2>2, <2>3
  <1>4. CASE RestartPod
    BY <1>4 DEF RestartPod
  <1>5. ASSUME \/ ReconcileNew \/ ReconcileStart \/ ReconcileTransportURL
               \/ EnsureNotifications \/ ReconcileDatabase \/ DbSync \/ Register
               \/ EnsureTopology \/ CheckReady \/ ReleaseAccounts \/ FinalizeTransport
               \/ FinalizeNotifications \/ DeleteNotificationsURL \/ PruneFinalizers
               \/ DeleteRegistration \/ DeleteDatabase \/ DeleteTopology
               \/ CollectSecrets \/ ReleaseSecrets \/ PatchInstance \/ StepFails \/ Crash
               \/ (\E b \in Buses : IssueSecret(b) \/ RotateSecret(b))
               \/ AccountReady \/ JobDone \/ Registered \/ EditSpec \/ DeleteCR
               \/ UNCHANGED vars
        PROVE  UNCHANGED <<config, workload>>
    BY <1>5 DEF ReconcileNew, ReconcileStart, ReconcileTransportURL, EnsureNotifications,
         ReconcileDatabase, DbSync, Register, EnsureTopology, CheckReady, ReleaseAccounts,
         FinalizeTransport, FinalizeNotifications, DeleteNotificationsURL,
         PruneFinalizers, DeleteRegistration, DeleteDatabase, DeleteTopology,
         CollectSecrets, ReleaseSecrets, PatchInstance, StepFails, Crash, IssueSecret,
         RotateSecret, AccountReady, JobDone, Registered, EditSpec, DeleteCR, external,
         vars
  <1> QED
    BY <1>1, <1>2, <1>3, <1>4, <1>5 DEF Next, Reconcile

(* The CR's lifecycle and spec, the steps and the counters.                *)
LEMMA ControlStep ==
    ASSUME TypeInv, [Next]_vars
    PROVE  /\ cr' \in {"new", "active", "deleting", "gone"} /\ spec' \in SpecType
           /\ pc' \in {"idle", "patch"} \cup NormalSteps \cup DeleteSteps
           /\ queued' \in BOOLEAN /\ spent' \in Spent
  <1>0. /\ cr \in {"new", "active", "deleting", "gone"} /\ spec \in SpecType
        /\ pc \in {"idle", "patch"} \cup NormalSteps \cup DeleteSteps
        /\ queued \in BOOLEAN /\ spent \in Spent
    BY DEF TypeInv, TypeOK, Spent
  <1> USE <1>0 DEF crVars, reconcile, Goto, Requeue, NormalSteps, DeleteSteps
  <1>1. CASE ReconcileNew \/ ReconcileStart \/ ReconcileTransportURL
             \/ EnsureNotifications \/ ReconcileDatabase \/ ReconcileConfig \/ DbSync
             \/ Register \/ CheckReady \/ ReleaseAccounts \/ FinalizeTransport
             \/ FinalizeNotifications \/ DeleteNotificationsURL \/ PruneFinalizers
    BY <1>1 DEF ReconcileNew, ReconcileStart, ReconcileTransportURL, EnsureNotifications,
         ReconcileDatabase, ReconcileConfig, DbSync, Register, CheckReady,
         ReleaseAccounts, FinalizeTransport, FinalizeNotifications,
         DeleteNotificationsURL, PruneFinalizers
  <1>2. CASE EnsureTopology
    BY <1>2 DEF EnsureTopology, Spent
  <1>3. CASE ReconcileStatefulSet \/ PatchInstance
    BY <1>3 DEF ReconcileStatefulSet, PatchInstance
  <1>4. CASE DeleteRegistration \/ DeleteDatabase \/ DeleteTopology \/ CollectSecrets
             \/ ReleaseSecrets \/ AccountReady \/ JobDone \/ Registered \/ DeleteCR
             \/ Rollout \/ RestartPod
    BY <1>4 DEF DeleteRegistration, DeleteDatabase, DeleteTopology, CollectSecrets,
         ReleaseSecrets, AccountReady, JobDone, Registered, DeleteCR, Rollout, RestartPod
  <1>5. CASE StepFails \/ Crash \/ EditSpec
    BY <1>5, SpendType, NamesAssumption DEF StepFails, Crash, EditSpec
  <1>6. CASE \E b \in Buses : IssueSecret(b) \/ RotateSecret(b)
    BY <1>6, SpendType DEF IssueSecret, RotateSecret
  <1>7. CASE UNCHANGED vars
    BY <1>7 DEF vars
  <1> QED
    BY <1>1, <1>2, <1>3, <1>4, <1>5, <1>6, <1>7 DEF Next, Reconcile

LEMMA TypeStep == TypeInv /\ [Next]_vars => TypeInv'
  BY LocalsStep, StatusStep, BusStep, ServicesStep, WorkloadStep, ControlStep
     DEF TypeInv, TypeOK, Locals, Spent

(* Every variable keeps its type; in particular a template, a job and a    *)
(* config-data are only ever made of names the spec and the TransportURLs  *)
(* have given.                                                             *)
THEOREM TypeCorrect == Spec => []TypeOK
  <1>1. TypeInv => TypeOK
    BY DEF TypeInv
  <1> QED
    BY TypeInit, TypeStep, <1>1, PTL DEF Spec

-----------------------------------------------------------------------------
(* RenderedProtected.                                                      *)

MainSecret == TransportSecrets \cup {NoSecret}
NotifSecret == NotifSecrets \cup {NoSecret}

(* Each name is a Secret of its own bus.                                   *)
Sorted ==
    /\ tu["main"] \in MainSecret /\ tu["notif"] \in NotifSecret
    /\ status.main \in MainSecret /\ status.notif \in NotifSecret
    /\ inst.main \in MainSecret /\ inst.notif \in NotifSecret
    /\ loc.new \in MainSecret /\ loc.notif \in NotifSecret
    /\ loc.oldNotif \in NotifSecret

AfterConfig == {"dbsync", "service", "endpoint", "topology", "statefulset", "ready",
                "accounts", "finalize", "finalizeNotif", "deleteNotifURL", "prune"}
AfterDatabase == AfterConfig \cup {"config"}
AfterBuses == AfterDatabase \cup {"database"}

(* What the reconcile in progress has protected so far, and that the steps *)
(* after the rendering work with what config-data was rendered from.       *)
InProgress ==
    /\ pc \in {"transport", "notif"} => loc.notif = NoSecret
    /\ pc = "transport" => loc.new = NoSecret
    /\ pc \in AfterBuses \cup {"notif"} => loc.new \in fin \cup {NoSecret}
    /\ pc \in AfterBuses => loc.notif \in fin \cup {NoSecret}
    /\ pc \in AfterDatabase => {loc.spec.account, "database"} \subseteq dbFin
    /\ pc \in AfterConfig => config = Rendered

(* Only a CR that is being deleted runs the steps of the deletion.         *)
Deletion == pc \in DeleteSteps => ~InUse

RenderedInv == TypeInv /\ Sorted /\ Deletion /\ RenderedProtected /\ (InUse => InProgress)

(* No step moves a name from one bus to the other.                         *)
LEMMA SortedStep == TypeInv /\ Sorted /\ [Next]_vars => Sorted'
  <1> SUFFICES ASSUME TypeInv, Sorted, [Next]_vars PROVE Sorted'
    OBVIOUS
  <1>0. /\ NoSecret \in MainSecret /\ NoSecret \in NotifSecret
        /\ NoStatus.main = NoSecret /\ NoStatus.notif = NoSecret
        /\ NoLocals.new = NoSecret /\ NoLocals.notif = NoSecret
        /\ NoLocals.oldNotif = NoSecret
        /\ loc \in Locals /\ inst \in Status /\ status \in Status
        /\ tu \in [Buses -> AnySecret]
    BY DEF MainSecret, NotifSecret, NoStatus, NoLocals, TypeInv, TypeOK, Locals
  <1> USE <1>0 DEF Sorted, Requeue, Goto, crVars, busVars, reconcile, external
  <1>1. CASE ReconcileStart
    BY <1>1 DEF ReconcileStart, NoLocals, Status
  <1>2. CASE ReconcileTransportURL
    BY <1>2 DEF ReconcileTransportURL, Locals, Status
  <1>3. CASE EnsureNotifications
    BY <1>3 DEF EnsureNotifications, Locals, Status
  <1>4. ASSUME UNCHANGED <<tu, status>>,
               inst'.main = inst.main /\ inst'.notif \in NotifSecret,
               loc'.new = loc.new /\ loc'.notif = loc.notif /\ loc'.oldNotif = loc.oldNotif
        PROVE  Sorted'
    BY <1>4
  <1>5. ASSUME ReconcileDatabase \/ ReconcileConfig \/ DbSync \/ Register \/ EnsureTopology
               \/ ReconcileStatefulSet \/ CheckReady \/ ReleaseAccounts \/ PruneFinalizers
               \/ DeleteRegistration \/ DeleteDatabase \/ DeleteTopology
               \/ CollectSecrets \/ ReleaseSecrets \/ StepFails
        PROVE  /\ UNCHANGED <<tu, status>>
               /\ inst'.main = inst.main /\ inst'.notif \in NotifSecret
               /\ loc'.new = loc.new /\ loc'.notif = loc.notif
               /\ loc'.oldNotif = loc.oldNotif
    BY <1>5 DEF ReconcileDatabase, ReconcileConfig, DbSync, Register, EnsureTopology,
         ReconcileStatefulSet, CheckReady, ReleaseAccounts, PruneFinalizers,
         DeleteRegistration, DeleteDatabase, DeleteTopology, CollectSecrets,
         ReleaseSecrets, StepFails, Locals, Status
  <1>6. CASE FinalizeTransport
    BY <1>6 DEF FinalizeTransport, TrackedAfter, Status
  <1>7. CASE FinalizeNotifications
    BY <1>7 DEF FinalizeNotifications, TrackedAfter, Status
  <1>8. CASE DeleteNotificationsURL
    BY <1>8 DEF DeleteNotificationsURL, Status, Buses
  <1>9. CASE PatchInstance \/ Crash
    BY <1>9 DEF PatchInstance, Crash
  <1>10. ASSUME NEW b \in Buses, IssueSecret(b) \/ RotateSecret(b) PROVE Sorted'
    <2>1. PICK s \in SecretsOf[b] : tu' = [tu EXCEPT ![b] = s]
      BY <1>10 DEF IssueSecret, RotateSecret
    <2>2. tu'["main"] \in MainSecret /\ tu'["notif"] \in NotifSecret
      BY <2>1 DEF Buses, SecretsOf, MainSecret, NotifSecret
    <2> QED
      BY <1>10, <2>2 DEF IssueSecret, RotateSecret
  <1>11. CASE ReconcileNew \/ AccountReady \/ JobDone \/ Registered \/ EditSpec \/ DeleteCR
              \/ Rollout \/ RestartPod \/ UNCHANGED vars
    BY <1>11 DEF ReconcileNew, AccountReady, JobDone, Registered, EditSpec, DeleteCR,
         Rollout, RestartPod, vars
  <1> QED
    BY <1>1, <1>2, <1>3, <1>4, <1>5, <1>6, <1>7, <1>8, <1>9, <1>10, <1>11
       DEF Next, Reconcile

(* The sets of steps, as the provers need them.                            *)
LEMMA StepSets ==
    /\ AfterConfig = {"dbsync", "service", "endpoint", "topology", "statefulset", "ready",
                      "accounts", "finalize", "finalizeNotif", "deleteNotifURL", "prune"}
    /\ AfterDatabase = AfterConfig \cup {"config"}
    /\ AfterBuses = AfterDatabase \cup {"database"}
    /\ DeleteSteps = {"deleteEndpoint", "deleteService", "deleteDatabase",
                      "deleteTopology", "collect", "release"}
  BY DEF AfterConfig, AfterDatabase, AfterBuses, DeleteSteps

LEMMA RenderedInit == Init => RenderedInv
  <1> SUFFICES ASSUME Init PROVE RenderedInv
    OBVIOUS
  <1>1. pc = "idle" /\ Uses(config) = {} /\ config.account = None
    BY DEF Init, Uses, NoConfig
  <1>2. Sorted
    BY DEF Init, Sorted, MainSecret, NotifSecret, NoStatus, NoLocals, Buses
  <1> QED
    BY <1>1, <1>2, TypeInit, StepSets
       DEF RenderedInv, RenderedProtected, Deletion, InProgress

(* Releasing a Secret of one bus that is not the current one leaves what   *)
(* is rendered protected.                                                  *)
LEMMA ReleaseUnused ==
    ASSUME RenderedInv, InUse, pc \in AfterConfig, NEW old,
           \/ old \in MainSecret /\ old # loc.new
           \/ old \in NotifSecret /\ old # loc.notif
    PROVE  /\ Uses(config) \subseteq Remove(fin, old)
           /\ loc.new \in Remove(fin, old) \cup {NoSecret}
           /\ loc.notif \in Remove(fin, old) \cup {NoSecret}
  <1>1. /\ config = Rendered /\ Uses(config) \subseteq fin
        /\ loc.new \in fin \cup {NoSecret} /\ loc.notif \in fin \cup {NoSecret}
    BY StepSets DEF RenderedInv, RenderedProtected, InProgress
  <1>2. /\ loc.new \in MainSecret /\ loc.notif \in NotifSecret
        /\ MainSecret \cap NotifSecret = {NoSecret}
    BY NamesAssumption DEF RenderedInv, Sorted, MainSecret, NotifSecret, Secrets
  <1>3. Uses(config) \subseteq {loc.new, loc.notif} \ {NoSecret}
    BY <1>1 DEF Uses, Rendered
  <1>4. old \notin {loc.new, loc.notif} \ {NoSecret}
    BY <1>2
  <1> QED
    BY <1>1, <1>3, <1>4 DEF Remove

LEMMA RenderedStep == RenderedInv /\ [Next]_vars => RenderedInv'
  <1> SUFFICES ASSUME RenderedInv, [Next]_vars
      PROVE  (Deletion /\ RenderedProtected /\ (InUse => InProgress))'
    BY TypeStep, SortedStep DEF RenderedInv
  <1>0. /\ Deletion /\ RenderedProtected /\ (InUse => InProgress)
        /\ loc \in Locals /\ config \in Config
    BY DEF RenderedInv, TypeInv, TypeOK, Locals
  <1> USE <1>0, StepSets DEF Deletion, RenderedProtected, InUse, InProgress, Goto, Requeue,
        crVars, busVars, dbVars, jobVars, keystoneVars, workload, reconcile, external
  <1>1. CASE ReconcileNew
    BY <1>1 DEF ReconcileNew, Rendered
  <1>2. CASE ReconcileStart
    BY <1>2 DEF ReconcileStart, NoLocals
  <1>3. CASE ReconcileTransportURL
    BY <1>3 DEF ReconcileTransportURL, Manage, Locals
  <1>4. CASE EnsureNotifications
    BY <1>4 DEF EnsureNotifications, Manage, Locals
  <1>5. CASE ReconcileDatabase
    BY <1>5 DEF ReconcileDatabase, Locals
  <1>6. CASE ReconcileConfig
    BY <1>6 DEF ReconcileConfig, Rendered, Uses, Locals
  <1>7. CASE DbSync
    BY <1>7 DEF DbSync, Rendered, Locals
  <1>8. CASE Register
    BY <1>8 DEF Register, Registrations, Rendered, Locals
  <1>9. CASE EnsureTopology
    BY <1>9 DEF EnsureTopology, Rendered, Locals
  <1>10. CASE ReconcileStatefulSet
    BY <1>10 DEF ReconcileStatefulSet, Rendered, Locals
  <1>11. CASE CheckReady
    BY <1>11 DEF CheckReady, Rendered, Locals
  <1>12. CASE ReleaseAccounts
    BY <1>12 DEF ReleaseAccounts, Rendered
  <1>13. CASE FinalizeTransport
    BY <1>13, ReleaseUnused
       DEF FinalizeTransport, FinAfter, Rotating, Rendered, RenderedInv, Sorted
  <1>14. CASE FinalizeNotifications
    BY <1>14, ReleaseUnused
       DEF FinalizeNotifications, FinAfter, Rotating, Rendered, RenderedInv, Sorted
  <1>15. CASE DeleteNotificationsURL
    BY <1>15 DEF DeleteNotificationsURL, Rendered
  <1>16. CASE PruneFinalizers
    BY <1>16 DEF PruneFinalizers, Prune, Kept, Rendered, Uses
  <1>17. CASE DeleteRegistration \/ DeleteDatabase \/ DeleteTopology \/ CollectSecrets
              \/ ReleaseSecrets
    BY <1>17 DEF DeleteRegistration, DeleteDatabase, DeleteTopology, CollectSecrets,
         ReleaseSecrets
  <1>18. CASE PatchInstance
    BY <1>18 DEF PatchInstance
  <1>19. CASE StepFails
    BY <1>19 DEF StepFails
  <1>20. CASE Crash
    BY <1>20 DEF Crash
  <1>21. ASSUME UNCHANGED <<fin, dbFin, config, pc, loc>>, InUse' => InUse
         PROVE  (Deletion /\ RenderedProtected /\ (InUse => InProgress))'
    BY <1>21 DEF Rendered
  <1>22. ASSUME (\E b \in Buses : IssueSecret(b) \/ RotateSecret(b))
                \/ AccountReady \/ JobDone \/ Registered \/ EditSpec \/ DeleteCR
                \/ Rollout \/ RestartPod \/ UNCHANGED vars
         PROVE  UNCHANGED <<fin, dbFin, config, pc, loc>> /\ (InUse' => InUse)
    BY <1>22 DEF IssueSecret, RotateSecret, AccountReady, JobDone, Registered, EditSpec,
         DeleteCR, Rollout, RestartPod, vars
  <1> QED
    BY <1>1, <1>2, <1>3, <1>4, <1>5, <1>6, <1>7, <1>8, <1>9, <1>10, <1>11, <1>12,
       <1>13, <1>14, <1>15, <1>16, <1>17, <1>18, <1>19, <1>20, <1>21, <1>22
       DEF Next, Reconcile

(* config-data of a CR in use never holds a Secret or an account without   *)
(* the consumer finalizer, whatever is edited, rotated, restarted or fails *)
(* in the middle of a reconcile.                                           *)
THEOREM RenderedAlwaysProtected == Spec => []RenderedProtected
  <1>1. RenderedInv => RenderedProtected
    BY DEF RenderedInv
  <1> QED
    BY RenderedInit, RenderedStep, <1>1, PTL DEF Spec

-----------------------------------------------------------------------------
(* AccountReleasedLate.                                                    *)

BeforeWorkload == {"dbsync", "service", "endpoint", "topology", "statefulset"}

(* The input hash the template gets is that of the config just rendered,   *)
(* and the steps that follow a StatefulSet's update see it in place.       *)
TemplateInv ==
    /\ pc \in BeforeWorkload => inst.hash.account = loc.spec.account
    /\ pc \in {"ready", "accounts"} => ss.template.hash.account = loc.spec.account

(* Nobody but ReconcileStatefulSet changes the template.                   *)
LEMMA TemplateStep ==
    ASSUME TypeInv, TemplateInv, [Next]_vars
    PROVE  TemplateInv'
  <1>0. /\ loc \in Locals /\ inst \in Status
        /\ ss \in [template : AnyOr(Template), observed : BOOLEAN]
    BY DEF TypeInv, TypeOK, Locals
  <1> USE <1>0 DEF TemplateInv, BeforeWorkload, Goto, Requeue, crVars, busVars, dbVars,
        jobVars, keystoneVars, workload, reconcile, external
  <1>1. CASE ReconcileStart
    BY <1>1 DEF ReconcileStart
  <1>2. CASE ReconcileTransportURL \/ EnsureNotifications \/ ReconcileDatabase
    BY <1>2 DEF ReconcileTransportURL, EnsureNotifications, ReconcileDatabase
  <1>3. CASE ReconcileConfig
    BY <1>3 DEF ReconcileConfig, Rendered, Status
  <1>4. CASE DbSync
    BY <1>4 DEF DbSync, Status
  <1>5. CASE Register
    BY <1>5 DEF Register, Registrations
  <1>6. CASE EnsureTopology
    BY <1>6 DEF EnsureTopology, Status
  <1>7. CASE ReconcileStatefulSet
    <2> DEFINE new == [hash |-> inst.hash, image |-> loc.spec.image,
                       topo |-> loc.spec.topo]
    <2>1. pc = "statefulset"
      BY <1>7 DEF ReconcileStatefulSet
    <2>2. ss'.template = new
      BY <1>7 DEF ReconcileStatefulSet
    <2>3. /\ pc' \in {"accounts", "ready", "patch"} /\ loc'.spec = loc.spec
      BY <1>7 DEF ReconcileStatefulSet, Locals
    <2>4. ss'.template.hash.account = loc.spec.account
      BY <2>1, <2>2
    <2> QED
      BY <2>3, <2>4
  <1>8. CASE CheckReady
    BY <1>8 DEF CheckReady, Locals
  <1>9. CASE ReleaseAccounts \/ FinalizeTransport \/ FinalizeNotifications
             \/ DeleteNotificationsURL \/ PruneFinalizers
    BY <1>9 DEF ReleaseAccounts, FinalizeTransport, FinalizeNotifications,
         DeleteNotificationsURL, PruneFinalizers
  <1>10. CASE DeleteRegistration \/ DeleteDatabase \/ DeleteTopology \/ CollectSecrets
              \/ ReleaseSecrets
    BY <1>10 DEF DeleteRegistration, DeleteDatabase, DeleteTopology, CollectSecrets,
         ReleaseSecrets
  <1>11. CASE PatchInstance \/ StepFails \/ Crash
    BY <1>11 DEF PatchInstance, StepFails, Crash
  <1>12. CASE Rollout
    <2>1. ss'.template = ss.template /\ UNCHANGED <<pc, inst, loc>>
      BY <1>12 DEF Rollout
    <2> QED
      BY <2>1
  <1>13. CASE ReconcileNew \/ (\E b \in Buses : IssueSecret(b) \/ RotateSecret(b))
              \/ AccountReady \/ JobDone \/ Registered \/ EditSpec \/ DeleteCR
              \/ RestartPod \/ UNCHANGED vars
    BY <1>13 DEF ReconcileNew, IssueSecret, RotateSecret, AccountReady, JobDone,
         Registered, EditSpec, DeleteCR, RestartPod, vars
  <1> QED
    BY <1>1, <1>2, <1>3, <1>4, <1>5, <1>6, <1>7, <1>8, <1>9, <1>10, <1>11, <1>12, <1>13
       DEF Next, Reconcile

(* Accounts lose the finalizer in two steps only.                          *)
LEMMA WhoReleasesAccounts ==
    ASSUME [Next]_vars, NEW a \in dbFin \ dbFin'
    PROVE  /\ pc \in {"accounts", "deleteDatabase"}
           /\ pc = "accounts" => a # loc.spec.account /\ UNCHANGED ss
  BY DEF Next, Reconcile, ReconcileNew, ReconcileStart, ReconcileTransportURL,
         EnsureNotifications, ReconcileDatabase, ReconcileConfig, DbSync, Register,
         EnsureTopology, ReconcileStatefulSet, CheckReady, ReleaseAccounts,
         FinalizeTransport, FinalizeNotifications, DeleteNotificationsURL,
         PruneFinalizers, DeleteRegistration, DeleteDatabase, DeleteTopology,
         CollectSecrets, ReleaseSecrets, PatchInstance, StepFails, Crash, IssueSecret,
         RotateSecret, AccountReady, JobDone, Registered, EditSpec, DeleteCR, Rollout,
         RestartPod, dbVars, external, vars, workload

(* While the CR is in use no account is released that the StatefulSet's    *)
(* template is configured with.                                            *)
THEOREM AccountsReleasedLate == Spec => AccountReleasedLate
  <1>1. Init => TemplateInv
    BY DEF Init, TemplateInv, BeforeWorkload
  <1>2. RenderedInv /\ TemplateInv /\ [Next]_vars => TemplateInv'
    BY TemplateStep DEF RenderedInv
  <1>3. RenderedInv /\ TemplateInv /\ [Next]_vars =>
           [cr = "active" /\ ss.template # None
               => ss.template.hash.account \notin dbFin \ dbFin']_vars
    BY WhoReleasesAccounts, StepSets DEF RenderedInv, Deletion, InUse, TemplateInv
  <1> QED
    BY RenderedInit, RenderedStep, <1>1, <1>2, <1>3, PTL DEF Spec, AccountReleasedLate

-----------------------------------------------------------------------------
(* SchemaFirst.                                                            *)

AfterSync == {"service", "endpoint", "topology", "statefulset"}

(* Whatever stands for a finished db-sync does so rightly: the Job, its    *)
(* hash in the status and in the copy of it, and the step reached.         *)
SchemaInv ==
    /\ SchemaFirst
    /\ ss.template # None => ss.template.image \in migrated
    /\ {status.synced, inst.synced} \subseteq migrated \cup {None}
    /\ job.done => job.image \in migrated
    /\ pc \in AfterSync => loc.spec.image \in migrated

LEMMA SchemaStep ==
    ASSUME TypeInv, SchemaInv, [Next]_vars
    PROVE  SchemaInv'
  <1>0. /\ loc \in Locals /\ inst \in Status /\ status \in Status
        /\ ss \in [template : AnyOr(Template), observed : BOOLEAN]
        /\ job \in [image : AnyOr(Images), done : BOOLEAN]
        /\ NoStatus.synced = None
    BY DEF TypeInv, TypeOK, Locals, NoStatus
  <1> USE <1>0 DEF SchemaInv, SchemaFirst, AfterSync, Goto, Requeue, crVars, busVars, dbVars,
        jobVars, keystoneVars, workload, reconcile, external
  <1>1. CASE ReconcileStart
    BY <1>1 DEF ReconcileStart, Status
  <1>2. CASE ReconcileTransportURL \/ EnsureNotifications \/ ReconcileDatabase
    <2>1. /\ inst'.synced = inst.synced /\ pc' \in {"notif", "database", "config", "patch"}
          /\ UNCHANGED <<status, jobVars, workload>>
      BY <1>2 DEF ReconcileTransportURL, EnsureNotifications, ReconcileDatabase, Status
    <2> QED
      BY <2>1
  <1>3. CASE ReconcileConfig
    BY <1>3 DEF ReconcileConfig, Status
  <1>4. CASE DbSync
    <2>1. loc.spec.image \in Images /\ loc.spec.image # None
      BY <1>4, NamesAssumption DEF DbSync, TypeInv, SpecType
    <2>2. /\ UNCHANGED <<status, migrated, workload>>
          /\ \/ /\ Synced(loc.spec.image) /\ inst' = [inst EXCEPT !.synced = loc.spec.image]
                /\ UNCHANGED <<job, loc>>
             \/ /\ pc' = "patch" /\ UNCHANGED inst
                /\ job' = job \/ job' = [image |-> loc.spec.image, done |-> FALSE]
      BY <1>4 DEF DbSync
    <2>3. Synced(loc.spec.image) => loc.spec.image \in migrated
      BY <2>1 DEF Synced
    <2> QED
      BY <2>2, <2>3 DEF Status
  <1>5. CASE Register
    BY <1>5 DEF Register, Registrations
  <1>6. CASE EnsureTopology
    BY <1>6 DEF EnsureTopology, Status
  <1>7. CASE ReconcileStatefulSet
    <2>1. /\ ss'.template.image = loc.spec.image /\ loc.spec.image \in migrated
          /\ UNCHANGED <<status, inst, job, migrated, pod>>
          /\ pc' \in {"accounts", "ready", "patch"}
      BY <1>7 DEF ReconcileStatefulSet
    <2> QED
      BY <2>1
  <1>8. CASE CheckReady
    BY <1>8 DEF CheckReady
  <1>9. CASE ReleaseAccounts \/ FinalizeTransport \/ FinalizeNotifications
             \/ DeleteNotificationsURL \/ PruneFinalizers
    <2>1. /\ inst'.synced = inst.synced /\ pc' \notin AfterSync
          /\ UNCHANGED <<status, jobVars, workload>>
      BY <1>9 DEF ReleaseAccounts, FinalizeTransport, FinalizeNotifications,
           DeleteNotificationsURL, PruneFinalizers, Status
    <2> QED
      BY <2>1
  <1>10. CASE DeleteRegistration \/ DeleteDatabase \/ DeleteTopology \/ CollectSecrets
              \/ ReleaseSecrets
    BY <1>10 DEF DeleteRegistration, DeleteDatabase, DeleteTopology, CollectSecrets,
         ReleaseSecrets
  <1>11. CASE PatchInstance \/ StepFails \/ Crash
    BY <1>11 DEF PatchInstance, StepFails, Crash, Status
  <1>12. CASE Rollout
    <2>1. /\ ss'.template = ss.template /\ UNCHANGED <<status, job, migrated, pc, inst, loc>>
          /\ \/ UNCHANGED pod \/ pod' = None
             \/ ss.template # None /\ pod' = [template |-> ss.template, cfg |-> config]
      BY <1>12 DEF Rollout
    <2> QED
      BY <2>1
  <1>13. CASE RestartPod
    <2>1. /\ pod # None /\ pod'.template = pod.template
          /\ UNCHANGED <<status, ss, job, migrated, pc, inst, loc>>
      BY <1>13 DEF RestartPod, TypeInv, TypeOK
    <2> QED
      BY <2>1
  <1>14. CASE JobDone
    BY <1>14 DEF JobDone
  <1>15. CASE ReconcileNew \/ (\E b \in Buses : IssueSecret(b) \/ RotateSecret(b))
              \/ AccountReady \/ Registered \/ EditSpec \/ DeleteCR \/ UNCHANGED vars
    BY <1>15 DEF ReconcileNew, IssueSecret, RotateSecret, AccountReady, Registered,
         EditSpec, DeleteCR, vars
  <1> QED
    BY <1>1, <1>2, <1>3, <1>4, <1>5, <1>6, <1>7, <1>8, <1>9, <1>10, <1>11, <1>12, <1>13,
       <1>14, <1>15 DEF Next, Reconcile

(* No pod runs an image before the db-sync of that image has completed,    *)
(* however images are edited and whichever Jobs, restarts and failures     *)
(* fall in between.                                                        *)
THEOREM SchemaAlwaysFirst == Spec => []SchemaFirst
  <1>1. Init => SchemaInv
    BY DEF Init, SchemaInv, SchemaFirst, AfterSync, NoStatus
  <1>2. TypeInv /\ SchemaInv /\ [Next]_vars => SchemaInv'
    BY SchemaStep
  <1>3. SchemaInv => SchemaFirst
    BY DEF SchemaInv
  <1> QED
    BY TypeInit, TypeStep, <1>1, <1>2, <1>3, PTL DEF Spec

-----------------------------------------------------------------------------
(* TopologyReleased.                                                       *)

(* The one Topology that may have the finalizer is the one the status, or  *)
(* the reconcile's copy of it, names; none has after deleteTopology.       *)
TopologyInv ==
    /\ topoFin \subseteq {IF pc = "idle" THEN status.topo ELSE inst.topo}
    /\ pc \in {"collect", "release"} \/ loc.deleted => topoFin = {}
    /\ loc.deleted => pc = "patch"
    /\ cr = "gone" => topoFin = {} /\ pc = "idle"

LEMMA TopologyStep ==
    ASSUME MaxCrashes = 0, TypeInv, TopologyInv, [Next]_vars
    PROVE  TopologyInv'
  <1>0. /\ loc \in Locals /\ inst \in Status /\ status \in Status /\ spent \in Spent
        /\ ~NoLocals.deleted
    BY DEF TypeInv, TypeOK, Locals, Spent, NoLocals
  <1> USE <1>0 DEF TopologyInv, Goto, Requeue, crVars, busVars, dbVars, jobVars,
        keystoneVars, workload, reconcile, external
  <1>1. CASE ReconcileNew
    BY <1>1 DEF ReconcileNew
  <1>2. CASE ReconcileStart
    BY <1>2 DEF ReconcileStart, NoLocals, Status
  <1>3. CASE EnsureTopology
    BY <1>3 DEF EnsureTopology, WithoutLast, Status, Locals
  <1>4. CASE DeleteTopology
    BY <1>4 DEF DeleteTopology
  <1>5. CASE CollectSecrets \/ ReleaseSecrets
    BY <1>5 DEF CollectSecrets, ReleaseSecrets, Locals
  <1>6. CASE PatchInstance
    BY <1>6 DEF PatchInstance
  <1>7. ~Crash
    BY DEF Crash, Spend, Spent
  <1>8. CASE StepFails
    BY <1>8 DEF StepFails, NormalSteps, DeleteSteps, Locals, Status
  <1>9. ASSUME pc \notin {"idle", "patch"}, ~loc'.deleted,
               pc' \notin {"idle", "collect", "release"},
               inst'.topo = inst.topo, UNCHANGED <<cr, topoFin>>
        PROVE  TopologyInv'
    BY <1>9
  <1>10. ASSUME ReconcileTransportURL \/ EnsureNotifications \/ ReconcileDatabase
                \/ ReconcileConfig \/ DbSync \/ Register \/ ReconcileStatefulSet
                \/ CheckReady \/ ReleaseAccounts
         PROVE  /\ pc \notin {"idle", "patch"} /\ ~loc'.deleted
                /\ pc' \notin {"idle", "collect", "release"}
                /\ inst'.topo = inst.topo /\ UNCHANGED <<cr, topoFin>>
    BY <1>10 DEF ReconcileTransportURL, EnsureNotifications, ReconcileDatabase,
         ReconcileConfig, DbSync, Register, Registrations, ReconcileStatefulSet,
         CheckReady, ReleaseAccounts, Locals, Status
  <1>11. ASSUME FinalizeTransport \/ FinalizeNotifications \/ DeleteNotificationsURL
                \/ PruneFinalizers \/ DeleteRegistration \/ DeleteDatabase
         PROVE  /\ pc \notin {"idle", "patch"} /\ ~loc'.deleted
                /\ pc' \notin {"idle", "collect", "release"}
                /\ inst'.topo = inst.topo /\ UNCHANGED <<cr, topoFin>>
    BY <1>11 DEF FinalizeTransport, FinalizeNotifications, DeleteNotificationsURL,
         PruneFinalizers, DeleteRegistration, DeleteDatabase, Status
  <1>12. CASE (\E b \in Buses : IssueSecret(b) \/ RotateSecret(b))
              \/ AccountReady \/ JobDone \/ Registered \/ EditSpec \/ DeleteCR
              \/ Rollout \/ RestartPod \/ UNCHANGED vars
    BY <1>12 DEF IssueSecret, RotateSecret, AccountReady, JobDone, Registered, EditSpec,
         DeleteCR, Rollout, RestartPod, vars
  <1> QED
    BY <1>1, <1>2, <1>3, <1>4, <1>5, <1>6, <1>7, <1>8, <1>9, <1>10, <1>11, <1>12
       DEF Next, Reconcile

(* Without a restart of the operator a deleted CR leaves its finalizer on  *)
(* no Topology, however often the reference is edited and whichever calls  *)
(* fail (a restart between ensureTopology and the status patch may).       *)
THEOREM TopologyAlwaysReleased ==
    ASSUME MaxCrashes = 0
    PROVE  Spec => []TopologyReleased
  <1>1. Init => TopologyInv
    BY DEF Init, TopologyInv, NoLocals
  <1>2. TypeInv /\ TopologyInv /\ [Next]_vars => TopologyInv'
    BY TopologyStep
  <1>3. TopologyInv => TopologyReleased
    BY DEF TopologyInv, TopologyReleased
  <1> QED
    BY TypeInit, TypeStep, <1>1, <1>2, <1>3, PTL DEF Spec
=============================================================================
