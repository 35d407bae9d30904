--------------------------- MODULE InspectorRefinement ---------------------------
(***************************************************************************)
(* Inspector implements SecretConsumption for the transport Secret, for    *)
(* any Secrets and specs and any bounds, as long as every spec uses oslo   *)
(* messaging (switched to json-rpc it forgets what it tracks) and a Secret *)
(* is only rotated when the status shows its last rotation done            *)
(* (RapidRotation FALSE).                                                  *)
(*                                                                         *)
(* Then there are two Secrets at a time: the tracked one, status.main, and *)
(* the one the TransportURL names, tu["main"].  Everything else follows    *)
(* the second one in a fixed order: config-data, the StatefulSet, its pod  *)
(* and, when the pod is of that StatefulSet and has loaded that Secret,    *)
(* the status.                                                             *)
(***************************************************************************)
EXTENDS InspectorProofs

OsloOnly == \A s \in Specs : s.oslo

Tracked == status.main
Issued == tu["main"]
Known == {NoSecret, Tracked, Issued}

AfterRead == AfterBuses \cup {"notif"}
AfterFinalize == {"finalizeNotif", "deleteNotifURL", "prune"}
AfterReady == AfterFinalize \cup {"accounts", "finalize"}
AfterStatefulSet == AfterReady \cup {"ready"}

(* Only specs the user has written are read.                               *)
Written == spec \in Specs /\ (pc # "idle" => loc.spec \in Specs)

(* No third Secret is around.                                              *)
TwoSecrets ==
    /\ Tracked # NoSecret => Issued # NoSecret
    /\ {config.main, loc.new, inst.main} \subseteq Known
    /\ ss.template # None => ss.template.hash.main \in Known
    /\ pod # None => {pod.template.hash.main, pod.cfg.main} \subseteq Known

(* While the two differ, what has moved on to the issued one is preceded   *)
(* by what it is made from, and nothing moves back.                        *)
MovesOn ==
    Issued # Tracked =>
        /\ ss.template # None /\ ss.template.hash.main = Issued => config.main = Issued
        /\ pod # None => /\ pod.cfg.main = Issued => config.main = Issued
                         /\ pod.template.hash.main = Issued => pod.cfg.main = Issued
        /\ pc \in AfterRead /\ config.main = Issued => loc.new = Issued

(* What the steps of a reconcile have made of each other's output.         *)
Working ==
    /\ pc = "transport" => loc.new = NoSecret
    /\ pc \in AfterConfig => config = Rendered /\ inst.hash = config /\ loc.new # NoSecret
    /\ pc \in AfterStatefulSet => ss.template.hash = config
    /\ ss.template # None \/ pod # None => config.main # NoSecret
    /\ pod # None => pod.cfg.main # NoSecret
    /\ pc \notin AfterReady \cup {"patch"} => ~loc.ready
    /\ pc # "patch" => ~inst.ready

(* The rollout is complete: the pod is of the StatefulSet's template and   *)
(* has loaded the transport Secret that config-data holds.                 *)
AllOn ==
    /\ pod # None /\ pod.template = ss.template
    /\ ss.template.hash.main = config.main /\ pod.cfg.main = config.main

(* `ready' still means a complete rollout when it is used, and so does the *)
(* Ready condition when it is written.                                     *)
ReadyIsRolledOut ==
    /\ pc \in AfterReady /\ loc.ready => AllOn
    /\ pc \in AfterFinalize /\ loc.ready => inst.applied.main = config.main
    /\ pc = "patch" /\ inst.ready => AllOn /\ inst.applied.main = config.main

(* The copy of the status tracks what the status tracks; another Secret    *)
(* only when none was tracked, or when the pod has moved on to that one.   *)
Tracking ==
    /\ pc \notin {"idle", "patch"} \cup AfterFinalize /\ Tracked # NoSecret
           => inst.main = Tracked
    /\ pc \in AfterRead /\ Tracked = NoSecret => inst.main = loc.new
    /\ pc \in {"patch"} \cup AfterFinalize /\ Tracked # NoSecret /\ inst.main # Tracked
           => AllOn /\ config.main = Issued /\ inst.main = Issued

(* The Secret of the pod of a CR in use has the finalizer.                 *)
UsedHeld ==
    /\ InUse /\ pod # None => pod.cfg.main \in fin
    /\ loc.deleted => ~InUse

RotationInv == Written /\ TwoSecrets /\ MovesOn /\ Working /\ ReadyIsRolledOut /\ Tracking

RefinementInv == RenderedInv /\ RotationInv /\ UsedHeld

-----------------------------------------------------------------------------
(* Which step is in which of the sets.                                     *)
LEMMA PhaseSets ==
    /\ AfterConfig = {"dbsync", "service", "endpoint", "topology", "statefulset", "ready",
                      "accounts", "finalize", "finalizeNotif", "deleteNotifURL", "prune"}
    /\ AfterRead = AfterConfig \cup {"notif", "database", "config"}
    /\ AfterFinalize = {"finalizeNotif", "deleteNotifURL", "prune"}
    /\ AfterReady = AfterFinalize \cup {"accounts", "finalize"}
    /\ AfterStatefulSet = AfterReady \cup {"ready"}
  BY StepSets DEF AfterRead, AfterFinalize, AfterReady, AfterStatefulSet

LEMMA RefinementInit == Init => RefinementInv
  <1> SUFFICES ASSUME Init PROVE RotationInv /\ UsedHeld
    BY RenderedInit DEF RefinementInv
  <1>1. /\ pc = "idle" /\ ~loc.deleted /\ ~loc.ready /\ ~inst.ready /\ spec \in Specs
        /\ ss.template = None /\ pod = None
        /\ {status.main, tu["main"], config.main, loc.new, inst.main} = {NoSecret}
    BY DEF Init, NoLocals, NoStatus, NoConfig, Buses
  <1> QED
    BY <1>1, PhaseSets
       DEF RotationInv, Written, TwoSecrets, MovesOn, Working, ReadyIsRolledOut, Tracking,
           UsedHeld, Known, Tracked, Issued

LEMMA RotationStep ==
    ASSUME ~ RapidRotation, OsloOnly, RenderedInv, RotationInv, [Next]_vars
    PROVE  RotationInv'
  <1>0. /\ loc \in Locals /\ inst \in Status /\ config \in Config
        /\ tu \in [Buses -> AnySecret]
        /\ ss \in [template : AnyOr(Template), observed : BOOLEAN]
        /\ pc \in {"idle", "patch"} \cup NormalSteps \cup DeleteSteps
        /\ NoLocals.new = NoSecret /\ ~NoLocals.ready /\ NoStatus.main = NoSecret
        /\ ~NoStatus.ready
        /\ pc # "idle" => loc.spec.oslo
    BY DEF RenderedInv, TypeInv, TypeOK, Locals, NoLocals, NoStatus, RotationInv, Written,
           OsloOnly
  <1> USE <1>0, PhaseSets DEF RotationInv, Written, TwoSecrets, MovesOn, Working,
        ReadyIsRolledOut, Tracking, Known, Tracked, Issued, Goto, Requeue, crVars, busVars,
        dbVars, jobVars, keystoneVars, workload, reconcile, external
  <1>1. CASE ReconcileNew
    BY <1>1 DEF ReconcileNew, AllOn, Rendered
  <1>2. CASE ReconcileStart
    BY <1>2 DEF ReconcileStart, NoLocals, Status
  <1>3. CASE ReconcileTransportURL
    BY <1>3 DEF ReconcileTransportURL, Locals, Status
  <1>4. CASE EnsureNotifications
    BY <1>4 DEF EnsureNotifications, Locals, Status
  <1>5. CASE ReconcileDatabase
    BY <1>5 DEF ReconcileDatabase, Locals
  <1>6. CASE ReconcileConfig
    BY <1>6 DEF ReconcileConfig, Rendered, Locals, Status
  <1>7. CASE DbSync
    BY <1>7 DEF DbSync, Rendered, Locals, Status
  <1>8. CASE Register
    BY <1>8 DEF Register, Registrations, Rendered, Locals
  <1>9. CASE EnsureTopology
    BY <1>9 DEF EnsureTopology, Rendered, Locals, Status
  <1>10. CASE ReconcileStatefulSet
    BY <1>10 DEF ReconcileStatefulSet, Rendered, Locals
  <1>11. CASE CheckReady
    BY <1>11 DEF CheckReady, RolledOut, AllOn, Rendered, Locals
  <1>12. CASE ReleaseAccounts
    BY <1>12 DEF ReleaseAccounts, AllOn, Rendered
  <1>13. CASE FinalizeTransport
    BY <1>13 DEF FinalizeTransport, TrackedAfter, Rotating, AllOn, Rendered, Status
  <1>14. CASE FinalizeNotifications
    BY <1>14 DEF FinalizeNotifications, AllOn, Rendered, Status
  <1>15. CASE DeleteNotificationsURL
    BY <1>15 DEF DeleteNotificationsURL, AllOn, Rendered, Status, Buses
  <1>16. CASE PruneFinalizers
    BY <1>16 DEF PruneFinalizers, AllOn, Status
  <1>17. CASE DeleteRegistration \/ DeleteDatabase \/ DeleteTopology
    BY <1>17 DEF DeleteRegistration, DeleteDatabase, DeleteTopology
  <1>18. CASE CollectSecrets \/ ReleaseSecrets
    BY <1>18 DEF CollectSecrets, ReleaseSecrets, Locals
  <1>19. CASE PatchInstance
    BY <1>19 DEF PatchInstance, AllOn
  <1>20. CASE StepFails
    BY <1>20 DEF StepFails, NormalSteps, DeleteSteps, AllOn, Locals, Status
  <1>21. CASE Crash
    BY <1>21 DEF Crash
  <1>22. ASSUME NEW b \in Buses, IssueSecret(b) PROVE RotationInv'
    <2>1. PICK s \in SecretsOf[b] : tu' = [tu EXCEPT ![b] = s]
      BY <1>22 DEF IssueSecret
    <2>2. tu[b] = NoSecret /\ s # NoSecret
      BY <1>22, <2>1, TypeFacts, NamesAssumption DEF IssueSecret
    <2>3. \/ UNCHANGED Issued
          \/ Issued = NoSecret /\ Tracked = NoSecret /\ Issued' = s
      BY <2>1, <2>2 DEF Buses
    <2> QED
      BY <1>22, <2>2, <2>3 DEF IssueSecret, AllOn, Rendered
  <1>23. ASSUME NEW b \in Buses, RotateSecret(b) PROVE RotationInv'
    <2>1. PICK s \in SecretsOf[b] \ {tu[b]} : tu' = [tu EXCEPT ![b] = s]
      BY <1>23 DEF RotateSecret
    <2>2. status[b] = tu[b] /\ s # NoSecret
      BY <1>23, <2>1, TypeFacts, NamesAssumption DEF RotateSecret
    <2>3. \/ UNCHANGED Issued
          \/ Issued = Tracked /\ Issued' = s /\ s # Issued
      BY <2>1, <2>2 DEF Buses
    <2> QED
      BY <1>23, <2>2, <2>3 DEF RotateSecret, AllOn, Rendered
  <1>24. CASE EditSpec
    BY <1>24 DEF EditSpec, AllOn, Rendered
  <1>25. CASE Rollout
    <2>1. /\ UNCHANGED <<spec, status, tu, config, pc, inst, loc>>
          /\ ss'.template = ss.template
          /\ \/ UNCHANGED pod
             \/ pod # None /\ pod.template # ss.template /\ pod' = None
             \/ /\ pod = None /\ ss.template # None
                /\ pod' = [template |-> ss.template, cfg |-> config]
      BY <1>25 DEF Rollout
    <2> QED
      BY <2>1 DEF AllOn, Rendered
  <1>26. CASE RestartPod
    <2>1. /\ UNCHANGED <<spec, status, tu, config, ss, pc, inst, loc>>
          /\ pod # None /\ pod'.template = pod.template /\ pod'.cfg = config
          /\ pod' \in [template : Template, cfg : Config]
      BY <1>26 DEF RestartPod, RenderedInv, TypeInv, TypeOK
    <2> QED
      BY <2>1, NoneAssumption DEF AllOn, Rendered
  <1>27. CASE AccountReady \/ JobDone \/ Registered \/ DeleteCR \/ UNCHANGED vars
    BY <1>27 DEF AccountReady, JobDone, Registered, DeleteCR, vars, AllOn, Rendered
  <1> QED
    BY <1>1, <1>2, <1>3, <1>4, <1>5, <1>6, <1>7, <1>8, <1>9, <1>10, <1>11, <1>12,
       <1>13, <1>14, <1>15, <1>16, <1>17, <1>18, <1>19, <1>20, <1>21, <1>22, <1>23,
       <1>24, <1>25, <1>26, <1>27 DEF Next, Reconcile

(* A finished rotation releases no Secret that is needed, and the prune    *)
(* keeps what the pod has loaded.                                          *)
LEMMA FinalizedUnused ==
    ASSUME RefinementInv, pc = "finalize", loc.ready
    PROVE  pod.cfg.main = loc.new
  BY PhaseSets DEF RefinementInv, RotationInv, Working, ReadyIsRolledOut, AllOn, Rendered

LEMMA KeptSecret ==
    ASSUME RefinementInv, pc = "prune", pod # None
    PROVE  pod.cfg.main \in {inst.main, loc.new}
  BY PhaseSets
     DEF RefinementInv, RotationInv, TwoSecrets, MovesOn, Working, Tracking, AllOn, Known,
         Tracked, Issued, Rendered

LEMMA UsedMain ==
    ASSUME RefinementInv, pod # None
    PROVE  pod.cfg.main \in TransportSecrets /\ pod.cfg.main \notin NotifSecret
  BY NamesAssumption
     DEF RefinementInv, RenderedInv, Sorted, RotationInv, TwoSecrets, Working, Known,
         Tracked, Issued, MainSecret, NotifSecret, Secrets

(* The steps that leave alone what UsedHeld is about.                      *)
QuietStep ==
    \/ ReconcileNew \/ ReconcileStart \/ ReconcileDatabase \/ ReconcileConfig \/ DbSync
    \/ Register \/ EnsureTopology \/ ReconcileStatefulSet \/ CheckReady
    \/ ReleaseAccounts \/ DeleteNotificationsURL \/ DeleteRegistration
    \/ DeleteDatabase \/ DeleteTopology \/ CollectSecrets \/ StepFails \/ Crash
    \/ (\E b \in Buses : IssueSecret(b) \/ RotateSecret(b))
    \/ AccountReady \/ JobDone \/ Registered \/ EditSpec \/ DeleteCR \/ UNCHANGED vars

LEMMA QuietSteps ==
    ASSUME TypeInv, QuietStep
    PROVE  UNCHANGED <<fin, pod>> /\ (InUse' => InUse) /\ (loc'.deleted => loc.deleted)
  <1>1. loc \in Locals /\ ~NoLocals.deleted
    BY DEF TypeInv, TypeOK, Locals, NoLocals
  <1>2. UNCHANGED <<fin, pod>> /\ (InUse' => InUse)
    BY DEF QuietStep, ReconcileNew, ReconcileStart, ReconcileDatabase, ReconcileConfig,
         DbSync, Register, EnsureTopology, ReconcileStatefulSet, CheckReady,
         ReleaseAccounts, DeleteNotificationsURL, DeleteRegistration, DeleteDatabase,
         DeleteTopology, CollectSecrets, StepFails, Crash, IssueSecret, RotateSecret,
         AccountReady, JobDone, Registered, EditSpec, DeleteCR, vars, crVars, busVars,
         workload, external, InUse
  <1>3. ASSUME ReconcileStart PROVE ~loc'.deleted
    BY <1>3 DEF ReconcileStart, NoLocals
  <1>4. ASSUME CheckReady \/ CollectSecrets PROVE loc'.deleted => loc.deleted
    BY <1>1, <1>4 DEF CheckReady, CollectSecrets, Requeue, Locals
  <1>5. ASSUME \/ UNCHANGED loc \/ loc' = NoLocals \/ loc' = [loc EXCEPT !.requeue = TRUE]
        PROVE  loc'.deleted => loc.deleted
    BY <1>1, <1>5 DEF Locals
  <1>6. ASSUME \/ ReconcileNew \/ ReconcileDatabase \/ ReconcileConfig \/ DbSync
               \/ Register \/ EnsureTopology \/ ReconcileStatefulSet
               \/ ReleaseAccounts \/ DeleteNotificationsURL \/ DeleteRegistration
               \/ DeleteDatabase \/ DeleteTopology \/ StepFails \/ Crash
               \/ (\E b \in Buses : IssueSecret(b) \/ RotateSecret(b))
               \/ AccountReady \/ JobDone \/ Registered \/ EditSpec \/ DeleteCR
               \/ UNCHANGED vars
        PROVE  \/ UNCHANGED loc \/ loc' = NoLocals \/ loc' = [loc EXCEPT !.requeue = TRUE]
    BY <1>6 DEF ReconcileNew, ReconcileDatabase, ReconcileConfig, DbSync, Register,
         EnsureTopology, ReconcileStatefulSet, ReleaseAccounts, DeleteNotificationsURL,
         DeleteRegistration, DeleteDatabase, DeleteTopology, StepFails, Crash,
         IssueSecret, RotateSecret, AccountReady, JobDone, Registered, EditSpec,
         DeleteCR, vars, reconcile, Requeue
  <1> QED
    BY <1>2, <1>3, <1>4, <1>5, <1>6 DEF QuietStep

LEMMA UsedHeldStep ==
    ASSUME RefinementInv, [Next]_vars
    PROVE  UsedHeld'
  <1>0. UsedHeld /\ Deletion /\ TypeInv /\ loc \in Locals
    BY DEF RefinementInv, RenderedInv, TypeInv, TypeOK, Locals
  <1> USE <1>0 DEF UsedHeld, Goto, InUse, crVars, busVars, workload, reconcile, external
  <1>1. CASE QuietStep
    BY <1>1, QuietSteps
  <1>2. CASE ReconcileTransportURL \/ EnsureNotifications
    BY <1>2 DEF ReconcileTransportURL, EnsureNotifications, Manage, Locals
  <1>3. CASE FinalizeTransport
    BY <1>3, FinalizedUnused DEF FinalizeTransport, FinAfter, Rotating, Remove
  <1>4. CASE FinalizeNotifications
    BY <1>4, UsedMain DEF FinalizeNotifications, FinAfter, Remove, RefinementInv,
                          RenderedInv, Sorted
  <1>5. CASE PruneFinalizers
    BY <1>5, KeptSecret DEF PruneFinalizers, Prune, Kept
  <1>6. CASE ReleaseSecrets
    BY <1>6 DEF ReleaseSecrets, Deletion, DeleteSteps, Locals
  <1>7. CASE PatchInstance
    BY <1>7 DEF PatchInstance, NoLocals
  <1>8. CASE Rollout \/ RestartPod
    <2>1. /\ UNCHANGED <<cr, fin, loc>>
          /\ \/ UNCHANGED pod \/ pod' = None
             \/ (pod # None \/ ss.template # None) /\ pod'.cfg = config
      BY <1>8 DEF Rollout, RestartPod, TypeInv, TypeOK
    <2>2. pod # None \/ ss.template # None => config.main # NoSecret
      BY DEF RefinementInv, RotationInv, Working
    <2>3. config.main # NoSecret /\ InUse => config.main \in fin
      BY DEF RefinementInv, RenderedInv, RenderedProtected, Uses
    <2> QED
      BY <2>1, <2>2, <2>3
  <1> QED
    BY <1>1, <1>2, <1>3, <1>4, <1>5, <1>6, <1>7, <1>8 DEF Next, Reconcile, QuietStep

LEMMA RefinementStep ==
    ASSUME ~ RapidRotation, OsloOnly, RefinementInv, [Next]_vars
    PROVE  RefinementInv'
  BY RenderedStep, RotationStep, UsedHeldStep DEF RefinementInv

-----------------------------------------------------------------------------
(* The refinement.                                                         *)

(* Who writes the lifecycle and the status: the user, the first reconcile  *)
(* and the deferred patch.                                                 *)
LEMMA OnlyPatchWrites ==
    ASSUME [Next]_vars
    PROVE  /\ UNCHANGED status \/ PatchInstance
           /\ UNCHANGED cr \/ PatchInstance \/ DeleteCR \/ ReconcileNew
  BY DEF Next, Reconcile, ReconcileStart, ReconcileTransportURL, EnsureNotifications,
         ReconcileDatabase, ReconcileConfig, DbSync, Register, EnsureTopology,
         ReconcileStatefulSet, CheckReady, ReleaseAccounts, FinalizeTransport,
         FinalizeNotifications, DeleteNotificationsURL, PruneFinalizers,
         DeleteRegistration, DeleteDatabase, DeleteTopology, CollectSecrets,
         ReleaseSecrets, StepFails, Crash, IssueSecret, RotateSecret, AccountReady,
         JobDone, Registered, EditSpec, DeleteCR, ReconcileNew, Rollout, RestartPod,
         crVars, vars

(* Every step is a step of SecretConsumption, or leaves the mapped         *)
(* variables alone.                                                        *)
LEMMA ConsumptionStep ==
    ASSUME ~ RapidRotation, OsloOnly, RefinementInv, RefinementInv', [Next]_vars
    PROVE  [Consumption!Next]_(Consumption!vars)
  <1> DEFINE held == fin \cap TransportSecrets
             used == IF pod = None THEN {} ELSE {pod.cfg.main}
  <1>1. CASE ~InUse
    <2>1. ~InUse'
      BY <1>1, OnlyPatchWrites DEF PatchInstance, DeleteCR, ReconcileNew, InUse
    <2>2. /\ held' \in SUBSET TransportSecrets
          /\ config'.main \in MainSecret
          /\ used' \in SUBSET MainSecret
      BY DEF RefinementInv, RenderedInv, Sorted, RotationInv, TwoSecrets, Known, Tracked,
             Issued, MainSecret
    <2> QED
      BY <1>1, <2>1, <2>2 DEF Consumption!Next, Consumption!Retired, MainSecret
  <1>2. CASE InUse
    <2>0. /\ TypeInv /\ Sorted /\ Deletion /\ UsedHeld /\ InProgress /\ ~loc.deleted
      BY <1>2 DEF RefinementInv, RenderedInv, UsedHeld
    <2> USE <1>2, <2>0 DEF InUse, Consumption!vars, crVars, busVars, workload, external,
          Goto, Requeue
    <2>1. CASE ReconcileTransportURL
      <3>1. /\ UNCHANGED <<cr, config, pod>>
            /\ fin' = fin \/ fin' = fin \cup ({tu["main"]} \ {NoSecret})
        BY <2>1 DEF ReconcileTransportURL, Manage
      <3>2. held' = held \/ (tu["main"] \in TransportSecrets /\ held' = held \cup {tu["main"]})
        BY <3>1 DEF Sorted, MainSecret
      <3> QED
        BY <3>1, <3>2 DEF Consumption!Next, Consumption!Protect
    <2>2. CASE ReconcileConfig
      <3>1. CASE UNCHANGED config
        BY <2>2, <3>1 DEF ReconcileConfig
      <3>2. CASE config' # config
        <4>1. /\ config' = Rendered /\ pc = "config"
              /\ ~(loc.spec.oslo /\ loc.new = NoSecret)
          BY <2>2, <3>2 DEF ReconcileConfig
        <4>2. loc.spec.oslo
          BY <4>1 DEF RefinementInv, RotationInv, Written, OsloOnly
        <4>3. config'.main = loc.new /\ loc.new \in held
          BY <4>1, <4>2, StepSets DEF Rendered, InProgress, Sorted, MainSecret
        <4> QED
          BY <2>2, <4>3 DEF ReconcileConfig, Consumption!Next, Consumption!Render
      <3> QED
        BY <3>1, <3>2
    <2>3. CASE FinalizeTransport
      <3>1. config.main = loc.new
        BY <2>3, StepSets DEF FinalizeTransport, InProgress, Rendered
      <3>2. loc.ready => pod.cfg.main = loc.new
        BY <2>3, FinalizedUnused DEF FinalizeTransport
      <3>3. \/ held' = held
            \/ loc.ready /\ inst.main # loc.new /\ held' = held \ {inst.main}
        BY <2>3 DEF FinalizeTransport, FinAfter, Rotating, Remove
      <3>4. /\ held' \in SUBSET held
            /\ held \ held' \subseteq TransportSecrets
                   \ (({config.main} \cup used) \ {NoSecret})
        BY <3>1, <3>2, <3>3
      <3> QED
        BY <2>3, <3>4
           DEF FinalizeTransport, Consumption!Next, Consumption!Release,
               Consumption!Needed
    <2>4. CASE PruneFinalizers
      <3>1. config.main = loc.new
        BY <2>4, StepSets DEF PruneFinalizers, InProgress, Rendered
      <3>2. used \subseteq {inst.main, loc.new}
        BY <2>4, KeptSecret DEF PruneFinalizers
      <3>3. /\ held' \in SUBSET held
            /\ held \ held' \subseteq TransportSecrets
                   \ (({config.main} \cup used) \ {NoSecret})
        BY <2>4, <3>1, <3>2 DEF PruneFinalizers, Prune, Kept
      <3> QED
        BY <2>4, <3>3
           DEF PruneFinalizers, Consumption!Next, Consumption!Release,
               Consumption!Needed
    <2>5. CASE Rollout \/ RestartPod
      <3>1. /\ UNCHANGED <<cr, fin, config>>
            /\ UNCHANGED pod \/ pod' = None \/ pod'.cfg = config
        BY <2>5 DEF Rollout, RestartPod, TypeInv, TypeOK
      <3>2. used' \in SUBSET (used \cup {config.main})
        BY <3>1
      <3> QED
        BY <3>1, <3>2 DEF Consumption!Next, Consumption!Load
    <2>6. CASE DeleteCR
      BY <2>6 DEF DeleteCR, Consumption!Next, Consumption!Retire
    <2>7. CASE EnsureNotifications \/ FinalizeNotifications
      <3>1. /\ loc.oldNotif \notin TransportSecrets
            /\ tu["notif"] \notin TransportSecrets
        BY NamesAssumption DEF Sorted, NotifSecret, Secrets
      <3>2. held' = held
        BY <2>7, <3>1, NamesAssumption
           DEF EnsureNotifications, FinalizeNotifications, Manage, FinAfter, Remove,
               Secrets
      <3> QED
        BY <2>7, <3>2 DEF EnsureNotifications, FinalizeNotifications
    <2>8. CASE ReconcileNew \/ PatchInstance
      BY <2>8 DEF ReconcileNew, PatchInstance
    <2>9. ASSUME \/ ReconcileStart \/ ReconcileDatabase \/ DbSync \/ Register
                 \/ EnsureTopology \/ ReconcileStatefulSet \/ CheckReady
                 \/ ReleaseAccounts \/ DeleteNotificationsURL \/ DeleteRegistration
                 \/ DeleteDatabase \/ DeleteTopology \/ CollectSecrets \/ StepFails
                 \/ Crash \/ (\E b \in Buses : IssueSecret(b) \/ RotateSecret(b))
                 \/ AccountReady \/ JobDone \/ Registered \/ EditSpec \/ UNCHANGED vars
          PROVE  UNCHANGED <<cr, fin, config, pod>>
      BY <2>9 DEF ReconcileStart, ReconcileDatabase, DbSync, Register, EnsureTopology,
         ReconcileStatefulSet, CheckReady, ReleaseAccounts, DeleteNotificationsURL,
         DeleteRegistration, DeleteDatabase, DeleteTopology, CollectSecrets, StepFails,
         Crash, IssueSecret, RotateSecret, AccountReady, JobDone, Registered, EditSpec,
         vars
    <2>10. ~ReleaseSecrets
      BY DEF ReleaseSecrets, Deletion, DeleteSteps
    <2>11. UNCHANGED <<cr, fin, config, pod>> => UNCHANGED Consumption!vars
      OBVIOUS
    <2> QED
      BY <2>1, <2>2, <2>3, <2>4, <2>5, <2>6, <2>7, <2>8, <2>9, <2>10, <2>11
         DEF Next, Reconcile
  <1> QED
    BY <1>1, <1>2

(* The inspector never renders an unprotected transport Secret and never   *)
(* takes the finalizer off one that config-data or its pod still holds,    *)
(* until the CR is deleted, whatever is rotated, edited or restarted, as   *)
(* long as its bus stays oslo.                                             *)
THEOREM ImplementsSecretConsumption ==
    ASSUME ~ RapidRotation, OsloOnly
    PROVE  Spec => ImplementsConsumption
  <1>1. Init => Consumption!Init
    BY DEF Init, Consumption!Init, NoConfig, InUse
  <1>2. RefinementInv /\ RefinementInv' /\ [Next]_vars => [Consumption!Next]_(Consumption!vars)
    BY ConsumptionStep
  <1>3. RefinementInv /\ [Next]_vars => RefinementInv'
    BY RefinementStep
  <1> QED
    BY <1>1, <1>2, <1>3, RefinementInit, PTL
       DEF Spec, ImplementsConsumption, Consumption!Spec

(* When the CR turns Ready its pod has loaded the transport Secret that    *)
(* Status.AppliedInputSecretHash was computed from.                        *)
THEOREM ReadyAppliesTheSecret ==
    ASSUME ~ RapidRotation, OsloOnly
    PROVE  Spec => ReadyMeansApplied
  <1>1. RefinementInv /\ [Next]_vars =>
           [status'.ready /\ ~status.ready
               => pod # None /\ pod.cfg.main = status'.applied.main]_vars
    BY OnlyPatchWrites
       DEF PatchInstance, RefinementInv, RotationInv, ReadyIsRolledOut, AllOn
  <1>2. RefinementInv /\ [Next]_vars => RefinementInv'
    BY RefinementStep
  <1> QED
    BY <1>1, <1>2, RefinementInit, PTL DEF Spec, ReadyMeansApplied

-----------------------------------------------------------------------------
(* Deletion.                                                               *)

(* Every finalizer is on a Secret that the status or a TransportURL names. *)
Accounted ==
    /\ fin \subseteq {Tracked, Issued, tu["notif"]}
    /\ \A b \in Buses : tu[b] # NoSecret => b \in tuExists
    /\ pc \in {"patch"} \cup AfterFinalize /\ Tracked # NoSecret /\ inst.main # Tracked
           => Tracked \notin fin
    /\ pc = "deleteNotifURL" => fin \cap NotifSecrets = {}

(* What is collected is all, and the CR goes only when all is released.    *)
Releasing ==
    /\ pc = "release" => fin \subseteq loc.release
    /\ loc.deleted => fin = {} /\ pc = "patch"
    /\ cr = "gone" => fin = {} /\ pc = "idle"

(* The steps of the deletion that follow the registration's and the        *)
(* database's.                                                             *)
LastSteps == {"deleteTopology", "collect", "release"}

(* One account and the database have the finalizer, none before they       *)
(* exist; nothing does once the deletion has passed.                       *)
ServicesReleasing ==
    /\ dbFin \subseteq {spec.account, "database"}
    /\ accounts[spec.account] = "none" => dbFin = {}
    /\ pc \in {"deleteService", "deleteDatabase"} => "endpoint" \notin keystoneFin
    /\ pc \in {"deleteDatabase"} \cup LastSteps \/ loc.deleted \/ cr = "gone"
           => keystoneFin = {}
    /\ pc \in LastSteps \/ loc.deleted \/ cr = "gone" => dbFin = {}

ReleaseInv == RefinementInv /\ Accounted /\ Releasing /\ ServicesReleasing

LEMMA ReleaseInit == Init => ReleaseInv
  <1> SUFFICES ASSUME Init PROVE Accounted /\ Releasing /\ ServicesReleasing
    BY RefinementInit DEF ReleaseInv
  <1>1. /\ fin = {} /\ dbFin = {} /\ keystoneFin = {}
        /\ pc = "idle" /\ ~loc.deleted /\ tu = [b \in Buses |-> NoSecret]
    BY DEF Init, NoLocals
  <1> QED
    BY <1>1, PhaseSets DEF Accounted, Releasing, ServicesReleasing, LastSteps

LEMMA SecretsStep ==
    ASSUME ~ RapidRotation, OsloOnly, \A s, t \in NotifSecrets : s = t, ReleaseInv, [Next]_vars
    PROVE  (Accounted /\ Releasing)'
  <1>0. /\ Sorted /\ Accounted /\ Releasing /\ Tracking /\ TwoSecrets
        /\ loc \in Locals /\ inst \in Status /\ fin \in SUBSET Secrets
        /\ tu \in [Buses -> AnySecret] /\ tuExists \in SUBSET Buses
        /\ NoSecret \notin fin /\ ~NoLocals.deleted
        /\ pc # "idle" => loc.spec.oslo
    BY NamesAssumption DEF ReleaseInv, RefinementInv, RenderedInv, RotationInv, Written,
       OsloOnly, TypeInv, TypeOK, Locals, NoLocals
  <1> USE <1>0, PhaseSets DEF Accounted, Releasing, Tracked, Issued, Goto, Requeue, crVars,
        busVars, reconcile, external
  <1>1. CASE ReconcileNew
    BY <1>1 DEF ReconcileNew
  <1>2. CASE ReconcileStart
    BY <1>2 DEF ReconcileStart, NoLocals
  <1>3. CASE ReconcileTransportURL
    BY <1>3 DEF ReconcileTransportURL, Manage, Tracking, TwoSecrets, Known, Locals,
                Status
  <1>4. CASE EnsureNotifications
    BY <1>4 DEF EnsureNotifications, Manage, Locals, Buses
  <1>5. CASE FinalizeTransport
    BY <1>5 DEF FinalizeTransport, FinAfter, TrackedAfter, Rotating, Remove, Tracking,
                Status
  <1>6. CASE FinalizeNotifications
    BY <1>6 DEF FinalizeNotifications, FinAfter, Remove, Sorted, NotifSecret, Status
  <1>7. CASE DeleteNotificationsURL
    BY <1>7, NamesAssumption DEF DeleteNotificationsURL, Status, Sorted, NotifSecret, Secrets, Buses
  <1>8. CASE PruneFinalizers
    BY <1>8 DEF PruneFinalizers, Prune, Status
  <1>9. CASE CollectSecrets
    BY <1>9 DEF CollectSecrets, Tracking, Locals, Buses
  <1>10. CASE ReleaseSecrets
    BY <1>10 DEF ReleaseSecrets, Remove, Locals
  <1>11. CASE PatchInstance
    <2>1. inst.main # Tracked => Tracked \notin fin
      BY <1>11 DEF PatchInstance
    <2>2. fin \subseteq {inst.main, Issued, tu["notif"]}
      BY <2>1
    <2> QED
      BY <1>11, <2>2 DEF PatchInstance, NoLocals
  <1>12. CASE StepFails
    BY <1>12 DEF StepFails, Tracking, NormalSteps, DeleteSteps, Locals, Status
  <1>13. CASE Crash
    BY <1>13 DEF Crash
  <1>14. ASSUME NEW b \in Buses, IssueSecret(b) \/ RotateSecret(b)
         PROVE  (Accounted /\ Releasing)'
    <2>1. PICK s \in SecretsOf[b] : s # tu[b] /\ tu' = [tu EXCEPT ![b] = s]
      BY <1>14, TypeFacts, NamesAssumption DEF IssueSecret, RotateSecret
    <2>2. /\ UNCHANGED <<cr, status, tuExists, fin, pc, inst, loc>>
          /\ b \in tuExists
          /\ tu[b] = NoSecret \/ tu[b] = status[b]
      BY <1>14 DEF IssueSecret, RotateSecret
    <2>3. CASE b = "main"
      <3>1. /\ tu'["main"] = s /\ tu'["notif"] = tu["notif"]
            /\ \A c \in Buses : tu'[c] # NoSecret => c \in tuExists
        BY <2>1, <2>2, <2>3 DEF Buses
      <3>2. fin \subseteq {Tracked, tu'["main"], tu'["notif"]}
        BY <2>2, <2>3, <3>1
      <3> QED
        BY <2>2, <3>1, <3>2
    <2>4. CASE b = "notif"
      <3>1. tu["notif"] = NoSecret
        BY <2>1, <2>2, <2>4 DEF Sorted, NotifSecret, SecretsOf, Buses
      <3>2. /\ tu'["main"] = tu["main"]
            /\ \A c \in Buses : tu'[c] # NoSecret => c \in tuExists
        BY <2>1, <2>2, <2>4 DEF Buses
      <3>3. fin \subseteq {Tracked, tu'["main"], tu'["notif"]}
        BY <3>1, <3>2
      <3> QED
        BY <2>2, <3>2, <3>3
    <2> QED
      BY <2>3, <2>4 DEF Buses
  <1>15. CASE ReconcileDatabase \/ DbSync \/ Register \/ ReconcileStatefulSet
              \/ CheckReady \/ ReleaseAccounts
    BY <1>15 DEF ReconcileDatabase, DbSync, Register, Registrations,
         ReconcileStatefulSet, CheckReady, ReleaseAccounts, Tracking, Locals, Status
  <1>16. CASE ReconcileConfig
    BY <1>16 DEF ReconcileConfig, Tracking, Locals, Status
  <1>17. CASE EnsureTopology
    BY <1>17 DEF EnsureTopology, Tracking, Locals, Status
  <1>18. CASE DeleteRegistration \/ DeleteDatabase \/ DeleteTopology
    BY <1>18 DEF DeleteRegistration, DeleteDatabase, DeleteTopology
  <1>19. CASE AccountReady \/ JobDone \/ Registered \/ EditSpec \/ DeleteCR \/ Rollout
              \/ RestartPod \/ UNCHANGED vars
    BY <1>19 DEF AccountReady, JobDone, Registered, EditSpec, DeleteCR, Rollout,
         RestartPod, vars
  <1> QED
    BY <1>1, <1>2, <1>3, <1>4, <1>5, <1>6, <1>7, <1>8, <1>9, <1>10, <1>11, <1>12,
       <1>13, <1>14, <1>15, <1>16, <1>17, <1>18, <1>19 DEF Next, Reconcile

LEMMA ServicesReleaseStep ==
    ASSUME \A s, t \in Specs : s.account = t.account, ReleaseInv, [Next]_vars
    PROVE  ServicesReleasing'
  <1>0. /\ ServicesReleasing /\ Releasing
        /\ loc \in Locals /\ ~NoLocals.deleted
        /\ accounts \in [Accounts -> {"none", "pending", "ready"}]
        /\ keystoneFin \in SUBSET Registrations
        /\ spec \in Specs /\ spec.account \in Accounts
        /\ pc # "idle" => loc.spec.account = spec.account
    BY DEF ReleaseInv, RefinementInv, RenderedInv, RotationInv, Written, TypeInv, TypeOK,
           Locals, NoLocals, SpecType
  <1> USE <1>0 DEF ServicesReleasing, LastSteps, Goto, Requeue, crVars, dbVars,
        keystoneVars, reconcile, external
  <1>1. CASE ReconcileStart
    BY <1>1 DEF ReconcileStart, NoLocals
  <1>2. CASE ReconcileDatabase
    BY <1>2 DEF ReconcileDatabase, Releasing, Locals
  <1>3. CASE Register
    BY <1>3 DEF Register, Registrations, Releasing, Locals
  <1>4. CASE ReleaseAccounts
    BY <1>4 DEF ReleaseAccounts, Releasing
  <1>5. CASE DeleteRegistration
    BY <1>5 DEF DeleteRegistration, Registrations, Releasing
  <1>6. CASE DeleteDatabase
    BY <1>6 DEF DeleteDatabase, Releasing
  <1>7. CASE DeleteTopology
    BY <1>7 DEF DeleteTopology, Releasing
  <1>8. CASE CollectSecrets \/ ReleaseSecrets
    BY <1>8 DEF CollectSecrets, ReleaseSecrets, Releasing, Locals
  <1>9. CASE PatchInstance \/ Crash
    BY <1>9 DEF PatchInstance, Crash, Releasing
  <1>10. CASE StepFails
    BY <1>10 DEF StepFails, NormalSteps, DeleteSteps, Releasing, Locals
  <1>11. CASE AccountReady
    BY <1>11 DEF AccountReady
  <1>12. CASE EditSpec
    <2>1. spec'.account = spec.account
      BY <1>12 DEF EditSpec
    <2> QED
      BY <1>12, <2>1 DEF EditSpec
  <1>13. CASE ReconcileTransportURL \/ EnsureNotifications \/ ReconcileConfig \/ DbSync
              \/ EnsureTopology \/ ReconcileStatefulSet \/ CheckReady
              \/ FinalizeTransport \/ FinalizeNotifications \/ DeleteNotificationsURL
              \/ PruneFinalizers
    <2>1. /\ UNCHANGED <<cr, spec, accounts, dbFin, keystoneFin>>
          /\ pc' \notin {"deleteService", "deleteDatabase"} \cup LastSteps
          /\ loc'.deleted = loc.deleted
      BY <1>13 DEF ReconcileTransportURL, EnsureNotifications, ReconcileConfig, DbSync,
         EnsureTopology, ReconcileStatefulSet, CheckReady, FinalizeTransport,
         FinalizeNotifications, DeleteNotificationsURL, PruneFinalizers, Locals
    <2> QED
      BY <2>1
  <1>14. CASE ReconcileNew \/ (\E b \in Buses : IssueSecret(b) \/ RotateSecret(b))
              \/ JobDone \/ Registered \/ DeleteCR \/ Rollout \/ RestartPod
              \/ UNCHANGED vars
    BY <1>14 DEF ReconcileNew, IssueSecret, RotateSecret, JobDone, Registered, DeleteCR,
         Rollout, RestartPod, vars
  <1> QED
    BY <1>1, <1>2, <1>3, <1>4, <1>5, <1>6, <1>7, <1>8, <1>9, <1>10, <1>11, <1>12,
       <1>13, <1>14 DEF Next, Reconcile

(* A deleted inspector leaves its finalizer on no Secret, account,         *)
(* database, registration or Topology, whenever the deletion comes; as     *)
(* long as bus and account are not edited, the notifications Secret is not *)
(* rotated and no restart meets a Topology.  Without one of these the code *)
(* may leave a finalizer behind.                                           *)
THEOREM DeletionReleasesAll ==
    ASSUME ~ RapidRotation, OsloOnly, \A s, t \in Specs : s.account = t.account,
           \A s, t \in NotifSecrets : s = t, MaxCrashes = 0 \/ Topologies = {}
    PROVE  Spec => []DeletedReleasesAll
  <1>1. ReleaseInv /\ [Next]_vars => ReleaseInv'
    BY RefinementStep, SecretsStep, ServicesReleaseStep DEF ReleaseInv
  <1>2. Spec => []TopologyReleased
    <2>1. CASE MaxCrashes = 0
      BY <2>1, TopologyAlwaysReleased
    <2>2. CASE Topologies = {}
      <3>1. TypeOK => TopologyReleased
        BY <2>2 DEF TypeOK, TopologyReleased
      <3> QED
        BY <3>1, TypeCorrect, PTL
    <2> QED
      BY <2>1, <2>2
  <1>3. ReleaseInv /\ TopologyReleased => DeletedReleasesAll
    BY DEF ReleaseInv, Releasing, ServicesReleasing, DeletedReleasesAll
  <1> QED
    BY ReleaseInit, <1>1, <1>2, <1>3, PTL DEF Spec
=============================================================================
