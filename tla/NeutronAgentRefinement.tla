------------------------- MODULE NeutronAgentRefinement -------------------------
(***************************************************************************)
(* NeutronAgent implements SecretConsumption for the transport Secret,     *)
(* for any sets of Secrets and any bounds, as long as a Secret is only     *)
(* rotated when the status shows its last rotation done (RapidRotation     *)
(* FALSE; with rapid rotations the promise is broken).                     *)
(*                                                                         *)
(* Then there are two Secrets at a time: the tracked one, status.main, and *)
(* the one the TransportURL names, tu["main"].  Everything else follows    *)
(* the second one in a fixed order: config-data, the Deployment, its pods  *)
(* and at last, when all of them have, the status.                         *)
(***************************************************************************)
EXTENDS NeutronAgentProofs

Tracked == status.main
Issued == tu["main"]
Known == {NoSecret, Tracked, Issued}

AfterDeploy == {"ready", "finalize", "finalizeNotif", "deleteNotifURL", "prune"}
AfterReady == {"finalize", "finalizeNotif", "deleteNotifURL", "prune"}
AfterFinalize == {"finalizeNotif", "deleteNotifURL", "prune", "patch"}

(* No third Secret is around.                                              *)
TwoSecrets ==
    /\ Tracked # NoSecret => Issued # NoSecret
    /\ {config.main, deploy.hash.main, loc.new, inst.main} \subseteq Known
    /\ \A p \in pods : {p.hash.main, p.cfg.main} \subseteq Known

(* While the two differ, what has moved on to the issued one is preceded   *)
(* by what it is made from, and nothing moves back.                        *)
MovesOn ==
    Issued # Tracked =>
        /\ deploy.hash.main = Issued => config.main = Issued
        /\ \A p \in pods : /\ p.cfg.main = Issued => config.main = Issued
                           /\ p.hash.main = Issued => p.cfg.main = Issued
        /\ pc \in {"manage"} \cup AfterManage /\ config.main = Issued => loc.new = Issued

(* What the steps of a reconcile have made of each other's output.         *)
Working ==
    /\ pc \in AfterConfig => config = Rendered /\ inst.hash = config /\ loc.new # NoSecret
    /\ pc = "manage" => loc.new # NoSecret
    /\ pc \in AfterDeploy => deploy.hash = config
    /\ deploy.hash # NoConfig \/ pods # {} => config.main # NoSecret
    /\ \A p \in pods : p.cfg.main # NoSecret
    /\ pc # "patch" => ~inst.ready

(* The rollout is complete: every pod is of the Deployment's template and  *)
(* has loaded the transport Secret that config-data holds.                 *)
AllOn ==
    /\ pods # {} /\ deploy.hash.main = config.main
    /\ \A p \in pods : p.hash = deploy.hash /\ p.cfg.main = config.main

(* `ready' still means a complete rollout when it is used, and so does the *)
(* Ready condition when it is written.                                     *)
ReadyIsRolledOut ==
    /\ pc \in AfterReady /\ loc.ready => AllOn /\ inst.applied.main = config.main
    /\ pc = "patch" /\ inst.ready => AllOn /\ inst.applied.main = config.main

(* The copy of the status tracks what the status tracks; another Secret    *)
(* only when none was tracked, or when all have moved on to that one.      *)
Tracking ==
    /\ pc # "idle" /\ pc \notin AfterFinalize /\ Tracked # NoSecret => inst.main = Tracked
    /\ pc \in AfterManage /\ Tracked = NoSecret => inst.main = loc.new
    /\ pc \in AfterFinalize /\ Tracked # NoSecret /\ inst.main # Tracked
           => AllOn /\ config.main = Issued /\ inst.main = Issued

(* The Secrets of the pods of a CR in use have the finalizer.              *)
UsedHeld ==
    /\ Live => \A p \in pods : p.cfg.main \in fin
    /\ loc.deleted => ~Live

RotationInv ==
    /\ TwoSecrets /\ MovesOn /\ Working /\ ReadyIsRolledOut /\ Tracking

RefinementInv == RenderedInv /\ RotationInv /\ UsedHeld

-----------------------------------------------------------------------------
LEMMA RefinementInit == Init => RefinementInv
  <1> SUFFICES ASSUME Init PROVE RotationInv /\ UsedHeld
    BY RenderedInit DEF RefinementInv
  <1> QED
    BY DEF Init, RotationInv, TwoSecrets, MovesOn, Working, ReadyIsRolledOut, Tracking,
           UsedHeld, Known, Tracked, Issued, NoConfig, NoStatus, NoLocals, Buses,
           AfterConfig, AfterNotif, AfterManage, AfterDeploy, AfterReady, AfterFinalize

(* Which step is in which of the sets.                                     *)
LEMMA PhaseSets ==
    /\ AfterConfig = {"deployment", "ready", "finalize", "finalizeNotif",
                      "deleteNotifURL", "prune"}
    /\ AfterManage = {"config", "notif", "manageNotif"} \cup AfterConfig
    /\ AfterDeploy = AfterConfig \ {"deployment"}
    /\ AfterReady = AfterDeploy \ {"ready"}
    /\ AfterFinalize = (AfterReady \ {"finalize"}) \cup {"patch"}
  BY DEF AfterConfig, AfterNotif, AfterManage, AfterDeploy, AfterReady, AfterFinalize

LEMMA RotationStep ==
    ASSUME RapidRotation = FALSE, RenderedInv, RotationInv, [Next]_vars
    PROVE  RotationInv'
  <1> USE PhaseSets DEF RenderedInv, RotationInv, TwoSecrets, MovesOn, Working,
          ReadyIsRolledOut, Tracking, Known, Tracked, Issued, Goto
  <1>1. CASE ReconcileNew
    BY <1>1 DEF ReconcileNew, busVars, workload, reconcile, AllOn, Rendered
  <1>2. CASE ReconcileStart
    BY <1>2 DEF ReconcileStart, TypeOK, Status, NoLocals, crVars, busVars, workload
  <1>3. CASE ReconcileTransportURL
    BY <1>3 DEF ReconcileTransportURL, TypeOK, Locals, crVars, workload
  <1>4. CASE ManageTransport
    BY <1>4 DEF ManageTransport, TypeOK, Status, crVars, busVars, workload
  <1>5. CASE EnsureNotifications
    BY <1>5 DEF EnsureNotifications, TypeOK, Status, Locals, crVars, workload
  <1>6. CASE ManageNotifications
    BY <1>6 DEF ManageNotifications, crVars, busVars, workload
  <1>7. CASE ReconcileConfig
    BY <1>7 DEF ReconcileConfig, TypeOK, Status, Locals, Rendered, crVars, busVars,
                workload
  <1>8. CASE ReconcileDeployment
    BY <1>8 DEF ReconcileDeployment, TypeOK, Rendered, crVars, busVars
  <1>9. CASE CheckReady
    BY <1>9 DEF CheckReady, RolledOut, AllOn, TypeOK, Status, Locals, Rendered, crVars,
                busVars, workload
  <1>10. CASE FinalizeTransport
    BY <1>10 DEF FinalizeTransport, TrackedAfter, Rotating, AllOn, TypeOK, Status,
                 Rendered, crVars, busVars, workload
  <1>11. CASE FinalizeNotifications
    BY <1>11 DEF FinalizeNotifications, AllOn, TypeOK, Status, Rendered, crVars,
                 busVars, workload
  <1>12. CASE DeleteNotificationsURL
    BY <1>12 DEF DeleteNotificationsURL, AllOn, TypeOK, Status, Rendered, Buses, crVars,
                 workload
  <1>13. CASE PruneFinalizers
    BY <1>13 DEF PruneFinalizers, AllOn, TypeOK, Status, crVars, busVars, workload
  <1>14. CASE CollectSecrets \/ ReleaseSecrets
    BY <1>14 DEF CollectSecrets, ReleaseSecrets, TypeOK, Locals, crVars, busVars, workload
  <1>15. CASE PatchInstance
    BY <1>15 DEF PatchInstance, AllOn, TypeOK, NoStatus, NoLocals, busVars, workload
  <1>16. CASE StepFails
    BY <1>16 DEF StepFails, AllOn, TypeOK, Status, Locals, NormalSteps, DeleteSteps, crVars,
                 busVars, workload
  <1>17. CASE Crash
    BY <1>17 DEF Crash, NoStatus, NoLocals, crVars, busVars, workload
  <1>18. ASSUME NEW b \in Buses, IssueSecret(b) PROVE RotationInv'
    <2>1. PICK s \in SecretsOf[b] : tu' = [tu EXCEPT ![b] = s]
      BY <1>18 DEF IssueSecret
    <2>2. tu[b] = NoSecret /\ s # NoSecret
      BY <1>18, <2>1, TypeFacts, SecretsAssumption DEF IssueSecret
    <2>3. \/ UNCHANGED Issued
          \/ Issued = NoSecret /\ Tracked = NoSecret /\ Issued' = s
      BY <2>1, <2>2 DEF TypeOK, Buses
    <2> QED
      BY <1>18, <2>2, <2>3 DEF IssueSecret, AllOn, Rendered, crVars, workload, reconcile
  <1>19. ASSUME NEW b \in Buses, RotateSecret(b) PROVE RotationInv'
    <2>1. PICK s \in SecretsOf[b] \ {tu[b]} : tu' = [tu EXCEPT ![b] = s]
      BY <1>19 DEF RotateSecret
    <2>2. status[b] = tu[b] /\ s # NoSecret
      BY <1>19, <2>1, TypeFacts, SecretsAssumption DEF RotateSecret
    <2>3. \/ UNCHANGED Issued
          \/ Issued = Tracked /\ Issued' = s /\ s # Issued
      BY <2>1, <2>2 DEF TypeOK, Buses
    <2> QED
      BY <1>19, <2>2, <2>3 DEF RotateSecret, AllOn, Rendered, crVars, workload, reconcile
  <1>20. CASE ToggleNotifications \/ DeleteCR
    BY <1>20 DEF ToggleNotifications, DeleteCR, AllOn, Rendered, busVars, workload,
                 reconcile
  <1>21. CASE ObserveDeployment
    BY <1>21 DEF ObserveDeployment, AllOn, TypeOK, Rendered, crVars, busVars, reconcile
  <1>22. CASE StartPod
    BY <1>22 DEF StartPod, AllOn, Rendered, crVars, busVars, reconcile
  <1>23. CASE StopPod
    BY <1>23 DEF StopPod, AllOn, Rendered, crVars, busVars, reconcile
  <1>24. CASE RestartPod
    <2>1. PICK p \in pods : pods' = (pods \ {p}) \cup {[p EXCEPT !.cfg = config]}
      BY <1>24 DEF RestartPod
    <2>2. UNCHANGED <<crVars, busVars, config, deploy, reconcile>>
      BY <1>24 DEF RestartPod
    <2>3. \A q \in pods' : \/ q \in pods
                           \/ q.hash = p.hash /\ q.cfg = config
      BY <2>1 DEF TypeOK, Pod
    <2>4. pods' # {}
      BY <2>1
    <2>5. config.main # NoSecret
      BY DEF TypeOK
    <2> QED
      BY <2>2, <2>3, <2>4, <2>5 DEF AllOn, Rendered, crVars, busVars, reconcile
  <1>25. CASE UNCHANGED vars
    BY <1>25 DEF vars, AllOn, Rendered
  <1> QED
    BY <1>1, <1>2, <1>3, <1>4, <1>5, <1>6, <1>7, <1>8, <1>9, <1>10, <1>11, <1>12,
       <1>13, <1>14, <1>15, <1>16, <1>17, <1>18, <1>19, <1>20, <1>21, <1>22, <1>23,
       <1>24, <1>25 DEF Next, Reconcile, Rollout

(* The Secret a pod has loaded is the tracked one or the one in config-data *)
(* and both are kept.                                                      *)
LEMMA KeptSecrets ==
    ASSUME RefinementInv, pc = "prune", NEW p \in pods
    PROVE  p.cfg.main \in {inst.main, loc.new} /\ p.cfg.main \in MainSecret \ {NoSecret}
  BY PhaseSets
     DEF RefinementInv, RenderedInv, Sorted, RotationInv, TwoSecrets, MovesOn, Working, Tracking,
         AllOn, Known, Tracked, Issued, Rendered

(* A finished rotation releases no Secret that is needed.                  *)
LEMMA FinalizedUnused ==
    ASSUME RefinementInv, pc = "finalize", loc.ready, NEW p \in pods
    PROVE  p.cfg.main = loc.new /\ config.main = loc.new
  BY PhaseSets
     DEF RefinementInv, RotationInv, Working, ReadyIsRolledOut, AllOn, Rendered

LEMMA UsedMain ==
    ASSUME RefinementInv, NEW p \in pods
    PROVE  p.cfg.main \in TransportSecrets /\ p.cfg.main \notin NotifSecret
  BY SecretsAssumption
     DEF RefinementInv, RenderedInv, Sorted, RotationInv, TwoSecrets, Working, Known, Tracked,
         Issued, MainSecret, NotifSecret, Secrets

LEMMA UsedHeldStep ==
    ASSUME RefinementInv, [Next]_vars
    PROVE  UsedHeld'
  <1> USE DEF UsedHeld, Goto, Live
  <1>0. UsedHeld /\ Deletion /\ TypeOK
    BY DEF RefinementInv, RenderedInv
  <1>1. CASE ReconcileNew
    BY <1>0, <1>1 DEF ReconcileNew, busVars, workload, reconcile
  <1>2. CASE ReconcileStart
    BY <1>0, <1>2 DEF ReconcileStart, NoLocals, crVars, workload
  <1>3. CASE ReconcileTransportURL \/ EnsureNotifications \/ ReconcileConfig \/ CheckReady
             \/ CollectSecrets
    BY <1>0, <1>3 DEF ReconcileTransportURL, EnsureNotifications, ReconcileConfig,
          CheckReady, CollectSecrets, TypeOK, Locals, crVars, workload
  <1>4. CASE ManageTransport \/ ManageNotifications
    BY <1>0, <1>4 DEF ManageTransport, ManageNotifications, Manage, crVars, workload
  <1>8. CASE ReconcileDeployment
    BY <1>0, <1>8 DEF ReconcileDeployment, crVars, busVars
  <1>10. CASE FinalizeTransport
    BY <1>0, <1>10, FinalizedUnused DEF FinalizeTransport, FinAfter, Rotating, Remove,
          TypeOK, Locals, crVars, workload
  <1>11. CASE FinalizeNotifications
    BY <1>0, <1>11, UsedMain DEF FinalizeNotifications, FinAfter, Rotating, Remove,
          RefinementInv, RenderedInv, Sorted, crVars, workload
  <1>12. CASE DeleteNotificationsURL
    BY <1>0, <1>12 DEF DeleteNotificationsURL, crVars, workload
  <1>13. CASE PruneFinalizers
    BY <1>0, <1>13, KeptSecrets DEF PruneFinalizers, Prune, Kept, crVars, workload
  <1>15. CASE ReleaseSecrets
    BY <1>0, <1>15 DEF ReleaseSecrets, TypeOK, Locals, Deletion, DeleteSteps, crVars,
          workload
  <1>16. CASE PatchInstance
    BY <1>0, <1>16 DEF PatchInstance, NoLocals, workload
  <1>17. CASE StepFails
    BY <1>0, <1>17 DEF StepFails, TypeOK, Locals, crVars, workload
  <1>18. CASE Crash
    BY <1>0, <1>18 DEF Crash, NoLocals, crVars, workload
  <1>19. ASSUME NEW b \in Buses, IssueSecret(b) \/ RotateSecret(b) PROVE UsedHeld'
    BY <1>0, <1>19 DEF IssueSecret, RotateSecret, crVars, workload, reconcile
  <1>20. CASE ToggleNotifications \/ DeleteCR
    BY <1>0, <1>20 DEF ToggleNotifications, DeleteCR, workload, reconcile
  <1>21. CASE ObserveDeployment \/ StopPod
    BY <1>0, <1>21 DEF ObserveDeployment, StopPod, crVars, reconcile
  <1>22. config.main # NoSecret /\ Live => config.main \in fin
    BY DEF RefinementInv, RenderedInv, Uses
  <1>23. deploy.hash # NoConfig \/ pods # {} => config.main # NoSecret
    BY DEF RefinementInv, RotationInv, Working
  <1>24. CASE StartPod
    BY <1>0, <1>22, <1>23, <1>24 DEF StartPod, crVars, reconcile
  <1>25. CASE RestartPod
    <2>1. PICK p \in pods : pods' = (pods \ {p}) \cup {[p EXCEPT !.cfg = config]}
      BY <1>25 DEF RestartPod
    <2>2. \A q \in pods' : q \in pods \/ q.cfg = config
      BY <1>0, <2>1 DEF TypeOK, Pod
    <2> QED
      BY <1>0, <1>22, <1>23, <1>25, <2>2 DEF RestartPod, crVars, reconcile
  <1>26. CASE UNCHANGED vars
    BY <1>0, <1>26 DEF vars
  <1> QED
    BY <1>1, <1>2, <1>3, <1>4, <1>8, <1>10, <1>11, <1>12, <1>13, <1>15, <1>16, <1>17,
       <1>18, <1>19, <1>20, <1>21, <1>24, <1>25, <1>26 DEF Next, Reconcile, Rollout

LEMMA RefinementStep ==
    ASSUME RapidRotation = FALSE, RefinementInv, [Next]_vars
    PROVE  RefinementInv'
  BY RenderedStep, RotationStep, UsedHeldStep DEF RefinementInv

-----------------------------------------------------------------------------
(* The refinement.                                                         *)

(* A CR under deletion stays so: no step takes it back.                    *)
LEMMA DeletionStays ==
    ASSUME RefinementInv, [Next]_vars, ~Live
    PROVE  ~Live'
  BY DEF Next, Reconcile, ReconcileNew, ReconcileStart, ReconcileTransportURL,
         ManageTransport, EnsureNotifications, ManageNotifications, ReconcileConfig,
         ReconcileDeployment, CheckReady, FinalizeTransport, FinalizeNotifications,
         DeleteNotificationsURL, PruneFinalizers, CollectSecrets, ReleaseSecrets,
         PatchInstance, StepFails, Crash, IssueSecret, RotateSecret,
         ToggleNotifications, DeleteCR, Rollout, ObserveDeployment, StartPod, StopPod,
         RestartPod, Live, crVars, vars

(* Every step is a step of SecretConsumption, or leaves the mapped          *)
(* variables alone; after the deletion timestamp every step is.            *)
LEMMA ConsumptionStep ==
    ASSUME RefinementInv, RefinementInv', [Next]_vars
    PROVE  [Consumption!Next]_(Consumption!vars)
  <1>1. CASE ~Live
    <2>1. ~Live' /\ cr \in {"deleting", "gone"} /\ cr' \in {"deleting", "gone"}
      BY <1>1, DeletionStays DEF RefinementInv, RenderedInv, TypeOK, Live
    <2>2. /\ (fin \cap TransportSecrets)' \in SUBSET TransportSecrets
          /\ (config.main)' \in MainSecret
          /\ ({p.cfg.main : p \in pods})' \in SUBSET MainSecret
      BY DEF RefinementInv, RenderedInv, Sorted, RotationInv, TwoSecrets, Known, Tracked,
             Issued, MainSecret
    <2> QED
      BY <2>1, <2>2 DEF Consumption!Next, Consumption!Retired, MainSecret
  <1>2. CASE Live
    <2> DEFINE held == fin \cap TransportSecrets
               used == {p.cfg.main : p \in pods}
    <2> USE <1>2 DEF Consumption!vars, Live
    <2>0. /\ TypeOK /\ Sorted /\ Deletion /\ UsedHeld /\ InProgress
          /\ cr \notin {"deleting", "gone"} /\ ~loc.deleted
      BY DEF RefinementInv, RenderedInv, UsedHeld
    <2>1. CASE ManageTransport
      <3>1. loc.new \in TransportSecrets
        BY <2>0, <2>1 DEF ManageTransport, RefinementInv, RotationInv, Working, Sorted,
                          MainSecret
      <3>2. held' = held \cup {loc.new}
        BY <2>1, <3>1, SecretsAssumption DEF ManageTransport, Manage, Secrets
      <3> QED
        BY <2>0, <2>1, <3>1, <3>2
           DEF ManageTransport, crVars, workload, Consumption!Next, Consumption!Protect
    <2>2. CASE ReconcileConfig
      <3>1. CASE loc.new = NoSecret
        BY <2>2, <3>1 DEF ReconcileConfig, crVars, workload
      <3>2. CASE loc.new # NoSecret
        <4>1. config'.main = loc.new /\ loc.new \in held
          BY <2>0, <2>2, <3>2, StepSets
             DEF ReconcileConfig, Rendered, Sorted, MainSecret, InProgress
        <4> QED
          BY <2>0, <2>2, <4>1
             DEF ReconcileConfig, crVars, workload, Consumption!Next, Consumption!Render
      <3> QED
        BY <3>1, <3>2
    <2>3. CASE FinalizeTransport
      <3>1. /\ held' \in SUBSET held
            /\ held \ held' \subseteq TransportSecrets
                   \ (({config.main} \cup used) \ {NoSecret})
        <4>1. config.main = loc.new
          BY <2>0, <2>3, StepSets DEF FinalizeTransport, InProgress, Rendered
        <4>2. loc.ready => \A p \in pods : p.cfg.main = loc.new
          BY <2>3, FinalizedUnused DEF FinalizeTransport
        <4>3. \/ held' = held
              \/ loc.ready /\ inst.main # loc.new /\ held' = held \ {inst.main}
          BY <2>3 DEF FinalizeTransport, FinAfter, Rotating, Remove
        <4> QED
          BY <4>1, <4>2, <4>3
      <3> QED
        BY <2>3, <3>1
           DEF FinalizeTransport, crVars, workload, Consumption!Next,
               Consumption!Release, Consumption!Needed
    <2>4. CASE PruneFinalizers
      <3>1. config.main = loc.new
        BY <2>0, <2>4, StepSets DEF PruneFinalizers, InProgress, Rendered
      <3>2. \A p \in pods : p.cfg.main \in {inst.main, loc.new}
        BY <2>4, KeptSecrets DEF PruneFinalizers
      <3>3. /\ held' \in SUBSET held
            /\ held \ held' \subseteq TransportSecrets
                   \ (({config.main} \cup used) \ {NoSecret})
        BY <2>4, <3>1, <3>2 DEF PruneFinalizers, Prune, Kept
      <3> QED
        BY <2>0, <2>4, <3>3
           DEF PruneFinalizers, crVars, workload, Consumption!Next,
               Consumption!Release, Consumption!Needed
    <2>5. CASE StartPod \/ StopPod \/ RestartPod
      <3>1. used' \in SUBSET (used \cup {config.main})
        <4>1. CASE StartPod \/ StopPod
          BY <4>1 DEF StartPod, StopPod
        <4>2. CASE RestartPod
          <5>1. PICK p \in pods : pods' = (pods \ {p}) \cup {[p EXCEPT !.cfg = config]}
            BY <4>2 DEF RestartPod
          <5>2. \A q \in pods' : q \in pods \/ q.cfg = config
            BY <2>0, <5>1 DEF TypeOK, Pod
          <5> QED
            BY <5>2
        <4> QED
          BY <2>5, <4>1, <4>2
      <3> QED
        BY <2>0, <2>5, <3>1
           DEF StartPod, StopPod, RestartPod, crVars, Consumption!Next,
               Consumption!Load
    <2>6. CASE DeleteCR
      BY <2>0, <2>6
         DEF DeleteCR, workload, Consumption!Next, Consumption!Retire
    <2>7. CASE ManageNotifications \/ FinalizeNotifications
      <3>1. /\ loc.notif \notin TransportSecrets /\ loc.oldNotif \notin TransportSecrets
        BY <2>0, SecretsAssumption DEF Sorted, NotifSecret, Secrets
      <3>2. held' = held
        BY <2>7, <3>1 DEF ManageNotifications, FinalizeNotifications, Manage, FinAfter,
                          Remove
      <3> QED
        BY <2>7, <3>2 DEF ManageNotifications, FinalizeNotifications, crVars, workload
    <2>8. CASE ReconcileNew \/ PatchInstance
      BY <2>0, <2>8 DEF ReconcileNew, PatchInstance, workload
    <2>9. ASSUME UNCHANGED <<cr, fin, config, pods>> PROVE UNCHANGED Consumption!vars
      BY <2>9
    <2>10. ASSUME \/ ReconcileStart \/ ReconcileTransportURL \/ EnsureNotifications
                  \/ ReconcileDeployment \/ CheckReady \/ DeleteNotificationsURL
                  \/ CollectSecrets \/ StepFails \/ Crash \/ ToggleNotifications
                  \/ ObserveDeployment \/ UNCHANGED vars
                  \/ \E b \in Buses : IssueSecret(b) \/ RotateSecret(b)
           PROVE  UNCHANGED <<cr, fin, config, pods>>
      BY <2>10 DEF ReconcileStart, ReconcileTransportURL, EnsureNotifications,
         ReconcileDeployment, CheckReady, DeleteNotificationsURL, CollectSecrets,
         StepFails, Crash, ToggleNotifications, ObserveDeployment, IssueSecret,
         RotateSecret, crVars, workload, vars
    <2>11. ~ReleaseSecrets
      BY <2>0 DEF ReleaseSecrets, Deletion, DeleteSteps
    <2> QED
      BY <2>1, <2>2, <2>3, <2>4, <2>5, <2>6, <2>7, <2>8, <2>9, <2>10, <2>11
         DEF Next, Reconcile, Rollout
  <1> QED
    BY <1>1, <1>2

(* The controller never renders an unprotected transport Secret and never  *)
(* takes the finalizer off one that config-data or a running pod still     *)
(* holds, until the CR is deleted: for any Secrets, any number of crashes, *)
(* failed calls and toggles and any number of rotations, each of which     *)
(* starts when the last one is done.                                       *)
THEOREM ImplementsSecretConsumption ==
    ASSUME RapidRotation = FALSE
    PROVE  Spec => ImplementsConsumption
  <1>1. Init => Consumption!Init
    BY DEF Init, Consumption!Init, NoConfig
  <1>2. RefinementInv /\ RefinementInv' /\ [Next]_vars => [Consumption!Next]_(Consumption!vars)
    BY ConsumptionStep
  <1>3. RefinementInv /\ [Next]_vars => RefinementInv'
    BY RefinementStep
  <1> QED
    BY <1>1, <1>2, <1>3, RefinementInit, PTL DEF Spec, ImplementsConsumption, Consumption!Spec

LEMMA OnlyPatchWrites ==
    ASSUME [Next]_vars, status' # status
    PROVE  PatchInstance
  BY DEF Next, Reconcile, ReconcileNew, ReconcileStart, ReconcileTransportURL,
         ManageTransport, EnsureNotifications, ManageNotifications, ReconcileConfig,
         ReconcileDeployment, CheckReady, FinalizeTransport, FinalizeNotifications,
         DeleteNotificationsURL, PruneFinalizers, CollectSecrets, ReleaseSecrets,
         StepFails, Crash, IssueSecret, RotateSecret, ToggleNotifications, DeleteCR,
         Rollout, ObserveDeployment, StartPod, StopPod, RestartPod, crVars, vars

(* When the CR turns Ready every pod has loaded the transport Secret that  *)
(* Status.AppliedInputSecretHash was computed from.                        *)
THEOREM ReadyAppliesTheSecret ==
    ASSUME RapidRotation = FALSE
    PROVE  Spec => ReadyMeansApplied
  <1>1. ASSUME RefinementInv, [Next]_vars, status'.ready, ~status.ready
        PROVE  \A p \in pods : p.cfg.main = status'.applied.main
    <2>1. PatchInstance
      BY <1>1, OnlyPatchWrites
    <2> QED
      BY <1>1, <2>1 DEF PatchInstance, RefinementInv, RotationInv, ReadyIsRolledOut, AllOn
  <1>2. RefinementInv /\ [Next]_vars =>
           [status'.ready /\ ~status.ready =>
               \A p \in pods : p.cfg.main = status'.applied.main]_vars
    BY <1>1
  <1>3. RefinementInv /\ [Next]_vars => RefinementInv'
    BY RefinementStep
  <1> QED
    BY <1>2, <1>3, RefinementInit, PTL DEF Spec, ReadyMeansApplied

(* Status.TransportURLSecret moves on only when the last pod that had      *)
(* loaded the Secret it named is gone or has restarted.                    *)
THEOREM TrackedWhileUsed ==
    ASSUME RapidRotation = FALSE
    PROVE  Spec => TrackedUntilUnused
  <1>1. ASSUME RefinementInv, [Next]_vars, status'.main # status.main,
               status.main # NoSecret
        PROVE  \A p \in pods : p.cfg.main # status.main
    <2>1. PatchInstance
      BY <1>1, OnlyPatchWrites
    <2> QED
      BY <1>1, <2>1, PhaseSets
         DEF PatchInstance, RefinementInv, RotationInv, Tracking, Tracked, Issued, AllOn
  <1>2. RefinementInv /\ [Next]_vars =>
           [(status'.main # status.main /\ status.main # NoSecret)
               => \A p \in pods : p.cfg.main # status.main]_vars
    BY <1>1
  <1>3. RefinementInv /\ [Next]_vars => RefinementInv'
    BY RefinementStep
  <1> QED
    BY <1>2, <1>3, RefinementInit, PTL DEF Spec, TrackedUntilUnused

-----------------------------------------------------------------------------
(* Deletion.                                                               *)

(* Every finalizer is on a Secret that the status or a TransportURL names, *)
(* so reconcileDelete finds it.                                            *)
Accounted ==
    /\ fin \subseteq {Tracked, Issued, tu["notif"]}
    /\ \A b \in Buses : tu[b] # NoSecret => b \in tuExists
    /\ pc \in AfterFinalize /\ Tracked # NoSecret /\ inst.main # Tracked
           => Tracked \notin fin
    /\ pc = "manageNotif" => loc.notif = tu["notif"] /\ loc.notif # NoSecret
    /\ pc = "deleteNotifURL" => fin \cap NotifSecrets = {}

(* What is collected is all, and the CR goes only when all is released.    *)
Releasing ==
    /\ pc = "release" => fin \subseteq loc.release
    /\ loc.deleted => fin = {} /\ pc = "patch"
    /\ cr = "gone" => fin = {} /\ pc = "idle"

ReleaseInv == RefinementInv /\ Accounted /\ Releasing

LEMMA ReleaseInit == Init => ReleaseInv
  <1> SUFFICES ASSUME Init PROVE Accounted /\ Releasing
    BY RefinementInit DEF ReleaseInv
  <1>1. fin = {} /\ pc = "idle" /\ ~loc.deleted /\ tu = [b \in Buses |-> NoSecret]
    BY DEF Init, NoLocals
  <1> QED
    BY <1>1, PhaseSets DEF Accounted, Releasing

LEMMA ReleaseStep ==
    ASSUME RapidRotation = FALSE, \A s, t \in NotifSecrets : s = t,
           ReleaseInv, [Next]_vars
    PROVE  (Accounted /\ Releasing)'
  <1> USE PhaseSets DEF Accounted, Releasing, Tracked, Issued, Goto
  <1>0. /\ TypeOK /\ Sorted /\ RefinementInv /\ Accounted /\ Releasing /\ Tracking /\ TwoSecrets
    BY DEF ReleaseInv, RefinementInv, RenderedInv, RotationInv
  <1>1. CASE ReconcileNew \/ ToggleNotifications \/ DeleteCR
    BY <1>0, <1>1 DEF ReconcileNew, ToggleNotifications, DeleteCR, busVars, reconcile
  <1>2. CASE ReconcileStart
    BY <1>0, <1>2 DEF ReconcileStart, NoLocals, crVars, busVars
  <1>3. CASE ReconcileTransportURL
    BY <1>0, <1>3 DEF ReconcileTransportURL, TypeOK, Locals, crVars
  <1>4. CASE ManageTransport
    BY <1>0, <1>4 DEF ManageTransport, Manage, Tracking, TwoSecrets, Known, TypeOK,
          Status, crVars, busVars
  <1>5. CASE EnsureNotifications
    BY <1>0, <1>5 DEF EnsureNotifications, TypeOK, Status, Locals, Buses, crVars
  <1>6. CASE ManageNotifications
    BY <1>0, <1>6 DEF ManageNotifications, Manage, crVars, busVars
  <1>7. CASE ReconcileConfig
    BY <1>0, <1>7 DEF ReconcileConfig, Tracking, TypeOK, Status, Locals, crVars, busVars
  <1>8. CASE ReconcileDeployment
    BY <1>0, <1>8 DEF ReconcileDeployment, crVars, busVars
  <1>9. CASE CheckReady
    BY <1>0, <1>9 DEF CheckReady, TypeOK, Status, Locals, crVars, busVars
  <1>10. CASE FinalizeTransport
    BY <1>0, <1>10 DEF FinalizeTransport, FinAfter, TrackedAfter, Rotating, Remove,
          Tracking, TypeOK, Status, crVars, busVars
  <1>11. CASE FinalizeNotifications
    BY <1>0, <1>11, SecretsAssumption DEF FinalizeNotifications, FinAfter, Remove, Sorted,
          NotifSecret, TypeOK, Status, crVars, busVars
  <1>12. CASE DeleteNotificationsURL
    BY <1>0, <1>12, SecretsAssumption
       DEF DeleteNotificationsURL, TypeOK, Status, Sorted, NotifSecret, Secrets, Buses, crVars
  <1>13. CASE PruneFinalizers
    BY <1>0, <1>13 DEF PruneFinalizers, Prune, TypeOK, Status, crVars, busVars
  <1>14. CASE CollectSecrets
    BY <1>0, <1>14, SecretsAssumption DEF CollectSecrets, Tracking, TypeOK, Locals, Buses, crVars, busVars
  <1>15. CASE ReleaseSecrets
    BY <1>0, <1>15 DEF ReleaseSecrets, Remove, TypeOK, Locals, crVars, busVars
  <1>16. CASE PatchInstance
    <2>1. inst.main # Tracked => Tracked \notin fin
      BY <1>0, <1>16, SecretsAssumption DEF PatchInstance, TypeOK
    <2>2. fin \subseteq {inst.main, Issued, tu["notif"]}
      BY <1>0, <2>1
    <2> QED
      BY <1>0, <1>16, <2>2 DEF PatchInstance, NoLocals, busVars
  <1>17. CASE StepFails
    BY <1>0, <1>17 DEF StepFails, Tracking, NormalSteps, DeleteSteps, TypeOK, Status,
          Locals, crVars, busVars
  <1>18. CASE Crash
    BY <1>0, <1>18 DEF Crash, NoLocals, crVars, busVars
  <1>19. ASSUME NEW b \in Buses, IssueSecret(b) \/ RotateSecret(b)
         PROVE  (Accounted /\ Releasing)'
    <2>1. PICK s \in SecretsOf[b] : s # tu[b] /\ tu' = [tu EXCEPT ![b] = s]
      BY <1>19, TypeFacts, SecretsAssumption DEF IssueSecret, RotateSecret
    <2>2. /\ UNCHANGED <<cr, status, tuExists, fin, pc, inst, loc>>
          /\ b \in tuExists
          /\ tu[b] = NoSecret \/ tu[b] = status[b]
      BY <1>0, <1>19 DEF IssueSecret, RotateSecret, crVars, reconcile
    <2>3. CASE b = "main"
      <3>1. /\ tu'["main"] = s /\ tu'["notif"] = tu["notif"]
            /\ \A c \in Buses : tu'[c] # NoSecret => c \in tuExists
        BY <1>0, <2>1, <2>2, <2>3 DEF TypeOK, Buses
      <3>2. fin \subseteq {Tracked, tu'["main"], tu'["notif"]}
        BY <1>0, <2>2, <2>3, <3>1, SecretsAssumption DEF TypeOK
      <3> QED
        BY <1>0, <2>2, <3>1, <3>2
    <2>4. CASE b = "notif"
      <3>1. tu["notif"] = NoSecret
        BY <1>0, <2>1, <2>2, <2>4 DEF Sorted, NotifSecret, SecretsOf, Buses
      <3>2. /\ tu'["main"] = tu["main"]
            /\ \A c \in Buses : tu'[c] # NoSecret => c \in tuExists
        BY <1>0, <2>1, <2>2, <2>4 DEF TypeOK, Buses
      <3>3. fin \subseteq {Tracked, tu'["main"], tu'["notif"]} /\ pc # "manageNotif"
        BY <1>0, <3>1, <3>2, SecretsAssumption DEF TypeOK
      <3> QED
        BY <1>0, <2>2, <3>2, <3>3
    <2> QED
      BY <2>3, <2>4 DEF Buses
  <1>20. CASE Rollout \/ RestartPod
    BY <1>0, <1>20 DEF Rollout, ObserveDeployment, StartPod, StopPod, RestartPod, crVars,
          busVars, reconcile
  <1>21. CASE UNCHANGED vars
    BY <1>0, <1>21 DEF vars
  <1> QED
    BY <1>1, <1>2, <1>3, <1>4, <1>5, <1>6, <1>7, <1>8, <1>9, <1>10, <1>11, <1>12,
       <1>13, <1>14, <1>15, <1>16, <1>17, <1>18, <1>19, <1>20, <1>21
       DEF Next, Reconcile

(* A deleted CR leaves its finalizer on no Secret, whenever the deletion   *)
(* and the crashes come: provided the notifications Secret is not rotated, *)
(* for a rotation of that one may leave a Secret that nothing names.       *)
THEOREM DeletionReleasesAll ==
    ASSUME RapidRotation = FALSE, \A s, t \in NotifSecrets : s = t
    PROVE  Spec => []DeletedReleasesAll
  <1>1. ReleaseInv /\ [Next]_vars => ReleaseInv'
    BY RefinementStep, ReleaseStep DEF ReleaseInv
  <1>2. ReleaseInv => DeletedReleasesAll
    BY DEF ReleaseInv, Releasing, DeletedReleasesAll
  <1> QED
    BY ReleaseInit, <1>1, <1>2, PTL DEF Spec
=============================================================================
