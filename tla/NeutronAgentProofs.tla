--------------------------- MODULE NeutronAgentProofs ---------------------------
(***************************************************************************)
(* Proofs about NeutronAgent, for any sets of Secrets and any bounds: the  *)
(* type invariant, and that config-data never holds a Secret without the   *)
(* consumer finalizer.                                                     *)
(***************************************************************************)
EXTENDS NeutronAgent, TLAPS

MainSecret == TransportSecrets \cup {NoSecret}
NotifSecret == NotifSecrets \cup {NoSecret}

(* Every value of a type, spelled out once for the provers.                *)
LEMMA TypeFacts ==
    /\ NoStatus \in Status
    /\ NoLocals \in Locals
    /\ NoConfig \in Config
    /\ \A b \in Buses : SecretsOf[b] \subseteq Secrets
  BY DEF NoStatus, Status, NoLocals, Locals, NoConfig, Config, AnySecret,
         Secrets, SecretsOf, Buses

LEMMA SpendType ==
    ASSUME spent \in [rotations : Nat, toggles : Nat, faults : Nat],
           NEW bound \in {"rotations", "toggles", "faults"}, NEW limit,
           Spend(bound, limit)
    PROVE  spent' \in [rotations : Nat, toggles : Nat, faults : Nat]
  BY DEF Spend

(* The helpers of lib-common add no Secret but the one they are given.     *)
LEMMA ConsumerFacts ==
    ASSUME NEW f \in SUBSET Secrets, NEW s \in AnySecret, NEW t \in AnySecret,
           NEW ready \in BOOLEAN, NEW keep
    PROVE  /\ Manage(f, s) \in SUBSET Secrets
           /\ Remove(f, s) \in SUBSET Secrets
           /\ FinAfter(f, s, t, ready) \in SUBSET Secrets
           /\ TrackedAfter(s, t, ready) \in AnySecret
           /\ Prune(f, keep) \in SUBSET Secrets
  BY DEF Manage, Remove, FinAfter, TrackedAfter, Prune, AnySecret

LEMMA TypeInit == Init => TypeOK
  <1> SUFFICES ASSUME Init PROVE TypeOK
    OBVIOUS
  <1>1. tu \in [Buses -> AnySecret]
    BY DEF Init, AnySecret
  <1>2. deploy \in [hash : Config, observed : BOOLEAN]
    BY TypeFacts DEF Init
  <1> QED
    BY <1>1, <1>2, TypeFacts DEF Init, TypeOK, Steps, Buses

(* Every step keeps the types.                                             *)
LEMMA TypeStep == TypeOK /\ [Next]_vars => TypeOK'
  <1> SUFFICES ASSUME TypeOK, [Next]_vars PROVE TypeOK'
    OBVIOUS
  <1> USE TypeFacts
  <1>1. CASE ReconcileNew
    BY <1>1 DEF TypeOK, ReconcileNew, busVars, workload, reconcile
  <1>2. CASE ReconcileStart
    BY <1>2 DEF TypeOK, ReconcileStart, crVars, busVars, workload, Goto, Steps,
                NormalSteps, DeleteSteps, Status, Locals
  <1>3. CASE ReconcileTransportURL
    BY <1>3 DEF TypeOK, ReconcileTransportURL, crVars, workload, Goto, Steps,
                NormalSteps, Locals, Buses
  <1>4. CASE ManageTransport
    <2>1. loc.new \in AnySecret
      BY DEF TypeOK, Locals
    <2>2. fin' \in SUBSET Secrets
      BY <1>4, <2>1, ConsumerFacts DEF TypeOK, ManageTransport
    <2> QED
      BY <1>4, <2>1, <2>2 DEF TypeOK, ManageTransport, crVars, busVars, workload,
                              Goto, Steps, NormalSteps, Status
  <1>5. CASE EnsureNotifications
    BY <1>5 DEF TypeOK, EnsureNotifications, crVars, workload, Goto, Steps,
                NormalSteps, Status, Locals, Buses, AnySecret
  <1>6. CASE ManageNotifications
    <2>1. fin' \in SUBSET Secrets
      BY <1>6, ConsumerFacts DEF TypeOK, ManageNotifications, Locals
    <2> QED
      BY <1>6, <2>1 DEF TypeOK, ManageNotifications, crVars, busVars, workload,
                        Goto, Steps, NormalSteps
  <1>7. CASE ReconcileConfig
    <2>1. Rendered \in Config
      BY DEF TypeOK, Rendered, Locals, Config
    <2> QED
      BY <1>7, <2>1 DEF TypeOK, ReconcileConfig, crVars, busVars, workload, Goto,
                        Steps, NormalSteps, Status, Locals
  <1>8. CASE ReconcileDeployment
    BY <1>8 DEF TypeOK, ReconcileDeployment, crVars, busVars, Goto, Steps,
                NormalSteps, Status
  <1>9. CASE CheckReady
    <2>1. RolledOut(inst.hash) \in BOOLEAN
      BY DEF RolledOut, TypeOK
    <2> QED
      BY <1>9, <2>1 DEF TypeOK, CheckReady, crVars, busVars, workload, Goto, Steps,
                        NormalSteps, Status, Config, Locals
  <1>10. CASE FinalizeTransport
    <2>1. /\ inst.main \in AnySecret
          /\ loc.new \in AnySecret
          /\ loc.ready \in BOOLEAN
      BY DEF TypeOK, Status, Locals
    <2>2. /\ FinAfter(fin, inst.main, loc.new, loc.ready) \in SUBSET Secrets
          /\ TrackedAfter(inst.main, loc.new, loc.ready) \in AnySecret
      BY <2>1, ConsumerFacts DEF TypeOK
    <2> QED
      BY <1>10, <2>2 DEF TypeOK, FinalizeTransport, crVars, busVars, workload, Goto,
                         Steps, NormalSteps, Status
  <1>11. CASE FinalizeNotifications
    <2>1. /\ loc.oldNotif \in AnySecret
          /\ loc.notif \in AnySecret
          /\ loc.ready \in BOOLEAN
      BY DEF TypeOK, Locals
    <2>2. /\ FinAfter(fin, loc.oldNotif, loc.notif, loc.ready) \in SUBSET Secrets
          /\ Remove(fin, loc.oldNotif) \in SUBSET Secrets
          /\ TrackedAfter(loc.oldNotif, loc.notif, loc.ready) \in AnySecret
          /\ NoSecret \in AnySecret
      BY <2>1, ConsumerFacts DEF TypeOK, AnySecret
    <2>3. fin' \in SUBSET Secrets /\ inst' \in Status
      BY <1>11, <2>1, <2>2 DEF TypeOK, FinalizeNotifications, Status
    <2> QED
      BY <1>11, <2>3 DEF TypeOK, FinalizeNotifications, crVars, busVars, workload,
                         Goto, Steps, NormalSteps
  <1>12. CASE DeleteNotificationsURL
    BY <1>12 DEF TypeOK, DeleteNotificationsURL, crVars, workload, Goto, Steps,
                 NormalSteps, Status, Buses, AnySecret
  <1>13. CASE PruneFinalizers
    <2>1. (loc.ready /\ (loc.bus => loc.notif # NoSecret)) \in BOOLEAN
      OBVIOUS
    <2>2. Prune(fin, Kept) \in SUBSET Secrets
      BY DEF Prune, TypeOK
    <2> QED
      BY <1>13, <2>1, <2>2 DEF TypeOK, PruneFinalizers, crVars, busVars, workload,
                               Goto, Steps, Status
  <1>14. CASE CollectSecrets
    <2>1. {inst.main, inst.notif} \cup {tu[b] : b \in tuExists} \in SUBSET AnySecret
      BY DEF TypeOK, Status, Buses
    <2> QED
      BY <1>14, <2>1 DEF TypeOK, CollectSecrets, crVars, busVars, workload, Goto,
                         Steps, DeleteSteps, Locals
  <1>15. CASE ReleaseSecrets
    <2>1. fin' \in SUBSET Secrets
      BY <1>15 DEF TypeOK, ReleaseSecrets, Remove
    <2>2. loc' \in Locals
      <3>1. \A s : loc.release \ {s} \in SUBSET AnySecret
        BY DEF TypeOK, Locals
      <3>2. \A s : [loc EXCEPT !.release = @ \ {s}] \in Locals
        BY <3>1 DEF TypeOK, Locals
      <3>3. [loc EXCEPT !.deleted = TRUE] \in Locals
        BY DEF TypeOK, Locals
      <3> QED
        BY <1>15, <3>2, <3>3 DEF ReleaseSecrets
    <2> QED
      BY <1>15, <2>1, <2>2 DEF TypeOK, ReleaseSecrets, crVars, busVars, workload,
                               Goto, Steps
  <1>16. CASE PatchInstance
    BY <1>16 DEF TypeOK, PatchInstance, busVars, workload, Goto, Steps
  <1>17. CASE StepFails
    <2>1. inst' \in Status /\ loc' \in Locals
      BY <1>17 DEF TypeOK, StepFails, Status, Locals, AnySecret
    <2> QED
      BY <1>17, <2>1, SpendType DEF TypeOK, StepFails, crVars, busVars, workload,
                                    Goto, Steps
  <1>18. CASE Crash
    BY <1>18, SpendType DEF TypeOK, Crash, crVars, busVars, workload, Goto, Steps
  <1>19. ASSUME NEW b \in Buses, IssueSecret(b) PROVE TypeOK'
    <2>1. tu' \in [Buses -> AnySecret]
      BY <1>19 DEF TypeOK, IssueSecret, AnySecret
    <2> QED
      BY <1>19, <2>1 DEF TypeOK, IssueSecret, crVars, workload, reconcile
  <1>20. ASSUME NEW b \in Buses, RotateSecret(b) PROVE TypeOK'
    <2>1. tu' \in [Buses -> AnySecret]
      BY <1>20 DEF TypeOK, RotateSecret, AnySecret
    <2> QED
      BY <1>20, <2>1, SpendType DEF TypeOK, RotateSecret, crVars, workload, reconcile
  <1>21. CASE ToggleNotifications
    BY <1>21, SpendType DEF TypeOK, ToggleNotifications, busVars, workload, reconcile
  <1>22. CASE DeleteCR
    BY <1>22 DEF TypeOK, DeleteCR, busVars, workload, reconcile
  <1>23. CASE Rollout
    <2>1. CASE ObserveDeployment
      BY <1>23, <2>1 DEF TypeOK, ObserveDeployment, crVars, busVars, reconcile
    <2>2. CASE StartPod
      <3>1. [hash |-> deploy.hash, cfg |-> config] \in Pod
        BY DEF TypeOK, Pod
      <3> QED
        BY <2>2, <3>1 DEF TypeOK, StartPod, crVars, busVars, reconcile
    <2>3. CASE StopPod
      BY <2>3 DEF TypeOK, StopPod, crVars, busVars, reconcile
    <2> QED
      BY <1>23, <2>1, <2>2, <2>3 DEF Rollout
  <1>24. CASE RestartPod
    <2>1. \A p \in pods : [p EXCEPT !.cfg = config] \in Pod
      BY DEF TypeOK, Pod
    <2>2. pods' \in SUBSET Pod
      BY <1>24, <2>1 DEF TypeOK, RestartPod
    <2> QED
      BY <1>24, <2>2 DEF TypeOK, RestartPod, crVars, busVars, reconcile
  <1>25. CASE UNCHANGED vars
    BY <1>25 DEF TypeOK, vars
  <1> QED
    BY <1>1, <1>2, <1>3, <1>4, <1>5, <1>6, <1>7, <1>8, <1>9, <1>10, <1>11, <1>12,
       <1>13, <1>14, <1>15, <1>16, <1>17, <1>18, <1>19, <1>20, <1>21, <1>22, <1>23,
       <1>24, <1>25 DEF Next, Reconcile

(* Every variable keeps its type, whatever the constants: no step builds a *)
(* status, a copy of it or a finalizer on a name that is not a Secret's.   *)
THEOREM TypeCorrect == Spec => []TypeOK
  BY TypeInit, TypeStep, PTL DEF Spec

-----------------------------------------------------------------------------
(* RenderedProtected by an inductive invariant.                            *)

(* Each name is a Secret of its own bus, so releasing the old Secret of    *)
(* one bus cannot hit what is rendered for the other.                      *)
Sorted ==
    /\ tu["main"] \in MainSecret /\ tu["notif"] \in NotifSecret
    /\ status.main \in MainSecret /\ status.notif \in NotifSecret
    /\ inst.main \in MainSecret /\ inst.notif \in NotifSecret
    /\ loc.new \in MainSecret /\ loc.notif \in NotifSecret
    /\ loc.oldNotif \in NotifSecret

AfterConfig == {"deployment", "ready", "finalize", "finalizeNotif",
                "deleteNotifURL", "prune"}
AfterNotif == AfterConfig \cup {"config"}
AfterManage == AfterNotif \cup {"notif", "manageNotif"}

(* What the reconcile in progress has done so far: a Secret is protected   *)
(* from the step that reads its name to the end, and it is config-data of  *)
(* these Secrets that the steps after the rendering work with.             *)
InProgress ==
    /\ pc = "transport" => loc.notif = NoSecret
    /\ pc \in AfterManage => loc.new \in fin \cup {NoSecret}
    /\ pc \in AfterNotif => loc.notif \in fin \cup {NoSecret}
    /\ pc \in AfterConfig => config = Rendered

(* Only a CR that is being deleted is past the protection of its Secrets.  *)
Live == cr \in {"new", "active"}
Deletion == pc \in DeleteSteps => ~Live

RenderedInv ==
    /\ TypeOK /\ Sorted /\ Deletion
    /\ Live => Uses(config) \subseteq fin /\ InProgress

LEMMA SortedInit == Init => Sorted
  BY DEF Init, Sorted, MainSecret, NotifSecret, NoStatus, NoLocals, Buses

(* No step moves a name from one bus to the other.                         *)
LEMMA SortedStep == TypeOK /\ Sorted /\ [Next]_vars => Sorted'
  <1> SUFFICES ASSUME TypeOK, Sorted, [Next]_vars PROVE Sorted'
    OBVIOUS
  <1>0. /\ NoSecret \in MainSecret /\ NoSecret \in NotifSecret
        /\ NoStatus.main = NoSecret /\ NoStatus.notif = NoSecret
        /\ NoLocals.new = NoSecret /\ NoLocals.notif = NoSecret
        /\ NoLocals.oldNotif = NoSecret
    BY DEF MainSecret, NotifSecret, NoStatus, NoLocals
  <1> USE <1>0 DEF Sorted
  <1>1. CASE ReconcileNew
    BY <1>1 DEF ReconcileNew, busVars, reconcile
  <1>2. CASE ReconcileStart
    BY <1>2 DEF ReconcileStart, TypeOK, Status, Locals, NoLocals, crVars, busVars
  <1>3. CASE ReconcileTransportURL
    BY <1>3 DEF ReconcileTransportURL, TypeOK, Locals, crVars
  <1>4. CASE ManageTransport
    BY <1>4 DEF ManageTransport, TypeOK, Status, crVars, busVars
  <1>5. CASE EnsureNotifications
    BY <1>5 DEF EnsureNotifications, TypeOK, Status, Locals, crVars
  <1>6. CASE ManageNotifications
    BY <1>6 DEF ManageNotifications, crVars, busVars
  <1>7. CASE ReconcileConfig
    BY <1>7 DEF ReconcileConfig, TypeOK, Status, Locals, crVars, busVars
  <1>8. CASE ReconcileDeployment
    BY <1>8 DEF ReconcileDeployment, crVars, busVars
  <1>9. CASE CheckReady
    BY <1>9 DEF CheckReady, TypeOK, Status, Locals, crVars, busVars
  <1>10. CASE FinalizeTransport
    BY <1>10 DEF FinalizeTransport, TrackedAfter, TypeOK, Status, crVars, busVars
  <1>11. CASE FinalizeNotifications
    BY <1>11 DEF FinalizeNotifications, TrackedAfter, TypeOK, Status, crVars, busVars
  <1>12. CASE DeleteNotificationsURL
    BY <1>12 DEF DeleteNotificationsURL, TypeOK, Status, Buses, crVars
  <1>13. CASE PruneFinalizers
    BY <1>13 DEF PruneFinalizers, TypeOK, Status, crVars, busVars
  <1>14. CASE CollectSecrets
    BY <1>14 DEF CollectSecrets, TypeOK, Locals, crVars, busVars
  <1>15. CASE ReleaseSecrets
    BY <1>15 DEF ReleaseSecrets, TypeOK, Locals, crVars, busVars
  <1>16. CASE PatchInstance
    BY <1>16 DEF PatchInstance, busVars
  <1>17. CASE StepFails
    BY <1>17 DEF StepFails, TypeOK, Status, Locals, crVars, busVars
  <1>18. CASE Crash
    BY <1>18 DEF Crash, crVars, busVars
  <1>19. ASSUME NEW b \in Buses, IssueSecret(b) \/ RotateSecret(b) PROVE Sorted'
    <2>1. PICK s \in SecretsOf[b] : tu' = [tu EXCEPT ![b] = s]
      BY <1>19 DEF IssueSecret, RotateSecret
    <2>2. tu'["main"] \in MainSecret /\ tu'["notif"] \in NotifSecret
      BY <2>1 DEF TypeOK, Buses, SecretsOf, MainSecret, NotifSecret
    <2> QED
      BY <1>19, <2>2 DEF IssueSecret, RotateSecret, crVars, reconcile
  <1>20. CASE ToggleNotifications
    BY <1>20 DEF ToggleNotifications, busVars, reconcile
  <1>21. CASE DeleteCR
    BY <1>21 DEF DeleteCR, busVars, reconcile
  <1>22. CASE Rollout \/ RestartPod
    BY <1>22 DEF Rollout, ObserveDeployment, StartPod, StopPod, RestartPod, crVars,
                 busVars, reconcile
  <1>23. CASE UNCHANGED vars
    BY <1>23 DEF vars
  <1> QED
    BY <1>1, <1>2, <1>3, <1>4, <1>5, <1>6, <1>7, <1>8, <1>9, <1>10, <1>11, <1>12,
       <1>13, <1>14, <1>15, <1>16, <1>17, <1>18, <1>19, <1>20, <1>21, <1>22, <1>23
       DEF Next, Reconcile

(* The four sets of steps, as the provers need them.                       *)
LEMMA StepSets ==
    /\ AfterConfig \subseteq AfterNotif /\ AfterNotif \subseteq AfterManage
    /\ AfterConfig = {"deployment", "ready", "finalize", "finalizeNotif",
                      "deleteNotifURL", "prune"}
    /\ {"idle", "patch", "transport", "manage", "collect", "release"}
            \cap AfterManage = {}
    /\ AfterManage \ AfterNotif = {"notif", "manageNotif"}
    /\ AfterNotif \ AfterConfig = {"config"}
    /\ DeleteSteps = {"collect", "release"}
  BY DEF AfterConfig, AfterNotif, AfterManage, DeleteSteps

LEMMA RenderedInit == Init => RenderedInv
  <1> SUFFICES ASSUME Init PROVE RenderedInv
    OBVIOUS
  <1>1. pc = "idle" /\ Uses(config) = {}
    BY DEF Init, Uses, NoConfig
  <1> QED
    BY <1>1, TypeInit, SortedInit, StepSets DEF RenderedInv, Deletion, InProgress

(* Removing a Secret that is not rendered leaves the invariant in place.    *)
LEMMA ReleaseUnused ==
    ASSUME RenderedInv, Live, pc \in AfterConfig, NEW old \in AnySecret,
           \/ old \in MainSecret /\ old # loc.new
           \/ old \in NotifSecret /\ old # loc.notif
    PROVE  /\ Uses(config) \subseteq Remove(fin, old)
           /\ loc.new \in Remove(fin, old) \cup {NoSecret}
           /\ loc.notif \in Remove(fin, old) \cup {NoSecret}
  <1>1. /\ config = Rendered /\ Uses(config) \subseteq fin
        /\ loc.new \in fin \cup {NoSecret} /\ loc.notif \in fin \cup {NoSecret}
    BY StepSets DEF RenderedInv, InProgress
  <1>2. /\ loc.new \in MainSecret /\ loc.notif \in NotifSecret
        /\ MainSecret \cap NotifSecret = {NoSecret}
    BY SecretsAssumption DEF RenderedInv, Sorted, MainSecret, NotifSecret, Secrets
  <1>3. Uses(config) \subseteq {loc.new, loc.notif} \ {NoSecret}
    BY <1>1 DEF Uses, Rendered
  <1>4. old \notin {loc.new, loc.notif} \ {NoSecret}
    BY <1>2
  <1> QED
    BY <1>1, <1>3, <1>4 DEF Remove

LEMMA RenderedStep == RenderedInv /\ [Next]_vars => RenderedInv'
  <1> SUFFICES ASSUME RenderedInv, [Next]_vars
      PROVE  Deletion' /\ (Live' => (Uses(config) \subseteq fin /\ InProgress)')
    BY TypeStep, SortedStep DEF RenderedInv
  <1> USE StepSets DEF RenderedInv, Deletion, Goto
  <1>1. CASE ReconcileNew
    BY <1>1 DEF ReconcileNew, Live, reconcile, InProgress
  <1>2. CASE ReconcileStart
    BY <1>2 DEF ReconcileStart, NoLocals, Live, InProgress, crVars
  <1>3. CASE ReconcileTransportURL
    BY <1>3 DEF ReconcileTransportURL, TypeOK, Locals, Live, InProgress, crVars
  <1>4. CASE ManageTransport
    BY <1>4 DEF ManageTransport, Manage, Live, InProgress, crVars
  <1>5. CASE EnsureNotifications
    BY <1>5 DEF EnsureNotifications, TypeOK, Locals, Live, InProgress, crVars
  <1>6. CASE ManageNotifications
    BY <1>6 DEF ManageNotifications, Manage, Live, InProgress, crVars
  <1>7. CASE ReconcileConfig
    BY <1>7 DEF ReconcileConfig, Rendered, Uses, TypeOK, Locals, Live, InProgress, crVars
  <1>8. CASE ReconcileDeployment
    BY <1>8 DEF ReconcileDeployment, Rendered, Live, InProgress, crVars
  <1>9. CASE CheckReady
    BY <1>9 DEF CheckReady, Rendered, TypeOK, Locals, Live, InProgress, crVars
  <1>10. CASE FinalizeTransport
    BY <1>10, ReleaseUnused
       DEF FinalizeTransport, FinAfter, Rotating, Rendered, Sorted, MainSecret,
           AnySecret, Secrets, Live, InProgress, crVars
  <1>11. CASE FinalizeNotifications
    BY <1>11, ReleaseUnused
       DEF FinalizeNotifications, FinAfter, Rotating, Rendered, Sorted, NotifSecret,
           AnySecret, Secrets, Live, InProgress, crVars
  <1>12. CASE DeleteNotificationsURL
    BY <1>12 DEF DeleteNotificationsURL, Rendered, Live, InProgress, crVars
  <1>13. CASE PruneFinalizers
    BY <1>13 DEF PruneFinalizers, Prune, Kept, Rendered, Uses, Live, InProgress, crVars
  <1>14. CASE CollectSecrets
    BY <1>14 DEF CollectSecrets, Live, crVars
  <1>15. CASE ReleaseSecrets
    BY <1>15 DEF ReleaseSecrets, Live, crVars
  <1>16. CASE PatchInstance
    BY <1>16 DEF PatchInstance, Live, InProgress
  <1>17. CASE StepFails
    BY <1>17 DEF StepFails, Live, InProgress, crVars
  <1>18. CASE Crash
    BY <1>18 DEF Crash, Live, InProgress, crVars
  <1>19. CASE ToggleNotifications
    BY <1>19 DEF ToggleNotifications, Rendered, reconcile, Live, InProgress
  <1>20. CASE DeleteCR
    BY <1>20 DEF DeleteCR, reconcile, Live
  <1>21. CASE UNCHANGED <<cr, fin, config, reconcile>>
    BY <1>21 DEF Rendered, reconcile, Live, InProgress, Uses
  <1>22. CASE UNCHANGED vars
    BY <1>21, <1>22 DEF vars, reconcile
  <1>23. ASSUME NEW b \in Buses, IssueSecret(b) \/ RotateSecret(b)
         PROVE  UNCHANGED <<cr, fin, config, reconcile>>
    BY <1>23 DEF IssueSecret, RotateSecret, crVars
  <1>24. ASSUME Rollout \/ RestartPod PROVE UNCHANGED <<cr, fin, config, reconcile>>
    BY <1>24 DEF Rollout, ObserveDeployment, StartPod, StopPod, RestartPod, crVars
  <1> QED
    BY <1>1, <1>2, <1>3, <1>4, <1>5, <1>6, <1>7, <1>8, <1>9, <1>10, <1>11, <1>12,
       <1>13, <1>14, <1>15, <1>16, <1>17, <1>18, <1>19, <1>20, <1>21, <1>22, <1>23,
       <1>24 DEF Next, Reconcile

(* config-data of a CR that is not being deleted never holds a Secret      *)
(* without the consumer finalizer: a pod may (re)start between any two     *)
(* steps of a reconcile, after a crash or a failed call, during any number *)
(* of overlapping rotations, and loads only protected Secrets.             *)
THEOREM RenderedAlwaysProtected == Spec => []RenderedProtected
  <1>1. RenderedInv => RenderedProtected
    BY DEF RenderedInv, RenderedProtected, Live
  <1> QED
    BY RenderedInit, RenderedStep, <1>1, PTL DEF Spec
=============================================================================
