----------------------------- MODULE IronicProofs -----------------------------
(***************************************************************************)
(* Proofs about Ironic, for any sets of Secrets, any number of conductors  *)
(* and any bounds.                                                         *)
(***************************************************************************)
EXTENDS Ironic, SequenceTheorems, TLAPS

(* The parent has an IronicAPI, and its loop is over its sub-CRs.          *)
LEMMA ChildFacts ==
    /\ Len(SubCRs) \in Nat \ {0}
    /\ \A i \in 1 .. Len(SubCRs) : SubCRs[i] \in Children
    /\ \A c \in Children : \E i \in 1 .. Len(SubCRs) : SubCRs[i] = c
    /\ Services \subseteq Children
    /\ "api" \in Services
  <1> DEFINE Name == STRING \cup {"api", "inspector", "agent"}
             one == Conductors \o <<"api">>
             two == one \o If(Inspector, "inspector")
  <1> HIDE DEF Name
  <1>1. /\ Conductors \in Seq(Name) /\ <<"api">> \in Seq(Name)
        /\ If(Inspector, "inspector") \in Seq(Name) /\ If(Agent, "agent") \in Seq(Name)
    <2>1. \A s \in Name : <<s>> \in Seq(Name) /\ <<>> \in Seq(Name)
      OBVIOUS
    <2>2. {"api", "inspector", "agent"} \subseteq Name /\ STRING \subseteq Name
      BY DEF Name
    <2>3. If(Inspector, "inspector") \in Seq(Name) /\ If(Agent, "agent") \in Seq(Name)
      BY <2>1, <2>2 DEF If
    <2>4. Conductors \in Seq(Name)
      BY <2>2, SeqMonotonic, ChildrenAssumption
    <2> QED
      BY <2>1, <2>2, <2>3, <2>4
  <1>2. /\ one \in Seq(Name) /\ Len(one) = Len(Conductors) + 1
        /\ one[Len(Conductors) + 1] = "api"
    BY <1>1, ConcatProperties
  <1>3. two \in Seq(Name) /\ Len(two) >= Len(one) /\ two[Len(Conductors) + 1] = "api"
    BY <1>1, <1>2, ConcatProperties
  <1>4. SubCRs = two \o If(Agent, "agent")
    BY DEF SubCRs
  <1>5. /\ Len(SubCRs) \in Nat /\ Len(SubCRs) >= Len(two)
        /\ SubCRs[Len(Conductors) + 1] = "api"
    BY <1>1, <1>2, <1>3, <1>4, ConcatProperties
  <1>6. Len(Conductors) + 1 \in 1 .. Len(SubCRs)
    BY <1>1, <1>2, <1>3, <1>5
  <1> QED
    BY <1>5, <1>6 DEF Children, Services

-----------------------------------------------------------------------------
(* Types.                                                                  *)

Key == {"main", "notif", "ac", "iac"}

LEMMA SecretFacts ==
    /\ DOMAIN SecretsOf = Key
    /\ SecretsOf["main"] = TransportSecrets /\ SecretsOf["notif"] = NotifSecrets
    /\ SecretsOf["ac"] = ACSecrets /\ SecretsOf["iac"] = InspectorACSecrets
    /\ Secrets = TransportSecrets \cup NotifSecrets \cup ACSecrets \cup InspectorACSecrets
  <1>1. DOMAIN SecretsOf = Key
    BY DEF SecretsOf, Key
  <1>2. /\ SecretsOf["main"] = TransportSecrets /\ SecretsOf["notif"] = NotifSecrets
        /\ SecretsOf["ac"] = ACSecrets /\ SecretsOf["iac"] = InspectorACSecrets
    BY DEF SecretsOf
  <1> QED
    BY <1>1, <1>2 DEF Secrets, Key

(* The four kinds of Secrets are disjoint, and no name is empty.           *)
LEMMA Disjoint ==
    /\ NoSecret \notin Secrets /\ NoBus \notin Secrets
    /\ TransportSecrets \cap NotifSecrets = {} /\ TransportSecrets \cap ACSecrets = {}
    /\ TransportSecrets \cap InspectorACSecrets = {} /\ NotifSecrets \cap ACSecrets = {}
    /\ NotifSecrets \cap InspectorACSecrets = {} /\ ACSecrets \cap InspectorACSecrets = {}
  BY SecretFacts, SecretsAssumption DEF Key

(* Every value of a type, spelled out once for the provers.                *)
LEMMA TypeFacts ==
    /\ NoSecret \in AnySecret /\ NoInputs \in Inputs /\ NoHash \in InputHash
    /\ NoStatus \in Status /\ NoLocals \in Locals
    /\ NoSubCR \in SubCR /\ NoRun \in SubRun
  <1>1. NoSecret \in AnySecret
    BY DEF AnySecret
  <1>2. NoInputs \in Inputs
    BY <1>1 DEF NoInputs, Inputs
  <1>3. NoHash \in InputHash
    BY <1>2 DEF NoHash, InputHash
  <1>4. NoStatus \in Status
    BY <1>1, <1>2 DEF NoStatus, Status
  <1>5. NoLocals \in Locals
    BY <1>1 DEF NoLocals, Locals, UserSpec
  <1>6. NoSubCR \in SubCR
    BY <1>2, <1>3 DEF NoSubCR, SubCR
  <1>7. NoRun \in SubRun
    BY <1>2, <1>3 DEF NoRun, SubRun
  <1> QED
    BY <1>1, <1>2, <1>3, <1>4, <1>5, <1>6, <1>7

(* The helpers of lib-common add no Secret but the one they are given.     *)
LEMMA ConsumerFacts ==
    ASSUME NEW f \in SUBSET Secrets, NEW s \in AnySecret, NEW t \in AnySecret,
           NEW ready \in BOOLEAN, NEW keep
    PROVE  /\ Manage(f, s) \in SUBSET Secrets
           /\ Remove(f, s) \in SUBSET Secrets
           /\ FinAfter(f, s, t, ready) \in SUBSET Secrets
           /\ TrackedAfter(s, t, ready) \in AnySecret
           /\ Prune(f, keep) \in SUBSET Secrets
  BY DEF Manage, Remove, FinAfter, TrackedAfter, Prune, AnySecret

SpentType == [rotations : Nat, edits : Nat, rpc : Nat, faults : Nat]
LEMMA SpendType ==
    ASSUME spent \in SpentType, NEW bound \in {"rotations", "edits", "rpc", "faults"},
           NEW limit, Spend(bound, limit)
    PROVE  spent' \in SpentType
  BY DEF Spend, SpentType

(* The type invariant in its parts, with one more fact: the loop over the  *)
(* sub-CRs is at one of them.                                              *)
CRType ==
    /\ cr \in {"new", "active", "deleting", "gone"}
    /\ spec \in UserSpec /\ status \in Status
    /\ tu \in [Buses -> AnySecret] /\ tuExists \in SUBSET Buses
    /\ fin \in SUBSET Secrets /\ config \in Inputs
    /\ job \in {"none", "running", "done"}
ReconcileType ==
    /\ pc \in Steps /\ inst \in Status /\ loc \in Locals
    /\ pc \in {"transport", "notif", "config", "dbsync"} => loc.next = 1
    /\ pc = "children" => loc.next \in 1 .. Len(SubCRs)
SubsType ==
    /\ sub \in [Children -> SubCR] /\ run \in [Children -> SubRun]
    /\ deploy \in [Children -> InputHash] /\ pods \in [Children -> SUBSET Pod]
QueueType == queue \in SUBSET (Children \cup {"ironic"})

TypeInv == CRType /\ ReconcileType /\ SubsType /\ QueueType /\ spent \in SpentType

LEMMA TypeParts == TypeInv => TypeOK
  BY DEF TypeInv, TypeOK, CRType, ReconcileType, SubsType, QueueType, SpentType

(* The starting state of a settled deployment, by its parts.               *)
LEMMA InstalledType ==
    ASSUME spec \in UserSpec, NEW in \in Inputs,
           in.main # NoBus, InitInstalled(in)
    PROVE  /\ status \in Status /\ tu \in [Buses -> AnySecret] /\ tuExists \in SUBSET Buses
           /\ fin \in SUBSET Secrets /\ config \in Inputs
           /\ sub \in [Children -> SubCR] /\ deploy \in [Children -> InputHash]
           /\ pods \in [Children -> SUBSET Pod]
  <1> DEFINE used(c) == CASE c \in Services -> in
                          [] c = "agent" -> [NoInputs EXCEPT !.main = NoBus, !.ac = spec.ac]
                          [] c = "inspector" -> [NoInputs EXCEPT !.main = NoBus, !.ac = spec.iac]
             own(c) == [used(c) EXCEPT !.notif = NoSecret]
             hash(c) == [own |-> own(c), parent |-> IF c \in Services THEN in ELSE NoInputs]
  <1>1. spec.ac \in AnySecret /\ spec.iac \in AnySecret /\ in.main \in AnySecret
    BY SecretFacts, TypeFacts DEF UserSpec, AnySecret, Inputs
  <1>2. \A c \in Children : used(c) \in Inputs
    <2> SUFFICES ASSUME NEW c \in Children PROVE used(c) \in Inputs
      OBVIOUS
    <2>1. c \in Services \/ c = "agent" \/ c = "inspector"
      BY DEF Services
    <2>2. /\ [NoInputs EXCEPT !.main = NoBus, !.ac = spec.ac] \in Inputs
          /\ [NoInputs EXCEPT !.main = NoBus, !.ac = spec.iac] \in Inputs
      BY <1>1, TypeFacts DEF NoInputs, Inputs
    <2> QED
      BY <2>1, <2>2 DEF Services
  <1> HIDE DEF used
  <1>3. \A c \in Children : own(c) \in Inputs
    BY <1>2, TypeFacts DEF Inputs
  <1> HIDE DEF own
  <1>4. \A c \in Children : hash(c) \in InputHash
    BY <1>3, TypeFacts DEF InputHash
  <1> HIDE DEF hash
  <1>5. /\ sub = [c \in Children |->
                     [stage |-> "known", spec |-> used(c), observed |-> TRUE,
                      hash |-> hash(c), applied |-> used(c), ready |-> TRUE,
                      config |-> own(c)]]
        /\ deploy = [c \in Children |-> hash(c)]
        /\ pods = [c \in Children |-> {[hash |-> hash(c), cfg |-> own(c)]}]
    BY DEF InitInstalled, used, own, hash
  <1>6. sub \in [Children -> SubCR] /\ deploy \in [Children -> InputHash]
        /\ pods \in [Children -> SUBSET Pod]
    BY <1>2, <1>3, <1>4, <1>5 DEF SubCR, Pod
  <1>7. status \in Status
    BY <1>1 DEF InitInstalled, Status, Inputs
  <1>8. /\ tu \in [Buses -> AnySecret] /\ tuExists \in SUBSET Buses /\ config \in Inputs
    BY <1>1 DEF InitInstalled, Buses, Inputs
  <1>9. fin \in SUBSET Secrets
    BY <1>1 DEF InitInstalled, AnySecret, Inputs
  <1> QED
    BY <1>6, <1>7, <1>8, <1>9

LEMMA TypeInit == Init => TypeInv
  <1> SUFFICES ASSUME Init PROVE TypeInv
    OBVIOUS
  <1>1. spec \in UserSpec
    BY DEF Init
  <1>2. run \in [Children -> SubRun] /\ inst \in Status /\ loc \in Locals
    BY TypeFacts DEF Init
  <1>3. spent \in [rotations : Nat, edits : Nat, rpc : Nat, faults : Nat]
    BY DEF Init
  <1>4. pc = "idle"
    BY DEF Init
  <1>5. CASE InitNew
    <2>1. /\ status \in Status /\ config \in Inputs /\ fin \in SUBSET Secrets
          /\ tu \in [Buses -> AnySecret] /\ tuExists \in SUBSET Buses
      BY <1>5, TypeFacts DEF InitNew
    <2>2. /\ sub \in [Children -> SubCR] /\ deploy \in [Children -> InputHash]
          /\ pods \in [Children -> SUBSET Pod]
      BY <1>5, TypeFacts DEF InitNew
    <2> QED
      BY <1>1, <1>2, <1>3, <1>4, <1>5, <2>1, <2>2
         DEF InitNew, TypeInv, CRType, ReconcileType, SubsType, QueueType, SpentType, Steps
  <1>6. CASE ~ InitNew
    <2>1. PICK m \in TransportSecrets, n \in NotifSecrets \cup {NoSecret} :
              InitInstalled([main |-> m, notif |-> n, ac |-> spec.ac])
      BY <1>6 DEF Init
    <2> DEFINE in == [main |-> m, notif |-> n, ac |-> spec.ac]
    <2>2. in \in Inputs /\ in.main # NoBus
      BY <1>1, SecretFacts, Disjoint DEF Inputs, AnySecret, UserSpec
    <2>3. /\ status \in Status /\ tu \in [Buses -> AnySecret] /\ tuExists \in SUBSET Buses
          /\ fin \in SUBSET Secrets /\ config \in Inputs
          /\ sub \in [Children -> SubCR] /\ deploy \in [Children -> InputHash]
          /\ pods \in [Children -> SUBSET Pod]
      <3> HIDE DEF in
      <3> InitInstalled(in)
        BY <2>1 DEF in
      <3> QED
        BY <1>1, <2>2, InstalledType
    <2>4. cr = "active" /\ job = "done" /\ queue = {}
      BY <2>1 DEF InitInstalled
    <2> QED
      BY <1>1, <1>2, <1>3, <1>4, <2>3, <2>4 
         DEF TypeInv, CRType, ReconcileType, SubsType, QueueType, SpentType, Steps
  <1> QED
    BY <1>5, <1>6

(* The spec the parent gives a sub-CR names its Secrets.                   *)
LEMMA SubSpecType ==
    ASSUME TypeOK, NEW c PROVE SubSpec(c) \in Inputs /\ Rendered \in Inputs
  <1>1. /\ loc.main \in AnySecret /\ loc.notif \in AnySecret /\ inst.notif \in AnySecret
        /\ loc.spec.ac \in AnySecret /\ loc.spec.iac \in AnySecret
    BY SecretFacts DEF TypeOK, Locals, Status, UserSpec, AnySecret
  <1>2. MainInput \in AnySecret \cup {NoBus}
    BY <1>1 DEF MainInput
  <1>3. ServiceSpec \in Inputs /\ Rendered \in Inputs
    BY <1>1, <1>2 DEF ServiceSpec, Rendered, Inputs
  <1>4. AgentSpec(c) \in Inputs
    BY <1>1, TypeFacts DEF AgentSpec, NoInputs, Inputs
  <1> QED
    BY <1>3, <1>4 DEF SubSpec

LEMMA SubRenderedType ==
    ASSUME TypeOK, NEW c \in Children
    PROVE  SubRendered(c) \in Inputs /\ SubHash(c) \in InputHash
  <1>1. run[c].snap \in Inputs
    BY DEF TypeOK, SubRun
  <1>2. SubRendered(c) \in Inputs
    BY <1>1, TypeFacts DEF SubRendered, Inputs
  <1> QED
    BY <1>2, TypeFacts DEF SubHash, InputHash, TypeOK

LEMMA EnqueueType ==
    ASSUME QueueType, NEW crs \in SUBSET (Children \cup {"ironic"}), Enqueue(crs)
    PROVE  QueueType'
  BY DEF QueueType, Enqueue

(* The parent's steps up to the sub-CRs keep the types.                    *)
LEMMA TypeFirstSteps ==
    ASSUME TypeInv,
           \/ ReconcileNew \/ ReconcileStart \/ ReconcileTransport
           \/ ReconcileNotifications \/ ReconcileConfig \/ ReconcileUpgrade
    PROVE  TypeInv'
  <1> CRType /\ ReconcileType /\ SubsType /\ QueueType /\ spent \in SpentType /\ TypeOK
    BY TypeParts DEF TypeInv
  <1> USE TypeFacts
  <1>a. /\ loc.main \in AnySecret /\ loc.spec \in UserSpec
        /\ loc.spec.ac \in AnySecret /\ loc.spec.iac \in AnySecret
        /\ inst.main \in AnySecret /\ inst.notif \in AnySecret
        /\ tu["main"] \in AnySecret /\ tu["notif"] \in AnySecret
    BY SecretFacts DEF TypeOK, Locals, Status, UserSpec, AnySecret, Buses
  <1>1. CASE ReconcileNew
    <2>1. cr' = "active" /\ UNCHANGED <<spec, status, tu, tuExists, fin, config, job, sub,
              deploy, pods, run, pc, inst, loc, queue, spent>>
      BY <1>1 DEF ReconcileNew, busVars, subVars, parentRun
    <2> QED
      BY <2>1 DEF TypeInv, CRType, ReconcileType, SubsType, QueueType
  <1>2. CASE ReconcileStart
    <2>1. /\ UNCHANGED <<cr, spec, status, tu, tuExists, fin, config, job, sub, deploy,
                         pods, run, spent>>
          /\ pc' \in Steps /\ pc' # "children" /\ queue' = queue \ {"ironic"}
          /\ inst' = [status EXCEPT !.ready = FALSE]
          /\ loc' = [NoLocals EXCEPT !.spec = spec, !.oldMain = status.main,
                                     !.oldNotif = status.notif]
      BY <1>2 DEF ReconcileStart, crVars, busVars, subVars, Goto, Steps, NormalSteps
    <2>2. inst' \in Status
      BY <2>1 DEF CRType, Status
    <2>3. loc' \in Locals /\ loc'.next = 1
      BY <2>1 DEF CRType, Locals, Status, NoLocals
    <2> QED
      BY <2>1, <2>2, <2>3 DEF TypeInv, CRType, ReconcileType, SubsType, QueueType
  <1>3. CASE ReconcileTransport
    <2>1. /\ UNCHANGED <<cr, spec, status, tu, config, job, sub, deploy, pods, run, queue,
                         spent>>
          /\ pc' \in Steps /\ pc' # "children"
      BY <1>3 DEF ReconcileTransport, crVars, subVars, Goto, Steps, NormalSteps
    <2>2. tuExists' \in SUBSET Buses
      BY <1>3 DEF ReconcileTransport, CRType, Buses
    <2>3. fin' \in SUBSET Secrets
      <3>1. fin' \in {Manage(fin, tu["main"]), Remove(Remove(fin, inst.main), inst.notif)}
        BY <1>3 DEF ReconcileTransport
      <3>2. fin \in SUBSET Secrets
        BY DEF CRType
      <3> QED
        BY <1>a, <3>1, <3>2 DEF Manage, Remove, AnySecret
    <2>4. inst' \in Status
      BY <1>3, <1>a DEF ReconcileTransport, ReconcileType, Status
    <2>5. loc' \in Locals /\ loc'.next = 1
      BY <1>3, <1>a DEF ReconcileTransport, ReconcileType, Locals
    <2> QED
      BY <2>1, <2>2, <2>3, <2>4, <2>5
         DEF TypeInv, CRType, ReconcileType, SubsType, QueueType
  <1>4. CASE ReconcileNotifications
    <2> DEFINE new == IF loc.spec.bus THEN tu["notif"] ELSE NoSecret
    <2>1. new \in AnySecret
      BY <1>a
    <2>2. /\ UNCHANGED <<cr, spec, status, tu, config, job, sub, deploy, pods, run, queue,
                         spent>>
          /\ pc' = "config"
          /\ inst' = [inst EXCEPT !.notif = new] /\ loc' = [loc EXCEPT !.notif = new]
          /\ fin' = Manage(fin, new) /\ tuExists' \in {tuExists, tuExists \cup {"notif"}}
      BY <1>4 DEF ReconcileNotifications, crVars, subVars, Goto
    <2> HIDE DEF new
    <2>3. fin' \in SUBSET Secrets
      BY <2>1, <2>2, ConsumerFacts DEF CRType
    <2>4. inst' \in Status /\ loc' \in Locals /\ loc'.next = 1
      BY <1>4, <2>1, <2>2 DEF ReconcileNotifications, ReconcileType, Status, Locals
    <2>5. tuExists' \in SUBSET Buses /\ pc' \in Steps
      BY <2>2 DEF CRType, Buses, Steps, NormalSteps
    <2> QED
      BY <2>2, <2>3, <2>4, <2>5 DEF TypeInv, CRType, ReconcileType, SubsType, QueueType
  <1>5. CASE ReconcileConfig
    <2>1. /\ UNCHANGED <<cr, spec, status, tu, tuExists, fin, job, sub, deploy, pods, run,
                         loc, spent>>
          /\ pc' \in Steps /\ pc' # "children" /\ config' = Rendered
          /\ inst' = [inst EXCEPT !.hash = Rendered]
      BY <1>5 DEF ReconcileConfig, crVars, busVars, subVars, Goto, Steps, NormalSteps
    <2>2. QueueType'
      <3>1. Watching \subseteq Children
        BY DEF Watching, Services
      <3> QED
        BY <1>5, <3>1, EnqueueType DEF ReconcileConfig
    <2>3. inst' \in Status /\ config' \in Inputs /\ loc.next = 1
      BY <1>5, <2>1, SubSpecType DEF ReconcileConfig, ReconcileType, Status
    <2> QED
      BY <2>1, <2>2, <2>3 DEF TypeInv, CRType, ReconcileType, SubsType
  <1>6. CASE ReconcileUpgrade
    <2>1. /\ UNCHANGED <<cr, spec, status, tu, tuExists, config, sub, deploy, pods, run,
                         inst, loc, spent>>
          /\ pc' \in {"children", "patch"} /\ job' \in {"running", "done"}
          /\ fin' = Manage(Manage(fin, loc.spec.ac), loc.spec.iac)
      BY <1>6 DEF ReconcileUpgrade, crVars, busVars, subVars, Goto, CRType
    <2>2. QueueType'
      BY <1>6 DEF ReconcileUpgrade, QueueType, Enqueue
    <2>3. fin' \in SUBSET Secrets
      BY <1>a, <2>1 DEF CRType, Manage, AnySecret
    <2>4. pc' = "children" => loc.next \in 1 .. Len(SubCRs)
      BY <1>6, ChildFacts DEF ReconcileUpgrade, ReconcileType
    <2> QED
      BY <2>1, <2>2, <2>3, <2>4 DEF TypeInv, CRType, ReconcileType, SubsType, Steps, NormalSteps
  <1> QED
    BY <1>1, <1>2, <1>3, <1>4, <1>5, <1>6

(* The parent's steps from the sub-CRs on keep the types.                  *)
LEMMA TypeLastSteps ==
    ASSUME TypeInv,
           \/ ReconcileSubCR \/ FinalizeRotations \/ DeleteNotificationsURL
           \/ PruneFinalizers \/ ReconcileDelete \/ PatchInstance
           \/ StepFails \/ Crash
    PROVE  TypeInv'
  <1> CRType /\ ReconcileType /\ SubsType /\ QueueType /\ spent \in SpentType /\ TypeOK
    BY TypeParts DEF TypeInv
  <1> USE TypeFacts
  <1>a. /\ loc.main \in AnySecret /\ loc.notif \in AnySecret
        /\ loc.oldMain \in AnySecret /\ loc.oldNotif \in AnySecret
        /\ loc.spec.ac \in AnySecret /\ loc.spec.iac \in AnySecret
        /\ inst.main \in AnySecret /\ inst.notif \in AnySecret
        /\ inst.ac \in AnySecret /\ inst.iac \in AnySecret /\ loc.all \in BOOLEAN
    BY SecretFacts DEF TypeOK, Locals, Status, UserSpec, AnySecret
  <1>1. CASE ReconcileSubCR
    <2> DEFINE c == SubCRs[loc.next]
               s == IF sub[c].spec = SubSpec(c) /\ sub[c].stage # "absent" THEN sub[c]
                    ELSE [sub[c] EXCEPT !.spec = SubSpec(c), !.observed = FALSE,
                              !.stage = IF @ = "absent" THEN "new" ELSE @]
    <2>1. c \in Children /\ loc.next \in 1 .. Len(SubCRs)
      BY <1>1, ChildFacts DEF ReconcileSubCR, ReconcileType
    <2>2. sub[c] \in SubCR /\ SubSpec(c) \in Inputs
      BY <2>1, SubSpecType DEF SubsType
    <2>3. s \in SubCR
      BY <2>2 DEF SubCR
    <2>4. /\ UNCHANGED <<cr, spec, status, tu, tuExists, fin, config, job, deploy, pods,
                         inst, spent>>
          /\ sub' = [sub EXCEPT ![c] = s]
          /\ run' = [run EXCEPT ![c].seen = @ /\ s = sub[c]]
          /\ Enqueue(IF s = sub[c] THEN {} ELSE {c})
          /\ loc' = [loc EXCEPT
                       !.next = @ + 1,
                       !.all = @ /\ UpToDate(c, s),
                       !.waiting = @ \/ (ConditionOf(c) = "conductor" /\ ~UpToDate(c, s)),
                       !.up = Mirrored(c, s)]
          /\ pc' = IF loc.next = Len(SubCRs) THEN "finalize" ELSE "children"
      BY <1>1 DEF ReconcileSubCR, crVars, busVars, Goto
    <2> HIDE DEF s
    <2>5. UpToDate(c, s) \in BOOLEAN
      BY <2>3 DEF UpToDate, SubCR
    <2>6. ConditionOf(c) \in Conditions
      BY <2>1 DEF ConditionOf, Conditions, Services
    <2>7. Mirrored(c, s) \in SUBSET Conditions
      BY <2>3, <2>5, <2>6 DEF Mirrored, ReconcileType, Locals, SubCR
    <2> HIDE DEF c
    <2>8. loc' \in Locals /\ loc'.next = loc.next + 1
      <3> DEFINE all == loc.all /\ UpToDate(c, s)
                 waiting == loc.waiting \/ (ConditionOf(c) = "conductor" /\ ~UpToDate(c, s))
                 up == Mirrored(c, s)
      <3>1. all \in BOOLEAN /\ waiting \in BOOLEAN
        BY DEF ReconcileType, Locals
      <3>2. loc' = [loc EXCEPT !.next = @ + 1, !.all = all, !.waiting = waiting, !.up = up]
        BY <2>4
      <3> HIDE DEF all, waiting, up
      <3>3. up \in SUBSET Conditions
        BY <2>7 DEF up
      <3>4. loc \in Locals /\ loc.next + 1 \in Nat
        BY <2>1, ChildFacts DEF ReconcileType
      <3>5. /\ loc'.next = loc.next + 1 /\ loc'.all = all /\ loc'.waiting = waiting
            /\ loc'.up = up /\ loc' = [loc EXCEPT !.next = loc'.next, !.all = all,
                                                 !.waiting = waiting, !.up = up]
        BY <3>2, <3>4 DEF Locals
      <3> QED
        BY <3>1, <3>3, <3>4, <3>5 DEF Locals
    <2>9. sub' \in [Children -> SubCR]
      BY <2>3, <2>4 DEF SubsType
    <2>10. run' \in [Children -> SubRun]
      BY <2>1, <2>4 DEF SubsType, SubRun
    <2>11. QueueType'
      BY <2>1, <2>4, EnqueueType
    <2>12. /\ pc' \in Steps /\ pc' \in {"finalize", "children"}
           /\ pc' = "children" => loc'.next \in 1 .. Len(SubCRs)
      BY <2>1, <2>4, <2>8, ChildFacts DEF Steps, NormalSteps
    <2> QED
      BY <2>4, <2>8, <2>9, <2>10, <2>11, <2>12 DEF TypeInv, CRType, ReconcileType, SubsType
  <1>2. CASE FinalizeRotations
    <2> DEFINE f1 == FinAfter(fin, inst.ac, loc.spec.ac, loc.all)
               f2 == FinAfter(f1, inst.iac, loc.spec.iac, loc.all)
               f3 == FinAfter(f2, loc.oldMain, loc.main, loc.all)
               f4 == FinAfter(f3, loc.oldNotif, loc.notif, loc.all)
    <2>1. f1 \in SUBSET Secrets
      BY <1>a, ConsumerFacts DEF CRType
    <2>2. f2 \in SUBSET Secrets
      BY <1>a, <2>1, ConsumerFacts
    <2>3. f3 \in SUBSET Secrets
      BY <1>a, <2>2, ConsumerFacts
    <2>4. f4 \in SUBSET Secrets
      BY <1>a, <2>3, ConsumerFacts
    <2>5. fin' \in {f3, f4}
      BY <1>2 DEF FinalizeRotations
    <2>6. inst' \in Status
      <3>1. /\ TrackedAfter(inst.ac, loc.spec.ac, loc.all) \in AnySecret
            /\ TrackedAfter(inst.iac, loc.spec.iac, loc.all) \in AnySecret
            /\ TrackedAfter(loc.oldMain, loc.main, loc.all) \in AnySecret
            /\ TrackedAfter(loc.oldNotif, loc.notif, loc.all) \in AnySecret
        BY <1>a, ConsumerFacts
      <3> QED
        BY <1>2, <3>1 DEF FinalizeRotations, ReconcileType, Status
    <2>7. /\ UNCHANGED <<cr, spec, status, tu, tuExists, config, job, sub, deploy, pods, run,
                         loc, queue, spent>>
          /\ pc' \in {"deleteNotifURL", "prune"}
      BY <1>2 DEF FinalizeRotations, crVars, busVars, subVars, Goto
    <2> HIDE DEF f3, f4
    <2> QED
      BY <2>3, <2>4, <2>5, <2>6, <2>7
         DEF TypeInv, CRType, ReconcileType, SubsType, QueueType, Steps, NormalSteps
  <1>3. CASE DeleteNotificationsURL
    <2>1. /\ UNCHANGED <<cr, spec, status, fin, config, job, sub, deploy, pods, run,
                         inst, loc, queue, spent>>
          /\ tuExists' = tuExists \ {"notif"} /\ tu' = [tu EXCEPT !["notif"] = NoSecret]
          /\ pc' = "prune"
      BY <1>3 DEF DeleteNotificationsURL, crVars, subVars, Goto
    <2> QED
      BY <2>1 DEF TypeInv, CRType, ReconcileType, SubsType, QueueType, Steps, NormalSteps
  <1>4. CASE PruneFinalizers
    <2>1. /\ UNCHANGED <<cr, spec, status, tu, tuExists, config, job, sub, deploy, pods, run,
                         loc, queue, spent>>
          /\ pc' = "patch" /\ fin' = Prune(fin, Kept)
      BY <1>4 DEF PruneFinalizers, crVars, busVars, subVars, Goto
    <2>2. fin' \in SUBSET Secrets
      BY <2>1 DEF CRType, Prune
    <2>3. inst' \in Status
      <3>1. PICK b \in BOOLEAN : inst' = [inst EXCEPT !.ready = b]
        BY <1>4 DEF PruneFinalizers
      <3> QED
        BY <3>1 DEF ReconcileType, Status
    <2> QED
      BY <2>1, <2>2, <2>3 DEF TypeInv, CRType, ReconcileType, SubsType, QueueType, Steps
  <1>5. CASE ReconcileDelete
    <2>1. /\ UNCHANGED <<cr, spec, status, tu, tuExists, config, job, sub, deploy, pods, run,
                         inst, queue, spent>>
          /\ pc' = "patch" /\ loc' = [loc EXCEPT !.deleted = TRUE] /\ fin' = {}
      BY <1>5 DEF ReconcileDelete, crVars, busVars, subVars, Goto, Prune
    <2>2. loc' \in Locals
      BY <2>1 DEF ReconcileType, Locals
    <2> QED
      BY <2>1, <2>2 DEF TypeInv, CRType, ReconcileType, SubsType, QueueType, Steps
  <1>6. CASE PatchInstance
    <2>1. /\ UNCHANGED <<spec, tu, tuExists, fin, config, job, sub, deploy, pods, run, spent>>
          /\ pc' = "idle" /\ loc' = NoLocals /\ inst' = NoStatus
          /\ status' = inst /\ cr' \in {cr, "gone"}
      BY <1>6 DEF PatchInstance, busVars, subVars, Goto
    <2>2. QueueType'
      BY <1>6, EnqueueType DEF PatchInstance
    <2> QED
      BY <2>1, <2>2 DEF TypeInv, CRType, ReconcileType, SubsType, Steps
  <1>7. CASE StepFails
    <2>1. /\ UNCHANGED <<cr, spec, status, tu, tuExists, fin, config, job, sub, deploy, pods,
                         run, loc>>
          /\ pc' = "patch" /\ inst' \in {inst, [inst EXCEPT !.notif = NoSecret]}
      BY <1>7 DEF StepFails, crVars, busVars, subVars, Goto
    <2>2. QueueType'
      BY <1>7, EnqueueType DEF StepFails
    <2>3. spent' \in SpentType
      BY <1>7, SpendType DEF StepFails
    <2>4. inst' \in Status
      BY <2>1 DEF ReconcileType, Status
    <2> QED
      BY <2>1, <2>2, <2>3, <2>4 DEF TypeInv, CRType, ReconcileType, SubsType, Steps
  <1>8. CASE Crash
    <2>1. /\ UNCHANGED <<cr, spec, status, tu, tuExists, fin, config, job, sub, deploy, pods>>
          /\ pc' = "idle" /\ loc' = NoLocals /\ inst' = NoStatus
          /\ run' = [c \in Children |-> NoRun]
      BY <1>8 DEF Crash, crVars, busVars, Goto
    <2>2. QueueType'
      BY <1>8 DEF Crash, QueueType, Enqueue
    <2>3. spent' \in SpentType
      BY <1>8, SpendType DEF Crash
    <2> QED
      BY <2>1, <2>2, <2>3 DEF TypeInv, CRType, ReconcileType, SubsType, Steps
  <1> QED
    BY <1>1, <1>2, <1>3, <1>4, <1>5, <1>6, <1>7, <1>8

(* A sub-CR's reconcile keeps the types.                                   *)
LEMMA TypeSubSteps ==
    ASSUME TypeInv, NEW c \in Children, ReconcileSub(c) \/ SubFails(c)
    PROVE  TypeInv'
  <1> CRType /\ ReconcileType /\ SubsType /\ QueueType /\ spent \in SpentType /\ TypeOK
    BY TypeParts DEF TypeInv
  <1> USE TypeFacts
  <1>a. sub[c] \in SubCR /\ run[c] \in SubRun
    BY DEF SubsType
  <1>1. CASE SubNew(c)
    <2>1. /\ UNCHANGED <<cr, spec, status, tu, tuExists, fin, config, job, deploy, pods, run,
                         pc, inst, loc, queue, spent>>
          /\ sub' = [sub EXCEPT ![c].stage = "known", ![c].observed = TRUE]
      BY <1>1 DEF SubNew, crVars, busVars, parentRun
    <2>2. sub' \in [Children -> SubCR]
      BY <1>a, <2>1 DEF SubsType, SubCR
    <2> QED
      BY <2>1, <2>2 DEF TypeInv, CRType, ReconcileType, SubsType, QueueType
  <1>2. CASE SubStart(c)
    <2>1. /\ UNCHANGED <<cr, spec, status, tu, tuExists, fin, config, job, deploy, pods, sub,
                         pc, inst, loc, spent>>
          /\ run' = [run EXCEPT ![c] =
                 [pc |-> "render", snap |-> sub[c].spec, seen |-> TRUE,
                  hash |-> sub[c].hash, applied |-> sub[c].applied, ready |-> FALSE]]
          /\ queue' = queue \ {c}
      BY <1>2 DEF SubStart, crVars, busVars, parentRun
    <2>2. run' \in [Children -> SubRun]
      BY <1>a, <2>1 DEF SubsType, SubCR, SubRun
    <2> QED
      BY <2>1, <2>2 DEF TypeInv, CRType, ReconcileType, SubsType, QueueType
  <1>3. CASE SubReconcile(c)
    <2>1. /\ UNCHANGED <<cr, spec, status, tu, tuExists, fin, config, job, pods,
                         pc, inst, loc, spent>>
          /\ sub' = [sub EXCEPT ![c].config = SubRendered(c)]
          /\ deploy' \in {deploy, [deploy EXCEPT ![c] = run[c].hash]}
      BY <1>3 DEF SubReconcile, crVars, busVars, parentRun
    <2>2. sub' \in [Children -> SubCR]
      BY <1>a, <2>1, SubRenderedType DEF SubsType, SubCR
    <2>3. deploy' \in [Children -> InputHash]
      BY <1>a, <2>1 DEF SubsType, SubRun
    <2>4. run' \in [Children -> SubRun]
      <3>1. CASE run[c].hash # SubHash(c)
        BY <1>a, <1>3, <3>1, SubRenderedType DEF SubReconcile, SubsType, SubRun
      <3>2. CASE run[c].hash = SubHash(c)
        <4> DEFINE ready == RolledOut(c, run[c].hash)
        <4>1. run' = [run EXCEPT ![c].pc = "patch", ![c].ready = ready,
                                 ![c].applied = IF ready THEN run[c].snap ELSE @]
          BY <1>3, <3>2 DEF SubReconcile
        <4>2. ready \in BOOLEAN
          BY DEF RolledOut
        <4> HIDE DEF ready
        <4> QED
          BY <1>a, <4>1, <4>2 DEF SubsType, SubRun
      <3> QED
        BY <3>1, <3>2
    <2>5. QueueType'
      <3>1. PICK crs \in {{}, {c}} : Enqueue(crs)
        BY <1>3 DEF SubReconcile
      <3> QED
        BY <3>1, EnqueueType
    <2> QED
      BY <2>1, <2>2, <2>3, <2>4, <2>5 DEF TypeInv, CRType, ReconcileType, SubsType
  <1>4. CASE SubPatch(c)
    <2>1. /\ UNCHANGED <<cr, spec, status, tu, tuExists, fin, config, job, deploy, pods,
                         pc, inst, loc, spent>>
          /\ sub' = [sub EXCEPT ![c].observed = run[c].seen, ![c].hash = run[c].hash,
                        ![c].applied = run[c].applied, ![c].ready = run[c].ready]
          /\ run' = [run EXCEPT ![c] = NoRun]
      BY <1>4 DEF SubPatch, crVars, busVars, parentRun
    <2>2. sub' \in [Children -> SubCR]
      BY <1>a, <2>1 DEF SubsType, SubCR, SubRun
    <2>3. run' \in [Children -> SubRun]
      BY <2>1 DEF SubsType
    <2>4. QueueType'
      <3>1. PICK crs \in {{}, {c, "ironic"}} : Enqueue(crs)
        BY <1>4 DEF SubPatch, Woken
      <3> QED
        BY <3>1, EnqueueType
    <2> QED
      BY <2>1, <2>2, <2>3, <2>4 DEF TypeInv, CRType, ReconcileType, SubsType
  <1>5. CASE SubFails(c)
    <2>1. /\ UNCHANGED <<cr, spec, status, tu, tuExists, fin, config, job, deploy, pods, sub,
                         pc, inst, loc>>
          /\ run' = [run EXCEPT ![c].pc = "patch"]
      BY <1>5 DEF SubFails, crVars, busVars, parentRun
    <2>2. run' \in [Children -> SubRun]
      BY <1>a, <2>1 DEF SubsType, SubRun
    <2>3. QueueType' /\ spent' \in SpentType
      BY <1>5, SpendType, EnqueueType DEF SubFails
    <2> QED
      BY <2>1, <2>2, <2>3 DEF TypeInv, CRType, ReconcileType, SubsType
  <1> QED
    BY <1>1, <1>2, <1>3, <1>4, <1>5 DEF ReconcileSub

(* So do the workload controllers and the kubelet.                         *)
LEMMA TypePodSteps ==
    ASSUME TypeInv, NEW c \in Children, Rollout(c) \/ RestartPod(c)
    PROVE  TypeInv'
  <1> CRType /\ ReconcileType /\ SubsType /\ QueueType /\ spent \in SpentType
    BY DEF TypeInv
  <1>1. /\ UNCHANGED <<cr, spec, status, tu, tuExists, fin, config, job, deploy, sub, run,
                       pc, inst, loc, spent>>
        /\ Enqueue({c})
    BY DEF Rollout, StartPod, StopPod, RestartPod, Workload, crVars, busVars, parentRun
  <1>2. sub[c].config \in Inputs /\ deploy[c] \in InputHash /\ pods[c] \in SUBSET Pod
    BY DEF SubsType, SubCR
  <1>3. \E new \in SUBSET Pod : pods' = [pods EXCEPT ![c] = new]
    <2>1. CASE StartPod(c)
      <3>1. pods[c] \cup {[hash |-> deploy[c], cfg |-> sub[c].config]} \in SUBSET Pod
        BY <1>2 DEF Pod
      <3> QED
        BY <2>1, <3>1 DEF StartPod
    <2>2. CASE StopPod(c)
      BY <1>2, <2>2 DEF StopPod
    <2>3. CASE RestartPod(c)
      <3>1. PICK p \in pods[c] :
                pods' = [pods EXCEPT ![c] = (@ \ {p}) \cup {[p EXCEPT !.cfg = sub[c].config]}]
        BY <2>3 DEF RestartPod
      <3>2. (pods[c] \ {p}) \cup {[p EXCEPT !.cfg = sub[c].config]} \in SUBSET Pod
        BY <1>2 DEF Pod
      <3> QED
        BY <3>1, <3>2
    <2> QED
      BY <2>1, <2>2, <2>3 DEF Rollout
  <1>4. pods' \in [Children -> SUBSET Pod]
    BY <1>3 DEF SubsType
  <1>5. QueueType'
    BY <1>1, EnqueueType
  <1> QED
    BY <1>1, <1>4, <1>5 DEF TypeInv, CRType, ReconcileType, SubsType

(* An edit of the CR, whatever it changes.                                 *)
LEMMA EditType ==
    ASSUME TypeInv, NEW new \in UserSpec, NEW bound \in {"edits", "rpc"}, NEW limit,
           Edit(new, bound, limit)
    PROVE  TypeInv'
  <1> CRType /\ ReconcileType /\ SubsType /\ QueueType /\ spent \in SpentType
    BY DEF TypeInv
  <1>1. /\ UNCHANGED <<cr, status, tu, tuExists, fin, config, job, deploy, sub, run, pods,
                       pc, inst, loc>>
        /\ Enqueue({"ironic"}) /\ spec' = new /\ Spend(bound, limit)
    BY DEF Edit, busVars, subVars, parentRun
  <1>2. QueueType'
    BY <1>1, EnqueueType
  <1>3. spent' \in SpentType
    BY <1>1, SpendType
  <1> QED
    BY <1>1, <1>2, <1>3 DEF TypeInv, CRType, ReconcileType, SubsType

(* And the other operators, the users and the Job.                         *)
LEMMA TypeOtherSteps ==
    ASSUME TypeInv,
           \/ \E b \in Buses : IssueSecret(b) \/ RotateSecret(b)
           \/ \E k \in {"ac", "iac"} : EditCredential(k)
           \/ ToggleNotifications \/ ToggleRPCTransport \/ DeleteCR \/ JobDone
           \/ UNCHANGED vars
    PROVE  TypeInv'
  <1> CRType /\ ReconcileType /\ SubsType /\ QueueType /\ spent \in SpentType
    BY DEF TypeInv
  <1>1. CASE \E b \in Buses : IssueSecret(b) \/ RotateSecret(b)
    <2>1. PICK b \in Buses : IssueSecret(b) \/ RotateSecret(b)
      BY <1>1
    <2>2. /\ UNCHANGED <<cr, spec, status, tuExists, fin, config, job, deploy, sub, run, pods,
                         pc, inst, loc>>
          /\ Enqueue({"ironic"})
          /\ \E s \in SecretsOf[b] : tu' = [tu EXCEPT ![b] = s]
      BY <2>1 DEF IssueSecret, RotateSecret, crVars, subVars, parentRun
    <2>3. SecretsOf[b] \subseteq AnySecret
      BY SecretFacts DEF Buses, AnySecret
    <2>4. spent' \in SpentType
      BY <2>1, SpendType DEF IssueSecret, RotateSecret
    <2>5. QueueType'
      BY <2>2, EnqueueType
    <2> QED
      BY <2>2, <2>3, <2>4, <2>5 DEF TypeInv, CRType, ReconcileType, SubsType
  <1>2. CASE \/ \E k \in {"ac", "iac"} : EditCredential(k)
             \/ ToggleNotifications \/ ToggleRPCTransport
    <2>1. CASE \E k \in {"ac", "iac"} : EditCredential(k)
      <3>1. PICK k \in {"ac", "iac"} : EditCredential(k)
        BY <2>1
      <3>2. PICK s \in SecretsOf[k] \cup {NoSecret} :
                Edit([spec EXCEPT ![k] = s], "edits", MaxEdits)
        BY <3>1 DEF EditCredential
      <3>3. [spec EXCEPT ![k] = s] \in UserSpec
        BY <3>2, SecretFacts DEF CRType, UserSpec
      <3> QED
        BY <3>2, <3>3, EditType
    <2>2. CASE ToggleNotifications
      <3>1. [spec EXCEPT !.bus = ~@] \in UserSpec
        BY DEF CRType, UserSpec
      <3> QED
        BY <2>2, <3>1, EditType DEF ToggleNotifications
    <2>3. CASE ToggleRPCTransport
      <3>1. [spec EXCEPT !.oslo = ~@] \in UserSpec
        BY DEF CRType, UserSpec
      <3> QED
        BY <2>3, <3>1, EditType DEF ToggleRPCTransport
    <2> QED
      BY <1>2, <2>1, <2>2, <2>3
  <1>3. CASE DeleteCR
    <2>1. /\ UNCHANGED <<spec, status, tu, tuExists, fin, config, job, deploy, sub, run, pods,
                         pc, inst, loc>>
          /\ cr' = "deleting"
      BY <1>3 DEF DeleteCR, busVars, subVars, parentRun
    <2>2. QueueType' /\ spent' \in SpentType
      BY <1>3, SpendType, EnqueueType DEF DeleteCR
    <2> QED
      BY <2>1, <2>2 DEF TypeInv, CRType, ReconcileType, SubsType
  <1>4. CASE JobDone
    <2>1. /\ UNCHANGED <<cr, spec, status, tu, tuExists, fin, config, deploy, sub, run, pods,
                         pc, inst, loc, spent>>
          /\ job' = "done"
      BY <1>4 DEF JobDone, crVars, busVars, subVars, parentRun
    <2>2. QueueType'
      BY <1>4, EnqueueType DEF JobDone
    <2> QED
      BY <2>1, <2>2 DEF TypeInv, CRType, ReconcileType, SubsType
  <1>5. CASE UNCHANGED vars
    BY <1>5 DEF vars, TypeInv, CRType, ReconcileType, SubsType, QueueType
  <1> QED
    BY <1>1, <1>2, <1>3, <1>4, <1>5

LEMMA TypeStep == TypeInv /\ [Next]_vars => TypeInv'
  <1> SUFFICES ASSUME TypeInv, [Next]_vars PROVE TypeInv'
    OBVIOUS
  <1>1. CASE ReconcileParent \/ StepFails \/ Crash
    BY <1>1, TypeFirstSteps, TypeLastSteps DEF ReconcileParent
  <1>2. CASE \E c \in Children : ReconcileSub(c) \/ SubFails(c) \/ Rollout(c) \/ RestartPod(c)
    BY <1>2, TypeSubSteps, TypePodSteps
  <1>3. CASE ~ (\/ ReconcileParent \/ StepFails \/ Crash
                \/ \E c \in Children : ReconcileSub(c) \/ SubFails(c) \/ Rollout(c)
                                       \/ RestartPod(c))
    BY <1>3, TypeOtherSteps DEF Next
  <1> QED
    BY <1>1, <1>2, <1>3

(* The state of the parent, its sub-CRs and their reconciles has the types *)
(* of its declarations.                                                    *)
THEOREM TypeCorrect == Spec => []TypeOK
  BY TypeInit, TypeStep, TypeParts, PTL DEF Spec

-----------------------------------------------------------------------------
(* A Secret's way to the pods, when rotations wait for each other and the  *)
(* transport stays oslo.  Of each kind a service knows one Secret or two:  *)
(* the one its spec names and the one it is moving away from.              *)

ServiceKinds == {"main", "ac"}
Wanted(k) == IF k = "main" THEN tu["main"] ELSE spec.ac
Local(k) == IF k = "main" THEN loc.main ELSE loc.spec.ac

(* The service, its pods and its reconcile know no Secret of the kind but  *)
(* this one.                                                               *)
AllOn(c, k, s) ==
    /\ sub[c].config[k] = s /\ deploy[c].own[k] = s
    /\ \A p \in pods[c] : p.cfg[k] = s /\ p.hash.own[k] = s
    /\ run[c].pc # "idle" => run[c].snap[k] = s /\ run[c].applied[k] = s

(* What is applied, or about to be recorded as applied, is all there is.   *)
Applied(c, k) ==
    /\ sub[c].applied[k] = sub[c].spec[k] => AllOn(c, k, sub[c].spec[k])
    /\ run[c].pc # "idle" /\ run[c].applied[k] = sub[c].spec[k]
           => AllOn(c, k, sub[c].spec[k])

(* Pods that carry the hash of the spec's Secret have loaded it, for the   *)
(* config-data is older than the hash; and a reconcile that has read an    *)
(* older spec meets nothing of the new one.                                *)
Rolling(c, k) ==
    LET s == sub[c].spec[k] IN
    /\ deploy[c].own[k] = s => sub[c].config[k] = s
    /\ \A p \in pods[c] : p.hash.own[k] = s => p.cfg[k] = s /\ sub[c].config[k] = s
    /\ run[c].pc # "idle" /\ run[c].snap[k] # s =>
           deploy[c].own[k] # s /\ \A p \in pods[c] : p.hash.own[k] # s

(* A service whose spec is not up to date has applied it; the first Secret *)
(* of the main bus comes before any spec.                                  *)
MovesOn(c, k) ==
    /\ sub[c].spec[k] # Wanted(k) => sub[c].applied[k] = sub[c].spec[k]
    /\ tu["main"] = NoSecret =>
           sub[c].spec.main = NoSecret /\ sub[c].applied.main = NoSecret

(* The parent works with the Secret of now, or with the one that every     *)
(* service has.                                                            *)
AfterTransport == {"notif", "config", "dbsync", "children", "finalize", "deleteNotifURL", "prune"}
Known(k) == k = "main" => loc.main # NoSecret
Read ==
    /\ spec.oslo /\ loc.spec.oslo
    /\ pc \in AfterTransport => loc.main # NoSecret
    /\ \A k \in ServiceKinds :
          pc # "idle" /\ Known(k) /\ Local(k) # Wanted(k)
              => \A c \in Services : sub[c].spec[k] = Local(k)

(* When all sub-CRs seen so far are up to date, the services among them    *)
(* have applied what the parent works with.                                *)
Seen(i) == pc = "finalize" \/ (pc = "children" /\ i < loc.next)
AllApplied ==
    loc.all => \A i \in 1 .. Len(SubCRs), k \in ServiceKinds :
        Seen(i) /\ SubCRs[i] \in Services =>
            /\ sub[SubCRs[i]].spec[k] = Local(k)
            /\ sub[SubCRs[i]].applied[k] = Local(k)

ServiceInv ==
    /\ \A c \in Services, k \in ServiceKinds : Applied(c, k) /\ Rolling(c, k) /\ MovesOn(c, k)
    /\ \A c \in Services : /\ sub[c].config.notif = NoSecret
                           /\ \A p \in pods[c] : p.cfg.notif = NoSecret
    /\ Read /\ AllApplied

-----------------------------------------------------------------------------
(* Tracking: what a service uses is the Secret the parent's status tracks  *)
(* or the current one, also for the copy of the status its reconcile has.  *)

InUse(c, k) ==
    {sub[c].spec[k], sub[c].config[k]} \cup {p.cfg[k] : p \in pods[c]}
    \cup (IF run[c].pc = "idle" THEN {} ELSE {run[c].snap[k]})

StatusSecrets ==
    [main : TransportSecrets \cup {NoSecret}, notif : NotifSecrets \cup {NoSecret},
     ac : ACSecrets \cup {NoSecret}, iac : InspectorACSecrets \cup {NoSecret},
     hash : Inputs, ready : BOOLEAN]
Sorted ==
    /\ status \in StatusSecrets /\ inst \in StatusSecrets
    /\ {tu["main"], loc.main, loc.oldMain} \subseteq TransportSecrets \cup {NoSecret}
    /\ {tu["notif"], loc.notif, loc.oldNotif} \subseteq NotifSecrets \cup {NoSecret}

(* The copy of the status takes on the parent's Secret only at the end,    *)
(* when no service uses the one tracked before.                            *)
Working ==
    /\ pc # "idle" => loc.oldMain = status.main
    /\ pc \in {"transport", "delete"} => inst.main = status.main
    /\ pc \in {"transport", "notif", "config", "dbsync", "children", "finalize", "delete"}
           => inst.ac = status.ac
    /\ pc # "idle" => \A k \in ServiceKinds :
           /\ inst[k] = status[k] \/ (Known(k) /\ inst[k] = Local(k))
           /\ inst[k] # status[k] /\ status[k] # NoSecret
                  => \A c \in Services : sub[c].spec[k] = inst[k] /\ sub[c].applied[k] = inst[k]

Tracked ==
    \A c \in Services, k \in ServiceKinds :
        /\ InUse(c, k) \subseteq {status[k], Wanted(k), NoSecret}
        /\ pc # "idle" => InUse(c, k) \subseteq {inst[k], Wanted(k), NoSecret}

(* What is used has the finalizer, and so has what the parent will write   *)
(* into the spec of a service.                                             *)
Held(s) == s \in fin \cup {NoSecret}
Holding ==
    /\ pc = "delete" \/ loc.deleted => cr \in {"deleting", "gone"}
    /\ cr \in {"new", "active"} =>
           /\ \A c \in Services, k \in ServiceKinds : \A s \in InUse(c, k) : Held(s)
           /\ pc \in AfterTransport => Held(loc.main)
           /\ pc \in {"children", "finalize", "deleteNotifURL", "prune"} => Held(loc.spec.ac)

TrackingInv == Sorted /\ Working /\ Tracked /\ Holding

-----------------------------------------------------------------------------
(* What happens to one service while the parent does nothing.              *)

(* The service keeps its invariants and its spec; it does not lose what it *)
(* has applied and comes to use no other Secret.                           *)
Keeps(c, k) ==
    /\ Applied(c, k)' /\ Rolling(c, k)'
    /\ sub'[c].spec = sub[c].spec
    /\ sub[c].applied[k] = sub[c].spec[k] => sub'[c].applied[k] = sub[c].spec[k]
    /\ InUse(c, k)' \subseteq InUse(c, k)

LEMMA KeepsOther ==
    ASSUME NEW c, NEW k, Applied(c, k), Rolling(c, k),
           sub'[c] = sub[c], run'[c] = run[c], deploy'[c] = deploy[c], pods'[c] = pods[c]
    PROVE  Keeps(c, k)
  BY DEF Keeps, Applied, Rolling, AllOn, InUse

(* Rendering drops the notifications Secret only.                          *)
LEMMA RenderedKind ==
    ASSUME TypeInv, NEW c \in Children, NEW k \in ServiceKinds
    PROVE  /\ SubRendered(c)[k] = run[c].snap[k]
           /\ SubHash(c).own = SubRendered(c)
           /\ SubRendered(c).notif = NoSecret
  <1>1. run[c].snap \in Inputs
    BY DEF TypeInv, SubsType, SubRun
  <1> QED
    BY <1>1 DEF SubRendered, SubHash, ServiceKinds, Inputs

LEMMA SubKeeps ==
    ASSUME TypeInv, NEW d \in Children, ReconcileSub(d) \/ SubFails(d),
           NEW c \in Services, NEW k \in ServiceKinds, Applied(c, k), Rolling(c, k)
    PROVE  Keeps(c, k)
  <1> c \in Children
    BY ChildFacts
  <1>a. /\ sub \in [Children -> SubCR] /\ run \in [Children -> SubRun]
        /\ deploy \in [Children -> InputHash] /\ pods \in [Children -> SUBSET Pod]
    BY DEF TypeInv, SubsType
  <1>b. sub[c] \in SubCR /\ run[c] \in SubRun /\ deploy[c] \in InputHash
    BY <1>a
  <1>1. CASE c # d
    <2>1. sub'[c] = sub[c] /\ run'[c] = run[c] /\ deploy'[c] = deploy[c] /\ pods'[c] = pods[c]
      BY <1>1, <1>a DEF ReconcileSub, SubNew, SubStart, SubReconcile, SubPatch, SubFails
    <2> QED
      BY <2>1, KeepsOther
  <1>2. CASE c = d /\ SubNew(c)
    <2>1. /\ sub'[c] = [sub[c] EXCEPT !.stage = "known", !.observed = TRUE]
          /\ UNCHANGED <<run, deploy, pods>>
      BY <1>2, <1>a DEF SubNew
    <2>2. /\ sub'[c].spec = sub[c].spec /\ sub'[c].applied = sub[c].applied
          /\ sub'[c].config = sub[c].config
      BY <1>b, <2>1 DEF SubCR
    <2> QED
      BY <2>1, <2>2 DEF Keeps, Applied, Rolling, AllOn, InUse
  <1>3. CASE c = d /\ SubStart(c)
    <2>1. /\ run'[c].pc = "render" /\ run'[c].snap = sub[c].spec
          /\ run'[c].applied = sub[c].applied
          /\ run[c].pc = "idle" /\ UNCHANGED <<sub, deploy, pods>>
      BY <1>3, <1>a DEF SubStart
    <2> QED
      BY <2>1 DEF Keeps, Applied, Rolling, AllOn, InUse
  <1>4. CASE c = d /\ SubReconcile(c)
    <2>1. /\ run[c].pc = "render" /\ pods' = pods
          /\ sub'[c] = [sub[c] EXCEPT !.config = SubRendered(c)]
      BY <1>4, <1>a DEF SubReconcile
    <2>2. /\ sub'[c].spec = sub[c].spec /\ sub'[c].applied = sub[c].applied
          /\ sub'[c].config[k] = run[c].snap[k]
      BY <1>b, <2>1, RenderedKind DEF SubCR
    <2>3. CASE run[c].hash # SubHash(c)
      <3>1. /\ run'[c].pc = "patch" /\ run'[c].snap = run[c].snap
            /\ run'[c].applied = run[c].applied /\ deploy' = deploy
        BY <1>4, <1>a, <1>b, <2>3 DEF SubReconcile, SubRun
      <3> QED
        BY <2>1, <2>2, <3>1 DEF Keeps, Applied, Rolling, AllOn, InUse
    <2>4. CASE run[c].hash = SubHash(c)
      <3> DEFINE ready == RolledOut(c, run[c].hash)
      <3>1. /\ run'[c].pc = "patch" /\ run'[c].snap = run[c].snap
            /\ run'[c].applied = IF ready THEN run[c].snap ELSE run[c].applied
            /\ deploy'[c] = SubHash(c)
        BY <1>4, <1>a, <1>b, <2>4 DEF SubReconcile, SubRun
      <3>2. deploy'[c].own[k] = run[c].snap[k]
        BY <3>1, RenderedKind
      <3>3. ready => \A p \in pods[c] : p.hash.own[k] = run[c].snap[k]
        BY <2>4, RenderedKind DEF RolledOut
      <3> HIDE DEF ready
      <3> QED
        BY <2>1, <2>2, <3>1, <3>2, <3>3 DEF Keeps, Applied, Rolling, AllOn, InUse
    <2> QED
      BY <2>3, <2>4
  <1>5. CASE c = d /\ SubPatch(c)
    <2>1. /\ sub'[c] = [sub[c] EXCEPT !.observed = run[c].seen, !.hash = run[c].hash,
                           !.applied = run[c].applied, !.ready = run[c].ready]
          /\ run[c].pc = "patch" /\ run'[c].pc = "idle" /\ UNCHANGED <<deploy, pods>>
      BY <1>5, <1>a DEF SubPatch, NoRun
    <2>2. /\ sub'[c].spec = sub[c].spec /\ sub'[c].applied = run[c].applied
          /\ sub'[c].config = sub[c].config
      BY <1>b, <2>1 DEF SubCR
    <2> QED
      BY <2>1, <2>2 DEF Keeps, Applied, Rolling, AllOn, InUse
  <1>6. CASE c = d /\ SubFails(c)
    <2>1. /\ run'[c].pc = "patch" /\ run'[c].snap = run[c].snap /\ run[c].pc = "render"
          /\ run'[c].applied = run[c].applied /\ UNCHANGED <<sub, deploy, pods>>
      BY <1>6, <1>a, <1>b DEF SubFails, SubRun
    <2> QED
      BY <2>1 DEF Keeps, Applied, Rolling, AllOn, InUse
  <1> QED
    BY <1>1, <1>2, <1>3, <1>4, <1>5, <1>6 DEF ReconcileSub

LEMMA PodKeeps ==
    ASSUME TypeInv, NEW d \in Children, Rollout(d) \/ RestartPod(d),
           NEW c \in Services, NEW k \in ServiceKinds, Applied(c, k), Rolling(c, k)
    PROVE  Keeps(c, k)
  <1> c \in Children
    BY ChildFacts
  <1>a. pods \in [Children -> SUBSET Pod] /\ UNCHANGED <<sub, run, deploy>>
    BY DEF TypeInv, SubsType, Rollout, StartPod, StopPod, RestartPod, Workload
  <1>1. CASE c # d
    <2>1. pods'[c] = pods[c]
      BY <1>1, <1>a DEF Rollout, StartPod, StopPod, RestartPod
    <2> QED
      BY <1>a, <2>1, KeepsOther
  <1>2. CASE c = d /\ StartPod(c)
    <2>1. pods'[c] = pods[c] \cup {[hash |-> deploy[c], cfg |-> sub[c].config]}
      BY <1>2, <1>a DEF StartPod
    <2> QED
      BY <1>a, <2>1 DEF Keeps, Applied, Rolling, AllOn, InUse
  <1>3. CASE c = d /\ StopPod(c)
    <2>1. pods'[c] \subseteq pods[c]
      BY <1>3, <1>a DEF StopPod
    <2> QED
      BY <1>a, <2>1 DEF Keeps, Applied, Rolling, AllOn, InUse
  <1>4. CASE c = d /\ RestartPod(c)
    <2>1. PICK q \in pods[c] :
              pods'[c] = (pods[c] \ {q}) \cup {[q EXCEPT !.cfg = sub[c].config]}
      BY <1>4, <1>a DEF RestartPod
    <2>2. \A p \in pods'[c] : p \in pods[c] \/ (p.hash = q.hash /\ p.cfg = sub[c].config)
      BY <1>a, <2>1 DEF Pod
    <2> QED
      BY <1>a, <2>1, <2>2 DEF Keeps, Applied, Rolling, AllOn, InUse
  <1> QED
    BY <1>1, <1>2, <1>3, <1>4 DEF Rollout

(* Neither config-data nor pods have a notifications Secret.               *)
NoNotif(c) == sub[c].config.notif = NoSecret /\ \A p \in pods[c] : p.cfg.notif = NoSecret

LEMMA NotifKeeps ==
    ASSUME TypeInv, NEW d \in Children,
           ReconcileSub(d) \/ SubFails(d) \/ Rollout(d) \/ RestartPod(d),
           NEW c \in Services, NoNotif(c)
    PROVE  NoNotif(c)'
  <1> c \in Children
    BY ChildFacts
  <1>a. sub \in [Children -> SubCR] /\ pods \in [Children -> SUBSET Pod]
    BY DEF TypeInv, SubsType
  <1>b. sub[c] \in SubCR /\ pods[c] \in SUBSET Pod
    BY <1>a
  <1>1. CASE ReconcileSub(d) \/ SubFails(d)
    <2>1. pods' = pods /\ sub'[c].config \in {sub[c].config, SubRendered(c)}
      BY <1>1, <1>a, <1>b
         DEF ReconcileSub, SubNew, SubStart, SubReconcile, SubPatch, SubFails, SubCR
    <2> QED
      BY <2>1, RenderedKind DEF NoNotif, ServiceKinds
  <1>2. CASE Rollout(d) \/ RestartPod(d)
    <2>1. sub' = sub
      BY <1>2 DEF Rollout, StartPod, StopPod, RestartPod, Workload
    <2>2. \A p \in pods'[c] : p \in pods[c] \/ p.cfg = sub[c].config
      BY <1>2, <1>a, <1>b DEF Rollout, StartPod, StopPod, RestartPod, Pod
    <2> QED
      BY <2>1, <2>2 DEF NoNotif
  <1> QED
    BY <1>1, <1>2

(* Steps of services and pods preserve the invariants.                     *)
LEMMA ServicesStep ==
    ASSUME TypeInv, ServiceInv, TrackingInv, NEW d \in Children,
           ReconcileSub(d) \/ SubFails(d) \/ Rollout(d) \/ RestartPod(d)
    PROVE  ServiceInv' /\ TrackingInv'
  <1>1. UNCHANGED <<cr, spec, status, tu, fin, pc, inst, loc>>
    BY DEF ReconcileSub, SubNew, SubStart, SubReconcile, SubPatch, SubFails, Rollout,
           StartPod, StopPod, RestartPod, Workload, crVars, busVars, parentRun
  <1>2. \A c \in Services, k \in ServiceKinds : Keeps(c, k)
    BY SubKeeps, PodKeeps DEF ServiceInv
  <1>3. \A c \in Services : NoNotif(c)'
    BY NotifKeeps DEF ServiceInv, NoNotif
  <1>4. \A k \in ServiceKinds : Wanted(k)' = Wanted(k) /\ Local(k)' = Local(k)
    BY <1>1 DEF Wanted, Local
  <1>5. \A c \in Services, k \in ServiceKinds : MovesOn(c, k)'
    <2> SUFFICES ASSUME NEW c \in Services, NEW k \in ServiceKinds PROVE MovesOn(c, k)'
      OBVIOUS
    <2>1. MovesOn(c, k) /\ Keeps(c, k) /\ Keeps(c, "main")
      BY <1>2 DEF ServiceInv, ServiceKinds
    <2> QED
      BY <1>1, <1>4, <2>1 DEF MovesOn, Keeps
  <1>6. Read'
    BY <1>1, <1>2, <1>4 DEF ServiceInv, Read, Keeps, Known
  <1>7. AllApplied'
    BY <1>1, <1>2, <1>4 DEF ServiceInv, AllApplied, Keeps, Seen
  <1>8. ServiceInv'
    BY <1>2, <1>3, <1>5, <1>6, <1>7 DEF ServiceInv, Keeps, NoNotif
  <1>9. Sorted'
    BY <1>1 DEF TrackingInv, Sorted
  <1>10. Working'
    BY <1>1, <1>2, <1>4 DEF TrackingInv, Working, Keeps, Known
  <1>11. Tracked'
    BY <1>1, <1>2, <1>4 DEF TrackingInv, Tracked, Keeps
  <1>12. Holding'
    BY <1>1, <1>2 DEF TrackingInv, Holding, Held, Keeps
  <1> QED
    BY <1>8, <1>9, <1>10, <1>11, <1>12 DEF TrackingInv

-----------------------------------------------------------------------------
(* The initial states.                                                     *)

(* A service of a deployment that is settled on the Secrets `in'.          *)
LEMMA InstalledService ==
    ASSUME Init, TypeInv, NEW in \in Inputs, in.main # NoSecret, in.ac = spec.ac,
           InitInstalled(in), NEW c \in Services, NEW k \in ServiceKinds
    PROVE  /\ sub[c].spec = in /\ sub[c].applied = in /\ run[c].pc = "idle"
           /\ sub[c].config[k] = in[k] /\ sub[c].config.notif = NoSecret
           /\ deploy[c].own[k] = in[k]
           /\ \A p \in pods[c] : p.cfg[k] = in[k] /\ p.cfg.notif = NoSecret /\ p.hash.own[k] = in[k]
           /\ Wanted(k) = in[k] /\ status[k] = in[k] /\ in[k] \in fin \cup {NoSecret}
  <1> c \in Children
    BY ChildFacts
  <1> DEFINE used(d) == CASE d \in Services -> in
                          [] d = "agent" -> [NoInputs EXCEPT !.main = NoBus, !.ac = spec.ac]
                          [] d = "inspector" -> [NoInputs EXCEPT !.main = NoBus, !.ac = spec.iac]
             own(d) == [used(d) EXCEPT !.notif = NoSecret]
             hash(d) == [own |-> own(d), parent |-> IF d \in Services THEN in ELSE NoInputs]
  <1>1. used(c) = in
    BY DEF Services
  <1> HIDE DEF used
  <1>2. own(c)[k] = in[k] /\ own(c).notif = NoSecret
    BY <1>1 DEF Inputs, ServiceKinds
  <1> HIDE DEF own
  <1>3. hash(c).own = own(c)
    OBVIOUS
  <1> HIDE DEF hash
  <1>4. /\ sub = [d \in Children |->
                     [stage |-> "known", spec |-> used(d), observed |-> TRUE,
                      hash |-> hash(d), applied |-> used(d), ready |-> TRUE,
                      config |-> own(d)]]
        /\ deploy = [d \in Children |-> hash(d)]
        /\ pods = [d \in Children |-> {[hash |-> hash(d), cfg |-> own(d)]}]
    BY DEF InitInstalled, used, own, hash
  <1>5. /\ sub[c].spec = in /\ sub[c].applied = in /\ sub[c].config = own(c)
        /\ deploy[c].own = own(c)
    BY <1>1, <1>3, <1>4
  <1>6. \A p \in pods[c] : p.cfg = own(c) /\ p.hash.own = own(c)
    BY <1>3, <1>4
  <1>7. run[c].pc = "idle"
    BY DEF Init, NoRun
  <1>8. Wanted(k) = in[k] /\ status[k] = in[k] /\ in[k] \in fin \cup {NoSecret}
    BY DEF InitInstalled, Wanted, ServiceKinds
  <1> QED
    BY <1>2, <1>5, <1>6, <1>7, <1>8

LEMMA InstalledInit ==
    ASSUME Init, TypeInv, NEW in \in Inputs, in.main \in TransportSecrets,
           in.notif \in NotifSecrets \cup {NoSecret}, in.ac = spec.ac, InitInstalled(in)
    PROVE  ServiceInv /\ TrackingInv
  <1>1. in.main # NoSecret
    BY Disjoint, SecretFacts
  <1>2. pc = "idle" /\ loc = NoLocals /\ inst = NoStatus /\ spec.oslo /\ spec \in UserSpec
    BY DEF Init
  <1>3. /\ tu = [main |-> in.main, notif |-> in.notif]
        /\ status = [main |-> in.main, notif |-> in.notif, ac |-> spec.ac,
                     iac |-> spec.iac, hash |-> in, ready |-> TRUE]
    BY DEF InitInstalled
  <1> DEFINE Settled1(c, k) ==
               /\ sub[c].spec = in /\ sub[c].applied = in /\ run[c].pc = "idle"
               /\ sub[c].config[k] = in[k] /\ sub[c].config.notif = NoSecret
               /\ deploy[c].own[k] = in[k]
               /\ \A p \in pods[c] : /\ p.cfg[k] = in[k] /\ p.cfg.notif = NoSecret
                                     /\ p.hash.own[k] = in[k]
               /\ Wanted(k) = in[k] /\ status[k] = in[k] /\ in[k] \in fin \cup {NoSecret}
  <1>4. \A c \in Services, k \in ServiceKinds : Settled1(c, k)
    BY <1>1, InstalledService
  <1>5. \A c \in Services, k \in ServiceKinds : Applied(c, k) /\ Rolling(c, k) /\ MovesOn(c, k)
    BY <1>1, <1>3, <1>4 DEF Applied, Rolling, MovesOn, AllOn
  <1>6. \A c \in Services : NoNotif(c)
    BY <1>4 DEF NoNotif, ServiceKinds
  <1>7. Read /\ AllApplied
    BY <1>2 DEF Read, AllApplied, Seen, NoLocals, AfterTransport
  <1>8. ServiceInv
    BY <1>5, <1>6, <1>7 DEF ServiceInv, NoNotif
  <1>9. Sorted
    <2>1. status \in StatusSecrets /\ inst \in StatusSecrets
      BY <1>2, <1>3, TypeFacts DEF StatusSecrets, NoStatus, UserSpec
    <2> QED
      BY <1>2, <1>3, <2>1 DEF Sorted, NoLocals
  <1>10. Working /\ Holding
    BY <1>2, <1>4 DEF Working, Holding, Held, InUse, NoLocals, AfterTransport
  <1>11. Tracked
    BY <1>2, <1>4 DEF Tracked, InUse
  <1> QED
    BY <1>8, <1>9, <1>10, <1>11 DEF TrackingInv

LEMMA ServicesInit == Init => ServiceInv /\ TrackingInv
  <1> SUFFICES ASSUME Init PROVE ServiceInv /\ TrackingInv
    OBVIOUS
  <1> TypeInv
    BY TypeInit
  <1>1. CASE ~ InitNew
    <2>1. PICK m \in TransportSecrets, n \in NotifSecrets \cup {NoSecret} :
              InitInstalled([main |-> m, notif |-> n, ac |-> spec.ac])
      BY <1>1 DEF Init
    <2> DEFINE in == [main |-> m, notif |-> n, ac |-> spec.ac]
    <2>2. /\ in \in Inputs /\ in.main \in TransportSecrets
          /\ in.notif \in NotifSecrets \cup {NoSecret} /\ in.ac = spec.ac
      BY SecretFacts DEF Init, Inputs, AnySecret, UserSpec
    <2> HIDE DEF in
    <2>3. InitInstalled(in)
      BY <2>1 DEF in
    <2> QED
      BY <2>2, <2>3, InstalledInit
  <1>2. CASE InitNew
    <2>1. /\ pc = "idle" /\ loc = NoLocals /\ inst = NoStatus /\ spec.oslo
          /\ status = NoStatus /\ tu["main"] = NoSecret /\ tu["notif"] = NoSecret
      BY <1>2 DEF Init, InitNew, Buses
    <2>2. \A c \in Services : sub[c] = NoSubCR /\ deploy[c] = NoHash /\ pods[c] = {} /\ run[c] = NoRun
      BY <1>2, ChildFacts DEF Init, InitNew
    <2>3. \A k \in ServiceKinds : NoInputs[k] = NoSecret
      BY DEF ServiceKinds, NoInputs
    <2>4. \A c \in Services, k \in ServiceKinds :
              Applied(c, k) /\ Rolling(c, k) /\ MovesOn(c, k)
      BY <2>1, <2>2, <2>3
         DEF Applied, Rolling, MovesOn, AllOn, NoSubCR, NoHash, NoRun, NoInputs
    <2>5. \A c \in Services : NoNotif(c)
      BY <2>2 DEF NoNotif, NoSubCR, NoInputs
    <2>6. Read /\ AllApplied
      BY <2>1 DEF Read, AllApplied, Seen, NoLocals, AfterTransport
    <2>7. ServiceInv
      BY <2>4, <2>5, <2>6 DEF ServiceInv, NoNotif
    <2>8. Sorted
      <3>1. NoStatus \in StatusSecrets
        BY TypeFacts DEF StatusSecrets, NoStatus
      <3> QED
        BY <2>1, <3>1 DEF Sorted, NoLocals
    <2>9. \A c \in Services, k \in ServiceKinds : InUse(c, k) = {NoSecret}
      BY <2>2, <2>3 DEF InUse, NoSubCR, NoRun
    <2>10. Working /\ Holding /\ Tracked
      BY <2>1, <2>9 DEF Working, Holding, Held, Tracked, NoLocals, AfterTransport
    <2> QED
      BY <2>7, <2>8, <2>10 DEF TrackingInv
  <1> QED
    BY <1>1, <1>2

-----------------------------------------------------------------------------
(* The parent's steps that leave the sub-CRs alone.                        *)

LEMMA ParentFrame ==
    ASSUME ServiceInv, UNCHANGED <<spec, sub, run, deploy, pods>>,
           tu'["main"] = tu["main"], Read', AllApplied'
    PROVE  ServiceInv'
  <1>1. \A c \in Services, k \in ServiceKinds : Applied(c, k)' /\ Rolling(c, k)' /\ MovesOn(c, k)'
    BY DEF ServiceInv, Applied, Rolling, MovesOn, AllOn, Wanted
  <1>2. \A c \in Services : NoNotif(c)'
    BY DEF ServiceInv, NoNotif
  <1> QED
    BY <1>1, <1>2 DEF ServiceInv, NoNotif

(* What is used does not change in the parent's steps.                     *)
LEMMA InUseFrame ==
    ASSUME UNCHANGED <<sub, run, pods>>, NEW c, NEW k
    PROVE  InUse(c, k)' = InUse(c, k)
  BY DEF InUse

LEMMA TrackedFrame ==
    ASSUME Tracked, pc # "idle", UNCHANGED <<sub, run, pods, status, spec>>,
           tu'["main"] = tu["main"],
           \A k \in ServiceKinds : inst'[k] = inst[k] \/ inst[k] = NoSecret
    PROVE  Tracked'
  <1> SUFFICES ASSUME NEW c \in Services, NEW k \in ServiceKinds
               PROVE  /\ InUse(c, k)' \subseteq {status[k], Wanted(k), NoSecret}'
                      /\ InUse(c, k)' \subseteq {inst[k], Wanted(k), NoSecret}'
    BY DEF Tracked
  <1>1. Wanted(k)' = Wanted(k)
    BY DEF Wanted
  <1>2. InUse(c, k) \subseteq {status[k], Wanted(k), NoSecret}
        /\ InUse(c, k) \subseteq {inst[k], Wanted(k), NoSecret}
    BY DEF Tracked
  <1>3. inst'[k] = inst[k] \/ inst[k] = NoSecret
    OBVIOUS
  <1> QED
    BY <1>1, <1>2, <1>3, InUseFrame

LEMMA StartStep ==
    ASSUME TypeInv, ServiceInv, TrackingInv, ReconcileNew \/ ReconcileStart
    PROVE  ServiceInv' /\ TrackingInv'
  <1>0. UNCHANGED <<spec, status, tu, sub, run, deploy, pods, fin>>
    BY DEF ReconcileNew, ReconcileStart, crVars, busVars, subVars
  <1>1. CASE ReconcileNew
    <2>1. cr = "new" /\ cr' = "active" /\ UNCHANGED <<pc, inst, loc>> /\ pc = "idle"
      BY <1>1 DEF ReconcileNew, parentRun
    <2>2. Read' /\ AllApplied'
      BY <1>0, <2>1 DEF ServiceInv, Read, AllApplied, Known, Local, Wanted, Seen
    <2>3. ServiceInv'
      BY <1>0, <2>2, ParentFrame
    <2>4. Sorted' /\ Working'
      BY <1>0, <2>1 DEF TrackingInv, Sorted, Working
    <2>5. Tracked' /\ Holding'
      BY <1>0, <2>1, InUseFrame
         DEF TrackingInv, Tracked, Holding, Held, Wanted, AfterTransport
    <2> QED
      BY <2>3, <2>4, <2>5 DEF TrackingInv
  <1>2. CASE ReconcileStart
    <2>1. /\ pc = "idle" /\ inst' = [status EXCEPT !.ready = FALSE]
          /\ loc' = [NoLocals EXCEPT !.spec = spec, !.oldMain = status.main,
                                     !.oldNotif = status.notif]
          /\ cr' = cr /\ pc' \in {"delete", "transport"}
          /\ pc' = "delete" => cr = "deleting"
      BY <1>2 DEF ReconcileStart, crVars, Goto
    <2>2. /\ loc'.spec = spec /\ loc'.oldMain = status.main /\ loc'.oldNotif = status.notif
          /\ loc'.main = NoSecret /\ loc'.notif = NoSecret /\ ~ loc'.deleted
      BY <2>1 DEF NoLocals
    <2>3. /\ \A k \in Key : inst'[k] = status[k]
          /\ inst' \in StatusSecrets
      BY <2>1 DEF TrackingInv, Sorted, StatusSecrets, Key
    <2>4. Read' /\ AllApplied'
      BY <1>0, <2>1, <2>2
         DEF ServiceInv, Read, AllApplied, Known, Local, Wanted, Seen, ServiceKinds,
             AfterTransport
    <2>5. ServiceInv'
      BY <1>0, <2>4, ParentFrame
    <2>6. Sorted'
      <3>1. status.main \in TransportSecrets \cup {NoSecret}
            /\ status.notif \in NotifSecrets \cup {NoSecret}
        BY DEF TrackingInv, Sorted, StatusSecrets
      <3> QED
        BY <1>0, <2>2, <2>3, <3>1 DEF TrackingInv, Sorted
    <2>7. Working'
      BY <1>0, <2>2, <2>3 DEF Working, ServiceKinds, Key
    <2>8. Tracked' /\ Holding'
      BY <1>0, <2>1, <2>2, <2>3, InUseFrame
         DEF TrackingInv, Tracked, Holding, Held, Wanted, AfterTransport, ServiceKinds, Key
    <2> QED
      BY <2>5, <2>6, <2>7, <2>8 DEF TrackingInv
  <1> QED
    BY <1>1, <1>2

LEMMA TransportStep ==
    ASSUME TypeInv, ServiceInv, TrackingInv, ReconcileTransport
    PROVE  ServiceInv' /\ TrackingInv'
  <1>1. loc.spec.oslo /\ pc = "transport"
    BY DEF ReconcileTransport, ServiceInv, Read
  <1>2. /\ UNCHANGED <<cr, spec, status, tu, sub, run, deploy, pods>>
        /\ loc' = [loc EXCEPT !.main = tu["main"]]
        /\ inst' = IF inst.main = NoSecret THEN [inst EXCEPT !.main = tu["main"]] ELSE inst
        /\ fin' = Manage(fin, tu["main"])
        /\ pc' = IF tu["main"] = NoSecret THEN "patch" ELSE "notif"
    BY <1>1 DEF ReconcileTransport, crVars, subVars, Goto
  <1>3. /\ loc'.spec = loc.spec /\ loc'.main = tu["main"] /\ loc'.notif = loc.notif
        /\ loc'.oldMain = loc.oldMain /\ loc'.oldNotif = loc.oldNotif
        /\ loc'.deleted = loc.deleted
    BY <1>2 DEF TypeInv, ReconcileType, Locals
  <1>4. /\ inst'.ac = inst.ac /\ inst' \in StatusSecrets
        /\ inst'.main = IF inst.main = NoSecret THEN tu["main"] ELSE inst.main
    BY <1>2 DEF TrackingInv, Sorted, StatusSecrets
  <1>5. fin \subseteq fin' /\ tu["main"] \in fin' \cup {NoSecret}
    BY <1>2 DEF Manage
  <1>6. Read' /\ AllApplied'
    BY <1>1, <1>2, <1>3
       DEF ServiceInv, Read, AllApplied, Known, Local, Wanted, Seen, ServiceKinds,
           AfterTransport
  <1>7. ServiceInv'
    BY <1>2, <1>6, ParentFrame
  <1>8. Sorted'
    BY <1>2, <1>3, <1>4 DEF TrackingInv, Sorted
  <1>9. Working'
    BY <1>1, <1>2, <1>3, <1>4
       DEF TrackingInv, Working, Known, Local, ServiceKinds
  <1>10. Tracked'
    BY <1>1, <1>2, <1>4, TrackedFrame DEF TrackingInv, ServiceKinds
  <1>11. Holding'
    BY <1>1, <1>2, <1>3, <1>5, InUseFrame DEF TrackingInv, Holding, Held, AfterTransport
  <1> QED
    BY <1>7, <1>8, <1>9, <1>10, <1>11 DEF TrackingInv

(* Steps that touch neither what the parent works with nor what it tracks  *)
(* for the services.                                                       *)
LEMMA QuietStep ==
    ASSUME TypeInv, ServiceInv, TrackingInv,
           UNCHANGED <<cr, spec, status, sub, run, deploy, pods>>, tu'["main"] = tu["main"],
           pc # "idle", pc' \in {"config", "dbsync", "children", "prune", "patch"},
           pc' = "config" => pc = "notif", pc' = "dbsync" => pc = "config",
           pc' = "children" => pc = "dbsync" /\ loc'.next = 1
                               /\ loc.spec.ac \in fin' \cup {NoSecret},
           pc' = "prune" => pc = "deleteNotifURL",
           loc'.spec = loc.spec, loc'.main = loc.main, loc'.oldMain = loc.oldMain,
           loc'.deleted = loc.deleted, inst'.main = inst.main, inst'.ac = inst.ac,
           fin \subseteq fin', Sorted'
    PROVE  ServiceInv' /\ TrackingInv'
  <1>1. Read'
    BY DEF ServiceInv, Read, Known, Local, Wanted, AfterTransport
  <1>2. AllApplied'
    BY DEF AllApplied, Seen
  <1>3. ServiceInv'
    BY <1>1, <1>2, ParentFrame
  <1>4. Working'
    BY DEF TrackingInv, Working, Known, Local, ServiceKinds
  <1>5. Tracked'
    BY TrackedFrame DEF TrackingInv, ServiceKinds
  <1>6. Holding'
    BY InUseFrame DEF TrackingInv, Holding, Held, AfterTransport
  <1> QED
    BY <1>3, <1>4, <1>5, <1>6 DEF TrackingInv

LEMMA QuietSteps ==
    ASSUME TypeInv, ServiceInv, TrackingInv,
           \/ ReconcileNotifications \/ ReconcileConfig \/ ReconcileUpgrade
           \/ DeleteNotificationsURL \/ StepFails
    PROVE  ServiceInv' /\ TrackingInv'
  <1>0. Sorted /\ ReconcileType
    BY DEF TrackingInv, TypeInv
  <1>1. CASE ReconcileNotifications
    <2> DEFINE new == IF loc.spec.bus THEN tu["notif"] ELSE NoSecret
    <2>1. /\ UNCHANGED <<cr, spec, status, tu, sub, run, deploy, pods>>
          /\ pc = "notif" /\ pc' = "config" /\ fin \subseteq fin'
          /\ inst' = [inst EXCEPT !.notif = new] /\ loc' = [loc EXCEPT !.notif = new]
      BY <1>1 DEF ReconcileNotifications, crVars, subVars, Goto, Manage
    <2>2. new \in NotifSecrets \cup {NoSecret}
      BY <1>0 DEF Sorted
    <2>3. /\ loc'.spec = loc.spec /\ loc'.main = loc.main /\ loc'.oldMain = loc.oldMain
          /\ loc'.deleted = loc.deleted /\ loc'.oldNotif = loc.oldNotif /\ loc'.notif = new
      BY <1>0, <2>1 DEF ReconcileType, Locals
    <2>4. inst'.main = inst.main /\ inst'.ac = inst.ac /\ inst' \in StatusSecrets
      BY <1>0, <2>1, <2>2 DEF Sorted, StatusSecrets
    <2>5. Sorted'
      BY <1>0, <2>1, <2>2, <2>3, <2>4 DEF Sorted
    <2> HIDE DEF new
    <2> QED
      BY <2>1, <2>3, <2>4, <2>5, QuietStep
  <1>2. CASE ReconcileConfig
    <2>1. /\ UNCHANGED <<cr, spec, status, tu, sub, run, deploy, pods, loc, fin>>
          /\ pc = "config" /\ pc' \in {"dbsync", "patch"}
          /\ inst' = [inst EXCEPT !.hash = Rendered]
      BY <1>2 DEF ReconcileConfig, crVars, busVars, subVars, Goto
    <2>2. Rendered \in Inputs
      BY SubSpecType, TypeParts
    <2>3. inst'.main = inst.main /\ inst'.ac = inst.ac /\ inst' \in StatusSecrets
      BY <1>0, <2>1, <2>2 DEF Sorted, StatusSecrets
    <2>4. Sorted'
      BY <1>0, <2>1, <2>3 DEF Sorted
    <2> QED
      BY <2>1, <2>3, <2>4, QuietStep
  <1>3. CASE ReconcileUpgrade
    <2>1. /\ UNCHANGED <<cr, spec, status, tu, sub, run, deploy, pods, loc, inst>>
          /\ pc = "dbsync" /\ pc' \in {"children", "patch"}
          /\ fin \subseteq fin' /\ loc.spec.ac \in fin' \cup {NoSecret}
      BY <1>3 DEF ReconcileUpgrade, crVars, busVars, subVars, Goto, Manage
    <2>2. loc.next = 1
      BY <1>0, <2>1 DEF ReconcileType
    <2>3. Sorted'
      BY <1>0, <2>1 DEF Sorted
    <2> QED
      BY <2>1, <2>2, <2>3, QuietStep
  <1>4. CASE DeleteNotificationsURL
    <2>1. /\ UNCHANGED <<cr, spec, status, sub, run, deploy, pods, loc, inst, fin>>
          /\ pc = "deleteNotifURL" /\ pc' = "prune"
          /\ tu' = [tu EXCEPT !["notif"] = NoSecret]
      BY <1>4 DEF DeleteNotificationsURL, crVars, subVars, Goto
    <2>2. tu'["main"] = tu["main"] /\ tu'["notif"] = NoSecret
      BY <2>1 DEF TypeInv, CRType, Buses
    <2>3. Sorted'
      BY <1>0, <2>1, <2>2 DEF Sorted
    <2> QED
      BY <2>1, <2>2, <2>3, QuietStep
  <1>5. CASE StepFails
    <2>1. /\ UNCHANGED <<cr, spec, status, tu, sub, run, deploy, pods, loc, fin>>
          /\ pc # "idle" /\ pc' = "patch"
          /\ inst' \in {inst, [inst EXCEPT !.notif = NoSecret]}
      BY <1>5 DEF StepFails, crVars, busVars, subVars, Goto, NormalSteps, Spend
    <2>2. inst'.main = inst.main /\ inst'.ac = inst.ac /\ inst' \in StatusSecrets
      BY <1>0, <2>1 DEF Sorted, StatusSecrets
    <2>3. Sorted'
      BY <1>0, <2>1, <2>2 DEF Sorted
    <2> QED
      BY <2>1, <2>2, <2>3, QuietStep
  <1> QED
    BY <1>1, <1>2, <1>3, <1>4, <1>5

(* A service that has applied the Secret of its spec uses no other, and    *)
(* which Secrets a service can use at all.                                 *)
LEMMA AppliedInUse ==
    ASSUME ServiceInv, NEW c \in Services, NEW k \in ServiceKinds,
           sub[c].applied[k] = sub[c].spec[k]
    PROVE  InUse(c, k) = {sub[c].spec[k]} /\ AllOn(c, k, sub[c].spec[k])
  BY DEF ServiceInv, Applied, AllOn, InUse

LEMMA InUseSorted ==
    ASSUME TypeInv, TrackingInv, NEW c \in Services
    PROVE  /\ InUse(c, "main") \subseteq TransportSecrets \cup {NoSecret}
           /\ InUse(c, "ac") \subseteq ACSecrets \cup {NoSecret}
  <1>1. /\ status.main \in TransportSecrets \cup {NoSecret} /\ status.ac \in ACSecrets \cup {NoSecret}
        /\ tu["main"] \in TransportSecrets \cup {NoSecret} /\ spec.ac \in ACSecrets \cup {NoSecret}
    BY DEF TrackingInv, Sorted, StatusSecrets, TypeInv, CRType, UserSpec
  <1>2. /\ InUse(c, "main") \subseteq {status["main"], Wanted("main"), NoSecret}
        /\ InUse(c, "ac") \subseteq {status["ac"], Wanted("ac"), NoSecret}
    BY DEF TrackingInv, Tracked, ServiceKinds
  <1>3. status["main"] = status.main /\ status["ac"] = status.ac
        /\ Wanted("main") = tu["main"] /\ Wanted("ac") = spec.ac
    BY DEF Wanted
  <1> QED
    BY <1>1, <1>2, <1>3

(* The old Secrets are released when no service uses them any more.        *)
LEMMA FinalizeStep ==
    ASSUME TypeInv, ServiceInv, TrackingInv, FinalizeRotations
    PROVE  ServiceInv' /\ TrackingInv'
  <1> DEFINE ac == TrackedAfter(inst.ac, loc.spec.ac, loc.all)
             iac == TrackedAfter(inst.iac, loc.spec.iac, loc.all)
             main == TrackedAfter(loc.oldMain, loc.main, loc.all)
             notif == TrackedAfter(loc.oldNotif, loc.notif, loc.all)
  <1>0. Sorted /\ Working /\ Tracked /\ Holding /\ Read /\ AllApplied /\ ReconcileType
    BY DEF TrackingInv, ServiceInv, TypeInv
  <1>1. /\ UNCHANGED <<cr, spec, status, tu, sub, run, deploy, pods, loc>>
        /\ pc = "finalize" /\ pc' \in {"deleteNotifURL", "prune"}
        /\ inst' = [inst EXCEPT !.ac = ac, !.iac = iac, !.main = main, !.notif = notif]
    BY DEF FinalizeRotations, crVars, busVars, subVars, Goto
  <1>2. /\ ac \in ACSecrets \cup {NoSecret} /\ iac \in InspectorACSecrets \cup {NoSecret}
        /\ main \in TransportSecrets \cup {NoSecret} /\ notif \in NotifSecrets \cup {NoSecret}
    BY <1>0 DEF Sorted, StatusSecrets, ReconcileType, Locals, UserSpec, TrackedAfter
  <1>3. inst'.main = main /\ inst'.ac = ac /\ inst' \in StatusSecrets
    <2> HIDE DEF main, ac, iac, notif
    <2> QED
      BY <1>0, <1>1, <1>2 DEF Sorted, StatusSecrets
  <1>4. Sorted'
    <2> HIDE DEF main, ac, iac, notif
    <2> QED
      BY <1>0, <1>1, <1>3 DEF Sorted
  <1>5. Read' /\ AllApplied'
    BY <1>0, <1>1 DEF Read, AllApplied, Known, Local, Wanted, Seen, AfterTransport
  <1>6. ServiceInv'
    BY <1>1, <1>5, ParentFrame
  <1>7. loc.all => \A c \in Services, k \in ServiceKinds :
                       /\ sub[c].spec[k] = Local(k) /\ sub[c].applied[k] = Local(k)
                       /\ InUse(c, k) = {Local(k)}
    <2> SUFFICES ASSUME loc.all, NEW c \in Services, NEW k \in ServiceKinds
                 PROVE  /\ sub[c].spec[k] = Local(k) /\ sub[c].applied[k] = Local(k)
                        /\ InUse(c, k) = {Local(k)}
      OBVIOUS
    <2>1. PICK i \in 1 .. Len(SubCRs) : SubCRs[i] = c
      BY ChildFacts
    <2>2. sub[c].spec[k] = Local(k) /\ sub[c].applied[k] = Local(k)
      BY <1>0, <1>1, <2>1 DEF AllApplied, Seen
    <2> QED
      BY <2>2, AppliedInUse
  <1>8. /\ loc.oldMain = status.main /\ inst.ac = status.ac
        /\ Local("main") = loc.main /\ Local("ac") = loc.spec.ac
        /\ status["main"] = status.main /\ status["ac"] = status.ac
        /\ inst'["main"] = main /\ inst'["ac"] = ac /\ loc.main # NoSecret
    BY <1>0, <1>1, <1>3 DEF Working, Local, Read, AfterTransport
  <1>9. \A k \in ServiceKinds :
            \/ inst'[k] = status[k]
            \/ inst'[k] = Local(k) /\ (status[k] = NoSecret \/ loc.all)
    BY <1>8 DEF ServiceKinds, TrackedAfter, Rotating
  <1>10. Working'
    <2>1. \A k \in ServiceKinds : Known(k)' /\ Local(k)' = Local(k)
      BY <1>1, <1>8 DEF Known, Local
    <2> QED
      BY <1>0, <1>1, <1>7, <1>8, <1>9, <2>1 DEF Working
  <1>11. Tracked'
    <2> SUFFICES ASSUME NEW c \in Services, NEW k \in ServiceKinds
                 PROVE  /\ InUse(c, k)' \subseteq {status[k], Wanted(k), NoSecret}'
                        /\ InUse(c, k)' \subseteq {inst[k], Wanted(k), NoSecret}'
      BY DEF Tracked
    <2>1. InUse(c, k) \subseteq {status[k], Wanted(k), NoSecret} /\ Wanted(k)' = Wanted(k)
      BY <1>0, <1>1 DEF Tracked, Wanted
    <2>2. InUse(c, k)' = InUse(c, k)
      BY <1>1, InUseFrame
    <2> QED
      BY <1>1, <1>7, <1>9, <2>1, <2>2
  <1>12. \A s : s \in fin /\ s \notin fin' =>
             \/ s = inst.iac \/ s = loc.oldNotif
             \/ loc.all /\ s = inst.ac /\ s # loc.spec.ac
             \/ loc.all /\ s = loc.oldMain /\ s # loc.main
    BY DEF FinalizeRotations, FinAfter, Rotating, Remove
  <1>13. \A s : s \in fin /\ s \notin fin' /\ s # NoSecret =>
             /\ \A c \in Services, k \in ServiceKinds : s \notin InUse(c, k)
             /\ s # loc.main /\ s # loc.spec.ac
    <2> SUFFICES ASSUME NEW s, s \in fin, s \notin fin', s # NoSecret
                 PROVE  /\ \A c \in Services, k \in ServiceKinds : s \notin InUse(c, k)
                        /\ s # loc.main /\ s # loc.spec.ac
      OBVIOUS
    <2>1. /\ inst.iac \in InspectorACSecrets \cup {NoSecret}
          /\ inst.ac \in ACSecrets \cup {NoSecret}
          /\ loc.oldNotif \in NotifSecrets \cup {NoSecret}
          /\ {loc.oldMain, loc.main} \subseteq TransportSecrets \cup {NoSecret}
          /\ loc.spec.ac \in ACSecrets \cup {NoSecret}
      BY <1>0 DEF Sorted, StatusSecrets, ReconcileType, Locals, UserSpec
    <2>2. CASE s = inst.iac \/ s = loc.oldNotif
      BY <2>1, <2>2, Disjoint, InUseSorted DEF ServiceKinds
    <2>3. CASE loc.all /\ s = inst.ac /\ s # loc.spec.ac
      <3>1. \A c \in Services : InUse(c, "ac") = {loc.spec.ac}
        BY <1>7, <1>8, <2>3 DEF ServiceKinds
      <3> QED
        BY <2>1, <2>3, <3>1, Disjoint, InUseSorted DEF ServiceKinds
    <2>4. CASE loc.all /\ s = loc.oldMain /\ s # loc.main
      <3>1. \A c \in Services : InUse(c, "main") = {loc.main}
        BY <1>7, <1>8, <2>4 DEF ServiceKinds
      <3> QED
        BY <2>1, <2>4, <3>1, Disjoint, InUseSorted DEF ServiceKinds
    <2> QED
      BY <1>12, <2>2, <2>3, <2>4
  <1>14. Holding'
    BY <1>0, <1>1, <1>13, InUseFrame DEF Holding, Held, AfterTransport
  <1> QED
    BY <1>4, <1>6, <1>10, <1>11, <1>14 DEF TrackingInv

(* What prune strips is not used: a service that the parent has not told   *)
(* of a newer Secret has applied the one the parent keeps.                 *)
LEMMA PruneStep ==
    ASSUME TypeInv, ServiceInv, TrackingInv, PruneFinalizers
    PROVE  ServiceInv' /\ TrackingInv'
  <1>0. Sorted /\ Working /\ Tracked /\ Holding /\ Read /\ AllApplied /\ ReconcileType
    BY DEF TrackingInv, ServiceInv, TypeInv
  <1>1. /\ UNCHANGED <<cr, spec, status, tu, sub, run, deploy, pods, loc>>
        /\ pc = "prune" /\ pc' = "patch" /\ fin' = fin \cap Kept
        /\ \E ready \in BOOLEAN : inst' = [inst EXCEPT !.ready = ready]
    BY DEF PruneFinalizers, crVars, busVars, subVars, Goto, Prune
  <1>2. inst' \in StatusSecrets /\ \A k \in ServiceKinds : inst'[k] = inst[k]
    BY <1>0, <1>1 DEF Sorted, StatusSecrets, ServiceKinds
  <1>3. inst'.ac = inst.ac /\ inst'.main = inst.main
    BY <1>2 DEF ServiceKinds
  <1>4. Sorted'
    BY <1>0, <1>1, <1>2 DEF Sorted
  <1>5. Read' /\ AllApplied'
    BY <1>0, <1>1 DEF Read, AllApplied, Known, Local, Wanted, Seen, AfterTransport
  <1>6. ServiceInv'
    BY <1>1, <1>5, ParentFrame
  <1>7. Working'
    <2>1. \A k \in ServiceKinds : Known(k)' = Known(k) /\ Local(k)' = Local(k)
      BY <1>1 DEF Known, Local
    <2> QED
      BY <1>0, <1>1, <1>2, <1>3, <2>1 DEF Working
  <1>8. Tracked'
    BY <1>0, <1>1, <1>2, TrackedFrame
  <1>9. \A c \in Services, k \in ServiceKinds :
            InUse(c, k) \subseteq {inst[k], Local(k), NoSecret}
    <2> SUFFICES ASSUME NEW c \in Services, NEW k \in ServiceKinds
                 PROVE  InUse(c, k) \subseteq {inst[k], Local(k), NoSecret}
      OBVIOUS
    <2>1. CASE Local(k) = Wanted(k)
      BY <1>0, <1>1, <2>1 DEF Tracked
    <2>2. CASE Local(k) # Wanted(k)
      <3>1. Known(k)
        BY <1>0, <1>1 DEF Read, Known, AfterTransport
      <3>2. sub[c].spec[k] = Local(k)
        BY <1>0, <1>1, <2>2, <3>1 DEF Read
      <3>3. sub[c].applied[k] = sub[c].spec[k]
        BY <2>2, <3>2 DEF ServiceInv, MovesOn
      <3> QED
        BY <3>2, <3>3, AppliedInUse
    <2> QED
      BY <2>1, <2>2
  <1>10. \A k \in ServiceKinds : {inst[k], Local(k)} \subseteq Kept
    <2>1. inst["main"] = inst.main /\ inst["ac"] = inst.ac
          /\ Local("main") = loc.main /\ Local("ac") = loc.spec.ac
      BY DEF Local
    <2> QED
      BY <2>1 DEF Kept, ServiceKinds
  <1>11. Holding'
    BY <1>0, <1>1, <1>9, <1>10, InUseFrame DEF Holding, Held, AfterTransport
  <1> QED
    BY <1>4, <1>6, <1>7, <1>8, <1>11 DEF TrackingInv

LEMMA DeleteStep ==
    ASSUME TypeInv, ServiceInv, TrackingInv, ReconcileDelete
    PROVE  ServiceInv' /\ TrackingInv'
  <1>0. Sorted /\ Working /\ Tracked /\ Holding /\ Read /\ AllApplied /\ ReconcileType
    BY DEF TrackingInv, ServiceInv, TypeInv
  <1>1. /\ UNCHANGED <<cr, spec, status, tu, sub, run, deploy, pods, inst>>
        /\ pc = "delete" /\ pc' = "patch" /\ loc' = [loc EXCEPT !.deleted = TRUE]
    BY DEF ReconcileDelete, crVars, busVars, subVars, Goto
  <1>2. /\ loc'.spec = loc.spec /\ loc'.main = loc.main /\ loc'.oldMain = loc.oldMain
        /\ loc'.notif = loc.notif /\ loc'.oldNotif = loc.oldNotif
    BY <1>0, <1>1 DEF ReconcileType, Locals
  <1>3. \A k \in ServiceKinds : Known(k)' = Known(k) /\ Local(k)' = Local(k)
    BY <1>2 DEF Known, Local
  <1>4. Sorted'
    BY <1>0, <1>1, <1>2 DEF Sorted
  <1>5. Read' /\ AllApplied'
    BY <1>0, <1>1, <1>2, <1>3 DEF Read, AllApplied, Wanted, Seen, AfterTransport
  <1>6. ServiceInv'
    BY <1>1, <1>5, ParentFrame
  <1>7. Working'
    BY <1>0, <1>1, <1>2, <1>3 DEF Working
  <1>8. Tracked'
    BY <1>0, <1>1, TrackedFrame
  <1>9. Holding'
    BY <1>0, <1>1 DEF Holding
  <1> QED
    BY <1>4, <1>6, <1>7, <1>8, <1>9 DEF TrackingInv

LEMMA PatchStep ==
    ASSUME TypeInv, ServiceInv, TrackingInv, PatchInstance
    PROVE  ServiceInv' /\ TrackingInv'
  <1>0. Sorted /\ Working /\ Tracked /\ Holding /\ Read /\ AllApplied
    BY DEF TrackingInv, ServiceInv
  <1>1. /\ UNCHANGED <<spec, tu, fin, sub, run, deploy, pods>>
        /\ pc = "patch" /\ pc' = "idle" /\ status' = inst /\ inst' = NoStatus
        /\ loc' = NoLocals /\ cr' = IF loc.deleted THEN "gone" ELSE cr
    BY DEF PatchInstance, busVars, subVars, Goto
  <1>2. NoStatus \in StatusSecrets
    BY TypeFacts DEF StatusSecrets, NoStatus
  <1>3. Sorted'
    BY <1>0, <1>1, <1>2 DEF Sorted, NoLocals
  <1>4. Read' /\ AllApplied'
    BY <1>0, <1>1 DEF Read, AllApplied, Seen, AfterTransport, NoLocals
  <1>5. ServiceInv'
    BY <1>1, <1>4, ParentFrame
  <1>6. Working' /\ Holding'
    BY <1>0, <1>1, InUseFrame DEF Working, Holding, Held, NoLocals, AfterTransport
  <1>7. Tracked'
    <2> SUFFICES ASSUME NEW c \in Services, NEW k \in ServiceKinds
                 PROVE  InUse(c, k)' \subseteq {status[k], Wanted(k), NoSecret}'
      BY <1>1 DEF Tracked
    <2>1. InUse(c, k) \subseteq {inst[k], Wanted(k), NoSecret} /\ Wanted(k)' = Wanted(k)
      BY <1>0, <1>1 DEF Tracked, Wanted
    <2> QED
      BY <1>1, <2>1, InUseFrame
  <1> QED
    BY <1>3, <1>5, <1>6, <1>7 DEF TrackingInv

(* A restart of the operator loses what nobody has used yet.               *)
LEMMA CrashStep ==
    ASSUME TypeInv, ServiceInv, TrackingInv, Crash
    PROVE  ServiceInv' /\ TrackingInv'
  <1>0. Sorted /\ Working /\ Tracked /\ Holding /\ Read /\ AllApplied
    BY DEF TrackingInv, ServiceInv
  <1>1. /\ UNCHANGED <<cr, spec, status, tu, fin, sub, deploy, pods>>
        /\ pc' = "idle" /\ inst' = NoStatus /\ loc' = NoLocals
        /\ \A c \in Children : run'[c].pc = "idle"
    BY DEF Crash, crVars, busVars, Goto, NoRun
  <1>2. NoStatus \in StatusSecrets
    BY TypeFacts DEF StatusSecrets, NoStatus
  <1>3. Sorted'
    BY <1>0, <1>1, <1>2 DEF Sorted, NoLocals
  <1>4. Read' /\ AllApplied'
    BY <1>0, <1>1 DEF Read, AllApplied, Seen, AfterTransport, NoLocals
  <1>5. \A c \in Services, k \in ServiceKinds : Applied(c, k)' /\ Rolling(c, k)' /\ MovesOn(c, k)'
    BY <1>1, ChildFacts DEF ServiceInv, Applied, Rolling, MovesOn, AllOn, Wanted
  <1>6. \A c \in Services : NoNotif(c)'
    BY <1>1 DEF ServiceInv, NoNotif
  <1>7. ServiceInv'
    BY <1>4, <1>5, <1>6 DEF ServiceInv, NoNotif
  <1>8. \A c \in Services, k \in ServiceKinds : InUse(c, k)' \subseteq InUse(c, k)
    BY <1>1, ChildFacts DEF InUse
  <1>9. \A k \in ServiceKinds : Wanted(k)' = Wanted(k)
    BY <1>1 DEF Wanted
  <1>10. Working' /\ Holding' /\ Tracked'
    BY <1>0, <1>1, <1>8, <1>9
       DEF Working, Holding, Held, Tracked, NoLocals, AfterTransport
  <1> QED
    BY <1>3, <1>7, <1>10 DEF TrackingInv

-----------------------------------------------------------------------------
(* Changes of what the services should use.                                *)

(* A Secret is replaced when all services have applied it and the status   *)
(* tracks it, or when there was none.                                      *)
LEMMA NewWanted ==
    ASSUME TypeInv, ServiceInv, TrackingInv, NEW kind \in ServiceKinds,
           UNCHANGED <<cr, status, sub, run, deploy, pods, fin, pc, inst, loc>>,
           spec'.oslo = spec.oslo, tu'["main"] = NoSecret => tu["main"] = NoSecret,
           \A k \in ServiceKinds \ {kind} : Wanted(k)' = Wanted(k),
           \A c \in Services : sub[c].spec[kind] = Wanted(kind) /\ sub[c].applied[kind] = Wanted(kind),
           status[kind] = Wanted(kind) \/ Wanted(kind) = NoSecret, Sorted'
    PROVE  ServiceInv' /\ TrackingInv'
  <1>0. Sorted /\ Working /\ Tracked /\ Holding /\ Read /\ AllApplied
    BY DEF TrackingInv, ServiceInv
  <1>1. \A k \in ServiceKinds : Local(k)' = Local(k) /\ Known(k)' = Known(k)
    BY DEF Local, Known
  <1>2. \A c \in Services : InUse(c, kind) = {Wanted(kind)}
    BY AppliedInUse
  <1>3. pc # "idle" /\ Known(kind) => Local(kind) = Wanted(kind)
    <2>1. "api" \in Services
      BY ChildFacts
    <2> QED
      BY <1>0, <2>1 DEF Read
  <1>4. \A c \in Services, k \in ServiceKinds : Applied(c, k)' /\ Rolling(c, k)'
    BY DEF ServiceInv, Applied, Rolling, AllOn
  <1>5. \A c \in Services, k \in ServiceKinds : MovesOn(c, k)'
    BY DEF ServiceInv, MovesOn
  <1>6. \A c \in Services : NoNotif(c)'
    BY DEF ServiceInv, NoNotif
  <1>7. Read'
    <2>1. \A k \in ServiceKinds : pc # "idle" /\ Known(k) /\ Local(k) # Wanted(k)'
              => \A c \in Services : sub[c].spec[k] = Local(k)
      BY <1>0, <1>3 DEF Read
    <2> QED
      BY <1>0, <1>1, <2>1 DEF Read
  <1>8. AllApplied'
    BY <1>0, <1>1 DEF AllApplied, Seen
  <1>9. ServiceInv'
    BY <1>4, <1>5, <1>6, <1>7, <1>8 DEF ServiceInv, NoNotif
  <1>10. Working'
    BY <1>0, <1>1 DEF Working
  <1>11. Tracked'
    <2> SUFFICES ASSUME NEW c \in Services, NEW k \in ServiceKinds
                 PROVE  /\ InUse(c, k)' \subseteq {status[k], Wanted(k), NoSecret}'
                        /\ pc # "idle" => InUse(c, k)' \subseteq {inst[k], Wanted(k), NoSecret}'
      BY DEF Tracked
    <2>1. InUse(c, k)' = InUse(c, k)
      BY InUseFrame
    <2>2. CASE k # kind
      BY <1>0, <2>1, <2>2 DEF Tracked
    <2>3. CASE k = kind
      <3>1. InUse(c, k) \subseteq {status[k], NoSecret}
        BY <1>2, <2>3
      <3>2. pc # "idle" => InUse(c, k) \subseteq {inst[k], NoSecret}
        BY <1>0, <1>2, <1>3, <2>3 DEF Working
      <3> QED
        BY <2>1, <3>1, <3>2
    <2> QED
      BY <2>2, <2>3
  <1>12. Holding'
    BY <1>0, InUseFrame DEF Holding, Held
  <1> QED
    BY <1>9, <1>10, <1>11, <1>12, Sorted' DEF TrackingInv

LEMMA SameWanted ==
    ASSUME ServiceInv, TrackingInv,
           UNCHANGED <<status, sub, run, deploy, pods, fin, pc, inst, loc>>,
           cr' = cr \/ (cr = "active" /\ cr' = "deleting"),
           spec'.oslo = spec.oslo, spec'.ac = spec.ac, tu'["main"] = tu["main"], Sorted'
    PROVE  ServiceInv' /\ TrackingInv'
  <1>0. Sorted /\ Working /\ Tracked /\ Holding /\ Read /\ AllApplied
    BY DEF TrackingInv, ServiceInv
  <1>1. \A k \in ServiceKinds : /\ Local(k)' = Local(k) /\ Known(k)' = Known(k)
                                /\ Wanted(k)' = Wanted(k)
    BY DEF Local, Known, Wanted
  <1>2. \A c \in Services, k \in ServiceKinds : Applied(c, k)' /\ Rolling(c, k)' /\ MovesOn(c, k)'
    BY <1>1 DEF ServiceInv, Applied, Rolling, AllOn, MovesOn
  <1>3. \A c \in Services : NoNotif(c)'
    BY DEF ServiceInv, NoNotif
  <1>4. Read' /\ AllApplied'
    BY <1>0, <1>1 DEF Read, AllApplied, Seen
  <1>5. ServiceInv'
    BY <1>2, <1>3, <1>4 DEF ServiceInv, NoNotif
  <1>6. Working'
    BY <1>0, <1>1 DEF Working
  <1>7. Tracked' /\ Holding'
    BY <1>0, <1>1, InUseFrame DEF Tracked, Holding, Held
  <1> QED
    BY <1>5, <1>6, <1>7 DEF TrackingInv

(* Issues, rotations and edits, with oslo staying the transport.           *)
LEMMA ChangeStep ==
    ASSUME TypeInv, ServiceInv, TrackingInv, ~ RapidRotation, MaxRPCEdits = 0,
           \/ \E b \in Buses : IssueSecret(b) \/ RotateSecret(b)
           \/ \E k \in {"ac", "iac"} : EditCredential(k)
           \/ ToggleNotifications \/ ToggleRPCTransport \/ DeleteCR \/ JobDone
           \/ UNCHANGED vars
    PROVE  ServiceInv' /\ TrackingInv'
  <1>0. Sorted
    BY DEF TrackingInv
  <1>1. CASE \E b \in Buses : IssueSecret(b) \/ RotateSecret(b)
    <2>1. PICK b \in Buses : IssueSecret(b) \/ RotateSecret(b)
      BY <1>1
    <2>2. PICK s \in SecretsOf[b] : tu' = [tu EXCEPT ![b] = s]
      BY <2>1 DEF IssueSecret, RotateSecret
    <2>3. UNCHANGED <<cr, spec, status, sub, run, deploy, pods, fin, pc, inst, loc>>
      BY <2>1 DEF IssueSecret, RotateSecret, crVars, subVars, parentRun
    <2>4. tu'[b] = s /\ \A d \in Buses \ {b} : tu'[d] = tu[d]
      BY <2>2 DEF TypeInv, CRType
    <2>5. Sorted'
      BY <1>0, <2>2, <2>3, <2>4, SecretFacts DEF Sorted, Buses
    <2>6. CASE b = "notif"
      <3>1. tu'["main"] = tu["main"]
        BY <2>4, <2>6 DEF Buses
      <3> QED
        BY <2>3, <2>5, <3>1, SameWanted
    <2>7. CASE b = "main"
      <3>1. tu'["main"] # NoSecret
        BY <2>2, <2>4, <2>7, SecretFacts, Disjoint
      <3>2. \A c \in Services : sub[c].spec["main"] = Wanted("main")
                                /\ sub[c].applied["main"] = Wanted("main")
        <4>1. CASE IssueSecret(b)
          BY <2>7, <4>1 DEF IssueSecret, ServiceInv, MovesOn, Wanted, ServiceKinds
        <4>2. CASE RotateSecret(b)
          BY <2>7, <4>2 DEF RotateSecret, Replaceable, Wanted
        <4> QED
          BY <2>1, <4>1, <4>2
      <3>3. status["main"] = Wanted("main") \/ Wanted("main") = NoSecret
        BY <2>1, <2>7 DEF IssueSecret, RotateSecret, Replaceable, Wanted
      <3>4. \A k \in ServiceKinds \ {"main"} : Wanted(k)' = Wanted(k)
        BY <2>3 DEF Wanted
      <3>5. "main" \in ServiceKinds
        BY DEF ServiceKinds
      <3> QED
        BY <2>3, <2>5, <3>1, <3>2, <3>3, <3>4, <3>5, NewWanted
    <2> QED
      BY <2>6, <2>7 DEF Buses
  <1>2. CASE \E k \in {"ac", "iac"} : EditCredential(k)
    <2>1. PICK k \in {"ac", "iac"} : EditCredential(k)
      BY <1>2
    <2>2. PICK s \in SecretsOf[k] \cup {NoSecret} : spec' = [spec EXCEPT ![k] = s]
      BY <2>1 DEF EditCredential, Edit
    <2>3. UNCHANGED <<cr, tu, status, sub, run, deploy, pods, fin, pc, inst, loc>>
      BY <2>1 DEF EditCredential, Edit, busVars, subVars, parentRun
    <2>4. spec'.oslo = spec.oslo /\ (k = "iac" => spec'.ac = spec.ac)
      BY <2>2 DEF TypeInv, CRType, UserSpec
    <2>5. Sorted'
      BY <1>0, <2>3 DEF Sorted
    <2>6. CASE k = "iac"
      BY <2>3, <2>4, <2>5, <2>6, SameWanted
    <2>7. CASE k = "ac"
      <3>1. Replaceable("ac", spec["ac"])
        BY <2>1, <2>7 DEF EditCredential
      <3>2. spec["ac"] = Wanted("ac")
        BY DEF TypeInv, CRType, UserSpec, Wanted
      <3>3. /\ status["ac"] = Wanted("ac")
            /\ \A c \in Services : sub[c].spec["ac"] = Wanted("ac")
                                   /\ sub[c].applied["ac"] = Wanted("ac")
        BY <3>1, <3>2 DEF Replaceable
      <3>4. \A j \in ServiceKinds \ {"ac"} : Wanted(j)' = Wanted(j)
        BY <2>3 DEF Wanted, ServiceKinds
      <3>5. "ac" \in ServiceKinds
        BY DEF ServiceKinds
      <3> QED
        BY <2>3, <2>4, <2>5, <3>3, <3>4, <3>5, NewWanted
    <2> QED
      BY <2>6, <2>7
  <1>3. CASE ToggleNotifications
    <2>1. /\ UNCHANGED <<cr, tu, status, sub, run, deploy, pods, fin, pc, inst, loc>>
          /\ spec' = [spec EXCEPT !.bus = ~ spec.bus]
      BY <1>3 DEF ToggleNotifications, Edit, busVars, subVars, parentRun
    <2>2. spec'.oslo = spec.oslo /\ spec'.ac = spec.ac
      BY <2>1 DEF TypeInv, CRType, UserSpec
    <2>3. Sorted'
      BY <1>0, <2>1 DEF Sorted
    <2> QED
      BY <2>1, <2>2, <2>3, SameWanted
  <1>4. CASE ToggleRPCTransport
    <2>1. spent.rpc \in Nat /\ spent.rpc < 0
      BY <1>4 DEF ToggleRPCTransport, Edit, Spend, TypeInv, SpentType
    <2> QED
      BY <2>1
  <1>5. CASE DeleteCR \/ JobDone \/ UNCHANGED vars
    <2>1. /\ UNCHANGED <<spec, tu, status, sub, run, deploy, pods, fin, pc, inst, loc>>
          /\ cr' = cr \/ (cr = "active" /\ cr' = "deleting")
      BY <1>5 DEF DeleteCR, JobDone, vars, crVars, busVars, subVars, parentRun
    <2>2. Sorted'
      BY <1>0, <2>1 DEF Sorted
    <2> QED
      BY <2>1, <2>2, SameWanted
  <1> QED
    BY <1>1, <1>2, <1>3, <1>4, <1>5

(* What ReconcileSubCR does to the services.                               *)
LEMMA SubCREffect ==
    ASSUME TypeInv, ServiceInv, ReconcileSubCR
    PROVE  /\ pc = "children" /\ loc.next \in 1 .. Len(SubCRs)
           /\ UNCHANGED <<cr, spec, status, tu, fin, deploy, pods, inst>>
           /\ pc' = IF loc.next = Len(SubCRs) THEN "finalize" ELSE "children"
           /\ loc'.spec = loc.spec /\ loc'.main = loc.main /\ loc'.oldMain = loc.oldMain
           /\ loc'.notif = loc.notif /\ loc'.oldNotif = loc.oldNotif
           /\ loc'.deleted = loc.deleted /\ loc'.next = loc.next + 1
           /\ \A c \in Services :
                  /\ sub'[c].applied = sub[c].applied /\ sub'[c].config = sub[c].config
                  /\ run'[c].pc = run[c].pc /\ run'[c].snap = run[c].snap
                  /\ run'[c].applied = run[c].applied
                  /\ \A k \in ServiceKinds :
                         sub'[c].spec[k] = IF c = SubCRs[loc.next] THEN Local(k)
                                           ELSE sub[c].spec[k]
           /\ loc'.all => loc.all /\ (SubCRs[loc.next] \in Services =>
                  sub'[SubCRs[loc.next]].applied = sub'[SubCRs[loc.next]].spec)
  <1> DEFINE d == SubCRs[loc.next]
             s == IF sub[d].spec = SubSpec(d) /\ sub[d].stage # "absent" THEN sub[d]
                  ELSE [sub[d] EXCEPT !.spec = SubSpec(d), !.observed = FALSE,
                            !.stage = IF @ = "absent" THEN "new" ELSE @]
  <1>1. /\ pc = "children" /\ UNCHANGED <<cr, spec, status, tu, fin, deploy, pods, inst>>
        /\ pc' = IF loc.next = Len(SubCRs) THEN "finalize" ELSE "children"
    BY DEF ReconcileSubCR, crVars, busVars, Goto
  <1>2. loc.next \in 1 .. Len(SubCRs) /\ loc \in Locals
    BY <1>1 DEF TypeInv, ReconcileType
  <1>3. d \in Children
    BY <1>2, ChildFacts
  <1>4. /\ sub \in [Children -> SubCR] /\ run \in [Children -> SubRun]
    BY DEF TypeInv, SubsType
  <1>5. /\ sub' = [sub EXCEPT ![d] = s]
        /\ run' = [run EXCEPT ![d].seen = @ /\ s = sub[d]]
        /\ loc' = [loc EXCEPT !.next = @ + 1, !.all = @ /\ UpToDate(d, s),
                       !.waiting = @ \/ (ConditionOf(d) = "conductor" /\ ~UpToDate(d, s)),
                       !.up = Mirrored(d, s)]
    BY DEF ReconcileSubCR
  <1>6. s.spec = SubSpec(d) /\ s.applied = sub[d].applied /\ s.config = sub[d].config
    BY <1>3, <1>4 DEF SubCR
  <1> HIDE DEF s
  <1>7. /\ loc'.spec = loc.spec /\ loc'.main = loc.main /\ loc'.oldMain = loc.oldMain
        /\ loc'.notif = loc.notif /\ loc'.oldNotif = loc.oldNotif
        /\ loc'.deleted = loc.deleted /\ loc'.next = loc.next + 1
        /\ loc'.all = (loc.all /\ UpToDate(d, s))
    BY <1>2, <1>5 DEF Locals
  <1>8. sub'[d] = s /\ \A c \in Children \ {d} : sub'[c] = sub[c] /\ run'[c] = run[c]
    BY <1>3, <1>4, <1>5
  <1>9. /\ run'[d].pc = run[d].pc /\ run'[d].snap = run[d].snap
        /\ run'[d].applied = run[d].applied
    BY <1>3, <1>4, <1>5 DEF SubRun
  <1>10. d \in Services => \A k \in ServiceKinds : s.spec[k] = Local(k)
    <2>1. loc.spec.oslo
      BY DEF ServiceInv, Read
    <2> QED
      BY <1>6, <2>1 DEF SubSpec, ServiceSpec, MainInput, Local, ServiceKinds
  <1>11. \A c \in Services : c \in Children
    BY ChildFacts
  <1>12. \A c \in Services :
                  /\ sub'[c].applied = sub[c].applied /\ sub'[c].config = sub[c].config
                  /\ run'[c].pc = run[c].pc /\ run'[c].snap = run[c].snap
                  /\ run'[c].applied = run[c].applied
                  /\ \A k \in ServiceKinds :
                         sub'[c].spec[k] = IF c = d THEN Local(k) ELSE sub[c].spec[k]
    BY <1>6, <1>8, <1>9, <1>10, <1>11
  <1>13. loc'.all => loc.all /\ (d \in Services => sub'[d].applied = sub'[d].spec)
    BY <1>7, <1>8 DEF UpToDate
  <1> QED
    BY <1>1, <1>2, <1>7, <1>12, <1>13

(* A service only gets a new Secret once it has applied the one before.    *)
LEMMA SubCRStep ==
    ASSUME TypeInv, ServiceInv, TrackingInv, ReconcileSubCR
    PROVE  ServiceInv' /\ TrackingInv'
  <1> DEFINE d == SubCRs[loc.next]
  <1>0. Sorted /\ Working /\ Tracked /\ Holding /\ Read /\ AllApplied
    BY DEF TrackingInv, ServiceInv
  <1>1. /\ pc = "children" /\ loc.next \in 1 .. Len(SubCRs)
        /\ UNCHANGED <<cr, spec, status, tu, fin, deploy, pods, inst>>
        /\ pc' = IF loc.next = Len(SubCRs) THEN "finalize" ELSE "children"
        /\ loc'.spec = loc.spec /\ loc'.main = loc.main /\ loc'.oldMain = loc.oldMain
        /\ loc'.notif = loc.notif /\ loc'.oldNotif = loc.oldNotif
        /\ loc'.deleted = loc.deleted /\ loc'.next = loc.next + 1
    BY SubCREffect
  <1>2. \A c \in Services :
            /\ sub'[c].applied = sub[c].applied /\ sub'[c].config = sub[c].config
            /\ run'[c].pc = run[c].pc /\ run'[c].snap = run[c].snap
            /\ run'[c].applied = run[c].applied
            /\ \A k \in ServiceKinds :
                   sub'[c].spec[k] = IF c = d THEN Local(k) ELSE sub[c].spec[k]
    BY SubCREffect
  <1>3. loc'.all => loc.all /\ (d \in Services => sub'[d].applied = sub'[d].spec)
    BY SubCREffect
  <1>4. \A k \in ServiceKinds : /\ Local(k)' = Local(k) /\ Wanted(k)' = Wanted(k)
                                /\ Known(k) /\ Known(k)'
    BY <1>0, <1>1 DEF Local, Wanted, Known, Read, AfterTransport
  <1>5. \A c \in Services, k \in ServiceKinds :
            sub'[c].spec[k] # sub[c].spec[k] =>
                /\ sub'[c].spec[k] = Local(k) /\ Local(k) = Wanted(k)
                /\ sub[c].applied[k] = sub[c].spec[k]
    <2> SUFFICES ASSUME NEW c \in Services, NEW k \in ServiceKinds,
                        sub'[c].spec[k] # sub[c].spec[k]
                 PROVE  /\ sub'[c].spec[k] = Local(k) /\ Local(k) = Wanted(k)
                        /\ sub[c].applied[k] = sub[c].spec[k]
      OBVIOUS
    <2>1. sub'[c].spec[k] = Local(k) /\ sub[c].spec[k] # Local(k)
      BY <1>2
    <2>2. Local(k) = Wanted(k)
      BY <1>0, <1>1, <1>4, <2>1 DEF Read
    <2> QED
      BY <2>1, <2>2 DEF ServiceInv, MovesOn
  <1>6. \A c \in Services, k \in ServiceKinds : Applied(c, k)' /\ Rolling(c, k)'
    <2> SUFFICES ASSUME NEW c \in Services, NEW k \in ServiceKinds
                 PROVE  Applied(c, k)' /\ Rolling(c, k)'
      OBVIOUS
    <2>1. Applied(c, k) /\ Rolling(c, k)
      BY DEF ServiceInv
    <2>2. CASE sub'[c].spec[k] = sub[c].spec[k]
      BY <1>1, <1>2, <2>1, <2>2 DEF Applied, Rolling, AllOn
    <2>3. CASE sub'[c].spec[k] # sub[c].spec[k]
      <3>1. AllOn(c, k, sub[c].spec[k]) /\ sub[c].applied[k] = sub[c].spec[k]
        BY <1>5, <2>3, AppliedInUse
      <3> QED
        BY <1>1, <1>2, <2>3, <3>1 DEF Applied, Rolling, AllOn
    <2> QED
      BY <2>2, <2>3
  <1>7. tu["main"] # NoSecret
    <2>1. "api" \in Services /\ "main" \in ServiceKinds
      BY ChildFacts DEF ServiceKinds
    <2>2. loc.main # NoSecret /\ Local("main") = loc.main /\ Wanted("main") = tu["main"]
      BY <1>0, <1>1 DEF Read, AfterTransport, Local, Wanted
    <2>3. tu["main"] = NoSecret => sub["api"].spec["main"] = NoSecret
      BY <2>1 DEF ServiceInv, MovesOn
    <2>4. tu["main"] = NoSecret => sub["api"].spec["main"] = loc.main
      BY <1>0, <1>1, <1>4, <2>1, <2>2 DEF Read
    <2> QED
      BY <2>2, <2>3, <2>4
  <1>8. \A c \in Services, k \in ServiceKinds : MovesOn(c, k)'
    <2> SUFFICES ASSUME NEW c \in Services, NEW k \in ServiceKinds PROVE MovesOn(c, k)'
      OBVIOUS
    <2>1. sub'[c].spec[k] # Wanted(k)' => sub'[c].applied[k] = sub'[c].spec[k]
      BY <1>2, <1>4, <1>5 DEF ServiceInv, MovesOn
    <2> QED
      BY <1>1, <1>7, <2>1 DEF MovesOn
  <1>9. \A c \in Services : NoNotif(c)'
    BY <1>1, <1>2 DEF ServiceInv, NoNotif
  <1>10. Read'
    BY <1>0, <1>1, <1>2, <1>4 DEF Read, AfterTransport
  <1>11. AllApplied'
    <2> SUFFICES ASSUME loc'.all, NEW i \in 1 .. Len(SubCRs), NEW k \in ServiceKinds,
                        Seen(i)', SubCRs[i] \in Services
                 PROVE  /\ sub'[SubCRs[i]].spec[k] = Local(k)
                        /\ sub'[SubCRs[i]].applied[k] = Local(k)
      BY <1>4 DEF AllApplied
    <2>1. i < loc.next \/ i = loc.next
      BY <1>1 DEF Seen
    <2>2. CASE i < loc.next
      <3>1. /\ sub[SubCRs[i]].spec[k] = Local(k)
            /\ sub[SubCRs[i]].applied[k] = Local(k)
        BY <1>0, <1>1, <1>3, <2>2 DEF AllApplied, Seen
      <3> QED
        BY <1>2, <3>1
    <2>3. CASE i = loc.next
      BY <1>2, <1>3, <2>3
    <2> QED
      BY <2>1, <2>2, <2>3
  <1>12. ServiceInv'
    BY <1>6, <1>8, <1>9, <1>10, <1>11 DEF ServiceInv, NoNotif
  <1>13. Sorted'
    BY <1>0, <1>1 DEF Sorted
  <1>14. Working'
    <2>1. \A k \in ServiceKinds :
              inst[k] # status[k] => inst[k] = Local(k)
      BY <1>0, <1>1 DEF Working
    <2> QED
      BY <1>0, <1>1, <1>2, <1>4, <2>1 DEF Working
  <1>15. \A c \in Services, k \in ServiceKinds :
             InUse(c, k)' \subseteq InUse(c, k) \cup
                 (IF sub'[c].spec[k] = sub[c].spec[k] THEN {} ELSE {Local(k)})
    BY <1>1, <1>2, <1>5 DEF InUse
  <1>16. Tracked'
    <2> SUFFICES ASSUME NEW c \in Services, NEW k \in ServiceKinds
                 PROVE  /\ InUse(c, k)' \subseteq {status[k], Wanted(k), NoSecret}
                        /\ InUse(c, k)' \subseteq {inst[k], Wanted(k), NoSecret}
      BY <1>1, <1>4 DEF Tracked
    <2>1. /\ InUse(c, k) \subseteq {status[k], Wanted(k), NoSecret}
          /\ InUse(c, k) \subseteq {inst[k], Wanted(k), NoSecret}
      BY <1>0, <1>1 DEF Tracked
    <2>2. InUse(c, k)' \subseteq InUse(c, k) \cup {Wanted(k)}
      BY <1>5, <1>15
    <2> QED
      BY <2>1, <2>2
  <1>17. Holding'
    <2>1. cr \in {"new", "active"} => \A k \in ServiceKinds : Held(Local(k))
      BY <1>0, <1>1 DEF Holding, AfterTransport, Local, ServiceKinds
    <2>2. cr \in {"new", "active"} =>
              \A c \in Services, k \in ServiceKinds : \A s \in InUse(c, k)' : Held(s)
      BY <1>0, <1>15, <2>1 DEF Holding
    <2> QED
      BY <1>0, <1>1, <2>2 DEF Holding, Held, AfterTransport
  <1> QED
    BY <1>12, <1>13, <1>14, <1>16, <1>17 DEF TrackingInv

-----------------------------------------------------------------------------
(* The theorems.  Their hypotheses leave out two histories in which the    *)
(* code does not keep the promise: a Secret replaced again before the      *)
(* services have applied the last one, and a change of the transport.      *)

LEMMA ServicesNext ==
    ASSUME TypeInv, ServiceInv, TrackingInv, ~ RapidRotation, MaxRPCEdits = 0, [Next]_vars
    PROVE  ServiceInv' /\ TrackingInv'
  <1>1. CASE ReconcileParent \/ StepFails \/ Crash
    BY <1>1, StartStep, TransportStep, QuietSteps, SubCRStep, FinalizeStep, PruneStep,
       DeleteStep, PatchStep, CrashStep DEF ReconcileParent
  <1>2. CASE \E c \in Children : ReconcileSub(c) \/ SubFails(c) \/ Rollout(c) \/ RestartPod(c)
    BY <1>2, ServicesStep
  <1>3. CASE ~ (\/ ReconcileParent \/ StepFails \/ Crash
                \/ \E c \in Children : ReconcileSub(c) \/ SubFails(c) \/ Rollout(c)
                                       \/ RestartPod(c))
    BY <1>3, ChangeStep DEF Next
  <1> QED
    BY <1>1, <1>2, <1>3

LEMMA ServicesAlways ==
    ASSUME ~ RapidRotation, MaxRPCEdits = 0
    PROVE  Spec => [](TypeInv /\ ServiceInv /\ TrackingInv)
  <1>1. Init => TypeInv /\ ServiceInv /\ TrackingInv
    BY TypeInit, ServicesInit
  <1>2. TypeInv /\ ServiceInv /\ TrackingInv /\ [Next]_vars
            => (TypeInv /\ ServiceInv /\ TrackingInv)'
    BY TypeStep, ServicesNext
  <1> QED
    BY <1>1, <1>2, PTL DEF Spec

(* A Secret that conductor and API pods use, or will use when they start   *)
(* from the config-data there is, carries the consumer finalizer, whatever *)
(* the order of rotations, edits, failures, restarts and rollouts.         *)
THEOREM ServicesAlwaysProtected ==
    ASSUME ~ RapidRotation, MaxRPCEdits = 0
    PROVE  Spec => []ServicesProtected
  <1>1. TypeInv /\ ServiceInv /\ TrackingInv => ServicesProtected
    <2> SUFFICES ASSUME TypeInv, TrackingInv, cr \in {"new", "active"}, NEW c \in Services
                 PROVE  /\ Uses(sub[c].config) \subseteq fin
                        /\ \A p \in pods[c] : Uses(p.cfg) \subseteq fin
      BY DEF ServicesProtected
    <2>1. \A k \in ServiceKinds : InUse(c, k) \subseteq fin \cup {NoSecret}
      BY DEF TrackingInv, Holding, Held
    <2>2. \A k \in ServiceKinds : /\ sub[c].config[k] \in fin \cup {NoSecret}
                                  /\ \A p \in pods[c] : p.cfg[k] \in fin \cup {NoSecret}
      BY <2>1 DEF InUse
    <2>3. /\ sub[c].config["main"] = sub[c].config.main /\ sub[c].config["ac"] = sub[c].config.ac
          /\ \A p \in pods[c] : p.cfg["main"] = p.cfg.main /\ p.cfg["ac"] = p.cfg.ac
      OBVIOUS
    <2> QED
      BY <2>2, <2>3 DEF Uses, ServiceKinds
  <1> QED
    BY <1>1, ServicesAlways, PTL

(* AppliedInputSecretHash with the expected value means that every pod of  *)
(* the conductor or API has loaded the Secrets its spec names.             *)
THEOREM AppliedAlwaysMeansLoaded ==
    ASSUME ~ RapidRotation, MaxRPCEdits = 0
    PROVE  Spec => []AppliedMeansLoaded
  <1>1. TypeInv /\ ServiceInv => AppliedMeansLoaded
    <2> SUFFICES ASSUME TypeInv, ServiceInv, NEW c \in Services, sub[c].applied = sub[c].spec,
                        NEW p \in pods[c]
                 PROVE  p.cfg = [sub[c].spec EXCEPT !.notif = NoSecret]
      BY DEF AppliedMeansLoaded, UpToDate
    <2>1. c \in Children
      BY ChildFacts
    <2>2. sub[c].spec \in Inputs /\ p.cfg \in Inputs
      BY <2>1 DEF TypeInv, SubsType, SubCR, Pod
    <2>3. \A k \in ServiceKinds : p.cfg[k] = sub[c].spec[k]
      BY AppliedInUse DEF AllOn
    <2>4. p.cfg.main = sub[c].spec.main /\ p.cfg.ac = sub[c].spec.ac
      BY <2>3 DEF ServiceKinds
    <2>5. p.cfg.notif = NoSecret
      BY DEF ServiceInv
    <2> QED
      BY <2>2, <2>4, <2>5 DEF Inputs
  <1> QED
    BY <1>1, ServicesAlways, PTL

(* Status stops naming a transport or credential Secret, so that nobody    *)
(* keeps it alive for the CR, only when no conductor or API pod uses it.   *)
THEOREM AlwaysTrackedUntilUnused ==
    ASSUME ~ RapidRotation, MaxRPCEdits = 0
    PROVE  Spec => TrackedUntilUnused
  <1> DEFINE Step == \A k \in {"main", "ac"} :
                 (status'[k] # status[k] /\ status[k] # NoSecret)
                     => \A c \in Services : \A p \in pods[c] : status[k] \notin Uses(p.cfg)
  <1>1. TypeInv /\ ServiceInv /\ TrackingInv /\ [Next]_vars => [Step]_vars
    <2> SUFFICES ASSUME TypeInv, ServiceInv, TrackingInv, Next, NEW k \in ServiceKinds,
                        status'[k] # status[k], status[k] # NoSecret,
                        NEW c \in Services, NEW p \in pods[c]
                 PROVE  status[k] \notin Uses(p.cfg)
      BY DEF ServiceKinds
    <2>1. PatchInstance
      BY DEF Next, ReconcileParent, ReconcileNew, ReconcileStart, ReconcileTransport,
             ReconcileNotifications, ReconcileConfig, ReconcileUpgrade, ReconcileSubCR,
             FinalizeRotations, DeleteNotificationsURL, PruneFinalizers, ReconcileDelete,
             StepFails, Crash, ReconcileSub, SubNew, SubStart, SubReconcile, SubPatch,
             SubFails, Rollout, StartPod, StopPod, RestartPod, Workload, IssueSecret,
             RotateSecret, EditCredential, ToggleNotifications, ToggleRPCTransport, Edit,
             DeleteCR, JobDone, crVars
    <2>2. pc = "patch" /\ status'[k] = inst[k]
      BY <2>1 DEF PatchInstance
    <2>3. sub[c].spec[k] = inst[k] /\ sub[c].applied[k] = inst[k]
      BY <2>2 DEF TrackingInv, Working
    <2>4. p.cfg[k] = inst[k]
      BY <2>3, AppliedInUse DEF AllOn
    <2>5. /\ status.main \in TransportSecrets \cup {NoSecret}
          /\ status.ac \in ACSecrets \cup {NoSecret}
      BY DEF TrackingInv, Sorted, StatusSecrets
    <2>6. /\ InUse(c, "main") \subseteq TransportSecrets \cup {NoSecret}
          /\ InUse(c, "ac") \subseteq ACSecrets \cup {NoSecret}
      BY InUseSorted
    <2>7. p.cfg["main"] \in InUse(c, "main") /\ p.cfg["ac"] \in InUse(c, "ac")
      BY DEF InUse
    <2>8. /\ p.cfg.main \in TransportSecrets \cup {NoSecret}
          /\ p.cfg.ac \in ACSecrets \cup {NoSecret}
      BY <2>6, <2>7
    <2>9. CASE k = "main"
      <3>1. p.cfg.main # status.main
        BY <2>2, <2>4, <2>9
      <3>2. status["main"] = status.main
        OBVIOUS
      <3> QED
        BY <2>5, <2>8, <2>9, <3>1, <3>2, Disjoint DEF Uses
    <2>10. CASE k = "ac"
      <3>1. p.cfg.ac # status.ac
        BY <2>2, <2>4, <2>10
      <3>2. status["ac"] = status.ac
        OBVIOUS
      <3> QED
        BY <2>5, <2>8, <2>10, <3>1, <3>2, Disjoint DEF Uses
    <2> QED
      BY <2>9, <2>10 DEF ServiceKinds
  <1> QED
    BY <1>1, ServicesAlways, PTL DEF Spec, TrackedUntilUnused

-----------------------------------------------------------------------------
(* Readiness, for one conductor group: several share a condition, and the  *)
(* one mirrored last hides the others.                                     *)

IsCurrent(c) == sub[c].ready /\ UpToDate(c, sub[c])

(* While the parent goes through its sub-CRs and until it stores what it   *)
(* found, a condition is true for a sub-CR that it has seen and that is    *)
(* still current, or an event waits for the parent.                        *)
MirrorInv ==
    /\ pc \in {"transport", "notif", "config", "dbsync"} => loc.up = {}
    /\ pc \in {"finalize", "deleteNotifURL", "prune"} => loc.next = Len(SubCRs) + 1
    /\ pc \in {"children", "finalize", "deleteNotifURL", "prune"} =>
           /\ \A x \in loc.up : \E i \in 1 .. Len(SubCRs) :
                  i < loc.next /\ x = ConditionOf(SubCRs[i])
           /\ "ironic" \notin queue =>
                  \A i \in 1 .. Len(SubCRs) :
                      i < loc.next /\ ConditionOf(SubCRs[i]) \in loc.up => IsCurrent(SubCRs[i])
    /\ pc \notin {"idle", "patch"} => ~ inst.ready
    /\ pc = "patch" /\ inst.ready /\ "ironic" \notin queue
           => \A c \in Children : IsCurrent(c)
ReadyInv == MirrorInv /\ ReadyIsCurrent

LEMMA ConcatElement ==
    ASSUME NEW S, NEW s \in Seq(S), NEW t \in Seq(S), NEW i \in 1 .. Len(s \o t)
    PROVE  \/ \E j \in 1 .. Len(s) : (s \o t)[i] = s[j]
           \/ \E j \in 1 .. Len(t) : (s \o t)[i] = t[j]
  <1>1. /\ Len(s) \in Nat /\ Len(t) \in Nat /\ Len(s \o t) = Len(s) + Len(t)
        /\ (s \o t)[i] = IF i <= Len(s) THEN s[i] ELSE t[i - Len(s)]
    BY ConcatProperties
  <1>2. CASE i <= Len(s)
    BY <1>1, <1>2
  <1>3. CASE ~ (i <= Len(s))
    <2>1. i - Len(s) \in 1 .. Len(t)
      BY <1>1, <1>3
    <2> QED
      BY <1>1, <1>3, <2>1
  <1> QED
    BY <1>2, <1>3

LEMMA WhichChildren ==
    ASSUME NEW i \in 1 .. Len(SubCRs)
    PROVE  \/ \E j \in 1 .. Len(Conductors) : SubCRs[i] = Conductors[j]
           \/ SubCRs[i] = "api"
           \/ SubCRs[i] = "inspector" /\ Inspector
           \/ SubCRs[i] = "agent" /\ Agent
  <1> DEFINE Name == STRING \cup {"api", "inspector", "agent"}
             one == Conductors \o <<"api">>
             two == one \o If(Inspector, "inspector")
  <1> HIDE DEF Name
  <1>1. {"api", "inspector", "agent"} \subseteq Name /\ STRING \subseteq Name
    BY DEF Name
  <1>2. /\ Conductors \in Seq(Name) /\ <<"api">> \in Seq(Name)
        /\ If(Inspector, "inspector") \in Seq(Name) /\ If(Agent, "agent") \in Seq(Name)
    <2>1. Conductors \in Seq(Name)
      BY <1>1, SeqMonotonic, ChildrenAssumption
    <2>2. \A s \in Name : <<s>> \in Seq(Name) /\ <<>> \in Seq(Name)
      OBVIOUS
    <2> QED
      BY <1>1, <2>1, <2>2 DEF If
  <1>3. one \in Seq(Name) /\ two \in Seq(Name)
    BY <1>2, ConcatProperties
  <1>4. SubCRs = two \o If(Agent, "agent")
    BY DEF SubCRs
  <1>5. \A b \in BOOLEAN : \A name : \A j \in 1 .. Len(If(b, name)) : If(b, name)[j] = name /\ b
    BY DEF If
  <1>6. CASE \E j \in 1 .. Len(If(Agent, "agent")) : SubCRs[i] = If(Agent, "agent")[j]
    BY <1>5, <1>6, ChildrenAssumption
  <1>7. CASE \E j \in 1 .. Len(two) : SubCRs[i] = two[j]
    <2>1. PICK j \in 1 .. Len(two) : SubCRs[i] = two[j]
      BY <1>7
    <2>2. CASE \E k \in 1 .. Len(If(Inspector, "inspector")) :
                   two[j] = If(Inspector, "inspector")[k]
      BY <1>5, <2>1, <2>2, ChildrenAssumption
    <2>3. CASE \E k \in 1 .. Len(one) : two[j] = one[k]
      <3>1. PICK k \in 1 .. Len(one) : two[j] = one[k]
        BY <2>3
      <3>2. \/ \E m \in 1 .. Len(Conductors) : one[k] = Conductors[m]
            \/ \E m \in 1 .. Len(<<"api">>) : one[k] = <<"api">>[m]
        BY <1>2, ConcatElement
      <3> QED
        BY <2>1, <3>1, <3>2
    <2>4. \/ \E k \in 1 .. Len(one) : two[j] = one[k]
          \/ \E k \in 1 .. Len(If(Inspector, "inspector")) :
                 two[j] = If(Inspector, "inspector")[k]
      <3> DEFINE tail == If(Inspector, "inspector")
      <3>1. one \in Seq(Name) /\ tail \in Seq(Name) /\ j \in 1 .. Len(one \o tail)
        BY <1>2, <1>3
      <3> HIDE DEF one, tail
      <3>2. \/ \E k \in 1 .. Len(one) : (one \o tail)[j] = one[k]
            \/ \E k \in 1 .. Len(tail) : (one \o tail)[j] = tail[k]
        BY <3>1, ConcatElement
      <3> QED
        BY <3>2 DEF tail
    <2> QED
      BY <2>2, <2>3, <2>4
  <1>8. \/ \E j \in 1 .. Len(two) : SubCRs[i] = two[j]
        \/ \E j \in 1 .. Len(If(Agent, "agent")) : SubCRs[i] = If(Agent, "agent")[j]
    <2> DEFINE tail == If(Agent, "agent")
    <2>1. two \in Seq(Name) /\ tail \in Seq(Name) /\ i \in 1 .. Len(two \o tail)
      BY <1>2, <1>3, <1>4
    <2> HIDE DEF two, tail
    <2>2. \/ \E j \in 1 .. Len(two) : (two \o tail)[i] = two[j]
          \/ \E j \in 1 .. Len(tail) : (two \o tail)[i] = tail[j]
      BY <2>1, ConcatElement
    <2> QED
      BY <1>4, <2>2 DEF tail
  <1> QED
    BY <1>6, <1>7, <1>8

(* With one conductor group every sub-CR has a condition of its own.       *)
LEMMA ConditionsDiffer ==
    ASSUME Len(Conductors) <= 1
    PROVE  /\ \A i, j \in 1 .. Len(SubCRs) :
                  ConditionOf(SubCRs[i]) = ConditionOf(SubCRs[j]) => i = j
           /\ \A c \in Children : ConditionOf(c) \in Conditions
           /\ \A c \in Children : /\ ConditionOf(c) = "inspector" => Inspector
                                  /\ ConditionOf(c) = "agent" => Agent
  <1> DEFINE Named == {"api", "inspector", "agent"}
  <1>1. \A i \in 1 .. Len(SubCRs) : SubCRs[i] \notin Named => SubCRs[i] = Conductors[1]
    <2> SUFFICES ASSUME NEW i \in 1 .. Len(SubCRs), SubCRs[i] \notin Named
                 PROVE  SubCRs[i] = Conductors[1]
      OBVIOUS
    <2>1. PICK j \in 1 .. Len(Conductors) : SubCRs[i] = Conductors[j]
      BY WhichChildren
    <2>2. Len(Conductors) \in Nat
      BY ChildrenAssumption, LenProperties
    <2>3. j = 1
      BY <2>1, <2>2
    <2> QED
      BY <2>1, <2>3
  <1>2. \A c \in Children : ConditionOf(c) = IF c \in Named THEN c ELSE "conductor"
    BY DEF ConditionOf, Services
  <1>3. \A i \in 1 .. Len(SubCRs) : /\ SubCRs[i] = "inspector" => Inspector
                                    /\ SubCRs[i] = "agent" => Agent
    BY WhichChildren, ChildrenAssumption
  <1>4. \A c \in Children : (c = "inspector" => Inspector) /\ (c = "agent" => Agent)
    BY <1>3, ChildFacts
  <1>5. \A i, j \in 1 .. Len(SubCRs) : SubCRs[i] = SubCRs[j] => i = j
    BY ChildrenAssumption
  <1>6. \A i, j \in 1 .. Len(SubCRs) :
            ConditionOf(SubCRs[i]) = ConditionOf(SubCRs[j]) => SubCRs[i] = SubCRs[j]
    BY <1>1, <1>2, ChildFacts
  <1> QED
    BY <1>2, <1>4, <1>5, <1>6 DEF Conditions

LEMMA ReadyInit == Init => ReadyInv
  <1> SUFFICES ASSUME Init PROVE ReadyInv
    OBVIOUS
  <1>1. pc = "idle"
    BY DEF Init
  <1>2. MirrorInv
    BY <1>1 DEF MirrorInv
  <1>3. CASE InitNew
    BY <1>2, <1>3 DEF ReadyInv, ReadyIsCurrent, InitNew
  <1>4. CASE ~ InitNew
    <2>1. PICK m \in TransportSecrets, n \in NotifSecrets \cup {NoSecret} :
              InitInstalled([main |-> m, notif |-> n, ac |-> spec.ac])
      BY <1>4 DEF Init
    <2> DEFINE in == [main |-> m, notif |-> n, ac |-> spec.ac]
    <2> HIDE DEF in
    <2> DEFINE used(c) == CASE c \in Services -> in
                            [] c = "agent" -> [NoInputs EXCEPT !.main = NoBus, !.ac = spec.ac]
                            [] c = "inspector" -> [NoInputs EXCEPT !.main = NoBus, !.ac = spec.iac]
               own(c) == [used(c) EXCEPT !.notif = NoSecret]
               hash(c) == [own |-> own(c), parent |-> IF c \in Services THEN in ELSE NoInputs]
    <2>a. sub = [c \in Children |->
                    [stage |-> "known", spec |-> used(c), observed |-> TRUE,
                     hash |-> hash(c), applied |-> used(c), ready |-> TRUE,
                     config |-> own(c)]]
      BY <2>1 DEF InitInstalled, in
    <2> HIDE DEF used, own, hash
    <2>2. \A c \in Children : sub[c].observed /\ sub[c].ready /\ sub[c].applied = sub[c].spec
      BY <2>a
    <2> QED
      BY <1>2, <2>2 DEF ReadyInv, ReadyIsCurrent, UpToDate
  <1> QED
    BY <1>3, <1>4

(* Everybody else: either the sub-CRs stay what they were, or the parent   *)
(* is woken.                                                               *)
LEMMA ReadyFrame ==
    ASSUME ReadyInv, UNCHANGED <<pc, inst, loc, status>>,
           "ironic" \notin queue' => /\ "ironic" \notin queue
                                     /\ \A c \in Children : IsCurrent(c) => IsCurrent(c)'
    PROVE  ReadyInv'
  <1>1. \A i \in 1 .. Len(SubCRs) : SubCRs[i] \in Children
    BY ChildFacts
  <1>2. MirrorInv'
    BY <1>1 DEF ReadyInv, MirrorInv
  <1>3. ReadyIsCurrent'
    BY DEF ReadyInv, ReadyIsCurrent, IsCurrent
  <1> QED
    BY <1>2, <1>3 DEF ReadyInv

LEMMA ReadySubSteps ==
    ASSUME TypeInv, ReadyInv, NEW d \in Children,
           ReconcileSub(d) \/ SubFails(d) \/ Rollout(d) \/ RestartPod(d)
    PROVE  ReadyInv'
  <1>0. UNCHANGED <<pc, inst, loc, status>>
    BY DEF ReconcileSub, SubNew, SubStart, SubReconcile, SubPatch, SubFails, Rollout,
           StartPod, StopPod, RestartPod, Workload, crVars, parentRun
  <1>1. d # "ironic" /\ sub \in [Children -> SubCR] /\ sub[d] \in SubCR
    BY ChildrenAssumption DEF TypeInv, SubsType
  <1>2. CASE SubNew(d)
    <2>1. queue' = queue /\ sub' = [sub EXCEPT ![d].stage = "known", ![d].observed = TRUE]
      BY <1>2 DEF SubNew
    <2>2. \A c \in Children : /\ sub'[c].ready = sub[c].ready /\ sub'[c].applied = sub[c].applied
                              /\ sub'[c].spec = sub[c].spec
                              /\ sub[c].observed => sub'[c].observed
      BY <1>1, <2>1 DEF SubCR
    <2> QED
      BY <1>0, <2>1, <2>2, ReadyFrame DEF IsCurrent, UpToDate
  <1>3. CASE SubStart(d) \/ SubFails(d) \/ Rollout(d) \/ RestartPod(d)
    <2>1. sub' = sub /\ ("ironic" \notin queue' => "ironic" \notin queue)
      BY <1>1, <1>3 DEF SubStart, SubFails, Rollout, StartPod, StopPod, RestartPod,
         Workload, Enqueue
    <2> QED
      BY <1>0, <2>1, ReadyFrame DEF IsCurrent, UpToDate
  <1>4. CASE SubReconcile(d)
    <2>1. /\ sub' = [sub EXCEPT ![d].config = SubRendered(d)]
          /\ "ironic" \notin queue' => "ironic" \notin queue
      BY <1>4 DEF SubReconcile, Enqueue
    <2>2. \A c \in Children : /\ sub'[c].ready = sub[c].ready /\ sub'[c].applied = sub[c].applied
                              /\ sub'[c].spec = sub[c].spec
                              /\ sub[c].observed = sub'[c].observed
      BY <1>1, <2>1 DEF SubCR
    <2> QED
      BY <1>0, <2>1, <2>2, ReadyFrame DEF IsCurrent, UpToDate
  <1>5. CASE SubPatch(d)
    <2>1. "ironic" \notin queue' => "ironic" \notin queue /\ sub' = sub
      BY <1>5 DEF SubPatch, Enqueue, Woken
    <2> QED
      BY <1>0, <2>1, ReadyFrame DEF IsCurrent, UpToDate
  <1> QED
    BY <1>2, <1>3, <1>4, <1>5 DEF ReconcileSub

(* Up to the loop over the sub-CRs, and on every early exit, nothing is    *)
(* Ready.                                                                  *)
LEMMA ReadyBefore ==
    ASSUME ReadyInv, pc \notin {"idle", "patch"}, ~ inst'.ready,
           pc' \in {"patch", "notif", "config", "dbsync", "children"},
           pc' # "patch" => pc \in {"transport", "notif", "config", "dbsync"}
                            /\ loc'.up = loc.up /\ loc'.next = 1
    PROVE  ReadyInv'
  <1>1. \A i \in 1 .. Len(SubCRs) : ~ (i < 1)
    BY ChildFacts
  <1>2. MirrorInv'
    BY <1>1 DEF ReadyInv, MirrorInv
  <1>3. ReadyIsCurrent'
    BY DEF ReadyIsCurrent
  <1> QED
    BY <1>2, <1>3 DEF ReadyInv

LEMMA ReadyFirstSteps ==
    ASSUME TypeInv, ReadyInv,
           \/ ReconcileNew \/ ReconcileStart \/ ReconcileTransport
           \/ ReconcileNotifications \/ ReconcileConfig \/ ReconcileUpgrade
           \/ ReconcileDelete \/ StepFails
    PROVE  ReadyInv'
  <1>0. /\ pc \notin {"idle", "patch"} => ~ inst.ready
        /\ inst \in Status /\ loc \in Locals /\ status \in Status
        /\ pc \in {"transport", "notif", "config", "dbsync"} => loc.next = 1
    BY DEF ReadyInv, MirrorInv, TypeInv, ReconcileType, CRType
  <1>1. CASE ReconcileNew
    <2>1. UNCHANGED <<pc, inst, loc, status, queue, sub>>
      BY <1>1 DEF ReconcileNew, parentRun, subVars
    <2> QED
      BY <2>1, ReadyFrame DEF IsCurrent, UpToDate
  <1>2. CASE ReconcileStart
    <2>1. /\ pc' \in {"delete", "transport"}
          /\ inst' = [status EXCEPT !.ready = FALSE]
          /\ loc' = [NoLocals EXCEPT !.spec = spec, !.oldMain = status.main,
                                     !.oldNotif = status.notif]
      BY <1>2 DEF ReconcileStart, Goto
    <2>2. ~ inst'.ready /\ loc'.up = {}
      BY <1>0, <2>1 DEF Status, NoLocals
    <2> QED
      BY <2>1, <2>2 DEF ReadyInv, MirrorInv, ReadyIsCurrent
  <1>3. CASE ReconcileTransport
    <2>1. /\ pc = "transport" /\ pc' \in {"patch", "notif", "config"}
          /\ loc' \in {loc, [loc EXCEPT !.main = tu["main"]]}
          /\ inst' \in {inst, [inst EXCEPT !.main = tu["main"]],
                        [inst EXCEPT !.main = NoSecret, !.notif = NoSecret]}
      BY <1>3 DEF ReconcileTransport, Goto
    <2>2. inst'.ready = inst.ready /\ loc'.up = loc.up /\ loc'.next = loc.next
      BY <1>0, <2>1 DEF Status, Locals
    <2> QED
      BY <1>0, <2>1, <2>2, ReadyBefore
  <1>4. CASE ReconcileNotifications
    <2> DEFINE new == IF loc.spec.bus THEN tu["notif"] ELSE NoSecret
    <2>1. /\ pc = "notif" /\ pc' = "config" /\ loc' = [loc EXCEPT !.notif = new]
          /\ inst' = [inst EXCEPT !.notif = new]
      BY <1>4 DEF ReconcileNotifications, Goto
    <2>2. inst'.ready = inst.ready /\ loc'.up = loc.up /\ loc'.next = loc.next
      BY <1>0, <2>1 DEF Status, Locals
    <2> QED
      BY <1>0, <2>1, <2>2, ReadyBefore
  <1>5. CASE ReconcileConfig
    <2>1. /\ pc = "config" /\ pc' \in {"patch", "dbsync"} /\ loc' = loc
          /\ inst' = [inst EXCEPT !.hash = Rendered]
      BY <1>5 DEF ReconcileConfig, Goto
    <2>2. inst'.ready = inst.ready
      BY <1>0, <2>1 DEF Status
    <2> QED
      BY <1>0, <2>1, <2>2, ReadyBefore
  <1>6. CASE ReconcileUpgrade
    <2>1. pc = "dbsync" /\ pc' \in {"patch", "children"} /\ loc' = loc /\ inst' = inst
      BY <1>6 DEF ReconcileUpgrade, Goto
    <2> QED
      BY <1>0, <2>1, ReadyBefore
  <1>7. CASE ReconcileDelete
    <2>1. pc = "delete" /\ pc' = "patch" /\ inst' = inst
      BY <1>7 DEF ReconcileDelete, Goto
    <2> QED
      BY <1>0, <2>1, ReadyBefore
  <1>8. CASE StepFails
    <2>1. /\ pc \notin {"idle", "patch"} /\ pc' = "patch"
          /\ inst' \in {inst, [inst EXCEPT !.notif = NoSecret]}
      BY <1>8 DEF StepFails, Goto, NormalSteps
    <2>2. inst'.ready = inst.ready
      BY <1>0, <2>1 DEF Status
    <2> QED
      BY <1>0, <2>1, <2>2, ReadyBefore
  <1> QED
    BY <1>1, <1>2, <1>3, <1>4, <1>5, <1>6, <1>7, <1>8

LEMMA ReadyLoopStep ==
    ASSUME TypeInv, ReadyInv, Len(Conductors) <= 1, ReconcileSubCR
    PROVE  ReadyInv'
  <1> DEFINE d == SubCRs[loc.next]
             s == IF sub[d].spec = SubSpec(d) /\ sub[d].stage # "absent" THEN sub[d]
                  ELSE [sub[d] EXCEPT !.spec = SubSpec(d), !.observed = FALSE,
                            !.stage = IF @ = "absent" THEN "new" ELSE @]
  <1>1. /\ pc = "children" /\ pc' = (IF loc.next = Len(SubCRs) THEN "finalize" ELSE "children")
        /\ inst' = inst /\ ("ironic" \notin queue' => "ironic" \notin queue)
        /\ sub' = [sub EXCEPT ![d] = s]
        /\ loc' = [loc EXCEPT !.next = @ + 1, !.all = @ /\ UpToDate(d, s),
                       !.waiting = @ \/ (ConditionOf(d) = "conductor" /\ ~UpToDate(d, s)),
                       !.up = Mirrored(d, s)]
    BY DEF ReconcileSubCR, Goto, Enqueue
  <1>2. loc.next \in 1 .. Len(SubCRs) /\ loc \in Locals /\ sub \in [Children -> SubCR]
    BY <1>1 DEF TypeInv, ReconcileType, SubsType
  <1>3. d \in Children
    BY <1>2, ChildFacts
  <1> HIDE DEF s
  <1>4. loc'.next = loc.next + 1 /\ loc'.up = Mirrored(d, s)
    BY <1>1, <1>2 DEF Locals
  <1>5. sub'[d] = s /\ \A c \in Children \ {d} : sub'[c] = sub[c]
    BY <1>1, <1>2, <1>3
  <1>6. /\ \A x \in loc.up : \E i \in 1 .. Len(SubCRs) :
               i < loc.next /\ x = ConditionOf(SubCRs[i])
        /\ "ironic" \notin queue =>
               \A i \in 1 .. Len(SubCRs) :
                   i < loc.next /\ ConditionOf(SubCRs[i]) \in loc.up => IsCurrent(SubCRs[i])
        /\ ~ inst.ready
    BY <1>1 DEF ReadyInv, MirrorInv
  <1>7. /\ loc'.up \subseteq loc.up \cup {ConditionOf(d)}
        /\ ConditionOf(d) \in loc'.up => ConditionOf(d) \in loc.up \/ (UpToDate(d, s) /\ s.ready)
    BY <1>4 DEF Mirrored
  <1>8. ConditionOf(d) \notin loc.up
    BY <1>2, <1>6, ConditionsDiffer
  <1>9. \A x \in loc'.up : \E i \in 1 .. Len(SubCRs) :
            i < loc'.next /\ x = ConditionOf(SubCRs[i])
    BY <1>2, <1>4, <1>6, <1>7
  <1>10. ASSUME "ironic" \notin queue', NEW i \in 1 .. Len(SubCRs), i < loc'.next,
                ConditionOf(SubCRs[i]) \in loc'.up
         PROVE  IsCurrent(SubCRs[i])'
    <2>1. CASE i = loc.next
      BY <1>5, <1>7, <1>8, <1>10, <2>1 DEF IsCurrent, UpToDate
    <2>2. CASE i # loc.next
      <3>1. i < loc.next
        BY <1>2, <1>4, <1>10, <2>2
      <3>2. ConditionOf(SubCRs[i]) # ConditionOf(d)
        BY <1>2, <2>2, ConditionsDiffer
      <3>3. SubCRs[i] \in Children \ {d}
        BY <3>2, ChildFacts
      <3>4. IsCurrent(SubCRs[i])
        BY <1>1, <1>6, <1>7, <1>10, <3>1, <3>2
      <3> QED
        BY <1>5, <3>3, <3>4 DEF IsCurrent, UpToDate
    <2> QED
      BY <2>1, <2>2
  <1>11. pc' = "finalize" => loc'.next = Len(SubCRs) + 1
    BY <1>1, <1>4
  <1>12. MirrorInv'
    BY <1>1, <1>6, <1>9, <1>10, <1>11 DEF MirrorInv
  <1>13. ReadyIsCurrent'
    BY <1>1 DEF ReadyIsCurrent
  <1> QED
    BY <1>12, <1>13 DEF ReadyInv

LEMMA ReadyLastSteps ==
    ASSUME TypeInv, ReadyInv, Len(Conductors) <= 1,
           FinalizeRotations \/ DeleteNotificationsURL \/ PruneFinalizers \/ PatchInstance
    PROVE  ReadyInv'
  <1>0. inst \in Status /\ \A i \in 1 .. Len(SubCRs) : i < Len(SubCRs) + 1
    BY ChildFacts DEF TypeInv, ReconcileType
  <1>1. CASE FinalizeRotations \/ DeleteNotificationsURL
    <2>1. /\ pc \in {"finalize", "deleteNotifURL"} /\ pc' \in {"deleteNotifURL", "prune"}
          /\ UNCHANGED <<loc, sub, queue>>
      BY <1>1 DEF FinalizeRotations, DeleteNotificationsURL, subVars, Goto
    <2>2. inst'.ready = inst.ready
      BY <1>0, <1>1 DEF FinalizeRotations, DeleteNotificationsURL, Status
    <2> QED
      BY <2>1, <2>2 DEF ReadyInv, MirrorInv, ReadyIsCurrent, IsCurrent, UpToDate
  <1>2. CASE PruneFinalizers
    <2>1. pc = "prune" /\ pc' = "patch" /\ UNCHANGED <<loc, sub, queue>>
      BY <1>2 DEF PruneFinalizers, subVars, Goto
    <2>2. inst'.ready => Up = Conditions
      BY <1>0, <1>2 DEF PruneFinalizers, Status
    <2>3. \A c \in Children : Up = Conditions => ConditionOf(c) \in loc.up
      BY ConditionsDiffer DEF Up
    <2>4. "ironic" \notin queue =>
              \A i \in 1 .. Len(SubCRs) :
                  ConditionOf(SubCRs[i]) \in loc.up => IsCurrent(SubCRs[i])
      BY <1>0, <2>1 DEF ReadyInv, MirrorInv
    <2>5. "ironic" \notin queue => \A c \in Children :
              ConditionOf(c) \in loc.up => IsCurrent(c)
      BY <2>4, ChildFacts
    <2>6. inst'.ready /\ "ironic" \notin queue => \A c \in Children : IsCurrent(c)
      BY <2>2, <2>3, <2>5
    <2> QED
      BY <2>1, <2>6 DEF ReadyInv, MirrorInv, ReadyIsCurrent, IsCurrent, UpToDate
  <1>3. CASE PatchInstance
    <2>1. /\ pc = "patch" /\ pc' = "idle" /\ status' = inst /\ sub' = sub
          /\ "ironic" \notin queue' => "ironic" \notin queue
      BY <1>3 DEF PatchInstance, Goto, Enqueue, subVars
    <2> QED
      BY <2>1 DEF ReadyInv, MirrorInv, ReadyIsCurrent, IsCurrent, UpToDate
  <1> QED
    BY <1>1, <1>2, <1>3

LEMMA ReadyStep ==
    ASSUME TypeInv, ReadyInv, Len(Conductors) <= 1, [Next]_vars
    PROVE  ReadyInv'
  <1>1. CASE ReconcileParent \/ StepFails
    BY <1>1, ReadyFirstSteps, ReadyLoopStep, ReadyLastSteps DEF ReconcileParent
  <1>2. CASE Crash
    BY <1>2 DEF Crash, Goto, Enqueue, ReadyInv, MirrorInv, ReadyIsCurrent
  <1>3. CASE \E c \in Children : ReconcileSub(c) \/ SubFails(c) \/ Rollout(c) \/ RestartPod(c)
    BY <1>3, ReadySubSteps
  <1>4. CASE \/ \E b \in Buses : IssueSecret(b) \/ RotateSecret(b)
             \/ \E k \in {"ac", "iac"} : EditCredential(k)
             \/ ToggleNotifications \/ ToggleRPCTransport \/ DeleteCR \/ JobDone
             \/ UNCHANGED vars
    <2>1. /\ UNCHANGED <<pc, inst, loc, status, sub>>
          /\ "ironic" \notin queue' => "ironic" \notin queue
      BY <1>4 DEF IssueSecret, RotateSecret, EditCredential, ToggleNotifications,
         ToggleRPCTransport, Edit, DeleteCR, JobDone, Enqueue, crVars, subVars, parentRun, vars
    <2> QED
      BY <2>1, ReadyFrame DEF IsCurrent, UpToDate
  <1> QED
    BY <1>1, <1>2, <1>3, <1>4 DEF Next

(* With one conductor group, or none, Ready does not outlive the readiness *)
(* of a sub-CR: once the parent has no event left every sub-CR is ready    *)
(* for the spec it has.                                                    *)
THEOREM ReadyAlwaysCurrent ==
    ASSUME Len(Conductors) <= 1
    PROVE  Spec => []ReadyIsCurrent
  <1>1. Init => TypeInv /\ ReadyInv
    BY TypeInit, ReadyInit
  <1>2. TypeInv /\ ReadyInv /\ [Next]_vars => (TypeInv /\ ReadyInv)'
    BY TypeStep, ReadyStep
  <1>3. TypeInv /\ ReadyInv => ReadyIsCurrent
    BY DEF ReadyInv
  <1> QED
    BY <1>1, <1>2, <1>3, PTL DEF Spec
=============================================================================
