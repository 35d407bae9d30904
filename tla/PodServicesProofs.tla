-------------------------- MODULE PodServicesProofs --------------------------
(***************************************************************************)
(* Proofs about PodServices, for any number of replicas and any bounds: no *)
(* Service or Route belongs to a running pod of another name, and none is  *)
(* changed under the pod that owns it.                                     *)
(***************************************************************************)
EXTENDS PodServices, WellFoundedInduction, TLAPS

(* A non-empty set of naturals has a least element.                        *)
LEMMA LeastElement ==
    ASSUME NEW T \in SUBSET Nat, T # {}
    PROVE  \E x \in T : \A y \in T : x <= y
  <1>1. IsWellFoundedOn({ss \in Nat \X Nat : ss[1] < ss[2]}, Nat)
    BY NatLessThanWellFounded DEF OpToRel
  <1>2. PICK x \in T : \A y \in T : ~ (<<y, x>> \in {ss \in Nat \X Nat : ss[1] < ss[2]})
    BY <1>1, WFMin
  <1>3. \A y \in T : ~ (y < x)
    BY <1>2
  <1> QED
    BY <1>3

(* The loop is at one of its pods, as long as there is one left.           *)
LEMMA HeadIsListed ==
    ASSUME run.todo \in SUBSET (Names \X (1 .. uid)), run.todo # {}
    PROVE  Head \in run.todo
  <1> DEFINE numbers == {p[1] : p \in run.todo}
  <1>1. numbers \in SUBSET Nat /\ numbers # {}
    BY BoundsAssumption DEF Names
  <1>2. PICK x \in numbers : \A y \in numbers : x <= y
    BY <1>1, LeastElement
  <1>3. \E p \in run.todo : \A q \in run.todo : p[1] <= q[1]
    BY <1>2
  <1> QED
    BY <1>3 DEF Head

LEMMA SpendType ==
    ASSUME spent \in [edits : Nat, evictions : Nat, faults : Nat],
           NEW bound \in {"edits", "evictions", "faults"}, NEW limit,
           Spend(bound, limit)
    PROVE  spent' \in [edits : Nat, evictions : Nat, faults : Nat]
  BY DEF Spend

LEMMA PortsType ==
    ASSUME NEW k, NEW s PROVE Ports(k, s) \in SUBSET {"json-rpc", "httpboot"}
  BY DEF Ports

LEMMA NoRunType ==
    NoRun \in [spec : SpecType \cup {None}, todo : SUBSET (Names \X (1 .. uid)),
               kind : Kinds, read : Object \cup {None}]
  BY DEF NoRun, Kinds

(* The loop stays at its pod or goes on to the rest of the list.           *)
LEMMA AdvanceType ==
    ASSUME TypeOK, Advance
    PROVE  /\ pc' = "get"
           /\ run' \in [spec : SpecType \cup {None}, todo : SUBSET (Names \X (1 .. uid)),
                        kind : Kinds, read : Object \cup {None}]
           /\ run'.todo \subseteq run.todo
  BY DEF Advance, TypeOK, Kinds

(* What is written belongs to the pod of the list, or was there before.    *)
LEMMA WrittenType ==
    ASSUME TypeOK, run.todo # {}
    PROVE  /\ Desired \in Object
           /\ Written(run.read) \in Object \cup {None}
  <1>1. Head \in Names \X (1 .. uid)
    BY HeadIsListed DEF TypeOK
  <1>2. Desired \in Object
    BY <1>1, PortsType DEF Desired, Object
  <1> QED
    BY <1>2 DEF Written, TypeOK

(* A pod is being worked on while there is something to write.             *)
Busy == pc = "write" => run.todo # {}

LEMMA TypeInit == Init => TypeOK /\ Busy
  <1> SUFFICES ASSUME Init PROVE TypeOK /\ Busy
    OBVIOUS
  <1>1. spec \in SpecType
    BY BoundsAssumption DEF Init, SpecType
  <1> QED
    BY <1>1, NoRunType DEF Init, TypeOK, Busy, SpecType, Names, Kinds

(* Every step keeps the types.                                             *)
LEMMA TypeStep == TypeOK /\ Busy /\ [Next]_vars => TypeOK' /\ Busy'
  <1> SUFFICES ASSUME TypeOK, Busy, [Next]_vars PROVE TypeOK' /\ Busy'
    OBVIOUS
  <1> USE NoRunType
  <1>1. CASE ListPods
    <2> DEFINE todo == {<<n, pods[n].uid>> : n \in {m \in Names : pods[m] # None}}
    <2>1. todo \in SUBSET (Names \X (1 .. uid))
      BY DEF TypeOK, Pod
    <2>2. run' \in [spec : SpecType \cup {None}, todo : SUBSET (Names \X (1 .. uid)),
                    kind : Kinds, read : Object \cup {None}]
      BY <1>1, <2>1 DEF ListPods, NoRun, TypeOK
    <2>3. queued' \in BOOLEAN
      BY <1>1 DEF ListPods
    <2> QED
      BY <1>1, <2>2, <2>3 DEF ListPods, TypeOK, Busy, Pod, Object
  <1>2. CASE GetObject
    <2>1. CASE Ports(run.kind, run.spec) = {}
      BY <1>2, <2>1, AdvanceType DEF GetObject, TypeOK, Busy, Pod, Object
    <2>2. CASE Ports(run.kind, run.spec) # {}
      <3>1. Head \in Names \X (1 .. uid)
        BY <1>2, HeadIsListed DEF GetObject, TypeOK
      <3>2. objects[run.kind][Head[1]] \in Object \cup {None}
        BY <3>1 DEF TypeOK
      <3>3. /\ run' = [run EXCEPT !.read = objects[run.kind][Head[1]]]
            /\ pc' = "write" /\ run.todo # {}
            /\ UNCHANGED <<spec, template, pods, objects, uid, queued, spent>>
        BY <1>2, <2>2 DEF GetObject
      <3> QED
        BY <3>2, <3>3 DEF TypeOK, Busy, Pod, Object
    <2> QED
      BY <2>1, <2>2
  <1>3. CASE WriteObject
    <2>1. CASE run.read = objects[run.kind][Head[1]]
      <3>1. objects' \in [Kinds -> [Names -> Object \cup {None}]]
        BY <1>3, <2>1, WrittenType DEF WriteObject, TypeOK, Busy
      <3> QED
        BY <1>3, <2>1, <3>1, AdvanceType DEF WriteObject, TypeOK, Busy, Pod, Object
    <2>2. CASE run.read # objects[run.kind][Head[1]]
      BY <1>3, <2>2 DEF WriteObject, TypeOK, Busy, Pod, Object
    <2> QED
      BY <2>1, <2>2
  <1>4. CASE Done
    BY <1>4 DEF Done, TypeOK, Busy, Pod, Object
  <1>5. CASE Fails
    BY <1>5, SpendType DEF Fails, TypeOK, Busy, Pod, Object
  <1>6. CASE Resync
    BY <1>6 DEF Resync, TypeOK, Busy, Pod, Object
  <1>7. CASE StopPod
    BY <1>7 DEF StopPod, TypeOK, Busy, Pod, Object
  <1>8. CASE StartPod
    <2>1. uid' = uid + 1 /\ uid \in Nat
      BY <1>8 DEF StartPod, TypeOK
    <2>2. 1 .. uid \subseteq 1 .. uid'
      BY <2>1
    <2>3. Pod \subseteq Pod' /\ Object \subseteq Object'
      BY <2>2 DEF Pod, Object
    <2>4. PICK n \in Wanted :
              pods' = [pods EXCEPT ![n] = [uid |-> uid + 1, of |-> Template(template)]]
      BY <1>8 DEF StartPod
    <2>5. [uid |-> uid + 1, of |-> Template(template)] \in Pod'
      BY <2>1 DEF Pod, Template, TypeOK, SpecType
    <2>6. pods' \in [Names -> Pod' \cup {None}]
      BY <2>3, <2>4, <2>5 DEF TypeOK
    <2>7. objects' \in [Kinds -> [Names -> Object' \cup {None}]]
      BY <1>8, <2>3 DEF TypeOK, StartPod
    <2>8. run' \in [spec : SpecType \cup {None}, todo : SUBSET (Names \X (1 .. uid')),
                    kind : Kinds, read : Object' \cup {None}]
      BY <1>8, <2>2, <2>3 DEF TypeOK, StartPod
    <2> QED
      BY <1>8, <2>1, <2>6, <2>7, <2>8 DEF StartPod, TypeOK, Busy
  <1>9. CASE EvictPod
    BY <1>9, SpendType DEF EvictPod, TypeOK, Busy, Pod, Object
  <1>10. CASE CollectGarbage
    BY <1>10 DEF CollectGarbage, TypeOK, Busy, Pod, Object
  <1>11. CASE EditSpec
    BY <1>11, SpendType DEF EditSpec, TypeOK, Busy, Pod, Object
  <1>12. CASE UNCHANGED vars
    BY <1>12 DEF vars, TypeOK, Busy, Pod, Object
  <1> QED
    BY <1>1, <1>2, <1>3, <1>4, <1>5, <1>6, <1>7, <1>8, <1>9, <1>10, <1>11, <1>12
       DEF Next, Reconcile

(* The state of the program has the types of its declarations.             *)
THEOREM TypeCorrect == Spec => []TypeOK
  <1>1. Spec => [](TypeOK /\ Busy)
    BY TypeInit, TypeStep, PTL DEF Spec
  <1> QED
    BY <1>1, PTL

-----------------------------------------------------------------------------
(* Who owns what.  OwnedByItsPod alone is not inductive: a pod that the    *)
(* loop still has to do may be gone, its name taken by another pod, its    *)
(* UID by none; that its UID is nobody else's is what keeps an object      *)
(* written late from being owned by a pod of another name.                 *)

Runs(n, u) == pods[n] # None /\ pods[n].uid = u

(* No two pods have one UID.                                               *)
UidsDiffer == \A n, m \in Names, u \in 1 .. uid : Runs(n, u) /\ Runs(m, u) => n = m

(* A UID on the list is that of the pod listed with it, if of any.         *)
Listed == \A p \in run.todo, m \in Names : Runs(m, p[2]) => m = p[1]

Owned == \A k \in Kinds, n, m \in Names :
             objects[k][n] # None /\ Runs(m, objects[k][n].owner) => m = n

OwnerInv == TypeOK /\ Busy /\ UidsDiffer /\ Listed /\ Owned

LEMMA OwnerInit == Init => OwnerInv
  BY TypeInit DEF Init, OwnerInv, UidsDiffer, Listed, Owned, Runs, NoRun

(* Pods that stop take no UID.                                             *)
LEMMA FewerPods ==
    ASSUME OwnerInv, UNCHANGED <<objects, uid>>,
           NEW n \in Names, pods' = [pods EXCEPT ![n] = None],
           run'.todo \subseteq run.todo
    PROVE  UidsDiffer' /\ Listed' /\ Owned'
  <1>1. \A m \in Names : \A u : Runs(m, u)' => Runs(m, u)
    BY DEF OwnerInv, TypeOK, Runs
  <1> QED
    BY <1>1 DEF OwnerInv, UidsDiffer, Listed, Owned

(* Nor does a step that touches neither pods nor objects.                  *)
LEMMA SamePods ==
    ASSUME OwnerInv, UNCHANGED <<pods, objects, uid>>, run'.todo \subseteq run.todo
    PROVE  UidsDiffer' /\ Listed' /\ Owned'
  BY DEF OwnerInv, UidsDiffer, Listed, Owned, Runs

LEMMA OwnerStep == OwnerInv /\ [Next]_vars => OwnerInv'
  <1> SUFFICES ASSUME OwnerInv, [Next]_vars PROVE UidsDiffer' /\ Listed' /\ Owned'
    BY TypeStep DEF OwnerInv
  <1> TypeOK /\ Busy
    BY DEF OwnerInv
  <1>1. CASE ListPods
    <2>1. \A p \in run'.todo : p[1] \in Names /\ p[2] \in 1 .. uid /\ Runs(p[1], p[2])
      BY <1>1 DEF ListPods, NoRun, TypeOK, Pod, Runs
    <2>2. UNCHANGED <<pods, objects, uid>>
      BY <1>1 DEF ListPods
    <2>3. Listed'
      BY <2>1, <2>2 DEF OwnerInv, UidsDiffer, Listed, Runs
    <2> QED
      BY <2>2, <2>3 DEF OwnerInv, UidsDiffer, Owned, Runs
  <1>2. CASE GetObject
    <2>1. run'.todo \subseteq run.todo /\ UNCHANGED <<pods, objects, uid>>
      BY <1>2, AdvanceType DEF GetObject, TypeOK
    <2> QED
      BY <2>1, SamePods
  <1>3. CASE WriteObject
    <2>1. CASE run.read = objects[run.kind][Head[1]]
      <3>1. Head \in run.todo
        BY <1>3, HeadIsListed DEF WriteObject, TypeOK, Busy
      <3>2. /\ objects' = [objects EXCEPT ![run.kind][Head[1]] = Written(run.read)]
            /\ run'.todo \subseteq run.todo /\ UNCHANGED <<pods, uid>>
        BY <1>3, <2>1, AdvanceType DEF WriteObject
      <3>3. Owned'
        <4> SUFFICES ASSUME NEW k \in Kinds, NEW n \in Names, NEW m \in Names,
                            objects'[k][n] # None, Runs(m, objects'[k][n].owner)
                     PROVE  m = n
          BY <3>2 DEF Owned, Runs
        <4>1. CASE objects'[k][n] = objects[k][n]
          BY <4>1 DEF OwnerInv, Owned
        <4>2. CASE objects'[k][n] # objects[k][n]
          <5>1. n = Head[1] /\ objects'[k][n] = Desired
            BY <2>1, <3>2, <4>2 DEF TypeOK, Written
          <5> QED
            BY <3>1, <5>1 DEF OwnerInv, Listed, Desired
        <4> QED
          BY <4>1, <4>2
      <3> QED
        BY <3>2, <3>3 DEF OwnerInv, UidsDiffer, Listed, Runs
    <2>2. CASE run.read # objects[run.kind][Head[1]]
      <3>1. run'.todo = {} /\ UNCHANGED <<pods, objects, uid>>
        BY <1>3, <2>2 DEF WriteObject, NoRun
      <3> QED
        BY <3>1, SamePods
    <2> QED
      BY <2>1, <2>2
  <1>4. CASE Done \/ Fails
    <2>1. run'.todo = {} /\ UNCHANGED <<pods, objects, uid>>
      BY <1>4 DEF Done, Fails, NoRun
    <2> QED
      BY <2>1, SamePods
  <1>5. CASE Resync \/ EditSpec \/ UNCHANGED vars
    <2>1. UNCHANGED <<pods, objects, uid, run>>
      BY <1>5 DEF Resync, EditSpec, vars
    <2> QED
      BY <2>1, SamePods
  <1>6. CASE StopPod \/ EvictPod
    <2>1. UNCHANGED <<objects, uid, run>> /\ \E n \in Names : pods' = [pods EXCEPT ![n] = None]
      BY <1>6 DEF StopPod, EvictPod
    <2> QED
      BY <2>1, FewerPods
  <1>7. CASE StartPod
    <2>1. PICK n \in Wanted :
              pods' = [pods EXCEPT ![n] = [uid |-> uid + 1, of |-> Template(template)]]
      BY <1>7 DEF StartPod
    <2>2. uid' = uid + 1 /\ uid \in Nat /\ UNCHANGED <<objects, run>>
      BY <1>7 DEF StartPod, TypeOK
    <2>3. \A m \in Names, u \in 1 .. uid : Runs(m, u)' => Runs(m, u)
      <3> SUFFICES ASSUME NEW m \in Names, NEW u \in 1 .. uid, Runs(m, u)'
                   PROVE  Runs(m, u)
        OBVIOUS
      <3>1. CASE m = n
        BY <2>1, <2>2, <3>1 DEF Runs, TypeOK
      <3>2. CASE m # n
        BY <2>1, <3>2 DEF Runs, TypeOK
      <3> QED
        BY <3>1, <3>2
    <2>4. \A m \in Names : Runs(m, uid)' => m = n
      BY <2>1, <2>2 DEF Runs, TypeOK, Pod
    <2>5. UidsDiffer'
      <3> SUFFICES ASSUME NEW i \in Names, NEW j \in Names, NEW u \in 1 .. uid + 1,
                          Runs(i, u)', Runs(j, u)'
                   PROVE  i = j
        BY <2>2 DEF UidsDiffer
      <3>1. CASE u = uid + 1
        BY <2>2, <2>4, <3>1 DEF Runs
      <3>2. CASE u \in 1 .. uid
        BY <2>3, <3>2 DEF OwnerInv, UidsDiffer
      <3> QED
        BY <2>2, <3>1, <3>2
    <2>6. Listed'
      BY <2>2, <2>3 DEF OwnerInv, Listed, TypeOK
    <2>7. Owned'
      BY <2>2, <2>3 DEF OwnerInv, Owned, TypeOK, Object
    <2> QED
      BY <2>5, <2>6, <2>7
  <1>8. CASE CollectGarbage
    <2>1. \A k \in Kinds, n \in Names : objects'[k][n] # None => objects'[k][n] = objects[k][n]
      BY <1>8 DEF CollectGarbage, TypeOK
    <2>2. UNCHANGED <<pods, uid, run>>
      BY <1>8 DEF CollectGarbage
    <2> QED
      BY <2>1, <2>2 DEF OwnerInv, UidsDiffer, Listed, Owned, Runs
  <1> QED
    BY <1>1, <1>2, <1>3, <1>4, <1>5, <1>6, <1>7, <1>8 DEF Next, Reconcile

(* No Service or Route that reconcileServices makes is owned by a running  *)
(* pod of another name, however late it is written: after a pod is         *)
(* replaced, the garbage collector takes what the old one owned and only   *)
(* that.                                                                   *)
THEOREM OwnersMatch == Spec => []OwnedByItsPod
  <1>1. OwnerInv => OwnedByItsPod
    BY DEF OwnerInv, Owned, Runs, OwnedByItsPod
  <1> QED
    BY <1>1, OwnerInit, OwnerStep, PTL DEF Spec

-----------------------------------------------------------------------------
(* What changes.                                                           *)

(* A step that changes an object creates it or deletes one without owner.  *)
LEMMA OnlyNewOrOrphaned ==
    ASSUME TypeOK, Busy, [Next]_vars, NEW k \in Kinds, NEW n \in Names,
           objects[k][n] # None, Alive(objects[k][n].owner)
    PROVE  objects'[k][n] = objects[k][n]
  <1>1. CASE WriteObject
    <2>1. CASE run.read = objects[run.kind][Head[1]]
      <3>1. objects' = [objects EXCEPT ![run.kind][Head[1]] = Written(run.read)]
        BY <1>1, <2>1 DEF WriteObject
      <3>2. CASE run.kind = k /\ Head[1] = n
        BY <2>1, <3>1, <3>2 DEF Written, TypeOK
      <3>3. CASE ~ (run.kind = k /\ Head[1] = n)
        BY <3>1, <3>3 DEF TypeOK
      <3> QED
        BY <3>2, <3>3
    <2>2. CASE run.read # objects[run.kind][Head[1]]
      BY <1>1, <2>2 DEF WriteObject
    <2> QED
      BY <2>1, <2>2
  <1>2. CASE CollectGarbage
    <2>1. PICK k2 \in Kinds, n2 \in Names :
              /\ ~ Alive(objects[k2][n2].owner)
              /\ objects' = [objects EXCEPT ![k2][n2] = None]
      BY <1>2 DEF CollectGarbage
    <2>2. ~ (k2 = k /\ n2 = n)
      BY <2>1
    <2> QED
      BY <2>1, <2>2 DEF TypeOK
  <1>3. CASE ~ WriteObject /\ ~ CollectGarbage
    BY <1>3 DEF Next, Reconcile, ListPods, GetObject, Done, Fails, Resync, StopPod,
                StartPod, EvictPod, EditSpec, vars
  <1> QED
    BY <1>1, <1>2, <1>3

(* A Service or Route never changes under the running pod that owns it,    *)
(* whatever the spec says by then: reconcileServices writes back what Get  *)
(* has read, and a conflict makes it start again.                          *)
THEOREM FixedUnderARunningPod == Spec => NeverUnderARunningPod
  <1>1. TypeOK /\ Busy /\ [Next]_vars =>
            [\A k \in Kinds, n \in Names :
                objects[k][n] # None /\ Alive(objects[k][n].owner)
                    => objects'[k][n] = objects[k][n]]_vars
    BY OnlyNewOrOrphaned
  <1> QED
    BY <1>1, TypeInit, TypeStep, PTL DEF Spec, NeverUnderARunningPod
=============================================================================
