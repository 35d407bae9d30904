----------------------------- MODULE PodServices -----------------------------
(***************************************************************************)
(* The per-pod Services and Routes of the conductor                        *)
(* (reconcileServices of ironicconductor_controller.go; the loop of        *)
(* ironicinspector_controller.go is the same with its own network).  They  *)
(* are named after the pods of the StatefulSet and owned by the pod, by    *)
(* UID, not by the CR.  A pod that is replaced keeps its name and loses    *)
(* its UID: the garbage collector then deletes what the old one owned,     *)
(* which wakes nobody, for the controller watches what the CR owns.        *)
(*                                                                         *)
(* The controller gets each object and creates it when it is not there;    *)
(* otherwise it writes back what it has just read.                         *)
(***************************************************************************)
EXTENDS Naturals, FiniteSets

CONSTANTS
    MaxReplicas,    \* bound on Spec.Replicas: pods are 0 .. MaxReplicas - 1
    None,           \* no pod, no object
    MaxEdits,       \* bound on edits of the spec
    MaxEvictions,   \* bound on pods deleted by others than the StatefulSet
    MaxFaults       \* bound on failed calls and operator restarts

ASSUME BoundsAssumption ==
    {MaxReplicas, MaxEdits, MaxEvictions, MaxFaults} \subseteq Nat /\ MaxReplicas > 0

VARIABLES
    spec,       \* RPCTransport = json-rpc? ProvisionNetwork set? how many replicas?
    template,   \* the StatefulSet: the spec its pod template was made from
    pods,       \* the pod of each name: UID, the spec it was started with
    objects,    \* the Service and the Route of each name: owner, content
    uid,        \* UIDs given out so far
    pc, run,    \* the reconcile: next step; its spec, pods to do, what it read
    queued,     \* is a request for the CR in the work queue?
    spent       \* how much of the three bounds has been used

vars == <<spec, template, pods, objects, uid, pc, run, queued, spent>>

Names == 0 .. MaxReplicas - 1
Kinds == {"service", "route"}
SpecType == [json : BOOLEAN, net : BOOLEAN, replicas : 0 .. MaxReplicas]
Template(s) == [json |-> s.json, net |-> s.net]

(* The content of a pod's Service is its ports, of its Route the one port  *)
(* it leads to; no ports, no Service, and a Route only without a           *)
(* provisioning network.                                                   *)
Ports(kind, s) ==
    IF kind = "service" /\ s.json THEN {"json-rpc"} \cup (IF s.net THEN {} ELSE {"httpboot"})
    ELSE IF s.net THEN {} ELSE {"httpboot"}

NoRun == [spec |-> None, todo |-> {}, kind |-> "service", read |-> None]

Pod == [uid : 1 .. uid, of : [json : BOOLEAN, net : BOOLEAN]]
Object == [owner : 1 .. uid, ports : SUBSET {"json-rpc", "httpboot"}]
TypeOK ==
    /\ spec \in SpecType /\ template \in SpecType
    /\ pods \in [Names -> Pod \cup {None}]
    /\ objects \in [Kinds -> [Names -> Object \cup {None}]]
    /\ uid \in Nat
    /\ pc \in {"idle", "get", "write"}
    /\ run \in [spec : SpecType \cup {None}, todo : SUBSET (Names \X (1 .. uid)),
               kind : Kinds, read : Object \cup {None}]
    /\ queued \in BOOLEAN
    /\ spent \in [edits : Nat, evictions : Nat, faults : Nat]

Init ==
    /\ spec \in [json : BOOLEAN, net : BOOLEAN, replicas : {1}]
    /\ template = spec
    /\ pods = [n \in Names |-> None]
    /\ objects = [k \in Kinds |-> [n \in Names |-> None]]
    /\ uid = 0 /\ pc = "idle" /\ run = NoRun /\ queued = TRUE
    /\ spent = [edits |-> 0, evictions |-> 0, faults |-> 0]

-----------------------------------------------------------------------------
(* The reconcile.                                                          *)

(* Fetch the CR, create or patch the StatefulSet, list its pods.           *)
ListPods ==
    /\ pc = "idle" /\ queued
    /\ queued' = (template # spec)
    /\ template' = spec
    /\ run' = [NoRun EXCEPT !.spec = spec,
                   !.todo = {<<n, pods[n].uid>> : n \in {m \in Names : pods[m] # None}}]
    /\ pc' = "get"
    /\ UNCHANGED <<spec, pods, objects, uid, spent>>

(* The pod the loop is at.                                                 *)
Head == CHOOSE p \in run.todo : \A q \in run.todo : p[1] <= q[1]

(* From a pod's Service to its Route, from its Route to the next pod.      *)
Advance ==
    /\ pc' = "get"
    /\ run' = IF run.kind = "service" THEN [run EXCEPT !.kind = "route"]
              ELSE [run EXCEPT !.kind = "service", !.todo = @ \ {Head}]

(* The object is desired: get the live one.  Not desired: skip it, and     *)
(* leave one that is there alone.                                          *)
GetObject ==
    /\ pc = "get" /\ run.todo # {}
    /\ IF Ports(run.kind, run.spec) = {}
       THEN Advance
       ELSE /\ run' = [run EXCEPT !.read = objects[run.kind][Head[1]]]
            /\ pc' = "write"
    /\ UNCHANGED <<spec, template, pods, objects, uid, queued, spent>>

(* Mutants of Desired: the owner is a loop variable that has moved on to   *)
(* the last pod; the owner reference holds the name.                       *)
Desired_LastPod ==
    [owner |-> (CHOOSE p \in run.todo : \A q \in run.todo : q[1] <= p[1])[2],
     ports |-> Ports(run.kind, run.spec)]
Desired_Name == [owner |-> Head[1], ports |-> Ports(run.kind, run.spec)]

(* The object as Service or Route makes it, owned by the pod of the list,  *)
(* be it still alive or not.                                               *)
Desired == [owner |-> Head[2], ports |-> Ports(run.kind, run.spec)]

(* Mutant of Written: the desired object is written over a live one.       *)
Written_Desired(read) == Desired

(* Get has replaced the desired object by the live one if there is one.    *)
Written(read) == IF read = None THEN Desired ELSE read

(* Create it, or update it with what was read; an error when that has been *)
(* deleted since.                                                          *)
WriteObject ==
    /\ pc = "write"
    /\ IF run.read = objects[run.kind][Head[1]]
       THEN /\ objects' = [objects EXCEPT ![run.kind][Head[1]] = Written(run.read)]
            /\ Advance
            /\ UNCHANGED queued
       ELSE /\ pc' = "idle" /\ run' = NoRun /\ queued' = TRUE
            /\ UNCHANGED objects
    /\ UNCHANGED <<spec, template, pods, uid, spent>>

Done ==
    /\ pc = "get" /\ run.todo = {}
    /\ pc' = "idle" /\ run' = NoRun
    /\ UNCHANGED <<spec, template, pods, objects, uid, queued, spent>>

Spend(bound, limit) ==
    /\ spent[bound] < limit
    /\ spent' = [spent EXCEPT ![bound] = @ + 1]

(* A call fails or the operator restarts: the request is retried.          *)
Fails ==
    /\ pc # "idle" /\ Spend("faults", MaxFaults)
    /\ pc' = "idle" /\ run' = NoRun /\ queued' = TRUE
    /\ UNCHANGED <<spec, template, pods, objects, uid>>

Reconcile == ListPods \/ GetObject \/ WriteObject \/ Done

-----------------------------------------------------------------------------
(* The rest of the cluster.                                                *)

(* The StatefulSet controller replaces the pods of an older template one   *)
(* at a time, drops those beyond the replicas and starts missing ones; its *)
(* status changes, which wakes the controller.                             *)
Wanted == 0 .. template.replicas - 1
StopPod ==
    /\ \E n \in Names :
          /\ pods[n] # None
          /\ \/ n \notin Wanted
             \/ pods[n].of # Template(template) /\ \A m \in Wanted : pods[m] # None
          /\ pods' = [pods EXCEPT ![n] = None]
    /\ queued' = TRUE
    /\ UNCHANGED <<spec, template, objects, uid, pc, run, spent>>

StartPod ==
    /\ \E n \in Wanted :
          /\ pods[n] = None
          /\ pods' = [pods EXCEPT ![n] = [uid |-> uid + 1, of |-> Template(template)]]
    /\ uid' = uid + 1 /\ queued' = TRUE
    /\ UNCHANGED <<spec, template, objects, pc, run, spent>>

(* A node is drained, or somebody deletes the pod.                         *)
EvictPod ==
    /\ Spend("evictions", MaxEvictions)
    /\ \E n \in Names : pods[n] # None /\ pods' = [pods EXCEPT ![n] = None]
    /\ queued' = TRUE
    /\ UNCHANGED <<spec, template, objects, uid, pc, run>>

(* Kubernetes deletes an object whose owner no longer exists.              *)
Alive(u) == \E n \in Names : pods[n] # None /\ pods[n].uid = u
CollectGarbage ==
    /\ \E k \in Kinds, n \in Names :
          /\ objects[k][n] # None /\ ~Alive(objects[k][n].owner)
          /\ objects' = [objects EXCEPT ![k][n] = None]
    /\ UNCHANGED <<spec, template, pods, uid, pc, run, queued, spent>>

EditSpec ==
    /\ Spend("edits", MaxEdits)
    /\ spec' \in SpecType \ {spec} /\ queued' = TRUE
    /\ UNCHANGED <<template, pods, objects, uid, pc, run>>

(* controller-runtime lists every CR again from time to time.              *)
Resync ==
    /\ ~queued /\ queued' = TRUE
    /\ UNCHANGED <<spec, template, pods, objects, uid, pc, run, spent>>

Next ==
    \/ Reconcile \/ Fails \/ Resync
    \/ StopPod \/ StartPod \/ EvictPod \/ CollectGarbage
    \/ EditSpec

Fairness ==
    /\ WF_vars(Reconcile) /\ WF_vars(Resync)
    /\ WF_vars(StopPod) /\ WF_vars(StartPod) /\ WF_vars(CollectGarbage)

Spec == Init /\ [][Next]_vars
FairSpec == Spec /\ Fairness

-----------------------------------------------------------------------------
(* Properties.                                                             *)

(* When edits, evictions and failures are done, every pod has the Service  *)
(* and the Route its spec calls for and owns them, and no pod that has     *)
(* gone leaves any ("Create the conductor pod service if none exists").    *)
ServesPod(k, n) ==
    IF pods[n] = None \/ Ports(k, spec) = {} THEN objects[k][n] = None
    ELSE objects[k][n] = [owner |-> pods[n].uid, ports |-> Ports(k, spec)]
Served == <>[](\A k \in Kinds, n \in Names : ServesPod(k, n))

(* No object is owned by a running pod of another name: neither the loop   *)
(* over the pods nor a name that comes back with another UID mixes up the  *)
(* owners (SetOwnerReference with the pod of the list).             *)
OwnedByItsPod ==
    \A k \in Kinds, n, m \in Names :
        objects[k][n] # None /\ pods[m] # None /\ pods[m].uid = objects[k][n].owner
            => m = n

(* No reconcile changes the Service or the Route under a running pod: its  *)
(* ports change with the pod, never in place (reconcileServices updates an *)
(* object to what it has read).                                            *)
NeverUnderARunningPod ==
    [][\A k \in Kinds, n \in Names :
        objects[k][n] # None /\ Alive(objects[k][n].owner)
            => objects'[k][n] = objects[k][n]]_vars
=============================================================================
