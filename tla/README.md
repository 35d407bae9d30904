# TLA+ models of ironic-operator

ironic-operator runs five Kubernetes controllers that deploy OpenStack Ironic.
What is hard about it is not any single step but what may happen between two of
them: RabbitMQ users and application credentials are rotated by other operators
while configuration, workloads and pods still use the old ones, and a *consumer
finalizer* on a Secret is the only thing that keeps the old credential alive.
These modules model that machinery: who protects which Secret, when it is
rendered, when a pod has loaded it, and when it may be released.

## 1. Inventory

| Component | State it keeps | Operations | Interacts with |
|---|---|---|---|
| Ironic (parent) controller, `internal/controller/ironic_controller.go` | CR status: tracked Secrets, input hash, conditions; `<name>-config-data`; TransportURL CRs; sub-CRs; db-sync Job | reconcileNormal, reconcileDelete, reconcileUpgrade, *CreateOrUpdate of each sub-CR | creates sub-CRs, reads their ObservedGeneration, AppliedInputSecretHash and conditions |
| IronicAPI, IronicConductor controllers | CR status: input hash, applied hash, observed generation, Ready; own config-data; Deployment / StatefulSet; per-pod Services and Routes (conductor); Keystone service and endpoints (API) | reconcileNormal, reconcileDelete, reconcileServices, reconcileInit | spec and annotation written by the parent; watch the parent's config-data Secret |
| IronicInspector controller | as above, with its own TransportURLs, finalizers, database and accounts, db-sync Job, Keystone registration, Topology reference | reconcileNormal and its parts, reconcileDelete | parent sets its credential and reads generation and Ready; mariadb-, keystone-, infra- and topology-operator |
| IronicNeutronAgent controller | status (tracked Secrets, hashes), two TransportURLs, config-data, Deployment | reconcileNormal, reconcileDelete | as the inspector |
| Shared helpers, `funcs.go` | none | ensureNotificationsTransportURL, ensureTopology, credential parameters | called by four controllers |
| Webhooks, `api/v1beta1/ironic_webhook.go` | none | defaulting; validation of groups, DHCP ranges, RPC transport, topology | API server |
| Keystone registration | KeystoneService, KeystoneEndpoint | EnsureRegistration | API, inspector |
| db-sync Jobs, pod specs, volumes, templates | none | construction of objects | all workloads |

Hard behaviour, and what makes each component correct:

* **Rotation.** A Secret must carry the finalizer from before anything renders it
  until the last pod that loaded it is gone; afterwards it must be released.
  Rotations may overlap (A -> B -> C, A -> B -> A).
* **Several sub-CRs.** The parent may release only after the last one rolled out.
  Each is reconciled concurrently; generation and hash are the only signals.
* **Early exits.** A reconcile returns early whenever an input is missing or the
  input hash changed, and the deferred patch stores the status as far as it got.
* **Restarts.** Between a finalizer call and the status patch the process may die.
* **Wake-ups.** Progress depends on watch events and requeues; no periodic resync is
  assumed, except for the objects that belong to pods.
* **Deletion** at any of these moments must leave no finalizer behind.
* **Validation** (webhook): range overlap at the boundaries, unique groups.

`PROJECT.json` lists every component with its status and the hazards line by line.

## 2. Plan

| Order | Module | State |
|---|---|---|
| 1 | `SecretConsumer`: the finalizer helpers | done |
| 2 | `NeutronAgent`: one controller in full detail | done |
| 3 | `Ironic`: parent composed with its sub-CRs | done |
| 4 | `NeutronAgentProofs`: types and RenderedProtected | done |
| 4 | `Webhook`, `WebhookProofs`: what is admitted and refused, against reference definitions | done |
| 5 | `Inspector`: own reconcile with database, db-sync, Keystone registration, Topology and StatefulSet | done |
| 6 | `SecretConsumption`: what any consumer promises (protected while used), implemented by `NeutronAgent` and `Inspector` through refinement mappings; `SecretConsumptionProofs` | done |
| 7 | `PodServices`: per-pod Services and Routes | done |
| 8 | Proofs of every safety property a passing run checks: `NeutronAgentRefinement`, `InspectorProofs`, `InspectorRefinement`, `PodServicesProofs`, `IronicProofs`, the rest of `WebhookProofs` | done |
| 9 | Proofs: what deletion of the parent releases, as an invariant of its own next to `Settles`; AppliedMeansLoaded across a switch of the RPC transport; a bound on RangesDisjoint by `MaxRanges` | next |
| 10 | The API's Services and routes, a lagging cache in `NeutronAgent`, upgrade of the parent's own schema | later |

## 3. Modules

* **SecretConsumer** models lib-common's helpers (external code): `Manage`,
  `Remove`, `FinAfter`/`TrackedAfter` (FinalizeSecretRotation) and `Prune`. Their
  state is the set `fin` of Secrets with the finalizer.
* **SecretConsumption** is the abstract specification: a consumer protects Secrets,
  renders one that is protected, its pods load what is rendered, and it releases only
  what is neither rendered nor loaded, until its CR is deleted. It says nothing of
  status fields, hashes or steps.
* **NeutronAgent** has one action per step of
  `IronicNeutronAgentReconciler.reconcileNormal` and `reconcileDelete`, each with at
  most one write to the API server. `inst` is the in-memory copy of the CR status,
  `loc` the local variables; `PatchInstance` is the deferred patch. `StepFails` leaves
  a step with an error (the patch still happens), `Crash` loses the copy. The
  environment issues and rotates Secrets, toggles the bus, deletes the CR, rolls the
  Deployment out, and restarts containers, which then load config-data *as it is
  then*: a container restarted in a pod of an old template may have newer inputs.
  Its refinement mapping (`Consumption`) takes `fin`, the main URL of config-data and
  those of the pods for `held`, `rendered` and `used`.
* **Inspector** follows the same plan for `IronicInspectorReconciler`, one action per
  step: `ReconcileTransportURL`, `EnsureNotifications`, `ReconcileDatabase` (account and
  database, with finalizers, polled), `ReconcileConfig`, `DbSync` (a Job per image, its
  hash in the status), `Register` (EnsureRegistration for the KeystoneService, then the
  KeystoneEndpoint), `EnsureTopology`, `ReconcileStatefulSet`, `CheckReady`, and after
  them `ReleaseAccounts`, the finalization of both rotations and the prune;
  `DeleteRegistration` to `ReleaseSecrets` are `reconcileDelete`. A user, or the parent,
  moves the spec among `Specs`. Other operators set up the account, run the Job, register
  with Keystone; only the last of these is watched. The StatefulSet has one pod, stopped
  before the next one starts. It maps to `SecretConsumption` like the neutron agent.
* **PodServices** models `reconcileServices` of the conductor against what Kubernetes
  does with the objects it makes: `ListPods`, then for each pod of that list `GetObject`
  and `WriteObject` for its Service and its Route. The StatefulSet controller stops and
  starts pods (same name, new UID), others evict them, the garbage collector deletes
  objects whose owner is gone. `Written` is the quirk of the code: Get reads the live
  object over the desired one, so an update writes back what it has read.
* **Ironic** does the same as NeutronAgent for the parent and runs it concurrently with one
  reconcile per sub-CR (`SubStart`, `SubReconcile`, `SubPatch`). The four sub-CR kinds
  share these actions; what differs (which Secrets their spec names, whether they hash
  the parent's config-data, whether the parent waits for their applied hash) is in
  `SubSpec`, `SubHash` and `UpToDate`. `queue` is the set of CRs with a request in a
  work queue; every write that some controller watches adds to it.
* **Webhook** models admission: a user edits a manifest and applies it, `Defaulted` and
  `Errors` are `Default` and `ValidateCreate`/`ValidateUpdate`, and `Pool`, `Disjoint`,
  `Usable` and `Deployable` are the reference definitions they are compared with. An
  address is a number, a prefix an interval, a string that does not parse a value of its
  own. `ConductorName`, `ReadyCountKey` and `MasksKnown` are what the controllers later
  do with an admitted spec.
* **MCNeutronAgent**, **MCInspector**, **MCPodServices**, **MCIronic**, **MCWebhook** give
  the instances their values.
* The theorems are in **NeutronAgentProofs** (types, what config-data holds) and
  **NeutronAgentRefinement** (on top of it: the refinement of SecretConsumption and what
  depends on it), **InspectorProofs** and **InspectorRefinement** likewise, **IronicProofs**,
  **PodServicesProofs**, **WebhookProofs** and **SecretConsumptionProofs**.

Abstractions, all deliberate:

* A rendered configuration is the record of the Secrets whose URLs it holds, and
  hashes are injective, so a hash *is* what was hashed.
* The API server is read as it is (no cache lag); each controller has one worker
  per CR, as controller-runtime guarantees.
* In `Ironic` the calls that set finalizers belong to the step they follow, since
  nothing but the properties reads them. `NeutronAgent` has them as steps of their own.
* RBAC, database, Keystone lookup, password and TLS checks are represented by
  `StepFails` and `SubFails`: they end the reconcile at that step.
* Events of objects that are watched but carry no information in the model (the
  finalizer on a watched Secret, Topology, KeystoneAPI) are left out: fewer wake-ups
  make the liveness properties stronger.
* `Inspector` and `Agent` say whether their replicas are 0; they are not edited.
  Conductor group names are distinct, as the webhook checks.
* `Installed = TRUE` starts `Ironic` from `InitInstalled`, the state in which an
  installation rests; this leaves TLC's budget to what happens afterwards.
  `IronicServices` starts from a new CR.
* In `Inspector` the two halves of ensureTopology (finalizer off the old Topology, on the
  new one) are one step that may fail after the first half; the calls that protect a
  Secret belong to the step that reads its name.
* `PodServices` has the conductor's ports and network. The inspector's loop differs only
  in them. Labels are left out; a Service of a pod selects its whole conductor group.

## 4. Runs

Every cfg has `CHECK_DEADLOCK FALSE`: an operator with nothing queued, or whose CR is
gone, rests.

| Run | Question | Bounds |
|---|---|---|
| NeutronAgentRotation | does the controller implement SecretConsumption, is the applied hash true, is nothing untracked early, does deletion release all, and are in the end exactly the current Secrets protected and loaded? | 2+1 Secrets, 2 rotations (each waits for the last), 1 bus toggle, 1 fault |
| InspectorRotation | the same for the inspector, with its database, registration and StatefulSet; a deleted one leaves no finalizer on anything | 2+1 Secrets, 2 rotations, 1 bus edit, 1 restart |
| InspectorUpgrade | edits of account and notifications bus, image, transport, Topology and standalone mode: is every account held while rendered, does no image run before its schema, is the Topology released, does all settle? | 2 accounts, 2 images, 1 Topology, 1 notifications Secret, started with one spec and edited twice, 1 failed call |
| PodServices | does every pod end up with its own Service and Route, does none belong to another running pod, and does none change under the pod it belongs to? | 2 pods, 2 evictions, 1 edit (ports or replicas), 1 fault |
| IronicRotation | does the parent hold a Secret until the API has rolled out, and does its gate mean what it says? | 2 transport Secrets, 2 credentials, 2 rotations, 1 edit, 1 fault |
| IronicServices | a new CR with a conductor: last of several; Ready of the parent at rest | 2 transport Secrets, 1 rotation, 1 fault |
| IronicSettles | does the parent settle when a rotation overlaps edits of the notifications bus, and does a deleted one leave any finalizer? | 2+1 Secrets, 1 rotation, 2 edits or deletions at any moment, 1 fault, any three of these in one behaviour; installed without a bus, on one of the two Secrets |
| IronicEdits | does the parent become Ready again after the RPC transport was edited under a conductor and an API? | 1 transport Secret, 1 edit |
| Webhook | is what is admitted disjoint, usable and distinct, and what is refused at fault? | up to 2 of 14 ranges over 7 addresses, 3 conductors, 3 groups, 1 topology reference |

Two Secrets per bus suffice for A -> B -> A and, with the notification Secret, for
every mix of buses. One fault
placed at every step covers every half-done reconcile; one conductor and the API are
the smallest set with a "last" sub-CR. Two edits of the inspector reach a spec and leave
it again while the first is half done, which is what the old account, the old image and
the old Topology need. In `Ironic` `MaxDisturbances` bounds rotations, edits and faults
together: `IronicSettles` needs two edits and a fault, or a rotation, an edit and a
fault, never all four. Restarts (`MaxCrashes`) and failed calls (`MaxFaults`) have bounds
of their own in `Inspector`: a failed call still stores the status, a restart does not.
Two evictions replace a pod while the garbage of the first is still there. Symmetry over
Secrets is used in safety runs only. In `Webhook` two
ranges show every order of two intervals, in one list or across inspector and
conductors, and three conductors a duplicate that is not next to the first; with three
ranges `RangesDisjoint` is violated (`WebhookOverlap`).

The runs expected to fail record where the code does not do what it says
(`findings` in `PROJECT.json` quotes the lines):

| Run | What TLC shows |
|---|---|
| NeutronAgentNotifRotation | one rotation of the notifications Secret releases the old one before the rollout, because its tracked name is overwritten early |
| IronicAgentCredential | the credential of inspector and neutron agent is released on ObservedGeneration, before their pods are replaced |
| WebhookOverlap | of three DHCP ranges, the first two may overlap: each pair's result overwrites the one before |

More behaviours bound what the passing runs may claim, each seen with TLC on a variant
of a run:

* Rotations wait in the runs of `NeutronAgent` and `Inspector` (`RapidRotation = FALSE`): the
  next one starts when the status shows the last one finished. With `RapidRotation` and three Secrets
  (A -> B -> C) `ImplementsConsumption` fails: the prune keeps the tracked A and the
  current C and takes the finalizer off B while a pod of the unfinished rollout uses B.
  An inspector deleted at such a moment leaves a finalizer, as its deletion does not
  prune.
* The promise of SecretConsumption is made for the transport Secret only: the overwrite of
  `NeutronAgentNotifRotation` breaks it for the notifications Secret, makes a CR deleted in
  the middle of a notifications rotation leave a finalizer (`DeletedReleasesAll` with two
  NotifSecrets), and a disabled bus keep its TransportURL: the branch that deletes it
  (`DeleteNotificationsURL`) is reached only when the bus is disabled again before the
  hash of a config with it was recorded, after a failed call (`IronicSettles`) or while
  another account is awaited (`InspectorUpgrade`).
* An inspector switched to json-rpc forgets its tracked Secrets (line 620): deleted in the
  middle of a rotation it leaves the old one's finalizer. An inspector deleted while its
  database account is being changed leaves database or account finalizers, since only
  Spec.DatabaseAccount is looked up. `DeletedReleasesAll` is therefore checked without
  these edits, in `InspectorRotation`.
* A restart of the operator between ensureTopology and the status patch leaves the
  Topology's finalizer to nobody (`TopologyReleased` with MaxCrashes = 1): in
  `InspectorUpgrade` calls fail, but the operator does not die.
* Accounts are released after reconcileStatefulSet also when it returned early because the
  new generation is not observed yet: the pod of the old template may run on with an
  account without finalizer. `AccountReleasedLate` and `RenderedProtected` state what the
  code does hold: the template, and what a pod would load now, have another account.
* A conductor's edit that is undone before the pod has been replaced leaves a Service made
  from the intermediate spec for the life of the pod (`Served` with MaxEdits = 2), for
  updates write back what they read. Without a resync (next section) the Service of a
  replaced pod may be collected after the last reconcile and stay away.
* Switching oslo to json-rpc releases the transport Secret before any workload knows
  (`ServicesProtected` and `TrackedUntilUnused` with MaxRPCEdits = 1): safety runs of
  `Ironic` have no such edit. `AppliedMeansLoaded` may well survive it (no violation was
  found), but its invariant shares the hypothesis with the others'.
* A -> B -> A matches a stale AppliedInputSecretHash, which is never cleared
  (`AppliedMeansLoaded` in `IronicRotation` with RapidRotation).
* A DHCP range without a gateway is not checked at all beyond parsing
  (validateDHCPRange returns when gatewayAddr is nil): `GatewayRangesUsable` speaks of
  ranges with one. Groups that differ only in case pass the uniqueness check and share a
  lower-cased conductor name: `ConductorsDistinct` is checked for groups of one case.
* With two conductor groups the last mirrored condition hides that the first group is
  not ready (`ReadyIsCurrent` with two Conductors): `IronicServices` has one group.

## 5. Fairness

`FairSpec` assumes that the operator's reconciles, the workload controllers, the
db-sync Job and infra-operator's first issue of a Secret keep running: weak fairness
of each, which a running cluster's work queues give; in `Inspector` also that
mariadb-operator and keystone-operator answer. Polling is in the model, not in the
fairness: a reconcile is queued again only where the code returns an error or a
RequeueAfter (`Requeue`). `PodServices` assumes in addition controller-runtime's resync
of the cache (`Resync`), because the objects it is about belong to pods and their
deletion wakes nobody; `main.go` leaves its period at the default of ten hours. Users,
rotations, faults, evictions and
container restarts are not fair; they may happen or not. Liveness says what holds
once they stop, which the bounds enforce.

## 6. Proofs

Every safety property that a passing run checks is also a theorem, proved with TLAPS for
every value of the constants, sometimes under a hypothesis that the table names. The runs
make the same hypotheses, and section 4 tells what happens without them.

| Module | Theorems | Hypotheses |
|---|---|---|
| NeutronAgentProofs | TypeCorrect, RenderedAlwaysProtected | none |
| NeutronAgentRefinement | ImplementsSecretConsumption, ReadyAppliesTheSecret, TrackedWhileUsed | rotations wait |
| | DeletionReleasesAll | rotations wait; one notifications Secret at most |
| InspectorProofs | TypeCorrect, RenderedAlwaysProtected, AccountsReleasedLate, SchemaAlwaysFirst | none |
| | TopologyAlwaysReleased | MaxCrashes = 0 |
| InspectorRefinement | ImplementsSecretConsumption, ReadyAppliesTheSecret | rotations wait; every spec uses oslo |
| | DeletionReleasesAll | also: one account, one notifications Secret at most, and no restart where there is a Topology |
| IronicProofs | TypeCorrect | none |
| | ServicesAlwaysProtected, AppliedAlwaysMeansLoaded, AlwaysTrackedUntilUnused | rotations wait; no switch of the RPC transport |
| | ReadyAlwaysCurrent | one conductor group at most |
| PodServicesProofs | TypeCorrect, OwnersMatch, FixedUnderARunningPod | none |
| WebhookProofs | GatewayRangesAlwaysUsable, AlwaysRefusedForCause, OverlapExact, AdmittedRangeUsable | none |
| | TwoRangesDisjoint | two ranges at most |
| | AdmittedConductorsDistinct | groups differ in more than case |
| SecretConsumptionProofs | NeededAlwaysHeld | none |

"Rotations wait" is `RapidRotation = FALSE`: a Secret is replaced only when the status shows
its last replacement done. The bounds on rotations, edits, failures and restarts are any
naturals. The assumptions on constants are named where they are declared: the names of the
buses differ and the empty name is no Secret (`SecretsAssumption`, `NamesAssumption`), the
absent template is neither a template nor a configuration (`NoneAssumption`), conductor
sub-CRs have names of their own, none of them `api`, `inspector` or `agent`
(`ChildrenAssumption`), the two address families are disjoint sets of numbers and the unparsable
string is in neither (`AddressAssumption`, `RangeAssumption`), and the bounds are naturals.

**Rendered Secrets** (NeutronAgentProofs, InspectorProofs). RenderedProtected alone is not
inductive: whether a release hits a rendered Secret depends on the local variables of the
reconcile in progress. `RenderedInv` adds `Sorted` (a name is always a Secret of its own bus,
so releasing the old notifications Secret cannot hit the transport's), `InProgress` (from the
step that reads a name its Secret is protected; after the rendering, config-data holds just
these names) and `Deletion` (only a CR under deletion runs the deletion steps). It holds
for overlapping rotations too.

**Refinement** (NeutronAgentRefinement, InspectorRefinement). When rotations wait there are
two transport Secrets at a time, the tracked one and the issued one, and everything follows
the issued one in a fixed order: config-data, the workload's template, its pods, the status.
`RotationInv` says so in parts. `TwoSecrets`: no third one is around. `MovesOn`: what has
moved on to the issued one is preceded by what it was made from. `Working`: what each step of
a reconcile has made of the one before. `ReadyIsRolledOut`: the readiness read once at
`CheckReady` still means a complete rollout at each later step that uses it, which is the
heart of the matter, since everything else may move between. `Tracking`: the copy of the
status drops the tracked Secret only then. With `UsedHeld` (pods' Secrets are held)
every action is then one of SecretConsumption or a stutter, action by action. What is released
on deletion follows from `Accounted` (every finalizer is on a Secret that the status or a
TransportURL names) and, for the inspector, `ServicesReleasing` for database, account
and Keystone objects.

**The inspector's other releases** (InspectorProofs). `SchemaInv`: whatever stands for a
finished db-sync, the Job, its hash in the status or in the copy of it, or the step that was
reached, does so rightly. `TemplateInv`: the steps after the StatefulSet's update work on a
template made from the account of the spec they read. `TopologyInv`: the one Topology that
may have the finalizer is the one the status or its copy names.

**The parent and its sub-CRs** (IronicProofs). The invariants are stated per service and kind
of Secret (transport, application credential) and for any number of conductors, so that one
argument serves all. `ServiceInv`: what a service has applied, every one of its pods has loaded
(`Applied`), config-data, template and pods follow the spec in that order (`Rolling`), a
service is told of a new Secret only when it has applied the last (`MovesOn`), and the parent's
observation that all sub-CRs seen so far are up to date stays true while it looks at the
rest (`AllApplied`), although each is reconciled concurrently. `TrackingInv`: no service uses a
Secret that is neither tracked by the status nor wanted now (`Tracked`), nor one that is not
held (`Holding`). `MirrorInv` is about the conditions: while the parent goes through its
sub-CRs and until it stores what it found, a condition is true only for a sub-CR that is
still current, or an event waits for the parent. Two conductor groups share one condition,
which is where this ends.

**Owners** (PodServicesProofs). `OwnerInv` needs that UIDs of running pods differ and that the
list a reconcile works on, outdated as it may be, holds names with the UIDs they had
(`UidsDiffer`, `Listed`).

**Admission** (WebhookProofs). `ValidatedInv`: the manifest is a spec, and the verdict on it is
that of the validation. The rest is about operators. `UsablePasses` and `AdmittedRangeUsable`
compare validateDHCPRange with `Usable`; `OverlapExact` says that the pairwise check forbids two
ranges just when they share an address, so the fault `WebhookOverlap` shows is in the loop and
not in the comparison; `DeployablePasses` takes both through the loop. `FlattenType` gives the
type of `FlattenSeq`, which is recursive: the induction theorems take operators, so the
proof goes by a least counterexample (`LeastElement`), as does the one that
PodServices' loop is at one of its pods.

**NeededAlwaysHeld** is what the refinement is for: whatever implements SecretConsumption keeps
the finalizer on each Secret a pod has loaded or would load now.

Model-checked only: liveness (`Converges`, `Settles`, `Served`), which is out of the prover's
reach, and the properties that the runs expected to fail refute.

## 7. Not modelled

The inspector's and API's exposed Services and routes, network attachments, RBAC and TLS
checks beyond their failing, the conductor's own TransportURL, the Topology of the other
controllers, upgrades of the parent's schema. Pod specs, volumes, templates, CRDs,
generated code and `main.go` hold no state worth a model.
