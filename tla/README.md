# A TLA+ model of rcs-ocm-deployer

rcs-ocm-deployer is an operator on an Open Cluster Management (OCM) hub. Users
write `Capp` objects on the hub; the operator picks a managed cluster for each
and publishes it as a `ManifestWork` in the namespace of that cluster, where an
OCM work agent applies it. This directory holds TLA+ modules that model the
operator, TLC configurations that check them on small instances, and TLAPS proofs
of the facts that should hold on every instance.

## Inventory

| Component | State | Operations | Correct when |
|---|---|---|---|
| Placement controller (`internal/placement`) | a work queue; the locals of one running `Reconcile` | event filter, `Reconcile`, `pickDecision`, `UpdateCappDestination` (status write, then annotation write) | it loses no user's write, records a cluster and not a Placement, and drops no Capp before it is annotated |
| Sync controller (`internal/sync/controller`, `adapters`) | a work queue; the locals of one running `Reconcile` | event filter, `EnsureFinalizer`, `SyncManifestWork` (create or update), `HandleCappDeletion` (delete, then give up the finalizer) | the ManifestWork of a live Capp carries its latest spec; none outlives its Capp; it drops no Capp before it is published, or gone |
| Manager (`cmd/main.go`) | the Capp informer's cache and pending events, shared by the controllers | start, deliver, resync, crash | a restart loses no work |
| Validating webhook (`internal/webhooks`) | none; the request's objects, RCSConfig, clusters, DNS | `isSiteValid`, `RCSConfig` present, hostname and log spec | what it admits can be placed; a hostname is stored only by a request for which it was checked; it never locks the operator out |
| Mutating webhook (`internal/webhooks/mutator.go`) | none; the request's object, RCSConfig | default resources, last-updated-by | defaults reach every container and never replace what a user asked for; the annotation names the last user |
| Manifest directors and builders (`internal/sync/directors`, `builders`) | the list under construction | collect ConfigMaps, Secrets, RBAC; build the list | the list holds everything the Capp it carries refers to, and follows later changes |
| `RCSConfig` API (`api/v1alpha1`) | placements, default resources, hostname patterns | changed by administrators | |
| External: API server, OCM scheduler, work agents | objects, resourceVersions, PlacementDecisions, applied work | | |

The controllers never call each other. They interact through the stored Capp: the
placement controller's filter passes Capps without the annotation
`rcs.dana.io/has-placement`, the sync controller's filter passes Capps with it, and
the placement controller's second write moves a Capp from one to the other. Every
update of a Capp, the controllers' own included, passes the webhooks, which run in
the same process and read the same caches. Every `Get` is a read of an informer cache.

Hard behaviours: reads from lagging caches followed by writes of whole objects;
two writes that are one decision; the controllers' own writes coming back as
events; keys that are requeued and meet a re-created object; deletion spread over
two objects with finalizers; the webhook in the way of the operator; crashes
between any two calls; nothing watched but Capps; admission checks that are old by the
time their object is stored. `PROJECT.json` lists each as a
hazard at its line, with the properties aimed at it.

## Modules

| Module | Models |
|---|---|
| `HubApi` | stored Capps and ManifestWorks, `resourceVersion` and conflicts, status subresource, finalizers, informer caches and pending events, the validating webhook's verdict |
| `PlacementController` | `PlacementReconciler` |
| `SyncController` | `SyncReconciler` and the adapters it calls |
| `HubEnvironment` | users, administrators, OCM scheduler, work agents, ManifestWork informer (external) |
| `Deployer` | the composition: informer delivery, resync, restart, `Next`, fairness, properties |
| `DeployerInv` | the inductive invariants: in every environment, while nothing moves a placed Capp, of the queues and events, and while the RCSConfig stays |
| `CappLifecycle` | what the operator promises about a Capp: the abstract specification |
| `DeployerRefinement` | the mapping from `Deployer` to `CappLifecycle`, and the order of revisions its proof needs |
| `Admission` | both webhooks and the requests of users and of the operator that race through them |
| `Manifests` | `CappDirector`, `VolumesDirector`, `AuthDirector` and the builders: how the list of one Capp is put together |
| `DeployerProofs`, `LifecycleProofs`, `PlacementProofs`, `WakeupProofs` | theorems about `Deployer`, each module on top of the one before |
| `CappLifecycleProofs`, `AdmissionProofs`, `ManifestsProofs` | theorems about `CappLifecycle`, `Admission`, `Manifests` |
| `SequenceProofs` | lemmas about `FlattenSeq`, for `ManifestsProofs` |
| `MCDeployer`, `MCAdmission`, `MCManifests` | values for the constants of TLC's instances |

`Deployer` composes `HubApi`, `PlacementController`, `SyncController` and
`HubEnvironment`. `Admission` and `Manifests` look closer at two steps of that
composition, the verdict on an update and the assembly of manifests, with data that
`Deployer` abstracts away. Two facts tie them to it: `NotLockedOut` in `Admission` says
that `HubApi`'s `Admitted` (RCSConfig present and site valid) is all that matters for a
write that leaves the user's spec alone, and `ListMatchesCapp` in `Manifests` says that a
list belongs to one revision of the Capp, which is what `rev` in a ManifestWork stands for.

### State and actions against the code

*Objects.* A Capp is what the controllers look at: `Spec.Site`, the annotation,
`Status.ApplicationLinks.Site`, the cleanup finalizer, the deletion timestamp, uid
and resourceVersion. The rest of the spec is one number, `rev`, the resourceVersion
of the last write of a user. A ManifestWork is the Capp and the `rev` its manifests
were assembled from, what the agent has applied, and whether it is being deleted. The
name of a ManifestWork is the concatenation of the hyphen-separated parts of
namespace and name, as the code joins them.

*Writes.* `Store` assigns a new version and appends a watch event. `Update` and
`Status().Update` fail on another resourceVersion than the stored one; a write that
changes nothing makes no version; an object that is being deleted goes with its
finalizer. `ver` counts the versions of a key across deletions, so a re-created Capp
never repeats one.

*Caches.* `events[c]` holds the versions the informer has not delivered.
`Deliver` updates the cache and runs the filters (the real handlers run a little
after the cache is updated; a reconcile in between only reads what it would read
anyway). The ManifestWork cache jumps to the present in `RefreshMWCache`; without
the environment move `mwLag` it is never read while it lags.

*Reconciles.* Each controller has one worker (MaxConcurrentReconciles is not set),
so each is one program counter. `PlacementReconciler.Reconcile` is `PlaceGetConfig`,
`PlaceSelect`, `UpdateCappDestination`, `AddCappHasPlacementAnnotation`: cut at the
read of the RCSConfig, the read of the Capp and the two writes. `SyncReconciler.Reconcile`
is `SyncBegin`, then either `EnsureFinalizer` and `SyncManifestWork` or
`HandleCappDeletion`. Steps of other actors fall in between. Every error return,
`RequeueAfter` and recovered panic (controller-runtime 0.19 recovers panics of
reconcilers by default) puts the key back on the queue; a queue is a set, because
client-go's queue holds a key once, and keys in back-off or waiting for
`RequeueAfter` are members too, since nothing in the code depends on how long they wait.

*Faults.* `PlaceCallFails` and `SyncCallFails` are a failed call at any point, or
the answer to a successful write that was lost; `Restart` is a crash at any point.

*Environment.* `Env` names the moves an instance allows: `siteChange` (edits of
`Spec.Site`), `decisionChange` (revised decisions), `configChange` (RCSConfig edited or
removed), `clusterLeave`, `userAnnotates` (Capps created with the annotation),
`mwLag`, `volumes` (referenced ConfigMaps and Secrets come and go). Creating, editing
and deleting Capps, and first decisions, are always allowed.

*Admission.* A request is its requester, the object it was read from, the object to
store, and how far it got. `Send` is the API server reading the stored object; `Mutate`
is `CappMutator.Handle`, `Validate` is `CappValidator.Handle`, `Persist` the version check
and the write. Between any two of them other requests are served and the RCSConfig, the
registered clusters and DNS change; mutator and validator read the RCSConfig separately,
as in the code. `setResourceQuantity` returns what is left in the Capp afterwards: Go's
`range` yields copies of containers, a map in a copy is the Capp's own map, a map made for
a nil field is the copy's alone. `OmitEmpty` is the `omitempty` of the JSON the mutator
answers with. `Mutate` without an RCSConfig panics on a nil pointer; the webhook's
`failurePolicy=fail` makes that a refusal. `Lookups` is what `net.LookupHost` may answer,
an error included. A hostname is a model value, told apart by membership in `Malformed`
(`IsFullyQualifiedDomainName`), `ClusterLocal` (the suffix check) and `Matches` (regular
expressions); a pattern in `Broken` makes `regexp.MustCompile` panic. A username is the
sequence of its parts between colons.

*Manifests.* One placed Capp and the sync worker. `Begin` reads the Capp,
`createConfigMapManifests` and `createSecretManifests` are one `Get` each time they are
taken, `AssembleAuth` lists the RoleBindings, `Apply` creates or updates the
ManifestWork. A Capp's spec is kept as its references: the variables of its containers and
init containers, its volumes, pull secrets and the Secret of an elastic log spec. A volume is a
ConfigMap, a Secret, or of another kind with `sources` (a projected volume combines
several ConfigMaps and Secrets). `getResourceVolumesFromContainerSpec` reads of these what the
code reads; `DirectReferences` names the same part as sets and `References` all of it, so the
properties do not lean on how the code gathers. `WriteConfigMap`, `WriteSecret`, `SetBindings` and `EditCapp` fall in
between; only `EditCapp` queues the key, since nothing else is watched. `Fault` is a failed
call or a crash, after which the key is queued again. The Get and the write of the
ManifestWork are one step here; conflicts are in `SyncController`.

### Assumptions

- Only the placement controller writes `Status.ApplicationLinks.Site` on the hub and
  only the operator writes the cleanup finalizer; no other finalizer is on a Capp. The
  status add-on, which is not in this repository, writes other status fields.
- One process at a time. Leader election hands over between processes; a hand-over is
  a `Restart`.
- A Get and the write of a ManifestWork are one step. Only the sync worker creates and
  deletes ManifestWorks, the agent's writes in between look like a stale cache, and the
  model compares the whole cached object where the API server compares versions.
- ManagedClusters, RCSConfig, PlacementDecisions, ConfigMaps and Secrets are read up to
  date. A lagging read of these is a change that happens a little later.
- PlacementDecisions of one Placement are a set; `Items[0]` of a cached List is any of them.
- `Admission`: a request made from another version than the stored one ends in a conflict
  and is left out; the operator's username has the form that `isExcludedServiceAccount`
  looks for, users' do not. Status writes do not pass the webhooks (they are registered
  for `capps`, not `capps/status`).
- After a `Restart` the first List is taken to be current. An API server may answer it from a
  cache that is a little behind; that instance would behave like one whose events are pending,
  except that a version seen before the crash could be seen again, which is not modelled.
- `Manifests`: reads of ConfigMaps, Secrets and RoleBindings are up to date, as above.

## Runs

`CHECK_DEADLOCK FALSE` is set in the runs of `MCDeployer` and `MCAdmission` because the
environment's budget ends: a hub on which nobody writes any more is quiet. `MCManifests`
checks for deadlock; the resync never ends.

Runs of `MCDeployer`:

| Run | Question | Environment | Bounds | Result |
|---|---|---|---|---|
| `stable` | does deletion find every ManifestWork (`WorkReachable`), is a Capp that is left alone published (`PublishedOrPending`), and does the operator implement the strict lifecycle (`ImplementsStrictLifecycle`)? Also the invariant of their proofs, `PlacementSettled` | first decisions, `clusterLeave`, `volumes`; sites: a Placement or a cluster | 1 Capp, 2 clusters, 3 writes, 1 fault | hold |
| `adverse` | do writes from stale copies stay harmless (`TypeOK`, `ConsistentCopies`, `RevisionsOrdered`, `NoLostUpdate`, `CreatedUnderFinalizer`, `NeverRollsBack`), and does the operator implement the lifecycle (`ImplementsLifecycle`)? | `decisionChange`, `configChange`, `userAnnotates`, `clusterLeave`, `mwLag`; sites: none | 1 Capp, 2 clusters, 3 writes, 1 fault | hold |
| `progress` | does every Capp that waits for a controller have its key on the way (`NoCappForgotten`), is it published in the end (`Converges`), and does every deletion of a schedulable Capp end (`SchedulableDeletionCompletes`)? | `configChange` | 1 Capp, 1 cluster, 4 writes, 1 fault | hold |
| `two_capps` | does one broken Capp hold up another (`Converges`)? | `volumes`; no Placement | 2 Capps, 1 cluster, 2 writes, 1 fault | holds |
| `moved` | is a Capp on one cluster (`OneCluster`)? | `decisionChange` | 3 writes | violated |
| `stale_work_cache` | can a ManifestWork outlive its Capp (`NoOrphan`)? | `mwLag` | 3 writes | violated |
| `placement_unlisted` | is `Status.Site` a cluster (`SiteIsCluster`)? | `configChange` | 2 writes | violated |
| `shared_name` | does every Capp have a ManifestWork of its own (`OwnWork`)? | none | 2 Capps, 2 writes | violated |

Runs of `MCAdmission`:

| Run | Question | Bounds | Result |
|---|---|---|---|
| `contended` | do racing writes keep what they should (`TypeOK`, `RequestsConsistent`, `LastUpdater`, `QuantitiesKept`, `DefaultsSettle`, `HostnameVetted`), and can a stored Capp be denied to the operator (`NotLockedOut`)? | 2 users and the operator, 1 Capp, 5 specs of which 3 are always denied, 3 configs or none (one with a broken pattern), 3 requests | hold |
| `shared_hostname` | are hostnames unique (`HostnamesUnique`)? | 2 Capps, 2 requests | violated |

Runs of `MCManifests`:

| Run | Question | Bounds | Result |
|---|---|---|---|
| `lists` | is a list always that of the Capp it carries (`TypeOK`, `ListMatchesCapp`), with what that Capp refers to directly and nothing else (`DirectlyReferencedPublished`), and does the cluster catch up with the hub (`Refreshed`)? | 2 specs over 2 ConfigMaps and 2 Secrets, 2 RoleBindings, 2 writes of users, 1 fault | hold |
| `projected` | is everything that a Capp refers to published beside it (`NothingDangling`)? | 1 spec with a projected volume, no write of users | violated |

*Why the bounds are enough.* The bounds are `MaxOps` (writes of users and
administrators) and `MaxFaults` (failed calls, lost answers, crashes). Three writes cover
create, edit, delete, and create, delete, re-create: the shortest sequence in which a key
or a copy left over from one incarnation of a Capp meets the next. In `stable` a volume can be
missing from the start or come and go instead of one of these. `progress` has four: a
re-created Capp that got the finalizer from a key of its predecessor can be deleted again before
it is annotated, with the fault as the restart that hides it from the sync controller; and
`rcs-config` can be removed while a deletion is under way and be put back. It starts from an empty list
of placements as well, and leaves volumes to `two_capps`, where two writes create both Capps, with
the volumes of either missing from the start, or one Capp whose volumes come or go. One
fault at any point suffices for every hazard listed, because a fault's only
lasting effect is a requeue, a lost queue or a lost answer. Two clusters tell a moved
Capp from one that stayed; the local cluster is one of them, so that the special case of
`GetDecisionClusterName` is taken; `progress` and `two_capps` ask nothing about the place and have
one. Reconcile steps, informer steps and agent steps are not
bounded at all. No passing run allows `siteChange`: the theorems that hold in every
environment hold with it.

In `contended` three requests let both users and the operator overlap, or one of them
write again after a change of defaults; the specs differ in hostname, in the number of
containers and in which resource lists are nil, empty or filled, and there is one for each
reason to be denied (the site: a Placement that one of the configs does not list).
`NotLockedOut` quantifies over every DNS answer in every state. In `lists`, `ops` starts at 1, the version of the volumes
that exist from the start, so `MaxOps = 3` leaves two writes: they can change the Capp and one of
its volumes, or two volumes, between two reads of one assembly. One spec names a ConfigMap twice,
the other spreads its references over two containers, a volume, a projected volume and a pull
secret. Changes of RCSConfig, clusters and DNS, and steps of the worker, resync and
agent are not bounded.

### What the violations show

Each is described with its lines under `findings` in `PROJECT.json`.

- `moved`: create; the placement controller writes the status; that event has no
  annotation, so it queues the key again; the annotation is written and the sync
  controller publishes; the scheduler revises its decision; the queued key is
  reconciled, `Reconcile` does not look at the annotation and picks the other cluster.
  The sync controller publishes there and nobody removes the first ManifestWork.
- `stale_work_cache`: the Capp is deleted just after its ManifestWork was created; the
  cache answers NotFound, which `HandleCappDeletion` takes for "already gone".
- `placement_unlisted`: a Placement removed from the RCSConfig after the Capp was
  admitted is written into `Status.Site` as if it were a cluster.
- `shared_name`: namespace `a-b` with name `c` and namespace `a` with name `b-c` get
  the same ManifestWork name.
- `shared_hostname`: a user's first Capp is stored; its hostname is not in DNS before the
  Capp runs somewhere; the second Capp with the same hostname passes the same check.
- `projected`: a Capp mounts a ConfigMap and a Secret as one projected volume.
  `gatherConfigVolumes` passes it over, so the work is published without them, and its pods cannot
  start on the cluster. The repository's README promises "all the `Secrets` and `Volumes` referenced in
  the `Capp` CR". What init containers read, and the `LogSpec.PasswordSecret` that the webhook
  requires of an elastic log spec, are passed over in the same way; `OnlyPassedOverDangle` proves that
  nothing else is.

Other disagreements, met while modelling and not kept as runs:

- `SyncManifestWork` does not look at the ManifestWork's deletion timestamp: an update of
  one that is being deleted succeeds, the key is let go, and the work goes away afterwards.
  A Capp re-created while its predecessor's ManifestWork is still there meets this, which takes
  a deletion that missed that work: `PublishedOrPending` fails with `mwLag` and with
  `decisionChange` (four writes), and `MarkedWithCapp` says why it holds without them.
- A Capp created with the has-placement annotation (restored from a backup, say) goes
  straight to the sync controller and never gets a `Status.Site`; its deletion looks in the
  wrong namespace and leaves the ManifestWork. `stale_work_cache` with `userAnnotates` instead of
  `mwLag` shows it.
- While `rcs-config` is missing the webhook denies all updates, the removal of the
  finalizer too; and a re-created Capp that got the finalizer from a key requeued for its
  predecessor, is deleted before it is placed and meets a restart of the operator, is hidden
  from the sync controller by the filter until its Placement has a decision. In both cases a
  deleted Capp stays for as long as it is not schedulable, which is why
  `SchedulableDeletionCompletes` says so: it excuses the wait, and asks that the deletion is taken up
  again whenever the Capp is schedulable afterwards and stays it.
- The comment of `getResourceVolumesFromContainerSpec` (`volumes.go:127`) counts "TLS secrets" among
  what it gathers. No code gathers one: the `tlsSecret` that the repository's README names in its
  example Capp (`README.md:291`) is not published. The model has no such reference; it would dangle
  like those of `projected`.
- A container without `resources` is stored without the default ones: `mutateResources` says that it
  "sets default values for the Capp container resources, if such do not already exist", but the map it makes for a nil
  list is lost with the loop's copy of the container (`mutator.go:88`). `setResourceQuantity` models this and
  `DefaultsSettle` holds with it. The end-to-end test (`test/e2e_tests/mutating.go`) compares
  `Quantity.String()` with the empty string, which no quantity prints as, so it does not notice.
- `getUsersfromNamespace` keeps the names of subjects and drops their kinds: a Group that
  may read logs on the hub becomes a User of that name on the cluster.

### Fairness

`FairSpec` assumes weak fairness of informer delivery, of the agents and of every step
of a running reconcile (a goroutine that runs), and strong fairness of taking each
queued key: the rate-limited queue hands out every key that stays in it, also when
other keys keep the one worker busy. Users, administrators, the scheduler, resyncs and
faults are not fair. In `Manifests`, `FairSpec` assumes weak fairness of the worker, of the
agent and of the resync: `cmd/main.go` leaves the cache's `SyncPeriod` at
controller-runtime's default, ten hours, so resyncs go on for ever. `Refreshed` needs this, because a changed ConfigMap
raises no event. In `Deployer`, without fairness on resyncs, `Converges` does not lean on the
ten-hour resync of the informer.

## Proofs

`DeployerProofs` proves, for every choice of the constants that satisfies the
assumptions in `HubApi` and `HubEnvironment` (in particular for every `Env`, every
number of Capps and clusters and every bound):

- `TypeCorrect`: `Spec => []TypeOK`
- `CopiesConsistent`: `Spec => []ConsistentCopies`
- `LostUpdatesExcluded`: `Spec => NoLostUpdate`
- `WorkCreatedUnderFinalizer`: `Spec => CreatedUnderFinalizer`

`LifecycleProofs`, under the same assumptions:

- `RevisionsStayOrdered`: `Spec => []RevisionsOrdered`
- `SpecsNeverRollBack`: `Spec => NeverRollsBack`
- `LifecycleImplemented`: `Spec => ImplementsLifecycle`, the refinement

`PlacementProofs`, while nothing moves a placed Capp (`Steady`, see below):

- `PlacementsStaySettled`: `Spec => []PlacementSettled`
- `WorksStayReachable`: `Spec => []WorkReachable`
- `StrictLifecycleImplemented`: `Spec => ImplementsStrictLifecycle`, the strict refinement

`WakeupProofs`:

- `NoKeyIsLost`: `Spec => []NoCappForgotten`, in every environment
- `LeftAlonePublished`: `Spec => []PublishedOrPending`, if `Steady` and `DistinctNames`

and, for the four properties that the violating runs of `MCDeployer` refute, under which
condition they do hold:

- `OneClusterWhileSteady`: `Spec => []OneCluster`, if `Steady` and `DistinctNames`
- `NoOrphanWhileSteady`: `Spec => []NoOrphan`, if `Steady`
- `WorksKeptApart`: `Spec => OwnWork`, if `DistinctNames`
- `SiteIsClusterWhileConfigured`: `Spec => []SiteIsCluster`, if `configChange` is not in `Env`

`CappLifecycleProofs`: `NothingOrphaned`, `Strict /\ Spec => []NoOrphan` of the abstract
specification. `AdmissionProofs`, for any users, specs, configs and hostnames:
`AdmissionTypeCorrect`, `RequestsStayConsistent`, `LastUpdaterNamed`, `UserQuantitiesKept`,
`DefaultsSettled`, `OperatorNotLockedOut`, `HostnamesVetted`. `ManifestsProofs`, for any
specs and volumes: `ManifestsTypeCorrect`, `Spec => []TypeOK`; `PublishedListMatches`,
`Spec => []ListMatchesCapp`; `DirectReferencesPublished`, `Spec => []DirectlyReferencedPublished`;
and, for the property that `projected` refutes, `OnlyPassedOverDangle`: `Spec => []NothingDangling` if what
init containers, the sources of other volumes and the log spec refer to is among the direct references as well.

The assumptions on constants are that specs, configs and decisions are made of values of
the right kind, that the bounds are natural numbers and that `None` is none of the
objects, names, workloads or configs; in `Admission` also that the operator's username is
excluded and users' are not, and in `Manifests` that the names of subjects are strings. Two
more are hypotheses of the theorems that need them, because the code does not guarantee them:

- `Steady` says how a hub has to be operated for placements to be final: nobody edits
  `Spec.Site` or `rcs-config`, creates Capps with the annotation or revises a
  PlacementDecision, a Placement's decisions name one cluster, and the cache of
  ManifestWorks is up to date. Conflicts, failed calls, lost answers, crashes, edits,
  deletions and re-creations, missing volumes, clusters that leave and decisions that come
  late are all still there; run `stable` is such an instance. `moved` shows what
  `decisionChange` breaks, `stale_work_cache` what `mwLag` does.
- `DistinctNames` says that `GenerateMWName` tells the Capps apart; `shared_name` shows what
  happens otherwise.

*Copies.* Neither action property is inductive by itself: whether a write from a
copy is harmless depends on where the copy came from. `IInv` (in `DeployerInv`) adds
this. `InOrder`: the cached object, the pending events and the stored object carry
consecutive versions. `PlaceSnapshot` and `SyncSnapshot`: a worker's copy is an old
version or equal to the stored object, so a write that passes the version check starts
from the stored object and can only change what the controller means to change. That
gives `NoLostUpdate`. For `CreatedUnderFinalizer` the copy may be old: `SyncManifestWork`
runs from it without any version check on the Capp. Here `Guarded` helps: once a live
version with the finalizer is in the cache or on its way to it, the stored Capp has the
finalizer, because only `removeFinalizer` takes it away, that needs a deleting copy of the
stored version in the cache, and by then the informer has passed every live version.
`SyncSnapshot` carries this over to the worker's copy, which is never newer than the cache.

The proof has one lemma per component and invariant (`PlaceType`, `SyncType`, `EnvType`,
`ManagerType`, and the same for `Consistent`), on top of lemmas about what `Store`,
`Write` and `UpdateCapp` keep. TLC checks `TypeOK`, `ConsistentCopies` and `RevisionsOrdered` in run `adverse`.

*Revisions.* `NeverRollsBack` compares two ManifestWorks; what it depends on is which
copies of a Capp can still be published. `RInv` adds to `IInv`: of the versions the
informer shows or will show, later ones have no older spec (`Monotone`); the sync
worker's copy is no newer than any of them (`SyncRevision`); a published revision is no
newer than any of them, nor than the worker's copy if it is of the same Capp
(`WorkRevision`). A write by a user adds a version that is newer than all; `SyncBegin` takes
the cached one, the oldest; `SyncManifestWork` publishes the worker's copy, which all others
follow. Across a deletion `ver` carries the order on to the next Capp of that name.

*Refinement.* `phase`, `rev` and `works` are computed from the stored Capp and the stored
ManifestWorks; caches, queues and workers disappear. `LifecycleProofs` shows for each
action which abstract step it is: `CreateCapp`, `EditCapp`, `DeleteCapp` are `Create`, `Edit`,
`Delete`; `EnsureFinalizer` is `Guard`; `removeFinalizer` is `Release`; writes of a
ManifestWork are `Publish`, which needs `RevisionsOrdered` for the order of revisions and
`Guarded` for the phase; the agents' clean-up is `Withdraw`, a cluster that leaves is
`LoseCluster`; everything else is a stutter.

*Settled placements.* `WorkReachable` relates a ManifestWork, put where the annotation pointed
in an old copy, to the status of the stored Capp. `SInv` adds to `RInv` what `PlacementSettled`
says. The status, once set, stays for as long as the Capp has its uid (`KeepsStatus`), and it is what
the placement controller would choose again (`Targets`): so a second reconcile, with whatever
copy, writes the same. An annotation equals the status beside it (`Agrees`), in the cache, in
pending events and in the worker's copy. A live copy with the finalizer is of the Capp that is
stored now (`SameCapp`), because a Capp goes away only after its deletion was seen. Together
they put `SyncManifestWork` where `HandleCappDeletion` will look, and `WorkNamed` makes it look for
the right name. The finalizer is given up only when the work at that place is gone.

*Strict refinement.* `LifecycleImplemented` already maps every step; what is left is that a
`Publish` happens on one cluster only and a `Release` only without works, and both follow from
`WorkReachable`, before and after the step.

*Nothing forgotten.* `WakeInv` has three parts. `IInv` says that the last pending event is the
stored Capp, so whichever filter it passes is the right one (`DeliverWakes`); resync and restart
repeat that event. Every change of a Capp appends an event (`Announced`). And a worker that has
the last claim on a key lets go of it only when its duty is done: the placement controller
after the annotation was accepted, the sync controller after a publication with the finalizer stored; all error
paths, panics and the deletion path put the key back. `OutdatedReadAgain` is what makes this
inductive: when the sync worker's copy is no longer right, the key is queued or an event is
pending, so it does not matter that the reconcile ends without an error.

*Left alone, published.* When the sync worker was the last to have the key, its copy was not
outdated, so what it wrote is the stored revision, at the annotated cluster (`DonePublishes`).
It stays: another write of that work would need another reconcile, which is pending then. A
work that was told to go would not stay, hence `MarkedWithCapp`: only works of deleted Capps are,
since a deleting copy is never taken for the next Capp of that name (`DeletionsFinal`; a live Capp
gets its finalizer from `EnsureFinalizer` alone, and only from a current copy, `FinalizerComes`).

*Sites.* `SitesKnown`: while the RCSConfig stays, a site that the webhook admitted is a listed
Placement or a cluster, in every copy, and the list that `Reconcile` read is the one by which it
was admitted; so `Reconcile` resolves every Placement before it writes.

*Admission.* None of the properties of stored Capps is inductive, because what is stored
was decided two steps earlier from an object that may be gone. `RequestsConsistent` says of
each request what it will bring if it is stored: relative to the object it was read from,
it keeps the containers, names the right user, is settled under the defaults it was
mutated with, and was checked if its hostname is new. `Persist` compares that object with the
stored one, so the relation becomes one to the stored object. `HostnamesVetted` follows for the one
request that is stored and answered in the step, whatever other requests were checked for. Monotonicity and idempotence of
`mutateResources` are lemmas.

*Manifests.* The worker's list names a prefix of what `getResourceVolumesFromContainerSpec`
gathers from the copy of the Capp in the list itself, complete for the stages behind it. For
`TypeOK` and `DirectlyReferencedPublished` it takes what gathering returns: the names of the direct
references, all of them and no others (`GatheredNames`). The references of the containers are put together by `FlattenSeq`, which the
library defines by recursion over the length. `SequenceProofs` proves by induction what it
returns, as a statement about a set of numbers (`SetInduction`, from the
well-foundedness of the naturals), because the library's induction theorems take a predicate
and no installed prover instantiates it. `getResourceVolumesFromContainerSpec` is a function
on `Specs` for the same reason.

*Only model-checked.* The liveness properties `Converges`, `SchedulableDeletionCompletes` and
`Refreshed`: fairness and ENABLED are out of the prover's reach. `NoKeyIsLost` and
`LeftAlonePublished` prove the part of `Converges` that is about safety: no Capp can end up where no step is
owed to it. Every invariant and action property of a passing run is proved.

## Not modelled

- Recorded events, logs, metrics, probes, flags: no effect on the state.
- Labels, kinds and API versions of manifests, and the Namespace and Role, which are the
  same in every list. `BuildConfigMap` copies `Data` and not `BinaryData`; the model's volumes
  have a version and no contents, so this does not show.
- Decoding of admission requests: a request the decoder refuses stores nothing.
- `SetManifestWorkCappAnnotations` works on a copy and changes nothing.
- Leader election, beyond hand-over as a restart: the manager is deployed with one replica.
- Generated deep copies; Helm chart, kustomize configuration and scripts, which have no
  behaviour; the end-to-end tests, which are read as statements of intent.
- The `rcs-score` and status add-ons live in other repositories.

## Plan

Done: the controllers and their composition, both webhooks, the directors and builders,
the abstract lifecycle and both refinements, with their runs and proofs. Left:

1. Lagging reads of RCSConfig, ManagedClusters and volumes as caches of their own, and a
   version check on ManifestWorks that separates the Get from the write.
2. A weaker `Steady`: `configChange` that keeps the Placements of stored Capps listed moves
   nothing either.
