# KCM in TLA+

A TLA+ development for k0rdent/kcm, the Kubernetes operator that provisions
clusters from templates, installs services on them and manages who may use what.
It models the protocols between KCM's controllers, the objects they share and the
systems they drive, checks them with TLC on small instances, and proves the most
important properties with TLAPS for every instance.

Paths below are relative to the repository root, under `src/`.

## 1. The system

KCM is a set of controllers in one manager process. A controller is woken with
the name of an object, reads it and what it refers to (mostly from an informer
cache, which may be behind), works, makes calls to API servers, and writes the
object's status at the end. Nothing else is shared: controllers talk through
objects. Every write carries the `resourceVersion` of what was read and fails with
a conflict if somebody else wrote in between; every step may fail or be cut off by
a crash; every reconcile may be repeated.

### Components

| Component | State it keeps | Operations | Talks to |
|---|---|---|---|
| Template chains (`api/v1beta1/templatechain_common.go`) | the graph of supported templates and upgrades | validity, all routes between two templates | service rollout, webhooks |
| Service rollout, owner side (`internal/serviceset`) | `ServiceSet.spec.services` | which services may move, to which version; the conditional write | ClusterDeployment and MultiClusterService controllers call it; reads the adapter's status |
| Sveltos adapter (`internal/controller/adapters/sveltos`) | Profile, `ServiceSet.status`, cache of ClusterConfigurations | write Profile, collect ClusterSummary, verify on the cluster, stamp version and hash, deletion | sveltos, the child cluster |
| Status poller (`adapters/sveltos/enqueue.go`, `internal/util/poller`) | per-set back-off and last seen resourceVersion, bounded channel | tick, evaluate, emit, drain | adapter's workqueue |
| RBAC of child clusters (`clusterdeployment_controller.go`, `internal/controller/rbac`) | `status.rbacPolicyGrant` and condition, in-memory freshness map | mark, sync, prune, revoke, update status | the child cluster, its kubeconfig Secret |
| AccessManagement (`accessmanagement_controller.go`, `internal/util/accessmanagement`) | `status.resources`, its own ClusterRole, copies in namespaces | plan per Kind; create, adopt, release, delete; record | other owners of copies, the garbage collector |
| ClusterDeployment lifecycle (`clusterdeployment_controller.go`, `clusterdeployment_capi_poller.go`) | finalizer, conditions, version in the status, HelmRelease, data source, IPAM claim, authentication Secret | provision, upgrade, dry run, delete in order, poll the CAPI Cluster | Flux, Cluster API, ServiceSets, IPAM, credentials |
| MultiClusterService (`multiclusterservice_controller.go`) | one ServiceSet per matching cluster | fan-out, dependencies between MultiClusterServices, cleanup | service rollout |
| Management, Release, Region (`management_controller.go`, `release_controller.go`, `components`, `region`) | installed components, recorded release, readiness | install in order, upgrade with a backup first, start the controllers that need sveltos, remove in order | Flux, providers, backups |
| Template controllers (`template_controller.go`, `templatechain_controller.go`, `webhook/template_webhook.go`) | validity of templates, charts, copies in tenant namespaces | validate, distribute, admit or refuse a removal | ClusterDeployment, rollout, garbage collector |
| Credentials (`credential_controller.go`, `credential`) | readiness, labels on the copies in a Region | copy identities and Secrets, release them, periodic sync | Regions, other Credentials |
| Backups (`backup`, `management_backup_controller.go`) | last backup of each cluster, next attempt | create once or per slot, collect progress, rebuild after a restoration | Velero, Management, Regions |
| IPAM, StateManagementProvider | pools and claims; conditions | idempotent reconciles | IPAM providers, adapters |
| Webhooks, validation, telemetry, helm, metrics | none of their own | pure checks and wrappers | the API server |

### What is hard

* *Two controllers, one object.* The owner writes the spec of a ServiceSet from a
  copy of its status, the adapter writes the status from a copy of its spec.
* *Long pipelines.* Between a version in the spec and the version on the cluster
  are a Profile, a ClusterSummary, an apply, pods, a cache and a status update;
  each lags behind the one before.
* *Records after the fact.* Access granted in a child cluster and copies
  distributed to namespaces are known only from a status field; a crash, a
  conflict or a stale read between the effect and the record can lose them.
* *Back-off and bounded queues.* The poller must neither hammer a cluster nor
  forget one.
* *Order across reconciles.* Upgrades go hop by hop and dependency by dependency,
  deletion goes resource by resource, each hop a reconcile of its own.

What would make each component correct: routes are exactly the paths of the chain,
and a walk along them ends; no service overtakes its dependencies or skips a hop;
a version is confirmed only when the cluster runs it; the rollout ends; a stale
success is noticed; nothing is granted without a record, and access ends up as the
policy says; nobody else's object is owned, and copies end up as the rules say;
deletion removes what depends on a resource before the resource, and ends; a
service reaches a cluster only after those it depends on; components come and go in
order, after the backup, and readiness is reported only for the release asked for;
shared copies stay while somebody uses them and go afterwards; a template in use
keeps its chart.

`PROJECT.json` lists every component with what is and is not modelled, every
hazard at its line, and for every definition the lines it stands for.

## 2. Modules

| Module | Models | State | Actions |
|---|---|---|---|
| `TemplateChain` | routes of a chain, and one service walking it | chain, position, goal, hops taken | `TakeHop` |
| `ServiceSet` | owner, adapter, sveltos and cluster for the services of one cluster | desired list, ServiceSet, both reconciles' copies, cache, Profile, ClusterSummary, releases | owner read / write; adapter read, ensure Profile, collect, verify, fail; cache sweep; sveltos observe, apply, fail, retry, finish; pods; edits |
| `StatusPoller` | poller, channel, workqueue, reconcile | back-off entries, channel, queue, resourceVersions | `Tick`, `Emit`, `Drain`, reconcile read / write / fail, restart, delete, create, sveltos changes |
| `ChildRBAC` | RBAC of one child cluster | ClusterDeployment and its cached copy, policy, child objects, kubeconfig, freshness | begin; skip, await, mark, sync, prune; revoke; status update; crash, cache, kubeconfig, edits |
| `AccessManagement` | distribution of objects to namespaces | AccessManagement, ClusterRole, sources, namespaces, objects, reconcile | begin; collect; distribute, release, delete; Kind done; status update; crash, edits, re-creation, other owners, garbage collector |
| `ClusterLifecycle` | one ClusterDeployment from creation to removal, with IPAM, the deletion of its ServiceSet and the poll of its CAPI Cluster | spec, stored status and status in memory, HelmRelease, CAPI Cluster, data source, claim, Secret, ServiceSet, Profile, cloud resources | one per call of `reconcileUpdate` and `reconcileDelete`; the adapter's pass; the poller; flux, CAPI, sveltos, IPAM; edits, faults, restarts |
| `OrderedRollout` | what `dependsOn` promises (abstract) | wishes, goals, plans, what is placed and has landed | read, plan, look, place, land, withdraw, forget |
| `MultiClusterService` | several MultiClusterServices and the ServiceSets they make | specs, statuses, ServiceSets, ClusterDeployments, one pass per object | validate, clean up, resolve, check and write per target, conditions, status, delete; adapter, users, clusters |
| `Management` | Releases, the Management object and Regions | releases, charts, templates, HelmReleases, backups, statuses, queues, one pass per object | release steps; backup, component by component, status; removal; flux, velero, users, restarts |
| `ManagementBackup` | one ManagementBackup, single or scheduled | status per cluster, velero Backups, Regions, clock, pass | create per cluster, collect, record, fail; poll; restoration; velero |
| `Credentials` | Credentials of a Region that share identities and Secrets | Credentials, sources, copies with their labels, Region, queue, pass | finalizer, collect, copy one, check, release one, let go, sync; users, Region, restarts |
| `TemplateCatalog` | system templates, charts, chains and the copies in a namespace | templates, charts, copies with owners, chains, clusters, queues, pass | template pass, chart, list, distribute; admission of removals and deployments; garbage collector, flux |

The `MC` modules give the constants values too large for a configuration file;
`ChildRBAC`, `StatusPoller` and `ManagementBackup` need none. The theorems are in
`ServiceSetProofs` (`ServiceSet`, `StatusPoller`), `MultiClusterServiceProofs`,
`ClusterLifecycleProofs`, `ManagementProofs`, `ManagementBackupProofs`,
`CredentialsProofs`, `AccessProofs` (`AccessManagement`, `ChildRBAC`) and
`TemplateProofs` (`TemplateChain`, `TemplateCatalog`). A module about two components
extends both, and they have no name in common: the specifications of `TemplateChain`,
`StatusPoller` and `ChildRBAC` are `WalkSpec`, `PollerSpec` and `ChildSpec`.

How the modules fit together. `ServiceSet` is what happens below one ServiceSet,
`MultiClusterService` and `ClusterLifecycle` what happens above it: there the
adapter is reduced to the steps the level needs (deployed, lost, undeployed;
Profile written, Profile deleted). `Management` takes from `ManagementBackup` that
a backup is completed some day, `ManagementBackup` checks when that is so.
`ClusterLifecycle` composes the ClusterDeployment, ServiceSet and IPAM controllers,
`Management` the Release, Management and Region controllers. `MultiClusterService`
implements `OrderedRollout`: `InOrder` is the abstract specification under a
refinement mapping that reads an object's wish from its spec, its goal from what
its pass read, and its placements from the ServiceSets. TLC checks it on an
instance, `RollsOutInOrder` proves it for all of them.

How a module corresponds to the code:

* A reconcile is several actions, cut where it reads or writes something another
  actor can touch. Its local copies are a record (`owner`, `adapter`, `rec`,
  `rbac`, `work`) that is `Idle` or `NoReconcile` between reconciles.
* A write that carries a resourceVersion takes effect when the object is still the
  one read, and is lost otherwise; what the code does about the conflict (swallow
  it, return it) is part of the action.
* A failing call is an alternative of the action, counted by `faults`. A crash
  drops the reconcile's record and keeps every object.
* An invariant named `...Inv` is the conjunction of the module's `TypeOK` and its
  named state invariants.
* Reconciles of the same object never overlap (controller-runtime guarantees it);
  those of different controllers interleave freely.
* Data is what the properties tell apart: a version is a number in semver order, a
  release is its version, its values and whether pods are ready, a policy is the
  set of objects it renders to, an object is whether it exists, is labelled, and
  who owns it.
* Sveltos, Cluster API, the informer and the garbage collector are marked external
  in the map. They do what the code relies on and no more: sveltos takes up the
  newest Profile at some time, applies services in any order, may fail and retry.

`ServiceSet` takes the hops of a chain as a constant function `Hop`; the MC module
defines it for the chains used, and `TemplateChain` checks separately that
`nextUpgradeStep` yields what `Hop` stands for.

### Definitions named as mutants

Operators introduced by "Mutant:" are defective variants of the definition below
them. The specifications do not use them. Substituted for that definition, each
makes one property fail, which shows that the property notices the defect.

## 3. What is checked

| Run | Shows | Bounds |
|---|---|---|
| `chains` | `findAllUpgradePaths` finds exactly the simple routes (`PathsAreTheRoutes`); a service that arrives made at least the hops of a longest route (`WalkInv`), and without cycles it arrives (`WalkArrives`) | every chain of three templates, cyclic and invalid ones included; every acyclic chain of four |
| `upgrade` | dependents never run ahead, dependencies first, one version in flight, confirmed means running, every hop reaches the cluster | three services in a line, the middle one already at its version; three versions; one upgrade; one fault |
| `edits` | the rollout converges while the list is edited | two services, two versions, two values; one edit of any kind (values, version, chain, dependency, removal, disabling); one fault |
| `rbac_fresh` | no grant without record; access follows the policy | two objects; three edits; two faults |
| `poll` | stale success is noticed (`PollerInv`); the status catches up | channel with room for every set; two sets, two changes each; one fault (failed lookup or reconcile, restart, deletion); a back-off of up to two ticks |
| `access` | nobody else's object is owned; rules take effect | one built-in and one custom Kind, one name, two namespaces; two acts of users or other controllers; one fault |
| `life` | nothing outlives the ClusterDeployment, no Profile its ServiceSet, no cluster without its addresses (`LifecycleInv`); only accepted versions are reported; the cluster goes after its services; deletion ends; the status follows a cluster nobody watches; the Secret gets its owner | one ClusterDeployment that uses IPAM, a data source and cleanup, deleted at any moment; one edit, fault, restart, timeout or out-of-band deletion; 647,000 states |
| `fanout` | `MultiClusterService` implements `OrderedRollout` (`InOrder`); no ServiceSet outlives its object and the two parts of the status agree (`FanoutInv`); what is sound is deployed where it matches, the rest goes, deletions end (`Converges`) | two objects, one depending on the other, a cluster and the management cluster; the one depended on is upgraded, and there is one edit, deletion, relabelling or fault before, during or after that; 580,000 states |
| `release` | readiness is reported only for what is written and nothing outlives its object (`ReleaseInv`); components come and go in order; the backup first; everything is installed or gone in the end; Regions follow | from the first start of KCM; one Region, one provider besides kcm and CAPI, two releases; two changes, of which one a fault; 362,000 states |
| `backups` | the status names what exists and is completed only when velero is (`BackupInv`); a slot is served once, a due one is served; a single backup completes | the management cluster and a Region; five seconds, a period of three; the Region's use changes once; two faults, restarts or restorations; 205,000 states |
| `identities` | no copy in use is removed, none is left behind, copies follow sources nobody watches, deletions end | two Credentials, two identities that share a Secret, one possibly there before; two revisions; one act of a user or of the Region; one fault; 185,000 states |
| `catalog` | a used template stays, a chart outlives the copies that refer to it, copies follow the chains | two templates, two chains that share one, a cluster, a template of the tenant's own; two edits; 185,000 states |

### Where code and comments disagree

Eight configurations fail when they are run. Each states what a comment of the code
says, and TLC shows a behaviour of the code that does otherwise. They are kept
beside the runs as a record; `PROJECT.json` does not list them.

| Configuration | Comment | What happens |
|---|---|---|
| `MCServiceSet_stamp` | `Status.Version` means "verified on cluster" (`serviceset_controller.go`) | values change, then the version; the old release with the new values moves the fingerprint, and the new version is stamped before sveltos saw it |
| `MCServiceSet_dead_end` | "if upgrade is not available, keep the current stored version" (`serviceset/util.go`) | the entry is built from the desired version |
| `ChildRBAC_stale` | the grant "survives for as long as anything may still be granted" (`clusterdeployment_controller.go`) | a reconcile that reads the ledger before the informer saw it cleared skips the mark, writes to the child cluster, and its own status update conflicts |
| `StatusPoller_full_channel` | "we unquiesce automatically when sveltos next bumps CS RV" (`enqueue.go`) | the resourceVersion is recorded before the send, the send is dropped on a full channel, and the set is quiescent from then on |
| `MCAccessManagement_orphans` | a dropped Kind would otherwise be "orphaned forever" (`accessmanagement_controller.go`) | the Kind is recorded at the end of the reconcile; an edit in between makes that update conflict and drops the Kind |
| `MCAccessManagement_patch` | "update is what lets adoptManagedObject backfill the owner reference" (`accessmanagement_controller.go`) | the call is a Patch, and the generated ClusterRole has no such verb |
| `MCClusterLifecycle_cleanup` | cloud resources are removed after Profiles are "marked for deletion, so no new helmreleases get created" (`clusterdeployment_controller.go`) | only the ServiceSets are marked; until the adapter deletes the Profile, sveltos may deploy again after the cleanup was recorded as done |
| `ManagementBackup_blocked` | "updates the status of all existing backups (management and regional)" (`backup/reconcile.go`) | only Regions in use are updated: when the last ClusterDeployment of a Region goes, its entry stays as it is and the backup is never completed |

Limits met on the way, which properties or instances name and exclude:

* On a valid chain with a cycle, 1 -> {2, 3}, 2 -> {1, 3}, the longest route to 3
  is chosen anew at each hop and leads from 1 to 2 and back. `WalkArrives` is
  stated for acyclic chains; that no hop is left out (`WalkInv`) holds for all.
* Two templates that install the same chart with the same values have the same
  fingerprint, and the second is never confirmed. `Chart` gives every version a
  chart of its own in the runs.
* A service that is removed from the list and listed again, before the adapter has
  seen it gone, is not held back by the version that is still in flight: its new
  version may be confirmed while the cluster runs the one before. The proofs about
  the versions on the cluster suppose that the list stays (`OnlyVersionsMove`).
* MultiClusterServices that depend on each other and are all deleted wait for each
  other for ever; `Converges` excepts an object that has dependents.
* The Region controller's watch on the Management object enqueues the name of that
  object as the name of a Region. A new release reaches a Region because the new
  kcm restarts the process. `RegionFollowsRelease` and `InOrder` except a release
  that is taken back before (`back`).
* A Secret in a Region is found for release only through a labelled identity. If the
  identity was not written, is not kcm's or was removed, or the release of the
  Secret itself fails, the Secret stays (`torn`).
* A chain lists the system templates and then writes: one removed in between is
  copied, and the copy refers to a chart that goes (`raced`). The webhook's check of
  distributed copies exists for ClusterTemplates only, not for ServiceTemplates.
* A chain adds its owner reference to a template of the same name that the tenant
  made; that template goes with the chain.

### Why the bounds are enough

The hazards need few objects and few events. A dependency that is transitive needs
three services, a hop that can be skipped three versions. One edit racing one
reconcile shows every loss of an update; a second edit, where it matters
(`access`, `rbac_fresh`, `catalog`), shows re-creation and reversal. Sharing needs
two Credentials, a dependency two MultiClusterServices, an order among components
three of them (kcm, CAPI, a provider), an upgrade two releases, a missed slot more
than one period. `MaxFaults` (`MaxChildFaults`, `MaxPollerFaults`) covers a
failure at every step; after the last one the system is on its own, which is what
the liveness properties ask about. The bounds are constants (`MaxEdits`, `MaxPolicyEdits`,
`MaxFaults`, `MaxChanges`, `MaxBackoff`, `MaxVer`, `MaxTime`, `Buffer`), and the
proofs hold for any of them.

No configuration uses symmetry: the services, Kinds and namespaces of the
instances play different parts.

### Fairness

* A reconcile that can run runs: controllers are woken by events, by the error
  that ended the last attempt, and by timers or pollers (the adapter's poller, the
  two-minute poll of AccessManagement, the RBAC resync). `WF` on its steps.
* A step of the pass that is under way is taken: `WF` on the steps of a pass, for
  each object of its own (`MultiClusterService`, `Management`). Where several keys
  wait for one worker (`Credentials`, chains in `TemplateCatalog`) the start of a
  pass is only now and then possible, and the queue serves every key: `SF`.
* `MultiClusterService` lets every pass be followed by another one, because the
  code requeues after ten seconds; elsewhere the queue is a variable, and what
  fills it (events, errors, `RequeueAfter`, pollers, a restart) is modelled.
* Flux installs, removes and goes on trying; velero ends the backups; CAPI
  provisions and deletes; Regions of a restored cluster come back.
* Sveltos takes up Profiles and retries; pods become ready; the informer delivers;
  Cluster API restores a kubeconfig; the garbage collector collects; cache entries
  expire. These are external and assumed.
* Users, crashes, failures and pods that become unready are not fair, and bounded.

`StatusPoller` assumes that the source has emptied the channel before the next
tick: a tick is seconds away, the source only moves keys to the workqueue. Events
are dropped when one tick emits more than the channel holds
(`StatusPoller_full_channel`).

## 4. What is proved

All theorems hold for every value of the constants that satisfies the named
assumption of the module (finite or not, any number of edits and faults). The
assumptions give types, and one thing more: three sets are finite. The status of
`MultiClusterService` counts its ClusterDeployments, a pass of `Management` goes
through its providers one by one, and the search of `TemplateChain` ends because the
templates do. What else a theorem supposes is among its hypotheses and said here.
Inductive invariants were tried with TLC on small instances before they were proved.

* `ServiceSetProofs`. `TypeCorrect`: `Spec => []TypeOK`, one lemma per actor.
  `GateHolds`: `Spec => DependenciesFirst`. The write that changes the spec
  succeeds only on the ServiceSet that was read (`SpecWriter`), so what was
  computed from the copy is true of the object; the set `DeployedServices` is
  closed under `dependsOn` (`DeployedServicesClosed`), so it contains everything an
  eligible service directly or transitively depends on (`EligibleDependencies`).
  `HoldHolds`: `Spec => InFlightHeld`, from the same lemma. The type invariant is
  the only induction needed for these, because the conditional write makes both
  properties facts about one step.

  What reaches the cluster needs an invariant of the whole pipeline, `RolloutIInv`:
  the copy of the adapter, the Profile, the ClusterSummary, the release and the
  cached chart each have either the confirmed version or the version of the spec
  (`InPipe`), and a later stage has the new one only if the earlier ones have it
  (`InTurn`); entries carry the values of the list (`ValuesInv`), and the stored hash
  is the one of the confirmed version (`StampInv`). It is inductive because a new
  version enters the spec only when the old one is confirmed, and then all stages
  agree. `StampHolds`: `ConfirmedIsRunning`, as a hash that moved can only be that of
  the new version, seen on the cluster. `HopsHold`: `ClusterTakesEveryHop`, with
  `HopInv` (the version in the spec is a hop from the confirmed one). `OrderHolds`:
  `[]DependentsNeverAhead`, with `RisingInv` (versions only rise along the pipeline)
  and `OrderInv` (the spec asks of a service only what the cluster already runs of
  those it depends on and moves with; a pass that read an earlier list has them
  together too).

  The three have conditions, stated as hypotheses and met by the instance of
  `upgrade`. For all of them, users change neither values nor which services are
  listed (`OnlyVersionsMove`): `MCServiceSet_stamp` shows what happens otherwise.
  `HopsHold` supposes chains with a route from every version to every later one
  (`RoutesExist`): where there is none the code emits the desired version
  (`MCServiceSet_dead_end`). `OrderHolds` supposes fixed dependencies, hops that do not
  lead beyond the version they are taken for, and edits that only raise versions and
  put no service on the version of one it depends on that it did not share before
  (`UpgradesOnly`): on a way down, or when a service that ran ahead is joined by its
  dependency, the property is not what the code promises.

  Of `StatusPoller`: `PollerSafe`, `[]PollerInv`, if the channel has room for an event of
  every set; without it the property fails (`StatusPoller_full_channel`). `PollerIInv`
  adds `SeenBefore` (neither the poller nor a reconcile has seen a newer ClusterSummary
  than there is, and what a reconcile saw of the current one still holds) and `RoomLeft`
  (what a tick has still to send fits into the channel, so that no send is dropped).
* `MultiClusterServiceProofs`. `FanoutSafe`: `[]FanoutInv`, and `RollsOutInOrder`:
  `Spec => InOrder`, the refinement of `OrderedRollout`. `FanoutIInv` has, besides
  types and goal, `FinalizerInv` (the finalizer is there as long as there are
  ServiceSets or a pass that may make some), `TargetsInv` (what a pass has to do or
  found waiting is among the targets it reports on, the management cluster first; the
  two parts of the status are computed from it at different times) and `OrderInv`
  (what a check found landed before a write has still landed at the write). For the
  refinement, the beginning of a pass is the abstract `Read`, the resolution of
  dependencies `Plan`, the listing of clusters `Look`, the write of a ServiceSet
  `Place`, the report of the adapter `Land`, the removal of a ServiceSet or of what
  it deployed `Withdraw`, the end of a pass `Forget`; an edit of specs, labels or
  clusters, and any step that touches none of this, is `Change`. The interesting step
  is `Place`: its guard is judged in the step before, and `OrderInv` carries it over.
* `ClusterLifecycleProofs`. `LifecycleSafe`: `[]LifecycleInv`, `VersionSafe`:
  `[]VersionWasAccepted`, and `ServicesGoFirst`: `ClusterGoesAfterServices`, from one
  inductive invariant `LifecycleIInv`. `FinalizerInv`: without the finalizer nothing
  has been made, and any pass beyond its first calls has it. `AdapterInv`: a Profile
  is written only for a ServiceSet with a finalizer of its own, which goes last.
  `DeletePassInv`: what a delete pass found gone stays gone until it takes the
  finalizer away. `AddressInv`: a pass that gets to the HelmRelease read a spec with
  the addresses in it. `VersionInv`: the status in memory, too, has only accepted
  versions. `CountersInv` bounds the version of the template for the types.
* `ManagementProofs`. `ManagementTypeCorrect`; `ReleaseSafe`: `[]ReleaseInv`;
  `BackupsComeFirst`: `Spec => BackupFirst`; `ComponentsInOrder`: `Spec => InOrder`. None
  is inductive alone, for a pass works on what it read at its beginning, component by
  component, while users, Flux and other passes go on. `LifeInv`: Regions exist only
  while the Management object is live; passes and HelmReleases only under the
  finalizer of their object; what a pass saw installed stays written to its end.
  `MgmtInv`: what a pass read is still the spec, or the generation has moved on, and
  what the status calls ready is not marked for removal (`WrittenInv`); a pass gets to
  the components only with the backups of the recorded release completed (`BackedUp`).
  `OrderInv`: while the spec only goes forward, no HelmRelease is ahead of it or of the
  pass under way, and what a component at the wanted release depends on is at that
  release too. With `OnRecord` (what is installed is in `landed`) this gives the first
  half of `InOrder`; the second, about removal, rests on `RemovalInv`: what is marked in
  a Region has nothing there that depends on it, and no pass can bring that back.
* `AccessProofs`. `TypeCorrect`, which includes that a plan never reaches into the
  system namespace, and `OwnershipHolds`: `[]OnlyManagedOwned`, that no object without
  the managed label gets an owner reference that would have it deleted, whoever
  writes between the listing and the call. Inductive together with the type
  invariant.

  Of `ChildRBAC`: `ChildTypeCorrect`, and `LedgerHolds`: with reads that see the last
  write, `[]GrantRecorded`. `GrantRecorded` alone is not inductive: a reconcile could
  be about to write with a copy that says granted while the ledger says otherwise.
  `LedgerInv` adds that the copy in use agrees with the ledger, that the child cluster
  is written to only under a recorded grant, and that the update that clears the
  record comes when nothing is left. The assumption on reads is needed, as
  `ChildRBAC_stale` shows.
* `TemplateProofs`. `SearchFindsTheRoutes`: `[]PathsAreTheRoutes`, and `WalkSafe`:
  `[]WalkInv`, for every finite set of templates and every chain. The closure
  `findPaths` is a recursive function. What it returns is guessed in closed form
  (`Found`: the routes that begin with the path so far and leave out what is visited);
  the guess satisfies the recursion (`FoundByVisits`), and nothing else does
  (`OnlyFound`): a call with a wrong result and the fewest templates left to visit
  would have made a wrong call with fewer. So no induction over the data is needed.
  The walk's invariant `NothingSkipped` says that a way is left from where the service
  is that, with the hops made, is as long as any route from the start; a hop is the
  first of a longest route (`HopOf`), and what is left of it is a route again (`RestOf`).

  Of `TemplateCatalog`: `CatalogTypeOK`, `CatalogUsedStays`: `[]UsedStays`, and
  `CatalogChartOutlivesCopies`: `[]ChartOutlivesCopies`. Not inductive alone: a pass
  that has listed a template may write the copy at any later time. `ListedStays`
  adds that what is listed and still to be written either has its source or is
  recorded in `raced`. Admission makes the rest facts about one step: a copy goes
  only when no cluster uses it, a source only when it has no copies.
* `CredentialsProofs`. `CredentialsTypeOK`, `CredentialsInUseStays`: `[]InUseStays`,
  and `CredentialsNothingLeftBehind`: `[]NothingLeftBehind`, for any Credentials
  and any sharing among them. The inductive invariant has three parts besides the
  goal: `PassInv` ties the pass to the Credential it works for (a copy pass has the
  finalizer, a release pass has done what it counts as done, in the order Secrets
  before identities); `UseInv` says that what a Credential uses is labelled by it or
  is not kcm's; `LabelInv` says that without a finalizer there are no labels, and
  that a Secret without an identity to find it by belongs to the pass under way or
  to a Credential in `torn`.
* `ManagementBackupProofs`. `BackupsTrue`: `[]BackupInv`, which includes the types,
  for any Regions and period and any length of time. Not inductive alone: the status
  is replaced by what a pass has had in memory since its beginning, and a phase is
  only as true as the Backup it was copied from. `BackupIInv` adds `PassInv` (the
  memory of a pass names Backups that exist and has lost no entry of the status) and
  `DoneInv` (an entry says done of a cluster where a Backup has ended; the Regions
  the status was first written with keep their entries). Every step but a
  restoration, which empties the status, leaves Backups in place and ended ones
  ended (`BackupsKept`). `SlotServedOnce`: `[]OncePerSlot`, by counting. `SlotInv` adds
  that a slot after the last one the status knows has no more Backups than there were
  faults, but for the one of the pass under way (`OpenInv`), and that this pass is in
  such a slot and will record it (`UnderWayInv`): a pass that ends records its Backup
  or is a fault, and a restored object knows the latest Backup there is.

Only model-checked: all liveness (`Converges`, `WalkArrives`, `StatusCatchesUp`,
`AccessFollowsPolicy`, `RulesTakeEffect`, `DeletionEnds`, `CopiesFollow`,
`DueIsServed`, ...), which is beyond the prover. Every invariant and every safety
property of a step that a run checks is a theorem.

## 5. What is not modelled

Within the modelled components:

* ServiceSet: Kustomize and Resource services, rendering of Profiles, provider
  configuration, self-management, deletion. Verification finds health rules for
  every chart.
* StatusPoller: a set has one ClusterSummary. A service stops being deployed only
  when sveltos writes its ClusterSummary; pods that die on their own are, as the
  comment in `enqueue.go` says, not what the poller is for.
* ChildRBAC: how a policy becomes roles and bindings.
* AccessManagement: cluster-scoped Kinds, label selectors (a selector matches
  everything), the pause while Management is deleted, the mapping of namespace
  events to requests (a poll covers them), the webhook.

* ClusterLifecycle: the pause of a region, a chart that is renamed, the content of
  Helm values, copies of certificates and registry credentials, the services' part
  of the status, several ClusterDeployments (they share only their templates).
* MultiClusterService: the services of an object are one version; the pause while
  Management is deleted; reads that lag behind.
* Management: values of charts, compatibility contracts, registry Secrets; how the
  kubeconfig of a Region is obtained.
* ManagementBackup: what is in a backup, deletion of the object, two schedules.
* Credentials: one Region and one kind of identity; the component label.
* TemplateCatalog: ClusterTemplates only (ServiceTemplates and ProviderTemplates
  share the code); what makes a chart valid; copies of registry Secrets; a chain
  that is created again under its name.

Not modelled at all: StateManagementProvider and the IPAM adapters are idempotent
checks and translations of single objects; most webhooks validate one object and
keep no state; telemetry, metrics and helm wrap libraries and keep no state that
others read; generated code and type declarations have no behaviour.

## 6. Plan

1. Larger instances: a diamond of dependencies in `MultiClusterService`, two Regions
   in `Management`, two namespaces in `TemplateCatalog`.
2. Composition: `ServiceSet` below `MultiClusterService` instead of the reduced
   adapter; `StatusPoller` as the adapter's wake-up.
3. An abstract rollout specification (desired and running versions only)
   implemented by `ServiceSet`.

## 7. Running

In this directory, with TLC and TLAPS on the path:

    tlc -config MCServiceSet_upgrade.cfg MCServiceSet
    tlapm ServiceSetProofs.tla

Each run of `PROJECT.json` names its module and configuration.
