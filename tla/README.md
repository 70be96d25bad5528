# Kubeocean: TLA+ models, model checking and proofs

Kubeocean lends the nodes of *physical* Kubernetes clusters to one *virtual*
cluster. This directory holds TLA+ models of its controllers, the TLC
configurations that check them on small instances, and TLAPS proofs.

## 1. The system

| part | where | state it keeps | operations |
|---|---|---|---|
| manager | `pkg/manager/controller` | `ClusterBinding` status and finalizer, maps cluster ID <-> binding name | validates a binding, deploys syncer and proxier, cleans up |
| syncer, top-down pods | `pkg/syncer/topdown/pod` | annotations on the virtual pod, the physical pod, token secrets | create, map, delete, declare lost, collect orphans |
| syncer, top-down resources | `pkg/syncer/topdown/{common,configmap,secret,pv,pvc,logconfig}` | labels, per-cluster finalizers, physical copies | create, update and delete copies |
| syncer, token manager and collector | `pkg/syncer/topdown/{token,topdown_syncer.go}` | cached tokens, token secrets | refresh, garbage collection |
| syncer, bottom-up nodes | `pkg/syncer/bottomup/node` | virtual nodes, their taints and finalizer, leases, proxier ports | create from policies, drain, delete, keep alive |
| syncer, bottom-up pods | `pkg/syncer/bottomup/pod` | status and physical UID on the virtual pod | write back, delete orphans |
| syncer, policies | `pkg/syncer/bottomup/rlp`, `api/v1beta1` | status and finalizer of a policy | validate, activate, trigger nodes |
| syncer, followers of a virtual node | `pkg/syncer/bottomup/{hostport,node/physical_csinode_controller.go}`, `pkg/syncer/topdown/proxier` | fake pods, the CSINode and the address of a virtual node | reserve ports, copy drivers, move the address to a running proxier |
| syncer, cluster binding | `pkg/syncer/clusterbinding` | cached binding, syncer finalizer | selector changes, final cleanup |
| proxier | `pkg/proxier` | maps of nodes, pods and ports; certificates | answers the virtual API server for logs, exec and metrics |

The parts never call each other across processes. They meet in the objects of
the two API servers: every controller reads through the informer caches of its
process (`kubeocean_syncer.go` builds one manager per cluster and both syncers
share their caches), so what it reads may be old; writes are optimistic
(`Update` fails on a conflict), unconditional (`Delete` by name) or guarded
(`Delete` with a UID precondition), and failures are retried from the start.

What is hard in it: decisions taken from stale caches while another controller
acts on the same objects; objects deleted and made again under one name; a crash
between two writes; state that lives only in memory (ports, cluster ID maps);
finalizers of two programs that wait for each other; graceful periods that race
with new work. `PROJECT.json` lists the main hazards at their lines, each with
the properties that would catch it going wrong, or a note where the code is known to meet it;
section 4 describes those and some more.

What makes each part correct, in one line:

- pods: no physical pod without a virtual pod in the end, no virtual pod released
  before its physical pod, never the pod of a live incarnation deleted as garbage;
- resources: a copy is held by the finalizer of its cluster, follows the object, and
  is let go in the end;
- log configurations: the worker cluster collects the logs of exactly the copies of
  the pods that were selected;
- nodes: a virtual node disappears only when drained, its port belongs to it alone,
  its lease is renewed exactly while it exists;
- policies: the nodes follow the policies and the clock, quantities never exceed them,
  pods have their grace period and no more;
- followers: what is derived from a virtual node is right again once all is quiet,
  however the node came and went;
- bindings: one cluster ID, one binding, and everything gone before the finalizers;
- proxier: a request for a node reaches that node, and metrics are its own.

## 2. Modules

`PodSync` models one pod name under both pod controllers and the collector of
token secrets. One name stands for all, because the physical name is an MD5 of
namespace and name and no handler touches another name's pods.

- State. `virt` and `phys` are the two objects, each as the log of its versions:
  the first element is what the cache serves, the last what the API server holds,
  the ones between are watch events on their way. A UID is an incarnation number.
  `tok` is the set of virtual UIDs with a token secret. `td` and `bu` are the
  reconciles in flight of `VirtualPodReconciler` and `PhysicalPodReconciler` (one
  at a time per name, as the work queue ensures). `forced`, `owner` and the field
  `by` are history that only properties read.
- Actions. A reconcile is cut where it talks to an API server: `TDGetVirtual`,
  `TDGetPhysicalCached`, `TDGetPhysicalDirect` (the fallback on a cache miss), then
  one action per outcome of the handler (`TDDeletePhysicalPod`,
  `TDForceDeleteVirtualPod`, `TDDeleteMismatchedPhysicalPod`,
  `TDGeneratePhysicalPodMapping`, `TDSetVirtualPodFailed`,
  `TDSyncDependentResources` and `TDCreatePhysicalPod`,
  `TDUpdateVirtualPodWithPhysicalUID`, `TDHandleUnScheduledPhysicalPod`);
  likewise `BUGetPhysical`, `BUGetVirtual`, `BUDeletePhysicalPod`,
  `BUSyncPhysicalPodToVirtual`. `TDReturn` and `BUReturn` are the ends without a
  write: nothing to do, or a failed call. `TokenGC` collects one secret.
  `DeliverVirtual` and `DeliverPhysical` are the watches, `Restart` a crash of the
  syncer, the rest users, schedulers and kubelets (external).
- Left out of it: the text of specs, labels and annotations and their merging, and
  changes of ownership of the node (the pod stays on a node that the syncer
  manages).

`MCPodSync` instantiates it for TLC. `PodSyncProofs` holds the theorems.

`ClusterBinding` models the two controllers that share the life of a binding, for
several bindings and cluster identifiers at once.

- State. `obj` is the binding in the API server: incarnation, identifier, phase, the
  two finalizers, deletion. `stack[i]` says whose proxier, service and syncer are
  deployed under identifier `i` (their names are made of the identifier, their owner
  reference of the binding). The manager has its caches `mcache` and `sseen`, its queue
  `mq`, one reconcile in flight per binding (`mgr`, with the copy it read) and the maps
  `nameToClusterID` and `clusterIDToName`. A syncer process `proc[i]` has its cached
  binding, queue and reconcile (`scache`, `sq`, `sy`). `res` is what it has made:
  a node, a pod, copies. A delivery brings a cache up to date at once, so a cache is
  any earlier version.
- Actions. Manager: `MGet` to the first write, then one action per write or per part
  deployed or deleted, `MValidate` under its lock, `MError` for whatever can fail,
  `MDeliver` with the event filter, `MRestart` with empty maps. Syncer: `SStart`,
  `SStop`, `SDeliver`, `SGet`, the three checks before its finalizer goes, and the two
  writes. `NodeGet`, `NodeCreate`, `PodRuns`, `NodeDrain` and `CopyDelete` are what the
  node, pod and resource controllers look like from here. Users, and the garbage
  collector that follows owner references, are external.
- History. `cleared`: identifiers whose record in the manager's maps was removed while it
  named another binding. `forgot`: bindings whose record a restart lost. `touched`: which
  binding that a user deleted, or gave another identifier, had which identifier.
- Left out of it: templates, RBAC objects, the cleanup of certificates (its failure is
  ignored by the code), changes of the node selector.

`MCClusterBinding` instantiates it, `ClusterBindingProofs` holds the theorems.

`VirtualNode` models `PhysicalNodeReconciler` for several nodes at once: virtual nodes,
their ports for the proxier and their lease loops.

- State. `phys` and `vn` are the physical and the virtual node of a name, `lent` says
  whether the binding selects the node and a policy applies to it, `pod` is one pod bound
  to the virtual node. `pcache`, `lcache`, `vcache`, `podc` are what the syncer's caches
  show. `fl` is the reconcile in flight of each name, with the copy it works from; `q` the
  work queue, in which a name with a pending timer (300 s, 10 s, back-off) simply stays.
  `allocatedPorts` and `nodeNameToPort` are the two maps of the allocator, `lease` tells
  which lease loops run; all three are memory.
- Actions. A reconcile is cut where it reads a cache, calls an API server or changes the
  tables: `Begin`, `CheckVirtualNode`, `CreateOrUpdateVirtualNode` (with the allocation),
  `Create` or `UpdateStatus` and `PatchTaints`, `StartLeaseController`,
  `EnsurePolicyAppliedLabel`, `HandleOutOfTimeWindows` on one side;
  `RemovePolicyAppliedLabel`, `GetVirtualNode`, `AddDeletionTaint`, `DeleteVirtualNode`,
  `Evict`, `CheckPodsOnVirtualNode`, `Release`, `RemoveFinalizer` on the other, where every
  caller of `handleNodeDeletion` asks for immediate eviction. `Fail` is any failing call.
  `Deliver...` are the watches, with the filter of the one on virtual nodes (`Triggers`);
  `Restart` empties the memory and reads the ports back from the labels.
- Left out of it: what the virtual node offers (resources, conditions, labels, addresses),
  which policy wins, and the clock (module `Leasing`): outside a time window a reconcile may or may not
  evict. Writes to a virtual node that change none of the modelled fields are not there;
  the conflicts they cause are covered by `Fail`.

`MCVirtualNode` instantiates it, `VirtualNodeProofs` holds the theorems.

`PortAllocation` is what the proxier is promised about ports, in two actions: a client
acquires a port that nobody has, or gives its port up. `VirtualNode` implements it
(`ImplementsAllocation`), with the port of each virtual node in use as `owns`: the two
tables, the labels, the caches and the retries are below the level of that module.

`ResourceSync` models one object that pods mount, of any of five kinds, and its copies in
several clusters whose syncers share the virtual object.

- State. `v` is the virtual object (labels, the annotations with name and namespace of the
  copies, one finalizer per cluster, contents as a number), `phys` and `pc` the copy in
  each cluster and in each syncer's cache, `needs` the in-memory sets of objects that pods
  named, `ctl` the reconcile of the object's controller and `pod` the synchronisation of
  the pod controller, which run at the same time; `leaving` are clusters whose binding is
  being deleted.
- Actions. `Get` and the branches of the four reconcilers (`ReconcileLabel`,
  `ReconcileInvalid`, `HandleDeletion`, `RemoveSynced`, `SyncConfigMap`, ...) with what
  distinguishes the kinds; looking for the copy and `CreateMissing` are two requests, between
  which `SyncResource` and `SyncResourceCreate` of the pod controller may come;
  `AddClusterBindingDeletingAnnotation`, `Restart` (the sets are filled again from the
  pods), users, watches.
- Left out: polling for the copy after its creation; contents that return to an earlier
  value. The runs have one mount namespace; the proofs have any.

`Leasing` models what a policy makes of a node: the policy controller, the part of the
binding controller that tells nodes of a change, and the reconcile of one node.

- State. A clock `now` in minutes of short days and weeks, `policy`, `binding` and `vn`
  with their caches, the binding that the syncer keeps (`known`), pods, three queues, the
  reconcile in flight.
- Time windows (`IsWithinTimeWindows`), limits (`CalculateEffectiveLimit`) and the choice of
  the oldest policy are operators; the properties compare them with definitions of another
  form (`Open` by the minutes a window covers, `Share` as the largest offer within the
  limits).
- Actions. The branches of both controllers, and of the node's reconcile the status update
  (`Write...`), the patch of the taints and the reclaim; the removal of the virtual node is
  one step here and is `VirtualNode`'s subject.
- Left out: one resource stands for all; several limits for one resource.

`Proxier` models the tables, servers and caches of `pkg/proxier` under its threads:
reconciles, goroutines that start servers, the round that collects metrics, and `main`,
which fills the tables a second time while the controllers run. `api` is the informer's
cache, `current`, `mapper` and `states` are the three tables, `server`, `closing`,
`metrics` and `summary` are kept by port. The ports of two nodes in the cache differ
(`VirtualNode!PortsUnique`) unless one is in `ending`: being deleted, its port released
already (`ReleaseProxierPort`) and perhaps another node's. What a lost race leaves behind is
remembered in `raced`, with the race named at its action.

Left out of it: the timeout of the parser (60 s). After it `collectMetricsFromAllNodes` stores
what has been parsed so far while the goroutine goes on filling the parser's table of that
port; `StoreCollected` takes the answer of one kubelet as stored at once, so that a property
can tell whose data a port serves and not how complete they are.

`LogConfig` models the controller of log configurations: the rewriting of a selection for
the worker cluster (`TransformLogConfigSpec`, `GroupWorkloads`, ... as operators), and
compare, delete all, wait, create all as actions. `Agent` says which pods a configuration
selects; `SelectsSame` compares the pods that a user's configuration selects in the virtual
cluster with those that the generated ones select among copies and other pods of the worker
cluster.

`Followers` composes three controllers that follow one virtual node, each a module of its
own over `NodeView` (the node, its cached copy, and how a watch tells of a node made anew):

- `HostPorts`: fake pods that reserve the host ports of the physical node. The API server
  names them, so nothing but the controller's list keeps them apart. A deletion is graceful:
  the pod is Terminating (`del`), and listed, until the virtual pod controller deletes it by
  force (`ForceDeleteFakePod`).
- `CSINodes`: the virtual CSINode, which a user may have made first. `SkipCSINode` is the
  reconcile that finds the cached copy equal, which happens within one second of the last
  write (the annotation with the time of the sync counts seconds).
- `ProxierWatch`: the address of the virtual node, when proxier pods come and go.

`Followers` adds what the node controller does to the node (`NodeRead` and `NodeCreate`,
between which the chosen proxier may go, `NodeUpdate`, `NodeDelete`) and the one delivery
that tells all of them. Left out: node labels that do not match, the annotation with the
Prometheus URL, a proxier that fails without being deleted, a user who deletes the virtual
CSINode, and two pods of the worker cluster that give one port and protocol:
`collectHostPorts` then lists the port twice, and the API server may refuse such a pod, where
the model has a set of ports.

Every `MC...` module instantiates the module of its name for TLC, and every `...Proofs`
module holds the theorems about the module of its name.

## 3. Runs

Each run answers one question.

| run | instance | checks |
|---|---|---|
| `pod_sync` | 2 virtual, 2 physical incarnations, caches one event behind, one pod that finishes | `CleanupOnlyDoomed`, `GracefulDeletion`, `MappingOwned`, `LostOnlyIfGone`, `TokenBacked`, `RecordedOnce` |
| `pod_live` | 1 virtual, 2 physical incarnations, one restart | `OrphanCollected`, `DeletionCompletes`, `EventuallyRecorded`, `LossReported` |
| `binding_life` | one binding with its syncer, a deletion, and a restart or an error; or two bindings and two identifiers before any syncer starts, with a changed identifier and a restart, or with a deletion and a name used again | `DeployedUnderFinalizer`, `SyncerKept`, `ReadyMeansDeployed`, `IdentifiersPaired` |
| `binding_live` | one binding, a deletion, a restart | `DeletionCompletes`, `BecomesReady` |
| `vnode_live` | one node, two incarnations, two changes of what is lent, a restart, an error | `LeaseOnlyForNode`, `Converges` |
| `vnode_ports` | two nodes with one hash, two ports, two deletions by users, an error, no pods | `PortsUnique`, `ImplementsAllocation` |
| `resources` | four kinds, two clusters of which one may leave, two contents, a crash or a name that is taken | `CopyHasHolder`, `LetsGo`, `CopyCatchesUp`, `ForeignUntouched` |
| `resources_shared` | a config map in two clusters that stay | `DeletionCompletes` is violated |
| `leasing` | two policies, days of four minutes, an edit, a user's taint, an error or a tolerant pod while the clock runs from Monday noon to Tuesday morning | `GraceNotReset`, `EvictedAfterGrace`, `UserTaintKept`, `Settles`, `Reclaimed` |
| `proxier` | two nodes, two ports that change hands, three addresses, two changes, a node that is deleted and still listed, a failing kubelet | `Follows`, `OwnMetrics` |
| `logconfig` | six specifications, five pods, two pods of the worker cluster, two edits, an error or a crash | `SelectsSame`, `ReleasedLast`, `DeletionCompletes`, `EventuallySynced` |
| `followers` | four changes of node, ports, CSINode and three proxiers, an error | `FakePodsFollow`, `StaysReserved`, `CSINodeFollows`, `ForeignKept`, `AddressFollows` |

`IdentifiersPaired`, `Converges`, `Settles` and `Follows` are conjunctions of two named
halves of one question. Every module states its types as `TypeOK`, which is a theorem of each
component (section 5); the configurations leave it out for the properties that say more.

The bounds, and why they are enough:

- Two incarnations under one name are what it takes for a name to be reused; a cache one
  event behind is already wrong about everything a single event changes. The safety
  properties of pods are proved for all bounds anyway.
- One binding is enough for the two finalizers, two with one identifier for a clash, two
  identifiers for a change; one failure or restart can hit any step. `AloneOrClash` keeps
  two questions apart: the life of one binding with its syncer (`Alone`), and two bindings
  under the manager, which alone a clash concerns (`Clash`): they are created, changed and
  validated in any order around a restart of the manager, or one of them is deleted, by
  which the other may lose its record and its Deployments, and made again with the identifier
  of the other (`Reuse`). Bindings and identifiers are interchangeable, hence the symmetry.
- Nodes meet only in the tables of ports, so one node is enough for everything else; for
  the ports two nodes with one hash and as many ports make every allocation a collision.
- Two clusters are enough for one to disturb the other. `OneTrouble` allows one departure,
  crash or taken name, at any moment, and then contents that do not change.
- The policies of `leasing` have a window over midnight, one by day, none, an invalid one
  and one of another cluster; limits round down and one exceeds what the node has. The clock
  starts at minute 2 of Monday (`Dawn`) and stops at minute 1 of Tuesday (`Horizon` = 5): the
  window over midnight opens at minute 3; at midnight, minute 4, it would still be open by
  its times, but not by its day of the week, and it stays closed until the grace period of a
  minute is over. An edit may come at any of these minutes. The younger policy rules only
  where the older does not, and is always open.
- In `proxier` a port passes from one node to the other and back, which is where servers
  and caches kept by port go wrong. In `logconfig` the specifications take every branch of
  the transformation, with one and with two groups.
- The controllers of `followers` meet only in the virtual node: `OneInPlay` lets one of
  them at a time have something to follow. While a cache holds a virtual node that is gone,
  fake pods are made and collected without end; the run stops after three.

The runs with `CHECK_DEADLOCK FALSE` may stop: when users have used up their bounds
nothing is left to do. Some properties speak of the system at rest, which the safety runs
use in the place of liveness: when no event, request or reconcile is left, the derived
state is right.

Histories mark what a property exempts, because the code does not keep it there. Each is set
by the very step that goes wrong, so that a property says that nothing else does:

| history | set by |
|---|---|
| `cleared`, `forgot`, `touched` (`ClusterBinding`) | the removal of another binding's record, a restart that loses a record, a deletion or change of identifier by a user |
| `misled` (`ResourceSync`) | a comparison with an old cached copy, or a Create that meets a copy with other contents made since the lookup |
| `misled` (`LogConfig`) | a list of configurations from an old cache |
| `torn` (`Leasing`) | a status update whose patch failed |
| `raced` (`Proxier`) | a server started for a node that has left the port, on a port that is taken or not closed yet; a server stopped for another node; a reconcile between main's copy and its use |
| `hmisled` (`HostPorts`) | a reconcile that keeps a fake pod that is gone or Terminating, or whose list lacks a live one |
| `cskip` (`CSINodes`) | a reconcile content with an old cached copy that equals what it was to write |
| `missed` (`ProxierWatch`) | a sync beside a node that comes or goes, or content with an old copy of it |

Section 4 says what happens then.

Fairness. `PodSync`: watches deliver; a key is reconciled again and again (events, retries
with back-off, the informers' resync) and a retried call succeeds in the end, hence strong
fairness of the acting steps, which share their guard with the failing return; the kubelet
completes a termination; the token collection runs every five minutes. `ClusterBinding`,
`VirtualNode`, `ResourceSync`, `Leasing` and
`LogConfig`: watches deliver, queued requests are reconciled, what has been deleted goes,
a Deployment gets its pod; calls fail a bounded number of times, so that weak fairness is
enough. Users and schedulers owe nothing, and neither does the clock: properties about what
must happen in the end speak of whatever minute it has come to.

## 4. What the models show about the code

`resources_shared` is a finding. Two clusters have copies of one config map and a user
deletes it. Both syncers take it out of their sets and delete their copies. The first to
call `RemoveSyncedResourceFinalizerAndLabels` removes its finalizer *and*, in
`removeAnnotations`, the annotation with the physical name; the second's `Update` conflicts, and its retry finds no
name, takes the object for one that was never synchronised and skips it. Its finalizer
stays, and so does the object. (`LetsGo` holds beside it: it speaks of a cluster that still
finds the name.)

Disagreements that no run keeps, each a property of a module that TLC refutes under the
bounds named:

- `MismatchOnlyStale` (`PodSync`, with caches two events behind): `deleteMismatchedPhysicalPodIfNeeded`
  calls what it deletes "stale data", but reads it from the cache and deletes by name. Two
  events behind, the old pod is gone, the right one stands in its place and is deleted.
- `UniqueReady` without the exemption of `cleared`: `cleanupClusterIDMappings` removes the
  entry of an identifier whoever it names; deleting a second binding with the identifier
  frees it, and the next one gets Ready beside the owner. `docs/design/manager.md` (6.1) has
  the validation "ensure each cluster binding has a unique identifier".
- `OneSyncerPerBinding` without the exemption of `forgot`: the identifier is immutable only as
  long as the manager remembers it; changed and then validated by a restarted manager, the
  binding gets a second syncer beside the first.
- `ReadyMeansDeployed` and `SyncerKept` without `Touched` and `Undisturbed`: deleting a second
  binding with an identifier also deletes, by name, the Deployments of the owner, which stays
  Ready and keeps the finalizer of a syncer that is gone.
- `FakePodsFollow` and `StaysReserved` without `hmisled`: `handleFakePod` takes any listed pod
  with the right ports for the correct one and does not look at its deletion timestamp. When
  the ports go from {1} to {1, 2} and back to {1} before the first fake pod is gone, it keeps
  that Terminating pod and deletes the other, and port 1 is left unreserved although the list
  was up to date. An old list does the same with a pod that is gone.
- `CopyCatchesUp` without `misled`: the config map controller finds no copy of version 2, the
  pod controller creates one from the version 1 it has read, and the Create of the first
  returns without error (`common.go` takes AlreadyExists for success) and is not tried again.
  The copy keeps version 1 until the next event of the object.
- `Settles` and `docs/design/bottomup-syncer.md` (4.1): the document's flow has "Use all
  remaining resources" for a node without a matching policy; `processNode` deletes the virtual
  node then ("No matching ResourceLeasingPolicy found; deleting virtual node"). `NodeSettled`
  states what the code does.
- `NothingLeft` (`ClusterBinding`): the node controller acts on the copy it read before the
  deletion; its node can appear after the syncer has looked for nodes, and outlives the
  binding.
- `PortsUnique` with a restart: a port is released before the Update that removes the
  finalizer. If that fails, another node gets the port while the deleting one still has it
  in its label; a restart lists both under it, and the retried release of the deleting one
  frees the port of the other.
- `TaintsSettle` (`Leasing`): the status update records the expected taints, the patch after
  it sets them. When the patch fails, the next reconcile takes the old taint for a user's
  and keeps it for ever.

Further behaviour the models have:

- Pods: with the virtual cache behind, a virtual pod whose physical pod was recorded and
  then removed gets a second one instead of being reported lost.
- Bindings: with a second incarnation a Deployment that the manager's cache does not show
  counts as cleaned up, the new incarnation leaves it alone and the garbage collector removes
  it for its old owner reference (in `touched`, since the first incarnation was deleted).
- Nodes: a virtual node kept after a failed deletion loses the deletion taint but stays
  unschedulable; a port allocated for a node whose creation failed is kept until the next
  restart if the node is not wanted any more; a pod bound just before the taint may not be
  in the cache when the node is found empty.
- Resources: the pod controller does not look at the deletion timestamp, so a copy may be
  made while the object is let go; secrets look for their copy in the namespace that the
  shared annotation names; a comparison with an old copy may leave old contents until the
  next event, like the lost race above.
- Policies: with forced reclaim the taint is NoExecute from the start, where
  `docs/design/bottomup-syncer.md` has NoSchedule until the grace period is over: the taint
  manager of the virtual cluster, which is not modelled, then evicts pods at once, so that
  `EvictedAfterGrace` speaks of the syncer's own evictions only; a switch
  to forced reclaim counts the period from the older taint; a user's taint added between the status
  update and the patch is lost; a window over midnight is tested with the day of the week
  of the present minute; a binding without a selector does not tell the nodes it selected.
- Proxier: a server started late may listen on a port its node has left, or find it taken
  and only log it; a deletion leaves the summary of the port; the second initialisation
  brings back a node that went meanwhile; a node being deleted whose port is another's
  already stays in the tables, and the other gets no server as long as its entry is there.
- Log configurations: two groups are numbered in the order of a Go map, so that a reconcile
  may swap their names and rebuild both; a specification without namespace or workload is
  not rewritten and selects the worker cluster's own pods too; labels and annotations are
  copied at creation only; the deletion of a cluster binding leaves the physical
  configurations and the finalizers.
- Followers: two reconciles of one CSINode within a second, the second with a cached copy
  older than the first's write and equal to the new state, leave that write; a virtual node created with the address of a proxier that has just gone
  keeps it until the next proxier event, because the watch controller does not watch nodes;
  with three proxiers, a sync that finds the address of its old copy of the node good leaves
  a newer one that is not; after three failed attempts a node is given up and nothing is queued.

## 5. Proofs

`PodSyncProofs` proves, for all values of the constants (`BoundsAssumption`: they
are natural numbers) and so for any lag and any number of incarnations:

| theorem | property |
|---|---|
| `TypeCorrect` | `TypeOK` |
| `CleanupIsSafe` | `CleanupOnlyDoomed` |
| `DeletionIsGraceful` | `GracefulDeletion` |
| `MappingIsOwned` | `MappingOwned` |
| `LossIsReal` | `LostOnlyIfGone` |
| `TokenIsKept` | `TokenBacked` |
| `RecordIsStable` | `RecordedOnce` |

None of the properties is inductive: each is about the present objects, while the
actions decide from copies read earlier. `IInv` adds what makes old copies
harmless, and `Invariance` proves it:

- `Ordered`, `CopiesOld`: logs only go forward, and every copy in a reconcile is a
  version that once was current and is not newer than the truth (`NoLater` orders
  versions by UID, existence, deletion, mapping and recorded UID);
- `CreationsSeen`: a physical pod exists only for a virtual pod some copy of which
  was seen mapped, so that a cache never mistakes a new pod for an orphan;
- `RecordShape`, `OwnerRecorded`, `LiveCopies`: a recorded UID belongs to a pod made
  for the incarnation, also in the copies a write is built from;
- `Absent`: a reconcile that found no physical pod for a recorded UID found the truth,
  since a UID never returns;
- `CreateReady`, `IdleCopies`: what a creation in flight may rely on.

`VirtEffect` and `PhysEffect` describe what a step may do to the two logs; every
action is shown to have one of these effects, and each conjunct of `IInv` is shown
to survive each effect. So the argument has one lemma per effect and conjunct, not
one per action and conjunct.

`ClusterBindingProofs` proves, for any sets of bindings and identifiers and any bounds
(`ConstantsAssumption`: `None` is neither, bounds are natural numbers):

| theorem | property |
|---|---|
| `BindingTypeCorrect` | `TypeOK` |
| `DeploymentGuarded` | `DeployedUnderFinalizer` |
| `IdentifiersStayPaired` | `IdentifiersPaired` |
| `SyncerOutlivesFinalizer` | `SyncerKept`, for `Disjoint` identifiers and names with `NoReuse` |
| `ReadyIsDeployed` | `ReadyMeansDeployed` |

Types need `Running` (only a running syncer reconciles). The second theorem says that a
manager that works from an old copy still never deploys for a binding it could lose
sight of. Its invariant `IInv` relates the three ages of a binding: a reconcile's copy
is not later than the cache and the cache not later than the truth (`Past`, ordered by
`NoLater`: incarnations grow, what is dying stays dying); a reconcile builds only from a
live copy with the finalizer and removes only from a dying one without the syncer's
(`Flight`); whoever was seen alive with the manager's finalizer still has it
(`StillHeld`); owners of deployed objects have existed and carry the finalizer while they
do (`OwnersPast`, `OwnersHeld`). Every write but one is an edit that `Keeps` the
finalizer (`EditKeeps`, `WriteKeeps`); the exception, `MRemoveFinalizer`, takes the
binding away, and then `Past` shows that no cached copy is alive (`WriteStep`).

`IdentifiersStayPaired` and `ReadyIsDeployed` have no condition beside the exemptions of the
properties. Both start from `Homes` and `OwnersHome`: what the manager has read and what is
deployed under an identifier was once right, and still is unless `touched` has the binding
with the identifier. For the first, whoever is accepted by the validation, or Ready with
nothing left to do, owns the record of its identifier or the identifier is in `cleared`
(`Admission`). It survives a restart because the restarted manager has everything in its
queue: what is not validated again yet is not `Admitted`. A deployed syncer belongs to a
binding recorded with its identifier, to an incarnation the manager is through with, or to
one it forgot (`SyncerMapped`, `Over`). For the second, while an identifier is not touched
nothing under it is taken away, so that what the cache shows, or a reconcile has built so far,
is there (`PartsKept`, `PartsBuilt`).

`SyncerOutlivesFinalizer` is about bindings that share no identifier (`Disjoint`) and whose
names are not used again (`NoReuse`); restarts, crashes and changes of identifiers are free. The
argument turns on `Left`: a binding that is gone, or being deleted without the syncer's
finalizer, stays so. The manager takes parts away only of a binding that is `Left`
(`Leaving`), and so does the garbage collector, so that what is `Placed` under an identifier
outlasts every stale cache until then (`Withers`); a syncer adds its finalizer only where it is
deployed (`SyncerThere`). That the property holds with its own, weaker exemption
(`Undisturbed`) is checked by the run.

`VirtualNodeProofs` proves, for any set of nodes, range of ports, hash and bounds
(`NodeAssumption`):

| theorem | property |
|---|---|
| `NodeTypeCorrect` | `TypeOK` |
| `LeaseSound` | `LeaseOnlyForNode` |
| `PortsAreUnique` | `PortsUnique`, until the first restart |
| `PortsImplemented` | `ImplementsAllocation`, until the first restart |
| `ProbeComplete` | the probe for a free port visits every port |

`IInv` has three layers. `CacheOld`: a node the cache shows alive still exists, one it
shows dying is not alive again under the cache's eyes. `FlightOld`: what the reconcile of
a node may rely on, because it alone creates and removes the virtual node (a reconcile
that removes works from a dying copy, and nothing it can see is alive). `LeaseOld` follows
from it. These speak of one node, and `Frame` shows that a step for another node leaves
them alone. `Held`, `Listed` and `Labelled` relate the tables to the labels; they are
global, and need only what a step can do to the tables (`TableStep`: an allocation, or the
release of a port whose node is not in use) and to a node (`UseStep`: a node in use was in
use before, or was created with the port in the table). A restart breaks `Listed`, which is
the disagreement of section 4. The refinement follows from the same two descriptions: every
step maps to one of `PortAllocation` or to a stutter.

`ResourceSyncProofs` proves, for any set of clusters, any kind and any bounds:

| theorem | property |
|---|---|
| `ResourceTypeCorrect` | `TypeOK` |
| `CopyOutlivedByFinalizer` | `CopyHasHolder`, while `PlaceShared` |
| `ForeignKeptUntouched` | `ForeignUntouched` |

`PlaceShared` excludes a secret whose clusters mount in different namespaces: its syncer
looks for the copy where the shared annotation says, which is the last item on resources in
section 4. The invariant says that every copy of the object in a controller is sound and
tells its incarnation (`UidsTell`), and that a reconcile about to take its finalizer off
has found or made its cluster clean (`ReleaseClean`). Two controllers of one process write
the same object, so the step predicate `HolderStep` says of a step of either what it may do
to the copies, to the finalizers and to a release under way.

`LeasingProofs` proves, for any policies, lengths of day and grace period:

| theorem | property |
|---|---|
| `LeasingTypeCorrect` | `TypeOK` |
| `GraceKept` | `GraceNotReset` |
| `EvictionWaits` | `EvictedAfterGrace` |
| `UserTaintSafe` | `UserTaintKept` |
| `OfferIsShare` | `CalculateEffectiveLimit` is the share of the node, for every policy |
| `WindowsAgree` | `IsWithinTimeWindows` is `Open`, for every policy, day and minute |

The three properties follow from what a step may do to the taints (`TaintStep`), given that
a patch in flight fits the node that it was made from (`PatchFits`) and a reconcile's verdict
fits the policy it read (`WindowFits`).

`ProxierProofs` proves, for any nodes, ports and addresses (`None` is no record of a server
and none of a node):

| theorem | property |
|---|---|
| `ProxierTypeCorrect` | `TypeOK` |
| `TablesFollow` | `Follows` |
| `MetricsOwn` | `OwnMetrics` |

The invariant says, for every node that has not lost a named race, how far each of the
three tables has followed the node and which event or goroutine has the rest to do
(`NodesInv`); for every port, whose the server is or what will stop or start it
(`ServersInv`); and that the round of collection writes for a port only what its node
answered (`RoundInv`). Nothing is assumed of the ports: of two nodes with one port only one
can have the server, so that at rest the other is in `raced` (`RestServers`).

`LogConfigProofs` proves, for any specifications, pods and number of groups
(`LogConfigAssumption`, `GroupsAssumption`: specifications and pods are records of their
types, a specification has finitely many workloads, and `MaxGroups` bounds their groups):

| theorem | property |
|---|---|
| `LogConfigTypeCorrect` | `TypeOK` |
| `ReleasedAfterCleanup` | `ReleasedLast` |
| `SettledInSync` | at rest the worker cluster has exactly what `Reconcile` generates |
| `OneCollectorEach` | what is generated selects the copy of a selected pod exactly once, of others never |
| `SelectionKept` | `SelectsSame`, for `Usable` constants |

One half is about the controller: what the reconcile in flight still has to do
(`FlightInv`: what is live is on its list, and what it has created so far is part of its
plan) and what the last one has left (`RestInv`). The other is about the rewriting alone.
That the numbering of the groups, in any order, leaves none out is the pigeonhole principle
(`Numbered`). `Usable` is what the rules need: the mount namespace is the worker namespace
that they write, and holds only copies; users' labels are not those that the pod controller
adds; and a specification is `Expressible`, that is, selects in one way. Where it is not,
the rules lose something: an excluded namespace overwrites excluded labels (the code logs a
"Configuration error"), a workload the labels to include, and a namespace leaves an excluded
one as it was. The specifications of the run are usable.

`FollowersProofs` proves, for any ports, proxiers and bounds:

| theorem | property |
|---|---|
| `FollowersTypeCorrect` | `TypeOK` |
| `FakePodsAgree` | `FakePodsFollow` |
| `PortsStayReserved` | `StaysReserved` |
| `CSINodesAgree` | `CSINodeFollows` |
| `ForeignCSINodeKept` | `ForeignKept` |
| `AddressAgrees` | `AddressFollows` |

Each controller has an invariant of its own (`CInv`, `WInv`, `HInv`): what a reconcile in
flight may rely on, and what is true of its object once nothing is queued or in flight. The
steps of the others leave it alone, which is shown once for each. The proof that addresses
agree found a step the model had wrong: with three proxiers a sync may be content with an
old copy of the node. The history `missed` now names it, and the run has three proxiers.
For the fake pods the invariant says which live pods the reconcile in flight knows (the one it
keeps and those it has still to delete) as long as it was not misled, whatever Terminating
pods there are beside them.

With these every safety property that a run checks is a theorem. Where a theorem has a
condition, the code breaks the property without it, which section 4 describes; only the
condition of `SyncerOutlivesFinalizer` is stronger than the exemption its property has.

## 6. Plan

Modelled and checked: all modules of section 2. Proved: section 5. Next, in order:

1. The cache of service account tokens, and the renewal of node leases.
2. `ClusterBinding`: `NothingLeft` for a node controller that does not act on an old copy.

Liveness under fairness and `ENABLED` are out of the prover's reach and stay with TLC:
`OrphanCollected`, `EventuallyRecorded`, `LossReported`, the four `DeletionCompletes`,
`BecomesReady`, `Converges`, `LetsGo`, `CopyCatchesUp`, `Settles`, `Reclaimed` and
`EventuallySynced`. So do recursive definitions over data.

## 7. Not modelled

- Forwarding of exec and log streams, metric text, flag parsing, generated code and the
  reporting of metrics: they keep no state that a property could be about.
- The certificates of the proxier and the token managers: caches in front of an external
  signer or token service, whose answers and expiry decide everything.
- The renewal loop of a node's lease: a timer with one write; its start and stop are in
  `VirtualNode`.
- The proxier's map of pods: a cache of physical pods by name.
- The construction of the physical pod's spec and of node conditions: data that no other
  controller decides on.
