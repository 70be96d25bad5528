---------------------------- MODULE ResourceSync ----------------------------
(* One object that pods mount (a config map, a secret, a secret named by a     *)
(* volume, a claim or a volume) and its copies in the worker clusters.  Every  *)
(* cluster has a syncer of its own; all of them write to the one virtual       *)
(* object: a label, an annotation with the copy's name and one finalizer per   *)
(* cluster.  Inside a syncer the pod controller (virtual_pod_controller.go)    *)
(* and the controller of the object's kind act on it at the same time, each    *)
(* from informer caches that lag behind.                                       *)
EXTENDS Naturals, FiniteSets

CONSTANTS
  Cluster,      \* the worker clusters, and the syncer of each of them
  Kinds,        \* the kinds of object to look at, a subset of AllKinds
  Mount,        \* [Cluster -> namespace]: spec.mountNamespace of the bindings
  None,         \* no namespace
  MaxVersion,   \* bound: contents users give to the object, over its lives
  MaxSync,      \* bound: synchronisations by the pod controllers
  MaxForeign,   \* bound: clusters where the copy's name is already taken
  MaxRestart    \* bound: crashes of syncers

AllKinds == {"configmap", "secret", "pvsecret", "pvc", "pv"}

ASSUME KindsAssumption == Kinds \subseteq AllKinds
ASSUME ClusterAssumption == IsFiniteSet(Cluster)
ASSUME MountAssumption == \A c \in Cluster : Mount[c] # None
ASSUME BoundAssumption == {MaxVersion, MaxSync, MaxForeign, MaxRestart} \subseteq Nat

VARIABLES
  kind,      \* the kind of the object; it never changes
  v,         \* the virtual object in the API server
  phys,      \* [Cluster -> copy]: what has the copy's name in each cluster
  pc,        \* [Cluster -> copy]: the same in each syncer's cache
  needs,     \* [Cluster -> BOOLEAN]: the object's key is in ...NeedsSynced
  dirty,     \* [Cluster -> BOOLEAN]: the key is in the controller's work queue
  ctl,       \* [Cluster -> job]: the controller's reconciliation under way
  pod,       \* [Cluster -> object or NoSync]: a pod's copy about to be created
  misled,    \* history: the syncers whose last reconcile was content with
             \* an old copy of the cache, or met a copy made since its lookup
  leaving,   \* the clusters whose binding is being deleted
  version, syncs, restarts   \* counters

vars == <<kind, v, phys, pc, needs, dirty, ctl, pod, misled, leaving,
          version, syncs, restarts>>

-----------------------------------------------------------------------------
(* Objects                                                                     *)

\* The virtual object that is not there.
Absent == [exists |-> FALSE, del |-> FALSE, managed |-> FALSE, mby |-> {},
           pvl |-> FALSE, pname |-> FALSE, pns |-> None, deleting |-> {},
           fin |-> {}, data |-> 0]

NoCopy == [exists |-> FALSE, foreign |-> FALSE, uid |-> 0, data |-> 0, held |-> FALSE]

\* Something else that already has the name (its labels or its annotation of
\* the virtual name are not the object's).
ForeignCopy == [NoCopy EXCEPT !.exists = TRUE, !.foreign = TRUE]

\* A reconciliation: the object it has read, and whether it is about to let the
\* object go.  A pod's synchronisation: the object to make the copy from.
NoObject == [Absent EXCEPT !.data = MaxVersion + 1]
Idle == [step |-> "idle", obj |-> NoObject]
NoSync == NoObject

\* Config maps and secrets that pods name are looked up in ...NeedsSynced and
\* are created again by their controllers; the rest is only created for a pod.
Tracked == kind \in {"configmap", "secret"}

\* The namespace the pod controller gives the copy: syncConfigMap, syncSecret,
\* syncPVC use the mount namespace, a volume's secret keeps its own, a volume
\* has none.
Place(c) == IF kind \in {"pvsecret", "pv"} THEN kind ELSE Mount[c]

\* The API server removes an object being deleted once no finalizer is left.
Settle(o) == IF o.del /\ o.fin = {} THEN Absent ELSE o

\* CheckPhysicalResourceExists: the cache first; when it has nothing, the API.
CheckPhysicalResourceExists(c, ns) ==
  IF ns # Place(c) THEN NoCopy
  ELSE IF pc[c].exists THEN pc[c] ELSE phys[c]

\* CreatePhysicalResourceWithOpt: an object that is already there is left alone
\* and is no error.  held is history: the copy was made under the finalizer of
\* its cluster, with no release of that finalizer under way.
CreatePhysicalResource(c, o) ==
  phys' = [phys EXCEPT ![c] =
             IF @.exists THEN @
             ELSE [exists |-> TRUE, foreign |-> FALSE, uid |-> @.uid + 1,
                   data |-> o.data,
                   held |-> c \in v.fin /\ ctl[c].step # "release"]]

-----------------------------------------------------------------------------
(* Writes to the virtual object.  An update carries the resource version of    *)
(* the copy it was made from: it is refused unless that copy is up to date.    *)

AllFieldsMatch(c, o, ns, pv) ==
  /\ o.pname /\ o.pns = ns
  /\ o.managed /\ c \in o.mby /\ c \in o.fin
  /\ pv => o.pvl

\* The API server accepts no new finalizer on an object being deleted.
CanUpdate(c, o) == o = v /\ (o.del => c \in o.fin)

\* What UpdateVirtualResourceLabelsAndAnnotations writes.  The name of the copy
\* is the same in all clusters (a hash of the object's name), so that the
\* annotation of another cluster never stops it.
Labelled(c, o, ns, pv) ==
  [o EXCEPT !.managed = TRUE, !.mby = @ \cup {c}, !.pvl = @ \/ pv,
            !.pname = TRUE, !.pns = ns, !.fin = @ \cup {c}]

\* What RemoveSyncedResourceFinalizerAndLabels leaves: the cluster's own
\* finalizer and label go, and so do the annotations every cluster relies on.
Released(c, o) ==
  [o EXCEPT !.fin = @ \ {c}, !.mby = @ \ {c}, !.pvl = FALSE,
            !.managed = @ /\ o.fin # {c},
            !.pname = FALSE, !.pns = None, !.deleting = @ \ {c}]

-----------------------------------------------------------------------------
(* The controller of the object's kind.  Reconcile reads the object, decides   *)
(* and writes in later steps, when the object may have changed.  An error, a   *)
(* refused update included, puts the key back into the work queue.             *)

\* shouldSkipSync; n is what the controller has in ...NeedsSynced.
ShouldSkip(c, o, n) == ~(o.managed /\ c \in o.mby) /\ ~n

\* The event filters of SetupWithManager.
EventFilter(c, o, n) ==
  ~ShouldSkip(c, o, n) /\ (kind \in {"pvc", "pv"} => o.pname)

\* The object becomes q.  The event (of a deletion, with the last state) is
\* queued by the controllers whose filter it passes; n is what they have in
\* ...NeedsSynced.
Write(q, n) ==
  /\ v' = q
  /\ dirty' = [c \in Cluster |->
                 dirty[c] \/ EventFilter(c, IF q.exists THEN q ELSE v, n[c])]

NoWrite == UNCHANGED <<v, dirty>>

\* What the steps of a reconciliation leave alone.
rest == <<kind, pc, pod, leaving, version, syncs, restarts>>

Done(c) == ctl' = [ctl EXCEPT ![c] = Idle]
Requeue(c) == v' = v /\ dirty' = [dirty EXCEPT ![c] = TRUE]

\* updateVirtual...LabelsAndAnnotations has something to write: the object is
\* needed here and one of the fields is missing.
NeedsFields(c, o) ==
  /\ needs[c] /\ ~o.pvl
  /\ ~(o.managed /\ c \in o.mby /\ o.pname /\ c \in o.fin)

\* The namespace in which a controller looks for the copy: secrets take it
\* from the annotation, the others from their own binding.
LookupPlace(c, o) == IF kind \in {"secret", "pvsecret"} THEN o.pns ELSE Place(c)

\* No annotation names the copy.
Nameless(c, o) == ~o.pname \/ LookupPlace(c, o) = None

\* Reconcile takes the key and reads the object.  It goes no further when the
\* object is gone, not this cluster's or without the name of the copy.
Get(c) ==
  /\ dirty[c] /\ ctl[c] = Idle
  /\ dirty' = [dirty EXCEPT ![c] = FALSE]
  /\ needs' = [needs EXCEPT ![c] = @ /\ v.exists]
  /\ ctl' = [ctl EXCEPT ![c] =
               IF /\ v.exists /\ ~ShouldSkip(c, v, needs[c])
                  /\ NeedsFields(c, v) \/ ~Nameless(c, v)
               THEN [step |-> "got", obj |-> v] ELSE Idle]
  /\ UNCHANGED <<rest, v, phys, misled>>

\* updateVirtual...LabelsAndAnnotations: write what is missing and wait for
\* the event of that write.
ReconcileLabel(c) ==
  LET o == ctl[c].obj IN
  /\ ctl[c].step = "got" /\ NeedsFields(c, o)
  /\ IF CanUpdate(c, o)
     THEN Write(Labelled(c, o, Mount[c], FALSE), needs)
     ELSE Requeue(c)
  /\ Done(c)
  /\ UNCHANGED <<rest, misled, phys, needs>>

checkPhysicalConfigMapExists(c) == CheckPhysicalResourceExists(c, Mount[c])

checkPhysicalSecretExists(c) == CheckPhysicalResourceExists(c, ctl[c].obj.pns)

checkPhysicalPVCExists(c) == CheckPhysicalResourceExists(c, Mount[c])

checkPhysicalPVExists(c) == CheckPhysicalResourceExists(c, "pv")

\* The copy that Reconcile finds.
Found(c) == CASE kind = "configmap" -> checkPhysicalConfigMapExists(c)
              [] kind \in {"secret", "pvsecret"} -> checkPhysicalSecretExists(c)
              [] kind = "pvc" -> checkPhysicalPVCExists(c)
              [] kind = "pv" -> checkPhysicalPVExists(c)

HasName(c) ==
  /\ ctl[c].step = "got"
  /\ ~NeedsFields(c, ctl[c].obj) /\ ~Nameless(c, ctl[c].obj)

\* validatePhysicalConfigMap and its likes: something else has the name.
ReconcileInvalid(c) ==
  /\ HasName(c) /\ Found(c).foreign
  /\ Requeue(c) /\ Done(c)
  /\ UNCHANGED <<rest, misled, phys, needs>>

\* Mutant: no validation of what was found.
ProceedsUnchecked(c) == HasName(c)

\* The rest of Reconcile.
Proceeds(c) == HasName(c) /\ ~Found(c).foreign

\* Mutant: the annotation of a departing cluster is overlooked.
BeingReleasedDeleted(c, o) == o.del

\* The object is being deleted, or this cluster's binding is.
BeingReleased(c, o) == o.del \/ c \in o.deleting

\* DeletePhysicalResource: a copy that is gone is no error; one that was made
\* anew since p was read is, by the precondition on the UID.
DeleteFails(c, p) == p.exists /\ phys[c].exists /\ phys[c].uid # p.uid

\* Mutant: only a copy that the cache has is deleted.
DeletePhysicalResourceCached(c, p) ==
  phys' = IF pc[c].exists
          THEN [phys EXCEPT ![c] = [NoCopy EXCEPT !.uid = phys[c].uid]] ELSE phys

DeletePhysicalResource(c, p) ==
  phys' = IF p.exists
          THEN [phys EXCEPT ![c] = [NoCopy EXCEPT !.uid = phys[c].uid]] ELSE phys

\* handleVirtual...Deletion up to the release of the object.
HandleDeletion(c) ==
  /\ Proceeds(c) /\ BeingReleased(c, ctl[c].obj)
  /\ IF DeleteFails(c, Found(c))
     THEN Requeue(c) /\ Done(c) /\ UNCHANGED phys
     ELSE /\ DeletePhysicalResource(c, Found(c))
          /\ ctl' = [ctl EXCEPT ![c].step = "release"]
          /\ NoWrite
  /\ UNCHANGED <<rest, misled>>

UnsetNeedsSynced(c) == needs' = [needs EXCEPT ![c] = FALSE]

handleVirtualConfigMapDeletion(c) ==
  kind = "configmap" /\ HandleDeletion(c) /\ UnsetNeedsSynced(c)

handleVirtualSecretDeletion(c) ==
  kind \in {"secret", "pvsecret"} /\ HandleDeletion(c) /\ UnsetNeedsSynced(c)

handleVirtualPVCDeletion(c) == kind = "pvc" /\ HandleDeletion(c) /\ UNCHANGED needs

handleVirtualPVDeletion(c) == kind = "pv" /\ HandleDeletion(c) /\ UNCHANGED needs

\* RemoveSyncedResourceFinalizerAndLabels, at the end of a deletion.
RemoveSynced(c) ==
  /\ ctl[c].step = "release"
  /\ IF ctl[c].obj = v
     THEN Write(Settle(Released(c, v)), needs)
     ELSE Requeue(c)
  /\ Done(c)
  /\ UNCHANGED <<rest, misled, phys, needs>>

\* The lookup found no copy: create one, in a request of its own.
ToCreate(c) ==
  ctl' = [ctl EXCEPT ![c].step = "create"] /\ NoWrite /\ UNCHANGED <<phys, misled>>

\* Mutant: an update that is refused is not tried again.
CreateOrUpdateOnce(c, o, p) ==
  \/ ~p.exists /\ ToCreate(c)
  \/ /\ p.exists /\ NoWrite /\ Done(c)
     /\ phys' = [phys EXCEPT ![c].data = IF p = phys[c] THEN o.data ELSE @]
     /\ UNCHANGED misled

\* The last part of Reconcile: the copy is created when it is missing and gets
\* the object's content when it differs.  The update is made from the copy p
\* that was found, and refused when p is out of date.
CreateOrUpdate(c, o, p) ==
  \/ ~p.exists /\ ToCreate(c)
  \/ /\ p.exists /\ p.data = o.data /\ NoWrite /\ Done(c) /\ UNCHANGED phys
     /\ misled' = IF p = phys[c] THEN misled \ {c} ELSE misled \cup {c}
  \/ /\ p.exists /\ p.data # o.data /\ Done(c)
     /\ IF p = phys[c]
        THEN phys' = [phys EXCEPT ![c].data = o.data] /\ NoWrite /\ misled' = misled \ {c}
        ELSE UNCHANGED <<phys, misled>> /\ Requeue(c)

Syncs(c) ==
  /\ Proceeds(c) /\ ~BeingReleased(c, ctl[c].obj)
  /\ UNCHANGED <<rest, needs>>

\* Reconcile of a config map in use.
SyncConfigMap(c) ==
  kind = "configmap" /\ Syncs(c) /\ CreateOrUpdate(c, ctl[c].obj, Found(c))

\* Reconcile of a secret in use: a volume's secret is not created here.
SyncSecret(c) ==
  /\ kind \in {"secret", "pvsecret"} /\ Syncs(c)
  /\ IF ~Found(c).exists /\ ctl[c].obj.pvl
     THEN NoWrite /\ Done(c) /\ UNCHANGED <<phys, misled>>
     ELSE CreateOrUpdate(c, ctl[c].obj, Found(c))

\* createPhysicalConfigMap, createPhysicalSecret: the pod controller may have made
\* a copy since the lookup, which stays as it is, and nothing is tried again.
CreateMissing(c) ==
  /\ ctl[c].step = "create"
  /\ CreatePhysicalResource(c, ctl[c].obj)
  /\ misled' = IF phys[c].exists /\ phys[c].data # ctl[c].obj.data
               THEN misled \cup {c} ELSE misled \ {c}
  /\ NoWrite /\ Done(c)
  /\ UNCHANGED <<rest, needs>>

\* Reconcile of a claim in use, of a volume in use: nothing to do.
SyncPVC(c) == kind = "pvc" /\ Syncs(c) /\ Done(c) /\ NoWrite /\ UNCHANGED <<phys, misled>>

SyncPV(c) == kind = "pv" /\ Syncs(c) /\ Done(c) /\ NoWrite /\ UNCHANGED <<phys, misled>>

-----------------------------------------------------------------------------
(* The pod controller: syncDependentResources for a pod that mounts the        *)
(* object.                                                                     *)

AddNeedsSynced(c) == [needs EXCEPT ![c] = @ \/ Tracked]

\* syncResource until it has the finalizer; after an error the pod is tried
\* again.
SyncResource(c) ==
  LET p == CheckPhysicalResourceExists(c, Place(c))
      pv == kind = "pvsecret"
      match == AllFieldsMatch(c, v, Place(c), pv)
      goes == v.exists /\ ~p.foreign /\ (match \/ CanUpdate(c, v))
  IN /\ pod[c] = NoSync /\ c \notin leaving
     /\ syncs < MaxSync /\ syncs' = syncs + 1
     /\ needs' = AddNeedsSynced(c)
     /\ IF goes /\ ~match
        THEN Write(Labelled(c, v, Place(c), pv), needs')
        ELSE NoWrite
     /\ pod' = [pod EXCEPT ![c] = IF goes /\ ~p.exists THEN v ELSE NoSync]
     /\ UNCHANGED <<kind, phys, pc, ctl, misled, leaving, version, restarts>>

\* syncResource after it: create the copy that was missing.
SyncResourceCreate(c) ==
  /\ pod[c] # NoSync
  /\ CreatePhysicalResource(c, pod[c])
  /\ pod' = [pod EXCEPT ![c] = NoSync]
  /\ UNCHANGED <<kind, v, pc, needs, dirty, ctl, misled, leaving, version, syncs, restarts>>

-----------------------------------------------------------------------------
(* Caches, users, bindings and crashes                                         *)

\* No controller watches the copies: their cache catches up silently.
DeliverPhysical(c) ==
  /\ pc[c] # phys[c]
  /\ pc' = [pc EXCEPT ![c] = phys[c]]
  /\ UNCHANGED <<kind, v, phys, needs, dirty, ctl, pod, misled, leaving, version, syncs,
                 restarts>>

\* A user creates the object, changes it or deletes it.  Contents are never
\* used twice; claims and volumes are immutable.
UserWrite ==
  /\ version < MaxVersion /\ version' = version + 1
  /\ \/ /\ ~v.exists
        /\ Write([Absent EXCEPT !.exists = TRUE, !.data = version + 1], needs)
     \/ /\ v.exists /\ kind \notin {"pvc", "pv"}
        /\ Write([v EXCEPT !.data = version + 1], needs)
  /\ UNCHANGED <<kind, phys, pc, needs, ctl, pod, misled, leaving, syncs, restarts>>

UserDelete ==
  /\ v.exists /\ ~v.del
  /\ Write(Settle([v EXCEPT !.del = TRUE]), needs)
  /\ UNCHANGED <<rest, misled, phys, needs, ctl>>

\* The cluster's binding is deleted and no pod is left on its nodes.  (The
\* entries of pods that go are taken out of ...NeedsSynced; the key stays.)
Leave(c) ==
  /\ c \notin leaving /\ c \in v.fin
  /\ leaving' = leaving \cup {c}
  /\ UNCHANGED <<kind, v, phys, pc, needs, dirty, ctl, pod, misled, version, syncs,
                 restarts>>

\* checkAndCleanVirtualResources marks what still has the cluster's label.
AddClusterBindingDeletingAnnotation(c) ==
  /\ c \in leaving
  /\ c \in v.mby /\ c \notin v.deleting
  /\ Write([v EXCEPT !.deleting = @ \cup {c}], needs)
  /\ UNCHANGED <<rest, misled, phys, needs, ctl>>

\* InitPodConfigmapsAndSecrets: is the object named by a pod that is bound to
\* the cluster by then?
InitNeeds(c) == IF Tracked /\ c \notin leaving THEN BOOLEAN ELSE {FALSE}

\* A syncer dies and starts again with fresh caches.
Restart(c) ==
  /\ restarts < MaxRestart /\ restarts' = restarts + 1
  /\ \E n \in InitNeeds(c) :
       /\ needs' = [needs EXCEPT ![c] = n]
       /\ dirty' = [dirty EXCEPT ![c] = v.exists /\ EventFilter(c, v, n)]
  /\ pc' = [pc EXCEPT ![c] = phys[c]]
  /\ ctl' = [ctl EXCEPT ![c] = Idle] /\ pod' = [pod EXCEPT ![c] = NoSync]
  /\ UNCHANGED <<kind, v, phys, misled, leaving, version, syncs>>

-----------------------------------------------------------------------------
Init ==
  /\ kind \in Kinds
  /\ v = Absent
  /\ phys \in [Cluster -> {NoCopy, ForeignCopy}]
  /\ Cardinality({c \in Cluster : phys[c].foreign}) <= MaxForeign
  /\ pc = phys
  /\ needs = [c \in Cluster |-> FALSE] /\ dirty = [c \in Cluster |-> FALSE]
  /\ ctl = [c \in Cluster |-> Idle] /\ pod = [c \in Cluster |-> NoSync]
  /\ misled = {} /\ leaving = {}
  /\ version = 0 /\ syncs = 0 /\ restarts = 0

Controller(c) ==
  \/ Get(c) \/ ReconcileLabel(c) \/ ReconcileInvalid(c)
  \/ handleVirtualConfigMapDeletion(c) \/ handleVirtualSecretDeletion(c)
  \/ handleVirtualPVCDeletion(c) \/ handleVirtualPVDeletion(c)
  \/ RemoveSynced(c)
  \/ SyncConfigMap(c) \/ SyncSecret(c) \/ CreateMissing(c) \/ SyncPVC(c) \/ SyncPV(c)

SyncerNext(c) ==
  \/ Controller(c) \/ SyncResource(c) \/ SyncResourceCreate(c)
  \/ DeliverPhysical(c) \/ Restart(c)
  \/ Leave(c) \/ AddClusterBindingDeletingAnnotation(c)

Next == UserWrite \/ UserDelete \/ \E c \in Cluster : SyncerNext(c)

Spec == Init /\ [][Next]_vars

\* Informers deliver, work queues are served, a handler that has begun ends and
\* a binding's deletion is tried again until it succeeds.  Nothing is assumed
\* of users, pods and crashes.
Fairness ==
  \A c \in Cluster :
    /\ WF_vars(Controller(c))
    /\ WF_vars(SyncResourceCreate(c))
    /\ WF_vars(DeliverPhysical(c))
    /\ WF_vars(AddClusterBindingDeletingAnnotation(c))

FairSpec == Spec /\ Fairness

-----------------------------------------------------------------------------
Object ==
  [exists : BOOLEAN, del : BOOLEAN, managed : BOOLEAN, mby : SUBSET Cluster,
   pvl : BOOLEAN, pname : BOOLEAN,
   pns : {None, "pvsecret", "pv"} \cup {Mount[c] : c \in Cluster},
   deleting : SUBSET Cluster, fin : SUBSET Cluster, data : 0..MaxVersion + 1]

Copy == [exists : BOOLEAN, foreign : BOOLEAN, uid : Nat, data : 0..MaxVersion,
         held : BOOLEAN]

\* The variables stay in their sets.
TypeOK ==
  /\ kind \in Kinds /\ v \in Object
  /\ phys \in [Cluster -> Copy] /\ pc \in [Cluster -> Copy]
  /\ needs \in [Cluster -> BOOLEAN] /\ dirty \in [Cluster -> BOOLEAN]
  /\ ctl \in [Cluster -> [step : {"idle", "got", "create", "release"}, obj : Object]]
  /\ pod \in [Cluster -> Object]
  /\ misled \subseteq Cluster /\ leaving \subseteq Cluster
  /\ version \in 0..MaxVersion
  /\ syncs \in 0..MaxSync /\ restarts \in 0..MaxRestart

\* A copy made under its cluster's finalizer never outlives it: the object can
\* neither vanish nor be let go by the cluster while the copy is there, however
\* the two controllers of the syncer, the syncers of the other clusters, stale
\* caches and crashes interleave (handleVirtual...Deletion deletes first).
CopyHasHolder == \A c \in Cluster : phys[c].exists /\ phys[c].held => c \in v.fin

\* What already had the name in a cluster is never changed or deleted
\* (validatePhysicalConfigMap, the ownership check of syncResource).
ForeignUntouched ==
  [][\A c \in Cluster : phys[c].foreign => phys'[c] = phys[c]]_vars

\* The release of the object by another cluster has removed the annotation of
\* the copy's name, and this syncer does not know of a pod that needs it.
Stranded(c) == c \in v.fin /\ ~v.pname /\ ~needs[c]

\* A cluster lets go of an object that is deleted, or of every object when its
\* binding is deleted, unless it is stranded.
LetsGo ==
  \A c \in Cluster :
    (v.del \/ c \in leaving) /\ c \in v.fin /\ ~phys[c].foreign
      ~> c \notin v.fin \/ Stranded(c)

\* A cluster uses the object and its copy is missing or has another content.
Outdated(c) ==
  /\ Tracked /\ c \in v.fin /\ ~BeingReleased(c, v) /\ ~phys[c].foreign
  /\ ~(phys[c].exists /\ phys[c].data = v.data)

\* The copy of an object in use does not stay out of date, also when it was
\* made from an old object or an update was refused; unless the cluster is
\* stranded, or the reconcile that decides was content with an old copy of the
\* cache, or found none and met one when it went to create it, which it ignores
\* (updatePhysicalConfigMapIfNeeded, CreatePhysicalResourceWithOpt).
CopyCatchesUp ==
  \A c \in Cluster : Outdated(c) ~> ~Outdated(c) \/ Stranded(c) \/ c \in misled

\* What the documentation says of a deletion (docs/design/topdown-syncer.md):
\* the copies are removed and then the virtual object is.
DeletionCompletes ==
  v.del /\ (\A c \in Cluster : ~phys[c].foreign) ~> ~v.exists
=============================================================================
