----------------------------- MODULE VirtualNode -----------------------------
(***************************************************************************)
(* The life of virtual nodes under PhysicalNodeReconciler.                 *)
(*                                                                         *)
(* A virtual node stands for a physical node as long as the cluster        *)
(* binding selects the node and a leasing policy applies to it (it is      *)
(* lent).  The reconciler creates it with a port for the proxier, keeps it *)
(* up to date, runs its lease loop, and drains and removes it when the     *)
(* physical node goes, is replaced or is no longer lent.  Up to 50 nodes   *)
(* are reconciled at once, one reconcile per node.  All reads come from    *)
(* caches; a delivery brings one up to date.  The tables of ports and of   *)
(* lease loops live in memory only.                                        *)
(***************************************************************************)
EXTENDS Integers

CONSTANTS
  Node,             \* names of physical nodes; a virtual node's name is made of one
  None,             \* no port, no node
  PortMin, PortMax, \* the ports of the proxier
  Hash,             \* Hash[n]: hashString of the virtual node's name
  MaxUid,           \* bound: incarnations of a physical node
  MaxChange,        \* bound: changes of what is lent
  MaxUserDelete,    \* bound: virtual nodes deleted by users
  MaxRestart,       \* bound: restarts of the syncer
  MaxError          \* bound: API calls that fail

Port == PortMin..PortMax

ASSUME NodeAssumption ==
  /\ PortMin \in Int /\ PortMax \in Int /\ PortMin <= PortMax
  /\ Hash \in [Node -> Nat]
  /\ None \notin Node \union Port
  /\ MaxUid \in Nat /\ MaxChange \in Nat /\ MaxUserDelete \in Nat
  /\ MaxRestart \in Nat /\ MaxError \in Nat

VARIABLES
  phys,      \* phys[n]: the physical node
  lent,      \* lent[n]: the binding selects it and a policy applies
  vn,        \* vn[n]: the virtual node
  pod,       \* pod[n]: a pod bound to the virtual node
  \* the caches of the syncer
  pcache, lcache, vcache, podc,
  \* the reconciler
  q,         \* names in the work queue, or to be added to it when a timer fires
  fl,        \* fl[n]: the reconcile of n in flight
  allocatedPorts, nodeNameToPort,
  lease,     \* lease[n]: its lease loop runs
  \* bounds
  changes, userDeletes, restarts, errors

caches == <<pcache, lcache, vcache, podc>>
memory == <<allocatedPorts, nodeNameToPort, lease>>
bounds == <<changes, userDeletes, restarts, errors>>
world == <<phys, lent, vn, pod>>
vars == <<world, caches, q, fl, memory, bounds>>

----------------------------------------------------------------------------
\* label: the policy-applied label.
PNode == [uid : Nat, exists : BOOLEAN, label : BOOLEAN]

\* puid, port: labels with the physical node's UID and the proxier port; taint,
\* unschedulable: the deletion taint and the flag set together with it.
VNode == [uid : Nat, exists : BOOLEAN, deleting : BOOLEAN, taint : BOOLEAN,
          unschedulable : BOOLEAN, puid : Nat, port : Port \union {None}]

NoNode(u) == [uid |-> u, exists |-> FALSE, deleting |-> FALSE, taint |-> FALSE,
              unschedulable |-> FALSE, puid |-> 0, port |-> None]
NewNode(u, pu, p) == [NoNode(u) EXCEPT !.exists = TRUE, !.puid = pu, !.port = p]

Pod == {"unborn", "active", "deleting", "gone"}

PC == {"idle", "check", "write", "create", "status", "patch", "lease", "label", "window",
       "unlabel", "get", "taint", "delete", "evict", "drain", "release", "finalize"}

\* c: the virtual node as last read or written; pu, pl: UID and label of the
\* physical node as read at the start.
Flight == [pc : PC, c : VNode, pu : Nat, pl : BOOLEAN]
Idle == [pc |-> "idle", c |-> NoNode(0), pu |-> 0, pl |-> FALSE]

At(n, pc) == fl[n].pc = pc
Goto(n, pc) == fl' = [fl EXCEPT ![n] = [pc |-> pc, c |-> @.c, pu |-> @.pu, pl |-> @.pl]]
GotoWith(n, pc, c) == fl' = [fl EXCEPT ![n] = [pc |-> pc, c |-> c, pu |-> @.pu, pl |-> @.pl]]
Return(n) == fl' = [fl EXCEPT ![n] = Idle] /\ UNCHANGED q
\* An error is returned, or a time after which to look again.
Again(n) == fl' = [fl EXCEPT ![n] = Idle] /\ q' = q \union {n}

\* An Update from a copy succeeds only while the copy is current; a conflict with a
\* write that the model leaves out is a Fail.
Current(n, c) == vn[n] = c

----------------------------------------------------------------------------
(* Ports of the proxier.                                                   *)

BasePort(n) == PortMin + (Hash[n] % (PortMax - PortMin + 1))

Candidate(base, offset) ==
  LET candidate == base + offset IN
  IF candidate > PortMax THEN PortMin + (candidate - PortMax - 1) ELSE candidate

\* Mutant: the probe does not ask whether the first port is taken.
FreeOffsetsNoBase(n) == {o \in 0..(PortMax - PortMin) :
                           \/ o = 0
                           \/ allocatedPorts[Candidate(BasePort(n), o)] = None}

FreeOffsets(n) == {o \in 0..(PortMax - PortMin) :
                     allocatedPorts[Candidate(BasePort(n), o)] = None}

\* allocateProxierPort when it succeeds: the port the name has, or the first free
\* one of the probe.
AllocateProxierPort(n) ==
  \/ /\ nodeNameToPort[n] # None
     /\ UNCHANGED <<allocatedPorts, nodeNameToPort>>
  \/ /\ nodeNameToPort[n] = None
     /\ \E o \in FreeOffsets(n) :
          /\ \A x \in FreeOffsets(n) : o <= x
          /\ allocatedPorts' = [allocatedPorts EXCEPT ![Candidate(BasePort(n), o)] = n]
          /\ nodeNameToPort' = [nodeNameToPort EXCEPT ![n] = Candidate(BasePort(n), o)]

ReleaseProxierPort(n) ==
  IF nodeNameToPort[n] = None
  THEN UNCHANGED <<allocatedPorts, nodeNameToPort>>
  ELSE /\ allocatedPorts' = [allocatedPorts EXCEPT ![nodeNameToPort[n]] = None]
       /\ nodeNameToPort' = [nodeNameToPort EXCEPT ![n] = None]

----------------------------------------------------------------------------
(* Reconcile and processNode.                                              *)

\* The physical node and the binding are read.
Begin(n) ==
  /\ At(n, "idle") /\ n \in q
  /\ q' = q \ {n}
  /\ fl' = [fl EXCEPT ![n] = [pc |-> IF pcache[n].exists /\ lcache[n] THEN "check" ELSE "unlabel",
                              c |-> NoNode(0), pu |-> pcache[n].uid, pl |-> pcache[n].label]]
  /\ UNCHANGED <<world, caches, memory, bounds>>

\* Mutant: a virtual node with a deletion timestamp is processed like any other.
CheckVirtualNodeNoDeletion(n) ==
  /\ At(n, "check")
  /\ Goto(n, IF \/ vcache[n].exists /\ vcache[n].puid # fl[n].pu
                \/ ~lcache[n]
             THEN "unlabel" ELSE "write")
  /\ UNCHANGED <<world, caches, q, memory, bounds>>

\* A virtual node of another physical node, one being deleted, or no applicable
\* policy: the virtual node has to go.
CheckVirtualNode(n) ==
  /\ At(n, "check")
  /\ Goto(n, IF \/ vcache[n].exists /\ (vcache[n].puid # fl[n].pu \/ vcache[n].deleting)
                \/ ~lcache[n]
             THEN "unlabel" ELSE "write")
  /\ UNCHANGED <<world, caches, q, memory, bounds>>

\* createOrUpdateVirtualNode reads the virtual node again; without one it
\* allocates a port, and fails when there is none.
CreateOrUpdateVirtualNode(n) ==
  /\ At(n, "write")
  /\ \/ /\ vcache[n].exists
        /\ GotoWith(n, "status", vcache[n])
        /\ UNCHANGED <<q, memory>>
     \/ /\ ~vcache[n].exists
        /\ AllocateProxierPort(n)
        /\ Goto(n, "create")
        /\ UNCHANGED <<q, lease>>
     \/ /\ ~vcache[n].exists /\ nodeNameToPort[n] = None /\ FreeOffsets(n) = {}
        /\ Again(n)
        /\ UNCHANGED memory
  /\ UNCHANGED <<world, caches, bounds>>

Create(n) ==
  /\ At(n, "create")
  /\ IF vn[n].exists
     THEN Again(n) /\ UNCHANGED vn
     ELSE /\ vn' = [vn EXCEPT ![n] = NewNode(@.uid + 1, fl[n].pu, nodeNameToPort[n])]
          /\ Goto(n, "lease") /\ UNCHANGED q
  /\ UNCHANGED <<phys, lent, pod, caches, memory, bounds>>

\* Mutant: an update writes a port that is free instead of the one of the label.
UpdateStatusNewPort(n) ==
  /\ At(n, "status") /\ vn[n].exists
  /\ \E p \in Port : allocatedPorts[p] = None /\ vn' = [vn EXCEPT ![n].port = p]
  /\ Goto(n, "lease")
  /\ UNCHANGED <<phys, lent, pod, caches, q, memory, bounds>>

\* Status().Update, left out when nothing has changed.
UpdateStatus(n) ==
  /\ At(n, "status")
  /\ \/ Current(n, fl[n].c) /\ Goto(n, IF fl[n].c.taint THEN "patch" ELSE "lease") /\ UNCHANGED q
     \/ ~Current(n, fl[n].c) /\ Again(n)
     \/ ~fl[n].c.taint /\ Goto(n, "lease") /\ UNCHANGED q
  /\ UNCHANGED <<world, caches, memory, bounds>>

\* The patch of the taints is not tied to a version; it drops the deletion taint.
PatchTaints(n) ==
  /\ At(n, "patch")
  /\ IF vn[n].exists
     THEN vn' = [vn EXCEPT ![n].taint = FALSE] /\ Goto(n, "lease") /\ UNCHANGED q
     ELSE Again(n) /\ UNCHANGED vn
  /\ UNCHANGED <<phys, lent, pod, caches, memory, bounds>>

StartLeaseController(n) ==
  /\ At(n, "lease")
  /\ lease' = [lease EXCEPT ![n] = TRUE]
  /\ Goto(n, "label")
  /\ UNCHANGED <<world, caches, q, allocatedPorts, nodeNameToPort, bounds>>

\* The label is patched when the node, as read, lacks it or names another policy.
EnsurePolicyAppliedLabel(n) ==
  /\ At(n, "label")
  /\ \/ fl[n].pl /\ Goto(n, "window") /\ UNCHANGED <<phys, q>>
     \/ /\ phys[n].exists
        /\ phys' = [phys EXCEPT ![n].label = TRUE]
        /\ Goto(n, "window") /\ UNCHANGED q
     \/ ~phys[n].exists /\ Again(n) /\ UNCHANGED phys
  /\ UNCHANGED <<lent, vn, pod, caches, memory, bounds>>

\* forceEvictPodsOnVirtualNode deletes the active pods it sees.
ForceEvictPodsOnVirtualNode(n) ==
  pod' = [pod EXCEPT ![n] = IF podc[n] = "active" /\ @ = "active" THEN "deleting" ELSE @]

\* handleOutOfTimeWindows may evict; the node is looked at again after a while.
HandleOutOfTimeWindows(n) ==
  /\ At(n, "window")
  /\ UNCHANGED pod \/ ForceEvictPodsOnVirtualNode(n)
  /\ Again(n)
  /\ UNCHANGED <<phys, lent, vn, caches, memory, bounds>>

----------------------------------------------------------------------------
(* handleNodeDeletion, always with immediate eviction.                     *)

RemovePolicyAppliedLabel(n) ==
  /\ At(n, "unlabel")
  /\ IF pcache[n].exists /\ pcache[n].label
     THEN IF phys[n].exists
          THEN phys' = [phys EXCEPT ![n].label = FALSE] /\ Goto(n, "get") /\ UNCHANGED q
          ELSE Again(n) /\ UNCHANGED phys
     ELSE Goto(n, "get") /\ UNCHANGED <<phys, q>>
  /\ UNCHANGED <<lent, vn, pod, caches, memory, bounds>>

AfterTaint(c) == IF c.deleting THEN "evict" ELSE "delete"

GetVirtualNode(n) ==
  LET c == vcache[n] IN
  /\ At(n, "get")
  /\ IF c.exists
     THEN GotoWith(n, IF c.taint THEN AfterTaint(c) ELSE "taint", c) /\ UNCHANGED q
     ELSE Return(n)
  /\ UNCHANGED <<world, caches, memory, bounds>>

AddDeletionTaint(n) ==
  LET d == [fl[n].c EXCEPT !.taint = TRUE, !.unschedulable = TRUE] IN
  /\ At(n, "taint")
  /\ IF Current(n, fl[n].c)
     THEN vn' = [vn EXCEPT ![n] = d] /\ GotoWith(n, AfterTaint(d), d) /\ UNCHANGED q
     ELSE Again(n) /\ UNCHANGED vn
  /\ UNCHANGED <<phys, lent, pod, caches, memory, bounds>>

\* Delete with a UID precondition.  Nothing is queued: the watch of virtual nodes
\* brings the reconcile back.
DeleteVirtualNode(n) ==
  /\ At(n, "delete")
  /\ IF vn[n].exists
     THEN IF vn[n].uid = fl[n].c.uid
          THEN vn' = [vn EXCEPT ![n].deleting = TRUE] /\ Return(n)
          ELSE Again(n) /\ UNCHANGED vn
     ELSE Return(n) /\ UNCHANGED vn
  /\ UNCHANGED <<phys, lent, pod, caches, memory, bounds>>

Evict(n) ==
  /\ At(n, "evict")
  /\ ForceEvictPodsOnVirtualNode(n)
  /\ Goto(n, "drain")
  /\ UNCHANGED <<phys, lent, vn, caches, q, memory, bounds>>

CheckPodsOnVirtualNode(n) ==
  /\ At(n, "drain")
  /\ IF podc[n] \in {"active", "deleting"} THEN Again(n) ELSE Goto(n, "release") /\ UNCHANGED q
  /\ UNCHANGED <<world, caches, memory, bounds>>

\* Mutant: the lease loop is left running.
ReleaseKeepLease(n) ==
  /\ At(n, "release")
  /\ ReleaseProxierPort(n)
  /\ Goto(n, "finalize")
  /\ UNCHANGED <<world, caches, q, lease, bounds>>

\* stopLeaseController and releaseProxierPort, before the finalizer goes.
Release(n) ==
  /\ At(n, "release")
  /\ lease' = [lease EXCEPT ![n] = FALSE]
  /\ ReleaseProxierPort(n)
  /\ Goto(n, "finalize")
  /\ UNCHANGED <<world, caches, q, bounds>>

\* The Update that removes the finalizer.
RemoveFinalizer(n) ==
  /\ At(n, "finalize")
  /\ IF vn[n].exists /\ ~Current(n, fl[n].c)
     THEN Again(n) /\ UNCHANGED vn
     ELSE vn' = [vn EXCEPT ![n] = NoNode(@.uid)] /\ Return(n)
  /\ UNCHANGED <<phys, lent, pod, caches, memory, bounds>>

\* Any call of an API server fails.
Fail(n) ==
  /\ errors < MaxError /\ errors' = errors + 1
  /\ fl[n].pc \notin {"idle", "lease", "release"}
  /\ Again(n)
  /\ UNCHANGED <<world, caches, memory, changes, userDeletes, restarts>>

Reconcile(n) ==
  \/ Begin(n) \/ CheckVirtualNode(n) \/ CreateOrUpdateVirtualNode(n) \/ Create(n)
  \/ UpdateStatus(n) \/ PatchTaints(n) \/ StartLeaseController(n)
  \/ EnsurePolicyAppliedLabel(n) \/ HandleOutOfTimeWindows(n)
  \/ RemovePolicyAppliedLabel(n) \/ GetVirtualNode(n) \/ AddDeletionTaint(n)
  \/ DeleteVirtualNode(n) \/ Evict(n) \/ CheckPodsOnVirtualNode(n) \/ Release(n)
  \/ RemoveFinalizer(n)

----------------------------------------------------------------------------
(* Watches and the restart of the syncer.                                  *)

DeliverPhysicalNode(n) ==
  /\ pcache[n] # phys[n]
  /\ pcache' = [pcache EXCEPT ![n] = phys[n]]
  /\ q' = q \union {n}
  /\ UNCHANGED <<world, lcache, vcache, podc, fl, memory, bounds>>

\* RequeueNodes, called by the controllers of policies and of the binding.
DeliverLent(n) ==
  /\ lcache[n] # lent[n]
  /\ lcache' = [lcache EXCEPT ![n] = lent[n]]
  /\ q' = q \union {n}
  /\ UNCHANGED <<world, pcache, vcache, podc, fl, memory, bounds>>

\* handleVirtualNodeEvent is called for a new node, for one whose deletion starts
\* and for one that is gone.
Triggers(old, new) == \/ old.exists # new.exists
                      \/ old.exists /\ new.exists /\ ~old.deleting /\ new.deleting

DeliverVirtualNode(n) ==
  /\ vcache[n] # vn[n]
  /\ vcache' = [vcache EXCEPT ![n] = vn[n]]
  /\ q' = IF Triggers(vcache[n], vn[n]) THEN q \union {n} ELSE q
  /\ UNCHANGED <<world, pcache, lcache, podc, fl, memory, bounds>>

DeliverPod(n) ==
  /\ podc[n] # pod[n]
  /\ podc' = [podc EXCEPT ![n] = pod[n]]
  /\ UNCHANGED <<world, pcache, lcache, vcache, q, fl, memory, bounds>>

Deliver(n) == \/ DeliverPhysicalNode(n) \/ DeliverLent(n) \/ DeliverVirtualNode(n)
              \/ DeliverPod(n)

\* InitAllocatedPortsCache takes the ports from the labels; of two nodes with one
\* port the later in the list owns it.
InitAllocatedPortsCache ==
  /\ nodeNameToPort' = [n \in Node |-> vn[n].port]
  /\ allocatedPorts' \in {a \in [Port -> Node \union {None}] :
       \A p \in Port : LET has == {n \in Node : vn[n].port = p} IN
                       IF has = {} THEN a[p] = None ELSE a[p] \in has}

\* The syncer starts again: fresh caches, an event for every object.
Restart ==
  /\ restarts < MaxRestart /\ restarts' = restarts + 1
  /\ InitAllocatedPortsCache
  /\ lease' = [n \in Node |-> FALSE]
  /\ fl' = [n \in Node |-> Idle]
  /\ q' = {n \in Node : phys[n].exists \/ vn[n].exists}
  /\ pcache' = phys /\ lcache' = lent /\ vcache' = vn /\ podc' = pod
  /\ UNCHANGED <<world, changes, userDeletes, errors>>

----------------------------------------------------------------------------
(* The environment.                                                        *)

PhysicalNodeAdded(n) ==
  /\ ~phys[n].exists /\ phys[n].uid < MaxUid
  /\ phys' = [phys EXCEPT ![n] = [uid |-> @.uid + 1, exists |-> TRUE, label |-> FALSE]]
  /\ UNCHANGED <<lent, vn, pod, caches, q, fl, memory, bounds>>

PhysicalNodeRemoved(n) ==
  /\ phys[n].exists /\ changes < MaxChange /\ changes' = changes + 1
  /\ phys' = [phys EXCEPT ![n] = [uid |-> @.uid, exists |-> FALSE, label |-> FALSE]]
  /\ UNCHANGED <<lent, vn, pod, caches, q, fl, memory, userDeletes, restarts, errors>>

\* Policies or the binding's selector change, or the binding is deleted.
ChangeLent(n) ==
  /\ changes < MaxChange /\ changes' = changes + 1
  /\ lent' = [lent EXCEPT ![n] = ~@]
  /\ UNCHANGED <<phys, vn, pod, caches, q, fl, memory, userDeletes, restarts, errors>>

UserDeleteVirtualNode(n) ==
  /\ vn[n].exists /\ ~vn[n].deleting
  /\ userDeletes < MaxUserDelete /\ userDeletes' = userDeletes + 1
  /\ vn' = [vn EXCEPT ![n].deleting = TRUE]
  /\ UNCHANGED <<phys, lent, pod, caches, q, fl, memory, changes, restarts, errors>>

VirtualSchedulerBind(n) ==
  /\ vn[n].exists /\ ~vn[n].taint /\ ~vn[n].unschedulable
  /\ pod[n] = "unborn"
  /\ pod' = [pod EXCEPT ![n] = "active"]
  /\ UNCHANGED <<phys, lent, vn, caches, q, fl, memory, bounds>>

PodGone(n) ==
  /\ pod[n] = "deleting"
  /\ pod' = [pod EXCEPT ![n] = "gone"]
  /\ UNCHANGED <<phys, lent, vn, caches, q, fl, memory, bounds>>

Environment(n) == \/ PhysicalNodeAdded(n) \/ PhysicalNodeRemoved(n) \/ ChangeLent(n)
                  \/ UserDeleteVirtualNode(n) \/ VirtualSchedulerBind(n) \/ PodGone(n)

----------------------------------------------------------------------------
NoPhys == [uid |-> 0, exists |-> FALSE, label |-> FALSE]

Init ==
  /\ phys = [n \in Node |-> NoPhys] /\ pcache = phys
  /\ lent = [n \in Node |-> TRUE] /\ lcache = lent
  /\ vn = [n \in Node |-> NoNode(0)] /\ vcache = vn
  /\ pod = [n \in Node |-> "unborn"] /\ podc = pod
  /\ q = {} /\ fl = [n \in Node |-> Idle]
  /\ allocatedPorts = [p \in Port |-> None]
  /\ nodeNameToPort = [n \in Node |-> None]
  /\ lease = [n \in Node |-> FALSE]
  /\ changes = 0 /\ userDeletes = 0 /\ restarts = 0 /\ errors = 0

Next == \/ \E n \in Node : Reconcile(n) \/ Fail(n) \/ Deliver(n) \/ Environment(n)
        \/ Restart

Spec == Init /\ [][Next]_vars

\* Watches deliver, what is queued is reconciled (calls fail only MaxError times, so
\* a retry succeeds in the end), a pod that is deleted terminates.
Fairness ==
  \A n \in Node : /\ WF_vars(Reconcile(n)) /\ WF_vars(PodGone(n))
                  /\ WF_vars(DeliverPhysicalNode(n)) /\ WF_vars(DeliverLent(n))
                  /\ WF_vars(DeliverVirtualNode(n)) /\ WF_vars(DeliverPod(n))

FairSpec == Spec /\ Fairness

----------------------------------------------------------------------------
(* Correctness.                                                            *)

\* The types of objects, caches and reconciles; a virtual node has a port.
TypeOK ==
  /\ phys \in [Node -> PNode] /\ pcache \in [Node -> PNode]
  /\ lent \in [Node -> BOOLEAN] /\ lcache \in [Node -> BOOLEAN]
  /\ vn \in [Node -> VNode] /\ vcache \in [Node -> VNode]
  /\ \A n \in Node : vn[n].exists => vn[n].port \in Port
  /\ pod \in [Node -> Pod] /\ podc \in [Node -> Pod]
  /\ q \in SUBSET Node /\ fl \in [Node -> Flight]
  /\ allocatedPorts \in [Port -> Node \union {None}]
  /\ nodeNameToPort \in [Node -> Port \union {None}]
  /\ lease \in [Node -> BOOLEAN]
  /\ changes \in Nat /\ userDeletes \in Nat /\ restarts \in Nat /\ errors \in Nat

InUse(n) == vn[n].exists /\ ~vn[n].deleting

\* allocateProxierPort, releaseProxierPort: two virtual nodes in use never have one
\* port, although ports are released before the finalizer is removed and virtual
\* nodes are looked up in a cache.
PortsUnique == \A m, n \in Node : InUse(m) /\ InUse(n) /\ vn[m].port = vn[n].port => m = n

\* The reconciler's two tables, caches and retries implement the allocation of
\* ports that the proxier relies on: the port of a virtual node in use never
\* changes and is nobody else's.  (allocateProxierPort, releaseProxierPort and
\* the label that createOrUpdateVirtualNode keeps; no restart.)
PortsInUse == [n \in Node |-> IF InUse(n) THEN vn[n].port ELSE None]
Allocation == INSTANCE PortAllocation WITH Client <- Node, owns <- PortsInUse
ImplementsAllocation == Allocation!Spec

\* A lease loop runs only for a virtual node that exists, although it is started on
\* the strength of a cached copy: nothing keeps a node alive that is gone.
LeaseOnlyForNode == \A n \in Node : lease[n] => vn[n].exists

Wanted(n) == phys[n].exists /\ lent[n]
Serving(n) == /\ InUse(n) /\ vn[n].puid = phys[n].uid /\ ~vn[n].taint
              /\ lease[n] /\ phys[n].label

\* A physical node that is lent gets its virtual node, with its own UID and a lease
\* loop, whatever stood under the name before.
WantedServed == \A n \in Node : Wanted(n) ~> (Serving(n) \/ ~Wanted(n))

\* A virtual node whose physical node is gone or no longer lent goes, and so does
\* the policy-applied label.
UnwantedGoes == \A n \in Node : ~Wanted(n) ~> (Wanted(n) \/ (~vn[n].exists /\ ~phys[n].label))

\* The virtual nodes come to be what the physical nodes and the policies ask for,
\* across a restart, failing calls and the waits that only an event ends.
Converges == WantedServed /\ UnwantedGoes
==============================================================================
