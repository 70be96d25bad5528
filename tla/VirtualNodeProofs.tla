-------------------------- MODULE VirtualNodeProofs --------------------------
(***************************************************************************)
(* Proofs about VirtualNode: types, lease loops, ports.                    *)
(***************************************************************************)
EXTENDS VirtualNode, TLAPS

Leaving == {"evict", "drain", "release", "finalize"}
Removing == {"taint", "delete"} \union Leaving

\* What the cache shows of node n: only a node that was being deleted may be gone,
\* and a deletion is not taken back.
CacheOld(n) ==
  /\ vcache[n].exists /\ vcache[n].deleting => ~InUse(n)
  /\ vcache[n].exists /\ ~vcache[n].deleting => vn[n].exists

\* What the reconcile of n may rely on: only it creates and removes virtual node n.
FlightOld(n) ==
  /\ fl[n].pc \in {"write", "create"} /\ vcache[n].exists => vn[n].exists
  /\ fl[n].pc \in {"status", "patch", "lease"} => vn[n].exists
  /\ fl[n].pc \in Leaving => fl[n].c.deleting
  /\ fl[n].pc \in Removing /\ fl[n].c.deleting =>
       ~InUse(n) /\ (vcache[n].exists => vcache[n].deleting)

\* The lease loop of n runs for a node that exists, and is stopped before it goes.
LeaseOld(n) ==
  /\ fl[n].pc = "finalize" => ~lease[n]
  /\ lease[n] => vn[n].exists

Local(n) == CacheOld(n) /\ FlightOld(n) /\ LeaseOld(n)

\* A reconcile that is about to create a node holds a port for it.
Held(n) == fl[n].pc = "create" => nodeNameToPort[n] # None
PortHeld == \A n \in Node : Held(n)

\* Until the first restart the two tables agree, and a node in use has the port
\* under which the tables list it.
Listed(n) == nodeNameToPort[n] # None => allocatedPorts[nodeNameToPort[n]] = n
Labelled(n) == InUse(n) => vn[n].port = nodeNameToPort[n]
PortsAgree == restarts = 0 => \A n \in Node : Listed(n) /\ Labelled(n)

IInv == TypeOK /\ PortHeld /\ (\A n \in Node : Local(n)) /\ PortsAgree

\* A step for node n, by the reconciler, a watch or the environment.
Act(n) == Reconcile(n) \/ Fail(n) \/ Deliver(n) \/ Environment(n)

----------------------------------------------------------------------------
(* Ports.                                                                  *)

LEMMA BaseInRange == \A n \in Node : BasePort(n) \in Port
<1> SUFFICES ASSUME NEW n \in Node PROVE BasePort(n) \in Port
  OBVIOUS
<1> DEFINE k == PortMax - PortMin + 1
<1>1. k \in Nat /\ k > 0
  BY NodeAssumption
<1>2. Hash[n] \in Nat
  BY NodeAssumption
<1>3. Hash[n] % k \in 0..(k - 1)
  <2> HIDE DEF k
  <2> QED BY <1>1, <1>2
<1> QED BY <1>3, NodeAssumption DEF BasePort, Port

LEMMA CandidateInRange ==
  \A b \in Port, o \in 0..(PortMax - PortMin) : Candidate(b, o) \in Port
BY NodeAssumption DEF Candidate, Port

\* allocateProxierPort fails only when every port is taken: the probe, which wraps
\* around at the end of the range, visits each of them.
THEOREM ProbeComplete ==
  ASSUME NEW n \in Node, FreeOffsets(n) = {}
  PROVE  \A p \in Port : allocatedPorts[p] # None
<1> SUFFICES ASSUME NEW p \in Port PROVE allocatedPorts[p] # None
  OBVIOUS
<1> DEFINE b == BasePort(n)
           o == IF p >= b THEN p - b ELSE p - b + (PortMax - PortMin + 1)
<1>1. b \in Port
  BY BaseInRange
<1> HIDE DEF b
<1>2. o \in 0..(PortMax - PortMin) /\ Candidate(b, o) = p
  BY <1>1, NodeAssumption DEF Candidate, Port
<1>3. o \notin FreeOffsets(n)
  OBVIOUS
<1> HIDE DEF o
<1> QED BY <1>2, <1>3 DEF FreeOffsets, b

\* What an allocation and a release do to the tables.
LEMMA Allocated ==
  ASSUME TypeOK, NEW n \in Node, AllocateProxierPort(n)
  PROVE  /\ allocatedPorts' \in [Port -> Node \union {None}]
         /\ nodeNameToPort' \in [Node -> Port \union {None}]
         /\ nodeNameToPort'[n] # None
         /\ nodeNameToPort'[n] # nodeNameToPort[n] =>
              /\ nodeNameToPort[n] = None
              /\ allocatedPorts[nodeNameToPort'[n]] = None
              /\ allocatedPorts' = [allocatedPorts EXCEPT ![nodeNameToPort'[n]] = n]
         /\ nodeNameToPort'[n] = nodeNameToPort[n] => allocatedPorts' = allocatedPorts
         /\ \A m \in Node : m # n => nodeNameToPort'[m] = nodeNameToPort[m]
<1>1. CASE nodeNameToPort[n] # None
  BY <1>1 DEF AllocateProxierPort, TypeOK
<1>2. CASE nodeNameToPort[n] = None
  <2>1. PICK o \in FreeOffsets(n) :
          /\ allocatedPorts' = [allocatedPorts EXCEPT ![Candidate(BasePort(n), o)] = n]
          /\ nodeNameToPort' = [nodeNameToPort EXCEPT ![n] = Candidate(BasePort(n), o)]
    BY <1>2 DEF AllocateProxierPort
  <2> DEFINE p == Candidate(BasePort(n), o)
  <2>2. p \in Port /\ allocatedPorts[p] = None
    BY BaseInRange, CandidateInRange DEF FreeOffsets
  <2> HIDE DEF p
  <2>3. p # None
    BY <2>2, NodeAssumption
  <2>4. allocatedPorts' = [allocatedPorts EXCEPT ![p] = n] /\ nodeNameToPort' = [nodeNameToPort EXCEPT ![n] = p]
    BY <2>1 DEF p
  <2>5. nodeNameToPort'[n] = p
    BY <2>4 DEF TypeOK
  <2> QED BY <1>2, <2>2, <2>3, <2>4, <2>5 DEF TypeOK
<1> QED BY <1>1, <1>2

LEMMA Released ==
  ASSUME TypeOK, NEW n \in Node, ReleaseProxierPort(n)
  PROVE  /\ allocatedPorts' \in [Port -> Node \union {None}]
         /\ nodeNameToPort' \in [Node -> Port \union {None}]
         /\ nodeNameToPort'[n] = None
         /\ nodeNameToPort[n] # None => allocatedPorts' = [allocatedPorts EXCEPT ![nodeNameToPort[n]] = None]
         /\ nodeNameToPort[n] = None => allocatedPorts' = allocatedPorts
         /\ \A m \in Node : m # n => nodeNameToPort'[m] = nodeNameToPort[m]
<1>1. CASE nodeNameToPort[n] = None
  BY <1>1 DEF ReleaseProxierPort, TypeOK
<1>2. CASE nodeNameToPort[n] # None
  BY <1>2 DEF ReleaseProxierPort, TypeOK
<1> QED BY <1>1, <1>2

----------------------------------------------------------------------------
(* Types.                                                                  *)

LEMMA NodeTypes ==
  /\ \A u \in Nat : NoNode(u) \in VNode
  /\ \A u, pu \in Nat, p \in Port : NewNode(u, pu, p) \in VNode
  /\ \A u, pu \in Nat, p \in Port : NewNode(u, pu, p).port = p
  /\ \A u \in Nat : ~NoNode(u).exists
  /\ \A c \in VNode : [c EXCEPT !.taint = TRUE, !.unschedulable = TRUE] \in VNode
  /\ \A c \in VNode : [c EXCEPT !.taint = FALSE] \in VNode
  /\ \A c \in VNode : [c EXCEPT !.deleting = TRUE] \in VNode
  /\ Idle \in Flight
BY DEF NoNode, NewNode, VNode, Idle, Flight, PC

\* How the places of a reconcile change.
LEMMA FlightTypes ==
  ASSUME TypeOK, NEW n \in Node
  PROVE  /\ \A pc \in PC : Goto(n, pc) => fl' \in [Node -> Flight]
         /\ \A pc \in PC, c \in VNode : GotoWith(n, pc, c) => fl' \in [Node -> Flight]
         /\ Return(n) => fl' \in [Node -> Flight] /\ q' \in SUBSET Node
         /\ Again(n) => fl' \in [Node -> Flight] /\ q' \in SUBSET Node
<1>1. fl \in [Node -> Flight] /\ q \in SUBSET Node
  BY DEF TypeOK
<1>2. \A pc \in PC : Goto(n, pc) => fl' \in [Node -> Flight]
  BY <1>1 DEF Goto, Flight
<1>3. \A pc \in PC, c \in VNode : GotoWith(n, pc, c) => fl' \in [Node -> Flight]
  BY <1>1 DEF GotoWith, Flight
<1>4. Return(n) => fl' \in [Node -> Flight] /\ q' \in SUBSET Node
  BY <1>1, NodeTypes DEF Return
<1>5. Again(n) => fl' \in [Node -> Flight] /\ q' \in SUBSET Node
  BY <1>1, NodeTypes DEF Again
<1> QED BY <1>2, <1>3, <1>4, <1>5

\* The conjuncts of the type invariant, for steps that leave the others alone.
WorldType == /\ phys \in [Node -> PNode] /\ lent \in [Node -> BOOLEAN]
             /\ vn \in [Node -> VNode] /\ (\A n \in Node : vn[n].exists => vn[n].port \in Port)
             /\ pod \in [Node -> Pod]
CacheType == /\ pcache \in [Node -> PNode] /\ lcache \in [Node -> BOOLEAN]
             /\ vcache \in [Node -> VNode] /\ podc \in [Node -> Pod]
FlightType == q \in SUBSET Node /\ fl \in [Node -> Flight]
MemoryType == /\ allocatedPorts \in [Port -> Node \union {None}]
              /\ nodeNameToPort \in [Node -> Port \union {None}]
              /\ lease \in [Node -> BOOLEAN]
BoundType == changes \in Nat /\ userDeletes \in Nat /\ restarts \in Nat /\ errors \in Nat

LEMMA TypeParts == TypeOK <=> WorldType /\ CacheType /\ FlightType /\ MemoryType /\ BoundType
BY DEF TypeOK, WorldType, CacheType, FlightType, MemoryType, BoundType

LEMMA TypePartsNext ==
  (WorldType /\ CacheType /\ FlightType /\ MemoryType /\ BoundType)' => TypeOK'
BY DEF TypeOK, WorldType, CacheType, FlightType, MemoryType, BoundType

LEMMA Unchanged ==
  /\ UNCHANGED world /\ WorldType => WorldType'
  /\ UNCHANGED caches /\ CacheType => CacheType'
  /\ UNCHANGED <<q, fl>> /\ FlightType => FlightType'
  /\ UNCHANGED memory /\ MemoryType => MemoryType'
  /\ UNCHANGED bounds /\ BoundType => BoundType'
BY DEF world, caches, memory, bounds, WorldType, CacheType, FlightType, MemoryType, BoundType

\* A step leaves the virtual node alone, or writes a well-typed one.
LEMMA WorldStep ==
  ASSUME WorldType, NEW n \in Node, NEW d \in VNode, d.exists => d.port \in Port,
         vn' = [vn EXCEPT ![n] = d], UNCHANGED <<phys, lent, pod>>
  PROVE  WorldType'
BY DEF WorldType

LEMMA ReconcileType ==
  ASSUME TypeOK, PortHeld, NEW n \in Node, Reconcile(n)
  PROVE  TypeOK'
<1> SUFFICES (WorldType /\ CacheType /\ FlightType /\ MemoryType /\ BoundType)'
  BY TypePartsNext
<1>t. WorldType /\ CacheType /\ FlightType /\ MemoryType /\ BoundType
  BY TypeParts
<1>f. fl[n] \in Flight /\ fl[n].c \in VNode /\ fl[n].pu \in Nat
  BY <1>t DEF FlightType, Flight
<1>v. vn[n] \in VNode /\ vcache[n] \in VNode /\ vn[n].uid \in Nat
  BY <1>t DEF WorldType, CacheType, VNode
<1>1. CASE Begin(n)
  <2>1. pcache[n].uid \in Nat /\ pcache[n].label \in BOOLEAN
    BY <1>t DEF CacheType, PNode
  <2>2. [pc |-> IF pcache[n].exists /\ lcache[n] THEN "check" ELSE "unlabel",
         c |-> NoNode(0), pu |-> pcache[n].uid, pl |-> pcache[n].label] \in Flight
    BY <2>1, NodeTypes DEF Flight, PC
  <2>3. FlightType'
    BY <1>1, <1>t, <2>2 DEF Begin, FlightType
  <2> QED BY <1>1, <1>t, <2>3, Unchanged DEF Begin
<1>2. CASE CheckVirtualNode(n)
  <2>1. FlightType'
    BY <1>2, <1>t, FlightTypes DEF CheckVirtualNode, FlightType, PC
  <2> QED BY <1>2, <1>t, <2>1, Unchanged DEF CheckVirtualNode
<1>3. CASE CreateOrUpdateVirtualNode(n)
  <2>1. FlightType'
    <3>1. CASE GotoWith(n, "status", vcache[n]) /\ UNCHANGED q
      BY <3>1, <1>t, <1>v, FlightTypes DEF FlightType, PC
    <3>2. CASE Goto(n, "create") /\ UNCHANGED q
      BY <3>2, <1>t, FlightTypes DEF FlightType, PC
    <3>3. CASE Again(n)
      BY <3>3, FlightTypes DEF FlightType
    <3> QED BY <1>3, <3>1, <3>2, <3>3 DEF CreateOrUpdateVirtualNode
  <2>2. MemoryType'
    <3>1. CASE UNCHANGED memory
      BY <3>1, <1>t, Unchanged
    <3>2. CASE AllocateProxierPort(n) /\ UNCHANGED lease
      BY <3>2, <1>t, Allocated DEF MemoryType
    <3> QED BY <1>3, <3>1, <3>2 DEF CreateOrUpdateVirtualNode
  <2> QED BY <1>3, <1>t, <2>1, <2>2, Unchanged DEF CreateOrUpdateVirtualNode
<1>4. CASE Create(n)
  <2>1. FlightType'
    BY <1>4, <1>t, FlightTypes DEF Create, FlightType, PC
  <2>2. WorldType'
    <3>1. CASE vn[n].exists
      BY <1>4, <3>1, <1>t, Unchanged DEF Create, world
    <3>2. CASE ~vn[n].exists
      <4> DEFINE d == NewNode(vn[n].uid + 1, fl[n].pu, nodeNameToPort[n])
      <4>1. nodeNameToPort[n] \in Port
        BY <1>4, <1>t DEF Create, At, PortHeld, Held, MemoryType
      <4>2. d \in VNode /\ d.port \in Port
        <5>1. vn[n].uid + 1 \in Nat
          BY <1>v
        <5> QED BY <4>1, <1>f, <5>1, NodeTypes
      <4>3. vn' = [vn EXCEPT ![n] = d] /\ UNCHANGED <<phys, lent, pod>>
        BY <1>4, <3>2 DEF Create
      <4> HIDE DEF d
      <4> QED BY <4>2, <4>3, <1>t, WorldStep
    <3> QED BY <3>1, <3>2
  <2> QED BY <1>4, <1>t, <2>1, <2>2, Unchanged DEF Create
<1>5. CASE UpdateStatus(n)
  <2>1. FlightType'
    BY <1>5, <1>t, FlightTypes DEF UpdateStatus, FlightType, PC
  <2> QED BY <1>5, <1>t, <2>1, Unchanged DEF UpdateStatus
<1>6. CASE PatchTaints(n)
  <2>1. FlightType'
    BY <1>6, <1>t, FlightTypes DEF PatchTaints, FlightType, PC
  <2>2. WorldType'
    <3>1. CASE ~vn[n].exists
      BY <1>6, <3>1, <1>t, Unchanged DEF PatchTaints, world
    <3>2. CASE vn[n].exists
      <4> DEFINE d == [vn[n] EXCEPT !.taint = FALSE]
      <4>1. d \in VNode /\ d.port = vn[n].port /\ vn[n].port \in Port
        BY <1>v, <3>2, <1>t, NodeTypes DEF WorldType, VNode
      <4>2. vn' = [vn EXCEPT ![n] = d] /\ UNCHANGED <<phys, lent, pod>>
        BY <1>6, <3>2 DEF PatchTaints
      <4> HIDE DEF d
      <4> QED BY <4>1, <4>2, <1>t, WorldStep
    <3> QED BY <3>1, <3>2
  <2> QED BY <1>6, <1>t, <2>1, <2>2, Unchanged DEF PatchTaints
<1>7. CASE StartLeaseController(n)
  <2>1. FlightType'
    BY <1>7, <1>t, FlightTypes DEF StartLeaseController, FlightType, PC
  <2>2. MemoryType'
    BY <1>7, <1>t DEF StartLeaseController, MemoryType
  <2> QED BY <1>7, <1>t, <2>1, <2>2, Unchanged DEF StartLeaseController
<1>8. CASE EnsurePolicyAppliedLabel(n)
  <2>1. FlightType'
    BY <1>8, <1>t, FlightTypes DEF EnsurePolicyAppliedLabel, FlightType, PC
  <2>2. WorldType'
    BY <1>8, <1>t DEF EnsurePolicyAppliedLabel, WorldType, PNode
  <2> QED BY <1>8, <1>t, <2>1, <2>2, Unchanged DEF EnsurePolicyAppliedLabel
<1>9. CASE HandleOutOfTimeWindows(n)
  <2>1. FlightType'
    BY <1>9, <1>t, FlightTypes DEF HandleOutOfTimeWindows, FlightType
  <2>2. WorldType'
    BY <1>9, <1>t DEF HandleOutOfTimeWindows, ForceEvictPodsOnVirtualNode, WorldType, Pod
  <2> QED BY <1>9, <1>t, <2>1, <2>2, Unchanged DEF HandleOutOfTimeWindows
<1>10. CASE RemovePolicyAppliedLabel(n)
  <2>1. FlightType'
    BY <1>10, <1>t, FlightTypes DEF RemovePolicyAppliedLabel, FlightType, PC
  <2>2. WorldType'
    BY <1>10, <1>t DEF RemovePolicyAppliedLabel, WorldType, PNode
  <2> QED BY <1>10, <1>t, <2>1, <2>2, Unchanged DEF RemovePolicyAppliedLabel
<1>11. CASE GetVirtualNode(n)
  <2>1. FlightType'
    BY <1>11, <1>t, <1>v, FlightTypes DEF GetVirtualNode, AfterTaint, FlightType, PC
  <2> QED BY <1>11, <1>t, <2>1, Unchanged DEF GetVirtualNode
<1>12. CASE AddDeletionTaint(n)
  <2> DEFINE d == [fl[n].c EXCEPT !.taint = TRUE, !.unschedulable = TRUE]
  <2>1. d \in VNode /\ d.port = fl[n].c.port /\ d.exists = fl[n].c.exists
    BY <1>f, NodeTypes DEF VNode
  <2>2. \/ vn[n] = fl[n].c /\ vn' = [vn EXCEPT ![n] = d] /\ GotoWith(n, AfterTaint(d), d) /\ UNCHANGED q
        \/ Again(n) /\ UNCHANGED vn
    BY <1>12 DEF AddDeletionTaint, Current
  <2> HIDE DEF d
  <2>3. FlightType'
    BY <2>1, <2>2, <1>t, FlightTypes DEF AfterTaint, FlightType, PC
  <2>4. WorldType'
    <3>1. CASE UNCHANGED vn
      BY <1>12, <3>1, <1>t, Unchanged DEF AddDeletionTaint, world
    <3>2. CASE vn[n] = fl[n].c /\ vn' = [vn EXCEPT ![n] = d]
      <4>1. d.exists => d.port \in Port
        BY <3>2, <2>1, <1>t DEF WorldType
      <4>2. UNCHANGED <<phys, lent, pod>>
        BY <1>12 DEF AddDeletionTaint
      <4> QED BY <4>1, <4>2, <3>2, <2>1, <1>t, WorldStep
    <3> QED BY <2>2, <3>1, <3>2
  <2> QED BY <1>12, <1>t, <2>3, <2>4, Unchanged DEF AddDeletionTaint
<1>13. CASE DeleteVirtualNode(n)
  <2>1. FlightType'
    BY <1>13, <1>t, FlightTypes DEF DeleteVirtualNode, FlightType
  <2>2. WorldType'
    <3>1. CASE UNCHANGED vn
      BY <1>13, <3>1, <1>t, Unchanged DEF DeleteVirtualNode, world
    <3>2. CASE vn[n].exists /\ vn' = [vn EXCEPT ![n].deleting = TRUE]
      <4> DEFINE d == [vn[n] EXCEPT !.deleting = TRUE]
      <4>1. d \in VNode /\ d.port = vn[n].port /\ vn[n].port \in Port
        BY <1>v, <3>2, <1>t, NodeTypes DEF WorldType, VNode
      <4>2. vn' = [vn EXCEPT ![n] = d] /\ UNCHANGED <<phys, lent, pod>>
        BY <1>13, <3>2 DEF DeleteVirtualNode
      <4> HIDE DEF d
      <4> QED BY <4>1, <4>2, <1>t, WorldStep
    <3> QED BY <1>13, <3>1, <3>2 DEF DeleteVirtualNode
  <2> QED BY <1>13, <1>t, <2>1, <2>2, Unchanged DEF DeleteVirtualNode
<1>14. CASE Evict(n)
  <2>1. FlightType'
    BY <1>14, <1>t, FlightTypes DEF Evict, FlightType, PC
  <2>2. WorldType'
    BY <1>14, <1>t DEF Evict, ForceEvictPodsOnVirtualNode, WorldType, Pod
  <2> QED BY <1>14, <1>t, <2>1, <2>2, Unchanged DEF Evict
<1>15. CASE CheckPodsOnVirtualNode(n)
  <2>1. FlightType'
    BY <1>15, <1>t, FlightTypes DEF CheckPodsOnVirtualNode, FlightType, PC
  <2> QED BY <1>15, <1>t, <2>1, Unchanged DEF CheckPodsOnVirtualNode
<1>16. CASE Release(n)
  <2>1. FlightType'
    BY <1>16, <1>t, FlightTypes DEF Release, FlightType, PC
  <2>2. MemoryType'
    BY <1>16, <1>t, Released DEF Release, MemoryType
  <2> QED BY <1>16, <1>t, <2>1, <2>2, Unchanged DEF Release
<1>17. CASE RemoveFinalizer(n)
  <2>1. FlightType'
    BY <1>17, <1>t, FlightTypes DEF RemoveFinalizer, FlightType
  <2>2. WorldType'
    <3>1. CASE UNCHANGED vn
      BY <1>17, <3>1, <1>t, Unchanged DEF RemoveFinalizer, world
    <3>2. CASE vn' = [vn EXCEPT ![n] = NoNode(vn[n].uid)]
      <4>1. NoNode(vn[n].uid) \in VNode /\ ~NoNode(vn[n].uid).exists
        BY <1>v, NodeTypes
      <4>2. UNCHANGED <<phys, lent, pod>>
        BY <1>17 DEF RemoveFinalizer
      <4> QED BY <4>1, <4>2, <3>2, <1>t, WorldStep
    <3> QED BY <1>17, <3>1, <3>2 DEF RemoveFinalizer
  <2> QED BY <1>17, <1>t, <2>1, <2>2, Unchanged DEF RemoveFinalizer
<1> QED
  BY <1>1, <1>2, <1>3, <1>4, <1>5, <1>6, <1>7, <1>8, <1>9, <1>10, <1>11, <1>12, <1>13,
     <1>14, <1>15, <1>16, <1>17 DEF Reconcile

LEMMA TypeStep ==
  ASSUME TypeOK, PortHeld, [Next]_vars
  PROVE  TypeOK'
<1> SUFFICES (WorldType /\ CacheType /\ FlightType /\ MemoryType /\ BoundType)'
  BY TypePartsNext
<1>t. WorldType /\ CacheType /\ FlightType /\ MemoryType /\ BoundType
  BY TypeParts
<1>1. ASSUME NEW n \in Node, Reconcile(n) PROVE TypeOK'
  BY <1>1, ReconcileType
<1>2. ASSUME NEW n \in Node, Fail(n)
      PROVE  (WorldType /\ CacheType /\ FlightType /\ MemoryType /\ BoundType)'
  <2>1. FlightType' /\ BoundType'
    BY <1>2, <1>t, FlightTypes DEF Fail, FlightType, BoundType
  <2> QED BY <1>2, <1>t, <2>1, Unchanged DEF Fail
<1>3. ASSUME NEW n \in Node, Deliver(n)
      PROVE  (WorldType /\ CacheType /\ FlightType /\ MemoryType /\ BoundType)'
  <2>1. CacheType' /\ FlightType' /\ UNCHANGED <<world, memory, bounds>>
    <3>1. CASE DeliverPhysicalNode(n)
      BY <3>1, <1>t DEF DeliverPhysicalNode, CacheType, FlightType, WorldType
    <3>2. CASE DeliverLent(n)
      BY <3>2, <1>t DEF DeliverLent, CacheType, FlightType, WorldType
    <3>3. CASE DeliverVirtualNode(n)
      BY <3>3, <1>t DEF DeliverVirtualNode, CacheType, FlightType, WorldType
    <3>4. CASE DeliverPod(n)
      BY <3>4, <1>t DEF DeliverPod, CacheType, FlightType, WorldType
    <3> QED BY <1>3, <3>1, <3>2, <3>3, <3>4 DEF Deliver
  <2> QED BY <2>1, <1>t, Unchanged
<1>4. ASSUME NEW n \in Node, Environment(n)
      PROVE  (WorldType /\ CacheType /\ FlightType /\ MemoryType /\ BoundType)'
  <2>1. UNCHANGED <<caches, q, fl, memory>>
    BY <1>4 DEF Environment, PhysicalNodeAdded, PhysicalNodeRemoved, ChangeLent,
                UserDeleteVirtualNode, VirtualSchedulerBind, PodGone
  <2>2. BoundType'
    BY <1>4, <1>t DEF Environment, PhysicalNodeAdded, PhysicalNodeRemoved, ChangeLent,
                UserDeleteVirtualNode, VirtualSchedulerBind, PodGone, BoundType, bounds
  <2>3. WorldType'
    <3>1. CASE PhysicalNodeAdded(n)
      BY <3>1, <1>t DEF PhysicalNodeAdded, WorldType, PNode
    <3>2. CASE PhysicalNodeRemoved(n)
      BY <3>2, <1>t DEF PhysicalNodeRemoved, WorldType, PNode
    <3>3. CASE ChangeLent(n)
      BY <3>3, <1>t DEF ChangeLent, WorldType
    <3>4. CASE UserDeleteVirtualNode(n)
      <4> DEFINE d == [vn[n] EXCEPT !.deleting = TRUE]
      <4>1. vn[n] \in VNode /\ vn[n].exists /\ vn[n].port \in Port
        BY <3>4, <1>t DEF UserDeleteVirtualNode, WorldType
      <4>2. d \in VNode /\ d.port = vn[n].port
        BY <4>1, NodeTypes DEF VNode
      <4>3. vn' = [vn EXCEPT ![n] = d] /\ UNCHANGED <<phys, lent, pod>>
        BY <3>4 DEF UserDeleteVirtualNode
      <4> HIDE DEF d
      <4> QED BY <4>1, <4>2, <4>3, <1>t, WorldStep
    <3>5. CASE VirtualSchedulerBind(n)
      BY <3>5, <1>t DEF VirtualSchedulerBind, WorldType, Pod
    <3>6. CASE PodGone(n)
      BY <3>6, <1>t DEF PodGone, WorldType, Pod
    <3> QED BY <1>4, <3>1, <3>2, <3>3, <3>4, <3>5, <3>6 DEF Environment
  <2> QED BY <2>1, <2>2, <2>3, <1>t, Unchanged
<1>5. CASE Restart
  <2>1. WorldType'
    BY <1>5, <1>t, Unchanged DEF Restart
  <2>2. CacheType'
    BY <1>5, <1>t DEF Restart, CacheType, WorldType
  <2>3. FlightType'
    BY <1>5, <1>t, NodeTypes DEF Restart, FlightType
  <2>4. MemoryType'
    BY <1>5, <1>t DEF Restart, InitAllocatedPortsCache, MemoryType, WorldType, VNode
  <2>5. BoundType'
    BY <1>5, <1>t DEF Restart, BoundType
  <2> QED BY <2>1, <2>2, <2>3, <2>4, <2>5
<1>6. CASE UNCHANGED vars
  BY <1>6, <1>t, Unchanged DEF vars
<1>7. TypeOK' => (WorldType /\ CacheType /\ FlightType /\ MemoryType /\ BoundType)'
  BY DEF TypeOK, WorldType, CacheType, FlightType, MemoryType, BoundType
<1> QED BY <1>1, <1>2, <1>3, <1>4, <1>5, <1>6, <1>7 DEF Next

----------------------------------------------------------------------------
(* What a step of one node leaves alone.                                   *)

\* Where a reconcile stands after its step, and that others stand where they were.
LEMMA FlightValues ==
  ASSUME TypeOK, NEW n \in Node
  PROVE  /\ \A pc : Goto(n, pc) => fl'[n].pc = pc /\ fl'[n].c = fl[n].c
         /\ \A pc, c : GotoWith(n, pc, c) => fl'[n].pc = pc /\ fl'[n].c = c
         /\ Return(n) \/ Again(n) => fl'[n].pc = "idle"
         /\ \A m \in Node : \A pc : m # n /\ Goto(n, pc) => fl'[m] = fl[m]
         /\ \A m \in Node : \A pc, c : m # n /\ GotoWith(n, pc, c) => fl'[m] = fl[m]
         /\ \A m \in Node : m # n /\ (Return(n) \/ Again(n)) => fl'[m] = fl[m]
<1>1. fl \in [Node -> Flight]
  BY DEF TypeOK
<1>2. \A pc : Goto(n, pc) => fl'[n].pc = pc /\ fl'[n].c = fl[n].c
  BY <1>1 DEF Goto
<1>3. \A pc, c : GotoWith(n, pc, c) => fl'[n].pc = pc /\ fl'[n].c = c
  BY <1>1 DEF GotoWith
<1>4. Return(n) \/ Again(n) => fl'[n].pc = "idle"
  BY <1>1 DEF Return, Again, Idle
<1>5. \A m \in Node : \A pc : m # n /\ Goto(n, pc) => fl'[m] = fl[m]
  BY <1>1 DEF Goto
<1>6. \A m \in Node : \A pc, c : m # n /\ GotoWith(n, pc, c) => fl'[m] = fl[m]
  BY <1>1 DEF GotoWith
<1>7. \A m \in Node : m # n /\ (Return(n) \/ Again(n)) => fl'[m] = fl[m]
  BY <1>1 DEF Return, Again
<1> QED BY <1>2, <1>3, <1>4, <1>5, <1>6, <1>7

\* What the invariant says of node n depends on these.
Same(n) == /\ vn'[n] = vn[n] /\ vcache'[n] = vcache[n] /\ fl'[n] = fl[n]
           /\ lease'[n] = lease[n] /\ nodeNameToPort'[n] = nodeNameToPort[n]

\* Reconciles of different nodes run at once, and only the tables of ports are
\* common to them.
LEMMA Frame ==
  ASSUME TypeOK, NEW m \in Node, NEW n \in Node, n # m, Act(m)
  PROVE  Same(n)
<1> USE DEF Act, Reconcile, Fail, Deliver, Environment,
            Begin, CheckVirtualNode, CreateOrUpdateVirtualNode, Create, UpdateStatus, PatchTaints,
            StartLeaseController, EnsurePolicyAppliedLabel, HandleOutOfTimeWindows,
            RemovePolicyAppliedLabel, GetVirtualNode, AddDeletionTaint, DeleteVirtualNode, Evict,
            CheckPodsOnVirtualNode, Release, RemoveFinalizer,
            DeliverPhysicalNode, DeliverLent, DeliverVirtualNode, DeliverPod,
            PhysicalNodeAdded, PhysicalNodeRemoved, ChangeLent, UserDeleteVirtualNode,
            VirtualSchedulerBind, PodGone
<1>v. vn'[n] = vn[n]
  BY DEF TypeOK, world
<1>c. vcache'[n] = vcache[n]
  BY DEF TypeOK, caches
<1>f. fl'[n] = fl[n]
  <2>1. CASE Begin(m)
    BY <2>1 DEF TypeOK
  <2>2. CASE ~Begin(m)
    BY <2>2, FlightValues
  <2> QED BY <2>1, <2>2
<1>l. lease'[n] = lease[n]
  BY DEF TypeOK, memory
<1>p. nodeNameToPort'[n] = nodeNameToPort[n]
  BY Allocated, Released DEF memory
<1> QED BY <1>v, <1>c, <1>f, <1>l, <1>p DEF Same

LEMMA SameKeeps ==
  ASSUME NEW n \in Node, Local(n), Held(n), Same(n)
  PROVE  Local(n)' /\ Held(n)'
BY DEF Same, Held, Local, CacheOld, FlightOld, LeaseOld, InUse, Leaving, Removing

----------------------------------------------------------------------------
(* The virtual node and its reconcile.                                     *)

LEMMA ReconcileLocal ==
  ASSUME TypeOK, NEW n \in Node, Local(n), Held(n), Reconcile(n)
  PROVE  Local(n)' /\ Held(n)'
<1>t. /\ vn[n] \in VNode /\ vcache[n] \in VNode /\ fl[n].c \in VNode
      /\ vn \in [Node -> VNode] /\ lease \in [Node -> BOOLEAN]
  BY DEF TypeOK, Flight
<1> USE DEF Local, Held, CacheOld, FlightOld, LeaseOld, InUse, Leaving, Removing
<1>1. CASE Begin(n)
  <2>1. fl'[n].pc \in {"check", "unlabel"}
    BY <1>1 DEF Begin, TypeOK
  <2>2. UNCHANGED <<vn, vcache, lease>>
    BY <1>1 DEF Begin, world, caches, memory
  <2> QED BY <2>1, <2>2
<1>2. CASE CheckVirtualNode(n)
  <2>1. /\ fl'[n].pc \in {"unlabel", "write"}
        /\ fl'[n].pc = "write" => ~(vcache[n].exists /\ vcache[n].deleting)
    BY <1>2, FlightValues DEF CheckVirtualNode
  <2>2. UNCHANGED <<vn, vcache, lease>>
    BY <1>2 DEF CheckVirtualNode, world, caches, memory
  <2> QED BY <2>1, <2>2
<1>3. CASE CreateOrUpdateVirtualNode(n)
  <2>1. \/ vcache[n].exists /\ fl'[n].pc = "status"
        \/ ~vcache[n].exists /\ fl'[n].pc = "create" /\ nodeNameToPort'[n] # None
        \/ fl'[n].pc = "idle"
    BY <1>3, FlightValues, Allocated DEF CreateOrUpdateVirtualNode
  <2>2. At(n, "write") /\ UNCHANGED <<vn, vcache, lease>>
    BY <1>3 DEF CreateOrUpdateVirtualNode, world, caches, memory
  <2> QED BY <2>1, <2>2 DEF At
<1>4. CASE Create(n)
  <2>1. \/ UNCHANGED vn /\ fl'[n].pc = "idle"
        \/ ~vn[n].exists /\ vn'[n].exists /\ fl'[n].pc = "lease"
    <3>1. CASE vn[n].exists
      BY <1>4, <3>1, FlightValues DEF Create
    <3>2. CASE ~vn[n].exists
      BY <1>4, <3>2, <1>t, FlightValues DEF Create, NewNode, NoNode
    <3> QED BY <3>1, <3>2
  <2>2. At(n, "create") /\ UNCHANGED <<vcache, lease>>
    BY <1>4 DEF Create, caches, memory
  <2> QED BY <2>1, <2>2 DEF At
<1>5. CASE UpdateStatus(n)
  <2>1. fl'[n].pc \in {"patch", "lease", "idle"}
    BY <1>5, FlightValues DEF UpdateStatus
  <2>2. At(n, "status") /\ UNCHANGED <<vn, vcache, lease>>
    BY <1>5 DEF UpdateStatus, world, caches, memory
  <2> QED BY <2>1, <2>2 DEF At
<1>6. CASE PatchTaints(n)
  <2>1. /\ fl'[n].pc \in {"lease", "idle"}
        /\ vn'[n].exists = vn[n].exists /\ vn'[n].deleting = vn[n].deleting
    <3>1. CASE vn[n].exists
      <4> DEFINE d == [vn[n] EXCEPT !.taint = FALSE]
      <4>1. vn' = [vn EXCEPT ![n] = d] /\ Goto(n, "lease")
        BY <1>6, <3>1 DEF PatchTaints
      <4>2. d.exists = vn[n].exists /\ d.deleting = vn[n].deleting
        BY <1>t DEF VNode
      <4> HIDE DEF d
      <4> QED BY <4>1, <4>2, <1>t, FlightValues
    <3>2. CASE ~vn[n].exists
      BY <1>6, <3>2, FlightValues DEF PatchTaints
    <3> QED BY <3>1, <3>2
  <2>2. At(n, "patch") /\ UNCHANGED <<vcache, lease>>
    BY <1>6 DEF PatchTaints, caches, memory
  <2> QED BY <2>1, <2>2 DEF At
<1>7. CASE StartLeaseController(n)
  <2>1. fl'[n].pc = "label"
    BY <1>7, FlightValues DEF StartLeaseController
  <2>2. At(n, "lease") /\ UNCHANGED <<vn, vcache>>
    BY <1>7 DEF StartLeaseController, world, caches
  <2> QED BY <2>1, <2>2 DEF At
<1>8. CASE \/ EnsurePolicyAppliedLabel(n) \/ HandleOutOfTimeWindows(n)
           \/ RemovePolicyAppliedLabel(n)
  <2>1. fl'[n].pc \in {"window", "get", "idle"}
    BY <1>8, FlightValues
       DEF EnsurePolicyAppliedLabel, HandleOutOfTimeWindows, RemovePolicyAppliedLabel
  <2>2. UNCHANGED <<vn, vcache, lease>>
    BY <1>8 DEF EnsurePolicyAppliedLabel, HandleOutOfTimeWindows, RemovePolicyAppliedLabel,
                caches, memory
  <2> QED BY <2>1, <2>2
<1>9. CASE GetVirtualNode(n)
  <2>1. \/ fl'[n].pc = "idle"
        \/ /\ fl'[n].pc \in {"taint", "delete", "evict"} /\ fl'[n].c = vcache[n]
           /\ vcache[n].exists
           /\ fl'[n].pc = "evict" => vcache[n].deleting
    BY <1>9, FlightValues DEF GetVirtualNode, AfterTaint
  <2>2. UNCHANGED <<vn, vcache, lease>>
    BY <1>9 DEF GetVirtualNode, world, caches, memory
  <2> QED BY <2>1, <2>2
<1>10. CASE AddDeletionTaint(n)
  <2> DEFINE d == [fl[n].c EXCEPT !.taint = TRUE, !.unschedulable = TRUE]
  <2>1. d.exists = fl[n].c.exists /\ d.deleting = fl[n].c.deleting
    BY <1>t DEF VNode
  <2>2. At(n, "taint") /\ UNCHANGED <<vcache, lease>>
    BY <1>10 DEF AddDeletionTaint, caches, memory
  <2>3. \/ vn[n] = fl[n].c /\ vn' = [vn EXCEPT ![n] = d] /\ GotoWith(n, AfterTaint(d), d)
        \/ Again(n) /\ UNCHANGED vn
    BY <1>10 DEF AddDeletionTaint, Current
  <2> HIDE DEF d
  <2>4. CASE Again(n) /\ UNCHANGED vn
    BY <2>2, <2>4, FlightValues
  <2>5. CASE vn[n] = fl[n].c /\ vn' = [vn EXCEPT ![n] = d] /\ GotoWith(n, AfterTaint(d), d)
    <3>1. vn'[n] = d /\ fl'[n].c = d /\ fl'[n].pc = IF d.deleting THEN "evict" ELSE "delete"
      BY <2>5, <1>t, FlightValues DEF AfterTaint
    <3> QED BY <3>1, <2>1, <2>2, <2>5 DEF At
  <2> QED BY <2>3, <2>4, <2>5
<1>11. CASE DeleteVirtualNode(n)
  <2>1. /\ fl'[n].pc = "idle" /\ vn'[n].exists = vn[n].exists
        /\ vn'[n].deleting = vn[n].deleting \/ vn'[n].deleting
    BY <1>11, <1>t, FlightValues DEF DeleteVirtualNode, VNode
  <2>2. UNCHANGED <<vcache, lease>>
    BY <1>11 DEF DeleteVirtualNode, caches, memory
  <2> QED BY <2>1, <2>2
<1>12. CASE Evict(n) \/ CheckPodsOnVirtualNode(n)
  <2>1. /\ fl[n].pc \in Leaving
        /\ \/ fl'[n].pc \in {"drain", "release"} /\ fl'[n].c = fl[n].c
           \/ fl'[n].pc = "idle"
    BY <1>12, FlightValues DEF Evict, CheckPodsOnVirtualNode, At
  <2>2. UNCHANGED <<vn, vcache, lease>>
    BY <1>12 DEF Evict, CheckPodsOnVirtualNode, world, caches, memory
  <2> QED BY <2>1, <2>2
<1>13. CASE Release(n)
  <2>1. fl[n].pc = "release" /\ fl'[n].pc = "finalize" /\ fl'[n].c = fl[n].c
    BY <1>13, FlightValues DEF Release, At
  <2>2. UNCHANGED <<vn, vcache>> /\ ~lease'[n]
    BY <1>13, <1>t DEF Release, world, caches
  <2> QED BY <2>1, <2>2
<1>14. CASE RemoveFinalizer(n)
  <2>1. /\ fl[n].pc = "finalize" /\ fl'[n].pc = "idle"
        /\ UNCHANGED vn \/ ~vn'[n].exists
    BY <1>14, <1>t, FlightValues DEF RemoveFinalizer, At, NoNode
  <2>2. UNCHANGED <<vcache, lease>>
    BY <1>14 DEF RemoveFinalizer, caches, memory
  <2> QED BY <2>1, <2>2
<1> QED
  BY <1>1, <1>2, <1>3, <1>4, <1>5, <1>6, <1>7, <1>8, <1>9, <1>10, <1>11, <1>12, <1>13, <1>14
     DEF Reconcile

LEMMA LocalStep ==
  ASSUME TypeOK, NEW n \in Node, Local(n), Held(n), [Next]_vars
  PROVE  Local(n)' /\ Held(n)'
<1>1. ASSUME NEW m \in Node, Act(m), m # n PROVE Local(n)' /\ Held(n)'
  BY <1>1, Frame, SameKeeps
<1>2. CASE Reconcile(n)
  BY <1>2, ReconcileLocal
<1>t. /\ vn[n] \in VNode /\ vn \in [Node -> VNode] /\ vcache \in [Node -> VNode]
      /\ lease \in [Node -> BOOLEAN]
  BY DEF TypeOK
<1> USE DEF Local, Held, CacheOld, FlightOld, LeaseOld, InUse, Leaving, Removing
<1>3. CASE Fail(n)
  <2>1. fl'[n].pc = "idle"
    BY <1>3, FlightValues DEF Fail
  <2>2. UNCHANGED <<vn, vcache, lease>>
    BY <1>3 DEF Fail, world, caches, memory
  <2> QED BY <2>1, <2>2
<1>4. CASE Deliver(n)
  <2>1. CASE DeliverVirtualNode(n)
    <3>1. vcache'[n] = vn[n] /\ UNCHANGED <<vn, fl, lease, nodeNameToPort>>
      BY <1>t, <2>1 DEF DeliverVirtualNode, world, memory
    <3> QED BY <3>1
  <2>2. CASE ~DeliverVirtualNode(n)
    <3>1. UNCHANGED <<vn, vcache, fl, lease, nodeNameToPort>>
      BY <1>4, <2>2 DEF Deliver, DeliverPhysicalNode, DeliverLent, DeliverPod, world, memory
    <3> QED BY <3>1
  <2> QED BY <2>1, <2>2
<1>5. CASE Environment(n)
  <2>1. UNCHANGED <<vcache, fl, lease, nodeNameToPort>>
    BY <1>5 DEF Environment, PhysicalNodeAdded, PhysicalNodeRemoved, ChangeLent,
                UserDeleteVirtualNode, VirtualSchedulerBind, PodGone, caches, memory
  <2>2. /\ vn'[n].exists = vn[n].exists
        /\ vn'[n].deleting = vn[n].deleting \/ vn'[n].deleting
    <3>1. CASE UserDeleteVirtualNode(n)
      BY <3>1, <1>t DEF UserDeleteVirtualNode, VNode
    <3>2. CASE ~UserDeleteVirtualNode(n)
      BY <1>5, <3>2 DEF Environment, PhysicalNodeAdded, PhysicalNodeRemoved, ChangeLent,
                        VirtualSchedulerBind, PodGone
    <3> QED BY <3>1, <3>2
  <2> QED BY <2>1, <2>2
<1>6. CASE Restart
  <2>1. fl'[n].pc = "idle" /\ ~lease'[n] /\ vcache' = vn /\ vn' = vn
    BY <1>6 DEF Restart, Idle, world
  <2> QED BY <2>1
<1>7. CASE UNCHANGED vars
  BY <1>7 DEF vars, world, caches, memory
<1> QED BY <1>1, <1>2, <1>3, <1>4, <1>5, <1>6, <1>7 DEF Next, Act

----------------------------------------------------------------------------
(* Ports that are in use.                                                  *)

\* A step that changes the tables is an allocation or the release of a port whose
\* node is not in use.
LEMMA TableStep ==
  ASSUME TypeOK, NEW m \in Node, Local(m), Act(m)
  PROVE  \/ UNCHANGED <<allocatedPorts, nodeNameToPort>>
         \/ AllocateProxierPort(m)
         \/ ReleaseProxierPort(m) /\ ~InUse(m) /\ UNCHANGED vn
<1>1. CASE Release(m)
  BY <1>1 DEF Release, At, Local, FlightOld, Leaving, Removing, world
<1>2. CASE CreateOrUpdateVirtualNode(m)
  BY <1>2 DEF CreateOrUpdateVirtualNode, memory
<1>3. CASE ~Release(m) /\ ~CreateOrUpdateVirtualNode(m)
  BY <1>3 DEF Act, Reconcile, Fail, Deliver, Environment, memory,
         Begin, CheckVirtualNode, Create, UpdateStatus, PatchTaints,
         StartLeaseController, EnsurePolicyAppliedLabel, HandleOutOfTimeWindows,
         RemovePolicyAppliedLabel, GetVirtualNode, AddDeletionTaint, DeleteVirtualNode, Evict,
         CheckPodsOnVirtualNode, RemoveFinalizer,
         DeliverPhysicalNode, DeliverLent, DeliverVirtualNode, DeliverPod,
         PhysicalNodeAdded, PhysicalNodeRemoved, ChangeLent, UserDeleteVirtualNode,
         VirtualSchedulerBind, PodGone
<1> QED BY <1>1, <1>2, <1>3

\* A virtual node is in use after a step if it was, under the same port, or if the
\* step created it with the port the tables list.
LEMMA UseStep ==
  ASSUME TypeOK, NEW m \in Node, Act(m), vn'[m].exists /\ ~vn'[m].deleting
  PROVE  \/ InUse(m) /\ vn'[m].port = vn[m].port
         \/ vn'[m].port = nodeNameToPort[m] /\ UNCHANGED <<allocatedPorts, nodeNameToPort>>
<1>t. vn[m] \in VNode /\ vn \in [Node -> VNode] /\ fl[m].c \in VNode
  BY DEF TypeOK, Flight
<1>1. CASE Create(m)
  BY <1>1, <1>t DEF Create, NewNode, NoNode, InUse, memory
<1>2. CASE PatchTaints(m)
  BY <1>2, <1>t DEF PatchTaints, InUse, VNode
<1>3. CASE AddDeletionTaint(m)
  <2> DEFINE d == [fl[m].c EXCEPT !.taint = TRUE, !.unschedulable = TRUE]
  <2>1. /\ d.exists = fl[m].c.exists /\ d.deleting = fl[m].c.deleting
        /\ d.port = fl[m].c.port
    BY <1>t DEF VNode
  <2>2. UNCHANGED vn \/ (vn[m] = fl[m].c /\ vn' = [vn EXCEPT ![m] = d])
    BY <1>3 DEF AddDeletionTaint, Current
  <2> HIDE DEF d
  <2> QED BY <2>1, <2>2, <1>t DEF InUse
<1>4. CASE DeleteVirtualNode(m) \/ UserDeleteVirtualNode(m)
  BY <1>4, <1>t DEF DeleteVirtualNode, UserDeleteVirtualNode, InUse, VNode
<1>5. CASE RemoveFinalizer(m)
  BY <1>5, <1>t DEF RemoveFinalizer, NoNode, InUse
<1>6. CASE UNCHANGED vn
  BY <1>6 DEF InUse
<1> QED
  BY <1>1, <1>2, <1>3, <1>4, <1>5, <1>6 DEF Act, Reconcile, Fail, Deliver, Environment, world,
         Begin, CheckVirtualNode, CreateOrUpdateVirtualNode, UpdateStatus,
         StartLeaseController, EnsurePolicyAppliedLabel, HandleOutOfTimeWindows,
         RemovePolicyAppliedLabel, GetVirtualNode, Evict, CheckPodsOnVirtualNode, Release,
         DeliverPhysicalNode, DeliverLent, DeliverVirtualNode, DeliverPod,
         PhysicalNodeAdded, PhysicalNodeRemoved, ChangeLent, VirtualSchedulerBind, PodGone

LEMMA PortsStep ==
  ASSUME TypeOK, \A n \in Node : Local(n), PortsAgree, [Next]_vars
  PROVE  PortsAgree'
<1>1. ASSUME NEW m \in Node, Act(m), restarts = 0
      PROVE  \A n \in Node : Listed(n)' /\ Labelled(n)'
  <2>0. \A n \in Node : Listed(n) /\ Labelled(n)
    BY <1>1 DEF PortsAgree
  <2>t. /\ allocatedPorts \in [Port -> Node \union {None}]
        /\ nodeNameToPort \in [Node -> Port \union {None}]
    BY DEF TypeOK
  <2>f. \A n \in Node : n # m => Same(n)
    BY <1>1, Frame
  <2>u. \/ ~InUse(m)'
        \/ InUse(m) /\ vn'[m].port = vn[m].port
        \/ vn'[m].port = nodeNameToPort[m] /\ UNCHANGED <<allocatedPorts, nodeNameToPort>>
    <3>1. CASE vn'[m].exists /\ ~vn'[m].deleting
      BY <1>1, <3>1, UseStep
    <3>2. CASE ~(vn'[m].exists /\ ~vn'[m].deleting)
      BY <3>2 DEF InUse
    <3> QED BY <3>1, <3>2
  <2>1. CASE UNCHANGED <<allocatedPorts, nodeNameToPort>>
    BY <2>0, <2>1, <2>f, <2>u DEF Same, Listed, Labelled, InUse
  <2>2. CASE AllocateProxierPort(m) /\ ~UNCHANGED <<allocatedPorts, nodeNameToPort>>
    <3>1. /\ nodeNameToPort' \in [Node -> Port \union {None}]
          /\ nodeNameToPort'[m] # None
          /\ \A n \in Node : n # m => nodeNameToPort'[n] = nodeNameToPort[n]
          /\ nodeNameToPort'[m] # nodeNameToPort[m] =>
               /\ nodeNameToPort[m] = None
               /\ allocatedPorts[nodeNameToPort'[m]] = None
               /\ allocatedPorts' = [allocatedPorts EXCEPT ![nodeNameToPort'[m]] = m]
          /\ nodeNameToPort'[m] = nodeNameToPort[m] => allocatedPorts' = allocatedPorts
      BY <2>2, Allocated
    <3>2. nodeNameToPort'[m] # nodeNameToPort[m]
      BY <3>1, <2>2, <2>t
    <3>3. ~InUse(m)
      <4>1. InUse(m) => vn[m].port \in Port
        BY DEF TypeOK, InUse
      <4> QED BY <3>1, <3>2, <4>1, <2>0, NodeAssumption DEF Labelled
    <3> DEFINE p == nodeNameToPort'[m]
    <3>4. /\ p \in Port /\ allocatedPorts[p] = None
          /\ allocatedPorts' = [allocatedPorts EXCEPT ![p] = m]
      BY <3>1, <3>2
    <3>5. Listed(m)'
      BY <3>4, <2>t DEF Listed
    <3>6. ASSUME NEW n \in Node, n # m PROVE Listed(n)'
      BY <3>1, <3>4, <3>6, <2>0, <2>t, NodeAssumption DEF Listed
    <3>7. ~InUse(m)'
      BY <2>u, <2>2, <3>3
    <3>8. ASSUME NEW n \in Node, n # m PROVE Labelled(n)'
      BY <3>8, <2>0, <2>f DEF Labelled, Same, InUse
    <3> QED BY <3>5, <3>6, <3>7, <3>8 DEF Labelled
  <2>3. CASE ReleaseProxierPort(m) /\ ~InUse(m) /\ UNCHANGED vn
    <3>1. /\ nodeNameToPort'[m] = None
          /\ nodeNameToPort[m] # None => allocatedPorts' = [allocatedPorts EXCEPT ![nodeNameToPort[m]] = None]
          /\ nodeNameToPort[m] = None => allocatedPorts' = allocatedPorts
          /\ \A n \in Node : n # m => nodeNameToPort'[n] = nodeNameToPort[n]
      BY <2>3, Released
    <3>2. ASSUME NEW n \in Node, n # m PROVE Listed(n)'
      <4>1. CASE nodeNameToPort[n] = None
        BY <3>1, <3>2, <4>1 DEF Listed
      <4>2. CASE nodeNameToPort[n] # None /\ nodeNameToPort[m] = None
        BY <3>1, <3>2, <4>2, <2>0 DEF Listed
      <4>3. CASE nodeNameToPort[n] # None /\ nodeNameToPort[m] # None
        <5>1. nodeNameToPort[n] # nodeNameToPort[m]
          BY <4>3, <3>2, <2>0 DEF Listed
        <5> QED BY <3>1, <3>2, <4>3, <5>1, <2>0, <2>t DEF Listed
      <4> QED BY <4>1, <4>2, <4>3
    <3>3. Listed(m)'
      BY <3>1 DEF Listed
    <3>4. ASSUME NEW n \in Node, n # m PROVE Labelled(n)'
      BY <3>4, <2>0, <2>f DEF Labelled, Same, InUse
    <3>5. Labelled(m)'
      BY <2>3 DEF Labelled, InUse
    <3> QED BY <3>2, <3>3, <3>4, <3>5
  <2> QED BY <1>1, <2>1, <2>2, <2>3, TableStep
<1>2. ASSUME NEW m \in Node, Act(m) PROVE restarts' = restarts
  BY <1>2 DEF Act, Reconcile, Fail, Deliver, Environment, bounds,
         Begin, CheckVirtualNode, CreateOrUpdateVirtualNode, Create, UpdateStatus, PatchTaints,
         StartLeaseController, EnsurePolicyAppliedLabel, HandleOutOfTimeWindows,
         RemovePolicyAppliedLabel, GetVirtualNode, AddDeletionTaint, DeleteVirtualNode, Evict,
         CheckPodsOnVirtualNode, Release, RemoveFinalizer,
         DeliverPhysicalNode, DeliverLent, DeliverVirtualNode, DeliverPod,
         PhysicalNodeAdded, PhysicalNodeRemoved, ChangeLent, UserDeleteVirtualNode,
         VirtualSchedulerBind, PodGone
<1>3. CASE Restart
  BY <1>3 DEF Restart, TypeOK, PortsAgree
<1>4. CASE UNCHANGED vars
  BY <1>4 DEF vars, world, memory, bounds, PortsAgree, Listed, Labelled, InUse
<1>5. ASSUME NEW m \in Node, Act(m) PROVE PortsAgree'
  BY <1>1, <1>2, <1>5 DEF PortsAgree
<1> QED BY <1>3, <1>4, <1>5 DEF Next, Act

----------------------------------------------------------------------------
(* The theorems.                                                           *)

LEMMA InitHolds == Init => IInv
<1> SUFFICES ASSUME Init PROVE IInv
  OBVIOUS
<1>1. TypeOK
  BY NodeTypes DEF Init, NoPhys, PNode, Pod, NoNode, TypeOK
<1>2. \A n \in Node : fl[n].pc = "idle" /\ ~vn[n].exists /\ ~vcache[n].exists /\ ~lease[n]
  BY DEF Init, Idle, NoNode
<1>3. \A n \in Node : Local(n) /\ Held(n)
  BY <1>2 DEF Local, Held, CacheOld, FlightOld, LeaseOld, InUse, Leaving, Removing
<1>4. PortsAgree
  BY <1>2 DEF Init, PortsAgree, Listed, Labelled, InUse
<1> QED BY <1>1, <1>3, <1>4 DEF IInv, PortHeld

LEMMA InvStep == IInv /\ [Next]_vars => IInv'
<1> SUFFICES ASSUME IInv, [Next]_vars PROVE IInv'
  OBVIOUS
<1>1. TypeOK'
  BY TypeStep DEF IInv
<1>2. \A n \in Node : Local(n)' /\ Held(n)'
  BY LocalStep DEF IInv, PortHeld
<1>3. PortsAgree'
  BY PortsStep DEF IInv
<1> QED BY <1>1, <1>2, <1>3 DEF IInv, PortHeld

LEMMA Invariant == Spec => []IInv
BY InitHolds, InvStep, PTL DEF Spec

\* Every object, cache and table keeps its type, and a virtual node has a port: none is
\* created before allocateProxierPort found one.
THEOREM NodeTypeCorrect == Spec => []TypeOK
<1>1. IInv => TypeOK
  BY DEF IInv
<1> QED BY <1>1, Invariant, PTL

\* startLeaseController acts on a cached or just written virtual node; still no lease
\* loop runs for a node that is gone, because only the reconcile of a node removes it
\* and it stops the loop first.
THEOREM LeaseSound == Spec => []LeaseOnlyForNode
<1>1. IInv => LeaseOnlyForNode
  BY DEF IInv, Local, LeaseOld, LeaseOnlyForNode
<1> QED BY <1>1, Invariant, PTL

\* As long as the syncer does not restart, two virtual nodes in use never have one
\* port: a port is released only when the node that had it is being deleted, and the
\* tables tell who has it.
THEOREM PortsAreUnique == Spec => [](restarts = 0 => PortsUnique)
<1>1. IInv => (restarts = 0 => PortsUnique)
  <2> SUFFICES ASSUME IInv, restarts = 0, NEW m \in Node, NEW n \in Node,
                      InUse(m), InUse(n), vn[m].port = vn[n].port
               PROVE  m = n
    BY DEF PortsUnique
  <2>1. vn[m].port \in Port
    BY DEF IInv, TypeOK, InUse
  <2>2. vn[m].port # None
    BY <2>1, NodeAssumption
  <2> QED BY <2>2 DEF IInv, PortsAgree, Listed, Labelled
<1> QED BY <1>1, Invariant, PTL

----------------------------------------------------------------------------
(* VirtualNode implements PortAllocation.                                  *)

LEMMA PortsInUseValues ==
  \A n \in Node : PortsInUse[n] = IF InUse(n) THEN vn[n].port ELSE None
BY DEF PortsInUse

LEMMA PortsInUseNext ==
  \A n \in Node : PortsInUse'[n] = IF vn'[n].exists /\ ~vn'[n].deleting
                                   THEN vn'[n].port ELSE None
BY DEF PortsInUse, InUse

\* A node that comes into use has the port the tables list for it, and no other
\* node in use has that port.
LEMMA PortIsFree ==
  ASSUME TypeOK, PortsAgree, restarts = 0, NEW m \in Node, NEW n \in Node, ~InUse(m),
         nodeNameToPort[m] \in Port
  PROVE  PortsInUse[n] # nodeNameToPort[m]
<1>1. CASE InUse(n)
  <2>1. vn[n].port = nodeNameToPort[n] /\ n # m
    BY <1>1 DEF PortsAgree, Labelled
  <2>2. vn[n].port # nodeNameToPort[m]
    BY <2>1, NodeAssumption DEF PortsAgree, Listed
  <2> QED BY <1>1, <2>2, PortsInUseValues
<1>2. CASE ~InUse(n)
  BY <1>2, PortsInUseValues, NodeAssumption
<1> QED BY <1>1, <1>2

LEMMA AllocationStep ==
  ASSUME IInv, IInv', restarts = 0, [Next]_vars
  PROVE  [Allocation!Next]_PortsInUse
<1>t. TypeOK /\ TypeOK' /\ PortsAgree
  BY DEF IInv
<1>1. ASSUME NEW m \in Node, Act(m)
      PROVE  [Allocation!Next]_PortsInUse
  <2> DEFINE newPort == PortsInUse'[m]
  <2>f. \A n \in Node : n # m => PortsInUse'[n] = PortsInUse[n]
    BY <1>1, <1>t, Frame, PortsInUseValues, PortsInUseNext DEF Same, InUse
  <2>g. PortsInUse' = [PortsInUse EXCEPT ![m] = newPort]
    BY <2>f DEF PortsInUse
  <2>1. CASE ~(vn'[m].exists /\ ~vn'[m].deleting)
    <3>1. newPort = None
      BY <2>1, PortsInUseNext
    <3>2. CASE PortsInUse[m] # None
      <4>1. Allocation!GiveUp(m)
        BY <2>g, <3>1, <3>2 DEF Allocation!GiveUp
      <4> QED BY <4>1 DEF Allocation!Next
    <3>3. CASE PortsInUse[m] = None
      BY <2>g, <3>1, <3>3 DEF PortsInUse
    <3> QED BY <3>2, <3>3
  <2>2. CASE vn'[m].exists /\ ~vn'[m].deleting
    <3>1. newPort = vn'[m].port /\ vn'[m].port \in Port
      BY <1>t, <2>2, PortsInUseNext DEF TypeOK
    <3>2. \/ InUse(m) /\ vn'[m].port = vn[m].port
          \/ vn'[m].port = nodeNameToPort[m]
      BY <1>1, <1>t, <2>2, UseStep
    <3>3. CASE InUse(m)
      <4>1. vn'[m].port = vn[m].port
        BY <3>2, <3>3, <1>t DEF PortsAgree, Labelled
      <4>2. newPort = PortsInUse[m]
        BY <3>1, <3>3, <4>1, PortsInUseValues
      <4> QED BY <2>g, <4>2 DEF PortsInUse
    <3>4. CASE ~InUse(m)
      <4>1. newPort = nodeNameToPort[m] /\ newPort \in Port
        BY <3>1, <3>2, <3>4
      <4>2. \A n \in Node : PortsInUse[n] # newPort
        BY <1>t, <3>4, <4>1, PortIsFree
      <4>3. PortsInUse[m] = None
        BY <3>4, PortsInUseValues
      <4>4. Allocation!Acquire(m)
        BY <2>g, <4>1, <4>2, <4>3 DEF Allocation!Acquire
      <4> QED BY <4>4 DEF Allocation!Next
    <3> QED BY <3>3, <3>4
  <2> QED BY <2>1, <2>2
<1>2. CASE Restart
  BY <1>2 DEF Restart, world, PortsInUse, InUse
<1>3. CASE UNCHANGED vars
  BY <1>3 DEF vars, world, PortsInUse, InUse
<1> QED BY <1>1, <1>2, <1>3 DEF Next, Act

\* As long as the syncer does not restart, the reconciler with its two tables, lagging
\* caches and retries is an allocator: a virtual node gets a port nobody else has, keeps
\* it unchanged while it is in use, and gives it up when its deletion begins.
THEOREM PortsImplemented == Spec /\ [](restarts = 0) => ImplementsAllocation
<1>1. Init => Allocation!Init
  BY DEF Init, Allocation!Init, PortsInUse, InUse, NoNode
<1>2. IInv /\ IInv' /\ restarts = 0 /\ [Next]_vars => [Allocation!Next]_PortsInUse
  BY AllocationStep
<1> QED
  BY <1>1, <1>2, Invariant, PTL DEF Spec, ImplementsAllocation, Allocation!Spec
==============================================================================
