---------------------------- MODULE FollowersProofs ----------------------------
(***************************************************************************)
(* Proofs about Followers: what follows a virtual node agrees with it when *)
(* the controllers are at rest.                                            *)
(***************************************************************************)
EXTENDS Followers, TLAPS

----------------------------------------------------------------------------
(* Types.                                                                  *)

HFlights == [at : {"idle", "create", "patch", "delete"}, ports : PortSets, id : Nat, todo : SUBSET Nat]
CFlights == [at : {"idle", "delete", "write"}, obj : CSINodesOf, drivers : Drivers \union {None}]
WFlights == [at : {"idle", "patch"}, pod : Proxiers \union {None}, target : Proxiers \union {None},
             attempt : 0..MaxRetries]
Phases == {"none", "pending", "ip", "running", "gone"}

\* Fake pods have the names that the API server gave out.
Numbered == \A f \in fake \union fakec : f.id \in 1..nfake

NTypes == /\ vn \in VNodes /\ vc \in VNodes /\ making \in [on : BOOLEAN, ip : Proxiers \union {None}]
          /\ changes \in 0..MaxChange /\ errors \in 0..MaxError
HTypes == /\ label \in BOOLEAN /\ labelc \in BOOLEAN /\ ports \in PortSets /\ portsc \in PortSets
          /\ fake \subseteq FakePods /\ fakec \subseteq FakePods /\ nfake \in Nat
          /\ hq \in BOOLEAN /\ hmisled \in BOOLEAN /\ hfl \in HFlights
          /\ hfl.id \in 0..nfake /\ hfl.todo \subseteq 1..nfake /\ Numbered
CTypes == /\ cs \in Drivers \union {None} /\ csc \in Drivers \union {None}
          /\ vcs \in CSINodesOf /\ vcsc \in CSINodesOf /\ cq \in BOOLEAN /\ cfl \in CFlights
          /\ cskip \in BOOLEAN
WTypes == /\ px \in [Proxiers -> Phases] /\ pxc \in [Proxiers -> Phases]
          /\ wq \subseteq Proxiers /\ missed \in BOOLEAN /\ wfl \in WFlights
TypeInv == NTypes /\ HTypes /\ CTypes /\ WTypes

----------------------------------------------------------------------------
(* Invariants.                                                             *)

\* A virtual CSINode that was read is not younger than what is there; what was ours
\* or foreign then has not become the other under the same UID.
Older(p) == /\ p.uid <= vcs.uid
            /\ p.kind = "ours" /\ p.uid = vcs.uid => vcs.kind # "foreign"
            /\ p.kind = "foreign" => vcs.kind = "foreign"

\* Only a CSINode that is ours is written or deleted.
COwn == /\ Older(vcsc) /\ Older(cfl.obj) /\ cfl.obj.kind # "foreign"
        /\ cfl.at = "delete" => cfl.obj.kind = "ours"
        /\ cfl.at = "idle" => cfl = CIdle

\* Nothing is queued and no old copy was taken for good: what is there, or what the reconcile in flight is about to do,
\* agrees with the caches.  A CSINode that the cache does not have yet will be an event.
CAgrees ==
  ~cq /\ ~cskip /\ vcs.kind # "foreign" =>
    /\ cfl.at = "delete" => CDelete
    /\ cfl.at = "write" => ~CDelete /\ cfl.drivers = csc
    /\ cfl.at = "idle" =>
         /\ vcs.kind = "none" => CDelete
         /\ vcs.kind = "ours" /\ vcsc.kind = "ours" /\ vcsc.uid = vcs.uid =>
              ~CDelete /\ vcs.drivers = csc

\* Addresses that anything holds were those of running pods; pods do not come back.
WasRunning(ip) == ip # None => pxc[ip] \in {"running", "gone"}
Phased == /\ \A p \in Proxiers : /\ pxc[p] = "running" => px[p] \in {"running", "gone"}
                                 /\ pxc[p] = "gone" => px[p] = "gone"
          /\ WasRunning(vn.ip) /\ WasRunning(vc.ip) /\ WasRunning(making.ip)
          /\ WasRunning(wfl.target)

Good(ip) == ip \in RunningProxiers(pxc) \union {None}

\* Nothing is queued and no sync was misled: the addresses that the virtual node has or
\* is about to get are good.
WAgrees ==
  wq = {} /\ ~missed =>
    /\ making.on => Good(making.ip)
    /\ wfl.at = "patch" => wfl.target # None /\ Good(wfl.target)
    /\ vn.on /\ wfl.at = "idle" => Good(vn.ip)
    /\ vn.on /\ wfl.at = "patch" /\ vc.on /\ vc.ip \in RunningProxiers(pxc) => Good(vn.ip)

\* Fake pods have names of their own.
Distinct == /\ \A f, g \in fake : f.id = g.id => f = g
            /\ \A f, g \in fakec : f.id = g.id => f = g

\* The cache does not run ahead: what it shows of a pod that is there has come true for good.
Behind(f, g) == f.ports = g.ports /\ (f.sched => g.sched) /\ (f.del => g.del)
Copied == \A f \in fakec, g \in fake : f.id = g.id => Behind(f, g)

\* The pod that is to stay, while the others go.
Keeps == /\ hfl.id \notin hfl.todo
         /\ \E f \in Live : f.id = hfl.id /\ f.ports = hfl.ports
                            /\ (hfl.at = "delete" => f.sched)
Others == \A f \in Live : f.id = hfl.id \/ f.id \in hfl.todo

\* A pod that is kept while others are deleted is there, or all are gone with the node.
Kept == hfl.at \in {"patch", "delete"} /\ hfl.ports # {} /\ ~hmisled => fake = {} \/ Keeps

SameNode == vn.on /\ vc.on /\ vc.uid = vn.uid

\* Nothing is queued, the list of the last reconcile was up to date and the node is the
\* one it saw: the fake pods are those of the cached ports, or will be at its end.
HAgrees ==
  SameNode /\ labelc /\ ~hq /\ ~hmisled =>
    /\ hfl.at # "idle" => hfl.ports = portsc
    /\ hfl.at = "create" => portsc # {} /\ hfl.id = 0 /\ Others
    /\ hfl.at = "patch" => portsc # {} /\ Keeps /\ Others
    /\ hfl.at = "delete" /\ portsc # {} => Keeps /\ Others
    /\ hfl.at = "delete" /\ portsc = {} => hfl.id = 0 /\ Others
    /\ hfl.at = "idle" => IF portsc = {} THEN Live = {}
                          ELSE \E f \in Live : Live = {f} /\ f.ports = portsc /\ f.sched
HIdleShape == hfl.at = "idle" => hfl = HIdle
UidsGrow == vc.uid <= vn.uid

----------------------------------------------------------------------------
(* Types, step by step.                                                    *)

LEMMA Bounds == MaxChange \in Nat /\ MaxError \in Nat /\ {} \in PortSets
BY ViewAssumption, PortAssumption

LEMMA ChangeTypes == changes \in 0..MaxChange /\ Change => changes' \in 0..MaxChange
BY Bounds DEF Change

LEMMA ErrorTypes == errors \in 0..MaxError /\ Error => errors' \in 0..MaxError
BY Bounds DEF Error

LEMMA NodeTypes == \A n \in Nat : NoVNode(n) \in VNodes
BY DEF NoVNode, VNodes

LEMMA RunningTypes == \A pods : RunningProxiers(pods) \subseteq Proxiers
                                /\ ProxierPodIP(pods) \subseteq Proxiers \union {None}
BY DEF RunningProxiers, ProxierPodIP

LEMMA NodeStepTypes ==
  ASSUME TypeInv, NodeRead \/ NodeCreate \/ NodeUpdate \/ NodeDelete \/ DeliverVirtualNode
  PROVE  TypeInv'
<1>1. CASE NodeRead
  <2>1. making' \in [on : BOOLEAN, ip : Proxiers \union {None}]
    BY <1>1, RunningTypes DEF NodeRead
  <2>2. changes' \in 0..MaxChange
    BY <1>1, ChangeTypes DEF NodeRead, TypeInv, NTypes
  <2>3. vn' = vn /\ vc' = vc /\ errors' = errors /\ UNCHANGED <<hvars, cvars, wvars>>
    BY <1>1 DEF NodeRead
  <2> QED BY <2>1, <2>2, <2>3 DEF TypeInv, NTypes, HTypes, CTypes, WTypes, hvars, cvars, wvars, Numbered
<1>2. CASE NodeCreate
  <2>1. [on |-> TRUE, uid |-> vn.uid + 1, ip |-> making.ip] \in VNodes
    BY DEF TypeInv, NTypes, VNodes
  <2>2. vn' \in VNodes /\ making' \in [on : BOOLEAN, ip : Proxiers \union {None}]
    BY <1>2, <2>1 DEF NodeCreate, NotMaking, TypeInv, NTypes
  <2>3. vc' = vc /\ errors' = errors /\ changes' = changes /\ UNCHANGED <<hvars, cvars, wvars>>
    BY <1>2 DEF NodeCreate
  <2> QED BY <2>2, <2>3 DEF TypeInv, NTypes, HTypes, CTypes, WTypes, hvars, cvars, wvars, Numbered
<1>3. CASE NodeUpdate
  <2>1. PICK ip \in RunningProxiers(pxc) : vn' = [vn EXCEPT !.ip = ip]
    BY <1>3 DEF NodeUpdate
  <2>2. ip \in Proxiers
    BY RunningTypes
  <2>3. vn' \in VNodes
    BY <2>1, <2>2 DEF TypeInv, NTypes, VNodes
  <2>4. /\ vc' = vc /\ errors' = errors /\ changes' = changes /\ making' = making
        /\ UNCHANGED <<hvars, cvars, wvars>>
    BY <1>3 DEF NodeUpdate
  <2> QED BY <2>3, <2>4 DEF TypeInv, NTypes, HTypes, CTypes, WTypes, hvars, cvars, wvars, Numbered
<1>4. CASE NodeDelete
  <2>1. vn' \in VNodes
    BY <1>4, NodeTypes DEF NodeDelete, TypeInv, NTypes, VNodes
  <2>2. changes' \in 0..MaxChange
    BY <1>4, ChangeTypes DEF NodeDelete, TypeInv, NTypes
  <2>3. vc' = vc /\ errors' = errors /\ making' = making /\ UNCHANGED <<hvars, cvars, wvars>>
    BY <1>4 DEF NodeDelete
  <2> QED BY <2>1, <2>2, <2>3 DEF TypeInv, NTypes, HTypes, CTypes, WTypes, hvars, cvars, wvars, Numbered
<1>5. CASE DeliverVirtualNode
  <2>1. NextSeen \in VNodes
    BY NodeTypes DEF NextSeen, TypeInv, NTypes, VNodes
  <2>2. /\ vc' \in VNodes /\ vn' = vn /\ errors' = errors /\ changes' = changes /\ making' = making
        /\ UNCHANGED <<wvars, label, labelc, ports, portsc, fake, fakec, nfake, hfl, hmisled,
                       cs, csc, vcs, vcsc, cfl, cskip>>
    BY <1>5, <2>1 DEF DeliverVirtualNode
  <2>3. hq' \in BOOLEAN /\ cq' \in BOOLEAN
    BY <1>5 DEF DeliverVirtualNode, HTold, CTold, TypeInv, HTypes, CTypes
  <2> QED BY <2>2, <2>3 DEF TypeInv, NTypes, HTypes, CTypes, WTypes, wvars, Numbered
<1> QED BY <1>1, <1>2, <1>3, <1>4, <1>5

LEMMA HStepTypes ==
  ASSUME NTypes, HTypes, HNext
  PROVE  HTypes' /\ vn' = vn /\ vc' = vc /\ changes' \in 0..MaxChange /\ errors' \in 0..MaxError
<1> USE DEF HTypes, Numbered
<1>1. vn' = vn /\ vc' = vc
  BY DEF HNext, HSkip, HandleFakePod, CreateFakePod, PatchFakePodScheduledCondition,
     DeleteExtraFakePod, ForceDeleteFakePod, HDone, HFail, ChangePorts, ChangeLabel, DeliverPorts, DeliverLabel,
     DeliverFakePods, CollectFakePods, nvars
<1>2. changes' \in 0..MaxChange /\ errors' \in 0..MaxError
  BY ChangeTypes, ErrorTypes DEF NTypes, HNext, HSkip, HandleFakePod, CreateFakePod,
     PatchFakePodScheduledCondition, DeleteExtraFakePod, ForceDeleteFakePod, HDone, HFail, ChangePorts, ChangeLabel,
     DeliverPorts, DeliverLabel, DeliverFakePods, CollectFakePods, nvars
<1>3. HIdle \in HFlights /\ HIdle.id = 0 /\ HIdle.todo = {}
  BY Bounds DEF HIdle, HFlights
<1>4. HTypes'
  <2>1. CASE HSkip \/ ChangePorts \/ ChangeLabel \/ DeliverPorts \/ DeliverLabel \/ HDone \/ HFail
    <3>1. /\ fake' = fake /\ fakec' = fakec /\ nfake' = nfake /\ hmisled' = hmisled
          /\ hfl' = hfl \/ hfl' = HIdle
      BY <2>1 DEF HSkip, ChangePorts, ChangeLabel, DeliverPorts, DeliverLabel, HDone, HFail
    <3>2. /\ label' \in BOOLEAN /\ labelc' \in BOOLEAN /\ ports' \in PortSets /\ portsc' \in PortSets
          /\ hq' \in BOOLEAN
      BY <2>1 DEF HSkip, ChangePorts, ChangeLabel, DeliverPorts, DeliverLabel, HDone, HFail
    <3> QED BY <3>1, <3>2, <1>3
  <2>2. CASE HandleFakePod
    <3>1. /\ label' = label /\ labelc' = labelc /\ ports' = ports /\ portsc' = portsc
          /\ fake' = fake /\ fakec' = fakec /\ nfake' = nfake /\ hq' \in BOOLEAN /\ hmisled' \in BOOLEAN
      BY <2>2 DEF HandleFakePod
    <3>2. hfl' \in HFlights /\ hfl'.id \in 0..nfake /\ hfl'.todo \subseteq 1..nfake
      <4> DEFINE all == {f.id : f \in fakec}
      <4>1. all \subseteq 1..nfake /\ 1..nfake \subseteq Nat /\ 0 \in 0..nfake
        OBVIOUS
      <4>2. CASE portsc = {} /\ hfl' = [HIdle EXCEPT !.at = "delete", !.todo = all]
        <5>1. hfl' = [at |-> "delete", ports |-> {}, id |-> 0, todo |-> all]
          BY <4>2 DEF HIdle
        <5> HIDE DEF all
        <5> QED BY <4>1, <5>1, Bounds DEF HFlights
      <4>3. CASE hfl' = [at |-> "create", ports |-> portsc, id |-> 0, todo |-> all]
        <5> HIDE DEF all
        <5> QED BY <4>1, <4>3 DEF HFlights
      <4>4. ASSUME NEW f \in fakec,
                   hfl' = [at |-> IF f.sched THEN "delete" ELSE "patch", ports |-> portsc,
                           id |-> f.id, todo |-> {g.id : g \in fakec \ {f}}]
            PROVE  hfl' \in HFlights /\ hfl'.id \in 0..nfake /\ hfl'.todo \subseteq 1..nfake
        <5> DEFINE some == {g.id : g \in fakec \ {f}}
        <5>1. some \subseteq 1..nfake /\ f.id \in 0..nfake /\ f.id \in Nat
          OBVIOUS
        <5> HIDE DEF some
        <5>2. hfl' = [at |-> IF f.sched THEN "delete" ELSE "patch", ports |-> portsc,
                      id |-> f.id, todo |-> some]
          BY <4>4 DEF some
        <5> QED BY <5>1, <5>2, <4>1 DEF HFlights
      <4> QED BY <2>2, <4>2, <4>3, <4>4 DEF HandleFakePod
    <3> QED BY <3>1, <3>2
  <2>3. CASE CreateFakePod
    <3>1. /\ label' = label /\ labelc' = labelc /\ ports' = ports /\ portsc' = portsc
          /\ fakec' = fakec /\ nfake' = nfake + 1 /\ hq' = hq /\ hmisled' = hmisled
          /\ fake' = fake \union {Pod(nfake + 1, hfl.ports)}
          /\ hfl' = [hfl EXCEPT !.at = "patch", !.id = nfake + 1]
      BY <2>3 DEF CreateFakePod
    <3>2. Pod(nfake + 1, hfl.ports) \in FakePods /\ Pod(nfake + 1, hfl.ports).id = nfake + 1
      BY DEF Pod, FakePods, HFlights
    <3>3. hfl' \in HFlights /\ hfl'.id = nfake + 1 /\ hfl'.todo = hfl.todo
      <4>1. nfake + 1 \in Nat /\ hfl \in HFlights
        OBVIOUS
      <4>2. [hfl EXCEPT !.at = "patch", !.id = nfake + 1] \in HFlights
        BY <4>1 DEF HFlights
      <4>3. /\ [hfl EXCEPT !.at = "patch", !.id = nfake + 1].id = nfake + 1
            /\ [hfl EXCEPT !.at = "patch", !.id = nfake + 1].todo = hfl.todo
        BY <4>1 DEF HFlights
      <4> QED BY <3>1, <4>2, <4>3
    <3>4. fake' \subseteq FakePods /\ \A f \in fake' \union fakec' : f.id \in 1..nfake'
      <4>1. 1..nfake \subseteq 1..(nfake + 1) /\ nfake + 1 \in 1..(nfake + 1)
        OBVIOUS
      <4>2. \A f \in fake \union fakec : f.id \in 1..nfake
        OBVIOUS
      <4> HIDE DEF HTypes, Numbered, Pod
      <4>3. fake \subseteq FakePods
        BY DEF HTypes
      <4> QED BY <3>1, <3>2, <4>1, <4>2, <4>3
    <3>5. nfake' \in Nat /\ hfl'.id \in 0..nfake' /\ hfl'.todo \subseteq 1..nfake'
      BY <3>1, <3>3
    <3>6. /\ label \in BOOLEAN /\ labelc \in BOOLEAN /\ ports \in PortSets /\ portsc \in PortSets
          /\ fakec \subseteq FakePods /\ hq \in BOOLEAN /\ hmisled \in BOOLEAN
      OBVIOUS
    <3>7. hfl' \in HFlights
      BY <3>3
    <3> QED BY <3>1, <3>4, <3>5, <3>6, <3>7
  <2>4. CASE PatchFakePodScheduledCondition
    <3>1. /\ label' = label /\ labelc' = labelc /\ ports' = ports /\ portsc' = portsc
          /\ fakec' = fakec /\ nfake' = nfake /\ hmisled' = hmisled
      BY <2>4 DEF PatchFakePodScheduledCondition
    <3>2. CASE /\ \A f \in fake : f.id # hfl.id
               /\ hfl' = HIdle /\ hq' = TRUE /\ fake' = fake
      BY <3>1, <3>2, <1>3
    <3>3. ASSUME NEW f \in fake, fake' = (fake \ {f}) \union {[f EXCEPT !.sched = TRUE]},
                 hfl' = [hfl EXCEPT !.at = "delete"], hq' = hq
          PROVE  HTypes'
      <4>1. [f EXCEPT !.sched = TRUE] \in FakePods /\ [f EXCEPT !.sched = TRUE].id = f.id
        BY DEF FakePods
      <4>2. hfl' \in HFlights /\ hfl'.id = hfl.id /\ hfl'.todo = hfl.todo
        BY <3>3 DEF HFlights
      <4> QED BY <3>1, <3>3, <4>1, <4>2
    <3> QED BY <2>4, <3>2, <3>3 DEF PatchFakePodScheduledCondition
  <2>5. CASE DeleteExtraFakePod
    <3>1. PICK i \in hfl.todo : /\ fake' = Deleted(i)
                                /\ hfl' = [hfl EXCEPT !.todo = @ \ {i}]
      BY <2>5 DEF DeleteExtraFakePod
    <3>2. hfl' \in HFlights /\ hfl'.id = hfl.id /\ hfl'.todo \subseteq hfl.todo
      BY <3>1 DEF HFlights
    <3>3. Deleted(i) \subseteq FakePods /\ \A f \in Deleted(i) : f.id \in 1..nfake
      <4>1. ASSUME NEW f \in fake
            PROVE  [f EXCEPT !.del = TRUE] \in FakePods /\ [f EXCEPT !.del = TRUE].id = f.id
        BY DEF FakePods
      <4> QED BY <4>1 DEF Deleted
    <3> QED BY <2>5, <3>1, <3>2, <3>3 DEF DeleteExtraFakePod
  <2>6. CASE DeliverFakePods \/ CollectFakePods \/ ForceDeleteFakePod
    BY <2>6 DEF DeliverFakePods, CollectFakePods, ForceDeleteFakePod
  <2> QED BY <2>1, <2>2, <2>3, <2>4, <2>5, <2>6 DEF HNext
<1> QED BY <1>1, <1>2, <1>4

LEMMA CStepTypes ==
  ASSUME NTypes, CTypes, CNext
  PROVE  CTypes' /\ vn' = vn /\ vc' = vc /\ changes' \in 0..MaxChange /\ errors' \in 0..MaxError
<1> USE DEF CTypes
<1>1. vn' = vn /\ vc' = vc
  BY DEF CNext, ProcessCSINode, SkipCSINode, DeleteVirtualCSINode, CreateOrUpdateVirtualCSINode, CFail,
     ChangeCSINode, ForeignCSINode, DeliverCSINode, DeliverVirtualCSINode, nvars
<1>2. changes' \in 0..MaxChange /\ errors' \in 0..MaxError
  BY ChangeTypes, ErrorTypes DEF NTypes, CNext, ProcessCSINode, SkipCSINode, DeleteVirtualCSINode,
     CreateOrUpdateVirtualCSINode, CFail, ChangeCSINode, ForeignCSINode, DeliverCSINode,
     DeliverVirtualCSINode, nvars
<1>3. \A n \in Nat : NoCSINode(n) \in CSINodesOf
  BY DEF NoCSINode, CSINodesOf
<1>4. CIdle \in CFlights
  BY <1>3 DEF CIdle, CFlights
<1>5. \A ok \in BOOLEAN : CReturn(ok) => cq' \in BOOLEAN /\ cfl' \in CFlights
  BY <1>4 DEF CReturn
<1>6. CTypes'
  <2>1. CASE ProcessCSINode
    <3>1. [CIdle EXCEPT !.at = "delete", !.obj = vcsc] \in CFlights
      BY <1>4 DEF CFlights
    <3>2. [at |-> "write", obj |-> vcsc, drivers |-> csc] \in CFlights
      BY DEF CFlights
    <3>3. cfl' \in CFlights
      BY <2>1, <3>1, <3>2, <1>4 DEF ProcessCSINode
    <3> QED BY <2>1, <3>3 DEF ProcessCSINode
  <2>8. CASE SkipCSINode
    BY <2>8 DEF SkipCSINode
  <2>2. CASE DeleteVirtualCSINode
    <3>1. vcs' \in CSINodesOf
      BY <2>2, <1>3 DEF DeleteVirtualCSINode, CSINodesOf
    <3>2. cq' \in BOOLEAN /\ cfl' \in CFlights
      BY <2>2, <1>5 DEF DeleteVirtualCSINode
    <3> QED BY <2>2, <3>1, <3>2 DEF DeleteVirtualCSINode
  <2>3. CASE CreateOrUpdateVirtualCSINode
    <3>1. vcs' \in CSINodesOf
      <4>1. cfl.drivers \in Drivers \union {None} /\ vcs.uid \in Nat
        BY DEF CFlights, CSINodesOf
      <4>2. \A n \in Nat : [kind |-> "ours", drivers |-> cfl.drivers, uid |-> n] \in CSINodesOf
        BY <4>1 DEF CSINodesOf
      <4> DEFINE n == IF vcs.kind = "none" THEN vcs.uid + 1 ELSE vcs.uid
      <4>3. n \in Nat
        BY <4>1
      <4>4. vcs' = [kind |-> "ours", drivers |-> cfl.drivers, uid |-> n] \/ vcs' = vcs
        BY <2>3 DEF CreateOrUpdateVirtualCSINode
      <4> HIDE DEF n
      <4> QED BY <4>2, <4>3, <4>4
    <3>2. cq' \in BOOLEAN /\ cfl' \in CFlights
      BY <2>3, <1>5 DEF CreateOrUpdateVirtualCSINode
    <3> QED BY <2>3, <3>1, <3>2 DEF CreateOrUpdateVirtualCSINode
  <2>4. CASE CFail
    BY <2>4, <1>5 DEF CFail
  <2>5. CASE ForeignCSINode
    <3>1. vcs' \in CSINodesOf
      BY <2>5 DEF ForeignCSINode, CSINodesOf
    <3> QED BY <2>5, <3>1 DEF ForeignCSINode
  <2>6. CASE ChangeCSINode \/ DeliverCSINode
    BY <2>6 DEF ChangeCSINode, DeliverCSINode
  <2>7. CASE DeliverVirtualCSINode
    <3>1. vcsc' \in CSINodesOf
      BY <2>7, <1>3 DEF DeliverVirtualCSINode, CSINodesOf
    <3>2. cq' \in BOOLEAN
      BY <2>7 DEF DeliverVirtualCSINode, AddedCSINode
    <3> QED BY <2>7, <3>1, <3>2 DEF DeliverVirtualCSINode
  <2> QED BY <2>1, <2>2, <2>3, <2>4, <2>5, <2>6, <2>7, <2>8 DEF CNext
<1> QED BY <1>1, <1>2, <1>6

LEMMA WStepTypes ==
  ASSUME NTypes, WTypes, WNext(making)
  PROVE  WTypes' /\ vn' \in VNodes /\ vc' = vc /\ changes' \in 0..MaxChange /\ errors' \in 0..MaxError
<1> USE DEF WTypes
<1>2. vc' = vc /\ changes' \in 0..MaxChange /\ errors' \in 0..MaxError
  BY ChangeTypes, ErrorTypes DEF NTypes, WNext, SyncProxierPod, UpdateVNodeIP, WFail, ProxierPhase,
     DeliverProxier, nvars
<1>3. WIdle \in WFlights /\ WIdle.attempt = 0
  BY DEF WIdle, WFlights, MaxRetries
<1>4. AttemptFails => wfl' \in WFlights /\ wq' \subseteq Proxiers /\ missed' \in BOOLEAN
  <2>1. wfl.attempt < MaxRetries => [wfl EXCEPT !.attempt = wfl.attempt + 1] \in WFlights
    BY DEF WFlights, MaxRetries
  <2> QED BY <1>3, <2>1 DEF AttemptFails
<1>5. ASSUME NEW p \in Proxiers, NEW ok \in BOOLEAN, WReturn(p, ok)
      PROVE  wfl' \in WFlights /\ wq' \subseteq Proxiers
  BY <1>3, <1>5 DEF WReturn
<1>6. CASE SyncProxierPod(making)
  <2>1. missed' \in BOOLEAN
    BY <1>6 DEF SyncProxierPod, NTypes, VNodes
  <2>2. wfl' \in WFlights /\ wq' \subseteq Proxiers
    <3>1. PICK p \in wq :
            \/ WReturn(p, TRUE) \/ WReturn(p, FALSE)
            \/ /\ \E t \in RunningProxiers(pxc) :
                    wfl' = [at |-> "patch", pod |-> p, target |-> t, attempt |-> 1]
               /\ wq' = wq \ {p}
      BY <1>6 DEF SyncProxierPod
    <3>2. CASE WReturn(p, TRUE) \/ WReturn(p, FALSE)
      BY <3>2, <1>5
    <3>3. ASSUME NEW t \in RunningProxiers(pxc),
                 wfl' = [at |-> "patch", pod |-> p, target |-> t, attempt |-> 1], wq' = wq \ {p}
          PROVE  wfl' \in WFlights /\ wq' \subseteq Proxiers
      BY <3>3, RunningTypes DEF WFlights, MaxRetries
    <3> QED BY <3>1, <3>2, <3>3
  <2>3. vn' = vn /\ px' = px /\ pxc' = pxc
    BY <1>6 DEF SyncProxierPod, nvars
  <2> QED BY <1>2, <2>1, <2>2, <2>3 DEF NTypes
<1>7. CASE UpdateVNodeIP
  <2>1. vn' \in VNodes
    BY <1>7 DEF UpdateVNodeIP, NTypes, VNodes, WFlights
  <2>2. wfl' \in WFlights /\ wq' \subseteq Proxiers /\ missed' \in BOOLEAN
    BY <1>7, <1>3, <1>4 DEF UpdateVNodeIP
  <2> QED BY <1>2, <1>7, <2>1, <2>2 DEF UpdateVNodeIP
<1>8. CASE WFail
  BY <1>2, <1>4, <1>8 DEF WFail, NTypes
<1>9. ASSUME NEW p \in Proxiers, ProxierPhase(p) \/ DeliverProxier(p)
      PROVE  WTypes' /\ vn' \in VNodes
  <2>1. px' \in [Proxiers -> Phases] /\ pxc' \in [Proxiers -> Phases]
    BY <1>9 DEF ProxierPhase, DeliverProxier, NextPhases, Phases
  <2>2. wq' \subseteq Proxiers /\ wfl' = wfl /\ missed' = missed /\ vn' = vn
    BY <1>9 DEF ProxierPhase, DeliverProxier, nvars
  <2> QED BY <2>1, <2>2 DEF NTypes
<1> QED BY <1>2, <1>6, <1>7, <1>8, <1>9 DEF WNext

LEMMA TypeStep ==
  TypeInv /\ [Next]_vars => TypeInv'
<1> SUFFICES ASSUME TypeInv, [Next]_vars PROVE TypeInv'
  OBVIOUS
<1>0. NTypes /\ HTypes /\ CTypes /\ WTypes
  BY DEF TypeInv
<1>1. CASE UNCHANGED vars
  BY <1>1 DEF vars, nvars, hvars, cvars, wvars, TypeInv, NTypes, HTypes, CTypes, WTypes, Numbered
<1>2. CASE NodeRead \/ NodeCreate \/ NodeUpdate \/ NodeDelete \/ DeliverVirtualNode
  BY <1>2, NodeStepTypes
<1>3. CASE HNext /\ UNCHANGED <<cvars, wvars, making>>
  <2>1. HTypes' /\ vn' = vn /\ vc' = vc /\ changes' \in 0..MaxChange /\ errors' \in 0..MaxError
    BY <1>0, <1>3, HStepTypes
  <2> QED BY <1>0, <1>3, <2>1 DEF TypeInv, NTypes, CTypes, WTypes, cvars, wvars
<1>4. CASE CNext /\ UNCHANGED <<hvars, wvars, making>>
  <2>1. CTypes' /\ vn' = vn /\ vc' = vc /\ changes' \in 0..MaxChange /\ errors' \in 0..MaxError
    BY <1>0, <1>4, CStepTypes
  <2> QED BY <1>0, <1>4, <2>1 DEF TypeInv, NTypes, HTypes, WTypes, hvars, wvars, Numbered
<1>5. CASE WNext(making) /\ UNCHANGED <<hvars, cvars, making>>
  <2>1. WTypes' /\ vn' \in VNodes /\ vc' = vc /\ changes' \in 0..MaxChange /\ errors' \in 0..MaxError
    BY <1>0, <1>5, WStepTypes
  <2> QED BY <1>0, <1>5, <2>1 DEF TypeInv, NTypes, HTypes, CTypes, hvars, cvars, Numbered
<1> QED BY <1>1, <1>2, <1>3, <1>4, <1>5 DEF Next

LEMMA TypeInit == Init => TypeInv
<1> SUFFICES ASSUME Init PROVE TypeInv
  OBVIOUS
<1>1. NTypes
  <2>1. vn \in VNodes
    <3>1. PICK ip \in ProxierPodIP(px) : vn \in {NoVNode(0), [on |-> TRUE, uid |-> 1, ip |-> ip]}
      BY DEF Init
    <3>2. ip \in Proxiers \union {None}
      BY RunningTypes
    <3>3. [on |-> TRUE, uid |-> 1, ip |-> ip] \in VNodes
      BY <3>2 DEF VNodes
    <3> QED BY <3>1, <3>3, NodeTypes
  <2> QED BY <2>1, Bounds, NodeTypes DEF Init, NTypes, NotMaking
<1>2. HTypes
  <2>1. HIdle \in HFlights /\ HIdle.id = 0 /\ HIdle.todo = {}
    BY Bounds DEF HIdle, HFlights
  <2>2. hfl = HIdle /\ nfake = 0 /\ fake = {} /\ fakec = {}
    BY DEF Init, HInit
  <2>3. /\ label \in BOOLEAN /\ labelc \in BOOLEAN /\ ports \in PortSets /\ portsc \in PortSets
        /\ hq \in BOOLEAN /\ hmisled \in BOOLEAN
    BY DEF Init, HInit
  <2> QED BY <2>1, <2>2, <2>3 DEF HTypes, Numbered
<1>3. CTypes
  BY DEF Init, CInit, CTypes, CIdle, NoCSINode, CSINodesOf, CFlights
<1>4. WTypes
  <2>1. WIdle \in WFlights
    BY DEF WIdle, WFlights, MaxRetries
  <2> QED BY <2>1, RunningTypes DEF Init, WInit, WTypes, Phases
<1> QED BY <1>1, <1>2, <1>3, <1>4 DEF TypeInv

\* The values of the variables stay in their sets, whatever the bounds.
THEOREM FollowersTypeCorrect == Spec => []TypeOK
<1>1. TypeInv => TypeOK
  BY DEF TypeInv, NTypes, HTypes, CTypes, WTypes, TypeOK, HFlights, CFlights, WFlights, Phases
<1> QED BY <1>1, TypeInit, TypeStep, PTL DEF Spec
----------------------------------------------------------------------------
(* The CSINode controller.                                                 *)

CInv == COwn /\ CAgrees

\* A step that leaves the controller alone, and shows it no node come or go.
LEMMA CFrame ==
  ASSUME CInv, UNCHANGED cvars, vc'.on = vc.on
  PROVE  CInv'
BY DEF CInv, cvars, COwn, Older, CAgrees, CDelete

\* The node comes or goes in the cache: the CSINode is queued.
LEMMA CToldHolds ==
  ASSUME TypeInv, CInv, CTold(NextSeen), vc' = NextSeen, UNCHANGED <<cs, csc, vcs, vcsc, cfl, cskip>>
  PROVE  CInv'
<1>1. cq \in BOOLEAN
  BY DEF TypeInv, CTypes
<1>2. COwn'
  BY DEF CInv, COwn, Older
<1>3. ~cq' => ~cq /\ vc'.on = vc.on
  BY <1>1 DEF CTold
<1>4. CAgrees'
  BY <1>3 DEF CInv, CAgrees, CDelete
<1> QED BY <1>2, <1>4 DEF CInv

LEMMA CIdleValues ==
  /\ CIdle.at = "idle" /\ CIdle.obj = NoCSINode(0)
  /\ \A n : NoCSINode(n).kind = "none" /\ NoCSINode(n).uid = n
BY DEF CIdle, NoCSINode

LEMMA CTypesUse ==
  ASSUME TypeInv
  PROVE  /\ vcs \in CSINodesOf /\ vcsc \in CSINodesOf /\ cq \in BOOLEAN /\ cfl \in CFlights
         /\ vcs.uid \in Nat /\ vcsc.uid \in Nat /\ cfl.obj.uid \in Nat
         /\ vcs.kind \in {"none", "ours", "foreign"} /\ vcsc.kind \in {"none", "ours", "foreign"}
         /\ cfl.obj.kind \in {"none", "ours", "foreign"} /\ cfl.at \in {"idle", "delete", "write"}
BY DEF TypeInv, CTypes, CSINodesOf, CFlights

LEMMA ProcessHolds ==
  ASSUME TypeInv, CInv, ProcessCSINode
  PROVE  CInv'
<1>1. /\ vcs' = vcs /\ vcsc' = vcsc /\ csc' = csc /\ vc' = vc
      /\ cfl.at = "idle"
  BY CIdleValues DEF ProcessCSINode, nvars
<1>2. Older(vcsc) /\ Older(cfl.obj) /\ Older(CIdle.obj)
  BY CTypesUse, CIdleValues DEF CInv, COwn, Older
<1>3. CASE /\ vcsc.kind = "foreign" \/ (CDelete /\ vcsc.kind = "none")
           /\ cfl' = CIdle
  <2>1. COwn'
    BY <1>1, <1>2, <1>3, CIdleValues DEF COwn, Older
  <2>2. vcsc.kind = "foreign" => vcs.kind = "foreign"
    BY <1>2 DEF Older
  <2>3. CAgrees'
    BY <1>1, <1>3, <2>2, CIdleValues DEF CAgrees, CDelete
  <2> QED BY <2>1, <2>3 DEF CInv
<1>4. CASE CDelete /\ vcsc.kind = "ours" /\ cfl' = [CIdle EXCEPT !.at = "delete", !.obj = vcsc]
  <2>1. cfl' = [at |-> "delete", obj |-> vcsc, drivers |-> None]
    BY <1>4 DEF CIdle
  <2>2. COwn'
    BY <1>1, <1>2, <1>4, <2>1 DEF COwn, Older
  <2>3. CAgrees'
    BY <1>1, <1>4, <2>1 DEF CAgrees, CDelete
  <2> QED BY <2>2, <2>3 DEF CInv
<1>5. CASE /\ vcsc.kind # "foreign" /\ ~CDelete
           /\ cfl' = [at |-> "write", obj |-> vcsc, drivers |-> csc]
  <2>1. COwn'
    BY <1>1, <1>2, <1>5 DEF COwn, Older
  <2>2. CAgrees'
    BY <1>1, <1>5 DEF CAgrees, CDelete
  <2> QED BY <2>1, <2>2 DEF CInv
<1>6. /\ vcsc.kind \in {"none", "ours", "foreign"}
      /\ cfl' = CASE vcsc.kind = "foreign" \/ (CDelete /\ vcsc.kind = "none") -> CIdle
                  [] CDelete /\ vcsc.kind = "ours" -> [CIdle EXCEPT !.at = "delete", !.obj = vcsc]
                  [] OTHER -> [at |-> "write", obj |-> vcsc, drivers |-> csc]
  BY CTypesUse DEF ProcessCSINode
<1>7. CASE vcsc.kind = "foreign" \/ (CDelete /\ vcsc.kind = "none")
  <2>1. cfl' = CIdle
    BY <1>6, <1>7
  <2> QED BY <1>3, <1>7, <2>1
<1>8. CASE CDelete /\ vcsc.kind = "ours"
  <2>1. cfl' = [CIdle EXCEPT !.at = "delete", !.obj = vcsc]
    BY <1>6, <1>8
  <2> QED BY <1>4, <1>8, <2>1
<1>9. CASE vcsc.kind # "foreign" /\ ~CDelete
  <2>1. cfl' = [at |-> "write", obj |-> vcsc, drivers |-> csc]
    BY <1>6, <1>9
  <2> QED BY <1>5, <1>9, <2>1
<1> QED BY <1>6, <1>7, <1>8, <1>9

\* Equal to what is to be written, and not old: it agrees.
LEMMA SkipHolds ==
  ASSUME TypeInv, CInv, SkipCSINode
  PROVE  CInv' /\ vcs' = vcs
<1>1. /\ vcs' = vcs /\ vcsc' = vcsc /\ csc' = csc /\ vc' = vc /\ cfl' = cfl /\ cfl = CIdle
      /\ ~CDelete /\ vcsc.kind = "ours" /\ vcsc.drivers = csc /\ (cskip' <=> vcsc # vcs)
  BY DEF SkipCSINode, nvars
<1>2. COwn'
  BY <1>1 DEF CInv, COwn, Older
<1>3. CAgrees'
  BY <1>1, CIdleValues DEF CAgrees, CDelete
<1> QED BY <1>1, <1>2, <1>3 DEF CInv

LEMMA DeleteCSINodeHolds ==
  ASSUME TypeInv, CInv, DeleteVirtualCSINode
  PROVE  CInv' /\ (vcs.kind = "foreign" => vcs' = vcs)
<1>1. /\ vcsc' = vcsc /\ csc' = csc /\ vc' = vc /\ cfl.at = "delete" /\ cfl' = CIdle
      /\ cskip' = cskip
  BY DEF DeleteVirtualCSINode, CReturn, nvars
<1>2. Older(vcsc) /\ Older(cfl.obj) /\ cfl.obj.kind = "ours"
  BY <1>1 DEF CInv, COwn
<1>3. CASE vcs.kind = "none" \/ vcs.uid = cfl.obj.uid
  <2>1. vcs' = NoCSINode(vcs.uid) /\ cq' = cq
    BY <1>3, CTypesUse DEF DeleteVirtualCSINode, CReturn
  <2>2. vcs.kind # "foreign"
    BY <1>2, <1>3 DEF Older
  <2>3. vcsc.kind # "foreign"
    BY <1>2, <2>2 DEF Older
  <2>4. COwn'
    BY <1>1, <1>2, <2>1, <2>3, CIdleValues, CTypesUse DEF COwn, Older
  <2>5. CAgrees'
    BY <1>1, <2>1, <2>2, CIdleValues DEF CInv, CAgrees, CDelete
  <2> QED BY <2>2, <2>4, <2>5 DEF CInv
<1>4. CASE ~(vcs.kind = "none" \/ vcs.uid = cfl.obj.uid)
  <2>1. vcs' = vcs /\ cq'
    BY <1>4 DEF DeleteVirtualCSINode, CReturn
  <2>2. COwn'
    BY <1>1, <1>2, <2>1, CIdleValues, CTypesUse DEF COwn, Older
  <2> QED BY <2>1, <2>2 DEF CInv, CAgrees
<1> QED BY <1>3, <1>4

LEMMA WriteCSINodeHolds ==
  ASSUME TypeInv, CInv, CreateOrUpdateVirtualCSINode
  PROVE  CInv' /\ (vcs.kind = "foreign" => vcs' = vcs)
<1>1. /\ vcsc' = vcsc /\ csc' = csc /\ vc' = vc /\ cfl.at = "write" /\ cfl' = CIdle
      /\ cskip' = cskip
  BY DEF CreateOrUpdateVirtualCSINode, CReturn, nvars
<1>2. Older(vcsc) /\ Older(cfl.obj) /\ cfl.obj.kind # "foreign"
  BY DEF CInv, COwn
<1>3. CASE vcs = cfl.obj \/ (vcs.kind = "none" /\ cfl.obj.kind = "none")
  <2>1. /\ vcs'.kind = "ours" /\ vcs'.drivers = cfl.drivers /\ cq' = cq
        /\ vcs'.uid = IF vcs.kind = "none" THEN vcs.uid + 1 ELSE vcs.uid
    BY <1>3, CTypesUse DEF CreateOrUpdateVirtualCSINode, CReturn
  <2>2. vcs.kind # "foreign"
    BY <1>2, <1>3
  <2>3. vcsc.kind # "foreign"
    BY <1>2, <2>2 DEF Older
  <2>4. vcsc.uid <= vcs'.uid
    BY <1>2, <2>1, CTypesUse DEF Older
  <2>5. COwn'
    BY <1>1, <2>1, <2>3, <2>4, CIdleValues, CTypesUse DEF COwn, Older
  <2>6. CAgrees'
    BY <1>1, <2>1, <2>2, CIdleValues DEF CInv, CAgrees, CDelete
  <2> QED BY <2>2, <2>5, <2>6 DEF CInv
<1>4. CASE ~(vcs = cfl.obj \/ (vcs.kind = "none" /\ cfl.obj.kind = "none"))
  <2>1. vcs' = vcs /\ cq'
    BY <1>4 DEF CreateOrUpdateVirtualCSINode, CReturn
  <2>2. COwn'
    BY <1>1, <1>2, <2>1, CIdleValues, CTypesUse DEF COwn, Older
  <2> QED BY <2>1, <2>2 DEF CInv, CAgrees
<1> QED BY <1>3, <1>4

LEMMA CNextHolds ==
  ASSUME TypeInv, CInv, CNext
  PROVE  CInv' /\ (vcs.kind = "foreign" => vcs' = vcs)
<1>1. CASE ProcessCSINode
  BY <1>1, ProcessHolds DEF ProcessCSINode
<1>8. CASE SkipCSINode
  BY <1>8, SkipHolds
<1>2. CASE DeleteVirtualCSINode \/ CreateOrUpdateVirtualCSINode
  BY <1>2, DeleteCSINodeHolds, WriteCSINodeHolds
<1>3. CASE CFail
  <2>1. cfl' = CIdle /\ cq' /\ vcs' = vcs /\ vcsc' = vcsc
    BY <1>3 DEF CFail, CReturn
  <2>2. COwn'
    BY <2>1, CIdleValues, CTypesUse DEF CInv, COwn, Older
  <2> QED BY <2>1, <2>2 DEF CInv, CAgrees
<1>4. CASE ChangeCSINode
  BY <1>4 DEF ChangeCSINode, CInv, COwn, Older, CAgrees, CDelete
<1>5. CASE ForeignCSINode
  <2>1. /\ vcs'.kind = "foreign" /\ vcs'.uid = vcs.uid + 1 /\ vcs.kind = "none"
        /\ vcsc' = vcsc /\ cfl' = cfl
    BY <1>5 DEF ForeignCSINode
  <2>2. COwn'
    BY <2>1, CTypesUse DEF CInv, COwn, Older
  <2> QED BY <2>1, <2>2 DEF CInv, CAgrees
<1>6. CASE DeliverCSINode
  BY <1>6 DEF DeliverCSINode, CInv, COwn, Older, CAgrees
<1>7. CASE DeliverVirtualCSINode
  <2>1. /\ vcs' = vcs /\ cfl' = cfl /\ csc' = csc /\ vc' = vc /\ cskip' = cskip
        /\ vcsc' = IF vcsc.kind # "none" /\ vcsc.uid # vcs.uid THEN NoCSINode(vcsc.uid) ELSE vcs
        /\ cq' = (cq \/ AddedCSINode(vcsc'))
    BY <1>7 DEF DeliverVirtualCSINode, nvars
  <2>2. Older(vcsc) /\ Older(cfl.obj)
    BY DEF CInv, COwn
  <2>3. vcsc'.uid <= vcs.uid /\ (vcsc'.kind = "foreign" => vcs.kind = "foreign")
        /\ (vcsc'.kind = "ours" => vcs.kind = "ours")
    BY <2>1, <2>2, CIdleValues, CTypesUse DEF Older
  <2>4. COwn'
    BY <2>1, <2>2, <2>3 DEF CInv, COwn, Older
  <2>5. ~cq' => ~cq /\ ~(vcsc'.kind = "ours" /\ vcsc.kind = "none")
    BY <2>1, CTypesUse DEF AddedCSINode
  <2>6. vcsc'.kind = "ours" /\ vcsc.kind = "ours" => vcsc.uid = vcs.uid
    BY <2>1, CIdleValues
  <2>7. vcsc.kind = "foreign" => vcs.kind = "foreign"
    BY <2>2 DEF Older
  <2>8. CAgrees'
    BY <2>1, <2>5, <2>6, <2>7, CTypesUse DEF CInv, CAgrees, CDelete
  <2> QED BY <2>1, <2>4, <2>8 DEF CInv
<1> QED BY <1>1, <1>2, <1>3, <1>4, <1>5, <1>6, <1>7, <1>8 DEF CNext

LEMMA CStep ==
  ASSUME TypeInv, CInv, [Next]_vars
  PROVE  CInv' /\ (vcs.kind = "foreign" => vcs' = vcs)
<1>1. CASE UNCHANGED vars
  BY <1>1, CFrame DEF vars, nvars, cvars
<1>2. CASE NodeRead \/ NodeCreate \/ NodeUpdate \/ NodeDelete
  BY <1>2, CFrame DEF NodeRead, NodeCreate, NodeUpdate, NodeDelete, cvars
<1>3. CASE DeliverVirtualNode
  BY <1>3, CToldHolds DEF DeliverVirtualNode
<1>4. CASE HNext /\ UNCHANGED <<cvars, wvars, making>>
  <2>1. vc' = vc
    BY <1>4, HStepTypes DEF TypeInv
  <2> QED BY <1>4, <2>1, CFrame DEF cvars
<1>5. CASE CNext
  BY <1>5, CNextHolds
<1>6. CASE WNext(making) /\ UNCHANGED <<hvars, cvars, making>>
  <2>1. vc' = vc
    BY <1>6, WStepTypes DEF TypeInv
  <2> QED BY <1>6, <2>1, CFrame DEF cvars
<1> QED BY <1>1, <1>2, <1>3, <1>4, <1>5, <1>6 DEF Next

LEMMA CInitHolds == Init => CInv
<1> SUFFICES ASSUME Init PROVE CInv
  OBVIOUS
<1>1. /\ csc = cs /\ vcs = NoCSINode(0) /\ vcsc = NoCSINode(0) /\ cq = (cs # None) /\ cfl = CIdle
  BY DEF Init, CInit
<1>2. COwn
  BY <1>1, CIdleValues DEF COwn, Older
<1>3. CAgrees
  BY <1>1, CIdleValues DEF CAgrees, CDelete
<1> QED BY <1>2, <1>3 DEF CInv

LEMMA CInvInvariant == Spec => [](TypeInv /\ CInv)
BY TypeInit, TypeStep, CInitHolds, CStep, PTL DEF Spec

\* The virtual CSINode agrees with the physical one and the node when the controller has
\* nothing left to do, however its reconciles raced with node and CSINodes.
THEOREM CSINodesAgree == Spec => []CSINodeFollows
<1>1. TypeInv /\ CInv => CSINodeFollows
  BY CTypesUse, CIdleValues DEF CInv, CAgrees, CDelete, CSINodeFollows, NodeAtRest
<1> QED BY <1>1, CInvInvariant, PTL

\* A CSINode of somebody else is never changed or deleted.
THEOREM ForeignCSINodeKept == Spec => ForeignKept
<1>1. TypeInv /\ CInv /\ [Next]_vars => [vcs.kind = "foreign" => vcs' = vcs]_vars
  BY CStep
<1> QED BY <1>1, CInvInvariant, PTL DEF Spec, ForeignKept
----------------------------------------------------------------------------
(* The proxier watch controller.                                           *)

WInv == Phased /\ WAgrees /\ UidsGrow

LEMMA WTypesUse ==
  ASSUME TypeInv
  PROVE  /\ px \in [Proxiers -> Phases] /\ pxc \in [Proxiers -> Phases] /\ wq \subseteq Proxiers
         /\ wfl.at \in {"idle", "patch"} /\ wfl.target \in Proxiers \union {None}
         /\ wfl.attempt \in 0..MaxRetries /\ wfl \in WFlights
         /\ vn \in VNodes /\ vc \in VNodes /\ vn.uid \in Nat /\ vc.uid \in Nat
         /\ vn.ip \in Proxiers \union {None} /\ vc.ip \in Proxiers \union {None}
         /\ making.ip \in Proxiers \union {None}
         /\ vn.on \in BOOLEAN /\ vc.on \in BOOLEAN /\ making.on \in BOOLEAN
BY DEF TypeInv, NTypes, WTypes, WFlights, VNodes

LEMMA NodeValues ==
  /\ \A n : ~NoVNode(n).on /\ NoVNode(n).uid = n /\ NoVNode(n).ip = None
  /\ ~NotMaking.on /\ NotMaking.ip = None
  /\ WIdle.at = "idle" /\ WIdle.target = None
BY DEF NoVNode, NotMaking, WIdle

LEMMA RunningGood ==
  /\ None \notin Proxiers
  /\ \A ip \in RunningProxiers(pxc) : ip \in Proxiers /\ pxc[ip] = "running"
  /\ \A ip \in RunningProxiers(pxc) : Good(ip) /\ WasRunning(ip)
  /\ \A ip \in ProxierPodIP(pxc) : Good(ip) /\ WasRunning(ip)
  /\ Good(None) /\ WasRunning(None)
BY ProxierAssumption DEF RunningProxiers, ProxierPodIP, Good, WasRunning

\* A step of the other controllers.
LEMMA WFrame ==
  ASSUME WInv, UNCHANGED <<wvars, making, vn, vc>>
  PROVE  WInv'
BY DEF WInv, Phased, WasRunning, WAgrees, Good, RunningProxiers, UidsGrow, wvars

LEMMA WNodeHolds ==
  ASSUME TypeInv, WInv, NodeRead \/ NodeCreate \/ NodeUpdate \/ NodeDelete \/ DeliverVirtualNode
  PROVE  WInv'
<1>0. /\ px' = px /\ pxc' = pxc /\ wq' = wq /\ wfl' = wfl /\ missed' = missed
      /\ RunningProxiers(pxc)' = RunningProxiers(pxc)
  BY DEF NodeRead, NodeCreate, NodeUpdate, NodeDelete, DeliverVirtualNode, wvars, RunningProxiers
<1>1. CASE NodeRead
  <2>1. /\ making'.ip \in ProxierPodIP(pxc) /\ vn' = vn /\ vc' = vc
    BY <1>1 DEF NodeRead
  <2>2. Phased' /\ UidsGrow'
    BY <1>0, <2>1, RunningGood DEF WInv, Phased, WasRunning, UidsGrow
  <2>3. WAgrees'
    BY <1>0, <2>1, RunningGood DEF WInv, WAgrees, Good
  <2> QED BY <2>2, <2>3 DEF WInv
<1>2. CASE NodeCreate
  <2>1. /\ making' = NotMaking /\ making.on /\ vc' = vc
        /\ vn' = vn \/ (vn'.on /\ vn'.ip = making.ip /\ vn'.uid = vn.uid + 1)
    BY <1>2 DEF NodeCreate
  <2>2. Phased' /\ UidsGrow'
    BY <1>0, <2>1, NodeValues, WTypesUse DEF WInv, Phased, WasRunning, UidsGrow
  <2>3. WAgrees'
    BY <1>0, <2>1, NodeValues DEF WInv, WAgrees, Good
  <2> QED BY <2>2, <2>3 DEF WInv
<1>3. CASE NodeUpdate
  <2>1. /\ vn'.ip \in RunningProxiers(pxc) /\ vn'.on = vn.on /\ vn'.uid = vn.uid
        /\ vc' = vc /\ making' = making
    BY <1>3, WTypesUse DEF NodeUpdate, VNodes
  <2>2. Phased' /\ UidsGrow'
    BY <1>0, <2>1, RunningGood DEF WInv, Phased, WasRunning, UidsGrow
  <2>3. WAgrees'
    BY <1>0, <2>1, RunningGood DEF WInv, WAgrees, Good
  <2> QED BY <2>2, <2>3 DEF WInv
<1>4. CASE NodeDelete
  <2>1. vn' = NoVNode(vn.uid) /\ vc' = vc /\ making' = making
    BY <1>4 DEF NodeDelete
  <2>2. Phased' /\ UidsGrow'
    BY <1>0, <2>1, NodeValues DEF WInv, Phased, WasRunning, UidsGrow
  <2>3. WAgrees'
    BY <1>0, <2>1, NodeValues DEF WInv, WAgrees, Good
  <2> QED BY <2>2, <2>3 DEF WInv
<1>5. CASE DeliverVirtualNode
  <2>1. vn' = vn /\ making' = making /\ (vc' = vn \/ (vc' = NoVNode(vc.uid) /\ vc.on))
    BY <1>5 DEF DeliverVirtualNode, NextSeen
  <2>2. Phased'
    BY <1>0, <2>1, NodeValues DEF WInv, Phased, WasRunning
  <2>3. UidsGrow'
    BY <2>1, NodeValues, WTypesUse DEF WInv, UidsGrow
  <2>4. WAgrees'
    BY <1>0, <2>1, NodeValues DEF WInv, WAgrees, Good
  <2> QED BY <2>2, <2>3, <2>4 DEF WInv
<1> QED BY <1>1, <1>2, <1>3, <1>4, <1>5

\* An attempt that fails keeps the target, or gives up.
LEMMA AttemptHolds ==
  ASSUME TypeInv, WInv, AttemptFails, UNCHANGED <<vn, vc, px, pxc, making>>
  PROVE  WInv'
<1>0. \A n : [wfl EXCEPT !.attempt = n].at = wfl.at /\ [wfl EXCEPT !.attempt = n].target = wfl.target
  BY WTypesUse DEF WFlights
<1>1. \/ wfl'.at = wfl.at /\ wfl'.target = wfl.target /\ wq' = wq /\ missed' = missed
      \/ wfl' = WIdle /\ missed'
  BY <1>0 DEF AttemptFails
<1>2. RunningProxiers(pxc)' = RunningProxiers(pxc)
  BY DEF RunningProxiers
<1>3. Phased' /\ UidsGrow'
  BY <1>1, NodeValues DEF WInv, Phased, WasRunning, UidsGrow
<1>4. WAgrees'
  BY <1>1, <1>2 DEF WInv, WAgrees, Good
<1> QED BY <1>3, <1>4 DEF WInv

LEMMA SyncProxierPodHolds ==
  ASSUME TypeInv, WInv, SyncProxierPod(making), making' = making
  PROVE  WInv'
<1>0. /\ px' = px /\ pxc' = pxc /\ vn' = vn /\ vc' = vc
      /\ RunningProxiers(pxc)' = RunningProxiers(pxc)
  BY DEF SyncProxierPod, nvars, RunningProxiers
<1>1. ~missed' => ~making.on /\ (vn.on /\ Content => vc.on /\ vc.ip = vn.ip)
  BY DEF SyncProxierPod
<1>2. PICK p \in wq :
        \/ Content /\ WReturn(p, TRUE)
        \/ ~Content /\ RunningProxiers(pxc) = {} /\ WReturn(p, FALSE)
        \/ /\ ~Content
           /\ \E t \in RunningProxiers(pxc) :
                wfl' = [at |-> "patch", pod |-> p, target |-> t, attempt |-> 1]
           /\ wq' = wq \ {p}
  BY DEF SyncProxierPod
<1>3. CASE Content /\ WReturn(p, TRUE)
  <2>1. wfl' = WIdle
    BY <1>3 DEF WReturn
  <2>2. Phased' /\ UidsGrow'
    BY <1>0, <2>1, NodeValues DEF WInv, Phased, WasRunning, UidsGrow
  <2>3. ~missed' /\ vn.on => Good(vn.ip)
    BY <1>1, <1>3 DEF Content, Good
  <2>4. WAgrees'
    BY <1>0, <1>1, <2>1, <2>3, NodeValues DEF WAgrees, Good
  <2> QED BY <2>2, <2>4 DEF WInv
<1>4. CASE WReturn(p, FALSE)
  <2>1. wfl' = WIdle /\ wq' # {}
    BY <1>4 DEF WReturn
  <2>2. Phased' /\ UidsGrow'
    BY <1>0, <2>1, NodeValues DEF WInv, Phased, WasRunning, UidsGrow
  <2> QED BY <2>1, <2>2 DEF WInv, WAgrees
<1>5. ASSUME ~Content, NEW t \in RunningProxiers(pxc),
             wfl' = [at |-> "patch", pod |-> p, target |-> t, attempt |-> 1]
      PROVE  WInv'
  <2>1. wfl'.at = "patch" /\ wfl'.target = t /\ t # None /\ Good(t) /\ WasRunning(t)
    BY <1>5, RunningGood
  <2>2. Phased' /\ UidsGrow'
    BY <1>0, <2>1 DEF WInv, Phased, WasRunning, UidsGrow
  <2>3. WAgrees'
    BY <1>0, <1>1, <1>5, <2>1 DEF WAgrees, Good, Content
  <2> QED BY <2>2, <2>3 DEF WInv
<1> QED BY <1>2, <1>3, <1>4, <1>5

LEMMA UpdateVNodeIPHolds ==
  ASSUME TypeInv, WInv, UpdateVNodeIP, making' = making
  PROVE  WInv'
<1>0. /\ px' = px /\ pxc' = pxc /\ vc' = vc /\ wfl.at = "patch"
      /\ RunningProxiers(pxc)' = RunningProxiers(pxc)
  BY DEF UpdateVNodeIP, RunningProxiers
<1>1. CASE AttemptFails /\ UNCHANGED vn
  BY <1>0, <1>1, AttemptHolds
<1>2. CASE /\ vc.on /\ vc.ip = wfl.target
           /\ wfl' = WIdle /\ UNCHANGED <<vn, wq, missed>>
  <2>1. Phased' /\ UidsGrow'
    BY <1>0, <1>2, NodeValues DEF WInv, Phased, WasRunning, UidsGrow
  <2>2. wq = {} /\ ~missed /\ vn.on => Good(vn.ip)
    BY <1>0, <1>2 DEF WInv, WAgrees, Good
  <2>3. WAgrees'
    BY <1>0, <1>2, <2>2, NodeValues DEF WInv, WAgrees, Good
  <2> QED BY <2>1, <2>3 DEF WInv
<1>3. CASE /\ vn.on /\ vn' = [vn EXCEPT !.ip = wfl.target]
           /\ wfl' = WIdle /\ UNCHANGED <<wq, missed>>
  <2>1. vn'.ip = wfl.target /\ vn'.on = vn.on /\ vn'.uid = vn.uid
    BY <1>3, WTypesUse DEF VNodes
  <2>2. Phased' /\ UidsGrow'
    BY <1>0, <1>3, <2>1, NodeValues DEF WInv, Phased, WasRunning, UidsGrow
  <2>3. WAgrees'
    BY <1>0, <1>3, <2>1, NodeValues DEF WInv, WAgrees, Good
  <2> QED BY <2>2, <2>3 DEF WInv
<1> QED BY <1>1, <1>2, <1>3 DEF UpdateVNodeIP

\* Pods go on, and the cache follows: a pod that goes while its address is in use is queued.
LEMMA ProxierHolds ==
  ASSUME TypeInv, WInv, making' = making, NEW p \in Proxiers, ProxierPhase(p) \/ DeliverProxier(p)
  PROVE  WInv'
<1>0. vn' = vn /\ vc' = vc /\ wfl' = wfl /\ missed' = missed
  BY DEF ProxierPhase, DeliverProxier, nvars
<1>1. UidsGrow'
  BY <1>0 DEF WInv, UidsGrow
<1>2. CASE ProxierPhase(p)
  <2>1. PICK phase \in NextPhases(px[p]) : px' = [px EXCEPT ![p] = phase]
    BY <1>2 DEF ProxierPhase
  <2>2. pxc' = pxc /\ wq' = wq /\ RunningProxiers(pxc)' = RunningProxiers(pxc)
    BY <1>2 DEF ProxierPhase, RunningProxiers
  <2>3. ASSUME NEW q \in Proxiers
        PROVE  /\ px[q] = "running" => px'[q] \in {"running", "gone"}
               /\ px[q] = "gone" => px'[q] = "gone"
    BY <2>1, WTypesUse DEF NextPhases, Phases
  <2>4. Phased'
    BY <1>0, <2>2, <2>3 DEF WInv, Phased, WasRunning
  <2>5. WAgrees'
    BY <1>0, <2>2 DEF WInv, WAgrees, Good
  <2> QED BY <1>1, <2>4, <2>5 DEF WInv
<1>3. CASE DeliverProxier(p)
  <2>1. /\ px' = px /\ pxc' = [pxc EXCEPT ![p] = px[p]]
        /\ wq' = IF ProxierPodEvent(pxc[p], px[p]) THEN wq \union {p} ELSE wq
    BY <1>3 DEF DeliverProxier
  <2>2. pxc'[p] = px[p] /\ \A q \in Proxiers : q # p => pxc'[q] = pxc[q]
    BY <2>1, WTypesUse
  <2>3. ASSUME NEW ip \in Proxiers \union {None}, WasRunning(ip) PROVE WasRunning(ip)'
    BY <2>2, <2>3 DEF WInv, Phased, WasRunning
  <2>4. Phased'
    BY <1>0, <2>1, <2>2, <2>3, WTypesUse DEF WInv, Phased
  <2>5. ASSUME wq' = {} PROVE wq = {} /\ ~(pxc[p] = "running" /\ px[p] = "gone")
    BY <2>1, <2>5 DEF ProxierPodEvent
  <2>6. ASSUME wq' = {}, NEW ip, Good(ip) PROVE Good(ip)'
    <3>1. pxc[p] = "running" => pxc'[p] = "running"
      BY <2>2, <2>5, <2>6 DEF WInv, Phased
    <3> QED BY <2>2, <2>6, <3>1 DEF Good, RunningProxiers
  <2>7. ASSUME NEW ip, ip \in RunningProxiers(pxc)', WasRunning(ip), wq' = {}
        PROVE  ip \in RunningProxiers(pxc)
    <3>1. ip \in Proxiers /\ pxc'[ip] = "running"
      BY <2>7 DEF RunningProxiers
    <3>2. pxc[ip] \in {"running", "gone"}
      BY <2>7, <3>1, ProxierAssumption DEF WasRunning
    <3>3. pxc[ip] = "gone" => pxc'[ip] = "gone"
      BY <2>2, <3>1 DEF WInv, Phased
    <3> QED BY <3>1, <3>2, <3>3 DEF RunningProxiers
  <2>8. WAgrees'
    <3> SUFFICES ASSUME wq' = {}, ~missed'
        PROVE /\ making.on => Good(making.ip)'
              /\ wfl.at = "patch" => wfl.target # None /\ Good(wfl.target)'
              /\ vn.on /\ wfl.at = "idle" => Good(vn.ip)'
              /\ vn.on /\ wfl.at = "patch" /\ vc.on /\ vc.ip \in RunningProxiers(pxc)' => Good(vn.ip)'
      BY <1>0 DEF WAgrees
    <3>1. wq = {} /\ ~missed
      BY <1>0, <2>5
    <3>2. vc.ip \in RunningProxiers(pxc)' => vc.ip \in RunningProxiers(pxc)
      BY <2>7 DEF WInv, Phased
    <3>3. /\ Good(making.ip) => Good(making.ip)'
          /\ Good(wfl.target) => Good(wfl.target)'
          /\ Good(vn.ip) => Good(vn.ip)'
      BY <1>0, <2>6 DEF Good
    <3> QED BY <3>1, <3>2, <3>3 DEF WInv, WAgrees
  <2> QED BY <1>1, <2>4, <2>8 DEF WInv
<1> QED BY <1>2, <1>3

LEMMA WStep ==
  ASSUME TypeInv, WInv, [Next]_vars
  PROVE  WInv'
<1>1. CASE UNCHANGED vars
  BY <1>1, WFrame DEF vars, nvars
<1>2. CASE NodeRead \/ NodeCreate \/ NodeUpdate \/ NodeDelete \/ DeliverVirtualNode
  BY <1>2, WNodeHolds
<1>3. CASE HNext /\ UNCHANGED <<cvars, wvars, making>>
  <2>1. vn' = vn /\ vc' = vc
    BY <1>3, HStepTypes DEF TypeInv
  <2> QED BY <1>3, <2>1, WFrame
<1>4. CASE CNext /\ UNCHANGED <<hvars, wvars, making>>
  <2>1. vn' = vn /\ vc' = vc
    BY <1>4, CStepTypes DEF TypeInv
  <2> QED BY <1>4, <2>1, WFrame
<1>5. CASE WNext(making) /\ UNCHANGED <<hvars, cvars, making>>
  <2>1. CASE SyncProxierPod(making) \/ UpdateVNodeIP
    BY <1>5, <2>1, SyncProxierPodHolds, UpdateVNodeIPHolds
  <2>2. CASE WFail
    BY <1>5, <2>2, AttemptHolds DEF WFail
  <2>3. CASE \E p \in Proxiers : ProxierPhase(p) \/ DeliverProxier(p)
    BY <1>5, <2>3, ProxierHolds
  <2> QED BY <1>5, <2>1, <2>2, <2>3 DEF WNext
<1> QED BY <1>1, <1>2, <1>3, <1>4, <1>5 DEF Next

LEMMA WInitHolds == Init => WInv
<1> SUFFICES ASSUME Init PROVE WInv
  OBVIOUS
<1>1. PICK ip \in ProxierPodIP(px) : vn \in {NoVNode(0), [on |-> TRUE, uid |-> 1, ip |-> ip]}
  BY DEF Init
<1>2. pxc = px /\ wfl = WIdle /\ vc = vn /\ making = NotMaking
  BY DEF Init, WInit
<1>3. Good(vn.ip) /\ WasRunning(vn.ip) /\ UidsGrow
  BY <1>1, <1>2, RunningGood, NodeValues DEF UidsGrow
<1>4. Phased
  BY <1>2, <1>3, NodeValues, RunningGood DEF Phased
<1>5. WAgrees
  BY <1>2, <1>3, NodeValues DEF WAgrees
<1> QED BY <1>3, <1>4, <1>5 DEF WInv

LEMMA WInvInvariant == Spec => [](TypeInv /\ WInv)
BY TypeInit, TypeStep, WInitHolds, WStep, PTL DEF Spec

\* The virtual node's address is that of a running proxier, or of none, when the watch
\* controller has nothing left to do and was not misled.
THEOREM AddressAgrees == Spec => []AddressFollows
<1>1. TypeInv /\ WInv => AddressFollows
  BY NodeValues DEF WInv, WAgrees, Good, AddressFollows
<1> QED BY <1>1, WInvInvariant, PTL
----------------------------------------------------------------------------
(* The host port controller.                                               *)

HInv == Distinct /\ Copied /\ Kept /\ HIdleShape /\ HAgrees

LEMMA HTypesUse ==
  ASSUME TypeInv
  PROVE  /\ hfl \in HFlights /\ hq \in BOOLEAN /\ labelc \in BOOLEAN /\ hmisled \in BOOLEAN
         /\ fake \subseteq FakePods /\ fakec \subseteq FakePods
         /\ nfake \in Nat /\ hfl.todo \subseteq 1..nfake
         /\ \A f \in fake \union fakec : f.id \in 1..nfake
         /\ hfl.at \in {"idle", "create", "patch", "delete"}
         /\ vn.on \in BOOLEAN /\ vc.on \in BOOLEAN /\ vn.uid \in Nat /\ vc.uid \in Nat
BY DEF TypeInv, HTypes, HFlights, Numbered, NTypes, VNodes

LEMMA HIdleValues == HIdle.at = "idle" /\ HIdle.ports = {} /\ HIdle.id = 0 /\ HIdle.todo = {}
BY DEF HIdle

\* A step that leaves the controller alone and brings no node, at most takes one away.
LEMMA HFrame ==
  ASSUME HInv, UNCHANGED hvars, SameNode' => SameNode
  PROVE  HInv'
BY DEF HInv, hvars, Distinct, Copied, Kept, Keeps, Live, HIdleShape, HAgrees, Others

LEMMA HNodeHolds ==
  ASSUME TypeInv, HInv, UidsGrow, NodeRead \/ NodeCreate \/ NodeUpdate \/ NodeDelete
  PROVE  HInv'
<1>1. UNCHANGED hvars
  BY DEF NodeRead, NodeCreate, NodeUpdate, NodeDelete
<1>2. SameNode' => SameNode
  <2>1. CASE NodeRead \/ NodeUpdate
    BY <2>1, WTypesUse DEF NodeRead, NodeUpdate, SameNode, VNodes
  <2>2. CASE NodeCreate
    BY <2>2, WTypesUse DEF NodeCreate, SameNode, UidsGrow
  <2>3. CASE NodeDelete
    BY <2>3, NodeValues DEF NodeDelete, SameNode
  <2> QED BY <2>1, <2>2, <2>3
<1> QED BY <1>1, <1>2, HFrame

\* A node that comes in the cache is queued.
LEMMA HDeliverHolds ==
  ASSUME TypeInv, HInv, DeliverVirtualNode
  PROVE  HInv'
<1>1. /\ vn' = vn /\ (vc' = vn \/ ~vc'.on) /\ hq' = (hq \/ (vc'.on /\ ~vc.on))
      /\ vc.on /\ vc.uid # vn.uid => ~vc'.on
      /\ UNCHANGED <<label, labelc, ports, portsc, fake, fakec, nfake, hfl, hmisled>>
  BY NodeValues DEF DeliverVirtualNode, NextSeen, HTold
<1>2. SameNode' /\ ~hq' => SameNode /\ ~hq
  BY <1>1, HTypesUse DEF SameNode
<1>3. Distinct' /\ Copied' /\ Kept' /\ HIdleShape'
  BY <1>1 DEF HInv, Distinct, Copied, Kept, Keeps, Live, HIdleShape
<1>4. HAgrees'
  BY <1>1, <1>2 DEF HInv, HAgrees, Keeps, Others, Live
<1> QED BY <1>3, <1>4 DEF HInv

LEMMA HandleFakePodHolds ==
  ASSUME TypeInv, HInv, HandleFakePod
  PROVE  HInv'
<1>1. /\ fake' = fake /\ fakec' = fakec /\ portsc' = portsc /\ hfl = HIdle
      /\ hmisled' = \/ hfl'.id # 0 /\ \A f \in Live : f.id # hfl'.id
                    \/ \E f \in Live : f.id \notin hfl'.todo \union {hfl'.id}
  BY DEF HandleFakePod
<1>2. Distinct' /\ Copied' /\ Live' = Live
  BY <1>1 DEF HInv, Distinct, Copied, Live
<1>3. ~hmisled' => Others'
  BY <1>1, <1>2 DEF Others
<1>4. CASE portsc = {} /\ hfl' = [HIdle EXCEPT !.at = "delete", !.todo = {f.id : f \in fakec}]
  <2>1. hfl' = [at |-> "delete", ports |-> {}, id |-> 0, todo |-> {f.id : f \in fakec}]
    BY <1>4 DEF HIdle
  <2>2. hfl'.at = "delete" /\ hfl'.ports = {} /\ hfl'.id = 0
    BY <2>1
  <2>3. Kept' /\ HIdleShape' /\ HAgrees'
    BY <1>1, <1>3, <1>4, <2>2 DEF Kept, HIdleShape, HAgrees
  <2> QED BY <1>2, <2>3 DEF HInv
<1>5. CASE /\ portsc # {}
           /\ hfl' = [at |-> "create", ports |-> portsc, id |-> 0, todo |-> {f.id : f \in fakec}]
  <2>1. hfl'.at = "create" /\ hfl'.ports = portsc /\ hfl'.id = 0
    BY <1>5
  <2>2. Kept' /\ HIdleShape' /\ HAgrees'
    BY <1>1, <1>3, <1>5, <2>1 DEF Kept, HIdleShape, HAgrees
  <2> QED BY <1>2, <2>2 DEF HInv
<1>6. ASSUME NEW f \in fakec, portsc # {}, f.ports = portsc,
             hfl' = [at |-> IF f.sched THEN "delete" ELSE "patch", ports |-> portsc,
                     id |-> f.id, todo |-> {g.id : g \in fakec \ {f}}]
      PROVE  HInv'
  <2>1. /\ hfl'.at = (IF f.sched THEN "delete" ELSE "patch") /\ hfl'.ports = portsc
        /\ hfl'.id = f.id /\ hfl'.todo = {g.id : g \in fakec \ {f}}
    BY <1>6
  <2>2. HIdleShape'
    BY <2>1 DEF HIdleShape
  <2>3. f.id \notin hfl'.todo
    BY <2>1 DEF HInv, Distinct
  <2>4. ASSUME ~hmisled' PROVE Keeps'
    <3>1. f.id # 0
      BY HTypesUse
    <3>2. PICK g \in Live : g.id = f.id
      BY <1>1, <2>1, <2>4, <3>1
    <3>3. g \in fake /\ Behind(f, g)
      BY <3>2 DEF Live, HInv, Copied
    <3> QED BY <1>2, <1>6, <2>1, <2>3, <3>2, <3>3 DEF Keeps, Behind
  <2>5. Kept'
    BY <2>4 DEF Kept
  <2>6. HAgrees'
    BY <1>1, <1>3, <1>6, <2>1, <2>4 DEF HAgrees
  <2> QED BY <1>2, <2>2, <2>5, <2>6 DEF HInv
<1> QED BY <1>4, <1>5, <1>6 DEF HandleFakePod

LEMMA CreateFakePodHolds ==
  ASSUME TypeInv, HInv, CreateFakePod
  PROVE  HInv' /\ Reserved \subseteq Reserved'
<1> DEFINE new == Pod(nfake + 1, hfl.ports)
<1>1. /\ hfl.at = "create" /\ fake' = fake \union {new} /\ fakec' = fakec /\ portsc' = portsc
      /\ labelc' = labelc /\ hq' = hq /\ hmisled' = hmisled /\ vn' = vn /\ vc' = vc
  BY DEF CreateFakePod, nvars
<1>2. hfl'.at = "patch" /\ hfl'.id = nfake + 1 /\ hfl'.ports = hfl.ports /\ hfl'.todo = hfl.todo
  BY HTypesUse DEF CreateFakePod, HFlights
<1>3. new.id = nfake + 1 /\ new.ports = hfl.ports /\ ~new.del
  BY DEF Pod
<1> HIDE DEF new
<1>4. \A f \in fake \union fakec : f.id # nfake + 1
  BY HTypesUse
<1>5. nfake + 1 \notin hfl.todo
  BY HTypesUse
<1>6. Distinct' /\ Copied'
  BY <1>1, <1>3, <1>4 DEF HInv, Distinct, Copied
<1>7. Live' = Live \union {new}
  BY <1>1, <1>3 DEF Live
<1>8. Keeps'
  BY <1>2, <1>3, <1>5, <1>7 DEF Keeps
<1>9. Kept' /\ HIdleShape'
  BY <1>2, <1>8 DEF Kept, HIdleShape
<1>10. HAgrees'
  <2> SUFFICES ASSUME SameNode', labelc', ~hq', ~hmisled'
               PROVE  hfl'.ports = portsc' /\ portsc' # {} /\ Keeps' /\ Others'
    BY <1>2 DEF HAgrees
  <2>1. hfl.ports = portsc /\ portsc # {} /\ hfl.id = 0 /\ Others
    BY <1>1 DEF HInv, HAgrees, SameNode
  <2>2. \A f \in Live : f.id # 0
    BY HTypesUse DEF Live
  <2>3. Others'
    BY <1>2, <1>3, <1>7, <2>1, <2>2 DEF Others
  <2> QED BY <1>1, <1>2, <1>8, <2>1, <2>3
<1>11. Reserved \subseteq Reserved'
  BY <1>7 DEF Reserved
<1> QED BY <1>6, <1>9, <1>10, <1>11 DEF HInv

LEMMA PatchFakePodHolds ==
  ASSUME TypeInv, HInv, PatchFakePodScheduledCondition
  PROVE  HInv' /\ Reserved \subseteq Reserved'
<1>1. /\ hfl.at = "patch" /\ portsc' = portsc /\ fakec' = fakec
      /\ labelc' = labelc /\ hmisled' = hmisled /\ vn' = vn /\ vc' = vc
  BY DEF PatchFakePodScheduledCondition, nvars
<1>2. CASE hfl' = HIdle /\ hq' = TRUE /\ fake' = fake
  BY <1>1, <1>2, HIdleValues DEF HInv, Distinct, Copied, Kept, HIdleShape, HAgrees, Reserved, Live
<1>3. ASSUME NEW f \in fake, f.id = hfl.id, fake' = (fake \ {f}) \union {[f EXCEPT !.sched = TRUE]},
             hfl' = [hfl EXCEPT !.at = "delete"], hq' = hq
      PROVE  HInv' /\ Reserved \subseteq Reserved'
  <2> DEFINE g == [f EXCEPT !.sched = TRUE]
  <2>1. hfl'.at = "delete" /\ hfl'.id = hfl.id /\ hfl'.ports = hfl.ports /\ hfl'.todo = hfl.todo
    BY <1>3, HTypesUse DEF HFlights
  <2>2. g.id = f.id /\ g.ports = f.ports /\ g.sched /\ (g.del <=> f.del)
    BY HTypesUse DEF FakePods
  <2> HIDE DEF g
  <2>3. fake' = (fake \ {f}) \union {g}
    BY <1>3 DEF g
  <2>4. \A h \in fake : h.id = hfl.id => h = f
    BY <1>3 DEF HInv, Distinct
  <2>5. Distinct'
    BY <1>1, <2>2, <2>3 DEF HInv, Distinct
  <2>6. Copied'
    BY <1>1, <2>2, <2>3 DEF HInv, Copied, Behind
  <2>7. /\ \A h \in Live : h = f \/ h \in Live'
        /\ \A h \in Live' : h = g \/ h \in Live
        /\ f \in Live <=> g \in Live'
    BY <2>2, <2>3 DEF Live
  <2>8. Keeps => Keeps'
    <3> SUFFICES ASSUME Keeps PROVE Keeps'
      OBVIOUS
    <3>1. f \in Live /\ f.ports = hfl.ports /\ hfl.id \notin hfl.todo
      BY <2>4 DEF Keeps, Live
    <3> QED BY <1>3, <2>1, <2>2, <2>7, <3>1 DEF Keeps
  <2>9. Kept'
    <3>1. hfl.ports # {} /\ ~hmisled => fake = {} \/ Keeps
      BY <1>1 DEF HInv, Kept
    <3> QED BY <1>1, <1>3, <2>1, <2>8, <3>1 DEF Kept
  <2>10. Others => Others'
    BY <1>3, <2>1, <2>2, <2>7 DEF Others
  <2>11. HAgrees'
    BY <1>1, <1>3, <2>1, <2>8, <2>10 DEF HInv, HAgrees, SameNode
  <2>12. Reserved \subseteq Reserved'
    BY <2>2, <2>7 DEF Reserved
  <2>13. HIdleShape'
    BY <2>1 DEF HIdleShape
  <2> QED BY <2>5, <2>6, <2>9, <2>11, <2>12, <2>13 DEF HInv
<1> QED BY <1>2, <1>3 DEF PatchFakePodScheduledCondition

LEMMA DeleteExtraHolds ==
  ASSUME TypeInv, HInv, DeleteExtraFakePod
  PROVE  HInv' /\ (~hmisled => (Reserved \intersect hfl.ports) \subseteq Reserved')
<1>1. /\ hfl.at = "delete" /\ portsc' = portsc /\ fakec' = fakec
      /\ labelc' = labelc /\ hq' = hq /\ hmisled' = hmisled /\ vn' = vn /\ vc' = vc
  BY DEF DeleteExtraFakePod, nvars
<1>2. PICK i \in hfl.todo : /\ fake' = Deleted(i)
                            /\ hfl' = [hfl EXCEPT !.todo = @ \ {i}]
  BY DEF DeleteExtraFakePod
<1>3. /\ hfl'.at = "delete" /\ hfl'.id = hfl.id /\ hfl'.ports = hfl.ports
      /\ hfl'.todo = hfl.todo \ {i}
  BY <1>1, <1>2, HTypesUse DEF HFlights
<1>4. ASSUME NEW f \in fake
      PROVE  LET g == [f EXCEPT !.del = TRUE]
             IN  g.id = f.id /\ g.ports = f.ports /\ (g.sched <=> f.sched) /\ g.del
  BY HTypesUse DEF FakePods
<1>5. \A g \in fake' : \/ g \in fake /\ g.id # i
                       \/ \E f \in fake : /\ f.id = i /\ g = [f EXCEPT !.del = TRUE]
                                          /\ g.id = i /\ g.ports = f.ports /\ g.del
                                          /\ (g.sched <=> f.sched)
  <2> SUFFICES ASSUME NEW g \in fake'
               PROVE  \/ g \in fake /\ g.id # i
                      \/ \E f \in fake : /\ f.id = i /\ g = [f EXCEPT !.del = TRUE]
                                         /\ g.id = i /\ g.ports = f.ports /\ g.del
                                         /\ (g.sched <=> f.sched)
    OBVIOUS
  <2>1. PICK f \in fake : g = IF f.id = i THEN [f EXCEPT !.del = TRUE] ELSE f
    BY <1>2 DEF Deleted
  <2>2. CASE f.id = i
    <3>1. g = [f EXCEPT !.del = TRUE]
      BY <2>1, <2>2
    <3> QED BY <1>4, <2>2, <3>1
  <2>3. CASE f.id # i
    BY <2>1, <2>3
  <2> QED BY <2>2, <2>3
<1>6. \A f \in fake : f.id # i => f \in fake'
  BY <1>2 DEF Deleted
<1>7. Distinct'
  <2>1. ASSUME NEW g \in fake', NEW h \in fake', g.id = h.id PROVE g = h
    <3>1. CASE g.id # i
      BY <1>5, <2>1, <3>1 DEF HInv, Distinct
    <3>2. CASE g.id = i
      <4>1. PICK f \in fake : f.id = i /\ g = [f EXCEPT !.del = TRUE]
        BY <1>5, <3>2
      <4>2. PICK e \in fake : e.id = i /\ h = [e EXCEPT !.del = TRUE]
        BY <1>5, <2>1, <3>2
      <4>3. e = f
        BY <4>1, <4>2 DEF HInv, Distinct
      <4> QED BY <4>1, <4>2, <4>3
    <3> QED BY <3>1, <3>2
  <2> QED BY <1>1, <2>1 DEF HInv, Distinct
<1>8. Copied'
  BY <1>1, <1>5 DEF HInv, Copied, Behind
<1>9. /\ \A f \in Live : f.id # i => f \in Live'
      /\ \A f \in Live' : f \in Live /\ f.id # i
  BY <1>5, <1>6 DEF Live
<1>10. Keeps => Keeps'
  BY <1>1, <1>2, <1>3, <1>9 DEF Keeps
<1>11. fake = {} => fake' = {}
  BY <1>2 DEF Deleted
<1>12. Kept' /\ HIdleShape'
  BY <1>1, <1>3, <1>10, <1>11 DEF HInv, Kept, HIdleShape
<1>13. Others => Others'
  BY <1>3, <1>9 DEF Others
<1>14. HAgrees'
  BY <1>1, <1>3, <1>10, <1>13 DEF HInv, HAgrees, SameNode
<1>15. ASSUME ~hmisled, NEW p \in Reserved, p \in hfl.ports PROVE p \in Reserved'
  <2>1. fake # {} /\ hfl.ports # {}
    BY <1>15 DEF Reserved, Live
  <2>2. Keeps
    BY <1>1, <1>15, <2>1 DEF HInv, Kept
  <2>3. PICK f \in Live : f.id = hfl.id /\ f.ports = hfl.ports /\ hfl.id \notin hfl.todo
    BY <2>2 DEF Keeps
  <2>4. f \in Live' /\ p \in f.ports
    BY <1>9, <1>15, <2>3
  <2> QED BY <2>4 DEF Reserved
<1> QED BY <1>7, <1>8, <1>12, <1>14, <1>15 DEF HInv

\* What is deleted by force was being deleted.
LEMMA ForceDeleteHolds ==
  ASSUME TypeInv, HInv, ForceDeleteFakePod
  PROVE  HInv' /\ Live' = Live
<1>1. UNCHANGED <<vn, vc, labelc, portsc, fakec, hq, hfl, hmisled>>
  BY DEF ForceDeleteFakePod, nvars
<1>2. PICK c \in fakec : c.del /\ fake' = {g \in fake : g.id # c.id}
  BY DEF ForceDeleteFakePod
<1>3. Distinct' /\ Copied'
  BY <1>1, <1>2 DEF HInv, Distinct, Copied
<1>4. Live' = Live
  <2>1. \A g \in fake : g.id = c.id => g.del
    BY <1>2 DEF HInv, Copied, Behind
  <2> QED BY <1>2, <2>1 DEF Live
<1>5. (Keeps' <=> Keeps) /\ (Others' <=> Others)
  BY <1>1, <1>4 DEF Keeps, Others
<1>6. Kept' /\ HIdleShape'
  BY <1>1, <1>2, <1>5 DEF HInv, Kept, HIdleShape
<1>7. HAgrees'
  BY <1>1, <1>4, <1>5 DEF HInv, HAgrees, SameNode
<1> QED BY <1>3, <1>4, <1>6, <1>7 DEF HInv

LEMMA HDoneHolds ==
  ASSUME TypeInv, HInv, HDone
  PROVE  HInv'
<1>1. /\ hfl.at = "delete" /\ hfl.todo = {} /\ hfl' = HIdle /\ UNCHANGED <<portsc, fake, fakec>>
      /\ labelc' = labelc /\ hq' = hq /\ hmisled' = hmisled /\ vn' = vn /\ vc' = vc
  BY DEF HDone, nvars
<1>2. Distinct' /\ Copied' /\ Kept' /\ HIdleShape' /\ Live' = Live
  BY <1>1, HIdleValues DEF HInv, Distinct, Copied, Kept, HIdleShape, Live
<1>3. HAgrees'
  <2> SUFFICES ASSUME SameNode', labelc', ~hq', ~hmisled'
               PROVE  IF portsc = {} THEN Live = {}
                      ELSE \E f \in Live : Live = {f} /\ f.ports = portsc /\ f.sched
    BY <1>1, <1>2, HIdleValues DEF HAgrees
  <2>1. /\ hfl.ports = portsc /\ Others
        /\ portsc # {} => Keeps
        /\ portsc = {} => hfl.id = 0
    BY <1>1 DEF HInv, HAgrees, SameNode
  <2>2. \A g \in Live : g.id = hfl.id /\ g.id # 0 /\ g \in fake
    BY <1>1, <2>1, HTypesUse DEF Others, Live
  <2>3. CASE portsc = {}
    BY <2>1, <2>2, <2>3
  <2>4. CASE portsc # {}
    <3>1. PICK f \in Live : f.id = hfl.id /\ f.ports = portsc /\ f.sched
      BY <1>1, <2>1, <2>4 DEF Keeps
    <3>2. Live = {f}
      BY <2>2, <3>1 DEF HInv, Distinct
    <3> QED BY <2>4, <3>1, <3>2
  <2> QED BY <2>3, <2>4
<1> QED BY <1>2, <1>3 DEF HInv

LEMMA HNextHolds ==
  ASSUME TypeInv, HInv, HNext
  PROVE  HInv' /\ (vn.on /\ ~hmisled => (Reserved \intersect hfl.ports) \subseteq Reserved')
<1> USE DEF HInv, Distinct, Copied, Kept, HIdleShape, HAgrees, Reserved, Live
<1>1. CASE HSkip
  <2>1. /\ UNCHANGED <<nvars, labelc, portsc, fake, fakec, hfl, hmisled>>
        /\ ~labelc \/ ~vc.on
    BY <1>1 DEF HSkip
  <2> QED BY <2>1 DEF nvars, Keeps, SameNode
<1>2. CASE HandleFakePod
  <2>1. fake' = fake
    BY <1>2 DEF HandleFakePod
  <2> HIDE DEF HInv
  <2> QED BY <1>2, <2>1, HandleFakePodHolds
<1>3. CASE CreateFakePod \/ PatchFakePodScheduledCondition \/ DeleteExtraFakePod
  <2> HIDE DEF HInv, Reserved
  <2> QED BY <1>3, CreateFakePodHolds, PatchFakePodHolds, DeleteExtraHolds
<1>4. CASE ForceDeleteFakePod
  <2> HIDE DEF HInv, Live
  <2> QED BY <1>4, ForceDeleteHolds
<1>5. CASE HDone
  <2>1. fake' = fake
    BY <1>5 DEF HDone
  <2> HIDE DEF HInv
  <2> QED BY <1>5, <2>1, HDoneHolds
<1>6. CASE HFail
  <2>1. hfl' = HIdle /\ hq' = TRUE /\ fake' = fake /\ fakec' = fakec
    BY <1>6 DEF HFail
  <2> QED BY <2>1, HIdleValues
<1>7. CASE ChangePorts \/ ChangeLabel
  <2>1. UNCHANGED <<vn, vc, labelc, portsc, fake, fakec, hfl, hq, hmisled>>
    BY <1>7 DEF ChangePorts, ChangeLabel, nvars
  <2> QED BY <2>1 DEF Keeps, SameNode, Others
<1>8. CASE DeliverFakePods
  <2>1. UNCHANGED <<vn, vc, labelc, portsc, fake, hfl, hq, hmisled>> /\ fakec' = fake
    BY <1>8 DEF DeliverFakePods, nvars
  <2>2. Distinct' /\ Copied'
    BY <2>1 DEF Behind
  <2>3. Kept' /\ HIdleShape' /\ HAgrees'
    BY <2>1 DEF Keeps, SameNode, Others
  <2> QED BY <2>1, <2>2, <2>3
<1>9. CASE DeliverPorts \/ DeliverLabel
  <2>1. hq' = TRUE /\ UNCHANGED <<fake, fakec, hfl, hmisled>>
    BY <1>9 DEF DeliverPorts, DeliverLabel
  <2> QED BY <2>1 DEF Keeps
<1>10. CASE CollectFakePods
  <2>1. ~vn.on /\ fake' = {} /\ UNCHANGED <<vn, fakec, hfl, hmisled>>
    BY <1>10 DEF CollectFakePods, nvars
  <2> QED BY <2>1 DEF SameNode
<1> HIDE DEF HInv, Reserved
<1> QED BY <1>1, <1>2, <1>3, <1>4, <1>5, <1>6, <1>7, <1>8, <1>9, <1>10 DEF HNext

LEMMA HStep ==
  ASSUME TypeInv, HInv, UidsGrow, [Next]_vars
  PROVE  HInv' /\ (vn.on /\ ~hmisled => (Reserved \intersect hfl.ports) \subseteq Reserved')
<1>1. CASE UNCHANGED vars
  BY <1>1, HFrame DEF vars, nvars, hvars, SameNode, Reserved, Live
<1>2. CASE NodeRead \/ NodeCreate \/ NodeUpdate \/ NodeDelete
  BY <1>2, HNodeHolds DEF NodeRead, NodeCreate, NodeUpdate, NodeDelete, hvars, Reserved, Live
<1>3. CASE DeliverVirtualNode
  BY <1>3, HDeliverHolds DEF DeliverVirtualNode, Reserved, Live
<1>4. CASE HNext
  BY <1>4, HNextHolds
<1>5. CASE CNext /\ UNCHANGED <<hvars, wvars, making>>
  <2>1. vn' = vn /\ vc' = vc
    BY <1>5, CStepTypes DEF TypeInv
  <2> QED BY <1>5, <2>1, HFrame DEF hvars, SameNode, Reserved, Live
<1>6. CASE WNext(making) /\ UNCHANGED <<hvars, cvars, making>>
  <2>1. vc' = vc /\ vn'.on = vn.on /\ vn'.uid = vn.uid
    BY <1>6, WTypesUse DEF WNext, SyncProxierPod, UpdateVNodeIP, WFail, ProxierPhase,
       DeliverProxier, nvars, VNodes
  <2> QED BY <1>6, <2>1, HFrame DEF hvars, SameNode, Reserved, Live
<1> QED BY <1>1, <1>2, <1>3, <1>4, <1>5, <1>6 DEF Next

LEMMA HInitHolds == Init => HInv
<1> SUFFICES ASSUME Init PROVE HInv
  OBVIOUS
<1>1. hfl = HIdle /\ fake = {} /\ fakec = {} /\ labelc = label /\ hq = label
  BY DEF Init, HInit
<1> QED BY <1>1, HIdleValues DEF HInv, Distinct, Copied, Kept, HIdleShape, HAgrees

LEMMA HInvInvariant == Spec => [](TypeInv /\ WInv /\ HInv)
<1>1. WInv => UidsGrow
  BY DEF WInv
<1> QED BY <1>1, TypeInit, TypeStep, WInitHolds, WStep, HInitHolds, HStep, PTL DEF Spec

\* The virtual node has one fake pod with the ports in use, and none if none is, beside
\* those that are being deleted, when the host port controller has nothing left to do and
\* its last list made it neither keep a pod that was on its way out nor overlook one.
THEOREM FakePodsAgree == Spec => []FakePodsFollow
<1>1. TypeInv /\ HInv => FakePodsFollow
  BY HIdleValues DEF HInv, HAgrees, SameNode, FakePodsFollow, NodeAtRest
<1> QED BY <1>1, HInvInvariant, PTL

\* A wanted port stays reserved by a pod that is not being deleted while the fake pods are
\* replaced, unless the list made the controller keep one that is.
THEOREM PortsStayReserved == Spec => StaysReserved
<1>1. TypeInv /\ WInv /\ HInv /\ [Next]_vars =>
        [vn.on /\ vn'.on /\ ~hmisled => (Reserved \intersect hfl.ports) \subseteq Reserved']_vars
  BY HStep DEF WInv
<1> QED BY <1>1, HInvInvariant, PTL DEF Spec, StaysReserved
===============================================================================
