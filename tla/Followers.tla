------------------------------ MODULE Followers ------------------------------
(***************************************************************************)
(* The controllers that follow a virtual node, composed: the host port     *)
(* controller, the CSINode controller and the proxier watch controller,    *)
(* beside the parts of the node controller that make the node, delete it   *)
(* and give it an address.                                                 *)
(***************************************************************************)
EXTENDS HostPorts, CSINodes, ProxierWatch

VARIABLE making   \* the node controller makes the virtual node: with this address

vars == <<nvars, hvars, cvars, wvars, making>>

NotMaking == [on |-> FALSE, ip |-> None]

\* createOrUpdateVirtualNode finds no node and asks for an address.
NodeRead ==
  /\ ~vc.on /\ ~making.on /\ Change
  /\ \E ip \in ProxierPodIP(pxc) : making' = [on |-> TRUE, ip |-> ip]
  /\ UNCHANGED <<vn, vc, errors, hvars, cvars, wvars>>

NodeCreate ==
  /\ making.on /\ making' = NotMaking
  /\ vn' = IF vn.on THEN vn ELSE [on |-> TRUE, uid |-> vn.uid + 1, ip |-> making.ip]
  /\ UNCHANGED <<vc, changes, errors, hvars, cvars, wvars>>

\* A later reconcile keeps the address that the node has, if it has one; the
\* update fails when the copy that was read is old.
NodeUpdate ==
  /\ vc.on /\ vc = vn /\ vn.ip = None
  /\ \E ip \in RunningProxiers(pxc) : vn' = [vn EXCEPT !.ip = ip]
  /\ UNCHANGED <<vc, changes, errors, hvars, cvars, wvars, making>>

NodeDelete ==
  /\ vn.on /\ Change /\ vn' = NoVNode(vn.uid)
  /\ UNCHANGED <<vc, errors, hvars, cvars, wvars, making>>

\* The handlers of the node informer that the controllers share.
DeliverVirtualNode ==
  /\ vc # vn /\ vc' = NextSeen
  /\ HTold(NextSeen) /\ CTold(NextSeen)
  /\ UNCHANGED <<vn, changes, errors, wvars, making,
                 label, labelc, ports, portsc, fake, fakec, nfake, hfl, hmisled,
                 cs, csc, vcs, vcsc, cfl, cskip>>

Init ==
  /\ HInit /\ CInit /\ WInit
  /\ \E ip \in ProxierPodIP(px) : vn \in {NoVNode(0), [on |-> TRUE, uid |-> 1, ip |-> ip]}
  /\ vc = vn /\ changes = 0 /\ errors = 0 /\ making = NotMaking

Next ==
  \/ NodeRead \/ NodeCreate \/ NodeUpdate \/ NodeDelete \/ DeliverVirtualNode
  \/ HNext /\ UNCHANGED <<cvars, wvars, making>>
  \/ CNext /\ UNCHANGED <<hvars, wvars, making>>
  \/ WNext(making) /\ UNCHANGED <<hvars, cvars, making>>

Spec == Init /\ [][Next]_vars

----------------------------------------------------------------------------
VNodes == [on : BOOLEAN, uid : Nat, ip : Proxiers \union {None}]
FakePods == [id : Nat, ports : PortSets, sched : BOOLEAN, del : BOOLEAN]
CSINodesOf == [kind : {"none", "ours", "foreign"}, uid : Nat, drivers : Drivers \union {None}]

TypeOK ==
  /\ vn \in VNodes /\ vc \in VNodes /\ making \in [on : BOOLEAN, ip : Proxiers \union {None}]
  /\ changes \in 0..MaxChange /\ errors \in 0..MaxError
  /\ label \in BOOLEAN /\ labelc \in BOOLEAN /\ ports \in PortSets /\ portsc \in PortSets
  /\ fake \subseteq FakePods /\ fakec \subseteq FakePods /\ nfake \in Nat
  /\ hq \in BOOLEAN /\ hmisled \in BOOLEAN
  /\ hfl.at \in {"idle", "create", "patch", "delete"} /\ hfl.ports \in PortSets
  /\ hfl.id \in 0..nfake /\ hfl.todo \subseteq 1..nfake
  /\ cs \in Drivers \union {None} /\ csc \in Drivers \union {None}
  /\ vcs \in CSINodesOf /\ vcsc \in CSINodesOf /\ cq \in BOOLEAN
  /\ cskip \in BOOLEAN /\ cfl.at \in {"idle", "delete", "write"}
  /\ px \in [Proxiers -> {"none", "pending", "ip", "running", "gone"}]
  /\ pxc \in [Proxiers -> {"none", "pending", "ip", "running", "gone"}]
  /\ wq \subseteq Proxiers /\ missed \in BOOLEAN
  /\ wfl.attempt \in 0..MaxRetries /\ wfl.target \in Proxiers \union {None}

NodeAtRest == vc = vn /\ ~making.on

\* When the host port controller has nothing left to do, the virtual node has
\* one fake pod with exactly the ports in use on the physical node, marked as
\* scheduled, and none if no port is in use, beside those that are being
\* deleted: the scheduler of the virtual cluster counts each port once, however
\* the reconciles raced with nodes that came and went and with failed calls.
\* (handleFakePod; not so if its last list of fake pods made it keep a pod that
\* was gone or being deleted, for which it does not look, or overlook one.)
FakePodsFollow ==
  (/\ NodeAtRest /\ vn.on /\ label /\ labelc /\ portsc = ports /\ ~hq /\ hfl = HIdle /\ ~hmisled)
  => IF ports = {} THEN Live = {}
     ELSE \E f \in Live : Live = {f} /\ f.ports = ports /\ f.sched

\* A port that a fake pod reserves which is not being deleted, and that the
\* controller still wants reserved, stays reserved by such a pod while the fake
\* pods are replaced and removed: the new pod is there before the old ones go.
\* (handleFakePod: createFakePod before the deletions; not so if its last list
\* made it keep a pod that was gone or being deleted.)
StaysReserved ==
  [][vn.on /\ vn'.on /\ ~hmisled => (Reserved \intersect hfl.ports) \subseteq Reserved']_vars

\* When the CSINode controller has nothing left to do, the virtual CSINode is
\* there exactly if the virtual node and the physical CSINode are, with its
\* drivers: one that was made while the node went away is found again by the
\* event of its own creation.  (processCSINode, handleVirtualCSINodeEvent; not so
\* if the last reconcile was content with an old copy in the cache, which it
\* found equal to what it was to write.)
CSINodeFollows ==
  (NodeAtRest /\ csc = cs /\ vcsc = vcs /\ ~cq /\ cfl = CIdle /\ ~cskip /\ vcs.kind # "foreign")
  => /\ (vcs.kind = "ours") = (cs # None /\ vn.on)
     /\ vcs.kind = "ours" => vcs.drivers = cs

\* A CSINode that somebody else made is never changed or deleted, not even by
\* a reconcile that read one of ours before.  (deleteVirtualCSINode's UID
\* precondition, createOrUpdateVirtualCSINode's managed-by test.)
ForeignKept == [][vcs.kind = "foreign" => vcs' = vcs]_vars

\* When the proxier watch controller has nothing left to do and a proxier
\* runs, the virtual node has no address of a proxier that is gone.
\* (SyncProxierPod; exempt is a sync that was content with an old copy of the
\* node, which the controller does not watch, that ran while the node was made,
\* or that gave up after three attempts.)
AddressFollows ==
  (/\ NodeAtRest /\ vn.on /\ pxc = px /\ wq = {} /\ wfl = WIdle /\ ~missed
   /\ RunningProxiers(px) # {})
  => vn.ip \in RunningProxiers(px) \union {None}
==============================================================================
