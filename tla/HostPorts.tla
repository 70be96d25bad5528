------------------------------ MODULE HostPorts ------------------------------
(***************************************************************************)
(* The host port controller.  Pods of the worker cluster that are no       *)
(* copies use ports of their node; a fake pod on the virtual node has the  *)
(* same ports, so that the scheduler of the virtual cluster puts no pod    *)
(* there that wants one of them.                                           *)
(***************************************************************************)
EXTENDS NodeView

CONSTANT PortSets   \* sets of ports that pods of the node may use
ASSUME PortAssumption == {} \in PortSets

VARIABLES
  label, labelc, \* the physical node has the policy-applied label; in the cache
  ports, portsc, \* ports in use on the physical node; in the cache
  fake, fakec,   \* fake pods on the virtual node; in the cache
  nfake,         \* fake pods made so far
  hq,            \* the node is queued
  hfl,           \* the reconcile in flight
  hmisled        \* history: the last list of fake pods led to a wrong choice

hvars == <<label, labelc, ports, portsc, fake, fakec, nfake, hq, hfl, hmisled>>

HIdle == [at |-> "idle", ports |-> {}, id |-> 0, todo |-> {}]
Pod(id, ps) == [id |-> id, ports |-> ps, sched |-> FALSE, del |-> FALSE]
Live == {f \in fake : ~f.del}
Reserved == UNION {f.ports : f \in Live}

\* Reconcile up to the list of the node's pods.
HSkip ==
  /\ hq /\ hfl = HIdle /\ hq' = FALSE
  /\ ~labelc \/ ~vc.on
  /\ UNCHANGED <<nvars, label, labelc, ports, portsc, fake, fakec, nfake, hfl, hmisled>>

\* handleFakePod up to its first write: one of the pods with these ports is kept, which
\* may be one that is being deleted.
HandleFakePod ==
  /\ hq /\ hfl = HIdle /\ hq' = FALSE
  /\ labelc /\ vc.on
  /\ \/ /\ portsc = {}
        /\ hfl' = [HIdle EXCEPT !.at = "delete", !.todo = {f.id : f \in fakec}]
     \/ /\ portsc # {} /\ \A f \in fakec : f.ports # portsc
        /\ hfl' = [at |-> "create", ports |-> portsc, id |-> 0, todo |-> {f.id : f \in fakec}]
     \/ \E f \in fakec :
          /\ portsc # {} /\ f.ports = portsc
          /\ hfl' = [at |-> IF f.sched THEN "delete" ELSE "patch", ports |-> portsc,
                     id |-> f.id, todo |-> {g.id : g \in fakec \ {f}}]
  /\ hmisled' = \/ hfl'.id # 0 /\ \A f \in Live : f.id # hfl'.id
                \/ \E f \in Live : f.id \notin hfl'.todo \union {hfl'.id}
  /\ UNCHANGED <<nvars, label, labelc, ports, portsc, fake, fakec, nfake>>

\* The API server chooses the name.
CreateFakePod ==
  /\ hfl.at = "create"
  /\ nfake' = nfake + 1
  /\ fake' = fake \union {Pod(nfake', hfl.ports)}
  /\ hfl' = [hfl EXCEPT !.at = "patch", !.id = nfake']
  /\ UNCHANGED <<nvars, label, labelc, ports, portsc, fakec, hq, hmisled>>

PatchFakePodScheduledCondition ==
  /\ hfl.at = "patch"
  /\ \/ \E f \in fake : /\ f.id = hfl.id
                        /\ fake' = (fake \ {f}) \union {[f EXCEPT !.sched = TRUE]}
                        /\ hfl' = [hfl EXCEPT !.at = "delete"] /\ hq' = hq
     \/ /\ \A f \in fake : f.id # hfl.id
        /\ hfl' = HIdle /\ hq' = TRUE /\ fake' = fake
  /\ UNCHANGED <<nvars, label, labelc, ports, portsc, fakec, nfake, hmisled>>

\* Deletion is graceful: the pod has a node, so it stays until it is deleted by force.
Deleted(i) == {IF f.id = i THEN [f EXCEPT !.del = TRUE] ELSE f : f \in fake}

\* Mutant: what is there is deleted before the new pod is made.
DeleteFakePodFirst ==
  /\ hfl.at \in {"create", "delete"}
  /\ \E i \in hfl.todo :
       /\ fake' = Deleted(i)
       /\ hfl' = [hfl EXCEPT !.todo = @ \ {i}]
  /\ UNCHANGED <<nvars, label, labelc, ports, portsc, fakec, nfake, hq, hmisled>>

\* The extra pods, one by one, after the one that is wanted is there.
DeleteExtraFakePod ==
  /\ hfl.at = "delete"
  /\ \E i \in hfl.todo :
       /\ fake' = Deleted(i)
       /\ hfl' = [hfl EXCEPT !.todo = @ \ {i}]
  /\ UNCHANGED <<nvars, label, labelc, ports, portsc, fakec, nfake, hq, hmisled>>

HDone ==
  /\ hfl.at = "delete" /\ hfl.todo = {} /\ hfl' = HIdle
  /\ UNCHANGED <<nvars, label, labelc, ports, portsc, fake, fakec, nfake, hq, hmisled>>

HFail ==
  /\ hfl # HIdle /\ Error /\ hfl' = HIdle /\ hq' = TRUE
  /\ UNCHANGED <<vn, vc, changes, label, labelc, ports, portsc, fake, fakec, nfake, hmisled>>

\* The virtual pod controller (module PodSync) sees a pod of its node that is being
\* deleted and has no copy: it deletes it without grace.
ForceDeleteFakePod ==
  /\ vc.on
  /\ \E f \in fakec : /\ f.del /\ f.id \in {g.id : g \in fake}
                       /\ fake' = {g \in fake : g.id # f.id}
  /\ UNCHANGED <<nvars, label, labelc, ports, portsc, fakec, nfake, hq, hfl, hmisled>>

----------------------------------------------------------------------------
\* Pods with host ports come to the node or go.
ChangePorts ==
  /\ Change
  /\ \E s \in PortSets : s # ports /\ ports' = s
  /\ UNCHANGED <<vn, vc, errors, label, labelc, portsc, fake, fakec, nfake, hq, hfl, hmisled>>

\* The node controller sets the label or removes it (module VirtualNode).
ChangeLabel ==
  /\ Change /\ label' = ~label
  /\ UNCHANGED <<vn, vc, errors, labelc, ports, portsc, fake, fakec, nfake, hq, hfl, hmisled>>

DeliverPorts ==
  /\ portsc # ports /\ portsc' = ports /\ hq' = TRUE
  /\ UNCHANGED <<nvars, label, labelc, ports, fake, fakec, nfake, hfl, hmisled>>

DeliverLabel ==
  /\ labelc # label /\ labelc' = label /\ hq' = TRUE
  /\ UNCHANGED <<nvars, label, ports, portsc, fake, fakec, nfake, hfl, hmisled>>

\* Fake pods are not watched: their cache catches up silently.
DeliverFakePods ==
  /\ fakec # fake /\ fakec' = fake
  /\ UNCHANGED <<nvars, label, labelc, ports, portsc, fake, nfake, hq, hfl, hmisled>>

\* The virtual cluster collects pods of a node that does not exist.
CollectFakePods ==
  /\ ~vn.on /\ fake # {} /\ fake' = {}
  /\ UNCHANGED <<nvars, label, labelc, ports, portsc, fakec, nfake, hq, hfl, hmisled>>

\* Mutant: the controller is not told of new virtual nodes.
HToldNever(seen) == hq' = hq

\* handleVirtualNodeEvent is called when a virtual node comes.
HTold(seen) == hq' = (hq \/ (seen.on /\ ~vc.on))

HInit ==
  /\ label \in BOOLEAN /\ labelc = label /\ ports \in PortSets /\ portsc = ports
  /\ fake = {} /\ fakec = {} /\ nfake = 0 /\ hq = label /\ hfl = HIdle /\ hmisled = FALSE

HNext ==
  \/ HSkip \/ HandleFakePod \/ CreateFakePod \/ PatchFakePodScheduledCondition
  \/ DeleteExtraFakePod \/ ForceDeleteFakePod \/ HDone \/ HFail
  \/ ChangePorts \/ ChangeLabel \/ DeliverPorts \/ DeliverLabel
  \/ DeliverFakePods \/ CollectFakePods
==============================================================================
