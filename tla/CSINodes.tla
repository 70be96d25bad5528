------------------------------- MODULE CSINodes ------------------------------
(***************************************************************************)
(* The CSINode controller: the virtual node has a CSINode exactly if the   *)
(* physical node has one, with the same drivers.                           *)
(***************************************************************************)
EXTENDS NodeView

CONSTANT Drivers   \* what a CSINode may say

VARIABLES
  cs, csc,    \* the physical CSINode or None; in the cache
  vcs, vcsc,  \* the virtual CSINode; in the cache
  cq,         \* the CSINode is queued
  cfl,        \* the reconcile in flight
  cskip       \* history: the last reconcile found an old copy equal and wrote nothing

cvars == <<cs, csc, vcs, vcsc, cq, cfl, cskip>>

\* kind: "none", "ours" (managed by kubeocean) or "foreign"; uid: the last one given.
NoCSINode(uid) == [kind |-> "none", uid |-> uid, drivers |-> None]
CIdle == [at |-> "idle", obj |-> NoCSINode(0), drivers |-> None]

\* Reconcile and processCSINode: without the physical CSINode or the virtual
\* node, the virtual CSINode goes.
CDelete == csc = None \/ ~vc.on

\* Reads of createOrUpdateVirtualCSINode and deleteVirtualCSINode: a CSINode
\* that is not ours is left alone.
ProcessCSINode ==
  /\ cq /\ cfl = CIdle /\ cq' = FALSE /\ cskip' = FALSE
  /\ cfl' = CASE vcsc.kind = "foreign" \/ (CDelete /\ vcsc.kind = "none") -> CIdle
              [] CDelete /\ vcsc.kind = "ours" -> [CIdle EXCEPT !.at = "delete", !.obj = vcsc]
              [] OTHER -> [at |-> "write", obj |-> vcsc, drivers |-> csc]
  /\ UNCHANGED <<nvars, cs, csc, vcs, vcsc>>

\* Nothing is written over a copy that is equal, the time of the sync in seconds
\* included: a reconcile in the same second as the last.
SkipCSINode ==
  /\ cq /\ cfl = CIdle /\ cq' = FALSE
  /\ ~CDelete /\ vcsc.kind = "ours" /\ vcsc.drivers = csc
  /\ cskip' = (vcsc # vcs)
  /\ UNCHANGED <<nvars, cs, csc, vcs, vcsc, cfl>>

CReturn(ok) == cfl' = CIdle /\ cq' = (cq \/ ~ok)

\* Mutant: the object that has the name is deleted, whichever it is.
DeleteVirtualCSINodeAny ==
  /\ cfl.at = "delete"
  /\ vcs' = NoCSINode(vcs.uid) /\ CReturn(TRUE)
  /\ UNCHANGED <<nvars, cs, csc, vcsc, cskip>>

\* With the UID as a precondition; a CSINode that is gone is no error.
DeleteVirtualCSINode ==
  /\ cfl.at = "delete"
  /\ IF vcs.kind = "none" \/ vcs.uid = cfl.obj.uid
     THEN vcs' = NoCSINode(vcs.uid) /\ CReturn(TRUE)
     ELSE vcs' = vcs /\ CReturn(FALSE)
  /\ UNCHANGED <<nvars, cs, csc, vcsc, cskip>>

\* Create fails when there is one, Update when it is not the one that was read.
CreateOrUpdateVirtualCSINode ==
  /\ cfl.at = "write"
  /\ IF vcs = cfl.obj \/ (vcs.kind = "none" /\ cfl.obj.kind = "none")
     THEN /\ vcs' = [kind |-> "ours", drivers |-> cfl.drivers,
                     uid |-> IF vcs.kind = "none" THEN vcs.uid + 1 ELSE vcs.uid]
          /\ CReturn(TRUE)
     ELSE vcs' = vcs /\ CReturn(FALSE)
  /\ UNCHANGED <<nvars, cs, csc, vcsc, cskip>>

CFail ==
  /\ cfl # CIdle /\ Error /\ CReturn(FALSE)
  /\ UNCHANGED <<vn, vc, changes, cs, csc, vcs, vcsc, cskip>>

----------------------------------------------------------------------------
ChangeCSINode ==
  /\ Change
  /\ \E d \in Drivers \union {None} : d # cs /\ cs' = d
  /\ UNCHANGED <<vn, vc, errors, csc, vcs, vcsc, cq, cfl, cskip>>

\* A user makes a CSINode of that name.
ForeignCSINode ==
  /\ vcs.kind = "none" /\ Change
  /\ vcs' = [kind |-> "foreign", uid |-> vcs.uid + 1, drivers |-> None]
  /\ UNCHANGED <<vn, vc, errors, cs, csc, vcsc, cq, cfl, cskip>>

DeliverCSINode ==
  /\ csc # cs /\ csc' = cs /\ cq' = TRUE
  /\ UNCHANGED <<nvars, cs, vcs, vcsc, cfl, cskip>>

\* Mutant: the controller is not told of virtual CSINodes.
AddedCSINodeNever(seen) == FALSE

\* handleVirtualCSINodeEvent is called when one of ours comes.
AddedCSINode(seen) == seen.kind = "ours" /\ vcsc.kind = "none"

DeliverVirtualCSINode ==
  LET seen == IF vcsc.kind # "none" /\ vcsc.uid # vcs.uid THEN NoCSINode(vcsc.uid) ELSE vcs IN
  /\ vcsc # vcs /\ vcsc' = seen
  /\ cq' = (cq \/ AddedCSINode(seen))
  /\ UNCHANGED <<nvars, cs, csc, vcs, cfl, cskip>>

\* handleVirtualNodeEvent is called when a virtual node comes or goes.
CTold(seen) == cq' = (cq \/ seen.on # vc.on)

CInit ==
  /\ cs \in Drivers \union {None} /\ csc = cs
  /\ vcs = NoCSINode(0) /\ vcsc = vcs /\ cq = (cs # None) /\ cfl = CIdle
  /\ cskip = FALSE

CNext ==
  \/ ProcessCSINode \/ SkipCSINode \/ DeleteVirtualCSINode \/ CreateOrUpdateVirtualCSINode \/ CFail
  \/ ChangeCSINode \/ ForeignCSINode \/ DeliverCSINode \/ DeliverVirtualCSINode
==============================================================================
