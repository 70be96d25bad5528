------------------------------ MODULE PodSync ------------------------------
(***************************************************************************)
(* The life of one virtual pod name and of the physical pod it maps to.    *)
(*                                                                         *)
(* A syncer runs two reconcilers for the name: VirtualPodReconciler (top   *)
(* down, "td") creates and deletes the physical pod, PhysicalPodReconciler *)
(* (bottom up, "bu") copies the physical status back and records the       *)
(* physical UID.  Both read through the informer caches of the same two    *)
(* managers, so what they read may be old, and each runs one reconcile at  *)
(* a time for the name.  Distinct virtual names map to distinct physical   *)
(* names (an MD5 of namespace/name) and no handler touches another name's  *)
(* pods, so one name stands for all.                                       *)
(*                                                                         *)
(* An object is kept as the log of its versions: the FIRST is what the     *)
(* informer cache serves, the LAST is what the API server holds, the ones  *)
(* between are watch events still to be delivered.  A pod's UID is its     *)
(* incarnation number; 0 is the empty string.  Update is optimistic: it    *)
(* succeeds only when the version the caller read is the current one.      *)
(***************************************************************************)
EXTENDS Naturals, Sequences

CONSTANTS
  MaxV,    \* bound: virtual pods ever created under the name
  MaxP,    \* bound: physical pods ever created for the name
  MaxLag,  \* bound: watch events a cache may be behind its API server
  MaxDone, \* bound: only the first MaxDone physical pods may run to completion
  MaxRestart  \* bound: restarts of the syncer

ASSUME BoundsAssumption ==
  /\ MaxV \in Nat /\ MaxP \in Nat /\ MaxLag \in Nat
  /\ MaxDone \in Nat /\ MaxRestart \in Nat

VARIABLES
  virt,    \* log of the virtual pod's versions
  phys,    \* log of the physical pod's versions
  tok,     \* virtual UIDs whose service account token secret exists physically
  td,      \* the VirtualPodReconciler's reconcile in flight
  bu,      \* the PhysicalPodReconciler's reconcile in flight
  forced,  \* history: virtual UIDs removed by someone other than the syncer
  restarts, \* how often the syncer was restarted
  owner    \* history: owner[i] is the virtual UID physical pod i was made for

vars == <<virt, phys, tok, td, bu, forced, restarts, owner>>

----------------------------------------------------------------------------
(* Objects, logs and the API server.                                       *)

\* "Active" is Pending or Running, which nothing here tells apart; "Lost" is Failed
\* with reason PhysicalPodLost (setVirtualPodFailed); "Done" is any other terminal
\* phase.
Phase == {"Active", "Done", "Lost"}

\* mapped: the physical-pod-namespace and -name annotations are set (the code
\* always sets both); puid: the physical-pod-uid annotation.
VVersion == [uid : Nat, exists : BOOLEAN, bound : BOOLEAN, mapped : BOOLEAN,
             puid : Nat, phase : Phase, deleting : BOOLEAN]

\* Who asked for a physical pod's deletion: deletePhysicalPod of either reconciler,
\* deleteMismatchedPhysicalPodIfNeeded, the scheduling timeout, another party.
Deleter == {"none", "cleanup", "mismatch", "timeout", "other"}

\* vuid: the virtual-pod-uid annotation.  by is a history field.
PVersion == [uid : Nat, exists : BOOLEAN, vuid : Nat, bound : BOOLEAN,
             phase : Phase, deleting : BOOLEAN, by : Deleter]

NewV(u) == [uid |-> u, exists |-> TRUE, bound |-> FALSE, mapped |-> FALSE,
            puid |-> 0, phase |-> "Active", deleting |-> FALSE]
GoneV(u) == [NewV(u) EXCEPT !.exists = FALSE]

NewP(u, v) == [uid |-> u, exists |-> TRUE, vuid |-> v, bound |-> FALSE,
               phase |-> "Active", deleting |-> FALSE, by |-> "none"]
GoneP(p, who) == [NewP(p.uid, p.vuid) EXCEPT !.exists = FALSE, !.by = who]

NoV == GoneV(0)
NoP == GoneP(NewP(0, 0), "none")

Cached(log) == log[1]
Truth(log)  == log[Len(log)]
Room(log)   == Len(log) <= MaxLag

V == Truth(virt)
P == Truth(phys)

Terminal(o) == o.phase \in {"Done", "Lost"}

\* The API server deletes a pod at once when nothing runs it any more: it is
\* not bound to a node or its phase is terminal.  Otherwise it marks it.
AtOnce(o) == ~o.bound \/ Terminal(o)

\* Delete of the physical pod that holds the name, asked for by who.
DeletePhys(who) ==
  IF ~P.exists \/ P.deleting THEN UNCHANGED phys
  ELSE /\ Room(phys)
       /\ phys' = Append(phys, IF AtOnce(P) THEN GoneP(P, who)
                               ELSE [P EXCEPT !.deleting = TRUE, !.by = who])

\* Status().Update of the virtual pod, read as v and sent as w: a conflict when
\* v is no longer current, no new version when nothing changes.
UpdateVirt(v, w) ==
  IF V # v \/ v = w THEN UNCHANGED virt
  ELSE Room(virt) /\ virt' = Append(virt, w)

----------------------------------------------------------------------------
(* Reconciles in flight.                                                   *)

Idle == [pc |-> "idle", v |-> NoV, p |-> NoP]

\* VirtualPodReconciler.Reconcile up to the lookup of the physical pod.  Pods
\* that are unscheduled, or whose node is not ours or not found, are ignored.
\* A pod being deleted first loses its token secret, and needs no lookup when it
\* was never mapped.
TDGetVirtual ==
  LET v == Cached(virt)
      dying == v.exists /\ v.deleting
  IN  /\ td.pc = "idle"
      /\ v.uid # 0
      /\ v.exists => v.bound
      /\ td' = [pc |-> IF dying /\ ~v.mapped THEN "act" ELSE "getCached",
                v |-> v, p |-> NoP]
      /\ tok' = IF dying THEN tok \ {v.uid} ELSE tok
      /\ UNCHANGED <<virt, phys, bu, forced, restarts, owner>>

\* Mutant: once the UID is recorded, a cache miss is taken for absence.
TDGetPhysicalCachedNoFallback ==
  LET p == Cached(phys)
  IN  /\ td.pc = "getCached"
      /\ td' = IF p.exists THEN [td EXCEPT !.pc = "act", !.p = p]
               ELSE [td EXCEPT !.pc = IF td.v.puid # 0 THEN "act" ELSE "getDirect"]
      /\ UNCHANGED <<virt, phys, tok, bu, forced, restarts, owner>>

\* getPhysicalPodWithFallback: the cache first, the API server on a miss.
TDGetPhysicalCached ==
  LET p == Cached(phys)
  IN  /\ td.pc = "getCached"
      /\ td' = IF p.exists THEN [td EXCEPT !.pc = "act", !.p = p]
               ELSE [td EXCEPT !.pc = "getDirect"]
      /\ UNCHANGED <<virt, phys, tok, bu, forced, restarts, owner>>

TDGetPhysicalDirect ==
  /\ td.pc = "getDirect"
  /\ td' = [td EXCEPT !.pc = "act", !.p = IF P.exists THEN P ELSE NoP]
  /\ UNCHANGED <<virt, phys, tok, bu, forced, restarts, owner>>

TDActing == td.pc = "act" /\ td' = Idle

\* What the td reconcile read: the virtual pod is gone, dying or live; the
\* physical pod, when there is one, was made for this incarnation or not.
VGone  == ~td.v.exists
VDying == td.v.exists /\ td.v.deleting
VLive  == td.v.exists /\ ~td.v.deleting
Owned  == td.p.exists /\ td.p.vuid = td.v.uid

\* handleVirtualPodNotFound and handleVirtualPodDeletion end in
\* deletePhysicalPod: by name, without a precondition.
TDDeletePhysicalPod ==
  /\ TDActing
  /\ VGone \/ (VDying /\ td.v.mapped)
  /\ td.p.exists /\ ~td.p.deleting
  /\ DeletePhys("cleanup")
  /\ UNCHANGED <<virt, tok, bu, forced, restarts, owner>>

\* Mutant: the virtual pod goes as soon as its physical pod terminates.
TDForceDeleteVirtualPodEarly ==
  /\ TDActing
  /\ VDying
  /\ ~td.v.mapped \/ ~td.p.exists \/ td.p.deleting
  /\ IF V.exists /\ V.uid = td.v.uid
     THEN Room(virt) /\ virt' = Append(virt, GoneV(V.uid))
     ELSE UNCHANGED virt
  /\ UNCHANGED <<phys, tok, bu, forced, restarts, owner>>

\* Mutant: only a pod that was never mapped is let go.
TDForceDeleteVirtualPodUnmapped ==
  /\ TDActing
  /\ VDying /\ ~td.v.mapped
  /\ IF V.exists /\ V.uid = td.v.uid
     THEN Room(virt) /\ virt' = Append(virt, GoneV(V.uid))
     ELSE UNCHANGED virt
  /\ UNCHANGED <<phys, tok, bu, forced, restarts, owner>>

\* forceDeleteVirtualPod: grace period 0, with the UID as precondition.
TDForceDeleteVirtualPod ==
  /\ TDActing
  /\ VDying
  /\ ~td.v.mapped \/ ~td.p.exists
  /\ IF V.exists /\ V.uid = td.v.uid
     THEN Room(virt) /\ virt' = Append(virt, GoneV(V.uid))
     ELSE UNCHANGED virt
  /\ UNCHANGED <<phys, tok, bu, forced, restarts, owner>>

\* deleteMismatchedPhysicalPodIfNeeded: the physical pod is another
\* incarnation's; delete it by name and retry.
TDDeleteMismatchedPhysicalPod ==
  /\ TDActing
  /\ VLive /\ td.p.exists /\ ~Owned
  /\ DeletePhys("mismatch")
  /\ UNCHANGED <<virt, tok, bu, forced, restarts, owner>>

\* generatePhysicalPodMapping: name the physical pod in the annotations; when it
\* exists already and is ours, record its UID as well.
TDGeneratePhysicalPodMapping ==
  /\ TDActing
  /\ VLive /\ ~td.v.mapped
  /\ td.p.exists => Owned
  /\ UpdateVirt(td.v, [td.v EXCEPT !.mapped = TRUE,
                         !.puid = IF td.p.exists THEN td.p.uid ELSE 0])
  /\ UNCHANGED <<phys, tok, bu, forced, restarts, owner>>

\* Mutant: a loss is reported only for pods that had finished.
TDSetVirtualPodFailedDone ==
  /\ TDActing
  /\ VLive /\ td.v.mapped /\ td.v.puid # 0 /\ ~td.p.exists /\ Terminal(td.v)
  /\ UpdateVirt(td.v, [td.v EXCEPT !.phase = "Lost"])
  /\ UNCHANGED <<phys, tok, bu, forced, restarts, owner>>

\* setVirtualPodFailed: everything was recorded and the physical pod is gone.
TDSetVirtualPodFailed ==
  /\ TDActing
  /\ VLive /\ td.v.mapped /\ td.v.puid # 0 /\ ~td.p.exists
  /\ UpdateVirt(td.v, [td.v EXCEPT !.phase = "Lost"])
  /\ UNCHANGED <<phys, tok, bu, forced, restarts, owner>>

\* Mutant: syncServiceAccountTokens with createIfNotExists false.
TDSyncDependentResourcesNoCreate ==
  /\ td.pc = "act"
  /\ VLive /\ td.v.mapped /\ td.v.puid = 0 /\ ~td.p.exists
  /\ td.v.uid \in tok
  /\ td' = [td EXCEPT !.pc = "create"]
  /\ UNCHANGED <<virt, phys, tok, bu, forced, restarts, owner>>

\* createPhysicalPod, first half: syncDependentResources makes the token secret.
TDSyncDependentResources ==
  /\ td.pc = "act"
  /\ VLive /\ td.v.mapped /\ td.v.puid = 0 /\ ~td.p.exists
  /\ td' = [td EXCEPT !.pc = "create"]
  /\ tok' = tok \union {td.v.uid}
  /\ UNCHANGED <<virt, phys, bu, forced, restarts, owner>>

\* createPhysicalPod, second half: Create, AlreadyExists being no error.  The
\* UID is left for the PhysicalPodReconciler to record.
TDCreatePhysicalPod ==
  /\ td.pc = "create"
  /\ td' = Idle
  /\ IF P.exists THEN UNCHANGED <<phys, owner>>
     ELSE /\ P.uid < MaxP /\ Room(phys)
          /\ phys' = Append(phys, NewP(P.uid + 1, td.v.uid))
          /\ owner' = Append(owner, td.v.uid)
  /\ UNCHANGED <<virt, tok, bu, forced, restarts>>

\* updateVirtualPodWithPhysicalUID.
TDUpdateVirtualPodWithPhysicalUID ==
  /\ TDActing
  /\ VLive /\ td.v.mapped /\ Owned /\ td.v.puid = 0
  /\ UpdateVirt(td.v, [td.v EXCEPT !.puid = td.p.uid])
  /\ UNCHANGED <<phys, tok, bu, forced, restarts, owner>>

\* handleUnScheduledPhysicalPod past PhysicalPodSchedulingTimeout.  (Its other
\* outcome, requeue with the remaining time, is TDReturn.)
TDHandleUnScheduledPhysicalPod ==
  /\ TDActing
  /\ VLive /\ td.v.mapped /\ Owned /\ td.v.puid # 0 /\ ~td.p.bound
  /\ DeletePhys("timeout")
  /\ UNCHANGED <<virt, tok, bu, forced, restarts, owner>>

TDAct ==
  \/ TDDeletePhysicalPod
  \/ TDForceDeleteVirtualPod
  \/ TDDeleteMismatchedPhysicalPod
  \/ TDGeneratePhysicalPodMapping
  \/ TDSetVirtualPodFailed
  \/ TDSyncDependentResources
  \/ TDUpdateVirtualPodWithPhysicalUID
  \/ TDHandleUnScheduledPhysicalPod

\* Return without a write: there was nothing to do, or an API call failed and
\* the request is queued again.
TDReturn ==
  /\ td.pc \in {"act", "create"}
  /\ td' = Idle
  /\ UNCHANGED <<virt, phys, tok, bu, forced, restarts, owner>>

\* PhysicalPodReconciler.Reconcile reads the physical pod, then the virtual one.
BUGetPhysical ==
  /\ bu.pc = "idle"
  /\ Cached(phys).exists
  /\ bu' = [pc |-> "getVirtual", v |-> NoV, p |-> Cached(phys)]
  /\ UNCHANGED <<virt, phys, tok, td, forced, restarts, owner>>

BUGetVirtual ==
  /\ bu.pc = "getVirtual"
  /\ bu' = [bu EXCEPT !.pc = "act", !.v = Cached(virt)]
  /\ UNCHANGED <<virt, phys, tok, td, forced, restarts, owner>>

\* Mutant: the UID is not compared.
PointsBackByName(v, p) == v.exists /\ v.mapped

\* getAndValidateVirtualPod and validateVirtualPodAnnotations: the virtual pod
\* is there, is the same incarnation and points back.
PointsBack(v, p) == v.exists /\ v.uid = p.vuid /\ v.mapped

\* Mutant: no UID precondition.
BUDeletePhysicalPodByName ==
  /\ bu.pc = "act" /\ bu' = Idle
  /\ ~PointsBack(bu.v, bu.p) /\ ~bu.p.deleting
  /\ DeletePhys("cleanup")
  /\ tok' \in {tok, tok \ {bu.p.vuid}}
  /\ UNCHANGED <<virt, td, forced, restarts, owner>>

\* deletePhysicalPod, with the UID as precondition (another pod under the name is
\* a conflict), then the token secrets its spec names; that call may fail.
BUDeletePhysicalPod ==
  LET conflict == P.exists /\ P.uid # bu.p.uid
  IN  /\ bu.pc = "act" /\ bu' = Idle
      /\ ~PointsBack(bu.v, bu.p) /\ ~bu.p.deleting
      /\ IF conflict THEN UNCHANGED phys ELSE DeletePhys("cleanup")
      /\ tok' \in IF conflict THEN {tok} ELSE {tok, tok \ {bu.p.vuid}}
      /\ UNCHANGED <<virt, td, forced, restarts, owner>>

\* Mutant: the UID is always taken from the physical pod.
BUSyncPhysicalPodToVirtualOverwrite ==
  /\ bu.pc = "act" /\ bu' = Idle
  /\ PointsBack(bu.v, bu.p)
  /\ UpdateVirt(bu.v, [bu.v EXCEPT !.phase = bu.p.phase, !.puid = bu.p.uid])
  /\ UNCHANGED <<phys, tok, td, forced, restarts, owner>>

\* buildSyncPod and its Status().Update: status from the physical pod, the UID
\* only when none is recorded.
BUSyncPhysicalPodToVirtual ==
  /\ bu.pc = "act" /\ bu' = Idle
  /\ PointsBack(bu.v, bu.p)
  /\ UpdateVirt(bu.v, [bu.v EXCEPT !.phase = bu.p.phase,
                         !.puid = IF @ = 0 THEN bu.p.uid ELSE @])
  /\ UNCHANGED <<phys, tok, td, forced, restarts, owner>>

BUAct == BUDeletePhysicalPod \/ BUSyncPhysicalPodToVirtual

BUReturn ==
  /\ bu.pc = "act" /\ bu' = Idle
  /\ UNCHANGED <<virt, phys, tok, td, forced, restarts, owner>>

\* Mutant: a secret is garbage when no physical pod of its incarnation is seen.
TokenGCByPhysical ==
  /\ \E u \in tok : /\ ~Cached(phys).exists \/ Cached(phys).vuid # u
                    /\ tok' = tok \ {u}
  /\ UNCHANGED <<virt, phys, td, bu, forced, restarts, owner>>

\* Mutant: a pod that is not found is taken for one not seen yet.
TokenGCOther ==
  /\ \E u \in tok : /\ Cached(virt).exists /\ Cached(virt).uid # u
                    /\ tok' = tok \ {u}
  /\ UNCHANGED <<virt, phys, td, bu, forced, restarts, owner>>

\* runServiceAccountTokenGC on one secret: its pod is gone, or is another one.
TokenGC ==
  /\ \E u \in tok : /\ ~Cached(virt).exists \/ Cached(virt).uid # u
                    /\ tok' = tok \ {u}
  /\ UNCHANGED <<virt, phys, td, bu, forced, restarts, owner>>

----------------------------------------------------------------------------
(* The informers and the process.                                          *)

DeliverVirtual ==
  /\ Len(virt) > 1
  /\ virt' = Tail(virt)
  /\ UNCHANGED <<phys, tok, td, bu, forced, restarts, owner>>

DeliverPhysical ==
  /\ Len(phys) > 1
  /\ phys' = Tail(phys)
  /\ UNCHANGED <<virt, tok, td, bu, forced, restarts, owner>>

\* The syncer dies and starts again: it forgets its reconciles and lists anew.
Restart ==
  /\ restarts < MaxRestart /\ restarts' = restarts + 1
  /\ td' = Idle /\ bu' = Idle
  /\ virt' = <<V>> /\ phys' = <<P>>
  /\ UNCHANGED <<tok, forced, owner>>

----------------------------------------------------------------------------
(* The environment: users and schedulers of both clusters, the kubelet.    *)

RemoveVirt ==
  /\ Room(virt)
  /\ virt' = Append(virt, GoneV(V.uid))
  /\ forced' = forced \union {V.uid}

UserCreate ==
  /\ ~V.exists /\ V.uid < MaxV /\ Room(virt)
  /\ virt' = Append(virt, NewV(V.uid + 1))
  /\ UNCHANGED <<phys, tok, td, bu, forced, restarts, owner>>

VirtualSchedulerBind ==
  /\ V.exists /\ ~V.bound /\ Room(virt)
  /\ virt' = Append(virt, [V EXCEPT !.bound = TRUE])
  /\ UNCHANGED <<phys, tok, td, bu, forced, restarts, owner>>

\* A graceful delete.
UserDelete ==
  /\ V.exists /\ ~V.deleting
  /\ IF AtOnce(V) THEN RemoveVirt
     ELSE /\ Room(virt)
          /\ virt' = Append(virt, [V EXCEPT !.deleting = TRUE])
          /\ UNCHANGED forced
  /\ UNCHANGED <<phys, tok, td, bu, restarts, owner>>

\* kubectl delete --force, eviction with grace 0, pod GC after the node is gone.
UserForceDelete ==
  /\ V.exists
  /\ RemoveVirt
  /\ UNCHANGED <<phys, tok, td, bu, restarts, owner>>

PhysicalSchedulerBind ==
  /\ P.exists /\ ~P.bound /\ Room(phys)
  /\ phys' = Append(phys, [P EXCEPT !.bound = TRUE])
  /\ UNCHANGED <<virt, tok, td, bu, forced, restarts, owner>>

KubeletFinish ==
  /\ P.exists /\ P.bound /\ ~Terminal(P) /\ P.uid <= MaxDone /\ Room(phys)
  /\ phys' = Append(phys, [P EXCEPT !.phase = "Done"])
  /\ UNCHANGED <<virt, tok, td, bu, forced, restarts, owner>>

KubeletTerminate ==
  /\ P.exists /\ P.deleting /\ Room(phys)
  /\ phys' = Append(phys, GoneP(P, P.by))
  /\ UNCHANGED <<virt, tok, td, bu, forced, restarts, owner>>

\* A preemption, an eviction or an administrator deletes the physical pod.
PhysicalDeletedByOther ==
  /\ P.exists /\ ~P.deleting
  /\ DeletePhys("other")
  /\ UNCHANGED <<virt, tok, td, bu, forced, restarts, owner>>

----------------------------------------------------------------------------
Init ==
  /\ virt = <<NoV>> /\ phys = <<NoP>>
  /\ tok = {} /\ forced = {} /\ owner = <<>> /\ restarts = 0
  /\ td = Idle /\ bu = Idle

TDNext == \/ TDGetVirtual \/ TDGetPhysicalCached \/ TDGetPhysicalDirect
          \/ TDAct \/ TDCreatePhysicalPod \/ TDReturn

BUNext == BUGetPhysical \/ BUGetVirtual \/ BUAct \/ BUReturn

EnvNext ==
  \/ UserCreate \/ VirtualSchedulerBind \/ UserDelete \/ UserForceDelete
  \/ PhysicalSchedulerBind \/ KubeletFinish
  \/ KubeletTerminate \/ PhysicalDeletedByOther

Next == TDNext \/ BUNext \/ TokenGC \/ DeliverVirtual \/ DeliverPhysical
        \/ Restart \/ EnvNext

Spec == Init /\ [][Next]_vars

\* Watches deliver; a reconcile returns; every key is reconciled again and again
\* (events, retries with back-off, the periodic resync of the informers) and a call
\* that is retried for ever succeeds in the end; the kubelet completes a
\* termination; the token GC is periodic.  Users and schedulers owe nothing.
Fairness ==
  /\ WF_vars(DeliverVirtual) /\ WF_vars(DeliverPhysical)
  /\ WF_vars(TDNext) /\ SF_vars(TDAct) /\ SF_vars(TDCreatePhysicalPod)
  /\ WF_vars(BUNext) /\ SF_vars(BUAct)
  /\ WF_vars(KubeletTerminate) /\ WF_vars(TokenGC)

FairSpec == Spec /\ Fairness

----------------------------------------------------------------------------
(* Correctness.                                                            *)

Flight(pcs) == [pc : pcs, v : VVersion, p : PVersion]

\* The types of the store, the reconciles in flight and the history.
TypeOK ==
  /\ virt \in Seq(VVersion) /\ virt # <<>>
  /\ phys \in Seq(PVersion) /\ phys # <<>>
  /\ tok \in SUBSET Nat /\ forced \in SUBSET Nat /\ owner \in Seq(Nat)
  /\ restarts \in 0..MaxRestart
  /\ td \in Flight({"idle", "getCached", "getDirect", "act", "create"})
  /\ bu \in Flight({"idle", "getVirtual", "act"})

\* The virtual pod with UID u is gone or on its way out.
Doomed(u) == V.uid > u \/ ~V.exists \/ V.deleting

\* A physical pod falls to deletePhysicalPod of either controller only when the
\* virtual pod it was made for is really gone or being deleted, however old the
\* caches the reconcile decided from, although the top-down delete goes by name
\* and may hit another physical pod than the one it looked at.
CleanupOnlyDoomed == P.by = "cleanup" => Doomed(P.vuid)

\* deleteMismatchedPhysicalPodIfNeeded says of the pod it deletes "Physical pod is
\* stale data": it was made for an incarnation that is gone or going.
MismatchOnlyStale == P.by = "mismatch" => Doomed(P.vuid)

\* forceDeleteVirtualPod lets a virtual pod go only after its physical pod is
\* gone: a physical pod whose virtual pod no longer exists was left behind by
\* someone else's forced removal, never by the syncer's deletion flow.
GracefulDeletion ==
  P.exists /\ P.vuid \notin forced => V.exists /\ V.uid = P.vuid

\* The UID recorded on a virtual pod (updateVirtualPodWithPhysicalUID,
\* recordPhysicalPodMapping, buildSyncPod) is that of a physical pod created for
\* this very incarnation, never of its predecessor's under the same name.
MappingOwned == V.exists /\ V.puid # 0 =>
                  /\ V.puid \in DOMAIN owner
                  /\ owner[V.puid] = V.uid

\* Once recorded, the physical UID of a virtual pod never changes, although two
\* controllers write it from copies that may be old.
RecordedOnce ==
  [][V.exists /\ V'.exists /\ V'.uid = V.uid /\ V.puid # 0
     => V'.puid = V.puid]_vars

\* setVirtualPodFailed reports PhysicalPodLost only when the recorded physical
\* pod is really gone, not merely missing from the cache.
LostOnlyIfGone ==
  V.exists /\ V.phase = "Lost" => ~(P.exists /\ P.uid = V.puid)

\* The physical pod of a live virtual pod has its service account token secret:
\* neither the deletion paths nor the garbage collector take it too early.
TokenBacked ==
  P.exists /\ V.exists /\ V.uid = P.vuid /\ ~V.deleting => P.vuid \in tok

Live(u) == V.exists /\ V.uid = u /\ V.bound /\ ~V.deleting

\* What was made for a virtual pod that is gone goes as well, its physical pod
\* and its token secret, also when the creation was under way or the deletion of
\* the secret failed (handleVirtualPodNotFound, deletePhysicalPod of both
\* controllers, runServiceAccountTokenGC).
OrphanCollected ==
  \A u \in 1..MaxV : (V.uid > u \/ (V.uid = u /\ ~V.exists))
                        ~> (u \notin tok /\ (P.exists => P.vuid # u))

\* A virtual pod being deleted eventually goes (handleVirtualPodDeletion,
\* forceDeleteVirtualPod).
DeletionCompletes ==
  \A u \in 1..MaxV : (V.exists /\ V.uid = u /\ V.deleting /\ V.bound)
                        ~> (~V.exists \/ V.uid # u)

\* A scheduled virtual pod eventually has a physical UID recorded, unless it is
\* deleted or the bound on physical pods is spent.
EventuallyRecorded ==
  \A u \in 1..MaxV : Live(u) ~> (~Live(u) \/ V.puid # 0 \/ P.uid = MaxP)

\* A live virtual pod whose recorded physical pod is gone is eventually reported
\* lost, unless another physical pod of its own stands under the name.
LossReported ==
  \A u \in 1..MaxV : (Live(u) /\ V.puid # 0 /\ ~P.exists)
                        ~> (~Live(u) \/ V.phase = "Lost" \/ P.exists)
============================================================================
