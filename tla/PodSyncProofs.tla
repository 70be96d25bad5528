--------------------------- MODULE PodSyncProofs ---------------------------
(***************************************************************************)
(* Proofs about PodSync, for every value of its bounds.                    *)
(*                                                                         *)
(* The safety properties rest on one inductive invariant, IInv.  Its core  *)
(* is that a cache and a copy held by a reconcile lie on the same line of  *)
(* versions as the truth (NoLater), and that a physical pod is only ever   *)
(* created for an incarnation whose mapping the cache already shows        *)
(* (Seen): so whoever finds a virtual pod unmapped, gone or replaced after *)
(* finding its physical pod knows that it is really gone.                  *)
(***************************************************************************)
EXTENDS PodSync, TLAPS

Entries(log) == {log[i] : i \in 1..Len(log)}

\* a is a version of the virtual pod no later than b.
NoLater(a, b) ==
  \/ a.uid < b.uid
  \/ /\ a.uid = b.uid
     /\ b.exists => /\ a.exists
                    /\ a.mapped => b.mapped
                    /\ a.deleting => b.deleting

Ordered(log) ==
  \A i, j \in 1..Len(log) : i <= j => NoLater(log[i], log[j])

\* The copies of the virtual pod that reconciles hold are no later than the cache.
CopiesOld ==
  /\ td.pc # "idle" => NoLater(td.v, Cached(virt))
  /\ bu.pc = "act" => NoLater(bu.v, Cached(virt))

\* v shows that a physical pod could be created for incarnation u: it is later,
\* or it is u, mapped or gone.
Seen(v, u) == v.uid > u \/ (v.uid = u /\ (v.exists => v.mapped))

\* Every incarnation a physical pod was created for is seen by the cache, by the
\* td reconcile in flight, and by the bu reconcile for the pod it looks at.
CreationsSeen ==
  /\ \A i \in 1..Len(owner) : Seen(Cached(virt), owner[i])
  /\ td.pc # "idle" => \A i \in 1..Len(owner) : Seen(td.v, owner[i])
  /\ bu.pc = "act" => Seen(bu.v, bu.p.vuid)

\* p carries the annotation it was created with according to the history own, and
\* is not reported lost.
Recorded(p, own) ==
  /\ p.uid <= Len(own)
  /\ IF p.uid = 0 THEN p.vuid = 0 /\ ~p.exists ELSE own[p.uid] = p.vuid
  /\ p.phase # "Lost"

OwnerRecorded ==
  /\ Len(owner) = P.uid
  /\ \A p \in Entries(phys) : Recorded(p, owner)
  /\ Recorded(td.p, owner) /\ Recorded(bu.p, owner)
  /\ bu.pc # "idle" => bu.p.uid # 0

\* A physical UID is recorded only next to the mapping, a loss only next to a UID.
RecordShape ==
  V.exists => (V.puid # 0 => V.mapped) /\ (V.phase = "Lost" => V.puid # 0)

\* A version that is not being deleted belongs to the current pod cur, unless
\* someone removed that incarnation by force (fs).
AliveOrForced(v, cur, fs) ==
  v.exists /\ ~v.deleting => v.uid \in fs \/ (cur.exists /\ cur.uid = v.uid)

LiveCopies ==
  /\ \A v \in Entries(virt) : AliveOrForced(v, V, forced)
  /\ AliveOrForced(td.v, V, forced)

\* What the td reconcile found missing is missing still: nobody else creates.
Absent ==
  td.pc \in {"act", "create"} /\ ~td.p.exists /\ (VDying => td.v.mapped)
    => ~P.exists

CreateReady ==
  td.pc = "create" =>
    /\ td.v.exists /\ ~td.v.deleting /\ td.v.mapped /\ ~td.p.exists
    /\ td.v.uid \in tok \/ Doomed(td.v.uid)

IdleCopies ==
  /\ td.pc = "idle" => td = Idle
  /\ bu.pc = "idle" => bu = Idle

IInv ==
  /\ TypeOK /\ Ordered(virt) /\ CopiesOld /\ CreationsSeen /\ OwnerRecorded
  /\ RecordShape /\ LiveCopies /\ Absent /\ CreateReady /\ IdleCopies
  /\ CleanupOnlyDoomed /\ GracefulDeletion /\ MappingOwned
  /\ LostOnlyIfGone /\ TokenBacked

----------------------------------------------------------------------------
(* Logs.                                                                   *)

\* A new version at the end of a log leaves the cache alone and is the new truth.
LEMMA LogAppend ==
  ASSUME NEW S, NEW log \in Seq(S), log # <<>>, NEW x \in S
  PROVE  /\ Append(log, x) \in Seq(S) /\ Append(log, x) # <<>>
         /\ Cached(Append(log, x)) = Cached(log)
         /\ Truth(Append(log, x)) = x
         /\ Entries(Append(log, x)) = Entries(log) \union {x}
<1>1. /\ Append(log, x) \in Seq(S) /\ Len(Append(log, x)) = Len(log) + 1
      /\ Append(log, x)[Len(log) + 1] = x
      /\ \A i \in 1..Len(log) : Append(log, x)[i] = log[i]
      /\ Len(log) \in Nat /\ Len(log) >= 1
  OBVIOUS
<1>2. Cached(Append(log, x)) = Cached(log) /\ Truth(Append(log, x)) = x
  BY <1>1 DEF Cached, Truth
<1>3. Entries(Append(log, x)) = Entries(log) \union {x}
  BY <1>1 DEF Entries
<1> QED
  BY <1>1, <1>2, <1>3

\* Delivering one event drops the oldest version only.
LEMMA LogTail ==
  ASSUME NEW S, NEW log \in Seq(S), Len(log) > 1
  PROVE  /\ Tail(log) \in Seq(S) /\ Tail(log) # <<>>
         /\ Cached(Tail(log)) \in Entries(log)
         /\ Truth(Tail(log)) = Truth(log)
         /\ Entries(Tail(log)) \subseteq Entries(log)
<1>1. /\ Tail(log) \in Seq(S) /\ Len(Tail(log)) = Len(log) - 1
      /\ \A i \in 1..Len(Tail(log)) : Tail(log)[i] = log[i + 1]
      /\ Len(log) \in Nat
  OBVIOUS
<1>2. Cached(Tail(log)) = log[2] /\ Truth(Tail(log)) = Truth(log)
  BY <1>1 DEF Cached, Truth
<1>3. Entries(Tail(log)) \subseteq Entries(log)
  BY <1>1 DEF Entries
<1>4. Cached(Tail(log)) \in Entries(log)
  <2>1. 2 \in 1..Len(log)
    BY <1>1
  <2> QED
    BY <1>2, <2>1 DEF Entries
<1>5. Tail(log) # <<>>
  <2>1. Len(Tail(log)) # 0 /\ Len(<<>>) = 0
    BY <1>1
  <2> QED
    BY <2>1, Zenon
<1> QED
  BY <1>1, <1>2, <1>3, <1>4, <1>5

\* A relist leaves the truth alone.
LEMMA LogSingle ==
  ASSUME NEW S, NEW log \in Seq(S), log # <<>>
  PROVE  /\ <<Truth(log)>> \in Seq(S) /\ <<Truth(log)>> # <<>>
         /\ Truth(<<Truth(log)>>) = Truth(log)
         /\ Cached(<<Truth(log)>>) = Truth(log)
         /\ Truth(log) \in S /\ Cached(log) \in S
         /\ Truth(log) \in Entries(log) /\ Cached(log) \in Entries(log)
         /\ Entries(<<Truth(log)>>) = {Truth(log)}
         /\ Entries(log) \subseteq S
<1>1. Len(log) \in Nat /\ Len(log) >= 1
  OBVIOUS
<1>2. Truth(log) \in S /\ Cached(log) \in S
  BY <1>1 DEF Truth, Cached
<1>3. Truth(log) \in Entries(log) /\ Cached(log) \in Entries(log)
  BY <1>1 DEF Truth, Cached, Entries
<1>4. Len(<<Truth(log)>>) = 1 /\ <<Truth(log)>>[1] = Truth(log)
  OBVIOUS
<1>5. Truth(<<Truth(log)>>) = Truth(log) /\ Cached(<<Truth(log)>>) = Truth(log)
  BY <1>4 DEF Truth, Cached
<1>6. Entries(<<Truth(log)>>) = {Truth(log)}
  BY <1>4 DEF Entries
<1>7. Entries(log) \subseteq S
  BY DEF Entries
<1> QED
  BY <1>2, <1>3, <1>5, <1>6, <1>7

\* The order of versions is reflexive and transitive.
LEMMA NoLaterRefl == \A a \in VVersion : NoLater(a, a)
  BY DEF NoLater, VVersion

LEMMA NoLaterTrans ==
  ASSUME NEW a \in VVersion, NEW b \in VVersion, NEW c \in VVersion,
         NoLater(a, b), NoLater(b, c)
  PROVE  NoLater(a, c)
<1>1. a.uid \in Nat /\ b.uid \in Nat /\ c.uid \in Nat
  BY DEF VVersion
<1> QED
  BY <1>1 DEF NoLater

\* In an ordered log the cache is first and the truth last.
LEMMA OrderedEnds ==
  ASSUME NEW log \in Seq(VVersion), log # <<>>, Ordered(log)
  PROVE  /\ \A v \in Entries(log) : NoLater(Cached(log), v) /\ NoLater(v, Truth(log))
         /\ NoLater(Cached(log), Truth(log))
<1>1. Len(log) \in Nat /\ Len(log) >= 1
  OBVIOUS
<1> QED
  BY <1>1 DEF Ordered, Entries, Cached, Truth

LEMMA OrderedAppend ==
  ASSUME NEW log \in Seq(VVersion), log # <<>>, Ordered(log),
         NEW w \in VVersion, NoLater(Truth(log), w)
  PROVE  Ordered(Append(log, w))
<1>1. /\ Len(log) \in Nat /\ Len(log) >= 1 /\ Len(Append(log, w)) = Len(log) + 1
      /\ Append(log, w)[Len(log) + 1] = w
      /\ \A i \in 1..Len(log) : Append(log, w)[i] = log[i] /\ log[i] \in VVersion
  OBVIOUS
<1>2. \A i \in 1..Len(log) : NoLater(log[i], w)
  <2> TAKE i \in 1..Len(log)
  <2>1. NoLater(log[i], Truth(log)) /\ Truth(log) \in VVersion
    BY <1>1 DEF Ordered, Truth
  <2> QED
    BY <1>1, <2>1, NoLaterTrans
<1>3. NoLater(w, w)
  BY NoLaterRefl
<1> SUFFICES ASSUME NEW i \in 1..Len(log) + 1, NEW j \in 1..Len(log) + 1, i <= j
             PROVE  NoLater(Append(log, w)[i], Append(log, w)[j])
  BY <1>1 DEF Ordered
<1>4. CASE j = Len(log) + 1
  BY <1>1, <1>2, <1>3, <1>4
<1>5. CASE j <= Len(log)
  BY <1>1, <1>5 DEF Ordered
<1> QED
  BY <1>1, <1>4, <1>5

LEMMA OrderedTail ==
  ASSUME NEW log \in Seq(VVersion), Len(log) > 1, Ordered(log)
  PROVE  Ordered(Tail(log)) /\ NoLater(Cached(log), Cached(Tail(log)))
<1>1. /\ Len(log) \in Nat /\ Len(Tail(log)) = Len(log) - 1
      /\ \A i \in 1..Len(Tail(log)) : Tail(log)[i] = log[i + 1]
  OBVIOUS
<1>2. Ordered(Tail(log))
  BY <1>1 DEF Ordered
<1>3. NoLater(Cached(log), Cached(Tail(log)))
  BY <1>1 DEF Ordered, Cached
<1> QED
  BY <1>2, <1>3

----------------------------------------------------------------------------
(* Types, and how a step moves the two logs.                               *)

LEMMA VersionTypes ==
  /\ \A u \in Nat : NewV(u) \in VVersion /\ GoneV(u) \in VVersion
  /\ \A u, v \in Nat : NewP(u, v) \in PVersion
  /\ \A p \in PVersion, who \in Deleter : GoneP(p, who) \in PVersion
  /\ NoV \in VVersion /\ NoP \in PVersion
<1>1. \A u \in Nat : NewV(u) \in VVersion /\ GoneV(u) \in VVersion
  BY DEF NewV, GoneV, VVersion, Phase
<1>2. \A u, v \in Nat : NewP(u, v) \in PVersion
  BY DEF NewP, PVersion, Phase, Deleter
<1>3. \A p \in PVersion, who \in Deleter : GoneP(p, who) \in PVersion
  BY DEF GoneP, NewP, PVersion, Phase
<1> QED
  BY <1>1, <1>2, <1>3 DEF NoV, NoP, Deleter

\* What TypeOK says of the pieces the actions work on.
LEMMA TypeFacts ==
  ASSUME TypeOK
  PROVE  /\ virt \in Seq(VVersion) /\ virt # <<>>
         /\ phys \in Seq(PVersion) /\ phys # <<>>
         /\ V \in VVersion /\ Cached(virt) \in VVersion
         /\ P \in PVersion /\ Cached(phys) \in PVersion
         /\ Entries(virt) \subseteq VVersion /\ Entries(phys) \subseteq PVersion
         /\ td.v \in VVersion /\ td.p \in PVersion
         /\ bu.v \in VVersion /\ bu.p \in PVersion
         /\ V.uid \in Nat /\ P.uid \in Nat /\ P.vuid \in Nat
         /\ td.v.uid \in Nat /\ td.p.uid \in Nat /\ bu.p.uid \in Nat
         /\ V.puid \in Nat
<1>1. /\ virt \in Seq(VVersion) /\ virt # <<>> /\ phys \in Seq(PVersion) /\ phys # <<>>
      /\ td.v \in VVersion /\ td.p \in PVersion
      /\ bu.v \in VVersion /\ bu.p \in PVersion
  BY DEF TypeOK, Flight
<1>2. /\ V \in VVersion /\ Cached(virt) \in VVersion
      /\ Entries(virt) \subseteq VVersion
  BY <1>1, LogSingle DEF V
<1>3. /\ P \in PVersion /\ Cached(phys) \in PVersion
      /\ Entries(phys) \subseteq PVersion
  BY <1>1, LogSingle DEF P
<1>4. \A v \in VVersion : v.uid \in Nat /\ v.puid \in Nat
  BY DEF VVersion
<1>5. \A p \in PVersion : p.uid \in Nat /\ p.vuid \in Nat
  BY DEF PVersion
<1> QED
  BY <1>1, <1>2, <1>3, <1>4, <1>5

\* The ways a step may move the log of the virtual pod.
VirtMove ==
  \/ virt' = virt
  \/ \E w \in VVersion : NoLater(V, w) /\ virt' = Append(virt, w)
  \/ Len(virt) > 1 /\ virt' = Tail(virt)
  \/ virt' = <<V>>

\* The ways a step may move the log of the physical pod.
PhysMove ==
  \/ phys' = phys
  \/ \E q \in PVersion : phys' = Append(phys, q)
  \/ Len(phys) > 1 /\ phys' = Tail(phys)
  \/ phys' = <<P>>

LEMMA UpdateVirtMove ==
  ASSUME TypeOK, NEW v, NEW w \in VVersion, NoLater(v, w), UpdateVirt(v, w)
  PROVE  VirtMove
  BY DEF UpdateVirt, VirtMove

LEMMA DeletePhysMove ==
  ASSUME TypeOK, NEW who \in Deleter, DeletePhys(who)
  PROVE  PhysMove
<1>1. GoneP(P, who) \in PVersion /\ P \in PVersion
  BY TypeFacts, VersionTypes
<1>2. [P EXCEPT !.deleting = TRUE, !.by = who] \in PVersion
  BY <1>1 DEF PVersion
<1> QED
  BY <1>1, <1>2 DEF DeletePhys, PhysMove

\* A graceful delete and the environment's other steps on the virtual pod.
LEMMA GoneMove ==
  ASSUME TypeOK, Room(virt), virt' = Append(virt, GoneV(V.uid))
  PROVE  VirtMove
<1>1. GoneV(V.uid) \in VVersion /\ NoLater(V, GoneV(V.uid))
  BY TypeFacts, VersionTypes DEF NoLater, GoneV, NewV
<1> QED
  BY <1>1 DEF VirtMove

LEMMA VirtMoves == TypeOK /\ Next => VirtMove
<1> SUFFICES ASSUME TypeOK, Next PROVE VirtMove
  OBVIOUS
<1> USE TypeFacts
<1>1. CASE \/ TDGetVirtual \/ TDGetPhysicalCached \/ TDGetPhysicalDirect
           \/ TDDeletePhysicalPod \/ TDDeleteMismatchedPhysicalPod
           \/ TDSyncDependentResources \/ TDCreatePhysicalPod \/ TDReturn
           \/ TDHandleUnScheduledPhysicalPod \/ BUGetPhysical \/ BUGetVirtual
           \/ BUDeletePhysicalPod \/ BUReturn \/ TokenGC \/ DeliverPhysical
           \/ PhysicalSchedulerBind \/ KubeletFinish \/ KubeletTerminate
           \/ PhysicalDeletedByOther
  BY <1>1 DEF VirtMove, TDGetVirtual, TDGetPhysicalCached, TDGetPhysicalDirect,
     TDDeletePhysicalPod, TDDeleteMismatchedPhysicalPod, TDReturn,
     TDSyncDependentResources, TDCreatePhysicalPod, TDHandleUnScheduledPhysicalPod,
     BUGetPhysical, BUGetVirtual, BUDeletePhysicalPod, BUReturn, TokenGC,
     DeliverPhysical, PhysicalSchedulerBind, KubeletFinish, KubeletTerminate,
     PhysicalDeletedByOther
<1>2. CASE TDForceDeleteVirtualPod
  BY <1>2, GoneMove DEF TDForceDeleteVirtualPod, VirtMove
<1>3. CASE TDGeneratePhysicalPodMapping
  <2> DEFINE w == [td.v EXCEPT !.mapped = TRUE,
                     !.puid = IF td.p.exists THEN td.p.uid ELSE 0]
  <2>1. w \in VVersion /\ NoLater(td.v, w)
    BY DEF VVersion, NoLater
  <2> QED
    BY <1>3, <2>1, UpdateVirtMove DEF TDGeneratePhysicalPodMapping
<1>4. CASE TDSetVirtualPodFailed
  <2> DEFINE w == [td.v EXCEPT !.phase = "Lost"]
  <2>1. w \in VVersion /\ NoLater(td.v, w)
    BY DEF VVersion, NoLater, Phase
  <2> QED
    BY <1>4, <2>1, UpdateVirtMove DEF TDSetVirtualPodFailed
<1>5. CASE TDUpdateVirtualPodWithPhysicalUID
  <2> DEFINE w == [td.v EXCEPT !.puid = td.p.uid]
  <2>1. w \in VVersion /\ NoLater(td.v, w)
    BY DEF VVersion, NoLater
  <2> QED
    BY <1>5, <2>1, UpdateVirtMove DEF TDUpdateVirtualPodWithPhysicalUID
<1>6. CASE BUSyncPhysicalPodToVirtual
  <2> DEFINE w == [bu.v EXCEPT !.phase = bu.p.phase,
                     !.puid = IF @ = 0 THEN bu.p.uid ELSE @]
  <2>1. w \in VVersion /\ NoLater(bu.v, w)
    BY DEF VVersion, PVersion, NoLater
  <2> QED
    BY <1>6, <2>1, UpdateVirtMove DEF BUSyncPhysicalPodToVirtual
<1>7. CASE DeliverVirtual \/ Restart
  BY <1>7 DEF DeliverVirtual, Restart, VirtMove
<1>8. CASE UserCreate
  <2>1. NewV(V.uid + 1) \in VVersion /\ NoLater(V, NewV(V.uid + 1))
    BY VersionTypes DEF NoLater, NewV
  <2> QED
    BY <1>8, <2>1 DEF UserCreate, VirtMove
<1>9. CASE VirtualSchedulerBind
  <2>1. [V EXCEPT !.bound = TRUE] \in VVersion /\ NoLater(V, [V EXCEPT !.bound = TRUE])
    BY DEF VVersion, NoLater
  <2> QED
    BY <1>9, <2>1 DEF VirtualSchedulerBind, VirtMove
<1>10. CASE UserDelete
  <2>1. /\ [V EXCEPT !.deleting = TRUE] \in VVersion
        /\ NoLater(V, [V EXCEPT !.deleting = TRUE])
    BY DEF VVersion, NoLater
  <2> QED
    BY <1>10, <2>1, GoneMove DEF UserDelete, RemoveVirt, VirtMove
<1>11. CASE UserForceDelete
  BY <1>11, GoneMove DEF UserForceDelete, RemoveVirt
<1> QED
  BY <1>1, <1>2, <1>3, <1>4, <1>5, <1>6, <1>7, <1>8, <1>9, <1>10, <1>11
  DEF Next, TDNext, TDAct, BUNext, BUAct, EnvNext

LEMMA PhysMoves == TypeOK /\ Next => PhysMove
<1> SUFFICES ASSUME TypeOK, Next PROVE PhysMove
  OBVIOUS
<1> USE TypeFacts
<1>1. CASE \/ TDGetVirtual \/ TDGetPhysicalCached \/ TDGetPhysicalDirect
           \/ TDForceDeleteVirtualPod \/ TDGeneratePhysicalPodMapping
           \/ TDSetVirtualPodFailed \/ TDSyncDependentResources \/ TDReturn
           \/ TDUpdateVirtualPodWithPhysicalUID \/ BUGetPhysical \/ BUGetVirtual
           \/ BUSyncPhysicalPodToVirtual \/ BUReturn \/ TokenGC \/ DeliverVirtual
           \/ UserCreate \/ VirtualSchedulerBind \/ UserDelete \/ UserForceDelete
  BY <1>1 DEF PhysMove, TDGetVirtual, TDGetPhysicalCached, TDGetPhysicalDirect,
     TDForceDeleteVirtualPod, TDGeneratePhysicalPodMapping, TDSetVirtualPodFailed,
     TDSyncDependentResources, TDReturn, TDUpdateVirtualPodWithPhysicalUID,
     BUGetPhysical, BUGetVirtual, BUSyncPhysicalPodToVirtual, BUReturn, TokenGC,
     DeliverVirtual, UserCreate, VirtualSchedulerBind, UserDelete, UserForceDelete
<1>2. CASE \/ TDDeletePhysicalPod \/ TDDeleteMismatchedPhysicalPod
           \/ TDHandleUnScheduledPhysicalPod \/ PhysicalDeletedByOther
           \/ BUDeletePhysicalPod
  BY <1>2, DeletePhysMove DEF Deleter, PhysMove, TDDeletePhysicalPod,
     TDDeleteMismatchedPhysicalPod, TDHandleUnScheduledPhysicalPod,
     PhysicalDeletedByOther, BUDeletePhysicalPod
<1>3. CASE TDCreatePhysicalPod
  <2>1. NewP(P.uid + 1, td.v.uid) \in PVersion
    BY VersionTypes
  <2> QED
    BY <1>3, <2>1 DEF TDCreatePhysicalPod, PhysMove
<1>4. CASE DeliverPhysical \/ Restart
  BY <1>4 DEF DeliverPhysical, Restart, PhysMove
<1>5. CASE PhysicalSchedulerBind
  <2>1. [P EXCEPT !.bound = TRUE] \in PVersion
    BY DEF PVersion
  <2> QED
    BY <1>5, <2>1 DEF PhysicalSchedulerBind, PhysMove
<1>6. CASE KubeletFinish
  <2>1. [P EXCEPT !.phase = "Done"] \in PVersion
    BY DEF PVersion, Phase
  <2> QED
    BY <1>6, <2>1 DEF KubeletFinish, PhysMove
<1>7. CASE KubeletTerminate
  <2>1. GoneP(P, P.by) \in PVersion
    BY VersionTypes DEF PVersion
  <2> QED
    BY <1>7, <2>1 DEF KubeletTerminate, PhysMove
<1> QED
  BY <1>1, <1>2, <1>3, <1>4, <1>5, <1>6, <1>7
  DEF Next, TDNext, TDAct, BUNext, BUAct, EnvNext

\* Types are kept by every step.
LEMMA TypeStep == TypeOK /\ [Next]_vars => TypeOK'
<1> SUFFICES ASSUME TypeOK, [Next]_vars PROVE TypeOK'
  OBVIOUS
<1> USE TypeFacts
<1>1. CASE UNCHANGED vars
  BY <1>1 DEF vars, TypeOK
<1>2. ASSUME Next PROVE virt' \in Seq(VVersion) /\ virt' # <<>>
  <2>1. VirtMove
    BY <1>2, VirtMoves
  <2>2. CASE virt' = virt
    BY <2>2
  <2>3. CASE \E w \in VVersion : NoLater(V, w) /\ virt' = Append(virt, w)
    BY <2>3, LogAppend
  <2>4. CASE Len(virt) > 1 /\ virt' = Tail(virt)
    BY <2>4, LogTail
  <2>5. CASE virt' = <<V>>
    BY <2>5, LogSingle DEF V
  <2> QED
    BY <2>1, <2>2, <2>3, <2>4, <2>5 DEF VirtMove
<1>3. ASSUME Next PROVE phys' \in Seq(PVersion) /\ phys' # <<>>
  <2>1. PhysMove
    BY <1>3, PhysMoves
  <2>2. CASE phys' = phys
    BY <2>2
  <2>3. CASE \E q \in PVersion : phys' = Append(phys, q)
    BY <2>3, LogAppend
  <2>4. CASE Len(phys) > 1 /\ phys' = Tail(phys)
    BY <2>4, LogTail
  <2>5. CASE phys' = <<P>>
    BY <2>5, LogSingle DEF P
  <2> QED
    BY <2>1, <2>2, <2>3, <2>4, <2>5 DEF PhysMove
<1> DEFINE TDType == td' \in Flight({"idle", "getCached", "getDirect", "act", "create"})
           BUType == bu' \in Flight({"idle", "getVirtual", "act"})
           Rest == /\ tok' \in SUBSET Nat /\ forced' \in SUBSET Nat
                   /\ owner' \in Seq(Nat) /\ restarts' \in 0..MaxRestart
<1>4. /\ Idle \in Flight({"idle", "getCached", "getDirect", "act", "create"})
      /\ Idle \in Flight({"idle", "getVirtual", "act"})
      /\ NoV \in VVersion /\ NoP \in PVersion
  BY VersionTypes DEF Idle, Flight
<1>5. ASSUME TDNext PROVE TDType /\ BUType /\ Rest
  <2>1. CASE TDGetVirtual
    BY <1>4, <2>1 DEF TDGetVirtual, TypeOK, Flight
  <2>2. CASE TDGetPhysicalCached \/ TDGetPhysicalDirect
    BY <1>4, <2>2 DEF TDGetPhysicalCached, TDGetPhysicalDirect, TypeOK, Flight
  <2>3. CASE TDSyncDependentResources
    BY <2>3 DEF TDSyncDependentResources, TypeOK, Flight
  <2>4. CASE TDCreatePhysicalPod
    <3>1. owner' = owner \/ owner' = Append(owner, td.v.uid)
      BY <2>4 DEF TDCreatePhysicalPod
    <3>2. owner' \in Seq(Nat)
      <4>1. owner \in Seq(Nat) /\ td.v.uid \in Nat
        BY DEF TypeOK
      <4>2. Append(owner, td.v.uid) \in Seq(Nat)
        BY <4>1
      <4> QED
        BY <3>1, <4>1, <4>2
    <3> QED
      BY <1>4, <2>4, <3>2 DEF TDCreatePhysicalPod, TypeOK
  <2>5. CASE TDReturn
    BY <1>4, <2>5 DEF TDReturn, TypeOK
  <2>6. CASE \/ TDDeletePhysicalPod \/ TDForceDeleteVirtualPod
             \/ TDDeleteMismatchedPhysicalPod \/ TDGeneratePhysicalPodMapping
             \/ TDSetVirtualPodFailed \/ TDUpdateVirtualPodWithPhysicalUID
             \/ TDHandleUnScheduledPhysicalPod
    BY <1>4, <2>6 DEF TDDeletePhysicalPod, TDForceDeleteVirtualPod,
       TDDeleteMismatchedPhysicalPod, TDGeneratePhysicalPodMapping,
       TDSetVirtualPodFailed, TDUpdateVirtualPodWithPhysicalUID,
       TDHandleUnScheduledPhysicalPod, TDActing, TypeOK
  <2> QED
    BY <1>5, <2>1, <2>2, <2>3, <2>4, <2>5, <2>6 DEF TDNext, TDAct
<1>6. ASSUME BUNext PROVE TDType /\ BUType /\ Rest
  <2>1. CASE BUGetPhysical
    BY <1>4, <2>1 DEF BUGetPhysical, TypeOK, Flight
  <2>3. CASE BUGetVirtual
    BY <1>4, <2>3 DEF BUGetVirtual, TypeOK, Flight
  <2>2. CASE BUDeletePhysicalPod \/ BUSyncPhysicalPodToVirtual \/ BUReturn
    BY <1>4, <2>2 DEF BUDeletePhysicalPod, BUSyncPhysicalPodToVirtual, BUReturn, TypeOK
  <2> QED
    BY <1>6, <2>1, <2>2, <2>3 DEF BUNext, BUAct
<1>7. ASSUME TokenGC \/ DeliverVirtual \/ DeliverPhysical \/ Restart
      PROVE  TDType /\ BUType /\ Rest
  <2>1. CASE TokenGC
    BY <2>1 DEF TokenGC, TypeOK
  <2>2. CASE DeliverVirtual \/ DeliverPhysical
    BY <2>2 DEF DeliverVirtual, DeliverPhysical, TypeOK
  <2>3. CASE Restart
    BY <1>4, <2>3, BoundsAssumption DEF Restart, TypeOK
  <2> QED
    BY <1>7, <2>1, <2>2, <2>3
<1>8. ASSUME EnvNext PROVE TDType /\ BUType /\ Rest
  BY <1>8 DEF EnvNext, UserCreate, VirtualSchedulerBind, UserDelete, UserForceDelete,
     RemoveVirt, PhysicalSchedulerBind, KubeletFinish, KubeletTerminate,
     PhysicalDeletedByOther, TypeOK
<1>9. CASE Next
  <2>1. TDType /\ BUType /\ Rest
    BY <1>5, <1>6, <1>7, <1>8, <1>9 DEF Next
  <2> QED
    BY <1>2, <1>3, <1>9, <2>1 DEF TypeOK
<1> QED
  BY <1>1, <1>9

LEMMA TypeInit == Init => TypeOK
<1> SUFFICES ASSUME Init PROVE TypeOK
  OBVIOUS
<1>1. <<NoV>> \in Seq(VVersion) /\ <<NoP>> \in Seq(PVersion)
  BY VersionTypes
<1>2. /\ Idle \in Flight({"idle", "getCached", "getDirect", "act", "create"})
      /\ Idle \in Flight({"idle", "getVirtual", "act"})
  BY VersionTypes DEF Idle, Flight
<1>3. <<NoV>> # <<>> /\ <<NoP>> # <<>>
  OBVIOUS
<1>4. <<>> \in Seq(Nat) /\ 0 \in 0..MaxRestart
  BY BoundsAssumption
<1> QED
  BY <1>1, <1>2, <1>3, <1>4 DEF Init, TypeOK

\* The store, the reconciles in flight and the history keep their types
\* (VirtualPodReconciler and PhysicalPodReconciler, every handler).
THEOREM TypeCorrect == Spec => []TypeOK
  BY TypeInit, TypeStep, PTL DEF Spec

----------------------------------------------------------------------------
(* What a step does to the truth.                                          *)

LEMMA VirtAppended ==
  ASSUME TypeOK, NEW w \in VVersion, virt' = Append(virt, w)
  PROVE  V' = w /\ Cached(virt') = Cached(virt)
  BY TypeFacts, LogAppend DEF V

LEMMA PhysAppended ==
  ASSUME TypeOK, NEW q \in PVersion, phys' = Append(phys, q)
  PROVE  P' = q
  BY TypeFacts, LogAppend DEF P

\* Deliveries and relists change no truth.
LEMMA VirtKept ==
  ASSUME TypeOK, virt' = virt \/ DeliverVirtual \/ Restart
  PROVE  V' = V
  BY TypeFacts, LogTail, LogSingle DEF V, DeliverVirtual, Restart

LEMMA PhysKept ==
  ASSUME TypeOK, phys' = phys \/ DeliverPhysical \/ Restart
  PROVE  P' = P
  BY TypeFacts, LogTail, LogSingle DEF P, DeliverPhysical, Restart

\* A step keeps the log ordered, and neither the cache nor the truth goes back.
LEMMA VirtAfter ==
  ASSUME TypeOK, Ordered(virt), [Next]_vars
  PROVE  /\ V' \in VVersion /\ Cached(virt') \in VVersion
         /\ Ordered(virt')
         /\ NoLater(Cached(virt), Cached(virt')) /\ NoLater(V, V')
         /\ NoLater(Cached(virt), V) /\ NoLater(Cached(virt'), V')
         /\ \A v \in Entries(virt) : NoLater(Cached(virt), v)
         /\ Entries(virt') \subseteq Entries(virt) \union {V'}
<1>1. TypeOK' /\ V' \in VVersion /\ Cached(virt') \in VVersion
  <2>1. TypeOK'
    BY TypeStep
  <2>2. virt' \in Seq(VVersion) /\ virt' # <<>>
    BY <2>1 DEF TypeOK
  <2> QED
    BY <2>1, <2>2, LogSingle DEF V
<1>2. VirtMove
  <2>1. CASE UNCHANGED vars
    BY <2>1 DEF vars, VirtMove
  <2> QED
    BY <2>1, VirtMoves
<1>3. /\ virt \in Seq(VVersion) /\ virt # <<>> /\ V \in VVersion
      /\ Cached(virt) \in VVersion /\ V = Truth(virt) /\ V' = Truth(virt')
  BY TypeFacts DEF V
<1> DEFINE After == /\ Ordered(virt')
                    /\ NoLater(Cached(virt), Cached(virt')) /\ NoLater(V, V')
                    /\ Entries(virt') \subseteq Entries(virt) \union {V'}
<1>4. NoLater(Cached(virt), V) /\ \A v \in Entries(virt) : NoLater(Cached(virt), v)
  BY <1>3, OrderedEnds
<1>5. NoLater(V, V) /\ NoLater(Cached(virt), Cached(virt))
  BY <1>3, NoLaterRefl
<1>6. ASSUME virt' = virt
      PROVE  After
  BY <1>3, <1>5, <1>6
<1>7. ASSUME \E w \in VVersion : NoLater(V, w) /\ virt' = Append(virt, w)
      PROVE  After
  <2> PICK w \in VVersion : NoLater(V, w) /\ virt' = Append(virt, w)
    BY <1>7
  <2>1. V' = w /\ Cached(virt') = Cached(virt)
    BY VirtAppended
  <2>2. Ordered(virt')
    BY <1>3, OrderedAppend
  <2>3. Entries(virt') = Entries(virt) \union {w}
    BY <1>3, LogAppend
  <2> QED
    BY <1>5, <2>1, <2>2, <2>3
<1>8. ASSUME Len(virt) > 1 /\ virt' = Tail(virt)
      PROVE  After
  <2>1. V' = V /\ Entries(virt') \subseteq Entries(virt)
    BY <1>3, <1>8, LogTail
  <2>2. Ordered(virt') /\ NoLater(Cached(virt), Cached(virt'))
    BY <1>3, <1>8, OrderedTail
  <2> QED
    BY <1>5, <2>1, <2>2
<1>9. ASSUME virt' = <<V>>
      PROVE  After
  <2>1. V' = V /\ Entries(virt') = {V} /\ Cached(virt') = V
    BY <1>3, <1>9, LogSingle
  <2>2. Len(<<V>>) = 1 /\ <<V>>[1] = V
    OBVIOUS
  <2>3. Ordered(virt')
    BY <1>5, <1>9, <2>2 DEF Ordered
  <2> QED
    BY <1>4, <1>5, <2>1, <2>3
<1>10. After
  BY <1>2, <1>6, <1>7, <1>8, <1>9 DEF VirtMove
<1>11. NoLater(Cached(virt'), V')
  <2>1. virt' \in Seq(VVersion) /\ virt' # <<>>
    BY <1>1 DEF TypeOK
  <2> QED
    BY <1>3, <1>10, <2>1, OrderedEnds
<1> QED
  BY <1>1, <1>4, <1>10, <1>11

LEMMA PhysAfter ==
  ASSUME TypeOK, [Next]_vars
  PROVE  /\ P' \in PVersion
         /\ P \in Entries(phys) /\ Cached(phys) \in Entries(phys)
         /\ Entries(phys') \subseteq Entries(phys) \union {P'}
<1>1. PhysMove
  <2>1. CASE UNCHANGED vars
    BY <2>1 DEF vars, PhysMove
  <2> QED
    BY <2>1, PhysMoves
<1>2. /\ phys \in Seq(PVersion) /\ phys # <<>> /\ P = Truth(phys)
      /\ P' = Truth(phys')
  BY TypeFacts DEF P
<1>3. P \in Entries(phys) /\ Cached(phys) \in Entries(phys)
  BY <1>2, LogSingle
<1>4. P' \in PVersion
  <2>1. TypeOK'
    BY TypeStep
  <2>2. phys' \in Seq(PVersion) /\ phys' # <<>>
    BY <2>1 DEF TypeOK
  <2> QED
    BY <1>2, <2>2, LogSingle
<1>5. ASSUME phys' = phys
      PROVE  Entries(phys') \subseteq Entries(phys) \union {P'}
  BY <1>5
<1>6. ASSUME \E q \in PVersion : phys' = Append(phys, q)
      PROVE  Entries(phys') \subseteq Entries(phys) \union {P'}
  BY <1>2, <1>6, LogAppend
<1>7. ASSUME Len(phys) > 1 /\ phys' = Tail(phys)
      PROVE  Entries(phys') \subseteq Entries(phys) \union {P'}
  BY <1>2, <1>7, LogTail
<1>8. ASSUME phys' = <<P>>
      PROVE  Entries(phys') \subseteq Entries(phys) \union {P'}
  BY <1>2, <1>3, <1>8, LogSingle
<1> QED
  BY <1>1, <1>3, <1>4, <1>5, <1>6, <1>7, <1>8 DEF PhysMove

\* The physical pod stays what it is, or is marked or removed.
PhysLives ==
  /\ owner' = owner
  /\ P'.uid = P.uid /\ P'.vuid = P.vuid
  /\ P'.exists => P.exists
  /\ P.phase # "Lost" => P'.phase # "Lost"

\* The step is a delete that cleans up after a virtual pod.
Cleanup == \/ TDDeletePhysicalPod
           \/ BUDeletePhysicalPod /\ P.exists /\ P.uid = bu.p.uid

PhysCreated ==
  /\ TDCreatePhysicalPod
  /\ ~P.exists /\ P' = NewP(P.uid + 1, td.v.uid)
  /\ owner' = Append(owner, td.v.uid)

LEMMA DeletePhysEffect ==
  ASSUME TypeOK, NEW who \in Deleter, DeletePhys(who), owner' = owner
  PROVE  PhysLives /\ (P'.by = P.by \/ (P.exists /\ P'.by = who))
<1>1. CASE phys' = phys
  BY <1>1, PhysKept DEF PhysLives
<1>2. CASE P.exists /\ phys' = Append(phys, GoneP(P, who))
  <2>1. GoneP(P, who) \in PVersion
    BY TypeFacts, VersionTypes
  <2>2. P' = GoneP(P, who)
    BY <1>2, <2>1, PhysAppended
  <2> QED
    BY <1>2, <2>2 DEF GoneP, NewP, PhysLives
<1>3. CASE P.exists /\ phys' = Append(phys, [P EXCEPT !.deleting = TRUE, !.by = who])
  <2>1. P \in PVersion
    BY TypeFacts
  <2>2. [P EXCEPT !.deleting = TRUE, !.by = who] \in PVersion
    BY <2>1 DEF PVersion
  <2>3. P' = [P EXCEPT !.deleting = TRUE, !.by = who]
    BY <1>3, <2>2, PhysAppended
  <2> QED
    BY <1>3, <2>1, <2>3 DEF PVersion, PhysLives
<1> QED
  BY <1>1, <1>2, <1>3 DEF DeletePhys

\* Only createPhysicalPod makes a physical pod, and only a cleanup marks one as
\* cleaned up.
LEMMA PhysEffect ==
  ASSUME TypeOK, [Next]_vars
  PROVE  \/ PhysCreated
         \/ PhysLives /\ (P'.by = "cleanup" => P.by = "cleanup" \/ Cleanup)
<1> USE TypeFacts
<1>0. CASE UNCHANGED vars
  BY <1>0, PhysKept DEF vars, PhysLives
<1>1. CASE \/ TDGetVirtual \/ TDGetPhysicalCached \/ TDGetPhysicalDirect
           \/ TDForceDeleteVirtualPod \/ TDGeneratePhysicalPodMapping
           \/ TDSetVirtualPodFailed \/ TDSyncDependentResources \/ TDReturn
           \/ TDUpdateVirtualPodWithPhysicalUID \/ BUGetPhysical \/ BUGetVirtual
           \/ BUSyncPhysicalPodToVirtual \/ BUReturn \/ TokenGC \/ DeliverVirtual
           \/ UserCreate \/ VirtualSchedulerBind \/ UserDelete \/ UserForceDelete
  <2>1. phys' = phys /\ owner' = owner
    BY <1>1 DEF TDGetVirtual, TDGetPhysicalCached, TDGetPhysicalDirect,
       TDForceDeleteVirtualPod, TDGeneratePhysicalPodMapping, TDSetVirtualPodFailed,
       TDSyncDependentResources, TDReturn, TDUpdateVirtualPodWithPhysicalUID,
       BUGetPhysical, BUGetVirtual, BUSyncPhysicalPodToVirtual, BUReturn, TokenGC,
       DeliverVirtual, UserCreate, VirtualSchedulerBind, UserDelete, UserForceDelete
  <2> QED
    BY <2>1, PhysKept DEF PhysLives
<1>2. CASE DeliverPhysical \/ Restart
  <2>1. owner' = owner
    BY <1>2 DEF DeliverPhysical, Restart
  <2> QED
    BY <1>2, <2>1, PhysKept DEF PhysLives
<1>3. CASE TDDeletePhysicalPod
  BY <1>3, DeletePhysEffect DEF TDDeletePhysicalPod, Deleter, Cleanup
<1>4. CASE BUDeletePhysicalPod
  <2>1. CASE P.exists /\ P.uid # bu.p.uid
    BY <1>4, <2>1, PhysKept DEF BUDeletePhysicalPod, PhysLives
  <2>2. CASE ~(P.exists /\ P.uid # bu.p.uid)
    <3>1. DeletePhys("cleanup") /\ owner' = owner
      BY <1>4, <2>2 DEF BUDeletePhysicalPod
    <3>2. PhysLives /\ (P'.by = P.by \/ (P.exists /\ P'.by = "cleanup"))
      BY <3>1, DeletePhysEffect DEF Deleter
    <3> QED
      BY <1>4, <2>2, <3>2 DEF Cleanup
  <2> QED
    BY <2>1, <2>2
<1>5. CASE TDDeleteMismatchedPhysicalPod
  BY <1>5, DeletePhysEffect DEF TDDeleteMismatchedPhysicalPod, Deleter
<1>6. CASE TDHandleUnScheduledPhysicalPod
  BY <1>6, DeletePhysEffect DEF TDHandleUnScheduledPhysicalPod, Deleter
<1>7. CASE PhysicalDeletedByOther
  BY <1>7, DeletePhysEffect DEF PhysicalDeletedByOther, Deleter
<1>8. CASE TDCreatePhysicalPod
  <2>1. CASE P.exists
    BY <1>8, <2>1, PhysKept DEF TDCreatePhysicalPod, PhysLives
  <2>2. CASE ~P.exists
    <3>0. P.uid + 1 \in Nat /\ td.v.uid \in Nat
      OBVIOUS
    <3>1. NewP(P.uid + 1, td.v.uid) \in PVersion
      BY <3>0, VersionTypes
    <3> QED
      BY <1>8, <2>2, <3>1, PhysAppended DEF TDCreatePhysicalPod, PhysCreated
  <2> QED
    BY <2>1, <2>2
<1>9. CASE PhysicalSchedulerBind
  <2>1. [P EXCEPT !.bound = TRUE] \in PVersion
    BY DEF PVersion
  <2>2. P' = [P EXCEPT !.bound = TRUE] /\ owner' = owner
    BY <1>9, <2>1, PhysAppended DEF PhysicalSchedulerBind
  <2> QED
    BY <2>2 DEF PhysLives, PVersion
<1>10. CASE KubeletFinish
  <2>1. [P EXCEPT !.phase = "Done"] \in PVersion
    BY DEF PVersion, Phase
  <2>2. P' = [P EXCEPT !.phase = "Done"] /\ owner' = owner
    BY <1>10, <2>1, PhysAppended DEF KubeletFinish
  <2> QED
    BY <2>2 DEF PhysLives, PVersion
<1>11. CASE KubeletTerminate
  <2>1. GoneP(P, P.by) \in PVersion
    BY VersionTypes DEF PVersion
  <2>2. P' = GoneP(P, P.by) /\ owner' = owner
    BY <1>11, <2>1, PhysAppended DEF KubeletTerminate
  <2> QED
    BY <2>2 DEF PhysLives, GoneP, NewP
<1> QED
  BY <1>0, <1>1, <1>2, <1>3, <1>4, <1>5, <1>6, <1>7, <1>8, <1>9, <1>10, <1>11
  DEF Next, TDNext, TDAct, BUNext, BUAct, EnvNext

VirtSame     == V' = V /\ forced' = forced
VirtRemoved  == V' = GoneV(V.uid) /\ forced' = forced \union {V.uid}
VirtReleased == /\ TDForceDeleteVirtualPod /\ V.exists /\ V.uid = td.v.uid
                /\ V' = GoneV(V.uid) /\ forced' = forced
VirtCreated  == ~V.exists /\ V' = NewV(V.uid + 1) /\ forced' = forced

\* A scheduler, a user or a reconciler writes to the pod that is there.  The UID
\* it records is that of a physical pod made for this incarnation, and it reports
\* a loss only when the physical pod is gone.
VirtWritten ==
  /\ V.exists /\ V'.exists /\ V'.uid = V.uid /\ forced' = forced
  /\ V.deleting => V'.deleting
  /\ V.mapped => V'.mapped
  /\ \/ V'.puid = V.puid
     \/ /\ V.puid = 0
        /\ V'.mapped
        /\ \E p \in {td.p, bu.p} : V'.puid = p.uid /\ p.vuid = V.uid
        /\ V'.phase = "Lost" => V.phase = "Lost"
  /\ V'.phase = "Lost" => \/ V.phase = "Lost"
                          \/ V'.puid = V.puid /\ V.puid # 0 /\ ~P.exists

LEMMA UpdateVirtEffect ==
  ASSUME TypeOK, NEW v, NEW w \in VVersion, UpdateVirt(v, w)
  PROVE  V' = V \/ (V = v /\ V' = w)
  BY VirtKept, VirtAppended DEF UpdateVirt

LEMMA VirtEffect ==
  ASSUME IInv, [Next]_vars
  PROVE  VirtSame \/ VirtRemoved \/ VirtReleased \/ VirtCreated \/ VirtWritten
<1>a. TypeOK /\ RecordShape /\ Absent /\ Recorded(td.p, owner) /\ Recorded(bu.p, owner)
  BY DEF IInv, OwnerRecorded
<1> USE <1>a, TypeFacts
<1>0. CASE UNCHANGED vars
  BY <1>0, VirtKept DEF vars, VirtSame
<1>1. CASE \/ TDGetVirtual \/ TDGetPhysicalCached \/ TDGetPhysicalDirect
           \/ TDDeletePhysicalPod \/ TDDeleteMismatchedPhysicalPod
           \/ TDSyncDependentResources \/ TDCreatePhysicalPod \/ TDReturn
           \/ TDHandleUnScheduledPhysicalPod \/ BUGetPhysical \/ BUGetVirtual
           \/ BUDeletePhysicalPod \/ BUReturn \/ TokenGC \/ DeliverPhysical
           \/ PhysicalSchedulerBind \/ KubeletFinish \/ KubeletTerminate
           \/ PhysicalDeletedByOther
  <2>1. virt' = virt /\ forced' = forced
    BY <1>1 DEF TDGetVirtual, TDGetPhysicalCached, TDGetPhysicalDirect,
       TDDeletePhysicalPod, TDDeleteMismatchedPhysicalPod, TDReturn,
       TDSyncDependentResources, TDCreatePhysicalPod, TDHandleUnScheduledPhysicalPod,
       BUGetPhysical, BUGetVirtual, BUDeletePhysicalPod, BUReturn, TokenGC,
       DeliverPhysical, PhysicalSchedulerBind, KubeletFinish, KubeletTerminate,
       PhysicalDeletedByOther
  <2> QED
    BY <2>1, VirtKept DEF VirtSame
<1>2. CASE TDForceDeleteVirtualPod
  <2>1. GoneV(V.uid) \in VVersion
    BY VersionTypes
  <2> QED
    BY <1>2, <2>1, VirtKept, VirtAppended
    DEF TDForceDeleteVirtualPod, VirtSame, VirtReleased
<1>3. CASE TDGeneratePhysicalPodMapping
  <2> DEFINE w == [td.v EXCEPT !.mapped = TRUE,
                     !.puid = IF td.p.exists THEN td.p.uid ELSE 0]
  <2>1. w \in VVersion
    BY DEF VVersion
  <2>2. V' = V \/ (V = td.v /\ V' = w)
    BY <1>3, <2>1, UpdateVirtEffect DEF TDGeneratePhysicalPodMapping
  <2>3. forced' = forced /\ td.v.exists /\ ~td.v.mapped
        /\ (td.p.exists => td.p.vuid = td.v.uid)
    BY <1>3 DEF TDGeneratePhysicalPodMapping, VLive, Owned
  <2>4. ASSUME V = td.v, V' = w PROVE VirtWritten
    <3>1. V.puid = 0 /\ V.phase # "Lost"
      BY <2>3, <2>4 DEF RecordShape
    <3>2. /\ V'.exists /\ V'.uid = V.uid /\ V'.mapped /\ V'.deleting = V.deleting
          /\ V'.phase = V.phase /\ V'.puid = IF td.p.exists THEN td.p.uid ELSE 0
      BY <2>3, <2>4 DEF VVersion
    <3> QED
      BY <2>3, <2>4, <3>1, <3>2 DEF VirtWritten
  <2> QED
    BY <2>2, <2>3, <2>4 DEF VirtSame
<1>4. CASE TDSetVirtualPodFailed
  <2> DEFINE w == [td.v EXCEPT !.phase = "Lost"]
  <2>1. w \in VVersion
    BY DEF VVersion, Phase
  <2>2. V' = V \/ (V = td.v /\ V' = w)
    BY <1>4, <2>1, UpdateVirtEffect DEF TDSetVirtualPodFailed
  <2>3. forced' = forced /\ td.v.exists /\ td.v.puid # 0 /\ ~P.exists
    BY <1>4 DEF TDSetVirtualPodFailed, VLive, Absent, VDying, TDActing
  <2>4. ASSUME V = td.v, V' = w PROVE VirtWritten
    BY <2>3, <2>4 DEF VirtWritten, VVersion
  <2> QED
    BY <2>2, <2>3, <2>4 DEF VirtSame
<1>5. CASE TDUpdateVirtualPodWithPhysicalUID
  <2> DEFINE w == [td.v EXCEPT !.puid = td.p.uid]
  <2>1. w \in VVersion
    BY DEF VVersion
  <2>2. V' = V \/ (V = td.v /\ V' = w)
    BY <1>5, <2>1, UpdateVirtEffect DEF TDUpdateVirtualPodWithPhysicalUID
  <2>3. /\ forced' = forced /\ td.v.exists /\ td.v.mapped /\ td.v.puid = 0
        /\ td.p.vuid = td.v.uid
    BY <1>5 DEF TDUpdateVirtualPodWithPhysicalUID, VLive, Owned
  <2>4. ASSUME V = td.v, V' = w PROVE VirtWritten
    BY <2>3, <2>4 DEF VirtWritten, VVersion
  <2> QED
    BY <2>2, <2>3, <2>4 DEF VirtSame
<1>6. CASE BUSyncPhysicalPodToVirtual
  <2> DEFINE w == [bu.v EXCEPT !.phase = bu.p.phase,
                     !.puid = IF @ = 0 THEN bu.p.uid ELSE @]
  <2>1. w \in VVersion
    BY DEF VVersion, PVersion
  <2>2. V' = V \/ (V = bu.v /\ V' = w)
    BY <1>6, <2>1, UpdateVirtEffect DEF BUSyncPhysicalPodToVirtual
  <2>3. /\ forced' = forced /\ bu.v.exists /\ bu.v.mapped /\ bu.v.uid = bu.p.vuid
        /\ bu.p.phase # "Lost"
    BY <1>6 DEF BUSyncPhysicalPodToVirtual, PointsBack, Recorded
  <2>4. ASSUME V = bu.v, V' = w PROVE VirtWritten
    BY <2>3, <2>4 DEF VirtWritten, VVersion
  <2> QED
    BY <2>2, <2>3, <2>4 DEF VirtSame
<1>7. CASE DeliverVirtual \/ Restart
  <2>1. forced' = forced
    BY <1>7 DEF DeliverVirtual, Restart
  <2> QED
    BY <1>7, <2>1, VirtKept DEF VirtSame
<1>8. CASE UserCreate
  <2>1. V.uid + 1 \in Nat
    OBVIOUS
  <2>2. NewV(V.uid + 1) \in VVersion
    BY <2>1, VersionTypes
  <2> QED
    BY <1>8, <2>2, VirtAppended DEF UserCreate, VirtCreated
<1>9. CASE VirtualSchedulerBind
  <2>1. [V EXCEPT !.bound = TRUE] \in VVersion
    BY DEF VVersion
  <2>2. V' = [V EXCEPT !.bound = TRUE] /\ V.exists /\ forced' = forced
    BY <1>9, <2>1, VirtAppended DEF VirtualSchedulerBind
  <2> QED
    BY <2>2 DEF VirtWritten, VVersion
<1>10. ASSUME RemoveVirt PROVE VirtRemoved
  <2>1. GoneV(V.uid) \in VVersion
    BY VersionTypes
  <2> QED
    BY <1>10, <2>1, VirtAppended DEF RemoveVirt, VirtRemoved
<1>11. CASE UserDelete
  <2>1. [V EXCEPT !.deleting = TRUE] \in VVersion
    BY DEF VVersion
  <2>2. CASE RemoveVirt
    BY <1>10, <2>2
  <2>3. CASE ~RemoveVirt
    <3>1. V' = [V EXCEPT !.deleting = TRUE] /\ V.exists /\ forced' = forced
      BY <1>11, <2>1, <2>3, VirtAppended DEF UserDelete
    <3> QED
      BY <3>1 DEF VirtWritten, VVersion
  <2> QED
    BY <2>2, <2>3
<1>12. CASE UserForceDelete
  BY <1>10, <1>12 DEF UserForceDelete
<1> QED
  BY <1>0, <1>1, <1>2, <1>3, <1>4, <1>5, <1>6, <1>7, <1>8, <1>9, <1>11, <1>12
  DEF Next, TDNext, TDAct, BUNext, BUAct, EnvNext

LEMMA TDEffect ==
  ASSUME [Next]_vars
  PROVE  td' = td \/ td' = Idle \/ TDGetVirtual \/ TDGetPhysicalCached
         \/ TDGetPhysicalDirect \/ TDSyncDependentResources
<1>1. CASE TDNext
  BY <1>1 DEF TDNext, TDAct, TDDeletePhysicalPod, TDForceDeleteVirtualPod,
     TDDeleteMismatchedPhysicalPod, TDGeneratePhysicalPodMapping,
     TDSetVirtualPodFailed, TDUpdateVirtualPodWithPhysicalUID,
     TDHandleUnScheduledPhysicalPod, TDCreatePhysicalPod, TDReturn, TDActing
<1>2. CASE ~TDNext
  BY <1>2 DEF Next, BUNext, BUAct, EnvNext, BUGetPhysical, BUGetVirtual,
     BUDeletePhysicalPod, BUSyncPhysicalPodToVirtual, BUReturn, TokenGC,
     DeliverVirtual, DeliverPhysical, Restart, UserCreate, VirtualSchedulerBind,
     UserDelete, UserForceDelete, PhysicalSchedulerBind, KubeletFinish,
     KubeletTerminate, PhysicalDeletedByOther, vars
<1> QED
  BY <1>1, <1>2

LEMMA BUEffect ==
  ASSUME [Next]_vars
  PROVE  bu' = bu \/ bu' = Idle \/ BUGetPhysical \/ BUGetVirtual
<1>1. CASE BUNext
  BY <1>1 DEF BUNext, BUAct, BUDeletePhysicalPod, BUSyncPhysicalPodToVirtual, BUReturn
<1>2. CASE ~BUNext
  BY <1>2 DEF Next, TDNext, TDAct, EnvNext, TDGetVirtual, TDGetPhysicalCached,
     TDGetPhysicalDirect, TDDeletePhysicalPod, TDForceDeleteVirtualPod,
     TDDeleteMismatchedPhysicalPod, TDGeneratePhysicalPodMapping,
     TDSetVirtualPodFailed, TDUpdateVirtualPodWithPhysicalUID,
     TDSyncDependentResources, TDHandleUnScheduledPhysicalPod, TDCreatePhysicalPod,
     TDReturn, TokenGC,
     DeliverVirtual, DeliverPhysical, Restart, UserCreate, VirtualSchedulerBind,
     UserDelete, UserForceDelete, PhysicalSchedulerBind, KubeletFinish,
     KubeletTerminate, PhysicalDeletedByOther, vars
<1> QED
  BY <1>1, <1>2

LEMMA IdleFacts == /\ Idle.pc = "idle" /\ Idle.v = NoV /\ Idle.p = NoP
                   /\ NoV.uid = 0 /\ ~NoV.exists /\ NoV.puid = 0
                   /\ NoP.uid = 0 /\ NoP.vuid = 0 /\ ~NoP.exists
                   /\ NoP.phase = "Active" /\ NoP.by = "none"
  BY DEF Idle, NoV, GoneV, NewV, NoP, GoneP, NewP

----------------------------------------------------------------------------
(* Each part of the invariant is kept by every step.                       *)

\* The copies the td reconcile holds: unchanged while it is in flight.
LEMMA TDCopies ==
  ASSUME IInv, [Next]_vars
  PROVE  \/ td'.pc = "idle" /\ td' = Idle
         \/ /\ td'.pc # "idle" /\ td.pc = "idle" /\ TDGetVirtual
            /\ td'.v = Cached(virt) /\ td'.p = NoP /\ virt' = virt /\ owner' = owner
         \/ td'.pc # "idle" /\ td.pc # "idle" /\ td'.v = td.v
<1>1. td.pc = "idle" => td = Idle
  BY DEF IInv, IdleCopies
<1>2. TypeOK
  BY DEF IInv
<1>3. CASE td' = td
  BY <1>1, <1>3
<1>4. CASE td' = Idle
  BY <1>4, IdleFacts
<1>5. CASE TDGetVirtual
  BY <1>5 DEF TDGetVirtual
<1>6. CASE TDGetPhysicalCached \/ TDGetPhysicalDirect \/ TDSyncDependentResources
  BY <1>2, <1>6 DEF TDGetPhysicalCached, TDGetPhysicalDirect,
     TDSyncDependentResources, TypeOK, Flight
<1> QED
  BY <1>3, <1>4, <1>5, <1>6, TDEffect

LEMMA BUCopies ==
  ASSUME IInv, [Next]_vars
  PROVE  \/ bu'.pc = "idle" /\ bu' = Idle
         \/ bu'.pc = bu.pc /\ bu' = bu
         \/ bu'.pc = "getVirtual" /\ bu.pc = "idle" /\ bu'.p = Cached(phys)
            /\ Cached(phys).exists /\ owner' = owner
         \/ /\ bu'.pc = "act" /\ bu.pc = "getVirtual" /\ bu'.p = bu.p
            /\ bu'.v = Cached(virt) /\ virt' = virt /\ owner' = owner
<1>2. TypeOK
  BY DEF IInv
<1>3. CASE bu' = bu
  BY <1>3
<1>4. CASE bu' = Idle
  BY <1>4, IdleFacts
<1>5. CASE BUGetPhysical
  BY <1>5 DEF BUGetPhysical
<1>6. CASE BUGetVirtual
  BY <1>2, <1>6 DEF BUGetVirtual, TypeOK, Flight
<1> QED
  BY <1>3, <1>4, <1>5, <1>6, BUEffect

LEMMA IdleCopiesStep == IInv /\ [Next]_vars => IdleCopies'
<1> SUFFICES ASSUME IInv, [Next]_vars PROVE IdleCopies'
  OBVIOUS
<1>1. Idle' = Idle
  BY DEF Idle, NoV, NoP, GoneV, NewV, GoneP, NewP
<1>2. td'.pc = "idle" => td' = Idle
  BY TDCopies
<1>3. bu'.pc = "idle" => bu' = Idle
  <2>1. bu.pc = "idle" => bu = Idle
    BY DEF IInv, IdleCopies
  <2> QED
    BY <2>1, BUCopies
<1> QED
  BY <1>1, <1>2, <1>3 DEF IdleCopies

LEMMA CopiesOldStep == IInv /\ [Next]_vars => CopiesOld'
<1> SUFFICES ASSUME IInv, [Next]_vars PROVE CopiesOld'
  OBVIOUS
<1>1. TypeOK /\ Ordered(virt) /\ CopiesOld /\ TypeOK'
  BY TypeStep DEF IInv
<1>2. /\ td.v \in VVersion /\ bu.v \in VVersion
      /\ Cached(virt) \in VVersion /\ Cached(virt') \in VVersion
      /\ NoLater(Cached(virt), Cached(virt'))
  BY <1>1, TypeFacts, VirtAfter
<1>3. td'.pc # "idle" => NoLater(td'.v, Cached(virt'))
  BY <1>1, <1>2, TDCopies, NoLaterTrans DEF CopiesOld
<1>4. bu'.pc = "act" => NoLater(bu'.v, Cached(virt'))
  BY <1>1, <1>2, BUCopies, NoLaterTrans DEF CopiesOld
<1> QED
  BY <1>3, <1>4 DEF CopiesOld

LEMMA SeenLater ==
  ASSUME NEW a \in VVersion, NEW b \in VVersion, NEW u \in Nat,
         NoLater(a, b), Seen(a, u)
  PROVE  Seen(b, u)
<1>1. a.uid \in Nat /\ b.uid \in Nat
  BY DEF VVersion
<1> QED
  BY <1>1 DEF Seen, NoLater

LEMMA CreationsSeenStep == IInv /\ [Next]_vars => CreationsSeen'
<1> SUFFICES ASSUME IInv, [Next]_vars PROVE CreationsSeen'
  OBVIOUS
<1>1. /\ TypeOK /\ Ordered(virt) /\ CopiesOld /\ CreationsSeen /\ CreateReady
      /\ OwnerRecorded
  BY DEF IInv
<1>2. /\ td.v \in VVersion /\ bu.v \in VVersion /\ bu.p.vuid \in Nat
      /\ Cached(virt) \in VVersion /\ Cached(virt') \in VVersion
      /\ NoLater(Cached(virt), Cached(virt')) /\ td.v.uid \in Nat
      /\ owner \in Seq(Nat) /\ Len(owner) \in Nat
      /\ \A i \in 1..Len(owner) : owner[i] \in Nat
  <2>1. owner \in Seq(Nat)
    BY <1>1 DEF TypeOK
  <2>2. Len(owner) \in Nat /\ \A i \in 1..Len(owner) : owner[i] \in Nat
    BY <2>1
  <2>3. \A p \in PVersion : p.vuid \in Nat
    BY DEF PVersion
  <2> QED
    BY <1>1, <2>1, <2>2, <2>3, TypeFacts, VirtAfter
<1>3. \A i \in 1..Len(owner) : Seen(Cached(virt'), owner[i])
  BY <1>1, <1>2, SeenLater DEF CreationsSeen
<1>4. CASE PhysCreated
  <2>1. td' = Idle /\ td'.pc = "idle" /\ td.pc = "create" /\ bu' = bu
    BY <1>4, IdleFacts DEF PhysCreated, TDCreatePhysicalPod
  <2>2. Seen(td.v, td.v.uid) /\ NoLater(td.v, Cached(virt))
    BY <1>1, <1>2, <2>1 DEF CreateReady, Seen, CopiesOld
  <2>3. Seen(Cached(virt'), td.v.uid)
    BY <1>2, <2>2, SeenLater
  <2>4. /\ Len(owner') = Len(owner) + 1 /\ owner'[Len(owner) + 1] = td.v.uid
        /\ \A i \in 1..Len(owner) : owner'[i] = owner[i]
    BY <1>2, <1>4 DEF PhysCreated
  <2>5. \A i \in 1..Len(owner') : Seen(Cached(virt'), owner'[i])
    BY <1>2, <1>3, <2>3, <2>4
  <2>6. bu'.pc = "act" => Seen(bu'.v, bu'.p.vuid)
    BY <1>1, <2>1 DEF CreationsSeen
  <2> QED
    BY <2>1, <2>5, <2>6 DEF CreationsSeen
<1>5. CASE owner' = owner
  <2>1. td'.pc # "idle" => \A i \in 1..Len(owner) : Seen(td'.v, owner[i])
    BY <1>1, TDCopies DEF CreationsSeen
  <2>2. bu'.pc = "act" => Seen(bu'.v, bu'.p.vuid)
    <3>1. CASE bu' = bu \/ bu' = Idle
      BY <1>1, <3>1, IdleFacts DEF CreationsSeen
    <3>2. CASE bu'.pc = "act" /\ bu.pc = "getVirtual" /\ bu'.p = bu.p
               /\ bu'.v = Cached(virt)
      <4>1. bu.p.uid \in 1..Len(owner) /\ owner[bu.p.uid] = bu.p.vuid
        BY <1>1, <1>2, <3>2, TypeFacts DEF OwnerRecorded, Recorded
      <4> QED
        BY <1>1, <3>2, <4>1 DEF CreationsSeen
    <3> QED
      BY <3>1, <3>2, BUCopies
  <2> QED
    BY <1>3, <1>5, <2>1, <2>2 DEF CreationsSeen
<1> QED
  BY <1>1, <1>4, <1>5, PhysEffect DEF PhysLives

\* The history of creations only grows.
LEMMA OwnerGrows ==
  ASSUME TypeOK, [Next]_vars, Len(owner) = P.uid
  PROVE  /\ \A p \in PVersion : Recorded(p, owner) => Recorded(p, owner')
         /\ \A i \in 1..Len(owner) : i \in 1..Len(owner') /\ owner'[i] = owner[i]
         /\ Len(owner') = P'.uid
         /\ P' = NewP(P.uid + 1, td.v.uid) /\ PhysCreated
              => Len(owner') = P.uid + 1 /\ owner'[P.uid + 1] = td.v.uid
<1>1. owner \in Seq(Nat) /\ Len(owner) \in Nat
  <2>1. owner \in Seq(Nat)
    BY DEF TypeOK
  <2> QED
    BY <2>1
<1>2. \A p \in PVersion : p.uid \in Nat
  BY DEF PVersion
<1>3. CASE PhysCreated
  <2>1. /\ Len(owner') = Len(owner) + 1 /\ owner'[Len(owner) + 1] = td.v.uid
        /\ \A i \in 1..Len(owner) : owner'[i] = owner[i]
    BY <1>1, <1>3, TypeFacts DEF PhysCreated
  <2>2. P'.uid = P.uid + 1
    BY <1>3 DEF PhysCreated, NewP
  <2> QED
    BY <1>1, <1>2, <2>1, <2>2 DEF Recorded
<1>4. CASE ~PhysCreated
  BY <1>1, <1>4, PhysEffect DEF PhysLives
<1> QED
  BY <1>3, <1>4

LEMMA OwnerRecordedStep == IInv /\ [Next]_vars => OwnerRecorded'
<1> SUFFICES ASSUME IInv, [Next]_vars PROVE OwnerRecorded'
  OBVIOUS
<1>1. TypeOK /\ OwnerRecorded /\ TypeOK'
  BY TypeStep DEF IInv
<1>2. /\ \A p \in PVersion : Recorded(p, owner) => Recorded(p, owner')
      /\ Len(owner') = P'.uid
  BY <1>1, OwnerGrows DEF OwnerRecorded
<1>3. /\ P \in Entries(phys) /\ Cached(phys) \in Entries(phys)
      /\ Entries(phys') \subseteq Entries(phys) \union {P'}
      /\ Entries(phys) \subseteq PVersion /\ P \in PVersion /\ P' \in PVersion
      /\ td.p \in PVersion /\ bu.p \in PVersion
  BY <1>1, PhysAfter, TypeFacts
<1>4. Recorded(P', owner')
  <2>1. Recorded(P, owner) /\ Recorded(P, owner')
    BY <1>1, <1>2, <1>3 DEF OwnerRecorded
  <2>2. CASE PhysCreated
    <3>1. Len(owner') = P.uid + 1 /\ owner'[P.uid + 1] = td.v.uid
      BY <1>1, <2>2, OwnerGrows DEF PhysCreated, OwnerRecorded
    <3>2. /\ P'.uid = P.uid + 1 /\ P'.vuid = td.v.uid /\ P'.phase = "Active"
          /\ P.uid \in Nat
      BY <1>1, <2>2, TypeFacts DEF PhysCreated, NewP
    <3> QED
      BY <3>1, <3>2 DEF Recorded
  <2>3. CASE PhysLives
    BY <2>1, <2>3 DEF Recorded, PhysLives
  <2> QED
    BY <1>1, <2>2, <2>3, PhysEffect
<1>5. \A p \in Entries(phys') : Recorded(p, owner')
  BY <1>1, <1>2, <1>3, <1>4 DEF OwnerRecorded
<1>6. Recorded(NoP, owner')
  <2>1. Len(owner') \in Nat
    BY <1>1 DEF TypeOK
  <2> QED
    BY <2>1, IdleFacts DEF Recorded
<1>7. Recorded(td'.p, owner')
  <2>1. CASE td' = td
    BY <1>1, <1>2, <1>3, <2>1 DEF OwnerRecorded
  <2>2. CASE td' = Idle
    BY <1>6, <2>2, IdleFacts
  <2>3. CASE TDGetVirtual
    BY <1>6, <2>3 DEF TDGetVirtual
  <2>4. CASE TDGetPhysicalCached
    <3>1. td'.p = Cached(phys) \/ td'.p = td.p
      BY <1>1, <2>4 DEF TDGetPhysicalCached, TypeOK, Flight
    <3> QED
      BY <1>1, <1>2, <1>3, <3>1 DEF OwnerRecorded
  <2>5. CASE TDGetPhysicalDirect
    <3>1. td'.p = P \/ td'.p = NoP
      BY <1>1, <2>5 DEF TDGetPhysicalDirect, TypeOK, Flight
    <3> QED
      BY <1>1, <1>2, <1>3, <1>6, <3>1 DEF OwnerRecorded
  <2>6. CASE TDSyncDependentResources
    <3>1. td'.p = td.p
      BY <1>1, <2>6 DEF TDSyncDependentResources, TypeOK, Flight
    <3> QED
      BY <1>1, <1>2, <1>3, <3>1 DEF OwnerRecorded
  <2> QED
    BY <2>1, <2>2, <2>3, <2>4, <2>5, <2>6, TDEffect
<1>8. Recorded(bu'.p, owner') /\ (bu'.pc # "idle" => bu'.p.uid # 0)
  <2>1. CASE bu' = Idle
    BY <1>6, <2>1, IdleFacts
  <2>2. CASE bu'.p = bu.p /\ (bu'.pc # "idle" => bu.pc # "idle")
    BY <1>1, <1>2, <1>3, <2>2 DEF OwnerRecorded
  <2>3. CASE bu'.p = Cached(phys) /\ Cached(phys).exists
    <3>1. Recorded(Cached(phys), owner) /\ Recorded(Cached(phys), owner')
      BY <1>1, <1>2, <1>3 DEF OwnerRecorded
    <3> QED
      BY <2>3, <3>1 DEF Recorded
  <2> QED
    BY <2>1, <2>2, <2>3, BUCopies
<1> QED
  BY <1>2, <1>5, <1>7, <1>8 DEF OwnerRecorded

LEMMA GoneFacts == \A u : /\ GoneV(u).uid = u /\ ~GoneV(u).exists
                          /\ NewV(u).uid = u /\ NewV(u).exists /\ NewV(u).puid = 0
                          /\ NewV(u).phase = "Active" /\ ~NewV(u).deleting
  BY DEF GoneV, NewV

LEMMA RecordShapeStep == IInv /\ [Next]_vars => RecordShape'
<1> SUFFICES ASSUME IInv, [Next]_vars PROVE RecordShape'
  OBVIOUS
<1>1. RecordShape
  BY DEF IInv
<1>2. CASE VirtSame \/ VirtRemoved \/ VirtReleased \/ VirtCreated
  BY <1>1, <1>2, GoneFacts
  DEF RecordShape, VirtSame, VirtRemoved, VirtReleased, VirtCreated
<1>3. CASE VirtWritten
  BY <1>1, <1>3 DEF RecordShape, VirtWritten
<1> QED
  BY <1>2, <1>3, VirtEffect

LEMMA LiveCopiesStep == IInv /\ [Next]_vars => LiveCopies'
<1> SUFFICES ASSUME IInv, [Next]_vars PROVE LiveCopies'
  OBVIOUS
<1>1. TypeOK /\ Ordered(virt) /\ CopiesOld /\ LiveCopies
  BY DEF IInv
<1>2. /\ Entries(virt) \subseteq VVersion /\ td.v \in VVersion /\ V \in VVersion
      /\ Cached(virt) \in VVersion /\ Cached(virt) \in Entries(virt)
      /\ Entries(virt') \subseteq Entries(virt) \union {V'}
      /\ \A v \in Entries(virt) : NoLater(Cached(virt), v)
  BY <1>1, TypeFacts, LogSingle, VirtAfter
<1>3. ASSUME NEW v \in VVersion, AliveOrForced(v, V, forced),
             VirtReleased => NoLater(td.v, v)
      PROVE  AliveOrForced(v, V', forced')
  <2>1. CASE VirtSame \/ VirtRemoved \/ VirtCreated \/ VirtWritten
    BY <1>3, <2>1
    DEF AliveOrForced, VirtSame, VirtRemoved, VirtCreated, VirtWritten
  <2>2. CASE VirtReleased
    <3>1. td.v.exists /\ td.v.deleting /\ td.v.uid = V.uid /\ V.uid \in Nat
      BY <1>1, <2>2, TypeFacts DEF VirtReleased, TDForceDeleteVirtualPod, VDying
    <3>2. v.uid = V.uid => ~v.exists \/ v.deleting
      BY <1>3, <2>2, <3>1 DEF NoLater
    <3> QED
      BY <1>3, <2>2, <3>2 DEF AliveOrForced, VirtReleased
  <2> QED
    BY <2>1, <2>2, VirtEffect
<1>4. VirtReleased => NoLater(td.v, Cached(virt))
  BY <1>1 DEF VirtReleased, TDForceDeleteVirtualPod, TDActing, CopiesOld
<1>5. \A v \in Entries(virt) : AliveOrForced(v, V', forced')
  BY <1>1, <1>2, <1>3, <1>4, NoLaterTrans DEF LiveCopies
<1>6. AliveOrForced(V', V', forced')
  BY DEF AliveOrForced
<1>7. AliveOrForced(td'.v, V', forced')
  <2>1. CASE td' = Idle
    BY <2>1, IdleFacts DEF AliveOrForced
  <2>2. CASE td'.v = Cached(virt)
    BY <1>2, <1>5, <2>2
  <2>3. CASE td'.v = td.v
    BY <1>1, <1>2, <1>3, <2>3, NoLaterRefl DEF LiveCopies
  <2> QED
    BY <2>1, <2>2, <2>3, TDCopies
<1> QED
  BY <1>2, <1>5, <1>6, <1>7 DEF LiveCopies

LEMMA AbsentStep == IInv /\ [Next]_vars => Absent'
<1> SUFFICES ASSUME IInv, [Next]_vars PROVE Absent'
  OBVIOUS
<1>1. TypeOK /\ Absent
  BY DEF IInv
<1>2. CASE td' = Idle
  BY <1>2, IdleFacts DEF Absent
<1>3. CASE td' = td /\ td # Idle
  <2>1. PhysLives
    BY <1>1, <1>3, PhysEffect DEF PhysCreated, TDCreatePhysicalPod
  <2> QED
    BY <1>1, <1>3, <2>1 DEF Absent, VDying, PhysLives
<1>4. CASE TDGetVirtual
  BY <1>4 DEF TDGetVirtual, Absent, VDying
<1>5. CASE TDGetPhysicalCached
  BY <1>1, <1>5 DEF TDGetPhysicalCached, Absent, TypeOK, Flight
<1>6. CASE TDGetPhysicalDirect
  <2>1. P' = P
    BY <1>1, <1>6, PhysKept DEF TDGetPhysicalDirect
  <2>2. td'.p = IF P.exists THEN P ELSE NoP
    BY <1>1, <1>6 DEF TDGetPhysicalDirect, TypeOK, Flight
  <2> QED
    BY <2>1, <2>2 DEF Absent
<1>7. CASE TDSyncDependentResources
  <2>1. P' = P /\ td.pc = "act" /\ td'.p = td.p /\ ~td.p.exists /\ ~td.v.deleting
    BY <1>1, <1>7, PhysKept DEF TDSyncDependentResources, VLive, TypeOK, Flight
  <2> QED
    BY <1>1, <2>1 DEF Absent, VDying
<1> QED
  BY <1>2, <1>3, <1>4, <1>5, <1>6, <1>7, TDEffect

\* A version that shows incarnation u gone, replaced or being deleted.
DoomedAt(v, u) == v.uid > u \/ ~v.exists \/ v.deleting

LEMMA DoomedLater ==
  ASSUME NEW a \in VVersion, NEW b \in VVersion, NEW u \in Nat,
         NoLater(a, b), u <= a.uid, DoomedAt(a, u)
  PROVE  u <= b.uid /\ DoomedAt(b, u)
<1>1. a.uid \in Nat /\ b.uid \in Nat
  BY DEF VVersion
<1> QED
  BY <1>1 DEF NoLater, DoomedAt

\* The versions the reconciles and the collector decide from, and how they stand
\* to each other.
LEMMA Line ==
  ASSUME IInv
  PROVE  /\ V \in VVersion /\ Cached(virt) \in VVersion
         /\ td.v \in VVersion /\ bu.v \in VVersion
         /\ P.vuid \in Nat /\ P.uid \in Nat /\ bu.p.vuid \in Nat /\ td.v.uid \in Nat
         /\ V.uid \in Nat /\ Cached(virt).uid \in Nat /\ bu.v.uid \in Nat
         /\ NoLater(Cached(virt), V)
         /\ td.pc # "idle" => NoLater(td.v, Cached(virt)) /\ NoLater(td.v, V)
         /\ bu.pc = "act" => NoLater(bu.v, V)
         /\ P.exists => Seen(Cached(virt), P.vuid)
         /\ P.exists /\ td.pc # "idle" => Seen(td.v, P.vuid)
         /\ P.vuid <= V.uid
         /\ P.exists => P.uid # 0
<1>1. TypeOK /\ Ordered(virt) /\ CopiesOld /\ CreationsSeen /\ OwnerRecorded
  BY DEF IInv
<1>2. /\ V \in VVersion /\ Cached(virt) \in VVersion
      /\ td.v \in VVersion /\ bu.v \in VVersion
      /\ P.vuid \in Nat /\ P.uid \in Nat /\ bu.p.vuid \in Nat /\ td.v.uid \in Nat
      /\ V.uid \in Nat /\ Cached(virt).uid \in Nat /\ bu.v.uid \in Nat
  <2>1. \A v \in VVersion : v.uid \in Nat
    BY DEF VVersion
  <2>2. \A p \in PVersion : p.vuid \in Nat
    BY DEF PVersion
  <2> QED
    BY <1>1, <2>1, <2>2, TypeFacts
<1>3. NoLater(Cached(virt), V)
  BY <1>1, TypeFacts, OrderedEnds DEF V
<1>4. /\ td.pc # "idle" => NoLater(td.v, Cached(virt)) /\ NoLater(td.v, V)
      /\ bu.pc = "act" => NoLater(bu.v, V)
  BY <1>1, <1>2, <1>3, NoLaterTrans DEF CopiesOld
<1>5. /\ P.uid # 0 => P.uid \in 1..Len(owner) /\ owner[P.uid] = P.vuid
      /\ P.uid = 0 => P.vuid = 0 /\ ~P.exists
  <2>1. P \in Entries(phys)
    BY <1>1, TypeFacts, LogSingle DEF P
  <2>2. Recorded(P, owner) /\ Len(owner) = P.uid
    BY <1>1, <2>1 DEF OwnerRecorded
  <2> QED
    BY <1>2, <2>2 DEF Recorded
<1>6. P.uid # 0 => /\ Seen(Cached(virt), P.vuid)
                   /\ td.pc # "idle" => Seen(td.v, P.vuid)
  BY <1>1, <1>5 DEF CreationsSeen
<1>7. P.vuid <= V.uid
  BY <1>2, <1>3, <1>5, <1>6 DEF Seen, NoLater
<1> QED
  BY <1>2, <1>3, <1>4, <1>5, <1>6, <1>7

\* A bu reconcile that does not find its virtual pod pointing back knows that it
\* is really gone.
LEMMA BUDoomed ==
  ASSUME IInv, bu.pc = "act", ~PointsBack(bu.v, bu.p)
  PROVE  bu.p.vuid <= V.uid /\ Doomed(bu.p.vuid)
<1>1. Seen(bu.v, bu.p.vuid)
  BY DEF IInv, CreationsSeen
<1>2. bu.p.vuid <= bu.v.uid /\ DoomedAt(bu.v, bu.p.vuid)
  BY <1>1, Line DEF PointsBack, Seen, DoomedAt
<1>3. bu.p.vuid <= V.uid /\ DoomedAt(V, bu.p.vuid)
  BY <1>2, Line, DoomedLater
<1> QED
  BY <1>3 DEF Doomed, DoomedAt

\* A token secret is removed only when its incarnation is doomed.
LEMMA TokenLost ==
  ASSUME IInv, [Next]_vars, NEW u \in Nat, u \in tok, u \notin tok',
         Seen(Cached(virt), u)
  PROVE  u <= V.uid /\ Doomed(u)
<1>1. ASSUME u <= Cached(virt).uid, DoomedAt(Cached(virt), u)
      PROVE  u <= V.uid /\ Doomed(u)
  <2>1. u <= V.uid /\ DoomedAt(V, u)
    BY <1>1, Line, DoomedLater
  <2> QED
    BY <2>1 DEF Doomed, DoomedAt
<1>2. CASE TDGetVirtual
  BY <1>1, <1>2, Line DEF TDGetVirtual, DoomedAt
<1>3. CASE TokenGC
  <2>1. ~Cached(virt).exists \/ Cached(virt).uid # u
    BY <1>3 DEF TokenGC
  <2> QED
    BY <1>1, <2>1, Line DEF Seen, DoomedAt
<1>4. CASE BUDeletePhysicalPod
  BY <1>4, BUDoomed DEF BUDeletePhysicalPod
<1>5. CASE ~(TDGetVirtual \/ TokenGC \/ BUDeletePhysicalPod)
  BY <1>5 DEF vars, Next, TDNext, TDAct, BUNext, BUAct, EnvNext, TDGetPhysicalCached,
     TDGetPhysicalDirect, TDDeletePhysicalPod, TDForceDeleteVirtualPod,
     TDDeleteMismatchedPhysicalPod, TDGeneratePhysicalPodMapping,
     TDSetVirtualPodFailed, TDUpdateVirtualPodWithPhysicalUID,
     TDSyncDependentResources, TDHandleUnScheduledPhysicalPod, TDCreatePhysicalPod,
     TDReturn, BUGetPhysical, BUGetVirtual, BUSyncPhysicalPodToVirtual, BUReturn,
     DeliverVirtual, DeliverPhysical, Restart, UserCreate, VirtualSchedulerBind,
     UserDelete, UserForceDelete, PhysicalSchedulerBind, KubeletFinish,
     KubeletTerminate, PhysicalDeletedByOther
<1> QED
  BY <1>2, <1>3, <1>4, <1>5

\* Doomed is for ever.
LEMMA DoomedStays ==
  ASSUME IInv, [Next]_vars, NEW u \in Nat, u <= V.uid, Doomed(u)
  PROVE  Doomed(u)'
<1>1. NoLater(V, V') /\ V \in VVersion /\ V' \in VVersion
  BY TypeFacts, VirtAfter DEF IInv
<1>2. DoomedAt(V', u)
  BY <1>1, DoomedLater DEF Doomed, DoomedAt
<1> QED
  BY <1>2 DEF Doomed, DoomedAt

LEMMA CreateReadyStep == IInv /\ [Next]_vars => CreateReady'
<1> SUFFICES ASSUME IInv, [Next]_vars PROVE CreateReady'
  OBVIOUS
<1>1. TypeOK /\ CreateReady /\ CopiesOld
  BY DEF IInv
<1>2. CASE td' = Idle
  BY <1>2, IdleFacts DEF CreateReady
<1>3. CASE td' = td /\ td.pc = "create"
  <2>1. td.v.exists /\ ~td.v.deleting /\ td.v.mapped /\ ~td.p.exists
    BY <1>1, <1>3 DEF CreateReady
  <2>2. Seen(Cached(virt), td.v.uid)
    BY <1>1, <1>3, <2>1, Line, SeenLater DEF Seen
  <2>3. td.v.uid <= V.uid
    BY <1>3, Line DEF NoLater
  <2>4. td.v.uid \in tok' \/ Doomed(td.v.uid)
    BY <1>1, <1>3, <2>2, TokenLost, Line DEF CreateReady
  <2>5. Doomed(td.v.uid) => V'.uid > td.v.uid \/ ~V'.exists \/ V'.deleting
    BY <2>3, Line, DoomedStays DEF Doomed
  <2> QED
    BY <1>3, <2>1, <2>4, <2>5 DEF CreateReady, Doomed
<1>4. CASE td' = td /\ td.pc # "create"
  BY <1>4 DEF CreateReady
<1>5. CASE TDGetVirtual \/ TDGetPhysicalCached \/ TDGetPhysicalDirect
  <2>1. td'.pc # "create"
    <3>1. CASE TDGetVirtual
      BY <3>1 DEF TDGetVirtual
    <3>2. CASE TDGetPhysicalCached
      BY <1>1, <3>2 DEF TDGetPhysicalCached, TypeOK, Flight
    <3>3. CASE TDGetPhysicalDirect
      BY <1>1, <3>3 DEF TDGetPhysicalDirect, TypeOK, Flight
    <3> QED
      BY <1>5, <3>1, <3>2, <3>3
  <2> QED
    BY <2>1 DEF CreateReady
<1>6. CASE TDSyncDependentResources
  <2>1. td'.v = td.v /\ td'.p = td.p
    BY <1>1, <1>6 DEF TDSyncDependentResources, TypeOK, Flight
  <2> QED
    BY <1>6, <2>1 DEF TDSyncDependentResources, VLive, CreateReady
<1> QED
  BY <1>2, <1>3, <1>4, <1>5, <1>6, TDEffect

LEMMA CleanupStep == IInv /\ [Next]_vars => CleanupOnlyDoomed'
<1> SUFFICES ASSUME IInv, [Next]_vars, P'.by = "cleanup" PROVE Doomed(P.vuid)'
  BY DEF CleanupOnlyDoomed
<1>1. TypeOK /\ CleanupOnlyDoomed /\ OwnerRecorded
  BY DEF IInv
<1>2. PhysLives /\ (P.by = "cleanup" \/ Cleanup)
  BY <1>1, PhysEffect DEF PhysCreated, NewP
<1>3. ASSUME P.by = "cleanup"
      PROVE  Doomed(P.vuid)
  BY <1>1, <1>3, Line DEF CleanupOnlyDoomed
<1>4. ASSUME TDDeletePhysicalPod
      PROVE  Doomed(P.vuid)
  <2>1. CASE P.exists
    <3>1. td.pc = "act" /\ (~td.v.exists \/ td.v.deleting)
      BY <1>4 DEF TDDeletePhysicalPod, TDActing, VGone, VDying
    <3>2. P.vuid <= td.v.uid /\ DoomedAt(td.v, P.vuid)
      BY <2>1, <3>1, Line DEF Seen, DoomedAt
    <3>3. DoomedAt(V, P.vuid)
      BY <3>1, <3>2, Line, DoomedLater
    <3> QED
      BY <3>3 DEF DoomedAt, Doomed
  <2>2. CASE ~P.exists
    <3>1. P' = P
      BY <1>1, <1>4, <2>2, PhysKept DEF TDDeletePhysicalPod, DeletePhys
    <3> QED
      BY <1>1, <3>1 DEF CleanupOnlyDoomed
  <2> QED
    BY <2>1, <2>2
<1>5. ASSUME BUDeletePhysicalPod /\ P.exists /\ P.uid = bu.p.uid
      PROVE  Doomed(P.vuid)
  <2>1. P \in Entries(phys)
    BY <1>1, PhysAfter
  <2>2. Recorded(P, owner) /\ Recorded(bu.p, owner)
    BY <1>1, <2>1 DEF OwnerRecorded
  <2>3. P.vuid = bu.p.vuid
    BY <1>5, <2>2 DEF Recorded
  <2> QED
    BY <1>5, <2>3, BUDoomed DEF BUDeletePhysicalPod
<1>6. Doomed(P.vuid)
  BY <1>2, <1>3, <1>4, <1>5 DEF Cleanup
<1>7. V'.uid > P.vuid \/ ~V'.exists \/ V'.deleting
  BY <1>6, Line, DoomedStays DEF Doomed
<1> QED
  BY <1>2, <1>7 DEF Doomed, PhysLives

LEMMA GracefulStep == IInv /\ [Next]_vars => GracefulDeletion'
<1> SUFFICES ASSUME IInv, [Next]_vars, P'.exists, P'.vuid \notin forced'
             PROVE  V'.exists /\ V'.uid = P'.vuid
  BY DEF GracefulDeletion
<1>1. TypeOK /\ GracefulDeletion /\ CreateReady /\ LiveCopies /\ Absent
  BY DEF IInv
<1>2. CASE PhysCreated
  <2>1. td.pc = "create" /\ V' = V /\ forced' = forced /\ P'.vuid = td.v.uid
    BY <1>1, <1>2, VirtKept DEF PhysCreated, TDCreatePhysicalPod, NewP
  <2>2. td.v.uid \in forced \/ (V.exists /\ V.uid = td.v.uid)
    BY <1>1, <2>1 DEF CreateReady, LiveCopies, AliveOrForced
  <2> QED
    BY <2>1, <2>2
<1>3. CASE PhysLives
  <2>1. P.exists /\ P'.vuid = P.vuid
    BY <1>3 DEF PhysLives
  <2>2. CASE VirtSame \/ VirtRemoved \/ VirtCreated \/ VirtWritten
    BY <1>1, <2>1, <2>2
    DEF GracefulDeletion, VirtSame, VirtRemoved, VirtCreated, VirtWritten
  <2>3. CASE VirtReleased
    <3>1. /\ td.pc = "act" /\ td.v.exists /\ V.uid = td.v.uid /\ forced' = forced
          /\ ~td.v.mapped \/ ~td.p.exists
      BY <2>3 DEF VirtReleased, TDForceDeleteVirtualPod, TDActing, VDying
    <3>2. P.vuid = td.v.uid
      BY <1>1, <2>1, <3>1 DEF GracefulDeletion
    <3>3. td.v.mapped
      BY <2>1, <3>1, <3>2, Line DEF Seen
    <3>4. ~P.exists
      BY <1>1, <3>1, <3>3 DEF Absent
    <3> QED
      BY <2>1, <3>4
  <2> QED
    BY <2>2, <2>3, VirtEffect
<1> QED
  BY <1>1, <1>2, <1>3, PhysEffect

LEMMA MappingStep == IInv /\ [Next]_vars => MappingOwned'
<1> SUFFICES ASSUME IInv, [Next]_vars, V'.exists, V'.puid # 0
             PROVE  V'.puid \in DOMAIN owner' /\ owner'[V'.puid] = V'.uid
  BY DEF MappingOwned
<1>1. TypeOK /\ TypeOK' /\ MappingOwned /\ OwnerRecorded
  BY TypeStep DEF IInv
<1>2. /\ DOMAIN owner = 1..Len(owner) /\ DOMAIN owner' = 1..Len(owner')
      /\ Len(owner) \in Nat
  <2>1. owner \in Seq(Nat) /\ owner' \in Seq(Nat)
    BY <1>1 DEF TypeOK
  <2> QED
    BY <2>1
<1>3. \A i \in 1..Len(owner) : i \in 1..Len(owner') /\ owner'[i] = owner[i]
  BY <1>1, OwnerGrows DEF OwnerRecorded
<1>4. CASE V.exists /\ V'.puid = V.puid /\ V'.uid = V.uid
  BY <1>1, <1>2, <1>3, <1>4 DEF MappingOwned
<1>5. CASE V.exists /\ V'.uid = V.uid
           /\ \E p \in {td.p, bu.p} : V'.puid = p.uid /\ p.vuid = V.uid
  <2> PICK p \in {td.p, bu.p} : V'.puid = p.uid /\ p.vuid = V.uid
    BY <1>5
  <2>1. Recorded(p, owner) /\ p.uid \in Nat
    BY <1>1, TypeFacts DEF OwnerRecorded
  <2>2. p.uid \in 1..Len(owner) /\ owner[p.uid] = V.uid
    BY <1>2, <2>1 DEF Recorded
  <2> QED
    BY <1>2, <1>3, <1>5, <2>2
<1> QED
  BY <1>4, <1>5, VirtEffect, GoneFacts
  DEF VirtSame, VirtRemoved, VirtReleased, VirtCreated, VirtWritten

LEMMA LostStep == IInv /\ [Next]_vars => LostOnlyIfGone'
<1> SUFFICES ASSUME IInv, [Next]_vars, V'.exists, V'.phase = "Lost",
                    P'.exists, P'.uid = V'.puid
             PROVE  FALSE
  BY DEF LostOnlyIfGone
<1>1. TypeOK /\ LostOnlyIfGone /\ MappingOwned /\ RecordShape /\ OwnerRecorded
  BY DEF IInv
<1>2. CASE PhysCreated
  <2>1. V' = V /\ P'.uid = P.uid + 1
    BY <1>1, <1>2, VirtKept DEF PhysCreated, TDCreatePhysicalPod, NewP
  <2>2. V.puid \in DOMAIN owner /\ Len(owner) = P.uid /\ P.uid \in Nat
    BY <1>1, <2>1, TypeFacts DEF RecordShape, MappingOwned, OwnerRecorded
  <2>3. DOMAIN owner = 1..Len(owner)
    <3>1. owner \in Seq(Nat)
      BY <1>1 DEF TypeOK
    <3> QED
      BY <3>1
  <2> QED
    BY <2>1, <2>2, <2>3
<1>3. CASE PhysLives
  <2>1. P.exists /\ P'.uid = P.uid
    BY <1>3 DEF PhysLives
  <2>2. V.exists /\ V.phase = "Lost" /\ V'.puid = V.puid
    BY <1>1, <2>1, VirtEffect, GoneFacts
    DEF VirtSame, VirtRemoved, VirtReleased, VirtCreated, VirtWritten, RecordShape
  <2> QED
    BY <1>1, <2>1, <2>2 DEF LostOnlyIfGone
<1> QED
  BY <1>1, <1>2, <1>3, PhysEffect

LEMMA TokenStep == IInv /\ [Next]_vars => TokenBacked'
<1> SUFFICES ASSUME IInv, [Next]_vars, P'.exists, V'.exists, V'.uid = P'.vuid,
                    ~V'.deleting
             PROVE  P'.vuid \in tok'
  BY DEF TokenBacked
<1>1. TypeOK /\ TokenBacked /\ CreateReady
  BY DEF IInv
<1>2. CASE PhysCreated
  <2>1. /\ td.pc = "create" /\ V' = V /\ tok' = tok /\ P'.vuid = td.v.uid
        /\ td.v.uid \in Nat
    BY <1>1, <1>2, VirtKept, TypeFacts DEF PhysCreated, TDCreatePhysicalPod, NewP
  <2>2. ~Doomed(td.v.uid)
    BY <2>1, Line DEF Doomed
  <2> QED
    BY <1>1, <2>1, <2>2 DEF CreateReady
<1>3. CASE PhysLives
  <2>1. P.exists /\ P'.vuid = P.vuid
    BY <1>3 DEF PhysLives
  <2>2. V.exists /\ V.uid = P.vuid /\ ~V.deleting
    BY <2>1, VirtEffect, GoneFacts, Line
    DEF VirtSame, VirtRemoved, VirtReleased, VirtCreated, VirtWritten
  <2>3. P.vuid \in tok /\ ~Doomed(P.vuid)
    BY <1>1, <2>1, <2>2, Line DEF TokenBacked, Doomed
  <2> QED
    BY <2>1, <2>3, TokenLost, Line
<1> QED
  BY <1>1, <1>2, <1>3, PhysEffect

----------------------------------------------------------------------------
(* The invariant, and the theorems.                                        *)

LEMMA InvInit == Init => IInv
<1> SUFFICES ASSUME Init PROVE IInv
  OBVIOUS
<1>1. TypeOK
  BY TypeInit
<1>2. /\ Len(virt) = 1 /\ virt[1] = NoV /\ Len(phys) = 1 /\ phys[1] = NoP
      /\ owner = <<>> /\ Len(owner) = 0 /\ td = Idle /\ bu = Idle
  BY DEF Init
<1>3. /\ V = NoV /\ P = NoP /\ Cached(virt) = NoV
      /\ Entries(virt) = {NoV} /\ Entries(phys) = {NoP}
  BY <1>2 DEF V, P, Truth, Cached, Entries
<1>4. NoLater(NoV, NoV)
  BY VersionTypes, NoLaterRefl
<1>5. Ordered(virt) /\ CopiesOld /\ CreationsSeen /\ OwnerRecorded
  BY <1>2, <1>3, <1>4, IdleFacts
  DEF Ordered, CopiesOld, CreationsSeen, OwnerRecorded, Recorded
<1>6. RecordShape /\ LiveCopies /\ Absent /\ CreateReady /\ IdleCopies
  BY <1>2, <1>3, IdleFacts
  DEF RecordShape, LiveCopies, AliveOrForced, Absent, CreateReady, IdleCopies
<1>7. /\ CleanupOnlyDoomed /\ GracefulDeletion /\ MappingOwned
      /\ LostOnlyIfGone /\ TokenBacked
  BY <1>3, IdleFacts
  DEF CleanupOnlyDoomed, GracefulDeletion, MappingOwned, LostOnlyIfGone, TokenBacked
<1> QED
  BY <1>1, <1>5, <1>6, <1>7 DEF IInv

LEMMA InvStep == IInv /\ [Next]_vars => IInv'
<1> SUFFICES ASSUME IInv, [Next]_vars PROVE IInv'
  OBVIOUS
<1>1. TypeOK' /\ Ordered(virt)'
  BY TypeStep, VirtAfter DEF IInv
<1> QED
  BY <1>1, CopiesOldStep, CreationsSeenStep, OwnerRecordedStep, RecordShapeStep,
     LiveCopiesStep, AbsentStep, CreateReadyStep, IdleCopiesStep, CleanupStep,
     GracefulStep, MappingStep, LostStep, TokenStep
  DEF IInv

\* IInv holds in every reachable state.
THEOREM Invariance == Spec => []IInv
  BY InvInit, InvStep, PTL DEF Spec

\* deletePhysicalPod of either controller only ever removes the physical pod of a
\* virtual pod that is gone or being deleted.
THEOREM CleanupIsSafe == Spec => []CleanupOnlyDoomed
<1>1. IInv => CleanupOnlyDoomed
  BY DEF IInv
<1> QED
  BY <1>1, Invariance, PTL

\* The syncer's deletion flow never leaves a physical pod behind.
THEOREM DeletionIsGraceful == Spec => []GracefulDeletion
<1>1. IInv => GracefulDeletion
  BY DEF IInv
<1> QED
  BY <1>1, Invariance, PTL

\* A recorded physical UID is that of a pod made for this very incarnation.
THEOREM MappingIsOwned == Spec => []MappingOwned
<1>1. IInv => MappingOwned
  BY DEF IInv
<1> QED
  BY <1>1, Invariance, PTL

\* setVirtualPodFailed never reports a physical pod lost that still exists.
THEOREM LossIsReal == Spec => []LostOnlyIfGone
<1>1. IInv => LostOnlyIfGone
  BY DEF IInv
<1> QED
  BY <1>1, Invariance, PTL

\* No cleanup and no garbage collection takes the token of a live pod.
THEOREM TokenIsKept == Spec => []TokenBacked
<1>1. IInv => TokenBacked
  BY DEF IInv
<1> QED
  BY <1>1, Invariance, PTL

\* A recorded physical UID is never overwritten.
THEOREM RecordIsStable == Spec => RecordedOnce
<1>1. IInv /\ [Next]_vars =>
        [V.exists /\ V'.exists /\ V'.uid = V.uid /\ V.puid # 0
         => V'.puid = V.puid]_vars
  <2> SUFFICES ASSUME IInv, [Next]_vars, V.exists, V'.exists, V'.uid = V.uid,
                      V.puid # 0
               PROVE  V'.puid = V.puid
    OBVIOUS
  <2>1. V.uid \in Nat
    BY Line
  <2> QED
    BY <2>1, VirtEffect, GoneFacts
    DEF VirtSame, VirtRemoved, VirtReleased, VirtCreated, VirtWritten
<1> QED
  BY <1>1, Invariance, PTL DEF Spec, RecordedOnce

============================================================================
