-------------------------- MODULE ResourceSyncProofs --------------------------
(***************************************************************************)
(* Proofs about ResourceSync: types, copies of others, finalizers that     *)
(* outlive the copies.                                                     *)
(***************************************************************************)
EXTENDS ResourceSync, TLAPS

\* A virtual object that is gone has nothing left; one that is there has contents a
\* user gave it, and its annotation names a place where some syncer puts copies.
Sound(o) ==
  /\ o.data \in 0..version
  /\ o.pname => \E d \in Cluster : o.pns = Place(d)

ObjectSound == Sound(v) /\ (~v.exists => v = Absent)

\* What the reconciles in flight have read was such an object.
FlightSound ==
  \A c \in Cluster :
    /\ ctl[c].step # "idle" => ctl[c].obj.exists /\ Sound(ctl[c].obj)
    /\ pod[c] # NoSync => Sound(pod[c])

\* Only config maps and secrets that pods name are in ...NeedsSynced.
NeedsTracked == \A c \in Cluster : needs[c] => Tracked

\* What a user put in a cluster has no UID of ours; our copies have.
UidTells(p) == /\ p.foreign => p.exists /\ p.uid = 0 /\ ~p.held
               /\ p.exists /\ ~p.foreign => p.uid # 0
UidsTell == \A c \in Cluster : UidTells(phys[c]) /\ UidTells(pc[c])

\* A syncer that is about to let the object go has no copy made under its finalizer.
ReleaseClean ==
  \A c \in Cluster : ctl[c].step = "release" /\ phys[c].exists => ~phys[c].held

\* All clusters mount in one namespace, or the object is not a secret: only secrets
\* are looked up in the namespace that another cluster may have written.
PlaceShared == kind = "secret" => \A c, d \in Cluster : Mount[c] = Mount[d]

TypeInv == TypeOK /\ ObjectSound /\ FlightSound /\ NeedsTracked
HolderInv == PlaceShared => ReleaseClean /\ CopyHasHolder
IInv == TypeInv /\ UidsTell /\ HolderInv

----------------------------------------------------------------------------
(* Objects, copies and jobs.                                               *)

Places == {None, "pvsecret", "pv"} \cup {Mount[c] : c \in Cluster}
Job == [step : {"idle", "got", "create", "release"}, obj : Object]

LEMMA ObjectTypes ==
  /\ Absent \in Object /\ NoObject \in Object /\ Idle \in Job
  /\ NoCopy \in Copy /\ ForeignCopy \in Copy
  /\ \A o \in Object : Settle(o) \in Object
  /\ \A o \in Object, c \in Cluster : Released(c, o) \in Object
  /\ \A o \in Object, c \in Cluster, ns \in Places, pv \in BOOLEAN : Labelled(c, o, ns, pv) \in Object
<1>b. MaxVersion \in Nat
  BY BoundAssumption
<1>a. Absent \in Object
  BY <1>b DEF Absent, Object
<1>1. Absent \in Object /\ NoObject \in Object
  BY <1>a, <1>b DEF NoObject, Object
<1>c. NoCopy \in Copy
  BY <1>b DEF NoCopy, Copy
<1>2. NoCopy \in Copy /\ ForeignCopy \in Copy
  BY <1>c DEF ForeignCopy, Copy
<1>3. ASSUME NEW o \in Object, NEW c \in Cluster PROVE Released(c, o) \in Object
  BY <1>3 DEF Released, Object
<1>4. ASSUME NEW o \in Object, NEW c \in Cluster, NEW ns \in Places, NEW pv \in BOOLEAN
      PROVE  Labelled(c, o, ns, pv) \in Object
  BY <1>4 DEF Labelled, Object, Places
<1> QED BY <1>1, <1>2, <1>3, <1>4 DEF Settle, Idle, Job

\* What a labelled and a released object keep of the one they were made from.
LEMMA LabelledValues ==
  ASSUME NEW o \in Object, NEW c \in Cluster, NEW ns, NEW pv
  PROVE  LET q == Labelled(c, o, ns, pv) IN
         /\ q.exists = o.exists /\ q.del = o.del /\ q.data = o.data
         /\ q.pname /\ q.pns = ns /\ q.fin = o.fin \cup {c}
BY DEF Labelled, Object

LEMMA ReleasedValues ==
  ASSUME NEW o \in Object, NEW c \in Cluster
  PROVE  LET q == Released(c, o) IN
         /\ q.exists = o.exists /\ q.data = o.data /\ ~q.pname /\ q.fin = o.fin \ {c}
BY DEF Released, Object

LEMMA PlaceInPlaces == kind \in Kinds => \A c \in Cluster : Place(c) \in Places
BY KindsAssumption DEF Place, Places, AllKinds

LEMMA AbsentValues ==
  /\ ~Absent.exists /\ Absent.fin = {} /\ Absent.data = 0 /\ ~Absent.pname
  /\ NoObject.data = MaxVersion + 1 /\ Idle.step = "idle" /\ Idle.obj = NoObject
BY DEF Absent, NoObject, Idle
----------------------------------------------------------------------------
(* Types.                                                                  *)

LEMMA WriteTypes ==
  ASSUME NEW q, NEW n, Write(q, n)
  PROVE  v' = q /\ dirty' \in [Cluster -> BOOLEAN]
BY DEF Write, EventFilter

LEMMA RequeueTypes ==
  ASSUME TypeOK, NEW c \in Cluster, Requeue(c)
  PROVE  v' = v /\ dirty' \in [Cluster -> BOOLEAN]
BY DEF Requeue, TypeOK

LEMMA CreateTypes ==
  ASSUME TypeOK, NEW c \in Cluster, NEW o, o.data \in 0..MaxVersion, CreatePhysicalResource(c, o)
  PROVE  phys' \in [Cluster -> Copy]
<1> DEFINE new == [exists |-> TRUE, foreign |-> FALSE, uid |-> phys[c].uid + 1, data |-> o.data,
                   held |-> c \in v.fin /\ ctl[c].step # "release"]
<1>1. phys[c] \in Copy /\ phys \in [Cluster -> Copy]
  BY DEF TypeOK
<1>2. new \in Copy
  BY <1>1 DEF Copy
<1>3. phys' = [phys EXCEPT ![c] = IF phys[c].exists THEN phys[c] ELSE new]
  BY <1>1 DEF CreatePhysicalResource
<1> HIDE DEF new
<1> QED BY <1>1, <1>2, <1>3

\* A step that changes neither the contents that users give nor the kind leaves
\* everything sound that was.
LEMMA StaysSound ==
  ASSUME kind' = kind, version' = version, NEW o, Sound(o)
  PROVE  Sound(o)'
BY DEF Sound, Place

\* What is left to show of a step, given its effect on the virtual object, on the jobs
\* and on what it needs.
LEMMA TypeInvStep ==
  ASSUME TypeInv, kind' = kind, version' = version, v' \in Object,
         Sound(v'), ~v'.exists => v' = Absent,
         dirty' \in [Cluster -> BOOLEAN], needs' \in [Cluster -> BOOLEAN],
         \A c \in Cluster : needs'[c] => Tracked,
         phys' \in [Cluster -> Copy], pc' \in [Cluster -> Copy],
         ctl' \in [Cluster -> Job], pod' \in [Cluster -> Object],
         \A c \in Cluster : \/ ctl'[c].step = "idle"
                            \/ ctl'[c].obj = ctl[c].obj /\ ctl[c].step # "idle"
                            \/ ctl'[c].obj.exists /\ Sound(ctl'[c].obj),
         \A c \in Cluster : pod'[c] = NoSync \/ pod'[c] = pod[c] \/ Sound(pod'[c]),
         misled' \subseteq Cluster, leaving' \subseteq Cluster,
         syncs' \in 0..MaxSync, restarts' \in 0..MaxRestart
  PROVE  TypeInv'
<1>1. TypeOK'
  BY DEF TypeInv, TypeOK, Job
<1>2. Sound(v)'
  BY StaysSound
<1>3. ObjectSound'
  BY <1>2 DEF ObjectSound
<1>4. ASSUME NEW c \in Cluster
      PROVE  (ctl'[c].step # "idle" => ctl'[c].obj.exists /\ Sound(ctl'[c].obj))
             /\ (pod'[c] # NoSync => Sound(pod'[c]))
  BY DEF TypeInv, FlightSound
<1>5. FlightSound'
  BY <1>4 DEF FlightSound, Sound, Place, NoSync
<1>6. NeedsTracked'
  BY DEF NeedsTracked, Tracked
<1> QED BY <1>1, <1>3, <1>5, <1>6 DEF TypeInv
\* The places where a controller labels the object.
LEMMA PlaceOfMount ==
  ASSUME TypeInv, NEW c \in Cluster, Tracked
  PROVE  Place(c) = Mount[c]
BY DEF Tracked, Place

LEMMA LabelledSound ==
  ASSUME TypeInv, NEW c \in Cluster, NEW o \in Object, Sound(o), NEW pv
  PROVE  Sound(Labelled(c, o, Place(c), pv))
BY LabelledValues DEF Sound

LEMMA ReleasedSound ==
  ASSUME TypeInv, NEW c \in Cluster, NEW o \in Object, Sound(o), o.exists
  PROVE  LET q == Settle(Released(c, o)) IN Sound(q) /\ (~q.exists => q = Absent)
<1>1. version \in Nat
  BY DEF TypeInv, TypeOK
<1> QED BY <1>1, ReleasedValues, AbsentValues DEF Sound, Settle

\* The parts of the state, typed, for use in the steps.
LEMMA Types ==
  ASSUME TypeInv
  PROVE  /\ kind \in Kinds /\ v \in Object /\ Sound(v) /\ (~v.exists => v = Absent)
         /\ phys \in [Cluster -> Copy] /\ pc \in [Cluster -> Copy]
         /\ needs \in [Cluster -> BOOLEAN] /\ dirty \in [Cluster -> BOOLEAN]
         /\ ctl \in [Cluster -> Job] /\ pod \in [Cluster -> Object]
         /\ misled \subseteq Cluster /\ leaving \subseteq Cluster
         /\ version \in Nat /\ version <= MaxVersion
         /\ syncs \in 0..MaxSync /\ restarts \in 0..MaxRestart
         /\ \A c \in Cluster : /\ ctl[c] \in Job
                               /\ ctl[c].step # "idle" => /\ ctl[c].obj \in Object
                                                          /\ ctl[c].obj.exists /\ Sound(ctl[c].obj)
                               /\ pod[c] # NoSync => Sound(pod[c])
                               /\ needs[c] => Tracked
<1>1. MaxVersion \in Nat
  BY BoundAssumption
<1>2. ctl \in [Cluster -> Job]
  BY DEF TypeInv, TypeOK, Job
<1>3. \A c \in Cluster : ctl[c].obj \in Object
  BY <1>2 DEF Job
<1>4. version \in Nat /\ version <= MaxVersion
  BY <1>1 DEF TypeInv, TypeOK
<1>5. \A c \in Cluster : /\ ctl[c].step # "idle" => ctl[c].obj.exists /\ Sound(ctl[c].obj)
                         /\ pod[c] # NoSync => Sound(pod[c])
                         /\ needs[c] => Tracked
  BY DEF TypeInv, FlightSound, NeedsTracked
<1> QED BY <1>2, <1>3, <1>4, <1>5 DEF TypeInv, TypeOK, ObjectSound

\* The end of a reconciliation.
LEMMA DoneTypes ==
  ASSUME TypeInv, NEW c \in Cluster, Done(c)
  PROVE  /\ ctl' \in [Cluster -> Job]
         /\ ctl'[c].step = "idle" /\ \A d \in Cluster : d # c => ctl'[d] = ctl[d]
BY Types, ObjectTypes, AbsentValues DEF Done

LEMMA GetTypes ==
  ASSUME TypeInv, NEW c \in Cluster, Get(c)
  PROVE  TypeInv'
<1>1. /\ kind' = kind /\ version' = version /\ v' = v /\ phys' = phys /\ pc' = pc /\ pod' = pod
      /\ misled' = misled /\ leaving' = leaving /\ syncs' = syncs /\ restarts' = restarts
  BY DEF Get, rest
<1> DEFINE j == [step |-> "got", obj |-> v]
<1>2. j \in Job
  BY Types DEF Job
<1>3. /\ v.exists /\ ctl' = [ctl EXCEPT ![c] = j]
      \/ ctl' = [ctl EXCEPT ![c] = Idle]
  BY DEF Get
<1>4. /\ ctl' \in [Cluster -> Job]
      /\ \A d \in Cluster : \/ ctl'[d].step = "idle" \/ ctl'[d] = ctl[d]
                            \/ ctl'[d].obj.exists /\ Sound(ctl'[d].obj)
  <2>1. CASE v.exists /\ ctl' = [ctl EXCEPT ![c] = j]
    BY <1>2, <2>1, Types
  <2>2. CASE ctl' = [ctl EXCEPT ![c] = Idle]
    BY <2>2, Types, ObjectTypes, AbsentValues
  <2> QED BY <1>3, <2>1, <2>2
<1>5. /\ dirty' \in [Cluster -> BOOLEAN] /\ needs' \in [Cluster -> BOOLEAN]
      /\ \A d \in Cluster : needs'[d] => Tracked
  BY Types DEF Get
<1>6. \A d \in Cluster : \/ ctl'[d].step = "idle"
                         \/ ctl'[d].obj = ctl[d].obj /\ ctl[d].step # "idle"
                         \/ ctl'[d].obj.exists /\ Sound(ctl'[d].obj)
  BY <1>4
<1> QED BY <1>1, <1>4, <1>5, <1>6, Types, TypeInvStep
\* A step that ends a reconciliation, with what it may do to object and copy.
LEMMA DoneStep ==
  ASSUME TypeInv, NEW c \in Cluster, Done(c), UNCHANGED rest, UNCHANGED needs,
         v' \in Object, Sound(v'), ~v'.exists => v' = Absent,
         dirty' \in [Cluster -> BOOLEAN], phys' \in [Cluster -> Copy], misled' \subseteq Cluster
  PROVE  TypeInv'
<1>1. /\ kind' = kind /\ version' = version /\ pc' = pc /\ pod' = pod /\ needs' = needs
      /\ leaving' = leaving /\ syncs' = syncs /\ restarts' = restarts
  BY DEF rest
<1>2. /\ ctl' \in [Cluster -> Job]
      /\ ctl'[c].step = "idle" /\ \A d \in Cluster : d # c => ctl'[d] = ctl[d]
  BY DoneTypes
<1>3. \A d \in Cluster : \/ ctl'[d].step = "idle"
                         \/ ctl'[d].obj = ctl[d].obj /\ ctl[d].step # "idle"
                         \/ ctl'[d].obj.exists /\ Sound(ctl'[d].obj)
  BY <1>2
<1> QED BY <1>1, <1>2, <1>3, Types, TypeInvStep

LEMMA ReconcileLabelTypes ==
  ASSUME TypeInv, NEW c \in Cluster, ReconcileLabel(c)
  PROVE  TypeInv'
<1> DEFINE o == ctl[c].obj
           q == Labelled(c, o, Mount[c], FALSE)
<1>1. o \in Object /\ o.exists /\ Sound(o) /\ Tracked
  BY Types DEF ReconcileLabel, NeedsFields
<1>2. Mount[c] \in Places /\ Place(c) = Mount[c]
  BY <1>1, PlaceOfMount DEF Places
<1>3. q \in Object /\ Sound(q) /\ q.exists
  BY <1>1, <1>2, ObjectTypes, LabelledSound, LabelledValues
<1> HIDE DEF q
<1>4. (v' = q \/ v' = v) /\ dirty' \in [Cluster -> BOOLEAN]
  BY WriteTypes, RequeueTypes DEF ReconcileLabel, TypeInv, q
<1>5. v' \in Object /\ Sound(v') /\ (~v'.exists => v' = Absent)
  BY <1>3, <1>4, Types
<1>6. Done(c) /\ UNCHANGED rest /\ UNCHANGED needs /\ phys' = phys /\ misled' = misled
  BY DEF ReconcileLabel
<1> QED BY <1>4, <1>5, <1>6, Types, DoneStep

LEMMA ReconcileInvalidTypes ==
  ASSUME TypeInv, NEW c \in Cluster, ReconcileInvalid(c)
  PROVE  TypeInv'
<1>1. v' = v /\ dirty' \in [Cluster -> BOOLEAN]
  BY RequeueTypes DEF ReconcileInvalid, TypeInv
<1>2. Done(c) /\ UNCHANGED rest /\ UNCHANGED needs /\ phys' = phys /\ misled' = misled
  BY DEF ReconcileInvalid
<1> QED BY <1>1, <1>2, Types, DoneStep

LEMMA RemoveSyncedTypes ==
  ASSUME TypeInv, NEW c \in Cluster, RemoveSynced(c)
  PROVE  TypeInv'
<1> DEFINE q == Settle(Released(c, v))
<1>1. CASE ctl[c].obj = v
  <2>1. v \in Object /\ v.exists /\ Sound(v)
    BY <1>1, Types DEF RemoveSynced
  <2>2. q \in Object /\ Sound(q) /\ (~q.exists => q = Absent)
    BY <2>1, ObjectTypes, ReleasedSound
  <2>3. v' = q /\ dirty' \in [Cluster -> BOOLEAN]
    BY <1>1, WriteTypes DEF RemoveSynced
  <2>4. Done(c) /\ UNCHANGED rest /\ UNCHANGED needs /\ phys' = phys /\ misled' = misled
    BY DEF RemoveSynced
  <2> HIDE DEF q
  <2> QED BY <2>2, <2>3, <2>4, Types, DoneStep
<1>2. CASE ctl[c].obj # v
  <2>1. v' = v /\ dirty' \in [Cluster -> BOOLEAN]
    BY <1>2, RequeueTypes DEF RemoveSynced, TypeInv
  <2>2. Done(c) /\ UNCHANGED rest /\ UNCHANGED needs /\ phys' = phys /\ misled' = misled
    BY DEF RemoveSynced
  <2> QED BY <2>1, <2>2, Types, DoneStep
<1> QED BY <1>1, <1>2

\* The job goes on with another step.
LEMMA NextStep ==
  ASSUME TypeInv, NEW c \in Cluster, ctl[c].step = "got", NEW s \in {"create", "release"},
         ctl' = [ctl EXCEPT ![c].step = s]
  PROVE  /\ ctl' \in [Cluster -> Job] /\ ctl'[c].step = s /\ ctl'[c].obj = ctl[c].obj
         /\ \A d \in Cluster : d # c => ctl'[d] = ctl[d]
<1>1. ctl[c] \in Job /\ ctl \in [Cluster -> Job]
  BY Types
<1>2. /\ [ctl[c] EXCEPT !.step = s] \in Job /\ [ctl[c] EXCEPT !.step = s].step = s
      /\ [ctl[c] EXCEPT !.step = s].obj = ctl[c].obj
  BY <1>1 DEF Job
<1> QED BY <1>1, <1>2

LEMMA SyncsTypes ==
  ASSUME TypeInv, NEW c \in Cluster, NEW p, Syncs(c),
         \/ NoWrite /\ Done(c) /\ UNCHANGED <<phys, misled>>
         \/ CreateOrUpdate(c, ctl[c].obj, p)
  PROVE  TypeInv'
<1> DEFINE o == ctl[c].obj
<1>0. o \in Object /\ Sound(o) /\ ctl[c].step = "got"
  BY Types DEF Syncs, Proceeds, HasName
<1>1. o \in Object /\ Sound(o) /\ o.data \in 0..MaxVersion
  BY <1>0, Types, BoundAssumption DEF Sound
<1>2. v' = v /\ dirty' \in [Cluster -> BOOLEAN]
  BY RequeueTypes, Types DEF TypeInv, NoWrite, CreateOrUpdate, ToCreate
<1>3. phys' \in [Cluster -> Copy]
  <2>1. CASE phys' = [phys EXCEPT ![c].data = o.data]
    <3>1. phys[c] \in Copy
      BY Types
    <3>2. [phys[c] EXCEPT !.data = o.data] \in Copy
      BY <1>1, <3>1 DEF Copy
    <3> QED BY <2>1, <3>2, Types
  <2> QED BY <2>1, Types DEF CreateOrUpdate, ToCreate
<1>4. misled' \subseteq Cluster
  BY Types DEF CreateOrUpdate, ToCreate
<1>5. UNCHANGED rest /\ UNCHANGED needs
  BY DEF Syncs
<1>6. CASE Done(c)
  BY <1>2, <1>3, <1>4, <1>5, <1>6, Types, DoneStep
<1>7. CASE ToCreate(c)
  <2>1. /\ kind' = kind /\ version' = version /\ pc' = pc /\ pod' = pod /\ needs' = needs
        /\ leaving' = leaving /\ syncs' = syncs /\ restarts' = restarts
    BY <1>5 DEF rest
  <2>2. /\ ctl' \in [Cluster -> Job]
        /\ ctl'[c].obj = ctl[c].obj /\ \A d \in Cluster : d # c => ctl'[d] = ctl[d]
    BY <1>0, <1>7, NextStep DEF ToCreate
  <2>3. \A d \in Cluster : \/ ctl'[d].step = "idle"
                           \/ ctl'[d].obj = ctl[d].obj /\ ctl[d].step # "idle"
                           \/ ctl'[d].obj.exists /\ Sound(ctl'[d].obj)
    BY <1>0, <2>2
  <2> QED BY <1>2, <1>3, <1>4, <2>1, <2>2, <2>3, Types, TypeInvStep
<1> QED BY <1>6, <1>7 DEF CreateOrUpdate

LEMMA CreateMissingTypes ==
  ASSUME TypeInv, NEW c \in Cluster, CreateMissing(c)
  PROVE  TypeInv'
<1>1. ctl[c].obj \in Object /\ Sound(ctl[c].obj)
  BY Types DEF CreateMissing
<1>2. ctl[c].obj.data \in 0..MaxVersion
  BY <1>1, Types, BoundAssumption DEF Sound
<1>3. phys' \in [Cluster -> Copy]
  BY <1>2, CreateTypes DEF TypeInv, CreateMissing
<1>4. v' = v /\ dirty' = dirty /\ Done(c) /\ UNCHANGED rest /\ UNCHANGED needs
  BY DEF CreateMissing, NoWrite
<1>5. misled' \subseteq Cluster
  BY Types DEF CreateMissing
<1> QED BY <1>3, <1>4, <1>5, Types, DoneStep

LEMMA HandleDeletionTypes ==
  ASSUME TypeInv, NEW c \in Cluster, HandleDeletion(c),
         UNCHANGED needs \/ UnsetNeedsSynced(c)
  PROVE  TypeInv'
<1>1. /\ kind' = kind /\ version' = version /\ pc' = pc /\ pod' = pod
      /\ leaving' = leaving /\ syncs' = syncs /\ restarts' = restarts /\ misled' = misled
  BY DEF HandleDeletion, rest
<1>2. v' = v /\ dirty' \in [Cluster -> BOOLEAN]
  BY RequeueTypes, Types DEF HandleDeletion, TypeInv, NoWrite
<1>3. phys' \in [Cluster -> Copy]
  <2>1. [NoCopy EXCEPT !.uid = phys[c].uid] \in Copy
    BY Types, ObjectTypes DEF Copy
  <2> QED BY <2>1, Types DEF HandleDeletion, DeletePhysicalResource
<1>4. needs' \in [Cluster -> BOOLEAN] /\ \A d \in Cluster : needs'[d] => Tracked
  BY Types DEF UnsetNeedsSynced
<1>5. /\ ctl' \in [Cluster -> Job]
      /\ \A d \in Cluster : \/ ctl'[d].step = "idle"
                            \/ ctl'[d].obj = ctl[d].obj /\ ctl[d].step # "idle"
                            \/ ctl'[d].obj.exists /\ Sound(ctl'[d].obj)
  <2>1. CASE Done(c)
    BY <2>1, DoneTypes
  <2>2. CASE ctl' = [ctl EXCEPT ![c].step = "release"]
    <3>1. ctl[c].step = "got" /\ ctl[c] \in Job
      BY Types DEF HandleDeletion, Proceeds, HasName
    <3> QED BY <2>2, <3>1, NextStep
  <2> QED BY <2>1, <2>2 DEF HandleDeletion
<1> QED BY <1>1, <1>2, <1>3, <1>4, <1>5, Types, TypeInvStep
LEMMA SyncResourceTypes ==
  ASSUME TypeInv, NEW c \in Cluster, SyncResource(c)
  PROVE  TypeInv'
<1> DEFINE pv == kind = "pvsecret"
           q == Labelled(c, v, Place(c), pv)
<1>1. /\ kind' = kind /\ version' = version /\ pc' = pc /\ phys' = phys /\ ctl' = ctl
      /\ misled' = misled /\ leaving' = leaving /\ restarts' = restarts /\ syncs' \in 0..MaxSync
  BY Types, BoundAssumption DEF SyncResource
<1>2. needs' \in [Cluster -> BOOLEAN] /\ \A d \in Cluster : needs'[d] => Tracked
  <2>1. needs' = [needs EXCEPT ![c] = needs[c] \/ Tracked]
    BY Types DEF SyncResource, AddNeedsSynced
  <2>2. (needs[c] \/ Tracked) \in BOOLEAN
    OBVIOUS
  <2> QED BY <2>1, <2>2, Types
<1>3. v' \in Object /\ Sound(v') /\ (~v'.exists => v' = Absent) /\ dirty' \in [Cluster -> BOOLEAN]
  <2>1. CASE Write(q, needs') /\ v.exists
    <3>1. Place(c) \in Places /\ pv \in BOOLEAN
      BY Types, PlaceInPlaces
    <3>2. q \in Object /\ Sound(q) /\ q.exists
      BY <2>1, <3>1, Types, ObjectTypes, LabelledSound, LabelledValues
    <3>3. v' = q /\ dirty' \in [Cluster -> BOOLEAN]
      BY <2>1, WriteTypes
    <3> HIDE DEF q
    <3> QED BY <3>2, <3>3
  <2>2. CASE NoWrite
    BY <2>2, Types DEF NoWrite
  <2> QED BY <2>1, <2>2 DEF SyncResource
<1>4. /\ pod' \in [Cluster -> Object]
      /\ \A d \in Cluster : pod'[d] = NoSync \/ pod'[d] = pod[d] \/ Sound(pod'[d])
  <2>1. pod' = [pod EXCEPT ![c] = v] \/ pod' = [pod EXCEPT ![c] = NoSync]
    BY DEF SyncResource
  <2> QED BY <2>1, Types, ObjectTypes DEF NoSync
<1> QED BY <1>1, <1>2, <1>3, <1>4, Types, TypeInvStep

LEMMA SyncResourceCreateTypes ==
  ASSUME TypeInv, NEW c \in Cluster, SyncResourceCreate(c)
  PROVE  TypeInv'
<1>0. pod[c] \in Object /\ Sound(pod[c])
  BY Types DEF SyncResourceCreate
<1>1. pod[c].data \in 0..MaxVersion
  BY <1>0, Types, BoundAssumption DEF Sound
<1>2. phys' \in [Cluster -> Copy]
  BY <1>1, CreateTypes DEF SyncResourceCreate, TypeInv
<1>3. /\ pod' \in [Cluster -> Object]
      /\ \A d \in Cluster : pod'[d] = NoSync \/ pod'[d] = pod[d]
  BY Types, ObjectTypes DEF SyncResourceCreate, NoSync
<1>4. /\ kind' = kind /\ version' = version /\ pc' = pc /\ v' = v /\ ctl' = ctl /\ needs' = needs
      /\ dirty' = dirty /\ misled' = misled /\ leaving' = leaving /\ restarts' = restarts
      /\ syncs' = syncs
  BY DEF SyncResourceCreate
<1> QED BY <1>2, <1>3, <1>4, Types, TypeInvStep

LEMMA DeliverPhysicalTypes ==
  ASSUME TypeInv, NEW c \in Cluster, DeliverPhysical(c)
  PROVE  TypeInv'
<1>1. pc' \in [Cluster -> Copy]
  BY Types DEF DeliverPhysical
<1>2. /\ kind' = kind /\ version' = version /\ phys' = phys /\ v' = v /\ ctl' = ctl /\ needs' = needs
      /\ dirty' = dirty /\ misled' = misled /\ leaving' = leaving /\ restarts' = restarts
      /\ syncs' = syncs /\ pod' = pod
  BY DEF DeliverPhysical
<1> QED BY <1>1, <1>2, Types, TypeInvStep

\* A user's write gives the object a content of its own.
LEMMA UserWriteTypes ==
  ASSUME TypeInv, UserWrite
  PROVE  TypeInv'
<1>0. MaxVersion \in Nat /\ version \in Nat /\ version' = version + 1 /\ version' <= MaxVersion
  BY Types, BoundAssumption DEF UserWrite
<1>1. /\ kind' = kind /\ phys' = phys /\ pc' = pc /\ needs' = needs /\ ctl' = ctl /\ pod' = pod
      /\ misled' = misled /\ leaving' = leaving /\ syncs' = syncs /\ restarts' = restarts
  BY DEF UserWrite
<1>2. ASSUME NEW o, Sound(o) PROVE Sound(o)'
  BY <1>0, <1>1, <1>2 DEF Sound, Place
<1>3. v' \in Object /\ v'.exists /\ v'.data = version' /\ v'.pname = v.pname /\ v'.pns = v.pns
      /\ dirty' \in [Cluster -> BOOLEAN]
  <2>1. CASE ~v.exists /\ Write([Absent EXCEPT !.exists = TRUE, !.data = version + 1], needs)
    <3>1. v = Absent /\ version + 1 \in 0..MaxVersion + 1
      BY <2>1, <1>0, Types
    <3>2. v' = [Absent EXCEPT !.exists = TRUE, !.data = version + 1] /\ dirty' \in [Cluster -> BOOLEAN]
      BY <2>1, WriteTypes
    <3>3. Absent \in Object
      BY ObjectTypes
    <3> QED BY <1>0, <3>1, <3>2, <3>3 DEF Object
  <2>2. CASE v.exists /\ Write([v EXCEPT !.data = version + 1], needs)
    <3>1. version + 1 \in 0..MaxVersion + 1
      BY <1>0
    <3>2. v' = [v EXCEPT !.data = version + 1] /\ dirty' \in [Cluster -> BOOLEAN]
      BY <2>2, WriteTypes
    <3>3. v \in Object
      BY Types
    <3> QED BY <1>0, <2>2, <3>1, <3>2, <3>3 DEF Object
  <2> QED BY <2>1, <2>2 DEF UserWrite
<1>4. ObjectSound'
  <2>1. v.pname => \E d \in Cluster : v.pns = Place(d)
    BY Types DEF Sound
  <2>2. v'.data \in 0..version'
    BY <1>0, <1>3
  <2>3. \A d \in Cluster : Place(d)' = Place(d)
    BY <1>1 DEF Place
  <2> QED BY <1>3, <2>1, <2>2, <2>3 DEF ObjectSound, Sound
<1>5. FlightSound'
  <2>1. ASSUME NEW d \in Cluster
        PROVE  /\ ctl'[d].step # "idle" => ctl'[d].obj.exists /\ (Sound(ctl[d].obj))'
               /\ pod'[d] # NoSync => (Sound(pod[d]))'
    <3>1. ctl'[d] = ctl[d] /\ pod'[d] = pod[d]
      BY <1>1
    <3>2. ctl[d].step # "idle" => ctl[d].obj.exists /\ Sound(ctl[d].obj)
      BY Types
    <3>3. pod[d] # NoSync => Sound(pod[d])
      BY Types
    <3> QED BY <1>0, <1>1, <3>1, <3>2, <3>3 DEF Sound, Place
  <2> QED BY <2>1 DEF FlightSound, NoSync
<1>6. TypeOK'
  BY <1>0, <1>1, <1>3, Types DEF TypeOK, Job
<1>7. NeedsTracked'
  BY <1>1, Types DEF NeedsTracked, Tracked
<1> QED BY <1>4, <1>5, <1>6, <1>7 DEF TypeInv

\* A step of users and of the bindings' deletion that only writes the object.
LEMMA WriteOnlyTypes ==
  ASSUME TypeInv, NEW q \in Object, Sound(q), ~q.exists => q = Absent, Write(q, needs),
         UNCHANGED <<rest, misled, phys, needs, ctl>>
  PROVE  TypeInv'
<1>1. v' = q /\ dirty' \in [Cluster -> BOOLEAN]
  BY WriteTypes
<1>2. /\ kind' = kind /\ version' = version /\ pc' = pc /\ phys' = phys /\ ctl' = ctl /\ needs' = needs
      /\ misled' = misled /\ leaving' = leaving /\ restarts' = restarts /\ syncs' = syncs
      /\ pod' = pod
  BY DEF rest
<1> QED BY <1>1, <1>2, Types, TypeInvStep

LEMMA UserDeleteTypes ==
  ASSUME TypeInv, UserDelete
  PROVE  TypeInv'
<1> DEFINE q == [v EXCEPT !.del = TRUE]
<1>1. v \in Object /\ v.exists /\ Sound(v)
  BY Types DEF UserDelete
<1>2. q \in Object /\ q.exists /\ q.data = v.data /\ q.pname = v.pname /\ q.pns = v.pns
  BY <1>1 DEF Object
<1>3. Sound(q) /\ Sound(Absent)
  BY <1>1, <1>2, AbsentValues, Types DEF Sound
<1>4. Settle(q) \in Object /\ Sound(Settle(q)) /\ (~Settle(q).exists => Settle(q) = Absent)
  BY <1>2, <1>3, ObjectTypes DEF Settle
<1>5. Write(Settle(q), needs) /\ UNCHANGED <<rest, misled, phys, needs, ctl>>
  BY DEF UserDelete
<1> HIDE DEF q
<1> QED BY <1>4, <1>5, WriteOnlyTypes

LEMMA AddAnnotationTypes ==
  ASSUME TypeInv, NEW c \in Cluster, AddClusterBindingDeletingAnnotation(c)
  PROVE  TypeInv'
<1> DEFINE q == [v EXCEPT !.deleting = @ \cup {c}]
<1>1. v \in Object /\ v.exists /\ Sound(v)
  BY Types DEF AddClusterBindingDeletingAnnotation, Absent
<1>2. q \in Object /\ q.exists /\ q.data = v.data /\ q.pname = v.pname /\ q.pns = v.pns
  BY <1>1 DEF Object
<1>3. Sound(q)
  BY <1>1, <1>2 DEF Sound
<1>5. Write(q, needs) /\ UNCHANGED <<rest, misled, phys, needs, ctl>>
  BY DEF AddClusterBindingDeletingAnnotation
<1> HIDE DEF q
<1> QED BY <1>2, <1>3, <1>5, WriteOnlyTypes

LEMMA LeaveTypes ==
  ASSUME TypeInv, NEW c \in Cluster, Leave(c)
  PROVE  TypeInv'
<1>1. leaving' \subseteq Cluster
  BY Types DEF Leave
<1>2. /\ kind' = kind /\ version' = version /\ pc' = pc /\ phys' = phys /\ ctl' = ctl /\ needs' = needs
      /\ misled' = misled /\ restarts' = restarts /\ syncs' = syncs
      /\ pod' = pod /\ v' = v /\ dirty' = dirty
  BY DEF Leave
<1> QED BY <1>1, <1>2, Types, TypeInvStep

LEMMA RestartTypes ==
  ASSUME TypeInv, NEW c \in Cluster, Restart(c)
  PROVE  TypeInv'
<1>1. /\ kind' = kind /\ version' = version /\ phys' = phys /\ v' = v
      /\ misled' = misled /\ leaving' = leaving /\ syncs' = syncs /\ restarts' \in 0..MaxRestart
  BY Types, BoundAssumption DEF Restart
<1>2. PICK n \in InitNeeds(c) : /\ needs' = [needs EXCEPT ![c] = n]
                                /\ dirty' = [dirty EXCEPT ![c] = v.exists /\ EventFilter(c, v, n)]
  BY DEF Restart
<1>3. n \in BOOLEAN /\ (n => Tracked)
  BY DEF InitNeeds
<1>4. needs' \in [Cluster -> BOOLEAN] /\ \A d \in Cluster : needs'[d] => Tracked
  BY <1>2, <1>3, Types
<1>5. dirty' \in [Cluster -> BOOLEAN]
  <2>1. (v.exists /\ EventFilter(c, v, n)) \in BOOLEAN
    OBVIOUS
  <2> QED BY <1>2, <2>1, Types
<1>6. pc' \in [Cluster -> Copy] /\ pod' \in [Cluster -> Object] /\ ctl' \in [Cluster -> Job]
  BY Types, ObjectTypes DEF Restart, NoSync
<1>7. \A d \in Cluster : /\ ctl'[d] = Idle \/ ctl'[d] = ctl[d]
                         /\ pod'[d] = NoSync \/ pod'[d] = pod[d]
  BY Types DEF Restart
<1> QED BY <1>1, <1>4, <1>5, <1>6, <1>7, AbsentValues, Types, TypeInvStep

LEMMA TypeStep ==
  TypeInv /\ [Next]_vars => TypeInv'
<1> SUFFICES ASSUME TypeInv, [Next]_vars PROVE TypeInv'
  OBVIOUS
<1>1. CASE UNCHANGED vars
  <2>1. /\ kind' = kind /\ version' = version /\ pc' = pc /\ phys' = phys /\ ctl' = ctl /\ needs' = needs
        /\ misled' = misled /\ restarts' = restarts /\ syncs' = syncs /\ leaving' = leaving
        /\ pod' = pod /\ v' = v /\ dirty' = dirty
    BY <1>1 DEF vars
  <2> QED BY <2>1, Types, TypeInvStep
<1>2. CASE UserWrite \/ UserDelete
  BY <1>2, UserWriteTypes, UserDeleteTypes
<1>3. ASSUME NEW c \in Cluster, SyncerNext(c) PROVE TypeInv'
  <2>1. CASE Get(c) \/ ReconcileLabel(c) \/ ReconcileInvalid(c) \/ RemoveSynced(c)
    BY <2>1, GetTypes, ReconcileLabelTypes, ReconcileInvalidTypes, RemoveSyncedTypes
  <2>2. CASE \/ handleVirtualConfigMapDeletion(c) \/ handleVirtualSecretDeletion(c)
             \/ handleVirtualPVCDeletion(c) \/ handleVirtualPVDeletion(c)
    BY <2>2, HandleDeletionTypes
    DEF handleVirtualConfigMapDeletion, handleVirtualSecretDeletion, handleVirtualPVCDeletion,
        handleVirtualPVDeletion
  <2>3. CASE SyncConfigMap(c) \/ SyncSecret(c) \/ SyncPVC(c) \/ SyncPV(c) \/ CreateMissing(c)
    BY <2>3, SyncsTypes, CreateMissingTypes DEF SyncConfigMap, SyncSecret, SyncPVC, SyncPV
  <2>4. CASE SyncResource(c) \/ SyncResourceCreate(c) \/ DeliverPhysical(c) \/ Restart(c)
    BY <2>4, SyncResourceTypes, SyncResourceCreateTypes, DeliverPhysicalTypes, RestartTypes
  <2>5. CASE Leave(c) \/ AddClusterBindingDeletingAnnotation(c)
    BY <2>5, LeaveTypes, AddAnnotationTypes
  <2> QED BY <1>3, <2>1, <2>2, <2>3, <2>4, <2>5 DEF SyncerNext, Controller
<1> QED BY <1>1, <1>2, <1>3 DEF Next

LEMMA TypeInit == Init => TypeInv
<1> SUFFICES ASSUME Init PROVE TypeInv
  OBVIOUS
<1>1. MaxVersion \in Nat /\ MaxSync \in Nat /\ MaxRestart \in Nat
  BY BoundAssumption
<1>2. TypeOK
  <2>1. phys \in [Cluster -> Copy] /\ pc \in [Cluster -> Copy]
    BY ObjectTypes DEF Init
  <2>2. ctl \in [Cluster -> Job] /\ pod \in [Cluster -> Object] /\ v \in Object
    BY ObjectTypes DEF Init, NoSync
  <2>3. /\ kind \in Kinds /\ misled \subseteq Cluster /\ leaving \subseteq Cluster
        /\ needs \in [Cluster -> BOOLEAN] /\ dirty \in [Cluster -> BOOLEAN]
        /\ version = 0 /\ syncs = 0 /\ restarts = 0
    BY DEF Init
  <2> QED BY <1>1, <2>1, <2>2, <2>3 DEF TypeOK, Job
<1>3. ObjectSound
  BY AbsentValues DEF Init, ObjectSound, Sound
<1>4. FlightSound /\ NeedsTracked
  BY AbsentValues DEF Init, FlightSound, NeedsTracked
<1> QED BY <1>2, <1>3, <1>4 DEF TypeInv

\* The values of the variables stay in their sets, whatever the bounds.
THEOREM ResourceTypeCorrect == Spec => []TypeOK
<1>1. TypeInv => TypeOK
  BY DEF TypeInv
<1> QED BY <1>1, TypeInit, TypeStep, PTL DEF Spec
----------------------------------------------------------------------------
(* Copies and finalizers.                                                  *)

\* What any step does to the copy of cluster d: what somebody else put there is left
\* alone, and a copy counts as held only if it did or if the finalizer is there and stays.
CopyStep(d) ==
  /\ UidTells(phys'[d]) /\ UidTells(pc'[d])
  /\ phys[d].foreign => phys'[d] = phys[d]
  /\ phys'[d].exists /\ phys'[d].held =>
       \/ phys[d].exists /\ phys[d].held
       \/ d \in v.fin /\ ctl[d].step # "release"

\* What any step does to the finalizer of cluster d: it goes only at the end of a release.
FinStep(d) == d \in v.fin => d \in v'.fin \/ (ctl[d].step = "release" /\ phys'[d] = phys[d])

\* A release begins when there is no copy any more.
ReleaseStep(d) == ctl'[d].step = "release" => ctl[d].step = "release" \/ ~phys'[d].exists

HolderStep == /\ kind' = kind
              /\ \A d \in Cluster : CopyStep(d) /\ FinStep(d)
              /\ PlaceShared => \A d \in Cluster : ReleaseStep(d)

LEMMA HolderStepEnough ==
  ASSUME UidsTell, HolderInv, HolderStep
  PROVE  UidsTell' /\ HolderInv'
<1>1. UidsTell'
  BY DEF HolderStep, CopyStep, UidsTell, UidTells
<1>2. PlaceShared' = PlaceShared
  BY DEF HolderStep, PlaceShared
<1>3. ASSUME PlaceShared PROVE ReleaseClean' /\ CopyHasHolder'
  <2>1. ReleaseClean /\ CopyHasHolder
    BY <1>3 DEF HolderInv
  <2>2. ASSUME NEW d \in Cluster, phys'[d].exists, phys'[d].held
        PROVE  d \in v.fin /\ ctl[d].step # "release"
    BY <2>1, <2>2 DEF HolderStep, CopyStep, ReleaseClean, CopyHasHolder
  <2>3. CopyHasHolder'
    BY <2>2 DEF HolderStep, FinStep, CopyHasHolder
  <2>4. ReleaseClean'
    BY <1>3, <2>2 DEF HolderStep, ReleaseStep, ReleaseClean
  <2> QED BY <2>3, <2>4
<1> QED BY <1>1, <1>2, <1>3 DEF HolderInv

LEMMA CreateCopies ==
  ASSUME TypeInv, UidsTell, NEW c \in Cluster, NEW o, o.data \in 0..MaxVersion,
         CreatePhysicalResource(c, o), pc' = pc
  PROVE  \A d \in Cluster : CopyStep(d)
<1>1. phys \in [Cluster -> Copy] /\ phys[c].uid \in Nat
  BY Types DEF Copy
<1>2. ASSUME NEW d \in Cluster, d # c PROVE phys'[d] = phys[d]
  BY <1>1, <1>2 DEF CreatePhysicalResource
<1>3. CASE phys[c].exists
  <2>1. phys'[c] = phys[c]
    BY <1>1, <1>3 DEF CreatePhysicalResource
  <2> QED BY <1>2, <2>1 DEF CopyStep, UidsTell
<1>4. CASE ~phys[c].exists
  <2>1. phys'[c] = [exists |-> TRUE, foreign |-> FALSE, uid |-> phys[c].uid + 1,
                    data |-> o.data, held |-> c \in v.fin /\ ctl[c].step # "release"]
    BY <1>1, <1>4 DEF CreatePhysicalResource
  <2>2. UidTells(phys[c]) /\ UidTells(pc[c])
    BY DEF UidsTell
  <2> DEFINE h == c \in v.fin /\ ctl[c].step # "release"
  <2>3. /\ phys'[c].exists /\ ~phys'[c].foreign /\ phys'[c].uid # 0 /\ (phys'[c].held = h)
        /\ ~phys[c].foreign
    BY <1>1, <1>4, <2>1, <2>2 DEF UidTells
  <2>4. CopyStep(c)
    BY <2>2, <2>3 DEF CopyStep, UidTells
  <2> QED BY <1>2, <2>4 DEF CopyStep, UidsTell
<1> QED BY <1>3, <1>4

\* A step that leaves the copies, or delivers them to a cache.
LEMMA QuietCopies ==
  ASSUME UidsTell, phys' = phys, \A d \in Cluster : pc'[d] \in {pc[d], phys[d]}
  PROVE  \A d \in Cluster : CopyStep(d)
BY DEF CopyStep, UidsTell

\* What a reconciliation finds is what is there or what the cache has.
LEMMA FoundCopy ==
  ASSUME TypeInv, UidsTell, NEW c \in Cluster, ~Found(c).foreign, Found(c).exists
  PROVE  Found(c) \in Copy /\ Found(c).uid # 0
<1>1. kind \in AllKinds
  BY Types, KindsAssumption
<1>2. Found(c) \in {NoCopy, pc[c], phys[c]}
  BY <1>1 DEF Found, checkPhysicalConfigMapExists, checkPhysicalSecretExists,
     checkPhysicalPVCExists, checkPhysicalPVExists, CheckPhysicalResourceExists, AllKinds
<1>3. Found(c) \in {pc[c], phys[c]}
  BY <1>2 DEF NoCopy
<1> QED BY <1>3, Types DEF UidsTell, UidTells

\* Where all clusters mount in one namespace, a reconciliation that finds no copy is
\* right: neither the cache nor the cluster has one.
LEMMA FoundNothing ==
  ASSUME TypeInv, NEW c \in Cluster, HasName(c), PlaceShared, ~Found(c).exists
  PROVE  ~phys[c].exists
<1>1. kind \in AllKinds
  BY Types, KindsAssumption
<1>2. /\ ctl[c].obj.pname
      /\ \E d \in Cluster : ctl[c].obj.pns = Place(d)
  BY Types DEF HasName, Nameless, Sound
<1>3. PICK ns : Found(c) = CheckPhysicalResourceExists(c, ns) /\ ns = Place(c)
  <2>1. CASE kind = "configmap" \/ kind = "pvc"
    BY <2>1 DEF Found, checkPhysicalConfigMapExists, checkPhysicalPVCExists, Place
  <2>2. CASE kind = "secret"
    BY <1>2, <2>2 DEF Found, checkPhysicalSecretExists, Place, PlaceShared
  <2>3. CASE kind = "pvsecret"
    BY <1>2, <2>3 DEF Found, checkPhysicalSecretExists, Place
  <2>4. CASE kind = "pv"
    BY <2>4 DEF Found, checkPhysicalPVExists, Place
  <2> QED BY <1>1, <2>1, <2>2, <2>3, <2>4 DEF AllKinds
<1> QED BY <1>3 DEF CheckPhysicalResourceExists

LEMMA HandleDeletionHolds ==
  ASSUME TypeInv, UidsTell, NEW c \in Cluster, HandleDeletion(c)
  PROVE  HolderStep
<1>0. HasName(c) /\ ~Found(c).foreign /\ ctl[c].step = "got"
  BY DEF HandleDeletion, Proceeds, HasName
<1>1. kind' = kind /\ pc' = pc /\ v' = v
  BY DEF HandleDeletion, rest, Requeue, NoWrite
<1>2. \A d \in Cluster : FinStep(d)
  BY <1>1 DEF FinStep
<1>3. CASE DeleteFails(c, Found(c))
  <2>1. phys' = phys /\ Done(c)
    BY <1>3 DEF HandleDeletion
  <2>2. \A d \in Cluster : ReleaseStep(d)
    BY <2>1, DoneTypes DEF ReleaseStep
  <2> QED BY <1>1, <1>2, <2>1, <2>2, QuietCopies DEF HolderStep
<1>4. CASE ~DeleteFails(c, Found(c)) /\ Found(c).exists
  <2>1. phys' = [phys EXCEPT ![c] = [NoCopy EXCEPT !.uid = phys[c].uid]]
        /\ ctl' = [ctl EXCEPT ![c].step = "release"]
    BY <1>4 DEF HandleDeletion, DeletePhysicalResource
  <2>2. ~phys[c].foreign
    BY <1>0, <1>4, FoundCopy DEF DeleteFails, UidsTell, UidTells
  <2>3. phys'[c] = [NoCopy EXCEPT !.uid = phys[c].uid]
    BY <2>1, Types
  <2>4. ~phys'[c].exists /\ ~phys'[c].foreign
    BY <2>3 DEF NoCopy
  <2>5. CopyStep(c)
    BY <1>1, <2>2, <2>4 DEF CopyStep, UidsTell, UidTells
  <2>6. ASSUME NEW d \in Cluster, d # c PROVE CopyStep(d) /\ ctl'[d] = ctl[d]
    BY <1>1, <2>1, <2>6, Types DEF CopyStep, UidsTell
  <2>7. \A d \in Cluster : ReleaseStep(d)
    BY <2>4, <2>6 DEF ReleaseStep
  <2> QED BY <1>1, <1>2, <2>5, <2>6, <2>7 DEF HolderStep
<1>5. CASE ~DeleteFails(c, Found(c)) /\ ~Found(c).exists
  <2>1. phys' = phys /\ ctl' = [ctl EXCEPT ![c].step = "release"]
    BY <1>5 DEF HandleDeletion, DeletePhysicalResource
  <2>2. ASSUME PlaceShared, NEW d \in Cluster PROVE ReleaseStep(d)
    <3>1. CASE d = c
      BY <1>0, <1>5, <2>1, <2>2, <3>1, FoundNothing DEF ReleaseStep
    <3>2. CASE d # c
      BY <2>1, <3>2, Types DEF ReleaseStep
    <3> QED BY <3>1, <3>2
  <2> QED BY <1>1, <1>2, <2>1, <2>2, QuietCopies DEF HolderStep
<1> QED BY <1>3, <1>4, <1>5

\* A step of a reconciliation that keeps the object.
LEMMA SyncsHolds ==
  ASSUME TypeInv, UidsTell, NEW c \in Cluster, Syncs(c),
         \/ NoWrite /\ Done(c) /\ UNCHANGED <<phys, misled>>
         \/ CreateOrUpdate(c, ctl[c].obj, Found(c))
  PROVE  HolderStep
<1> DEFINE o == ctl[c].obj
<1>0. o \in Object /\ Sound(o) /\ ~Found(c).foreign /\ ctl[c].step = "got"
  BY Types DEF Syncs, Proceeds, HasName
<1>2. v' = v /\ pc' = pc /\ kind' = kind
  BY DEF Syncs, NoWrite, CreateOrUpdate, ToCreate, Requeue, rest
<1>3. \A d \in Cluster : FinStep(d)
  BY <1>2 DEF FinStep
<1>4. \A d \in Cluster : ReleaseStep(d)
  <2>1. CASE Done(c)
    BY <2>1, DoneTypes DEF ReleaseStep
  <2>2. CASE ToCreate(c)
    BY <1>0, <2>2, NextStep DEF ReleaseStep, ToCreate
  <2> QED BY <2>1, <2>2 DEF CreateOrUpdate
<1>5. \A d \in Cluster : CopyStep(d)
  <2>2. CASE phys' = [phys EXCEPT ![c].data = o.data] /\ Found(c) = phys[c]
    <3>1. phys[c] \in Copy
      BY Types
    <3>2. /\ phys'[c].exists = phys[c].exists /\ phys'[c].foreign = phys[c].foreign
          /\ phys'[c].uid = phys[c].uid /\ phys'[c].held = phys[c].held
      BY <2>2, <3>1, Types DEF Copy
    <3>3. CopyStep(c)
      BY <1>0, <1>2, <2>2, <3>2 DEF CopyStep, UidsTell, UidTells
    <3>4. ASSUME NEW d \in Cluster, d # c PROVE phys'[d] = phys[d]
      BY <2>2, <3>4, Types
    <3> QED BY <1>2, <3>3, <3>4 DEF CopyStep, UidsTell
  <2>3. CASE phys' = phys
    BY <1>2, <2>3, QuietCopies
  <2> QED BY <2>2, <2>3 DEF CreateOrUpdate, ToCreate
<1> QED BY <1>2, <1>3, <1>4, <1>5 DEF HolderStep

LEMMA CreateMissingHolds ==
  ASSUME TypeInv, UidsTell, NEW c \in Cluster, CreateMissing(c)
  PROVE  HolderStep
<1>1. ctl[c].obj \in Object /\ Sound(ctl[c].obj)
  BY Types DEF CreateMissing
<1>2. ctl[c].obj.data \in 0..MaxVersion
  BY <1>1, Types, BoundAssumption DEF Sound
<1>3. v' = v /\ pc' = pc /\ kind' = kind /\ Done(c)
  BY DEF CreateMissing, NoWrite, rest
<1>4. \A d \in Cluster : CopyStep(d)
  BY <1>2, <1>3, CreateCopies DEF CreateMissing
<1>5. \A d \in Cluster : FinStep(d) /\ ReleaseStep(d)
  BY <1>3, DoneTypes DEF FinStep, ReleaseStep
<1> QED BY <1>3, <1>4, <1>5 DEF HolderStep

\* The finalizer goes with the release of the object, and only that cluster's.
LEMMA RemoveSyncedHolds ==
  ASSUME TypeInv, UidsTell, NEW c \in Cluster, RemoveSynced(c)
  PROVE  HolderStep
<1>1. kind' = kind /\ pc' = pc /\ phys' = phys /\ Done(c) /\ ctl[c].step = "release"
  BY DEF RemoveSynced, rest
<1>2. \A d \in Cluster : CopyStep(d) /\ ReleaseStep(d)
  BY <1>1, DoneTypes, QuietCopies DEF ReleaseStep
<1>3. v' \in {v, Released(c, v), Absent} /\ (v' = Absent => v = v' \/ Released(c, v).fin = {})
  BY AbsentValues DEF RemoveSynced, Requeue, Write, Settle
<1>4. Released(c, v).fin = v.fin \ {c}
  BY Types, ReleasedValues
<1>5. \A d \in Cluster : FinStep(d)
  <2>1. CASE v' = Released(c, v)
    BY <1>1, <1>4, <2>1 DEF FinStep
  <2>2. CASE v' = Absent
    BY <1>1, <1>3, <1>4, <2>2 DEF FinStep
  <2> QED BY <1>3, <2>1, <2>2 DEF FinStep
<1> QED BY <1>1, <1>2, <1>5 DEF HolderStep

\* A step that keeps the copies, begins no release and lets no finalizer go.
LEMMA HolderQuiet ==
  ASSUME UidsTell, kind' = kind, phys' = phys, \A d \in Cluster : pc'[d] \in {pc[d], phys[d]},
         \A d \in Cluster : ctl'[d].step = "release" => ctl[d].step = "release",
         v.fin \subseteq v'.fin
  PROVE  HolderStep
BY QuietCopies DEF HolderStep, FinStep, ReleaseStep

LEMMA ReconcileHolds ==
  ASSUME TypeInv, UidsTell, NEW c \in Cluster,
         Get(c) \/ ReconcileLabel(c) \/ ReconcileInvalid(c)
  PROVE  HolderStep
<1>1. kind' = kind /\ phys' = phys /\ pc' = pc
  BY DEF Get, ReconcileLabel, ReconcileInvalid, rest
<1>2. \A d \in Cluster : ctl'[d].step = "release" => ctl[d].step = "release"
  <2>1. CASE Get(c)
    BY <2>1, Types, AbsentValues DEF Get
  <2>2. CASE Done(c)
    BY <2>2, DoneTypes
  <2> QED BY <2>1, <2>2 DEF ReconcileLabel, ReconcileInvalid
<1>3. v' = v \/ (ctl[c].obj = v /\ v' = Labelled(c, v, Mount[c], FALSE))
  BY DEF Get, ReconcileLabel, ReconcileInvalid, Requeue, Write, CanUpdate
<1>4. Labelled(c, v, Mount[c], FALSE).fin = v.fin \cup {c}
  BY Types DEF Labelled, Object
<1>5. v.fin \subseteq v'.fin
  BY <1>3, <1>4
<1> QED BY <1>1, <1>2, <1>5, HolderQuiet

LEMMA PodHolds ==
  ASSUME TypeInv, UidsTell, NEW c \in Cluster,
         SyncResource(c) \/ SyncResourceCreate(c) \/ DeliverPhysical(c) \/ Restart(c)
  PROVE  HolderStep
<1>1. CASE SyncResource(c)
  <2>1. kind' = kind /\ phys' = phys /\ pc' = pc /\ ctl' = ctl
    BY <1>1 DEF SyncResource
  <2>2. v' = v \/ v' = Labelled(c, v, Place(c), kind = "pvsecret")
    BY <1>1 DEF SyncResource, NoWrite, Write
  <2>3. v.fin \subseteq v'.fin
    BY <2>2, Types, LabelledValues
  <2> QED BY <2>1, <2>3, HolderQuiet
<1>2. CASE SyncResourceCreate(c)
  <2>1. kind' = kind /\ pc' = pc /\ ctl' = ctl /\ v' = v
    BY <1>2 DEF SyncResourceCreate
  <2>2. Sound(pod[c])
    BY <1>2, Types DEF SyncResourceCreate
  <2>3. pod[c].data \in 0..MaxVersion
    BY <2>2, Types, BoundAssumption DEF Sound
  <2>4. \A d \in Cluster : CopyStep(d)
    BY <1>2, <2>1, <2>3, CreateCopies DEF SyncResourceCreate
  <2> QED BY <2>1, <2>4 DEF HolderStep, FinStep, ReleaseStep
<1>3. CASE DeliverPhysical(c)
  <2>1. kind' = kind /\ phys' = phys /\ ctl' = ctl /\ v' = v
    BY <1>3 DEF DeliverPhysical
  <2>2. \A d \in Cluster : pc'[d] \in {pc[d], phys[d]}
    BY <1>3, Types DEF DeliverPhysical
  <2> QED BY <2>1, <2>2, HolderQuiet
<1>4. CASE Restart(c)
  <2>1. kind' = kind /\ phys' = phys /\ v' = v
    BY <1>4 DEF Restart
  <2>2. \A d \in Cluster : pc'[d] \in {pc[d], phys[d]}
    BY <1>4, Types DEF Restart
  <2>3. \A d \in Cluster : ctl'[d].step = "release" => ctl[d].step = "release"
    BY <1>4, Types, AbsentValues DEF Restart
  <2> QED BY <2>1, <2>2, <2>3, HolderQuiet
<1> QED BY <1>1, <1>2, <1>3, <1>4

LEMMA UserHolds ==
  ASSUME TypeInv, UidsTell,
         \/ UserWrite \/ UserDelete
         \/ \E c \in Cluster : Leave(c) \/ AddClusterBindingDeletingAnnotation(c)
  PROVE  HolderStep
<1>1. kind' = kind /\ phys' = phys /\ pc' = pc /\ ctl' = ctl
  BY DEF UserWrite, UserDelete, Leave, AddClusterBindingDeletingAnnotation, rest
<1>2. v.fin \subseteq v'.fin
  <2>1. CASE UserWrite
    <3>1. CASE ~v.exists
      BY <3>1, Types, AbsentValues
    <3>2. CASE v.exists /\ v' = [v EXCEPT !.data = version + 1]
      BY <3>2, Types DEF Object
    <3> QED BY <2>1, <3>1, <3>2 DEF UserWrite, Write
  <2>2. CASE UserDelete
    <3>1. v' = Settle([v EXCEPT !.del = TRUE])
      BY <2>2 DEF UserDelete, Write
    <3>2. [v EXCEPT !.del = TRUE].fin = v.fin
      BY Types DEF Object
    <3> QED BY <3>1, <3>2 DEF Settle
  <2>3. CASE \E c \in Cluster : AddClusterBindingDeletingAnnotation(c)
    <3>1. PICK c \in Cluster : v' = [v EXCEPT !.deleting = @ \cup {c}]
      BY <2>3 DEF AddClusterBindingDeletingAnnotation, Write
    <3> QED BY <3>1, Types DEF Object
  <2>4. CASE \E c \in Cluster : Leave(c)
    BY <2>4 DEF Leave
  <2> QED BY <2>1, <2>2, <2>3, <2>4
<1> QED BY <1>1, <1>2, HolderQuiet

LEMMA HoldsNext ==
  TypeInv /\ UidsTell /\ [Next]_vars => HolderStep
<1> SUFFICES ASSUME TypeInv, UidsTell, [Next]_vars PROVE HolderStep
  OBVIOUS
<1>1. CASE UNCHANGED vars
  BY <1>1, HolderQuiet DEF vars
<1>2. CASE UserWrite \/ UserDelete
  BY <1>2, UserHolds
<1>3. ASSUME NEW c \in Cluster, SyncerNext(c) PROVE HolderStep
  <2>1. CASE Get(c) \/ ReconcileLabel(c) \/ ReconcileInvalid(c)
    BY <2>1, ReconcileHolds
  <2>2. CASE \/ handleVirtualConfigMapDeletion(c) \/ handleVirtualSecretDeletion(c)
             \/ handleVirtualPVCDeletion(c) \/ handleVirtualPVDeletion(c)
    BY <2>2, HandleDeletionHolds
    DEF handleVirtualConfigMapDeletion, handleVirtualSecretDeletion, handleVirtualPVCDeletion,
        handleVirtualPVDeletion
  <2>3. CASE SyncConfigMap(c) \/ SyncSecret(c) \/ SyncPVC(c) \/ SyncPV(c) \/ CreateMissing(c)
    BY <2>3, SyncsHolds, CreateMissingHolds DEF SyncConfigMap, SyncSecret, SyncPVC, SyncPV
  <2>4. CASE SyncResource(c) \/ SyncResourceCreate(c) \/ DeliverPhysical(c) \/ Restart(c)
    BY <2>4, PodHolds
  <2>5. CASE Leave(c) \/ AddClusterBindingDeletingAnnotation(c)
    BY <2>5, UserHolds
  <2>6. CASE RemoveSynced(c)
    BY <2>6, RemoveSyncedHolds
  <2> QED BY <1>3, <2>1, <2>2, <2>3, <2>4, <2>5, <2>6 DEF SyncerNext, Controller
<1> QED BY <1>1, <1>2, <1>3 DEF Next

LEMMA HolderInit == Init => UidsTell /\ HolderInv
<1> SUFFICES ASSUME Init PROVE UidsTell /\ HolderInv
  OBVIOUS
<1>1. \A d \in Cluster : phys[d] \in {NoCopy, ForeignCopy} /\ pc[d] = phys[d] /\ ctl[d].step = "idle"
  BY AbsentValues DEF Init
<1>2. /\ ~NoCopy.exists /\ ~NoCopy.foreign /\ ~NoCopy.held
      /\ ForeignCopy.exists /\ ForeignCopy.foreign /\ ForeignCopy.uid = 0 /\ ~ForeignCopy.held
  BY DEF NoCopy, ForeignCopy
<1>3. UidTells(NoCopy) /\ UidTells(ForeignCopy)
  BY <1>2 DEF UidTells
<1>4. UidsTell
  BY <1>1, <1>3 DEF UidsTell
<1>5. \A d \in Cluster : ~phys[d].held /\ ctl[d].step # "release"
  BY <1>1, <1>2
<1> QED BY <1>4, <1>5 DEF HolderInv, ReleaseClean, CopyHasHolder

LEMMA IInvInvariant == Spec => []IInv
<1>1. Init => IInv
  BY TypeInit, HolderInit DEF IInv
<1>2. IInv /\ [Next]_vars => IInv'
  BY TypeStep, HoldsNext, HolderStepEnough DEF IInv
<1> QED BY <1>1, <1>2, PTL DEF Spec

\* A copy made under its cluster's finalizer never outlives it, for any number of
\* clusters and of lives of the object, as long as a secret is looked up where it was put:
\* the clusters share one mount namespace, or the object is not a secret of a pod.
THEOREM CopyOutlivedByFinalizer == Spec => [](PlaceShared => CopyHasHolder)
<1>1. IInv => (PlaceShared => CopyHasHolder)
  BY DEF IInv, HolderInv
<1> QED BY <1>1, IInvInvariant, PTL

\* What already had the name in a cluster is never changed or deleted, whatever the
\* namespaces: a reconciliation's delete carries the UID of a copy of ours, and its
\* update the copy it found.
THEOREM ForeignKeptUntouched == Spec => ForeignUntouched
<1>1. IInv /\ [Next]_vars => [\A c \in Cluster : phys[c].foreign => phys'[c] = phys[c]]_vars
  BY HoldsNext DEF IInv, HolderStep, CopyStep
<1> QED BY <1>1, IInvInvariant, PTL DEF Spec, ForeignUntouched
===============================================================================
