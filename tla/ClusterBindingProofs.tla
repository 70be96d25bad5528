------------------------ MODULE ClusterBindingProofs ------------------------
(***************************************************************************)
(* Proofs about ClusterBinding: types; that nothing is deployed for a      *)
(* binding without the manager's finalizer; that bindings and identifiers  *)
(* stay paired through clashes, deletions and restarts, but for the two    *)
(* cases the property names; that what is Ready is deployed; and that a    *)
(* binding with identifiers of its own keeps its syncer.                   *)
(***************************************************************************)
EXTENDS ClusterBinding, TLAPS

\* An object that is gone, or on its way out.
Dying(c) == c.deleting \/ ~c.exists

\* Version c of a binding is not later than version d: incarnations go up, and
\* one that is dying does not recover.
NoLater(c, d) == /\ c.uid <= d.uid
                 /\ c.uid = d.uid /\ Dying(c) => Dying(d)

\* What the manager reads is in the past, and what a reconcile read is not later
\* than what the cache shows.
Past == \A b \in Binding : /\ NoLater(mcache[b], obj[b])
                           /\ mgr[b].pc # "idle" => NoLater(mgr[b].c, mcache[b])

Building == {"initStatus", "validate", "connect", "deploy", "ready", "fail"}
Removing == {"delete", "unmap", "removeFinalizer"}

\* What a reconcile in flight read.
Flight == \A b \in Binding :
  LET c == mgr[b].c IN
  /\ mgr[b].pc = "addFinalizer" => c.exists /\ ~c.deleting
  /\ mgr[b].pc \in Building => c.exists /\ ~c.deleting /\ c.mfin
  /\ mgr[b].pc \in Removing => c.exists /\ c.deleting /\ ~c.sfin

\* A binding that somebody saw alive with the manager's finalizer still has it.
Held(b, c) == c.exists /\ ~c.deleting /\ c.mfin => Alive(b, c.uid) /\ obj[b].mfin
StillHeld == \A b \in Binding : /\ Held(b, mcache[b])
                                /\ mgr[b].pc \in Building => Held(b, mgr[b].c)

\* Whoever a deployed object belongs to has been created.
OwnersPast == \A i \in ClusterID, p \in Part :
  stack[i][p] # NoOwner => /\ stack[i][p].name \in Binding
                           /\ stack[i][p].uid <= obj[stack[i][p].name].uid

\* While its owner exists, it carries the manager's finalizer.
OwnersHeld == \A i \in ClusterID, p \in Part :
  stack[i][p] # NoOwner /\ Alive(stack[i][p].name, stack[i][p].uid) => obj[stack[i][p].name].mfin

\* Only a running syncer reconciles.
Running == \A i \in ClusterID : sy[i].pc # "idle" => proc[i] # None

Core == Past /\ Flight /\ StillHeld
Owners == OwnersPast /\ OwnersHeld
IInv == TypeOK /\ Running /\ Core /\ Owners

----------------------------------------------------------------------------
(* Types.                                                                  *)

LEMMA ObjectTypes ==
  /\ \A u \in Nat, i \in ClusterID \union {None} : Fresh(u, i) \in Object
  /\ \A u \in Nat : Gone(u) \in Object
  /\ \A d \in Object : Settle(d) \in Object
<1>1. \A u \in Nat, i \in ClusterID \union {None} : Fresh(u, i) \in Object
  BY DEF Fresh, Object, Phase
<1>2. \A u \in Nat : Gone(u) \in Object
  BY DEF Gone, Fresh, Object, Phase
<1>3. \A d \in Object : Settle(d) \in Object
  BY <1>2 DEF Settle, Object
<1> QED BY <1>1, <1>2, <1>3

LEMMA IdleTypes ==
  /\ IdleM \in [pc : MPc, k : 1..3, c : Object]
  /\ IdleS \in [pc : SPc, c : Object]
BY ObjectTypes DEF IdleM, IdleS, MPc, SPc

\* A reconcile in flight moves on with what it read.
LEMMA MgrMove ==
  ASSUME NEW b \in Binding, NEW pc \in MPc, NEW k \in 1..3, MGo(b, pc, k),
         mgr \in [Binding -> [pc : MPc, k : 1..3, c : Object]]
  PROVE  /\ mgr' \in [Binding -> [pc : MPc, k : 1..3, c : Object]]
         /\ mgr'[b].pc = pc /\ mgr'[b].c = mgr[b].c
         /\ \A a \in Binding \ {b} : mgr'[a] = mgr[a]
BY DEF MGo

\* Edits of an object's fields.
LEMMA ObjectEdits ==
  ASSUME NEW c \in Object
  PROVE  /\ \A p \in Phase : [c EXCEPT !.phase = p] \in Object
         /\ \A x \in BOOLEAN : /\ [c EXCEPT !.mfin = x] \in Object
                              /\ [c EXCEPT !.sfin = x] \in Object
                              /\ [c EXCEPT !.deleting = x] \in Object
         /\ \A i \in ClusterID : [c EXCEPT !.id = i] \in Object
BY DEF Object

\* A reconcile that builds goes on building, one that removes goes on removing.
LEMMA Moves ==
  ASSUME NEW b \in Binding
  PROVE  /\ MValidate(b) \/ MConnect(b) \/ (\E k \in 1..3 : MDeploy(b, k))
           => \E pc \in Building, k \in 1..3 : MGo(b, pc, k)
         /\ (\E k \in 1..3 : MDelete(b, k)) \/ MCleanupClusterIDMappings(b)
           => \E pc \in Removing, k \in 1..3 : MGo(b, pc, k)
<1>1. ASSUME MValidate(b) PROVE MGo(b, "connect", 1) \/ MGo(b, "fail", 1)
  <2>1. CASE nameToClusterID[b] \in {None, mgr[b].c.id} /\ clusterIDToName[mgr[b].c.id] \in {None, b}
    BY <1>1, <2>1 DEF MValidate, MSet
  <2>2. CASE ~(nameToClusterID[b] \in {None, mgr[b].c.id} /\ clusterIDToName[mgr[b].c.id] \in {None, b})
    BY <1>1, <2>2 DEF MValidate, MSet
  <2> QED BY <2>1, <2>2
<1>2. ASSUME MConnect(b) PROVE MGo(b, "deploy", 1)
  BY <1>2 DEF MConnect, MSet
<1>3. ASSUME NEW k \in 1..3, MDeploy(b, k)
      PROVE  MGo(b, "fail", 1) \/ MGo(b, "ready", 1) \/ (k # 3 /\ MGo(b, "deploy", k + 1))
  BY <1>3, Zenon DEF MDeploy, MSet
<1>4. ASSUME NEW k \in 1..3, MDelete(b, k)
      PROVE  MGo(b, "unmap", 1) \/ (k # 3 /\ MGo(b, "delete", k + 1))
  BY <1>4, Zenon DEF MDelete, MSet
<1>5. ASSUME MCleanupClusterIDMappings(b) PROVE MGo(b, "removeFinalizer", 1)
  BY <1>5 DEF MCleanupClusterIDMappings, MSet
<1>6. /\ {"connect", "fail", "deploy", "ready"} \subseteq Building
      /\ {"unmap", "delete", "removeFinalizer"} \subseteq Removing
      /\ \A k \in 1..3 : k # 3 => k + 1 \in 1..3
      /\ 1 \in 1..3
  BY DEF Building, Removing
<1> QED BY <1>1, <1>2, <1>3, <1>4, <1>5, <1>6

LEMMA NoOwnerType == NoOwner \in Owner
BY DEF NoOwner, Owner

\* The variables a manager step may change keep their types.
MTypes ==
  /\ obj \in [Binding -> Object] /\ mcache \in [Binding -> Object]
  /\ stack \in [ClusterID -> [Part -> Owner]] /\ sseen \in [ClusterID -> [Part -> Owner]]
  /\ mq \in SUBSET Binding /\ mgr \in [Binding -> [pc : MPc, k : 1..3, c : Object]]
  /\ nameToClusterID \in [Binding -> ClusterID \union {None}]
  /\ clusterIDToName \in [ClusterID -> Binding \union {None}]

\* ... and the ones of the syncers.
STypes ==
  /\ proc \in [ClusterID -> Binding \union {None}]
  /\ scache \in [ClusterID -> Object]
  /\ sq \in SUBSET ClusterID /\ sy \in [ClusterID -> [pc : SPc, c : Object]]
  /\ nd \in SUBSET ClusterID /\ res \in [Binding -> SUBSET {"node", "pod", "copy"}]
  /\ annot \in SUBSET Binding

BTypes == /\ deletes \in 0..MaxDelete /\ changes \in 0..MaxChange
          /\ restarts \in 0..MaxRestart /\ errors \in 0..MaxError
          /\ forgot \in SUBSET Binding
          /\ cleared \in SUBSET (ClusterID \union {None})
          /\ touched \in SUBSET (Binding \X (ClusterID \union {None}))

LEMMA TypeParts == TypeOK <=> MTypes /\ STypes /\ BTypes
BY DEF TypeOK, MTypes, STypes, BTypes

LEMMA TypeInit == Init => TypeOK
<1> SUFFICES ASSUME Init PROVE TypeOK
  OBVIOUS
<1>1. MTypes
  BY ObjectTypes, IdleTypes, NoOwnerType DEF Init, MTypes
<1>2. STypes
  BY ObjectTypes, IdleTypes DEF Init, STypes
<1>3. BTypes
  BY ConstantsAssumption DEF Init, BTypes
<1> QED BY <1>1, <1>2, <1>3, TypeParts

\* Each action of the manager keeps the types.
LEMMA TypeManager ==
  ASSUME TypeOK, ManagerNext
  PROVE  TypeOK'
<1> USE ObjectTypes, IdleTypes, NoOwnerType
<1>0. MTypes /\ STypes /\ BTypes
  BY TypeParts
<1>a. ASSUME UNCHANGED <<svars, aux>> PROVE STypes' /\ BTypes'
  BY <1>0, <1>a DEF STypes, BTypes, svars, aux
<1>1. ASSUME NEW b \in Binding, MGet(b) PROVE MTypes'
  <2>1. mcache[b] \in Object /\ MStart(mcache[b]) \in MPc
    BY <1>0 DEF MTypes, MStart, MPc
  <2> QED BY <1>0, <1>1, <2>1 DEF MTypes, MGet
<1>2. ASSUME NEW b \in Binding, NEW d \in Object, NEW again, MWrite(b, d, again) PROVE MTypes'
  BY <1>0, <1>2 DEF MTypes, MWrite, MDone, Put
<1>3. ASSUME NEW b \in Binding PROVE mgr[b].c \in Object /\ mgr[b].k \in 1..3 /\ mgr[b].pc \in MPc
  BY <1>0 DEF MTypes
<1>b. ASSUME NEW b \in Binding, NEW pc \in Building \union Removing, NEW k \in 1..3, MGo(b, pc, k)
      PROVE  mgr' \in [Binding -> [pc : MPc, k : 1..3, c : Object]]
  <2>1. pc \in MPc
    BY DEF Building, Removing, MPc
  <2> QED BY <1>0, <1>b, <2>1, MgrMove DEF MTypes
<1>4. ASSUME NEW b \in Binding, MAddFinalizer(b) \/ MInitStatus(b) \/ MFail(b) \/ MRemoveFinalizer(b)
      PROVE  MTypes' /\ UNCHANGED <<svars, aux>>
  <2>1. \E d \in Object, again \in BOOLEAN : MWrite(b, d, again)
    BY <1>3, <1>4, ObjectEdits DEF MAddFinalizer, MInitStatus, MFail, MRemoveFinalizer, Phase
  <2> QED BY <1>2, <2>1 DEF MWrite
<1>5. ASSUME NEW b \in Binding, MValidate(b) PROVE MTypes'
  <2>1. mgr' \in [Binding -> [pc : MPc, k : 1..3, c : Object]]
    BY <1>5, <1>b, Moves
  <2>2. mgr[b].c.id \in ClusterID \union {None}
    BY <1>3 DEF Object
  <2> QED BY <1>0, <1>5, <2>1, <2>2 DEF MTypes, MValidate
<1>6. ASSUME NEW b \in Binding, MConnect(b) PROVE MTypes'
  BY <1>0, <1>6, <1>b, Moves DEF MTypes, MConnect
<1>7. ASSUME NEW b \in Binding, NEW k \in 1..3, MDeploy(b, k) PROVE MTypes'
  <2>1. DeployOrder[k] \in Part
    BY DEF DeployOrder, Part
  <2>2. [name |-> b, uid |-> mgr[b].c.uid] \in Owner
    BY <1>3 DEF Owner, Object
  <2>3. stack' \in [ClusterID -> [Part -> Owner]]
    BY <1>0, <1>7, <2>1, <2>2 DEF MTypes, MDeploy
  <2>4. mgr' \in [Binding -> [pc : MPc, k : 1..3, c : Object]]
    BY <1>7, <1>b, Moves
  <2> QED BY <1>0, <1>7, <2>3, <2>4 DEF MTypes, MDeploy
<1>8. ASSUME NEW b \in Binding, MReady(b) PROVE MTypes' /\ UNCHANGED <<svars, aux>>
  <2>1. CASE mgr[b].c.phase = "Ready"
    BY <1>0, <1>8, <2>1 DEF MTypes, MReady, MDone
  <2>2. CASE mgr[b].c.phase # "Ready"
    <3>1. [mgr[b].c EXCEPT !.phase = "Ready"] \in Object
      BY <1>3, ObjectEdits DEF Phase
    <3> QED BY <1>2, <1>8, <2>2, <3>1 DEF MReady, MWrite
  <2> QED BY <2>1, <2>2
<1>9. ASSUME NEW b \in Binding, NEW k \in 1..3, MDelete(b, k) PROVE MTypes'
  <2>1. DeleteOrder[k] \in Part
    BY DEF DeleteOrder, Part
  <2>2. stack' \in [ClusterID -> [Part -> Owner]]
    BY <1>0, <1>9, <2>1 DEF MTypes, MDelete
  <2>3. mgr' \in [Binding -> [pc : MPc, k : 1..3, c : Object]]
    BY <1>9, <1>b, Moves
  <2> QED BY <1>0, <1>9, <2>2, <2>3 DEF MTypes, MDelete
<1>10. ASSUME NEW b \in Binding, MCleanupClusterIDMappings(b) PROVE TypeOK'
  <2>1. mgr' \in [Binding -> [pc : MPc, k : 1..3, c : Object]]
    BY <1>10, <1>b, Moves
  <2>2. MTypes'
    BY <1>0, <1>10, <2>1 DEF MTypes, MCleanupClusterIDMappings
  <2>3. STypes'
    BY <1>0, <1>10 DEF STypes, MCleanupClusterIDMappings, svars
  <2>4. mgr[b].c.id \in ClusterID \union {None}
    BY <1>3 DEF Object
  <2>5. BTypes'
    BY <1>0, <1>10, <2>4 DEF BTypes, MCleanupClusterIDMappings
  <2> QED BY <2>2, <2>3, <2>5 DEF TypeOK, MTypes, STypes, BTypes
<1>11. ASSUME NEW b \in Binding, MError(b) PROVE TypeOK'
  <2> SUFFICES MTypes' /\ STypes' /\ BTypes'
    BY DEF TypeOK, MTypes, STypes, BTypes
  <2>1. ASSUME mgr[b].pc \in {"connect", "deploy"} PROVE MTypes'
    <3>1. "fail" \in Building /\ 1 \in 1..3
      BY DEF Building
    <3>2. MGo(b, "fail", 1)
      BY <1>11, <2>1 DEF MError, MSet
    <3>3. mgr' \in [Binding -> [pc : MPc, k : 1..3, c : Object]]
      BY <1>b, <3>1, <3>2
    <3> QED BY <1>0, <1>11, <2>1, <3>3 DEF MTypes, MError
  <2>2. ASSUME mgr[b].pc \notin {"connect", "deploy"} PROVE MTypes'
    BY <1>0, <1>11, <2>2 DEF MTypes, MError, MRetry, MDone
  <2>3. STypes'
    BY <1>0, <1>11 DEF STypes, MError, svars
  <2>4. BTypes'
    BY <1>0, <1>11, ConstantsAssumption DEF BTypes, MError
  <2> QED BY <2>1, <2>2, <2>3, <2>4
<1>12. ASSUME NEW b \in Binding, MDeliver(b) PROVE MTypes'
  BY <1>0, <1>12 DEF MTypes, MDeliver
<1>13. CASE MDeliverStack
  BY <1>0, <1>a, <1>13 DEF MTypes, STypes, BTypes, MDeliverStack, TypeOK
<1>14. CASE MRestart
  <2>1. MTypes'
    BY <1>0, <1>14 DEF MTypes, MRestart
  <2>2. STypes'
    BY <1>0, <1>14 DEF STypes, MRestart, svars
  <2>3. BTypes'
    BY <1>0, <1>14, ConstantsAssumption DEF BTypes, MRestart
  <2> QED BY <2>1, <2>2, <2>3 DEF TypeOK, MTypes, STypes, BTypes
<1>15. ASSUME NEW b \in Binding, MReconcile(b) \/ MDeliver(b), ~MCleanupClusterIDMappings(b)
       PROVE  MTypes' /\ UNCHANGED <<svars, aux>>
  BY <1>1, <1>4, <1>5, <1>6, <1>7, <1>8, <1>9, <1>12, <1>15
     DEF MReconcile, MGet, MValidate, MConnect, MDeploy, MDelete, MDeliver
<1>16. ASSUME NEW b \in Binding, MReconcile(b) \/ MDeliver(b) PROVE TypeOK'
  BY <1>10, <1>15, <1>16, <1>a DEF TypeOK, MTypes, STypes, BTypes
<1> QED BY <1>11, <1>13, <1>14, <1>16 DEF ManagerNext

LEMMA TypeSyncer ==
  ASSUME TypeOK, Running, SyncerNext
  PROVE  TypeOK'
<1> USE ObjectTypes, IdleTypes, NoOwnerType
<1>0. MTypes /\ STypes /\ BTypes
  BY TypeParts
<1> SUFFICES MTypes' /\ STypes' /\ BTypes'
  BY DEF TypeOK, MTypes, STypes, BTypes
<1>a. ASSUME UNCHANGED <<obj, stack, mvars, aux>> PROVE MTypes' /\ BTypes'
  BY <1>0, <1>a DEF MTypes, BTypes, mvars, aux
<1>b. ASSUME NEW i \in ClusterID PROVE sy[i].c \in Object /\ (proc[i] # None => proc[i] \in Binding)
  BY <1>0 DEF STypes
<1>c. ASSUME NEW i \in ClusterID, NEW pc \in SPc, SSet(i, pc)
      PROVE  sy' \in [ClusterID -> [pc : SPc, c : Object]]
  <2>1. [pc |-> pc, c |-> sy[i].c] \in [pc : SPc, c : Object]
    BY <1>b
  <2> QED BY <1>0, <1>c, <2>1 DEF STypes, SSet
<1>d. ASSUME NEW i \in ClusterID, NEW again, SDone(i, again)
      PROVE  sy' \in [ClusterID -> [pc : SPc, c : Object]] /\ sq' \in SUBSET ClusterID
  BY <1>0, <1>d DEF STypes, SDone
<1>1. ASSUME NEW i \in ClusterID, SStart(i) PROVE MTypes' /\ STypes' /\ BTypes'
  <2>1. stack[i]["syncer"].name \in Binding
    <3>1. stack[i]["syncer"] \in Owner
      BY <1>0 DEF MTypes, Part
    <3> QED BY <1>1, <3>1 DEF SStart, Owner
  <2>2. STypes'
    BY <1>0, <1>1, <2>1 DEF STypes, MTypes, SStart
  <2> QED BY <1>1, <1>a, <2>2 DEF SStart
<1>2. ASSUME NEW i \in ClusterID, SStop(i) PROVE MTypes' /\ STypes' /\ BTypes'
  <2>1. MTypes'
    BY <1>0, <1>2 DEF MTypes, SStop, mvars
  <2>2. STypes'
    BY <1>0, <1>2 DEF STypes, SStop
  <2>3. BTypes'
    BY <1>0, <1>2, ConstantsAssumption DEF BTypes, SStop
  <2> QED BY <2>1, <2>2, <2>3
<1>3. ASSUME NEW i \in ClusterID, SDeliver(i) PROVE MTypes' /\ STypes' /\ BTypes'
  <2>1. STypes'
    BY <1>0, <1>3, <1>b DEF STypes, MTypes, SDeliver
  <2> QED BY <1>3, <1>a, <2>1 DEF SDeliver
<1>4. ASSUME NEW i \in ClusterID, SGet(i) PROVE MTypes' /\ STypes' /\ BTypes'
  <2>1. scache[i] \in Object
    BY <1>0 DEF STypes
  <2>2. [pc |-> IF scache[i].deleting THEN "nodes" ELSE "addFinalizer", c |-> scache[i]]
          \in [pc : SPc, c : Object]
    BY <2>1 DEF SPc
  <2>3. STypes'
    BY <1>0, <1>4, <2>2 DEF STypes, SGet
  <2> QED BY <1>4, <1>a, <2>3 DEF SGet
<1>5. ASSUME NEW i \in ClusterID, NEW d \in Object, SWrite(i, d), sy[i].pc # "idle"
      PROVE  MTypes' /\ STypes' /\ BTypes'
  <2>1. obj' \in [Binding -> Object]
    BY <1>0, <1>5 DEF MTypes, SWrite, Put
  <2>2. MTypes'
    BY <1>0, <1>5, <2>1 DEF MTypes, SWrite, mvars
  <2>3. STypes'
    BY <1>0, <1>5, <1>d DEF STypes, SWrite
  <2>4. BTypes'
    BY <1>0, <1>5 DEF BTypes, SWrite, aux
  <2> QED BY <2>2, <2>3, <2>4
<1>6. ASSUME NEW i \in ClusterID, SAddFinalizer(i) \/ SRemoveFinalizer(i)
      PROVE  MTypes' /\ STypes' /\ BTypes'
  BY <1>5, <1>6, <1>b, ObjectEdits DEF SAddFinalizer, SRemoveFinalizer
<1>7. ASSUME NEW i \in ClusterID, SCheckNodes(i) \/ SCheckVirtual(i) \/ SCheckPhysical(i)
      PROVE  MTypes' /\ STypes' /\ BTypes'
  <2>1. sy' \in [ClusterID -> [pc : SPc, c : Object]] /\ sq' \in SUBSET ClusterID
    <3>1. (\E again \in BOOLEAN : SDone(i, again))
            \/ (\E pc \in {"virtual", "physical", "removeFinalizer"} : SSet(i, pc) /\ UNCHANGED sq)
      <4>1. CASE SCheckNodes(i)
        BY <4>1 DEF SCheckNodes
      <4>2. CASE SCheckVirtual(i)
        BY <4>2 DEF SCheckVirtual
      <4>3. CASE SCheckPhysical(i)
        BY <4>3 DEF SCheckPhysical
      <4> QED BY <1>7, <4>1, <4>2, <4>3
    <3>2. {"virtual", "physical", "removeFinalizer"} \subseteq SPc
      BY DEF SPc
    <3>3. sq \in SUBSET ClusterID
      BY <1>0 DEF STypes
    <3> QED BY <1>c, <1>d, <3>1, <3>2, <3>3
  <2>2. annot' \in SUBSET Binding
    <3>1. CASE SCheckVirtual(i)
      <4>1. CASE "copy" \in res[proc[i]]
        <5>1. proc[i] \in Binding
          BY <1>b, <3>1 DEF Running, SCheckVirtual
        <5> QED BY <1>0, <3>1, <4>1, <5>1 DEF STypes, SCheckVirtual
      <4>2. CASE "copy" \notin res[proc[i]]
        BY <1>0, <3>1, <4>2 DEF STypes, SCheckVirtual
      <4> QED BY <4>1, <4>2
    <3>2. CASE SCheckNodes(i) \/ SCheckPhysical(i)
      BY <1>0, <3>2 DEF STypes, SCheckNodes, SCheckPhysical
    <3> QED BY <1>7, <3>1, <3>2
  <2>3. UNCHANGED <<obj, stack, mvars, proc, scache, nd, res, aux>>
    BY <1>7 DEF SCheckNodes, SCheckVirtual, SCheckPhysical
  <2>4. STypes'
    BY <1>0, <2>1, <2>2, <2>3 DEF STypes
  <2> QED BY <1>a, <2>3, <2>4
<1>8. ASSUME NEW i \in ClusterID, SError(i) PROVE MTypes' /\ STypes' /\ BTypes'
  <2>1. MTypes'
    BY <1>0, <1>8 DEF MTypes, SError, mvars
  <2>2. STypes'
    BY <1>0, <1>8, <1>d DEF STypes, SError
  <2>3. BTypes'
    BY <1>0, <1>8, ConstantsAssumption DEF BTypes, SError
  <2> QED BY <2>1, <2>2, <2>3
<1>9. ASSUME NEW i \in ClusterID, SWork(i) PROVE MTypes' /\ STypes' /\ BTypes'
  <2>1. nd' \in SUBSET ClusterID /\ UNCHANGED <<obj, stack, mvars, proc, scache, sq, sy, annot, aux>>
    BY <1>0, <1>9 DEF STypes, SWork, NodeGet, NodeCreate, PodRuns, NodeDrain, CopyDelete
  <2>2. res' \in [Binding -> SUBSET {"node", "pod", "copy"}]
    BY <1>0, <1>9 DEF STypes, SWork, NodeGet, NodeCreate, PodRuns, NodeDrain, CopyDelete
  <2>3. STypes'
    BY <1>0, <2>1, <2>2 DEF STypes
  <2> QED BY <1>a, <2>1, <2>3
<1> QED BY <1>1, <1>2, <1>3, <1>4, <1>6, <1>7, <1>8, <1>9 DEF SyncerNext, SReconcile

LEMMA TypeEnv ==
  ASSUME TypeOK, EnvNext
  PROVE  TypeOK'
<1> USE ObjectTypes, NoOwnerType
<1>0. MTypes /\ STypes /\ BTypes
  BY TypeParts
<1> SUFFICES MTypes' /\ STypes' /\ BTypes'
  BY DEF TypeOK, MTypes, STypes, BTypes
<1>1. ASSUME NEW b \in Binding PROVE obj[b] \in Object /\ obj[b].uid + 1 \in Nat
  BY <1>0 DEF MTypes, Object
<1>2. ASSUME NEW b \in Binding, NEW i \in IdsOf[b], UserCreate(b, i)
      PROVE  MTypes' /\ STypes' /\ BTypes'
  <2>1. Fresh(obj[b].uid + 1, i) \in Object
    BY <1>1, ConstantsAssumption
  <2>2. MTypes'
    BY <1>0, <1>2, <2>1 DEF MTypes, UserCreate, mvars
  <2> QED BY <1>0, <1>2, <2>2 DEF STypes, BTypes, UserCreate, svars, aux
<1>3. ASSUME NEW b \in Binding, NEW i \in IdsOf[b], UserChangeID(b, i)
      PROVE  MTypes' /\ STypes' /\ BTypes'
  <2>1. [obj[b] EXCEPT !.id = i] \in Object
    BY <1>1, ConstantsAssumption, ObjectEdits
  <2>2. MTypes'
    BY <1>0, <1>3, <2>1 DEF MTypes, UserChangeID, mvars
  <2>3. touched' \in SUBSET (Binding \X (ClusterID \union {None}))
    <3>1. <<b, obj[b].id>> \in Binding \X (ClusterID \union {None}) /\ i \in ClusterID
      BY <1>1, ConstantsAssumption DEF Object
    <3> QED BY <1>0, <1>3, <3>1 DEF BTypes, UserChangeID
  <2>4. BTypes'
    BY <1>0, <1>3, <2>3, ConstantsAssumption DEF BTypes, UserChangeID
  <2> QED BY <1>0, <1>3, <2>2, <2>4 DEF STypes, UserChangeID, svars
<1>4. ASSUME NEW b \in Binding, UserDelete(b) PROVE MTypes' /\ STypes' /\ BTypes'
  <2>1. [obj[b] EXCEPT !.deleting = TRUE] \in Object
    BY <1>1, ObjectEdits
  <2>2. MTypes'
    BY <1>0, <1>4, <2>1 DEF MTypes, UserDelete, Put, mvars
  <2>3. touched' \in SUBSET (Binding \X (ClusterID \union {None}))
    <3>1. <<b, obj[b].id>> \in Binding \X (ClusterID \union {None})
      BY <1>1 DEF Object
    <3> QED BY <1>0, <1>4, <3>1 DEF BTypes, UserDelete
  <2>4. BTypes'
    BY <1>0, <1>4, <2>3, ConstantsAssumption DEF BTypes, UserDelete
  <2> QED BY <1>0, <1>4, <2>2, <2>4 DEF STypes, UserDelete, svars
<1>5. ASSUME NEW i \in ClusterID, NEW p \in Part, OwnerGC(i, p) PROVE MTypes' /\ STypes' /\ BTypes'
  <2>1. MTypes'
    BY <1>0, <1>5 DEF MTypes, OwnerGC, mvars
  <2> QED BY <1>0, <1>5, <2>1 DEF STypes, BTypes, OwnerGC, svars, aux
<1> QED BY <1>2, <1>3, <1>4, <1>5 DEF EnvNext

LEMMA RunningStep ==
  ASSUME TypeOK, Running, [Next]_vars
  PROVE  Running'
<1>0. /\ proc \in [ClusterID -> Binding \union {None}]
      /\ sy \in [ClusterID -> [pc : SPc, c : Object]]
  BY DEF TypeOK
<1>1. ASSUME UNCHANGED <<proc, sy>> PROVE Running'
  BY <1>1 DEF Running
<1>2. CASE ManagerNext
  <2>1. UNCHANGED svars
    BY <1>2 DEF ManagerNext, MReconcile, MGet, MAddFinalizer, MInitStatus, MValidate, MConnect,
                MDeploy, MDelete, MReady, MFail, MCleanupClusterIDMappings, MRemoveFinalizer,
                MWrite, MError, MDeliver, MDeliverStack, MRestart
  <2> QED BY <1>1, <2>1 DEF svars
<1>3. CASE EnvNext
  BY <1>1, <1>3 DEF EnvNext, UserCreate, UserChangeID, UserDelete, OwnerGC, svars
<1>4. CASE UNCHANGED vars
  BY <1>1, <1>4 DEF vars, svars
<1>5. ASSUME NEW i \in ClusterID, UNCHANGED proc, sy[i].pc # "idle" \/ proc[i] # None,
             NEW r, sy' = [sy EXCEPT ![i] = r]
      PROVE  Running'
  BY <1>0, <1>5 DEF Running
<1>6. ASSUME NEW i \in ClusterID,
             SStart(i) \/ SStop(i) \/ SDeliver(i) \/ SReconcile(i) \/ SError(i) \/ SWork(i)
      PROVE  Running'
  <2>1. CASE SStart(i)
    <3>1. stack[i]["syncer"].name # None
      BY <2>1 DEF SStart
    <3>2. proc' = [proc EXCEPT ![i] = stack[i]["syncer"].name] /\ sy' = sy
      BY <2>1 DEF SStart
    <3> QED BY <1>0, <3>1, <3>2 DEF Running
  <2>2. CASE SStop(i)
    BY <1>0, <2>2 DEF Running, SStop, IdleS
  <2>3. CASE SDeliver(i) \/ SWork(i)
    BY <1>1, <2>3 DEF SDeliver, SWork, NodeGet, NodeCreate, PodRuns, NodeDrain, CopyDelete
  <2>4. CASE SGet(i)
    BY <1>5, <2>4 DEF SGet
  <2>5. CASE SAddFinalizer(i) \/ SRemoveFinalizer(i)
    BY <1>5, <2>5 DEF SAddFinalizer, SRemoveFinalizer, SWrite, SDone
  <2>6. CASE SCheckNodes(i) \/ SCheckVirtual(i) \/ SCheckPhysical(i)
    <3>1. \E r : sy' = [sy EXCEPT ![i] = r]
      BY <2>6 DEF SCheckNodes, SCheckVirtual, SCheckPhysical, SDone, SSet
    <3>2. sy[i].pc # "idle" /\ UNCHANGED proc
      BY <2>6 DEF SCheckNodes, SCheckVirtual, SCheckPhysical
    <3> QED BY <1>5, <3>1, <3>2
  <2>7. CASE SError(i)
    BY <1>5, <2>7 DEF SError, SDone
  <2> QED BY <1>6, <2>1, <2>2, <2>3, <2>4, <2>5, <2>6, <2>7 DEF SReconcile
<1> QED BY <1>2, <1>3, <1>4, <1>6 DEF Next, SyncerNext

\* Only running syncers reconcile, and every step keeps the types.
LEMMA TypeStep ==
  ASSUME TypeOK, Running, [Next]_vars
  PROVE  TypeOK' /\ Running'
<1>1. CASE Next
  BY <1>1, TypeManager, TypeSyncer, TypeEnv, RunningStep DEF Next
<1>2. CASE UNCHANGED vars
  <2>1. TypeOK'
    BY <1>2 DEF vars, mvars, svars, aux, TypeOK
  <2> QED BY <2>1, RunningStep
<1> QED BY <1>1, <1>2

\* The objects, the caches and the reconciles in flight keep their types in every
\* step of the manager, the syncers, the users and the API server.
THEOREM BindingTypeCorrect == Spec => []TypeOK
<1>1. Init => Running
  BY DEF Init, Running, IdleS
<1>2. TypeOK /\ Running /\ [Next]_vars => (TypeOK /\ Running)'
  BY TypeStep
<1> QED BY <1>1, <1>2, TypeInit, PTL DEF Spec

----------------------------------------------------------------------------
(* The manager's finalizer guards what is deployed.                        *)

LEMMA Guarded == Core /\ Owners => DeployedUnderFinalizer
<1> SUFFICES ASSUME Core, Owners PROVE DeployedUnderFinalizer
  OBVIOUS
<1>1. ASSUME NEW b \in Binding, mgr[b].pc = "deploy"
      PROVE  Alive(b, mgr[b].c.uid) /\ obj[b].mfin
  <2>1. mgr[b].pc \in Building
    BY <1>1 DEF Building
  <2> QED BY <2>1 DEF Core, Flight, StillHeld, Held
<1> QED BY <1>1 DEF DeployedUnderFinalizer, Owners, OwnersHeld

\* A write that turns object o into e neither takes the manager's finalizer off nor
\* brings anything back, except as a new incarnation of what is gone.
Keeps(o, e) ==
  /\ o.uid <= e.uid
  /\ e.uid = o.uid => /\ Dying(o) => Dying(e)
                      /\ o.exists /\ o.mfin => e.exists /\ e.mfin
                      /\ e.exists => o.exists
  /\ e.uid # o.uid => ~o.exists

\* Every edit but the removal of the manager's finalizer keeps it.
LEMMA EditKeeps ==
  ASSUME NEW o \in Object
  PROVE  /\ Keeps(o, o)
         /\ \A p \in Phase : Keeps(o, Settle([o EXCEPT !.phase = p]))
         /\ Keeps(o, Settle([o EXCEPT !.mfin = TRUE]))
         /\ \A x \in BOOLEAN : Keeps(o, Settle([o EXCEPT !.sfin = x]))
         /\ Keeps(o, Settle([o EXCEPT !.deleting = TRUE]))
         /\ \A i \in ClusterID : Keeps(o, [o EXCEPT !.id = i])
<1> USE DEF Keeps, Settle, Dying, Object, Gone, Fresh
<1>1. Keeps(o, o)
  OBVIOUS
<1>2. \A p \in Phase : Keeps(o, Settle([o EXCEPT !.phase = p]))
  OBVIOUS
<1>3. Keeps(o, Settle([o EXCEPT !.mfin = TRUE]))
  OBVIOUS
<1>4. \A x \in BOOLEAN : Keeps(o, Settle([o EXCEPT !.sfin = x]))
  OBVIOUS
<1>5. Keeps(o, Settle([o EXCEPT !.deleting = TRUE]))
  OBVIOUS
<1>6. \A i \in ClusterID : Keeps(o, [o EXCEPT !.id = i])
  OBVIOUS
<1> QED BY <1>1, <1>2, <1>3, <1>4, <1>5, <1>6

\* Such a write preserves everything, whoever makes it; the manager's reconcile may
\* end with it.
LEMMA WriteKeeps ==
  ASSUME TypeOK, Core, Owners, NEW b \in Binding, NEW e \in Object, Keeps(obj[b], e),
         obj' = [obj EXCEPT ![b] = e], UNCHANGED <<mcache, stack>>,
         \A a \in Binding : mgr'[a] = mgr[a] \/ mgr'[a].pc = "idle"
  PROVE  Core' /\ Owners'
<1>0. /\ obj \in [Binding -> Object] /\ mcache \in [Binding -> Object]
      /\ \A a \in Binding : mgr[a].c \in Object
      /\ stack \in [ClusterID -> [Part -> Owner]]
  BY DEF TypeOK
<1>1. \A a \in Binding : obj'[a] = IF a = b THEN e ELSE obj[a]
  BY <1>0
<1>2. "idle" \notin Building \union Removing \union {"addFinalizer"}
  BY DEF Building, Removing
<1>3. \A a \in Binding : NoLater(mcache[a], obj'[a])
  BY <1>0, <1>1 DEF Core, Past, NoLater, Keeps, Object
<1>4. Past'
  BY <1>3 DEF Core, Past
<1>5. Flight'
  BY <1>2 DEF Core, Flight
<1>6. ASSUME NEW a \in Binding, NEW c \in Object, Held(a, c) PROVE Held(a, c)'
  BY <1>0, <1>1, <1>6 DEF Held, Alive, Keeps
<1>7. StillHeld'
  BY <1>0, <1>2, <1>6 DEF Core, StillHeld
<1>8. ASSUME NEW i \in ClusterID, NEW p \in Part, stack[i][p] # NoOwner
      PROVE  /\ stack[i][p].uid <= obj'[stack[i][p].name].uid
             /\ obj'[stack[i][p].name].exists /\ obj'[stack[i][p].name].uid = stack[i][p].uid
                  => obj'[stack[i][p].name].mfin
  <2>1. stack[i][p].name \in Binding /\ stack[i][p].uid \in Nat
    BY <1>0, <1>8 DEF Owners, OwnersPast, Owner
  <2>2. /\ stack[i][p].uid <= obj[stack[i][p].name].uid
        /\ obj[stack[i][p].name].exists /\ obj[stack[i][p].name].uid = stack[i][p].uid
             => obj[stack[i][p].name].mfin
    BY <1>8 DEF Owners, OwnersPast, OwnersHeld, Alive
  <2>3. CASE stack[i][p].name # b
    BY <1>1, <2>1, <2>2, <2>3
  <2>4. CASE stack[i][p].name = b
    <3>1. obj[b].uid \in Nat /\ e.uid \in Nat /\ stack[i][p].uid \in Nat
      BY <1>0, <2>1 DEF Object
    <3>2. /\ stack[i][p].uid <= obj[b].uid
          /\ obj[b].exists /\ obj[b].uid = stack[i][p].uid => obj[b].mfin
          /\ obj'[stack[i][p].name] = e
      BY <1>1, <2>2, <2>4
    <3> QED BY <3>1, <3>2 DEF Keeps
  <2> QED BY <2>3, <2>4
<1>9. Owners'
  BY <1>8 DEF Owners, OwnersPast, OwnersHeld, Alive
<1> QED BY <1>4, <1>5, <1>7, <1>9 DEF Core

\* What the manager does first depends on what it read.
LEMMA MStartReads ==
  ASSUME NEW c \in Object
  PROVE  /\ MStart(c) = "addFinalizer" => c.exists /\ ~c.deleting
         /\ MStart(c) \in Building => c.exists /\ ~c.deleting /\ c.mfin
         /\ MStart(c) \in Removing => c.exists /\ c.deleting /\ ~c.sfin
<1>1. c.exists \in BOOLEAN /\ c.deleting \in BOOLEAN /\ c.mfin \in BOOLEAN /\ c.sfin \in BOOLEAN
  BY DEF Object
<1>2. CASE ~c.exists \/ (c.deleting /\ c.sfin)
  BY <1>2 DEF MStart, Building, Removing
<1>3. CASE c.exists /\ c.deleting /\ ~c.sfin
  BY <1>3 DEF MStart, Building, Removing
<1>4. CASE c.exists /\ ~c.deleting /\ ~c.mfin
  BY <1>4 DEF MStart, Building, Removing
<1>5. CASE c.exists /\ ~c.deleting /\ c.mfin
  BY <1>5 DEF MStart, Building, Removing
<1> QED BY <1>1, <1>2, <1>3, <1>4, <1>5

\* A reconcile of the manager ends, moves on, or starts from the cache.
LEMMA MgrKeeps ==
  ASSUME TypeOK, Core, NEW b \in Binding, UNCHANGED <<obj, mcache>>,
         \A a \in Binding \ {b} : mgr'[a] = mgr[a],
         \/ mgr'[b].pc = "idle"
         \/ mgr'[b].c = mgr[b].c /\ mgr[b].pc \in Building /\ mgr'[b].pc \in Building
         \/ mgr'[b].c = mgr[b].c /\ mgr[b].pc \in Removing /\ mgr'[b].pc \in Removing
         \/ mgr'[b].c = mcache[b] /\ mgr'[b].pc = MStart(mcache[b])
  PROVE  Core'
<1>0. /\ obj \in [Binding -> Object] /\ mcache \in [Binding -> Object]
      /\ \A a \in Binding : mgr[a].c \in Object
  BY DEF TypeOK
<1>1. /\ "idle" \notin Building \union Removing
      /\ "addFinalizer" \notin Building \union Removing
      /\ Building \intersect Removing = {}
  BY DEF Building, Removing
<1>2. CASE mgr'[b].pc = "idle"
  BY <1>1, <1>2 DEF Core, Past, Flight, StillHeld, Held, Alive
<1>3. CASE mgr'[b].c = mgr[b].c /\ mgr[b].pc \in Building /\ mgr'[b].pc \in Building
  BY <1>1, <1>3 DEF Core, Past, Flight, StillHeld, Held, Alive
<1>4. CASE mgr'[b].c = mgr[b].c /\ mgr[b].pc \in Removing /\ mgr'[b].pc \in Removing
  BY <1>1, <1>4 DEF Core, Past, Flight, StillHeld, Held, Alive
<1>5. CASE mgr'[b].c = mcache[b] /\ mgr'[b].pc = MStart(mcache[b])
  <2>1. LET c == mcache[b] IN
        /\ mgr'[b].pc = "addFinalizer" => c.exists /\ ~c.deleting
        /\ mgr'[b].pc \in Building => c.exists /\ ~c.deleting /\ c.mfin
        /\ mgr'[b].pc \in Removing => c.exists /\ c.deleting /\ ~c.sfin
    BY <1>0, <1>5, MStartReads
  <2>2. NoLater(mcache[b], mcache[b])
    BY <1>0 DEF NoLater, Object
  <2> QED BY <1>5, <2>1, <2>2 DEF Core, Past, Flight, StillHeld, Held, Alive
<1> QED BY <1>2, <1>3, <1>4, <1>5

\* Deployed objects go, or appear for a binding that has the finalizer.
LEMMA StackKeeps ==
  ASSUME TypeOK, Owners, UNCHANGED obj,
         \A i \in ClusterID, p \in Part :
           \/ stack'[i][p] \in {stack[i][p], NoOwner}
           \/ \E b \in Binding : /\ stack'[i][p] = [name |-> b, uid |-> obj[b].uid]
                                 /\ obj[b].mfin
  PROVE  Owners'
<1>1. \A b \in Binding : obj[b].uid \in Nat
  BY DEF TypeOK, Object
<1>2. ASSUME NEW i \in ClusterID, NEW p \in Part, stack'[i][p] # NoOwner
      PROVE  /\ stack'[i][p].name \in Binding
             /\ stack'[i][p].uid <= obj[stack'[i][p].name].uid
             /\ Alive(stack'[i][p].name, stack'[i][p].uid) => obj[stack'[i][p].name].mfin
  <2>1. CASE stack'[i][p] = stack[i][p]
    BY <1>2, <2>1 DEF Owners, OwnersPast, OwnersHeld
  <2>2. CASE \E b \in Binding : stack'[i][p] = [name |-> b, uid |-> obj[b].uid] /\ obj[b].mfin
    BY <1>1, <2>2
  <2> QED BY <1>2, <2>1, <2>2
<1> QED BY <1>2 DEF Owners, OwnersPast, OwnersHeld, Alive

LEMMA InvInit == Init => IInv
<1> SUFFICES ASSUME Init PROVE IInv
  OBVIOUS
<1>1. Running
  BY DEF Init, Running, IdleS
<1>2. \A b \in Binding : /\ obj[b] = Gone(0) /\ mcache[b] = Gone(0)
                         /\ mgr[b].pc = "idle"
  BY DEF Init, IdleM
<1>3. ~Gone(0).exists /\ NoLater(Gone(0), Gone(0))
  BY DEF Gone, Fresh, NoLater, Dying
<1>4. Core
  BY <1>2, <1>3 DEF Core, Past, Flight, StillHeld, Held, Building, Removing
<1>5. Owners
  BY DEF Init, Owners, OwnersPast, OwnersHeld
<1> QED BY <1>1, <1>4, <1>5, TypeInit DEF IInv

\* The manager's own writes: all but the last one keep the finalizer, and the last
\* one takes the binding away, which no copy in the cache can then show alive.
LEMMA WriteStep ==
  ASSUME IInv, NEW b \in Binding,
         MAddFinalizer(b) \/ MInitStatus(b) \/ MReady(b) \/ MFail(b) \/ MRemoveFinalizer(b)
  PROVE  Core' /\ Owners'
<1>0. TypeOK /\ Core /\ Owners
  BY DEF IInv
<1>1. /\ obj \in [Binding -> Object] /\ mcache \in [Binding -> Object]
      /\ mgr \in [Binding -> [pc : MPc, k : 1..3, c : Object]]
  BY <1>0 DEF TypeOK
<1>2. UNCHANGED <<mcache, stack>> /\ mgr' = [mgr EXCEPT ![b] = IdleM]
  BY DEF MAddFinalizer, MInitStatus, MReady, MFail, MRemoveFinalizer, MWrite, MDone
<1>3. mgr'[b].pc = "idle" /\ \A a \in Binding \ {b} : mgr'[a] = mgr[a]
  BY <1>1, <1>2 DEF IdleM
<1>4. CASE UNCHANGED obj
  <2>1. Keeps(obj[b], obj[b]) /\ obj[b] \in Object
    BY <1>1, EditKeeps
  <2>2. obj' = [obj EXCEPT ![b] = obj[b]]
    BY <1>1, <1>4
  <2> QED BY <1>0, <1>2, <1>3, <2>1, <2>2, WriteKeeps
<1>5. CASE obj[b] = mgr[b].c /\ ~MRemoveFinalizer(b) /\ obj' # obj
  <2>1. \/ Put(b, [obj[b] EXCEPT !.mfin = TRUE])
        \/ \E p \in Phase : Put(b, [obj[b] EXCEPT !.phase = p])
    BY <1>5 DEF MAddFinalizer, MInitStatus, MReady, MFail, MWrite, Current, Phase
  <2>2. \E e \in Object : obj' = [obj EXCEPT ![b] = e] /\ Keeps(obj[b], e)
    <3>1. obj[b] \in Object
      BY <1>1
    <3> QED BY <2>1, <3>1, EditKeeps, ObjectEdits, ObjectTypes DEF Put
  <2> QED BY <1>0, <1>2, <1>3, <2>2, WriteKeeps
<1>6. CASE obj[b] = mgr[b].c /\ MRemoveFinalizer(b)
  <2>1. mgr[b].pc = "removeFinalizer" /\ mgr[b].pc \in Removing /\ mgr[b].pc # "idle"
    BY <1>6 DEF MRemoveFinalizer, Removing
  <2>2. obj[b] \in Object /\ obj[b].deleting /\ ~obj[b].sfin
    BY <1>0, <1>1, <1>6, <2>1 DEF Core, Flight
  <2>3. obj' = [obj EXCEPT ![b] = Gone(obj[b].uid)]
    <3>1. obj' = [obj EXCEPT ![b] = Settle([obj[b] EXCEPT !.mfin = FALSE])]
      BY <1>6 DEF MRemoveFinalizer, MWrite, Current, Put
    <3>2. Settle([obj[b] EXCEPT !.mfin = FALSE]) = Gone(obj[b].uid)
      BY <2>2 DEF Settle, Object
    <3> QED BY <3>1, <3>2
  <2>4. Dying(mcache[b]) \/ mcache[b].uid # obj[b].uid
    BY <1>0, <1>1, <1>6, <2>1, <2>2 DEF Core, Past, NoLater, Dying, Object
  <2>5. ~mcache[b].exists \/ mcache[b].deleting
    <3>1. mcache[b].uid = obj[b].uid
      <4>1. mcache[b].uid \in Nat /\ obj[b].uid \in Nat
        BY <1>1 DEF Object
      <4>2. obj[b].uid <= mcache[b].uid /\ mcache[b].uid <= obj[b].uid
        BY <1>0, <1>6, <2>1 DEF Core, Past, NoLater
      <4> QED BY <4>1, <4>2
    <3> QED BY <2>4, <3>1 DEF Dying
  <2>6. /\ obj'[b].uid = obj[b].uid /\ ~obj'[b].exists
        /\ \A a \in Binding \ {b} : obj'[a] = obj[a]
    BY <1>1, <2>3 DEF Gone, Fresh
  <2>7. Past'
    BY <1>0, <1>1, <1>2, <1>3, <2>6 DEF Core, Past, NoLater, Dying
  <2>8. Flight'
    BY <1>0, <1>3 DEF Core, Flight, Building, Removing
  <2>9. StillHeld'
    <3>1. mgr'[b].pc \notin Building
      BY <1>3 DEF Building
    <3> QED BY <1>0, <1>2, <1>3, <2>5, <2>6, <3>1 DEF Core, StillHeld, Held, Alive
  <2>10. Owners'
    BY <1>0, <1>2, <2>6 DEF Owners, OwnersPast, OwnersHeld, Alive
  <2> QED BY <2>7, <2>8, <2>9, <2>10 DEF Core
<1>7. obj[b] = mgr[b].c \/ UNCHANGED obj
  BY DEF MAddFinalizer, MInitStatus, MReady, MFail, MRemoveFinalizer, MWrite, Current
<1> QED BY <1>4, <1>5, <1>6, <1>7

\* A step of the manager preserves the invariant.
LEMMA ManagerStep ==
  ASSUME IInv, ManagerNext
  PROVE  Core' /\ Owners'
<1>0. TypeOK /\ Core /\ Owners
  BY DEF IInv
<1>1. /\ obj \in [Binding -> Object] /\ mcache \in [Binding -> Object]
      /\ mgr \in [Binding -> [pc : MPc, k : 1..3, c : Object]]
      /\ stack \in [ClusterID -> [Part -> Owner]]
  BY <1>0 DEF TypeOK
<1>2. ASSUME UNCHANGED <<obj, stack>> PROVE Owners'
  BY <1>0, <1>2 DEF Owners, OwnersPast, OwnersHeld, Alive
<1>3. ASSUME NEW b \in Binding, NEW pc \in MPc, NEW k \in 1..3, MGo(b, pc, k),
             UNCHANGED <<obj, mcache>>,
             \/ mgr[b].pc \in Building /\ pc \in Building
             \/ mgr[b].pc \in Removing /\ pc \in Removing
      PROVE  Core'
  <2>1. /\ mgr'[b].pc = pc /\ mgr'[b].c = mgr[b].c
        /\ \A a \in Binding \ {b} : mgr'[a] = mgr[a]
    BY <1>1, <1>3, MgrMove
  <2> QED BY <1>0, <1>3, <2>1, MgrKeeps
<1>4. Building \subseteq MPc /\ Removing \subseteq MPc
  BY DEF Building, Removing, MPc
<1>5. ASSUME NEW b \in Binding, MDone(b), UNCHANGED <<obj, mcache>> PROVE Core'
  <2>1. mgr'[b].pc = "idle" /\ \A a \in Binding \ {b} : mgr'[a] = mgr[a]
    BY <1>1, <1>5 DEF MDone, IdleM
  <2> QED BY <1>0, <1>5, <2>1, MgrKeeps
<1>6. ASSUME NEW b \in Binding, MGet(b) PROVE Core' /\ Owners'
  <2>1. \A a \in Binding \ {b} : mgr'[a] = mgr[a]
    BY <1>1, <1>6 DEF MGet
  <2>2. CASE MStart(mcache[b]) = "idle"
    BY <1>0, <1>1, <1>2, <1>6, <2>1, <2>2, MgrKeeps DEF MGet, IdleM
  <2>3. CASE MStart(mcache[b]) # "idle"
    <3>1. mgr'[b].c = mcache[b] /\ mgr'[b].pc = MStart(mcache[b])
      BY <1>1, <1>6, <2>3 DEF MGet
    <3> QED BY <1>0, <1>2, <1>6, <2>1, <3>1, MgrKeeps DEF MGet
  <2> QED BY <2>2, <2>3
<1>7. ASSUME NEW b \in Binding, MValidate(b) \/ MConnect(b) PROVE Core' /\ Owners'
  <2>1. mgr[b].pc \in Building /\ UNCHANGED <<obj, mcache, stack>>
    BY <1>7 DEF MValidate, MConnect, Building
  <2> QED BY <1>2, <1>3, <1>4, <1>7, <2>1, Moves
<1>8. ASSUME NEW b \in Binding, NEW k \in 1..3, MDeploy(b, k) PROVE Core' /\ Owners'
  <2>1. mgr[b].pc \in Building /\ UNCHANGED <<obj, mcache>>
    BY <1>8 DEF MDeploy, Building
  <2>2. Core'
    BY <1>3, <1>4, <1>8, <2>1, Moves
  <2>3. obj[b].uid = mgr[b].c.uid /\ obj[b].mfin
    BY <1>0, <2>1 DEF Core, Flight, StillHeld, Held, Alive
  <2>4. \A i \in ClusterID, p \in Part :
          stack'[i][p] = stack[i][p] \/ stack'[i][p] = [name |-> b, uid |-> mgr[b].c.uid]
    <3>1. \/ stack' = stack
          \/ stack' = [stack EXCEPT ![mgr[b].c.id][DeployOrder[k]] = [name |-> b, uid |-> mgr[b].c.uid]]
      BY <1>8, Zenon DEF MDeploy
    <3> QED BY <1>1, <3>1
  <2>5. Owners'
    BY <1>0, <2>1, <2>3, <2>4, StackKeeps
  <2> QED BY <2>2, <2>5
<1>9. ASSUME NEW b \in Binding, NEW k \in 1..3, MDelete(b, k) PROVE Core' /\ Owners'
  <2>1. mgr[b].pc \in Removing /\ UNCHANGED <<obj, mcache>>
    BY <1>9 DEF MDelete, Removing
  <2>2. Core'
    BY <1>3, <1>4, <1>9, <2>1, Moves
  <2>3. \A i \in ClusterID, p \in Part : stack'[i][p] \in {stack[i][p], NoOwner}
    <3>1. \/ stack' = stack
          \/ stack' = [stack EXCEPT ![mgr[b].c.id][DeleteOrder[k]] = NoOwner]
      BY <1>9, Zenon DEF MDelete
    <3> QED BY <1>1, <3>1
  <2>4. Owners'
    BY <1>0, <2>1, <2>3, StackKeeps
  <2> QED BY <2>2, <2>4
<1>10. ASSUME NEW b \in Binding, MCleanupClusterIDMappings(b) PROVE Core' /\ Owners'
  <2>1. mgr[b].pc \in Removing /\ UNCHANGED <<obj, mcache, stack>>
    BY <1>10 DEF MCleanupClusterIDMappings, Removing
  <2> QED BY <1>2, <1>3, <1>4, <1>10, <2>1, Moves
<1>11. ASSUME NEW b \in Binding, MError(b) PROVE Core' /\ Owners'
  <2>0. UNCHANGED <<obj, stack, mcache>>
    BY <1>11 DEF MError
  <2>1. CASE mgr[b].pc \in {"connect", "deploy"}
    <3>1. MGo(b, "fail", 1) /\ mgr[b].pc \in Building /\ "fail" \in Building /\ 1 \in 1..3
      BY <1>11, <2>1 DEF MError, MSet, Building
    <3> QED BY <1>2, <1>3, <1>4, <2>0, <3>1
  <2>2. CASE mgr[b].pc \notin {"connect", "deploy"}
    <3>1. MDone(b)
      BY <1>11, <2>2 DEF MError, MRetry
    <3> QED BY <1>2, <1>5, <2>0, <3>1
  <2> QED BY <2>1, <2>2
<1>12. ASSUME NEW b \in Binding, MDeliver(b) PROVE Core' /\ Owners'
  <2>0. /\ UNCHANGED <<obj, stack, mgr>>
        /\ mcache'[b] = obj[b] /\ \A a \in Binding \ {b} : mcache'[a] = mcache[a]
    BY <1>1, <1>12 DEF MDeliver
  <2>1. NoLater(obj[b], obj[b]) /\ Held(b, obj[b])
    BY <1>1 DEF NoLater, Held, Alive, Object
  <2>2. mgr[b].pc # "idle" => NoLater(mgr[b].c, obj[b])
    <3>1. mgr[b].c.uid \in Nat /\ obj[b].uid \in Nat /\ mcache[b].uid \in Nat
      BY <1>1 DEF Object
    <3> QED BY <1>0, <3>1 DEF Core, Past, NoLater
  <2>3. Past'
    BY <1>0, <2>0, <2>1, <2>2 DEF Core, Past
  <2>4. Flight' /\ StillHeld'
    BY <1>0, <2>0, <2>1 DEF Core, Flight, StillHeld, Held, Alive
  <2> QED BY <1>2, <2>0, <2>3, <2>4 DEF Core
<1>13. CASE MDeliverStack
  <2>1. UNCHANGED <<obj, stack, mcache, mgr>>
    BY <1>13 DEF MDeliverStack
  <2> QED BY <1>0, <1>2, <2>1 DEF Core, Past, Flight, StillHeld, Held, Alive
<1>14. CASE MRestart
  <2>0. UNCHANGED <<obj, stack>> /\ mcache' = obj /\ \A b \in Binding : mgr'[b].pc = "idle"
    BY <1>14 DEF MRestart, IdleM
  <2>1. \A b \in Binding : NoLater(obj[b], obj[b]) /\ Held(b, obj[b])
    BY <1>1 DEF NoLater, Held, Alive, Object
  <2> QED BY <1>2, <2>0, <2>1 DEF Core, Past, Flight, StillHeld, Held, Alive, Building, Removing
<1>15. ASSUME NEW b \in Binding, MReconcile(b) PROVE Core' /\ Owners'
  BY <1>6, <1>7, <1>8, <1>9, <1>10, <1>15, WriteStep DEF MReconcile
<1> QED BY <1>11, <1>12, <1>13, <1>14, <1>15 DEF ManagerNext

\* A step of a syncer touches bindings only to add or remove its own finalizer.
LEMMA SyncerStep ==
  ASSUME IInv, SyncerNext
  PROVE  Core' /\ Owners'
<1>0. TypeOK /\ Running /\ Core /\ Owners
  BY DEF IInv
<1>1. /\ obj \in [Binding -> Object]
      /\ \A i \in ClusterID : proc[i] # None => proc[i] \in Binding
  BY <1>0 DEF TypeOK
<1>2. UNCHANGED <<mcache, stack, mgr>>
  BY DEF SyncerNext, SStart, SStop, SDeliver, SReconcile, SGet, SAddFinalizer, SRemoveFinalizer,
         SWrite, SCheckNodes, SCheckVirtual, SCheckPhysical, SError, SWork, NodeGet, NodeCreate,
         PodRuns, NodeDrain, CopyDelete, mvars
<1>3. CASE UNCHANGED obj
  BY <1>0, <1>2, <1>3 DEF Core, Past, Flight, StillHeld, Held, Alive, Owners, OwnersPast, OwnersHeld
<1>4. ASSUME NEW i \in ClusterID, SAddFinalizer(i) \/ SRemoveFinalizer(i) PROVE Core' /\ Owners'
  <2>1. proc[i] \in Binding
    BY <1>0, <1>1, <1>4 DEF Running, SAddFinalizer, SRemoveFinalizer
  <2>2. CASE obj[proc[i]] = sy[i].c
    <3>1. \E x \in BOOLEAN : Put(proc[i], [obj[proc[i]] EXCEPT !.sfin = x])
      BY <1>4, <2>2 DEF SAddFinalizer, SRemoveFinalizer, SWrite, Current
    <3>2. obj[proc[i]] \in Object
      BY <1>1, <2>1
    <3>3. \E e \in Object : obj' = [obj EXCEPT ![proc[i]] = e] /\ Keeps(obj[proc[i]], e)
      BY <3>1, <3>2, EditKeeps, ObjectEdits, ObjectTypes DEF Put
    <3> QED BY <1>0, <1>2, <2>1, <3>3, WriteKeeps
  <2>3. CASE obj[proc[i]] # sy[i].c
    BY <1>3, <1>4, <2>3 DEF SAddFinalizer, SRemoveFinalizer, SWrite, Current
  <2> QED BY <2>2, <2>3
<1>5. UNCHANGED obj \/ \E i \in ClusterID : SAddFinalizer(i) \/ SRemoveFinalizer(i)
  BY DEF SyncerNext, SStart, SStop, SDeliver, SReconcile, SGet,
         SCheckNodes, SCheckVirtual, SCheckPhysical, SError, SWork, NodeGet, NodeCreate,
         PodRuns, NodeDrain, CopyDelete
<1> QED BY <1>3, <1>4, <1>5

\* Users and the garbage collector.
LEMMA EnvStep ==
  ASSUME IInv, EnvNext
  PROVE  Core' /\ Owners'
<1>0. TypeOK /\ Core /\ Owners
  BY DEF IInv
<1>1. obj \in [Binding -> Object] /\ stack \in [ClusterID -> [Part -> Owner]]
  BY <1>0 DEF TypeOK
<1>2. ASSUME NEW b \in Binding, NEW i \in IdsOf[b], UserCreate(b, i) PROVE Core' /\ Owners'
  <2>1. obj[b] \in Object /\ obj[b].uid \in Nat /\ i \in ClusterID
    BY <1>1, ConstantsAssumption DEF Object
  <2>2. Fresh(obj[b].uid + 1, i) \in Object
    BY <2>1, ObjectTypes
  <2>3. Keeps(obj[b], Fresh(obj[b].uid + 1, i))
    <3>1. Fresh(obj[b].uid + 1, i).uid = obj[b].uid + 1
      BY DEF Fresh
    <3>2. ~obj[b].exists
      BY <1>2 DEF UserCreate
    <3>3. obj[b].uid <= obj[b].uid + 1 /\ obj[b].uid # obj[b].uid + 1
      BY <2>1
    <3> QED BY <3>1, <3>2, <3>3 DEF Keeps
  <2>4. obj' = [obj EXCEPT ![b] = Fresh(obj[b].uid + 1, i)] /\ UNCHANGED <<mcache, stack, mgr>>
    BY <1>2 DEF UserCreate, mvars
  <2> QED BY <1>0, <2>2, <2>3, <2>4, WriteKeeps
<1>3. ASSUME NEW b \in Binding, NEW i \in IdsOf[b], UserChangeID(b, i) PROVE Core' /\ Owners'
  <2>1. obj[b] \in Object /\ i \in ClusterID
    BY <1>1, ConstantsAssumption
  <2>2. [obj[b] EXCEPT !.id = i] \in Object /\ Keeps(obj[b], [obj[b] EXCEPT !.id = i])
    BY <2>1, ObjectEdits, EditKeeps
  <2>3. obj' = [obj EXCEPT ![b] = [obj[b] EXCEPT !.id = i]] /\ UNCHANGED <<mcache, stack, mgr>>
    BY <1>3 DEF UserChangeID, mvars
  <2> QED BY <1>0, <2>2, <2>3, WriteKeeps
<1>4. ASSUME NEW b \in Binding, UserDelete(b) PROVE Core' /\ Owners'
  <2>1. obj[b] \in Object
    BY <1>1
  <2>2. \E e \in Object : obj' = [obj EXCEPT ![b] = e] /\ Keeps(obj[b], e)
    <3>1. LET e == Settle([obj[b] EXCEPT !.deleting = TRUE])
          IN  e \in Object /\ Keeps(obj[b], e)
      BY <2>1, ObjectEdits, ObjectTypes, EditKeeps
    <3>2. obj' = [obj EXCEPT ![b] = Settle([obj[b] EXCEPT !.deleting = TRUE])]
      BY <1>4 DEF UserDelete, Put
    <3> QED BY <3>1, <3>2
  <2>3. UNCHANGED <<mcache, stack, mgr>>
    BY <1>4 DEF UserDelete, mvars
  <2> QED BY <1>0, <2>2, <2>3, WriteKeeps
<1>5. ASSUME NEW i \in ClusterID, NEW p \in Part, OwnerGC(i, p) PROVE Core' /\ Owners'
  <2>1. UNCHANGED <<obj, mcache, mgr>>
    BY <1>5 DEF OwnerGC, mvars
  <2>2. \A j \in ClusterID, q \in Part : stack'[j][q] \in {stack[j][q], NoOwner}
    BY <1>1, <1>5 DEF OwnerGC
  <2>3. Owners'
    BY <1>0, <2>1, <2>2, StackKeeps
  <2> QED BY <1>0, <2>1, <2>3 DEF Core, Past, Flight, StillHeld, Held, Alive
<1> QED BY <1>2, <1>3, <1>4, <1>5 DEF EnvNext

LEMMA InvStep == IInv /\ [Next]_vars => IInv'
<1> SUFFICES ASSUME IInv, [Next]_vars PROVE IInv'
  OBVIOUS
<1>1. TypeOK' /\ Running'
  BY TypeStep DEF IInv
<1>2. CASE Next
  BY <1>1, <1>2, ManagerStep, SyncerStep, EnvStep DEF Next, IInv
<1>3. CASE UNCHANGED vars
  <2>1. UNCHANGED <<obj, stack, mcache, mgr>>
    BY <1>3 DEF vars, mvars
  <2>2. Core' /\ Owners'
    BY <2>1 DEF IInv, Core, Past, Flight, StillHeld, Held, Alive, Owners, OwnersPast, OwnersHeld
  <2> QED BY <1>1, <2>2 DEF IInv
<1> QED BY <1>2, <1>3

\* Whatever is deployed for a binding that exists, and whatever the manager is about
\* to deploy, is guarded by the manager's finalizer on that very incarnation: between
\* the read of a stale copy and the last create nobody can delete the binding away.
THEOREM DeploymentGuarded == Spec => []DeployedUnderFinalizer
<1>1. IInv => DeployedUnderFinalizer
  BY Guarded DEF IInv
<1> QED BY <1>1, InvInit, InvStep, PTL DEF Spec
----------------------------------------------------------------------------
(* Where identifiers come from.                                            *)

Accepted == {"connect", "deploy", "ready"}

LEMMA StartFresh ==
  ASSUME NEW c \in Object
  PROVE  /\ MStart(c) \notin Accepted
         /\ MStart(c) # "idle" => c.exists
         /\ MStart(c) = "idle" => ~c.exists \/ c.deleting
         /\ MStart(c) = "addFinalizer" => ~c.mfin
         /\ MStart(c) = "initStatus" => c.phase = ""
<1>1. c.exists \in BOOLEAN /\ c.deleting \in BOOLEAN /\ c.mfin \in BOOLEAN /\ c.sfin \in BOOLEAN
  BY DEF Object
<1>2. CASE ~c.exists \/ (c.deleting /\ c.sfin)
  BY <1>2 DEF MStart, Accepted
<1>3. CASE c.exists /\ c.deleting /\ ~c.sfin
  BY <1>3 DEF MStart, Accepted
<1>4. CASE c.exists /\ ~c.deleting /\ ~c.mfin
  BY <1>4 DEF MStart, Accepted
<1>5. CASE c.exists /\ ~c.deleting /\ c.mfin
  BY <1>5 DEF MStart, Accepted
<1> QED BY <1>1, <1>2, <1>3, <1>4, <1>5

\* The writes of the manager and the syncers to binding b: Ready is written at the end of a
\* reconcile, the manager's finalizer goes when b is being deleted.
Writes(b) ==
  \/ \E p \in Phase : /\ Put(b, [obj[b] EXCEPT !.phase = p])
                      /\ p = "Ready" => mgr[b].pc = "ready" /\ obj[b] = mgr[b].c
  \/ \E x \in BOOLEAN : Put(b, [obj[b] EXCEPT !.mfin = x]) /\ (x \/ obj[b].deleting)
  \/ \E x \in BOOLEAN : Put(b, [obj[b] EXCEPT !.sfin = x])
UserWrites(b) == UserDelete(b) \/ \E i \in IdsOf[b] : UserCreate(b, i) \/ UserChangeID(b, i)

LEMMA AllWrites ==
  ASSUME IInv, [Next]_vars
  PROVE  \/ UNCHANGED <<obj, touched>>
         \/ \E b \in Binding : \/ Writes(b) /\ UNCHANGED touched
                               \/ UserWrites(b)
<1>1. CASE ManagerNext
  <2>1. UNCHANGED touched
    <3>1. ASSUME NEW b \in Binding, MReconcile(b) PROVE UNCHANGED touched
      BY <3>1, Zenon DEF MReconcile, MGet, MAddFinalizer, MInitStatus, MValidate, MConnect,
                MDeploy, MDelete, MReady, MFail, MCleanupClusterIDMappings, MRemoveFinalizer,
                MWrite, aux
    <3> QED BY <1>1, <3>1 DEF ManagerNext, MError, MDeliver, MDeliverStack, MRestart, aux
  <2>2. \/ UNCHANGED obj
        \/ \E b \in Binding : \/ MAddFinalizer(b) \/ MInitStatus(b) \/ MReady(b) \/ MFail(b)
                              \/ MRemoveFinalizer(b)
    BY <1>1 DEF ManagerNext, MReconcile, MGet, MValidate, MConnect, MDeploy, MDelete,
                MCleanupClusterIDMappings, MError, MDeliver, MDeliverStack, MRestart
  <2>3. ASSUME NEW b \in Binding,
               MAddFinalizer(b) \/ MInitStatus(b) \/ MReady(b) \/ MFail(b) \/ MRemoveFinalizer(b)
        PROVE  UNCHANGED obj \/ Writes(b)
    <3>1. MRemoveFinalizer(b) => mgr[b].c.deleting
      BY DEF MRemoveFinalizer, IInv, Core, Flight, Removing
    <3>2. CASE MRemoveFinalizer(b)
      BY <3>1, <3>2 DEF MRemoveFinalizer, MWrite, Current, Writes
    <3>3. CASE MReady(b)
      BY <3>3 DEF MReady, MWrite, Current, Writes, Phase
    <3> QED BY <2>3, <3>2, <3>3 DEF MAddFinalizer, MInitStatus, MFail, MWrite, Current, Writes, Phase
  <2> QED BY <2>1, <2>2, <2>3
<1>2. CASE SyncerNext
  <2>1. UNCHANGED touched
    BY <1>2 DEF SyncerNext, SStart, SStop, SDeliver, SReconcile, SGet, SAddFinalizer,
         SRemoveFinalizer, SWrite, SCheckNodes, SCheckVirtual, SCheckPhysical, SError, SWork,
         NodeGet, NodeCreate, PodRuns, NodeDrain, CopyDelete, aux
  <2>2. UNCHANGED obj \/ \E i \in ClusterID : SAddFinalizer(i) \/ SRemoveFinalizer(i)
    BY <1>2 DEF SyncerNext, SStart, SStop, SDeliver, SReconcile, SGet, SCheckNodes, SCheckVirtual,
         SCheckPhysical, SError, SWork, NodeGet, NodeCreate, PodRuns, NodeDrain, CopyDelete
  <2>3. ASSUME NEW i \in ClusterID, SAddFinalizer(i) \/ SRemoveFinalizer(i)
        PROVE  UNCHANGED obj \/ \E b \in Binding : Writes(b)
    <3>1. proc[i] \in Binding
      BY <2>3 DEF IInv, Running, TypeOK, SAddFinalizer, SRemoveFinalizer
    <3>2. UNCHANGED obj \/ Writes(proc[i])
      BY <2>3 DEF SAddFinalizer, SRemoveFinalizer, SWrite, Current, Writes
    <3> QED BY <3>1, <3>2
  <2> QED BY <2>1, <2>2, <2>3
<1>3. CASE EnvNext
  <2>1. ASSUME NEW i \in ClusterID, NEW p \in Part, OwnerGC(i, p) PROVE UNCHANGED <<obj, touched>>
    BY <2>1 DEF OwnerGC, aux
  <2> QED BY <1>3, <2>1 DEF EnvNext, UserWrites
<1>4. CASE UNCHANGED vars
  BY <1>4 DEF vars, aux
<1> QED BY <1>1, <1>2, <1>3, <1>4 DEF Next

\* The copies that the manager has, and what is deployed, come from copies it had.
LEMMA Copies ==
  ASSUME IInv, [Next]_vars, NEW b \in Binding
  PROVE  /\ mcache'[b] \in {mcache[b], obj[b]}
         /\ mgr'[b].pc # "idle" => \/ mgr[b].pc # "idle" /\ mgr'[b].c = mgr[b].c
                                   \/ mcache[b].exists /\ mgr'[b].c = mcache[b]
<1>0. /\ mcache \in [Binding -> Object]
      /\ mgr \in [Binding -> [pc : MPc, k : 1..3, c : Object]]
  BY DEF IInv, TypeOK
<1>1. ASSUME UNCHANGED mcache PROVE mcache'[b] \in {mcache[b], obj[b]}
  BY <1>1
<1>2. ASSUME UNCHANGED mgr PROVE mgr'[b].pc # "idle" => mgr[b].pc # "idle" /\ mgr'[b].c = mgr[b].c
  BY <1>2
<1>3. CASE SyncerNext \/ EnvNext \/ UNCHANGED vars
  <2>1. UNCHANGED <<mcache, mgr>>
    BY <1>3 DEF SyncerNext, SStart, SStop, SDeliver, SReconcile, SGet, SAddFinalizer,
         SRemoveFinalizer, SWrite, SCheckNodes, SCheckVirtual, SCheckPhysical, SError, SWork,
         NodeGet, NodeCreate, PodRuns, NodeDrain, CopyDelete, EnvNext, UserCreate, UserDelete,
         UserChangeID, OwnerGC, vars, mvars
  <2> QED BY <1>1, <1>2, <2>1
<1>4. ASSUME NEW a \in Binding, MGet(a)
      PROVE  mgr'[b].pc # "idle" => \/ mgr[b].pc # "idle" /\ mgr'[b].c = mgr[b].c
                                    \/ mcache[b].exists /\ mgr'[b].c = mcache[b]
  <2>1. CASE a # b
    BY <1>0, <1>4, <2>1 DEF MGet
  <2>2. CASE a = b /\ MStart(mcache[b]) = "idle"
    BY <1>0, <1>4, <2>2 DEF MGet, IdleM
  <2>3. CASE a = b /\ MStart(mcache[b]) # "idle"
    BY <1>0, <1>4, <2>3, StartFresh DEF MGet
  <2> QED BY <2>1, <2>2, <2>3
<1>5. ASSUME NEW a \in Binding, NEW pc \in MPc, NEW k \in 1..3, MGo(a, pc, k), mgr[a].pc # "idle"
      PROVE  mgr'[b].pc # "idle" => mgr[b].pc # "idle" /\ mgr'[b].c = mgr[b].c
  BY <1>0, <1>5, MgrMove
<1>6. ASSUME NEW a \in Binding, MDone(a)
      PROVE  mgr'[b].pc # "idle" => mgr[b].pc # "idle" /\ mgr'[b].c = mgr[b].c
  BY <1>0, <1>6 DEF MDone, IdleM
<1>7. Building \subseteq MPc /\ Removing \subseteq MPc /\ "fail" \in Building /\ 1 \in 1..3
  BY DEF Building, Removing, MPc
<1>8. ASSUME NEW a \in Binding, MReconcile(a) \/ MError(a)
      PROVE  /\ UNCHANGED mcache
             /\ mgr'[b].pc # "idle" => \/ mgr[b].pc # "idle" /\ mgr'[b].c = mgr[b].c
                                       \/ mcache[b].exists /\ mgr'[b].c = mcache[b]
  <2>1. CASE MGet(a)
    BY <1>4, <2>1 DEF MGet
  <2>2. CASE MAddFinalizer(a) \/ MInitStatus(a) \/ MReady(a) \/ MFail(a) \/ MRemoveFinalizer(a)
    BY <1>6, <2>2 DEF MAddFinalizer, MInitStatus, MReady, MFail, MRemoveFinalizer, MWrite
  <2>3. CASE \/ MValidate(a) \/ MConnect(a) \/ (\E k \in 1..3 : MDeploy(a, k) \/ MDelete(a, k))
             \/ MCleanupClusterIDMappings(a)
    <3>1. mgr[a].pc # "idle" /\ UNCHANGED mcache
      BY <2>3 DEF MValidate, MConnect, MDeploy, MDelete, MCleanupClusterIDMappings
    <3>2. \E pc \in Building \union Removing, k \in 1..3 : MGo(a, pc, k)
      BY <2>3, Moves
    <3> QED BY <1>5, <1>7, <3>1, <3>2
  <2>4. CASE MError(a)
    <3>1. mgr[a].pc # "idle" /\ UNCHANGED mcache /\ (MGo(a, "fail", 1) \/ MDone(a))
      BY <2>4 DEF MError, MRetry, MSet
    <3> QED BY <1>5, <1>6, <1>7, <3>1
  <2> QED BY <1>8, <2>1, <2>2, <2>3, <2>4 DEF MReconcile
<1>9. ASSUME NEW a \in Binding, MDeliver(a)
      PROVE  mcache'[b] \in {mcache[b], obj[b]} /\ UNCHANGED mgr
  BY <1>0, <1>9 DEF MDeliver
<1>10. CASE MDeliverStack
  BY <1>1, <1>2, <1>10 DEF MDeliverStack
<1>11. CASE MRestart
  BY <1>11 DEF MRestart, IdleM
<1> QED BY <1>1, <1>2, <1>3, <1>8, <1>9, <1>10, <1>11 DEF Next, ManagerNext

LEMMA StackWriters ==
  ASSUME [Next]_vars
  PROVE  \/ UNCHANGED stack
         \/ \E b \in Binding, k \in 1..3 : MDeploy(b, k) \/ MDelete(b, k)
         \/ \E j \in ClusterID, q \in Part : OwnerGC(j, q)
<1>1. CASE ManagerNext
  BY <1>1 DEF ManagerNext, MReconcile, MGet, MAddFinalizer, MInitStatus, MValidate, MConnect,
       MReady, MFail, MCleanupClusterIDMappings, MRemoveFinalizer, MWrite, MError, MDeliver,
       MDeliverStack, MRestart
<1>2. CASE SyncerNext
  BY <1>2 DEF SyncerNext, SStart, SStop, SDeliver, SReconcile, SGet, SAddFinalizer,
       SRemoveFinalizer, SWrite, SCheckNodes, SCheckVirtual, SCheckPhysical, SError, SWork,
       NodeGet, NodeCreate, PodRuns, NodeDrain, CopyDelete
<1>3. CASE EnvNext
  BY <1>3 DEF EnvNext, UserCreate, UserDelete, UserChangeID
<1>4. CASE UNCHANGED vars
  BY <1>4 DEF vars
<1> QED BY <1>1, <1>2, <1>3, <1>4 DEF Next


LEMMA Deployments ==
  ASSUME IInv, [Next]_vars, NEW i \in ClusterID, NEW p \in Part
  PROVE  \/ stack'[i][p] \in {stack[i][p], NoOwner}
         \/ \E b \in Binding : /\ mgr[b].pc = "deploy" /\ i = mgr[b].c.id
                               /\ stack'[i][p] = [name |-> b, uid |-> mgr[b].c.uid]
<1>0. stack \in [ClusterID -> [Part -> Owner]]
  BY DEF IInv, TypeOK
<1>1. ASSUME NEW b \in Binding, NEW k \in 1..3, MDeploy(b, k)
      PROVE  \/ stack'[i][p] = stack[i][p]
             \/ /\ mgr[b].pc = "deploy" /\ i = mgr[b].c.id
                /\ stack'[i][p] = [name |-> b, uid |-> mgr[b].c.uid]
  <2>1. /\ mgr[b].pc = "deploy"
        /\ \/ stack' = stack
           \/ stack' = [stack EXCEPT ![mgr[b].c.id][DeployOrder[k]] = [name |-> b, uid |-> mgr[b].c.uid]]
    BY <1>1, Zenon DEF MDeploy
  <2> QED BY <1>0, <2>1
<1>2. ASSUME NEW b \in Binding, NEW k \in 1..3, MDelete(b, k)
      PROVE  stack'[i][p] \in {stack[i][p], NoOwner}
  <2>1. stack' = stack \/ stack' = [stack EXCEPT ![mgr[b].c.id][DeleteOrder[k]] = NoOwner]
    BY <1>2, Zenon DEF MDelete
  <2> QED BY <1>0, <2>1
<1>3. ASSUME NEW j \in ClusterID, NEW q \in Part, OwnerGC(j, q)
      PROVE  stack'[i][p] \in {stack[i][p], NoOwner}
  BY <1>0, <1>3 DEF OwnerGC
<1> QED BY <1>1, <1>2, <1>3, StackWriters

\* Who takes a reconcile through the deployment.
LEMMA MgrWriters ==
  ASSUME IInv, [Next]_vars, NEW b \in Binding
  PROVE  \/ mgr'[b] = mgr[b] \/ mgr'[b].pc \notin {"deploy", "ready"}
         \/ MConnect(b) \/ \E k \in 1..3 : MDeploy(b, k)
<1>0. /\ mcache \in [Binding -> Object]
      /\ mgr \in [Binding -> [pc : MPc, k : 1..3, c : Object]]
  BY DEF IInv, TypeOK
<1>1. ASSUME NEW a \in Binding, NEW r, mgr' = [mgr EXCEPT ![a] = r], r.pc \notin {"deploy", "ready"}
      PROVE  mgr'[b] = mgr[b] \/ mgr'[b].pc \notin {"deploy", "ready"}
  BY <1>0, <1>1
<1>2. ASSUME NEW a \in Binding, MDone(a)
      PROVE  mgr'[b] = mgr[b] \/ mgr'[b].pc \notin {"deploy", "ready"}
  BY <1>1, <1>2 DEF MDone, IdleM
<1>3. ASSUME NEW a \in Binding, NEW pc, NEW k, MGo(a, pc, k)
      PROVE  mgr'[b] = mgr[b] \/ (mgr'[b].pc = pc /\ a = b)
  BY <1>0, <1>3 DEF MGo
<1>4. ASSUME NEW a \in Binding, MGet(a)
      PROVE  mgr'[b] = mgr[b] \/ mgr'[b].pc \notin {"deploy", "ready"}
  <2>1. CASE MStart(mcache[a]) = "idle"
    BY <1>1, <1>4, <2>1 DEF MGet, IdleM
  <2>2. CASE MStart(mcache[a]) # "idle"
    <3>1. MStart(mcache[a]) \notin {"deploy", "ready"}
      BY <1>0, StartFresh DEF Accepted
    <3>2. mgr' = [mgr EXCEPT ![a] = [pc |-> MStart(mcache[a]), k |-> 1, c |-> mcache[a]]]
      BY <1>4, <2>2 DEF MGet
    <3> QED BY <1>1, <3>1, <3>2
  <2> QED BY <2>1, <2>2
<1>5. ASSUME NEW a \in Binding,
             MAddFinalizer(a) \/ MInitStatus(a) \/ MReady(a) \/ MFail(a) \/ MRemoveFinalizer(a)
      PROVE  MDone(a)
  BY <1>5 DEF MAddFinalizer, MInitStatus, MReady, MFail, MRemoveFinalizer, MWrite
<1>6. ASSUME NEW a \in Binding, MValidate(a) \/ MError(a)
      PROVE  MDone(a) \/ MGo(a, "connect", 1) \/ MGo(a, "fail", 1)
  BY <1>6, Zenon DEF MValidate, MError, MRetry, MSet
<1>7. ASSUME NEW a \in Binding, (\E k \in 1..3 : MDelete(a, k)) \/ MCleanupClusterIDMappings(a)
      PROVE  mgr'[b] = mgr[b] \/ mgr'[b].pc \notin {"deploy", "ready"}
  BY <1>3, <1>7, Moves DEF Removing
<1>8. ASSUME NEW a \in Binding, MConnect(a) \/ \E k \in 1..3 : MDeploy(a, k)
      PROVE  mgr'[b] = mgr[b] \/ a = b
  BY <1>3, <1>8, Moves
<1>9. ASSUME NEW a \in Binding, MReconcile(a) \/ MError(a)
      PROVE  \/ mgr'[b] = mgr[b] \/ mgr'[b].pc \notin {"deploy", "ready"}
             \/ MConnect(b) \/ \E k \in 1..3 : MDeploy(b, k)
  BY <1>2, <1>3, <1>4, <1>5, <1>6, <1>7, <1>8, <1>9 DEF MReconcile
<1>10. ASSUME NEW a \in Binding, MDeliver(a) PROVE UNCHANGED mgr
  BY <1>10 DEF MDeliver
<1>11. CASE MRestart
  BY <1>11 DEF MRestart, IdleM
<1>12. CASE SyncerNext \/ EnvNext \/ MDeliverStack \/ UNCHANGED vars
  BY <1>12 DEF SyncerNext, SStart, SStop, SDeliver, SReconcile, SGet, SAddFinalizer,
         SRemoveFinalizer, SWrite, SCheckNodes, SCheckVirtual, SCheckPhysical, SError, SWork,
         NodeGet, NodeCreate, PodRuns, NodeDrain, CopyDelete, EnvNext, UserCreate, UserDelete,
         UserChangeID, OwnerGC, MDeliverStack, vars, mvars
<1> QED BY <1>9, <1>10, <1>11, <1>12 DEF Next, ManagerNext

\* Binding b, now o, was seen as incarnation u with identifier i: unless a user deleted it
\* or changed its identifier, which t records, it still is that.
Home(b, u, i, o, t) ==
  /\ i \in IdsOf[b]
  /\ <<b, i>> \notin t => o.exists /\ o.uid = u /\ o.id = i /\ ~o.deleting
  /\ o.exists /\ o.uid = u => o.id = i \/ <<b, o.id>> \in t
Self(b, o, t) == o.exists => o.id \in IdsOf[b] /\ (o.deleting => <<b, o.id>> \in t)

\* Whatever the manager has read and whatever is deployed was once right.
Homes == \A b \in Binding :
  /\ Self(b, obj[b], touched)
  /\ mcache[b].exists => Home(b, mcache[b].uid, mcache[b].id, obj[b], touched)
  /\ mgr[b].pc # "idle" => Home(b, mgr[b].c.uid, mgr[b].c.id, obj[b], touched)
OwnersHome == \A i \in ClusterID, p \in Part : stack[i][p] # NoOwner =>
  Home(stack[i][p].name, stack[i][p].uid, i, obj[stack[i][p].name], touched)

\* How object o of binding b may become e.
Onward(b, o, e, t) ==
  \/ ~o.exists /\ (~e.exists \/ e.uid > o.uid)
  \/ /\ o.exists /\ e.uid = o.uid
     /\ \/ e.exists /\ e.id = o.id /\ e.deleting = o.deleting
        \/ <<b, o.id>> \in t /\ (e.exists => <<b, e.id>> \in t)

LEMMA HomeKept ==
  ASSUME NEW b, NEW i, NEW u \in Nat, NEW o \in Object, NEW e \in Object, NEW t, NEW s,
         t \subseteq s, Home(b, u, i, o, t), u <= o.uid, Onward(b, o, e, s)
  PROVE  Home(b, u, i, e, s)
<1>0. o.uid \in Nat /\ e.uid \in Nat
  BY DEF Object
<1>1. CASE ~o.exists /\ ~e.exists
  BY <1>1 DEF Home
<1>2. CASE ~o.exists /\ e.uid > o.uid
  <2>1. e.uid # u
    BY <1>0, <1>2
  <2> QED BY <1>2, <2>1 DEF Home
<1>3. CASE o.exists /\ e.uid = o.uid /\ e.exists /\ e.id = o.id /\ e.deleting = o.deleting
  BY <1>3, Zenon DEF Home
<1>4. CASE <<b, o.id>> \in s /\ (e.exists => <<b, e.id>> \in s)
  BY <1>4 DEF Home
<1> QED BY <1>1, <1>2, <1>3, <1>4 DEF Onward

LEMMA EditOnward ==
  ASSUME NEW b, NEW o \in Object, NEW t, Self(b, o, t)
  PROVE  /\ Onward(b, o, o, t)
         /\ \A p \in Phase : LET e == Settle([o EXCEPT !.phase = p]) IN
                             Onward(b, o, e, t) /\ Self(b, e, t)
         /\ \A x \in BOOLEAN : LET e == Settle([o EXCEPT !.mfin = x]) IN
                               Onward(b, o, e, t) /\ Self(b, e, t)
         /\ \A x \in BOOLEAN : LET e == Settle([o EXCEPT !.sfin = x]) IN
                               Onward(b, o, e, t) /\ Self(b, e, t)
<1> USE DEF Onward, Self, Settle, Object, Gone, Fresh
<1>1. Onward(b, o, o, t)
  OBVIOUS
<1>2. ASSUME NEW p \in Phase
      PROVE  LET e == Settle([o EXCEPT !.phase = p]) IN Onward(b, o, e, t) /\ Self(b, e, t)
  OBVIOUS
<1>3. ASSUME NEW x \in BOOLEAN
      PROVE  LET e == Settle([o EXCEPT !.mfin = x]) IN Onward(b, o, e, t) /\ Self(b, e, t)
  OBVIOUS
<1>4. ASSUME NEW x \in BOOLEAN
      PROVE  LET e == Settle([o EXCEPT !.sfin = x]) IN Onward(b, o, e, t) /\ Self(b, e, t)
  OBVIOUS
<1> QED BY <1>1, <1>2, <1>3, <1>4

LEMMA UserOnward ==
  ASSUME NEW b \in Binding, NEW o \in Object, NEW t, NEW s, t \subseteq s, Self(b, o, t)
  PROVE  /\ o.exists /\ <<b, o.id>> \in s =>
              LET e == Settle([o EXCEPT !.deleting = TRUE]) IN Onward(b, o, e, s) /\ Self(b, e, s)
         /\ \A i \in IdsOf[b] : o.exists /\ <<b, o.id>> \in s /\ <<b, i>> \in s =>
              LET e == [o EXCEPT !.id = i] IN Onward(b, o, e, s) /\ Self(b, e, s)
         /\ \A i \in IdsOf[b] : ~o.exists =>
              LET e == Fresh(o.uid + 1, i) IN Onward(b, o, e, s) /\ Self(b, e, s)
<1>1. ASSUME o.exists, <<b, o.id>> \in s
      PROVE LET e == Settle([o EXCEPT !.deleting = TRUE]) IN Onward(b, o, e, s) /\ Self(b, e, s)
  BY <1>1 DEF Onward, Self, Settle, Object, Gone, Fresh
<1>2. ASSUME NEW i \in IdsOf[b], o.exists, <<b, o.id>> \in s, <<b, i>> \in s
      PROVE  LET e == [o EXCEPT !.id = i] IN Onward(b, o, e, s) /\ Self(b, e, s)
  BY <1>2 DEF Onward, Self, Object
<1>3. ASSUME NEW i \in IdsOf[b], ~o.exists
      PROVE  LET e == Fresh(o.uid + 1, i) IN Onward(b, o, e, s) /\ Self(b, e, s)
  <2>1. o.uid \in Nat /\ o.uid + 1 > o.uid
    BY DEF Object
  <2>2. LET e == Fresh(o.uid + 1, i) IN e.uid = o.uid + 1 /\ ~e.deleting /\ e.id = i
    BY DEF Fresh
  <2> QED BY <1>3, <2>1, <2>2, Zenon DEF Onward, Self
<1> QED BY <1>1, <1>2, <1>3

LEMMA ObjectsOnward ==
  ASSUME IInv, Homes, [Next]_vars
  PROVE  /\ touched \subseteq touched'
         /\ \A b \in Binding : /\ Onward(b, obj[b], obj'[b], touched')
                               /\ Self(b, obj'[b], touched')
<1>0. obj \in [Binding -> Object] /\ \A b \in Binding : obj[b] \in Object /\ Self(b, obj[b], touched)
  BY DEF IInv, TypeOK, Homes
<1>1. CASE UNCHANGED <<obj, touched>>
  BY <1>0, <1>1, EditOnward
<1>2. ASSUME NEW b \in Binding, NEW e, obj' = [obj EXCEPT ![b] = e], touched \subseteq touched',
             Onward(b, obj[b], e, touched'), Self(b, e, touched')
      PROVE  \A a \in Binding : /\ Onward(a, obj[a], obj'[a], touched')
                                /\ Self(a, obj'[a], touched')
  <2>1. ASSUME NEW a \in Binding, a # b
        PROVE  Onward(a, obj[a], obj[a], touched') /\ Self(a, obj[a], touched')
    <3>1. Self(a, obj[a], touched')
      BY <1>0, <1>2 DEF Self
    <3> QED BY <1>0, <3>1, EditOnward
  <2>2. \A a \in Binding : obj'[a] = IF a = b THEN e ELSE obj[a]
    BY <1>0, <1>2
  <2> QED BY <1>2, <2>1, <2>2
<1>3. ASSUME NEW b \in Binding, Writes(b), UNCHANGED touched
      PROVE  \E e : /\ obj' = [obj EXCEPT ![b] = e]
                    /\ Onward(b, obj[b], e, touched') /\ Self(b, e, touched')
  <2>1. \/ \E p \in Phase : Put(b, [obj[b] EXCEPT !.phase = p])
        \/ \E x \in BOOLEAN : Put(b, [obj[b] EXCEPT !.mfin = x])
        \/ \E x \in BOOLEAN : Put(b, [obj[b] EXCEPT !.sfin = x])
    BY <1>3 DEF Writes
  <2> QED BY <1>0, <1>3, <2>1, EditOnward DEF Put
<1>4. ASSUME NEW b \in Binding, UserWrites(b)
      PROVE  /\ touched \subseteq touched'
             /\ \E e : /\ obj' = [obj EXCEPT ![b] = e]
                       /\ Onward(b, obj[b], e, touched') /\ Self(b, e, touched')
  <2>1. CASE UserDelete(b)
    <3>1. /\ touched \subseteq touched' /\ <<b, obj[b].id>> \in touched' /\ obj[b].exists
          /\ obj' = [obj EXCEPT ![b] = Settle([obj[b] EXCEPT !.deleting = TRUE])]
      BY <2>1 DEF UserDelete, Put
    <3> QED BY <1>0, <3>1, UserOnward
  <2>2. ASSUME NEW i \in IdsOf[b], UserChangeID(b, i)
        PROVE  /\ touched \subseteq touched'
               /\ \E e : /\ obj' = [obj EXCEPT ![b] = e]
                         /\ Onward(b, obj[b], e, touched') /\ Self(b, e, touched')
    <3>1. /\ touched \subseteq touched' /\ <<b, obj[b].id>> \in touched' /\ <<b, i>> \in touched'
          /\ obj[b].exists /\ obj' = [obj EXCEPT ![b] = [obj[b] EXCEPT !.id = i]]
      BY <2>2 DEF UserChangeID
    <3> QED BY <1>0, <3>1, UserOnward
  <2>3. ASSUME NEW i \in IdsOf[b], UserCreate(b, i)
        PROVE  /\ touched \subseteq touched'
               /\ \E e : /\ obj' = [obj EXCEPT ![b] = e]
                         /\ Onward(b, obj[b], e, touched') /\ Self(b, e, touched')
    <3>1. /\ touched \subseteq touched' /\ ~obj[b].exists
          /\ obj' = [obj EXCEPT ![b] = Fresh(obj[b].uid + 1, i)]
      BY <2>3 DEF UserCreate, aux
    <3> QED BY <1>0, <3>1, UserOnward
  <2> QED BY <1>4, <2>1, <2>2, <2>3 DEF UserWrites
<1> QED BY <1>1, <1>2, <1>3, <1>4, AllWrites

LEMMA HomesStep ==
  ASSUME IInv, Homes, OwnersHome, [Next]_vars
  PROVE  Homes' /\ OwnersHome'
<1>0. /\ TypeOK /\ Core /\ Owners /\ TypeOK'
      /\ obj \in [Binding -> Object] /\ obj' \in [Binding -> Object]
      /\ mcache \in [Binding -> Object] /\ \A b \in Binding : mgr[b].c \in Object
      /\ stack \in [ClusterID -> [Part -> Owner]]
  BY InvStep DEF IInv, TypeOK
<1>1. ASSUME NEW b \in Binding, NEW u \in Nat, NEW i, Home(b, u, i, obj[b], touched), u <= obj[b].uid
      PROVE  Home(b, u, i, obj'[b], touched')
  <2>1. obj[b] \in Object /\ obj'[b] \in Object
    BY <1>0
  <2> QED BY <1>1, <2>1, ObjectsOnward, HomeKept
<1>2. ASSUME NEW b \in Binding, mcache[b].exists
      PROVE  Home(b, mcache[b].uid, mcache[b].id, obj'[b], touched')
  <2>1. mcache[b].uid \in Nat /\ mcache[b].uid <= obj[b].uid
    BY <1>0 DEF Object, Core, Past, NoLater
  <2> QED BY <1>1, <1>2, <2>1 DEF Homes
<1>3. ASSUME NEW b \in Binding, mgr[b].pc # "idle"
      PROVE  Home(b, mgr[b].c.uid, mgr[b].c.id, obj'[b], touched')
  <2>1. mgr[b].c.uid \in Nat /\ mcache[b].uid \in Nat /\ obj[b].uid \in Nat
    BY <1>0 DEF Object
  <2>2. mgr[b].c.uid <= mcache[b].uid /\ mcache[b].uid <= obj[b].uid
    BY <1>0, <1>3 DEF Core, Past, NoLater
  <2>3. mgr[b].c.uid <= obj[b].uid
    BY <2>1, <2>2
  <2> QED BY <1>1, <1>3, <2>1, <2>3 DEF Homes
<1>4. ASSUME NEW b \in Binding, obj[b].exists
      PROVE  Home(b, obj[b].uid, obj[b].id, obj'[b], touched')
  <2>1. obj[b].uid \in Nat /\ obj[b].uid <= obj[b].uid
    BY <1>0 DEF Object
  <2>2. Home(b, obj[b].uid, obj[b].id, obj[b], touched)
    BY <1>4 DEF Homes, Self, Home
  <2> QED BY <1>1, <2>1, <2>2
<1>5. Homes'
  <2> SUFFICES ASSUME NEW b \in Binding
               PROVE  /\ Self(b, obj'[b], touched')
                      /\ mcache'[b].exists => Home(b, mcache'[b].uid, mcache'[b].id, obj'[b], touched')
                      /\ mgr'[b].pc # "idle" => Home(b, mgr'[b].c.uid, mgr'[b].c.id, obj'[b], touched')
    BY DEF Homes
  <2> QED BY <1>2, <1>3, <1>4, ObjectsOnward, Copies
<1>6. OwnersHome'
  <2> SUFFICES ASSUME NEW i \in ClusterID, NEW p \in Part, stack'[i][p] # NoOwner
               PROVE  Home(stack'[i][p].name, stack'[i][p].uid, i, obj'[stack'[i][p].name], touched')
    BY DEF OwnersHome
  <2>1. CASE stack'[i][p] = stack[i][p]
    <3>1. stack[i][p].name \in Binding /\ stack[i][p].uid \in Nat
          /\ stack[i][p].uid <= obj[stack[i][p].name].uid
      BY <1>0, <2>1 DEF Owners, OwnersPast, Owner
    <3> QED BY <1>1, <2>1, <3>1 DEF OwnersHome
  <2>2. ASSUME NEW b \in Binding, mgr[b].pc = "deploy", i = mgr[b].c.id,
               stack'[i][p] = [name |-> b, uid |-> mgr[b].c.uid]
        PROVE  Home(stack'[i][p].name, stack'[i][p].uid, i, obj'[stack'[i][p].name], touched')
    BY <1>3, <2>2
  <2> QED BY <2>1, <2>2, Deployments
<1> QED BY <1>5, <1>6

----------------------------------------------------------------------------
(* Who is Ready is recorded.                                               *)

InUseCopy(c) == c.exists /\ c.phase = "Ready" /\ ~c.deleting
Owned(b, i, owner, lost) == owner[i] = b \/ i \in lost

\* Binding b with copy c in the cache and reconcile m in flight, queued or not: what is
\* accepted, or was and needs nothing more, is recorded; a reconcile acts on the
\* copy in the cache unless b is queued.
Admits(b, m, c, queued, id, owner, lost) ==
  /\ m.pc \in Accepted => id = m.c.id /\ Owned(b, m.c.id, owner, lost)
  /\ ~queued /\ m.pc = "idle" /\ InUseCopy(c) => Owned(b, c.id, owner, lost)
  /\ ~queued /\ m.pc # "idle" => m.c = c
  /\ m.pc = "addFinalizer" => ~m.c.mfin
  /\ m.pc = "initStatus" => m.c.phase = ""
  /\ InUseCopy(c) => c.mfin

Admission == \A b \in Binding : Admits(b, mgr[b], mcache[b], b \in mq, nameToClusterID[b],
                                       clusterIDToName, cleared)

\* A binding that is Ready carries the manager's finalizer.
ReadyHeld == \A b \in Binding : InUseCopy(obj[b]) => obj[b].mfin

LEMMA AdmissionPairs == Admission => UniqueReady
<1> SUFFICES ASSUME Admission, NEW a \in Binding, NEW b \in Binding, Admitted(a), Admitted(b),
                    obj[a].id = obj[b].id, obj[b].id \notin cleared
             PROVE  a = b
  BY DEF UniqueReady
<1>1. ASSUME NEW x \in Binding, Admitted(x)
      PROVE  clusterIDToName[obj[x].id] = x \/ obj[x].id \in cleared
  BY <1>1 DEF Admitted, Admission, Admits, InUse, InUseCopy, Owned
<1> QED BY <1>1

LEMMA ReadyEdits ==
  ASSUME NEW o \in Object, InUseCopy(o) => o.mfin
  PROVE  /\ \A p \in Phase : o.mfin \/ p # "Ready" =>
              LET e == Settle([o EXCEPT !.phase = p]) IN InUseCopy(e) => e.mfin
         /\ \A x \in BOOLEAN : x \/ o.deleting =>
              LET e == Settle([o EXCEPT !.mfin = x]) IN InUseCopy(e) => e.mfin
         /\ \A x \in BOOLEAN :
              LET e == Settle([o EXCEPT !.sfin = x]) IN InUseCopy(e) => e.mfin
         /\ LET e == Settle([o EXCEPT !.deleting = TRUE]) IN InUseCopy(e) => e.mfin
         /\ \A i : LET e == [o EXCEPT !.id = i] IN InUseCopy(e) => e.mfin
<1> USE DEF InUseCopy, Settle, Object, Gone, Fresh
<1>1. ASSUME NEW p \in Phase, o.mfin \/ p # "Ready"
      PROVE  LET e == Settle([o EXCEPT !.phase = p]) IN InUseCopy(e) => e.mfin
  BY <1>1
<1>2. ASSUME NEW x \in BOOLEAN, x \/ o.deleting
      PROVE  LET e == Settle([o EXCEPT !.mfin = x]) IN InUseCopy(e) => e.mfin
  BY <1>2
<1>3. ASSUME NEW x \in BOOLEAN
      PROVE  LET e == Settle([o EXCEPT !.sfin = x]) IN InUseCopy(e) => e.mfin
  OBVIOUS
<1>4. LET e == Settle([o EXCEPT !.deleting = TRUE]) IN InUseCopy(e) => e.mfin
  OBVIOUS
<1>5. ASSUME NEW i PROVE LET e == [o EXCEPT !.id = i] IN InUseCopy(e) => e.mfin
  OBVIOUS
<1> QED BY <1>1, <1>2, <1>3, <1>4, <1>5

LEMMA ReadyHeldStep ==
  ASSUME IInv, ReadyHeld, [Next]_vars
  PROVE  ReadyHeld'
<1>0. obj \in [Binding -> Object] /\ Flight
  BY DEF IInv, TypeOK, Core
<1>1. ASSUME NEW b \in Binding, NEW e, obj' = [obj EXCEPT ![b] = e], InUseCopy(e) => e.mfin
      PROVE  ReadyHeld'
  BY <1>0, <1>1 DEF ReadyHeld
<1>2. CASE UNCHANGED obj
  BY <1>2 DEF ReadyHeld
<1>3. ASSUME NEW b \in Binding PROVE obj[b] \in Object /\ (InUseCopy(obj[b]) => obj[b].mfin)
  BY <1>0 DEF ReadyHeld
<1>4. ASSUME NEW b \in Binding, Writes(b)
      PROVE  \E e : obj' = [obj EXCEPT ![b] = e] /\ (InUseCopy(e) => e.mfin)
  <2>1. mgr[b].pc = "ready" => mgr[b].c.mfin
    BY <1>0 DEF Flight, Building
  <2>2. ASSUME NEW p \in Phase, Put(b, [obj[b] EXCEPT !.phase = p]),
               p = "Ready" => obj[b].mfin
        PROVE  \E e : obj' = [obj EXCEPT ![b] = e] /\ (InUseCopy(e) => e.mfin)
    BY <1>3, <2>2, ReadyEdits DEF Put
  <2>3. ASSUME NEW x \in BOOLEAN, Put(b, [obj[b] EXCEPT !.mfin = x]),
               x \/ obj[b].deleting
        PROVE  \E e : obj' = [obj EXCEPT ![b] = e] /\ (InUseCopy(e) => e.mfin)
    BY <1>3, <2>3, ReadyEdits DEF Put
  <2>4. ASSUME NEW x \in BOOLEAN, Put(b, [obj[b] EXCEPT !.sfin = x])
        PROVE  \E e : obj' = [obj EXCEPT ![b] = e] /\ (InUseCopy(e) => e.mfin)
    BY <1>3, <2>4, ReadyEdits DEF Put
  <2> QED BY <1>4, <2>1, <2>2, <2>3, <2>4 DEF Writes
<1>5. ASSUME NEW b \in Binding, UserWrites(b)
      PROVE  \E e : obj' = [obj EXCEPT ![b] = e] /\ (InUseCopy(e) => e.mfin)
  <2>1. CASE UserDelete(b)
    BY <1>3, <2>1, ReadyEdits DEF UserDelete, Put
  <2>2. ASSUME NEW i \in IdsOf[b], UserChangeID(b, i)
        PROVE  \E e : obj' = [obj EXCEPT ![b] = e] /\ (InUseCopy(e) => e.mfin)
    <3>1. obj' = [obj EXCEPT ![b] = [obj[b] EXCEPT !.id = i]]
      BY <2>2 DEF UserChangeID
    <3> QED BY <1>3, <3>1, ReadyEdits
  <2>3. ASSUME NEW i \in IdsOf[b], UserCreate(b, i)
        PROVE  \E e : obj' = [obj EXCEPT ![b] = e] /\ (InUseCopy(e) => e.mfin)
    <3>1. obj' = [obj EXCEPT ![b] = Fresh(obj[b].uid + 1, i)]
      BY <2>3 DEF UserCreate
    <3>2. ~InUseCopy(Fresh(obj[b].uid + 1, i))
      BY DEF InUseCopy, Fresh
    <3> QED BY <3>1, <3>2
  <2> QED BY <1>5, <2>1, <2>2, <2>3 DEF UserWrites
<1> QED BY <1>1, <1>2, <1>4, <1>5, AllWrites

\* A step of the reconcile of b leaves what is known of the other bindings alone, and
\* may remove the record of another binding only by noting that.
LEMMA AdmissionOthers ==
  ASSUME Admission, NEW b \in Binding, mcache' = mcache,
         \A a \in Binding \ {b} : /\ mgr'[a] = mgr[a] /\ (a \in mq <=> a \in mq')
                                  /\ nameToClusterID'[a] = nameToClusterID[a],
         \A a \in Binding \ {b} : \A i : Owned(a, i, clusterIDToName, cleared)
                                     => Owned(a, i, clusterIDToName', cleared'),
         Admits(b, mgr'[b], mcache[b], b \in mq', nameToClusterID'[b], clusterIDToName', cleared')
  PROVE  Admission'
<1>1. ASSUME NEW a \in Binding \ {b}
      PROVE  Admits(a, mgr'[a], mcache'[a], a \in mq', nameToClusterID'[a], clusterIDToName', cleared')
  <2>1. /\ mgr'[a] = mgr[a] /\ (a \in mq <=> a \in mq') /\ mcache'[a] = mcache[a]
        /\ nameToClusterID'[a] = nameToClusterID[a]
        /\ \A i : Owned(a, i, clusterIDToName, cleared) => Owned(a, i, clusterIDToName', cleared')
    OBVIOUS
  <2>2. Admits(a, mgr[a], mcache[a], a \in mq, nameToClusterID[a], clusterIDToName, cleared)
    BY DEF Admission
  <2> QED BY <2>1, <2>2 DEF Admits
<1> QED BY <1>1 DEF Admission

LEMMA AdmissionStep ==
  ASSUME IInv, Homes, Admission, ReadyHeld, [Next]_vars
  PROVE  Admission'
<1>0. /\ obj \in [Binding -> Object] /\ mcache \in [Binding -> Object] /\ Flight
      /\ mgr \in [Binding -> [pc : MPc, k : 1..3, c : Object]]
      /\ nameToClusterID \in [Binding -> ClusterID \union {None}]
      /\ clusterIDToName \in [ClusterID -> Binding \union {None}]
  BY DEF IInv, TypeOK, Core
<1>1. ASSUME NEW b \in Binding
      PROVE  Admits(b, mgr[b], mcache[b], b \in mq, nameToClusterID[b], clusterIDToName, cleared)
  BY DEF Admission
<1>2. "idle" \notin Accepted /\ "idle" # "addFinalizer" /\ "idle" # "initStatus"
  BY DEF Accepted
\* The end of a reconcile that records nothing.
<1>3. ASSUME NEW b \in Binding, MDone(b), UNCHANGED <<mcache, nameToClusterID, clusterIDToName, cleared>>,
             mq' \in {mq, mq \union {b}},
             b \notin mq' /\ InUseCopy(mcache[b]) => Owned(b, mcache[b].id, clusterIDToName, cleared)
      PROVE  Admission'
  <2>1. mgr'[b].pc = "idle" /\ \A a \in Binding \ {b} : mgr'[a] = mgr[a]
    BY <1>0, <1>3 DEF MDone, IdleM
  <2>2. Admits(b, mgr'[b], mcache[b], b \in mq', nameToClusterID'[b], clusterIDToName', cleared')
    BY <1>1, <1>2, <1>3, <2>1 DEF Admits
  <2> QED BY <1>3, <2>1, <2>2, AdmissionOthers
\* A reconcile that goes on and records nothing.
<1>4. ASSUME NEW b \in Binding, NEW pc \in Building \union Removing, NEW k \in 1..3, MGo(b, pc, k),
             pc # "initStatus", mgr[b].pc # "idle", pc \in Accepted => mgr[b].pc \in Accepted,
             UNCHANGED <<mcache, mq, nameToClusterID, clusterIDToName, cleared>>
      PROVE  Admission'
  <2>1. pc \in MPc /\ pc # "idle" /\ pc # "addFinalizer"
    BY DEF Building, Removing, MPc
  <2>2. /\ mgr'[b].pc = pc /\ mgr'[b].c = mgr[b].c
        /\ \A a \in Binding \ {b} : mgr'[a] = mgr[a]
    BY <1>0, <1>4, <2>1, MgrMove
  <2>3. Admits(b, mgr'[b], mcache[b], b \in mq', nameToClusterID'[b], clusterIDToName', cleared')
    BY <1>1, <1>4, <2>1, <2>2 DEF Admits
  <2> QED BY <1>4, <2>2, <2>3, AdmissionOthers
<1>5. ASSUME NEW b \in Binding, MGet(b) PROVE Admission'
  <2>1. /\ UNCHANGED <<mcache, nameToClusterID, clusterIDToName, cleared>> /\ mq' = mq \ {b}
        /\ \A a \in Binding \ {b} : mgr'[a] = mgr[a]
    BY <1>0, <1>5 DEF MGet, aux
  <2>2. mcache[b] \in Object /\ (InUseCopy(mcache[b]) => mcache[b].mfin)
    BY <1>0, <1>1 DEF Admits
  <2>3. CASE MStart(mcache[b]) = "idle"
    <3>1. mgr'[b].pc = "idle" /\ ~InUseCopy(mcache[b])
      BY <1>0, <1>5, <2>2, <2>3, StartFresh DEF MGet, IdleM, InUseCopy
    <3>2. Admits(b, mgr'[b], mcache[b], b \in mq', nameToClusterID'[b], clusterIDToName', cleared')
      BY <1>2, <3>1 DEF Admits
    <3> QED BY <2>1, <3>2, AdmissionOthers
  <2>4. CASE MStart(mcache[b]) # "idle"
    <3>1. mgr'[b].pc = MStart(mcache[b]) /\ mgr'[b].c = mcache[b]
      BY <1>0, <1>5, <2>4 DEF MGet
    <3>2. Admits(b, mgr'[b], mcache[b], b \in mq', nameToClusterID'[b], clusterIDToName', cleared')
      BY <2>2, <2>4, <3>1, StartFresh DEF Admits
    <3> QED BY <2>1, <3>2, AdmissionOthers
  <2> QED BY <2>3, <2>4
<1>6. ASSUME NEW b \in Binding, NEW d, NEW again \in BOOLEAN, MWrite(b, d, again), mgr[b].pc # "idle",
             again \/ ~InUseCopy(mgr[b].c) \/ (mgr[b].pc = "addFinalizer")
      PROVE  Admission'
  <2>1. ASSUME b \notin mq', InUseCopy(mcache[b]) PROVE FALSE
    <3>1. b \notin mq /\ ~again
      BY <1>6, <2>1 DEF MWrite
    <3>2. mgr[b].c = mcache[b]
      BY <1>1, <1>6, <3>1 DEF Admits
    <3>3. mcache[b].mfin
      BY <1>1, <2>1 DEF Admits
    <3>4. mgr[b].pc = "addFinalizer" => ~mgr[b].c.mfin
      BY <1>1 DEF Admits
    <3> QED BY <1>6, <2>1, <3>1, <3>2, <3>3, <3>4
  <2>2. /\ MDone(b) /\ UNCHANGED <<mcache, nameToClusterID, clusterIDToName, cleared>>
        /\ mq' \in {mq, mq \union {b}}
    BY <1>6 DEF MWrite, aux
  <2> QED BY <1>3, <2>1, <2>2
<1>7. ASSUME NEW b \in Binding,
             MAddFinalizer(b) \/ MInitStatus(b) \/ MReady(b) \/ MFail(b) \/ MRemoveFinalizer(b)
      PROVE  Admission'
  <2>1. CASE MAddFinalizer(b)
    BY <1>6, <2>1 DEF MAddFinalizer
  <2>2. CASE MInitStatus(b)
    <3>1. mgr[b].c.phase = "" /\ mgr[b].pc # "idle"
      BY <1>1, <2>2 DEF MInitStatus, Admits
    <3> QED BY <1>6, <2>2, <3>1 DEF MInitStatus, InUseCopy
  <2>3. CASE MReady(b) /\ mgr[b].c.phase # "Ready"
    BY <1>6, <2>3 DEF MReady, InUseCopy
  <2>4. CASE MReady(b) /\ mgr[b].c.phase = "Ready"
    <3>1. /\ MDone(b) /\ UNCHANGED <<mcache, mq, nameToClusterID, clusterIDToName, cleared>>
          /\ mgr[b].pc = "ready"
      BY <2>4 DEF MReady, aux
    <3>2. Owned(b, mgr[b].c.id, clusterIDToName, cleared)
      BY <1>1, <3>1 DEF Admits, Accepted
    <3>3. b \notin mq => mgr[b].c = mcache[b]
      BY <1>1, <3>1 DEF Admits
    <3> QED BY <1>3, <3>1, <3>2, <3>3
  <2>5. CASE MFail(b)
    BY <1>6, <2>5 DEF MFail
  <2>6. CASE MRemoveFinalizer(b)
    <3>1. mgr[b].c.deleting
      BY <1>0, <2>6 DEF MRemoveFinalizer, Flight, Removing
    <3> QED BY <1>6, <2>6, <3>1 DEF MRemoveFinalizer, InUseCopy
  <2> QED BY <1>7, <2>1, <2>2, <2>3, <2>4, <2>5, <2>6
<1>8. ASSUME NEW b \in Binding, MValidate(b) PROVE Admission'
  <2> DEFINE i == mgr[b].c.id
             sameID == nameToClusterID[b] \in {None, i}
             free == clusterIDToName[i] \in {None, b}
  <2>1. mgr[b].pc = "validate" /\ i \in ClusterID /\ None \notin Binding
    BY <1>8, ConstantsAssumption DEF MValidate, Homes, Home
  <2>2. /\ nameToClusterID' = IF sameID THEN [nameToClusterID EXCEPT ![b] = i] ELSE nameToClusterID
        /\ clusterIDToName' = IF sameID /\ free THEN [clusterIDToName EXCEPT ![i] = b]
                              ELSE clusterIDToName
        /\ MGo(b, IF sameID /\ free THEN "connect" ELSE "fail", 1)
        /\ UNCHANGED <<mcache, mq, cleared>>
    BY <1>8 DEF MValidate, MSet, aux
  <2>3. /\ mgr'[b].c = mgr[b].c /\ mgr'[b].pc = (IF sameID /\ free THEN "connect" ELSE "fail")
        /\ \A a \in Binding \ {b} : mgr'[a] = mgr[a] /\ nameToClusterID'[a] = nameToClusterID[a]
    BY <1>0, <2>2 DEF MGo
  <2>4. ASSUME NEW a \in Binding \ {b}, NEW j, Owned(a, j, clusterIDToName, cleared)
        PROVE  Owned(a, j, clusterIDToName', cleared')
    <3>1. CASE sameID /\ free /\ j = i
      BY <2>1, <2>2, <2>4, <3>1 DEF Owned
    <3>2. CASE ~(sameID /\ free)
      BY <2>2, <2>4, <3>2 DEF Owned
    <3>3. CASE sameID /\ free /\ j # i
      <4>1. clusterIDToName' = [clusterIDToName EXCEPT ![i] = b]
        BY <2>2, <3>3
      <4>2. clusterIDToName'[j] = clusterIDToName[j]
        BY <1>0, <3>3, <4>1
      <4> QED BY <2>2, <2>4, <4>2 DEF Owned
    <3> QED BY <3>1, <3>2, <3>3
  <2>5. sameID /\ free => nameToClusterID'[b] = i /\ clusterIDToName'[i] = b
    BY <1>0, <2>1, <2>2
  <2> HIDE DEF sameID, free
  <2>6. Admits(b, mgr'[b], mcache[b], b \in mq', nameToClusterID'[b], clusterIDToName', cleared')
    <3>1. b \notin mq => mgr[b].c = mcache[b]
      BY <1>1, <2>1 DEF Admits
    <3>2. InUseCopy(mcache[b]) => mcache[b].mfin
      BY <1>1 DEF Admits
    <3>3. CASE sameID /\ free
      <4>1. mgr'[b].pc = "connect"
        BY <2>3, <3>3
      <4> QED BY <2>2, <2>3, <2>5, <3>1, <3>2, <3>3, <4>1 DEF Admits, Owned, i
    <3>4. CASE ~(sameID /\ free)
      <4>1. mgr'[b].pc = "fail"
        BY <2>3, <3>4
      <4> QED BY <2>2, <2>3, <3>1, <3>2, <4>1 DEF Admits, Accepted
    <3> QED BY <3>3, <3>4
  <2> QED BY <2>2, <2>3, <2>4, <2>6, AdmissionOthers
<1>9. ASSUME NEW b \in Binding, MConnect(b) \/ \E k \in 1..3 : MDeploy(b, k) \/ MDelete(b, k)
      PROVE  Admission'
  <2>1. /\ mgr[b].pc \in {"connect", "deploy", "delete"}
        /\ UNCHANGED <<mcache, mq, nameToClusterID, clusterIDToName, cleared>>
    BY <1>9 DEF MConnect, MDeploy, MDelete, aux
  <2>2. \/ mgr[b].pc \in Accepted /\ \E k \in 1..3 : \/ MGo(b, "deploy", k) \/ MGo(b, "ready", k)
                                                     \/ MGo(b, "fail", k)
        \/ \E k \in 1..3 : MGo(b, "delete", k) \/ MGo(b, "unmap", k)
    <3>1. CASE MConnect(b)
      BY <3>1 DEF MConnect, MSet, Accepted
    <3>2. ASSUME NEW k \in 1..3, MDeploy(b, k)
          PROVE  /\ mgr[b].pc = "deploy"
                 /\ MGo(b, "fail", 1) \/ MGo(b, "ready", 1) \/ (k # 3 /\ MGo(b, "deploy", k + 1))
      BY <3>2, Zenon DEF MDeploy, MSet
    <3>3. ASSUME NEW k \in 1..3, MDelete(b, k)
          PROVE  MGo(b, "unmap", 1) \/ (k # 3 /\ MGo(b, "delete", k + 1))
      BY <3>3, Zenon DEF MDelete, MSet
    <3>4. /\ \A k \in 1..3 : k # 3 => k + 1 \in 1..3
          /\ 1 \in 1..3 /\ "deploy" \in Accepted
      BY DEF Accepted
    <3> QED BY <1>9, <3>1, <3>2, <3>3, <3>4
  <2>3. /\ {"deploy", "ready", "fail", "delete", "unmap"} \subseteq Building \union Removing
        /\ "delete" \notin Accepted /\ "unmap" \notin Accepted
    BY DEF Building, Removing, Accepted
  <2>4. mgr[b].pc # "idle"
    BY <2>1
  <2> QED BY <1>4, <2>1, <2>2, <2>3, <2>4
<1>10. ASSUME NEW b \in Binding, MCleanupClusterIDMappings(b) PROVE Admission'
  <2> DEFINE i == mgr[b].c.id
  <2>1. /\ mgr[b].pc = "unmap" /\ i \in ClusterID /\ None \notin Binding
        /\ MGo(b, "removeFinalizer", 1) /\ UNCHANGED <<mcache, mq>>
        /\ nameToClusterID' = [nameToClusterID EXCEPT ![b] = None]
        /\ clusterIDToName' = [clusterIDToName EXCEPT ![i] = None]
        /\ cleared' = IF clusterIDToName[i] \in {None, b} THEN cleared ELSE cleared \union {i}
    BY <1>10, ConstantsAssumption DEF MCleanupClusterIDMappings, MSet, Homes, Home
  <2>2. /\ mgr'[b].pc = "removeFinalizer" /\ mgr'[b].c = mgr[b].c
        /\ \A a \in Binding \ {b} : mgr'[a] = mgr[a] /\ nameToClusterID'[a] = nameToClusterID[a]
    BY <1>0, <2>1 DEF MGo
  <2>3. ASSUME NEW a \in Binding \ {b}, NEW j, Owned(a, j, clusterIDToName, cleared)
        PROVE  Owned(a, j, clusterIDToName', cleared')
    <3>1. CASE j \in cleared
      BY <2>1, <3>1 DEF Owned
    <3>2. CASE clusterIDToName[j] = a /\ j = i
      <4>1. clusterIDToName[i] \notin {None, b}
        BY <2>1, <3>2
      <4> QED BY <2>1, <3>2, <4>1 DEF Owned
    <3>3. CASE clusterIDToName[j] = a /\ j # i
      <4>1. clusterIDToName'[j] = clusterIDToName[j]
        BY <1>0, <2>1, <3>3
      <4> QED BY <3>3, <4>1 DEF Owned
    <3> QED BY <2>3, <3>1, <3>2, <3>3 DEF Owned
  <2>4. Admits(b, mgr'[b], mcache[b], b \in mq', nameToClusterID'[b], clusterIDToName', cleared')
    <3>1. /\ b \notin mq => mgr[b].c = mcache[b]
          /\ InUseCopy(mcache[b]) => mcache[b].mfin
      BY <1>1, <2>1 DEF Admits
    <3> QED BY <2>1, <2>2, <3>1 DEF Admits, Accepted
  <2> QED BY <2>1, <2>2, <2>3, <2>4, AdmissionOthers
<1>11. ASSUME NEW b \in Binding, MError(b) PROVE Admission'
  <2>1. UNCHANGED <<mcache, nameToClusterID, clusterIDToName, cleared>> /\ mgr[b].pc # "idle"
    BY <1>11 DEF MError
  <2>2. CASE mgr[b].pc \in {"connect", "deploy"}
    <3>1. MGo(b, "fail", 1) /\ UNCHANGED mq /\ "fail" \in Building /\ 1 \in 1..3
      BY <1>11, <2>2 DEF MError, MSet, Building
    <3>2. "fail" \notin Accepted /\ "fail" # "initStatus"
      BY DEF Accepted
    <3> QED BY <1>4, <2>1, <3>1, <3>2
  <2>3. CASE mgr[b].pc \notin {"connect", "deploy"}
    <3>1. MDone(b) /\ mq' = mq \union {b}
      BY <1>11, <2>3 DEF MError, MRetry
    <3> QED BY <1>3, <2>1, <3>1
  <2> QED BY <2>2, <2>3
<1>12. ASSUME NEW b \in Binding, MDeliver(b) PROVE Admission'
  <2>1. /\ UNCHANGED <<mgr, nameToClusterID, clusterIDToName, cleared>> /\ mq' = mq \union {b}
        /\ mcache'[b] = obj[b] /\ \A a \in Binding \ {b} : mcache'[a] = mcache[a]
    BY <1>0, <1>12 DEF MDeliver, aux
  <2>2. InUseCopy(obj[b]) => obj[b].mfin
    BY DEF ReadyHeld
  <2>3. Admits(b, mgr[b], obj[b], TRUE, nameToClusterID[b], clusterIDToName, cleared)
    BY <1>1, <2>2 DEF Admits
  <2>4. \A a \in Binding \ {b} : a \in mq' <=> a \in mq
    BY <2>1
  <2>5. ASSUME NEW a \in Binding
        PROVE  Admits(a, mgr'[a], mcache'[a], a \in mq', nameToClusterID'[a], clusterIDToName', cleared')
    <3>1. CASE a = b
      BY <2>1, <2>3, <3>1 DEF Admits
    <3>2. CASE a # b
      BY <1>1, <2>1, <2>4, <3>2 DEF Admits
    <3> QED BY <3>1, <3>2
  <2> QED BY <2>5 DEF Admission
<1>13. CASE MRestart
  <2>1. /\ mcache' = obj /\ \A b \in Binding : mgr'[b].pc = "idle" /\ (obj[b].exists => b \in mq')
    BY <1>13 DEF MRestart, IdleM
  <2>2. \A b \in Binding : InUseCopy(obj[b]) => obj[b].mfin /\ b \in mq'
    BY <2>1 DEF ReadyHeld, InUseCopy
  <2> QED BY <1>2, <2>1, <2>2 DEF Admission, Admits
<1>14. ASSUME UNCHANGED <<mgr, mcache, mq, nameToClusterID, clusterIDToName, cleared>> PROVE Admission'
  BY <1>14 DEF Admission
<1>15. CASE SyncerNext \/ EnvNext \/ MDeliverStack \/ UNCHANGED vars
  <2>1. UNCHANGED <<mgr, mcache, mq, nameToClusterID, clusterIDToName, cleared>>
    BY <1>15 DEF SyncerNext, SStart, SStop, SDeliver, SReconcile, SGet, SAddFinalizer,
         SRemoveFinalizer, SWrite, SCheckNodes, SCheckVirtual, SCheckPhysical, SError, SWork,
         NodeGet, NodeCreate, PodRuns, NodeDrain, CopyDelete, EnvNext, UserCreate, UserDelete,
         UserChangeID, OwnerGC, MDeliverStack, vars, mvars, aux
  <2> QED BY <1>14, <2>1
<1>16. ASSUME NEW b \in Binding, MReconcile(b) PROVE Admission'
  BY <1>5, <1>7, <1>8, <1>9, <1>10, <1>16 DEF MReconcile
<1> QED BY <1>11, <1>12, <1>13, <1>15, <1>16 DEF Next, ManagerNext

----------------------------------------------------------------------------
(* Which identifier a deployed syncer belongs to.                          *)

\* The manager, with copy c in its cache and reconcile m in flight, is through with
\* incarnation u of a binding: it builds nothing for it any more.
Over(c, m, u) == /\ c.uid = u => Dying(c)
                 /\ m.pc \in Building => m.c.uid # u

\* The binding of a syncer o deployed under i has been read, and is recorded with i,
\* or the manager is through with it, or forgot what it had recorded.
Traced(o, i, m, c, id, lost) ==
  /\ o.uid <= c.uid
  /\ m.pc # "idle" => o.uid <= m.c.uid
  /\ id = i \/ Over(c, m, o.uid) \/ o.name \in lost
SyncerMapped == \A i \in ClusterID :
  LET o == stack[i]["syncer"] IN
  o # NoOwner => /\ o.name \in Binding
                 /\ Traced(o, i, mgr[o.name], mcache[o.name], nameToClusterID[o.name], forgot)

\* What a step may do to a reconcile, the cached copy and the record of binding b.
Turn(b) ==
  LET m == mgr[b]  n == mgr'[b]  c == mcache[b]  d == mcache'[b]
      id == nameToClusterID[b]  new == nameToClusterID'[b]
  IN
  \/ d = c /\ new = id /\ (n = m \/ n.pc = "idle")
  \/ d = c /\ new = id /\ n.c = c /\ n.pc = MStart(c)
  \/ /\ d = c /\ (new = id \/ id = None) /\ n.c = m.c /\ m.pc # "idle"
     /\ n.pc \in Building => m.pc \in Building
  \/ d = c /\ n.c = m.c /\ m.pc \in Removing /\ n.pc \in Removing
  \/ d = obj[b] /\ n = m /\ new = id
  \/ d = obj[b] /\ n.pc = "idle" /\ (id # None => b \in forgot')

LEMMA TurnKeeps ==
  ASSUME IInv, NEW b \in Binding, Turn(b), forgot \subseteq forgot', NEW o \in Owner, o.name = b,
         NEW i \in ClusterID,
         Traced(o, i, mgr[b], mcache[b], nameToClusterID[b], forgot)
  PROVE  Traced(o, i, mgr'[b], mcache'[b], nameToClusterID'[b], forgot')
<1> DEFINE m == mgr[b]  n == mgr'[b]  c == mcache[b]  d == mcache'[b]
           id == nameToClusterID[b]  new == nameToClusterID'[b]
<1>0. /\ m.c \in Object /\ c \in Object /\ obj[b] \in Object /\ o.uid \in Nat /\ i # None
      /\ m.c.uid \in Nat /\ c.uid \in Nat /\ obj[b].uid \in Nat
  BY ConstantsAssumption DEF IInv, TypeOK, Object, Owner
<1>1. /\ NoLater(c, obj[b])
      /\ m.pc # "idle" => NoLater(m.c, c)
      /\ m.pc \in Removing => Dying(m.c) /\ m.pc # "idle"
  BY DEF IInv, Core, Past, Flight, Removing, Dying
<1>2. "idle" \notin Building /\ Building \intersect Removing = {} /\ "idle" \notin Removing
  BY DEF Building, Removing
<1>3. /\ o.uid <= c.uid
      /\ m.pc # "idle" => o.uid <= m.c.uid
      /\ id = i \/ Over(c, m, o.uid) \/ o.name \in forgot
  BY DEF Traced
<1>4. /\ o.uid <= obj[b].uid
      /\ Over(c, m, o.uid) => (obj[b].uid = o.uid => Dying(obj[b]))
  BY <1>0, <1>1, <1>3 DEF NoLater, Over
<1>5. /\ MStart(c) \in Building => ~Dying(c)
  BY <1>0, MStartReads DEF Dying
<1> SUFFICES /\ o.uid <= d.uid
             /\ n.pc # "idle" => o.uid <= n.c.uid
             /\ new = i \/ Over(d, n, o.uid) \/ o.name \in forgot'
  BY DEF Traced
<1>6. CASE d = c /\ new = id /\ (n = m \/ n.pc = "idle")
  BY <1>2, <1>3, <1>6 DEF Over
<1>7. CASE d = c /\ new = id /\ n.c = c /\ n.pc = MStart(c)
  BY <1>3, <1>5, <1>7 DEF Over
<1>8. CASE /\ d = c /\ (new = id \/ id = None) /\ n.c = m.c /\ m.pc # "idle"
           /\ n.pc \in Building => m.pc \in Building
  BY <1>0, <1>3, <1>8 DEF Over
<1>9. CASE d = c /\ n.c = m.c /\ m.pc \in Removing /\ n.pc \in Removing
  <2>1. c.uid = o.uid => m.c.uid = c.uid
    BY <1>0, <1>1, <1>3, <1>9 DEF NoLater
  <2>2. c.uid = o.uid => Dying(c)
    BY <1>1, <1>9, <2>1 DEF NoLater
  <2> QED BY <1>1, <1>2, <1>3, <1>9, <2>2 DEF Over
<1>10. CASE d = obj[b] /\ n = m /\ new = id
  BY <1>3, <1>4, <1>10 DEF Over
<1>11. CASE d = obj[b] /\ n.pc = "idle" /\ (id # None => b \in forgot')
  BY <1>0, <1>2, <1>3, <1>4, <1>11 DEF Over
<1> QED BY <1>6, <1>7, <1>8, <1>9, <1>10, <1>11 DEF Turn

LEMMA AllTurns ==
  ASSUME IInv, [Next]_vars, NEW b \in Binding
  PROVE  Turn(b) /\ forgot \subseteq forgot'
<1>0. /\ mcache \in [Binding -> Object]
      /\ mgr \in [Binding -> [pc : MPc, k : 1..3, c : Object]]
      /\ nameToClusterID \in [Binding -> ClusterID \union {None}]
  BY DEF IInv, TypeOK
<1>1. ASSUME UNCHANGED <<mcache, mgr, nameToClusterID>> PROVE Turn(b)
  BY <1>1 DEF Turn
<1>2. ASSUME NEW a \in Binding, MDone(a), UNCHANGED <<mcache, nameToClusterID>> PROVE Turn(b)
  BY <1>0, <1>2 DEF Turn, MDone, IdleM
<1>3. ASSUME NEW a \in Binding, NEW pc \in Building \union Removing, NEW k \in 1..3, MGo(a, pc, k),
             mgr[a].pc # "idle", pc \in Building => mgr[a].pc \in Building,
             UNCHANGED mcache, \A x \in Binding : nameToClusterID[x] \in {None, nameToClusterID'[x]},
             \A x \in Binding \ {a} : nameToClusterID'[x] = nameToClusterID[x]
      PROVE  Turn(b)
  <2>1. pc \in MPc
    BY DEF Building, Removing, MPc
  <2>2. /\ mgr'[a].c = mgr[a].c /\ mgr'[a].pc = pc
        /\ \A x \in Binding \ {a} : mgr'[x] = mgr[x]
    BY <1>0, <1>3, <2>1, MgrMove
  <2>3. CASE b = a
    BY <1>3, <2>2, <2>3 DEF Turn
  <2>4. CASE b # a
    BY <1>3, <2>2, <2>4 DEF Turn
  <2> QED BY <2>3, <2>4
<1>4. ASSUME NEW a \in Binding, MGet(a) PROVE Turn(b) /\ UNCHANGED forgot
  <2>1. UNCHANGED <<mcache, nameToClusterID, forgot>> /\ \A x \in Binding \ {a} : mgr'[x] = mgr[x]
    BY <1>0, <1>4 DEF MGet, aux
  <2>2. CASE b = a /\ MStart(mcache[b]) # "idle"
    BY <1>0, <1>4, <2>1, <2>2 DEF Turn, MGet
  <2>3. CASE b = a /\ MStart(mcache[b]) = "idle"
    BY <1>0, <1>4, <2>1, <2>3 DEF Turn, MGet, IdleM
  <2>4. CASE b # a
    BY <2>1, <2>4 DEF Turn
  <2> QED BY <2>2, <2>3, <2>4
<1>5. ASSUME NEW a \in Binding,
             MAddFinalizer(a) \/ MInitStatus(a) \/ MReady(a) \/ MFail(a) \/ MRemoveFinalizer(a)
      PROVE  Turn(b) /\ UNCHANGED forgot
  BY <1>2, <1>5 DEF MAddFinalizer, MInitStatus, MReady, MFail, MRemoveFinalizer, MWrite, aux
<1>6. ASSUME NEW a \in Binding, MValidate(a) PROVE Turn(b) /\ UNCHANGED forgot
  <2>1. \E pc \in Building, k \in 1..3 : MGo(a, pc, k)
    BY <1>6, Moves
  <2>2. mgr[a].pc \in Building /\ mgr[a].pc # "idle" /\ UNCHANGED <<mcache, forgot>>
    BY <1>6 DEF MValidate, Building, aux
  <2>3. /\ \A x \in Binding : nameToClusterID[x] \in {None, nameToClusterID'[x]}
        /\ \A x \in Binding \ {a} : nameToClusterID'[x] = nameToClusterID[x]
    <3>1. CASE nameToClusterID[a] \in {None, mgr[a].c.id}
      <4>1. nameToClusterID' = [nameToClusterID EXCEPT ![a] = mgr[a].c.id]
        BY <1>6, <3>1 DEF MValidate
      <4> QED BY <1>0, <3>1, <4>1
    <3>2. CASE nameToClusterID[a] \notin {None, mgr[a].c.id}
      BY <1>6, <3>2 DEF MValidate
    <3> QED BY <3>1, <3>2
  <2> QED BY <1>3, <2>1, <2>2, <2>3
<1>7. ASSUME NEW a \in Binding, MConnect(a) \/ (\E k \in 1..3 : MDeploy(a, k)) PROVE Turn(b) /\ UNCHANGED forgot
  <2>1. \E pc \in Building, k \in 1..3 : MGo(a, pc, k)
    BY <1>7, Moves
  <2>2. /\ mgr[a].pc \in Building /\ mgr[a].pc # "idle"
        /\ UNCHANGED <<mcache, nameToClusterID, forgot>>
    BY <1>7 DEF MConnect, MDeploy, Building, aux
  <2> QED BY <1>3, <2>1, <2>2
<1>8. ASSUME NEW a \in Binding, NEW k \in 1..3, MDelete(a, k) PROVE Turn(b) /\ UNCHANGED forgot
  <2>1. \E pc \in Removing, l \in 1..3 : MGo(a, pc, l)
    BY <1>8, Moves
  <2>2. mgr[a].pc # "idle" /\ UNCHANGED <<mcache, nameToClusterID, forgot>>
    BY <1>8 DEF MDelete, aux
  <2>3. Building \intersect Removing = {}
    BY DEF Building, Removing
  <2> QED BY <1>3, <2>1, <2>2, <2>3
<1>9. ASSUME NEW a \in Binding, MCleanupClusterIDMappings(a) PROVE Turn(b) /\ UNCHANGED forgot
  <2>1. /\ mgr[a].pc \in Removing /\ MGo(a, "removeFinalizer", 1) /\ UNCHANGED <<mcache, forgot>>
        /\ nameToClusterID' = [nameToClusterID EXCEPT ![a] = None]
    BY <1>9 DEF MCleanupClusterIDMappings, MSet, Removing
  <2>2. /\ mgr'[a].c = mgr[a].c /\ mgr'[a].pc = "removeFinalizer"
        /\ \A x \in Binding \ {a} : mgr'[x] = mgr[x] /\ nameToClusterID'[x] = nameToClusterID[x]
    BY <1>0, <2>1 DEF MGo
  <2>3. CASE b = a
    BY <2>1, <2>2, <2>3 DEF Turn, Removing
  <2>4. CASE b # a
    BY <2>1, <2>2, <2>4 DEF Turn
  <2> QED BY <2>1, <2>3, <2>4
<1>10. ASSUME NEW a \in Binding, MError(a) PROVE Turn(b) /\ UNCHANGED forgot
  <2>1. UNCHANGED <<mcache, nameToClusterID, forgot>> /\ mgr[a].pc # "idle"
    BY <1>10 DEF MError
  <2>2. CASE mgr[a].pc \in {"connect", "deploy"}
    <3>1. MGo(a, "fail", 1) /\ "fail" \in Building /\ mgr[a].pc \in Building /\ 1 \in 1..3
      BY <1>10, <2>2 DEF MError, MSet, Building
    <3> QED BY <1>3, <2>1, <3>1
  <2>3. CASE mgr[a].pc \notin {"connect", "deploy"}
    BY <1>2, <1>10, <2>1, <2>3 DEF MError, MRetry
  <2> QED BY <2>2, <2>3
<1>11. ASSUME NEW a \in Binding, MDeliver(a) PROVE Turn(b) /\ UNCHANGED forgot
  <2>1. /\ UNCHANGED <<mgr, nameToClusterID, forgot>>
        /\ mcache'[a] = obj[a] /\ \A x \in Binding \ {a} : mcache'[x] = mcache[x]
    BY <1>0, <1>11 DEF MDeliver, aux
  <2> QED BY <2>1 DEF Turn
<1>12. CASE MRestart
  <2>1. mcache' = obj /\ mgr'[b].pc = "idle" /\ forgot' = forgot \union {a \in Binding : nameToClusterID[a] # None}
    BY <1>12 DEF MRestart, IdleM
  <2> QED BY <2>1 DEF Turn
<1>13. CASE SyncerNext \/ EnvNext \/ MDeliverStack \/ UNCHANGED vars
  <2>1. UNCHANGED <<mgr, mcache, nameToClusterID, forgot>>
    BY <1>13 DEF SyncerNext, SStart, SStop, SDeliver, SReconcile, SGet, SAddFinalizer,
         SRemoveFinalizer, SWrite, SCheckNodes, SCheckVirtual, SCheckPhysical, SError, SWork,
         NodeGet, NodeCreate, PodRuns, NodeDrain, CopyDelete, EnvNext, UserCreate, UserDelete,
         UserChangeID, OwnerGC, MDeliverStack, vars, mvars, aux
  <2> QED BY <1>1, <2>1
<1>14. ASSUME NEW a \in Binding, MReconcile(a) PROVE Turn(b) /\ UNCHANGED forgot
  BY <1>4, <1>5, <1>6, <1>7, <1>8, <1>9, <1>14 DEF MReconcile
<1> QED BY <1>10, <1>11, <1>12, <1>13, <1>14 DEF Next, ManagerNext

LEMMA SyncersStep ==
  ASSUME IInv, Homes, OwnersHome, Admission, SyncerMapped, OneSyncerPerBinding, [Next]_vars
  PROVE  SyncerMapped' /\ OneSyncerPerBinding'
<1>0. /\ "syncer" \in Part /\ Owners /\ Core /\ None \notin Binding
      /\ \A i \in ClusterID : stack[i]["syncer"] \in Owner
      /\ \A b \in Binding : mgr[b].c \in Object /\ mgr[b].c.uid \in Nat
  BY ConstantsAssumption DEF IInv, TypeOK, Part, Object
<1> DEFINE Deploys(b, i) == /\ mgr[b].pc = "deploy" /\ i = mgr[b].c.id
                            /\ stack'[i]["syncer"] = [name |-> b, uid |-> mgr[b].c.uid]
<1>1. ASSUME NEW i \in ClusterID
      PROVE  \/ stack'[i]["syncer"] \in {stack[i]["syncer"], NoOwner}
             \/ \E b \in Binding : Deploys(b, i)
  BY <1>0, Deployments
<1>2. ASSUME NEW b \in Binding, NEW i \in ClusterID, Deploys(b, i)
      PROVE  LET o == stack'[i]["syncer"] IN
             /\ o \in Owner /\ o.name = b /\ nameToClusterID[b] = i
             /\ Traced(o, i, mgr[b], mcache[b], nameToClusterID[b], forgot)
  <2>1. stack'[i]["syncer"] = [name |-> b, uid |-> mgr[b].c.uid]
    BY <1>2
  <2>2. nameToClusterID[b] = i
    BY <1>2 DEF Admission, Admits, Accepted
  <2>3. mgr[b].c.uid <= mcache[b].uid /\ mgr[b].c.uid <= mgr[b].c.uid
    BY <1>0, <1>2 DEF Core, Past, NoLater
  <2> QED BY <1>0, <2>1, <2>2, <2>3 DEF Traced, Owner
<1> HIDE DEF Deploys
<1>3. SyncerMapped'
  <2> SUFFICES ASSUME NEW i \in ClusterID, stack'[i]["syncer"] # NoOwner
               PROVE  LET o == stack'[i]["syncer"] IN
                      /\ o.name \in Binding
                      /\ Traced(o, i, mgr'[o.name], mcache'[o.name], nameToClusterID'[o.name], forgot')
    BY DEF SyncerMapped
  <2> DEFINE o == stack'[i]["syncer"]
  <2>1. /\ o \in Owner /\ o.name \in Binding
        /\ Traced(o, i, mgr[o.name], mcache[o.name], nameToClusterID[o.name], forgot)
    <3>1. CASE stack'[i]["syncer"] = stack[i]["syncer"]
      BY <1>0, <3>1 DEF SyncerMapped
    <3>2. CASE \E b \in Binding : Deploys(b, i)
      BY <1>2, <3>2
    <3> QED BY <1>1, <3>1, <3>2
  <2> HIDE DEF o
  <2>2. Traced(o, i, mgr'[o.name], mcache'[o.name], nameToClusterID'[o.name], forgot')
    BY <2>1, TurnKeeps, AllTurns
  <2> QED BY <2>1, <2>2 DEF o
<1>4. ASSUME NEW b \in Binding, NEW i \in ClusterID, NEW j \in ClusterID, Deploys(b, i), i # j,
             stack[j]["syncer"] # NoOwner, stack'[i]["syncer"] = stack[j]["syncer"]
      PROVE  b \in forgot /\ <<b, i>> \in touched /\ <<b, j>> \in touched
  <2>1. /\ stack[j]["syncer"] = [name |-> b, uid |-> mgr[b].c.uid]
        /\ mgr[b].pc = "deploy" /\ mgr[b].pc \in Building /\ i = mgr[b].c.id
    BY <1>4 DEF Deploys, Building
  <2>2. ~Over(mcache[b], mgr[b], mgr[b].c.uid) /\ nameToClusterID[b] = i
    BY <1>2, <1>4, <2>1 DEF Over
  <2>3. Traced(stack[j]["syncer"], j, mgr[b], mcache[b], nameToClusterID[b], forgot)
    BY <1>4, <2>1 DEF SyncerMapped
  <2>4. b \in forgot
    BY <1>4, <2>1, <2>2, <2>3 DEF Traced
  <2>5. Home(b, mgr[b].c.uid, i, obj[b], touched) /\ Home(b, mgr[b].c.uid, j, obj[b], touched)
    BY <1>0, <1>4, <2>1 DEF Homes, OwnersHome
  <2>6. obj[b].exists /\ obj[b].uid = mgr[b].c.uid
    BY <1>0, <2>1 DEF Core, Flight, StillHeld, Held, Alive
  <2> QED BY <1>4, <2>4, <2>5, <2>6 DEF Home
<1>5. OneSyncerPerBinding'
  <2> SUFFICES ASSUME NEW i \in ClusterID, NEW j \in ClusterID, stack'[i]["syncer"] # NoOwner,
                      stack'[i]["syncer"] = stack'[j]["syncer"], i # j
               PROVE  LET o == stack'[i]["syncer"] IN
                      o.name \in forgot' /\ <<o.name, i>> \in touched' /\ <<o.name, j>> \in touched'
    BY DEF OneSyncerPerBinding
  <2>1. \A b \in Binding : forgot \subseteq forgot'
    BY AllTurns
  <2>2. touched \subseteq touched'
    BY ObjectsOnward
  <2>3. \A b \in Binding, x \in ClusterID :
          Deploys(b, x) => x = mgr[b].c.id /\ stack'[x]["syncer"].name = b
    BY DEF Deploys
  <2>4. CASE stack'[i]["syncer"] = stack[i]["syncer"] /\ stack'[j]["syncer"] = stack[j]["syncer"]
    <3>1. LET o == stack[i]["syncer"] IN
          o.name \in forgot /\ <<o.name, i>> \in touched /\ <<o.name, j>> \in touched
      BY <2>4 DEF OneSyncerPerBinding
    <3>2. stack[i]["syncer"].name \in Binding
      BY <2>4 DEF SyncerMapped
    <3> QED BY <2>1, <2>2, <2>4, <3>1, <3>2
  <2>5. ASSUME NEW b \in Binding, Deploys(b, i), stack'[j]["syncer"] = stack[j]["syncer"]
        PROVE  LET o == stack'[i]["syncer"] IN
               o.name \in forgot' /\ <<o.name, i>> \in touched' /\ <<o.name, j>> \in touched'
    BY <1>4, <2>1, <2>2, <2>3, <2>5
  <2>6. ASSUME NEW b \in Binding, Deploys(b, j), stack'[i]["syncer"] = stack[i]["syncer"]
        PROVE  LET o == stack'[i]["syncer"] IN
               o.name \in forgot' /\ <<o.name, i>> \in touched' /\ <<o.name, j>> \in touched'
    BY <1>4, <2>1, <2>2, <2>3, <2>6
  <2> QED BY <1>1, <2>3, <2>4, <2>5, <2>6
<1> QED BY <1>3, <1>5

\* What the pairing of bindings and identifiers rests on.
Pairing == /\ Homes /\ OwnersHome /\ Admission /\ ReadyHeld
           /\ SyncerMapped /\ OneSyncerPerBinding

LEMMA PairingInit == Init => Pairing
<1> SUFFICES ASSUME Init PROVE Pairing
  OBVIOUS
<1>1. /\ \A b \in Binding : obj[b] = Gone(0) /\ mcache[b] = Gone(0) /\ mgr[b].pc = "idle"
      /\ \A i \in ClusterID, p \in Part : stack[i][p] = NoOwner
      /\ "syncer" \in Part
  BY DEF Init, IdleM, Part
<1>2. ~Gone(0).exists
  BY DEF Gone, Fresh
<1>3. Homes /\ OwnersHome
  BY <1>1, <1>2 DEF Homes, Self, OwnersHome
<1>4. Admission /\ ReadyHeld
  BY <1>1, <1>2 DEF Admission, Admits, Accepted, InUseCopy, ReadyHeld
<1>5. SyncerMapped /\ OneSyncerPerBinding
  BY <1>1 DEF SyncerMapped, OneSyncerPerBinding
<1> QED BY <1>3, <1>4, <1>5 DEF Pairing

LEMMA PairingStep == IInv /\ Pairing /\ [Next]_vars => Pairing'
BY HomesStep, ReadyHeldStep, AdmissionStep, SyncersStep DEF Pairing

\* Bindings and identifiers stay paired one to one through stale copies, users who write
\* other identifiers, clashes, deletions and restarts of the manager with empty maps, but
\* for the two cases the property names: two bindings that the manager is done with are
\* Ready under one identifier only if a deletion removed the record of another binding,
\* and one binding has two syncers only if a user changed its identifier and a restart
\* forgot the first.
THEOREM IdentifiersStayPaired == Spec => []IdentifiersPaired
<1>1. Pairing => IdentifiersPaired
  BY AdmissionPairs DEF Pairing, IdentifiersPaired
<1> QED BY <1>1, InvInit, InvStep, PairingInit, PairingStep, PTL DEF Spec

----------------------------------------------------------------------------
(* What is Ready is deployed.                                              *)

\* While no user deleted a binding with the identifier or changed it, what the manager's
\* cache shows deployed is deployed, and so is what a reconcile has deployed so far.
PartsKept == \A i \in ClusterID, p \in Part :
  ~Touched(i) /\ sseen[i][p] # NoOwner => stack[i][p] # NoOwner
Built(b) == mgr[b].pc # "idle" /\ ~Touched(mgr[b].c.id) =>
  /\ mgr[b].pc = "deploy" =>
       \A k \in 1..3 : k < mgr[b].k => stack[mgr[b].c.id][DeployOrder[k]] # NoOwner
  /\ mgr[b].pc = "ready" => \A p \in Part : stack[mgr[b].c.id][p] # NoOwner
PartsBuilt == \A b \in Binding : Built(b)
Intact == PartsKept /\ PartsBuilt /\ ReadyMeansDeployed

\* Deployed objects go only with a binding that a user deleted.
LEMMA PartsStay ==
  ASSUME IInv, Homes, OwnersHome, [Next]_vars, NEW i \in ClusterID, NEW p \in Part,
         ~Touched(i), stack[i][p] # NoOwner
  PROVE  stack'[i][p] # NoOwner
<1>0. /\ stack \in [ClusterID -> [Part -> Owner]] /\ Core /\ Owners /\ None \notin Binding
      /\ obj \in [Binding -> Object] /\ mcache \in [Binding -> Object]
      /\ \A b \in Binding : mgr[b].c \in Object
  BY ConstantsAssumption DEF IInv, TypeOK
<1>1. ASSUME NEW b \in Binding, NEW k \in 1..3, MDelete(b, k) PROVE stack'[i][p] = stack[i][p]
  <2>1. \/ stack' = stack
        \/ stack' = [stack EXCEPT ![mgr[b].c.id][DeleteOrder[k]] = NoOwner]
    BY <1>1, Zenon DEF MDelete
  <2>2. mgr[b].c.id # i
    <3> SUFFICES ASSUME mgr[b].c.id = i PROVE FALSE
      OBVIOUS
    <3>1. mgr[b].pc \in Removing /\ mgr[b].pc # "idle"
      BY <1>1 DEF MDelete, Removing
    <3>2. Dying(mgr[b].c) /\ NoLater(mgr[b].c, mcache[b]) /\ NoLater(mcache[b], obj[b])
      BY <1>0, <3>1 DEF Core, Past, Flight, Dying
    <3>3. obj[b].exists /\ obj[b].uid = mgr[b].c.uid /\ ~obj[b].deleting
      BY <3>1 DEF Homes, Home, Touched
    <3>4. obj[b].uid \in Nat /\ mcache[b].uid \in Nat /\ mgr[b].c.uid \in Nat
      BY <1>0 DEF Object
    <3>5. mcache[b].uid = obj[b].uid
      BY <3>2, <3>3, <3>4 DEF NoLater
    <3> QED BY <3>2, <3>3, <3>5 DEF NoLater, Dying
  <2> QED BY <1>0, <2>1, <2>2
<1>2. ASSUME NEW j \in ClusterID, NEW q \in Part, OwnerGC(j, q) PROVE stack'[i][p] = stack[i][p]
  <2>1. /\ stack' = [stack EXCEPT ![j][q] = NoOwner] /\ stack[j][q] # NoOwner
        /\ ~(obj[stack[j][q].name].exists /\ obj[stack[j][q].name].uid = stack[j][q].uid)
    BY <1>2 DEF OwnerGC
  <2>2. stack[j][q].name \in Binding
    BY <1>0, <2>1 DEF Owners, OwnersPast
  <2>3. j # i
    <3>1. Home(stack[j][q].name, stack[j][q].uid, j, obj[stack[j][q].name], touched)
      BY <2>1 DEF OwnersHome
    <3>2. <<stack[j][q].name, j>> \in touched
      BY <2>1, <3>1 DEF Home
    <3> QED BY <2>2, <3>2 DEF Touched
  <2> QED BY <1>0, <2>1, <2>3
<1>3. ASSUME NEW b \in Binding, NEW k \in 1..3, MDeploy(b, k) PROVE stack'[i][p] # NoOwner
  <2>1. \/ stack' = stack
        \/ stack' = [stack EXCEPT ![mgr[b].c.id][DeployOrder[k]] = [name |-> b, uid |-> mgr[b].c.uid]]
    BY <1>3, Zenon DEF MDeploy
  <2>2. [name |-> b, uid |-> mgr[b].c.uid] # NoOwner
    BY <1>0 DEF NoOwner
  <2> QED BY <1>0, <2>1, <2>2
<1> QED BY <1>1, <1>2, <1>3, StackWriters

\* Ready is written by a reconcile that has deployed everything.
LEMMA ReadyWritten ==
  ASSUME IInv, Homes, [Next]_vars, NEW b \in Binding, InUse(b)', <<b, obj'[b].id>> \notin touched'
  PROVE  \/ InUse(b) /\ obj'[b].id = obj[b].id
         \/ mgr[b].pc = "ready" /\ obj'[b].id = mgr[b].c.id
<1>0. obj \in [Binding -> Object] /\ obj[b] \in Object
  BY DEF IInv, TypeOK
<1>1. CASE UNCHANGED obj
  BY <1>1 DEF InUse
<1>2. ASSUME NEW a \in Binding, a # b, NEW e, obj' = [obj EXCEPT ![a] = e]
      PROVE  InUse(b) /\ obj'[b].id = obj[b].id
  BY <1>0, <1>2 DEF InUse
<1>3. ASSUME NEW a \in Binding, Writes(a) \/ UserWrites(a) PROVE \E e : obj' = [obj EXCEPT ![a] = e]
  <2>1. ASSUME NEW d, Put(a, d) PROVE \E e : obj' = [obj EXCEPT ![a] = e]
    BY <2>1 DEF Put
  <2>2. CASE Writes(a)
    BY <2>1, <2>2 DEF Writes
  <2>3. CASE UserWrites(a)
    <3>1. ASSUME NEW i, UserChangeID(a, i) PROVE \E e : obj' = [obj EXCEPT ![a] = e]
      BY <3>1, Zenon DEF UserChangeID
    <3>2. ASSUME NEW i, UserCreate(a, i) PROVE \E e : obj' = [obj EXCEPT ![a] = e]
      BY <3>2, Zenon DEF UserCreate
    <3> QED BY <2>1, <2>3, <3>1, <3>2 DEF UserWrites, UserDelete
  <2> QED BY <1>3, <2>2, <2>3
<1>4. ASSUME NEW e, obj' = [obj EXCEPT ![b] = e] PROVE obj'[b] = e
  BY <1>0, <1>4
<1>5. CASE Writes(b)
  <2> USE DEF Settle, Gone, Fresh, Object, InUse
  <2>1. ASSUME NEW p \in Phase, Put(b, [obj[b] EXCEPT !.phase = p]),
               p = "Ready" => mgr[b].pc = "ready" /\ obj[b] = mgr[b].c
        PROVE  mgr[b].pc = "ready" /\ obj'[b].id = mgr[b].c.id
    <3>1. obj'[b] = Settle([obj[b] EXCEPT !.phase = p])
      BY <1>4, <2>1 DEF Put
    <3> QED BY <1>0, <2>1, <3>1
  <2>2. ASSUME NEW x \in BOOLEAN, Put(b, [obj[b] EXCEPT !.mfin = x])
        PROVE  InUse(b) /\ obj'[b].id = obj[b].id
    <3>1. obj'[b] = Settle([obj[b] EXCEPT !.mfin = x])
      BY <1>4, <2>2 DEF Put
    <3> QED BY <1>0, <3>1
  <2>3. ASSUME NEW x \in BOOLEAN, Put(b, [obj[b] EXCEPT !.sfin = x])
        PROVE  InUse(b) /\ obj'[b].id = obj[b].id
    <3>1. obj'[b] = Settle([obj[b] EXCEPT !.sfin = x])
      BY <1>4, <2>3 DEF Put
    <3> QED BY <1>0, <3>1
  <2> HIDE DEF Settle, Gone, Fresh, Object, InUse
  <2> QED BY <1>5, <2>1, <2>2, <2>3 DEF Writes
<1>6. CASE UserWrites(b)
  <2>1. CASE UserDelete(b)
    <3>1. obj'[b] = Settle([obj[b] EXCEPT !.deleting = TRUE])
      BY <1>4, <2>1 DEF UserDelete, Put
    <3> QED BY <1>0, <3>1 DEF InUse, Settle, Gone, Fresh, Object
  <2>2. ASSUME NEW i \in IdsOf[b], UserChangeID(b, i) PROVE FALSE
    <3>1. obj'[b] = [obj[b] EXCEPT !.id = i] /\ <<b, i>> \in touched'
      BY <1>4, <2>2 DEF UserChangeID
    <3> QED BY <1>0, <3>1 DEF Object
  <2>3. ASSUME NEW i \in IdsOf[b], UserCreate(b, i) PROVE FALSE
    <3>1. obj'[b] = Fresh(obj[b].uid + 1, i)
      BY <1>4, <2>3 DEF UserCreate
    <3>2. \A u, j : Fresh(u, j).phase = ""
      BY DEF Fresh
    <3>3. obj'[b].phase = ""
      BY <3>1, <3>2, Zenon
    <3> QED BY <3>3 DEF InUse
  <2> QED BY <1>6, <2>1, <2>2, <2>3 DEF UserWrites
<1> QED BY <1>1, <1>2, <1>3, <1>5, <1>6, AllWrites

LEMMA IntactStep ==
  ASSUME IInv, Homes, OwnersHome, Intact, [Next]_vars
  PROVE  Intact'
<1>0. /\ stack \in [ClusterID -> [Part -> Owner]] /\ None \notin Binding
      /\ mgr \in [Binding -> [pc : MPc, k : 1..3, c : Object]]
      /\ mcache \in [Binding -> Object]
  BY ConstantsAssumption DEF IInv, TypeOK
<1>1. ASSUME NEW i, \A a \in Binding : <<a, i>> \notin touched' PROVE ~Touched(i)
  BY <1>1, ObjectsOnward DEF Touched
<1>2. ASSUME NEW i \in ClusterID, NEW p \in Part, ~Touched(i), stack[i][p] # NoOwner
      PROVE  stack'[i][p] # NoOwner
  BY <1>2, PartsStay
<1>3. PartsKept'
  <2>1. sseen' = sseen \/ sseen' = stack
    <3>1. CASE ManagerNext
      BY <3>1 DEF ManagerNext, MReconcile, MGet, MAddFinalizer, MInitStatus, MValidate, MConnect,
           MDeploy, MDelete, MReady, MFail, MCleanupClusterIDMappings, MRemoveFinalizer, MWrite,
           MError, MDeliver, MDeliverStack, MRestart
    <3>2. CASE SyncerNext \/ EnvNext \/ UNCHANGED vars
      BY <3>2 DEF SyncerNext, SStart, SStop, SDeliver, SReconcile, SGet, SAddFinalizer,
         SRemoveFinalizer, SWrite, SCheckNodes, SCheckVirtual, SCheckPhysical, SError, SWork,
         NodeGet, NodeCreate, PodRuns, NodeDrain, CopyDelete, EnvNext, UserCreate, UserDelete,
         UserChangeID, OwnerGC, vars, mvars
    <3> QED BY <3>1, <3>2 DEF Next
  <2> SUFFICES ASSUME NEW i \in ClusterID, NEW p \in Part, sseen'[i][p] # NoOwner,
                      \A a \in Binding : <<a, i>> \notin touched'
               PROVE  stack'[i][p] # NoOwner
    BY DEF PartsKept, Touched
  <2>2. ~Touched(i)
    BY <1>1
  <2>3. stack[i][p] # NoOwner
    BY <2>1, <2>2 DEF Intact, PartsKept
  <2> QED BY <1>2, <2>2, <2>3
<1>4. ReadyMeansDeployed'
  <2> SUFFICES ASSUME NEW b \in Binding, InUse(b)', NEW p \in Part,
                      \A a \in Binding : <<a, obj'[b].id>> \notin touched'
               PROVE  stack'[obj'[b].id][p] # NoOwner
    BY DEF ReadyMeansDeployed, Touched
  <2>1. <<b, obj'[b].id>> \notin touched' /\ ~Touched(obj'[b].id)
    BY <1>1
  <2>2. stack[obj'[b].id][p] # NoOwner
    <3>1. CASE InUse(b) /\ obj'[b].id = obj[b].id
      BY <2>1, <3>1 DEF Intact, ReadyMeansDeployed
    <3>2. CASE mgr[b].pc = "ready" /\ obj'[b].id = mgr[b].c.id
      BY <2>1, <3>2 DEF Intact, PartsBuilt, Built
    <3> QED BY <2>1, <3>1, <3>2, ReadyWritten
  <2>3. obj'[b].id \in ClusterID
    <3>1. obj'[b].exists /\ Self(b, obj'[b], touched')
      BY ObjectsOnward DEF InUse
    <3> QED BY <3>1, ConstantsAssumption DEF Self
  <2> QED BY <1>2, <2>1, <2>2, <2>3
<1>5. PartsBuilt'
  <2> SUFFICES ASSUME NEW b \in Binding, mgr'[b].pc # "idle",
                      \A a \in Binding : <<a, mgr'[b].c.id>> \notin touched'
               PROVE  /\ mgr'[b].pc = "deploy" =>
                           \A k \in 1..3 : k < mgr'[b].k => stack'[mgr'[b].c.id][DeployOrder[k]] # NoOwner
                      /\ mgr'[b].pc = "ready" => \A p \in Part : stack'[mgr'[b].c.id][p] # NoOwner
    BY DEF PartsBuilt, Built, Touched
  <2> DEFINE i == mgr[b].c.id
  <2>1. ~Touched(mgr'[b].c.id) /\ \A k \in 1..3 : DeployOrder[k] \in Part
    BY <1>1 DEF DeployOrder, Part
  <2>2. mgr[b].pc # "idle" => i \in ClusterID
    BY ConstantsAssumption DEF Homes, Home
  <2>3. CASE mgr'[b] = mgr[b]
    BY <1>2, <2>1, <2>2, <2>3 DEF Intact, PartsBuilt, Built
  <2>4. CASE mgr'[b].pc \notin {"deploy", "ready"}
    BY <2>4
  <2>5. CASE MConnect(b)
    <3>1. mgr'[b].k = 1 /\ mgr'[b].pc = "deploy"
      BY <1>0, <2>5 DEF MConnect, MSet, MGo
    <3> QED BY <3>1
  <2>6. ASSUME NEW k \in 1..3, MDeploy(b, k), mgr'[b].pc \in {"deploy", "ready"}
        PROVE  /\ mgr'[b].pc = "deploy" =>
                    \A l \in 1..3 : l < mgr'[b].k => stack'[mgr'[b].c.id][DeployOrder[l]] # NoOwner
               /\ mgr'[b].pc = "ready" => \A p \in Part : stack'[mgr'[b].c.id][p] # NoOwner
    <3> DEFINE mine == [name |-> b, uid |-> mgr[b].c.uid]
               p == DeployOrder[k]
               keep == sseen[i][p] # NoOwner /\ p # "service"
               refused == ~keep /\ stack[i][p] # sseen[i][p]
    <3>1. /\ mgr[b].pc = "deploy" /\ mgr[b].k = k
          /\ stack' = IF keep \/ refused THEN stack ELSE [stack EXCEPT ![i][p] = mine]
          /\ IF refused THEN MGo(b, "fail", 1)
             ELSE IF k = 3 THEN MGo(b, "ready", 1) ELSE MGo(b, "deploy", k + 1)
      BY <2>6, Zenon DEF MDeploy, MSet
    <3>2. ~refused
      BY <1>0, <2>6, <3>1 DEF MGo
    <3>3. /\ mgr'[b].c = mgr[b].c
          /\ k = 3 => mgr'[b].pc = "ready"
          /\ k # 3 => mgr'[b].pc = "deploy" /\ mgr'[b].k = k + 1
      BY <1>0, <3>1, <3>2 DEF MGo
    <3>4. i \in ClusterID /\ p \in Part /\ ~Touched(i)
      BY <2>1, <2>2, <3>1, <3>3
    <3>5. stack'[i][p] # NoOwner
      <4>1. CASE keep
        <5>1. stack[i][p] # NoOwner
          BY <3>4, <4>1 DEF Intact, PartsKept
        <5> QED BY <3>1, <4>1, <5>1
      <4>2. CASE ~keep
        <5>1. stack' = [stack EXCEPT ![i][p] = mine] /\ mine # NoOwner
          BY <1>0, <3>1, <3>2, <4>2 DEF NoOwner
        <5> QED BY <1>0, <3>4, <5>1
      <4> QED BY <4>1, <4>2
    <3> HIDE DEF keep, refused, mine
    <3>6. \A l \in 1..3 : l < k => stack'[i][DeployOrder[l]] # NoOwner
      <4>1. \A l \in 1..3 : l < k => stack[i][DeployOrder[l]] # NoOwner
        BY <3>1, <3>4 DEF Intact, PartsBuilt, Built
      <4> QED BY <1>2, <2>1, <3>4, <4>1
    <3>7. \A l \in 1..3 : l < k + 1 => stack'[i][DeployOrder[l]] # NoOwner
      <4>1. \A l \in 1..3 : l < k + 1 => l < k \/ l = k
        OBVIOUS
      <4> QED BY <3>5, <3>6, <4>1
    <3>8. k = 3 => \A q \in Part : stack'[i][q] # NoOwner
      <4>1. k = 3 => \A l \in 1..3 : stack'[i][DeployOrder[l]] # NoOwner
        BY <3>7
      <4>2. Part = {DeployOrder[l] : l \in 1..3}
        BY DEF Part, DeployOrder
      <4> QED BY <4>1, <4>2
    <3> QED BY <3>3, <3>7, <3>8
  <2>7. \/ mgr'[b] = mgr[b] \/ mgr'[b].pc \notin {"deploy", "ready"}
        \/ MConnect(b) \/ \E k \in 1..3 : MDeploy(b, k)
    BY MgrWriters
  <2> QED BY <2>3, <2>4, <2>5, <2>6, <2>7
<1> QED BY <1>3, <1>4, <1>5 DEF Intact

LEMMA IntactInit == Init => Intact
<1> SUFFICES ASSUME Init PROVE Intact
  OBVIOUS
<1>1. /\ \A b \in Binding : obj[b] = Gone(0) /\ mgr[b].pc = "idle"
      /\ \A i \in ClusterID, p \in Part : sseen[i][p] = NoOwner
  BY DEF Init, IdleM
<1>2. ~Gone(0).exists
  BY DEF Gone, Fresh
<1> QED BY <1>1, <1>2 DEF Intact, PartsKept, PartsBuilt, Built, ReadyMeansDeployed, InUse

\* Ready can be relied on until a user deletes a binding with the identifier or changes one:
\* proxier, service and syncer are deployed under the identifier, although the manager skips
\* what its cache, which may be out of date, shows deployed, and may be restarted while
\* bindings compete for the identifier.
THEOREM ReadyIsDeployed == Spec => []ReadyMeansDeployed
<1>1. IInv /\ Pairing /\ Intact /\ [Next]_vars => Intact'
  BY IntactStep DEF Pairing
<1>2. Intact => ReadyMeansDeployed
  BY DEF Intact
<1> QED BY <1>1, <1>2, InvInit, InvStep, PairingInit, PairingStep, IntactInit, PTL DEF Spec
----------------------------------------------------------------------------
(* Bindings with identifiers of their own, and names that are used once.   *)

\* Users give no identifier to two bindings.
Disjoint == \A a, b \in Binding : a # b => IdsOf[a] \intersect IdsOf[b] = {}

\* No name is used for a second binding.
NoReuse == \A b \in Binding : obj[b].uid <= 1

\* Whatever exists has one of the identifiers users give to the binding, in every copy.
Given(b, c) == c.exists => c.id \in IdsOf[b]
IdsGiven == \A b \in Binding : /\ Given(b, obj[b]) /\ Given(b, mcache[b])
                               /\ mgr[b].pc # "idle" => mgr[b].c.id \in IdsOf[b]

\* A reconcile of b ends, moves on with what it read, or starts from the cache.
Proceeds(b) ==
  /\ \A a \in Binding \ {b} : mgr'[a] = mgr[a]
  /\ \/ mgr'[b].pc = "idle"
     \/ /\ mgr'[b].c = mgr[b].c /\ mgr[b].pc # "idle"
        /\ mgr'[b].pc \in Building => mgr[b].pc \in Building
     \/ mgr'[b].c = mcache[b] /\ mgr'[b].pc = MStart(mcache[b])

\* The syncer has no more business with a binding: it is gone, or being deleted without
\* the syncer's finalizer.
Left(c) == ~c.exists \/ (c.deleting /\ ~c.sfin)

\* Only a binding that has been created is anywhere to be seen.
Born == \A b \in Binding : /\ obj[b].exists => obj[b].uid >= 1
                           /\ mcache[b].exists => mcache[b].uid >= 1
                           /\ mgr[b].pc # "idle" => mgr[b].c.uid >= 1

\* What the manager once saw left stays left: it removes nothing the syncer still needs.
Leaving == \A b \in Binding : /\ mcache[b].uid >= 1 /\ Left(mcache[b]) => Left(obj[b])
                              /\ mgr[b].pc \in Removing => Left(obj[b])

\* Things are deployed, and seen deployed, under identifiers of their binding.
Placed == \A i \in ClusterID, p \in Part :
  /\ stack[i][p] # NoOwner => i \in IdsOf[stack[i][p].name] /\ stack[i][p].uid >= 1
  /\ sseen[i][p] # NoOwner => /\ sseen[i][p].name \in Binding
                              /\ i \in IdsOf[sseen[i][p].name]
                              /\ obj[sseen[i][p].name].uid >= 1

\* A binding with the syncer's finalizer, or with a running syncer that may still add it,
\* has its syncer deployed until it is left.
Deployed(b) == \E i \in ClusterID : stack[i]["syncer"].name = b
Served(b) == \E i \in ClusterID : proc[i] = b
SyncerThere == \A b \in Binding : ~Left(obj[b]) /\ (obj[b].sfin \/ Served(b)) => Deployed(b)

\* Syncers run only for bindings that have been created.
ServedBorn == \A b \in Binding : Served(b) => obj[b].uid >= 1

\* What depends on the objects and the manager, and on the deployed objects.
Seen == IdsGiven /\ Born /\ Leaving
There == Placed /\ SyncerThere /\ ServedBorn
Sole == Seen /\ There

\* A syncer adds its finalizer only to a copy that is not being deleted.
SyncerReads == \A i \in ClusterID :
  sy[i].pc = "addFinalizer" => sy[i].c.exists /\ ~sy[i].c.deleting

LEMMA SoleKeeps == Sole => SyncerKept
<1> SUFFICES ASSUME Sole, NEW b \in Binding, obj[b].exists, obj[b].sfin PROVE Deployed(b)
  BY DEF Sole, There, SyncerKept, Deployed
<1>1. ~Left(obj[b])
  BY DEF Left
<1> QED BY <1>1 DEF Sole, There, SyncerThere

\* Whose a deployed object is follows from its identifier.
LEMMA OwnerByID ==
  ASSUME TypeOK, Owners, Placed, Disjoint, NEW b \in Binding, NEW i \in IdsOf[b], NEW p \in Part
  PROVE  /\ i \in ClusterID
         /\ stack[i][p] # NoOwner => stack[i][p].name = b
         /\ sseen[i][p] # NoOwner => sseen[i][p].name = b /\ obj[b].uid >= 1
<1>1. i \in ClusterID
  BY ConstantsAssumption
<1>2. \A a \in Binding : i \in IdsOf[a] => a = b
  BY DEF Disjoint
<1> QED BY <1>1, <1>2 DEF Placed, Owners, OwnersPast

\* Deployed objects go only when the syncer has no more business with their binding.
Withers == \A i \in ClusterID, p \in Part :
  stack[i][p] # NoOwner /\ stack'[i][p] = NoOwner => Left(obj[stack[i][p].name])

\* Steps that deploy or take away, while no binding changes.
LEMMA SoleStack ==
  ASSUME TypeOK, Owners, IdsGiven, There, Disjoint, Withers, UNCHANGED <<obj, sseen, proc>>,
         \A i \in ClusterID, p \in Part :
           \/ stack'[i][p] \in {stack[i][p], NoOwner}
           \/ /\ p = "syncer" => stack[i][p] = NoOwner
              /\ \E b \in Binding : /\ i \in IdsOf[b] /\ obj[b].uid >= 1
                                    /\ stack'[i][p] = [name |-> b, uid |-> obj[b].uid]
  PROVE  There'
<1>2. Placed'
  <2>1. ASSUME NEW i \in ClusterID, NEW p \in Part, stack'[i][p] # NoOwner
        PROVE  i \in IdsOf[stack'[i][p].name] /\ stack'[i][p].uid >= 1
    <3>1. CASE stack'[i][p] = stack[i][p]
      BY <2>1, <3>1 DEF There, Placed
    <3>2. CASE \E b \in Binding : /\ i \in IdsOf[b] /\ obj[b].uid >= 1
                                  /\ stack'[i][p] = [name |-> b, uid |-> obj[b].uid]
      BY <3>2
    <3> QED BY <2>1, <3>1, <3>2
  <2> QED BY <2>1 DEF There, Placed
<1>3. SyncerThere'
  <2>1. "syncer" \in Part
    BY DEF Part
  <2>2. ASSUME NEW b \in Binding, ~Left(obj[b]), Deployed(b) PROVE Deployed(b)'
    <3>1. PICK i \in ClusterID : stack[i]["syncer"].name = b
      BY <2>2 DEF Deployed
    <3>2. stack[i]["syncer"] # NoOwner
      BY <3>1, ConstantsAssumption DEF NoOwner
    <3>3. stack'[i]["syncer"] # NoOwner
      BY <2>1, <2>2, <3>1, <3>2 DEF Withers
    <3>4. stack'[i]["syncer"] = stack[i]["syncer"]
      BY <2>1, <3>2, <3>3
    <3> QED BY <3>1, <3>4 DEF Deployed
  <2>3. \A b \in Binding : Served(b)' <=> Served(b)
    BY DEF Served
  <2> QED BY <2>2, <2>3 DEF There, SyncerThere
<1>4. ServedBorn'
  BY DEF There, ServedBorn, Served
<1> QED BY <1>2, <1>3, <1>4 DEF There

\* A write of binding b does not bring it back once it was left, and gives it the syncer's
\* finalizer only while its syncer runs.
LEMMA SoleWrite ==
  ASSUME TypeOK, Core, Owners, Sole, Disjoint, NEW b \in Binding, NEW e \in Object,
         obj' = [obj EXCEPT ![b] = e], UNCHANGED <<mcache, stack, sseen, proc>>,
         \A a \in Binding : mgr'[a] = mgr[a] \/ mgr'[a].pc = "idle",
         Given(b, e), obj[b].uid <= e.uid, e.exists => e.uid >= 1,
         obj[b].uid >= 1 /\ Left(obj[b]) => Left(e),
         \/ Left(e)
         \/ ~Left(obj[b]) /\ (e.sfin => obj[b].sfin \/ Served(b))
         \/ obj[b].uid = 0 /\ ~e.sfin
  PROVE  Sole'
<1>0. /\ obj \in [Binding -> Object] /\ mcache \in [Binding -> Object]
      /\ \A a \in Binding : mgr[a].c \in Object
  BY DEF TypeOK
<1>1. obj'[b] = e /\ \A a \in Binding : a # b => obj'[a] = obj[a]
  BY <1>0
<1>2. "idle" \notin Removing
  BY DEF Removing
<1>3. obj[b].uid \in Nat /\ mcache[b].uid \in Nat /\ mgr[b].c.uid \in Nat /\ e.uid \in Nat
  BY <1>0 DEF Object
<1>4. IdsGiven'
  BY <1>1 DEF Sole, Seen, IdsGiven, Given
<1>5. Born'
  BY <1>1 DEF Sole, Seen, Born
<1>6. Leaving'
  <2>1. mcache[b].uid >= 1 => obj[b].uid >= 1
    BY <1>3 DEF Core, Past, NoLater
  <2>2. mgr[b].pc \in Removing => obj[b].uid >= 1
    BY <1>2, <1>3 DEF Core, Past, NoLater, Sole, Seen, Born
  <2>3. mcache[b].uid >= 1 /\ Left(mcache[b]) => Left(e)
    BY <2>1, Zenon DEF Sole, Seen, Leaving
  <2>4. mgr[b].pc \in Removing => Left(e)
    BY <2>2, Zenon DEF Sole, Seen, Leaving
  <2> QED BY <1>1, <1>2, <2>3, <2>4 DEF Sole, Seen, Leaving
<1>7. \A a \in Binding : obj[a].uid >= 1 => obj'[a].uid >= 1
  BY <1>1, <1>3
<1>8. Placed'
  BY <1>7 DEF Sole, There, Placed
<1>9. ServedBorn'
  BY <1>7 DEF Sole, There, ServedBorn, Served
<1>10. /\ \A a \in Binding : Deployed(a)' <=> Deployed(a)
       /\ \A a \in Binding : Served(a)' <=> Served(a)
  BY DEF Deployed, Served
<1>11. ASSUME obj[b].uid = 0 PROVE ~Served(b) /\ mgr[b].pc = "idle"
  BY <1>3, <1>11 DEF Sole, There, ServedBorn, Seen, Born, Core, Past, NoLater
<1>12. SyncerThere'
  <2>1. ASSUME ~Left(e), e.sfin \/ Served(b) PROVE Deployed(b)
    <3>1. CASE ~Left(obj[b]) /\ (e.sfin => obj[b].sfin \/ Served(b))
      BY <2>1, <3>1 DEF Sole, There, SyncerThere
    <3>2. CASE obj[b].uid = 0 /\ ~e.sfin
      BY <1>11, <2>1, <3>2
    <3> QED BY <2>1, <3>1, <3>2
  <2> QED BY <1>1, <1>10, <2>1 DEF Sole, There, SyncerThere
<1> QED BY <1>4, <1>5, <1>6, <1>8, <1>9, <1>12 DEF Sole, Seen, There

\* The progress of a reconcile of the manager.
LEMMA SeenMgr ==
  ASSUME TypeOK, Core, Seen, NEW b \in Binding, Proceeds(b), UNCHANGED <<obj, mcache>>,
         mgr'[b].pc \in Removing => mgr[b].pc \in Removing \/ mgr'[b].pc = MStart(mcache[b])
  PROVE  Seen'
<1>0. mcache[b] \in Object /\ mcache[b].uid \in Nat
  BY DEF TypeOK, Object
<1>1. "idle" \notin Removing
  BY DEF Removing
<1>2. mgr'[b].pc # "idle" => \/ mgr'[b].c = mgr[b].c /\ mgr[b].pc # "idle"
                             \/ mgr'[b].c = mcache[b] /\ mcache[b].exists
  BY <1>0, StartFresh DEF Proceeds
<1>3. IdsGiven'
  BY <1>2 DEF Seen, IdsGiven, Given, Proceeds
<1>4. Born'
  BY <1>2 DEF Seen, Born, Proceeds
<1>5. MStart(mcache[b]) \in Removing => Left(obj[b])
  <2> SUFFICES ASSUME MStart(mcache[b]) \in Removing PROVE Left(obj[b])
    OBVIOUS
  <2>1. mcache[b].exists /\ Left(mcache[b])
    BY <1>0, MStartReads DEF Left
  <2> QED BY <2>1 DEF Seen, Born, Leaving
<1>6. mgr'[b].pc \in Removing => Left(obj[b])
  BY <1>1, <1>5 DEF Proceeds, Seen, Leaving
<1>7. Leaving'
  BY <1>6 DEF Seen, Leaving, Proceeds
<1> QED BY <1>3, <1>4, <1>7 DEF Seen

\* A step of a reconcile that deploys nothing and takes nothing away.
LEMMA SoleProceeds ==
  ASSUME TypeOK, Core, Owners, Sole, NEW b \in Binding, Proceeds(b),
         UNCHANGED <<obj, mcache, stack, sseen, proc>>,
         mgr'[b].pc \in Removing => mgr[b].pc \in Removing \/ mgr'[b].pc = MStart(mcache[b])
  PROVE  Sole'
<1>1. Seen'
  BY SeenMgr DEF Sole
<1>2. There'
  BY DEF Sole, There, Placed, SyncerThere, Deployed, Served, ServedBorn
<1> QED BY <1>1, <1>2 DEF Sole

\* createOrUpdateResource for part k.
LEMMA SoleDeploy ==
  ASSUME TypeOK, Core, Owners, Sole, Disjoint, NEW b \in Binding, NEW k \in 1..3, MDeploy(b, k)
  PROVE  Sole'
<1>0. /\ mgr \in [Binding -> [pc : MPc, k : 1..3, c : Object]]
      /\ stack \in [ClusterID -> [Part -> Owner]]
  BY DEF TypeOK
<1> DEFINE i == mgr[b].c.id
           p == DeployOrder[k]
           mine == [name |-> b, uid |-> mgr[b].c.uid]
           keep == sseen[i][p] # NoOwner /\ p # "service"
           refused == ~keep /\ stack[i][p] # sseen[i][p]
<1>1. /\ mgr[b].pc = "deploy" /\ mgr[b].k = k
      /\ stack' = IF keep \/ refused THEN stack ELSE [stack EXCEPT ![i][p] = mine]
      /\ IF refused THEN MGo(b, "fail", 1)
         ELSE IF k = 3 THEN MGo(b, "ready", 1) ELSE MGo(b, "deploy", k + 1)
      /\ UNCHANGED <<obj, mcache, sseen, proc>>
  BY Zenon DEF MDeploy, MSet, svars, aux
<1>2. i \in IdsOf[b] /\ i \in ClusterID /\ p \in Part
  BY <1>1, ConstantsAssumption DEF Sole, Seen, IdsGiven, DeployOrder, Part
<1>3. mgr[b].c.uid = obj[b].uid /\ obj[b].uid >= 1
  <2>1. mgr[b].pc \in Building
    BY <1>1 DEF Building
  <2>2. Alive(b, mgr[b].c.uid)
    BY <2>1 DEF Core, Flight, StillHeld, Held
  <2> QED BY <1>1, <2>2 DEF Alive, Sole, Seen, Born
<1>4. mine # NoOwner
  BY ConstantsAssumption DEF NoOwner
<1>5. \A j \in ClusterID, r \in Part :
        \/ stack'[j][r] = stack[j][r]
        \/ /\ ~keep /\ ~refused /\ j = i /\ r = p /\ stack'[j][r] = mine
  BY <1>0, <1>1, <1>2
<1>7. Withers
  BY <1>4, <1>5 DEF Withers
<1>8. p = "syncer" /\ ~keep /\ ~refused => stack[i][p] = NoOwner
  OBVIOUS
<1>9. /\ mgr'[b].c = mgr[b].c
      /\ IF refused THEN mgr'[b].pc = "fail"
         ELSE IF k = 3 THEN mgr'[b].pc = "ready" ELSE mgr'[b].pc = "deploy" /\ mgr'[b].k = k + 1
      /\ \A a \in Binding \ {b} : mgr'[a] = mgr[a]
  BY <1>0, <1>1 DEF MGo
<1> HIDE DEF keep, refused
<1>10. \A j \in ClusterID, r \in Part :
           \/ stack'[j][r] \in {stack[j][r], NoOwner}
           \/ /\ r = "syncer" => stack[j][r] = NoOwner
              /\ \E a \in Binding : /\ j \in IdsOf[a] /\ obj[a].uid >= 1
                                    /\ stack'[j][r] = [name |-> a, uid |-> obj[a].uid]
  <2> SUFFICES ASSUME NEW j \in ClusterID, NEW r \in Part, stack'[j][r] # stack[j][r]
               PROVE  /\ r = "syncer" => stack[j][r] = NoOwner
                      /\ j \in IdsOf[b] /\ obj[b].uid >= 1
                      /\ stack'[j][r] = [name |-> b, uid |-> obj[b].uid]
    OBVIOUS
  <2>1. ~keep /\ ~refused /\ j = i /\ r = p /\ stack'[j][r] = mine
    BY <1>5
  <2> QED BY <1>2, <1>3, <1>8, <2>1
<1>11. There'
  BY <1>1, <1>7, <1>10, SoleStack DEF Sole, Seen
<1>13. Proceeds(b)
  BY <1>1, <1>9 DEF Proceeds, Building
<1>14. Seen'
  <2>1. mgr'[b].pc \notin Removing
    BY <1>9 DEF Removing
  <2> QED BY <1>1, <1>13, <2>1, SeenMgr DEF Sole
<1> QED BY <1>11, <1>14 DEF Sole

\* handleDeletion for part k: what is deleted is the binding's own.
LEMMA SoleDelete ==
  ASSUME TypeOK, Core, Owners, Sole, Disjoint, NEW b \in Binding, NEW k \in 1..3, MDelete(b, k)
  PROVE  Sole'
<1>0. /\ mgr \in [Binding -> [pc : MPc, k : 1..3, c : Object]]
      /\ stack \in [ClusterID -> [Part -> Owner]]
  BY DEF TypeOK
<1>1. /\ mgr[b].pc = "delete" /\ mgr[b].pc \in Removing
      /\ MGo(b, "unmap", 1) \/ (k # 3 /\ MGo(b, "delete", k + 1))
      /\ \/ stack' = stack
         \/ stack' = [stack EXCEPT ![mgr[b].c.id][DeleteOrder[k]] = NoOwner]
      /\ UNCHANGED <<obj, mcache, sseen, proc>>
  BY Zenon DEF MDelete, MSet, svars, aux, Removing
<1>2. /\ mgr'[b].c = mgr[b].c /\ mgr'[b].pc \in {"unmap", "delete"}
      /\ \A a \in Binding \ {b} : mgr'[a] = mgr[a]
  BY <1>0, <1>1 DEF MGo
<1>3. mgr[b].c.id \in IdsOf[b] /\ Left(obj[b])
  BY <1>1 DEF Sole, Seen, IdsGiven, Leaving
<1>4. \A i \in ClusterID, p \in Part :
        stack'[i][p] = stack[i][p] \/ (stack'[i][p] = NoOwner /\ i = mgr[b].c.id)
  BY <1>0, <1>1
<1>5. Withers
  <2> SUFFICES ASSUME NEW i \in ClusterID, NEW p \in Part, stack[i][p] # NoOwner,
                      stack'[i][p] = NoOwner
               PROVE  stack[i][p].name = b
    BY <1>3 DEF Withers
  <2>1. i \in IdsOf[b]
    BY <1>3, <1>4
  <2> QED BY <2>1, OwnerByID DEF Sole, There
<1>6. There'
  BY <1>1, <1>4, <1>5, SoleStack DEF Sole, Seen
<1>7. Proceeds(b)
  BY <1>1, <1>2 DEF Proceeds, Building
<1>8. Seen'
  BY <1>1, <1>7, SeenMgr DEF Sole
<1> QED BY <1>6, <1>8 DEF Sole

\* The garbage collector takes only what belongs to a binding that is gone.
LEMMA SoleGC ==
  ASSUME TypeOK, Owners, Sole, Disjoint, NoReuse, NEW i \in ClusterID, NEW p \in Part, OwnerGC(i, p)
  PROVE  Sole'
<1>0. stack \in [ClusterID -> [Part -> Owner]] /\ obj \in [Binding -> Object]
  BY DEF TypeOK
<1>1. UNCHANGED <<obj, mcache, mgr, sseen, proc>>
  BY DEF OwnerGC, mvars, svars, aux
<1>2. \A j \in ClusterID, r \in Part :
        stack'[j][r] = stack[j][r] \/ (stack'[j][r] = NoOwner /\ j = i /\ r = p)
  BY <1>0 DEF OwnerGC
<1>3. Left(obj[stack[i][p].name])
  <2> DEFINE o == stack[i][p]
  <2>1. o # NoOwner /\ ~(obj[o.name].exists /\ obj[o.name].uid = o.uid)
    BY DEF OwnerGC
  <2>2. o.name \in Binding /\ o.uid \in Nat /\ o.uid >= 1 /\ o.uid <= obj[o.name].uid
    BY <1>0, <2>1 DEF Owner, Owners, OwnersPast, Sole, There, Placed
  <2> HIDE DEF o
  <2>3. obj[o.name].uid \in Nat /\ obj[o.name].uid <= 1
    BY <1>0, <2>2 DEF Object, NoReuse
  <2>4. obj[o.name].uid = o.uid
    BY <2>2, <2>3
  <2> QED BY <2>1, <2>4 DEF Left, o
<1>4. Withers
  BY <1>2, <1>3 DEF Withers
<1>5. There'
  BY <1>1, <1>2, <1>4, SoleStack DEF Sole, Seen
<1>6. Seen'
  BY <1>1 DEF Sole, Seen, IdsGiven, Given, Born, Leaving
<1> QED BY <1>5, <1>6 DEF Sole

\* An edit that keeps the incarnation, and a binding that is left as it is.
Softer(o, e) == /\ e.uid = o.uid /\ (Left(o) => Left(e))
                /\ e.exists => o.exists /\ e.id = o.id

LEMMA SoftEdits ==
  ASSUME NEW o \in Object
  PROVE  /\ Softer(o, o)
         /\ \A p \in Phase : LET e == Settle([o EXCEPT !.phase = p])
                            IN  Softer(o, e) /\ (e.exists /\ e.sfin => o.sfin)
         /\ \A x \in BOOLEAN : LET e == Settle([o EXCEPT !.mfin = x])
                              IN  Softer(o, e) /\ (e.exists /\ e.sfin => o.sfin)
         /\ LET e == Settle([o EXCEPT !.sfin = FALSE])
            IN  Softer(o, e) /\ (e.exists /\ e.sfin => o.sfin)
         /\ o.exists /\ ~o.deleting => Softer(o, Settle([o EXCEPT !.sfin = TRUE]))
         /\ LET e == Settle([o EXCEPT !.deleting = TRUE])
            IN  Softer(o, e) /\ (e.exists /\ e.sfin => o.sfin)
<1> USE DEF Softer, Left, Settle, Object, Gone, Fresh
<1>1. Softer(o, o)
  OBVIOUS
<1>2. \A p \in Phase : LET e == Settle([o EXCEPT !.phase = p])
                      IN  Softer(o, e) /\ (e.exists /\ e.sfin => o.sfin)
  OBVIOUS
<1>3. \A x \in BOOLEAN : LET e == Settle([o EXCEPT !.mfin = x])
                        IN  Softer(o, e) /\ (e.exists /\ e.sfin => o.sfin)
  OBVIOUS
<1>4. LET e == Settle([o EXCEPT !.sfin = FALSE])
      IN  Softer(o, e) /\ (e.exists /\ e.sfin => o.sfin)
  OBVIOUS
<1>5. o.exists /\ ~o.deleting => Softer(o, Settle([o EXCEPT !.sfin = TRUE]))
  OBVIOUS
<1>6. LET e == Settle([o EXCEPT !.deleting = TRUE])
      IN  Softer(o, e) /\ (e.exists /\ e.sfin => o.sfin)
  OBVIOUS
<1> QED BY <1>1, <1>2, <1>3, <1>4, <1>5, <1>6

LEMMA SoleEdit ==
  ASSUME TypeOK, Core, Owners, Sole, Disjoint, NEW b \in Binding, NEW e \in Object,
         obj' = [obj EXCEPT ![b] = e], Softer(obj[b], e),
         e.exists /\ e.sfin => obj[b].sfin \/ Served(b),
         UNCHANGED <<mcache, stack, sseen, proc>>,
         \A a \in Binding : mgr'[a] = mgr[a] \/ mgr'[a].pc = "idle"
  PROVE  Sole'
<1>1. Given(b, e)
  BY DEF Sole, Seen, IdsGiven, Given, Softer
<1>2. obj[b].uid <= e.uid /\ (e.exists => e.uid >= 1)
  <2>1. e.uid = obj[b].uid /\ (e.exists => obj[b].exists)
    BY DEF Softer
  <2>2. e.uid \in Nat
    BY DEF Object
  <2>3. obj[b].exists => obj[b].uid >= 1
    BY DEF Sole, Seen, Born
  <2> QED BY <2>1, <2>2, <2>3
<1>3. obj[b].uid >= 1 /\ Left(obj[b]) => Left(e)
  BY DEF Softer
<1>4. Left(e) \/ (~Left(obj[b]) /\ (e.sfin => obj[b].sfin \/ Served(b)))
  <2>1. ~Left(e) => e.exists /\ ~Left(obj[b])
    BY DEF Softer, Left
  <2> QED BY <2>1, Zenon
<1> QED BY <1>1, <1>2, <1>3, <1>4, SoleWrite

LEMMA SoleManagerWrite ==
  ASSUME TypeOK, Core, Owners, Sole, Disjoint, NEW b \in Binding,
         MAddFinalizer(b) \/ MInitStatus(b) \/ MReady(b) \/ MFail(b) \/ MRemoveFinalizer(b)
  PROVE  Sole'
<1>0. /\ obj \in [Binding -> Object]
      /\ mgr \in [Binding -> [pc : MPc, k : 1..3, c : Object]]
  BY DEF TypeOK
<1>1. /\ UNCHANGED <<mcache, stack, sseen, proc>>
      /\ mgr' = [mgr EXCEPT ![b] = IdleM]
  BY DEF MAddFinalizer, MInitStatus, MReady, MFail, MRemoveFinalizer, MWrite, MDone, svars, aux
<1>2. \A a \in Binding : mgr'[a] = mgr[a] \/ mgr'[a].pc = "idle"
  BY <1>0, <1>1 DEF IdleM
<1>3. obj[b] \in Object /\ obj[b].phase \in Phase
  BY <1>0 DEF Object
<1>4. ASSUME obj' = obj PROVE Sole'
  <2>1. obj' = [obj EXCEPT ![b] = obj[b]]
    BY <1>0, <1>4
  <2> QED BY <1>1, <1>2, <1>3, <2>1, SoftEdits, SoleEdit
<1>5. ASSUME NEW x \in BOOLEAN, obj[b] = mgr[b].c, Put(b, [mgr[b].c EXCEPT !.mfin = x])
      PROVE  Sole'
  <2> DEFINE e == Settle([obj[b] EXCEPT !.mfin = x])
  <2>1. e \in Object
    BY <1>3, ObjectTypes, ObjectEdits
  <2>2. Softer(obj[b], e) /\ (e.exists /\ e.sfin => obj[b].sfin)
    BY <1>3, SoftEdits
  <2>3. obj' = [obj EXCEPT ![b] = e]
    BY <1>5 DEF Put
  <2> HIDE DEF e
  <2> QED BY <1>1, <1>2, <1>3, <2>1, <2>2, <2>3, SoleEdit
<1>6. ASSUME NEW p \in Phase, obj[b] = mgr[b].c, Put(b, [mgr[b].c EXCEPT !.phase = p])
      PROVE  Sole'
  <2> DEFINE e == Settle([obj[b] EXCEPT !.phase = p])
  <2>1. e \in Object
    BY <1>3, ObjectTypes, ObjectEdits
  <2>2. Softer(obj[b], e) /\ (e.exists /\ e.sfin => obj[b].sfin)
    BY <1>3, SoftEdits
  <2>3. obj' = [obj EXCEPT ![b] = e]
    BY <1>6 DEF Put
  <2> HIDE DEF e
  <2> QED BY <1>1, <1>2, <1>6, <2>1, <2>2, <2>3, SoleEdit
<1>7. CASE MAddFinalizer(b) \/ MRemoveFinalizer(b)
  BY <1>4, <1>5, <1>7 DEF MAddFinalizer, MRemoveFinalizer, MWrite, Current
<1>8. CASE MInitStatus(b) \/ MFail(b)
  <2>1. "Pending" \in Phase /\ "Failed" \in Phase
    BY DEF Phase
  <2> QED BY <1>4, <1>6, <1>8, <2>1 DEF MInitStatus, MFail, MWrite, Current
<1>9. CASE MReady(b)
  <2>1. "Ready" \in Phase
    BY DEF Phase
  <2> QED BY <1>4, <1>6, <1>9, <2>1 DEF MReady, MWrite, Current
<1> QED BY <1>7, <1>8, <1>9

LEMMA SoleManager ==
  ASSUME IInv, Sole, Disjoint, ManagerNext
  PROVE  Sole'
<1>0. /\ TypeOK /\ Core /\ Owners
      /\ mgr \in [Binding -> [pc : MPc, k : 1..3, c : Object]]
      /\ obj \in [Binding -> Object] /\ mcache \in [Binding -> Object]
  BY DEF IInv, TypeOK
<1>r. Building \intersect Removing = {} /\ "idle" \notin Building \union Removing
  BY DEF Building, Removing
<1>a. ASSUME NEW b \in Binding, NEW pc \in MPc, MGo(b, pc, 1),
             \/ mgr[b].pc \in Building /\ pc \in Building
             \/ mgr[b].pc \in Removing /\ pc \in Removing,
             UNCHANGED <<obj, mcache, stack, sseen, proc>>
      PROVE  Sole'
  <2>1. /\ mgr'[b].pc = pc /\ mgr'[b].k = 1 /\ mgr'[b].c = mgr[b].c
        /\ \A a \in Binding \ {b} : mgr'[a] = mgr[a]
    BY <1>0, <1>a DEF MGo
  <2>2. Proceeds(b)
    BY <1>a, <1>r, <2>1 DEF Proceeds
  <2> QED BY <1>0, <1>a, <1>r, <2>1, <2>2, SoleProceeds
<1>b. ASSUME NEW b \in Binding, MDone(b), UNCHANGED <<obj, mcache, stack, sseen, proc>>
      PROVE  Sole'
  <2>1. mgr'[b].pc = "idle" /\ \A a \in Binding \ {b} : mgr'[a] = mgr[a]
    BY <1>0, <1>b DEF MDone, IdleM
  <2>2. Proceeds(b)
    BY <2>1 DEF Proceeds
  <2> QED BY <1>0, <1>b, <1>r, <2>1, <2>2, SoleProceeds
<1>1. ASSUME NEW b \in Binding, MGet(b) PROVE Sole'
  <2>1. /\ UNCHANGED <<obj, mcache, stack, sseen, proc>>
        /\ mgr' = [mgr EXCEPT ![b] = IF MStart(mcache[b]) = "idle" THEN IdleM
                                     ELSE [pc |-> MStart(mcache[b]), k |-> 1, c |-> mcache[b]]]
    BY <1>1 DEF MGet, svars, aux
  <2>2. CASE MStart(mcache[b]) = "idle"
    BY <1>b, <2>1, <2>2 DEF MDone
  <2>3. CASE MStart(mcache[b]) # "idle"
    <3>1. /\ mgr'[b].pc = MStart(mcache[b]) /\ mgr'[b].c = mcache[b] /\ mgr'[b].k = 1
          /\ \A a \in Binding \ {b} : mgr'[a] = mgr[a]
      BY <1>0, <2>1, <2>3
    <3>2. Proceeds(b)
      BY <3>1 DEF Proceeds
    <3> QED BY <1>0, <2>1, <3>1, <3>2, SoleProceeds
  <2> QED BY <2>2, <2>3
<1>2. ASSUME NEW b \in Binding, MValidate(b) \/ MConnect(b) \/ MCleanupClusterIDMappings(b) PROVE Sole'
  <2>1. UNCHANGED <<obj, mcache, stack, sseen, proc>>
    BY <1>2 DEF MValidate, MConnect, MCleanupClusterIDMappings, svars, aux
  <2>2. CASE MValidate(b)
    <3>1. mgr[b].pc = "validate" /\ (MGo(b, "connect", 1) \/ MGo(b, "fail", 1))
      BY <2>2, Zenon DEF MValidate, MSet
    <3> QED BY <1>a, <2>1, <3>1 DEF Building, MPc
  <2>3. CASE MConnect(b)
    BY <1>a, <2>1, <2>3 DEF MConnect, MSet, Building, MPc
  <2>4. CASE MCleanupClusterIDMappings(b)
    BY <1>a, <2>1, <2>4 DEF MCleanupClusterIDMappings, MSet, Removing, MPc
  <2> QED BY <1>2, <2>2, <2>3, <2>4
<1>3. ASSUME NEW b \in Binding, MError(b) PROVE Sole'
  <2>1. UNCHANGED <<obj, mcache, stack, sseen, proc>>
    BY <1>3 DEF MError, svars
  <2>2. CASE mgr[b].pc \in {"connect", "deploy"}
    <3>1. MGo(b, "fail", 1)
      BY <1>3, <2>2 DEF MError, MSet
    <3> QED BY <1>a, <2>1, <2>2, <3>1 DEF Building, MPc
  <2>3. CASE mgr[b].pc \notin {"connect", "deploy"}
    BY <1>3, <1>b, <2>1, <2>3 DEF MError, MRetry
  <2> QED BY <2>2, <2>3
<1>4. ASSUME NEW b \in Binding, MDeliver(b) PROVE Sole'
  <2>1. /\ UNCHANGED <<obj, stack, mgr, sseen, proc>>
        /\ mcache'[b] = obj[b] /\ \A a \in Binding \ {b} : mcache'[a] = mcache[a]
    BY <1>0, <1>4 DEF MDeliver, svars, aux
  <2>2. Seen'
    BY <2>1 DEF Sole, Seen, IdsGiven, Given, Born, Leaving
  <2>3. There'
    BY <2>1 DEF Sole, There, Placed, SyncerThere, Deployed, Served, ServedBorn
  <2> QED BY <2>2, <2>3 DEF Sole
<1>5. ASSUME sseen' = stack, UNCHANGED <<obj, stack, proc>> PROVE There'
  <2>1. Placed'
    <3>1. ASSUME NEW i \in ClusterID, NEW p \in Part, stack[i][p] # NoOwner
          PROVE  obj[stack[i][p].name].uid >= 1
      <4> DEFINE o == stack[i][p]
      <4>1. o.name \in Binding /\ o.uid \in Nat /\ o.uid >= 1 /\ o.uid <= obj[o.name].uid
        BY <1>0, <3>1 DEF TypeOK, Owner, Owners, OwnersPast, Sole, There, Placed
      <4> HIDE DEF o
      <4>2. obj[o.name].uid \in Nat
        BY <1>0, <4>1 DEF Object
      <4>3. obj[o.name].uid >= 1
        BY <4>1, <4>2
      <4> QED BY <4>3 DEF o
    <3> QED BY <1>0, <1>5, <3>1 DEF Sole, There, Placed, Owners, OwnersPast
  <2>2. SyncerThere' /\ ServedBorn'
    BY <1>5 DEF Sole, There, SyncerThere, Deployed, Served, ServedBorn
  <2> QED BY <2>1, <2>2 DEF There
<1>6. CASE MDeliverStack
  <2>1. sseen' = stack /\ UNCHANGED <<obj, stack, mcache, mgr, proc>>
    BY <1>6 DEF MDeliverStack, svars, aux
  <2>2. Seen'
    BY <2>1 DEF Sole, Seen, IdsGiven, Given, Born, Leaving
  <2> QED BY <1>5, <2>1, <2>2 DEF Sole
<1>7. CASE MRestart
  <2>1. /\ sseen' = stack /\ mcache' = obj /\ UNCHANGED <<obj, stack, proc>>
        /\ \A b \in Binding : mgr'[b].pc = "idle"
    BY <1>7 DEF MRestart, svars, IdleM
  <2>2. Seen'
    BY <1>r, <2>1 DEF Sole, Seen, IdsGiven, Given, Born, Leaving
  <2> QED BY <1>5, <2>1, <2>2 DEF Sole
<1>8. ASSUME NEW b \in Binding, MReconcile(b) PROVE Sole'
  BY <1>0, <1>1, <1>2, <1>8, SoleManagerWrite, SoleDeploy, SoleDelete DEF MReconcile
<1> QED BY <1>3, <1>4, <1>6, <1>7, <1>8 DEF ManagerNext

\* Syncers add their finalizer to what they read alive, and start where they are deployed.
LEMMA SoleSyncer ==
  ASSUME IInv, Sole, SyncerReads, Disjoint, SyncerNext
  PROVE  Sole'
<1>0. /\ TypeOK /\ Running /\ Core /\ Owners
      /\ obj \in [Binding -> Object]
      /\ proc \in [ClusterID -> Binding \union {None}]
  BY DEF IInv, TypeOK
<1>1. UNCHANGED <<mcache, stack, mgr, sseen>>
  BY DEF SyncerNext, SStart, SStop, SDeliver, SReconcile, SGet, SAddFinalizer, SRemoveFinalizer,
         SWrite, SCheckNodes, SCheckVirtual, SCheckPhysical, SError, SWork, NodeGet, NodeCreate,
         PodRuns, NodeDrain, CopyDelete, mvars, aux
<1>2. ASSUME UNCHANGED obj,
             \A b \in Binding : Served(b)' => Served(b) \/ (Deployed(b) /\ obj[b].exists)
      PROVE  Sole'
  <2>1. Seen' /\ Placed'
    BY <1>1, <1>2 DEF Sole, Seen, IdsGiven, Given, Born, Leaving, There, Placed
  <2>2. SyncerThere' /\ ServedBorn'
    <3>1. \A b \in Binding : Deployed(b)' <=> Deployed(b)
      BY <1>1 DEF Deployed
    <3>2. SyncerThere'
      BY <1>2, <3>1 DEF Sole, There, SyncerThere
    <3>3. ServedBorn'
      BY <1>2 DEF Sole, There, Seen, Born, ServedBorn
    <3> QED BY <3>2, <3>3
  <2> QED BY <2>1, <2>2 DEF Sole, There
<1>3. ASSUME NEW i \in ClusterID, SStart(i) PROVE Sole'
  <2>1. /\ proc' = [proc EXCEPT ![i] = stack[i]["syncer"].name]
        /\ obj[stack[i]["syncer"].name].exists /\ UNCHANGED obj
    BY <1>3 DEF SStart
  <2>2. ASSUME NEW b \in Binding, Served(b)' PROVE Served(b) \/ (Deployed(b) /\ obj[b].exists)
    <3>1. PICK j \in ClusterID : proc'[j] = b
      BY <2>2 DEF Served
    <3>2. CASE j = i
      <4>1. b = stack[i]["syncer"].name
        BY <1>0, <2>1, <3>1, <3>2
      <4> QED BY <2>1, <4>1 DEF Deployed
    <3>3. CASE j # i
      BY <1>0, <2>1, <3>1, <3>3 DEF Served
    <3> QED BY <3>2, <3>3
  <2> QED BY <1>2, <2>1, <2>2
<1>4. ASSUME NEW i \in ClusterID, SStop(i) PROVE Sole'
  <2>1. proc' = [proc EXCEPT ![i] = None] /\ UNCHANGED obj
    BY <1>4 DEF SStop
  <2>2. \A b \in Binding : Served(b)' => Served(b)
    BY <1>0, <2>1, ConstantsAssumption DEF Served
  <2> QED BY <1>2, <2>1, <2>2
<1>5. ASSUME UNCHANGED <<obj, proc>> PROVE Sole'
  BY <1>2, <1>5 DEF Served
<1>6. ASSUME NEW i \in ClusterID, SAddFinalizer(i) \/ SRemoveFinalizer(i) PROVE Sole'
  <2> DEFINE b == proc[i]
  <2>1. b \in Binding /\ Served(b) /\ UNCHANGED proc
    BY <1>0, <1>6 DEF Running, SAddFinalizer, SRemoveFinalizer, SWrite, Served
  <2>2. obj[b] \in Object /\ obj[b].phase \in Phase
    BY <1>0, <2>1 DEF Object
  <2>3. CASE obj[b] # sy[i].c
    BY <1>5, <1>6, <2>3 DEF SAddFinalizer, SRemoveFinalizer, SWrite, Current
  <2>4. CASE SAddFinalizer(i) /\ obj[b] = sy[i].c
    <3> DEFINE e == Settle([obj[b] EXCEPT !.sfin = TRUE])
    <3>1. obj[b].exists /\ ~obj[b].deleting
      BY <2>4 DEF SAddFinalizer, SyncerReads
    <3>2. e \in Object /\ Softer(obj[b], e)
      BY <2>2, <3>1, ObjectTypes, ObjectEdits, SoftEdits
    <3>3. obj' = [obj EXCEPT ![b] = e]
      BY <2>4 DEF SAddFinalizer, SWrite, Current, Put
    <3> HIDE DEF e, b
    <3> QED BY <1>0, <1>1, <2>1, <2>2, <3>2, <3>3, SoleEdit
  <2>5. CASE SRemoveFinalizer(i) /\ obj[b] = sy[i].c
    <3> DEFINE e == Settle([obj[b] EXCEPT !.sfin = FALSE])
    <3>1. e \in Object /\ Softer(obj[b], e)
      BY <2>2, ObjectTypes, ObjectEdits, SoftEdits
    <3>2. obj' = [obj EXCEPT ![b] = e]
      BY <2>5 DEF SRemoveFinalizer, SWrite, Current, Put
    <3> HIDE DEF e, b
    <3> QED BY <1>0, <1>1, <2>1, <2>2, <3>1, <3>2, SoleEdit
  <2> QED BY <1>6, <2>3, <2>4, <2>5
<1>7. \/ UNCHANGED <<obj, proc>>
      \/ \E i \in ClusterID : SStart(i) \/ SStop(i) \/ SAddFinalizer(i) \/ SRemoveFinalizer(i)
  BY DEF SyncerNext, SDeliver, SReconcile, SGet, SCheckNodes, SCheckVirtual, SCheckPhysical,
         SError, SWork, NodeGet, NodeCreate, PodRuns, NodeDrain, CopyDelete
<1> QED BY <1>3, <1>4, <1>5, <1>6, <1>7

LEMMA SoleEnv ==
  ASSUME IInv, Sole, Disjoint, NoReuse, NoReuse', EnvNext
  PROVE  Sole'
<1>0. TypeOK /\ Core /\ Owners /\ obj \in [Binding -> Object]
  BY DEF IInv, TypeOK
<1>1. \A b \in Binding : obj[b] \in Object /\ obj[b].phase \in Phase /\ obj[b].uid \in Nat
  BY <1>0 DEF Object
<1>2. ASSUME NEW b \in Binding, NEW i \in IdsOf[b], UserCreate(b, i) PROVE Sole'
  <2> DEFINE e == Fresh(obj[b].uid + 1, i)
  <2>1. i \in ClusterID /\ obj[b].uid + 1 \in Nat
    BY <1>1, ConstantsAssumption
  <2>2. /\ e \in Object /\ e.uid = obj[b].uid + 1 /\ Given(b, e) /\ ~e.sfin
    BY <2>1, ObjectTypes DEF Fresh, Given
  <2>3. obj' = [obj EXCEPT ![b] = e] /\ UNCHANGED <<mcache, mgr, stack, sseen, proc>>
    BY <1>2 DEF UserCreate, mvars, svars, aux
  <2> HIDE DEF e
  <2>4. obj[b].uid = 0
    <3>1. obj'[b].uid <= 1 /\ obj'[b] = e
      BY <1>0, <2>3 DEF NoReuse
    <3>2. obj[b].uid + 1 <= 1
      BY <2>2, <3>1, Zenon
    <3> QED BY <1>1, <3>2
  <2>5. obj[b].uid <= e.uid /\ e.uid >= 1 /\ ~(obj[b].uid >= 1)
    <3>1. e.uid = 0 + 1
      BY <2>2, <2>4, Zenon
    <3> QED BY <2>4, <3>1
  <2> QED BY <1>0, <2>2, <2>3, <2>4, <2>5, SoleWrite
<1>3. ASSUME NEW b \in Binding, NEW i \in IdsOf[b], UserChangeID(b, i) PROVE Sole'
  <2> DEFINE e == [obj[b] EXCEPT !.id = i]
  <2>1. e \in Object
    BY <1>1, ConstantsAssumption, ObjectEdits
  <2>2. /\ Given(b, e) /\ e.uid = obj[b].uid /\ e.exists = obj[b].exists
        /\ e.sfin = obj[b].sfin /\ e.deleting = obj[b].deleting
    BY <1>1 DEF Given, Object
  <2>3. /\ obj' = [obj EXCEPT ![b] = e]
        /\ UNCHANGED <<mcache, mgr, stack, sseen, proc>>
    BY <1>3 DEF UserChangeID, mvars, svars
  <2>4. Left(e) <=> Left(obj[b])
    BY <2>2 DEF Left
  <2>6. obj[b].uid <= e.uid /\ (e.exists => e.uid >= 1)
    BY <1>1, <2>2 DEF Sole, Seen, Born
  <2> HIDE DEF e
  <2> QED BY <1>0, <2>1, <2>2, <2>3, <2>4, <2>6, SoleWrite
<1>4. ASSUME NEW b \in Binding, UserDelete(b) PROVE Sole'
  <2> DEFINE e == Settle([obj[b] EXCEPT !.deleting = TRUE])
  <2>1. e \in Object
    BY <1>1, ObjectTypes, ObjectEdits
  <2>2. Softer(obj[b], e) /\ (e.exists /\ e.sfin => obj[b].sfin)
    BY <1>1, SoftEdits
  <2>3. obj' = [obj EXCEPT ![b] = e] /\ UNCHANGED <<mcache, mgr, stack, sseen, proc>>
    BY <1>4 DEF UserDelete, Put, mvars, svars
  <2> HIDE DEF e
  <2> QED BY <1>0, <1>1, <2>1, <2>2, <2>3, SoleEdit
<1> QED BY <1>0, <1>2, <1>3, <1>4, SoleGC DEF EnvNext
LEMMA ReadsStep ==
  ASSUME TypeOK, SyncerReads, [Next]_vars
  PROVE  SyncerReads'
<1>0. sy \in [ClusterID -> [pc : SPc, c : Object]]
  BY DEF TypeOK
<1>1. ASSUME NEW i \in ClusterID, NEW r, sy' = [sy EXCEPT ![i] = r],
             r.pc = "addFinalizer" => r.c.exists /\ ~r.c.deleting
      PROVE  SyncerReads'
  BY <1>0, <1>1 DEF SyncerReads
<1>2. ASSUME UNCHANGED sy PROVE SyncerReads'
  BY <1>2 DEF SyncerReads
<1>3. CASE ManagerNext
  <2>1. ASSUME NEW b \in Binding, MReconcile(b) PROVE UNCHANGED svars
    BY <2>1 DEF MReconcile, MGet, MAddFinalizer, MInitStatus, MValidate, MConnect, MDeploy,
                MDelete, MReady, MFail, MCleanupClusterIDMappings, MRemoveFinalizer, MWrite
  <2>2. UNCHANGED svars
    BY <1>3, <2>1 DEF ManagerNext, MError, MDeliver, MDeliverStack, MRestart
  <2> QED BY <1>2, <2>2 DEF svars
<1>4. CASE EnvNext
  BY <1>2, <1>4 DEF EnvNext, UserCreate, UserChangeID, UserDelete, OwnerGC, svars
<1>5. CASE UNCHANGED vars
  BY <1>2, <1>5 DEF vars, svars
<1>6. ASSUME NEW i \in ClusterID, sy' = [sy EXCEPT ![i] = IdleS] PROVE SyncerReads'
  BY <1>1, <1>6 DEF IdleS
<1>7. ASSUME NEW i \in ClusterID, NEW pc, pc # "addFinalizer", SSet(i, pc) PROVE SyncerReads'
  BY <1>1, <1>7 DEF SSet
<1>8. ASSUME NEW i \in ClusterID, SGet(i) PROVE SyncerReads'
  <2> DEFINE c == scache[i]
             r == IF ~c.exists \/ (~c.deleting /\ c.sfin) THEN IdleS
                  ELSE [pc |-> IF c.deleting THEN "nodes" ELSE "addFinalizer", c |-> c]
  <2>1. sy' = [sy EXCEPT ![i] = r]
    BY <1>8 DEF SGet
  <2>2. r.pc = "addFinalizer" => r.c.exists /\ ~r.c.deleting
    BY DEF IdleS
  <2> HIDE DEF r
  <2> QED BY <1>1, <2>1, <2>2
<1>9. ASSUME NEW i \in ClusterID, SCheckNodes(i) \/ SCheckVirtual(i) \/ SCheckPhysical(i)
      PROVE  SyncerReads'
  BY <1>6, <1>7, <1>9 DEF SCheckNodes, SCheckVirtual, SCheckPhysical, SDone
<1>10. ASSUME NEW i \in ClusterID, SStop(i) \/ SAddFinalizer(i) \/ SRemoveFinalizer(i) \/ SError(i)
       PROVE  SyncerReads'
  BY <1>6, <1>10 DEF SStop, SAddFinalizer, SRemoveFinalizer, SWrite, SError, SDone
<1>11. ASSUME NEW i \in ClusterID, SStart(i) \/ SDeliver(i) \/ SWork(i) PROVE SyncerReads'
  BY <1>2, <1>11 DEF SStart, SDeliver, SWork, NodeGet, NodeCreate, PodRuns, NodeDrain, CopyDelete
<1> QED BY <1>3, <1>4, <1>5, <1>8, <1>9, <1>10, <1>11 DEF Next, SyncerNext, SReconcile

LEMMA SoleInit == Init => Sole /\ SyncerReads
<1> SUFFICES ASSUME Init PROVE Sole /\ SyncerReads
  OBVIOUS
<1>1. /\ \A b \in Binding : obj[b] = Gone(0) /\ mcache[b] = Gone(0) /\ mgr[b].pc = "idle"
      /\ \A i \in ClusterID, p \in Part : stack[i][p] = NoOwner /\ sseen[i][p] = NoOwner
      /\ \A i \in ClusterID : proc[i] = None /\ sy[i].pc = "idle"
  BY DEF Init, IdleM, IdleS
<1>2. Left(Gone(0)) /\ ~Gone(0).exists /\ Gone(0).uid = 0
  BY DEF Left, Gone, Fresh
<1>3. Seen
  BY <1>1, <1>2 DEF Seen, IdsGiven, Given, Born, Leaving, Removing
<1>4. There
  BY <1>1, <1>2, ConstantsAssumption DEF There, Placed, SyncerThere, ServedBorn, Served
<1> QED BY <1>1, <1>3, <1>4 DEF Sole, SyncerReads

LEMMA SoleStep ==
  ASSUME IInv, Sole, SyncerReads, Disjoint, NoReuse, NoReuse', [Next]_vars
  PROVE  Sole'
<1>1. CASE UNCHANGED vars
  <2>1. UNCHANGED <<obj, stack, sseen, mcache, mgr, proc>>
    BY <1>1 DEF vars, mvars, svars, aux
  <2>2. Seen'
    BY <2>1 DEF Sole, Seen, IdsGiven, Given, Born, Leaving
  <2>3. There'
    BY <2>1 DEF Sole, There, Placed, SyncerThere, Deployed, Served, ServedBorn
  <2> QED BY <2>2, <2>3 DEF Sole
<1> QED BY <1>1, SoleManager, SoleSyncer, SoleEnv DEF Next

LEMMA SoleInvariant == ASSUME Disjoint PROVE Spec /\ []NoReuse => []Sole
<1>1. IInv /\ Sole /\ SyncerReads /\ NoReuse /\ NoReuse' /\ [Next]_vars => Sole' /\ SyncerReads'
  BY SoleStep, ReadsStep DEF IInv
<1> QED BY <1>1, SoleInit, InvInit, InvStep, PTL DEF Spec

\* Bindings with identifiers of their own whose names are not used again: as long as one
\* carries the syncer's finalizer, the syncer that has to remove it is deployed, however
\* late the manager and the syncer see each other's writes, whoever crashes and whatever
\* identifier a user writes.
THEOREM SyncerOutlivesFinalizer == ASSUME Disjoint PROVE Spec /\ []NoReuse => []SyncerKept
BY SoleInvariant, SoleKeeps, PTL
=============================================================================
