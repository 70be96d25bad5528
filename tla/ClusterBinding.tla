--------------------------- MODULE ClusterBinding ---------------------------
(***************************************************************************)
(* The life of ClusterBinding objects under two programs.                  *)
(*                                                                         *)
(* The manager validates a binding, deploys a proxier (Deployment and      *)
(* Service) and a syncer under names made of the cluster ID, and takes     *)
(* them away when the binding is deleted.  The syncer adds a finalizer of  *)
(* its own, fills the clusters with nodes, pods and copies, and removes    *)
(* the finalizer when nothing of that is left.  Each program reads the     *)
(* binding from its own cache; the manager also reads the deployed objects *)
(* from a cache.  A delivery brings a cache up to date: since it may come  *)
(* right after any write, every earlier version can be what is cached.     *)
(***************************************************************************)
EXTENDS Naturals, FiniteSets

CONSTANTS
  Binding,    \* names of ClusterBindings
  ClusterID,  \* cluster identifiers
  IdsOf,      \* IdsOf[b]: the identifiers users may give to binding b
  None,       \* no name, no identifier
  MaxInc,     \* bound: objects ever created under one name
  MaxDelete,  \* bound: deletions of bindings asked for by users
  MaxChange,  \* bound: changes of spec.clusterID
  MaxRestart, \* bound: restarts of the manager and crashes of syncers
  MaxError    \* bound: API calls, validations and connectivity tests that fail

ASSUME ConstantsAssumption ==
  /\ IdsOf \in [Binding -> SUBSET ClusterID]
  /\ None \notin Binding \union ClusterID
  /\ MaxInc \in Nat /\ MaxDelete \in Nat /\ MaxChange \in Nat /\ MaxRestart \in Nat
  /\ MaxError \in Nat

VARIABLES
  obj,      \* obj[b]: the binding in the API server
  stack,    \* stack[i][p]: whose object part p deployed under identifier i is
  \* the manager
  mcache,   \* mcache[b]: its cached copy of the binding
  sseen,    \* its cached copy of stack
  mq,       \* names in its work queue
  mgr,      \* mgr[b]: the reconcile of b in flight
  nameToClusterID, clusterIDToName,  \* its maps, in memory only
  \* the syncers
  proc,     \* proc[i]: the binding the running syncer of i serves, or None
  scache,   \* scache[i]: that syncer's cached copy of its binding
  sq,       \* identifiers whose syncer has its binding queued
  sy,       \* sy[i]: the reconcile of the binding in flight
  nd,       \* identifiers whose node controller is about to create a virtual node
  res,      \* res[b]: what the syncer made for b: "node", "pod", "copy"
  annot,    \* bindings whose copies carry the clusterbinding-deleting annotation
  \* bounds
  deletes, changes, restarts, errors,
  \* history, read by no action
  cleared,  \* identifiers whose record was removed while it named another binding
  forgot,   \* bindings whose record the manager lost when it was restarted
  touched   \* <<b, i>>: a user deleted b, which had identifier i, or gave it i or another one

mvars == <<mcache, sseen, mq, mgr, nameToClusterID, clusterIDToName>>
svars == <<proc, scache, sq, sy, nd, res, annot>>
aux == <<deletes, changes, restarts, errors, cleared, forgot, touched>>
vars == <<obj, stack, mvars, svars, aux>>

----------------------------------------------------------------------------
Phase == {"", "Pending", "Failed", "Ready"}

\* mfin, sfin: the manager's and the syncer's finalizer.
Object == [uid : Nat, exists : BOOLEAN, id : ClusterID \union {None}, phase : Phase,
           mfin : BOOLEAN, sfin : BOOLEAN, deleting : BOOLEAN]

Fresh(u, i) == [uid |-> u, exists |-> TRUE, id |-> i, phase |-> "", mfin |-> FALSE,
                sfin |-> FALSE, deleting |-> FALSE]
Gone(u) == [Fresh(u, None) EXCEPT !.exists = FALSE]

\* The owner reference of a deployed object.
Owner == [name : Binding \union {None}, uid : Nat]
NoOwner == [name |-> None, uid |-> 0]

Part == {"proxier", "service", "syncer"}
DeployOrder == <<"proxier", "service", "syncer">>
DeleteOrder == <<"syncer", "proxier", "service">>

\* Update and Status().Update of binding b, read as c and sent as d: TRUE when
\* c is still current.  A deleted object goes with its last finalizer.
Current(b, c) == obj[b] = c
Settle(d) == IF d.deleting /\ ~d.mfin /\ ~d.sfin THEN Gone(d.uid) ELSE d
Put(b, d) == obj' = [obj EXCEPT ![b] = Settle(d)]

----------------------------------------------------------------------------
(* The manager's ClusterBindingReconciler.                                 *)

IdleM == [pc |-> "idle", k |-> 1, c |-> Gone(0)]
MGo(b, pc, k) == mgr' = [mgr EXCEPT ![b] = [pc |-> pc, k |-> k, c |-> @.c]]
MSet(b, pc) == MGo(b, pc, 1)
MDone(b) == mgr' = [mgr EXCEPT ![b] = IdleM]
\* An error is returned: the request is queued again.
MRetry(b) == MDone(b) /\ mq' = mq \union {b}

\* Mutant: no finalizer before the first deployment.
MStartNoFinalizer(c) ==
  CASE ~c.exists \/ (c.deleting /\ c.sfin) -> "idle"
    [] c.exists /\ c.deleting /\ ~c.sfin   -> "delete"
    [] c.exists /\ ~c.deleting /\ c.phase = "" -> "initStatus"
    [] OTHER -> "validate"

\* Mutant: the syncer's finalizer is not waited for.
MStartNoWait(c) ==
  CASE ~c.exists -> "idle"
    [] c.exists /\ c.deleting -> "delete"
    [] c.exists /\ ~c.deleting /\ ~c.mfin  -> "addFinalizer"
    [] c.exists /\ ~c.deleting /\ c.mfin /\ c.phase = "" -> "initStatus"
    [] OTHER -> "validate"

\* Reconcile up to its first write.  A deletion waits for the syncer's
\* finalizer without being queued again.
MStart(c) ==
  CASE ~c.exists \/ (c.deleting /\ c.sfin) -> "idle"
    [] c.exists /\ c.deleting /\ ~c.sfin   -> "delete"
    [] c.exists /\ ~c.deleting /\ ~c.mfin  -> "addFinalizer"
    [] c.exists /\ ~c.deleting /\ c.mfin /\ c.phase = "" -> "initStatus"
    [] OTHER -> "validate"

MGet(b) ==
  LET c == mcache[b] IN
  /\ mgr[b].pc = "idle" /\ b \in mq
  /\ mq' = mq \ {b}
  /\ mgr' = [mgr EXCEPT ![b] = IF MStart(c) = "idle" THEN IdleM
                               ELSE [pc |-> MStart(c), k |-> 1, c |-> c]]
  /\ UNCHANGED <<obj, stack, mcache, sseen, nameToClusterID, clusterIDToName,
                 svars, aux>>

\* A write of the object that ends the reconcile; a conflict is an error.
MWrite(b, d, again) ==
  /\ MDone(b)
  /\ IF Current(b, mgr[b].c) THEN Put(b, d) ELSE UNCHANGED obj
  /\ mq' = IF again \/ ~Current(b, mgr[b].c) THEN mq \union {b} ELSE mq
  /\ UNCHANGED <<stack, mcache, sseen, nameToClusterID, clusterIDToName,
                 svars, aux>>

MAddFinalizer(b) == /\ mgr[b].pc = "addFinalizer"
                    /\ MWrite(b, [mgr[b].c EXCEPT !.mfin = TRUE], FALSE)

MInitStatus(b) == /\ mgr[b].pc = "initStatus"
                  /\ MWrite(b, [mgr[b].c EXCEPT !.phase = "Pending"], FALSE)

\* Mutant: a binding that is recorded may come with another identifier.
MValidateIDOnly(b) ==
  LET i == mgr[b].c.id
      free == clusterIDToName[i] \in {None, b}
  IN  /\ mgr[b].pc = "validate"
      /\ nameToClusterID' = [nameToClusterID EXCEPT ![b] = i]
      /\ clusterIDToName' = IF free THEN [clusterIDToName EXCEPT ![i] = b]
                            ELSE clusterIDToName
      /\ MSet(b, IF free THEN "connect" ELSE "fail")
      /\ UNCHANGED <<obj, stack, mcache, sseen, mq, svars, aux>>

\* validateClusterIDConsistency, under its lock: the name is recorded before
\* the identifier is looked up.
MValidate(b) ==
  LET i == mgr[b].c.id
      sameID == nameToClusterID[b] \in {None, i}
      free   == clusterIDToName[i] \in {None, b}
  IN  /\ mgr[b].pc = "validate"
      /\ nameToClusterID' = IF sameID THEN [nameToClusterID EXCEPT ![b] = i]
                            ELSE nameToClusterID
      /\ clusterIDToName' = IF sameID /\ free THEN [clusterIDToName EXCEPT ![i] = b]
                            ELSE clusterIDToName
      /\ MSet(b, IF sameID /\ free THEN "connect" ELSE "fail")
      /\ UNCHANGED <<obj, stack, mcache, sseen, mq, svars, aux>>

\* The other fields are valid, the kubeconfig works and the cluster answers.
MConnect(b) ==
  /\ mgr[b].pc = "connect"
  /\ MSet(b, "deploy")
  /\ UNCHANGED <<obj, stack, mcache, sseen, mq, nameToClusterID, clusterIDToName,
                 svars, aux>>

\* Mutant: the last part is forgotten.
MDeployShort(b, k) ==
  LET c == mgr[b].c
      p == DeployOrder[k]
      seen == sseen[c.id][p]
      mine == [name |-> b, uid |-> c.uid]
  IN  /\ mgr[b].pc = "deploy" /\ mgr[b].k = k
      /\ stack' = IF seen # NoOwner THEN stack ELSE [stack EXCEPT ![c.id][p] = mine]
      /\ IF k = 2 THEN MSet(b, "ready") ELSE MGo(b, "deploy", k + 1)
      /\ UNCHANGED <<obj, mcache, sseen, mq, nameToClusterID, clusterIDToName,
                     svars, aux>>

\* createOrUpdateResource for part k: a Deployment that is there is left alone,
\* a Service is updated, what the cache does not show is created.
MDeploy(b, k) ==
  LET c == mgr[b].c
      p == DeployOrder[k]
      seen == sseen[c.id][p]
      real == stack[c.id][p]
      mine == [name |-> b, uid |-> c.uid]
      keep == seen # NoOwner /\ p # "service"
      refused == ~keep /\ real # seen
  IN  /\ mgr[b].pc = "deploy" /\ mgr[b].k = k
      /\ stack' = IF keep \/ refused THEN stack ELSE [stack EXCEPT ![c.id][p] = mine]
      /\ IF refused THEN MSet(b, "fail")
         ELSE IF k = 3 THEN MSet(b, "ready") ELSE MGo(b, "deploy", k + 1)
      /\ UNCHANGED <<obj, mcache, sseen, mq, nameToClusterID, clusterIDToName,
                     svars, aux>>

MReady(b) == /\ mgr[b].pc = "ready"
             /\ IF mgr[b].c.phase = "Ready"
                THEN /\ MDone(b)
                     /\ UNCHANGED <<obj, stack, mcache, sseen, mq, nameToClusterID,
                                    clusterIDToName, svars, aux>>
                ELSE MWrite(b, [mgr[b].c EXCEPT !.phase = "Ready"], FALSE)

\* Every failure sets the phase and returns the error.
MFail(b) == /\ mgr[b].pc = "fail"
            /\ MWrite(b, [mgr[b].c EXCEPT !.phase = "Failed"], TRUE)

\* handleDeletion, deleteResourceWithFallback for part k: what the cache does not
\* show counts as cleaned up; the rest is deleted by name.
MDelete(b, k) ==
  LET c == mgr[b].c
      p == DeleteOrder[k]
  IN  /\ mgr[b].pc = "delete" /\ mgr[b].k = k
      /\ stack' = IF sseen[c.id][p] = NoOwner THEN stack
                  ELSE [stack EXCEPT ![c.id][p] = NoOwner]
      /\ IF k = 3 THEN MSet(b, "unmap") ELSE MGo(b, "delete", k + 1)
      /\ UNCHANGED <<obj, mcache, sseen, mq, nameToClusterID, clusterIDToName,
                     svars, aux>>

\* cleanupClusterIDMappings.
MCleanupClusterIDMappings(b) ==
  /\ mgr[b].pc = "unmap"
  /\ nameToClusterID' = [nameToClusterID EXCEPT ![b] = None]
  /\ clusterIDToName' = [clusterIDToName EXCEPT ![mgr[b].c.id] = None]
  /\ cleared' = IF clusterIDToName[mgr[b].c.id] \in {None, b} THEN cleared
                ELSE cleared \union {mgr[b].c.id}
  /\ MSet(b, "removeFinalizer")
  /\ UNCHANGED <<obj, stack, mcache, sseen, mq, svars, deletes, changes, restarts, errors,
                 forgot, touched>>

MRemoveFinalizer(b) == /\ mgr[b].pc = "removeFinalizer"
                       /\ MWrite(b, [mgr[b].c EXCEPT !.mfin = FALSE], FALSE)

\* An API call, the validation of another field or the connectivity test fails.
MError(b) ==
  /\ mgr[b].pc \notin {"idle", "validate", "unmap"}
  /\ errors < MaxError /\ errors' = errors + 1
  /\ IF mgr[b].pc \in {"connect", "deploy"} THEN MSet(b, "fail") /\ UNCHANGED mq
     ELSE MRetry(b)
  /\ UNCHANGED <<obj, stack, mcache, sseen, nameToClusterID, clusterIDToName,
                 svars, deletes, changes, restarts, cleared, forgot, touched>>

\* Mutant: the event filter drops changes of the finalizers.
MDeliverFiltered(b) ==
  LET o == mcache[b]
      n == obj[b]
  IN  /\ o # n
      /\ mcache' = [mcache EXCEPT ![b] = n]
      /\ mq' = IF [o EXCEPT !.mfin = n.mfin, !.sfin = n.sfin] = n THEN mq
               ELSE mq \union {b}
      /\ UNCHANGED <<obj, stack, sseen, mgr, nameToClusterID, clusterIDToName,
                     svars, aux>>

\* The watch on bindings: the event filter lets every change through that this
\* model can tell.
MDeliver(b) ==
  /\ mcache[b] # obj[b]
  /\ mcache' = [mcache EXCEPT ![b] = obj[b]]
  /\ mq' = mq \union {b}
  /\ UNCHANGED <<obj, stack, sseen, mgr, nameToClusterID, clusterIDToName,
                 svars, aux>>

MDeliverStack ==
  /\ sseen # stack
  /\ sseen' = stack
  /\ UNCHANGED <<obj, stack, mcache, mq, mgr, nameToClusterID, clusterIDToName,
                 svars, aux>>

\* The manager dies and starts again: NewClusterBindingReconciler makes empty
\* maps, and the first list queues every binding.
MRestart ==
  /\ restarts < MaxRestart /\ restarts' = restarts + 1
  /\ mgr' = [b \in Binding |-> IdleM]
  /\ nameToClusterID' = [b \in Binding |-> None]
  /\ clusterIDToName' = [i \in ClusterID |-> None]
  /\ mcache' = obj /\ sseen' = stack
  /\ mq' = {b \in Binding : obj[b].exists}
  /\ forgot' = forgot \union {b \in Binding : nameToClusterID[b] # None}
  /\ UNCHANGED <<obj, stack, svars, deletes, changes, errors, cleared, touched>>

----------------------------------------------------------------------------
(* The syncer of identifier i.                                             *)

IdleS == [pc |-> "idle", c |-> Gone(0)]
SSet(i, pc) == sy' = [sy EXCEPT ![i] = [pc |-> pc, c |-> @.c]]
SDone(i, again) == /\ sy' = [sy EXCEPT ![i] = IdleS]
                   /\ sq' = IF again THEN sq \union {i} ELSE sq

\* The Deployment's pod starts: KubeoceanSyncer.Start needs the binding its
\* template named.
SStart(i) ==
  LET b == stack[i]["syncer"].name IN
  /\ proc[i] = None /\ b # None /\ obj[b].exists
  /\ proc' = [proc EXCEPT ![i] = b]
  /\ scache' = [scache EXCEPT ![i] = obj[b]]
  /\ sq' = sq \union {i}
  /\ UNCHANGED <<obj, stack, mvars, sy, nd, res, annot, aux>>

\* The pod goes some time after its Deployment, or crashes.
SStop(i) ==
  /\ proc[i] # None
  /\ \/ stack[i]["syncer"].name # proc[i] /\ UNCHANGED restarts
     \/ restarts < MaxRestart /\ restarts' = restarts + 1
  /\ proc' = [proc EXCEPT ![i] = None]
  /\ scache' = [scache EXCEPT ![i] = Gone(0)]
  /\ sy' = [sy EXCEPT ![i] = IdleS]
  /\ sq' = sq \ {i} /\ nd' = nd \ {i}
  /\ UNCHANGED <<obj, stack, mvars, res, annot, deletes, changes, errors, cleared, forgot,
                 touched>>

SDeliver(i) ==
  LET b == proc[i] IN
  /\ b # None /\ scache[i] # obj[b]
  /\ scache' = [scache EXCEPT ![i] = obj[b]]
  /\ sq' = sq \union {i}
  /\ UNCHANGED <<obj, stack, mvars, proc, sy, nd, res, annot, aux>>

\* Reconcile: a deletion is handled whether or not the finalizer is there.
SGet(i) ==
  LET c == scache[i] IN
  /\ proc[i] # None /\ sy[i].pc = "idle" /\ i \in sq
  /\ sq' = sq \ {i}
  /\ sy' = [sy EXCEPT ![i] = IF ~c.exists \/ (~c.deleting /\ c.sfin) THEN IdleS
                             ELSE [pc |-> IF c.deleting THEN "nodes" ELSE "addFinalizer",
                                   c |-> c]]
  /\ UNCHANGED <<obj, stack, mvars, proc, scache, nd, res, annot, aux>>

SWrite(i, d) ==
  LET b == proc[i] IN
  /\ SDone(i, ~Current(b, sy[i].c))
  /\ IF Current(b, sy[i].c) THEN Put(b, d) ELSE UNCHANGED obj
  /\ UNCHANGED <<stack, mvars, proc, scache, nd, res, annot, aux>>

SAddFinalizer(i) == /\ sy[i].pc = "addFinalizer"
                    /\ SWrite(i, [sy[i].c EXCEPT !.sfin = TRUE])

\* Mutant: virtual nodes are not looked at again.
SCheckNodesOnce(i) ==
  /\ sy[i].pc = "nodes"
  /\ IF "node" \in res[proc[i]] THEN SDone(i, FALSE)
     ELSE SSet(i, "virtual") /\ UNCHANGED sq
  /\ UNCHANGED <<obj, stack, mvars, proc, scache, nd, res, annot, aux>>

\* handleClusterBindingDeletion: no virtual node may be left ...
SCheckNodes(i) ==
  /\ sy[i].pc = "nodes"
  /\ IF "node" \in res[proc[i]] THEN SDone(i, TRUE) ELSE SSet(i, "virtual") /\ UNCHANGED sq
  /\ UNCHANGED <<obj, stack, mvars, proc, scache, nd, res, annot, aux>>

\* ... no virtual object of the cluster (checkAndCleanVirtualResources marks the
\* ones it finds) ...
SCheckVirtual(i) ==
  LET b == proc[i] IN
  /\ sy[i].pc = "virtual"
  /\ IF "copy" \in res[b] THEN SDone(i, TRUE) /\ annot' = annot \union {b}
     ELSE SSet(i, "physical") /\ UNCHANGED <<sq, annot>>
  /\ UNCHANGED <<obj, stack, mvars, proc, scache, nd, res, aux>>

\* ... and no physical one (checkPhysicalResourcesExist).
SCheckPhysical(i) ==
  /\ sy[i].pc = "physical"
  /\ IF res[proc[i]] \intersect {"pod", "copy"} # {} THEN SDone(i, TRUE)
     ELSE IF sy[i].c.sfin THEN SSet(i, "removeFinalizer") /\ UNCHANGED sq
     ELSE SDone(i, FALSE)
  /\ UNCHANGED <<obj, stack, mvars, proc, scache, nd, res, annot, aux>>

SRemoveFinalizer(i) == /\ sy[i].pc = "removeFinalizer"
                       /\ SWrite(i, [sy[i].c EXCEPT !.sfin = FALSE])

SError(i) ==
  /\ sy[i].pc # "idle"
  /\ errors < MaxError /\ errors' = errors + 1
  /\ SDone(i, TRUE)
  /\ UNCHANGED <<obj, stack, mvars, proc, scache, nd, res, annot, deletes, changes,
                 restarts, cleared, forgot, touched>>

\* The node controller reads the binding (processNode) and creates a virtual node
\* later; a node not yet in the cache that SCheckNodes lists is one on its way.
NodeGet(i) ==
  /\ proc[i] # None /\ i \notin nd
  /\ scache[i].exists /\ ~scache[i].deleting
  /\ "node" \notin res[proc[i]]
  /\ nd' = nd \union {i}
  /\ UNCHANGED <<obj, stack, mvars, proc, scache, sq, sy, res, annot, aux>>

NodeCreate(i) ==
  /\ i \in nd
  /\ nd' = nd \ {i}
  /\ res' = [res EXCEPT ![proc[i]] = @ \union {"node"}]
  /\ UNCHANGED <<obj, stack, mvars, proc, scache, sq, sy, annot, aux>>

\* A pod runs on the virtual node, with its physical pod and the copies it needs.
PodRuns(i) ==
  LET b == proc[i] IN
  /\ b # None /\ "node" \in res[b] /\ "pod" \notin res[b]
  /\ scache[i].exists /\ ~scache[i].deleting
  /\ res' = [res EXCEPT ![b] = @ \union {"pod", "copy"}]
  /\ UNCHANGED <<obj, stack, mvars, proc, scache, sq, sy, nd, annot, aux>>

\* The binding is being deleted: pods are evicted, then the node goes.
NodeDrain(i) ==
  LET b == proc[i] IN
  /\ b # None /\ scache[i].deleting /\ "node" \in res[b]
  /\ res' = [res EXCEPT ![b] = IF "pod" \in @ THEN @ \ {"pod"} ELSE @ \ {"node"}]
  /\ UNCHANGED <<obj, stack, mvars, proc, scache, sq, sy, nd, annot, aux>>

\* The resource controllers delete the copies of marked objects.
CopyDelete(i) ==
  LET b == proc[i] IN
  /\ b # None /\ b \in annot /\ "copy" \in res[b]
  /\ res' = [res EXCEPT ![b] = @ \ {"copy"}]
  /\ UNCHANGED <<obj, stack, mvars, proc, scache, sq, sy, nd, annot, aux>>

----------------------------------------------------------------------------
(* Users and the garbage collector of the API server.                      *)

UserCreate(b, i) ==
  /\ ~obj[b].exists /\ obj[b].uid < MaxInc
  /\ obj' = [obj EXCEPT ![b] = Fresh(@.uid + 1, i)]
  /\ UNCHANGED <<stack, mvars, svars, aux>>

UserDelete(b) ==
  /\ obj[b].exists /\ ~obj[b].deleting
  /\ deletes < MaxDelete /\ deletes' = deletes + 1
  /\ Put(b, [obj[b] EXCEPT !.deleting = TRUE])
  /\ touched' = touched \union {<<b, obj[b].id>>}
  /\ UNCHANGED <<stack, mvars, svars, changes, restarts, errors, cleared, forgot>>

UserChangeID(b, i) ==
  /\ obj[b].exists /\ obj[b].id # i
  /\ changes < MaxChange /\ changes' = changes + 1
  /\ obj' = [obj EXCEPT ![b].id = i]
  /\ touched' = touched \union {<<b, obj[b].id>>, <<b, i>>}
  /\ UNCHANGED <<stack, mvars, svars, deletes, restarts, errors, cleared, forgot>>

\* A deployed object goes when the binding its owner reference names is gone.
OwnerGC(i, p) ==
  LET o == stack[i][p] IN
  /\ o # NoOwner
  /\ ~(obj[o.name].exists /\ obj[o.name].uid = o.uid)
  /\ stack' = [stack EXCEPT ![i][p] = NoOwner]
  /\ UNCHANGED <<obj, mvars, svars, aux>>

----------------------------------------------------------------------------
Init ==
  /\ obj = [b \in Binding |-> Gone(0)]
  /\ stack = [i \in ClusterID |-> [p \in Part |-> NoOwner]]
  /\ mcache = obj /\ sseen = stack /\ mq = {}
  /\ mgr = [b \in Binding |-> IdleM]
  /\ nameToClusterID = [b \in Binding |-> None]
  /\ clusterIDToName = [i \in ClusterID |-> None]
  /\ proc = [i \in ClusterID |-> None]
  /\ scache = [i \in ClusterID |-> Gone(0)]
  /\ sq = {} /\ sy = [i \in ClusterID |-> IdleS]
  /\ nd = {} /\ res = [b \in Binding |-> {}] /\ annot = {}
  /\ deletes = 0 /\ changes = 0 /\ restarts = 0 /\ errors = 0
  /\ cleared = {} /\ forgot = {} /\ touched = {}

MReconcile(b) ==
  \/ MGet(b) \/ MAddFinalizer(b) \/ MInitStatus(b) \/ MValidate(b) \/ MConnect(b)
  \/ \E k \in 1..3 : MDeploy(b, k) \/ MDelete(b, k)
  \/ MReady(b) \/ MFail(b) \/ MCleanupClusterIDMappings(b) \/ MRemoveFinalizer(b)

SReconcile(i) ==
  \/ SGet(i) \/ SAddFinalizer(i) \/ SCheckNodes(i) \/ SCheckVirtual(i)
  \/ SCheckPhysical(i) \/ SRemoveFinalizer(i)

SWork(i) == NodeGet(i) \/ NodeCreate(i) \/ PodRuns(i) \/ NodeDrain(i) \/ CopyDelete(i)

ManagerNext == \/ \E b \in Binding : MReconcile(b) \/ MError(b) \/ MDeliver(b)
               \/ MDeliverStack \/ MRestart

SyncerNext == \E i \in ClusterID : \/ SStart(i) \/ SStop(i) \/ SDeliver(i)
                                   \/ SReconcile(i) \/ SError(i) \/ SWork(i)

EnvNext == \/ \E b \in Binding : \/ \E i \in IdsOf[b] : UserCreate(b, i) \/ UserChangeID(b, i)
                                 \/ UserDelete(b)
           \/ \E i \in ClusterID, p \in Part : OwnerGC(i, p)

Next == ManagerNext \/ SyncerNext \/ EnvNext

Spec == Init /\ [][Next]_vars

\* Watches deliver; what is queued is reconciled (calls fail only MaxError times, so
\* a retry succeeds in the end); a Deployment's pod is started; the syncer's
\* controllers drain what they are told to drain; the garbage collector works.
\* Users owe nothing.
Fairness ==
  /\ WF_vars(MDeliverStack)
  /\ \A b \in Binding : WF_vars(MDeliver(b)) /\ WF_vars(MReconcile(b))
  /\ \A i \in ClusterID :
       /\ WF_vars(SStart(i)) /\ WF_vars(SDeliver(i)) /\ WF_vars(SReconcile(i))
       /\ WF_vars(NodeDrain(i)) /\ WF_vars(CopyDelete(i))
       /\ \A p \in Part : WF_vars(OwnerGC(i, p))

FairSpec == Spec /\ Fairness

----------------------------------------------------------------------------
(* Correctness.                                                            *)

MPc == {"idle", "addFinalizer", "initStatus", "validate", "connect", "deploy", "ready",
        "fail", "delete", "unmap", "removeFinalizer"}
SPc == {"idle", "addFinalizer", "nodes", "virtual", "physical", "removeFinalizer"}

\* The types of the objects, the caches and the reconciles in flight.
TypeOK ==
  /\ obj \in [Binding -> Object] /\ mcache \in [Binding -> Object]
  /\ stack \in [ClusterID -> [Part -> Owner]] /\ sseen \in [ClusterID -> [Part -> Owner]]
  /\ mq \in SUBSET Binding /\ mgr \in [Binding -> [pc : MPc, k : 1..3, c : Object]]
  /\ nameToClusterID \in [Binding -> ClusterID \union {None}]
  /\ clusterIDToName \in [ClusterID -> Binding \union {None}]
  /\ proc \in [ClusterID -> Binding \union {None}]
  /\ scache \in [ClusterID -> Object]
  /\ sq \in SUBSET ClusterID /\ sy \in [ClusterID -> [pc : SPc, c : Object]]
  /\ nd \in SUBSET ClusterID /\ res \in [Binding -> SUBSET {"node", "pod", "copy"}]
  /\ annot \in SUBSET Binding
  /\ deletes \in 0..MaxDelete /\ changes \in 0..MaxChange
  /\ restarts \in 0..MaxRestart /\ errors \in 0..MaxError
  /\ forgot \in SUBSET Binding
  /\ cleared \in SUBSET (ClusterID \union {None})
  /\ touched \in SUBSET (Binding \X (ClusterID \union {None}))

\* Binding b is there, as its incarnation u.
Alive(b, u) == obj[b].exists /\ obj[b].uid = u

\* Nothing is deployed for a binding that the manager could lose sight of: while
\* the owner of a deployed object exists it carries the manager's finalizer, and so
\* does a binding whose reconcile is about to deploy, however old the copy it read.
DeployedUnderFinalizer ==
  /\ \A i \in ClusterID, p \in Part :
       LET o == stack[i][p]
       IN  o # NoOwner /\ Alive(o.name, o.uid) => obj[o.name].mfin
  /\ \A b \in Binding :
       mgr[b].pc = "deploy" => Alive(b, mgr[b].c.uid) /\ obj[b].mfin

\* A user deleted a binding with identifier i, or changed i or to i.
Touched(i) == \E a \in Binding : <<a, i>> \in touched

\* ... and no identifier that b has or had is one of another such binding.
Undisturbed(b) ==
  \A i \in ClusterID : i = obj[b].id \/ <<b, i>> \in touched =>
    \A a \in Binding : <<a, i>> \in touched => a = b

\* handleDeletion waits for the syncer: as long as a binding carries the syncer's
\* finalizer, the syncer that has to remove it is deployed; unless another binding
\* with the identifier was deleted, which deletes the Deployment by name.
SyncerKept ==
  \A b \in Binding : obj[b].exists /\ obj[b].sfin /\ Undisturbed(b) =>
     \E i \in ClusterID : stack[i]["syncer"].name = b

\* Binding b is Ready and not being deleted.
InUse(b) == obj[b].exists /\ obj[b].phase = "Ready" /\ ~obj[b].deleting

\* A binding that is Ready and not being deleted has its proxier and its syncer
\* deployed (conditions ProxierReady and SyncerReady), although the manager skips a
\* Deployment that its cache shows, deploys from old copies, and may be restarted while
\* another binding wants the identifier.  Not so once a binding that had the identifier
\* was deleted or got another one: handleDeletion deletes by name what another binding
\* may use, and a Deployment that is gone may still be in the cache.
ReadyMeansDeployed ==
  \A b \in Binding : InUse(b) /\ ~Touched(obj[b].id) =>
     \A p \in Part : stack[obj[b].id][p] # NoOwner

\* The manager has let b become Ready, has seen that, and has nothing to do for b.
Admitted(b) == InUse(b) /\ mcache[b] = obj[b] /\ b \notin mq /\ mgr[b].pc = "idle"

\* validateClusterIDConsistency: two bindings that the manager is done with are not
\* Ready under one identifier, also after a restart with empty maps and in whatever
\* order the bindings are then validated; unless the record of the identifier was
\* removed by the deletion of a binding that did not own it.
UniqueReady ==
  \A a, b \in Binding : Admitted(a) /\ Admitted(b) /\ obj[a].id = obj[b].id =>
     a = b \/ obj[b].id \in cleared

\* The identifier of a binding is immutable after creation: one incarnation never has
\* syncers under two identifiers; unless a user wrote another one and the manager was
\* restarted, which forgets the first.
OneSyncerPerBinding ==
  \A i, j \in ClusterID :
    LET o == stack[i]["syncer"] IN
    o # NoOwner /\ o = stack[j]["syncer"] =>
      i = j \/ (o.name \in forgot /\ <<o.name, i>> \in touched /\ <<o.name, j>> \in touched)

\* Bindings and identifiers are paired one to one, through stale copies, changes of
\* identifiers by users, clashes, deletions and restarts of the manager, except in the
\* two cases named above.
IdentifiersPaired == UniqueReady /\ OneSyncerPerBinding

\* A deletion ends with complete cleanup: of a binding that is gone no virtual node,
\* pod or copy is left.
NothingLeft == \A b \in Binding : ~obj[b].exists => res[b] = {}

\* A binding being deleted eventually goes: the two finalizers never wait for each
\* other, and every wait is woken by an event or a retry.
DeletionCompletes ==
  \A b \in Binding, u \in 1..MaxInc :
    (Alive(b, u) /\ obj[b].deleting) ~> ~Alive(b, u)

\* A binding whose identifier nobody else uses eventually gets Ready, whatever
\* fails on the way, unless it is deleted.
BecomesReady ==
  \A b \in Binding, u \in 1..MaxInc :
    Alive(b, u) ~> (~Alive(b, u) \/ obj[b].deleting \/ obj[b].phase = "Ready")
=============================================================================
