------------------------------ MODULE LogConfig ------------------------------
(***************************************************************************)
(* The LogConfig controller: one log configuration of the virtual cluster  *)
(* and its counterparts in one worker cluster.                             *)
(*                                                                         *)
(* A configuration selects pods by namespace, labels or workload.  In the  *)
(* worker cluster all pods are in one namespace, so that the controller    *)
(* rewrites the selection to the labels that the pod controller puts on    *)
(* copies, and makes one configuration for each group of workloads.  When  *)
(* what it lists differs from what it generates, it deletes all and        *)
(* creates all.  It reads both clusters from caches; nothing tells it of   *)
(* changes in the worker cluster.  No other cluster holds the              *)
(* configuration: without this cluster's finalizer a deleted one is gone.  *)
(***************************************************************************)
EXTENDS Integers, FiniteSets

CONSTANTS
  Specs,      \* what users write
  Pods,       \* pods of the virtual cluster
  HostPods,   \* pods of the worker cluster that are no copies
  Worker,     \* KubeoceanWorkerNamespace
  Mount,      \* the binding's mount namespace, where the copies are
  None,
  MaxGroups,  \* bound: groups of workloads of a spec
  MaxEdit,    \* bound: creations and changes by users
  MaxError,   \* bound: API calls that fail
  MaxRestart  \* bound: crashes

\* Labels to include have a set of values each, one of which is asked for;
\* the physical value is the list of them.
LogSpec(Value) ==
  [type : {"container_stdout", "container_file"}, ns : Value, exns : Value,
   incl : SUBSET (STRING \X SUBSET STRING), excl : SUBSET (STRING \X STRING),
   workloads : SUBSET [ns : STRING, kind : STRING, name : STRING],
   workload : [kind : STRING, name : STRING] \union {None}]

PodType == [ns : STRING, kind : STRING \union {None}, name : STRING \union {None},
            labels : SUBSET (STRING \X STRING)]

ASSUME LogConfigAssumption ==
  /\ Worker \in STRING /\ Mount \in STRING /\ None \notin STRING \union Specs
  /\ MaxGroups \in Nat /\ MaxEdit \in Nat /\ MaxError \in Nat /\ MaxRestart \in Nat
  /\ Specs \subseteq LogSpec(STRING \union {None})
  /\ \A s \in Specs : /\ s.workloads # {} => s.type = "container_stdout"
                      /\ s.workload # None => s.type = "container_file"
  /\ Pods \subseteq PodType /\ HostPods \subseteq PodType

\* The name of the configuration itself, and -g0, -g1, ...
Name == 0..MaxGroups

VARIABLES
  v, vc,    \* the virtual configuration; in the cache
  phys, pc, \* phys[n]: the configuration of name n; all of them in the cache
  dirty,    \* the configuration is queued
  fl,       \* the reconcile in flight
  misled,   \* the last list was out of date, or showed what was on its way out
  edits, errors, restarts

bounds == <<edits, errors, restarts>>
vars == <<v, vc, phys, pc, dirty, fl, misled, bounds>>

Absent == [exists |-> FALSE, del |-> FALSE, fin |-> FALSE, spec |-> None, rv |-> 0]
NoConfig == [st |-> "none", spec |-> None]
Idle == [why |-> "idle", obj |-> Absent, list |-> {}, todo |-> {}, new |-> [n \in {} |-> None]]

----------------------------------------------------------------------------
(* What a configuration selects, as the log agent of a cluster reads it.   *)

Agent(s, p) ==
  IF s.workloads # {}
  THEN \E w \in s.workloads : p.ns = w.ns /\ p.kind = w.kind /\ p.name = w.name
  ELSE /\ IF s.workload = None
          THEN s.ns \in {None, p.ns}
          ELSE /\ p.kind = s.workload.kind /\ p.name = s.workload.name
               /\ p.ns = IF s.ns = None THEN "default" ELSE s.ns
       /\ s.exns # p.ns
       /\ \A l \in s.incl : \E val \in l[2] : <<l[1], val>> \in p.labels
       /\ s.excl \intersect p.labels = {}

\* The copy of a pod: a pod of its own, with labels that tell where it is from.
CopyOf(p) ==
  [ns |-> Mount, kind |-> None, name |-> None,
   labels |-> p.labels \union {<<"virtual-namespace", p.ns>>} \union
              IF p.kind = None THEN {}
              ELSE {<<"workload-type", p.kind>>, <<"workload-name", p.name>>}]

----------------------------------------------------------------------------
(* Generation of the physical configurations.                              *)

\* Mutant: the original namespace is lost.
NamespaceRuleBare(s) == [s EXCEPT !.ns = Worker]

\* applyNamespaceToIncludeLabelsRuleForContainerStdout and ...File.
NamespaceRule(s) ==
  [s EXCEPT !.ns = Worker,
            !.incl = {l \in @ : l[1] # "virtual-namespace"}
                       \union {<<"virtual-namespace", {s.ns}>>}]

\* applyExcludeNamespaceToExcludeLabelsRuleForContainerStdout and ...File.
ExcludeNamespaceRule(s) ==
  [s EXCEPT !.ns = Worker, !.exns = None, !.excl = {<<"virtual-namespace", s.exns>>}]

WorkloadToIncludeLabelsRule(s) ==
  [s EXCEPT !.ns = Worker, !.workload = None,
            !.incl = {<<"virtual-namespace", {IF s.ns = None THEN "default" ELSE s.ns}>>,
                      <<"workload-name", {s.workload.name}>>,
                      <<"workload-type", {s.workload.kind}>>}]

NamespaceRules(s) ==
  CASE s.ns # None                    -> NamespaceRule(s)
    [] s.ns = None /\ s.exns # None -> ExcludeNamespaceRule(s)
    [] OTHER                          -> s

TransformContainerStdoutSpec(s) == IF s.workloads # {} THEN s ELSE NamespaceRules(s)

TransformContainerFileSpec(s) ==
  IF s.workload # None THEN WorkloadToIncludeLabelsRule(s) ELSE NamespaceRules(s)

TransformLogConfigSpec(s) ==
  IF s.type = "container_stdout"
  THEN TransformContainerStdoutSpec(s) ELSE TransformContainerFileSpec(s)

\* By namespace and kind.
GroupWorkloads(s) ==
  {[ns |-> w.ns, kind |-> w.kind,
    names |-> {x.name : x \in {y \in s.workloads : y.ns = w.ns /\ y.kind = w.kind}}]
   : w \in s.workloads}

TransformSingleWorkloadGroup(s, g) ==
  [s EXCEPT !.ns = Worker, !.workloads = {},
            !.incl = {<<"workload-type", {g.kind}>>, <<"virtual-namespace", {g.ns}>>,
                      <<"workload-name", g.names>>}]

RequiresMultiplePhysicalConfigs(s) ==
  s.type = "container_stdout" /\ Cardinality(GroupWorkloads(s)) >= 1

\* The workloads are a list, and the bound on their groups is kept.
ASSUME GroupsAssumption ==
  \A s \in Specs :
    IsFiniteSet(s.workloads) /\ Cardinality(GroupWorkloads(s)) <= MaxGroups

\* The groups come out of a Go map, in any order.
GenerateMultiplePhysicalLogConfigs(s) ==
  LET G == GroupWorkloads(s)
      orders == {o \in [1..Cardinality(G) -> G] : \A i, j \in DOMAIN o : o[i] = o[j] => i = j}
  IN  {[n \in DOMAIN o |-> TransformSingleWorkloadGroup(s, o[n])] : o \in orders}

GenerateSinglePhysicalLogConfig(s) == [n \in {0} |-> TransformLogConfigSpec(s)]

\* What Reconcile may generate.
Generated(s) ==
  IF RequiresMultiplePhysicalConfigs(s)
  THEN GenerateMultiplePhysicalLogConfigs(s) ELSE {GenerateSinglePhysicalLogConfig(s)}

----------------------------------------------------------------------------
(* Reconcile.                                                              *)

Related(configs) == {n \in Name : configs[n].st # "none"}

Done == fl' = Idle
Requeue == dirty' = TRUE /\ Done

\* An update of the virtual configuration is refused when it is not of the latest.
Update(obj, new) ==
  IF obj = v THEN v' = new /\ dirty' = dirty /\ Done ELSE v' = v /\ Requeue

Start ==
  /\ fl = Idle /\ dirty /\ dirty' = FALSE
  /\ UNCHANGED <<v, vc, phys, pc, bounds>>

\* findAllRelatedPhysicalLogConfigs, and then the deletion of all of them.
DeleteRelated(why, new) ==
  /\ misled' = (pc # phys)
  /\ fl' = [why |-> why, obj |-> vc, list |-> Related(pc), todo |-> Related(pc), new |-> new]

HandleVirtualLogConfigNotFound ==
  Start /\ ~vc.exists /\ DeleteRelated("notfound", Idle.new)

\* Mutant: the finalizer is taken off before the configurations are deleted.
HandleVirtualLogConfigDeletionEarly ==
  /\ Start /\ vc.exists /\ vc.del /\ vc.fin
  /\ misled' = (pc # phys)
  /\ fl' = [Idle EXCEPT !.why = "deletion", !.obj = vc]

\* Mutant: nothing to delete, nothing to do.
HandleVirtualLogConfigDeletionEmpty ==
  /\ Start /\ vc.exists /\ vc.del /\ vc.fin
  /\ IF Related(pc) = {} THEN fl' = fl /\ misled' = misled
     ELSE DeleteRelated("deletion", Idle.new)

HandleVirtualLogConfigDeletion ==
  Start /\ vc.exists /\ vc.del /\ vc.fin /\ DeleteRelated("deletion", Idle.new)

\* Mutant: the update is sent without a resource version, and refused every time.
AddSyncedResourceFinalizerRefused ==
  /\ fl = Idle /\ dirty
  /\ vc.exists /\ ~vc.del /\ ~vc.fin
  /\ Done /\ v' = v /\ dirty' = TRUE
  /\ UNCHANGED <<vc, phys, pc, misled, bounds>>

AddSyncedResourceFinalizer ==
  /\ fl = Idle /\ dirty
  /\ vc.exists /\ ~vc.del /\ ~vc.fin
  /\ Done
  /\ IF vc = v THEN /\ v' = [v EXCEPT !.fin = TRUE, !.rv = @ + 1] /\ dirty' = FALSE
     ELSE v' = v /\ dirty' = TRUE
  /\ UNCHANGED <<vc, phys, pc, misled, bounds>>

\* The same names with the same specs; a deletion under way is not looked at.
CompareLogConfigSpecs(configs, new) ==
  Related(configs) = DOMAIN new /\ \A n \in DOMAIN new : configs[n].spec = new[n]

\* reconcilePhysicalLogConfigs after the finalizer is there.
ReconcilePhysicalLogConfigs ==
  /\ Start /\ vc.exists /\ ~vc.del /\ vc.fin
  /\ \E new \in Generated(vc.spec) :
       IF CompareLogConfigSpecs(pc, new)
       THEN /\ fl' = fl
            /\ misled' = (pc # phys \/ \E n \in Name : phys[n].st = "deleting")
       ELSE DeleteRelated("rebuild", new)

\* A configuration with a finalizer of its own goes later.
DeleteOne(n) ==
  /\ n \in fl.todo
  /\ fl' = [fl EXCEPT !.todo = @ \ {n}]
  /\ phys' = [phys EXCEPT ![n] = IF @.st = "none" THEN NoConfig ELSE [@ EXCEPT !.st = "deleting"]]
  /\ UNCHANGED <<v, vc, pc, dirty, misled, bounds>>

CleanedUp ==
  /\ fl.why = "notfound" /\ fl.todo = {} /\ Done
  /\ UNCHANGED <<v, vc, phys, pc, dirty, misled, bounds>>

\* An object without finalizers that is being deleted is removed.
RemoveSyncedResourceFinalizer ==
  /\ fl.why = "deletion" /\ fl.todo = {}
  /\ Update(fl.obj, [Absent EXCEPT !.rv = v.rv + 1])
  /\ UNCHANGED <<vc, phys, pc, misled, bounds>>

\* waitForLogConfigDeletion of each, by the cache.
WaitForLogConfigDeletion ==
  /\ fl.why = "rebuild" /\ fl.todo = {}
  /\ \A n \in fl.list : pc[n].st = "none"
  /\ fl' = [fl EXCEPT !.why = "create"]
  /\ UNCHANGED <<v, vc, phys, pc, dirty, misled, bounds>>

WaitTimeout ==
  /\ fl.why = "rebuild" /\ fl.todo = {}
  /\ \E n \in fl.list : pc[n].st # "none"
  /\ Requeue
  /\ UNCHANGED <<v, vc, phys, pc, misled, bounds>>

\* The last phase of atomicRebuildPhysicalLogConfigs, in the order of the names.
CreateOne ==
  /\ fl.why = "create"
  /\ \E n \in DOMAIN fl.new :
       /\ \A m \in DOMAIN fl.new : n <= m
       /\ IF phys[n].st = "none"
          THEN /\ phys' = [phys EXCEPT ![n] = [st |-> "live", spec |-> fl.new[n]]]
               /\ dirty' = dirty
               /\ fl' = IF DOMAIN fl.new = {n} THEN Idle
                        ELSE [fl EXCEPT !.new = [m \in DOMAIN fl.new \ {n} |-> fl.new[m]]]
          ELSE phys' = phys /\ Requeue
  /\ UNCHANGED <<v, vc, pc, misled, bounds>>

\* A call of the reconcile in flight fails.
Fail ==
  /\ fl # Idle /\ errors < MaxError /\ errors' = errors + 1
  /\ Requeue
  /\ UNCHANGED <<v, vc, phys, pc, misled, edits, restarts>>

----------------------------------------------------------------------------
(* Users, caches, the API server of the worker cluster, crashes.           *)

UserWrite(s) ==
  /\ edits < MaxEdit /\ edits' = edits + 1
  /\ v.spec # s
  /\ v' = [v EXCEPT !.exists = TRUE, !.spec = s, !.rv = @ + 1]
  /\ UNCHANGED <<vc, phys, pc, dirty, fl, misled, errors, restarts>>

UserDelete ==
  /\ v.exists /\ ~v.del
  /\ v' = IF v.fin THEN [v EXCEPT !.del = TRUE, !.rv = @ + 1]
          ELSE [Absent EXCEPT !.rv = v.rv + 1]
  /\ UNCHANGED <<vc, phys, pc, dirty, fl, misled, bounds>>

DeliverVirtual ==
  /\ vc # v /\ vc' = v /\ dirty' = TRUE
  /\ UNCHANGED <<v, phys, pc, fl, misled, bounds>>

DeliverPhysical ==
  /\ pc # phys /\ pc' = phys
  /\ UNCHANGED <<v, vc, phys, dirty, fl, misled, bounds>>

\* The log agent of the worker cluster lets a deleted configuration go.
PhysGone(n) ==
  /\ phys[n].st = "deleting"
  /\ phys' = [phys EXCEPT ![n] = NoConfig]
  /\ UNCHANGED <<v, vc, pc, dirty, fl, misled, bounds>>

\* Nothing is queued for what is not there any more.
Restart ==
  /\ restarts < MaxRestart /\ restarts' = restarts + 1
  /\ vc' = v /\ pc' = phys /\ dirty' = v.exists /\ Done
  /\ misled' = (misled \/ (~v.exists /\ \E n \in Name : phys[n].st = "live"))
  /\ UNCHANGED <<v, phys, edits, errors>>

----------------------------------------------------------------------------
Init ==
  /\ v = Absent /\ vc = Absent
  /\ phys = [n \in Name |-> NoConfig] /\ pc = phys
  /\ dirty = FALSE /\ fl = Idle /\ misled = FALSE
  /\ edits = 0 /\ errors = 0 /\ restarts = 0

Reconcile ==
  \/ HandleVirtualLogConfigNotFound \/ HandleVirtualLogConfigDeletion
  \/ AddSyncedResourceFinalizer \/ ReconcilePhysicalLogConfigs
  \/ (\E n \in Name : DeleteOne(n))
  \/ CleanedUp \/ RemoveSyncedResourceFinalizer
  \/ WaitForLogConfigDeletion \/ WaitTimeout \/ CreateOne

Next ==
  \/ Reconcile \/ Fail \/ Restart
  \/ UserDelete \/ (\E s \in Specs : UserWrite(s))
  \/ DeliverVirtual \/ DeliverPhysical \/ (\E n \in Name : PhysGone(n))

Spec == Init /\ [][Next]_vars

\* Informers deliver, the work queue is served, and the agent of the worker
\* cluster lets deleted configurations go.
Fairness ==
  /\ WF_vars(Reconcile) /\ WF_vars(DeliverVirtual) /\ WF_vars(DeliverPhysical)
  /\ \A n \in Name : WF_vars(PhysGone(n))

FairSpec == Spec /\ Fairness

----------------------------------------------------------------------------
\* A physical configuration names no workload, which copies do not have.
PhysicalSpec(s) == s.workloads = {} /\ s.workload = None

\* The variables stay in their sets; what is created can select copies.
TypeOK ==
  /\ \A o \in {v, vc, fl.obj} :
       /\ o.exists \in BOOLEAN /\ o.del \in BOOLEAN /\ o.fin \in BOOLEAN /\ o.rv \in Nat
       /\ o.spec \in Specs \union {None}
       /\ (o.exists <=> o.spec # None) /\ (o.del => o.fin) /\ (o.fin => o.exists)
  /\ \A n \in Name :
       \A c \in {phys[n], pc[n]} :
         \/ c = NoConfig
         \/ c.st \in {"live", "deleting"} /\ PhysicalSpec(c.spec)
  /\ dirty \in BOOLEAN /\ misled \in BOOLEAN
  /\ fl.why \in {"idle", "notfound", "deletion", "rebuild", "create"}
  /\ fl.list \subseteq Name /\ fl.todo \subseteq fl.list /\ DOMAIN fl.new \subseteq Name
  /\ edits \in 0..MaxEdit /\ errors \in 0..MaxError /\ restarts \in 0..MaxRestart

Live == {n \in Name : phys[n].st = "live"}

\* The worker cluster has what the controller would generate.
InSync ==
  \E new \in Generated(v.spec) :
    Live = DOMAIN new /\ \A n \in DOMAIN new : phys[n].spec = new[n]

AtRest == fl = Idle /\ ~dirty /\ vc = v

\* A configuration of a namespace, without one, or of workloads.
Scoped(s) == s.ns # None \/ s.exns # None \/ s.workloads # {} \/ s.workload # None

\* Once nothing is under way, the configurations of the worker cluster select
\* the copy of a pod exactly once if the virtual one selects the pod, else not
\* at all, and none of the cluster's own pods; when the virtual one is gone,
\* none is left (transformLogConfigSpec, groupWorkloads and the rebuild).
\* This is but for a list that was out of date or showed what was going.
SelectsSame ==
  AtRest /\ ~misled /\ ~v.del =>
    /\ ~v.exists => Live = {}
    /\ v.exists =>
         /\ \A p \in Pods :
              Cardinality({n \in Live : Agent(phys[n].spec, CopyOf(p))})
                = IF Agent(v.spec, p) THEN 1 ELSE 0
         /\ Scoped(v.spec) =>
              \A p \in HostPods, n \in Live : ~Agent(phys[n].spec, p)

\* A virtual configuration is let go when no configuration is left for it in
\* the worker cluster, unless the list of them was out of date
\* (handleVirtualLogConfigDeletion deletes before it takes off the finalizer).
ReleasedLast == [][v.fin /\ ~v'.fin => Live = {} \/ misled]_vars

\* A configuration that is deleted goes.
DeletionCompletes == v.del ~> ~v.del

\* The worker cluster gets what it should have, through refused creations,
\* deletions that take time, errors and crashes, unless a list misled.
EventuallySynced == v.exists /\ ~v.del ~> v.del \/ ~v.exists \/ InSync \/ misled
=============================================================================
