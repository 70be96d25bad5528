------------------------------- MODULE Leasing -------------------------------
(***************************************************************************)
(* What a leasing policy makes of a node.                                  *)
(*                                                                         *)
(* The controllers of policies and of the cluster binding tell the node    *)
(* reconciler to look again; the reconciler picks the oldest policy that   *)
(* applies, writes what the virtual node offers and its taints, and out of *)
(* the policy's time windows evicts pods once a grace period is over.  The *)
(* module takes one physical node, always there, and follows its virtual   *)
(* node; VirtualNode has the steps of its removal.  The taints are written *)
(* by a status update, which also records what was expected of the node,   *)
(* and a patch after it, from a cached copy.  A time after which to look   *)
(* again is a request in the queue.                                        *)
(***************************************************************************)
EXTENDS Integers, Sequences

CONSTANTS
  Policy,
  Rank,        \* Rank[p]: the order of creation times and names
  Specs,       \* what users write into a policy
  Start,       \* Start[p]: the spec of p, which exists at first, or None
  None,
  DayLen,      \* minutes of a day
  Day,         \* names of days; Day[i + 1] is day i of the week
  Pods, Tolerant, \* pods of the virtual cluster; those that tolerate the taint
  Alloc, Req,  \* allocatable resources of the node; the request of its own pod
  Dawn,        \* the minute in which the system starts
  Horizon,     \* bound: the last minute
  MaxEdit,     \* bound: changes of policies and of the binding
  MaxTaint,    \* bound: changes of a user's taint
  MaxError     \* bound: API calls that fail

Minute == 0..(DayLen - 1)
\* A minute of None stands for a text that is not of the form HH:MM.
Window == [start : Minute \union {None}, end : Minute \union {None}, days : SUBSET STRING]
\* cluster, sel: it names our binding, its selector matches the node; quantity,
\* percent: the limit of the resource, 0 when not given.
PolicySpec == [cluster : BOOLEAN, sel : BOOLEAN, windows : SUBSET Window, force : BOOLEAN,
               grace : Nat, quantity : Nat, percent : Nat]

ASSUME LeasingAssumption ==
  /\ Rank \in [Policy -> Nat] /\ \A p, r \in Policy : Rank[p] = Rank[r] => p = r
  /\ Specs \subseteq PolicySpec /\ Start \in [Policy -> Specs \union {None}]
  /\ DayLen \in Nat \ {0} /\ None \notin Specs /\ None \notin Minute
  /\ Tolerant \subseteq Pods
  /\ Alloc \in Nat /\ Req \in Nat /\ Horizon \in Nat /\ Dawn \in 0..Horizon
  /\ MaxEdit \in Nat /\ MaxTaint \in Nat /\ MaxError \in Nat

VARIABLES
  now,       \* the clock, in minutes
  policy,    \* policy[p]
  pc,        \* pc[p]: the policy in the cache of both controllers
  binding,   \* the cluster binding, as the cache shows it
  known,     \* the binding that the bottom-up syncer keeps
  load,      \* the node's own pod, as the cache shows it
  vn, vc,    \* the virtual node; in the cache
  pod, podc, \* pod[x]; in the cache
  pq, bq, q, \* policies, the binding and the node queued
  fl,        \* the reconcile of the node in flight
  torn,      \* a status update was not followed by its patch
  edits, taints, errors

bounds == <<edits, taints, errors>>
vars == <<now, policy, pc, binding, known, load, vn, vc, pod, podc, pq, bq, q, fl, torn, bounds>>

----------------------------------------------------------------------------
(* Time windows.                                                           *)

Today == Day[((now \div DayLen) % Len(Day)) + 1]
Clock == now % DayLen

\* A window whose end comes first crosses midnight.
IsTimeInRange(t, w) ==
  /\ w.start # None /\ w.end # None
  /\ IF w.end < w.start THEN t >= w.start \/ t <= w.end ELSE t >= w.start /\ t <= w.end

IsWithinTimeWindows(s) ==
  \/ s.windows = {}
  \/ \E w \in s.windows : /\ w.days = {} \/ Today \in w.days
                          /\ IsTimeInRange(Clock, w)

ValidateTimeWindows(s) ==
  \A w \in s.windows : /\ w.start # None /\ w.end # None
                       /\ \A d \in w.days : \E i \in DOMAIN Day : Day[i] = d

----------------------------------------------------------------------------
(* What the node has to offer.                                             *)

Least(a, b) == IF a <= b THEN a ELSE b

\* Requests of the node's own pods that have not finished.
Usage == IF load = "running" THEN Req ELSE 0
Available == IF Usage <= Alloc THEN Alloc - Usage ELSE 0

CalculatePercentageLimit(have, percent) == IF percent > 100 THEN 0 ELSE (have * percent) \div 100

\* Mutant: the percentage is taken of what the node could allocate.
CalculateEffectiveLimitOfAll(s, have) ==
  LET limits == (IF s.quantity = 0 THEN {} ELSE {s.quantity}) \union
                (IF s.percent = 0 THEN {} ELSE {CalculatePercentageLimit(Alloc, s.percent)})
  IN  {l \in limits : \A m \in limits : l <= m}

\* The stricter of quantity and percentage; none of either, no limit.
CalculateEffectiveLimit(s, have) ==
  LET limits == (IF s.quantity = 0 THEN {} ELSE {s.quantity}) \union
                (IF s.percent = 0 THEN {} ELSE {CalculatePercentageLimit(have, s.percent)})
  IN  {l \in limits : \A m \in limits : l <= m}

ApplyResourceLimits(s, have) ==
  LET limit == CalculateEffectiveLimit(s, have) IN
  IF limit = {} THEN have ELSE Least(have, CHOOSE l \in limit : TRUE)

CalculateAvailableResources(s) == ApplyResourceLimits(s, Available)

----------------------------------------------------------------------------
(* Policies.                                                               *)

Phase == {"", "Active", "Inactive", "Failed"}
PolicyObject == [st : {"absent", "live", "deleting", "gone"}, fin : BOOLEAN,
                 spec : Specs \union {None}, phase : Phase, active : BOOLEAN]
NoPolicy == [st |-> "absent", fin |-> FALSE, spec |-> None, phase |-> "", active |-> FALSE]
NewPolicy(s) == [NoPolicy EXCEPT !.st = "live", !.spec = s]
\* A name is not used again.
GonePolicy == [NoPolicy EXCEPT !.st = "gone"]
Exists(c) == c.st \in {"live", "deleting"}
Ours(c) == Exists(c) /\ c.spec.cluster

Selects(sel) == sel \in {"all", "in"}

\* RequeueNodes for the nodes that match the policy's selector.
TriggerNodeReEvaluation(s) == q' = (q \/ s.sel)

\* The status that fits the spec and the clock; a failed policy keeps the rest of
\* the status it got when it failed.
UpdatePolicyStatus(c) ==
  IF ~ValidateTimeWindows(c.spec)
  THEN IF c.phase = "Failed" THEN c ELSE [c EXCEPT !.phase = "Failed", !.active = FALSE]
  ELSE [c EXCEPT !.phase = IF IsWithinTimeWindows(c.spec) THEN "Active" ELSE "Inactive",
                 !.active = IsWithinTimeWindows(c.spec)]

\* An update from a cached copy; a copy that is out of date meets a conflict and the
\* reconcile comes again.
UpdatePolicy(p, d, again) ==
  IF policy[p] = pc[p]
  THEN policy' = [policy EXCEPT ![p] = d] /\ pq' = IF again THEN pq ELSE pq \ {p}
  ELSE UNCHANGED <<policy, pq>>

HandlePolicyDeletion(p) ==
  /\ Ours(pc[p]) /\ pc[p].st = "deleting"
  /\ TriggerNodeReEvaluation(pc[p].spec)
  /\ UpdatePolicy(p, GonePolicy, FALSE)

AddFinalizer(p) ==
  /\ Ours(pc[p]) /\ pc[p].st = "live" /\ ~pc[p].fin
  /\ UpdatePolicy(p, [pc[p] EXCEPT !.fin = TRUE], FALSE)
  /\ UNCHANGED q

\* A status that changes is written, and only then: nodes are told by a later
\* reconcile that finds nothing to change.
SyncPolicy(p) ==
  /\ Ours(pc[p]) /\ pc[p].st = "live" /\ pc[p].fin
  /\ IF UpdatePolicyStatus(pc[p]) # pc[p]
     THEN UpdatePolicy(p, UpdatePolicyStatus(pc[p]), TRUE) /\ UNCHANGED q
     ELSE TriggerNodeReEvaluation(pc[p].spec) /\ UNCHANGED <<policy, pq>>

SkipPolicy(p) ==
  /\ ~Ours(pc[p])
  /\ pq' = pq \ {p}
  /\ UNCHANGED <<policy, q>>

ReconcilePolicy(p) ==
  /\ p \in pq
  /\ SkipPolicy(p) \/ HandlePolicyDeletion(p) \/ AddFinalizer(p) \/ SyncPolicy(p)
  /\ UNCHANGED <<now, pc, binding, known, load, vn, vc, pod, podc, bq, fl, torn, bounds>>

\* Events of policies of another cluster are dropped.
DeliverPolicy(p) ==
  /\ pc[p] # policy[p]
  /\ pc' = [pc EXCEPT ![p] = policy[p]]
  /\ LET seen == IF Exists(policy[p]) THEN policy[p] ELSE pc[p]
     IN  pq' = IF Ours(seen) THEN pq \union {p} ELSE pq
  /\ UNCHANGED <<now, policy, binding, known, load, vn, vc, pod, podc, bq, q, fl, torn, bounds>>

\* handleNodeSelectorChange: nodes of both selectors, but a binding without a
\* selector adds no old ones.
\* handleDisableNodeDefaultTaintChange: nodes of the selector, if there is one.
ReconcileBinding ==
  /\ bq /\ bq' = FALSE
  /\ known' = binding
  /\ q' = \/ q
          \/ known.sel # binding.sel /\ (known.sel = "in" \/ Selects(binding.sel))
          \/ known.sel = binding.sel /\ known.dis # binding.dis /\ binding.sel = "in"
  /\ UNCHANGED <<now, policy, pc, binding, load, vn, vc, pod, podc, pq, fl, torn, bounds>>

----------------------------------------------------------------------------
(* The reconcile of the node.                                              *)

Effect == {"none", "NoSchedule", "NoExecute"}
\* deflt, user: the default taint of virtual nodes, one of a user; ootw, since: the
\* out-of-time-windows taint and its time; expected: what the last status update
\* recorded of deflt and ootw.
VNode == [exists : BOOLEAN, deflt : BOOLEAN, user : BOOLEAN, ootw : Effect, since : Nat,
          expected : SUBSET {"deflt", "ootw"}, offer : Nat]
NoNode == [exists |-> FALSE, deflt |-> FALSE, user |-> FALSE, ootw |-> "none", since |-> 0,
           expected |-> {}, offer |-> 0]

\* c: the copy that was read; t: the node with the taints to be patched.
Flight == [pc : {"idle", "write", "patch", "window", "remove"}, spec : Specs \union {None},
           offer : Nat, c : VNode, t : VNode]
Idle == [pc |-> "idle", spec |-> None, offer |-> 0, c |-> NoNode, t |-> NoNode]

Return == fl' = Idle /\ UNCHANGED q
Again == fl' = Idle /\ q' = TRUE

GetApplicablePolicies ==
  {p \in Policy : Ours(pc[p]) /\ pc[p].st = "live" /\ pc[p].spec.sel /\ Selects(binding.sel)}

Chosen(p) == /\ p \in GetApplicablePolicies
             /\ \A r \in GetApplicablePolicies : Rank[p] <= Rank[r]

\* Binding and policies are read and the resources are calculated.
Begin ==
  /\ fl.pc = "idle" /\ q
  /\ q' = FALSE
  /\ \/ /\ GetApplicablePolicies = {}
        /\ fl' = [Idle EXCEPT !.pc = "remove"]
     \/ \E p \in Policy :
          /\ Chosen(p)
          /\ fl' = [Idle EXCEPT !.pc = "write", !.spec = pc[p].spec,
                                !.offer = CalculateAvailableResources(pc[p].spec)]
  /\ UNCHANGED <<now, policy, pc, binding, known, load, vn, vc, pod, podc, pq, bq, torn, bounds>>

\* The taints wanted of a node that has none.
TransformTaints(s) ==
  [NoNode EXCEPT !.exists = TRUE,
     !.deflt = ~binding.dis,
     !.ootw = IF IsWithinTimeWindows(s) THEN "none"
              ELSE IF s.force THEN "NoExecute" ELSE "NoSchedule",
     !.since = IF IsWithinTimeWindows(s) THEN 0 ELSE now,
     !.expected = (IF binding.dis THEN {} ELSE {"deflt"}) \union
                  (IF IsWithinTimeWindows(s) THEN {} ELSE {"ootw"}),
     !.offer = fl.offer]

\* Mutant: the time of the taint is that of the last reconcile.
MergeTaintsFresh(c, d) ==
  [d EXCEPT !.deflt = @ \/ (c.deflt /\ "deflt" \notin c.expected),
            !.user = c.user,
            !.ootw = IF @ = "none" /\ "ootw" \notin c.expected THEN c.ootw ELSE @]

\* Mutant: taints nobody expects are dropped.
MergeTaintsOwn(c, d) == [d EXCEPT !.since = IF d.ootw # "none" /\ c.ootw # "none" THEN c.since ELSE @]

\* A taint of the node that is not expected now is kept if it was not expected last
\* time either: then a user has put it there.  The time of the out-of-time-windows
\* taint is kept.
MergeTaints(c, d) ==
  LET keep == c.ootw # "none" /\ "ootw" \notin c.expected IN
  [d EXCEPT !.deflt = @ \/ (c.deflt /\ "deflt" \notin c.expected),
            !.user = c.user,
            !.ootw = IF @ = "none" /\ keep THEN c.ootw ELSE @,
            !.since = IF c.ootw # "none" /\ (d.ootw # "none" \/ keep) THEN c.since ELSE @]

SameTaints(c, t) == c.deflt = t.deflt /\ c.user = t.user /\ c.ootw = t.ootw /\ c.since = t.since

\* Status().Update writes all but the taints.
WithTaintsOf(t, c) == [t EXCEPT !.deflt = c.deflt, !.user = c.user, !.ootw = c.ootw,
                                !.since = c.since]

\* createOrUpdateVirtualNode: Create, or the status update.
CreateOrUpdateVirtualNode ==
  LET d == TransformTaints(fl.spec)
      t == MergeTaints(vc, d)
  IN
  /\ fl.pc = "write"
  /\ \/ /\ ~vc.exists /\ ~vn.exists
        /\ vn' = d
        /\ fl' = [fl EXCEPT !.pc = "window"] /\ UNCHANGED q
     \/ /\ vc.exists /\ vn = vc
        /\ vn' = WithTaintsOf(t, vc)
        /\ fl' = [fl EXCEPT !.pc = IF SameTaints(vc, t) THEN "window" ELSE "patch",
                            !.c = vc, !.t = t]
        /\ UNCHANGED q
     \/ /\ IF vc.exists THEN vn # vc ELSE vn.exists
        /\ Again /\ UNCHANGED vn
  /\ UNCHANGED <<now, policy, pc, binding, known, load, vc, pod, podc, pq, bq, torn, bounds>>

\* The patch replaces all taints, whatever version the node has.
PatchTaints ==
  /\ fl.pc = "patch"
  /\ IF vn.exists
     THEN vn' = WithTaintsOf(vn, fl.t) /\ fl' = [fl EXCEPT !.pc = "window"] /\ UNCHANGED q
     ELSE Again /\ UNCHANGED vn
  /\ UNCHANGED <<now, policy, pc, binding, known, load, vc, pod, podc, pq, bq, torn, bounds>>

\* Pods in the cache that are not being deleted; some deletions may fail.
ForceEvict(victims) ==
  pod' = [x \in Pods |-> IF x \in victims /\ podc[x] = "active" /\ pod[x] = "active"
                         THEN "deleting" ELSE pod[x]]

\* Mutant: the grace period is not waited for.
ReclaimNow(s) == s.force /\ vc.ootw # "none"

\* Mutant: the minute in which the grace period ends does not count.
ReclaimLate(s) == s.force /\ (s.grace = 0 \/ (vc.ootw # "none" /\ now - vc.since > s.grace))

\* The cached virtual node carries the taint for as long as the grace period.
Reclaim(s) == /\ s.force
              /\ s.grace = 0 \/ (vc.ootw # "none" /\ now - vc.since >= s.grace)

\* handleOutOfTimeWindows, when the node is found out of its windows.
HandleOutOfTimeWindows ==
  /\ fl.pc = "window"
  /\ IF ~IsWithinTimeWindows(fl.spec) /\ vc.exists /\ Reclaim(fl.spec)
     THEN ForceEvict(Pods \ Tolerant) ELSE UNCHANGED pod
  /\ Again
  /\ UNCHANGED <<now, policy, pc, binding, known, load, vn, vc, podc, pq, bq, torn, bounds>>

\* handleNodeDeletion: pods are evicted, and without any the node goes.
HandleNodeDeletion ==
  /\ fl.pc = "remove"
  /\ IF ~vc.exists
     THEN Return /\ UNCHANGED <<vn, pod>>
     ELSE IF \E x \in Pods : podc[x] \in {"active", "deleting"}
     THEN ForceEvict(Pods) /\ Again /\ UNCHANGED vn
     ELSE IF vn = vc THEN vn' = NoNode /\ Return /\ UNCHANGED pod
     ELSE Again /\ UNCHANGED <<vn, pod>>
  /\ UNCHANGED <<now, policy, pc, binding, known, load, vc, podc, pq, bq, torn, bounds>>

\* A call fails.  The patch that does not follow its status update leaves a record
\* of taints that the node does not have.
Fail ==
  /\ errors < MaxError /\ errors' = errors + 1
  /\ fl.pc # "idle" /\ Again
  /\ torn' = (torn \/ fl.pc = "patch")
  /\ UNCHANGED <<now, policy, pc, binding, known, load, vn, vc, pod, podc, pq, bq, edits, taints>>

Reconcile == \/ Begin \/ CreateOrUpdateVirtualNode \/ PatchTaints
             \/ HandleOutOfTimeWindows \/ HandleNodeDeletion

\* handleVirtualNodeEvent is called when a node comes or goes.
DeliverVirtualNode ==
  /\ vc # vn /\ vc' = vn
  /\ q' = (q \/ vc.exists # vn.exists)
  /\ UNCHANGED <<now, policy, pc, binding, known, load, vn, pod, podc, pq, bq, fl, torn, bounds>>

DeliverPod(x) ==
  /\ podc[x] # pod[x]
  /\ podc' = [podc EXCEPT ![x] = pod[x]]
  /\ UNCHANGED <<now, policy, pc, binding, known, load, vn, vc, pod, pq, bq, q, fl, torn, bounds>>

----------------------------------------------------------------------------
(* The environment.                                                        *)

Tick ==
  /\ now < Horizon /\ now' = now + 1
  /\ UNCHANGED <<policy, pc, binding, known, load, vn, vc, pod, podc, pq, bq, q, fl, torn, bounds>>

Edit == edits < MaxEdit /\ edits' = edits + 1 /\ UNCHANGED <<taints, errors>>

\* A policy is created, changed or deleted; one without the finalizer goes at once.
EditPolicy(p) ==
  /\ Edit
  /\ \/ \E s \in Specs : /\ policy[p].st \in {"absent", "live"} /\ policy[p].spec # s
                         /\ policy' = [policy EXCEPT ![p] = IF @.st = "absent" THEN NewPolicy(s)
                                                            ELSE [@ EXCEPT !.spec = s]]
     \/ /\ policy[p].st = "live"
        /\ policy' = [policy EXCEPT ![p] = IF @.fin THEN [@ EXCEPT !.st = "deleting"] ELSE GonePolicy]
  /\ UNCHANGED <<now, pc, binding, known, load, vn, vc, pod, podc, pq, bq, q, fl, torn>>

EditBinding ==
  /\ Edit
  /\ \E sel \in {"all", "in", "out"}, dis \in BOOLEAN :
       binding' = [sel |-> sel, dis |-> dis] /\ binding' # binding
  /\ bq' = TRUE
  /\ UNCHANGED <<now, policy, pc, known, load, vn, vc, pod, podc, pq, q, fl, torn>>

\* handlePodEvent: a pod that finishes is no event, one that comes or goes is.
PodEvent(l) == l # "finished"

OwnPod ==
  /\ \E l \in {"running", "finished", "none"} :
       /\ <<load, l>> \in {<<"none", "running">>, <<"running", "finished">>,
                           <<"running", "none">>, <<"finished", "none">>}
       /\ load' = l /\ q' = (q \/ PodEvent(l))
       /\ Edit
  /\ UNCHANGED <<now, policy, pc, binding, known, vn, vc, pod, podc, pq, bq, fl, torn>>

\* A user adds a taint to the virtual node, or takes it away.
UserTaint ==
  /\ vn.exists /\ taints < MaxTaint /\ taints' = taints + 1
  /\ vn' = [vn EXCEPT !.user = ~@]
  /\ UNCHANGED <<now, policy, pc, binding, known, load, vc, pod, podc, pq, bq, q, fl, torn,
                 edits, errors>>

VirtualSchedulerBind(x) ==
  /\ vn.exists /\ ~vn.user /\ (vn.ootw = "none" \/ x \in Tolerant)
  /\ pod[x] = "unborn"
  /\ pod' = [pod EXCEPT ![x] = "active"]
  /\ UNCHANGED <<now, policy, pc, binding, known, load, vn, vc, podc, pq, bq, q, fl, torn, bounds>>

PodGone(x) ==
  /\ pod[x] = "deleting"
  /\ pod' = [pod EXCEPT ![x] = "gone"]
  /\ UNCHANGED <<now, policy, pc, binding, known, load, vn, vc, podc, pq, bq, q, fl, torn, bounds>>

Environment == \/ Tick \/ EditBinding \/ OwnPod \/ UserTaint
               \/ \E p \in Policy : EditPolicy(p)
               \/ \E x \in Pods : VirtualSchedulerBind(x) \/ PodGone(x)

----------------------------------------------------------------------------
Init ==
  /\ now = Dawn
  /\ policy = [p \in Policy |-> IF Start[p] = None THEN NoPolicy ELSE NewPolicy(Start[p])]
  /\ pc = policy
  /\ binding = [sel |-> "all", dis |-> FALSE] /\ known = binding
  /\ load = "none" /\ vn = NoNode /\ vc = NoNode
  /\ pod = [x \in Pods |-> "unborn"] /\ podc = pod
  /\ pq = {p \in Policy : Exists(policy[p])} /\ bq = FALSE /\ q = TRUE /\ fl = Idle /\ torn = FALSE
  /\ edits = 0 /\ taints = 0 /\ errors = 0

Next == \/ \E p \in Policy : ReconcilePolicy(p) \/ DeliverPolicy(p)
        \/ ReconcileBinding \/ Reconcile \/ Fail \/ DeliverVirtualNode
        \/ \E x \in Pods : DeliverPod(x)
        \/ Environment

Spec == Init /\ [][Next]_vars

\* Watches deliver, what is queued is reconciled, a pod that is deleted terminates.
\* Nothing makes the clock run.
Fairness ==
  /\ WF_vars(Reconcile) /\ WF_vars(ReconcileBinding) /\ WF_vars(DeliverVirtualNode)
  /\ \A p \in Policy : WF_vars(ReconcilePolicy(p))
  /\ WF_vars(\E p \in Policy : DeliverPolicy(p))
  /\ WF_vars(\E x \in Pods : DeliverPod(x) \/ PodGone(x))

FairSpec == Spec /\ Fairness

----------------------------------------------------------------------------
(* Correctness.                                                            *)

\* The types of objects, caches, queues and the reconcile in flight; a policy that
\* exists has a spec.
TypeOK ==
  /\ now \in 0..Horizon
  /\ policy \in [Policy -> PolicyObject] /\ pc \in [Policy -> PolicyObject]
  /\ \A p \in Policy : Exists(policy[p]) => policy[p].spec \in Specs
  /\ binding \in [sel : {"all", "in", "out"}, dis : BOOLEAN]
  /\ known \in [sel : {"all", "in", "out"}, dis : BOOLEAN]
  /\ load \in {"none", "running", "finished"}
  /\ vn \in VNode /\ vc \in VNode
  /\ vn.offer <= Alloc /\ vn.since <= now
  /\ pod \in [Pods -> {"unborn", "active", "deleting", "gone"}]
  /\ podc \in [Pods -> {"unborn", "active", "deleting", "gone"}]
  /\ pq \in SUBSET Policy /\ bq \in BOOLEAN /\ q \in BOOLEAN
  /\ fl \in Flight /\ torn \in BOOLEAN
  /\ edits \in Nat /\ taints \in Nat /\ errors \in Nat

\* mergeTaints: as long as a virtual node carries the out-of-time-windows taint, its
\* time does not change, however often the node is reconciled and whatever else is
\* changed: the grace period is not started again.
GraceNotReset ==
  [][vn.exists /\ vn'.exists /\ vn.ootw # "none" /\ vn'.ootw # "none" => vn'.since = vn.since]_vars

\* handleOutOfTimeWindows: a pod of a lent node is evicted only if the policy
\* reclaims by force and the virtual node itself, not just the cached copy that is
\* looked at, has carried the taint for the grace period.  The exception: this very
\* reconcile found the window open and took the taint off, and the window has closed
\* since.
EvictedAfterGrace ==
  [][\A x \in Pods : pod[x] = "active" /\ pod'[x] = "deleting" /\ fl.pc # "remove" =>
       /\ fl.spec.force /\ x \notin Tolerant
       /\ \/ fl.spec.grace = 0
          \/ vn.ootw # "none" /\ now - vn.since >= fl.spec.grace
          \/ vn.ootw = "none" /\ fl.c.ootw # "none" /\ fl.t.ootw = "none"]_vars

\* mergeTaints: a user's taint goes only when the user takes it away, or when it was
\* added after the reconcile that patches the taints had read the node.
UserTaintKept ==
  [][vn.exists /\ vn'.exists /\ vn.user /\ ~vn'.user => taints' # taints \/ ~fl.c.user]_vars

\* The minutes from the start of a window to its end, round the clock.
Covered(w) == {(w.start + k) % DayLen : k \in 0..((w.end - w.start + DayLen) % DayLen)}
Open(s) == \/ s.windows = {}
           \/ \E w \in s.windows : /\ w.start # None /\ w.end # None /\ Clock \in Covered(w)
                                   /\ w.days = {} \/ Today \in w.days

\* No policy of this binding is left half deleted, each has the finalizer, and its
\* status says whether one of its windows is open.
PolicySettled ==
  \A p \in Policy : Ours(policy[p]) =>
    /\ policy[p].st = "live" /\ policy[p].fin
    /\ IF ValidateTimeWindows(policy[p].spec)
       THEN /\ policy[p].active = Open(policy[p].spec)
            /\ policy[p].phase = (IF Open(policy[p].spec) THEN "Active" ELSE "Inactive")
       ELSE policy[p].phase = "Failed" /\ ~policy[p].active

Applies(p) == /\ Ours(policy[p]) /\ policy[p].st = "live" /\ policy[p].spec.sel
              /\ Selects(binding.sel)
Ruling(p) == Applies(p) /\ \A r \in Policy : Applies(r) => Rank[p] <= Rank[r]

WithinLimits(s, n) == /\ n + Usage <= Alloc \/ n = 0
                      /\ s.quantity # 0 => n <= s.quantity
                      /\ s.percent \in 1..100 => 100 * n <= s.percent * Available
                      /\ s.percent > 100 => n = 0
\* The most that fits the node's own pods and the limits of the policy.
Share(s, n) == WithinLimits(s, n) /\ ~WithinLimits(s, n + 1)

TaintsFit(s) == /\ vn.deflt = ~binding.dis
                /\ vn.ootw = (IF Open(s) THEN "none" ELSE IF s.force THEN "NoExecute" ELSE "NoSchedule")

\* The virtual node is there exactly if some policy applies, offers what the oldest
\* of them lends, and, unless a status update was cut off from its patch, has the
\* taints that policy, clock and binding ask for.  (Without a policy the code removes
\* the node, where the design document has it offer all that is left.)
NodeSettled ==
  IF \A p \in Policy : ~Applies(p) THEN ~vn.exists
  ELSE \E p \in Policy : /\ Ruling(p) /\ vn.exists
                         /\ Share(policy[p].spec, vn.offer)
                         /\ TaintsFit(policy[p].spec) \/ torn

\* ResourceLeasingPolicyReconciler and processNode: when the clock and the users have
\* come to rest, policies and virtual node both settle, through windows that open and
\* close: the change of a status reaches the node although the reconcile that writes
\* it does not queue the node itself.
Settles == <>[](PolicySettled /\ NodeSettled)

Overdue == /\ vn.exists /\ vn.ootw # "none"
           /\ \E p \in Policy : /\ Ruling(p) /\ policy[p].spec.force /\ ~Open(policy[p].spec)
                                 /\ now - vn.since >= policy[p].spec.grace

\* handleOutOfTimeWindows: a pod that does not tolerate the taint goes once the grace
\* period is over, even if it was bound too late for the first eviction to see it.
Reclaimed ==
  \A x \in Pods \ Tolerant : (pod[x] = "active" /\ Overdue) ~> (pod[x] # "active" \/ ~Overdue)

\* What the description of preserveUserCustomizations promises: taints that the
\* reconciler itself has put on the node go when they are no longer expected.
TaintsSettle ==
  <>[](\A p \in Policy : Ruling(p) => TaintsFit(policy[p].spec))
==============================================================================
