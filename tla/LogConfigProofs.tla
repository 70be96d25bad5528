--------------------------- MODULE LogConfigProofs ---------------------------
(***************************************************************************)
(* Proofs about LogConfig, for any specs, pods and number of groups.       *)
(*                                                                         *)
(*  - LogConfigTypeCorrect: the variables stay in their sets;              *)
(*  - SettledInSync: once nothing is under way, the worker cluster has     *)
(*    exactly what the controller generates;                               *)
(*  - ReleasedAfterCleanup: the finalizer is taken off last;               *)
(*  - OneCollectorEach: what is generated selects the copy of a pod        *)
(*    exactly once if the virtual configuration selects the pod;           *)
(*  - SelectionKept: the two together, for a running controller.           *)
(*                                                                         *)
(* The argument about the controller is one invariant: what the reconcile  *)
(* in flight still has to do (FlightInv), and what a reconcile that is     *)
(* over leaves behind (RestInv).                                           *)
(***************************************************************************)
EXTENDS LogConfig, FiniteSetTheorems, TLAPS

----------------------------------------------------------------------------
(* Types.                                                                  *)

Value == STRING \union {None}

\* What the controller may generate for some spec.
Image == UNION {{g[n] : n \in DOMAIN g} : g \in UNION {Generated(s) : s \in Specs}}

Config == {NoConfig} \union [st : {"live", "deleting"}, spec : Image]

Object ==
  [exists : BOOLEAN, del : BOOLEAN, fin : BOOLEAN, spec : Specs \union {None}, rv : Nat]

\* The object is there or not; what is being deleted has the finalizer.
Sound(o) == (o.exists <=> o.spec # None) /\ (o.del => o.fin) /\ (o.fin => o.exists)

Plan == UNION {[D -> Image] : D \in SUBSET Name}

Flight ==
  [why : {"idle", "notfound", "deletion", "rebuild", "create"}, obj : Object,
   list : SUBSET Name, todo : SUBSET Name, new : Plan]

TypeInv ==
  /\ v \in Object /\ vc \in Object /\ fl \in Flight
  /\ Sound(v) /\ Sound(vc) /\ Sound(fl.obj)
  /\ phys \in [Name -> Config] /\ pc \in [Name -> Config]
  /\ dirty \in BOOLEAN /\ misled \in BOOLEAN
  /\ fl.todo \subseteq fl.list /\ (fl.why = "idle" => fl = Idle)
  /\ edits \in 0..MaxEdit /\ errors \in 0..MaxError /\ restarts \in 0..MaxRestart

----------------------------------------------------------------------------
(* The inductive invariant.                                                *)

LiveOf(configs) == {n \in Name : configs[n].st = "live"}

\* The worker cluster has the configurations g, but for those of left.
Created(configs, g, left) ==
  /\ left \subseteq DOMAIN g /\ LiveOf(configs) = DOMAIN g \ left
  /\ \A n \in LiveOf(configs) : configs[n].spec = g[n]

\* The worker cluster has what the controller generates for the spec.
Synced(configs, s) == \E g \in Generated(s) : Created(configs, g, {})

\* A rebuild has a plan for the object it works on, and a creation the rest of one.
Planned ==
  /\ fl.why = "rebuild" => fl.new \in Generated(fl.obj.spec)
  /\ fl.why = "create" /\ ~misled =>
       \E g \in Generated(fl.obj.spec) :
         /\ Created(phys, g, DOMAIN fl.new)
         /\ \A n \in DOMAIN fl.new : fl.new[n] = g[n]

\* What is there is on the list of what the reconcile still has to delete.
Listed ==
  fl.why \in {"notfound", "deletion", "rebuild"} /\ ~misled => LiveOf(phys) \subseteq fl.todo

\* The reconcile works on the state of the cache, unless it is queued again.
Current ==
  /\ fl.why # "idle" /\ ~dirty => fl.obj = vc
  /\ fl.why = "notfound" => ~fl.obj.exists
  /\ fl.why = "deletion" => fl.obj.del
  /\ fl.why \in {"rebuild", "create"} =>
       fl.obj.exists /\ ~fl.obj.del /\ fl.obj.fin
  /\ fl.why = "create" => fl.todo = {}

FlightInv == Planned /\ Listed /\ Current

\* The last reconcile has left what it should, or has added the finalizer, of
\* which the cache does not know yet.
RestInv ==
  fl.why = "idle" /\ ~dirty =>
    /\ vc.exists /\ ~vc.del /\ ~vc.fin => vc.rv < v.rv
    /\ ~misled =>
         /\ ~vc.exists => LiveOf(phys) = {}
         /\ vc.exists /\ ~vc.del /\ vc.fin => Synced(phys, vc.spec)

IInv == TypeInv /\ FlightInv /\ RestInv /\ vc.rv <= v.rv
----------------------------------------------------------------------------
(* What the controller generates.                                          *)

\* A spec is a record of its fields.
LEMMA SpecFields ==
  ASSUME NEW s \in Specs
  PROVE  /\ s \in LogSpec(Value)
         /\ s # None
         /\ s.workloads # {} => s.type = "container_stdout"
         /\ s.workload # None => s.type = "container_file"
         /\ s.ns \in Value /\ s.exns \in Value
         /\ s.type \in {"container_stdout", "container_file"}
  BY LogConfigAssumption DEF LogSpec, Value

\* The group of a workload of the spec.
GroupOf(s, w) ==
  [ns |-> w.ns, kind |-> w.kind,
   names |-> {x.name : x \in {y \in s.workloads : y.ns = w.ns /\ y.kind = w.kind}}]

\* There are finitely many groups.
LEMMA GroupsFinite ==
  ASSUME NEW s \in Specs
  PROVE  /\ IsFiniteSet(GroupWorkloads(s))
         /\ Cardinality(GroupWorkloads(s)) \in 0..MaxGroups
         /\ Cardinality(GroupWorkloads(s)) = 0 <=> s.workloads = {}
  <1> DEFINE f == [w \in s.workloads |-> GroupOf(s, w)]
  <1>1. GroupWorkloads(s) = {GroupOf(s, w) : w \in s.workloads}
    BY DEF GroupWorkloads, GroupOf
  <1>2. f \in Surjection(s.workloads, GroupWorkloads(s))
    BY <1>1 DEF Surjection
  <1>3. IsFiniteSet(s.workloads) /\ Cardinality(GroupWorkloads(s)) <= MaxGroups
    BY GroupsAssumption
  <1>4. IsFiniteSet(GroupWorkloads(s))
    BY <1>2, <1>3, FS_Surjection
  <1>5. Cardinality(GroupWorkloads(s)) \in Nat
    BY <1>4, FS_CardinalityType
  <1>6. Cardinality(GroupWorkloads(s)) = 0 <=> GroupWorkloads(s) = {}
    BY <1>4, FS_EmptySet
  <1>7. GroupWorkloads(s) = {} <=> s.workloads = {}
    BY <1>1
  <1> QED  BY <1>3, <1>4, <1>5, <1>6, <1>7, LogConfigAssumption

\* Workloads mean groups of them.
LEMMA Multiple ==
  ASSUME NEW s \in Specs
  PROVE  RequiresMultiplePhysicalConfigs(s) <=> s.workloads # {}
  BY GroupsFinite, SpecFields, LogConfigAssumption DEF RequiresMultiplePhysicalConfigs

\* Every group gets one number (generateMultiplePhysicalLogConfigs).
LEMMA Numbered ==
  ASSUME NEW s \in Specs, s.workloads # {}, NEW g \in Generated(s)
  PROVE  \E o \in [1..Cardinality(GroupWorkloads(s)) -> GroupWorkloads(s)] :
           /\ \A i, j \in DOMAIN o : o[i] = o[j] => i = j
           /\ \A x \in GroupWorkloads(s) : \E i \in DOMAIN o : o[i] = x
           /\ g = [n \in DOMAIN o |-> TransformSingleWorkloadGroup(s, o[n])]
  <1> DEFINE G == GroupWorkloads(s)
             K == 1..Cardinality(G)
  <1>1. g \in GenerateMultiplePhysicalLogConfigs(s)
    BY Multiple DEF Generated
  <1>2. PICK o \in [K -> G] :
          /\ \A i, j \in DOMAIN o : o[i] = o[j] => i = j
          /\ g = [n \in DOMAIN o |-> TransformSingleWorkloadGroup(s, o[n])]
    BY <1>1 DEF GenerateMultiplePhysicalLogConfigs
  <1>3. o \in Injection(K, G)
    BY <1>2 DEF Injection, IsInjective
  <1>4. IsFiniteSet(G) /\ Cardinality(G) \in Nat
    BY GroupsFinite, LogConfigAssumption
  <1>5. Cardinality(K) = Cardinality(G)
    BY <1>4, FS_Interval
  <1>6. o \in Surjection(K, G)
    BY <1>3, <1>4, <1>5, FS_Injection
  <1>7. \A x \in G : \E i \in K : o[i] = x
    BY <1>6 DEF Surjection
  <1>8. DOMAIN o = K
    OBVIOUS
  <1> QED  BY <1>2, <1>7, <1>8
\* A single configuration: the spec without workloads, its namespace rewritten.
LEMMA Single ==
  ASSUME NEW s \in Specs, s.workloads = {}, NEW g \in Generated(s)
  PROVE  /\ g = [n \in {0} |-> TransformLogConfigSpec(s)]
         /\ TransformLogConfigSpec(s) = IF s.workload # None
                                        THEN WorkloadToIncludeLabelsRule(s)
                                        ELSE NamespaceRules(s)
  <1>1. g = [n \in {0} |-> TransformLogConfigSpec(s)]
    BY Multiple DEF Generated, GenerateSinglePhysicalLogConfig
  <1>2. s.type \in {"container_stdout", "container_file"}
        /\ (s.workload # None => s.type = "container_file")
    BY SpecFields
  <1>3. CASE s.type = "container_stdout"
    BY <1>1, <1>2, <1>3 DEF TransformLogConfigSpec, TransformContainerStdoutSpec
  <1>4. CASE s.type = "container_file"
    BY <1>1, <1>2, <1>4 DEF TransformLogConfigSpec, TransformContainerFileSpec
  <1> QED  BY <1>2, <1>3, <1>4

\* The namespace rules one by one.
LEMMA NamespaceCases ==
  ASSUME NEW s \in Specs
  PROVE  /\ s.ns # None => NamespaceRules(s) = NamespaceRule(s)
         /\ s.ns = None /\ s.exns # None => NamespaceRules(s) = ExcludeNamespaceRule(s)
         /\ s.ns = None /\ s.exns = None => NamespaceRules(s) = s
  BY DEF NamespaceRules

\* The fields of what the rules make.
LEMMA RuleFields ==
  ASSUME NEW s \in Specs
  PROVE  /\ NamespaceRule(s).workloads = s.workloads
         /\ NamespaceRule(s).workload = s.workload
         /\ NamespaceRule(s).ns = Worker
         /\ NamespaceRule(s).exns = s.exns
         /\ NamespaceRule(s).excl = s.excl
         /\ NamespaceRule(s).incl = {l \in s.incl : l[1] # "virtual-namespace"}
                                      \union {<<"virtual-namespace", {s.ns}>>}
         /\ ExcludeNamespaceRule(s).workloads = s.workloads
         /\ ExcludeNamespaceRule(s).workload = s.workload
         /\ ExcludeNamespaceRule(s).ns = Worker
         /\ ExcludeNamespaceRule(s).exns = None
         /\ ExcludeNamespaceRule(s).excl = {<<"virtual-namespace", s.exns>>}
         /\ ExcludeNamespaceRule(s).incl = s.incl
         /\ WorkloadToIncludeLabelsRule(s).workloads = s.workloads
         /\ WorkloadToIncludeLabelsRule(s).workload = None
         /\ WorkloadToIncludeLabelsRule(s).ns = Worker
         /\ WorkloadToIncludeLabelsRule(s).exns = s.exns
         /\ WorkloadToIncludeLabelsRule(s).excl = s.excl
         /\ WorkloadToIncludeLabelsRule(s).incl =
              {<<"virtual-namespace", {IF s.ns = None THEN "default" ELSE s.ns}>>,
               <<"workload-name", {s.workload.name}>>,
               <<"workload-type", {s.workload.kind}>>}
  <1>1. s \in LogSpec(Value)
    BY SpecFields
  <1> QED  BY <1>1 DEF LogSpec, NamespaceRule, ExcludeNamespaceRule, WorkloadToIncludeLabelsRule

LEMMA GroupFields ==
  ASSUME NEW s \in Specs, NEW x
  PROVE  /\ TransformSingleWorkloadGroup(s, x).workloads = {}
         /\ TransformSingleWorkloadGroup(s, x).workload = s.workload
         /\ TransformSingleWorkloadGroup(s, x).ns = Worker
         /\ TransformSingleWorkloadGroup(s, x).exns = s.exns
         /\ TransformSingleWorkloadGroup(s, x).excl = s.excl
         /\ TransformSingleWorkloadGroup(s, x).incl =
              {<<"workload-type", {x.kind}>>, <<"virtual-namespace", {x.ns}>>,
               <<"workload-name", x.names>>}
  <1>1. s \in LogSpec(Value)
    BY SpecFields
  <1> QED  BY <1>1 DEF LogSpec, TransformSingleWorkloadGroup

\* What is generated has the names of configurations and names no workload.
LEMMA GeneratedPhysical ==
  ASSUME NEW s \in Specs, NEW g \in Generated(s)
  PROVE  /\ g \in Plan
         /\ DOMAIN g \subseteq Name
         /\ \A n \in DOMAIN g : PhysicalSpec(g[n])
  <1>1. DOMAIN g \subseteq Name /\ g = [n \in DOMAIN g |-> g[n]]
        /\ \A n \in DOMAIN g : PhysicalSpec(g[n])
    <2>1. CASE s.workloads # {}
      <3>1. PICK o \in [1..Cardinality(GroupWorkloads(s)) -> GroupWorkloads(s)] :
              g = [n \in DOMAIN o |-> TransformSingleWorkloadGroup(s, o[n])]
        BY <2>1, Numbered
      <3>2. s.workload = None
        BY <2>1, SpecFields
      <3>3. DOMAIN o \subseteq Name
        BY GroupsFinite, LogConfigAssumption DEF Name
      <3> QED  BY <3>1, <3>2, <3>3, GroupFields DEF PhysicalSpec
    <2>2. CASE s.workloads = {}
      <3>1. g = [n \in {0} |-> TransformLogConfigSpec(s)]
            /\ TransformLogConfigSpec(s) = IF s.workload # None
                 THEN WorkloadToIncludeLabelsRule(s) ELSE NamespaceRules(s)
        BY <2>2, Single
      <3>2. 0 \in Name
        BY LogConfigAssumption DEF Name
      <3>3. PhysicalSpec(TransformLogConfigSpec(s))
        BY <2>2, <3>1, RuleFields, NamespaceCases DEF PhysicalSpec
      <3> QED  BY <3>1, <3>2, <3>3
    <2> QED  BY <2>1, <2>2
  <1>2. \A n \in DOMAIN g : g[n] \in Image
    BY DEF Image
  <1>3. g \in [DOMAIN g -> Image]
    BY <1>1, <1>2
  <1> QED  BY <1>1, <1>3 DEF Plan

\* What is generated for some spec names no workload.
LEMMA ImagePhysical == \A i \in Image : PhysicalSpec(i)
  <1> SUFFICES ASSUME NEW i \in Image PROVE PhysicalSpec(i)
    OBVIOUS
  <1>1. PICK s \in Specs : \E g \in Generated(s) : \E n \in DOMAIN g : i = g[n]
    BY DEF Image
  <1> QED  BY <1>1, GeneratedPhysical
----------------------------------------------------------------------------
(* What is generated selects the same.                                     *)

\* The labels that the pod controller adds to a copy.
Reserved == {"virtual-namespace", "workload-type", "workload-name"}

\* A spec that selects in one way, as the rules of the translation suppose: an
\* excluded namespace overwrites excluded labels ("Configuration error" in the
\* log of applyExcludeNamespaceToExcludeLabelsRuleForContainerStdout), and
\* workloads take the place of labels; the added labels are not the user's.
Expressible(s) ==
  /\ s.exns # None => s.ns = None /\ s.workloads = {} /\ s.workload = None /\ s.excl = {}
  /\ s.workloads # {} => s.excl = {}
  /\ s.workload # None => s.incl = {}
  /\ \A l \in s.incl \union s.excl : l[1] \notin Reserved

\* A pod without labels of that name.
Plain(p) == \A l \in p.labels : l[1] \notin Reserved

\* The worker namespace is the one the copies are in and holds only copies;
\* specs and pods are as the translation supposes.
Usable ==
  /\ Worker = Mount
  /\ \A s \in Specs : Expressible(s)
  /\ \A p \in Pods : Plain(p)
  /\ \A p \in HostPods : p.ns # Worker

\* A configuration without workloads selects by namespace and labels.
LEMMA AgentPhysical ==
  ASSUME NEW i, PhysicalSpec(i), NEW q
  PROVE  Agent(i, q) <=> /\ i.ns = None \/ i.ns = q.ns
                         /\ i.exns # q.ns
                         /\ \A l \in i.incl : \E val \in l[2] : <<l[1], val>> \in q.labels
                         /\ i.excl \intersect q.labels = {}
  BY DEF Agent, PhysicalSpec

\* The labels of a copy tell the namespace and the workload of the pod.
LEMMA CopyLabels ==
  ASSUME NEW p \in Pods, Plain(p)
  PROVE  /\ CopyOf(p).ns = Mount
         /\ p.labels \subseteq CopyOf(p).labels
         /\ \A l \in CopyOf(p).labels : l \in p.labels \/ l[1] \in Reserved
         /\ \A val : <<"virtual-namespace", val>> \in CopyOf(p).labels <=> val = p.ns
         /\ \A val : <<"workload-type", val>> \in CopyOf(p).labels
                       <=> p.kind # None /\ val = p.kind
         /\ \A val : <<"workload-name", val>> \in CopyOf(p).labels
                       <=> p.kind # None /\ val = p.name
  <1> DEFINE X == {<<"virtual-namespace", p.ns>>} \union
                  (IF p.kind = None THEN {}
                   ELSE {<<"workload-type", p.kind>>, <<"workload-name", p.name>>})
  <1>1. CopyOf(p).ns = Mount /\ CopyOf(p).labels = p.labels \union X
    BY DEF CopyOf
  <1>2. \A l \in X : l[1] \in Reserved
    BY DEF Reserved
  <1>3. \A val : /\ <<"virtual-namespace", val>> \notin p.labels
                 /\ <<"workload-type", val>> \notin p.labels
                 /\ <<"workload-name", val>> \notin p.labels
    BY DEF Plain, Reserved
  <1>4. \A val : /\ <<"virtual-namespace", val>> \in X <=> val = p.ns
                 /\ <<"workload-type", val>> \in X <=> p.kind # None /\ val = p.kind
                 /\ <<"workload-name", val>> \in X <=> p.kind # None /\ val = p.name
    OBVIOUS
  <1> HIDE DEF X
  <1> QED  BY <1>1, <1>2, <1>3, <1>4

\* Labels of the user ask the same of the copy as of the pod.
LEMMA UserLabels ==
  ASSUME NEW p \in Pods, Plain(p), NEW s \in Specs, Expressible(s)
  PROVE  /\ \A l \in s.incl : (\E val \in l[2] : <<l[1], val>> \in CopyOf(p).labels)
                                <=> (\E val \in l[2] : <<l[1], val>> \in p.labels)
         /\ s.excl \intersect CopyOf(p).labels = {} <=> s.excl \intersect p.labels = {}
  <1>1. \A l \in s.incl : l[1] \notin Reserved
    BY DEF Expressible
  <1>2. \A l \in s.excl : l[1] \notin Reserved
    BY DEF Expressible
  <1>3. /\ p.labels \subseteq CopyOf(p).labels
        /\ \A l \in CopyOf(p).labels : l \in p.labels \/ l[1] \in Reserved
    BY CopyLabels
  <1>4. \A l \in s.incl : \A val : <<l[1], val>>[1] = l[1]
    OBVIOUS
  <1>5. \A l \in s.incl : \A val : <<l[1], val>> \in CopyOf(p).labels <=> <<l[1], val>> \in p.labels
    BY <1>1, <1>3, <1>4
  <1>6. s.excl \intersect CopyOf(p).labels = {} <=> s.excl \intersect p.labels = {}
    BY <1>2, <1>3
  <1> QED  BY <1>5, <1>6
\* A label to include, with the values of which one is asked for.
Asks(l, q) == \E val \in l[2] : <<l[1], val>> \in q.labels

LEMMA AsksOne ==
  ASSUME NEW k, NEW q
  PROVE  /\ \A vals : Asks(<<k, vals>>, q) <=> \E val \in vals : <<k, val>> \in q.labels
         /\ \A val : Asks(<<k, {val}>>, q) <=> <<k, val>> \in q.labels
  <1>1. \A vals : <<k, vals>>[1] = k /\ <<k, vals>>[2] = vals
    OBVIOUS
  <1>2. \A vals : Asks(<<k, vals>>, q) <=> \E val \in vals : <<k, val>> \in q.labels
    BY <1>1, Zenon DEF Asks
  <1>3. \A val : Asks(<<k, {val}>>, q) <=> <<k, val>> \in q.labels
    <2> TAKE val
    <2>1. Asks(<<k, {val}>>, q) <=> \E y \in {val} : <<k, y>> \in q.labels
      BY <1>1, Zenon DEF Asks
    <2> QED  BY <2>1
  <1> QED  BY <1>2, <1>3

\* Asking for all of three labels.
LEMMA AsksAll ==
  ASSUME NEW a, NEW b, NEW d, NEW q
  PROVE  (\A l \in {a, b, d} : Asks(l, q)) <=> Asks(a, q) /\ Asks(b, q) /\ Asks(d, q)
  OBVIOUS

\* One configuration for a spec without workloads: of the copy what the spec
\* asks of the pod (transformLogConfigSpec).
LEMMA SingleSelects ==
  ASSUME Worker = Mount, NEW s \in Specs, Expressible(s), s.workloads = {},
         NEW g \in Generated(s), NEW p \in Pods, Plain(p)
  PROVE  DOMAIN g = {0} /\ (Agent(g[0], CopyOf(p)) <=> Agent(s, p))
  <1> DEFINE c == CopyOf(p)
             t == g[0]
             Incl(q) == \A l \in s.incl : Asks(l, q)
             Excl(q) == s.excl \intersect q.labels = {}
  <1>1. DOMAIN g = {0} /\ PhysicalSpec(t)
        /\ t = IF s.workload # None THEN WorkloadToIncludeLabelsRule(s) ELSE NamespaceRules(s)
    BY Single, GeneratedPhysical
  <1>2. Agent(t, c) <=> /\ t.ns = None \/ t.ns = c.ns
                        /\ t.exns # c.ns
                        /\ \A l \in t.incl : Asks(l, c)
                        /\ t.excl \intersect c.labels = {}
    BY <1>1, AgentPhysical DEF Asks
  <1>3. (Incl(c) <=> Incl(p)) /\ (Excl(c) <=> Excl(p))
    BY UserLabels DEF Asks
  <1>4. c.ns = Worker /\ p.ns \in STRING /\ p.ns # None /\ Worker # None
    BY CopyLabels, LogConfigAssumption DEF PodType
  <1>5. CASE s.workload # None
    <2>1. t = WorkloadToIncludeLabelsRule(s) /\ s.incl = {} /\ s.exns = None
      BY <1>1, <1>5 DEF Expressible
    <2> DEFINE home == IF s.ns = None THEN "default" ELSE s.ns
    <2>2. t.ns = Worker /\ t.exns = None /\ t.excl = s.excl
          /\ t.incl = {<<"virtual-namespace", {home}>>, <<"workload-name", {s.workload.name}>>,
                       <<"workload-type", {s.workload.kind}>>}
      BY <2>1, RuleFields
    <2>3. (\A l \in t.incl : Asks(l, c))
          <=> /\ <<"virtual-namespace", home>> \in c.labels
              /\ <<"workload-name", s.workload.name>> \in c.labels
              /\ <<"workload-type", s.workload.kind>> \in c.labels
      <3> DEFINE a == <<"virtual-namespace", {home}>>
                 b == <<"workload-name", {s.workload.name}>>
                 d == <<"workload-type", {s.workload.kind}>>
      <3>1. /\ Asks(a, c) <=> <<"virtual-namespace", home>> \in c.labels
            /\ Asks(b, c) <=> <<"workload-name", s.workload.name>> \in c.labels
            /\ Asks(d, c) <=> <<"workload-type", s.workload.kind>> \in c.labels
        BY AsksOne, Zenon
      <3>2. t.incl = {a, b, d}
        BY <2>2
      <3> HIDE DEF a, b, d, c, t
      <3>3. (\A l \in t.incl : Asks(l, c)) <=> Asks(a, c) /\ Asks(b, c) /\ Asks(d, c)
        BY <3>2, AsksAll, Zenon
      <3> QED  BY <3>1, <3>3
    <2>4. Agent(t, c) <=> /\ p.ns = home /\ p.kind # None /\ p.kind = s.workload.kind
                          /\ p.name = s.workload.name /\ Excl(p)
      BY <1>2, <1>3, <1>4, <2>2, <2>3, CopyLabels
    <2>5. s.workload.kind # None
      BY <1>5, SpecFields, LogConfigAssumption DEF LogSpec
    <2>6. Agent(s, p) <=> /\ p.kind = s.workload.kind /\ p.name = s.workload.name
                          /\ p.ns = home /\ Excl(p)
      BY <1>4, <1>5, <2>1 DEF Agent, Asks
    <2> QED  BY <1>1, <2>4, <2>5, <2>6
  <1>6. CASE s.workload = None
    <2>1. Agent(s, p) <=> /\ s.ns = None \/ s.ns = p.ns
                          /\ s.exns # p.ns /\ Incl(p) /\ Excl(p)
      BY <1>6 DEF Agent, Asks
    <2>2. CASE s.ns # None
      <3>1. t = NamespaceRule(s) /\ s.exns = None
        BY <1>1, <1>6, <2>2, NamespaceCases DEF Expressible
      <3>2. t.ns = Worker /\ t.exns = None /\ t.excl = s.excl
            /\ t.incl = {l \in s.incl : l[1] # "virtual-namespace"}
                          \union {<<"virtual-namespace", {s.ns}>>}
        BY <3>1, RuleFields
      <3>3. t.incl = s.incl \union {<<"virtual-namespace", {s.ns}>>}
        BY <3>2 DEF Expressible, Reserved
      <3>4. (\A l \in t.incl : Asks(l, c))
            <=> Incl(c) /\ <<"virtual-namespace", s.ns>> \in c.labels
        <4> DEFINE a == <<"virtual-namespace", {s.ns}>>
        <4>1. Asks(a, c) <=> <<"virtual-namespace", s.ns>> \in c.labels
          BY AsksOne, Zenon
        <4>2. t.incl = s.incl \union {a}
          BY <3>3
        <4> HIDE DEF a, c, t
        <4>3. (\A l \in t.incl : Asks(l, c)) <=> (\A l \in s.incl : Asks(l, c)) /\ Asks(a, c)
          BY <4>2
        <4> QED  BY <4>1, <4>3
      <3>5. <<"virtual-namespace", s.ns>> \in c.labels <=> s.ns = p.ns
        BY CopyLabels
      <3> QED  BY <1>1, <1>2, <1>3, <1>4, <2>1, <2>2, <3>1, <3>2, <3>4, <3>5
    <2>3. CASE s.ns = None /\ s.exns # None
      <3>1. t = ExcludeNamespaceRule(s) /\ s.excl = {}
        BY <1>1, <1>6, <2>3, NamespaceCases DEF Expressible
      <3>2. t.ns = Worker /\ t.exns = None /\ t.incl = s.incl
            /\ t.excl = {<<"virtual-namespace", s.exns>>}
        BY <3>1, RuleFields
      <3>3. t.excl \intersect c.labels = {} <=> s.exns # p.ns
        <4>1. t.excl \intersect c.labels = {} <=> <<"virtual-namespace", s.exns>> \notin c.labels
          BY <3>2
        <4> QED  BY <4>1, CopyLabels
      <3>4. Excl(p)
        BY <3>1
      <3> QED  BY <1>1, <1>2, <1>3, <1>4, <2>1, <2>3, <3>2, <3>3, <3>4
    <2>4. CASE s.ns = None /\ s.exns = None
      <3>1. t = s
        BY <1>1, <1>6, <2>4, NamespaceCases
      <3> QED  BY <1>1, <1>2, <1>3, <1>4, <2>1, <2>4, <3>1
    <2> QED  BY <2>2, <2>3, <2>4
  <1> QED  BY <1>5, <1>6

\* A group of workloads selects the copies of its pods (transformSingleWorkloadGroup).
LEMMA GroupSelects ==
  ASSUME Worker = Mount, NEW s \in Specs, Expressible(s), s.workloads # {},
         NEW x \in GroupWorkloads(s), NEW p \in Pods, Plain(p)
  PROVE  Agent(TransformSingleWorkloadGroup(s, x), CopyOf(p))
           <=> p.ns = x.ns /\ p.kind = x.kind /\ p.name \in x.names
  <1> DEFINE c == CopyOf(p)
             t == TransformSingleWorkloadGroup(s, x)
  <1>1. s.workload = None /\ s.excl = {} /\ s.exns = None
    BY SpecFields DEF Expressible
  <1>2. t.workloads = {} /\ t.workload = None /\ t.ns = Worker /\ t.exns = None /\ t.excl = {}
        /\ t.incl = {<<"workload-type", {x.kind}>>, <<"virtual-namespace", {x.ns}>>,
                     <<"workload-name", x.names>>}
    BY <1>1, GroupFields
  <1> HIDE DEF t
  <1>3. Agent(t, c) <=> /\ t.ns = None \/ t.ns = c.ns
                        /\ t.exns # c.ns
                        /\ \A l \in t.incl : Asks(l, c)
                        /\ t.excl \intersect c.labels = {}
    BY <1>2, AgentPhysical DEF PhysicalSpec, Asks
  <1>4. c.ns = Worker /\ Worker # None
    BY CopyLabels, LogConfigAssumption
  <1>5. (\A l \in t.incl : Asks(l, c))
        <=> /\ <<"workload-type", x.kind>> \in c.labels
            /\ <<"virtual-namespace", x.ns>> \in c.labels
            /\ \E val \in x.names : <<"workload-name", val>> \in c.labels
    <2> DEFINE a == <<"workload-type", {x.kind}>>
               b == <<"virtual-namespace", {x.ns}>>
               d == <<"workload-name", x.names>>
    <2>1. /\ Asks(a, c) <=> <<"workload-type", x.kind>> \in c.labels
          /\ Asks(b, c) <=> <<"virtual-namespace", x.ns>> \in c.labels
          /\ Asks(d, c) <=> \E val \in x.names : <<"workload-name", val>> \in c.labels
      BY AsksOne, Zenon
    <2>2. t.incl = {a, b, d}
      BY <1>2
    <2> HIDE DEF a, b, d, c
    <2>3. (\A l \in t.incl : Asks(l, c)) <=> Asks(a, c) /\ Asks(b, c) /\ Asks(d, c)
      BY <2>2, AsksAll, Zenon
    <2> QED  BY <2>1, <2>3
  <1>6. x.kind # None
    <2>1. PICK w \in s.workloads : x.kind = w.kind
      BY DEF GroupWorkloads
    <2> QED  BY <2>1, SpecFields, LogConfigAssumption DEF LogSpec
  <1>7. Agent(t, c) <=> /\ <<"workload-type", x.kind>> \in c.labels
                        /\ <<"virtual-namespace", x.ns>> \in c.labels
                        /\ \E val \in x.names : <<"workload-name", val>> \in c.labels
    BY <1>2, <1>3, <1>4, <1>5
  <1>8. /\ <<"workload-type", x.kind>> \in c.labels <=> p.kind # None /\ x.kind = p.kind
        /\ <<"virtual-namespace", x.ns>> \in c.labels <=> x.ns = p.ns
        /\ \A val : <<"workload-name", val>> \in c.labels <=> p.kind # None /\ val = p.name
    BY CopyLabels
  <1> HIDE DEF c
  <1>9. Agent(t, c) <=> p.ns = x.ns /\ p.kind = x.kind /\ p.name \in x.names
    BY <1>6, <1>7, <1>8
  <1> QED  BY <1>9 DEF t, c
\* What the controller generates for a spec selects the copy of a pod exactly
\* once if the spec selects the pod, else not at all, whatever the order of the
\* groups of workloads (generatePhysicalLogConfigs, groupWorkloads,
\* transformLogConfigSpec).
THEOREM OneCollectorEach ==
  ASSUME Usable, NEW s \in Specs, NEW g \in Generated(s), NEW p \in Pods
  PROVE  Cardinality({n \in DOMAIN g : Agent(g[n], CopyOf(p))}) = IF Agent(s, p) THEN 1 ELSE 0
  <1> DEFINE S == {n \in DOMAIN g : Agent(g[n], CopyOf(p))}
  <1>1. Worker = Mount /\ Expressible(s) /\ Plain(p)
    BY DEF Usable
  <1>2. Agent(s, p) => \E n : S = {n}
    <2>1. CASE s.workloads = {}
      BY <1>1, <2>1, SingleSelects
    <2>2. CASE s.workloads # {} /\ Agent(s, p)
      <3>1. PICK w \in s.workloads : p.ns = w.ns /\ p.kind = w.kind /\ p.name = w.name
        BY <2>2 DEF Agent
      <3> DEFINE x == GroupOf(s, w)
      <3>2. x \in GroupWorkloads(s) /\ x.ns = w.ns /\ x.kind = w.kind /\ w.name \in x.names
        BY DEF GroupOf, GroupWorkloads
      <3>3. PICK o \in [1..Cardinality(GroupWorkloads(s)) -> GroupWorkloads(s)] :
              /\ \A i, j \in DOMAIN o : o[i] = o[j] => i = j
              /\ \A y \in GroupWorkloads(s) : \E i \in DOMAIN o : o[i] = y
              /\ g = [n \in DOMAIN o |-> TransformSingleWorkloadGroup(s, o[n])]
        BY <2>2, Numbered
      <3>4. \A y \in GroupWorkloads(s) : y.ns = p.ns /\ y.kind = p.kind => y = x
        BY <3>1 DEF GroupOf, GroupWorkloads
      <3>5. \A n \in DOMAIN o : /\ o[n] \in GroupWorkloads(s)
                                /\ g[n] = TransformSingleWorkloadGroup(s, o[n])
        BY <3>3
      <3> HIDE DEF x
      <3>6. \A n \in DOMAIN o : Agent(g[n], CopyOf(p)) <=> o[n] = x
        BY <1>1, <2>2, <3>1, <3>2, <3>4, <3>5, GroupSelects
      <3>7. PICK i \in DOMAIN o : o[i] = x
        BY <3>2, <3>3
      <3>8. DOMAIN g = DOMAIN o
        BY <3>3
      <3>9. S = {i}
        BY <3>3, <3>6, <3>7, <3>8
      <3> QED  BY <3>9
    <2> QED  BY <2>1, <2>2
  <1>3. ~Agent(s, p) => S = {}
    <2>1. CASE s.workloads = {}
      BY <1>1, <2>1, SingleSelects
    <2>2. CASE s.workloads # {} /\ ~Agent(s, p)
      <3>1. PICK o \in [1..Cardinality(GroupWorkloads(s)) -> GroupWorkloads(s)] :
              g = [n \in DOMAIN o |-> TransformSingleWorkloadGroup(s, o[n])]
        BY <2>2, Numbered
      <3>2. \A y \in GroupWorkloads(s) : ~(p.ns = y.ns /\ p.kind = y.kind /\ p.name \in y.names)
        BY <2>2 DEF Agent, GroupWorkloads
      <3>3. \A n \in DOMAIN o : /\ o[n] \in GroupWorkloads(s)
                                /\ g[n] = TransformSingleWorkloadGroup(s, o[n])
        BY <3>1
      <3>4. \A n \in DOMAIN o : ~Agent(g[n], CopyOf(p))
        BY <1>1, <2>2, <3>2, <3>3, GroupSelects
      <3> QED  BY <3>1, <3>4
    <2> QED  BY <2>1, <2>2
  <1> HIDE DEF S
  <1>4. Cardinality(S) = IF Agent(s, p) THEN 1 ELSE 0
    BY <1>2, <1>3, FS_Singleton, FS_EmptySet
  <1> QED  BY <1>4 DEF S

\* What is generated for a spec with a scope stays in the worker namespace.
LEMMA StaysInside ==
  ASSUME Usable, NEW s \in Specs, Scoped(s), NEW g \in Generated(s), NEW p \in HostPods
  PROVE  \A n \in DOMAIN g : ~Agent(g[n], p)
  <1>1. \A n \in DOMAIN g : g[n].ns = Worker
    <2>1. CASE s.workloads # {}
      <3>1. PICK o \in [1..Cardinality(GroupWorkloads(s)) -> GroupWorkloads(s)] :
              g = [n \in DOMAIN o |-> TransformSingleWorkloadGroup(s, o[n])]
        BY <2>1, Numbered
      <3> QED  BY <3>1, GroupFields
    <2>2. CASE s.workloads = {}
      <3>1. TransformLogConfigSpec(s).ns = Worker
        BY <2>2, Single, RuleFields, NamespaceCases DEF Scoped
      <3> QED  BY <2>2, <3>1, Single
    <2> QED  BY <2>1, <2>2
  <1>2. \A n \in DOMAIN g : PhysicalSpec(g[n])
    BY GeneratedPhysical
  <1>3. p.ns # Worker /\ Worker # None
    BY LogConfigAssumption DEF Usable
  <1> QED  BY <1>1, <1>2, <1>3, AgentPhysical
----------------------------------------------------------------------------
(* The types are kept.                                                     *)

LEMMA IdleTyped ==
  /\ Absent \in Object /\ Sound(Absent) /\ Absent.rv = 0 /\ ~Absent.exists
  /\ Idle \in Flight /\ Idle.new \in Plan
  /\ Idle.why = "idle" /\ Idle.obj = Absent /\ Idle.list = {} /\ Idle.todo = {}
  <1>1. Absent \in Object /\ Sound(Absent) /\ Absent.rv = 0 /\ ~Absent.exists
    BY DEF Absent, Object, Sound
  <1>2. Idle.new \in [{} -> Image] /\ {} \in SUBSET Name
    BY DEF Idle
  <1>3. Idle.new \in Plan
    BY <1>2 DEF Plan
  <1> HIDE DEF Absent, Plan, Object
  <1> QED  BY <1>1, <1>3 DEF Idle, Flight

\* The parts of the type invariant, before and after a step.
LEMMA TypeParts ==
  /\ TypeInv =>
       /\ v \in Object /\ vc \in Object /\ fl \in Flight
       /\ Sound(v) /\ Sound(vc) /\ Sound(fl.obj)
       /\ phys \in [Name -> Config] /\ pc \in [Name -> Config]
       /\ dirty \in BOOLEAN /\ misled \in BOOLEAN
       /\ fl.todo \subseteq fl.list /\ (fl.why = "idle" => fl = Idle)
       /\ edits \in 0..MaxEdit /\ errors \in 0..MaxError /\ restarts \in 0..MaxRestart
  /\ fl \in Flight =>
       /\ fl.why \in {"idle", "notfound", "deletion", "rebuild", "create"}
       /\ fl.obj \in Object /\ fl.list \in SUBSET Name /\ fl.todo \in SUBSET Name
       /\ fl.new \in Plan
  <1>1. fl \in Flight =>
       /\ fl.why \in {"idle", "notfound", "deletion", "rebuild", "create"}
       /\ fl.obj \in Object /\ fl.list \in SUBSET Name /\ fl.todo \in SUBSET Name
       /\ fl.new \in Plan
    BY DEF Flight
  <1> QED  BY <1>1 DEF TypeInv

LEMMA InitTypes == Init => TypeInv
  <1> SUFFICES ASSUME Init PROVE TypeInv
    OBVIOUS
  <1>1. v = Absent /\ vc = Absent /\ fl = Idle /\ pc = phys /\ phys = [n \in Name |-> NoConfig]
        /\ dirty = FALSE /\ misled = FALSE /\ edits = 0 /\ errors = 0 /\ restarts = 0
    BY DEF Init
  <1>2. phys \in [Name -> Config]
    BY <1>1 DEF Config
  <1>3. 0 \in 0..MaxEdit /\ 0 \in 0..MaxError /\ 0 \in 0..MaxRestart
    BY LogConfigAssumption
  <1> QED  BY <1>1, <1>2, <1>3, IdleTyped DEF TypeInv

\* The flight that deletes what is listed.
LEMMA RelatedFlight ==
  ASSUME TypeInv, NEW why \in {"notfound", "deletion", "rebuild"}, NEW new \in Plan,
         DeleteRelated(why, new)
  PROVE  /\ fl' \in Flight /\ fl'.why = why /\ fl'.obj = vc /\ fl'.new = new
         /\ fl'.todo = Related(pc) /\ fl'.list = Related(pc)
         /\ misled' = (pc # phys) /\ misled' \in BOOLEAN
  <1>1. fl' = [why |-> why, obj |-> vc, list |-> Related(pc), todo |-> Related(pc), new |-> new]
        /\ misled' = (pc # phys)
    BY DEF DeleteRelated
  <1>2. Related(pc) \in SUBSET Name /\ vc \in Object
    BY TypeParts DEF Related
  <1>3. fl'.why = why /\ fl'.obj = vc /\ fl'.new = new /\ fl'.todo = Related(pc)
        /\ fl'.list = Related(pc) /\ fl' \in Flight
    BY <1>1, <1>2 DEF Flight
  <1>4. misled' \in BOOLEAN
    BY <1>1
  <1> QED  BY <1>1, <1>3, <1>4

\* A record of the type stays one when fields of it change.
LEMMA ObjectFields ==
  ASSUME NEW o \in Object, NEW b \in BOOLEAN, NEW r \in Nat
  PROVE  /\ \A s \in Specs : [o EXCEPT !.exists = b, !.spec = s, !.rv = r] \in Object
         /\ [o EXCEPT !.del = b, !.rv = r] \in Object
         /\ [o EXCEPT !.fin = b, !.rv = r] \in Object
         /\ [o EXCEPT !.rv = r] \in Object
  BY DEF Object

\* Steps of the virtual configuration give a sound object of a higher version.
LEMMA ObjectSteps ==
  ASSUME NEW o \in Object, Sound(o)
  PROVE  /\ \A s \in Specs :
              LET w == [o EXCEPT !.exists = TRUE, !.spec = s, !.rv = @ + 1]
              IN  w \in Object /\ Sound(w) /\ w.rv = o.rv + 1 /\ w.fin = o.fin
         /\ o.fin =>
              LET w == [o EXCEPT !.del = TRUE, !.rv = @ + 1]
              IN  w \in Object /\ Sound(w) /\ w.rv = o.rv + 1 /\ w.fin = o.fin
         /\ o.exists =>
              LET w == [o EXCEPT !.fin = TRUE, !.rv = @ + 1]
              IN  w \in Object /\ Sound(w) /\ w.rv = o.rv + 1 /\ w.fin
         /\ LET w == [Absent EXCEPT !.rv = o.rv + 1]
            IN  w \in Object /\ Sound(w) /\ w.rv = o.rv + 1 /\ ~w.fin /\ ~w.exists
  <1>0. o.rv + 1 \in Nat /\ TRUE \in BOOLEAN
    BY DEF Object
  <1>1. ASSUME NEW s \in Specs
        PROVE  LET w == [o EXCEPT !.exists = TRUE, !.spec = s, !.rv = @ + 1]
               IN  w \in Object /\ Sound(w) /\ w.rv = o.rv + 1 /\ w.fin = o.fin
    <2> DEFINE w == [o EXCEPT !.exists = TRUE, !.spec = s, !.rv = @ + 1]
    <2>1. /\ w.exists = TRUE /\ w.spec = s /\ w.del = o.del /\ w.fin = o.fin
          /\ w.rv = o.rv + 1
      BY <1>1 DEF Object
    <2>2. w \in Object
      BY <1>0, <1>1, ObjectFields, Zenon
    <2> HIDE DEF w
    <2>3. s # None
      BY <1>1, SpecFields
    <2>4. Sound(w)
      BY <2>1, <2>3, Zenon DEF Sound
    <2> QED  BY <2>1, <2>2, <2>4, Zenon DEF w
  <1>2. ASSUME o.fin
        PROVE  LET w == [o EXCEPT !.del = TRUE, !.rv = @ + 1]
               IN  w \in Object /\ Sound(w) /\ w.rv = o.rv + 1 /\ w.fin = o.fin
    <2> DEFINE w == [o EXCEPT !.del = TRUE, !.rv = @ + 1]
    <2>1. /\ w.exists = o.exists /\ w.spec = o.spec /\ w.del = TRUE /\ w.fin = o.fin
          /\ w.rv = o.rv + 1
      BY DEF Object
    <2>2. w \in Object
      BY <1>0, ObjectFields, Zenon
    <2> HIDE DEF w
    <2>3. Sound(w)
      BY <1>2, <2>1, Zenon DEF Sound
    <2> QED  BY <2>1, <2>2, <2>3, Zenon DEF w
  <1>3. ASSUME o.exists
        PROVE  LET w == [o EXCEPT !.fin = TRUE, !.rv = @ + 1]
               IN  w \in Object /\ Sound(w) /\ w.rv = o.rv + 1 /\ w.fin
    <2> DEFINE w == [o EXCEPT !.fin = TRUE, !.rv = @ + 1]
    <2>1. /\ w.exists = o.exists /\ w.spec = o.spec /\ w.del = o.del /\ w.fin = TRUE
          /\ w.rv = o.rv + 1
      BY DEF Object
    <2>2. w \in Object
      BY <1>0, ObjectFields, Zenon
    <2> HIDE DEF w
    <2>3. Sound(w)
      BY <1>3, <2>1, Zenon DEF Sound
    <2> QED  BY <2>1, <2>2, <2>3, Zenon DEF w
  <1>4. LET w == [Absent EXCEPT !.rv = o.rv + 1]
        IN  w \in Object /\ Sound(w) /\ w.rv = o.rv + 1 /\ ~w.fin /\ ~w.exists
    <2> DEFINE w == [Absent EXCEPT !.rv = o.rv + 1]
    <2>1. /\ w.exists = FALSE /\ w.spec = None /\ w.del = FALSE /\ w.fin = FALSE
          /\ w.rv = o.rv + 1
      BY DEF Object, Absent
    <2>2. w \in Object
      BY <1>0, IdleTyped, ObjectFields, Zenon
    <2> HIDE DEF w
    <2>3. Sound(w)
      BY <2>1, Zenon DEF Sound
    <2> QED  BY <2>1, <2>2, <2>3, Zenon DEF w
  <1> QED  BY <1>1, <1>2, <1>3, <1>4, Zenon
----------------------------------------------------------------------------
(* The configurations of the worker cluster.                               *)

\* The deletion of one.
LEMMA DeleteConfig ==
  ASSUME NEW P \in [Name -> Config], NEW n \in Name
  PROVE  LET Q == [P EXCEPT ![n] = IF @.st = "none" THEN NoConfig ELSE [@ EXCEPT !.st = "deleting"]]
         IN  Q \in [Name -> Config] /\ LiveOf(Q) \subseteq LiveOf(P) \ {n}
  <1> DEFINE c == IF P[n].st = "none" THEN NoConfig ELSE [P[n] EXCEPT !.st = "deleting"]
             Q == [P EXCEPT ![n] = c]
  <1>1. c \in Config /\ c.st # "live"
    BY DEF Config, NoConfig
  <1> HIDE DEF c
  <1>2. Q \in [Name -> Config] /\ Q[n] = c /\ \A m \in Name \ {n} : Q[m] = P[m]
    BY <1>1
  <1> HIDE DEF Q
  <1>3. LiveOf(Q) \subseteq LiveOf(P) \ {n}
    BY <1>1, <1>2 DEF LiveOf
  <1> QED  BY <1>2, <1>3 DEF Q, c

\* The end of one that is being deleted.
LEMMA EndConfig ==
  ASSUME NEW P \in [Name -> Config], NEW n \in Name, P[n].st = "deleting"
  PROVE  LET Q == [P EXCEPT ![n] = NoConfig]
         IN  /\ Q \in [Name -> Config] /\ LiveOf(Q) = LiveOf(P)
             /\ \A m \in LiveOf(P) : Q[m] = P[m]
  <1> DEFINE Q == [P EXCEPT ![n] = NoConfig]
  <1>1. NoConfig \in Config /\ NoConfig.st # "live"
    BY DEF Config, NoConfig
  <1>2. Q \in [Name -> Config] /\ Q[n] = NoConfig /\ \A m \in Name \ {n} : Q[m] = P[m]
    BY <1>1
  <1> HIDE DEF Q
  <1>3. LiveOf(Q) = LiveOf(P) /\ \A m \in LiveOf(P) : Q[m] = P[m]
    BY <1>1, <1>2 DEF LiveOf
  <1> QED  BY <1>2, <1>3 DEF Q

\* The creation of one.
LEMMA CreateConfig ==
  ASSUME NEW P \in [Name -> Config], NEW n \in Name, NEW i \in Image
  PROVE  LET Q == [P EXCEPT ![n] = [st |-> "live", spec |-> i]]
         IN  /\ Q \in [Name -> Config] /\ LiveOf(Q) = LiveOf(P) \union {n}
             /\ Q[n].spec = i /\ \A m \in Name \ {n} : Q[m] = P[m]
  <1> DEFINE c == [st |-> "live", spec |-> i]
             Q == [P EXCEPT ![n] = c]
  <1>1. c \in Config /\ c.st = "live" /\ c.spec = i
    BY DEF Config
  <1> HIDE DEF c
  <1>2. Q \in [Name -> Config] /\ Q[n] = c /\ \A m \in Name \ {n} : Q[m] = P[m]
    BY <1>1
  <1> HIDE DEF Q
  <1>3. LiveOf(Q) = LiveOf(P) \union {n}
    BY <1>1, <1>2 DEF LiveOf
  <1> QED  BY <1>1, <1>2, <1>3 DEF Q, c

\* What was created stays so while the live configurations stay.
LEMMA SameLive ==
  ASSUME NEW P, NEW Q, LiveOf(Q) = LiveOf(P), \A n \in LiveOf(P) : Q[n].spec = P[n].spec
  PROVE  /\ \A g, left : Created(P, g, left) => Created(Q, g, left)
         /\ \A s : Synced(P, s) => Synced(Q, s)
  BY DEF Created, Synced

----------------------------------------------------------------------------
(* The invariant is inductive: steps that the reconcile has no part in.    *)

\* Nothing is under way, but the configuration is queued.
LEMMA Requeued ==
  ASSUME IInv, TypeInv', fl' = Idle, dirty', vc'.rv <= v'.rv
  PROVE  IInv'
  <1>1. fl'.why = "idle"
    BY IdleTyped
  <1> QED  BY <1>1 DEF IInv, FlightInv, Planned, Listed, Current, RestInv

\* A step that changes only the virtual configuration, what the cache of the
\* worker cluster shows, or what is not live there.
LEMMA Aside ==
  ASSUME IInv, TypeInv', UNCHANGED <<vc, dirty, fl, misled>>, v.rv <= v'.rv,
         LiveOf(phys') = LiveOf(phys), \A n \in LiveOf(phys) : phys'[n].spec = phys[n].spec
  PROVE  IInv'
  <1>1. /\ \A g, left : Created(phys, g, left) => Created(phys', g, left)
        /\ \A s : Synced(phys, s) => Synced(phys', s)
    BY SameLive
  <1>2. v.rv \in Nat /\ v'.rv \in Nat /\ vc.rv \in Nat /\ vc.rv <= v.rv
    BY DEF IInv, TypeInv, Object
  <1>3. vc'.rv <= v'.rv
    BY <1>2
  <1>4. FlightInv'
    BY <1>1 DEF IInv, FlightInv, Planned, Listed, Current
  <1>5. RestInv'
    BY <1>1, <1>2 DEF IInv, RestInv
  <1> QED  BY <1>3, <1>4, <1>5 DEF IInv
LEMMA UserWriteInv ==
  ASSUME IInv, NEW s \in Specs, UserWrite(s)
  PROVE  IInv' /\ v'.fin = v.fin
  <1>1. TypeInv /\ UNCHANGED <<vc, phys, pc, dirty, fl, misled, errors, restarts>>
        /\ edits < MaxEdit /\ edits' = edits + 1
    BY DEF IInv, UserWrite
  <1>2. v \in Object /\ Sound(v) /\ edits \in 0..MaxEdit
    BY <1>1, TypeParts
  <1>3. v' = [v EXCEPT !.exists = TRUE, !.spec = s, !.rv = @ + 1]
    BY DEF UserWrite
  <1>4. v' \in Object /\ Sound(v') /\ v'.rv = v.rv + 1 /\ v'.fin = v.fin
    <2> DEFINE w == [v EXCEPT !.exists = TRUE, !.spec = s, !.rv = @ + 1]
    <2>1. w \in Object /\ Sound(w) /\ w.rv = v.rv + 1 /\ w.fin = v.fin
      BY <1>2, ObjectSteps
    <2>2. v' = w
      BY <1>3
    <2> HIDE DEF w
    <2> QED  BY <2>1, <2>2
  <1>5. edits' \in 0..MaxEdit
    BY <1>1, <1>2, LogConfigAssumption
  <1>6. TypeInv'
    BY <1>1, <1>4, <1>5 DEF TypeInv
  <1>7. v.rv <= v'.rv
    BY <1>2, <1>4 DEF Object
  <1> QED  BY <1>1, <1>4, <1>6, <1>7, Aside

LEMMA UserDeleteInv ==
  ASSUME IInv, UserDelete
  PROVE  IInv' /\ v'.fin = v.fin
  <1>1. TypeInv /\ UNCHANGED <<vc, phys, pc, dirty, fl, misled, bounds>>
    BY DEF IInv, UserDelete
  <1>2. v \in Object /\ Sound(v)
    BY <1>1, TypeParts
  <1>3. v' = IF v.fin THEN [v EXCEPT !.del = TRUE, !.rv = @ + 1]
             ELSE [Absent EXCEPT !.rv = v.rv + 1]
    BY DEF UserDelete
  <1>4. v' \in Object /\ Sound(v') /\ v'.rv = v.rv + 1 /\ v'.fin = v.fin
    <2>1. CASE v.fin
      BY <1>2, <1>3, <2>1, ObjectSteps
    <2>2. CASE ~v.fin
      <3>1. v' \in Object /\ Sound(v') /\ v'.rv = v.rv + 1 /\ ~v'.fin
        BY <1>2, <1>3, <2>2, ObjectSteps
      <3>2. v.fin \in BOOLEAN /\ v'.fin \in BOOLEAN
        BY <1>2, <3>1 DEF Object
      <3> QED  BY <2>2, <3>1, <3>2
    <2> QED  BY <2>1, <2>2
  <1>5. TypeInv'
    BY <1>1, <1>4 DEF TypeInv, bounds
  <1>6. v.rv <= v'.rv
    BY <1>2, <1>4 DEF Object
  <1> QED  BY <1>1, <1>4, <1>5, <1>6, Aside

\* Nothing changes but the cache of the worker cluster.
LEMMA DeliverPhysicalInv ==
  ASSUME IInv, DeliverPhysical
  PROVE  IInv'
  <1>1. TypeInv /\ UNCHANGED <<v, vc, phys, dirty, fl, misled, bounds>> /\ pc' = phys
    BY DEF IInv, DeliverPhysical
  <1>2. TypeInv'
    BY <1>1 DEF TypeInv, bounds
  <1>3. v.rv <= v'.rv
    BY <1>1, TypeParts DEF Object
  <1> QED  BY <1>1, <1>2, <1>3, Aside

LEMMA StutterInv ==
  ASSUME IInv, UNCHANGED vars
  PROVE  IInv'
  <1>1. TypeInv /\ UNCHANGED <<v, vc, phys, pc, dirty, fl, misled, bounds>>
    BY DEF IInv, vars
  <1>2. TypeInv'
    BY <1>1 DEF TypeInv, bounds
  <1>3. v.rv <= v'.rv
    BY <1>1, TypeParts DEF Object
  <1> QED  BY <1>1, <1>2, <1>3, Aside

LEMMA PhysGoneInv ==
  ASSUME IInv, NEW n \in Name, PhysGone(n)
  PROVE  IInv'
  <1>1. TypeInv /\ UNCHANGED <<v, vc, pc, dirty, fl, misled, bounds>>
        /\ phys[n].st = "deleting" /\ phys' = [phys EXCEPT ![n] = NoConfig]
    BY DEF IInv, PhysGone
  <1>2. phys \in [Name -> Config]
    BY <1>1, TypeParts
  <1>3. /\ phys' \in [Name -> Config] /\ LiveOf(phys') = LiveOf(phys)
        /\ \A m \in LiveOf(phys) : phys'[m] = phys[m]
    BY <1>1, <1>2, EndConfig
  <1>4. TypeInv'
    BY <1>1, <1>3 DEF TypeInv, bounds
  <1>5. v.rv <= v'.rv
    BY <1>1, TypeParts DEF Object
  <1> QED  BY <1>1, <1>3, <1>4, <1>5, Aside

\* An event queues the configuration.
LEMMA DeliverVirtualInv ==
  ASSUME IInv, DeliverVirtual
  PROVE  IInv'
  <1>1. TypeInv /\ UNCHANGED <<v, phys, pc, fl, misled, bounds>> /\ vc' = v /\ dirty' = TRUE
    BY DEF IInv, DeliverVirtual
  <1>2. TypeInv'
    BY <1>1 DEF TypeInv, bounds
  <1>3. vc'.rv <= v'.rv
    BY <1>1, TypeParts DEF Object
  <1>4. FlightInv' /\ RestInv'
    BY <1>1 DEF IInv, FlightInv, Planned, Listed, Current, RestInv
  <1> QED  BY <1>2, <1>3, <1>4 DEF IInv

\* After a crash what is there is queued; what is not there has left nothing
\* behind, or the crash has lost the event that would have cleaned up.
LEMMA RestartInv ==
  ASSUME IInv, Restart
  PROVE  IInv'
  <1>1. TypeInv /\ UNCHANGED <<v, phys, edits, errors>> /\ vc' = v /\ pc' = phys /\ fl' = Idle
        /\ dirty' = v.exists /\ restarts < MaxRestart /\ restarts' = restarts + 1
    BY DEF IInv, Restart, Done
  <1>2. misled' = (misled \/ (~v.exists /\ \E n \in Name : phys[n].st = "live"))
    BY DEF Restart
  <1>3. restarts' \in 0..MaxRestart
    BY <1>1, TypeParts, LogConfigAssumption
  <1>4. dirty' \in BOOLEAN /\ misled' \in BOOLEAN
    BY <1>1, <1>2, TypeParts DEF Object
  <1>5. TypeInv'
    BY <1>1, <1>3, <1>4, IdleTyped DEF TypeInv
  <1>6. vc'.rv <= v'.rv
    BY <1>1, TypeParts DEF Object
  <1>7. fl'.why = "idle"
    BY <1>1, IdleTyped
  <1>8. FlightInv'
    BY <1>7 DEF FlightInv, Planned, Listed, Current
  <1>9. ~dirty' /\ ~misled' => LiveOf(phys') = {}
    BY <1>1, <1>2 DEF LiveOf
  <1>10. RestInv'
    BY <1>1, <1>9 DEF RestInv
  <1> QED  BY <1>5, <1>6, <1>8, <1>10 DEF IInv
----------------------------------------------------------------------------
(* Steps of the reconcile.                                                 *)

\* The list of an up-to-date cache has all that is live.
LEMMA RelatedHasLive == pc = phys => LiveOf(phys) \subseteq Related(pc)
  BY DEF LiveOf, Related

\* A reconcile that begins to delete what is listed.
LEMMA Begun ==
  ASSUME IInv, Start, NEW why \in {"notfound", "deletion", "rebuild"}, NEW new \in Plan,
         DeleteRelated(why, new),
         why = "notfound" => ~vc.exists, why = "deletion" => vc.del,
         why = "rebuild" => vc.exists /\ ~vc.del /\ vc.fin /\ new \in Generated(vc.spec)
  PROVE  IInv' /\ v' = v
  <1>1. TypeInv /\ UNCHANGED <<v, vc, phys, pc, bounds>> /\ dirty' = FALSE
    BY DEF IInv, Start
  <1>2. /\ fl' \in Flight /\ fl'.why = why /\ fl'.obj = vc /\ fl'.new = new
        /\ fl'.todo = Related(pc) /\ fl'.list = Related(pc)
        /\ misled' = (pc # phys) /\ misled' \in BOOLEAN
    BY <1>1, RelatedFlight
  <1>3. TypeInv'
    BY <1>1, <1>2 DEF TypeInv, bounds
  <1>4. Planned'
    BY <1>1, <1>2 DEF Planned
  <1>5. Listed'
    BY <1>1, <1>2, RelatedHasLive DEF Listed
  <1>6. Current'
    BY <1>1, <1>2 DEF Current
  <1>7. RestInv'
    BY <1>2 DEF RestInv
  <1>8. vc'.rv <= v'.rv
    BY <1>1 DEF IInv
  <1> QED  BY <1>1, <1>3, <1>4, <1>5, <1>6, <1>7, <1>8 DEF IInv, FlightInv

LEMMA NotFoundInv ==
  ASSUME IInv, HandleVirtualLogConfigNotFound
  PROVE  IInv' /\ v' = v
  <1>1. Start /\ ~vc.exists /\ DeleteRelated("notfound", Idle.new)
    BY DEF HandleVirtualLogConfigNotFound
  <1> QED  BY <1>1, IdleTyped, Begun

LEMMA DeletionInv ==
  ASSUME IInv, HandleVirtualLogConfigDeletion
  PROVE  IInv' /\ v' = v
  <1>1. Start /\ vc.del /\ DeleteRelated("deletion", Idle.new)
    BY DEF HandleVirtualLogConfigDeletion
  <1> QED  BY <1>1, IdleTyped, Begun

\* What compares equal is in the worker cluster, unless the list was out of
\* date or showed what was on its way out.
LEMMA EqualMeansSynced ==
  ASSUME NEW s \in Specs, NEW new \in Generated(s), CompareLogConfigSpecs(phys, new),
         ~ \E n \in Name : phys[n].st = "deleting", phys \in [Name -> Config]
  PROVE  Synced(phys, s)
  <1>1. DOMAIN new \subseteq Name
    BY GeneratedPhysical
  <1>2. \A n \in Name : phys[n].st \in {"none", "live"}
    BY DEF Config, NoConfig
  <1>3. LiveOf(phys) = DOMAIN new
    BY <1>1, <1>2 DEF LiveOf, Related, CompareLogConfigSpecs
  <1>4. Created(phys, new, {})
    BY <1>3 DEF Created, CompareLogConfigSpecs
  <1> QED  BY <1>4 DEF Synced

LEMMA ReconcilePhysicalInv ==
  ASSUME IInv, ReconcilePhysicalLogConfigs
  PROVE  IInv' /\ v' = v
  <1>1. Start /\ vc.exists /\ ~vc.del /\ vc.fin /\ TypeInv
        /\ fl = Idle /\ dirty' = FALSE /\ UNCHANGED <<v, vc, phys, pc, bounds>>
    BY DEF ReconcilePhysicalLogConfigs, Start, IInv
  <1>2. PICK new \in Generated(vc.spec) :
          IF CompareLogConfigSpecs(pc, new)
          THEN /\ fl' = fl
               /\ misled' = (pc # phys \/ \E n \in Name : phys[n].st = "deleting")
          ELSE DeleteRelated("rebuild", new)
    BY DEF ReconcilePhysicalLogConfigs
  <1>3. vc.spec \in Specs
    BY <1>1, TypeParts DEF Object, Sound
  <1>4. CASE ~CompareLogConfigSpecs(pc, new)
    <2>1. new \in Plan
      BY <1>3, GeneratedPhysical
    <2> QED  BY <1>1, <1>2, <1>4, <2>1, Begun
  <1>5. CASE CompareLogConfigSpecs(pc, new)
    <2>1. fl' = Idle /\ misled' = (pc # phys \/ \E n \in Name : phys[n].st = "deleting")
      BY <1>1, <1>2, <1>5
    <2>2. TypeInv'
      BY <1>1, <2>1, IdleTyped DEF TypeInv, bounds
    <2>3. fl'.why = "idle"
      BY <2>1, IdleTyped
    <2>4. FlightInv'
      BY <2>3 DEF FlightInv, Planned, Listed, Current
    <2>5. ~misled' => Synced(phys, vc.spec)
      BY <1>1, <1>3, <1>5, <2>1, EqualMeansSynced, TypeParts
    <2>6. RestInv'
      BY <1>1, <2>5 DEF RestInv
    <2>7. vc'.rv <= v'.rv
      BY <1>1 DEF IInv
    <2> QED  BY <1>1, <2>2, <2>4, <2>6, <2>7 DEF IInv
  <1> QED  BY <1>4, <1>5

\* The finalizer is added, or the update is refused.
LEMMA AddFinalizerInv ==
  ASSUME IInv, AddSyncedResourceFinalizer
  PROVE  IInv' /\ (v.fin => v'.fin)
  <1>1. TypeInv /\ UNCHANGED <<vc, phys, pc, misled, bounds>> /\ fl' = Idle
        /\ vc.exists /\ ~vc.del /\ ~vc.fin
    BY DEF IInv, AddSyncedResourceFinalizer, Done
  <1>2. fl'.why = "idle"
    BY <1>1, IdleTyped
  <1>3. CASE vc = v
    <2>1. v' = [v EXCEPT !.fin = TRUE, !.rv = @ + 1] /\ dirty' = FALSE
      BY <1>3 DEF AddSyncedResourceFinalizer
    <2>2. v' \in Object /\ Sound(v') /\ v'.rv = v.rv + 1 /\ v'.fin
      BY <1>1, <1>3, <2>1, TypeParts, ObjectSteps, Zenon
    <2>3. TypeInv'
      BY <1>1, <2>1, <2>2, IdleTyped DEF TypeInv, bounds
    <2>4. vc'.rv < v'.rv /\ vc'.rv <= v'.rv
      BY <1>1, <1>3, <2>2, TypeParts DEF Object
    <2>5. FlightInv'
      BY <1>2 DEF FlightInv, Planned, Listed, Current
    <2>6. RestInv'
      BY <1>1, <2>4 DEF RestInv
    <2> QED  BY <2>2, <2>3, <2>4, <2>5, <2>6 DEF IInv
  <1>4. CASE vc # v
    <2>1. v' = v /\ dirty' = TRUE
      BY <1>4 DEF AddSyncedResourceFinalizer
    <2>2. TypeInv'
      BY <1>1, <2>1, IdleTyped DEF TypeInv, bounds
    <2>3. vc'.rv <= v'.rv
      BY <1>1, <2>1 DEF IInv
    <2> QED  BY <1>1, <2>1, <2>2, <2>3, Requeued
  <1> QED  BY <1>3, <1>4
\* A configuration that is deleted is not live, and not on the list any more.
LEMMA DeleteOneInv ==
  ASSUME IInv, NEW n \in Name, DeleteOne(n)
  PROVE  IInv' /\ v' = v
  <1>1. TypeInv /\ UNCHANGED <<v, vc, pc, dirty, misled, bounds>> /\ n \in fl.todo
    BY DEF IInv, DeleteOne
  <1>2. fl' = [fl EXCEPT !.todo = @ \ {n}]
    BY DEF DeleteOne
  <1>3. phys' = [phys EXCEPT ![n] =
                   IF @.st = "none" THEN NoConfig ELSE [@ EXCEPT !.st = "deleting"]]
    BY DEF DeleteOne
  <1>4. phys \in [Name -> Config] /\ fl \in Flight
    BY <1>1, TypeParts
  <1>5. phys' \in [Name -> Config] /\ LiveOf(phys') \subseteq LiveOf(phys) \ {n}
    BY <1>3, <1>4, DeleteConfig, Zenon
  <1>6. /\ fl' \in Flight /\ fl'.why = fl.why /\ fl'.obj = fl.obj /\ fl'.list = fl.list
        /\ fl'.new = fl.new /\ fl'.todo = fl.todo \ {n}
    BY <1>2, <1>4 DEF Flight
  <1>7. fl.why # "idle" /\ fl.why # "create"
    BY <1>1, TypeParts, IdleTyped DEF IInv, FlightInv, Current
  <1>8. TypeInv'
    BY <1>1, <1>5, <1>6, <1>7 DEF TypeInv, bounds
  <1>9. Planned'
    BY <1>6, <1>7 DEF IInv, FlightInv, Planned
  <1>10. Listed'
    BY <1>1, <1>5, <1>6 DEF IInv, FlightInv, Listed
  <1>11. Current'
    BY <1>1, <1>6, <1>7 DEF IInv, FlightInv, Current
  <1>12. RestInv'
    BY <1>6, <1>7 DEF RestInv
  <1>13. vc'.rv <= v'.rv
    BY <1>1 DEF IInv
  <1> QED  BY <1>1, <1>8, <1>9, <1>10, <1>11, <1>12, <1>13 DEF IInv, FlightInv

\* The reconcile of a configuration that is gone has left none.
LEMMA CleanedUpInv ==
  ASSUME IInv, CleanedUp
  PROVE  IInv' /\ v' = v
  <1>1. TypeInv /\ UNCHANGED <<v, vc, phys, pc, dirty, misled, bounds>> /\ fl' = Idle
        /\ fl.why = "notfound" /\ fl.todo = {}
    BY DEF IInv, CleanedUp, Done
  <1>2. TypeInv'
    BY <1>1, IdleTyped DEF TypeInv, bounds
  <1>3. fl'.why = "idle"
    BY <1>1, IdleTyped
  <1>4. FlightInv'
    BY <1>3 DEF FlightInv, Planned, Listed, Current
  <1>5. ~dirty => ~vc.exists
    BY <1>1 DEF IInv, FlightInv, Current
  <1>6. ~misled => LiveOf(phys) = {}
    BY <1>1 DEF IInv, FlightInv, Listed
  <1>7. RestInv'
    BY <1>1, <1>5, <1>6 DEF RestInv
  <1>8. vc'.rv <= v'.rv
    BY <1>1 DEF IInv
  <1> QED  BY <1>1, <1>2, <1>4, <1>7, <1>8 DEF IInv

\* The finalizer is taken off when nothing is left, or the update is refused.
LEMMA RemoveFinalizerInv ==
  ASSUME IInv, RemoveSyncedResourceFinalizer
  PROVE  IInv' /\ (LiveOf(phys) = {} \/ misled)
  <1>1. TypeInv /\ UNCHANGED <<vc, phys, pc, misled, bounds>>
        /\ fl.why = "deletion" /\ fl.todo = {}
        /\ Update(fl.obj, [Absent EXCEPT !.rv = v.rv + 1])
    BY DEF IInv, RemoveSyncedResourceFinalizer
  <1>2. fl' = Idle
    BY <1>1 DEF Update, Requeue, Done
  <1>3. LiveOf(phys) = {} \/ misled
    BY <1>1 DEF IInv, FlightInv, Listed
  <1>4. CASE fl.obj = v
    <2>1. v' = [Absent EXCEPT !.rv = v.rv + 1] /\ dirty' = dirty
      BY <1>1, <1>4 DEF Update
    <2>2. v \in Object /\ Sound(v) /\ vc \in Object /\ vc.rv <= v.rv
      BY <1>1, TypeParts DEF IInv
    <2>3. v' \in Object /\ Sound(v') /\ v'.rv = v.rv + 1
      BY <2>1, <2>2, ObjectSteps, Zenon
    <2>4. TypeInv'
      BY <1>1, <1>2, <2>1, <2>3, IdleTyped DEF TypeInv, bounds
    <2>5. fl'.why = "idle"
      BY <1>2, IdleTyped
    <2>6. FlightInv'
      BY <2>5 DEF FlightInv, Planned, Listed, Current
    <2>7. ~dirty => vc.del
      BY <1>1 DEF IInv, FlightInv, Current
    <2>8. vc.del => vc.exists
      BY <1>1, TypeParts DEF Sound
    <2>9. RestInv'
      BY <1>1, <2>1, <2>7, <2>8 DEF RestInv
    <2>10. vc'.rv <= v'.rv
      BY <1>1, <2>2, <2>3 DEF Object
    <2> QED  BY <1>3, <2>4, <2>6, <2>9, <2>10 DEF IInv
  <1>5. CASE fl.obj # v
    <2>1. v' = v /\ dirty' = TRUE
      BY <1>1, <1>5 DEF Update, Requeue
    <2>2. TypeInv'
      BY <1>1, <1>2, <2>1, IdleTyped DEF TypeInv, bounds
    <2>3. vc'.rv <= v'.rv
      BY <1>1, <2>1 DEF IInv
    <2> QED  BY <1>2, <1>3, <2>1, <2>2, <2>3, Requeued
  <1> QED  BY <1>4, <1>5

\* When all are seen to be gone the creation begins.
LEMMA WaitInv ==
  ASSUME IInv, WaitForLogConfigDeletion
  PROVE  IInv' /\ v' = v
  <1>1. TypeInv /\ UNCHANGED <<v, vc, phys, pc, dirty, misled, bounds>>
        /\ fl.why = "rebuild" /\ fl.todo = {} /\ fl' = [fl EXCEPT !.why = "create"]
    BY DEF IInv, WaitForLogConfigDeletion
  <1>2. fl \in Flight
    BY <1>1, TypeParts
  <1>3. /\ fl' \in Flight /\ fl'.why = "create" /\ fl'.obj = fl.obj /\ fl'.list = fl.list
        /\ fl'.new = fl.new /\ fl'.todo = fl.todo
    BY <1>1, <1>2 DEF Flight
  <1>4. TypeInv'
    BY <1>1, <1>3 DEF TypeInv, bounds
  <1>5. fl.new \in Generated(fl.obj.spec) /\ (~misled => LiveOf(phys) = {})
    BY <1>1 DEF IInv, FlightInv, Planned, Listed
  <1>6. ~misled => Created(phys, fl.new, DOMAIN fl.new)
    BY <1>5 DEF Created
  <1>7. Planned'
    BY <1>1, <1>3, <1>5, <1>6 DEF Planned
  <1>8. Listed' /\ RestInv'
    BY <1>3 DEF Listed, RestInv
  <1>9. Current'
    BY <1>1, <1>3 DEF IInv, FlightInv, Current
  <1>10. vc'.rv <= v'.rv
    BY <1>1 DEF IInv
  <1> QED  BY <1>1, <1>4, <1>7, <1>8, <1>9, <1>10 DEF IInv, FlightInv

LEMMA WaitTimeoutInv ==
  ASSUME IInv, WaitTimeout
  PROVE  IInv' /\ v' = v
  <1>1. TypeInv /\ UNCHANGED <<v, vc, phys, pc, misled, bounds>> /\ fl' = Idle /\ dirty' = TRUE
    BY DEF IInv, WaitTimeout, Requeue, Done
  <1>2. TypeInv'
    BY <1>1, IdleTyped DEF TypeInv, bounds
  <1>3. vc'.rv <= v'.rv
    BY <1>1 DEF IInv
  <1> QED  BY <1>1, <1>2, <1>3, Requeued

LEMMA FailInv ==
  ASSUME IInv, Fail
  PROVE  IInv' /\ v' = v
  <1>1. TypeInv /\ UNCHANGED <<v, vc, phys, pc, misled, edits, restarts>> /\ fl' = Idle
        /\ dirty' = TRUE /\ errors < MaxError /\ errors' = errors + 1
    BY DEF IInv, Fail, Requeue, Done
  <1>2. errors' \in 0..MaxError
    BY <1>1, TypeParts, LogConfigAssumption
  <1>3. TypeInv'
    BY <1>1, <1>2, IdleTyped DEF TypeInv
  <1>4. vc'.rv <= v'.rv
    BY <1>1 DEF IInv
  <1> QED  BY <1>1, <1>3, <1>4, Requeued
\* The rest of a plan is a plan.
LEMMA RestOfPlan ==
  ASSUME NEW new \in Plan, NEW n
  PROVE  LET rest == [m \in DOMAIN new \ {n} |-> new[m]]
         IN  /\ rest \in Plan /\ DOMAIN rest = DOMAIN new \ {n}
             /\ \A m \in DOMAIN rest : rest[m] = new[m]
  <1> DEFINE rest == [m \in DOMAIN new \ {n} |-> new[m]]
  <1>1. PICK D \in SUBSET Name : new \in [D -> Image]
    BY DEF Plan
  <1>2. rest \in [D \ {n} -> Image] /\ D \ {n} \in SUBSET Name
    BY <1>1
  <1>3. rest \in Plan
    BY <1>2 DEF Plan
  <1> QED  BY <1>3

\* One more configuration is there, or the name is taken still.
LEMMA CreateOneInv ==
  ASSUME IInv, CreateOne
  PROVE  IInv' /\ v' = v
  <1>1. TypeInv /\ UNCHANGED <<v, vc, pc, misled, bounds>> /\ fl.why = "create"
    BY DEF IInv, CreateOne
  <1>2. PICK n \in DOMAIN fl.new :
          IF phys[n].st = "none"
          THEN /\ phys' = [phys EXCEPT ![n] = [st |-> "live", spec |-> fl.new[n]]]
               /\ dirty' = dirty
               /\ fl' = IF DOMAIN fl.new = {n} THEN Idle
                        ELSE [fl EXCEPT !.new = [m \in DOMAIN fl.new \ {n} |-> fl.new[m]]]
          ELSE phys' = phys /\ Requeue
    BY DEF CreateOne
  <1>3. phys \in [Name -> Config] /\ fl \in Flight /\ fl.new \in Plan
    BY <1>1, TypeParts
  <1>4. n \in Name /\ fl.new[n] \in Image
    <2>1. PICK D \in SUBSET Name : fl.new \in [D -> Image]
      BY <1>3 DEF Plan
    <2> QED  BY <2>1
  <1>5. vc'.rv <= v'.rv
    BY <1>1 DEF IInv
  <1>6. CASE phys[n].st # "none"
    <2>1. phys' = phys /\ fl' = Idle /\ dirty' = TRUE
      BY <1>2, <1>6 DEF Requeue, Done
    <2>2. TypeInv'
      BY <1>1, <2>1, IdleTyped DEF TypeInv, bounds
    <2> QED  BY <1>1, <1>5, <2>1, <2>2, Requeued
  <1>7. CASE phys[n].st = "none"
    <2> DEFINE rest == [m \in DOMAIN fl.new \ {n} |-> fl.new[m]]
    <2>1. phys' = [phys EXCEPT ![n] = [st |-> "live", spec |-> fl.new[n]]] /\ dirty' = dirty
          /\ fl' = IF DOMAIN fl.new = {n} THEN Idle ELSE [fl EXCEPT !.new = rest]
      BY <1>2, <1>7
    <2>2. /\ phys' \in [Name -> Config] /\ LiveOf(phys') = LiveOf(phys) \union {n}
          /\ phys'[n].spec = fl.new[n] /\ \A m \in Name \ {n} : phys'[m] = phys[m]
      <3> DEFINE Q == [phys EXCEPT ![n] = [st |-> "live", spec |-> fl.new[n]]]
      <3>1. /\ Q \in [Name -> Config] /\ LiveOf(Q) = LiveOf(phys) \union {n}
            /\ Q[n].spec = fl.new[n] /\ \A m \in Name \ {n} : Q[m] = phys[m]
        BY <1>3, <1>4, CreateConfig
      <3>2. phys' = Q
        BY <2>1
      <3> HIDE DEF Q
      <3> QED  BY <3>1, <3>2
    <2>3. rest \in Plan /\ DOMAIN rest = DOMAIN fl.new \ {n}
          /\ \A m \in DOMAIN rest : rest[m] = fl.new[m]
      BY <1>3, RestOfPlan
    <2> HIDE DEF rest
    <2>4. ASSUME NEW g, Created(phys, g, DOMAIN fl.new), \A m \in DOMAIN fl.new : fl.new[m] = g[m]
          PROVE  Created(phys', g, DOMAIN fl.new \ {n})
      <3>1. LiveOf(phys) \subseteq Name
        BY DEF LiveOf
      <3> QED  BY <2>2, <2>4, <3>1 DEF Created
    <2>5. CASE DOMAIN fl.new = {n}
      <3>1. fl' = Idle
        BY <2>1, <2>5
      <3>2. TypeInv'
        BY <1>1, <2>1, <2>2, <3>1, IdleTyped DEF TypeInv, bounds
      <3>3. fl'.why = "idle"
        BY <3>1, IdleTyped
      <3>4. FlightInv'
        BY <3>3 DEF FlightInv, Planned, Listed, Current
      <3>5. ~misled => Synced(phys', fl.obj.spec)
        <4>1. SUFFICES ASSUME ~misled PROVE Synced(phys', fl.obj.spec)
          OBVIOUS
        <4>2. PICK g \in Generated(fl.obj.spec) :
                Created(phys, g, DOMAIN fl.new) /\ \A m \in DOMAIN fl.new : fl.new[m] = g[m]
          BY <1>1, <4>1 DEF IInv, FlightInv, Planned
        <4>3. Created(phys', g, {})
          BY <2>4, <2>5, <4>2
        <4> QED  BY <4>3 DEF Synced
      <3>6. ~dirty => fl.obj = vc /\ vc.exists /\ vc.fin
        BY <1>1 DEF IInv, FlightInv, Current
      <3>7. RestInv'
        BY <1>1, <2>1, <3>5, <3>6 DEF RestInv
      <3> QED  BY <1>1, <1>5, <3>2, <3>4, <3>7 DEF IInv
    <2>6. CASE DOMAIN fl.new # {n}
      <3>1. fl' = [fl EXCEPT !.new = rest]
        BY <2>1, <2>6
      <3>2. /\ fl' \in Flight /\ fl'.why = "create" /\ fl'.obj = fl.obj /\ fl'.list = fl.list
            /\ fl'.new = rest /\ fl'.todo = fl.todo
        BY <1>1, <1>3, <2>3, <3>1 DEF Flight
      <3>3. TypeInv'
        BY <1>1, <2>1, <2>2, <3>2 DEF TypeInv, bounds
      <3>4. Planned'
        <4>1. SUFFICES ASSUME ~misled
                       PROVE  \E g \in Generated(fl.obj.spec) :
                                /\ Created(phys', g, DOMAIN rest)
                                /\ \A m \in DOMAIN rest : rest[m] = g[m]
          BY <1>1, <3>2 DEF Planned
        <4>2. PICK g \in Generated(fl.obj.spec) :
                Created(phys, g, DOMAIN fl.new) /\ \A m \in DOMAIN fl.new : fl.new[m] = g[m]
          BY <1>1, <4>1 DEF IInv, FlightInv, Planned
        <4>3. Created(phys', g, DOMAIN rest)
          BY <2>3, <2>4, <4>2
        <4> QED  BY <2>3, <4>2, <4>3
      <3>5. Listed' /\ RestInv'
        BY <3>2 DEF Listed, RestInv
      <3>6. Current'
        BY <1>1, <2>1, <3>2 DEF IInv, FlightInv, Current
      <3> QED  BY <1>1, <1>5, <3>3, <3>4, <3>5, <3>6 DEF IInv, FlightInv
    <2> QED  BY <2>5, <2>6
  <1> QED  BY <1>6, <1>7

----------------------------------------------------------------------------
(* The theorems.                                                           *)

LEMMA InitInv == Init => IInv
  <1> SUFFICES ASSUME Init PROVE IInv
    OBVIOUS
  <1>1. TypeInv
    BY InitTypes
  <1>2. v = Absent /\ vc = Absent /\ fl = Idle /\ phys = [n \in Name |-> NoConfig]
    BY DEF Init
  <1>3. fl.why = "idle" /\ ~vc.exists /\ vc.rv <= v.rv
    BY <1>2, IdleTyped
  <1>4. LiveOf(phys) = {}
    BY <1>2 DEF LiveOf, NoConfig
  <1> QED  BY <1>1, <1>3, <1>4 DEF IInv, FlightInv, Planned, Listed, Current, RestInv

\* A step keeps the invariant; the finalizer goes only when nothing is left.
LEMMA NextInv ==
  ASSUME IInv, [Next]_vars
  PROVE  IInv' /\ (v.fin /\ ~v'.fin => LiveOf(phys) = {} \/ misled)
  <1>1. CASE HandleVirtualLogConfigNotFound
    BY <1>1, NotFoundInv
  <1>2. CASE HandleVirtualLogConfigDeletion
    BY <1>2, DeletionInv
  <1>3. CASE AddSyncedResourceFinalizer
    BY <1>3, AddFinalizerInv
  <1>4. CASE ReconcilePhysicalLogConfigs
    BY <1>4, ReconcilePhysicalInv
  <1>5. ASSUME NEW n \in Name, DeleteOne(n)
        PROVE  IInv' /\ (v.fin /\ ~v'.fin => LiveOf(phys) = {} \/ misled)
    BY <1>5, DeleteOneInv
  <1>6. CASE CleanedUp
    BY <1>6, CleanedUpInv
  <1>7. CASE RemoveSyncedResourceFinalizer
    BY <1>7, RemoveFinalizerInv
  <1>8. CASE WaitForLogConfigDeletion
    BY <1>8, WaitInv
  <1>9. CASE WaitTimeout
    BY <1>9, WaitTimeoutInv
  <1>10. CASE CreateOne
    BY <1>10, CreateOneInv
  <1>11. CASE Fail
    BY <1>11, FailInv
  <1>12. CASE Restart
    <2>1. v' = v
      BY <1>12 DEF Restart
    <2> QED  BY <1>12, <2>1, RestartInv
  <1>13. CASE UserDelete
    BY <1>13, UserDeleteInv
  <1>14. ASSUME NEW s \in Specs, UserWrite(s)
         PROVE  IInv' /\ (v.fin /\ ~v'.fin => LiveOf(phys) = {} \/ misled)
    BY <1>14, UserWriteInv
  <1>15. CASE DeliverVirtual
    <2>1. v' = v
      BY <1>15 DEF DeliverVirtual
    <2> QED  BY <1>15, <2>1, DeliverVirtualInv
  <1>16. CASE DeliverPhysical
    <2>1. v' = v
      BY <1>16 DEF DeliverPhysical
    <2> QED  BY <1>16, <2>1, DeliverPhysicalInv
  <1>17. ASSUME NEW n \in Name, PhysGone(n)
         PROVE  IInv' /\ (v.fin /\ ~v'.fin => LiveOf(phys) = {} \/ misled)
    <2>1. v' = v
      BY <1>17 DEF PhysGone
    <2> QED  BY <1>17, <2>1, PhysGoneInv
  <1>18. CASE UNCHANGED vars
    <2>1. v' = v
      BY <1>18 DEF vars
    <2> QED  BY <1>18, <2>1, StutterInv
  <1> QED
    BY <1>1, <1>2, <1>3, <1>4, <1>5, <1>6, <1>7, <1>8, <1>9, <1>10, <1>11, <1>12, <1>13,
       <1>14, <1>15, <1>16, <1>17, <1>18, Zenon DEF Next, Reconcile

LEMMA Invariance == Spec => []IInv
  BY InitInv, NextInv, PTL DEF Spec

\* The variables stay in their sets, and what the controller creates in the
\* worker cluster names no workload, which copies do not have
\* (transformLogConfigSpec, transformSingleWorkloadGroup).
THEOREM LogConfigTypeCorrect == Spec => []TypeOK
  <1>1. IInv => TypeOK
    <2> SUFFICES ASSUME IInv PROVE TypeOK
      OBVIOUS
    <2>1. TypeInv
      BY DEF IInv
    <2>2. \A o \in {v, vc, fl.obj} : o \in Object /\ Sound(o)
      BY <2>1, TypeParts
    <2>3. \A o \in {v, vc, fl.obj} :
            /\ o.exists \in BOOLEAN /\ o.del \in BOOLEAN /\ o.fin \in BOOLEAN /\ o.rv \in Nat
            /\ o.spec \in Specs \union {None}
      BY <2>2 DEF Object
    <2>4. \A o \in {v, vc, fl.obj} :
            (o.exists <=> o.spec # None) /\ (o.del => o.fin) /\ (o.fin => o.exists)
      BY <2>2, Zenon DEF Sound
    <2>5. \A c \in Config : c = NoConfig \/ (c.st \in {"live", "deleting"} /\ PhysicalSpec(c.spec))
      BY ImagePhysical DEF Config
    <2>6. \A n \in Name : phys[n] \in Config /\ pc[n] \in Config
      BY <2>1, TypeParts
    <2>7. DOMAIN fl.new \subseteq Name
      <3>1. fl.new \in Plan
        BY <2>1, TypeParts
      <3>2. PICK D \in SUBSET Name : fl.new \in [D -> Image]
        BY <3>1 DEF Plan
      <3> QED  BY <3>2
    <2>8. /\ dirty \in BOOLEAN /\ misled \in BOOLEAN
          /\ fl.why \in {"idle", "notfound", "deletion", "rebuild", "create"}
          /\ fl.list \subseteq Name /\ fl.todo \subseteq fl.list
          /\ edits \in 0..MaxEdit /\ errors \in 0..MaxError /\ restarts \in 0..MaxRestart
      BY <2>1, TypeParts
    <2>9. \A n \in Name : \A c \in {phys[n], pc[n]} :
            \/ c = NoConfig
            \/ c.st \in {"live", "deleting"} /\ PhysicalSpec(c.spec)
      BY <2>5, <2>6
    <2>10. \A o \in {v, vc, fl.obj} :
       /\ o.exists \in BOOLEAN /\ o.del \in BOOLEAN /\ o.fin \in BOOLEAN /\ o.rv \in Nat
       /\ o.spec \in Specs \union {None}
       /\ (o.exists <=> o.spec # None) /\ (o.del => o.fin) /\ (o.fin => o.exists)
      BY <2>3, <2>4, Zenon
    <2> QED  BY <2>7, <2>8, <2>9, <2>10, Zenon DEF TypeOK
  <1> QED  BY <1>1, Invariance, PTL

\* The virtual configuration is let go last, unless a list was out of date: the
\* deletions of handleVirtualLogConfigDeletion come before its finalizer.
THEOREM ReleasedAfterCleanup == Spec => ReleasedLast
  <1>1. IInv /\ [Next]_vars => [v.fin /\ ~v'.fin => Live = {} \/ misled]_vars
    <2>1. Live = LiveOf(phys)
      BY DEF Live, LiveOf
    <2> QED  BY <2>1, NextInv
  <1> QED  BY <1>1, Invariance, PTL DEF Spec, ReleasedLast

\* What the worker cluster has when nothing is under way: nothing for a
\* configuration that is gone, and what Reconcile generates for one that is
\* there, whatever users, caches, failures and crashes did before.
Settled ==
  AtRest /\ ~misled /\ ~v.del => /\ ~v.exists => Live = {}
                                 /\ v.exists => InSync

LEMMA RestSettled == IInv => Settled
  <1> SUFFICES ASSUME IInv, AtRest, ~misled, ~v.del
               PROVE  (~v.exists => Live = {}) /\ (v.exists => InSync)
    BY DEF Settled
  <1>1. fl = Idle /\ ~dirty /\ vc = v
    BY DEF AtRest
  <1>2. fl.why = "idle"
    BY <1>1, IdleTyped
  <1>3. Live = LiveOf(phys)
    BY DEF Live, LiveOf
  <1>4. v.rv \in Nat
    BY DEF IInv, TypeInv, Object
  <1>5. ~v.exists => Live = {}
    BY <1>1, <1>2, <1>3 DEF IInv, RestInv
  <1>6. v.exists => v.fin
    BY <1>1, <1>2, <1>4 DEF IInv, RestInv
  <1>7. v.exists => Synced(phys, v.spec)
    BY <1>1, <1>2, <1>6 DEF IInv, RestInv
  <1>8. Synced(phys, v.spec) => InSync
    BY <1>3 DEF Synced, Created, InSync
  <1> QED  BY <1>5, <1>7, <1>8

\* Once nothing is under way the worker cluster has exactly what the controller
\* generates, but for a list that was out of date or showed what was going
\* (reconcilePhysicalLogConfigs, atomicRebuildPhysicalLogConfigs).
THEOREM SettledInSync == Spec => []Settled
  BY Invariance, RestSettled, PTL

\* The configurations of the worker cluster select the copy of a pod exactly
\* once if the virtual one selects the pod, and no other pods of the cluster,
\* for all specs that the rules of transformLogConfigSpec can express.
THEOREM SelectionKept == ASSUME Usable PROVE Spec => []SelectsSame
  <1>1. IInv => SelectsSame
    <2> SUFFICES ASSUME IInv, AtRest, ~misled, ~v.del
                 PROVE  /\ ~v.exists => Live = {}
                        /\ v.exists =>
                             /\ \A p \in Pods :
                                  Cardinality({n \in Live : Agent(phys[n].spec, CopyOf(p))})
                                    = IF Agent(v.spec, p) THEN 1 ELSE 0
                             /\ Scoped(v.spec) =>
                                  \A p \in HostPods, n \in Live : ~Agent(phys[n].spec, p)
      BY DEF SelectsSame
    <2>1. (~v.exists => Live = {}) /\ (v.exists => InSync)
      BY RestSettled DEF Settled
    <2>2. ASSUME v.exists
          PROVE  /\ \A p \in Pods :
                      Cardinality({n \in Live : Agent(phys[n].spec, CopyOf(p))})
                        = IF Agent(v.spec, p) THEN 1 ELSE 0
                 /\ Scoped(v.spec) =>
                      \A p \in HostPods, n \in Live : ~Agent(phys[n].spec, p)
      <3>1. v.spec \in Specs
        BY <2>2 DEF IInv, TypeInv, Object, Sound
      <3>2. PICK g \in Generated(v.spec) : Live = DOMAIN g /\ \A n \in DOMAIN g : phys[n].spec = g[n]
        BY <2>1, <2>2 DEF InSync
      <3>3. ASSUME NEW p \in Pods
            PROVE  Cardinality({n \in Live : Agent(phys[n].spec, CopyOf(p))})
                     = IF Agent(v.spec, p) THEN 1 ELSE 0
        <4>1. {n \in Live : Agent(phys[n].spec, CopyOf(p))}
                = {n \in DOMAIN g : Agent(g[n], CopyOf(p))}
          BY <3>2
        <4> QED  BY <3>1, <4>1, OneCollectorEach
      <3>4. Scoped(v.spec) => \A p \in HostPods, n \in Live : ~Agent(phys[n].spec, p)
        BY <3>1, <3>2, StaysInside
      <3> QED  BY <3>3, <3>4
    <2> QED  BY <2>1, <2>2
  <1> QED  BY <1>1, Invariance, PTL
=============================================================================
