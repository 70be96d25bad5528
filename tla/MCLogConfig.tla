----------------------------- MODULE MCLogConfig -----------------------------
(* Model checking of LogConfig: pods of two namespaces, specs of every kind.  *)
EXTENDS LogConfig

Any == [type |-> "container_stdout", ns |-> None, exns |-> None, incl |-> {}, excl |-> {},
        workloads |-> {}, workload |-> None]

Work(ns, kind, name) == [ns |-> ns, kind |-> kind, name |-> name]

Grouped ==
  [Any EXCEPT !.workloads = {Work("shop", "Deployment", "web"), Work("default", "Job", "web")}]

MCSpecs ==
  {Any,
   [Any EXCEPT !.ns = "shop", !.incl = {<<"app", {"web"}>>}],
   [Any EXCEPT !.exns = "shop", !.type = "container_file"],
   [Any EXCEPT !.type = "container_file", !.workload = [kind |-> "Deployment", name |-> "web"]],
   [Any EXCEPT !.workloads = {Work("shop", "Deployment", "web"), Work("shop", "Deployment", "db")}],
   Grouped}

APod(ns, kind, name, app) ==
  [ns |-> ns, kind |-> kind, name |-> name, labels |-> {<<"app", app>>}]

MCPods ==
  {APod("shop", "Deployment", "web", "web"), APod("shop", "Deployment", "db", "db"),
   APod("default", "Job", "web", "web"), APod("default", "Deployment", "web", "web"),
   APod("default", None, None, "web")}

Images == UNION {{new[n] : n \in DOMAIN new} : new \in Generated(Any) \union Generated(Grouped)}

\* Bound: one error or one crash, and then only two specs: of one configuration
\* and of two groups of workloads.
OneTrouble ==
  /\ errors + restarts <= 1
  /\ errors + restarts = 1 =>
       /\ {v.spec, vc.spec} \subseteq {None, Any, Grouped}
       /\ \A n \in Name : {phys[n].spec, pc[n].spec} \subseteq {None} \union Images

MCHostPods == {APod("shop", "Deployment", "web", "web"), APod("kube-system", None, None, "dns")}
=============================================================================
