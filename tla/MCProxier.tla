----------------------------- MODULE MCProxier -----------------------------
EXTENDS Proxier, TLC

CONSTANTS a, b, p1, p2, ia, ib, ic

\* Node a may have either port and, on p1, another address; node b only ever
\* gets the port that a gives back.
MCInfos == (a :> {[ip |-> ia, port |-> p1], [ip |-> ia, port |-> p2],
                  [ip |-> ic, port |-> p1]})
           @@ (b :> {[ip |-> ib, port |-> p1]})

\* The timer's first round comes a minute after the start; while main starts
\* the services at most one node changes; a kubelet fails, or a round follows a
\* lost race, only in a run with at most one change; a is the node whose port is
\* given back, for b, while it is still listed.
OneTrouble ==
    /\ ending \subseteq {a} /\ (ending # {} => failures = 0 /\ api[a].port = p1)
    /\ boot.at # "done" => round = {} /\ changes <= 1
    /\ failures > 0 => changes <= 1
    /\ raced # {} /\ changes > 1 => round = {}
=============================================================================
