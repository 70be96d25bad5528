------------------------------ MODULE Proxier ------------------------------
(***************************************************************************)
(* The kubelet proxier (pkg/proxier): what it keeps for the virtual nodes   *)
(* of its cluster binding, and the servers and caches that follow them.     *)
(*                                                                         *)
(* Four kinds of threads share this state.  Up to ten reconciles, one per   *)
(* node at a time, take the node controller's lock for CurrentNodes only    *)
(* and go on to the port mapper and the agent without it; each OnNodeAdded  *)
(* or change of port leaves the start of an HTTP server to a goroutine; the *)
(* timer's collection round works on a snapshot of the nodes; and main      *)
(* fills everything again from a list while the controllers already run.    *)
(* Servers and caches are kept by port, and a port is used again.           *)
(***************************************************************************)
EXTENDS Naturals, FiniteSets

CONSTANTS
    Node,           \* virtual nodes
    Port,           \* proxier ports
    IP,             \* addresses of physical nodes
    Infos,          \* Infos[n]: the node infos n may have
    None,           \* an absent object or entry
    MaxChange,      \* bound: changes to the virtual nodes
    MaxFailure      \* bound: failed or partial answers of a kubelet

Info == [ip : IP, port : Port]

\* An entry of httpServers: a server made for a node, which may fail to listen.
Server == [node : Node, at : {"starting", "up", "dead"}]

ASSUME ProxierAssumption ==
    /\ Infos \in [Node -> SUBSET Info]
    /\ None \notin Info /\ None \notin Server
    /\ None \notin Port /\ None \notin IP
    /\ MaxChange \in Nat /\ MaxFailure \in Nat

VARIABLES
    api,            \* api[n]: n in the informer's cache, or None
    ending,         \* nodes being deleted, whose ports are free again
    queued,         \* nodes in the controller's work queue
    work,           \* work[n]: the reconcile of n under way
    current,        \* NodeController.CurrentNodes
    mapper,         \* VNodePortMapper
    states,         \* VNodeProxierAgent.nodeStates
    starts,         \* goroutines about to start a server: [node, port]
    server,         \* httpServers[p]
    closing,        \* ports still held by a server told to stop
    round,          \* snapshot entries the collection round has still to write
    metrics,        \* metricsCache[p]: the address the data came from
    summary,        \* summaryCache[p]
    boot,           \* where startServices is, and the nodes it took
    raced,          \* history: nodes that met one of the races named below
    swept,          \* history: how far a round got since nodeStates last changed
    changes, failures

vars == <<api, ending, queued, work, current, mapper, states, starts, server, closing,
          round, metrics, summary, boot, raced, swept, changes, failures>>

Maybe(S) == S \cup {None}

Idle == [at |-> "idle", new |-> None, old |-> None]

Places == {"idle", "lock", "mapper", "agent"}

Stages == {"list", "sync", "init", "serve", "copy", "again", "serveagain", "done"}

-----------------------------------------------------------------------------
PortOf(info) == IF info = None THEN None ELSE info.port

\* The lock of the node controller is main's from the write of CurrentNodes to
\* the end of SyncExistingNodes, the agent's first initialisation included.
Locked == boot.at \in {"init", "serve"}

\* Between main's copy of the nodes and its use, a reconcile may change what
\* was copied.
Copied == boot.at \in {"sync", "again"}

\* Reconcile (its read): the node as the cache has it, None when it is gone.
\* The cache and the event filter let only this binding's nodes through.
Reconcile(n) ==
    /\ n \in queued
    /\ work[n].at = "idle"
    /\ queued' = queued \ {n}
    /\ work' = [work EXCEPT ![n] = [at |-> "lock", new |-> api[n], old |-> None]]
    /\ UNCHANGED <<api, ending, current, mapper, states, starts, server, closing, round,
                   metrics, summary, boot, raced, swept, changes, failures>>

\* handleNodeUpdate and handleNodeDelete, the part under the lock.
RecordNode(n) ==
    LET old == current[n]
        new == work[n].new IN
    /\ work[n].at = "lock"
    /\ ~Locked
    /\ current' = [current EXCEPT ![n] = new]
    /\ work' = [work EXCEPT ![n] =
                  IF old = new THEN Idle
                  ELSE [at |-> "mapper", new |-> new, old |-> old]]
    /\ raced' = IF Copied THEN raced \cup {n} ELSE raced
    /\ UNCHANGED <<api, ending, queued, mapper, states, starts, server, closing, round,
                   metrics, summary, boot, swept, changes, failures>>

\* AddVNodePort or RemoveVNodePort, under the mapper's own lock.
MapPort(n) ==
    /\ work[n].at = "mapper"
    /\ mapper' = [mapper EXCEPT ![n] = PortOf(work[n].new)]
    /\ work' = [work EXCEPT ![n] = [@ EXCEPT !.at = "agent"]]
    /\ UNCHANGED <<api, ending, queued, current, states, starts, server, closing, round,
                   metrics, summary, boot, raced, swept, changes, failures>>

-----------------------------------------------------------------------------
\* What OnNodeUpdated and OnNodeDeleted do to the port a node leaves: the
\* server there is told to stop and taken out of the map, whoever's it is, and
\* the metrics go; the summary stays.  A server that has not listened yet may
\* still take the port before it learns of its end.
StopServer(n, p) ==
    /\ server' = [server EXCEPT ![p] = None]
    /\ closing' \in CASE server[p] = None -> {closing}
                      [] server[p] # None /\ server[p].at = "up" -> {closing \cup {p}}
                      [] server[p] # None /\ server[p].at = "starting" ->
                            {closing, closing \cup {p}}
                      [] OTHER -> {closing}
    /\ metrics' = [metrics EXCEPT ![p] = None]
    /\ raced' = IF server[p] # None /\ server[p].node # n
                THEN raced \cup {server[p].node} ELSE raced

\* Mutant: the server of the port that is left keeps running.
OnNodeUpdatedKeepsServer(n, old, new) ==
    /\ states' = [states EXCEPT ![n] = new]
    /\ starts' = starts \cup {[node |-> n, port |-> new.port]}
    /\ metrics' = [metrics EXCEPT ![old.port] = None]
    /\ UNCHANGED <<server, closing, raced>>

OnNodeUpdated(n, old, new) ==
    /\ states' = [states EXCEPT ![n] = new]
    /\ \/ /\ old.port = new.port
          /\ UNCHANGED <<starts, server, closing, metrics, raced>>
       \/ /\ old.port # new.port
          /\ StopServer(n, old.port)
          /\ starts' = starts \cup {[node |-> n, port |-> new.port]}

OnNodeAdded(n, new) ==
    /\ states' = [states EXCEPT ![n] = new]
    /\ starts' = starts \cup {[node |-> n, port |-> new.port]}
    /\ UNCHANGED <<server, closing, metrics, raced>>

OnNodeDeleted(n, old) ==
    /\ states' = [states EXCEPT ![n] = None]
    /\ StopServer(n, old.port)
    /\ UNCHANGED starts

\* The last part of a reconcile, under the agent's lock.
TellAgent(n) ==
    LET old == work[n].old
        new == work[n].new IN
    /\ work[n].at = "agent"
    /\ work' = [work EXCEPT ![n] = Idle]
    /\ \/ old = None /\ OnNodeAdded(n, new)
       \/ old # None /\ new # None /\ OnNodeUpdated(n, old, new)
       \/ new = None /\ OnNodeDeleted(n, old)
    /\ swept' = "no"
    /\ UNCHANGED <<api, ending, queued, current, mapper, round, summary, boot, changes,
                   failures>>

-----------------------------------------------------------------------------
\* A server for n on p as startHTTPServerForNode leaves the map, and the races
\* it can lose: the port is taken by another node's server, or n has left the
\* port since the start was asked for.
StartHTTPServerForNode(n, p) ==
    /\ server' = [server EXCEPT ![p] = IF @ = None THEN [node |-> n, at |-> "starting"]
                                       ELSE @]
    /\ raced' = IF \/ server[p] # None /\ server[p].node # n
                   \/ PortOf(states[n]) # p
                THEN raced \cup {n} ELSE raced

\* The goroutine of OnNodeAdded and OnNodeUpdated gets the agent's lock.
Start(s) ==
    /\ s \in starts
    /\ starts' = starts \ {s}
    /\ StartHTTPServerForNode(s.node, s.port)
    /\ UNCHANGED <<api, ending, queued, work, current, mapper, states, closing, round,
                   metrics, summary, boot, swept, changes, failures>>

\* The server's own goroutine listens; a port that is still held is an error,
\* which is logged, and the entry stays in the map.
Listen(p) ==
    /\ server[p] # None
    /\ server[p].at = "starting"
    /\ server' = [server EXCEPT ![p] = [@ EXCEPT !.at = IF p \in closing THEN "dead" ELSE "up"]]
    /\ raced' = IF p \in closing THEN raced \cup {server[p].node} ELSE raced
    /\ UNCHANGED <<api, ending, queued, work, current, mapper, states, starts, closing,
                   round, metrics, summary, boot, swept, changes, failures>>

\* The goroutine that waits for stopChan shuts the server down.
Shutdown(p) ==
    /\ p \in closing
    /\ closing' = closing \ {p}
    /\ UNCHANGED <<api, ending, queued, work, current, mapper, states, starts, server,
                   round, metrics, summary, boot, raced, swept, changes, failures>>

-----------------------------------------------------------------------------
\* collectMetricsFromAllNodes, its snapshot.  The timer starts no round before
\* the last one has ended.
Collect ==
    /\ round = {}
    /\ round' = {[node |-> n, info |-> states[n]] :
                    n \in {m \in Node : states[m] # None}}
    /\ swept' = "running"
    /\ UNCHANGED <<api, ending, queued, work, current, mapper, states, starts, server,
                   closing, metrics, summary, boot, raced, changes, failures>>

\* Mutant: a summary that is there is kept.
StoreCollectedOnce(info, got) ==
    /\ metrics' = IF "metrics" \in got
                  THEN [metrics EXCEPT ![info.port] = info.ip] ELSE metrics
    /\ summary' = IF "summary" \in got /\ summary[info.port] = None
                  THEN [summary EXCEPT ![info.port] = info.ip] ELSE summary

\* What the kubelet at info.ip answered, parsed and stored under info.port:
\* the cAdvisor metrics, the summary, both, or nothing.
StoreCollected(info, got) ==
    /\ metrics' = IF "metrics" \in got
                  THEN [metrics EXCEPT ![info.port] = info.ip] ELSE metrics
    /\ summary' = IF "summary" \in got
                  THEN [summary EXCEPT ![info.port] = info.ip] ELSE summary

Answers == {"metrics", "summary"}

\* One node's data of the round arrives; what failed leaves the cache alone.
Collected(c, got) ==
    /\ c \in round
    /\ round' = round \ {c}
    /\ StoreCollected(c.info, got)
    /\ failures' = IF got = Answers THEN failures ELSE failures + 1
    /\ failures' <= MaxFailure
    /\ swept' = CASE got # Answers -> "no"
                  [] got = Answers /\ round' = {} /\ swept = "running" -> "yes"
                  [] OTHER -> swept
    /\ UNCHANGED <<api, ending, queued, work, current, mapper, states, starts, server,
                   closing, boot, raced, changes>>

-----------------------------------------------------------------------------
\* startServices, once the caches have synced and the controllers run.
\* SyncExistingNodes lists the nodes before it takes the lock.
ListExisting ==
    /\ boot.at = "list"
    /\ boot' = [boot EXCEPT !.at = "sync", !.nodes = api]
    /\ UNCHANGED <<api, ending, queued, work, current, mapper, states, starts, server,
                   closing, round, metrics, summary, raced, swept, changes, failures>>

\* Under the lock, CurrentNodes and the mapper are made anew from the list.  A
\* node that was recorded and has changed since is not told to the agent: the
\* reconcile still to come finds nothing new.  One that has passed the lock goes
\* on with what it found.
SyncExisting ==
    /\ boot.at = "sync"
    /\ current' = boot.nodes
    /\ mapper' = [n \in Node |-> PortOf(boot.nodes[n])]
    /\ boot' = [boot EXCEPT !.at = "init"]
    /\ raced' = raced \cup {n \in Node :
                               /\ current[n] # boot.nodes[n]
                               /\ \/ current[n] # None
                                  \/ work[n].at \in {"mapper", "agent"}}
    /\ UNCHANGED <<api, ending, queued, work, states, starts, server, closing, round,
                   metrics, summary, swept, changes, failures>>

\* InitializeWithNodes, called at the end of SyncExistingNodes and once more by
\* main: nodeStates is made anew, then the servers start one by one.
InitializeStates ==
    /\ boot.at \in {"init", "again"}
    /\ states' = boot.nodes
    /\ boot' = [boot EXCEPT !.at = IF @ = "init" THEN "serve" ELSE "serveagain"]
    /\ swept' = "no"
    /\ UNCHANGED <<api, ending, queued, work, current, mapper, starts, server, closing,
                   round, metrics, summary, raced, changes, failures>>

InitializeServer(n) ==
    /\ boot.at \in {"serve", "serveagain"}
    /\ boot.nodes[n] # None
    /\ StartHTTPServerForNode(n, boot.nodes[n].port)
    /\ boot' = [boot EXCEPT !.nodes = [@ EXCEPT ![n] = None]]
    /\ UNCHANGED <<api, ending, queued, work, current, mapper, states, starts, closing,
                   round, metrics, summary, swept, changes, failures>>

\* The servers are started; the first time this gives the lock back.
Initialized ==
    /\ boot.at \in {"serve", "serveagain"}
    /\ \A n \in Node : boot.nodes[n] = None
    /\ boot' = [boot EXCEPT !.at = IF @ = "serve" THEN "copy" ELSE "done"]
    /\ UNCHANGED <<api, ending, queued, work, current, mapper, states, starts, server,
                   closing, round, metrics, summary, raced, swept, changes, failures>>

\* main takes CurrentNodes again; with no node it does not initialise.
CopyCurrent ==
    /\ boot.at = "copy"
    /\ boot' = [at |-> IF \A n \in Node : current[n] = None THEN "done" ELSE "again",
                nodes |-> current]
    /\ UNCHANGED <<api, ending, queued, work, current, mapper, states, starts, server,
                   closing, round, metrics, summary, raced, swept, changes, failures>>

-----------------------------------------------------------------------------
\* The ports that a cache gives to nodes, but for those being deleted, are
\* different (VirtualNode!PortsUnique).
PortsApart(cache, gone) ==
    \A n \in Node \ gone, m \in Node \ gone :
       n # m /\ cache[n] # None => PortOf(cache[m]) # cache[n].port

\* The syncer adds, changes or removes a virtual node.
ChangeNode(n) ==
    /\ changes < MaxChange
    /\ changes' = changes + 1
    /\ \E info \in Maybe(Infos[n]) :
          /\ info # api[n]
          /\ n \in ending => info = None
          /\ api' = [api EXCEPT ![n] = info]
    /\ ending' = ending \ {n}
    /\ PortsApart(api', ending')
    /\ queued' = queued \cup {n}
    /\ UNCHANGED <<work, current, mapper, states, starts, server, closing, round,
                   metrics, summary, boot, raced, swept, failures>>

\* handleNodeDeletion gives the port of a node back before it removes the node's
\* finalizer: the next node may have the port while this one is still listed.
ReleaseProxierPort(n) ==
    /\ api[n] # None /\ n \notin ending
    /\ ending' = ending \cup {n}
    /\ UNCHANGED <<api, queued, work, current, mapper, states, starts, server,
                   closing, round, metrics, summary, boot, raced, swept, changes,
                   failures>>

Init ==
    /\ api \in {a \in [Node -> Maybe(UNION {Infos[n] : n \in Node})] :
                  \A n \in Node : a[n] \in Maybe(Infos[n])}
    /\ ending \in SUBSET {n \in Node : api[n] # None} /\ PortsApart(api, ending)
    /\ queued = {n \in Node : api[n] # None}
    /\ work = [n \in Node |-> Idle]
    /\ current = [n \in Node |-> None]
    /\ mapper = [n \in Node |-> None]
    /\ states = [n \in Node |-> None]
    /\ starts = {}
    /\ server = [p \in Port |-> None]
    /\ closing = {}
    /\ round = {}
    /\ metrics = [p \in Port |-> None]
    /\ summary = [p \in Port |-> None]
    /\ boot = [at |-> "list", nodes |-> [n \in Node |-> None]]
    /\ raced = {}
    /\ swept = "no"
    /\ changes = 0 /\ failures = 0

Main ==
    \/ ListExisting
    \/ SyncExisting
    \/ InitializeStates
    \/ \E n \in Node : InitializeServer(n)
    \/ Initialized
    \/ CopyCurrent

Worker(n) == Reconcile(n) \/ RecordNode(n) \/ MapPort(n) \/ TellAgent(n)

CollectedAny(c) == \E got \in SUBSET Answers : Collected(c, got)

Starts == [node : Node, port : Port]

Next ==
    \/ Main
    \/ \E n \in Node : Worker(n) \/ ChangeNode(n) \/ ReleaseProxierPort(n)
    \/ \E s \in starts : Start(s)
    \/ \E p \in Port : Listen(p) \/ Shutdown(p)
    \/ Collect
    \/ \E c \in round : CollectedAny(c)

Spec == Init /\ [][Next]_vars

-----------------------------------------------------------------------------
TypeOK ==
    /\ api \in [Node -> Maybe(Info)]
    /\ queued \subseteq Node /\ ending \subseteq Node
    /\ work \in [Node -> [at : Places, new : Maybe(Info), old : Maybe(Info)]]
    /\ current \in [Node -> Maybe(Info)]
    /\ mapper \in [Node -> Maybe(Port)]
    /\ states \in [Node -> Maybe(Info)]
    /\ starts \subseteq Starts
    /\ server \in [Port -> Maybe(Server)]
    /\ closing \subseteq Port
    /\ round \subseteq [node : Node, info : Info]
    /\ metrics \in [Port -> Maybe(IP)]
    /\ summary \in [Port -> Maybe(IP)]
    /\ boot \in [at : Stages, nodes : [Node -> Maybe(Info)]]
    /\ raced \subseteq Node
    /\ swept \in {"no", "running", "yes"}
    /\ changes \in 0..MaxChange /\ failures \in 0..MaxFailure

\* Nothing is left to do but the timer's rounds.
AtRest ==
    /\ boot.at = "done"
    /\ queued = {}
    /\ \A n \in Node : work[n].at = "idle"
    /\ starts = {} /\ closing = {}
    /\ \A p \in Port : server[p] # None => server[p].at # "starting"

\* CurrentNodes, the port mapper and the agent's nodeStates are written one
\* after the other by ten workers, and twice as a whole by main; at rest they
\* are equal to the cluster's nodes, whatever the order was, for every node no
\* reconcile of which fell between main's copy and its use.
NodesFollow ==
    AtRest => \A n \in Node \ raced :
                 /\ current[n] = api[n]
                 /\ mapper[n] = PortOf(api[n])
                 /\ states[n] = api[n]

\* At rest every virtual node has a listening server of its own on its port,
\* and no server is left on a port for a node that is gone or has moved,
\* although starts and stops run in goroutines of their own.  The nodes in
\* raced are the ones the map by port fails: a start was skipped because the
\* previous user's entry was there, found the socket not closed yet, or came
\* after the node had left, or the server was stopped for another node.
ServersFollow ==
    AtRest =>
      /\ \A n \in Node \ raced :
            api[n] # None => server[api[n].port] = [node |-> n, at |-> "up"]
      /\ \A p \in Port :
            /\ server[p] # None
            /\ server[p].node \notin raced
            => PortOf(api[server[p].node]) = p

\* At rest the tables and the servers are those of the cluster's nodes.
Follows == NodesFollow /\ ServersFollow

\* Once a whole round has run since the last change, a node's port serves its
\* own kubelet's data, although OnNodeDeleted leaves the summary of the port's
\* last user, and a round may write the data of a node that was deleted or has
\* moved while its request was under way.  Where two nodes are left with one
\* port (main's copy brought a node back, or the first user, its port released,
\* is still being deleted), at most one of them is not in raced, and nothing is
\* said of it while the other is among the agent's nodes.
OwnMetrics ==
    AtRest /\ swept = "yes" =>
      \A n \in Node \ raced :
         /\ api[n] # None
         /\ \A m \in raced \ {n} : PortOf(states[m]) # api[n].port
         => /\ metrics[api[n].port] = api[n].ip
            /\ summary[api[n].port] = api[n].ip
=============================================================================
