---------------------------- MODULE ProxierProofs ----------------------------
(***************************************************************************)
(* Proofs about Proxier: types, the three tables of nodes, the servers and  *)
(* the caches kept by port, for any number of nodes, ports and addresses    *)
(* and any order of the threads.                                            *)
(***************************************************************************)
EXTENDS Proxier, TLAPS

Busy(n) == work[n].at \in {"mapper", "agent"}

\* A reconcile goes on behind the lock only with something new.
News == \A n \in Node : Busy(n) => work[n].old # work[n].new

TypeInv == TypeOK /\ News

\* What is known of a node that met no race.  A change of the cluster is in the queue,
\* in the reconcile or in CurrentNodes.
Tracked(n) == \/ n \in queued
              \/ work[n].at = "idle" /\ current[n] = api[n]
              \/ work[n].at # "idle" /\ work[n].new = api[n]

\* The three tables agree, but for what the reconcile has still to write and, after main
\* has written CurrentNodes, for what the agent has still to take over.
TablesAgree(n) ==
  /\ Busy(n) => current[n] = work[n].new /\ states[n] \in {work[n].old, work[n].new}
  /\ work[n].at # "mapper" => mapper[n] = PortOf(current[n])
  /\ ~Busy(n) => states[n] = current[n] \/ (boot.at = "init" /\ states[n] = None)

\* What main has copied is still right when it is used.
CopyFits(n) ==
  /\ boot.at = "sync" => \/ n \in queued \/ work[n].at = "lock" \/ boot.nodes[n] = api[n]
  /\ boot.at \in {"init", "again"} => boot.nodes[n] = current[n]

NodesInv == \A n \in Node \ raced : Tracked(n) /\ TablesAgree(n) /\ CopyFits(n)

\* There is a server for n on p, or one will be started.
Has(n, p) == \/ server[p] # None /\ server[p].node = n
             \/ [node |-> n, port |-> p] \in starts
             \/ /\ boot.at \in {"serve", "serveagain"}
                /\ boot.nodes[n] # None /\ boot.nodes[n].port = p

\* A node that the agent knows has a server; a server of a node without a race is up or
\* starting, on the port that the agent knows or the one its reconcile will stop.
ServersInv ==
  /\ \A n \in Node \ raced : states[n] # None => Has(n, states[n].port)
  /\ \A p \in Port : LET s == server[p] IN
       s # None /\ s.node \notin raced =>
         /\ s.at # "dead"
         /\ PortOf(states[s.node]) = p \/ (Busy(s.node) /\ PortOf(work[s.node].old) = p)

\* No other node that the agent knows has the port of n.
Alone(n) == \A m \in Node \ {n} : PortOf(states[m]) # states[n].port

\* A round since the last change works on what the agent knows; what it has not stored
\* is still to come.
RoundInv ==
  /\ swept = "yes" => round = {}
  /\ swept # "no" =>
       /\ \A c \in round : c.info = states[c.node]
       /\ \A n \in Node : states[n] # None /\ Alone(n) =>
            \/ [node |-> n, info |-> states[n]] \in round
            \/ /\ metrics[states[n].port] = states[n].ip
               /\ summary[states[n].port] = states[n].ip

IInv == TypeInv /\ NodesInv /\ ServersInv /\ RoundInv
----------------------------------------------------------------------------
(* Types.                                                                  *)

Job == [at : Places, new : Maybe(Info), old : Maybe(Info)]

LEMMA NoneFacts == /\ None \notin Info /\ None \notin Port /\ None \notin IP
                   /\ \A n \in Node : Infos[n] \subseteq Info
                   /\ MaxChange \in Nat /\ MaxFailure \in Nat
BY ProxierAssumption

LEMMA PortFacts ==
  /\ \A i \in Maybe(Info) : PortOf(i) \in Maybe(Port)
  /\ \A i \in Info : i.port \in Port /\ i.ip \in IP /\ PortOf(i) = i.port /\ PortOf(i) # None
  /\ PortOf(None) = None
BY NoneFacts DEF Maybe, Info, PortOf

LEMMA IdleFacts == Idle \in Job /\ Idle.at = "idle"
BY DEF Idle, Job, Places, Maybe

\* The tables of nodes and what goes on with them.
NodesTyped ==
  /\ api \in [Node -> Maybe(Info)]
  /\ queued \subseteq Node /\ ending \subseteq Node
  /\ work \in [Node -> Job]
  /\ current \in [Node -> Maybe(Info)]
  /\ mapper \in [Node -> Maybe(Port)]
  /\ boot \in [at : Stages, nodes : [Node -> Maybe(Info)]]
  /\ changes \in 0..MaxChange
  /\ News

\* Servers and caches.
AgentTyped ==
  /\ states \in [Node -> Maybe(Info)]
  /\ starts \subseteq Starts
  /\ server \in [Port -> Maybe(Server)]
  /\ closing \subseteq Port
  /\ metrics \in [Port -> Maybe(IP)]
  /\ raced \subseteq Node

CollectTyped ==
  /\ round \subseteq [node : Node, info : Info]
  /\ summary \in [Port -> Maybe(IP)]
  /\ swept \in {"no", "running", "yes"}
  /\ failures \in 0..MaxFailure

LEMMA TypeParts ==
  /\ TypeInv <=> NodesTyped /\ AgentTyped /\ CollectTyped
  /\ TypeInv' <=> NodesTyped' /\ AgentTyped' /\ CollectTyped'
BY DEF TypeInv, TypeOK, NodesTyped, AgentTyped, CollectTyped, Job, Server

LEMMA TypeInit == Init => TypeInv
<1> SUFFICES ASSUME Init PROVE TypeInv
  OBVIOUS
<1>1. api \in [Node -> Maybe(Info)]
  <2>1. api \in [Node -> Maybe(UNION {Infos[n] : n \in Node})]
    BY DEF Init
  <2>2. Maybe(UNION {Infos[n] : n \in Node}) \subseteq Maybe(Info)
    BY NoneFacts DEF Maybe
  <2>3. QED
    BY <2>1, <2>2
<1>2. boot \in [at : Stages, nodes : [Node -> Maybe(Info)]]
  BY DEF Init, Stages, Maybe
<1>3. NodesTyped
  BY <1>1, <1>2, IdleFacts, NoneFacts DEF Init, NodesTyped, News, Busy, Maybe
<1>4. AgentTyped
  BY DEF Init, AgentTyped, Maybe
<1>5. CollectTyped
  BY NoneFacts DEF Init, CollectTyped, Maybe
<1>6. QED
  BY <1>3, <1>4, <1>5, TypeParts

LEMMA WorkerTyped ==
  ASSUME TypeInv, NEW n \in Node, Reconcile(n) \/ RecordNode(n) \/ MapPort(n)
  PROVE  TypeInv'
<1>0. NodesTyped /\ AgentTyped /\ CollectTyped
  BY TypeParts
<1>a. /\ work[n] \in Job /\ work[n].new \in Maybe(Info) /\ work[n].old \in Maybe(Info)
      /\ api[n] \in Maybe(Info) /\ current[n] \in Maybe(Info) /\ None \in Maybe(Info)
  BY <1>0 DEF NodesTyped, Job, Maybe
<1>1. CASE Reconcile(n)
  <2> DEFINE w == [at |-> "lock", new |-> api[n], old |-> None]
  <2>1. w \in Job /\ w.at = "lock"
    BY <1>a DEF Job, Places
  <2>2. work' = [work EXCEPT ![n] = w]
    BY <1>1 DEF Reconcile
  <2> HIDE DEF w
  <2>3. NodesTyped'
    BY <1>0, <1>1, <2>1, <2>2 DEF Reconcile, NodesTyped, News, Busy
  <2>4. QED
    BY <1>0, <1>1, <2>3, TypeParts DEF Reconcile, AgentTyped, CollectTyped
<1>2. CASE RecordNode(n)
  <2> DEFINE old == current[n]
             new == work[n].new
             w == IF old = new THEN Idle ELSE [at |-> "mapper", new |-> new, old |-> old]
  <2>1. w \in Job /\ (w.at \in {"mapper", "agent"} => w.old # w.new)
    BY <1>a, IdleFacts DEF Job, Places
  <2>2. work' = [work EXCEPT ![n] = w]
    BY <1>2 DEF RecordNode
  <2>3. current' = [current EXCEPT ![n] = new]
    BY <1>2 DEF RecordNode
  <2> HIDE DEF w
  <2>4. work' \in [Node -> Job] /\ News'
    BY <1>0, <2>1, <2>2 DEF NodesTyped, News, Busy
  <2>5. current' \in [Node -> Maybe(Info)]
    BY <1>0, <1>a, <2>3 DEF NodesTyped
  <2>6. NodesTyped'
    BY <1>0, <1>2, <2>4, <2>5 DEF RecordNode, NodesTyped
  <2>7. AgentTyped'
    BY <1>0, <1>2 DEF RecordNode, AgentTyped
  <2>8. QED
    BY <1>0, <1>2, <2>6, <2>7, TypeParts DEF RecordNode, CollectTyped
<1>3. CASE MapPort(n)
  <2> DEFINE w == [work[n] EXCEPT !.at = "agent"]
  <2>1. w \in Job /\ w.old = work[n].old /\ w.new = work[n].new
    BY <1>a DEF Job, Places
  <2>2. work' = [work EXCEPT ![n] = w] /\ work[n].at = "mapper"
    BY <1>3 DEF MapPort
  <2> HIDE DEF w
  <2>3. work' \in [Node -> Job] /\ News'
    BY <1>0, <2>1, <2>2 DEF NodesTyped, News, Busy
  <2>4. mapper' \in [Node -> Maybe(Port)]
    BY <1>0, <1>3, <1>a, PortFacts DEF MapPort, NodesTyped
  <2>5. NodesTyped'
    BY <1>0, <1>3, <2>3, <2>4 DEF MapPort, NodesTyped
  <2>6. QED
    BY <1>0, <1>3, <2>5, TypeParts DEF MapPort, AgentTyped, CollectTyped
<1>4. QED
  BY <1>1, <1>2, <1>3

\* What a stop leaves: the entry of the port is gone, and whose it was may have lost it
\* to another node.
LEMMA StopFacts ==
  ASSUME AgentTyped, NEW n \in Node, NEW p \in Port, StopServer(n, p)
  PROVE  /\ server' = [server EXCEPT ![p] = None]
         /\ server' \in [Port -> Maybe(Server)]
         /\ closing' \subseteq Port
         /\ metrics' = [metrics EXCEPT ![p] = None]
         /\ metrics' \in [Port -> Maybe(IP)]
         /\ raced' \subseteq Node /\ raced \subseteq raced'
         /\ server[p] # None /\ server[p].node # n => server[p].node \in raced'
<1>1. closing' \in {closing, closing \cup {p}}
  BY DEF StopServer
<1>2. server[p] # None => server[p].node \in Node
  BY NoneFacts DEF AgentTyped, Maybe, Server
<1>3. raced' = IF server[p] # None /\ server[p].node # n
               THEN raced \cup {server[p].node} ELSE raced
  BY DEF StopServer
<1>4. server' = [server EXCEPT ![p] = None] /\ metrics' = [metrics EXCEPT ![p] = None]
  BY DEF StopServer
<1>5. server' \in [Port -> Maybe(Server)] /\ metrics' \in [Port -> Maybe(IP)]
  BY <1>4 DEF AgentTyped, Maybe
<1>6. QED
  BY <1>1, <1>2, <1>3, <1>4, <1>5 DEF AgentTyped
\* The agent is told: a node it did not have or whose port stays gets a start at most, a
\* node that moves or goes has the server of its old port stopped.
Entered(n) ==
  /\ work[n].new # None
  /\ \/ work[n].old = None /\ [node |-> n, port |-> work[n].new.port] \in starts'
     \/ work[n].old # None /\ work[n].old.port = work[n].new.port
  /\ UNCHANGED <<server, raced>>
Left(n) ==
  /\ work[n].old # None
  /\ server' = [server EXCEPT ![work[n].old.port] = None]
  /\ LET s == server[work[n].old.port] IN s # None /\ s.node # n => s.node \in raced'
  /\ work[n].new # None => /\ [node |-> n, port |-> work[n].new.port] \in starts'
                           /\ work[n].old.port # work[n].new.port

LEMMA TellFacts ==
  ASSUME TypeInv, NEW n \in Node, TellAgent(n)
  PROVE  /\ TypeInv'
         /\ work[n].at = "agent" /\ work' = [work EXCEPT ![n] = Idle]
         /\ states' = [states EXCEPT ![n] = work[n].new]
         /\ starts \subseteq starts' /\ raced \subseteq raced'
         /\ Entered(n) \/ Left(n)
<1> DEFINE old == work[n].old
           new == work[n].new
           s == [node |-> n, port |-> new.port]
<1>0. NodesTyped /\ AgentTyped /\ CollectTyped
  BY TypeParts
<1>1. /\ work[n].at = "agent" /\ work' = [work EXCEPT ![n] = Idle] /\ swept' = "no"
      /\ UNCHANGED <<api, ending, queued, current, mapper, round, summary, boot, changes, failures>>
  BY DEF TellAgent
<1>2. old \in Maybe(Info) /\ new \in Maybe(Info) /\ old # new
  BY <1>0, <1>1 DEF NodesTyped, Job, News, Busy
<1>3. /\ old # None => old \in Info /\ old.port \in Port
      /\ new # None => new \in Info /\ s \in Starts
  BY <1>2, PortFacts DEF Maybe, Starts
<1>4. NodesTyped'
  <2>1. work' \in [Node -> Job] /\ News'
    BY <1>0, <1>1, IdleFacts DEF NodesTyped, News, Busy
  <2>2. QED
    BY <1>0, <1>1, <2>1 DEF NodesTyped
<1>5. CollectTyped'
  BY <1>0, <1>1 DEF CollectTyped
<1>6. ASSUME states' = [states EXCEPT ![n] = new]
      PROVE  states' \in [Node -> Maybe(Info)]
  BY <1>0, <1>2, <1>6 DEF AgentTyped
<1>7. CASE old = None /\ OnNodeAdded(n, new)
  <2>1. /\ states' = [states EXCEPT ![n] = new] /\ starts' = starts \cup {s}
        /\ UNCHANGED <<server, closing, metrics, raced>> /\ new # None
    BY <1>2, <1>7 DEF OnNodeAdded
  <2>2. AgentTyped'
    BY <1>0, <1>3, <1>6, <2>1 DEF AgentTyped
  <2>3. QED
    BY <1>1, <1>4, <1>5, <1>7, <2>1, <2>2, TypeParts DEF Entered
<1>8. CASE old # None /\ new # None /\ OnNodeUpdated(n, old, new)
  <2>1. states' = [states EXCEPT ![n] = new]
    BY <1>8 DEF OnNodeUpdated
  <2>2. CASE old.port = new.port /\ UNCHANGED <<starts, server, closing, metrics, raced>>
    <3>1. AgentTyped'
      BY <1>0, <1>6, <2>1, <2>2 DEF AgentTyped
    <3>2. QED
      BY <1>1, <1>4, <1>5, <1>8, <2>1, <2>2, <3>1, TypeParts DEF Entered
  <2>3. CASE old.port # new.port /\ StopServer(n, old.port) /\ starts' = starts \cup {s}
    <3>0. /\ server' = [server EXCEPT ![old.port] = None]
          /\ server' \in [Port -> Maybe(Server)] /\ closing' \subseteq Port
          /\ metrics' \in [Port -> Maybe(IP)]
          /\ raced' \subseteq Node /\ raced \subseteq raced'
          /\ server[old.port] # None /\ server[old.port].node # n => server[old.port].node \in raced'
      BY <1>0, <1>3, <1>8, <2>3, StopFacts
    <3>1. AgentTyped'
      BY <1>0, <1>3, <1>6, <1>8, <2>1, <2>3, <3>0 DEF AgentTyped
    <3>2. QED
      BY <1>1, <1>4, <1>5, <1>8, <2>1, <2>3, <3>0, <3>1, TypeParts DEF Left
  <2>4. QED
    BY <1>8, <2>2, <2>3 DEF OnNodeUpdated
<1>9. CASE new = None /\ OnNodeDeleted(n, old)
  <2>1. states' = [states EXCEPT ![n] = new] /\ starts' = starts /\ StopServer(n, old.port)
    BY <1>9 DEF OnNodeDeleted
  <2>2. old # None
    BY <1>2, <1>9
  <2>3. /\ server' = [server EXCEPT ![old.port] = None]
        /\ server' \in [Port -> Maybe(Server)] /\ closing' \subseteq Port
        /\ metrics' \in [Port -> Maybe(IP)]
        /\ raced' \subseteq Node /\ raced \subseteq raced'
        /\ server[old.port] # None /\ server[old.port].node # n => server[old.port].node \in raced'
    BY <1>0, <1>3, <2>1, <2>2, StopFacts
  <2>4. AgentTyped'
    BY <1>0, <1>6, <2>1, <2>3 DEF AgentTyped
  <2>5. QED
    BY <1>1, <1>4, <1>5, <1>9, <2>1, <2>2, <2>3, <2>4, TypeParts DEF Left
<1>10. QED
  BY <1>7, <1>8, <1>9 DEF TellAgent

\* A start makes an entry where there is none; the node has lost a race if the entry is
\* another's or the agent knows another port.
Started(n, p) ==
  /\ server' = [server EXCEPT ![p] = IF @ = None THEN [node |-> n, at |-> "starting"] ELSE @]
  /\ raced' \subseteq Node /\ raced \subseteq raced'
  /\ n \notin raced' => /\ PortOf(states[n]) = p
                        /\ server[p] # None => server[p].node = n

LEMMA StartFacts ==
  ASSUME AgentTyped, NEW n \in Node, NEW p \in Port, StartHTTPServerForNode(n, p)
  PROVE  Started(n, p) /\ server' \in [Port -> Maybe(Server)]
<1>1. [node |-> n, at |-> "starting"] \in Server
  BY DEF Server
<1>2. server' \in [Port -> Maybe(Server)]
  BY <1>1 DEF AgentTyped, StartHTTPServerForNode, Maybe
<1>3. QED
  BY <1>2 DEF AgentTyped, StartHTTPServerForNode, Started

LEMMA ServerStepTyped ==
  ASSUME TypeInv,
         \/ \E s \in starts : Start(s)
         \/ \E p \in Port : Listen(p) \/ Shutdown(p)
         \/ Collect
         \/ \E c \in round : CollectedAny(c)
  PROVE  TypeInv'
<1>0. NodesTyped /\ AgentTyped /\ CollectTyped
  BY TypeParts
<1>1. ASSUME NEW s \in starts, Start(s) PROVE TypeInv'
  <2>1. s.node \in Node /\ s.port \in Port
    BY <1>0 DEF AgentTyped, Starts
  <2>2. Started(s.node, s.port) /\ server' \in [Port -> Maybe(Server)]
    BY <1>0, <1>1, <2>1, StartFacts DEF Start
  <2>3. AgentTyped'
    BY <1>0, <1>1, <2>2 DEF Start, AgentTyped, Started
  <2>4. QED
    BY <1>0, <1>1, <2>3, TypeParts DEF Start, NodesTyped, CollectTyped, News, Busy
<1>2. ASSUME NEW p \in Port, Listen(p) PROVE TypeInv'
  <2> DEFINE stage == IF p \in closing THEN "dead" ELSE "up"
             s == [server[p] EXCEPT !.at = stage]
  <2>0. server[p] \in Server
    BY <1>0, <1>2 DEF Listen, AgentTyped, Maybe
  <2>1. s \in Server
    BY <2>0 DEF Server
  <2>2. server' = [server EXCEPT ![p] = s]
    BY <1>2 DEF Listen
  <2> HIDE DEF s
  <2>3. server' \in [Port -> Maybe(Server)]
    BY <1>0, <2>1, <2>2 DEF AgentTyped, Maybe
  <2>4. raced' \subseteq Node
    BY <1>0, <1>2, <2>0 DEF Listen, AgentTyped, Server
  <2>5. AgentTyped'
    BY <1>0, <1>2, <2>3, <2>4 DEF Listen, AgentTyped
  <2>6. QED
    BY <1>0, <1>2, <2>5, TypeParts DEF Listen, NodesTyped, CollectTyped, News, Busy
<1>3. ASSUME NEW p \in Port, Shutdown(p) PROVE TypeInv'
  BY <1>0, <1>3, TypeParts DEF Shutdown, NodesTyped, AgentTyped, CollectTyped, News, Busy
<1>4. CASE Collect
  <2>1. \A n \in Node : states[n] # None => [node |-> n, info |-> states[n]] \in [node : Node, info : Info]
    BY <1>0 DEF AgentTyped, Maybe
  <2>2. round' \subseteq [node : Node, info : Info]
    BY <1>4, <2>1 DEF Collect
  <2>3. CollectTyped'
    BY <1>0, <1>4, <2>2 DEF Collect, CollectTyped
  <2>4. QED
    BY <1>0, <1>4, <2>3, TypeParts DEF Collect, NodesTyped, AgentTyped, News, Busy
<1>5. ASSUME NEW c \in round, NEW got \in SUBSET Answers, Collected(c, got) PROVE TypeInv'
  <2>1. c.info.port \in Port /\ c.info.ip \in IP
    BY <1>0 DEF CollectTyped, Info
  <2>2. metrics' \in [Port -> Maybe(IP)] /\ summary' \in [Port -> Maybe(IP)]
    BY <1>0, <1>5, <2>1 DEF Collected, StoreCollected, CollectTyped, AgentTyped, Maybe
  <2>3. swept' \in {"no", "running", "yes"}
    BY <1>0, <1>5 DEF Collected, CollectTyped
  <2>4. failures' \in 0..MaxFailure
    BY <1>0, <1>5, NoneFacts DEF Collected, CollectTyped
  <2>5. CollectTyped'
    BY <1>0, <1>5, <2>2, <2>3, <2>4 DEF Collected, CollectTyped
  <2>6. QED
    BY <1>0, <1>5, <2>2, <2>5, TypeParts DEF Collected, NodesTyped, AgentTyped, News, Busy
<1>6. QED
  BY <1>1, <1>2, <1>3, <1>4, <1>5 DEF CollectedAny
LEMMA MainTyped == TypeInv /\ Main => TypeInv'
<1> SUFFICES ASSUME TypeInv, Main PROVE TypeInv'
  OBVIOUS
<1>0. NodesTyped /\ AgentTyped /\ CollectTyped
  BY TypeParts
<1>a. /\ boot.at \in Stages /\ boot.nodes \in [Node -> Maybe(Info)]
      /\ boot \in [at : Stages, nodes : [Node -> Maybe(Info)]]
  BY <1>0 DEF NodesTyped
<1>1. CASE ListExisting
  <2>1. boot' \in [at : Stages, nodes : [Node -> Maybe(Info)]]
    BY <1>0, <1>1, <1>a DEF ListExisting, NodesTyped, Stages
  <2>2. QED
    BY <1>0, <1>1, <2>1, TypeParts DEF ListExisting, NodesTyped, AgentTyped, CollectTyped, News, Busy
<1>2. CASE SyncExisting
  <2>1. boot' \in [at : Stages, nodes : [Node -> Maybe(Info)]]
    BY <1>2, <1>a DEF SyncExisting, Stages
  <2>2. mapper' \in [Node -> Maybe(Port)] /\ current' \in [Node -> Maybe(Info)]
    BY <1>2, <1>a, PortFacts DEF SyncExisting
  <2>3. NodesTyped'
    BY <1>0, <1>2, <2>1, <2>2 DEF SyncExisting, NodesTyped, News, Busy
  <2>4. AgentTyped'
    BY <1>0, <1>2 DEF SyncExisting, AgentTyped
  <2>5. QED
    BY <1>0, <1>2, <2>3, <2>4, TypeParts DEF SyncExisting, CollectTyped
<1>3. CASE InitializeStates
  <2>1. boot' \in [at : Stages, nodes : [Node -> Maybe(Info)]]
    BY <1>3, <1>a DEF InitializeStates, Stages
  <2>2. QED
    BY <1>0, <1>3, <1>a, <2>1, TypeParts
       DEF InitializeStates, NodesTyped, AgentTyped, CollectTyped, News, Busy
<1>4. ASSUME NEW n \in Node, InitializeServer(n) PROVE TypeInv'
  <2>1. boot.nodes[n].port \in Port
    BY <1>4, <1>a, PortFacts DEF InitializeServer, Maybe
  <2>2. Started(n, boot.nodes[n].port) /\ server' \in [Port -> Maybe(Server)]
    BY <1>0, <1>4, <2>1, StartFacts DEF InitializeServer
  <2>3. boot' \in [at : Stages, nodes : [Node -> Maybe(Info)]]
    <3> DEFINE rest == [boot.nodes EXCEPT ![n] = None]
    <3>1. rest \in [Node -> Maybe(Info)]
      BY <1>a DEF Maybe
    <3>2. boot' = [boot EXCEPT !.nodes = rest]
      BY <1>4 DEF InitializeServer
    <3> HIDE DEF rest
    <3>3. QED
      BY <1>a, <3>1, <3>2
  <2>4. AgentTyped'
    BY <1>0, <1>4, <2>2 DEF InitializeServer, AgentTyped, Started
  <2>5. QED
    BY <1>0, <1>4, <2>3, <2>4, TypeParts DEF InitializeServer, NodesTyped, CollectTyped, News, Busy
<1>5. CASE Initialized
  <2>1. boot' \in [at : Stages, nodes : [Node -> Maybe(Info)]]
    BY <1>5, <1>a DEF Initialized, Stages
  <2>2. QED
    BY <1>0, <1>5, <2>1, TypeParts DEF Initialized, NodesTyped, AgentTyped, CollectTyped, News, Busy
<1>6. CASE CopyCurrent
  <2>1. boot' \in [at : Stages, nodes : [Node -> Maybe(Info)]]
    BY <1>0, <1>6 DEF CopyCurrent, Stages, NodesTyped
  <2>2. QED
    BY <1>0, <1>6, <2>1, TypeParts DEF CopyCurrent, NodesTyped, AgentTyped, CollectTyped, News, Busy
<1>7. QED
  BY <1>1, <1>2, <1>3, <1>4, <1>5, <1>6 DEF Main

LEMMA ChangeTyped ==
  ASSUME TypeInv, NEW n \in Node, ChangeNode(n)
  PROVE  TypeInv'
<1>0. NodesTyped /\ AgentTyped /\ CollectTyped
  BY TypeParts
<1>1. PICK info \in Maybe(Infos[n]) : api' = [api EXCEPT ![n] = info]
  BY DEF ChangeNode
<1>2. info \in Maybe(Info)
  BY NoneFacts DEF Maybe
<1>3. api' \in [Node -> Maybe(Info)]
  BY <1>0, <1>1, <1>2 DEF NodesTyped
<1>4. NodesTyped'
  BY <1>0, <1>3, NoneFacts DEF ChangeNode, NodesTyped, News, Busy
<1>5. QED
  BY <1>0, <1>4, TypeParts DEF ChangeNode, AgentTyped, CollectTyped

LEMMA ReleaseTyped ==
  ASSUME TypeInv, NEW n \in Node, ReleaseProxierPort(n)
  PROVE  TypeInv'
BY TypeParts DEF ReleaseProxierPort, NodesTyped, AgentTyped, CollectTyped, News, Busy

LEMMA TypeStep == TypeInv /\ [Next]_vars => TypeInv'
<1> SUFFICES ASSUME TypeInv, [Next]_vars PROVE TypeInv'
  OBVIOUS
<1>1. CASE UNCHANGED vars
  BY <1>1, TypeParts DEF vars, NodesTyped, AgentTyped, CollectTyped, News, Busy
<1>2. CASE Next
  BY <1>2, WorkerTyped, TellFacts, MainTyped, ChangeTyped, ReleaseTyped,
     ServerStepTyped DEF Next, Worker
<1>3. QED
  BY <1>1, <1>2

\* The tables, servers and caches of the proxier, the reconciles under way and main keep
\* their types; a server and its cache belong to ports, whatever the threads do.
THEOREM ProxierTypeCorrect == Spec => []TypeOK
<1>1. TypeInv => TypeOK
  BY DEF TypeInv
<1>2. QED
  BY <1>1, TypeInit, TypeStep, PTL DEF Spec
----------------------------------------------------------------------------
(* The tables of nodes.                                                    *)

NodeOk(n) == Tracked(n) /\ TablesAgree(n) /\ CopyFits(n)

\* A step that leaves what is known of a node alone.
LEMMA NodeFrame ==
  ASSUME NEW n \in Node, NodeOk(n), n \in queued' <=> n \in queued,
         work'[n] = work[n], current'[n] = current[n], mapper'[n] = mapper[n],
         states'[n] = states[n], api'[n] = api[n],
         \/ boot' = boot
         \/ boot'.at \notin {"sync", "init", "again"} /\ boot.at # "init"
  PROVE  NodeOk(n)'
BY DEF NodeOk, Tracked, TablesAgree, CopyFits, Busy

LEMMA WorkerNodes ==
  ASSUME TypeInv, NodesInv, NEW n \in Node, Worker(n)
  PROVE  NodesInv'
<1> SUFFICES ASSUME NEW m \in Node \ raced' PROVE NodeOk(m)'
  BY DEF NodesInv, NodeOk
<1>0. NodesTyped /\ AgentTyped
  BY TypeParts
<1>a. raced \subseteq raced' /\ boot' = boot /\ api' = api /\ (n # m => (m \in queued' <=> m \in queued))
  BY TellFacts DEF Worker, Reconcile, RecordNode, MapPort, TellAgent
<1>b. NodeOk(m)
  BY <1>a DEF NodesInv, NodeOk
<1>1. CASE n # m
  <2>1. /\ work'[m] = work[m] /\ current'[m] = current[m] /\ mapper'[m] = mapper[m]
        /\ states'[m] = states[m]
    BY <1>0, <1>1, TellFacts DEF NodesTyped, AgentTyped, Worker, Reconcile, RecordNode, MapPort, TellAgent
  <2>2. QED
    BY <1>a, <1>b, <1>1, <2>1, NodeFrame
<1>2. CASE n = m
  <2>1. CASE Reconcile(m)
    <3>1. work'[m].at = "lock" /\ work'[m].new = api[m] /\ work[m].at = "idle"
      BY <1>0, <2>1 DEF Reconcile, NodesTyped
    <3>2. UNCHANGED <<current, mapper, states>>
      BY <2>1 DEF Reconcile
    <3>3. QED
      BY <1>a, <1>b, <3>1, <3>2 DEF NodeOk, Tracked, TablesAgree, CopyFits, Busy
  <2>2. CASE RecordNode(m)
    <3>0. work[m].at = "lock" /\ current'[m] = work[m].new
      BY <1>0, <2>2 DEF RecordNode, NodesTyped
    <3>1. boot.at \notin {"sync", "init", "again"}
      BY <2>2 DEF RecordNode, Locked, Copied
    <3>2. UNCHANGED <<mapper, states, queued>>
      BY <2>2 DEF RecordNode
    <3>3. CASE current[m] = work[m].new
      <4>1. work'[m].at = "idle"
        BY <1>0, <2>2, <3>3, IdleFacts DEF RecordNode, NodesTyped
      <4>2. QED
        BY <1>a, <1>b, <3>0, <3>1, <3>2, <3>3, <4>1 DEF NodeOk, Tracked, TablesAgree, CopyFits, Busy
    <3>4. CASE current[m] # work[m].new
      <4>1. work'[m].at = "mapper" /\ work'[m].new = work[m].new /\ work'[m].old = current[m]
        BY <1>0, <2>2, <3>4 DEF RecordNode, NodesTyped
      <4>2. QED
        BY <1>a, <1>b, <3>0, <3>1, <3>2, <4>1 DEF NodeOk, Tracked, TablesAgree, CopyFits, Busy
    <3>5. QED
      BY <3>3, <3>4
  <2>3. CASE MapPort(m)
    <3>0. work[m] \in Job /\ work[m].at = "mapper"
      BY <1>0, <2>3 DEF MapPort, NodesTyped
    <3>1. work'[m] = [work[m] EXCEPT !.at = "agent"] /\ mapper'[m] = PortOf(work[m].new)
      BY <1>0, <2>3 DEF MapPort, NodesTyped
    <3>2. work'[m].at = "agent" /\ work'[m].new = work[m].new /\ work'[m].old = work[m].old
      BY <3>0, <3>1 DEF Job
    <3>3. UNCHANGED <<current, states, queued>>
      BY <2>3 DEF MapPort
    <3>4. QED
      BY <1>a, <1>b, <3>0, <3>1, <3>2, <3>3 DEF NodeOk, Tracked, TablesAgree, CopyFits, Busy
  <2>4. CASE TellAgent(m)
    <3>1. work[m].at = "agent" /\ work'[m].at = "idle" /\ states'[m] = work[m].new
      BY <1>0, <2>4, TellFacts, IdleFacts DEF NodesTyped, AgentTyped
    <3>2. UNCHANGED <<current, mapper, queued>>
      BY <2>4 DEF TellAgent
    <3>3. QED
      BY <1>a, <1>b, <3>1, <3>2 DEF NodeOk, Tracked, TablesAgree, CopyFits, Busy
  <2>5. QED
    BY <1>2, <2>1, <2>2, <2>3, <2>4 DEF Worker
<1>3. QED
  BY <1>1, <1>2

LEMMA MainNodes == TypeInv /\ NodesInv /\ Main => NodesInv'
<1> SUFFICES ASSUME TypeInv, NodesInv, Main, NEW m \in Node \ raced' PROVE NodeOk(m)'
  BY DEF NodesInv, NodeOk
<1>0. NodesTyped /\ AgentTyped
  BY TypeParts
<1>a. boot.nodes \in [Node -> Maybe(Info)] /\ boot \in [at : Stages, nodes : [Node -> Maybe(Info)]]
  BY <1>0 DEF NodesTyped
<1>b. \A n \in Node : InitializeServer(n) => Started(n, boot.nodes[n].port)
  <2> SUFFICES ASSUME NEW n \in Node, InitializeServer(n) PROVE Started(n, boot.nodes[n].port)
    OBVIOUS
  <2>1. boot.nodes[n].port \in Port
    BY <1>a, PortFacts DEF InitializeServer, Maybe
  <2>2. QED
    BY <1>0, <2>1, StartFacts DEF InitializeServer
<1>c. raced \subseteq raced'
  BY <1>b DEF Main, ListExisting, SyncExisting, InitializeStates, InitializeServer, Initialized,
              CopyCurrent, Started
<1>d. NodeOk(m)
  BY <1>c DEF NodesInv, NodeOk
<1>1. CASE ListExisting
  <2>1. boot.at = "list" /\ boot'.at = "sync" /\ boot'.nodes = api
    BY <1>1, <1>a DEF ListExisting
  <2>2. UNCHANGED <<api, queued, work, current, mapper, states>>
    BY <1>1 DEF ListExisting
  <2>3. QED
    BY <1>d, <2>1, <2>2 DEF NodeOk, Tracked, TablesAgree, CopyFits, Busy
<1>2. CASE SyncExisting
  <2>1. boot.at = "sync" /\ boot'.at = "init" /\ boot'.nodes = boot.nodes
    BY <1>2, <1>a DEF SyncExisting
  <2>2. UNCHANGED <<api, queued, work, states>>
    BY <1>2 DEF SyncExisting
  <2>3. current'[m] = boot.nodes[m] /\ mapper'[m] = PortOf(boot.nodes[m])
    BY <1>2 DEF SyncExisting
  <2>4. current[m] = boot.nodes[m] \/ (current[m] = None /\ ~Busy(m))
    BY <1>2 DEF SyncExisting, Busy
  <2>5. QED
    BY <1>d, <2>1, <2>2, <2>3, <2>4 DEF NodeOk, Tracked, TablesAgree, CopyFits, Busy
<1>3. CASE InitializeStates
  <2>1. boot.at \in {"init", "again"} /\ boot'.at \in {"serve", "serveagain"}
    BY <1>3, <1>a DEF InitializeStates
  <2>2. UNCHANGED <<api, queued, work, current, mapper>> /\ states' = boot.nodes
    BY <1>3 DEF InitializeStates
  <2>3. QED
    BY <1>d, <2>1, <2>2 DEF NodeOk, Tracked, TablesAgree, CopyFits, Busy
<1>4. ASSUME NEW n \in Node, InitializeServer(n) PROVE NodeOk(m)'
  <2>1. boot'.at = boot.at /\ boot.at \in {"serve", "serveagain"}
    BY <1>4, <1>a DEF InitializeServer
  <2>2. UNCHANGED <<api, queued, work, current, mapper, states>>
    BY <1>4 DEF InitializeServer
  <2>3. QED
    BY <1>d, <2>1, <2>2, NodeFrame
<1>5. CASE Initialized
  <2>1. boot.at \in {"serve", "serveagain"} /\ boot'.at \in {"copy", "done"}
    BY <1>5, <1>a DEF Initialized
  <2>2. UNCHANGED <<api, queued, work, current, mapper, states>>
    BY <1>5 DEF Initialized
  <2>3. QED
    BY <1>d, <2>1, <2>2, NodeFrame
<1>6. CASE CopyCurrent
  <2>1. boot.at = "copy" /\ boot'.at \in {"done", "again"} /\ boot'.nodes = current
    BY <1>6, <1>a DEF CopyCurrent
  <2>2. UNCHANGED <<api, queued, work, current, mapper, states>>
    BY <1>6 DEF CopyCurrent
  <2>3. QED
    BY <1>d, <2>1, <2>2 DEF NodeOk, Tracked, TablesAgree, CopyFits, Busy
<1>7. QED
  BY <1>1, <1>2, <1>3, <1>4, <1>5, <1>6 DEF Main
\* The steps of servers and rounds: the tables stay.
Beside == \/ \E s \in starts : Start(s)
          \/ \E p \in Port : Listen(p) \/ Shutdown(p)
          \/ Collect
          \/ \E c \in round : CollectedAny(c)

LEMMA BesideFacts ==
  ASSUME TypeInv, Beside
  PROVE  UNCHANGED <<api, queued, work, current, mapper, states, boot>> /\ raced \subseteq raced'
<1>0. AgentTyped
  BY TypeParts
<1>1. ASSUME NEW s \in starts, Start(s) PROVE raced \subseteq raced'
  <2>1. s.node \in Node /\ s.port \in Port
    BY <1>0 DEF AgentTyped, Starts
  <2>2. QED
    BY <1>0, <1>1, <2>1, StartFacts DEF Start, Started
<1>2. raced \subseteq raced'
  BY <1>1 DEF Beside, Listen, Shutdown, Collect, CollectedAny, Collected
<1>3. QED
  BY <1>2 DEF Beside, Start, Listen, Shutdown, Collect, CollectedAny, Collected

LEMMA NodesStep == TypeInv /\ NodesInv /\ [Next]_vars => NodesInv'
<1> SUFFICES ASSUME TypeInv, NodesInv, [Next]_vars PROVE NodesInv'
  OBVIOUS
<1>0. NodesTyped
  BY TypeParts
<1>1. ASSUME NEW n \in Node, ChangeNode(n) PROVE NodesInv'
  <2> SUFFICES ASSUME NEW m \in Node \ raced PROVE NodeOk(m)'
    BY <1>1 DEF NodesInv, NodeOk, ChangeNode
  <2>1. NodeOk(m) /\ UNCHANGED <<work, current, mapper, states, boot>>
    BY <1>1 DEF NodesInv, NodeOk, ChangeNode
  <2>2. CASE n = m
    <3>1. n \in queued'
      BY <1>1 DEF ChangeNode
    <3>2. QED
      BY <2>1, <2>2, <3>1 DEF NodeOk, Tracked, TablesAgree, CopyFits, Busy
  <2>3. CASE n # m
    <3>1. api'[m] = api[m] /\ (m \in queued' <=> m \in queued)
      BY <1>0, <1>1, <2>3 DEF ChangeNode, NodesTyped
    <3>2. QED
      BY <2>1, <3>1, NodeFrame
  <2>4. QED
    BY <2>2, <2>3
<1>2. CASE Beside \/ UNCHANGED vars \/ \E n \in Node : ReleaseProxierPort(n)
  <2>1. UNCHANGED <<api, queued, work, current, mapper, states, boot>> /\ raced \subseteq raced'
    BY <1>2, BesideFacts DEF vars, ReleaseProxierPort
  <2> SUFFICES ASSUME NEW m \in Node \ raced' PROVE NodeOk(m)'
    BY DEF NodesInv, NodeOk
  <2>2. NodeOk(m)
    BY <2>1 DEF NodesInv, NodeOk
  <2>3. QED
    BY <2>1, <2>2, NodeFrame
<1>3. QED
  BY <1>1, <1>2, WorkerNodes, MainNodes DEF Next, Beside

LEMMA NodesInit == Init => NodesInv
<1> SUFFICES ASSUME Init PROVE NodesInv
  OBVIOUS
<1>1. boot.at = "list"
  BY DEF Init
<1>2. \A n \in Node : NodeOk(n)
  BY <1>1, IdleFacts, PortFacts DEF Init, NodeOk, Tracked, TablesAgree, CopyFits, Busy
<1>3. QED
  BY <1>2 DEF NodesInv, NodeOk

----------------------------------------------------------------------------
(* Servers.                                                                *)

\* The server of p, if its node met no race, is one that the agent knows of.
ServerOk(p) ==
  server[p] # None /\ server[p].node \notin raced =>
    /\ server[p].at # "dead"
    /\ \/ PortOf(states[server[p].node]) = p
       \/ Busy(server[p].node) /\ PortOf(work[server[p].node].old) = p

KnownOk(n) == n \notin raced /\ states[n] # None => Has(n, states[n].port)

LEMMA ServersParts ==
  /\ ServersInv <=> (\A n \in Node : KnownOk(n)) /\ (\A p \in Port : ServerOk(p))
  /\ ServersInv' <=> (\A n \in Node : KnownOk(n)') /\ (\A p \in Port : ServerOk(p)')
BY DEF ServersInv, KnownOk, ServerOk

LEMMA ServersInit == Init => ServersInv
BY ServersParts DEF Init, KnownOk, ServerOk

\* The start of a server for n on p, asked for by a goroutine or by main.
LEMMA StartedServers ==
  ASSUME TypeInv, ServersInv, NEW n \in Node, NEW p \in Port, Started(n, p),
         UNCHANGED <<work, states>>,
         \A m \in Node, r \in Port : Has(m, r) => Has(m, r)' \/ (m = n /\ r = p)
  PROVE  ServersInv'
<1>0. AgentTyped
  BY TypeParts
<1>a. /\ server'[p] = IF server[p] = None THEN [node |-> n, at |-> "starting"] ELSE server[p]
      /\ \A r \in Port \ {p} : server'[r] = server[r]
      /\ raced \subseteq raced'
  BY <1>0 DEF Started, AgentTyped
<1>1. ASSUME NEW m \in Node PROVE KnownOk(m)'
  <2> SUFFICES ASSUME m \notin raced', states[m] # None PROVE Has(m, states[m].port)'
    BY DEF KnownOk
  <2>1. Has(m, states[m].port) /\ states[m].port \in Port
    BY <1>0, <1>a, ServersParts, PortFacts DEF KnownOk, AgentTyped, Maybe
  <2>2. CASE m = n /\ states[m].port = p
    <3>0. [node |-> n, at |-> "starting"] \in Server
      BY DEF Server
    <3>1. server'[p] # None /\ server'[p].node = n
      BY <1>a, <2>2, <3>0, ProxierAssumption DEF Started
    <3>2. QED
      BY <2>2, <3>1 DEF Has
  <2>3. QED
    BY <2>1, <2>2
<1>2. ASSUME NEW r \in Port PROVE ServerOk(r)'
  <2>1. ServerOk(r)
    BY ServersParts
  <2>2. CASE r = p /\ server[p] = None
    <3>1. server'[r].node = n /\ server'[r].at = "starting"
      BY <1>a, <2>2
    <3>2. QED
      BY <2>2, <3>1 DEF ServerOk, Started
  <2>3. CASE ~(r = p /\ server[p] = None)
    <3>1. server'[r] = server[r]
      BY <1>a, <2>3
    <3>2. QED
      BY <1>a, <2>1, <3>1 DEF ServerOk, Busy
  <2>4. QED
    BY <2>2, <2>3
<1>3. QED
  BY <1>1, <1>2, ServersParts
LEMMA BesideServers ==
  ASSUME TypeInv, ServersInv, Beside
  PROVE  ServersInv'
<1>0. AgentTyped
  BY TypeParts
<1>a. UNCHANGED <<api, queued, work, current, mapper, states, boot>> /\ raced \subseteq raced'
  BY BesideFacts
<1>1. ASSUME NEW s \in starts, Start(s) PROVE ServersInv'
  <2>1. s.node \in Node /\ s.port \in Port /\ s = [node |-> s.node, port |-> s.port]
    BY <1>0 DEF AgentTyped, Starts
  <2>2. Started(s.node, s.port) /\ starts' = starts \ {s}
    BY <1>0, <1>1, <2>1, StartFacts DEF Start
  <2>3. ASSUME NEW m \in Node, NEW r \in Port, Has(m, r)
        PROVE  Has(m, r)' \/ (m = s.node /\ r = s.port)
    <3>1. CASE server[r] # None /\ server[r].node = m
      <4>1. server'[r] = server[r]
        BY <1>0, <2>1, <2>2, <3>1 DEF Started, AgentTyped
      <4>2. QED
        BY <3>1, <4>1 DEF Has
    <3>2. CASE [node |-> m, port |-> r] \in starts
      BY <2>1, <2>2, <3>2 DEF Has
    <3>3. QED
      BY <1>a, <2>3, <3>1, <3>2 DEF Has
  <2>4. QED
    BY <1>a, <2>1, <2>2, <2>3, StartedServers
<1>2. ASSUME NEW p \in Port, Listen(p) PROVE ServersInv'
  <2>0. server[p] \in Server
    BY <1>0, <1>2 DEF Listen, AgentTyped, Maybe
  <2> DEFINE stage == IF p \in closing THEN "dead" ELSE "up"
             s == [server[p] EXCEPT !.at = stage]
  <2>1. s \in Server /\ s.node = server[p].node /\ (s.at = "dead" => p \in closing)
    BY <2>0 DEF Server
  <2>2. server' = [server EXCEPT ![p] = s]
    BY <1>2 DEF Listen
  <2> HIDE DEF s
  <2>3. server'[p] = s /\ s # None /\ \A r \in Port \ {p} : server'[r] = server[r]
    BY <1>0, <2>1, <2>2, ProxierAssumption DEF AgentTyped
  <2>4. p \in closing => server[p].node \in raced'
    BY <1>2 DEF Listen
  <2>5. server[p] # None /\ UNCHANGED starts
    BY <1>2 DEF Listen
  <2>6. ASSUME NEW m \in Node PROVE KnownOk(m)'
    <3> SUFFICES ASSUME m \notin raced', states[m] # None PROVE Has(m, states[m].port)'
      BY <1>a DEF KnownOk
    <3>1. Has(m, states[m].port) /\ states[m].port \in Port
      BY <1>0, <1>a, ServersParts, PortFacts DEF KnownOk, AgentTyped, Maybe
    <3>2. QED
      BY <1>a, <2>1, <2>3, <2>5, <3>1 DEF Has
  <2>7. ASSUME NEW r \in Port PROVE ServerOk(r)'
    <3>1. ServerOk(r)
      BY ServersParts
    <3>2. QED
      BY <1>a, <2>1, <2>3, <2>4, <2>5, <3>1 DEF ServerOk, Busy
  <2>8. QED
    BY <2>6, <2>7, ServersParts
<1>3. CASE UNCHANGED <<server, starts, raced>>
  <2>1. \A m \in Node : KnownOk(m) => KnownOk(m)'
    BY <1>3, <1>a DEF KnownOk, Has
  <2>2. \A r \in Port : ServerOk(r) => ServerOk(r)'
    BY <1>3, <1>a DEF ServerOk, Busy
  <2>3. QED
    BY <2>1, <2>2, ServersParts
<1>4. CASE (\E p \in Port : Shutdown(p)) \/ Collect \/ \E c \in round : CollectedAny(c)
  BY <1>3, <1>4 DEF Shutdown, Collect, CollectedAny, Collected
<1>5. QED
  BY <1>1, <1>2, <1>4 DEF Beside

LEMMA WorkerServers ==
  ASSUME TypeInv, NodesInv, ServersInv, NEW n \in Node, Worker(n)
  PROVE  ServersInv'
<1>0. NodesTyped /\ AgentTyped
  BY TypeParts
<1>1. CASE Reconcile(n) \/ RecordNode(n) \/ MapPort(n)
  <2>1. UNCHANGED <<server, starts, states, boot>> /\ raced \subseteq raced'
    BY <1>1 DEF Reconcile, RecordNode, MapPort
  <2>2. \A m \in Node : Busy(m) => Busy(m)' /\ work'[m].old = work[m].old
    <3> SUFFICES ASSUME NEW m \in Node, Busy(m) PROVE Busy(m)' /\ work'[m].old = work[m].old
      OBVIOUS
    <3>1. CASE m # n
      BY <1>0, <1>1, <3>1 DEF Reconcile, RecordNode, MapPort, NodesTyped, Busy
    <3>2. CASE m = n
      <4>1. MapPort(n) /\ work[n] \in Job
        BY <1>0, <1>1, <3>2 DEF Reconcile, RecordNode, NodesTyped, Busy
      <4>2. work'[n] = [work[n] EXCEPT !.at = "agent"]
        BY <1>0, <4>1 DEF MapPort, NodesTyped
      <4>3. QED
        BY <3>2, <4>1, <4>2 DEF Busy, Job
    <3>3. QED
      BY <3>1, <3>2
  <2>3. \A m \in Node : KnownOk(m) => KnownOk(m)'
    BY <2>1 DEF KnownOk, Has
  <2>4. \A r \in Port : ServerOk(r) => ServerOk(r)'
    <3> SUFFICES ASSUME NEW r \in Port, ServerOk(r) PROVE ServerOk(r)'
      OBVIOUS
    <3>1. server[r] # None => server[r].node \in Node
      BY <1>0 DEF AgentTyped, Maybe, Server
    <3>2. QED
      BY <2>1, <2>2, <3>1 DEF ServerOk
  <2>5. QED
    BY <2>3, <2>4, ServersParts
<1>2. CASE TellAgent(n)
  <2> DEFINE old == work[n].old
             new == work[n].new
  <2>1. /\ work' = [work EXCEPT ![n] = Idle] /\ states' = [states EXCEPT ![n] = new]
        /\ starts \subseteq starts' /\ raced \subseteq raced' /\ (Entered(n) \/ Left(n))
        /\ work[n].at = "agent" /\ UNCHANGED boot
    BY <1>2, TellFacts DEF TellAgent
  <2>2. /\ states'[n] = new /\ \A m \in Node \ {n} : states'[m] = states[m]
        /\ \A m \in Node \ {n} : work'[m] = work[m]
    BY <1>0, <2>1 DEF NodesTyped, AgentTyped
  <2>3. n \notin raced => states[n] \in {old, new}
    BY <2>1 DEF NodesInv, TablesAgree, Busy
  <2>4. /\ old # None => old \in Info /\ old.port \in Port /\ PortOf(old) = old.port
        /\ new # None => new \in Info /\ new.port \in Port /\ PortOf(new) = new.port
        /\ PortOf(None) = None /\ None \notin Port
    <3>1. old \in Maybe(Info) /\ new \in Maybe(Info)
      BY <1>0 DEF NodesTyped, Job
    <3>2. QED
      BY <3>1, PortFacts, NoneFacts DEF Maybe
  <2>a. /\ \A r \in Port : server'[r] = server[r] \/ (server'[r] = None /\ Left(n) /\ r = old.port)
    BY <1>0, <2>1, <2>4 DEF Entered, Left, AgentTyped
  <2>5. ASSUME NEW m \in Node PROVE KnownOk(m)'
    <3> SUFFICES ASSUME m \notin raced', states'[m] # None PROVE Has(m, states[m].port)'
      BY DEF KnownOk
    <3>1. m \notin raced /\ KnownOk(m)
      BY <2>1, ServersParts
    <3>2. CASE m # n
      <4>1. Has(m, states[m].port) /\ states'[m] = states[m] /\ states[m].port \in Port
        BY <1>0, <2>2, <3>1, <3>2, PortFacts DEF KnownOk, AgentTyped, Maybe
      <4>2. ASSUME NEW r \in Port, server[r] # None, server[r].node = m
            PROVE  server'[r] = server[r]
        BY <2>a, <3>2, <4>2 DEF Left
      <4>3. QED
        BY <2>1, <4>1, <4>2 DEF Has
    <3>3. CASE m = n /\ new # None
      <4>1. CASE [node |-> n, port |-> new.port] \in starts'
        BY <2>2, <3>3, <4>1 DEF Has
      <4>2. CASE [node |-> n, port |-> new.port] \notin starts'
        <5>1. Entered(n) /\ old # None /\ old.port = new.port
          BY <2>1, <3>3, <4>2 DEF Entered, Left
        <5>2. states[n] # None /\ states[n].port = new.port
          BY <2>3, <3>1, <3>3, <5>1
        <5>3. Has(n, new.port)
          BY <3>1, <3>3, <5>2 DEF KnownOk
        <5>4. QED
          BY <2>1, <2>2, <3>3, <5>1, <5>3 DEF Has, Entered
      <4>3. QED
        BY <4>1, <4>2
    <3>4. QED
      BY <2>2, <3>2, <3>3
  <2>6. ASSUME NEW r \in Port PROVE ServerOk(r)'
    <3> SUFFICES ASSUME server'[r] # None, server'[r].node \notin raced' PROVE ServerOk(r)'
      BY DEF ServerOk
    <3>1. server'[r] = server[r] /\ ~(Left(n) /\ r = old.port /\ server[r].node = n)
      BY <1>0, <2>a, <2>4 DEF Left, AgentTyped
    <3>2. ServerOk(r) /\ server[r].node \in Node
      BY <1>0, <3>1, ServersParts DEF AgentTyped, Maybe, Server
    <3>3. CASE server[r].node # n
      BY <2>1, <2>2, <3>1, <3>2, <3>3 DEF ServerOk, Busy
    <3>4. CASE server[r].node = n
      <4>1. r = PortOf(states[n]) \/ r = PortOf(old)
        BY <2>1, <3>1, <3>2, <3>4 DEF ServerOk
      <4>2. states[n] \in {old, new}
        BY <2>1, <2>3, <3>1, <3>4
      <4>3. r = PortOf(old) \/ r = PortOf(new)
        BY <4>1, <4>2
      <4>4. r = PortOf(new)
        <5>1. CASE Left(n)
          BY <2>4, <3>1, <3>4, <4>3, <5>1 DEF Left
        <5>2. CASE Entered(n)
          BY <2>4, <4>3, <5>2 DEF Entered
        <5>3. QED
          BY <2>1, <5>1, <5>2
      <4>5. QED
        BY <2>1, <2>2, <3>1, <3>2, <3>4, <4>4 DEF ServerOk
    <3>5. QED
      BY <3>3, <3>4
  <2>7. QED
    BY <2>5, <2>6, ServersParts
<1>3. QED
  BY <1>1, <1>2 DEF Worker
LEMMA MainServers == TypeInv /\ NodesInv /\ ServersInv /\ Main => ServersInv'
<1> SUFFICES ASSUME TypeInv, NodesInv, ServersInv, Main PROVE ServersInv'
  OBVIOUS
<1>0. NodesTyped /\ AgentTyped
  BY TypeParts
<1>a. boot.nodes \in [Node -> Maybe(Info)] /\ boot \in [at : Stages, nodes : [Node -> Maybe(Info)]]
  BY <1>0 DEF NodesTyped
<1>b. ASSUME UNCHANGED <<server, starts, states, work>>, raced \subseteq raced',
             boot.at \notin {"serve", "serveagain"} \/ (\A n \in Node : boot.nodes[n] = None)
      PROVE  ServersInv'
  <2>1. \A m \in Node : KnownOk(m) => KnownOk(m)'
    BY <1>b DEF KnownOk, Has
  <2>2. \A r \in Port : ServerOk(r) => ServerOk(r)'
    BY <1>b DEF ServerOk, Busy
  <2>3. QED
    BY <2>1, <2>2, ServersParts
<1>1. CASE ListExisting \/ SyncExisting \/ Initialized \/ CopyCurrent
  BY <1>1, <1>b DEF ListExisting, SyncExisting, Initialized, CopyCurrent
<1>2. CASE InitializeStates
  <2>1. /\ boot.at \in {"init", "again"} /\ boot'.at \in {"serve", "serveagain"}
        /\ boot'.nodes = boot.nodes /\ states' = boot.nodes
    BY <1>2, <1>a DEF InitializeStates
  <2>2. UNCHANGED <<server, starts, work, raced>>
    BY <1>2 DEF InitializeStates
  <2>3. ASSUME NEW m \in Node PROVE KnownOk(m)'
    BY <2>1 DEF KnownOk, Has
  <2>4. ASSUME NEW r \in Port PROVE ServerOk(r)'
    <3> SUFFICES ASSUME server[r] # None, server[r].node \notin raced PROVE ServerOk(r)'
      BY <2>2 DEF ServerOk
    <3> DEFINE m == server[r].node
    <3>1. m \in Node /\ ServerOk(r)
      BY <1>0, ServersParts DEF AgentTyped, Maybe, Server
    <3>2. Tracked(m) /\ TablesAgree(m) /\ CopyFits(m)
      BY <3>1 DEF NodesInv
    <3>3. states'[m] = current[m]
      BY <2>1, <3>1, <3>2 DEF CopyFits
    <3>4. PortOf(states[m]) = r => states[m] # None
      BY PortFacts, NoneFacts
    <3>5. \/ PortOf(states'[m]) = r
          \/ Busy(m) /\ PortOf(work[m].old) = r
      <4>1. CASE Busy(m)
        BY <3>1, <3>2, <3>3, <4>1 DEF ServerOk, TablesAgree
      <4>2. CASE ~Busy(m)
        BY <3>1, <3>2, <3>3, <3>4, <4>2 DEF ServerOk, TablesAgree
      <4>3. QED
        BY <4>1, <4>2
    <3>6. QED
      BY <2>2, <3>1, <3>5 DEF ServerOk, Busy
  <2>5. QED
    BY <2>3, <2>4, ServersParts
<1>3. ASSUME NEW n \in Node, InitializeServer(n) PROVE ServersInv'
  <2> DEFINE p == boot.nodes[n].port
  <2>1. p \in Port
    BY <1>3, <1>a, PortFacts DEF InitializeServer, Maybe
  <2>2. Started(n, p) /\ UNCHANGED <<work, states, starts>>
    BY <1>0, <1>3, <2>1, StartFacts DEF InitializeServer
  <2>3. boot'.at = boot.at /\ \A m \in Node \ {n} : boot'.nodes[m] = boot.nodes[m]
    BY <1>3, <1>a DEF InitializeServer
  <2>4. ASSUME NEW m \in Node, NEW r \in Port, Has(m, r)
        PROVE  Has(m, r)' \/ (m = n /\ r = p)
    <3>1. CASE server[r] # None /\ server[r].node = m
      <4>1. server'[r] = server[r]
        BY <1>0, <2>1, <2>2, <3>1 DEF Started, AgentTyped
      <4>2. QED
        BY <3>1, <4>1 DEF Has
    <3>2. CASE [node |-> m, port |-> r] \in starts
      BY <2>2, <3>2 DEF Has
    <3>3. CASE /\ boot.at \in {"serve", "serveagain"}
               /\ boot.nodes[m] # None /\ boot.nodes[m].port = r
      BY <2>3, <3>3 DEF Has
    <3>4. QED
      BY <2>4, <3>1, <3>2, <3>3 DEF Has
  <2> HIDE DEF p
  <2>5. QED
    BY <2>1, <2>2, <2>4, StartedServers
<1>4. QED
  BY <1>1, <1>2, <1>3 DEF Main

LEMMA ServersStep == TypeInv /\ NodesInv /\ ServersInv /\ [Next]_vars => ServersInv'
<1> SUFFICES ASSUME TypeInv, NodesInv, ServersInv, [Next]_vars PROVE ServersInv'
  OBVIOUS
<1>1. CASE UNCHANGED <<server, starts, states, work, raced, boot>>
  <2>1. \A m \in Node : KnownOk(m) => KnownOk(m)'
    BY <1>1 DEF KnownOk, Has
  <2>2. \A r \in Port : ServerOk(r) => ServerOk(r)'
    BY <1>1 DEF ServerOk, Busy
  <2>3. QED
    BY <2>1, <2>2, ServersParts
<1>2. CASE (\E n \in Node : ChangeNode(n) \/ ReleaseProxierPort(n)) \/ UNCHANGED vars
  BY <1>1, <1>2 DEF ChangeNode, ReleaseProxierPort, vars
<1>3. QED
  BY <1>2, BesideServers, WorkerServers, MainServers DEF Next, Beside

----------------------------------------------------------------------------
(* Rounds of collection.                                                   *)

Stored(n) == /\ metrics[states[n].port] = states[n].ip
             /\ summary[states[n].port] = states[n].ip

LEMMA RoundInit == Init => RoundInv
BY DEF Init, RoundInv

LEMMA RoundStep == TypeInv /\ RoundInv /\ [Next]_vars => RoundInv'
<1> SUFFICES ASSUME TypeInv, RoundInv, [Next]_vars PROVE RoundInv'
  OBVIOUS
<1>0. AgentTyped /\ CollectTyped
  BY TypeParts
<1>1. CASE UNCHANGED <<states, round, metrics, summary, swept>>
  BY <1>1 DEF RoundInv, Alone
<1>2. CASE swept' = "no"
  BY <1>2 DEF RoundInv
<1>3. CASE Collect
  <2>1. /\ round' = {[node |-> n, info |-> states[n]] : n \in {m \in Node : states[m] # None}}
        /\ swept' = "running" /\ UNCHANGED <<states, metrics, summary>>
    BY <1>3 DEF Collect
  <2>2. \A c \in round' : c.info = states[c.node]
    BY <2>1
  <2>3. \A n \in Node : states[n] # None => [node |-> n, info |-> states[n]] \in round'
    BY <2>1
  <2>4. QED
    BY <2>1, <2>2, <2>3 DEF RoundInv
<1>4. ASSUME NEW c \in round, NEW got \in SUBSET Answers, Collected(c, got) PROVE RoundInv'
  <2>0. /\ c.node \in Node /\ c.info \in Info /\ c.info.port \in Port
        /\ c = [node |-> c.node, info |-> c.info]
    BY <1>0 DEF CollectTyped, Info
  <2>1. round' = round \ {c} /\ UNCHANGED states
    BY <1>4 DEF Collected
  <2>2. CASE swept = "no" \/ got # Answers
    <3>1. swept' = "no"
      BY <1>4, <2>2 DEF Collected
    <3>2. QED
      BY <1>2, <3>1
  <2>3. CASE swept # "no" /\ got = Answers
    <3>0. swept = "running"
      BY <1>0, <2>3 DEF RoundInv, CollectTyped
    <3>1. swept' = "yes" => round' = {}
      BY <1>4, <2>3, <3>0 DEF Collected
    <3>2. /\ metrics' = [metrics EXCEPT ![c.info.port] = c.info.ip]
          /\ summary' = [summary EXCEPT ![c.info.port] = c.info.ip]
      BY <1>4, <2>3 DEF Collected, StoreCollected, Answers
    <3>3. c.info = states[c.node]
      BY <3>0 DEF RoundInv
    <3>4. ASSUME NEW n \in Node, states[n] # None, Alone(n)
          PROVE  [node |-> n, info |-> states[n]] \in round' \/ Stored(n)'
      <4>1. states[n].port \in Port
        BY <1>0, <3>4, PortFacts DEF AgentTyped, Maybe
      <4>2. CASE n = c.node
        BY <1>0, <2>0, <2>1, <3>2, <3>3, <4>2 DEF Stored, AgentTyped, CollectTyped
      <4>3. CASE n # c.node
        <5>1. states[n].port # c.info.port
          BY <2>0, <3>3, <3>4, <4>3, PortFacts DEF Alone
        <5>2. /\ metrics'[states[n].port] = metrics[states[n].port]
              /\ summary'[states[n].port] = summary[states[n].port]
          BY <1>0, <2>0, <3>2, <4>1, <5>1 DEF AgentTyped, CollectTyped
        <5>3. [node |-> n, info |-> states[n]] \in round \/ Stored(n)
          BY <3>0, <3>4 DEF RoundInv, Stored
        <5>4. [node |-> n, info |-> states[n]] # c
          BY <2>0, <4>3
        <5>5. QED
          BY <2>1, <5>2, <5>3, <5>4 DEF Stored
      <4>4. QED
        BY <4>2, <4>3
    <3>5. \A d \in round' : d.info = states'[d.node]
      BY <2>1, <3>0 DEF RoundInv
    <3>6. \A n \in Node : Alone(n)' <=> Alone(n)
      BY <2>1 DEF Alone
    <3>7. QED
      BY <2>1, <3>1, <3>4, <3>5, <3>6 DEF RoundInv, Stored
  <2>4. QED
    BY <2>2, <2>3
<1>5. CASE Main
  BY <1>1, <1>2, <1>5 DEF Main, ListExisting, SyncExisting, InitializeStates, InitializeServer,
                          Initialized, CopyCurrent
<1>6. ASSUME NEW n \in Node, Worker(n) \/ ChangeNode(n) \/ ReleaseProxierPort(n)
      PROVE  RoundInv'
  BY <1>1, <1>2, <1>6 DEF Worker, Reconcile, RecordNode, MapPort, TellAgent, ChangeNode,
                          ReleaseProxierPort
<1>7. CASE \E s \in starts : Start(s)
  BY <1>1, <1>7 DEF Start
<1>8. CASE \E p \in Port : Listen(p) \/ Shutdown(p)
  BY <1>1, <1>8 DEF Listen, Shutdown
<1>9. CASE UNCHANGED vars
  BY <1>1, <1>9 DEF vars
<1>10. QED
  BY <1>3, <1>4, <1>5, <1>6, <1>7, <1>8, <1>9 DEF Next, CollectedAny

----------------------------------------------------------------------------
LEMMA Invariance == Spec => []IInv
<1>1. Init => IInv
  BY TypeInit, NodesInit, ServersInit, RoundInit DEF IInv
<1>2. IInv /\ [Next]_vars => IInv'
  BY TypeStep, NodesStep, ServersStep, RoundStep DEF IInv
<1>3. QED
  BY <1>1, <1>2, PTL DEF Spec

LEMMA RestNodes ==
  ASSUME IInv, AtRest, NEW n \in Node \ raced
  PROVE  current[n] = api[n] /\ mapper[n] = PortOf(api[n]) /\ states[n] = api[n]
<1>1. Tracked(n) /\ TablesAgree(n) /\ work[n].at = "idle" /\ n \notin queued /\ boot.at = "done"
  BY DEF IInv, NodesInv, AtRest
<1>2. QED
  BY <1>1 DEF Tracked, TablesAgree, Busy

LEMMA RestServers ==
  ASSUME IInv, AtRest, NEW n \in Node \ raced, api[n] # None
  PROVE  server[api[n].port] = [node |-> n, at |-> "up"]
<1> DEFINE p == api[n].port
<1>1. states[n] = api[n] /\ AgentTyped /\ NodesTyped
  BY RestNodes, TypeParts DEF IInv
<1>2. p \in Port
  BY <1>1, PortFacts DEF NodesTyped, Maybe
<1> HIDE DEF p
<1>3. Has(n, p)
  BY <1>1, ServersParts DEF IInv, KnownOk, p
<1>4. server[p] # None /\ server[p].node = n
  BY <1>3 DEF AtRest, Has
<1>5. server[p].at # "dead" /\ server[p].at # "starting" /\ server[p] \in Server
  BY <1>1, <1>2, <1>4, ServersParts DEF IInv, ServerOk, AtRest, AgentTyped, Maybe
<1>6. server[p].at = "up"
  BY <1>5 DEF Server
<1>7. server[p] = [node |-> n, at |-> "up"]
  BY <1>4, <1>5, <1>6 DEF Server
<1>8. QED
  BY <1>7 DEF p

\* When nothing is left to do, CurrentNodes, the port mapper, the agent's nodes and the
\* HTTP servers are those of the cluster, for every node that met none of the named
\* races, however reconciles, goroutines and both initialisations interleaved
\* (handleNodeUpdate, SyncExistingNodes, InitializeWithNodes, startHTTPServerForNode).
THEOREM TablesFollow == Spec => []Follows
<1>1. IInv => NodesFollow
  BY RestNodes DEF NodesFollow
<1>2. ASSUME IInv, AtRest, NEW p \in Port, server[p] # None, server[p].node \notin raced
      PROVE  PortOf(api[server[p].node]) = p
  <2> DEFINE n == server[p].node
  <2>1. n \in Node
    BY <1>2, TypeParts DEF IInv, AgentTyped, Maybe, Server
  <2>2. states[n] = api[n] /\ ~Busy(n)
    BY <1>2, <2>1, RestNodes DEF AtRest, Busy
  <2>3. ServerOk(p)
    BY <1>2, ServersParts DEF IInv
  <2>4. QED
    BY <1>2, <2>2, <2>3 DEF ServerOk
<1>3. IInv => ServersFollow
  BY <1>2, RestServers DEF ServersFollow
<1>4. QED
  BY <1>1, <1>3, Invariance, PTL DEF Follows

\* After a whole round since the last change a node's port serves the data of its own
\* kubelet, whatever an earlier user of the port or an earlier round left there
\* (collectMetricsFromAllNodes, OnNodeDeleted).
THEOREM MetricsOwn == Spec => []OwnMetrics
<1>1. ASSUME IInv, AtRest, swept = "yes", NEW n \in Node \ raced, api[n] # None,
             \A m \in raced \ {n} : PortOf(states[m]) # api[n].port
      PROVE  metrics[api[n].port] = api[n].ip /\ summary[api[n].port] = api[n].ip
  <2>1. states[n] = api[n]
    BY <1>1, RestNodes
  <2>2. ASSUME NEW m \in Node \ {n} PROVE PortOf(states[m]) # states[n].port
    <3>1. CASE m \in raced
      BY <1>1, <2>1, <3>1
    <3>2. CASE m \notin raced
      <4>1. states[m] = api[m]
        BY <1>1, <3>2, RestNodes
      <4>2. server[api[n].port] = [node |-> n, at |-> "up"]
        BY <1>1, RestServers
      <4>3. api[m] # None => server[api[m].port] = [node |-> m, at |-> "up"]
        BY <1>1, <3>2, RestServers
      <4>4. api[n] \in Info /\ api[m] \in Maybe(Info)
        BY <1>1, TypeParts DEF IInv, NodesTyped, Maybe
      <4>5. QED
        BY <2>1, <4>1, <4>2, <4>3, <4>4, PortFacts DEF Maybe
    <3>3. QED
      BY <3>1, <3>2
  <2>3. Alone(n)
    BY <2>2 DEF Alone
  <2>4. QED
    BY <1>1, <2>1, <2>3 DEF IInv, RoundInv
<1>2. IInv => OwnMetrics
  BY <1>1 DEF OwnMetrics
<1>3. QED
  BY <1>2, Invariance, PTL
==============================================================================
