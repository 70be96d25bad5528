---------------------------- MODULE MCVirtualNode ----------------------------
(* Model checking of VirtualNode.                                           *)
EXTENDS VirtualNode, TLC

\* All names have the same hash: the probe has to tell them apart.
Collide == [n \in Node |-> PortMax]

\* Nodes with one hash are interchangeable.
Symmetric == Permutations(Node)

\* Bound: no pod is bound to a virtual node.
NoPods == \A n \in Node : pod[n] = "unborn"
==============================================================================
