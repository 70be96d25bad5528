------------------------------ MODULE NodeView -------------------------------
(***************************************************************************)
(* A virtual node as the controllers that follow it see it: it is made,    *)
(* updated and removed by the node controller (module VirtualNode) and     *)
(* read from a cache.                                                      *)
(***************************************************************************)
EXTENDS Integers, FiniteSets

CONSTANTS
  None,
  MaxChange,  \* bound: changes in the two clusters
  MaxError    \* bound: API calls that fail

ASSUME ViewAssumption == MaxChange \in Nat /\ MaxError \in Nat

VARIABLES
  vn, vc,    \* the virtual node; in the cache
  changes, errors

nvars == <<vn, vc, changes, errors>>

\* Nodes of one name have identities one after the other; ip is the address at
\* which the proxier serves the node, None when it is empty.
NoVNode(uid) == [on |-> FALSE, uid |-> uid, ip |-> None]

\* A watch tells of a node that is made anew by a deletion and an addition.
NextSeen == IF vc.on /\ vc.uid # vn.uid THEN NoVNode(vc.uid) ELSE vn

\* Something changes in the clusters.
Change == changes < MaxChange /\ changes' = changes + 1

\* An API call fails.
Error == errors < MaxError /\ errors' = errors + 1
==============================================================================
