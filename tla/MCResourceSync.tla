--------------------------- MODULE MCResourceSync ---------------------------
(* Model checking of ResourceSync.                                             *)
EXTENDS ResourceSync

CONSTANT Steady   \* the clusters whose bindings stay

\* All bindings use the default mount namespace.
SameMount == [c \in Cluster |-> "mount"]

\* Bound: one departure, one crash or one name that is taken, and then an object
\* that keeps its content; a content that changes while one of the clusters has a
\* copy.  The clusters are alike, so that it does not matter which of them leaves.
Troubles ==
  restarts + Cardinality(leaving) + Cardinality({c \in Cluster : phys[c].foreign})

OneTrouble ==
  /\ leaving \cap Steady = {}
  /\ Troubles <= 1 /\ (Troubles = 1 => version <= 1)
  /\ version = 2 => \A c \in Steady : phys[c].uid = 0
=============================================================================
