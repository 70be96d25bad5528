-------------------------- MODULE MCClusterBinding --------------------------
(* Model checking of ClusterBinding.  The .cfg files choose which identifiers  *)
(* users give to the bindings.                                                 *)
EXTENDS ClusterBinding, TLC

\* Every binding may get every identifier.
AnyID == [b \in Binding |-> ClusterID]

\* Bindings, and identifiers, are interchangeable when every binding may get every
\* identifier.
Symmetric == Permutations(Binding) \union Permutations(ClusterID)

\* Bound: no syncer runs, and none has made anything.
NoSyncer == (\A i \in ClusterID : proc[i] = None) /\ (\A b \in Binding : res[b] = {})

\* Bound: one binding with its syncer and its deletion, and a failed call or a restart.
Alone == /\ changes = 0 /\ restarts + errors <= 1
         /\ \E b \in Binding : obj[b].uid <= 1 /\ \A c \in Binding \ {b} : obj[c].uid = 0

\* Bound: two bindings that may want the same identifier, while no syncer runs, with
\* a changed identifier and a restart of the manager, or with a deletion.
Clash == NoSyncer /\ errors = 0 /\ (deletes = 0 \/ restarts + changes = 0)

\* Bound: a name is used again, with the identifier of another binding that is Ready
\* and for which the manager has nothing to do.
Reuse == \A b \in Binding : obj[b].uid = 2 =>
           \A c \in Binding \ {b} : Admitted(c) /\ obj[b].id \in {obj[c].id, None}

AloneOrClash == Alone \/ (Clash /\ Reuse)
=============================================================================
