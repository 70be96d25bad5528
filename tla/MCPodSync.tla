----------------------------- MODULE MCPodSync -----------------------------
(* Model checking of PodSync: the bounds are given by the .cfg files.       *)
EXTENDS PodSync
============================================================================
