----------------------------- MODULE MCFollowers -----------------------------
(* Instances of Followers for TLC. *)
EXTENDS Followers, TLC

CONSTANTS p1, p2, p3

Ports == {{}, {1}, {1, 2}}
Symmetric == Permutations(Proxiers)

\* The controllers meet only in the virtual node: one of them at a time has
\* something to follow.
PortsInPlay == label \/ labelc \/ ports # {} \/ fake # {}
CSIInPlay == cs # None \/ csc # None \/ vcs.uid > 0
WatchInPlay == \E p \in Proxiers : px[p] # "none"
\* While the cache holds a virtual node that is gone, fake pods are made and
\* collected without end: three of them are enough.
OneInPlay == /\ nfake <= 3
             /\ ~(PortsInPlay /\ CSIInPlay)
             /\ ~(PortsInPlay /\ WatchInPlay)
             /\ ~(CSIInPlay /\ WatchInPlay)
==============================================================================
