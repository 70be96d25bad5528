------------------------------ MODULE MCLeasing ------------------------------
(* Two policies, days of four minutes, one pod that tolerates the taint and *)
(* one that does not.  The clock runs from Monday noon to Tuesday morning:   *)
(* a window opens, closes at midnight and stays closed for a minute.         *)
EXTENDS Leasing, TLC

CONSTANTS p1, p2, plain, tolerant

RankMC == p1 :> 1 @@ p2 :> 2
DayMC == <<"monday", "tuesday">>

Lease(w, force, grace, quantity, percent) ==
  [cluster |-> TRUE, sel |-> TRUE, windows |-> w, force |-> force, grace |-> grace,
   quantity |-> quantity, percent |-> percent]
\* Over midnight, but on Tuesdays a minute at noon; reclaimed by force after a minute.
Nights == Lease({[start |-> 3, end |-> 0, days |-> {"monday"}],
                 [start |-> 2, end |-> 2, days |-> {"tuesday"}]}, TRUE, 1, 3, 50)
\* Always open.
Always == Lease({}, FALSE, 0, 0, 0)
\* Not a time: never open; a limit above what the node has.
Broken == Lease({[start |-> None, end |-> 1, days |-> {}]}, TRUE, 0, 9, 0)
\* Of another cluster.
Foreign == [Nights EXCEPT !.cluster = FALSE]

SpecsMC == {Nights, Always, Broken, Foreign}

\* One thing at a time besides the clock: an edit, a taint, an error, or a pod that
\* tolerates.  The younger policy, which does not rule beside p1, is always open.
OneChange == /\ edits + taints + errors + (IF pod[tolerant] = "unborn" THEN 0 ELSE 1) <= 1
             /\ policy[p2].spec \in {None, Always}

StartMC == p1 :> Nights @@ p2 :> None
==============================================================================
