--------------------------- MODULE PortAllocation ----------------------------
(***************************************************************************)
(* What the proxier is promised about ports: a client has one port or      *)
(* none, no two clients have the same one, and the port of a client does   *)
(* not change until it is given up.                                        *)
(***************************************************************************)
CONSTANTS Client, Port, None

VARIABLE owns   \* owns[c]: the port of c, or None

Init == owns = [c \in Client |-> None]

Acquire(c) ==
  /\ owns[c] = None
  /\ \E p \in Port : /\ \A d \in Client : owns[d] # p
                     /\ owns' = [owns EXCEPT ![c] = p]

GiveUp(c) == owns[c] # None /\ owns' = [owns EXCEPT ![c] = None]

Next == \E c \in Client : Acquire(c) \/ GiveUp(c)

Spec == Init /\ [][Next]_owns
==============================================================================
