------------------------------ MODULE MCTower ------------------------------
(***************************************************************************)
(* Instances of Tower.  The cluster roots 0-1-2-8; 3-4-5 is a fork of 1    *)
(* that it abandons.  With two-deep towers three votes in a row make a     *)
(* root, on the fork too.  A vote on 2 locks the voter out of 3 and 4 but  *)
(* not of 5; votes on 3 and 4 lock it out of the cluster's chain until 8.  *)
(***************************************************************************)
EXTENDS Tower

MCPow2 == [c \in 0..MAX_LOCKOUT_HISTORY |-> 2^c]

MCParent ==
  [s \in (1..5) \cup {8} |-> CASE s = 3 -> 1 [] s = 8 -> 2 [] OTHER -> s - 1]

MCClusterChain == {0, 1, 2, 8}
=============================================================================
