------------------------------ MODULE MCNetwork ------------------------------
(* A seed, and a node to be discovered whose version is refused at the last *)
(* height.                                                                  *)
EXTENDS Network
CONSTANTS r1, r2
Versions == [r \in Remotes |-> IF r = r2 THEN MaxTip - 1 ELSE MaxTip]
MCAcceptedUpTo == Versions
=============================================================================
