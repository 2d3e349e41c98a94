---------------------------- MODULE MCBroadcaster ----------------------------
(* Four tasks, one of them relayed before, that share a transaction.        *)
EXTENDS Broadcaster
CONSTANTS t1, t2, t3, t4, x1, x2, x3
Bodies == [t \in Tasks |-> CASE t = t1 -> <<x1, x2>> [] t = t2 -> <<x2, x3>>
                             [] t = t3 -> <<x3>> [] t = t4 -> <<x1>>]
MCBody == Bodies
RelayCounts == [t \in Tasks |-> IF t = t4 THEN 1 ELSE 0]
MCRelays == RelayCounts
=============================================================================
