------------------------------- MODULE Ledger -------------------------------
(***************************************************************************)
(* What the blocks table of the database promises, whatever the node that   *)
(* writes it believes: it holds a path of blocks that starts at genesis.    *)
(* It changes by one block at a time, at the end, and genesis stays.        *)
(***************************************************************************)
EXTENDS SequencesExt, Naturals

CONSTANTS Blocks, Genesis, Parent

VARIABLE chain

Init == chain = <<Genesis>>

Extend(b) == Parent[b] = Last(chain) /\ chain' = Append(chain, b)

Retract == Len(chain) > 1 /\ chain' = Front(chain)

Next == (\E b \in Blocks \ {Genesis} : Extend(b)) \/ Retract

Spec == Init /\ [][Next]_chain
=============================================================================
