----------------------------- MODULE MCSequence -----------------------------
(* An instance with two of the sequences: a received block (default) that  *)
(* is applied (balances), a fork (default) that pops one block and then    *)
(* applies another, and a transaction received from a peer (balances).     *)
EXTENDS Sequence, TLC

CONSTANTS default, balances, receive, fork, incoming, apply1, pop, apply2

MCNames == {default, balances}
MCTasks == {receive, fork, incoming, apply1, pop, apply2}
MCSeqOf == (receive :> default) @@ (fork :> default)
             @@ [t \in {incoming, apply1, pop, apply2} |-> balances]
MCCalls == (receive :> <<apply1>>) @@ (fork :> <<pop, apply2>>)
             @@ [t \in {incoming, apply1, pop, apply2} |-> <<>>]
MCRank == (default :> 1) @@ (balances :> 0)
=============================================================================
