------------------------------ MODULE MCRounds ------------------------------
(* Four delegates for rounds of three blocks, and one account that votes.  *)
(* Version 2 starts with the last block of the first round.                *)
EXTENDS DelegatesInfo

CONSTANTS alice, bob, carol, dave, voter, ka, kb, kc, kd, ka2, kg, revote, rekey

Body(type, sender) ==
  [type |-> type, sender |-> sender, recipient |-> None, amount |-> 0, fee |-> 1,
   key |-> None, votes |-> {}]
TxBodies == (revote :> [Body("vote", voter) EXCEPT !.votes = {dave}, !.fee = 4])
         @@ (rekey :> [Body("key", alice) EXCEPT !.key = ka2])
MCTx == TxBodies
MCAccounts == {alice, bob, carol, dave, voter}
MCKeys == {ka, kb, kc, kd, ka2, kg}
Ranks == (ka :> 1) @@ (kb :> 2) @@ (kc :> 3) @@ (kd :> 4) @@ (ka2 :> 5) @@ (kg :> 6)
Addresses == (ka :> alice) @@ (kb :> bob) @@ (kc :> carol) @@ (kd :> dave) @@ (ka2 :> None) @@ (kg :> voter)
Ledger0 == (alice :> [balance |-> 6, key |-> ka, votes |-> {alice}])
          @@ (bob :> [balance |-> 5, key |-> kb, votes |-> {bob}])
          @@ (carol :> [balance |-> 40, key |-> kc, votes |-> {carol}])
          @@ (dave :> [balance |-> 30, key |-> kd, votes |-> {dave}])
          @@ (voter :> [balance |-> 9, key |-> None, votes |-> {alice}])
RewardSteps == <<[fromHeight |-> 1, reward |-> 0], [fromHeight |-> 2, reward |-> 3],
                  [fromHeight |-> 6, reward |-> 1]>>
MCKeyRank == Ranks
MCKeyAddress == Addresses
MCGenesis == Ledger0
MCMilestones == RewardSteps
MCWeight(seed, key, vote, round) == vote * (((seed + MCKeyRank[key]) % 3) + 1)
MCSeedByte(seed, i) == seed + 2 * i
MCTxs == {revote, rekey}
=============================================================================
