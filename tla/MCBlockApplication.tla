-------------------------- MODULE MCBlockApplication --------------------------
(* Two accounts and three transactions.  The sender alice affords one of    *)
(* her two transactions; bob can only spend what he receives from her.      *)
EXTENDS BlockApplication

CONSTANTS alice, bob, t1, t2, t3

MCAccounts == {alice, bob}
MCTxs == {t1, t2, t3}
MCSender == (t1 :> alice) @@ (t2 :> alice) @@ (t3 :> bob)
MCRecipient == (t1 :> bob) @@ (t2 :> bob) @@ (t3 :> alice)
MCAmount == (t1 :> 1) @@ (t2 :> 1) @@ (t3 :> 1)
MCFee == (t1 :> 1) @@ (t2 :> 2) @@ (t3 :> 0)
MCGenesis == (alice :> 4) @@ (bob :> 0)
MCHeldBack == {t3}
=============================================================================
