---------------------------- MODULE MCDelegation ----------------------------
(* Three accounts.  alice is a delegate from genesis and changes her key;   *)
(* bob votes for her with an old or a new transaction, gives his vote to    *)
(* the next delegate, and enables a second signature; bob and carol want    *)
(* the same user name.                                                      *)
EXTENDS Delegation

CONSTANTS alice, bob, carol, x, y, k0, k1, kb, kc,
          g, voteX, swapVote, oldVoteX, change1, regY, regYToo, second

Body(type, sender) ==
  [type |-> type, sender |-> sender, added |-> <<>>, removed |-> <<>>,
   username |-> None, forgingPK |-> None, signatures |-> 1]
TxBodies ==
     (g :> [Body("delegate", alice) EXCEPT !.username = x, !.forgingPK = k0])
  @@ (voteX :> [Body("vote", bob) EXCEPT !.added = <<x>>])
  @@ (swapVote :> [Body("vote", bob) EXCEPT !.added = <<y>>, !.removed = <<x>>,
                                            !.signatures = 2])
  @@ (oldVoteX :> [Body("oldVote", bob) EXCEPT !.added = <<k0>>, !.signatures = 2])
  @@ (change1 :> [Body("delegate", alice) EXCEPT !.forgingPK = k1])
  @@ (regY :> [Body("delegate", bob) EXCEPT !.username = y, !.forgingPK = kb, !.signatures = 2])
  @@ (regYToo :> [Body("delegate", carol) EXCEPT !.username = y, !.forgingPK = kc])
  @@ (second :> Body("secondSignature", bob))
MCTx == TxBodies  \* evaluated once
MCTxs == {g, voteX, swapVote, oldVoteX, change1, regY, regYToo, second}
MCAccounts == {alice, bob, carol}
MCUsernames == {x, y}
MCKeys == {k0, k1, kb, kc}
MCGenesis == <<g>>
=============================================================================
