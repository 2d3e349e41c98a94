------------------------------- MODULE MCChain -------------------------------
(* Two forks after the second block, one of two blocks and one of three,    *)
(* the last of which no state accepts; an older competitor e2 of the second *)
(* block, with a successor e3 older than a2; and on the second fork b4      *)
(* older than a3, so that both fork rules have a received block that wins.  *)
EXTENDS Chain, TLC

CONSTANTS g, a2, a3, a4, b3, b4, b5, e2, e3

MCBlocks == {g, a2, a3, a4, b3, b4, b5, e2, e3}
MCParent == (a2 :> g) @@ (a3 :> a2) @@ (a4 :> a3)
              @@ (b3 :> a2) @@ (b4 :> b3) @@ (b5 :> b4) @@ (e2 :> g) @@ (e3 :> e2)
MCHeight == (g :> 1) @@ (a2 :> 2) @@ (a3 :> 3) @@ (a4 :> 4)
              @@ (b3 :> 3) @@ (b4 :> 4) @@ (b5 :> 5) @@ (e2 :> 2) @@ (e3 :> 3)
MCTime == (g :> 0) @@ (e2 :> 1) @@ (e3 :> 2) @@ (a2 :> 3) @@ (b3 :> 4)
            @@ (b4 :> 5) @@ (a3 :> 6) @@ (a4 :> 7) @@ (b5 :> 8)
MCRank == (g :> 1) @@ (a2 :> 2) @@ (a3 :> 3) @@ (a4 :> 4)
            @@ (b3 :> 5) @@ (b4 :> 6) @@ (b5 :> 7) @@ (e2 :> 8) @@ (e3 :> 9)
MCUnprocessable == {b5}

PeerA == [path |-> <<g, a2, a3, a4>>, height |-> 4]
PeerB == [path |-> <<g, a2, b3, b4, b5>>, height |-> 5]
PeerBehind == [path |-> <<g, a2, b3>>, height |-> 5]

(* A peer on each fork, and one that serves less than the height it claims. *)
MCPeers == {PeerA, PeerB, PeerBehind}

(* Peers of a single fork. *)
MCOneFork == {PeerB, PeerBehind}
=============================================================================
