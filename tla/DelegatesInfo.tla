---------------------------- MODULE DelegatesInfo ----------------------------
(***************************************************************************)
(* What the API tells of the delegates (core-consensus-dpos apis and       *)
(* modules/delegates.ts, core-blocks apis): their keys, ranks, voters and  *)
(* rewards, read from the accounts and the blocks of module Rounds at any  *)
(* moment.  A time is a slot; the percentages are left out.                *)
(***************************************************************************)
EXTENDS Rounds

--------------------------------------------------------------------------
(* Keys *)

\* loadForgingPKByDelegate: the keys of a delegate, the oldest first
LoadForgingPKByDelegate(n, a) ==
  LET Key(t) == Tx[t].type = "key" /\ Tx[t].sender = a
      heights == SelectSeq([h \in DOMAIN n.blocks |-> h],
                           LAMBDA h : \E t \in n.blocks[h].txs : Key(t))
  IN <<[forgingPK |-> Genesis[a].key, height |-> 1]>>
       \o [i \in DOMAIN heights |->
             [forgingPK |-> Tx[CHOOSE t \in n.blocks[heights[i]].txs : Key(t)].key,
              height |-> heights[i]]]
KeysOf(n, a) == {fk.forgingPK : fk \in Range(LoadForgingPKByDelegate(n, a))}

GetDelegate(n, a) ==
  [username |-> a, account |-> n.accounts[a], forgingPKs |-> LoadForgingPKByDelegate(n, a)]
\* By the transaction that has registered the key
FindByForgingKey(n, k) ==
  LET senders == {a \in Delegates : k \in KeysOf(n, a)}
  IN IF senders = {} THEN None ELSE GetDelegate(n, CHOOSE a \in senders : TRUE)

--------------------------------------------------------------------------
(* Ranks *)

\* order(): the version is that of the last block
Order(n, S) ==
  LET Strength(a) == IF IsV2(Len(n.blocks)) THEN n.accounts[a].weight ELSE n.accounts[a].vote
      Above(a, b) == \/ Strength(a) > Strength(b)
                     \/ /\ Strength(a) = Strength(b)
                        /\ KeyRank[n.accounts[a].key] < KeyRank[n.accounts[b].key]
  IN SortSeq(SelectSeq(DelegateSeq, LAMBDA a : a \in S), Above)

\* findIndex and one: 0 for who is not there
Rank(ordered, a) == Max({0} \cup {i \in DOMAIN ordered : ordered[i] = a})
(* Mutant: who has missed as many blocks as it may is left out. *)
BelowTheMaximum(n, a) == n.accounts[a].cmb < MaxContinuousMissedBlocks
WithinTheMaximum(n, a) == n.accounts[a].cmb <= MaxContinuousMissedBlocks
CalcDelegateInfo(n, a, ordered) ==
  [rankV1 |-> Rank(ordered, a),
   rankV2 |-> Rank(SelectSeq(ordered, LAMBDA d : WithinTheMaximum(n, d)), a)]

\* Without a list to look in: among those with as many votes or more
Info(n, a) ==
  CalcDelegateInfo(n, a, Order(n, {d \in Delegates : n.accounts[d].vote >= n.accounts[a].vote}))

GetDelegates(n, offset, limit) ==
  LET ordered == Order(n, Delegates)
      size == Min({ActiveDelegates, limit})
  IN SubSeq(ordered, offset + 1, Min({Len(ordered), offset + size}))
\* The list of the API: ranks are places on the page
Page(n, offset, limit) ==
  LET page == GetDelegates(n, offset, limit)
  IN [i \in DOMAIN page |-> [username |-> page[i], infos |-> CalcDelegateInfo(n, page[i], page)]]

GetVoters(n, d) ==
  {[address |-> a, balance |-> n.accounts[a].balance] : a \in {x \in AccountIds : d \in n.accounts[x].votes}}

--------------------------------------------------------------------------
(* Rewards *)

Nothing == [fees |-> 0, rewards |-> 0, totalBlocks |-> 0]
Plus(x, y) ==
  [fees |-> x.fees + y.fees, rewards |-> x.rewards + y.rewards,
   totalBlocks |-> x.totalBlocks + y.totalBlocks]
\* The blocks a key has signed from a time up to, but not at, another
GetRewards(n, k, from, to) ==
  LET signed == SelectSeq(n.blocks, LAMBDA b : b.generator = k /\ from <= b.slot /\ b.slot < to)
  IN FoldLeft(LAMBDA s, b : Plus(s, [fees |-> b.fee, rewards |-> b.reward, totalBlocks |-> 1]),
              Nothing, signed)
Rewards(n, a, from, to) ==
  LET keys == LoadForgingPKByDelegate(n, a)
  IN FoldLeft(LAMBDA s, fk : Plus(s, GetRewards(n, fk.forgingPK, from, to)), Nothing, keys)

--------------------------------------------------------------------------
(* Properties *)

Height == Len(blocks)
RoundBegins == Height > 1 /\ FinishRound(Height)

\* The newest key of a delegate is the one its account has, also after blocks
\* were popped, and whoever signed a block is found by the key: no list keeps a
\* key whose registration was rolled back.
KeysTold ==
  /\ \A a \in Delegates : Last(LoadForgingPKByDelegate(node, a)).forgingPK = accounts[a].key
  /\ ~astray => \A h \in 2..Height : FindByForgingKey(node, blocks[h].generator) # None

\* When a round begins the list has the first by rank, of version 1; of version 2
\* only those who have a rank and did not forge the last block, and as many of
\* them as there is room for.
RanksTold ==
  LET list == DelegateList(node, Height + 1)
      first == {a \in Delegates : Info(node, a).rankV1 \in 1..ActiveDelegates}
      eligible == {a \in Delegates : Info(node, a).rankV2 # 0 /\ accounts[a].key # blocks[Height].generator}
      NextKeys(S) == {KeyBefore(blocks, a, CalcRound(Height + 1)) : a \in S}
  IN (RoundBegins /\ ~astray /\ IsV2(Height) = IsV2(Height + 1)) =>
       IF IsV2(Height)
       THEN /\ Range(list) \subseteq NextKeys(eligible)
            /\ Len(list) = Min({ActiveDelegates, DelegatesPoolSize, Cardinality(eligible)})
       ELSE Range(list) = NextKeys(first)

\* The list and the single delegate agree on the rank of version 1, and on
\* whether there is one of version 2.
PagesAgree ==
  \A entry \in Range(Page(node, 0, ActiveDelegates)) :
    LET one == Info(node, entry.username)
    IN /\ (one.rankV2 = 0) = (entry.infos.rankV2 = 0)
       /\ ~IsV2(Height) => one.rankV1 = entry.infos.rankV1

\* When a round begins the voters have, together, the vote of the delegate.
VotersTold ==
  RoundBegins => \A d \in Delegates :
    accounts[d].vote = MapThenSumSet(LAMBDA v : v.balance, GetVoters(node, d))

\* Of the finished rounds a delegate was paid the rewards the API tells of, and
\* has produced as many blocks, unless one of its keys has another address: the
\* pay then goes there, and the API tells of it all the same.
RewardsTold ==
  \A a \in Delegates :
    LET told == Rewards(node, a, 0, blocks[Finished].slot + 1)
    IN (\A k \in KeysOf(node, a) : KeyAddress[k] = a) =>
         told.rewards = accounts[a].rewards /\ told.totalBlocks = accounts[a].produced

\* What the API tells of a delegate is what the consensus does, over rollbacks of
\* rounds and restarts.
DelegatesTold == KeysTold /\ RanksTold /\ PagesAgree /\ VotersTold /\ RewardsTold
=============================================================================
