-------------------------------- MODULE Rounds --------------------------------
(***************************************************************************)
(* What the end of a round pays, counts and recalculates, how a rollback   *)
(* takes it back, and how the list of delegates of a round is computed,    *)
(* cached and kept (core-consensus-dpos; the two classes of round changes  *)
(* and their switch are in rise/src/helpers).                              *)
(*                                                                         *)
(* A block is verified and applied, or popped, in one step: the awaits are *)
(* in BlockApplication.tla and Chain.tla.  The request getNextForgers runs *)
(* beside them and takes two steps.  Forging keys, the draw of version 2   *)
(* and the bytes of the seeds are constants.                               *)
(***************************************************************************)
EXTENDS SequencesExt, FiniteSetsExt, Integers, TLC

CONSTANTS
  AccountIds, Keys, None,
  KeyRank,            \* the order of the keys as buffers
  KeyAddress,         \* generateAddressByPubData: the account of a key, or None
  Txs, Tx,            \* Tx[t]: type ("send", "vote", "key"), sender, recipient, amount, fee, key
  Genesis,            \* Genesis[a]: balance, key, votes of an account after the genesis block
  GenesisGenerator,   \* the key that signed the genesis block
  ActiveDelegates, DelegatesPoolSize, MaxContinuousMissedBlocks,
  FirstV2,            \* dposv2.firstBlock; 0 or less for never
  FeesSwitchHeight,   \* dposFeesSwitchHeight
  ProductivityFrom,   \* 200 in recalcVotes.sql
  Milestones,         \* the rewards: a sequence of fromHeight and reward
  Weight(_, _, _, _), \* calcV2Weight: of a seed, a key, its vote and the round
  SeedByte(_, _),     \* the bytes of a seed
  \* bounds of the model
  MaxHeight, MaxSkip, MaxEmptySlots, MaxTxs, MaxRestarts, MaxRequests

Delegates == {a \in AccountIds : Genesis[a].key # None}
DelegateSeq == SetToSeq(Delegates)

CalcRound(h) == (h + ActiveDelegates - 1) \div ActiveDelegates
FirstInRound(r) == (r - 1) * ActiveDelegates + 1
LastInRound(r) == r * ActiveDelegates
IsV2(h) == FirstV2 > 0 /\ h >= FirstV2
FinishRound(h) == CalcRound(h) # CalcRound(h + 1) \/ h = 1
RoundChanges == {"RiseV2RoundChanges", "RoundChanges"}

ASSUME RoundsAssumption ==
  /\ ActiveDelegates \in Nat /\ ActiveDelegates > 2
  /\ Cardinality(Delegates) >= ActiveDelegates
  /\ Milestones \in Seq([fromHeight : Nat, reward : Nat])
  /\ Milestones # <<>> /\ Milestones[1].fromHeight = 1
  /\ \A t \in Txs : Tx[t].sender \in AccountIds /\ {Tx[t].amount, Tx[t].fee} \subseteq Nat
  /\ \A a \in AccountIds : Genesis[a].balance \in Int
  /\ FirstV2 \in Int
  \* the class is switched after the block and back after its rollback: see README
  /\ FeesSwitchHeight \in Int /\ FeesSwitchHeight % ActiveDelegates # 0

VARIABLES
  accounts,  \* mem_accounts and mem_accounts2delegates
  blocks,    \* the table of blocks, genesis first
  snapshot,  \* mem_votes_snapshot
  table,     \* delegatesround: the lists of rounds
  cache,     \* delegatesListCache
  changes,   \* the class of round changes in use
  request,   \* getNextForgers waiting for a row of the table, or None
  restarts, requests,  \* counters of the bounded events
  replay,    \* history: replay[h], a node that has applied the first h blocks and nothing else
  astray     \* history: a rollback or a late answer after which lists may differ

node == [accounts |-> accounts, blocks |-> blocks, snapshot |-> snapshot, table |-> table,
         cache |-> cache, changes |-> changes]
vars == <<accounts, blocks, snapshot, table, cache, changes, request, restarts, requests,
          replay, astray>>

Put(f, r, list) == [x \in DOMAIN f \cup {r} |-> IF x = r THEN list ELSE f[x]]
Drop(f, S) == [x \in DOMAIN f \ S |-> f[x]]
FirstOf(s, k) == SubSeq(s, 1, Min({k, Len(s)}))

--------------------------------------------------------------------------
(* Rewards *)

CalcMilestone(h) ==
  LET reached == {i \in DOMAIN Milestones : h >= Milestones[i].fromHeight}
  IN IF reached = {} THEN 1 ELSE Max(reached)
CalcReward(h) == Milestones[CalcMilestone(h)].reward
CalcSupply(h, total) ==
  LET m == CalcMilestone(h)
      Length(i) == Milestones[i + 1].fromHeight - Milestones[i].fromHeight
      past == 1..(m - 1)
  IN total + MapThenSumSet(LAMBDA i : Length(i) * Milestones[i].reward, past)
           + (h - MapThenSumSet(Length, past)) * Milestones[m].reward

--------------------------------------------------------------------------
(* The list of delegates of a round, from the blocks bs and the rows of the delegates *)

\* What the query of the list reads of mem_accounts
Candidates(n) ==
  [a \in Delegates |-> [vote |-> n.accounts[a].vote, weight |-> n.accounts[a].weight,
                        key |-> n.accounts[a].key, cmb |-> n.accounts[a].cmb]]

\* The newest key of a that was registered before round r (in genesis for the first)
KeyBefore(bs, a, r) ==
  LET changed == {h \in 2..(FirstInRound(r) - 1) :
                    \E t \in bs[h].txs : Tx[t].type = "key" /\ Tx[t].sender = a}
  IN IF changed = {} THEN Genesis[a].key
     ELSE Tx[CHOOSE t \in bs[Max(changed)].txs : Tx[t].type = "key" /\ Tx[t].sender = a].key

\* Delegates by vote or weight, then by key, the first of the pool; the query of version 2 leaves
\* open who of two with the same weight is the last of the pool
SortedDelegates(rows, bs, h) ==
  LET Strength(a) == IF IsV2(h) THEN rows[a].weight ELSE rows[a].vote
      Above(a, b) == \/ Strength(a) > Strength(b)
                     \/ Strength(a) = Strength(b)
                        /\ KeyRank[rows[a].key] < KeyRank[rows[b].key]
      lastForger == bs[LastInRound(CalcRound(h) - 1)].generator
      eligible == IF IsV2(h) THEN {a \in Delegates :
                                     /\ rows[a].key # lastForger
                                     /\ rows[a].cmb <= MaxContinuousMissedBlocks}
                  ELSE Delegates
      poolSize == IF IsV2(h) THEN DelegatesPoolSize ELSE ActiveDelegates
  IN FirstOf(SortSeq(SelectSeq(DelegateSeq, LAMBDA a : a \in eligible), Above), poolSize)

Swap(s, i, j) == [s EXCEPT ![i] = s[j], ![j] = s[i]]
\* Four positions per hash of the seed; the loop around skips the one after them
Shuffle(seed, s) ==
  FoldLeft(LAMBDA t, i : IF i % 5 = 0 THEN t ELSE Swap(t, i, (SeedByte(seed, i) % Len(s)) + 1),
           s, [i \in DOMAIN s |-> i])

(* Mutant: the one chosen stays where it was as well. *)
ReplaceEndForgerTwice(bs, h, list) ==
  IF ~IsV2(h) \/ list = <<>> THEN list ELSE Append(list, Last(list))
\* In version 2 the one who ended a round less recently than the others goes to the end of the list
ReplaceEndForger(bs, h, list) ==
  LET recent == {e \in 1..(h - 1) : /\ e >= h - ActiveDelegates * DelegatesPoolSize
                                    /\ e % ActiveDelegates = 0}
      Ended(k) == Max({0} \cup {e \in recent : bs[e].generator = k})
      oldest == Min({Ended(list[i]) : i \in DOMAIN list})
      chosen == list[Min({i \in DOMAIN list : Ended(list[i]) = oldest})]
  IN IF ~IsV2(h) \/ list = <<>> THEN list ELSE Append(RemoveFirst(list, chosen), chosen)

\* The delegates with the keys they had when round r began, and their votes
WithKeys(rows, bs, delegates, r) ==
  [i \in DOMAIN delegates |-> [key |-> KeyBefore(bs, delegates[i], r),
                               vote |-> rows[delegates[i]].weight]]
\* In version 2 by the weight that is drawn for each
Drawn(pool, seed, h) ==
  LET r == CalcRound(h)
      Heavier(d, e) == LET v == Weight(seed, d.key, d.vote, r)  w == Weight(seed, e.key, e.vote, r)
                       IN v > w \/ (v = w /\ KeyRank[d.key] > KeyRank[e.key])
  IN IF IsV2(h) THEN SortSeq(pool, Heavier) ELSE pool
KeysOfPool(pool) == [i \in DOMAIN pool |-> pool[i].key]

\* calculateSafeRoundSeed: the last block of the round before
SafeRoundSeed(bs, h) == bs[LastInRound(CalcRound(h) - 1)].slot
Generate(rows, bs, h) ==
  LET r == CalcRound(h)
      seed == IF IsV2(h) THEN SafeRoundSeed(bs, h) ELSE r
      drawn == Drawn(WithKeys(rows, bs, SortedDelegates(rows, bs, h), r), seed, h)
  IN ReplaceEndForger(bs, h, Shuffle(seed, FirstOf(KeysOfPool(drawn), ActiveDelegates)))

\* generateDelegateList of a node n: from the cache, from the table, or computed
DelegateList(n, h) ==
  LET r == CalcRound(h)
  IN IF r \in DOMAIN n.cache THEN n.cache[r]
     ELSE IF r \in DOMAIN n.table THEN n.table[r]
     ELSE Generate(Candidates(n), n.blocks, h)
Cached(n, h) == Put(n.cache, CalcRound(h), DelegateList(n, h))

--------------------------------------------------------------------------
(* Transactions *)

Merge(acc, a, diff) == IF a = None THEN acc ELSE [acc EXCEPT ![a].balance = @ + diff]
ApplyTx(acc, t) ==
  LET paid == Merge(Merge(acc, Tx[t].sender, -(Tx[t].amount + Tx[t].fee)),
                    Tx[t].recipient, Tx[t].amount)
  IN CASE Tx[t].type = "vote" -> [paid EXCEPT ![Tx[t].sender].votes = Tx[t].votes]
       [] Tx[t].type = "key" -> [paid EXCEPT ![Tx[t].sender].key = Tx[t].key]
       [] OTHER -> paid
\* before: the votes and the key of the sender before t, as the chain has them
UndoTx(acc, t, before) ==
  LET back == Merge(Merge(acc, Tx[t].recipient, -Tx[t].amount),
                    Tx[t].sender, Tx[t].amount + Tx[t].fee)
  IN [back EXCEPT ![Tx[t].sender].votes = before.votes, ![Tx[t].sender].key = before.key]
Ready(acc, t) ==
  /\ acc[Tx[t].sender].balance >= Tx[t].amount + Tx[t].fee
  /\ Tx[t].type = "key" => \A a \in AccountIds : acc[a].key # Tx[t].key
\* Over the transactions of a block, of which Next gives it one at most: their order is left open
ApplyTxs(acc, txs) ==
  LET after[S \in SUBSET txs] ==
        IF S = {} THEN acc ELSE LET t == CHOOSE u \in S : TRUE IN ApplyTx(after[S \ {t}], t)
  IN after[txs]
TotalFee(txs) ==
  LET sum[S \in SUBSET txs] ==
        IF S = {} THEN 0 ELSE LET t == CHOOSE u \in S : TRUE IN sum[S \ {t}] + Tx[t].fee
  IN sum[txs]

--------------------------------------------------------------------------
(* The end of a round *)

\* sumRound: the blocks of the round that ends with block h of bs
RoundBlocks(bs, h) == IF h = 1 THEN <<bs[1]>> ELSE SubSeq(bs, FirstInRound(CalcRound(h)), h)

FeesOf(round) ==
  LET upto[i \in 0..Len(round)] == IF i = 0 THEN 0 ELSE upto[i - 1] + round[i].fee
  IN upto[Len(round)]
(* Mutant: what the division of the fees leaves is not paid. *)
AtWithoutRemaining(class, round, i) ==
  LET each == FeesOf(round) \div ActiveDelegates
  IN IF class = "RoundChanges"
     THEN [balance |-> round[i].fee + round[i].reward, fees |-> round[i].fee,
           rewards |-> round[i].reward]
     ELSE [balance |-> each + round[i].reward, fees |-> each, rewards |-> round[i].reward]
\* RoundChanges.at and RiseV2RoundChanges.at, where the code has 101 for ActiveDelegates
At(class, round, i) ==
  LET total == FeesOf(round)
      each == total \div ActiveDelegates
      remaining == IF i = ActiveDelegates THEN total - each * ActiveDelegates ELSE 0
  IN IF class = "RoundChanges"
     THEN [balance |-> round[i].fee + round[i].reward, fees |-> round[i].fee,
           rewards |-> round[i].reward]
     ELSE [balance |-> each + round[i].reward + remaining, fees |-> each,
           rewards |-> round[i].reward]

\* applyRound: who forged is paid, at the address of the key
Receives(x, c, sign) ==
  [x EXCEPT !.balance = @ + sign * c.balance, !.fees = @ + sign * c.fees,
            !.rewards = @ + sign * c.rewards, !.produced = @ + sign, !.cmb = 0]
Pay(acc, a, c, sign) == IF a = None THEN acc ELSE [acc EXCEPT ![a] = Receives(@, c, sign)]
ApplyRound(acc, class, round, sign) ==
  LET after[i \in 0..Len(round)] ==
        IF i = 0 THEN acc
        ELSE Pay(after[i - 1], KeyAddress[round[i].generator], At(class, round, i), sign)
  IN after[Len(round)]

\* updateMissedBlocks
Outsiders(list, round) ==
  {KeyAddress[list[i]] : i \in {j \in DOMAIN list :
                                  \A k \in DOMAIN round : round[k].generator # list[j]}}
UpdateMissedBlocks(acc, outsiders, h, sign) ==
  [a \in AccountIds |->
     IF a \in outsiders
     THEN [acc[a] EXCEPT !.missed = @ + sign, !.cmb = IF IsV2(h) THEN @ + sign ELSE 0]
     ELSE acc[a]]

PerformVotesSnapshot(acc) == [a \in Delegates |-> [vote |-> acc[a].vote, weight |-> acc[a].weight]]
RestoreVotesSnapshot(acc, s) ==
  [a \in AccountIds |-> IF a \in DOMAIN s
                        THEN [acc[a] EXCEPT !.vote = s[a].vote, !.weight = s[a].weight]
                        ELSE acc[a]]

\* recalcVotes.sql: the vote and the weight of a delegate, from what its voters have
Stakes(acc) == [a \in AccountIds |-> [balance |-> acc[a].balance, votes |-> acc[a].votes]]
Voters(stakes, d) == {a \in AccountIds : d \in stakes[a].votes}
VoteOf(stakes, d) == MapThenSumSet(LAMBDA a : stakes[a].balance, Voters(stakes, d))
WeightOf(stakes, d, produced, missed) ==
  LET Part(a) == stakes[a].balance \div Cardinality(stakes[a].votes)
      sum == MapThenSumSet(Part, Voters(stakes, d))
      total == produced + missed
  IN IF total < ProductivityFrom THEN sum ELSE (2 * sum * produced + total) \div (2 * total)
ReCalcVotes(acc) ==
  LET stakes == Stakes(acc)
  IN [a \in AccountIds |->
        IF a \in Delegates
        THEN [acc[a] EXCEPT !.vote = VoteOf(stakes, a),
                            !.weight = WeightOf(stakes, a, acc[a].produced, acc[a].missed)]
        ELSE acc[a]]

\* RoundLogic.apply and undo, for the block that is the last of bs
Tick(n, bs) ==
  LET h == Len(bs)
      round == RoundBlocks(bs, h)
      missed == UpdateMissedBlocks(n.accounts, Outsiders(DelegateList(n, h), round), h, 1)
      paid == ApplyRound(missed, n.changes, round, 1)
  IN IF FinishRound(h)
     THEN [n EXCEPT !.accounts = ReCalcVotes(paid), !.snapshot = PerformVotesSnapshot(paid)]
     ELSE n
BackwardTick(n, bs) ==
  LET h == Len(bs)
      round == RoundBlocks(bs, h)
      missed == UpdateMissedBlocks(n.accounts, Outsiders(DelegateList(n, h), round), h, -1)
      paid == ApplyRound(missed, n.changes, round, -1)
  IN IF FinishRound(h)
     THEN [n EXCEPT !.accounts = RestoreVotesSnapshot(paid, n.snapshot)]
     ELSE n

--------------------------------------------------------------------------
(* Blocks *)

SwitchDposFees(h) == IF h < FeesSwitchHeight THEN "RiseV2RoundChanges" ELSE "RoundChanges"

\* onBlockChanged('forward', h): the list is saved with the first block of the round
SaveList(n, h) ==
  LET r == CalcRound(h)
  IN IF FirstInRound(r) = h \/ h = 2
     THEN [n EXCEPT !.table = Put(@, r, n.cache[r]), !.cache = Drop(@, {r - 10})]
     ELSE n
(* Mutant: the list of the round that is left stays in the cache and in the table. *)
DropLaterLists(n, h) ==
  LET r == CalcRound(h)
  IN IF h # 1 /\ LastInRound(r) = h + 1
     THEN [n EXCEPT !.cache = Drop(@, {r + 2}), !.table = Drop(@, {i \in DOMAIN @ : i > r + 1})]
     ELSE n
\* onBlockChanged('backward', h): back in the round, before its last block
DropLists(n, h) ==
  LET r == CalcRound(h)
  IN IF h # 1 /\ LastInRound(r) = h + 1
     THEN [n EXCEPT !.cache = Put(Drop(@, {r + 1}), r,
                                  IF r \in DOMAIN n.cache THEN n.cache[r] ELSE n.table[r]),
                    !.table = Drop(@, {i \in DOMAIN @ : i >= r + 1})]
     ELSE n

\* verifyBlock and applyBlock of block b
ApplyBlock(n, b) ==
  LET h == Len(n.blocks) + 1
      verified == [n EXCEPT !.cache = Cached(n, h)]
      txs == [verified EXCEPT !.accounts = ApplyTxs(@, b.txs)]
      saved == SaveList(Tick(txs, Append(n.blocks, b)), h)
  IN [saved EXCEPT !.blocks = Append(@, b),
                   !.changes = IF h = FeesSwitchHeight THEN SwitchDposFees(h) ELSE @]

\* The votes and the key of account a in the chain bs
Own(bs, a, type) == {i \in 2..Len(bs) : \E t \in bs[i].txs : Tx[t].type = type /\ Tx[t].sender = a}
Newest(bs, a, type) ==
  CHOOSE t \in bs[Max(Own(bs, a, type))].txs : Tx[t].type = type /\ Tx[t].sender = a
Before(bs, a) ==
  [votes |-> IF Own(bs, a, "vote") = {} THEN Genesis[a].votes ELSE Tx[Newest(bs, a, "vote")].votes,
   key |-> IF Own(bs, a, "key") = {} THEN Genesis[a].key ELSE Tx[Newest(bs, a, "key")].key]

UndoTxs(acc, txs, bs) ==
  LET after[S \in SUBSET txs] ==
        IF S = {} THEN acc
        ELSE LET t == CHOOSE u \in S : TRUE IN UndoTx(after[S \ {t}], t, Before(bs, Tx[t].sender))
  IN after[txs]
(* Mutant: the class of round changes is not switched back. *)
PopBlockKeepingClass(n) ==
  LET txs == [n EXCEPT !.accounts = UndoTxs(@, Last(n.blocks).txs, Front(n.blocks))]
      back == DropLists(BackwardTick(txs, n.blocks), Len(n.blocks) - 1)
  IN [back EXCEPT !.blocks = Front(@)]
PopBlock(n) ==
  LET h == Len(n.blocks)
      txs == [n EXCEPT !.accounts = UndoTxs(@, Last(n.blocks).txs, Front(n.blocks))]
      back == DropLists(BackwardTick(txs, n.blocks), h - 1)
  IN [back EXCEPT !.blocks = Front(@),
                  !.changes = IF h = FeesSwitchHeight THEN SwitchDposFees(h - 1) ELSE @]

GenesisBlock == [slot |-> 0, generator |-> GenesisGenerator, txs |-> {}, fee |-> 0, reward |-> 0]
GenesisAccount(a) ==
  [balance |-> Genesis[a].balance, fees |-> 0, rewards |-> 0, produced |-> 0, missed |-> 0,
   cmb |-> 0, vote |-> 0, weight |-> 0, key |-> Genesis[a].key, votes |-> Genesis[a].votes]
\* The genesis block ends a round of its own, for which the first list is computed
AfterGenesis ==
  LET empty == [accounts |-> [a \in AccountIds |-> GenesisAccount(a)], blocks |-> <<>>,
                snapshot |-> <<>>, table |-> <<>>, cache |-> <<>>, changes |-> "RoundChanges"]
      ready == [empty EXCEPT !.cache = Cached(empty, 1)]
  IN [Tick(ready, <<GenesisBlock>>) EXCEPT !.blocks = <<GenesisBlock>>,
                                           !.changes = SwitchDposFees(1)]

--------------------------------------------------------------------------
Become(n) ==
  /\ accounts' = n.accounts /\ blocks' = n.blocks /\ snapshot' = n.snapshot
  /\ table' = n.table /\ cache' = n.cache /\ changes' = n.changes

StartFrom(n) ==
  /\ accounts = n.accounts /\ blocks = n.blocks /\ snapshot = n.snapshot
  /\ table = n.table /\ cache = n.cache /\ changes = n.changes
  /\ request = None
  /\ restarts = 0 /\ requests = 0
  /\ replay = <<n>> /\ astray = FALSE
Init == StartFrom(AfterGenesis)

\* A block for one of the next slots, forged here or received, with the key of its slot
Forge(skip, txs) ==
  LET h == Len(blocks) + 1
      slot == Last(blocks).slot + skip
      list == DelegateList(node, h)
      i == (slot % ActiveDelegates) + 1
      b == [slot |-> slot, generator |-> list[i], txs |-> txs, fee |-> TotalFee(txs),
            reward |-> CalcReward(h)]
      old == UNION {blocks[j].txs : j \in DOMAIN blocks}
  IN /\ h <= MaxHeight /\ slot - (h - 1) <= MaxEmptySlots
     /\ i \in DOMAIN list
     /\ txs \cap old = {} /\ Cardinality(txs \cup old) <= MaxTxs
     /\ \A t \in txs : Ready(accounts, t)
     /\ Become(ApplyBlock(node, b))
     /\ replay' = Append(replay, ApplyBlock(Last(replay), b))
     /\ UNCHANGED <<request, restarts, requests, astray>>

\* The undo of a round end forgets the blocks a delegate had missed before it forged
PopLastBlock ==
  LET h == Len(blocks)
      before == replay[h - 1].accounts
  IN /\ h > 1
     /\ Become(PopBlock(node))
     /\ replay' = Front(replay)
     /\ astray' = \/ astray
                  \/ FinishRound(h) /\ IsV2(h)
                     /\ \E i \in FirstInRound(CalcRound(h))..h :
                          LET a == KeyAddress[blocks[i].generator]
                          IN a # None /\ before[a].cmb # 0
     /\ UNCHANGED <<request, restarts, requests>>

\* getNextForgers asks for the row of the round of the last block
RequestForgers ==
  LET r == CalcRound(Len(blocks))
  IN /\ requests < MaxRequests
     /\ request = None
     /\ r \notin DOMAIN cache /\ r \in DOMAIN table
     /\ request' = [round |-> r, list |-> table[r]]
     /\ requests' = requests + 1
     /\ UNCHANGED <<accounts, blocks, snapshot, table, cache, changes, restarts, replay, astray>>
AnswerForgers ==
  LET r == request.round
  IN /\ request # None
     /\ cache' = Put(cache, r, request.list)
     /\ request' = None
     /\ astray' = (astray \/ r \notin DOMAIN table \/ table[r] # request.list)
     /\ UNCHANGED <<accounts, blocks, snapshot, table, changes, restarts, requests, replay>>

\* The process ends and starts again; with nothing but the genesis block it recreates the tables
\* and applies that block (loadBlockChain)
Restart ==
  /\ restarts < MaxRestarts
  /\ restarts' = restarts + 1
  /\ Become(IF Len(blocks) = 1 THEN AfterGenesis
            ELSE [node EXCEPT !.cache = <<>>, !.changes = SwitchDposFees(Len(blocks))])
  /\ request' = None
  /\ UNCHANGED <<requests, replay, astray>>

Next ==
  \/ \E skip \in 1..MaxSkip, txs \in {{}} \cup {{t} : t \in Txs} : Forge(skip, txs)
  \/ PopLastBlock
  \/ RequestForgers
  \/ AnswerForgers
  \/ Restart

Spec == Init /\ [][Next]_vars

--------------------------------------------------------------------------
(* Properties *)

TypeOK ==
  /\ accounts \in [AccountIds -> [balance : Int, fees : Int, rewards : Int, produced : Nat,
                                  missed : Int, cmb : Int, vote : Int, weight : Int,
                                  key : Keys \cup {None}, votes : SUBSET Delegates]]
  /\ \A i \in DOMAIN blocks : blocks[i].generator \in Keys
  /\ \A i \in 1..(Len(blocks) - 1) : blocks[i].slot < blocks[i + 1].slot
  /\ \A r \in DOMAIN table : IsInjective(table[r]) /\ Len(table[r]) <= ActiveDelegates
  /\ changes \in RoundChanges

Paid(acc) == [a \in AccountIds |-> [balance |-> acc[a].balance, fees |-> acc[a].fees,
                                    rewards |-> acc[a].rewards, produced |-> acc[a].produced]]
\* Balances, fees, rewards and produced blocks are those of a node that has applied the chain and
\* nothing else: the end of a round is undone to the unit, over a switch of the class, over
\* restarts and whatever list the cache holds.
MoneyReplaysChain == Paid(accounts) = Paid(Last(replay).accounts)

\* Every unit is on an account, waits for the end of the round, or was paid to a key whose address
\* is no account.
Finished == IF Len(blocks) < ActiveDelegates THEN 1
            ELSE LastInRound(Len(blocks) \div ActiveDelegates)
Fees(from, to) == FoldLeft(LAMBDA s, b : s + b.fee, 0, SubSeq(blocks, from, to))
SupplyConserved ==
  LET total == MapThenSumSet(LAMBDA a : Genesis[a].balance, AccountIds)
      Nowhere(r) == LET round == RoundBlocks(blocks, LastInRound(r))
                        class == SwitchDposFees(LastInRound(r) - 1)
                    IN MapThenSumSet(LAMBDA i : At(class, round, i).balance,
                                     {i \in DOMAIN round : KeyAddress[round[i].generator] = None})
  IN MapThenSumSet(LAMBDA a : accounts[a].balance, AccountIds)
       + MapThenSumSet(Nowhere, 1..(Finished \div ActiveDelegates))
       + Fees(IF Finished = 1 THEN 1 ELSE Finished + 1, Len(blocks))
     = CalcSupply(Finished, total)

\* The list that decides who forges next is the one every other node computes, and so are the
\* missed blocks it leads to: rolling back a round lands where the node was before it, until a
\* round end is rolled back in which a delegate forged after having missed blocks, or a list
\* arrives after its row is gone.  The one snapshot of the votes is restored once per round end
\* rolled back and may be of a later one: no list is ever computed from it.
ListReplaysUnlessAstray ==
  ~astray =>
    /\ DelegateList(node, Len(blocks) + 1) = DelegateList(Last(replay), Len(blocks) + 1)
    /\ \A a \in AccountIds : accounts[a].missed = Last(replay).accounts[a].missed
=============================================================================
