-------------------------------- MODULE Chain --------------------------------
(***************************************************************************)
(* The blocks of a node: the table in the database, the last block kept in  *)
(* memory, fork recovery (core-blocks/src/modules/process.ts) and the       *)
(* synchronisation with the network (core-blocks/src/hooks/subscribers/     *)
(* loader.ts), which rolls the chain back, backs it up and restores it.     *)
(*                                                                         *)
(* All of it runs as tasks of the default sequence, one at a time; what     *)
(* comes between two steps of a task is a shutdown, a crash, or a fault.    *)
(* Applying and popping a block are one step each: their inner steps are    *)
(* in BlockApplication.  A commit may fail after the last block has been    *)
(* assigned (chain.ts), which leaves the memory ahead of the database.      *)
(*                                                                         *)
(* Every block applied or popped also passes through the consensus, which   *)
(* keeps the delegates of a round in memory and in a table (core-consensus- *)
(* dpos/src/modules/delegates.ts).  A list stands here for the last block   *)
(* the database had when the list was computed.                             *)
(***************************************************************************)
EXTENDS Integers, SequencesExt, FiniteSetsExt

CONSTANTS
  Blocks,       \* every block there is: a tree
  Genesis,
  Parent,       \* previousBlock
  Height,
  Time,         \* timestamp
  Rank,         \* the order of the ids of blocks
  Unprocessable,\* blocks whose transactions do not pass against any state
  Milestones,   \* heights that start a reward milestone
  ActiveDelegates, \* blocks of a round
  SlotWindow,   \* the constant slotWindow of core-blocks
  Peers,        \* what peers may be: the chain they serve, the height they claim
  Batch,        \* blocks in an answer to getBlocks
  Retries,      \* retries of promiseRetry
  MaxFaults     \* bound of the model: faults of the database or the network

ASSUME ChainAssumption ==
  /\ Genesis \in Blocks
  /\ Parent \in [Blocks \ {Genesis} -> Blocks]
  /\ Height \in [Blocks -> Nat \ {0}]
  /\ Time \in [Blocks -> Nat]
  /\ Height[Genesis] = 1
  /\ \A b \in Blocks \ {Genesis} :
       Height[b] = Height[Parent[b]] + 1 /\ Time[b] > Time[Parent[b]]
  /\ ActiveDelegates \in Nat /\ ActiveDelegates > 2
  /\ SlotWindow \in Nat \ {0}
  /\ Peers \subseteq [path : Seq(Blocks), height : Nat]
  /\ \A p \in Peers : p.path # <<>> /\ p.path[1] = Genesis
  /\ Batch \in Nat
  /\ Retries \in Nat /\ MaxFaults \in Nat

VARIABLES
  chain,          \* the blocks table, by height
  lastBlock,      \* BlocksModule.lastBlock
  lastNBlockIds,  \* BlocksModuleVerify.lastNBlockIds
  listsCache,     \* DelegatesModule.delegatesListCache, by round
  listRows,       \* the table delegatesround
  isSyncing,      \* loader.isSyncing of the application state
  isCleaning,     \* set by cleanup() of the block modules
  pc,             \* where the task of the default sequence is
  fork,           \* the block receiveForkFive is to process
  sync,           \* the locals of a round of syncWithNetwork
  chainBackup,    \* the blocks rolled back by the synchronisation, last first
  faults,         \* counter of the bounded faults
  before,         \* history: the chain the synchronisation began with, or had
                  \* reached when it was first rolled back
  ahead           \* history: a commit has failed since the boot

ledger == <<chain, lastBlock, lastNBlockIds, ahead>>
lists == <<listsCache, listRows>>
flags == <<isSyncing, isCleaning>>
task == <<pc, fork, sync, chainBackup, before>>
vars == <<ledger, lists, flags, task, faults>>

SyncSteps == {"peer", "rollback", "request", "load", "round", "check", "restore", "reapply"}
Steps == {"idle", "forkOne", "forkFive"} \cup SyncSteps

NoPeer == [path |-> <<Genesis>>, height |-> 0]
NoSync == [peer |-> NoPeer, common |-> Genesis, prev |-> Genesis, blocks |-> <<>>, tries |-> 0]

IsLists(ls) == DOMAIN ls \subseteq Nat /\ ls \in [DOMAIN ls -> Blocks]

TypeOK ==
  /\ chain \in Seq(Blocks) /\ chain # <<>>
  /\ lastBlock \in Blocks
  /\ lastNBlockIds \in Seq(Blocks) /\ Len(lastNBlockIds) <= SlotWindow
  /\ IsLists(listsCache) /\ IsLists(listRows)
  /\ isSyncing \in BOOLEAN /\ isCleaning \in BOOLEAN
  /\ pc \in Steps
  /\ fork \in Blocks
  /\ sync \in [peer : Peers \cup {NoPeer}, common : Blocks, prev : Blocks,
               blocks : Seq(Blocks), tries : 0..Retries]
  /\ chainBackup \in Seq(Blocks \ {Genesis})
  /\ faults \in 0..MaxFaults
  /\ before \in Seq(Blocks)
  /\ ahead \in BOOLEAN

Init ==
  /\ chain = <<Genesis>>
  /\ lastBlock = Genesis
  /\ lastNBlockIds = <<Genesis>>
  /\ listsCache = <<>> /\ listRows = <<>>
  /\ isSyncing = FALSE /\ isCleaning = FALSE
  /\ pc = "idle"
  /\ fork = Genesis
  /\ sync = NoSync
  /\ chainBackup = <<>>
  /\ faults = 0
  /\ before = <<>>
  /\ ahead = FALSE

-----------------------------------------------------------------------------
Saved(b) == b \in ToSet(chain)

Fault == faults < MaxFaults /\ faults' = faults + 1

(* The blocks table accepts b: its id and its height are not there, and the *)
(* foreign key finds its previous block, which no other block names         *)
(* (core-blocks/sql/schema.sql).                                            *)
Unlinked(b) == ~Saved(b) /\ Height[b] \notin {Height[c] : c \in ToSet(chain)}

Insertable(b) ==
  /\ ~Saved(b)
  /\ Height[b] \notin {Height[c] : c \in ToSet(chain)}
  /\ Saved(Parent[b])
  /\ Parent[b] \notin {Parent[c] : c \in ToSet(chain) \ {Genesis}}

(* The rounds (logic/rounds.ts).                                            *)
calcRound(h) == (h + ActiveDelegates - 1) \div ActiveDelegates
firstInRound(r) == (r - 1) * ActiveDelegates + 1
lastInRound(r) == r * ActiveDelegates

RoundStarts(h) == firstInRound(calcRound(h)) = h \/ h = 2
RoundEnds(h) == lastInRound(calcRound(h)) = h
NextRound == calcRound(Height[lastBlock] + 1)

Put(ls, r, b) == [q \in DOMAIN ls \cup {r} |-> IF q = r THEN b ELSE ls[q]]

(* generateDelegateList: the list in memory, or else the one in the table,  *)
(* or else one computed from the accounts as the database has them.         *)
Generated(cache, r) ==
  IF r \in DOMAIN cache THEN cache
  ELSE Put(cache, r, IF r \in DOMAIN listRows THEN listRows[r] ELSE Last(chain))

(* onBlockChanged, forward: the first block of a round, and the one after   *)
(* genesis, save the list in memory, which must not be null.  The last one  *)
(* looks the list up for the delegates that missed their block.             *)
Savable(b, cache) == RoundStarts(Height[b]) => calcRound(Height[b]) \in DOMAIN cache

LookedUp(b, cache) ==
  IF RoundEnds(Height[b]) THEN Generated(cache, calcRound(Height[b])) ELSE cache

ListsApplied(b, cache) ==
  LET r == calcRound(Height[b]) IN
  /\ Savable(b, cache)
  /\ listsCache' = LookedUp(b, cache)
  /\ listRows' = IF RoundStarts(Height[b]) THEN Put(listRows, r, cache[r]) ELSE listRows

(* onBlockChanged, backward: with the last block of a round the list of the *)
(* next one goes, from memory before the database has committed.            *)
DropsNothing(cache) == cache

DropsNext(cache) ==
  LET r == calcRound(Height[lastBlock]) IN
  IF RoundEnds(Height[lastBlock])
  THEN Generated(Restrict(cache, DOMAIN cache \ {r + 1}), r) ELSE cache

ListsDeleted(cache) ==
  LET r == calcRound(Height[lastBlock]) IN
  /\ listsCache' = DropsNext(cache)
  /\ listRows' = IF RoundEnds(Height[lastBlock])
                 THEN Restrict(listRows, {q \in DOMAIN listRows : q <= r}) ELSE listRows

(* onNewBlock of the verify module: at most SlotWindow ids are kept.        *)
PushOneMore(ids, b) ==
  IF Len(ids) <= SlotWindow THEN Append(ids, b) ELSE Append(Tail(ids), b)

Push(ids, b) ==
  IF Len(ids) < SlotWindow THEN Append(ids, b) ELSE Append(Tail(ids), b)

(* applyBlock saves the block ... *)
Stored(b) ==
  /\ Insertable(b)
  /\ chain' = Append(chain, b)
  /\ lastBlock' = b
  /\ lastNBlockIds' = Push(lastNBlockIds, b)
  /\ UNCHANGED ahead

Applied(b, cache) == Stored(b) /\ ListsApplied(b, cache) /\ UNCHANGED faults

(* ... or rejects: the database refuses it or fails, before lastBlock has    *)
(* been assigned or after, or the pool throws once the block is saved.      *)
CommitFails(b) ==
  /\ Insertable(b)
  /\ lastBlock' = b
  /\ ahead' = TRUE
  /\ UNCHANGED <<chain, lastNBlockIds>>

ApplyFails(b, cache) ==
  \/ /\ ~(Insertable(b) /\ Savable(b, cache))
     /\ listsCache' \in {cache, LookedUp(b, cache)}
     /\ UNCHANGED <<ledger, listRows, faults>>
  \/ /\ Fault
     /\ \/ UNCHANGED ledger \/ (Savable(b, cache) /\ CommitFails(b))
     /\ listsCache' \in {cache, LookedUp(b, cache)}
     /\ UNCHANGED listRows
  \/ Fault /\ Stored(b) /\ ListsApplied(b, cache)

(* processBlock applies a block if its checks pass, with the list that the  *)
(* check of its slot has generated.                                         *)
Acceptable(b) ==
  /\ ~isCleaning
  /\ Parent[b] = lastBlock
  /\ ~Saved(b)
  /\ b \notin Unprocessable

Checked == Generated(listsCache, NextRound)

Processed(b) == Acceptable(b) /\ Applied(b, Checked)

Refused(b) ==
  \/ /\ ~Acceptable(b)
     /\ listsCache' \in {listsCache, Checked}
     /\ UNCHANGED <<ledger, listRows, faults>>
  \/ Acceptable(b) /\ ApplyFails(b, Checked)

(* deleteLastBlock pops the last block, but genesis, from the database. *)
Deletable == lastBlock # Genesis /\ Saved(lastBlock)

Deleted(cache) ==
  /\ Deletable
  /\ chain' = Front(chain)
  /\ lastBlock' = Parent[lastBlock]
  /\ ListsDeleted(cache)
  /\ UNCHANGED <<lastNBlockIds, ahead, faults>>

DeleteFails(cache) ==
  /\ \/ ~Deletable /\ listsCache' = cache /\ UNCHANGED faults
     \/ Deletable /\ Fault /\ listsCache' \in {cache, DropsNext(cache)}
  /\ UNCHANGED <<ledger, listRows>>

-----------------------------------------------------------------------------
(* onReceiveBlock and the forge: a task begins.                             *)
Ready == pc = "idle" /\ ~isSyncing

(* Keep the oldest block, or if both have same age, the one of lower id. *)
Loses(b) ==
  ~(Time[b] > Time[lastBlock] \/ (Time[b] = Time[lastBlock] /\ Rank[b] > Rank[lastBlock]))

ForkOne(b) == Height[b] = Height[lastBlock] + 1 /\ Parent[b] # lastBlock
ForkFive(b) ==
  /\ lastBlock # Genesis /\ b # lastBlock
  /\ Parent[b] = Parent[lastBlock]
  /\ Height[b] = Height[lastBlock]

(* verifyReceipt, as far as it depends on the state: the id is not a recent *)
(* one, and the reward and the delegate are those of the height after the   *)
(* last block, the height given to b; its delegates are looked up.          *)
NotRecent(b) == b \notin ToSet(lastNBlockIds)
RightHeight(b) ==
  LET given == Height[lastBlock] + 1 IN
  /\ calcRound(Height[b]) = calcRound(given)
  /\ ~(\E h \in Milestones : Height[b] < h /\ h <= given)
ReceiptOK(b) == NotRecent(b) /\ RightHeight(b)

(* A slot to forge, or a receipt that fails, looks the delegates up.        *)
ListDelegates ==
  /\ Ready
  /\ listsCache' = Checked
  /\ UNCHANGED <<ledger, listRows, flags, task, faults>>

(* The block follows the last one, received or forged: it is processed.     *)
ReceiveNext(b) ==
  /\ Ready
  /\ Parent[b] = lastBlock
  /\ Processed(b) \/ Refused(b)
  /\ UNCHANGED <<flags, task>>

(* receiveForkOne: the last two blocks lose.                                *)
ReceiveForkOne(b) ==
  /\ Ready
  /\ ForkOne(b) /\ Loses(b) /\ ReceiptOK(b)
  /\ \/ Deleted(Checked) /\ pc' = "forkOne"
     \/ DeleteFails(Checked) /\ pc' = "idle"
  /\ UNCHANGED <<flags, fork, sync, chainBackup, before>>

ForkOneSecond ==
  /\ pc = "forkOne"
  /\ Deleted(listsCache) \/ DeleteFails(listsCache)
  /\ pc' = "idle"
  /\ UNCHANGED <<flags, fork, sync, chainBackup, before>>

(* receiveForkFive: the last block loses and is deleted ... *)
ReceiveForkFive(b) ==
  /\ Ready
  /\ ForkFive(b) /\ Loses(b) /\ ReceiptOK(b)
  /\ \/ Deleted(Checked) /\ pc' = "forkFive" /\ fork' = b
     \/ DeleteFails(Checked) /\ pc' = "idle" /\ UNCHANGED fork
  /\ UNCHANGED <<flags, sync, chainBackup, before>>

(* ... and the received one is processed.                                   *)
ForkFiveProcess ==
  /\ pc = "forkFive"
  /\ Processed(fork) \/ Refused(fork)
  /\ pc' = "idle"
  /\ fork' = Genesis
  /\ UNCHANGED <<flags, sync, chainBackup, before>>

-----------------------------------------------------------------------------
(* The sync timer raises the flag; the task waits for its turn.             *)
SyncTimer ==
  /\ ~isSyncing
  /\ isSyncing' = TRUE
  /\ UNCHANGED <<ledger, lists, isCleaning, task, faults>>

(* whatToSync: the last block is not stale, there is nothing to do.         *)
NothingToSync ==
  /\ pc = "idle"
  /\ isSyncing
  /\ isSyncing' = FALSE
  /\ UNCHANGED <<ledger, lists, isCleaning, task, faults>>

StartSync ==
  /\ pc = "idle"
  /\ isSyncing
  /\ pc' = "peer"
  /\ before' = chain
  /\ UNCHANGED <<ledger, lists, flags, fork, sync, chainBackup, faults>>

(* promiseRetry tries again, with a peer it draws anew, or gives up.        *)
Retry ==
  \/ sync.tries < Retries /\ pc' = "peer" /\ sync' = [NoSync EXCEPT !.tries = sync.tries + 1]
  \/ sync.tries = Retries /\ pc' = "check" /\ sync' = NoSync

(* The ids of getIdSequence: on a chain of at most six blocks, every block. *)
IdSequence == ToSet(chain) \cup {lastBlock}

(* The block a peer answers: the highest of them in its chain.              *)
CommonWith(path) ==
  {c \in IdSequence \cap ToSet(path) :
     \A d \in IdSequence \cap ToSet(path) : Height[d] <= Height[c]}

(* getCommonBlock: the block it answers must be one of the node.            *)
CommonBlock(common) == Saved(common)

(* syncWithPeer begins: the common block tells whether to roll back.        *)
ChoosePeer(p) ==
  /\ pc = "peer"
  /\ \E common \in CommonWith(p.path) :
       \/ /\ lastBlock = Genesis \/ CommonBlock(common)
          /\ sync' = [sync EXCEPT !.peer = p, !.common = common]
          /\ pc' = IF /\ lastBlock # Genesis
                      /\ p.height > Height[lastBlock]
                      /\ Height[lastBlock] > Height[common]
                   THEN "rollback" ELSE "request"
          /\ UNCHANGED faults
       \/ lastBlock # Genesis /\ ~CommonBlock(common) /\ Retry /\ UNCHANGED faults
       \/ Fault /\ Retry
  /\ UNCHANGED <<ledger, lists, flags, fork, chainBackup, before>>

(* No acceptable peer is left: the rounds end.                              *)
NoPeers ==
  /\ pc = "peer"
  /\ pc' = "check"
  /\ sync' = NoSync
  /\ UNCHANGED <<ledger, lists, flags, fork, chainBackup, before, faults>>

(* The block about to be rolled back joins the backup if it continues it.   *)
BackedUp ==
  IF chainBackup = <<>> \/ Parent[Last(chainBackup)] = lastBlock
  THEN Append(chainBackup, lastBlock) ELSE chainBackup

Rollback ==
  /\ pc = "rollback"
  /\ Height[lastBlock] > Height[sync.common]
  /\ chainBackup' = BackedUp
  /\ before' = IF chainBackup = <<>> THEN chain ELSE before
  /\ \/ Deleted(listsCache) /\ UNCHANGED <<pc, sync>>
     \/ DeleteFails(listsCache) /\ Retry
  /\ UNCHANGED <<flags, fork>>

RollbackDone ==
  /\ pc = "rollback"
  /\ Height[lastBlock] <= Height[sync.common]
  /\ pc' = "request"
  /\ UNCHANGED <<ledger, lists, flags, fork, sync, chainBackup, before, faults>>

(* loadBlocksFromPeer: the peer answers the blocks after the last one, or   *)
(* an error if it does not have it.  p is what the peer is by now.          *)
Request(p) ==
  LET h == Height[lastBlock]
      knows == lastBlock \in ToSet(p.path)
  IN /\ pc = "request"
     /\ \/ /\ knows
           /\ pc' = "load"
           /\ sync' = [sync EXCEPT !.peer = p, !.prev = lastBlock,
                         !.blocks = SubSeq(p.path, h + 1, Min({h + Batch, Len(p.path)}))]
           /\ UNCHANGED faults
        \/ ~knows /\ Retry /\ UNCHANGED faults
        \/ Fault /\ Retry
     /\ UNCHANGED <<ledger, lists, flags, fork, chainBackup, before>>

(* ... and they are processed one after the other.                          *)
LoadBlock ==
  /\ pc = "load"
  /\ sync.blocks # <<>>
  /\ ~isCleaning
  /\ LET b == Head(sync.blocks) IN
       \/ Processed(b) /\ sync' = [sync EXCEPT !.blocks = Tail(@)] /\ UNCHANGED pc
       \/ Refused(b) /\ Retry
  /\ UNCHANGED <<flags, fork, chainBackup, before>>

LoadDone ==
  /\ pc = "load"
  /\ sync.blocks = <<>> \/ isCleaning
  /\ pc' = "round"
  /\ UNCHANGED <<ledger, lists, flags, fork, sync, chainBackup, before, faults>>

(* The round ends: in sync with the peer, or once more.                     *)
SameHeightAsPeer == Height[lastBlock] >= sync.peer.height

InSyncWithPeer == Height[lastBlock] >= sync.peer.height \/ sync.prev = lastBlock

SyncRoundEnds ==
  /\ pc = "round"
  /\ pc' = IF InSyncWithPeer THEN "check" ELSE "peer"
  /\ sync' = NoSync
  /\ UNCHANGED <<ledger, lists, flags, fork, chainBackup, before, faults>>

-----------------------------------------------------------------------------
(* The chain is restored if it was rolled back and is shorter now.          *)
ShorterThanCommon ==
  chainBackup # <<>> /\ Height[lastBlock] < Height[Last(chainBackup)]

Shorter == chainBackup # <<>> /\ Height[lastBlock] < Height[Head(chainBackup)]

NeedRestore ==
  /\ pc = "check"
  /\ Shorter
  /\ pc' = "restore"
  /\ UNCHANGED <<ledger, lists, flags, fork, sync, chainBackup, before, faults>>

(* syncWithNetwork, and with it the job of the timer, ends.                 *)
Ends ==
  /\ pc' = "idle"
  /\ isSyncing' = FALSE
  /\ chainBackup' = <<>>
  /\ before' = <<>>
  /\ UNCHANGED <<isCleaning, fork, sync>>

Complete == (pc = "check" /\ ~Shorter) \/ (pc = "reapply" /\ chainBackup = <<>>)

SyncEnds ==
  /\ Complete
  /\ Ends
  /\ UNCHANGED <<ledger, lists, faults>>

(* The blocks of the backup that follow the last block. *)
Attached == {i \in DOMAIN chainBackup : Parent[chainBackup[i]] = lastBlock}

(* The chain is rolled back until the backup can be attached ...            *)
RestoreRollback ==
  /\ pc = "restore"
  /\ Attached = {}
  /\ \/ Deleted(listsCache) /\ UNCHANGED <<flags, task>>
     \/ DeleteFails(listsCache) /\ Ends

(* ... at the first such block, what findIndex finds; the rest is dropped   *)
RestoreAttach ==
  /\ pc = "restore"
  /\ \E i \in Attached :
       /\ \A j \in Attached : i <= j
       /\ chainBackup' = SubSeq(chainBackup, 1, i)
  /\ pc' = "reapply"
  /\ UNCHANGED <<ledger, lists, flags, fork, sync, before, faults>>

(* ... and its blocks are applied, unchecked; a shutdown skips them.        *)
Reapply ==
  LET b == Last(chainBackup) IN
  /\ pc = "reapply"
  /\ chainBackup # <<>>
  /\ \/ /\ \/ isCleaning /\ UNCHANGED <<ledger, lists, faults>>
           \/ ~isCleaning /\ Applied(b, listsCache)
        /\ chainBackup' = Front(chainBackup)
        /\ UNCHANGED <<flags, pc, fork, sync, before>>
     \/ ~isCleaning /\ ApplyFails(b, listsCache) /\ Ends

-----------------------------------------------------------------------------
(* A shutdown begins. *)
Cleanup ==
  /\ ~isCleaning
  /\ isCleaning' = TRUE
  /\ UNCHANGED <<ledger, lists, isSyncing, task, faults>>

(* onBlockchainReady: the ids of the last blocks, the highest first.        *)
RecentIds == SubSeq(Reverse(chain), 1, Min({SlotWindow, Len(chain)}))

(* The process ends, at any moment, and boots from the database: with       *)
(* nothing but the genesis block the tables are recreated (loadBlockChain). *)
Boot ==
  /\ lastBlock' = Last(chain)
  /\ lastNBlockIds' = RecentIds
  /\ listsCache' = <<>>
  /\ ahead' = FALSE
  /\ isSyncing' = FALSE /\ isCleaning' = FALSE
  /\ pc' = "idle"
  /\ fork' = Genesis
  /\ sync' = NoSync
  /\ chainBackup' = <<>>
  /\ before' = <<>>
  /\ listRows' = IF Len(chain) = 1 THEN <<>> ELSE listRows
  /\ UNCHANGED <<chain, faults>>

Receive(b) == ReceiveNext(b) \/ ReceiveForkOne(b) \/ ReceiveForkFive(b)

(* What the tasks do once they have begun.                                  *)
Continue ==
  \/ ForkOneSecond \/ ForkFiveProcess
  \/ \E p \in Peers : ChoosePeer(p) \/ Request(p)
  \/ NoPeers
  \/ Rollback \/ RollbackDone \/ LoadBlock \/ LoadDone \/ SyncRoundEnds
  \/ NeedRestore \/ RestoreRollback \/ RestoreAttach \/ Reapply \/ SyncEnds

Next ==
  \/ \E b \in Blocks \ {Genesis} : Receive(b)
  \/ ListDelegates
  \/ SyncTimer \/ NothingToSync \/ StartSync
  \/ Continue
  \/ Cleanup \/ Boot

(* A task that has begun is a chain of promises: it goes on as long as the  *)
(* process lives, and a request is answered or times out.                   *)
Spec == Init /\ [][Next]_vars /\ WF_vars(Continue)

-----------------------------------------------------------------------------
(* Whatever fails, the blocks table holds a path of blocks from genesis,    *)
(* and changes by one block at its end: also when the memory is ahead of    *)
(* the database.                                                            *)
Table == INSTANCE Ledger
TableIsAPath == Table!Spec

(* As long as no commit has failed since the boot, the last block in memory *)
(* is the one of the highest height in the database.                        *)
LastBlockIsTip == ~ahead => lastBlock = Last(chain)

(* At every moment of a synchronisation the chain and the backup hold what  *)
(* is needed to get back to the chain before the first rollback: not when a *)
(* commit has failed or a shutdown makes applyBlock skip the backup.        *)
Recoverable ==
  (chainBackup # <<>> /\ ~ahead /\ (pc = "reapply" => ~isCleaning)) =>
    \E n \in DOMAIN chain : SubSeq(chain, 1, n) \o Reverse(chainBackup) = before

(* A synchronisation that runs to its end, whatever the peers answered and  *)
(* whatever failed on the way, leaves a chain at least as long as before,   *)
(* unless the process is shutting down or a commit has failed.              *)
NeverShorter ==
  (Complete /\ ~ahead /\ ~isCleaning) => Len(chain) >= Len(before)

(* Nothing of the chain is lost to a synchronisation that fails: at every   *)
(* moment the way back is there, and at the end the chain is not shorter.   *)
SyncKeepsChain == Recoverable /\ NeverShorter

(* A list of delegates, in memory or in the table, is the one computed on   *)
(* the block of this chain that ends the round before it, whatever was      *)
(* rolled back, failed or restarted; and no round has begun without a row.  *)
(* The list in memory is not when a commit has failed.                      *)
SeedHeight(r) == IF r = 1 THEN 1 ELSE lastInRound(r - 1)

OnThisChain(ls) ==
  \A r \in DOMAIN ls : SeedHeight(r) \in DOMAIN chain /\ ls[r] = chain[SeedHeight(r)]

ListsFollowChain ==
  /\ ~ahead => OnThisChain(listsCache)
  /\ OnThisChain(listRows)
  /\ \A h \in 2..Len(chain) : calcRound(h) \in DOMAIN listRows

(* What the node keeps beside the table of blocks, its last block and the   *)
(* lists of delegates, belongs to the chain in that table.                  *)
MemoryFollowsChain == LastBlockIsTip /\ ListsFollowChain

(* Every task of the default sequence ends.                                 *)
TaskEnds == (pc # "idle") ~> (pc = "idle")

=============================================================================
