# A verification project for rise-node

TLA+ modules that model the core of the RISE node (`src/packages/*`, TypeScript),
TLC configurations that check them on small instances, and theorems checked by
TLAPS for every value of the constants.

## 1. The system

A node keeps a chain of blocks and a table of accounts in PostgreSQL, and a pool
of transactions in memory.  It receives blocks and transactions from peers, forges
blocks when its delegate's slot comes, and synchronises when its last block is
stale.  Everything runs in one Node process: there is no parallelism, but every
`await` is a point where other code runs, and any promise may reject.  A command
line starts and stops the process, and copies its database.

| part | state | operations | talks to |
|---|---|---|---|
| sequences (`core-helpers/src/sequence.ts`) | array of tasks, `running`, a continuation-local flag | `addAndPromise`, `tick` | wraps methods of every other part: `defaultSequence` (receive, sync, forge), `balancesSequence` (apply, pop, pool), `dbSequence` |
| jobs (`core-helpers/src/jobsQueue.ts`) | one timer per job | `register`, `unregister` | pool manager, sync timer, forge, broadcaster, peers |
| accounts (`core-accounts`, `core-models`) | `mem_accounts`: confirmed and `u_` columns, one row per vote | operations performed in database transactions, trigger on negative values | transactions, blocks, rounds |
| transaction pool (`core-transactions`) | queues `queued`, `pending`, `ready`, `unconfirmed` | receive, expire, verify, make unconfirmed | accounts; chain module takes transactions out; broadcaster |
| vote, delegate, second signature (`core-consensus-dpos`, `core-secondsignature`, `rise/src/oldtxs`) | votes, names, keys, confirmed and unconfirmed | verify, apply, undo, their unconfirmed forms, conflicts | accounts, pool |
| chain module (`core-blocks/src/modules/chain.ts`) | `blocks` table, `lastBlock`, `isProcessing`, `isCleaning` | `applyBlock`, `deleteLastBlock`, `cleanup` | pool, accounts, hooks of rounds and delegates |
| process and verify modules (`process.ts`, `verify.ts`) | `lastNBlockIds` | `onReceiveBlock`, forks one and five, `processBlock`, `loadBlocksFromPeer`, `generateBlock` | chain module, peers |
| block sync (`core-blocks/src/hooks/subscribers/loader.ts`) | the backup of a synchronisation | `syncWithNetwork`, `syncWithPeer` | process and chain modules, peers |
| block and transaction bytes, requests (`core-blocks`, `core-transactions`, `core-p2p/src/requests`, `rise`) | - | to and from bytes, to and from rows, how many blocks fit an answer | pool, process module, peers |
| rounds and delegates (`core-consensus-dpos`) | lists by round (memory and table), votes snapshot, missed blocks, fees and rewards | `tick`, `backwardTick`, `generateDelegateList`, the API on delegates | block hooks, forge |
| forge, slots (`core-consensus-dpos`) | keys, enabled keys | `forge`, enable, disable | `generateBlock`, `processBlock` |
| broadcaster (`core-p2p/src/broadcaster.ts`) | queue of tasks | enqueue, filter, squash, release | pool, peers |
| peers (`core-p2p`) | table, bans, consensus | boot, ping, discover, update, remove, broadcast | HTTP |
| boot and timer (`core/src/modules/loader.ts`) | `loader.isSyncing` | `load`, `loadBlockChain`, `doSync` | hooks of all parts |
| command line (`cli`) | lock files, backups, snapshots, processes | start, stop, export, import, snapshots | process, database server |
| exceptions, crypto, launchpad, models, types, utils, docker | - | historical exceptions, signatures, wiring, scripts | - |

What is hard here:

- **Ordering.** The pool manager, incoming transactions and block application share
  the unconfirmed balances; the balances sequence serialises them, except the
  expiry of transactions and the checks made before a block is applied.
- **Failure.** Any database call may reject.  `applyBlock` changes memory before,
  inside and after its database transaction; peers fail, lie, and are banned for it.
- **Crash and restart.** Pool, recent ids, backup of a synchronisation, lists and `lastBlock`
  are in memory; the `u_` columns, lists of rounds and the chain in the database.
- **Forks.** The chain shrinks as well as grows: fork one drops two blocks, fork five
  replaces one, a synchronisation rolls back, and restores what it rolled back if
  it has not got further.  Whatever a block has done is undone: balances, votes, names, keys, pay of rounds, lists.
- **Two generations.** Transactions, blocks, the consensus and the sharing of fees each have an old and a new
  form, in force together or switched at a height.
- **Time.** A block is made over several awaits in which slots pass; tasks and transactions expire.

What makes each part correct: a sequence runs one task at a time, in order, and
answers every call; the confirmed columns are those of the chain replayed, and the
unconfirmed ones are what the pool leaves of them; a transaction is confirmed once
and is never both confirmed and unconfirmed; a block is never refused because of what waits in
the pool; the blocks table is a path from genesis at every moment; memory and table
name the same last block; a synchronisation ends and loses nothing; a delegate is paid once for a block
and the list of a round is the same on every node; a node does not sign two blocks for a slot; what a peer reads is
what was sent; a node stays in touch; a lock names the process that holds it.
`PROJECT.json` lists the hazards line by line, with the properties that cover them.  Where a property excuses the case in which the code gives way (`astray`, `disturbed`, commands that overlap), the note of the hazard says so.

## 2. Modules

| module | what it models | stands on |
|---|---|---|
| `SerialExecutor` | the abstract promise of a named sequence: a line served in order | |
| `Sequence` | `sequence.ts`: array, flag, scheduled ticks, contexts, nested calls | implements `SerialExecutor` |
| `Accounts` | balances, the operations of a send, `performOps`, the trigger (operators only) | |
| `BlockApplication` | pool, pool manager, `processBlock`, `applyBlock`, `popLastBlock`, shutdown, reboot | `Accounts` |
| `Ledger` | the abstract promise of the blocks table: a path that changes at its end | |
| `Chain` | receipt of blocks, forks one and five, synchronisation with backup and restore, recent ids, lists, boot | implements `Ledger` |
| `Delegation` | votes, delegates, second signatures of both generations: their columns through pool, blocks, rollback, expiry, boot | |
| `Rounds` | end of a round and its rollback, rewards, the lists, their cache and table | |
| `DelegatesInfo` | what the API tells of delegates (operators over the state of `Rounds`) | `Rounds` |
| `Forging` | the forging job, its keys, the private API | |
| `TransactionBytes` | the types of transactions: bytes, rows, fees, schemas (operators only) | |
| `Transfer` | transactions and blocks from one node to another | `TransactionBytes` |
| `Network` | the table of peers, bans, discovery, consensus, boot from seeds | |
| `Broadcaster` | the queue of what is relayed | |
| `NodeControl` | the command line over processes, locks, database server and files | |
| `MC*` | the instances TLC checks | |
| `SequenceProofs`, `BlockApplicationProofs`, `ChainProofs`, `ForgingProofs`, `RoundsProofs`, `NodeControlProofs`, `TransferProofs` | theorems; the second begins with what `performOps` does to a balance | the module of that name |
| `PeerToPeerProofs` | theorems | `Network`, `Broadcaster` |

The models divide the system by level.  `Sequence` justifies that the others
treat a task of a sequence as a unit: `BlockApplication` looks inside the tasks
of the balances sequence and takes blocks as they come; `Chain` looks inside the
tasks of the default sequence and takes applying and popping a block as one step
with the outcomes `BlockApplication` distinguishes (done; refused, nothing
changed; saved, but rejected; refused after `lastBlock` was assigned); `Delegation` and `Rounds` take
a block as one step and look at what it writes; `Forging` looks inside the one task that makes a block;
`Transfer` and `Network` at what goes on between nodes.

### Sequence

`sequence[s]`, `running[s]` are the fields of the class.  `immediates[s]` are the
`setImmediate` callbacks not yet run, with the continuation-local context in which they
were scheduled; `active[s]` are the executions of the loop of `tick`, with
the number of tasks they still have to serve, the task being served and the
context.  `promise[t]` is what the caller sees.  A context is the set of sequences
whose flag it holds.  `Calls[t]` are the calls the worker of `t` awaits.
`RunsIn` reads the flag as `addAndPromise` does; `EndTick` clears it in every
context captured inside the tick, since the namespace object is shared.

`NestingAssumption` is the discipline of the decorators in the code: a worker calls
only through sequences of lower rank (default before balances).  `OneTickServes` shows, besides, that
the refusal in `addAndPromise` is then dead code.

### BlockApplication

`pool` is `TransactionPool.queues`, `job` the await at which `processPool` is,
`cycle` the locals of `applyUnconfirmed`, `blk` the locals of the block in the hands of the default
sequence, `chain` and `db` the database.

| action | code |
|---|---|
| `Incoming`, `ExpireTx`, `ExpireDone`, `ProcessQueued`, `CheckPending` | `processIncomingTransactions` and the tasks of `processPool` |
| `StartCycle`, `DropConfirmed`, `Unconfirm`, `BackToQueued`, `EndCycle` | `PoolManager.applyUnconfirmed`, one transaction per step |
| `CheckBlock`, `RejectConfirmed` | `processBlock` up to `applyBlock` |
| `SkipApply`, `EnterApply`, `Prepare`, `PrepareThrows`, `PrepareFails` | `applyBlock` before its database transaction |
| `Commit`, `Rollback` | the database transaction |
| `Finish`, `FinishThrows` | `applyBlock` after it |
| `PopLastBlock` | `popLastBlock` |
| `Cleanup`, `Shutdown`, `Crash` | `cleanup`, the end of the process and the boot |

`Held` says that the balances sequence is taken: no other wrapped task begins.
`disturbed` is a history variable.  It records the events after which pool and unconfirmed
balances are known to differ: expiry of an unconfirmed transaction, a duplicate, a block that failed
after its transactions had left the pool, a restart.  `UnconfirmedFollowsPool` says that
nothing else makes them differ, and that even these events leave the
balance too low and never too high (one case excepted: an
overlapping transaction that expired inside `applyBlock`).

Transactions are sends.  A plugin may hold some of them back (`HeldBack`,
`TxReadyFilter`).  The limits `bundleLimit` of the queued and pending tasks are left out: every
waiting transaction is handled in a turn, which merges turns.

### Chain

`chain` is the blocks table by height, `pc` the await at which the task of the default sequence is,
`sync` the locals of `syncWithPeer`, `chainBackup` the backup, `fork` the block that
`receiveForkFive` is about to process.  `ahead` records that a commit has failed
after `lastBlock` was assigned; `before` the chain to which the backup leads back: the
one the synchronisation began with or, if blocks were loaded before the first rollback,
the one it had reached by then.

Blocks form a tree given by constants.  `Unprocessable` are blocks whose
transactions do not pass.  A peer is what it serves (a path from genesis) and the height
it claims; it may have changed by each request, so `Request` picks anew what the peer is.
Forged blocks enter through `ReceiveNext`: the forge calls `processBlock` as the receipt does.

Left out or merged: the four attempts of `promiseRetry` are `Retries` + 1, and an
attempt that finds no peer ends the rounds at once (`NoPeers`); `getIdSequence`
gives all ids, as the code does for chains this short; reward and delegate checks are one check, that
no milestone or round starts between two heights; the other hooks of rounds and delegates
(rewards, votes) have no effect on the chain other than making `applyBlock` fail.

The lists of delegates are in the model: `listsCache` is `delegatesListCache`, `listRows` the table `delegatesround`,
both by round.  What a list contains is abstracted to the block after which it was computed (`Generated`): the accounts it is
computed from change with blocks only (`Rounds` computes it).  The list is generated by whoever first needs it: the check of a
block's slot (`Checked`), a slot to forge or a receipt (`ListDelegates`), the end of the round (`LookedUp`).
The first block of a round saves it (`ListsApplied`), popping the last one drops the next (`ListsDeleted`).
Rounds have `ActiveDelegates` blocks, at least three: `onBlockChanged` ignores the step back to genesis.

### Delegation

`db` holds both halves of every account, `chain` the transactions of the blocks, `unconfirmed` the queue of the pool
in its order, `waiting` the others.  A function that computes the operations of a block reads the database as it was
before them and changes the accounts in memory as it goes; the two part where an array of votes is concerned (`Splice`
removes the last vote when the one named is absent, `RemoveRow` nothing), so each account has a side `mem` and a side `db`.
`ReceiveBlock` is `processBlock` with what it finds conflicting in the pool undone first, `Forge` is `generateBlock`.
`disturbed` records an expiry or a restart, as in `BlockApplication`, and a boot that recreates the tables clears it; `refused` the last block that was checked and not applied.
Balances do not decide here.  Forging keys are left out of `ConfirmedFollowsChain`: see section 5.

### Rounds and DelegatesInfo

`accounts` has the columns a round writes, `blocks` the chain with slot, generator, fees and reward, `snapshot` the votes
snapshot, `table` and `cache` the lists, `changes` the class of round changes in use (`RiseV2RoundChanges` shares the fees, `RoundChanges`
gives a forger those of its block).  `Generate` computes a list: delegates by vote or weight (`SortedDelegates`), the keys they had when the round began
(`KeyBefore`), the weighted draw, the shuffle, the one who ends (`ReplaceEndForger`).  `Tick` and `BackwardTick`
are the end of a round and its rollback, `SaveList` and `DropLists` what `onBlockChanged` does with lists.  A request
of the API for the next forgers (`RequestForgers`, `AnswerForgers`) reads the row of its round and assigns it later.
`Restart` empties the cache and chooses the class by height; a node that has only the genesis block recreates its tables and applies that block again.
The draw `calcV2Weight` and the bytes of seeds are constants.  `replay[h]` is a history variable: a node that has applied the
first `h` blocks and nothing else.  `astray` records the two known ways for a list to differ from the replay: undoing a round end
sets `cmb` to zero (`round.ts:186`), so the blocks missed before are forgotten, and an answer of the API that comes after a rollback.

The SQL of version 2 does not break ties at the end of the pool; the model has a pool as large as the delegates, so that no tie decides.
`RoundsAssumption` has the switch of the fees away from the end of a round: the class changes after the block, and
the rollback of such a block would use the other class.  `DelegatesInfo` adds no action: its operators are the read
routes, evaluated in every state.  Percentages are left out, a time is a slot.

### Forging

`pc` is the await at which a run of the job is: loading keys, choosing a slot, generating, processing.  The chain changes
between runs, since they are in the default sequence; the clock, the API and the flags of synchronisation and shutdown at every step.
`Register` comes ten seconds after the boot whether the node is shutting down or not.  `sent` are the blocks broadcast.

### TransactionBytes and Transfer

A transaction's bytes are the sequence of its `Piece`s, each with a length, not octet by octet: enough to tell what is written, what a reader
takes for its own, and what remains.  `FullBytes` is `toBuffer`, `Decoded` is `fromBuffer` at the height of the decoder
(the fee of an old type is not in its bytes), `Normal` the schema, `Verified` the checks that depend on type and fee,
`Row` and `Restored` the columns of `trs` and the table of assets.  `Survives` says that a reader gets back what was
written.  In `Transfer` a server forges and answers, a client follows by requests and by posted blocks.  `BlocksToLoad` is
`calcNumBlocksToLoad` with its double count, `Loaded` is `loadBlocksData` with its exclusive upper height.
The keystore type is offered like the others, as on a node whose packages include `core-keystore`; the package `rise` does not depend on it (`rise/package.json:22`).
The server does not fork, a block is its height, an id is its bytes, and signatures are not compared.

### Network and Broadcaster

`table` is `peers`, `banned` what is kept out, `out` the requests under way, `job` the step of discovery, `rows` the saved peers.
The other nodes are the environment: up or down, with a tip and a version accepted up to a height.  `counted` is the tip for which the consensus was computed:
it is computed when the table changes, not when the tip does.  In `Broadcaster` a release takes the queue (`Release`), asks the
database about each task (`Filter`), puts the survivors behind what came meanwhile (`Squash`), and sends them merged.
`fate` follows a task from enqueue to its end.

### NodeControl

A command is a sequence of steps, one per await, each with the locks its `finally` blocks remove.  `node[p]` is a process with its
boot: load, rebuild, verification, ready.  `held` are the lock files, `files` what was exported.  A database is the number of its blocks and the height its accounts
were computed up to.  `overlapped` records that two commands have run at once or that one was killed; `clean` in a command and in a file, that nothing
disturbed the command: no other one beside it, no fault in a pipe, no rebuild, no interrupt or kill of its node, and no block written, by a growing node or as genesis by one
that boots, between the copy of the database and the reading of its height.

## 3. Runs

| run | instance and bounds | shows |
|---|---|---|
| `sequences` | 2 sequences, 6 calls, 2 of them with nested calls | one tick serves at a time and starves on nothing, no refusal (`OneTickServes`); refinement of a line per sequence with its liveness (`ServesInOrder`) |
| `block_application` | 2 accounts, 3 sends, chains of 2 blocks, 2 incoming, 1 expiry, 1 fault, 1 restart | `TxInOnePlace`, `BalancesReplayChain`, `UnconfirmedFollowsPool`, `PoolNeverExcludes`, `ApplyHoldsShutdown` |
| `chain` | 9 blocks on three branches, rounds of 3, 3 kinds of peers, batches of 2, 2 attempts, 2 faults | `MemoryFollowsChain` (`LastBlockIsTip` and `ListsFollowChain`), `SyncKeepsChain` (the way back is always there; the end is not shorter); refinement `TableIsAPath` |
| `chain_live` | the same with peers of one fork and 1 fault | `TaskEnds` |
| `delegation` | 3 accounts, 8 transactions of both generations, 2 in a block, 3 blocks, 2 incoming, 1 expiry or restart | `ConfirmedFollowsChain`, `ExactWhenUndisturbed`, `RefusedForItself` |
| `rounds` | 4 delegates, rounds of 3, 6 blocks, up to 2 empty slots, a vote or a change of key, 1 restart, 1 request of the API; version 2 from height 3, fees switched at 5, rewards at 2 and 6 | `MoneyReplaysChain`, `SupplyConserved`, `ListReplaysUnlessAstray`, `DelegatesTold` |
| `forging` | 3 delegates, 2 configured, the account of one registered in block 2; 4 slots, 3 blocks, 1 each of rollback, synchronisation, API call, stop, failure | `OwnBlockVerifies`, `OneBlockPerSlot`; `ConfiguredKeysForge` |
| `network` | a seed and a node whose version is refused from height 1; tips up to 1, 1 outage, 1 stop | `ConsensusOfTable`; `InTouch` |
| `broadcaster` | 4 tasks that share 3 transactions, limits of 2, 1 failing query, a shutdown | no task doubled or lost (`BroadcasterTypeOK`); `TxsLeave` |
| `node_control` | 4 sessions of one shell and 4 of two, 3 processes, heights 1 and 3 up to 4, rounds of 2, 1 fault | `LockNamesNode`, `FilesAreWhole`; `CommandsEnd` |
| `transfer` | 3 submissions of an old vote, a send with data or a keystore value; 4 heights, the fee rises at 2; payload 370, 2 transactions a block, answers of 931; 1 loss or expiry, inbox of 1 | `AcceptedAsSent`, `PeerKeptUnlessExcused`; `CatchesUp` |
| `transfer_switch` | the same server with an old vote that swaps | violation of `DecodedAsSent` (section 5) |

Every property has a mutant in `PROJECT.json`: a small change of one definition with which TLC refutes the
property.  Properties that belong together are conjunctions of named parts.

**Why these bounds.**  In `sequences` two calls made before a tick give two
scheduled ticks, and a call that arrives during a tick the follow-up tick.  In `block_application` the
sender affords either of her transactions but not both, and the other account spends
only what it receives: a block can conflict with the pool, and a pop can be
refused by the trigger.  A cheap transaction can be paid twice, so that confirming it twice is
prevented by the lookup and not by poverty.  In `chain` a block older than the tip
exists for each fork rule, the longer branch ends in a block that does not apply, and one
peer claims more than it serves: rollbacks, second rollbacks and
restores happen, with faults in each.  Windows (`SlotWindow` 2) are smaller than chains, so ids fall out.
Both forks cross the end of the first round, at height 3, so that lists are dropped, read back and computed again.

In `delegation` two accounts want one name, a delegate changes her key while old votes name it, and an account that votes also
registers and enables a second signature; `MaximumVotes` 1 makes the limit bite.  Two transactions in a block are what
the order of their undo needs.  (With the old second signature in place of the new and one incoming transaction it passes as well.)
In `rounds` six blocks are two rounds, and the first list of version 2 is used, missed and rolled back; a delegate may miss one block before it is
left out, and a skipped slot makes somebody miss; one delegate is below the line.
The two delegates with most votes have the later keys, so that the order by votes is not that of the keys.  With version 2 switched off (`FirstV2` 0) it passes as well.
In `forging` the account of the first configured key is missing at first, so that loading fails and is repeated; the slots cross a change of list.
In `network` one remote's version expires with the block the node gets from the other, so that a removal happens with a ban; the limits of the broadcast are 1 of 2 peers.
With tips of 0 and 1 the histogram that `Good` peers are chosen by has no second cut.  In `broadcaster` all limits are below the number of tasks, and
one task has been relayed as often as it may.  In `node_control` the sessions are those that run into each other: a
start beside a restart or an export, two exports, an export beside an import, a snapshot and its import; height 3 is no end of a round, so the verified snapshot is shorter than its
database.  In `transfer` an old vote with two signatures leaves no room in a payload, the others go two by two, two such blocks fill an answer, so `BlocksToLoad` cuts; the
fee rises inside a batch; a send with data is a block no peer accepts.

**Fairness.**  `Sequence`: the event loop runs what is scheduled, and a worker whose own
calls have settled settles.  `Chain`: a promise chain that has begun continues
(`WF(Continue)`), requests being answered or timing out.  `Forging`: timers fire, promises settle (`JobStep`), a synchronisation
gets its turn and ends.  `Broadcaster`: the job is scheduled again after each run, queries and requests end.  `Network`: what the node has begun goes on,
requests are answered or fail, remotes come back and bans end (they have a `banTime`, as in the test network);
strong fairness for what only needs luck: a remote that is asked for its list again and again tells of everybody at last, and now and then nobody has called for so long that
all information is stale.  `NodeControl`: commands and processes go on, a start in the background runs into its timeout.
`Transfer`: the sync timer asks again (`Request`), a request goes on, a batch is processed, discovery finds the server (module
`Network`).  Nobody is obliged to call, receive, forge, vote or fail.
`TaskEnds` needs peers of a single fork: with two forks that outgrow each other in the answers, the
loop of `syncWithNetwork` has no bound, and TLC finds the lasso.  `CommandsEnd` leaves `export-snapshot` out: see section 5.
`InTouch` allows for a node that has lost everybody, which nothing but a caller or a boot ends; `CatchesUp` supposes that no transaction in a block is
one its bytes lose.

## 4. Proofs

**Sequences** (`SequenceProofs`).  From `SequenceAssumption` and `NestingAssumption`.
`OneServes`: mutual exclusion and ticks that never starve are not inductive with the absence of conflicts alone: the
invariant adds that a served task belongs to its sequence (`AtHome`) and that a
context captured by a scheduled or active tick of `s` holds only sequences of rank at least
that of `s` (`ContextsOrdered`).  With it a call to a lower sequence is never in its own context.
`ImplementsSerialExecutor` maps the array, preceded by the task being served, to the abstract line;
a shift leaves the line as it is, a settlement removes its head.

**Block application** (`BlockApplicationProofs`).  For any accounts, any finite set of
transactions and any bounds.

`OnePlace` and `ShutdownWaits`: the invariant adds that the sequence has one holder (`HeldOnce`: no cycle
of the pool manager while a block is applied), that a checked block is fresh (`BlockFresh`: none of its
transactions confirmed) and that a prepared block has left the pool (`BlockOutOfPool`).  That nothing is confirmed twice
needs `BlockFresh` because the lookup happens several awaits before the commit; it holds since only
the default sequence extends the chain.

`NeverBoth` also shows that one branch of the code has nothing to do: a block refused for a transaction that is confirmed (`verify.ts:196`) never finds it among the unconfirmed ones (`NothingStale`).

`TypeCorrect` says above all that no balance is negative, which is what the trigger (`Update`) is for.
`BalancesFollowChain`: what a balance is after any list of operations cannot be defined away, since the trigger looks at every
step.  Its first lemmas, about `Accounts`, therefore say what the operations make of one account: the balance before,
more what the transactions bring, less what they cost (`ApplyAll`, `UndoUnconfirmedAll`, `DebitAll`, `PopAll`), as sums over sets of
transactions (`SumUnion`, `SumAdd`, `SumSplit`).  The invariant (`ChainSums`) is then that a balance is what genesis gave and what the set of
confirmed transactions brought and took, and `ReplayedSums` that a replay of the chain, block after block, gives the same.

`UnconfirmedFollows` and `PoolExcludesNothing` need the same sums for the unconfirmed side through the steps of `applyBlock` (`PoolInv`):
the overlapping transactions listed at its start are those of the pool until one expires (`OverlapIsPool`); the debits to make are in the block
(`DebitedInBlock`); a block that was prepared could be paid (`Afforded`); and of the accounts read before the awaits the balances are those of the database and the unconfirmed balances no lower than what the
pool leaves (`AccountsRead`).  With that the credit of the overlapping transactions and the debit of the block's own are
the same sum read twice, and neither the logic nor the trigger refuses what the confirmed balance pays for.

**Chain** (`ChainProofs`).  `TypeCorrect`, `MemoryIsTip` and `KeepsAPath` for any tree of
blocks, peers and number of faults.  The invariant adds that the chain starts at genesis and each block names the one before
it, and that the last block in memory, if saved, is the tip (`SavedIsTip`), also after a failed commit.  The lemma
`InsertableFollows` is the reason for the path: the foreign key and the uniqueness of
the previous block leave only the successors of the tip.

**Lists of delegates** (the second part of `ChainProofs`).  `ListsFollow`: a list in memory or in the table
is that of the present chain, for any tree of blocks and any `ActiveDelegates` above two.  `ListsFollowChain` alone
is not inductive.  Needed besides: a block's height is its place in the table
(`HeightsCount`), so that the round of a block is that of its position; a block whose commit failed is not
in the table (`AheadUnsaved`), so that nothing is applied on top of it with a list of the wrong round; and what is
reapplied follows the last block (`BackupLinked`, `ReapplyFollows`), so that a restore never looks up a list
that is two rounds ahead.  The argument: lists are added only for rounds whose seed
block is in the chain (`GeneratedFollows`, `LookedUpFollows`), and a pop takes away the only list that was computed on
the block that goes (`SeedBelow`, `DropsFollow`).  The lemmas before it are the arithmetic of
`calcRound` (`RoundBounds`, `RoundUnique`, `RoundMonotone`, `SeedOfStart`).  With `MemoryIsTip` it gives
`MemoryFollows`, the property the run checks.

**Synchronisation** (the third part of `ChainProofs`).  `SyncLosesNothing`: as long as a synchronisation runs without a failed commit
(`Synchronising`), the backup leads back (`WayBack`): for some `n` the first `n` blocks of the chain before are those of the present
chain, and the backup holds the others from the last to the next (`Way`).  The backup alone is not enough for an induction: that the chain before
is itself a path (`BeforeIsPath`) makes two paths that share a block equal below it (`PathsMeet`): when the restore has rolled back to the block the backup stands on,
nothing below it has been exchanged for another fork.  `BackupInUse` says at which awaits there is a backup.
That the end is not shorter (`NeverShorter`) follows, heights being places: the way back and the comparison of heights in `NeedRestore`.

**Forging** (`ForgingProofs`).  `OwnBlockPasses`, `OneSentPerSlot` and `TypeCorrect` for any keys, lists, slots and bounds, with
lists typed up to the height that the slots allow (`MaxSlot` + 3).  The blocks are in the order of their slots and none is after the next slot, so there are at
most as many (`ChainInv`); a run of the job holds the default sequence, so that no synchronisation or rollback comes between choosing and
processing (`RunInv`); the block that is made was chosen on the last block that is still there (`BlockInv`); every block sent is in the chain or was
rolled back (`SentInv`).

**Rounds** (`RoundsProofs`).  `MoneyIsWhereTheChainSays`: balances, fees, rewards and produced blocks are those of a replay of the chain, for any delegates, keys and addresses (also none), milestones, lists,
draws, transactions (one a block), and whatever is rolled back, restarted over or answered late.  For it nothing is needed of the lists, the missed blocks, the votes or their snapshot: these may differ from the replay, the money may not.
Subtractions are not undone by looking at the past, so the argument is by what is moved: for a chain and a block there is one `d`, for each account a difference of the four columns, such that *any* node at
the end of the chain is moved by `d` when it applies the block, and *any* node that has the block at its end is moved back by the same `d` when it pops it (`ABlockMoves`).  For the end of a round `d` is found by induction over its
blocks (`RoundMoves`), in the order they are paid, which is the same both ways.  Both directions must use the same class of round changes: the class is that of the height before when the round is paid
and that of the block when it is undone, and they differ only at the switch, which ends no round (`NoSwitchAtTheEnd`, the one use of that part of `RoundsAssumption`).  The invariant (`HistoryInv`) says that the node and each `replay[h]` is at the end of the first `h` blocks
with the class of that height, that each `replay[h]` is the one before with block `h` applied, and that the money of the last one is that of the node.

`ListIsThatOfTheChain`: the list of the next block and the missed blocks are those of the replay, in both versions, unless the node is `astray` (an undone round hid missed blocks
of a delegate, or a late answer brought a list whose row was gone or replaced).  A popped node is not equal to the replay: it keeps rows and a cache that were filled later, and the one snapshot of the votes, restored by a second undo,
may be that of another round.  The invariant (`ListsInv`, beside `HistoryInv`) therefore says what a list may depend on: the list of a round is the one the history computes on the last block of the round before (`Seed`, `ListOf`),
every list in a cache or a table is of that kind and its seed is still in the chain (`GoodLists`), and the rounds of the chain have their rows (`HasLists`).  Missed blocks, votes and keys are those of the history;
votes and weights need to be right only at the end of a round whose next list is missing (`Straight`), which is where they have just been recomputed: popping the first block of a round leaves its row, and the undo of an end, which restores, leaves a chain that does not end a round.
The history itself has the votes and keys of its chain (`Replayed`), so that they come back when a block is popped: the row before a block is read from the blocks below it.
How a list is sorted, cut, shuffled and its last forger replaced is not looked at: the proof needs only that the list is a function of the rows and the blocks.  It needs of `FirstV2` that it is an integer (a height, or less than one for never: `dposV2Helper.ts:19`).

**Network** (`PeerToPeerProofs`).  `TypeCorrect` and `ConsensusFollows` for any remotes, versions and limits.  What the job waits for is inductive only with what each
request under way is for (`RequestsInv`): answers arrive in any order, and one that comes after its step must not be counted for the next.

**Broadcaster** (the second part of `PeerToPeerProofs`).  `TasksInOnePlace` for any tasks and limits.  The invariant takes the four places one by one (`PlacesInv`:
each without repetition, all disjoint) and says which of them may be in use at which await (`StagesInv`).  That no request exceeds `maxSharedTxs`
rests on the chunks of `mergeRequests` being the quotient rounded up.

**Command line** (`NodeControlProofs`).  `LockFollows`, `TypeCorrect` and `FilesHold` for any sessions of commands and any number of processes and faults.
That the lock names the node is not inductive: a command removes the lock or writes it without a look at the nodes.  The invariant adds what a command that is
alone relies on (`Relies`): nothing runs when it comes to `unlock` or to a spawn, and only its own node while it waits.  This holds because of the order of the steps, so that the commands
are first shown to have a shape (`Shape`, `ProgramShape`): the lock is removed right after the signal and nowhere else, a spawn comes right after the check, a wait right after the spawn, and the early
returns of `db start`, `import-db` and `nodeStop` come out behind the last step of their function (`Landing`).  The shape is proved function by function and kept when functions are called one after the other (`JoinedShape`) or
inside a `finally` (`WithinShape`).
For `FilesHold` a second shape says which steps surround each step of an export (`Links`, `ProgramLinked`), and `Knows` what an undisturbed command knows at each of them: after `dropdb` has
succeeded no node is connected to the copy, which lasts until a node is spawned with `-s`; after the copy both databases have the same blocks; while the
verification runs, the only node on the copy is the one it waits for, and if that exits with zero, the copy ends with a round (`Verifies`).  An early return or any
other step leads only to places where nothing is known (`Ignorant`), and what a node does to its own database touches no copy that a command has for itself (`NodeKnows`).

**Transfer** (`TransferProofs`).  `ClientHasTheRowsOfTheServer`, `TypesAreRight` and `PeerIsKept` for any transactions of the nine types, fees, limits and bounds, with at most
64 votes a transaction (the code has 1 or 2; with 65 the keys of an old vote are as long as signatures and the argument below fails).  The invariant: every block of the server was accepted on top of those below it and is written by the database
as it was sent (`Kept` in `ChainInv`); the client's blocks are the first of the server's (`CopyInv`); what is under way, decoded or posted is what a block of the server becomes on the wire or
when it is read at some height (`LinkInv`, `BatchInv`, `PostsInv`); what waits in the pool is a transaction whose row gives it back (`PoolInv`).
The heart is `SameRow`: a transaction that was read from bytes and is accepted has the row of the one that was sent, although readers lose votes and data and guess the fee.  For what they lose changes the
bytes, which are compared with the payload, and the fee of an old transaction, which is not in its bytes, is verified to be exactly the one due at the last block (`AcceptedIsSaved` says the same of a block).  Conversely `SurvivorsAreRead`: a block without a damaged transaction, decoded where the fees are those of its own height, passes every check, since the server made the same ones
when it forged.  The lemmas before it are about pieces and rows: `Within` and `After` cut a sequence in two, rows are read in the order of `rowId`, and each type's row gives back what was put in it.

**Assumptions.**  Those of the modules, each named and evaluated by the runs; the proofs use no other.  Bounds of the models (`MaxFaults`,
`MaxHeight`, `MaxTip`, ...) are arbitrary numbers in them.

**Induction.**  The induction theorems of the library take an operator, which the provers cannot instantiate.  The proof modules that need it derive from well-founded induction
on sets that a set of numbers with 0 and every successor is all of them (`SetInduction`), and that a function defined by iteration exists and is unique
(`Iteration`, `SameIteration`).  This suffices for recursive functions; the folds of the community modules are operators of higher order and out of reach, which is why
`Accounts`, `TransactionBytes`, `Transfer` and the pay of a round in `Rounds` are written without them.

Only model-checked: `Delegation`, whose votes and queues are folds over arrays and selections from sequences; of `Rounds` the sum of all money, the type and what the API tells (`SupplyConserved`, `TypeOK`, `DelegatesTold`), which need what sums and sorting by operators of higher order return; all
liveness (`TaskEnds`, `InTouch`, `TxsLeave`, `ConfiguredKeysForge`, `CommandsEnd`, `CatchesUp`, the fairness part of `ServesInOrder`), which is beyond the prover.

## 5. Where comments and code part

The run `transfer_switch` shows that the reader of an asset does not give back what was written: `fromBytes` "Returns
asset, given Buffer containing it" (`BaseTx.ts:92`), but the keys of an old vote have no length in their bytes, the first is taken alone
(`VoteTx.ts:152`), and a vote for one delegate with a vote against another is never read.

Met while modelling, without a run; where one of them bites, a property names the exception.

*Blocks and boot*
- "so that unconfirmed values are equal to the confirmed ones" (`core/src/hooks/actions.ts:24`): nobody subscribes to the hook; debits of lost transactions survive the boot, unless genesis is the only block, when the tables are recreated.
- "Allow cleanup as processing finished even if rollback." (`chain.ts:360`): an exception before or after the database transaction leaves `isProcessing` set.
- "Block Already exists in the chain" (`verify.ts:227`): ids of deleted blocks stay in the list.
- "Keep the oldest block" (`process.ts:562`): the competitor is verified with the next height and refused at a boundary.
- "Restore chain from the backup if we ended up on a shorter fork or the sync process failed" (`hooks/subscribers/loader.ts:140`): restored blocks are not verified, so nobody generates the
  list that the first block of a round saves; the insertion fails (`schema.sql:53`) and the rest of the backup is lost.
- "Contains the last N block Ids" (`verify.ts:80`): after a boot the highest id is dropped first.
- The comment of `sync` (`hooks/subscribers/loader.ts:93`) speaks of unconfirmed transactions, which it leaves alone; the backup is taken at the first rollback, not "from the start of the sync process".

*Transactions*
- A send with data (type 10) writes its asset and does not read it (`BaseTx.ts:88` returns null): decoded, it has another id and is refused everywhere, and a synchronisation does not pass its block.
- The fee of an old transaction is computed at the height of the decoder (`BaseOldTx.ts:164`): a batch across a change of fees is refused and the peer removed; the next request succeeds.
- `generateBlock` verifies at the height of the last block, `processBlock` at that of the new one (`process.ts:346`): at a change of fees a forger may refuse its own block until the transaction expires.  The pool checks without a height (`PoolManager.ts:167`, `221`), which is the first entry of fees.
- `calcNumBlocksToLoad` counts a block with transactions twice (`GetBlocksRequest.ts:159`) and leaves out the data of a send and the value of a keystore entry: an answer may be about twice the limit.
- Two changes of one delegate's key in one block are undone in a way that may leave a key that is not in the chain (`delegateTransaction.ts:269`).  Undoing an old second signature leaves `u_secondSignature` set (`SecondSignatureTx.ts:79`).
- A vote that expires in the pool stays in the `u_` columns, and the block that confirms it is refused.

*Rounds and their API*
- The undo of a round's end sets `cmb` to zero as the end does (`round.ts:186`).
- The switch of the fees at the end of a round would be undone with the other class.
- The API tells of rewards by key, although a key whose address is not the delegate's account is paid elsewhere (`round.ts:175`); of fees by block, although the fees of a round are shared; of a rank of version 2 among those
  with as many votes (`delegates.ts:308`), ordered by weight; of ranks on a page as places on it, whatever the offset.  `getNextForgers` uses the round of the last block, which is over at its end.

*Network*
- The consensus is not computed again when the own tip changes.  Without `banTime`, as in the main network, removed peers come back at the next discovery; without any peer nothing is asked.
- A failing `isRequestExpired` loses the queue that was taken (`broadcaster.ts:172`).  What `squash` merges loses its filters.

*Command line*
- A process that dies by a signal has exit code null, which is taken for success (`node/start.ts:283`, `export-snapshot.ts:141`).
- The restart after a rebuild of the native modules forgets `verifySnapshot` (`start.ts:189`).
- A verification on a database with nothing but genesis never exits (`loader.ts:140`): `export-snapshot` hangs with its lock.
- An export that is refused removes the lock of the other (`export-db.ts:158`); a stop does not wait for the exit before the dump begins.

## 6. Plan

Done: the inventory; sequences, pool and blocks with their balances, chain with lists and synchronisation, forging, money and lists of rounds, peers, broadcaster, command line, transfer (proved); transactions on accounts, supply and the API of rounds (checked).

Left: the type invariants of `Rounds` and `Delegation` as theorems, for which the folds and `SortSeq` would become recursive functions; then `ConfirmedFollowsChain`.

## Not modelled

- Signatures, hashes, keys; HTTP and protobuf; ORM declarations and wiring: pure functions over bytes, or I/O.
- Exceptions for known historical transactions and blocks: a table without state, of which each entry is a fact of one chain.
- The migrator, the order in which modules are loaded, and the handlers of signals beyond what `NodeControl` sees: `finishBoot` is not awaited, so a
  signal during the boot may find it half done; the hook of the exit forces it after fifteen seconds.
- Read-only routes other than those on delegates.
- Of the command line: `download` and `setup` beyond what they leave in the database, `migrate` (disabled in `migrate.ts:80`), crontabs, docker, which wraps the same commands.
- The verification of old blocks by `verifySnapshot` beyond its effect on heights; `maybeEnqueue` of the broadcaster, which has no caller; registering a job again while it runs, which no caller does.
