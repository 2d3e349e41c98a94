-------------------------- MODULE BlockApplication --------------------------
(***************************************************************************)
(* How the transaction pool and the chain share the unconfirmed balances.  *)
(*                                                                         *)
(* The pool manager (core-transactions/src/PoolManager.ts) is a job that   *)
(* expires transactions, then moves them from queue to queue; a            *)
(* transaction that becomes unconfirmed is debited from its sender's       *)
(* unconfirmed balance.  A block is checked (core-blocks/src/modules/      *)
(* process.ts, verify.ts) and applied (chain.ts, applyBlock) in several    *)
(* steps: the unconfirmed transactions that are not in the block are       *)
(* undone in the database, the block is applied and saved, and these       *)
(* transactions go back to the queue.  Everything but the expiry and the   *)
(* checks of a block runs in the balances sequence (Sequence.tla): a task  *)
(* of the pool manager is one step here, and none of them runs while a     *)
(* block is being applied.  A shutdown waits for the flag isProcessing;    *)
(* a restart loses the memory and keeps the database.                      *)
(***************************************************************************)
EXTENDS Accounts

CONSTANTS
  Genesis,            \* Genesis[a]: the balance of a after the genesis block
  HeldBack,           \* transactions a TxReadyFilter plugin may hold back
  UnconfirmedInPool,  \* the constant unconfirmedInPool of core-transactions
  MaxTxsPerBlock,     \* the constant maxTxsPerBlock of core-blocks
  \* bounds of the model
  MaxHeight, MaxReceived, MaxExpired, MaxFaults, MaxRestarts

ASSUME BlockApplicationAssumption ==
  /\ Genesis \in [AccountIds -> Nat]
  /\ HeldBack \subseteq Txs
  /\ UnconfirmedInPool \in Nat
  /\ MaxTxsPerBlock \in Nat

VARIABLES
  pool,          \* the queues of TransactionPool
  job,           \* the task processPool runs next
  cycle,         \* applyUnconfirmed of the pool manager: the ready
                 \* transactions to do, the sender accounts it has read
  chain,         \* the blocks in the database above genesis, as tx sequences
  db,            \* mem_accounts: balance and u_balance of every account
  blk,           \* the block in the hands of the default sequence
  isProcessing,  \* BlocksModuleChain.isProcessing
  isCleaning,    \* set by cleanup() of the block modules
  received, expired, faults, restarts,  \* counters of the bounded events
  disturbed      \* history: what has made pool and balances part so far

poolVars == <<pool, job, cycle>>
counters == <<received, expired, faults, restarts>>
vars == <<poolVars, chain, db, blk, isProcessing, isCleaning, counters, disturbed>>

Queues == {"queued", "pending", "ready", "unconfirmed"}
Jobs == {"expire", "queued", "pending", "ready", "cycle"}
Disturbances == {"expired", "overlap", "duplicate", "rollback", "restart"}
Stages == {"idle", "checked", "entered", "prepared", "committed"}
Blocks == BoundedSeq(Txs, MaxTxsPerBlock)

NoAccounts == [a \in AccountIds |-> [balance |-> 0, u_balance |-> 0]]
NoCycle == [todo |-> <<>>, accounts |-> NoAccounts]
NoBlock == [stage |-> "idle", txs |-> <<>>, accounts |-> NoAccounts,
            overlap |-> {}, debited |-> {}]

TypeOK ==
  /\ pool \in [Queues -> SUBSET Txs]
  /\ job \in Jobs
  /\ cycle \in [todo : Seq(Txs), accounts : Tables]
  /\ chain \in Seq(Seq(Txs))
  /\ db \in Tables
  /\ blk \in [stage : Stages, txs : Seq(Txs), accounts : Tables,
              overlap : SUBSET Txs, debited : SUBSET Txs]
  /\ isProcessing \in BOOLEAN
  /\ isCleaning \in BOOLEAN
  /\ counters \in Nat \X Nat \X Nat \X Nat
  /\ disturbed \subseteq Disturbances

EmptyPool == [q \in Queues |-> {}]

GenesisTables == [a \in AccountIds |-> [balance |-> Genesis[a], u_balance |-> Genesis[a]]]

Init ==
  /\ pool = EmptyPool
  /\ job = "expire"
  /\ cycle = NoCycle
  /\ chain = <<>>
  /\ db = GenesisTables
  /\ blk = NoBlock
  /\ isProcessing = FALSE
  /\ isCleaning = FALSE
  /\ received = 0 /\ expired = 0 /\ faults = 0 /\ restarts = 0
  /\ disturbed = {}

-----------------------------------------------------------------------------
(* The transactions in the database (filterConfirmedIds). *)
TxsOf(blocks) == UNION {ToSet(blocks[i]) : i \in DOMAIN blocks}
Confirmed == TxsOf(chain)

(* moveTx for the transactions of S, and removeFromPool for those of R. *)
MoveTx(p, S, from, to) == [p EXCEPT ![from] = @ \ S, ![to] = @ \cup S]
RemoveFromPool(p, R) == [q \in Queues |-> p[q] \ R]

(* The balances sequence is held from the start of applyBlock to its end,   *)
(* and while the pool manager goes through the ready transactions.          *)
Applying == blk.stage \in {"entered", "prepared", "committed"}
Held == Applying \/ job = "cycle"

(* The history of what makes the pool and the balances part. *)
Disturb(kind, when) == disturbed' = disturbed \cup (IF when THEN {kind} ELSE {})

-----------------------------------------------------------------------------
(* processIncomingTransactions, for one transaction of the request: only    *)
(* confirmed transactions are skipped, and add() ignores those that are     *)
(* already in the queue it adds to.                                         *)
Incoming(t) ==
  /\ received < MaxReceived
  /\ ~Held
  /\ t \notin Confirmed
  /\ pool' = [pool EXCEPT !["queued"] = @ \cup {t}]
  /\ received' = received + 1
  /\ UNCHANGED <<job, cycle, chain, db, blk, isProcessing, isCleaning,
                 expired, faults, restarts, disturbed>>

(* removeExpiredTransactions, outside the balances sequence: a transaction  *)
(* past its timeout leaves every queue.                                     *)
ExpireTx(t) ==
  /\ job = "expire"
  /\ expired < MaxExpired
  /\ \E q \in Queues : t \in pool[q]
  /\ pool' = RemoveFromPool(pool, {t})
  /\ expired' = expired + 1
  /\ disturbed' = disturbed
                    \cup {k \in {"expired"} : t \in pool["unconfirmed"]}
                    \cup {k \in {"overlap"} : t \in pool["unconfirmed"] /\ t \in blk.overlap}
  /\ UNCHANGED <<job, cycle, chain, db, blk, isProcessing, isCleaning,
                 received, faults, restarts>>

ExpireDone ==
  /\ job = "expire"
  /\ job' = "queued"
  /\ UNCHANGED <<pool, cycle, chain, db, blk, isProcessing, isCleaning, counters, disturbed>>

(* processQueuedTransactions: held back transactions become pending, those  *)
(* that verify become ready, the others leave the pool.                     *)
ProcessQueued ==
  /\ job = "queued"
  /\ ~Held
  /\ \E held \in SUBSET (HeldBack \cap pool["queued"]) :
       LET rest == pool["queued"] \ held
           bad == {t \in rest : db[Sender[t]].balance < Cost(t)}
       IN /\ pool' = RemoveFromPool(
                       MoveTx(MoveTx(pool, held, "queued", "pending"),
                              rest, "queued", "ready"), bad)
          /\ Disturb("duplicate", bad \cap pool["unconfirmed"] # {})
  /\ job' = "pending"
  /\ UNCHANGED <<cycle, chain, db, blk, isProcessing, isCleaning, counters>>

(* checkPendingTransactions. *)
CheckPending ==
  /\ job = "pending"
  /\ ~Held
  /\ \E held \in SUBSET (HeldBack \cap pool["pending"]) :
       pool' = MoveTx(pool, pool["pending"] \ held, "pending", "ready")
  /\ job' = "ready"
  /\ UNCHANGED <<cycle, chain, db, blk, isProcessing, isCleaning, counters, disturbed>>

(* filterConfirmedIds for a ready transaction. *)
AlreadyConfirmed(t) == t \in Confirmed

(* The ready transactions of one cycle: as many as the pool misses, those   *)
(* of the lowest fees, in the order of their fees.                          *)
ReadyLists ==
  LET missing == UnconfirmedInPool - Cardinality(pool["unconfirmed"])
      size == Min({missing, Cardinality(pool["ready"])})
  IN {list \in UNION {SetToSeqs(S) : S \in kSubset(size, pool["ready"])} :
        /\ \A i, j \in DOMAIN list : i < j => Fee[list[i]] <= Fee[list[j]]
        /\ \A i \in DOMAIN list, t \in pool["ready"] \ ToSet(list) :
             Fee[list[i]] <= Fee[t]}

(* applyUnconfirmed of the pool manager, the last task of processPool,      *)
(* picks the transactions of the cycle and reads their senders.             *)
StartCycle ==
  /\ job = "ready"
  /\ ~Held
  /\ \E list \in ReadyLists : cycle' = [todo |-> list, accounts |-> db]
  /\ job' = "cycle"
  /\ UNCHANGED <<pool, chain, db, blk, isProcessing, isCleaning, counters, disturbed>>

(* It is the turn of t; what the turn always changes, p the pool after it.  *)
Turn(t) == job = "cycle" /\ cycle.todo # <<>> /\ t = Head(cycle.todo)
Advance(p, accounts) ==
  /\ cycle' = [todo |-> Tail(cycle.todo), accounts |-> accounts]
  /\ pool' = p
  /\ UNCHANGED <<job, chain, blk, isProcessing, isCleaning, received, expired, restarts>>

(* It is confirmed already: it is removed.                                  *)
DropConfirmed(t) ==
  /\ Turn(t)
  /\ AlreadyConfirmed(t)
  /\ Advance(RemoveFromPool(pool, {t}), cycle.accounts)
  /\ UNCHANGED <<db, faults, disturbed>>

(* The sender affords it, with and without the unconfirmed transactions.    *)
Affordable(t) ==
  /\ cycle.accounts[Sender[t]].balance >= Cost(t)
  /\ cycle.accounts[Sender[t]].u_balance >= Cost(t)

(* What the logic does to the sender account it was given. *)
Debit(t) == [cycle.accounts EXCEPT ![Sender[t]].u_balance = @ - Cost(t)]

(* It is debited, and moved to the unconfirmed queue.                       *)
Unconfirm(t) ==
  LET result == PerformOps(ApplyUnconfirmedOps(t), Unharmed(db)) IN
  /\ Turn(t)
  /\ ~AlreadyConfirmed(t)
  /\ Affordable(t)
  /\ result.ok
  /\ db' = result.db
  /\ Advance(MoveTx(pool, {t}, "ready", "unconfirmed"), Debit(t))
  /\ Disturb("duplicate", t \in pool["unconfirmed"])
  /\ UNCHANGED faults

(* It is not, and goes back to the queue: an assertion of the logic fails,  *)
(* or the update of the database.                                           *)
BackToQueued(t) ==
  LET requeued == MoveTx(pool, {t}, "ready", "queued") IN
  /\ Turn(t)
  /\ ~AlreadyConfirmed(t)
  /\ \/ /\ ~Affordable(t)
        /\ Advance(requeued, cycle.accounts)
        /\ UNCHANGED faults
     \/ /\ Affordable(t)
        /\ faults < MaxFaults
        /\ faults' = faults + 1
        /\ Advance(requeued, Debit(t))
  /\ UNCHANGED <<db, disturbed>>

(* The cycle ends, and with it processPool.                                 *)
EndCycle ==
  /\ job = "cycle"
  /\ cycle.todo = <<>>
  /\ job' = "expire"
  /\ cycle' = NoCycle
  /\ UNCHANGED <<pool, chain, db, blk, isProcessing, isCleaning, counters, disturbed>>

-----------------------------------------------------------------------------
(* Mutant: transactions of the block are not looked up in the database. *)
NoneConfirmed(txs) == {}

(* checkBlockTransactions: the transactions of a block found in the         *)
(* database.                                                                *)
ConfirmedIn(txs) == ToSet(txs) \cap Confirmed

(* processBlock, up to applyBlock: the block passes its checks against the  *)
(* accounts as they are now; the sender accounts read here are used later.  *)
CheckBlock(txs) ==
  /\ blk.stage = "idle"
  /\ ~isCleaning
  /\ Len(chain) < MaxHeight
  /\ ConfirmedIn(txs) = {}
  /\ \A i \in DOMAIN txs : db[Sender[txs[i]]].balance >= Cost(txs[i])
  /\ blk' = [NoBlock EXCEPT !.stage = "checked", !.txs = txs, !.accounts = db]
  /\ UNCHANGED <<poolVars, chain, db, isProcessing, isCleaning, counters, disturbed>>

(* undoUnconfirmed, for one transaction after the other.                    *)
UndoUnconfirmed(S) == PerformAll(OpsOf(UndoUnconfirmedOps, SetToSeq(S)), Unharmed(db))

(* processBlock of a block with a confirmed transaction: the block is       *)
(* refused, and the transaction taken out of the unconfirmed queue.         *)
RejectConfirmed(txs) ==
  LET stale == ConfirmedIn(txs) \cap pool["unconfirmed"] IN
  /\ blk.stage = "idle"
  /\ ~isCleaning
  /\ ConfirmedIn(txs) # {}
  /\ pool' = [pool EXCEPT !["unconfirmed"] = @ \ stale]
  /\ db' = UndoUnconfirmed(stale).db
  /\ UNCHANGED <<job, cycle, chain, blk, isProcessing, isCleaning, counters, disturbed>>

(* applyBlock returns at once during a shutdown. *)
SkipApply ==
  /\ blk.stage = "checked"
  /\ ~Held
  /\ isCleaning
  /\ blk' = NoBlock
  /\ UNCHANGED <<poolVars, chain, db, isProcessing, isCleaning, counters, disturbed>>

(* applyBlock starts: the unconfirmed transactions not in the block are     *)
(* listed.                                                                  *)
EnterApply ==
  /\ blk.stage = "checked"
  /\ ~Held
  /\ ~isCleaning
  /\ isProcessing' = TRUE
  /\ blk' = [blk EXCEPT !.stage = "entered",
                        !.overlap = pool["unconfirmed"] \ ToSet(blk.txs)]
  /\ UNCHANGED <<poolVars, chain, db, isCleaning, counters, disturbed>>

(* The transactions of the block that no unconfirmed debit pays for. *)
NotInPool == ToSet(blk.txs) \ pool["unconfirmed"]

(* Mutant: the overlapping transactions are not credited first. *)
PassBesideOverlap ==
  \A t \in NotInPool :
    blk.accounts[Sender[t]].u_balance >= CostOf(NotInPool, Sender[t])

(* transactionLogic.applyUnconfirmed passes for all of them: the sender     *)
(* account read before, credited with the overlapping transactions, pays.   *)
UnconfirmedPass ==
  \A t \in NotInPool :
    blk.accounts[Sender[t]].u_balance + CostOf(blk.overlap, Sender[t])
      >= CostOf(NotInPool, Sender[t])

(* transactionLogic.apply passes for the first n transactions. *)
ConfirmedPass(n, held) ==
  \A i \in 1..n :
    /\ blk.txs[i] \notin held
    /\ blk.accounts[Sender[blk.txs[i]]].balance
         >= CostOf(FirstTxs(blk.txs, i), Sender[blk.txs[i]])

(* Every operation of the block is prepared; its transactions leave the     *)
(* unconfirmed queue.                                                       *)
Prepare ==
  /\ blk.stage = "entered"
  /\ UnconfirmedPass
  /\ ConfirmedPass(Len(blk.txs), {})
  /\ blk' = [blk EXCEPT !.stage = "prepared", !.debited = NotInPool]
  /\ pool' = [pool EXCEPT !["unconfirmed"] = @ \ ToSet(blk.txs)]
  /\ UNCHANGED <<job, cycle, chain, db, isProcessing, isCleaning, counters, disturbed>>

(* applyBlock throws before its database transaction, after having taken n  *)
(* transactions out of the unconfirmed queue; isProcessing stays set.       *)
ThrowAfter(n) ==
  LET gone == FirstTxs(blk.txs, n) IN
  /\ pool' = [pool EXCEPT !["unconfirmed"] = @ \ gone]
  /\ blk' = NoBlock
  /\ Disturb("rollback", gone \cap pool["unconfirmed"] # {})
  /\ UNCHANGED <<job, cycle, chain, db, isProcessing, isCleaning, received, expired, restarts>>

(* ... because an assertion of the transaction logic fails ... *)
PrepareThrows ==
  /\ blk.stage = "entered"
  /\ \/ ~UnconfirmedPass /\ ThrowAfter(0)
     \/ /\ UnconfirmedPass
        /\ \E held \in SUBSET (HeldBack \cap ToSet(blk.txs)), n \in 0..(Len(blk.txs) - 1) :
             /\ ConfirmedPass(n, held)
             /\ ~ConfirmedPass(n + 1, held)
             /\ ThrowAfter(n)
  /\ UNCHANGED faults

(* ... or because a database read or a hook fails. *)
PrepareFails ==
  /\ blk.stage = "entered"
  /\ faults < MaxFaults
  /\ UnconfirmedPass
  /\ \E n \in 0..Len(blk.txs) : ConfirmedPass(n, {}) /\ ThrowAfter(n)
  /\ faults' = faults + 1

(* The operations of applyBlock for a transaction that is not in the pool. *)
DebitOps(t) == IF t \in blk.debited THEN ApplyUnconfirmedOps(t) ELSE <<>>

(* performOps in the database transaction of applyBlock: the overlapping    *)
(* transactions are undone, those not in the pool debited, all applied.     *)
Undone == PerformAll(OpsOf(UndoUnconfirmedOps, SetToSeq(blk.overlap)), Unharmed(db))
Debited == PerformAll(OpsOf(DebitOps, blk.txs), Undone)
BlockResult == PerformAll(OpsOf(ApplyOps, blk.txs), Debited)

(* Mutant: the flag is reset as soon as the block is saved. *)
CommitAndRelease ==
  /\ blk.stage = "prepared"
  /\ BlockResult.ok
  /\ db' = BlockResult.db
  /\ chain' = Append(chain, blk.txs)
  /\ blk' = [blk EXCEPT !.stage = "committed"]
  /\ isProcessing' = FALSE
  /\ UNCHANGED <<poolVars, isCleaning, counters, disturbed>>

(* The database transaction commits. *)
Commit ==
  /\ blk.stage = "prepared"
  /\ BlockResult.ok
  /\ db' = BlockResult.db
  /\ chain' = Append(chain, blk.txs)
  /\ blk' = [blk EXCEPT !.stage = "committed"]
  /\ UNCHANGED <<poolVars, isProcessing, isCleaning, counters, disturbed>>

(* Mutant: the updates made before the failure stay. *)
HalfDone(result, tables) == result.db

(* What a database transaction that rolls back leaves. *)
RolledBack(result, tables) == tables

(* The database transaction is rolled back, by the trigger or by a fault,   *)
(* and applyBlock rejects.                                                  *)
Rollback ==
  /\ blk.stage = "prepared"
  /\ \/ /\ ~BlockResult.ok
        /\ UNCHANGED faults
     \/ /\ faults < MaxFaults
        /\ faults' = faults + 1
  /\ db' = RolledBack(BlockResult, db)
  /\ isProcessing' = FALSE
  /\ blk' = NoBlock
  /\ Disturb("rollback", ToSet(blk.txs) # blk.debited)
  /\ UNCHANGED <<poolVars, chain, isCleaning, received, expired, restarts>>

(* applyBlock ends: the overlapping transactions go back to the queue.      *)
Finish ==
  /\ blk.stage = "committed"
  /\ blk.overlap \subseteq pool["unconfirmed"]
  /\ pool' = MoveTx(pool, blk.overlap, "unconfirmed", "queued")
  /\ isProcessing' = FALSE
  /\ blk' = NoBlock
  /\ UNCHANGED <<job, cycle, chain, db, isCleaning, counters, disturbed>>

(* moveTx throws for an overlapping transaction that has expired meanwhile: *)
(* those before it in the list have moved, the others have not.             *)
FinishThrows ==
  /\ blk.stage = "committed"
  /\ ~(blk.overlap \subseteq pool["unconfirmed"])
  /\ \E moved \in SUBSET (blk.overlap \cap pool["unconfirmed"]) :
       pool' = MoveTx(pool, moved, "unconfirmed", "queued")
  /\ blk' = NoBlock
  /\ UNCHANGED <<job, cycle, chain, db, isProcessing, isCleaning, counters, disturbed>>

(* Mutant: only the confirmed side is undone. *)
UndoConfirmedOnly(t) == UndoOps(t)

(* What popLastBlock does for one transaction of the block. *)
PopOps(t) == UndoOps(t) \o UndoUnconfirmedOps(t)

(* popLastBlock, unless the trigger refuses it. *)
PopLastBlock ==
  /\ blk.stage = "idle"
  /\ ~Held
  /\ chain # <<>>
  /\ LET result == PerformAll(OpsOf(PopOps, Reverse(Last(chain))), Unharmed(db))
     IN result.ok /\ db' = result.db
  /\ chain' = Front(chain)
  /\ UNCHANGED <<poolVars, blk, isProcessing, isCleaning, counters, disturbed>>

-----------------------------------------------------------------------------
(* cleanup() of the block modules. *)
Cleanup ==
  /\ ~isCleaning
  /\ isCleaning' = TRUE
  /\ UNCHANGED <<poolVars, chain, db, blk, isProcessing, counters, disturbed>>

(* What the boot does to the unconfirmed balances: the hook                 *)
(* restoreUnconfirmedEntries is called, and no module subscribes to it.     *)
RestoreUnconfirmedEntries(tables) == tables

(* The process ends and boots again: the memory is lost.  With nothing but  *)
(* the genesis block the tables are recreated (loadBlockChain).             *)
Boot ==
  /\ restarts < MaxRestarts
  /\ restarts' = restarts + 1
  /\ pool' = EmptyPool
  /\ job' = "expire"
  /\ cycle' = NoCycle
  /\ db' = IF chain = <<>> THEN GenesisTables ELSE RestoreUnconfirmedEntries(db)
  /\ blk' = NoBlock
  /\ isProcessing' = FALSE
  /\ isCleaning' = FALSE
  /\ Disturb("restart", TRUE)
  /\ UNCHANGED <<chain, received, expired, faults>>

(* The shutdown has waited for isProcessing to be reset. *)
Shutdown == isCleaning /\ ~isProcessing /\ Boot

(* The process is killed. *)
Crash == Boot

Next ==
  \/ \E t \in Txs : Incoming(t) \/ ExpireTx(t)
  \/ ExpireDone \/ ProcessQueued \/ CheckPending
  \/ StartCycle \/ EndCycle
  \/ \E t \in Txs : DropConfirmed(t) \/ Unconfirm(t) \/ BackToQueued(t)
  \/ \E txs \in {b \in Blocks : IsInjective(b)} : CheckBlock(txs) \/ RejectConfirmed(txs)
  \/ SkipApply \/ EnterApply
  \/ Prepare \/ PrepareThrows \/ PrepareFails
  \/ Commit \/ Rollback
  \/ Finish \/ FinishThrows
  \/ PopLastBlock
  \/ Cleanup \/ Shutdown \/ Crash

Spec == Init /\ [][Next]_vars

-----------------------------------------------------------------------------
(* No transaction is unconfirmed in the pool and confirmed in a block (the  *)
(* NOTE of generateBlock, process.ts).                                      *)
UnconfirmedNotConfirmed == pool["unconfirmed"] \cap Confirmed = {}

(* No transaction is confirmed twice, whatever is received, popped and      *)
(* received again.                                                          *)
ConfirmedOnce ==
  /\ \A i \in DOMAIN chain : IsInjective(chain[i])
  /\ \A i, j \in DOMAIN chain : i # j => ToSet(chain[i]) \cap ToSet(chain[j]) = {}

(* A transaction is in one place: never in two blocks, nor in a block and   *)
(* among the unconfirmed ones.                                              *)
TxInOnePlace == UnconfirmedNotConfirmed /\ ConfirmedOnce

(* The confirmed balances are those of the chain replayed from genesis.     *)
Replayed ==
  LET after[n \in 0..Len(chain)] ==
        IF n = 0 THEN Unharmed(GenesisTables)
        ELSE PerformAll(OpsOf(ApplyOps, chain[n]), after[n - 1])
  IN after[Len(chain)]
BalancesReplayChain ==
  \A a \in AccountIds : db[a].balance = Replayed.db[a].balance

(* What the unconfirmed balance of a should be. *)
Expected(a) == db[a].balance - CostOf(pool["unconfirmed"], a)

(* While no expired transaction was in the hands of applyBlock, the         *)
(* unconfirmed balance never offers what unconfirmed transactions spend.    *)
NeverOverstated ==
  (~Applying /\ "overlap" \notin disturbed) =>
    \A a \in AccountIds : db[a].u_balance <= Expected(a)

(* It is exactly what they leave, as long as no unconfirmed transaction has *)
(* expired, been received again or been lost with a block or with the       *)
(* process: nothing else makes the two part.                                *)
ExactWhenUndisturbed ==
  (~Applying /\ disturbed = {}) =>
    \A a \in AccountIds : db[a].u_balance = Expected(a)

(* The unconfirmed balances follow the pool in both ways: an event that     *)
(* makes them part leaves them too low, and without one they are exact.     *)
UnconfirmedFollowsPool == NeverOverstated /\ ExactWhenUndisturbed

(* As long as nothing has made the two part, a block that the confirmed     *)
(* balances pay for is never refused because of what the pool spends:       *)
(* neither by the transaction logic nor by the trigger.                     *)
PoolNeverExcludes ==
  disturbed = {} =>
    /\ (blk.stage = "entered" /\ ConfirmedPass(Len(blk.txs), {})) => UnconfirmedPass
    /\ blk.stage = "prepared" => BlockResult.ok

(* A shutdown waits for the block that is being applied.                    *)
ApplyHoldsShutdown == Applying => isProcessing

=============================================================================
