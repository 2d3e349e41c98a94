------------------------------ MODULE Delegation ------------------------------
(***************************************************************************)
(* What vote, delegate and second signature transactions write into an     *)
(* account, and how blocks, rollbacks, the pool and the boot undo it.      *)
(*                                                                         *)
(* Each type has four halves: apply and undo write the confirmed columns,  *)
(* applyUnconfirmed and undoUnconfirmed the columns that begin with u_.    *)
(* Types 10 to 13 (core-consensus-dpos/src/logic, core-secondsignature)    *)
(* and their predecessors 0 to 3 (rise/src/oldtxs) are in force together;  *)
(* an old vote names a forging key and not a user name.  Balances are in   *)
(* Accounts.tla, the awaits of applyBlock in BlockApplication.tla: here a  *)
(* block is applied or refused, and popped, in one step.                   *)
(*                                                                         *)
(* A function that computes the operations of a block reads the database   *)
(* as it was before them, and changes the account objects in memory as it  *)
(* goes.  The two part where an array of votes is concerned: see Splice    *)
(* and RemoveRow.  They are called the sides "mem" and "db" of an account. *)
(***************************************************************************)
EXTENDS SequencesExt, Naturals, FiniteSets, TLC

CONSTANTS
  AccountIds, Usernames, ForgingKeys,
  Txs,               \* the transactions' ids
  Tx,                \* Tx[t]: type, sender, added, removed, username, forgingPK, signatures
  GenesisTxs,        \* the transactions of the genesis block
  None,              \* SQL's NULL
  MaximumVotes,      \* dposConstants.maximumVotes
  \* bounds of the model
  MaxTxsPerBlock, MaxHeight, MaxIncoming,
  MaxLosses          \* expiries and restarts together

Votes == {"vote", "oldVote"}
Registrations == {"delegate", "oldDelegate"}
SecondSignatures == {"secondSignature", "oldSecondSignature"}
Types == Votes \cup Registrations \cup SecondSignatures

ASSUME DelegationAssumption ==
  /\ \A t \in Txs :
       /\ Tx[t].type \in Types
       /\ Tx[t].sender \in AccountIds
       /\ Tx[t].username \in Usernames \cup {None}
       /\ Tx[t].forgingPK \in ForgingKeys \cup {None}
       /\ Tx[t].type = "oldDelegate" => Tx[t].username # None
  /\ GenesisTxs \in Seq(Txs)
  /\ MaximumVotes \in Nat

VARIABLES
  db,           \* mem_accounts with the rows of mem_accounts2(u_)delegates
  chain,        \* the transactions of each block, genesis first
  unconfirmed,  \* the queue unconfirmed of the pool, in its order
  waiting,      \* the other queues of the pool
  refused,      \* history: the last block that was checked but not applied
  incoming, losses,  \* counters of the bounded events
  disturbed     \* history: what has made pool and u_ columns part so far

vars == <<db, chain, unconfirmed, waiting, refused, incoming, losses, disturbed>>

NewAccount == [isDelegate |-> FALSE, u_isDelegate |-> FALSE, username |-> None,
               u_username |-> None, forgingPK |-> None, delegates |-> <<>>,
               u_delegates |-> <<>>, secondSignature |-> FALSE, u_secondSignature |-> FALSE]
NotRefused == [txs |-> <<>>, forged |-> FALSE]
Confirmed(c) == ToSet(FlattenSeq(c))
Registers(t) == Tx[t].type \in Registrations /\ Tx[t].username # None
ChangesKey(t) == Tx[t].type = "delegate" /\ Tx[t].username = None

--------------------------------------------------------------------------
(* Arrays of votes *)

\* A row is removed if it is there (SQL DELETE)
RemoveRow(list, v) == RemoveFirst(list, v)
\* AccountsModel.applyDiffArray: splice(indexOf(v), 1) takes the last one if v is absent
Splice(list, v) ==
  IF v \in ToSet(list) \/ list = <<>> THEN RemoveFirst(list, v) ELSE Front(list)

\* The account that forges with key k, in the database pre
HasKey(pre, k) == {a \in AccountIds : pre[a].isDelegate /\ pre[a].forgingPK = k}
\* computeAddedRemoved: every key of an old vote belongs to a delegate
Resolvable(t, pre) ==
  Tx[t].type = "oldVote" =>
    \A k \in ToSet(Tx[t].added \o Tx[t].removed) : HasKey(pre, k) # {}
\* The user names behind the votes of t, as the database pre has them
NamesOf(t, votes, pre) ==
  IF Tx[t].type = "vote" THEN votes
  ELSE [i \in DOMAIN votes |-> pre[CHOOSE a \in HasKey(pre, votes[i]) : TRUE].username]

\* The array of votes after plus has been added and minus removed
Diff(list, t, plus, minus, pre, side) ==
  IF side = "db"
  THEN FoldLeft(RemoveRow, list, NamesOf(t, minus, pre)) \o NamesOf(t, plus, pre)
  ELSE FoldLeft(Splice, list, minus) \o plus

\* DelegatesModule.checkDelegates, on one of the two arrays of votes
CheckDelegates(list, t, pre) ==
  LET added == NamesOf(t, Tx[t].added, pre)
      removed == NamesOf(t, Tx[t].removed, pre)
  IN /\ Resolvable(t, pre)
     /\ \A i \in DOMAIN added :
          /\ added[i] \notin ToSet(list)
          /\ \E a \in AccountIds : pre[a].isDelegate /\ pre[a].username = added[i]
     /\ ToSet(removed) \subseteq ToSet(list)
     /\ Len(list) + Len(added) - Len(removed) <= MaximumVotes

--------------------------------------------------------------------------
(* The four halves of every type; r is the sender's account on one side.   *)
(* pre is the database before the operations, c the chain it belongs to.   *)

\* OldRegDelegateTx
Register(t, r) ==
  [r EXCEPT !.isDelegate = TRUE, !.u_isDelegate = TRUE, !.username = Tx[t].username,
            !.u_username = Tx[t].username, !.forgingPK = Tx[t].forgingPK]
Unregister(t, r) ==
  [r EXCEPT !.isDelegate = FALSE, !.u_isDelegate = TRUE, !.username = None,
            !.u_username = Tx[t].username, !.forgingPK = None]
RegisterUnconfirmed(t, r) ==
  [r EXCEPT !.isDelegate = FALSE, !.u_isDelegate = TRUE,
            !.username = None, !.u_username = Tx[t].username]
UnregisterUnconfirmed(r) ==
  [r EXCEPT !.isDelegate = FALSE, !.u_isDelegate = FALSE, !.username = None, !.u_username = None]

\* The transactions of the sender of t with a row in trsassets_delegates, other
\* than t, in the highest block that has one
LatestOthers(t, c) ==
  LET Own(i) == {u \in ToSet(c[i]) \ {t} :
                   Tx[u].type \in Registrations /\ Tx[u].sender = Tx[t].sender}
      Heights == {i \in DOMAIN c : Own(i) # {}}
  IN IF Heights = {} THEN {} ELSE Own(CHOOSE i \in Heights : \A j \in Heights : j <= i)

\* RegisterDelegateTransaction: it registers as the old one does, or changes the key
ApplyDelegate(t, r) ==
  IF ChangesKey(t) THEN [r EXCEPT !.forgingPK = Tx[t].forgingPK] ELSE Register(t, r)
UndoDelegate(t, r, c) ==
  IF ChangesKey(t)
  THEN [r EXCEPT !.forgingPK = Tx[CHOOSE u \in LatestOthers(t, c) : TRUE].forgingPK]
  ELSE Unregister(t, r)
ApplyUnconfirmedDelegate(t, r) == IF ChangesKey(t) THEN r ELSE RegisterUnconfirmed(t, r)
UndoUnconfirmedDelegate(t, r) == IF ChangesKey(t) THEN r ELSE UnregisterUnconfirmed(r)

\* SecondSignatureTransaction
ApplySignature(r) == [r EXCEPT !.secondSignature = TRUE, !.u_secondSignature = FALSE]
UndoSignature(r) == [r EXCEPT !.secondSignature = FALSE, !.u_secondSignature = TRUE]
ApplyUnconfirmedSignature(r) == [r EXCEPT !.u_secondSignature = TRUE]
UndoUnconfirmedSignature(r) == [r EXCEPT !.u_secondSignature = FALSE]

\* VoteTransaction and OldVoteTx
ApplyVote(t, r, pre, side) ==
  [r EXCEPT !.delegates = Diff(@, t, Tx[t].added, Tx[t].removed, pre, side)]
UndoVote(t, r, pre, side) ==
  [r EXCEPT !.delegates = Diff(@, t, Tx[t].removed, Tx[t].added, pre, side)]
ApplyUnconfirmedVote(t, r, pre, side) ==
  [r EXCEPT !.u_delegates = Diff(@, t, Tx[t].added, Tx[t].removed, pre, side)]
UndoUnconfirmedVote(t, r, pre, side) ==
  [r EXCEPT !.u_delegates = Diff(@, t, Tx[t].removed, Tx[t].added, pre, side)]

\* TransactionLogic calls the half of the transaction's type.  OldSecondSignatureTx has only
\* the confirmed ones
CanApplyUnconfirmed(t, r, pre) ==
  CASE Tx[t].type \in Votes -> CheckDelegates(r.u_delegates, t, pre)
    [] Registers(t) -> ~r.u_isDelegate
    [] Tx[t].type = "secondSignature" -> ~r.u_secondSignature /\ ~r.secondSignature
    [] OTHER -> TRUE
ApplyUnconfirmed(t, r, pre, side) ==
  CASE Tx[t].type \in Votes -> ApplyUnconfirmedVote(t, r, pre, side)
    [] Tx[t].type \in Registrations -> ApplyUnconfirmedDelegate(t, r)
    [] Tx[t].type = "secondSignature" -> ApplyUnconfirmedSignature(r)
    [] OTHER -> r

\* An old vote whose key nobody has any more cannot be undone
CanUndoUnconfirmed(t, pre) == Resolvable(t, pre)
UndoUnconfirmed(t, r, pre, side) ==
  CASE Tx[t].type \in Votes -> UndoUnconfirmedVote(t, r, pre, side)
    [] Tx[t].type \in Registrations -> UndoUnconfirmedDelegate(t, r)
    [] Tx[t].type = "secondSignature" -> UndoUnconfirmedSignature(r)
    [] OTHER -> r

CanApply(t, r, pre) == Tx[t].type \in Votes => CheckDelegates(r.delegates, t, pre)
Apply(t, r, pre, side) ==
  CASE Tx[t].type \in Votes -> ApplyVote(t, r, pre, side)
    [] Tx[t].type \in Registrations -> ApplyDelegate(t, r)
    [] OTHER -> ApplySignature(r)

CanUndo(t, pre, c) == Resolvable(t, pre) /\ (ChangesKey(t) => LatestOthers(t, c) # {})
(* Mutant: the votes are not swapped when they are undone. *)
UndoUnswapped(t, r, pre, c, side) ==
  CASE Tx[t].type \in Votes -> ApplyVote(t, r, pre, side)
    [] Tx[t].type \in Registrations -> UndoDelegate(t, r, c)
    [] OTHER -> UndoSignature(r)
Undo(t, r, pre, c, side) ==
  CASE Tx[t].type \in Votes -> UndoVote(t, r, pre, side)
    [] Tx[t].type \in Registrations -> UndoDelegate(t, r, c)
    [] OTHER -> UndoSignature(r)

--------------------------------------------------------------------------
(* What a transaction and a block are checked for *)

\* The checks of each type against the database pre; r is the sender's account
VerifyVote(t, r, pre) == CheckDelegates(r.delegates, t, pre)
VerifyOldDelegate(t, r, pre) ==
  ~r.isDelegate /\ \A a \in AccountIds : pre[a].username # Tx[t].username
VerifyDelegate(t, r, pre) ==
  /\ IF ChangesKey(t) THEN r.isDelegate ELSE VerifyOldDelegate(t, r, pre)
  /\ \A a \in AccountIds : pre[a].forgingPK # Tx[t].forgingPK
\* The hook of the second signature module
SignedTwice(t, r) == r.secondSignature => Tx[t].signatures >= 2

\* TransactionLogic.verify
Verify(t, r, pre) ==
  /\ SignedTwice(t, r)
  /\ CASE Tx[t].type \in Votes -> VerifyVote(t, r, pre)
       [] Tx[t].type = "delegate" -> VerifyDelegate(t, r, pre)
       [] Tx[t].type = "oldDelegate" -> VerifyOldDelegate(t, r, pre)
       [] OTHER -> TRUE

\* Whether t conflicts with an earlier u of its type; the old registration looks for none
SameSender(t, u) == Tx[t].sender = Tx[u].sender
SameDelegate(t, u) ==
  \/ Tx[t].forgingPK = Tx[u].forgingPK
  \/ Tx[t].username = Tx[u].username /\ Registers(t)
Conflict(t, u) ==
  /\ Tx[t].type = Tx[u].type
  /\ \/ Tx[t].type \in Votes \cup SecondSignatures /\ SameSender(t, u)
     \/ Tx[t].type = "delegate" /\ SameDelegate(t, u)
\* findConflicts: where in txs the conflicting ones are
Conflicts(txs) == {i \in DOMAIN txs : \E j \in 1..(i - 1) : Conflict(txs[i], txs[j])}

\* checkBlockTransactions
CheckBlock(txs, pre, c) ==
  /\ IsInjective(txs)
  /\ ToSet(txs) \cap Confirmed(c) = {}
  /\ Conflicts(txs) = {}
  /\ \A t \in ToSet(txs) : Verify(t, pre[Tx[t].sender], pre)

\* The unique columns of trsassets_delegates and of mem_accounts hold
UniqueColumns(c, after) ==
  LET Rows == {t \in Confirmed(c) : Tx[t].type \in Registrations}
  IN /\ \A t, u \in Rows : t # u =>
          /\ Tx[t].forgingPK # Tx[u].forgingPK
          /\ Tx[t].username = None \/ Tx[t].username # Tx[u].username
     /\ \A a, b \in AccountIds : a # b =>
          after[a].forgingPK = None \/ after[a].forgingPK # after[b].forgingPK

--------------------------------------------------------------------------
(* applyBlock and popLastBlock: the halves of their transactions in order. *)

Can(half, t, r, pre, c) ==
  CASE half = "undoUnconfirmed" -> CanUndoUnconfirmed(t, pre)
    [] half = "applyUnconfirmed" -> CanApplyUnconfirmed(t, r, pre)
    [] half = "apply" -> CanApply(t, r, pre)
    [] half = "undo" -> CanUndo(t, pre, c)

Do(half, t, r, pre, c, side) ==
  CASE half = "undoUnconfirmed" -> UndoUnconfirmed(t, r, pre, side)
    [] half = "applyUnconfirmed" -> ApplyUnconfirmed(t, r, pre, side)
    [] half = "apply" -> Apply(t, r, pre, side)
    [] half = "undo" -> Undo(t, r, pre, c, side)

\* The accounts on both sides after the halves, unless one throws; gone are the
\* transactions applied, which have left the unconfirmed queue
Perform(halves, pre, c) ==
  LET After[i \in 0..Len(halves)] ==
        IF i = 0 THEN [mem |-> pre, db |-> pre, ok |-> TRUE, gone |-> {}]
        ELSE LET s == After[i - 1]
                 half == halves[i][1]
                 t == halves[i][2]
                 a == Tx[t].sender
             IN IF s.ok /\ Can(half, t, s.mem[a], pre, c)
                THEN [mem |-> [s.mem EXCEPT ![a] = Do(half, t, @, pre, c, "mem")],
                      db |-> [s.db EXCEPT ![a] = Do(half, t, @, pre, c, "db")],
                      ok |-> TRUE,
                      gone |-> IF half = "apply" THEN s.gone \cup {t} ELSE s.gone]
                ELSE [s EXCEPT !.ok = FALSE]
  IN After[Len(halves)]

Each(half, txs) == [i \in DOMAIN txs |-> <<half, txs[i]>>]

\* Overlapping transactions are undone, those the pool does not have made unconfirmed,
\* then all are applied
ApplyBlock(txs, pre, queue, c) ==
  LET overlapping == SelectSeq(queue, LAMBDA t : t \notin ToSet(txs))
      missing == SelectSeq(txs, LAMBDA t : t \notin ToSet(queue))
  IN Perform(Each("undoUnconfirmed", overlapping) \o Each("applyUnconfirmed", missing)
             \o Each("apply", txs), pre, c)

(* Mutant: a popped block undoes the confirmed halves alone. *)
PopConfirmedOnly(pre, c) == Perform(Each("undo", Reverse(Last(c))), pre, c)
PopBlock(pre, c) ==
  LET txs == Reverse(Last(c))
  IN Perform([i \in 1..(2 * Len(txs)) |->
                IF i % 2 = 1 THEN <<"undo", txs[(i + 1) \div 2]>>
                ELSE <<"undoUnconfirmed", txs[i \div 2]>>], pre, c)

\* A block is applied to a node that has nothing in its pool
Applies(txs, pre, c) ==
  LET s == ApplyBlock(txs, pre, <<>>, c)
  IN CheckBlock(txs, pre, c) /\ s.ok /\ UniqueColumns(Append(c, txs), s.db)

\* The accounts after the blocks of a chain, on a node that never had anything in its pool.
\* The genesis block is applied transaction by transaction
AfterGenesis(txs) ==
  FoldLeft(LAMBDA accs, t : [accs EXCEPT ![Tx[t].sender] =
                               Apply(t, ApplyUnconfirmed(t, @, accs, "db"), accs, "db")],
           [a \in AccountIds |-> NewAccount], txs)
Replay(c) ==
  FoldLeft(LAMBDA accs, txs : ApplyBlock(txs, accs, <<>>, c).db, AfterGenesis(Head(c)), Tail(c))

--------------------------------------------------------------------------
Init ==
  /\ chain = <<GenesisTxs>>
  /\ db = AfterGenesis(GenesisTxs)
  /\ unconfirmed = <<>> /\ waiting = {}
  /\ refused = NotRefused
  /\ incoming = 0 /\ losses = 0
  /\ disturbed = FALSE

\* A transaction arrives from a peer or a client
Incoming(t) ==
  /\ incoming < MaxIncoming
  /\ t \notin Confirmed(chain) /\ t \notin ToSet(unconfirmed) \cup waiting
  /\ waiting' = waiting \cup {t}
  /\ incoming' = incoming + 1
  /\ refused' = NotRefused
  /\ UNCHANGED <<db, chain, unconfirmed, losses, disturbed>>

(* Mutant: a transaction made unconfirmed stays in its queue as well. *)
UnconfirmAndKeep(t) ==
  /\ t \in waiting \ ToSet(unconfirmed)
  /\ Verify(t, db[Tx[t].sender], db)
  /\ CanApplyUnconfirmed(t, db[Tx[t].sender], db)
  /\ db' = [db EXCEPT ![Tx[t].sender] = ApplyUnconfirmed(t, @, db, "db")]
  /\ unconfirmed' = Append(unconfirmed, t)
  /\ refused' = NotRefused
  /\ UNCHANGED <<chain, waiting, incoming, losses, disturbed>>
\* The pool manager makes t unconfirmed
Unconfirm(t) ==
  /\ t \in waiting
  /\ t \notin Confirmed(chain)
  /\ Verify(t, db[Tx[t].sender], db)
  /\ CanApplyUnconfirmed(t, db[Tx[t].sender], db)
  /\ db' = [db EXCEPT ![Tx[t].sender] = ApplyUnconfirmed(t, @, db, "db")]
  /\ unconfirmed' = Append(unconfirmed, t)
  /\ waiting' = waiting \ {t}
  /\ refused' = NotRefused
  /\ UNCHANGED <<chain, incoming, losses, disturbed>>

\* The pool manager throws t away: it is confirmed or does not verify
Discard(t) ==
  /\ t \in waiting
  /\ t \in Confirmed(chain) \/ ~Verify(t, db[Tx[t].sender], db)
  /\ waiting' = waiting \ {t}
  /\ refused' = NotRefused
  /\ UNCHANGED <<db, chain, unconfirmed, incoming, losses, disturbed>>

\* removeExpiredTransactions takes t out of its queue, and nothing else
Expire(t) ==
  /\ losses < MaxLosses
  /\ t \in waiting \cup ToSet(unconfirmed)
  /\ waiting' = waiting \ {t}
  /\ unconfirmed' = Remove(unconfirmed, t)
  /\ losses' = losses + 1
  /\ disturbed' = (disturbed \/ t \in ToSet(unconfirmed))
  /\ refused' = NotRefused
  /\ UNCHANGED <<db, chain, incoming>>

\* processBlock and applyBlock of a block with the transactions txs
ProcessBlock(txs, forged) ==
  LET s == IF CheckBlock(txs, db, chain) THEN ApplyBlock(txs, db, unconfirmed, chain)
           ELSE [ok |-> FALSE, gone |-> {}]
      saved == s.ok /\ UniqueColumns(Append(chain, txs), s.db)
  IN IF saved
     THEN /\ chain' = Append(chain, txs)
          /\ db' = s.db
          /\ waiting' = waiting \cup (ToSet(unconfirmed) \ ToSet(txs))
          /\ unconfirmed' = <<>>
          /\ refused' = NotRefused
          /\ UNCHANGED disturbed
     ELSE /\ unconfirmed' = SelectSeq(unconfirmed, LAMBDA t : t \notin s.gone)
          /\ refused' = [txs |-> txs, forged |-> forged]
          /\ disturbed' = (disturbed \/ s.gone \cap ToSet(unconfirmed) # {})
          /\ UNCHANGED <<db, chain, waiting>>

ReceiveBlock(txs) ==
  /\ Len(chain) < MaxHeight
  /\ CheckBlock(txs, db, chain)
  /\ ProcessBlock(txs, FALSE)
  /\ UNCHANGED <<incoming, losses>>

(* Mutant: the conflicts are left in. *)
GenerateWithConflicts == SelectSeq(unconfirmed, LAMBDA t : Verify(t, db[Tx[t].sender], db))
\* generateBlock: what verifies of the unconfirmed queue, without conflicts
GenerateBlock ==
  LET ready == SelectSeq(unconfirmed, LAMBDA t : Verify(t, db[Tx[t].sender], db))
      kept == [i \in DOMAIN ready |-> IF i \in Conflicts(ready) THEN <<>> ELSE <<ready[i]>>]
  IN FlattenSeq(kept)

Forge ==
  /\ Len(chain) < MaxHeight
  /\ unconfirmed # <<>>
  /\ ProcessBlock(GenerateBlock, TRUE)
  /\ UNCHANGED <<incoming, losses>>

\* Undoing an old second signature sets the u_ column, and its type has no half that clears it
LeavesSignature(txs) == \E t \in ToSet(txs) : Tx[t].type = "oldSecondSignature"

PopLastBlock ==
  LET s == PopBlock(db, chain)
  IN /\ Len(chain) > 1
     /\ s.ok
     /\ chain' = Front(chain)
     /\ db' = s.db
     /\ refused' = NotRefused
     /\ disturbed' = (disturbed \/ unconfirmed # <<>> \/ LeavesSignature(Last(chain)))
     /\ UNCHANGED <<unconfirmed, waiting, incoming, losses>>

\* The process ends; the boot runs the schemas, which copy the votes to the unconfirmed ones, and
\* with nothing but the genesis block recreates the tables and applies that block (loadBlockChain)
Restart ==
  /\ losses < MaxLosses
  /\ db' = IF Len(chain) = 1 THEN AfterGenesis(GenesisTxs)
           ELSE [a \in AccountIds |-> [db[a] EXCEPT !.u_delegates = db[a].delegates]]
  /\ disturbed' = (Len(chain) > 1 /\ (disturbed \/ unconfirmed # <<>>))
  /\ unconfirmed' = <<>> /\ waiting' = {}
  /\ refused' = NotRefused
  /\ losses' = losses + 1
  /\ UNCHANGED <<chain, incoming>>

\* Only these pass the checks of a block
Fresh == {t \in Txs \ Confirmed(chain) : Verify(t, db[Tx[t].sender], db)}

Next ==
  \/ \E t \in Txs : Incoming(t) \/ Unconfirm(t) \/ Discard(t) \/ Expire(t)
  \/ \E txs \in BoundedSeq(Fresh, MaxTxsPerBlock) : ReceiveBlock(txs)
  \/ Forge
  \/ PopLastBlock
  \/ Restart

Spec == Init /\ [][Next]_vars

--------------------------------------------------------------------------
(* Properties *)

TypeOK ==
  /\ db \in [AccountIds -> [isDelegate : BOOLEAN, u_isDelegate : BOOLEAN,
                            username : Usernames \cup {None}, u_username : Usernames \cup {None},
                            forgingPK : ForgingKeys \cup {None},
                            delegates : Seq(Usernames), u_delegates : Seq(Usernames),
                            secondSignature : BOOLEAN, u_secondSignature : BOOLEAN]]
  /\ chain \in Seq(Seq(Txs)) /\ unconfirmed \in Seq(Txs) /\ waiting \subseteq Txs
  /\ IsInjective(unconfirmed) /\ ToSet(unconfirmed) \cap waiting = {}
  /\ disturbed \in BOOLEAN

\* The last transaction of a kind in the chain that Test accepts
LastIn(c, Test(_)) == SelectSeq(FlattenSeq(c), Test)
\* The account that has ever registered key k, which is unique
Registrant(k) == CHOOSE a \in AccountIds :
  \E t \in Confirmed(chain) : Tx[t].sender = a /\ Tx[t].forgingPK = k
UsernameOf(a) == LET r == LastIn(chain, LAMBDA t : Registers(t) /\ Tx[t].sender = a)
                 IN IF r = <<>> THEN None ELSE Tx[Last(r)].username
\* What a votes for: the votes added last and not removed since
VotedBy(a) ==
  LET Name(t, v) == IF Tx[t].type = "vote" THEN v ELSE UsernameOf(Registrant(v))
      About(n) == LastIn(chain, LAMBDA t : Tx[t].type \in Votes /\ Tx[t].sender = a
                      /\ \E v \in ToSet(Tx[t].added \o Tx[t].removed) : Name(t, v) = n)
  IN {n \in Usernames : /\ About(n) # <<>>
                        /\ LET t == Last(About(n))
                           IN \E v \in ToSet(Tx[t].added) : Name(t, v) = n}
HasSecond(a) == \E t \in Confirmed(chain) : Tx[t].type \in SecondSignatures /\ Tx[t].sender = a

\* The confirmed columns are what the transactions of the chain say, whatever was popped,
\* undone, lost or expired before: names, votes (once each) and second signatures.
ConfirmedReplaysChain ==
  \A a \in AccountIds :
    /\ db[a].isDelegate <=> UsernameOf(a) # None
    /\ db[a].username = UsernameOf(a)
    /\ ToSet(db[a].delegates) = VotedBy(a) /\ IsInjective(db[a].delegates)
    /\ db[a].secondSignature <=> HasSecond(a)

\* A vote is for a delegate that is registered, within the limit.
VotesAreForDelegates ==
  \A a \in AccountIds :
    /\ Len(db[a].delegates) <= MaximumVotes
    /\ \A n \in ToSet(db[a].delegates) : \E b \in AccountIds : db[b].isDelegate /\ db[b].username = n

\* The confirmed columns are a function of the chain, and votes in them name delegates.
ConfirmedFollowsChain == ConfirmedReplaysChain /\ VotesAreForDelegates

\* Until something disturbs it, the u_ columns are the confirmed ones with the unconfirmed
\* transactions on top.
UnconfirmedColumns(r) == <<r.u_isDelegate, r.u_username, ToSet(r.u_delegates), r.u_secondSignature>>
PoolOnTop(a) ==
  FoldLeft(LAMBDA r, t : IF Tx[t].sender = a THEN ApplyUnconfirmed(t, r, db, "db") ELSE r,
           [db[a] EXCEPT !.u_delegates = db[a].delegates, !.u_isDelegate = db[a].isDelegate,
                         !.u_username = db[a].username, !.u_secondSignature = FALSE],
           unconfirmed)
ExactWhenUndisturbed ==
  ~disturbed => \A a \in AccountIds : UnconfirmedColumns(db[a]) = UnconfirmedColumns(PoolOnTop(a))

\* A block another node takes, whose pool is empty, is not refused for what waits in this one's
\* pool, unless the two have parted; and a block the node forges from its pool is not refused by
\* the node itself, not even then.
RefusedForItself ==
  /\ ~refused.forged
  /\ (~disturbed /\ refused # NotRefused) => ~Applies(refused.txs, Replay(chain), chain)
=============================================================================
