------------------------------ MODULE Accounts ------------------------------
(***************************************************************************)
(* The confirmed and the unconfirmed balance of the accounts, the database *)
(* operations by which transactions change them and the trigger that       *)
(* guards them: core-transactions/src/TransactionLogic.ts and              *)
(* sendTransaction.ts, core-accounts/src/logic/account.ts                  *)
(* (mergeBalanceDiff), core-models/src/helpers/db.ts (performOps) and      *)
(* core-accounts/sql/schema.sql.  A module of operators, without state.    *)
(***************************************************************************)
EXTENDS Integers, Sequences, FiniteSetsExt, SequencesExt

CONSTANTS AccountIds,   \* the addresses
          Txs,          \* the transactions: sends of an amount, with a fee
          Sender, Recipient, Amount, Fee

ASSUME AccountsAssumption ==
  /\ Sender \in [Txs -> AccountIds]
  /\ Recipient \in [Txs -> AccountIds]
  /\ Amount \in [Txs -> Nat]
  /\ Fee \in [Txs -> Nat]
  /\ IsFiniteSet(Txs)

(* The sum of f over the finite set S, as the number of points <<x, i>>     *)
(* under the graph of f: it has the laws of cardinalities.                  *)
SumOver(f, S) == Cardinality(UNION {{x} \X (1..f[x]) : x \in S})

(* What a transaction takes from its sender, and what it takes from a.      *)
Cost(t) == Amount[t] + Fee[t]
Paid(a) == [t \in Txs |-> IF Sender[t] = a THEN Cost(t) ELSE 0]

(* What the transactions of S take from account a. *)
CostOf(S, a) == SumOver(Paid(a), S)

(* The first n transactions of a sequence. *)
FirstTxs(txs, n) == {txs[i] : i \in 1..n}

Balances == [balance : Nat, u_balance : Nat]
Tables == [AccountIds -> Balances]

-----------------------------------------------------------------------------
(* mergeBalanceDiff: a relative update of one row. *)
Diff(a, b, u) == [address |-> a, balance |-> b, u_balance |-> u]

(* The operations of a confirmed transaction, and of taking it back. *)
ApplyOps(t) == << Diff(Sender[t], -Cost(t), 0),
                  Diff(Recipient[t], Amount[t], Amount[t]) >>
UndoOps(t) == << Diff(Sender[t], Cost(t), 0),
                 Diff(Recipient[t], -Amount[t], -Amount[t]) >>

(* The operations of an unconfirmed transaction, and of taking it back. *)
ApplyUnconfirmedOps(t) == << Diff(Sender[t], 0, -Cost(t)) >>
UndoUnconfirmedOps(t) == << Diff(Sender[t], 0, Cost(t)) >>

(* Mutant: there is no trigger on u_balance. *)
Unprotected(result, op) ==
  LET row == [balance |-> result.db[op.address].balance + op.balance,
              u_balance |-> result.db[op.address].u_balance + op.u_balance]
  IN [ok |-> result.ok /\ row.balance >= 0,
      db |-> [result.db EXCEPT ![op.address] = row]]

(* One update, as the database performs it: the trigger                     *)
(* fn_mem_accounts_protect raises an exception on a negative balance.       *)
Update(result, op) ==
  LET row == [balance |-> result.db[op.address].balance + op.balance,
              u_balance |-> result.db[op.address].u_balance + op.u_balance]
  IN [ok |-> result.ok /\ row.balance >= 0 /\ row.u_balance >= 0,
      db |-> [result.db EXCEPT ![op.address] = row]]

(* performOps: all the updates in order; ok tells whether none was refused. *)
PerformOps(ops, result) ==
  LET after[n \in 0..Len(ops)] ==
        IF n = 0 THEN result ELSE Update(after[n - 1], ops[n])
  IN after[Len(ops)]

(* The operations of every transaction of a sequence, and their updates.    *)
OpsOf(Ops(_), txs) == [i \in DOMAIN txs |-> Ops(txs[i])]
PerformAll(lists, result) ==
  LET after[n \in 0..Len(lists)] ==
        IF n = 0 THEN result ELSE PerformOps(lists[n], after[n - 1])
  IN after[Len(lists)]

(* The tables before the first update. *)
Unharmed(tables) == [ok |-> TRUE, db |-> tables]
=============================================================================
