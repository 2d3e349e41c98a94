-------------------------------- MODULE Transfer --------------------------------
(***************************************************************************)
(* Transactions and blocks between two nodes: a server that forges and     *)
(* answers requests for blocks, and a client that follows it by asking for *)
(* the blocks it misses and by the blocks that are posted to it.           *)
(*                                                                         *)
(* The server never forks here (module Chain has the forks), so a block is *)
(* identified by its height.  Balances and votes do not decide: the other  *)
(* modules have them.  Accounts sign with one key or two.                  *)
(***************************************************************************)
EXTENDS TransactionBytes

CONSTANTS
  Offered,      \* the unsigned transactions accounts may send, with the keys they sign with
  MaxPayload,   \* maxPayloadLength
  MaxTxs,       \* maxTxsPerBlock
  MaxBytes,     \* 98 % of maxProtoBufPayloadLength
  \* bounds of the model
  MaxHeight, MaxFaults, MaxSubmitted, MaxInbox

Header == 176   \* maxHeaderSize
Largest == Max({0} \cup {MaxBytesSize(o.tx.kind) : o \in Offered})

\* The largest block and an empty one fit an answer, and there is room left.
ASSUME TransferAssumption ==
  /\ {MaxPayload, MaxTxs, MaxBytes, MaxHeight} \subseteq Nat \ {0}
  /\ {MaxFaults, MaxSubmitted, MaxInbox} \subseteq Nat
  /\ (2 * Header) + (MaxTxs * Largest) < MaxBytes
  /\ Offered \subseteq [tx : Unsigned, keys : 1 .. 2]

VARIABLES
  chain,    \* the server's blocks, as its database has them
  pool,     \* the server's unconfirmed transactions, in their order
  copy,     \* the client's blocks, likewise
  peer,     \* whether the client has the server among its peers
  link,     \* the request for blocks: [at, last, blocks]
  batch,    \* the blocks decoded and not yet processed, and the height they were decoded at
  posts,    \* the block posted to the client, and not lost so far
  inbox,    \* the posted blocks it decoded
  counts    \* the bounded events

client == <<copy, peer, batch, inbox>>
vars == <<chain, pool, client, link, posts, counts>>

Count(event, bound) == counts[event] < bound /\ counts' = [counts EXCEPT ![event] = @ + 1]
Idle == [at |-> "idle", last |-> 0, blocks |-> <<>>]
NoBatch == [blocks |-> <<>>, height |-> 0]
Genesis ==
  [height |-> 1, number |-> 0, length |-> 0, payload |-> <<>>, amount |-> 0, fee |-> 0,
   transactions |-> {}]

Init ==
  /\ chain = <<Genesis>> /\ pool = <<>>
  /\ copy = <<Genesis>> /\ peer = TRUE
  /\ link = Idle /\ batch = NoBatch
  /\ posts = {} /\ inbox = <<>>
  /\ counts = [event \in {"fault", "submitted"} |-> 0]

--------------------------------------------------------------------------
(* Blocks *)

Sum(txs, field) == Total([i \in DOMAIN txs |-> txs[i][field]])
Payload(txs) == [i \in DOMAIN txs |-> FullBytes(txs[i])]
SizeOf(txs) == Total([i \in DOMAIN txs |-> Size(txs[i])])

\* BlockLogic.create takes transactions until one does not fit
Fitting(txs) ==
  LET fits == {k \in 0 .. Len(txs) : SizeOf(SubSeq(txs, 1, k)) <= MaxPayload}
  IN SubSeq(txs, 1, Max(fits))
Create(previous, txs) ==
  LET taken == Fitting(txs)
  IN [height |-> previous.height + 1, number |-> Len(taken), length |-> SizeOf(taken),
      payload |-> Payload(taken), amount |-> Sum(taken, "amount"), fee |-> Sum(taken, "fee"),
      transactions |-> taken]

\* blockBytes.toBuffer and fromBuffer: the header as it is, the transactions as bytes
Encoded(block) == [block EXCEPT !.transactions = Payload(@)]
Readable(wire) == \A i \in DOMAIN wire.transactions : ~Unreadable(wire.transactions[i])
BlockDecoded(wire, height) ==
  [wire EXCEPT !.transactions = [i \in DOMAIN @ |-> Decoded(@[i], height)]]

\* saveBlock writes the header and a row per transaction, in the order of the
\* block; a table has no order but the one of rowId.
Saved(block) ==
  [block EXCEPT !.transactions = {[rowId |-> i, row |-> Row(@[i])] : i \in DOMAIN @}]
InOrder(rows) ==
  [i \in 1 .. Cardinality(rows) |->
     CHOOSE r \in rows : Cardinality({s \in rows : s.rowId < r.rowId}) = i - 1]
Read(saved) ==
  [saved EXCEPT !.transactions = LET rows == InOrder(@)
                                 IN [i \in DOMAIN rows |-> Restored(rows[i].row)]]

\* the schemas, without which a block is not even processed
BlockNormal(b) == \A i \in DOMAIN b.transactions : Normal(b.transactions[i])

\* verifyBlock and checkBlockTransactions on top of a chain
PayloadVerified(b) ==
  /\ b.length <= MaxPayload
  /\ Len(b.transactions) = b.number /\ b.number <= MaxTxs
  /\ Payload(b.transactions) = b.payload
  /\ Sum(b.transactions, "amount") = b.amount
  /\ Sum(b.transactions, "fee") = b.fee
Confirmed(blocks) == UNION {Range(blocks[i].payload) : i \in DOMAIN blocks}
TransactionsVerified(b, blocks) ==
  /\ IsInjective(b.payload) /\ Range(b.payload) \cap Confirmed(blocks) = {}
  /\ \A i \in DOMAIN b.transactions : Verified(b.transactions[i], b.height, Len(blocks))
OnTop(b, blocks) == b.height = Len(blocks) + 1
(* Mutant: a block that was applied while this one waited is not noticed. *)
OnTopOrBelow(b, blocks) == b.height <= Len(blocks) + 1
Follows(b, blocks) == OnTop(b, blocks)
Acceptable(b, blocks) ==
  /\ Follows(b, blocks) /\ BlockNormal(b)
  /\ PayloadVerified(b) /\ TransactionsVerified(b, blocks)

--------------------------------------------------------------------------
(* The server *)

Height == Len(chain)
Ids(txs) == {FullBytes(txs[i]) : i \in DOMAIN txs}

\* The pool checks without a height, and getFees(null) is the first entry.
PoolCheck(tx) == Verified(tx, 0, Height)
Pooled(tx) ==
  /\ FullBytes(tx) \notin Ids(pool) \cup Confirmed(chain)
  /\ PoolCheck(tx)
  /\ pool' = Append(pool, tx)

\* The API: checked at the height of the last block, then queued
Wallet(o, height) == Signed([o.tx EXCEPT !.fee = MinFee(o.tx, height)], o.keys)
Submit(o) ==
  LET tx == Wallet(o, Height)
  IN /\ Count("submitted", MaxSubmitted)
     /\ Normal(tx) /\ Verified(tx, Height, Height)
     /\ Pooled(tx)
     /\ UNCHANGED <<chain, client, link, posts>>
\* The same from the client, that posts its transactions or is asked for them
SubmitByClient(o) ==
  LET sent == Wallet(o, Len(copy))
      bytes == FullBytes(sent)
  IN /\ Count("submitted", MaxSubmitted)
     /\ Normal(sent) /\ Verified(sent, Len(copy), Len(copy))
     /\ ~Unreadable(bytes)
     /\ IdMatches(Decoded(bytes, Height), bytes)
     /\ Normal(Decoded(bytes, Height)) /\ Pooled(Decoded(bytes, Height))
     /\ UNCHANGED <<chain, client, link, posts>>

\* A transaction that no block takes leaves the pool at last.
Expire(i) ==
  /\ pool' = RemoveAt(pool, i) /\ Count("fault", MaxFaults)
  /\ UNCHANGED <<chain, client, link, posts>>

\* generateBlock verifies at the height of the last block, processBlock at
\* the height of the new one: the forger too may refuse what it forged.
Forge ==
  LET first == SubSeq(pool, 1, Min({MaxTxs, Len(pool)}))
      ready == Among(first, {tx \in ToSet(first) : Verified(tx, Height, Height)})
      block == Create(chain[Height], ready)
  IN /\ Height < MaxHeight
     /\ Acceptable(block, chain)
     /\ chain' = Append(chain, Saved(block))
     /\ pool' = Among(pool, {tx \in ToSet(pool) : FullBytes(tx) \notin Range(block.payload)})
     /\ posts' = {Encoded(block)}
     /\ UNCHANGED <<client, link, counts>>

\* calcNumBlocksToLoad
MinSize == Min({MaxBytesSize(k) : k \in Old \cup {"send"}})
CeilDiv(a, b) == (a + b - 1) \div b
TxLimit == CeilDiv(MaxBytes * MaxTxs, (MinSize * MaxTxs) + Header)
DeltaLimit == CeilDiv(MaxBytes, Header)
\* the blocks after a height, up to another; the table has one per height
Between(last, to) == SubSeq(chain, last + 1, Min({Height, to}))
\* the type and the height of the transactions after a block
InRange(last) ==
  LET blocks == Between(last, last + DeltaLimit)
      HeadsOf(b) ==
        LET rows == InOrder(b.transactions)
        IN [j \in DOMAIN rows |->
              [height |-> b.height, size |-> MaxBytesSize(rows[j].row.trs.kind)]]
      txs == FlattenSeq([i \in DOMAIN blocks |-> HeadsOf(blocks[i])])
  IN SubSeq(txs, 1, Min({TxLimit, Len(txs)}))
\* What is known of a transaction, and the state of the loop over them
Heads == [height : Nat, size : Nat]
Counts == [count : Nat, height : Nat, blocks : Nat, txs : Nat, full : BOOLEAN, done : BOOLEAN]
\* The inner loop adds the header of every block up to the transaction's and
\* counts each that fits, the transaction's too: it is counted once more when
\* the next one is reached.
CountHeader[acc \in Counts] ==
  IF acc.full THEN acc
  ELSE IF acc.blocks + Header + acc.txs > MaxBytes
       THEN [acc EXCEPT !.blocks = @ + Header, !.full = TRUE]
       ELSE [acc EXCEPT !.blocks = @ + Header, !.count = @ + 1]
CountHeaders[from \in Counts \X Int] ==
  LET delta == Max({0, from[2]})
      after[i \in 0 .. delta] ==
        IF i = 0 THEN [from[1] EXCEPT !.full = FALSE] ELSE CountHeader[after[i - 1]]
  IN after[delta]
NextBlock(acc) == [acc EXCEPT !.count = @ + 1]
CountTx[from \in Counts \X Heads] ==
  LET acc == from[1]
      tx == from[2]
      new == acc.height # tx.height /\ acc.blocks > 0
      over == acc.blocks + acc.txs > MaxBytes
      before == IF new THEN NextBlock(acc) ELSE acc
      after == CountHeaders[<<before, tx.height - acc.height>>]
  IN IF acc.done \/ (new /\ over) THEN [acc EXCEPT !.done = TRUE]
     ELSE [after EXCEPT !.height = tx.height, !.txs = @ + tx.size]
NoneCounted(last) ==
  [count |-> 0, height |-> last, blocks |-> 0, txs |-> 0, full |-> FALSE, done |-> FALSE]
CountTxs[from \in Nat \X Seq(Heads)] ==
  LET txs == from[2]
      after[i \in 0 .. Len(txs)] ==
        IF i = 0 THEN NoneCounted(from[1]) ELSE CountTx[<<after[i - 1], txs[i]>>]
  IN after[Len(txs)]
(* Mutant: no empty blocks after the last transaction. *)
NoneAfter(left) == 0
EmptyAfter(left) == IF left > Header THEN CeilDiv(left, Header) ELSE 0
Loadable[end \in Counts] ==
  Max({1, end.count + EmptyAfter(MaxBytes - end.blocks - end.txs)})
BlocksToLoad(last) ==
  IF InRange(last) = <<>> THEN DeltaLimit ELSE Loadable[CountTxs[<<last, InRange(last)>>]]

\* loadBlocksData: the limit becomes a height that is not reached
Loaded[from \in Nat \X Int] == Between(from[1], from[1] + from[2] - 1)
HandleRequest(last) ==
  LET blocks == Loaded[<<last, BlocksToLoad(last)>>]
  IN [i \in DOMAIN blocks |-> Encoded(Read(blocks[i]))]
Respond ==
  /\ link.at = "asked"
  /\ link' = [link EXCEPT !.at = "answered", !.blocks = HandleRequest(link.last)]
  /\ UNCHANGED <<chain, pool, client, posts, counts>>

--------------------------------------------------------------------------
(* The client *)

Syncing == link # Idle \/ batch # NoBatch

\* loadBlocksFromPeer
Request ==
  /\ peer /\ ~Syncing
  /\ link' = [Idle EXCEPT !.at = "asked", !.last = Len(copy)]
  /\ UNCHANGED <<chain, pool, client, posts, counts>>
\* One transaction that cannot be read fails the whole answer; the peer stays.
HandleResponse(wires, height) ==
  IF \A i \in DOMAIN wires : Readable(wires[i])
  THEN [blocks |-> [i \in DOMAIN wires |-> BlockDecoded(wires[i], height)], height |-> height]
  ELSE NoBatch
Receive ==
  /\ link.at = "answered"
  /\ link' = Idle
  /\ batch' = HandleResponse(link.blocks, Len(copy))
  /\ UNCHANGED <<chain, pool, copy, peer, posts, inbox, counts>>
\* getFromPeer fails, also the second time, and removes the peer.
Lose ==
  /\ link # Idle /\ Count("fault", MaxFaults)
  /\ link' = Idle /\ peer' = FALSE
  /\ UNCHANGED <<chain, pool, copy, batch, posts, inbox>>

Rest == [batch EXCEPT !.blocks = Tail(@)]
Accept ==
  /\ batch.blocks # <<>> /\ Acceptable(Head(batch.blocks), copy)
  /\ copy' = Append(copy, Saved(Head(batch.blocks)))
  /\ batch' = Rest
  /\ UNCHANGED <<chain, pool, peer, link, posts, inbox, counts>>
Refuse ==
  /\ batch.blocks # <<>> /\ ~Acceptable(Head(batch.blocks), copy)
  /\ batch' = NoBatch /\ peer' = FALSE
  /\ UNCHANGED <<chain, pool, copy, link, posts, inbox, counts>>
EndOfBatch ==
  /\ batch # NoBatch /\ batch.blocks = <<>>
  /\ batch' = NoBatch
  /\ UNCHANGED <<chain, pool, copy, peer, link, posts, inbox, counts>>
\* discovery finds the server again (module Network)
Rediscover ==
  /\ ~peer /\ peer' = TRUE
  /\ UNCHANGED <<chain, pool, copy, batch, link, posts, inbox, counts>>

\* A posted block is decoded when it comes and processed when the default
\* sequence is free: blocks may be applied in between.
PostArrives(wire) ==
  /\ Len(inbox) < MaxInbox
  /\ posts' = posts \ {wire}
  /\ LET block == BlockDecoded(wire, Len(copy))
     IN inbox' = IF Readable(wire) /\ BlockNormal(block) THEN Append(inbox, block) ELSE inbox
  /\ UNCHANGED <<chain, pool, copy, peer, batch, link, counts>>
PostProcessed ==
  /\ inbox # <<>>
  /\ inbox' = Tail(inbox)
  /\ copy' = IF ~Syncing /\ Acceptable(Head(inbox), copy) THEN Append(copy, Saved(Head(inbox))) ELSE copy
  /\ UNCHANGED <<chain, pool, peer, batch, link, posts, counts>>

Next ==
  \/ \E o \in Offered : Submit(o) \/ SubmitByClient(o)
  \/ \E i \in DOMAIN pool : Expire(i)
  \/ Forge
  \/ Request \/ Respond \/ Receive \/ Lose
  \/ Accept \/ Refuse \/ EndOfBatch \/ Rediscover
  \/ \E wire \in posts : PostArrives(wire)
  \/ PostProcessed

\* The sync timer asks again and again, and what is asked goes on.
Fairness ==
  /\ WF_vars(Request) /\ WF_vars(Respond) /\ WF_vars(Receive)
  /\ WF_vars(Accept \/ Refuse \/ EndOfBatch)
  /\ WF_vars(Rediscover)
Spec == Init /\ [][Next]_vars /\ Fairness

--------------------------------------------------------------------------
(* Properties *)

\* The chains are chains of blocks within the limits: a forger never makes a
\* block whose payload is over maxPayloadLength or maxTxsPerBlock.
TypeOK ==
  /\ \A i \in 1 .. Height :
       /\ chain[i].height = i
       /\ chain[i].length <= MaxPayload /\ chain[i].number <= MaxTxs
       /\ chain[i].number = Cardinality(chain[i].transactions)
  /\ Len(copy) \in 1 .. Height
  /\ peer \in BOOLEAN /\ link.at \in {"idle", "asked", "answered"}
  /\ Len(inbox) <= MaxInbox

\* The rows of the client are those of the server, field by field, fees and
\* assets included, although it reads them from bytes that lack the fee of the
\* old types, with readers that lose assets, and either as the forger made
\* them or as its database gave them back.
AcceptedAsSent == IsPrefix(copy, chain)

Transactions(saved) == {Restored(r.row) : r \in saved.transactions}

\* A client drops a peer that has answered only for one of two reasons: a
\* transaction that does not survive the wire, or an answer that goes past a
\* change of fees, decoded before it.
PeerKeptUnlessExcused ==
  [][ (peer /\ ~peer' /\ link = Idle) =>
        LET sent == chain[Head(batch.blocks).height]
        IN \E tx \in Transactions(sent) :
             \/ ~Survives(tx)
             \/ tx.kind \in Old /\ FeeEntry(batch.height) # FeeEntry(sent.height - 1) ]_vars

\* As long as no forged transaction is one that the wire damages, the client
\* reaches the server's height again and again: the counting of blocks and the
\* exclusive limit never leave an answer without progress, and a refusal at a
\* change of fees is followed by another request.
Undamaged == \A i \in 1 .. Height : \A tx \in Transactions(chain[i]) : Survives(tx)
CatchesUp == []Undamaged => []<>(Len(copy) = Height)

\* The blocks of an answer are read as they were sent: fromBytes "Returns
\* asset, given Buffer containing it" (BaseTx.ts:92).
DecodedAsSent ==
  \A i \in DOMAIN link.blocks :
    LET wire == link.blocks[i]
    IN \A j \in DOMAIN wire.transactions :
         /\ ~Unreadable(wire.transactions[j])
         /\ SameButFee(Decoded(wire.transactions[j], Len(copy)),
                       Read(chain[wire.height]).transactions[j])
================================================================================
