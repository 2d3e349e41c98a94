---------------------------- MODULE TransactionBytes ----------------------------
(***************************************************************************)
(* What the transaction types write on the wire and read back, what they   *)
(* check (rise/oldtxs, core-transactions, core-consensus-dpos,             *)
(* core-secondsignature, core-keystore), and how the tables of the         *)
(* database keep them (dbSave, attachAssets).                              *)
(*                                                                         *)
(* Bytes whose content decides nothing are one piece with a length; the    *)
(* part of the old format that is read by counting bytes, the asset and    *)
(* the signatures, is a sequence of pieces.  A hash of bytes is the bytes: *)
(* the id of a transaction is what its sender signed and the signatures.   *)
(***************************************************************************)
EXTENDS SequencesExt, FiniteSetsExt, Integers

CONSTANTS
  FeeEntries,     \* constants.fees: [height, fee, perByte], in the order of the heights
  V2Addresses,    \* the addresses that are not digits and an R
  MaxVotes        \* maxVotesPerTransaction

ASSUME TransactionBytesAssumption ==
  /\ FeeEntries \in Seq([height : Nat, fee : Nat, perByte : Nat]) /\ FeeEntries # <<>>
  \* with 65 the keys of an old vote after the first would be as long as signatures
  /\ MaxVotes \in Nat /\ MaxVotes <= 64

Old == {"oldSend", "oldSecond", "oldRegister", "oldVote"}
Kinds == Old \cup {"send", "second", "register", "vote", "keystore"}
NoAddress == "none"
Zero == "0R"

Piece(is, len) == [is |-> is, len |-> len]
Number(n) == Piece(<<"number", n>>, 1)
\* What a wallet builds; an old send has no asset
Unsigned ==
  {tx \in [kind : Kinds, timestamp : Nat, from : STRING, to : STRING, amount : Int, fee : Int,
           asset : Seq([is : Seq(STRING), len : Nat]), sigs : {<<>>}] :
     tx.kind = "oldSend" => tx.asset = <<>>}
Total(numbers) ==
  LET upto[i \in 0 .. Len(numbers)] == IF i = 0 THEN 0 ELSE upto[i - 1] + numbers[i]
  IN upto[Len(numbers)]
\* The members of S in s, in the order of s
Among(s, S) ==
  LET upto[i \in 0 .. Len(s)] ==
        IF i = 0 THEN <<>> ELSE IF s[i] \in S THEN Append(upto[i - 1], s[i]) ELSE upto[i - 1]
  IN upto[Len(s)]
Bytes(s) == Total([i \in DOMAIN s |-> s[i].len])
\* slice(0, n) and slice(n), cut between two pieces
Within(s, n) ==
  SubSeq(s, 1, Max({k \in 0 .. Len(s) : Bytes(SubSeq(s, 1, k)) <= n}))
After(s, n) == SubSeq(s, Len(Within(s, n)) + 1, Len(s))

--------------------------------------------------------------------------
(* Writing *)

\* Each piece after its length
Counted(s) ==
  [i \in 1 .. (2 * Len(s)) |-> IF i % 2 = 1 THEN Number(s[(i + 1) \div 2].len) ELSE s[i \div 2]]
IsAdded(vote) == vote.is[1] = "+"
Added(votes) == Among(votes, {v \in ToSet(votes) : IsAdded(v)})
Removed(votes) == Among(votes, {v \in ToSet(votes) : ~IsAdded(v)})
CountedAll(s) == <<Number(Len(s))>> \o Counted(s)
VoteBytes(votes) == CountedAll(Added(votes)) \o CountedAll(Removed(votes))

\* The data of a send, the key of a second signature, the key and name of a
\* delegate, the signed keys of an old vote: as they are.
Plain(asset) == asset
AssetBytes(tx) ==
  CASE tx.kind = "keystore" -> Counted(tx.asset)
    [] tx.kind = "vote" -> VoteBytes(tx.asset)
    [] OTHER -> Plain(tx.asset)
(* Mutant: a send keeps the default of BaseTx, no asset. *)
DefaultAsset(tx) == IF tx.kind = "send" THEN <<>> ELSE AssetBytes(tx)
Asset(tx) == AssetBytes(tx)

\* The old format has no room for the version of the address: a bit of the
\* time tells it.
TimeBit == 2^30
OldSignable(tx) ==
  [kind |-> tx.kind,
   time |-> tx.timestamp + (IF tx.to \in V2Addresses THEN TimeBit ELSE 0),
   from |-> tx.from,
   to |-> IF tx.to = NoAddress THEN Zero ELSE tx.to,
   amount |-> tx.amount,
   tail |-> Asset(tx)]
NewSignable(tx) ==
  [kind |-> tx.kind, time |-> tx.timestamp, from |-> tx.from, to |-> tx.to,
   amount |-> tx.amount, fee |-> tx.fee, asset |-> Asset(tx), tail |-> <<>>]
Signable(tx) == IF tx.kind \in Old THEN OldSignable(tx) ELSE NewSignable(tx)
FullBytes(tx) == [Signable(tx) EXCEPT !.tail = @ \o tx.sigs]
AddressSize(a) == IF a \in V2Addresses THEN 25 ELSE 8
Size(tx) ==
  (IF tx.kind \in Old THEN 45 ELSE 59) + AddressSize(tx.to) + Bytes(Asset(tx)) + Bytes(tx.sigs)

\* getMaxBytesSize: neither the data of a send nor a keystore's value is counted
MaxBytesSize(kind) ==
  159 + CASE kind \in {"oldVote", "vote"} -> MaxVotes * 65
          [] kind \in {"oldSecond", "second"} -> 32
          [] kind = "oldRegister" -> 20
          [] kind = "register" -> 52
          [] OTHER -> 0

--------------------------------------------------------------------------
(* Fees *)

FeeEntry(height) ==
  LET reached == {i \in 2 .. Len(FeeEntries) : height >= FeeEntries[i].height}
  IN FeeEntries[Max(reached \cup {1})]
MinFee(tx, height) ==
  FeeEntry(height).fee
    + (IF tx.kind \in {"send", "keystore"} THEN FeeEntry(height).perByte * Bytes(Asset(tx)) ELSE 0)

--------------------------------------------------------------------------
(* Reading, by a node whose last block is at a height *)

\* OldVoteTx.readAsset looks for a sign at bytes.slice(65 * keys, 1): the
\* second argument is where the slice ends, so there is none after the first.
KeysRead(tail) == IF tail # <<>> /\ tail[1].is[1] \in {"+", "-"} THEN 1 ELSE 0
\* A name has no length: it is what is left over when signatures are taken off.
NameBytes(tail) == Bytes(tail) % 64
Consumed(b) ==
  CASE b.kind = "oldVote" -> 65 * KeysRead(b.tail)
    [] b.kind = "oldRegister" -> NameBytes(b.tail)
    [] b.kind = "oldSecond" -> 32
    [] b.kind = "oldSend" -> 0

\* What is left must be whole signatures, else new Array(length / 64) throws.
Deletes(b) == b.kind \in {"oldRegister", "oldSecond"}
Unreadable(b) ==
  b.kind \in Old /\ \/ Bytes(After(b.tail, Consumed(b))) % 64 # 0
                    \/ Deletes(b) /\ b.to # Zero
\* The fee is not in the bytes: it is the one of the reader's height.
(* Mutant: as in the pool, no height is given, and the first entry is taken. *)
FeeWithoutHeight(b, height) == FeeEntry(0).fee
OldFee(b, height) == FeeEntry(height).fee
OldDecoded(b, height) ==
  [kind |-> b.kind,
   timestamp |-> IF b.time >= TimeBit THEN b.time - TimeBit ELSE b.time,
   from |-> b.from,
   to |-> IF Deletes(b) THEN NoAddress ELSE b.to,
   amount |-> b.amount, fee |-> OldFee(b, height),
   asset |-> Within(b.tail, Consumed(b)), sigs |-> After(b.tail, Consumed(b))]

Entries(bytes, at, n) == [i \in 1 .. n |-> bytes[at + (2 * i)]]
KeyAndValue(bytes) == Entries(bytes, 0, 2)
KeyAndName(bytes) == Within(bytes, 32) \o After(bytes, 32)
BothArrays(bytes) ==
  LET added == bytes[1].is[2]
      at == 2 + (2 * added)
  IN Entries(bytes, 1, added) \o Entries(bytes, at, bytes[at].is[2])
\* SendTransaction writes its data and does not read it.
ReadAsset(kind, bytes) ==
  CASE kind = "send" -> <<>>
    [] kind = "second" -> bytes
    [] kind = "register" -> KeyAndName(bytes)
    [] kind = "keystore" -> KeyAndValue(bytes)
    [] kind = "vote" -> BothArrays(bytes)
NewDecoded(b) ==
  [kind |-> b.kind, timestamp |-> b.time, from |-> b.from, to |-> b.to,
   amount |-> b.amount, fee |-> b.fee,
   asset |-> ReadAsset(b.kind, b.asset), sigs |-> b.tail]
Decoded(b, height) == IF b.kind \in Old THEN OldDecoded(b, height) ELSE NewDecoded(b)

\* What a reader makes of it is what was sent, but for the fee of an old one.
SameButFee(read, sent) ==
  IF sent.kind \in Old THEN [read EXCEPT !.fee = sent.fee] = sent ELSE read = sent
Survives(tx) ==
  LET b == FullBytes(tx) IN ~Unreadable(b) /\ SameButFee(Decoded(b, 0), tx)

--------------------------------------------------------------------------
(* Storing: each type has a table for its assets, with the id of the        *)
(* transaction; what dbSave puts there attachAssets makes an asset again.   *)

NoRow == <<>>
Comma == Piece(<<",">>, 1)
Joined(votes) ==
  [i \in 1 .. (2 * Len(votes)) - 1 |-> IF i % 2 = 1 THEN votes[(i + 1) \div 2] ELSE Comma]
Split(text) == Among(text, ToSet(text) \ {Comma})

SaveSend(tx) == IF tx.asset = <<>> THEN NoRow ELSE <<[data |-> tx.asset]>>
SaveSignature(tx) == <<[publicKey |-> tx.asset]>>
SaveOldDelegate(tx) == <<[forgingPK |-> tx.from, username |-> tx.asset]>>
SaveDelegate(tx) == <<[forgingPK |-> Within(tx.asset, 32), username |-> After(tx.asset, 32)]>>
SaveOldVote(tx) == <<[votes |-> Joined(tx.asset)]>>
SaveVote(tx) == <<[added |-> Added(tx.asset), removed |-> Removed(tx.asset)]>>
SaveKeystore(tx) == <<[key |-> tx.asset[1], value |-> tx.asset[2]]>>
AssetRow(tx) ==
  CASE tx.kind = "oldSend" -> NoRow
    [] tx.kind = "send" -> SaveSend(tx)
    [] tx.kind \in {"oldSecond", "second"} -> SaveSignature(tx)
    [] tx.kind = "oldRegister" -> SaveOldDelegate(tx)
    [] tx.kind = "register" -> SaveDelegate(tx)
    [] tx.kind = "oldVote" -> SaveOldVote(tx)
    [] tx.kind = "vote" -> SaveVote(tx)
    [] tx.kind = "keystore" -> SaveKeystore(tx)
Row(tx) == [trs |-> [tx EXCEPT !.asset = <<>>], asset |-> AssetRow(tx)]

AttachSend(row) == IF row.asset = NoRow THEN <<>> ELSE row.asset[1].data
AttachSignature(row) == row.asset[1].publicKey
AttachOldDelegate(row) == row.asset[1].username
AttachDelegate(row) == row.asset[1].forgingPK \o row.asset[1].username
AttachOldVote(row) == Split(row.asset[1].votes)
AttachVote(row) == row.asset[1].added \o row.asset[1].removed
AttachKeystore(row) == <<row.asset[1].key, row.asset[1].value>>
Attached(row) ==
  LET kind == row.trs.kind IN
  CASE kind = "oldSend" -> <<>>
    [] kind = "send" -> AttachSend(row)
    [] kind \in {"oldSecond", "second"} -> AttachSignature(row)
    [] kind = "oldRegister" -> AttachOldDelegate(row)
    [] kind = "register" -> AttachDelegate(row)
    [] kind = "oldVote" -> AttachOldVote(row)
    [] kind = "vote" -> AttachVote(row)
    [] kind = "keystore" -> AttachKeystore(row)
Restored(row) == [row.trs EXCEPT !.asset = Attached(row)]

--------------------------------------------------------------------------
(* Checking *)

\* objectNormalize: the schemas of the assets, before anything is verified
OldVoteNormal(tx) ==
  /\ Len(tx.asset) \in 1 .. MaxVotes /\ IsInjective(tx.asset)
  /\ \A i \in DOMAIN tx.asset : tx.asset[i].is[1] \in {"+", "-"} /\ tx.asset[i].len = 65
VoteNormal(tx) == IsInjective(Added(tx.asset)) /\ IsInjective(Removed(tx.asset))
OldDelegateNormal(tx) == tx.asset # <<>>
DelegateNormal(tx) == Bytes(Within(tx.asset, 32)) = 32
SignatureNormal(tx) == Bytes(tx.asset) = 32
Normal(tx) ==
  /\ tx.sigs # <<>> /\ tx.amount >= 0 /\ tx.fee >= 0
  /\ CASE tx.kind \in {"oldSend", "send", "keystore"} -> TRUE
       [] tx.kind \in {"oldSecond", "second"} -> SignatureNormal(tx)
       [] tx.kind = "oldRegister" -> OldDelegateNormal(tx)
       [] tx.kind = "register" -> DelegateNormal(tx)
       [] tx.kind = "oldVote" -> OldVoteNormal(tx)
       [] tx.kind = "vote" -> VoteNormal(tx)

\* A signature is over the bytes before it, and so is the id: only the id is
\* compared here.
Signed(tx, keys) == [tx EXCEPT !.sigs = [i \in 1 .. keys |-> Piece(<<"signature", i>>, 64)]]
IdMatches(read, b) == FullBytes(read) = b

SendValid(tx) == tx.to # NoAddress /\ tx.amount > 0 /\ (tx.kind = "send" => Bytes(tx.asset) <= 128)
SecondValid(tx) == tx.to = NoAddress /\ tx.amount = 0 /\ Bytes(tx.asset) = 32
OldRegisterValid(tx) == tx.to = NoAddress /\ tx.amount = 0 /\ Bytes(tx.asset) \in 1 .. 20
\* with a name or, for a change of key, without
RegisterValid(tx) == tx.to = NoAddress /\ tx.amount = 0 /\ Bytes(tx.asset) \in 32 .. 52
OldVoteValid(tx) == tx.to = tx.from /\ Len(tx.asset) \in 1 .. MaxVotes
VoteValid(tx) == tx.to = NoAddress /\ Len(tx.asset) \in 1 .. MaxVotes
KeystoreValid(tx) ==
  tx.to = NoAddress /\ tx.amount = 0 /\ Len(tx.asset) = 2 /\ tx.asset[2].len > 0
TypeValid(tx) ==
  CASE tx.kind \in {"oldSend", "send"} -> SendValid(tx)
    [] tx.kind \in {"oldSecond", "second"} -> SecondValid(tx)
    [] tx.kind = "oldRegister" -> OldRegisterValid(tx)
    [] tx.kind = "register" -> RegisterValid(tx)
    [] tx.kind = "oldVote" -> OldVoteValid(tx)
    [] tx.kind = "vote" -> VoteValid(tx)
    [] tx.kind = "keystore" -> KeystoreValid(tx)

\* TransactionLogic.verify at a height, by a node whose last block is at
\* another: the old types want the exact fee of the latter.
Verified(tx, height, last) ==
  /\ MinFee(tx, height) <= tx.fee /\ tx.sigs # <<>>
  /\ tx.kind \in Old => tx.fee = MinFee(tx, last)
  /\ TypeValid(tx)
================================================================================
