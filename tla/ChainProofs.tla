----------------------------- MODULE ChainProofs -----------------------------
(***************************************************************************)
(* For any tree of blocks, peers, length of the rounds and bounds: the      *)
(* blocks table is a path from genesis that changes at its end, the last    *)
(* block in memory is its tip until a commit fails, the lists of delegates  *)
(* in memory and in the table are those of the chain, and a synchronisation *)
(* that fails finds the way back to the chain it rolled back.               *)
(***************************************************************************)
EXTENDS Chain, FiniteSetTheorems, WellFoundedInduction, TLAPS

-----------------------------------------------------------------------------
(* The inductive invariant: types, a path of blocks, and a last block that  *)
(* is the tip or, once a commit has failed, is not in the table.  Without   *)
(* the latter a deletion could take the tip for another block.              *)
StartsAtGenesis == chain[1] = Genesis

Linked ==
  \A i \in 2..Len(chain) : chain[i] # Genesis /\ Parent[chain[i]] = chain[i - 1]

SavedIsTip == Saved(lastBlock) => lastBlock = Last(chain)

LedgerInv ==
  /\ chain \in Seq(Blocks) /\ chain # <<>>
  /\ lastBlock \in Blocks
  /\ lastNBlockIds \in Seq(Blocks) /\ Len(lastNBlockIds) <= SlotWindow
  /\ ahead \in BOOLEAN
  /\ StartsAtGenesis
  /\ Linked
  /\ SavedIsTip
  /\ LastBlockIsTip

IInv == TypeOK /\ LedgerInv

-----------------------------------------------------------------------------
(* What a step does to the ledger, whatever the task it belongs to.         *)
Popped ==
  /\ lastBlock # Genesis
  /\ Saved(lastBlock)
  /\ chain' = Front(chain)
  /\ lastBlock' = Parent[lastBlock]
  /\ UNCHANGED <<lastNBlockIds, ahead>>

Reloaded ==
  /\ chain' = chain
  /\ lastBlock' = Last(chain)
  /\ lastNBlockIds' = RecentIds
  /\ ahead' = FALSE

LedgerStep ==
  \/ \E b \in Blocks : Stored(b) \/ CommitFails(b)
  \/ Popped
  \/ Reloaded
  \/ UNCHANGED ledger

(* A block the table accepts follows the last one of the table.             *)
LEMMA InsertableFollows ==
  ASSUME LedgerInv, NEW b \in Blocks, Insertable(b)
  PROVE  b # Genesis /\ Parent[b] = Last(chain)
<1>1. b # Genesis
  BY DEF Insertable, Saved, LedgerInv, StartsAtGenesis, ToSet
<1>2. PICK i \in DOMAIN chain : chain[i] = Parent[b]
  BY DEF Insertable, Saved, ToSet
<1>3. ASSUME i # Len(chain) PROVE FALSE
  <2>1. i + 1 \in 2..Len(chain) /\ i + 1 \in DOMAIN chain /\ (i + 1) - 1 = i
    BY <1>3, <1>2 DEF LedgerInv
  <2>2. chain[i + 1] # Genesis /\ Parent[chain[i + 1]] = chain[i]
    BY <2>1 DEF LedgerInv, Linked
  <2>3. chain[i + 1] \in ToSet(chain) \ {Genesis}
    BY <2>1, <2>2 DEF ToSet
  <2>4. Parent[b] \in {Parent[c] : c \in ToSet(chain) \ {Genesis}}
    BY <2>2, <2>3, <1>2
  <2> QED BY <2>4 DEF Insertable
<1> QED BY <1>1, <1>2, <1>3 DEF Last

LEMMA FrontOfPath ==
  ASSUME NEW c \in Seq(Blocks), Len(c) > 1
  PROVE  /\ Front(c) \in Seq(Blocks) /\ Front(c) # <<>>
         /\ Len(Front(c)) = Len(c) - 1
         /\ \A i \in 1..Len(Front(c)) : Front(c)[i] = c[i]
<1>1. /\ Front(c) \in Seq(Blocks)
      /\ Len(Front(c)) = Len(c) - 1
      /\ \A i \in 1..Len(Front(c)) : Front(c)[i] = c[i]
  BY DEF Front
<1> QED BY <1>1

LEMMA PushTyped ==
  ASSUME LedgerInv, NEW b \in Blocks
  PROVE  Push(lastNBlockIds, b) \in Seq(Blocks) /\ Len(Push(lastNBlockIds, b)) <= SlotWindow
<1>1. CASE Len(lastNBlockIds) < SlotWindow
  BY <1>1, ChainAssumption DEF Push, LedgerInv
<1>2. CASE ~(Len(lastNBlockIds) < SlotWindow)
  <2>1. Len(lastNBlockIds) = SlotWindow /\ lastNBlockIds # <<>>
    BY <1>2, ChainAssumption DEF LedgerInv
  <2>2. Tail(lastNBlockIds) \in Seq(Blocks) /\ Len(Tail(lastNBlockIds)) = SlotWindow - 1
    BY <2>1, ChainAssumption DEF LedgerInv
  <2> QED BY <1>2, <2>2, ChainAssumption DEF Push
<1> QED BY <1>1, <1>2

LEMMA RecentIdsTyped ==
  ASSUME LedgerInv
  PROVE  RecentIds \in Seq(Blocks) /\ Len(RecentIds) <= SlotWindow
<1> DEFINE r == Reverse(chain)
           n == Min({SlotWindow, Len(chain)})
<1>1. r \in Seq(Blocks) /\ Len(r) = Len(chain)
  BY DEF Reverse, LedgerInv
<1>2. SlotWindow \in Nat /\ Len(chain) \in Nat
  BY ChainAssumption DEF LedgerInv
<1>3. n \in Nat /\ n <= SlotWindow /\ n <= Len(chain)
  <2>1. \E x \in {SlotWindow, Len(chain)} : \A y \in {SlotWindow, Len(chain)} : x <= y
    BY <1>2
  <2> QED BY <2>1, <1>2 DEF Min
<1>4. SubSeq(r, 1, n) \in Seq(Blocks) /\ Len(SubSeq(r, 1, n)) = n
  <2> HIDE DEF r, n
  <2> QED BY <1>1, <1>3, SMTT(20)
<1> QED BY <1>3, <1>4 DEF RecentIds

(* Every step on the ledger preserves its invariant.                        *)
LEMMA LedgerStepKeeps ==
  ASSUME LedgerInv, LedgerStep
  PROVE  LedgerInv'
<1>1. ASSUME NEW b \in Blocks, Stored(b) PROVE LedgerInv'
  <2>1. b # Genesis /\ Parent[b] = Last(chain)
    BY <1>1, InsertableFollows DEF Stored
  <2>2. /\ chain' \in Seq(Blocks) /\ chain' # <<>>
        /\ Len(chain') = Len(chain) + 1
        /\ chain'[Len(chain')] = b
        /\ \A i \in 1..Len(chain) : chain'[i] = chain[i]
    BY <1>1 DEF Stored, LedgerInv
  <2>3. StartsAtGenesis'
    BY <2>2 DEF StartsAtGenesis, LedgerInv
  <2>4. Linked'
    <3> SUFFICES ASSUME NEW i \in 2..Len(chain')
                 PROVE  chain'[i] # Genesis /\ Parent[chain'[i]] = chain'[i - 1]
      BY DEF Linked
    <3>1. CASE i = Len(chain')
      BY <3>1, <2>1, <2>2 DEF LedgerInv, Last
    <3>2. CASE i # Len(chain')
      BY <3>2, <2>2, SMTT(30) DEF LedgerInv, Linked
    <3> QED BY <3>1, <3>2
  <2>5. lastBlock' = Last(chain')
    BY <1>1, <2>2 DEF Stored, Last
  <2>6. SavedIsTip' /\ LastBlockIsTip'
    BY <2>5 DEF SavedIsTip, LastBlockIsTip
  <2>7. /\ lastNBlockIds' \in Seq(Blocks) /\ Len(lastNBlockIds') <= SlotWindow
        /\ lastBlock' \in Blocks /\ ahead' \in BOOLEAN
    BY <1>1, PushTyped DEF Stored, LedgerInv
  <2> QED BY <2>2, <2>3, <2>4, <2>6, <2>7 DEF LedgerInv
<1>2. ASSUME NEW b \in Blocks, CommitFails(b) PROVE LedgerInv'
  <2>1. ~Saved(b) /\ lastBlock' = b /\ ahead' = TRUE /\ UNCHANGED <<chain, lastNBlockIds>>
    BY <1>2 DEF CommitFails, Insertable
  <2>2. SavedIsTip' /\ LastBlockIsTip'
    BY <2>1 DEF SavedIsTip, LastBlockIsTip, Saved
  <2> QED BY <2>1, <2>2 DEF LedgerInv, StartsAtGenesis, Linked
<1>3. ASSUME Popped PROVE LedgerInv'
  <2>1. lastBlock = chain[Len(chain)] /\ Len(chain) > 1
    BY <1>3 DEF Popped, LedgerInv, SavedIsTip, Last, StartsAtGenesis
  <2>2. /\ chain' \in Seq(Blocks) /\ chain' # <<>>
        /\ Len(chain') = Len(chain) - 1
        /\ \A i \in 1..Len(chain') : chain'[i] = chain[i]
    BY <1>3, <2>1, FrontOfPath DEF Popped, LedgerInv
  <2>3. lastBlock' = Last(chain')
    BY <1>3, <2>1, <2>2 DEF Popped, LedgerInv, Linked, Last
  <2>4. StartsAtGenesis' /\ Linked'
    BY <2>1, <2>2 DEF StartsAtGenesis, Linked, LedgerInv
  <2>5. SavedIsTip' /\ LastBlockIsTip' /\ lastBlock' \in Blocks
    BY <2>2, <2>3 DEF SavedIsTip, LastBlockIsTip, Last
  <2> QED BY <1>3, <2>2, <2>4, <2>5 DEF LedgerInv, Popped
<1>4. ASSUME Reloaded PROVE LedgerInv'
  <2>1. SavedIsTip' /\ LastBlockIsTip' /\ lastBlock' \in Blocks
    BY <1>4 DEF Reloaded, SavedIsTip, LastBlockIsTip, Last, LedgerInv
  <2> QED BY <1>4, <2>1, RecentIdsTyped DEF Reloaded, LedgerInv, StartsAtGenesis, Linked
<1>5. ASSUME UNCHANGED ledger PROVE LedgerInv'
  BY <1>5 DEF ledger, LedgerInv, StartsAtGenesis, Linked, SavedIsTip, LastBlockIsTip, Saved
<1> QED BY <1>1, <1>2, <1>3, <1>4, <1>5 DEF LedgerStep

-----------------------------------------------------------------------------
(* The types of what is not the ledger.                                     *)
SyncType ==
  [peer : Peers \cup {NoPeer}, common : Blocks, prev : Blocks,
   blocks : Seq(Blocks), tries : 0..Retries]

ListsOK == IsLists(listsCache) /\ IsLists(listRows)

TaskOK ==
  /\ ListsOK
  /\ isSyncing \in BOOLEAN /\ isCleaning \in BOOLEAN
  /\ pc \in Steps
  /\ fork \in Blocks
  /\ sync \in SyncType
  /\ chainBackup \in Seq(Blocks \ {Genesis})
  /\ faults \in 0..MaxFaults
  /\ before \in Seq(Blocks)

LEMMA TypeParts == LedgerInv /\ TaskOK <=> IInv
BY DEF LedgerInv, TaskOK, ListsOK, IInv, TypeOK, SyncType

LEMMA EmptyTyped == <<>> \in Seq(Blocks) /\ <<>> \in Seq(Blocks \ {Genesis})
OBVIOUS

LEMMA NoSyncTyped == NoSync \in SyncType
BY ChainAssumption DEF NoSync, NoPeer, SyncType

LEMMA FaultTyped == TaskOK /\ Fault => faults' \in 0..MaxFaults
BY ChainAssumption DEF TaskOK, Fault

LEMMA RetryTyped ==
  ASSUME TaskOK, Retry
  PROVE  pc' \in Steps /\ sync' \in SyncType
<1>1. CASE sync.tries < Retries /\ pc' = "peer" /\ sync' = [NoSync EXCEPT !.tries = sync.tries + 1]
  <2>1. sync.tries + 1 \in 0..Retries
    <3>1. sync.tries \in 0..Retries
      BY DEF TaskOK, SyncType
    <3> QED BY <3>1, <1>1, ChainAssumption
  <2> QED BY <1>1, <2>1, NoSyncTyped DEF SyncType, Steps, SyncSteps
<1>2. CASE sync.tries = Retries /\ pc' = "check" /\ sync' = NoSync
  BY <1>2, NoSyncTyped DEF Steps, SyncSteps
<1> QED BY <1>1, <1>2 DEF Retry

(* The lists keep their type.                                               *)
LEMMA RoundIsNat == \A h \in Nat : calcRound(h) \in Nat
<1> SUFFICES ASSUME NEW h \in Nat PROVE (h + ActiveDelegates - 1) \div ActiveDelegates \in Nat
  BY DEF calcRound
<1>1. h + ActiveDelegates - 1 \in Nat /\ ActiveDelegates \in Nat /\ ActiveDelegates > 0
  BY ChainAssumption
<1> QED BY <1>1

LEMMA PutTyped ==
  ASSUME NEW ls, IsLists(ls), NEW r \in Nat, NEW b \in Blocks
  PROVE  IsLists(Put(ls, r, b))
BY DEF IsLists, Put

LEMMA RestrictTyped ==
  ASSUME NEW ls, IsLists(ls), NEW S, S \subseteq DOMAIN ls
  PROVE  IsLists(Restrict(ls, S))
BY DEF IsLists, Restrict

LEMMA GeneratedTyped ==
  ASSUME LedgerInv, ListsOK, NEW ls, IsLists(ls), NEW r \in Nat
  PROVE  IsLists(Generated(ls, r))
<1> DEFINE b == IF r \in DOMAIN listRows THEN listRows[r] ELSE Last(chain)
<1>1. Last(chain) \in Blocks
  BY DEF LedgerInv, Last
<1>2. b \in Blocks
  BY <1>1 DEF ListsOK, IsLists
<1>3. IsLists(Put(ls, r, b))
  BY <1>2, PutTyped
<1> QED BY <1>3 DEF Generated

LEMMA CheckedTyped == LedgerInv /\ ListsOK => IsLists(Checked)
<1> SUFFICES ASSUME LedgerInv, ListsOK PROVE IsLists(Checked)
  OBVIOUS
<1>1. NextRound \in Nat
  <2>1. Height[lastBlock] + 1 \in Nat
    BY ChainAssumption DEF LedgerInv
  <2> QED BY <2>1, RoundIsNat DEF NextRound
<1> QED BY <1>1, GeneratedTyped DEF Checked, ListsOK

LEMMA LookedUpTyped ==
  ASSUME LedgerInv, ListsOK, NEW ls, IsLists(ls), NEW b \in Blocks
  PROVE  IsLists(LookedUp(b, ls))
<1>1. calcRound(Height[b]) \in Nat
  BY ChainAssumption, RoundIsNat
<1> QED BY <1>1, GeneratedTyped DEF LookedUp

LEMMA DropsNextTyped ==
  ASSUME LedgerInv, ListsOK, NEW ls, IsLists(ls)
  PROVE  IsLists(DropsNext(ls))
<1> DEFINE r == calcRound(Height[lastBlock])
<1>1. r \in Nat
  BY ChainAssumption, RoundIsNat DEF LedgerInv
<1>2. IsLists(Restrict(ls, DOMAIN ls \ {r + 1}))
  BY RestrictTyped
<1> HIDE DEF r
<1>3. IsLists(Generated(Restrict(ls, DOMAIN ls \ {r + 1}), r))
  BY <1>1, <1>2, GeneratedTyped
<1> QED BY <1>3 DEF DropsNext, r

LEMMA ListsAppliedTyped ==
  ASSUME LedgerInv, ListsOK, NEW ls, IsLists(ls), NEW b \in Blocks, ListsApplied(b, ls)
  PROVE  ListsOK'
<1> DEFINE r == calcRound(Height[b])
<1>1. r \in Nat
  BY ChainAssumption, RoundIsNat
<1>2. IsLists(listsCache')
  BY LookedUpTyped DEF ListsApplied
<1>3. IsLists(listRows')
  <2>1. CASE RoundStarts(Height[b])
    <3>1. ls[r] \in Blocks
      BY <2>1 DEF ListsApplied, Savable, IsLists
    <3>2. IsLists(Put(listRows, r, ls[r]))
      BY <1>1, <3>1, PutTyped DEF ListsOK
    <3> QED BY <2>1, <3>2 DEF ListsApplied
  <2>2. CASE ~RoundStarts(Height[b])
    BY <2>2 DEF ListsApplied, ListsOK
  <2> QED BY <2>1, <2>2
<1> QED BY <1>2, <1>3 DEF ListsOK, IsLists

LEMMA ListsDeletedTyped ==
  ASSUME LedgerInv, ListsOK, NEW ls, IsLists(ls), ListsDeleted(ls)
  PROVE  ListsOK'
<1> DEFINE r == calcRound(Height[lastBlock])
           kept == {q \in DOMAIN listRows : q <= r}
<1>1. IsLists(listsCache')
  BY DropsNextTyped DEF ListsDeleted
<1>2. IsLists(Restrict(listRows, kept))
  BY RestrictTyped DEF ListsOK
<1>3. IsLists(listRows')
  BY <1>2 DEF ListsDeleted, ListsOK
<1> QED BY <1>1, <1>3 DEF ListsOK, IsLists

LEMMA ListsKept == ListsOK /\ UNCHANGED lists => ListsOK'
BY DEF ListsOK, IsLists, lists

LEMMA ListsTyped == IInv => IsLists(listsCache) /\ IsLists(Checked)
BY TypeParts, CheckedTyped DEF TaskOK, ListsOK

(* Applying and deleting a block, and what they do when they fail.          *)
LEMMA ApplyStep ==
  ASSUME LedgerInv, TaskOK, NEW b \in Blocks, NEW ls, IsLists(ls),
         Applied(b, ls) \/ ApplyFails(b, ls)
  PROVE  LedgerStep /\ faults' \in 0..MaxFaults /\ ListsOK'
<1>1. LedgerStep /\ faults' \in 0..MaxFaults
  BY FaultTyped DEF Applied, ApplyFails, LedgerStep, TaskOK, ledger
<1>2. ListsOK'
  <2>1. CASE ListsApplied(b, ls)
    BY <2>1, ListsAppliedTyped DEF TaskOK
  <2>2. CASE listsCache' \in {ls, LookedUp(b, ls)} /\ UNCHANGED listRows
    BY <2>2, LookedUpTyped DEF TaskOK, ListsOK, IsLists
  <2> QED BY <2>1, <2>2 DEF Applied, ApplyFails
<1> QED BY <1>1, <1>2

LEMMA ProcessStep ==
  ASSUME LedgerInv, TaskOK, NEW b \in Blocks, Processed(b) \/ Refused(b)
  PROVE  LedgerStep /\ faults' \in 0..MaxFaults /\ ListsOK'
<1>1. IsLists(Checked)
  BY CheckedTyped DEF TaskOK
<1>2. CASE Applied(b, Checked) \/ ApplyFails(b, Checked)
  BY <1>1, <1>2, ApplyStep
<1>3. CASE listsCache' \in {listsCache, Checked} /\ UNCHANGED <<ledger, listRows, faults>>
  BY <1>1, <1>3 DEF LedgerStep, TaskOK, ListsOK, IsLists
<1> QED BY <1>2, <1>3 DEF Processed, Refused

LEMMA DeleteStep ==
  ASSUME LedgerInv, TaskOK, NEW ls, IsLists(ls), Deleted(ls) \/ DeleteFails(ls)
  PROVE  LedgerStep /\ faults' \in 0..MaxFaults /\ ListsOK'
<1>1. LedgerStep /\ faults' \in 0..MaxFaults
  BY FaultTyped DEF Deleted, Deletable, DeleteFails, Popped, LedgerStep, TaskOK
<1>2. ListsOK'
  <2>1. CASE ListsDeleted(ls)
    BY <2>1, ListsDeletedTyped DEF TaskOK
  <2>2. CASE listsCache' \in {ls, DropsNext(ls)} /\ UNCHANGED listRows
    BY <2>2, DropsNextTyped DEF TaskOK, ListsOK, IsLists
  <2> QED BY <2>1, <2>2 DEF Deleted, DeleteFails
<1> QED BY <1>1, <1>2

LEMMA AnswerTyped ==
  ASSUME NEW p \in Peers, lastBlock \in Blocks
  PROVE  SubSeq(p.path, Height[lastBlock] + 1,
                Min({Height[lastBlock] + Batch, Len(p.path)})) \in Seq(Blocks)
<1> DEFINE h == Height[lastBlock]
           n == Min({h + Batch, Len(p.path)})
<1>1. p.path \in Seq(Blocks) /\ h \in Nat /\ Batch \in Nat
  BY ChainAssumption
<1>2. n \in Nat /\ n <= Len(p.path)
  <2>1. \E x \in {h + Batch, Len(p.path)} : \A y \in {h + Batch, Len(p.path)} : x <= y
    BY <1>1
  <2> QED BY <2>1, <1>1 DEF Min
<1> HIDE DEF h, n
<1>3. SubSeq(p.path, h + 1, n) \in Seq(Blocks)
  BY <1>1, <1>2, SMTT(20)
<1> QED BY <1>3 DEF h, n

-----------------------------------------------------------------------------
(* The tasks that process a received or a forged block.                     *)
LEMMA ReceiveStep ==
  ASSUME IInv, NEW b \in Blocks \ {Genesis}, Receive(b)
  PROVE  LedgerStep /\ TaskOK'
<1> USE TypeParts, ListsKept, ListsTyped
<1>1. CASE ReceiveNext(b)
  BY <1>1, ProcessStep DEF ReceiveNext, TaskOK, flags, task
<1>2. CASE ReceiveForkOne(b)
  BY <1>2, DeleteStep DEF ReceiveForkOne, TaskOK, flags, Steps
<1>3. CASE ReceiveForkFive(b)
  BY <1>3, DeleteStep DEF ReceiveForkFive, TaskOK, flags, Steps
<1> QED BY <1>1, <1>2, <1>3 DEF Receive

LEMMA ForkStep ==
  ASSUME IInv, ForkOneSecond \/ ForkFiveProcess
  PROVE  LedgerStep /\ TaskOK'
<1> USE TypeParts, ListsKept, ListsTyped
<1>1. CASE ForkOneSecond
  BY <1>1, DeleteStep DEF ForkOneSecond, TaskOK, flags, Steps
<1>2. CASE ForkFiveProcess
  BY <1>2, ProcessStep, ChainAssumption DEF ForkFiveProcess, TaskOK, flags, Steps
<1> QED BY <1>1, <1>2

(* The synchronisation, up to the decision to restore the chain.            *)
LEMMA SyncStep ==
  ASSUME IInv,
         \/ SyncTimer \/ NothingToSync \/ StartSync \/ NoPeers
         \/ \E p \in Peers : ChoosePeer(p) \/ Request(p)
         \/ Rollback \/ RollbackDone \/ LoadBlock \/ LoadDone \/ SyncRoundEnds
  PROVE  LedgerStep /\ TaskOK'
<1> USE TypeParts, ListsKept, ListsTyped
<1>1. CASE SyncTimer \/ NothingToSync \/ StartSync
  BY <1>1 DEF SyncTimer, NothingToSync, StartSync, LedgerStep, TaskOK, LedgerInv,
    flags, task, Steps, SyncSteps
<1>2. CASE NoPeers
  BY <1>2, NoSyncTyped DEF NoPeers, LedgerStep, TaskOK, flags, Steps, SyncSteps
<1>3. ASSUME NEW p \in Peers, ChoosePeer(p) PROVE LedgerStep /\ TaskOK'
  <2>1. PICK common \in CommonWith(p.path) :
          \/ /\ sync' = [sync EXCEPT !.peer = p, !.common = common]
             /\ pc' \in {"rollback", "request"}
             /\ UNCHANGED faults
          \/ Retry /\ UNCHANGED faults
          \/ Fault /\ Retry
    BY <1>3 DEF ChoosePeer
  <2>2. common \in Blocks
    BY ChainAssumption DEF CommonWith, IdSequence, ToSet, LedgerInv
  <2>3. sync' \in SyncType /\ pc' \in Steps
    <3>1. CASE sync' = [sync EXCEPT !.peer = p, !.common = common] /\ pc' \in {"rollback", "request"}
      BY <3>1, <2>2 DEF TaskOK, SyncType, Steps, SyncSteps
    <3>2. CASE Retry
      BY <3>2, RetryTyped
    <3> QED BY <2>1, <3>1, <3>2
  <2>4. faults' \in 0..MaxFaults
    BY <2>1, FaultTyped DEF TaskOK
  <2> QED BY <1>3, <2>3, <2>4 DEF ChoosePeer, LedgerStep, TaskOK, flags
<1>4. ASSUME NEW p \in Peers, Request(p) PROVE LedgerStep /\ TaskOK'
  <2>1. \/ /\ sync' = [sync EXCEPT !.peer = p, !.prev = lastBlock,
                          !.blocks = SubSeq(p.path, Height[lastBlock] + 1,
                             Min({Height[lastBlock] + Batch, Len(p.path)}))]
           /\ pc' = "load"
           /\ UNCHANGED faults
        \/ Retry /\ UNCHANGED faults
        \/ Fault /\ Retry
    BY <1>4 DEF Request
  <2>2. sync' \in SyncType /\ pc' \in Steps
    <3>1. CASE /\ pc' = "load"
               /\ sync' = [sync EXCEPT !.peer = p, !.prev = lastBlock,
                             !.blocks = SubSeq(p.path, Height[lastBlock] + 1,
                               Min({Height[lastBlock] + Batch, Len(p.path)}))]
      BY <3>1, AnswerTyped DEF TaskOK, SyncType, LedgerInv, Steps, SyncSteps
    <3>2. CASE Retry
      BY <3>2, RetryTyped
    <3> QED BY <2>1, <3>1, <3>2
  <2>3. faults' \in 0..MaxFaults
    BY <2>1, FaultTyped DEF TaskOK
  <2> QED BY <1>4, <2>2, <2>3 DEF Request, LedgerStep, TaskOK, flags
<1>5. CASE Rollback
  <2>1. LedgerStep /\ faults' \in 0..MaxFaults /\ ListsOK'
    BY <1>5, DeleteStep DEF Rollback
  <2>2. pc' \in Steps /\ sync' \in SyncType
    BY <1>5, RetryTyped DEF Rollback, TaskOK
  <2>3. lastBlock \in Blocks \ {Genesis}
    BY <1>5, ChainAssumption, SMTT(30) DEF Rollback, TaskOK, LedgerInv, SyncType
  <2>4. chainBackup' \in Seq(Blocks \ {Genesis})
    BY <1>5, <2>3 DEF Rollback, BackedUp, TaskOK
  <2> QED BY <1>5, <2>1, <2>2, <2>4 DEF Rollback, TaskOK, LedgerInv, flags
<1>6. CASE RollbackDone \/ LoadDone
  BY <1>6 DEF RollbackDone, LoadDone, LedgerStep, TaskOK, flags, Steps, SyncSteps
<1>7. CASE LoadBlock
  <2>1. Head(sync.blocks) \in Blocks /\ Tail(sync.blocks) \in Seq(Blocks)
    BY <1>7 DEF LoadBlock, TaskOK, SyncType
  <2>2. LedgerStep /\ faults' \in 0..MaxFaults /\ ListsOK'
    BY <1>7, <2>1, ProcessStep DEF LoadBlock
  <2>3. pc' \in Steps /\ sync' \in SyncType
    <3>1. CASE sync' = [sync EXCEPT !.blocks = Tail(@)] /\ UNCHANGED pc
      BY <3>1, <2>1 DEF TaskOK, SyncType
    <3>2. CASE Retry
      BY <3>2, RetryTyped
    <3> QED BY <1>7, <3>1, <3>2 DEF LoadBlock
  <2> QED BY <1>7, <2>2, <2>3 DEF LoadBlock, TaskOK, flags
<1>8. CASE SyncRoundEnds
  BY <1>8, NoSyncTyped DEF SyncRoundEnds, LedgerStep, TaskOK, flags, Steps, SyncSteps
<1> QED BY <1>1, <1>2, <1>3, <1>4, <1>5, <1>6, <1>7, <1>8

(* The restoration of the backup, and the end of the synchronisation.       *)
LEMMA RestoreStep ==
  ASSUME IInv, NeedRestore \/ RestoreRollback \/ RestoreAttach \/ Reapply \/ SyncEnds
  PROVE  LedgerStep /\ TaskOK'
<1> USE TypeParts, ListsKept, ListsTyped
<1>1. ASSUME Ends, faults' \in 0..MaxFaults, ListsOK' PROVE TaskOK'
  BY <1>1, EmptyTyped DEF Ends, TaskOK, Steps
<1>2. CASE NeedRestore
  BY <1>2 DEF NeedRestore, LedgerStep, TaskOK, flags, Steps, SyncSteps
<1>3. CASE RestoreRollback
  BY <1>3, <1>1, DeleteStep DEF RestoreRollback, TaskOK, flags, task
<1>4. CASE RestoreAttach
  <2>1. PICK i \in DOMAIN chainBackup : chainBackup' = SubSeq(chainBackup, 1, i)
    BY <1>4 DEF RestoreAttach, Attached
  <2>2. chainBackup' \in Seq(Blocks \ {Genesis})
    BY <2>1 DEF TaskOK
  <2> QED BY <1>4, <2>2 DEF RestoreAttach, LedgerStep, TaskOK, flags, Steps, SyncSteps
<1>5. CASE Reapply
  <2>1. Last(chainBackup) \in Blocks /\ Front(chainBackup) \in Seq(Blocks \ {Genesis})
    BY <1>5 DEF Reapply, TaskOK, Last, Front
  <2>2. LedgerStep /\ faults' \in 0..MaxFaults /\ ListsOK'
    <3>1. CASE UNCHANGED <<ledger, lists, faults>>
      BY <3>1 DEF LedgerStep, TaskOK
    <3>2. CASE \/ Applied(Last(chainBackup), listsCache)
               \/ ApplyFails(Last(chainBackup), listsCache)
      BY <3>2, <2>1, ApplyStep
    <3> QED BY <1>5, <3>1, <3>2 DEF Reapply
  <2>3. CASE chainBackup' = Front(chainBackup) /\ UNCHANGED <<flags, pc, fork, sync, before>>
    BY <2>1, <2>2, <2>3 DEF TaskOK, flags
  <2>4. CASE Ends
    BY <1>1, <2>2, <2>4
  <2> QED BY <1>5, <2>2, <2>3, <2>4 DEF Reapply
<1>6. CASE SyncEnds
  BY <1>6, <1>1 DEF SyncEnds, LedgerStep, TaskOK
<1> QED BY <1>2, <1>3, <1>4, <1>5, <1>6

-----------------------------------------------------------------------------
LEMMA InitIInv == Init => IInv
<1> SUFFICES ASSUME Init PROVE LedgerInv /\ TaskOK
  BY TypeParts
<1>1. <<Genesis>> \in Seq(Blocks) /\ Len(<<Genesis>>) = 1 /\ <<Genesis>>[1] = Genesis
  BY ChainAssumption
<1>2. LedgerInv
  <2>1. chain \in Seq(Blocks) /\ Len(chain) = 1 /\ chain[1] = Genesis /\ lastBlock = Genesis
    BY <1>1, ChainAssumption DEF Init
  <2>2. lastNBlockIds \in Seq(Blocks) /\ Len(lastNBlockIds) <= SlotWindow
    BY <1>1, ChainAssumption DEF Init
  <2>3. StartsAtGenesis /\ Linked
    BY <2>1 DEF StartsAtGenesis, Linked
  <2>4. SavedIsTip /\ LastBlockIsTip
    BY <2>1 DEF SavedIsTip, LastBlockIsTip, Last
  <2>5. chain # <<>> /\ lastBlock \in Blocks /\ ahead \in BOOLEAN
    BY <2>1, ChainAssumption DEF Init
  <2> QED BY <2>1, <2>2, <2>3, <2>4, <2>5 DEF LedgerInv
<1>3. TaskOK
  <2>1. chainBackup \in Seq(Blocks \ {Genesis}) /\ before \in Seq(Blocks)
    BY EmptyTyped DEF Init
  <2>2. faults \in 0..MaxFaults /\ fork \in Blocks
    BY ChainAssumption DEF Init
  <2>3. pc \in Steps /\ sync \in SyncType
    BY NoSyncTyped DEF Init, Steps
  <2>4. ListsOK
    BY DEF Init, ListsOK, IsLists
  <2> QED BY <2>1, <2>2, <2>3, <2>4 DEF Init, TaskOK
<1> QED BY <1>2, <1>3

LEMMA NextStep == IInv /\ [Next]_vars => LedgerStep /\ TaskOK'
<1> SUFFICES ASSUME IInv, [Next]_vars PROVE LedgerStep /\ TaskOK'
  OBVIOUS
<1>1. CASE \E b \in Blocks \ {Genesis} : Receive(b)
  BY <1>1, ReceiveStep
<1>2. CASE SyncTimer \/ NothingToSync \/ StartSync
  BY <1>2, SyncStep
<1>3. CASE Continue
  BY <1>3, ForkStep, SyncStep, RestoreStep DEF Continue
<1>4. CASE Cleanup
  BY <1>4, TypeParts, ListsKept DEF Cleanup, LedgerStep, TaskOK, task
<1>5. CASE Boot
  <2>1. ListsOK'
    BY <1>5, TypeParts DEF Boot, TaskOK, ListsOK, IsLists
  <2> QED BY <1>5, <2>1, TypeParts, NoSyncTyped, EmptyTyped, ChainAssumption
        DEF Boot, LedgerStep, Reloaded, TaskOK, Steps
<1>6. CASE UNCHANGED vars
  BY <1>6, TypeParts, ListsKept DEF vars, LedgerStep, TaskOK, flags, task
<1>7. CASE ListDelegates
  <2>1. ListsOK'
    BY <1>7, TypeParts, ListsTyped DEF ListDelegates, TaskOK, ListsOK, IsLists
  <2> QED BY <1>7, <2>1, TypeParts DEF ListDelegates, LedgerStep, TaskOK, flags, task
<1> QED BY <1>1, <1>2, <1>3, <1>4, <1>5, <1>6, <1>7 DEF Next

LEMMA NextIInv == IInv /\ [Next]_vars => IInv'
<1> SUFFICES ASSUME IInv, [Next]_vars PROVE IInv'
  OBVIOUS
<1>1. LedgerInv' /\ TaskOK'
  BY NextStep, LedgerStepKeeps, TypeParts
<1> QED BY <1>1 DEF LedgerInv, TaskOK, ListsOK, IInv, TypeOK, SyncType

-----------------------------------------------------------------------------
(* The strengthening holds in every reachable state.                        *)
THEOREM Invariant == Spec => []IInv
<1>1. Init => IInv
  BY InitIInv
<1>2. IInv /\ [Next]_vars => IInv'
  BY NextIInv
<1> QED BY <1>1, <1>2, PTL DEF Spec

(* Every variable of the chain keeps its type, the window of recent ids its *)
(* bound (onNewBlock in verify.ts) and the retries theirs.                  *)
THEOREM TypeCorrect == Spec => []TypeOK
<1>1. IInv => TypeOK
  BY DEF IInv
<1> QED BY <1>1, Invariant, PTL

(* As long as no commit has failed since the boot, lastBlock in memory is   *)
(* the tip of the table (applyBlock and deleteLastBlock in chain.ts).       *)
THEOREM MemoryIsTip == Spec => []LastBlockIsTip
<1>1. IInv => LastBlockIsTip
  BY DEF IInv, LedgerInv
<1> QED BY <1>1, Invariant, PTL

(* Every step of the node, whatever fails in it, extends the path in the    *)
(* table by a block at its end, takes its last block away, or leaves it.    *)
THEOREM KeepsAPath == Spec => TableIsAPath
<1>1. Init => Table!Init
  BY DEF Init, Table!Init
<1>2. IInv /\ LedgerStep => [Table!Next]_chain
  <2> SUFFICES ASSUME IInv, LedgerStep PROVE Table!Next \/ chain' = chain
    OBVIOUS
  <2>1. LedgerInv
    BY DEF IInv
  <2>2. ASSUME NEW b \in Blocks, Stored(b) PROVE Table!Next
    <3>1. b \in Blocks \ {Genesis} /\ Parent[b] = Last(chain)
      BY <2>1, <2>2, InsertableFollows DEF Stored
    <3> QED BY <3>1, <2>2 DEF Stored, Table!Next, Table!Extend, Last, Table!Last
  <2>3. ASSUME Popped PROVE Table!Next
    <3>1. Len(chain) > 1
      BY <2>1, <2>3 DEF Popped, LedgerInv, SavedIsTip, Last, StartsAtGenesis
    <3> QED BY <3>1, <2>3 DEF Popped, Table!Next, Table!Retract, Front, Table!Front
  <2> QED BY <2>2, <2>3 DEF LedgerStep, CommitFails, Reloaded, ledger
<1>3. IInv /\ [Next]_vars => [Table!Next]_chain
  BY <1>2, NextStep
<1> QED BY <1>1, <1>3, Invariant, PTL DEF Spec, TableIsAPath, Table!Spec

-----------------------------------------------------------------------------
(* The arithmetic of rounds.                                                *)
LEMMA TimesMonotone ==
  ASSUME NEW a \in Int, NEW b \in Int, NEW n \in Nat, n > 0
  PROVE  a <= b <=> a * n <= b * n
OBVIOUS

LEMMA CeilBounds ==
  ASSUME NEW h \in Nat, h > 0, NEW n \in Nat, n > 0
  PROVE  LET r == (h + n - 1) \div n IN r \in Nat /\ r > 0 /\ (r - 1) * n < h /\ h <= r * n
<1> DEFINE a == h + n - 1
           r == a \div n
<1>1. a \in Nat /\ a >= n
  OBVIOUS
<1> HIDE DEF a
<1>2. r \in Nat /\ n * r <= a /\ a < n * r + n
  BY <1>1
<1> HIDE DEF r
<1>3. r * n = n * r /\ (r - 1) * n = n * r - n
  BY <1>2
<1>4. r > 0
  BY <1>1, <1>2
<1>5. (r - 1) * n < h /\ h <= r * n
  BY <1>2, <1>3 DEF a
<1> QED BY <1>2, <1>4, <1>5 DEF r, a

(* The round of a height is the one between whose ends it lies.             *)
LEMMA RoundBounds ==
  ASSUME NEW h \in Nat, h > 0
  PROVE  /\ calcRound(h) \in Nat /\ calcRound(h) > 0
         /\ (calcRound(h) - 1) * ActiveDelegates < h
         /\ h <= calcRound(h) * ActiveDelegates
<1>1. ActiveDelegates \in Nat /\ ActiveDelegates > 0
  BY ChainAssumption
<1> QED BY <1>1, CeilBounds DEF calcRound

LEMMA RoundUnique ==
  ASSUME NEW h \in Nat, h > 0, NEW r \in Nat,
         (r - 1) * ActiveDelegates < h, h <= r * ActiveDelegates
  PROVE  calcRound(h) = r
<1> DEFINE n == ActiveDelegates
           q == calcRound(h)
<1>1. n \in Nat /\ n > 0
  BY ChainAssumption
<1>2. q \in Nat /\ (q - 1) * n < h /\ h <= q * n
  BY RoundBounds
<1> HIDE DEF n, q
<1>3. ~(q * n <= (r - 1) * n) /\ ~(r * n <= (q - 1) * n)
  <2>1. /\ (r - 1) * n \in Int /\ (q - 1) * n \in Int
        /\ r * n \in Int /\ q * n \in Int
    BY <1>1, <1>2
  <2>2. (r - 1) * n < h /\ h <= r * n
    BY DEF n
  <2> QED BY <1>2, <2>1, <2>2
<1>4. ~(q <= r - 1) /\ ~(r <= q - 1)
  BY <1>1, <1>2, <1>3, TimesMonotone
<1>5. q = r
  BY <1>2, <1>4
<1> QED BY <1>5 DEF q

LEMMA RoundMonotone ==
  ASSUME NEW h \in Nat, h > 0, NEW k \in Nat, k >= h
  PROVE  calcRound(h) <= calcRound(k)
<1> DEFINE n == ActiveDelegates
           q == calcRound(h)
           r == calcRound(k)
<1>1. n \in Nat /\ n > 0
  BY ChainAssumption
<1>2. q \in Nat /\ (q - 1) * n < h /\ r \in Nat /\ k <= r * n
  BY RoundBounds
<1> HIDE DEF n, q, r
<1>3. ~(r * n <= (q - 1) * n)
  <2>1. r * n \in Int /\ (q - 1) * n \in Int
    BY <1>1, <1>2
  <2> QED BY <1>2, <2>1
<1>4. ~(r <= q - 1)
  BY <1>1, <1>2, <1>3, TimesMonotone
<1> QED BY <1>2, <1>4 DEF q, r

(* A height either begins its round or shares it with the height before.    *)
LEMMA SameRound ==
  ASSUME NEW h \in Nat, h > 1, ~RoundStarts(h)
  PROVE  h > 2 /\ calcRound(h - 1) = calcRound(h)
<1> DEFINE n == ActiveDelegates
           r == calcRound(h)
<1>1. n \in Nat /\ n > 0
  BY ChainAssumption
<1>2. r \in Nat /\ (r - 1) * n < h /\ h <= r * n
  BY RoundBounds
<1>3. (r - 1) * n + 1 # h /\ h # 2
  BY DEF RoundStarts, firstInRound
<1>4. (r - 1) * n \in Int /\ r * n \in Int
  BY <1>1, <1>2
<1> HIDE DEF n, r
<1>5. (r - 1) * n < h - 1 /\ h - 1 <= r * n /\ h - 1 \in Nat /\ h - 1 > 0
  BY <1>2, <1>3, <1>4
<1>6. calcRound(h - 1) = r
  BY <1>2, <1>5, RoundUnique DEF n
<1> QED BY <1>3, <1>6 DEF r

(* A round that begins after height h, or with the block after genesis, is  *)
(* computed on the block at h.                                              *)
LEMMA SeedOfStart ==
  ASSUME NEW h \in Nat, h > 0, RoundStarts(h + 1)
  PROVE  SeedHeight(calcRound(h + 1)) = h
<1> DEFINE n == ActiveDelegates
           r == calcRound(h + 1)
<1>1. n \in Nat /\ n > 2
  BY ChainAssumption
<1>2. r \in Nat /\ r > 0
  BY RoundBounds
<1>3. CASE h = 1
  <2>1. calcRound(2) = 1
    <3>1. (1 - 1) * n = 0 /\ 1 * n = n
      BY <1>1
    <3> QED BY <1>1, <3>1, RoundUnique DEF n
  <2> QED BY <1>3, <2>1 DEF SeedHeight
<1>4. CASE h # 1
  <2>1. (r - 1) * n + 1 = h + 1
    BY <1>4 DEF RoundStarts, firstInRound
  <2> HIDE DEF n, r
  <2>2. (r - 1) * n = h
    <3>1. (r - 1) * n \in Int
      BY <1>1, <1>2
    <3> QED BY <2>1, <3>1
  <2>3. r # 1
    <3>1. (1 - 1) * n = 0
      BY <1>1
    <3> QED BY <2>2, <3>1
  <2> QED BY <2>2, <2>3 DEF SeedHeight, lastInRound, n, r
<1> QED BY <1>3, <1>4

(* The rounds computed on a block at or below h are at most one ahead of    *)
(* that of h, and none is when h does not end its round.                    *)
LEMMA SeedBelow ==
  ASSUME NEW h \in Nat, h > 1, NEW q \in Nat, SeedHeight(q) <= h,
         RoundEnds(h) => q # calcRound(h) + 1
  PROVE  SeedHeight(q) <= h - 1
<1> DEFINE n == ActiveDelegates
           r == calcRound(h)
<1>1. n \in Nat /\ n > 2
  BY ChainAssumption
<1>2. r \in Nat /\ r > 0 /\ (r - 1) * n < h /\ h <= r * n
  BY RoundBounds
<1>3. CASE q = 1
  BY <1>3 DEF SeedHeight
<1>4. CASE q # 1
  <2>1. SeedHeight(q) = (q - 1) * n
    BY <1>4 DEF SeedHeight, lastInRound
  <2> HIDE DEF n
  <2>2. (q - 1) * n \in Int
    BY <1>1
  <2>3. CASE (q - 1) * n = h
    <3>1. q - 1 \in Nat
      BY <1>1, <2>3, TimesMonotone
    <3>2. (q - 1 - 1) * n < h
      BY <1>1, <2>3
    <3>3. calcRound(h) = q - 1
      BY <3>1, <3>2, <2>3, RoundUnique DEF n
    <3>4. RoundEnds(h)
      BY <3>3, <2>3 DEF RoundEnds, lastInRound, n
    <3>5. q = calcRound(h) + 1
      BY <3>1, <3>3
    <3> QED BY <3>4, <3>5
  <2> QED BY <2>1, <2>2, <2>3
<1> QED BY <1>3, <1>4
-----------------------------------------------------------------------------
(* The inductive invariant.  The height of a block is its place in the      *)
(* table; a block whose commit failed is not in the table, so that nothing  *)
(* is applied on top of it; and what is reapplied follows the last block,   *)
(* so that it never looks up a list of a round to come.                     *)
HeightsCount == \A i \in DOMAIN chain : Height[chain[i]] = i

AheadUnsaved == ahead => ~Saved(lastBlock)

BackupLinked == \A i \in 1..(Len(chainBackup) - 1) : Parent[chainBackup[i]] = chainBackup[i + 1]

ReapplyFollows ==
  (pc = "reapply" /\ chainBackup # <<>> /\ ~isCleaning) => Parent[Last(chainBackup)] = lastBlock

TablesInv ==
  /\ LedgerInv /\ ListsOK
  /\ HeightsCount /\ AheadUnsaved
  /\ ListsFollowChain

BackupInv == TaskOK /\ BackupLinked /\ ReapplyFollows

(* What a step does to the tables and to the lists in memory.               *)
ListsStep ==
  \/ \E b \in Blocks \ {Genesis}, ls \in {listsCache, Checked} :
       /\ Parent[b] = lastBlock
       /\ \/ Stored(b) /\ ListsApplied(b, ls)
          \/ CommitFails(b) /\ UNCHANGED listRows
          \/ UNCHANGED <<ledger, listRows>> /\ listsCache' \in {ls, LookedUp(b, ls)}
  \/ \E ls \in {listsCache, Checked} :
       /\ Deletable
       /\ \/ Popped /\ ListsDeleted(ls)
          \/ UNCHANGED <<ledger, listRows>> /\ listsCache' \in {ls, DropsNext(ls)}
  \/ UNCHANGED <<ledger, listRows>> /\ listsCache' \in {listsCache, Checked}
  \/ Reloaded /\ listsCache' = <<>> /\ listRows' = IF Len(chain) = 1 THEN <<>> ELSE listRows

-----------------------------------------------------------------------------
(* Lists of this chain stay so when one of this chain is put among them.    *)
LEMMA PutFollows ==
  ASSUME NEW ls, OnThisChain(ls), NEW r, SeedHeight(r) \in DOMAIN chain
  PROVE  OnThisChain(Put(ls, r, chain[SeedHeight(r)]))
BY DEF OnThisChain, Put

LEMMA TipHeight ==
  ASSUME TablesInv, ~ahead
  PROVE  /\ Len(chain) \in Nat /\ Len(chain) > 0 /\ DOMAIN chain = 1..Len(chain)
         /\ lastBlock = chain[Len(chain)] /\ Height[lastBlock] = Len(chain)
<1>1. chain \in Seq(Blocks) /\ chain # <<>> /\ lastBlock = Last(chain)
  BY DEF TablesInv, LedgerInv, LastBlockIsTip
<1>2. Len(chain) \in Nat /\ Len(chain) > 0 /\ DOMAIN chain = 1..Len(chain)
  BY <1>1
<1> QED BY <1>1, <1>2 DEF TablesInv, HeightsCount, Last

(* A list generated for the next round, on the tip, is one of this chain:   *)
(* where no row is found, the tip ends the round before.                    *)
LEMMA GeneratedFollows ==
  ASSUME TablesInv, ~ahead, NEW ls, OnThisChain(ls),
         NEW h \in {Len(chain), Len(chain) + 1}, h > 1
  PROVE  OnThisChain(Generated(ls, calcRound(h)))
<1> DEFINE r == calcRound(h)
           n == Len(chain)
<1>1. n \in Nat /\ n > 0 /\ DOMAIN chain = 1..n /\ Last(chain) = chain[n]
  BY TipHeight DEF Last
<1>2. CASE r \in DOMAIN ls
  BY <1>2 DEF Generated
<1>3. CASE r \notin DOMAIN ls /\ r \in DOMAIN listRows
  <2>1. SeedHeight(r) \in DOMAIN chain /\ listRows[r] = chain[SeedHeight(r)]
    BY <1>3 DEF TablesInv, ListsFollowChain, OnThisChain
  <2> QED BY <1>3, <2>1, PutFollows DEF Generated
<1>4. CASE r \notin DOMAIN ls /\ r \notin DOMAIN listRows
  <2>1. h \notin 2..n
    BY <1>4 DEF TablesInv, ListsFollowChain
  <2>2. h = n + 1
    BY <1>1, <2>1
  <2>3. RoundStarts(n + 1)
    <3>1. SUFFICES ASSUME ~RoundStarts(n + 1) PROVE FALSE
      OBVIOUS
    <3>2. n + 1 > 2 /\ calcRound(n) = calcRound(n + 1)
      BY <1>1, <3>1, SameRound
    <3>3. calcRound(n) \in DOMAIN listRows
      BY <1>1, <3>2 DEF TablesInv, ListsFollowChain
    <3> QED BY <1>4, <2>2, <3>2, <3>3
  <2>4. SeedHeight(r) = n
    BY <1>1, <2>2, <2>3, SeedOfStart
  <2>5. OnThisChain(Put(ls, r, chain[n]))
    BY <1>1, <2>4, PutFollows
  <2> QED BY <1>1, <1>4, <2>5 DEF Generated
<1> QED BY <1>2, <1>3, <1>4

LEMMA CheckedFollows ==
  ASSUME TablesInv, ~ahead
  PROVE  OnThisChain(listsCache) /\ OnThisChain(Checked)
<1>1. OnThisChain(listsCache)
  BY DEF TablesInv, ListsFollowChain
<1>2. Len(chain) \in Nat /\ Len(chain) > 0 /\ Height[lastBlock] = Len(chain)
  BY TipHeight
<1>3. OnThisChain(Generated(listsCache, calcRound(Len(chain) + 1)))
  BY <1>1, <1>2, GeneratedFollows
<1> QED BY <1>1, <1>2, <1>3 DEF Checked, NextRound

LEMMA LookedUpFollows ==
  ASSUME TablesInv, ~ahead, NEW ls, OnThisChain(ls),
         NEW b \in Blocks \ {Genesis}, Parent[b] = lastBlock
  PROVE  OnThisChain(LookedUp(b, ls)) /\ Height[b] = Len(chain) + 1
<1>1. Len(chain) \in Nat /\ Len(chain) > 0 /\ Height[lastBlock] = Len(chain)
  BY TipHeight
<1>2. Height[b] = Len(chain) + 1
  BY <1>1, ChainAssumption
<1>3. OnThisChain(Generated(ls, calcRound(Len(chain) + 1)))
  BY <1>1, GeneratedFollows
<1> QED BY <1>2, <1>3 DEF LookedUp

(* What is left when the last block goes was computed on blocks below it.   *)
LEMMA DropsFollow ==
  ASSUME TablesInv, ~ahead, Deletable, NEW ls, IsLists(ls), OnThisChain(ls)
  PROVE  /\ Len(chain) > 1
         /\ OnThisChain(DropsNext(ls))
         /\ \A q \in DOMAIN DropsNext(ls) : SeedHeight(q) <= Len(chain) - 1
<1> DEFINE n == Len(chain)
           r == calcRound(n)
           kept == Restrict(ls, DOMAIN ls \ {r + 1})
<1>1. n \in Nat /\ n > 0 /\ DOMAIN chain = 1..n /\ lastBlock = chain[n] /\ Height[lastBlock] = n
  BY TipHeight
<1>2. n > 1
  BY <1>1 DEF Deletable, TablesInv, LedgerInv, StartsAtGenesis
<1>3. r \in Nat
  BY <1>1, RoundBounds
<1>4. \A q \in DOMAIN ls : q \in Nat /\ SeedHeight(q) \in 1..n
  BY <1>1 DEF IsLists, OnThisChain
<1>5. CASE ~RoundEnds(n)
  <2>1. \A q \in DOMAIN ls : SeedHeight(q) <= n - 1
    BY <1>1, <1>2, <1>4, <1>5, SeedBelow
  <2> QED BY <1>1, <1>2, <1>5, <2>1 DEF DropsNext
<1>6. CASE RoundEnds(n)
  <2>1. OnThisChain(kept)
    BY DEF OnThisChain, Restrict
  <2>2. OnThisChain(Generated(kept, r))
    BY <1>2, <2>1, GeneratedFollows
  <2>3. DOMAIN Generated(kept, r) \subseteq (DOMAIN ls \ {r + 1}) \cup {r}
    BY DEF Generated, Put, Restrict
  <2>4. SeedHeight(r) \in 1..n /\ r # r + 1
    <3>1. r \in DOMAIN Generated(kept, r)
      BY DEF Generated, Put
    <3> QED BY <1>1, <1>3, <2>2, <3>1 DEF OnThisChain
  <2>5. \A q \in (DOMAIN ls \ {r + 1}) \cup {r} : q \in Nat /\ SeedHeight(q) <= n /\ q # r + 1
    BY <1>3, <1>4, <2>4
  <2>6. \A q \in (DOMAIN ls \ {r + 1}) \cup {r} : SeedHeight(q) <= n - 1
    BY <1>1, <1>2, <2>5, SeedBelow
  <2>7. DropsNext(ls) = Generated(kept, r)
    BY <1>1, <1>6 DEF DropsNext
  <2> QED BY <1>2, <2>2, <2>3, <2>6, <2>7
<1> QED BY <1>5, <1>6

-----------------------------------------------------------------------------
(* Blocks are added where they belong and go from the end.                  *)
LEMMA StoredAdds ==
  ASSUME TablesInv, NEW b \in Blocks \ {Genesis}, Parent[b] = lastBlock, Stored(b)
  PROVE  /\ ~ahead /\ ~ahead'
         /\ Len(chain') = Len(chain) + 1 /\ DOMAIN chain' = 1..(Len(chain) + 1)
         /\ chain'[Len(chain) + 1] = b
         /\ \A i \in 1..Len(chain) : chain'[i] = chain[i]
<1>1. Saved(lastBlock)
  BY DEF Stored, Insertable
<1>2. ~ahead /\ ~ahead'
  BY <1>1 DEF TablesInv, AheadUnsaved, Stored
<1>3. chain \in Seq(Blocks) /\ chain' = Append(chain, b)
  BY DEF TablesInv, LedgerInv, Stored
<1> QED BY <1>2, <1>3

LEMMA PoppedRemoves ==
  ASSUME TablesInv, Deletable, Popped
  PROVE  /\ ~ahead /\ ~ahead'
         /\ Len(chain) > 1
         /\ Len(chain') = Len(chain) - 1 /\ DOMAIN chain' = 1..(Len(chain) - 1)
         /\ \A i \in 1..(Len(chain) - 1) : chain'[i] = chain[i]
<1>1. ~ahead /\ ~ahead'
  BY DEF Deletable, TablesInv, AheadUnsaved, Popped
<1>2. Len(chain) \in Nat /\ Len(chain) > 0 /\ lastBlock = chain[Len(chain)]
  BY <1>1, TipHeight
<1>3. Len(chain) > 1
  BY <1>2 DEF Deletable, TablesInv, LedgerInv, StartsAtGenesis
<1>4. chain \in Seq(Blocks) /\ chain' = Front(chain)
  BY DEF TablesInv, LedgerInv, Popped
<1>5. /\ Front(chain) \in Seq(Blocks) /\ Len(Front(chain)) = Len(chain) - 1
      /\ \A i \in 1..Len(Front(chain)) : Front(chain)[i] = chain[i]
  BY <1>3, <1>4, FrontOfPath
<1>6. DOMAIN Front(chain) = 1..(Len(chain) - 1)
  BY <1>5
<1> QED BY <1>1, <1>3, <1>4, <1>5, <1>6

(* The heights and the place of the last block in memory.                   *)
LEMMA HeightsKept ==
  ASSUME TablesInv, ListsStep
  PROVE  HeightsCount' /\ AheadUnsaved'
<1>1. ASSUME NEW b \in Blocks \ {Genesis}, Parent[b] = lastBlock, Stored(b)
      PROVE  HeightsCount' /\ AheadUnsaved'
  <2>1. ~ahead /\ Height[b] = Len(chain) + 1
    <3>1. ~ahead /\ Len(chain) \in Nat /\ Height[lastBlock] = Len(chain)
      BY <1>1, StoredAdds, TipHeight
    <3> QED BY <1>1, <3>1, ChainAssumption
  <2>2. Len(chain) \in Nat /\ DOMAIN chain = 1..Len(chain)
    BY <2>1, TipHeight
  <2> QED BY <1>1, <2>1, <2>2, StoredAdds DEF TablesInv, HeightsCount, AheadUnsaved
<1>2. ASSUME NEW b \in Blocks, CommitFails(b) PROVE HeightsCount' /\ AheadUnsaved'
  BY <1>2 DEF CommitFails, Insertable, Saved, TablesInv, HeightsCount, AheadUnsaved
<1>3. ASSUME Deletable, Popped PROVE HeightsCount' /\ AheadUnsaved'
  <2>1. Len(chain) \in Nat /\ DOMAIN chain = 1..Len(chain)
    BY <1>3, PoppedRemoves, TipHeight
  <2>2. ~ahead' /\ DOMAIN chain' = 1..(Len(chain) - 1) /\ \A i \in DOMAIN chain' : chain'[i] = chain[i]
    BY <1>3, PoppedRemoves
  <2>3. \A i \in DOMAIN chain' : i \in DOMAIN chain
    BY <2>1, <2>2
  <2> QED BY <2>2, <2>3 DEF TablesInv, HeightsCount, AheadUnsaved
<1>4. CASE Reloaded
  BY <1>4 DEF Reloaded, TablesInv, HeightsCount, AheadUnsaved
<1>5. CASE UNCHANGED ledger
  BY <1>5 DEF ledger, Saved, TablesInv, HeightsCount, AheadUnsaved
<1> QED BY <1>1, <1>2, <1>3, <1>4, <1>5 DEF ListsStep

(* The lists, when a block is stored ...                                    *)
LEMMA ListsStored ==
  ASSUME TablesInv, NEW b \in Blocks \ {Genesis}, NEW ls \in {listsCache, Checked},
         Parent[b] = lastBlock, Stored(b), ListsApplied(b, ls)
  PROVE  ListsFollowChain'
<1> DEFINE n == Len(chain)
           r == calcRound(n + 1)
<1>1. ~ahead
  BY StoredAdds
<1>2. OnThisChain(ls)
  BY <1>1, CheckedFollows
<1>3. OnThisChain(LookedUp(b, ls)) /\ Height[b] = n + 1
  BY <1>1, <1>2, LookedUpFollows
<1>4. n \in Nat /\ n > 0 /\ DOMAIN chain = 1..n
  BY <1>1, TipHeight
<1>5. OnThisChain(listRows) /\ \A h \in 2..n : calcRound(h) \in DOMAIN listRows
  BY DEF TablesInv, ListsFollowChain
<1>6. OnThisChain(listRows') /\ DOMAIN listRows \subseteq DOMAIN listRows' /\ r \in DOMAIN listRows'
  <2>1. CASE RoundStarts(n + 1)
    <3>1. r \in DOMAIN ls /\ listRows' = Put(listRows, r, ls[r])
      BY <1>3, <2>1 DEF ListsApplied, Savable
    <3>2. SeedHeight(r) \in DOMAIN chain /\ ls[r] = chain[SeedHeight(r)]
      BY <1>2, <3>1 DEF OnThisChain
    <3>3. OnThisChain(Put(listRows, r, ls[r]))
      BY <1>5, <3>2, PutFollows
    <3>4. DOMAIN Put(listRows, r, ls[r]) = DOMAIN listRows \cup {r}
      BY DEF Put
    <3>5. OnThisChain(listRows')
      BY <3>1, <3>3 DEF OnThisChain
    <3> HIDE DEF r
    <3> QED BY <3>1, <3>4, <3>5
  <2>2. CASE ~RoundStarts(n + 1)
    <3>1. listRows' = listRows
      BY <1>3, <2>2 DEF ListsApplied
    <3>2. n + 1 > 2 /\ calcRound(n) = r
      BY <1>4, <2>2, SameRound
    <3>3. r \in DOMAIN listRows
      BY <1>4, <1>5, <3>2
    <3> QED BY <1>5, <3>1, <3>3 DEF OnThisChain
  <2> QED BY <2>1, <2>2
<1>7. /\ Len(chain') = n + 1 /\ DOMAIN chain' = 1..(n + 1)
      /\ \A i \in 1..n : chain'[i] = chain[i]
  BY StoredAdds
<1>8. \A h \in 2..Len(chain') : calcRound(h) \in DOMAIN listRows'
  <2> SUFFICES ASSUME NEW h \in 2..(n + 1) PROVE calcRound(h) \in DOMAIN listRows'
    BY <1>7
  <2>1. CASE h = n + 1
    BY <1>6, <2>1
  <2>2. CASE h # n + 1
    <3>1. h \in 2..n
      BY <1>4, <2>2
    <3> QED BY <1>5, <1>6, <3>1
  <2> QED BY <2>1, <2>2
<1>9. listsCache' = LookedUp(b, ls)
  BY DEF ListsApplied
<1>10. \A q \in DOMAIN listsCache' :
         SeedHeight(q) \in 1..n /\ listsCache'[q] = chain[SeedHeight(q)]
  BY <1>3, <1>4, <1>9 DEF OnThisChain
<1>11. \A q \in DOMAIN listRows' : SeedHeight(q) \in 1..n /\ listRows'[q] = chain[SeedHeight(q)]
  BY <1>4, <1>6 DEF OnThisChain
<1>12. \A q : (SeedHeight(q))' = SeedHeight(q)
  BY DEF SeedHeight, lastInRound
<1> HIDE DEF n
<1> QED BY <1>4, <1>7, <1>8, <1>10, <1>11, <1>12 DEF ListsFollowChain, OnThisChain

(* ... and when one is popped.                                              *)
LEMMA ListsPopped ==
  ASSUME TablesInv, NEW ls \in {listsCache, Checked}, Deletable, Popped, ListsDeleted(ls)
  PROVE  ListsFollowChain'
<1> DEFINE n == Len(chain)
           r == calcRound(n)
<1>1. ~ahead
  BY PoppedRemoves
<1>2. OnThisChain(ls) /\ IsLists(ls)
  BY <1>1, CheckedFollows, CheckedTyped DEF TablesInv, ListsOK
<1>3. n \in Nat /\ n > 1 /\ DOMAIN chain = 1..n /\ Height[lastBlock] = n
  BY <1>1, TipHeight, PoppedRemoves
<1>4. /\ OnThisChain(listsCache')
      /\ \A q \in DOMAIN listsCache' : SeedHeight(q) <= n - 1
  BY <1>1, <1>2, DropsFollow DEF ListsDeleted, OnThisChain
<1>5. OnThisChain(listRows) /\ \A h \in 2..n : calcRound(h) \in DOMAIN listRows
  BY DEF TablesInv, ListsFollowChain
<1>6. \A q \in DOMAIN listRows : q \in Nat /\ SeedHeight(q) \in 1..n
  BY <1>3, <1>5 DEF TablesInv, ListsOK, IsLists, OnThisChain
<1>7. /\ OnThisChain(listRows')
      /\ \A q \in DOMAIN listRows' : SeedHeight(q) <= n - 1
      /\ \A q \in DOMAIN listRows : q <= r => q \in DOMAIN listRows'
  <2>1. CASE RoundEnds(n)
    <3>1. listRows' = Restrict(listRows, {q \in DOMAIN listRows : q <= r})
      BY <1>3, <2>1 DEF ListsDeleted
    <3>2. DOMAIN listRows' = {q \in DOMAIN listRows : q <= r} /\ OnThisChain(listRows')
      BY <1>5, <3>1 DEF OnThisChain, Restrict
    <3>3. r \in Nat
      BY <1>3, RoundBounds
    <3>4. \A q \in DOMAIN listRows' : q \in Nat /\ SeedHeight(q) <= n /\ q # r + 1
      <4> HIDE DEF r
      <4> QED BY <1>3, <1>6, <3>2, <3>3
    <3>5. \A q \in DOMAIN listRows' : SeedHeight(q) <= n - 1
      BY <1>3, <3>4, SeedBelow
    <3> QED BY <3>2, <3>5
  <2>2. CASE ~RoundEnds(n)
    <3>1. listRows' = listRows
      BY <1>3, <2>2 DEF ListsDeleted
    <3>2. \A q \in DOMAIN listRows : SeedHeight(q) <= n - 1
      BY <1>3, <1>6, <2>2, SeedBelow
    <3> QED BY <1>5, <3>1, <3>2 DEF OnThisChain
  <2> QED BY <2>1, <2>2
<1>8. /\ Len(chain') = n - 1 /\ DOMAIN chain' = 1..(n - 1)
      /\ \A i \in 1..(n - 1) : chain'[i] = chain[i]
  BY PoppedRemoves
<1>9. \A h \in 2..Len(chain') : calcRound(h) \in DOMAIN listRows'
  <2> SUFFICES ASSUME NEW h \in 2..(n - 1) PROVE calcRound(h) \in DOMAIN listRows'
    BY <1>8
  <2>1. h \in 2..n /\ h \in Nat /\ h > 0 /\ n >= h
    BY <1>3
  <2>2. calcRound(h) \in DOMAIN listRows /\ calcRound(h) <= r
    BY <1>3, <1>5, <2>1, RoundMonotone
  <2> QED BY <1>7, <2>2
<1>10. \A q \in DOMAIN listsCache' :
         SeedHeight(q) \in 1..(n - 1) /\ listsCache'[q] = chain[SeedHeight(q)]
  BY <1>3, <1>4 DEF OnThisChain
<1>11. \A q \in DOMAIN listRows' :
         SeedHeight(q) \in 1..(n - 1) /\ listRows'[q] = chain[SeedHeight(q)]
  BY <1>3, <1>7 DEF OnThisChain
<1>12. \A q : (SeedHeight(q))' = SeedHeight(q)
  BY DEF SeedHeight, lastInRound
<1> HIDE DEF n
<1> QED BY <1>3, <1>8, <1>9, <1>10, <1>11, <1>12 DEF ListsFollowChain, OnThisChain

(* Every step on the tables and the lists keeps them in accord.             *)
LEMMA ListsStepKeeps ==
  ASSUME TablesInv, ListsStep
  PROVE  HeightsCount' /\ AheadUnsaved' /\ ListsFollowChain'
<1>1. HeightsCount' /\ AheadUnsaved'
  BY HeightsKept
<1>2. ASSUME UNCHANGED <<chain, listRows>>, ~ahead' => OnThisChain(listsCache')
      PROVE  ListsFollowChain'
  <2>1. \A q : (SeedHeight(q))' = SeedHeight(q)
    BY DEF SeedHeight, lastInRound
  <2> QED BY <1>2, <2>1 DEF TablesInv, ListsFollowChain, OnThisChain, calcRound
<1>3. ASSUME NEW b \in Blocks \ {Genesis}, NEW ls \in {listsCache, Checked},
             Parent[b] = lastBlock,
             \/ Stored(b) /\ ListsApplied(b, ls)
             \/ CommitFails(b) /\ UNCHANGED listRows
             \/ UNCHANGED <<ledger, listRows>> /\ listsCache' \in {ls, LookedUp(b, ls)}
      PROVE  ListsFollowChain'
  <2>1. CASE Stored(b) /\ ListsApplied(b, ls)
    BY <1>3, <2>1, ListsStored
  <2>2. CASE CommitFails(b) /\ UNCHANGED listRows
    BY <1>2, <2>2 DEF CommitFails
  <2>3. CASE UNCHANGED <<ledger, listRows>> /\ listsCache' \in {ls, LookedUp(b, ls)}
    BY <1>2, <1>3, <2>3, CheckedFollows, LookedUpFollows DEF ledger
  <2> QED BY <1>3, <2>1, <2>2, <2>3
<1>4. ASSUME NEW ls \in {listsCache, Checked}, Deletable,
             \/ Popped /\ ListsDeleted(ls)
             \/ UNCHANGED <<ledger, listRows>> /\ listsCache' \in {ls, DropsNext(ls)}
      PROVE  ListsFollowChain'
  <2>1. CASE Popped /\ ListsDeleted(ls)
    BY <1>4, <2>1, ListsPopped
  <2>2. CASE UNCHANGED <<ledger, listRows>> /\ listsCache' \in {ls, DropsNext(ls)}
    <3>1. IsLists(ls)
      BY CheckedTyped DEF TablesInv, ListsOK
    <3> QED BY <1>2, <1>4, <2>2, <3>1, CheckedFollows, DropsFollow DEF ledger
  <2> QED BY <1>4, <2>1, <2>2
<1>5. CASE UNCHANGED <<ledger, listRows>> /\ listsCache' \in {listsCache, Checked}
  BY <1>1, <1>2, <1>5, CheckedFollows DEF ledger
<1>6. CASE Reloaded /\ listsCache' = <<>> /\ listRows' = IF Len(chain) = 1 THEN <<>> ELSE listRows
  <2>1. CASE Len(chain) = 1
    <3>1. listsCache' = <<>> /\ listRows' = <<>> /\ Len(chain') = 1
      BY <1>6, <2>1 DEF Reloaded
    <3>2. OnThisChain(listsCache)' /\ OnThisChain(listRows)'
      BY <3>1 DEF OnThisChain
    <3>3. (\A h \in 2..Len(chain) : calcRound(h) \in DOMAIN listRows)'
      BY <3>1
    <3> QED BY <1>1, <3>2, <3>3 DEF ListsFollowChain
  <2>2. CASE Len(chain) # 1
    BY <1>1, <1>2, <1>6, <2>2 DEF Reloaded, OnThisChain
  <2> QED BY <2>1, <2>2
<1> QED BY <1>1, <1>3, <1>4, <1>5, <1>6 DEF ListsStep

-----------------------------------------------------------------------------
(* Every action is such a step.                                             *)
LEMMA ProcessLists ==
  ASSUME LedgerInv, NEW b \in Blocks, Processed(b) \/ Refused(b)
  PROVE  ListsStep
<1>1. CASE Acceptable(b)
  <2>1. b \in Blocks \ {Genesis} /\ Parent[b] = lastBlock
    BY <1>1 DEF Acceptable, Saved, LedgerInv, StartsAtGenesis, ToSet
  <2>2. \/ Stored(b) /\ ListsApplied(b, Checked)
        \/ CommitFails(b) /\ UNCHANGED listRows
        \/ UNCHANGED <<ledger, listRows>> /\ listsCache' \in {Checked, LookedUp(b, Checked)}
    BY <1>1 DEF Processed, Refused, Applied, ApplyFails
  <2> QED BY <2>1, <2>2 DEF ListsStep
<1>2. CASE ~Acceptable(b)
  BY <1>2 DEF Processed, Refused, ListsStep
<1> QED BY <1>1, <1>2

LEMMA DeleteLists ==
  ASSUME NEW ls \in {listsCache, Checked}, Deleted(ls) \/ DeleteFails(ls)
  PROVE  ListsStep
<1>1. CASE Deleted(ls)
  BY <1>1 DEF Deleted, Deletable, Popped, ListsStep
<1>2. CASE DeleteFails(ls)
  BY <1>2 DEF DeleteFails, ListsStep
<1> QED BY <1>1, <1>2

LEMMA ReapplyLists ==
  ASSUME BackupInv, Reapply
  PROVE  ListsStep
<1> DEFINE b == Last(chainBackup)
<1>1. CASE UNCHANGED <<ledger, lists>>
  BY <1>1 DEF lists, ListsStep
<1>2. CASE ~isCleaning /\ (Applied(b, listsCache) \/ ApplyFails(b, listsCache))
  <2>1. b \in Blocks \ {Genesis} /\ Parent[b] = lastBlock
    BY <1>2 DEF Reapply, BackupInv, ReapplyFollows, TaskOK, Last
  <2>2. \/ Stored(b) /\ ListsApplied(b, listsCache)
        \/ CommitFails(b) /\ UNCHANGED listRows
        \/ UNCHANGED <<ledger, listRows>> /\ listsCache' \in {listsCache, LookedUp(b, listsCache)}
    BY <1>2 DEF Applied, ApplyFails
  <2> QED BY <2>1, <2>2 DEF ListsStep
<1> QED BY <1>1, <1>2 DEF Reapply

LEMMA NextLists ==
  ASSUME TablesInv, BackupInv, [Next]_vars
  PROVE  ListsStep
<1>1. CASE UNCHANGED <<ledger, lists>>
  BY <1>1 DEF lists, ListsStep
<1>2. ASSUME NEW b \in Blocks \ {Genesis}, Receive(b) PROVE ListsStep
  BY <1>2, ProcessLists, DeleteLists
    DEF TablesInv, Receive, ReceiveNext, ReceiveForkOne, ReceiveForkFive
<1>3. CASE ListDelegates
  BY <1>3 DEF ListDelegates, ListsStep
<1>4. CASE ForkOneSecond \/ ForkFiveProcess
  BY <1>4, ProcessLists, DeleteLists DEF TablesInv, BackupInv, TaskOK, ForkOneSecond, ForkFiveProcess
<1>5. CASE Rollback \/ RestoreRollback
  BY <1>5, DeleteLists DEF Rollback, RestoreRollback
<1>6. CASE LoadBlock
  <2>1. Head(sync.blocks) \in Blocks
    BY <1>6 DEF LoadBlock, BackupInv, TaskOK, SyncType
  <2> QED BY <1>6, <2>1, ProcessLists DEF LoadBlock, TablesInv
<1>7. CASE Reapply
  BY <1>7, ReapplyLists
<1>8. CASE Boot
  BY <1>8 DEF Boot, Reloaded, ListsStep
<1>9. CASE SyncTimer \/ NothingToSync \/ StartSync \/ NoPeers \/ RollbackDone \/ LoadDone
           \/ SyncRoundEnds \/ NeedRestore \/ RestoreAttach \/ SyncEnds \/ Cleanup
           \/ UNCHANGED vars
  BY <1>1, <1>9 DEF SyncTimer, NothingToSync, StartSync, NoPeers, RollbackDone, LoadDone,
    SyncRoundEnds, NeedRestore, RestoreAttach, SyncEnds, Cleanup, vars
<1>10. ASSUME NEW p \in Peers, ChoosePeer(p) \/ Request(p) PROVE ListsStep
  BY <1>1, <1>10 DEF ChoosePeer, Request
<1> QED
  BY <1>2, <1>3, <1>4, <1>5, <1>6, <1>7, <1>8, <1>9, <1>10 DEF Next, Continue

LEMMA FrontKeeps ==
  ASSUME NEW S, NEW s \in Seq(S), Len(s) > 0
  PROVE  /\ Len(Front(s)) = Len(s) - 1
         /\ \A i \in 1..(Len(s) - 1) : Front(s)[i] = s[i]
<1>1. CASE Len(s) > 1
  <2>1. /\ Len(Front(s)) = Len(s) - 1
        /\ \A i \in 1..Len(Front(s)) : Front(s)[i] = s[i]
    BY <1>1 DEF Front
  <2> QED BY <2>1
<1>2. CASE Len(s) = 1
  <2>1. Front(s) = SubSeq(s, 1, 0)
    BY <1>2 DEF Front
  <2>2. SubSeq(s, 1, 0) = <<>>
    BY <1>2
  <2>3. Len(Front(s)) = 0
    BY <2>1, <2>2
  <2> QED BY <1>2, <2>3
<1>3. Len(s) > 1 \/ Len(s) = 1
  <2>1. \A n \in Nat : n > 0 => n > 1 \/ n = 1
    OBVIOUS
  <2>2. Len(s) \in Nat
    OBVIOUS
  <2> QED BY <2>1, <2>2
<1> QED BY <1>1, <1>2, <1>3

-----------------------------------------------------------------------------
(* The backup is a path down the chain it was taken from, and its last      *)
(* block follows the last one of the chain while it is reapplied.           *)
LEMMA BackupKept ==
  ASSUME TablesInv, BackupInv, TaskOK', [Next]_vars
  PROVE  BackupInv'
<1> DEFINE n == Len(chainBackup)
<1>1. chainBackup \in Seq(Blocks \ {Genesis}) /\ n \in Nat
  BY DEF BackupInv, TaskOK
<1>2. ASSUME UNCHANGED chainBackup, pc' # "reapply" PROVE BackupInv'
  BY <1>2 DEF BackupInv, BackupLinked, ReapplyFollows
<1>3. ASSUME UNCHANGED <<chainBackup, pc, lastBlock>>, isCleaning => isCleaning' PROVE BackupInv'
  BY <1>3 DEF BackupInv, BackupLinked, ReapplyFollows
<1>4. ASSUME chainBackup' = <<>> PROVE BackupInv'
  BY <1>4 DEF BackupInv, BackupLinked, ReapplyFollows
<1>5. CASE Rollback
  <2>1. pc' # "reapply" /\ chainBackup' = BackedUp
    BY <1>5 DEF Rollback, Retry
  <2>2. CASE chainBackup = <<>>
    <3>1. chainBackup' = <<lastBlock>>
      BY <2>1, <2>2 DEF BackedUp
    <3> QED BY <2>1, <3>1 DEF BackupInv, BackupLinked, ReapplyFollows
  <2>3. CASE chainBackup # <<>> /\ Parent[Last(chainBackup)] = lastBlock
    <3>1. /\ chainBackup' = Append(chainBackup, lastBlock)
          /\ Parent[chainBackup[n]] = lastBlock /\ n > 0
      BY <1>1, <2>1, <2>3 DEF BackedUp, Last
    <3>2. /\ Len(chainBackup') = n + 1 /\ chainBackup'[n + 1] = lastBlock
          /\ \A i \in 1..n : chainBackup'[i] = chainBackup[i]
      BY <1>1, <3>1
    <3>3. BackupLinked'
      BY <1>1, <3>1, <3>2 DEF BackupInv, BackupLinked
    <3> QED BY <2>1, <3>3 DEF BackupInv, ReapplyFollows
  <2>4. CASE chainBackup # <<>> /\ Parent[Last(chainBackup)] # lastBlock
    BY <1>2, <2>1, <2>4 DEF BackedUp
  <2> QED BY <2>2, <2>3, <2>4
<1>6. CASE RestoreAttach
  <2>1. PICK i \in Attached : chainBackup' = SubSeq(chainBackup, 1, i)
    BY <1>6 DEF RestoreAttach
  <2>2. i \in 1..n /\ Parent[chainBackup[i]] = lastBlock
    BY <1>1, <2>1 DEF Attached
  <2>3. /\ Len(chainBackup') = i
        /\ \A j \in 1..i : chainBackup'[j] = chainBackup[j]
    BY <1>1, <2>1, <2>2
  <2>4. BackupLinked'
    BY <1>1, <2>2, <2>3 DEF BackupInv, BackupLinked
  <2>5. Parent[Last(chainBackup')] = lastBlock' /\ Last(chainBackup') = chainBackup'[i]
    BY <1>6, <2>2, <2>3 DEF RestoreAttach, Last, ledger
  <2> QED BY <2>4, <2>5 DEF BackupInv, ReapplyFollows
<1>7. CASE Reapply
  <2>1. CASE Ends
    BY <1>4, <2>1 DEF Ends
  <2>2. CASE chainBackup' = Front(chainBackup) /\ UNCHANGED <<flags, pc>>
    <3>1. n > 0
      BY <1>1, <1>7 DEF Reapply
    <3>2. /\ Len(chainBackup') = n - 1
          /\ \A i \in 1..(n - 1) : chainBackup'[i] = chainBackup[i]
      BY <1>1, <2>2, <3>1, FrontKeeps
    <3>3. BackupLinked'
      BY <1>1, <3>1, <3>2 DEF BackupInv, BackupLinked
    <3>4. ASSUME chainBackup' # <<>>, ~isCleaning' PROVE Parent[Last(chainBackup')] = lastBlock'
      <4>1. lastBlock' = chainBackup[n]
        <5>1. ~isCleaning
          BY <2>2, <3>4 DEF flags
        <5>2. CASE Applied(Last(chainBackup), listsCache)
          BY <1>1, <5>2 DEF Applied, Stored, Last
        <5>3. CASE Ends
          BY <3>4, <5>3 DEF Ends
        <5> QED BY <1>7, <5>1, <5>2, <5>3 DEF Reapply
      <4>2. n - 1 > 0
        <5>1. chainBackup' \in Seq(Blocks \ {Genesis})
          BY DEF TaskOK
        <5> QED BY <1>1, <3>2, <3>4, <5>1
      <4>3. Last(chainBackup') = chainBackup[n - 1]
        BY <1>1, <3>2, <4>2 DEF Last
      <4>4. Parent[chainBackup[n - 1]] = chainBackup[(n - 1) + 1]
        BY <1>1, <4>2 DEF BackupInv, BackupLinked
      <4> QED BY <1>1, <4>1, <4>3, <4>4
    <3> QED BY <3>3, <3>4 DEF BackupInv, ReapplyFollows
  <2> QED BY <1>7, <2>1, <2>2 DEF Reapply, flags
<1>8. CASE RestoreRollback
  BY <1>2, <1>4, <1>8 DEF RestoreRollback, Ends, task
<1>9. CASE SyncEnds
  BY <1>4, <1>9 DEF SyncEnds, Ends
<1>10. CASE Boot
  BY <1>4, <1>10 DEF Boot
<1>11. ASSUME NEW b \in Blocks \ {Genesis}, Receive(b) PROVE BackupInv'
  BY <1>2, <1>11 DEF Receive, ReceiveNext, ReceiveForkOne, ReceiveForkFive, Ready, task
<1>12. CASE \/ ForkOneSecond \/ ForkFiveProcess \/ StartSync \/ NoPeers \/ RollbackDone
            \/ LoadBlock \/ LoadDone \/ SyncRoundEnds \/ NeedRestore \/ ListDelegates
            \/ \E p \in Peers : ChoosePeer(p) \/ Request(p)
  BY <1>2, <1>12 DEF ForkOneSecond, ForkFiveProcess, StartSync, NoPeers, RollbackDone,
    LoadBlock, LoadDone, SyncRoundEnds, NeedRestore, ListDelegates, ChoosePeer, Request,
    Retry, Ready, task
<1>13. CASE SyncTimer \/ NothingToSync \/ Cleanup \/ UNCHANGED vars
  BY <1>3, <1>13 DEF SyncTimer, NothingToSync, Cleanup, vars, ledger, flags, task
<1> QED
  BY <1>5, <1>6, <1>7, <1>8, <1>9, <1>10, <1>11, <1>12, <1>13 DEF Next, Continue

-----------------------------------------------------------------------------
ListsInv == TablesInv /\ BackupInv

LEMMA InitLists == Init => ListsInv
<1> SUFFICES ASSUME Init PROVE ListsInv
  OBVIOUS
<1>1. LedgerInv /\ TaskOK
  BY InitIInv, TypeParts
<1>2. chain = <<Genesis>> /\ lastBlock = Genesis /\ ahead = FALSE
  BY DEF Init
<1>3. HeightsCount
  BY <1>2, ChainAssumption DEF HeightsCount
<1>4. listsCache = <<>> /\ listRows = <<>> /\ Len(chain) = 1
  BY <1>2 DEF Init
<1>5. ListsFollowChain
  BY <1>4 DEF ListsFollowChain, OnThisChain
<1>6. chainBackup = <<>>
  BY DEF Init
<1>7. BackupLinked /\ ReapplyFollows
  BY <1>6 DEF BackupLinked, ReapplyFollows
<1> QED BY <1>1, <1>2, <1>3, <1>5, <1>7 DEF ListsInv, TablesInv, BackupInv, AheadUnsaved, TaskOK

LEMMA NextListsInv == ListsInv /\ [Next]_vars => ListsInv'
<1> SUFFICES ASSUME ListsInv, [Next]_vars PROVE ListsInv'
  OBVIOUS
<1>1. TablesInv /\ BackupInv /\ LedgerInv /\ TaskOK
  BY DEF ListsInv, TablesInv, BackupInv
<1>2. IInv
  BY <1>1, TypeParts
<1>3. LedgerInv' /\ TaskOK'
  BY <1>2, NextStep, LedgerStepKeeps, TypeParts
<1>4. HeightsCount' /\ AheadUnsaved' /\ ListsFollowChain'
  BY <1>1, NextLists, ListsStepKeeps
<1>5. BackupInv'
  BY <1>1, <1>3, BackupKept
<1> QED BY <1>3, <1>4, <1>5 DEF ListsInv, TablesInv, TaskOK

(* A list of delegates, in memory or in the table, was computed on the block *)
(* of the present chain that ends the round before, and every round that    *)
(* has begun has its row (onBlockChanged and generateDelegateList in        *)
(* delegates.ts), whatever is rolled back, restored, failed or restarted.   *)
THEOREM ListsFollow == Spec => []ListsFollowChain
<1>1. ListsInv => ListsFollowChain
  BY DEF ListsInv, TablesInv
<1>2. Spec => []ListsInv
  BY InitLists, NextListsInv, PTL DEF Spec
<1> QED BY <1>1, <1>2, PTL

(* The last block in memory and the lists of delegates belong to the chain  *)
(* in the table of blocks: no rollback, failure or restart in chain.ts and  *)
(* delegates.ts leaves one computed from blocks that are gone.              *)
THEOREM MemoryFollows == Spec => []MemoryFollowsChain
<1>1. LastBlockIsTip /\ ListsFollowChain => MemoryFollowsChain
  BY DEF MemoryFollowsChain
<1> QED BY <1>1, MemoryIsTip, ListsFollow, PTL

-----------------------------------------------------------------------------
(* The synchronisation.  The chain it began with is the first n blocks of   *)
(* the present one, then the backup; n, which the code does not keep, is    *)
(* what the proof has to find again after every step.                       *)
BeforeIsPath ==
  /\ \A i \in DOMAIN before : Height[before[i]] = i
  /\ \A i \in 2..Len(before) : Parent[before[i]] = before[i - 1]

Way(n) ==
  /\ n \in 1..Len(chain)
  /\ Len(before) = n + Len(chainBackup)
  /\ \A i \in 1..n : before[i] = chain[i]
  /\ \A i \in 1..Len(chainBackup) : chainBackup[i] = before[(Len(before) + 1) - i]

WayBack ==
  IF chainBackup = <<>> THEN Len(before) <= Len(chain)
  ELSE BeforeIsPath /\ \E n \in Nat : Way(n)

Synchronising == pc \in SyncSteps /\ ~ahead /\ (pc = "reapply" => ~isCleaning)

BackupInUse ==
  /\ pc \notin SyncSteps => chainBackup = <<>>
  /\ pc = "restore" => chainBackup # <<>>

SyncInv == BackupInUse /\ (Synchronising => WayBack)

LEMMA SyncTypes ==
  ASSUME ListsInv
  PROVE  /\ chain \in Seq(Blocks) /\ Len(chain) \in Nat /\ DOMAIN chain = 1..Len(chain)
         /\ before \in Seq(Blocks) /\ Len(before) \in Nat /\ DOMAIN before = 1..Len(before)
         /\ chainBackup \in Seq(Blocks \ {Genesis}) /\ Len(chainBackup) \in Nat
         /\ DOMAIN chainBackup = 1..Len(chainBackup)
         /\ chainBackup # <<>> => Len(chainBackup) > 0
BY DEF ListsInv, TablesInv, LedgerInv, BackupInv, TaskOK

(* The way back stays when blocks are only added.                           *)
Extended == chain' = chain \/ \E b \in Blocks : Stored(b)

LEMMA ExtendedKeeps ==
  ASSUME ListsInv, Extended, WayBack, UNCHANGED <<chainBackup, before>>
  PROVE  WayBack'
<1>1. Len(chain) <= Len(chain') /\ \A i \in 1..Len(chain) : chain'[i] = chain[i]
  <2>1. CASE chain' = chain
    BY <2>1, SyncTypes
  <2>2. ASSUME NEW b \in Blocks, Stored(b)
        PROVE  Len(chain) <= Len(chain') /\ \A i \in 1..Len(chain) : chain'[i] = chain[i]
    BY <2>2, SyncTypes DEF Stored
  <2> QED BY <2>1, <2>2 DEF Extended
<1>2. Len(chain) \in Nat /\ Len(before) \in Nat /\ Len(chain') \in Nat
  <2>1. CASE chain' = chain
    BY <2>1, SyncTypes
  <2>2. ASSUME NEW b \in Blocks, Stored(b) PROVE Len(chain') \in Nat
    BY <2>2, SyncTypes DEF Stored
  <2> QED BY <2>1, <2>2, SyncTypes DEF Extended
<1>3. CASE chainBackup = <<>>
  BY <1>1, <1>2, <1>3 DEF WayBack
<1>4. CASE chainBackup # <<>>
  <2>1. PICK n \in Nat : Way(n)
    BY <1>4 DEF WayBack
  <2>2. Way(n)'
    BY <1>1, <1>2, <2>1 DEF Way
  <2> QED BY <1>4, <2>2 DEF WayBack, BeforeIsPath
<1> QED BY <1>3, <1>4

(* The block that is rolled back is the one the backup lacks, or one that   *)
(* was loaded meanwhile.                                                    *)
BackedWay(n) ==
  /\ n \in 1..(Len(chain) - 1)
  /\ Len(before') = n + Len(chainBackup')
  /\ \A i \in 1..n : before'[i] = chain[i]
  /\ \A i \in 1..Len(chainBackup') : chainBackup'[i] = before'[(Len(before') + 1) - i]

LEMMA RollbackWay ==
  ASSUME ListsInv, ~ahead, WayBack, lastBlock # Genesis,
         chainBackup' = BackedUp,
         before' = IF chainBackup = <<>> THEN chain ELSE before
  PROVE  chainBackup' # <<>> /\ BeforeIsPath' /\ \E n \in Nat : BackedWay(n)
<1> DEFINE m == Len(chain)
           k == Len(chainBackup)
           tip == lastBlock
<1>1. /\ m \in Nat /\ k \in Nat /\ DOMAIN chain = 1..m /\ tip = chain[m] /\ m > 1
      /\ chainBackup \in Seq(Blocks \ {Genesis})
      /\ tip \in Blocks \ {Genesis}
  <2>1. m > 0 /\ tip = chain[m]
    BY TipHeight DEF ListsInv
  <2>2. m # 1
    BY <2>1 DEF ListsInv, TablesInv, LedgerInv, StartsAtGenesis
  <2>3. tip \in Blocks \ {Genesis}
    BY DEF ListsInv, TablesInv, LedgerInv
  <2>4. m > 1
    <3>1. m \in Nat
      BY SyncTypes
    <3> HIDE DEF m
    <3> QED BY <2>1, <2>2, <3>1
  <2> QED BY <2>1, <2>3, <2>4, SyncTypes
<1>2. CASE chainBackup = <<>>
  <2>1. chainBackup' = <<tip>> /\ before' = chain
    BY <1>2 DEF BackedUp
  <2>2. Len(chainBackup') = 1 /\ chainBackup'[1] = tip /\ chainBackup' # <<>>
    BY <2>1
  <2>3. BeforeIsPath'
    BY <1>1, <2>1 DEF BeforeIsPath, ListsInv, TablesInv, LedgerInv, HeightsCount, Linked
  <2>4. BackedWay(m - 1)
    <3>1. \A i \in 1..1 : chainBackup'[i] = chain[(m + 1) - i]
      BY <1>1, <2>2
    <3> QED BY <1>1, <2>1, <2>2, <3>1 DEF BackedWay
  <2> QED BY <1>1, <2>2, <2>3, <2>4
<1>3. CASE chainBackup # <<>>
  <2>1. BeforeIsPath /\ before' = before
    BY <1>3 DEF WayBack
  <2>2. PICK n \in Nat : Way(n)
    BY <1>3 DEF WayBack
  <2>3. /\ n \in 1..m /\ Len(before) = n + k /\ k > 0
        /\ \A i \in 1..n : before[i] = chain[i]
        /\ \A i \in 1..k : chainBackup[i] = before[(Len(before) + 1) - i]
    BY <1>3, <2>2, SyncTypes DEF Way
  <2>4. chainBackup[k] = before[n + 1] /\ Last(chainBackup) = chainBackup[k]
    <3>1. k \in 1..k /\ (Len(before) + 1) - k = n + 1
      BY <1>1, <2>3
    <3> QED BY <2>3, <3>1 DEF Last
  <2>5. Parent[before[n + 1]] = before[n]
    <3>1. n + 1 \in 2..Len(before) /\ (n + 1) - 1 = n
      BY <1>1, <2>3
    <3> QED BY <2>1, <3>1 DEF BeforeIsPath
  <2>6. Parent[Last(chainBackup)] = chain[n]
    BY <1>1, <2>3, <2>4, <2>5
  <2>7. CASE Parent[Last(chainBackup)] = tip
    <3>1. chainBackup' = Append(chainBackup, tip)
      BY <1>3, <2>7 DEF BackedUp
    <3>2. /\ Len(chainBackup') = k + 1 /\ chainBackup'[k + 1] = tip /\ chainBackup' # <<>>
          /\ \A i \in 1..k : chainBackup'[i] = chainBackup[i]
      BY <1>1, <3>1
    <3>3. n = m
      <4>1. chain[n] = chain[m] /\ n \in DOMAIN chain /\ m \in DOMAIN chain
        BY <1>1, <2>3, <2>6, <2>7
      <4>2. Height[chain[n]] = n /\ Height[chain[m]] = m
        BY <4>1 DEF ListsInv, TablesInv, HeightsCount
      <4> QED BY <4>1, <4>2
    <3>4. BackedWay(m - 1)
      <4>1. ASSUME NEW i \in 1..(k + 1)
            PROVE  chainBackup'[i] = before[(Len(before) + 1) - i]
        <5>1. CASE i = k + 1
          <6>1. (Len(before) + 1) - i = m
            BY <1>1, <2>3, <3>3, <5>1
          <6> QED BY <1>1, <2>3, <3>2, <3>3, <5>1, <6>1
        <5>2. CASE i # k + 1
          BY <1>1, <2>3, <3>2, <5>2
        <5> QED BY <5>1, <5>2
      <4>2. m - 1 \in 1..(m - 1) /\ Len(before) = (m - 1) + (k + 1)
        <5>1. Len(before) = m + k
          BY <2>3, <3>3
        <5> HIDE DEF m, k
        <5> QED BY <1>1, <5>1
      <4>3. \A i \in 1..(m - 1) : before[i] = chain[i]
        <5>1. \A i \in 1..m : before[i] = chain[i]
          BY <2>3, <3>3
        <5> HIDE DEF m, k
        <5> QED BY <1>1, <5>1
      <4> QED BY <2>1, <3>2, <4>1, <4>2, <4>3 DEF BackedWay
    <3> QED BY <1>1, <2>1, <3>2, <3>4 DEF BeforeIsPath
  <2>8. CASE Parent[Last(chainBackup)] # tip
    <3>1. chainBackup' = chainBackup
      BY <1>3, <2>8 DEF BackedUp
    <3>2. n # m
      BY <1>1, <2>6, <2>8
    <3>3. n \in 1..(m - 1)
      <4>1. n \in 1..m /\ m \in Nat
        BY <1>1, <2>3
      <4> HIDE DEF m, k
      <4> QED BY <3>2, <4>1
    <3>4. BackedWay(n)
      BY <2>1, <2>3, <3>1, <3>3 DEF BackedWay
    <3> QED BY <1>3, <2>1, <3>1, <3>4 DEF BeforeIsPath
  <2> QED BY <2>7, <2>8
<1> QED BY <1>2, <1>3

(* A deletion leaves all but the last block, a failed one all of them.      *)
LEMMA DeletionLeaves ==
  ASSUME ListsInv, ~ahead, lastBlock # Genesis, NEW ls, Deleted(ls) \/ DeleteFails(ls)
  PROVE  /\ Len(chain') \in Nat /\ Len(chain) - 1 <= Len(chain') /\ ~ahead'
         /\ \A i \in 1..(Len(chain) - 1) : chain'[i] = chain[i]
<1>1. CASE Deleted(ls)
  <2>1. Deletable /\ Popped
    BY <1>1 DEF Deleted, Deletable, Popped
  <2> QED BY <2>1, PoppedRemoves, SyncTypes DEF ListsInv
<1>2. CASE DeleteFails(ls)
  BY <1>2, SyncTypes DEF DeleteFails, ledger
<1> QED BY <1>1, <1>2

LEMMA RollbackSync ==
  ASSUME ListsInv, SyncInv, Rollback
  PROVE  SyncInv'
<1>1. /\ pc = "rollback" /\ chainBackup' = BackedUp
      /\ before' = IF chainBackup = <<>> THEN chain ELSE before
      /\ pc' \in {"rollback", "peer", "check"}
      /\ Deleted(listsCache) \/ DeleteFails(listsCache)
  BY DEF Rollback, Retry
<1>2. lastBlock # Genesis
  BY ChainAssumption DEF Rollback, ListsInv, BackupInv, TaskOK, SyncType
<1>3. BackupInUse'
  BY <1>1 DEF BackupInUse, SyncSteps
<1>4. ASSUME ~ahead' PROVE WayBack'
  <2>1. ~ahead
    BY <1>1, <1>4 DEF Deleted, DeleteFails, ledger
  <2>2. WayBack
    BY <1>1, <2>1 DEF SyncInv, Synchronising, SyncSteps
  <2>3. chainBackup' # <<>> /\ BeforeIsPath' /\ \E n \in Nat : BackedWay(n)
    BY <1>1, <1>2, <2>1, <2>2, RollbackWay
  <2>4. PICK n \in Nat : BackedWay(n)
    BY <2>3
  <2>5. /\ Len(chain') \in Nat /\ Len(chain) - 1 <= Len(chain')
        /\ \A i \in 1..(Len(chain) - 1) : chain'[i] = chain[i]
    BY <1>1, <1>2, <2>1, DeletionLeaves
  <2>6. Len(chain) \in Nat
    BY SyncTypes
  <2>7. Way(n)'
    BY <2>4, <2>5, <2>6 DEF BackedWay, Way
  <2> QED BY <2>3, <2>7 DEF WayBack
<1> QED BY <1>3, <1>4 DEF SyncInv, Synchronising

(* Whatever is processed, the table keeps its blocks unless the memory runs *)
(* ahead of it.                                                             *)
LEMMA ProcessedExtends ==
  ASSUME ListsInv, NEW b \in Blocks, NEW ls,
         \/ Applied(b, ls) \/ ApplyFails(b, ls)
         \/ Processed(b) \/ Refused(b)
  PROVE  ahead' \/ (~ahead /\ Extended)
<1>1. ASSUME UNCHANGED ledger PROVE ahead' \/ (~ahead /\ Extended)
  BY <1>1 DEF ledger, Extended, ListsInv, TablesInv, LedgerInv
<1>2. ASSUME Stored(b) PROVE ahead' \/ (~ahead /\ Extended)
  BY <1>2 DEF Stored, Extended, ListsInv, TablesInv, LedgerInv
<1>3. ASSUME CommitFails(b) PROVE ahead' \/ (~ahead /\ Extended)
  BY <1>3 DEF CommitFails
<1> QED BY <1>1, <1>2, <1>3 DEF Applied, ApplyFails, Processed, Refused

LEMMA LoadSync ==
  ASSUME ListsInv, SyncInv, LoadBlock
  PROVE  SyncInv'
<1>1. /\ pc = "load" /\ pc' \in {"load", "peer", "check"}
      /\ UNCHANGED <<chainBackup, before>>
  BY DEF LoadBlock, Retry
<1>2. Head(sync.blocks) \in Blocks
  BY DEF LoadBlock, ListsInv, BackupInv, TaskOK, SyncType
<1>3. ahead' \/ (~ahead /\ Extended)
  BY <1>2, ProcessedExtends DEF LoadBlock
<1>4. BackupInUse'
  BY <1>1 DEF BackupInUse, SyncSteps
<1>5. ASSUME ~ahead' PROVE WayBack'
  BY <1>1, <1>3, <1>5, ExtendedKeeps DEF SyncInv, Synchronising, SyncSteps
<1> QED BY <1>4, <1>5 DEF SyncInv, Synchronising

(* Before the backup is attached, its blocks are not in the chain at the    *)
(* place where the way back begins: a block that is deleted is above it.    *)
LEMMA RestoreRollbackSync ==
  ASSUME ListsInv, SyncInv, RestoreRollback
  PROVE  SyncInv'
<1>1. CASE Ends
  BY <1>1 DEF Ends, SyncInv, BackupInUse, Synchronising, SyncSteps
<1>2. CASE Deleted(listsCache) /\ UNCHANGED task
  <2>1. pc = "restore" /\ Attached = {} /\ chainBackup # <<>>
    BY DEF RestoreRollback, SyncInv, BackupInUse
  <2>2. UNCHANGED <<pc, chainBackup, before, ahead>>
    BY <1>2 DEF task, Deleted
  <2>3. BackupInUse'
    BY <2>2 DEF SyncInv, BackupInUse
  <2>4. ASSUME ~ahead PROVE WayBack'
    <3> DEFINE m == Len(chain)
               k == Len(chainBackup)
    <3>1. WayBack
      BY <2>1, <2>4 DEF SyncInv, Synchronising, SyncSteps
    <3>2. PICK n \in Nat : Way(n)
      BY <2>1, <3>1 DEF WayBack
    <3>3. m \in Nat /\ k \in Nat /\ k > 0 /\ DOMAIN chainBackup = 1..k
      BY <2>1, SyncTypes
    <3>4. /\ n \in 1..m /\ Len(before) = n + k
          /\ chainBackup[k] = before[(Len(before) + 1) - k]
          /\ before[n] = chain[n]
      BY <3>2, <3>3 DEF Way
    <3>5. Parent[chainBackup[k]] = chain[n]
      <4>1. (Len(before) + 1) - k = n + 1
        <5> HIDE DEF m, k
        <5> QED BY <3>3, <3>4
      <4>2. n + 1 \in 2..Len(before) /\ (n + 1) - 1 = n
        <5> HIDE DEF m, k
        <5> QED BY <3>3, <3>4
      <4>3. Parent[before[n + 1]] = before[n]
        BY <2>1, <3>1, <4>2 DEF WayBack, BeforeIsPath
      <4> QED BY <3>4, <4>1, <4>3
    <3>6. n # m
      <4>1. lastBlock = chain[m]
        BY <2>4, TipHeight DEF ListsInv
      <4>2. ASSUME n = m PROVE k \in Attached
        <5>1. Parent[chainBackup[k]] = lastBlock
          BY <3>5, <4>1, <4>2
        <5> QED BY <3>3, <5>1 DEF Attached
      <4> QED BY <2>1, <4>2
    <3>7. /\ Len(chain') \in Nat /\ m - 1 <= Len(chain')
          /\ \A i \in 1..(m - 1) : chain'[i] = chain[i]
      <4>1. lastBlock # Genesis
        BY <1>2 DEF Deleted, Deletable
      <4> QED BY <1>2, <2>4, <4>1, DeletionLeaves
    <3>8. n \in 1..(m - 1)
      <4> HIDE DEF m, k
      <4> QED BY <3>3, <3>4, <3>6
    <3>9. Way(n)'
      BY <2>2, <3>2, <3>3, <3>7, <3>8 DEF Way
    <3> QED BY <2>1, <2>2, <3>1, <3>9 DEF WayBack, BeforeIsPath
  <2> QED BY <2>2, <2>3, <2>4 DEF SyncInv, Synchronising
<1> QED BY <1>1, <1>2 DEF RestoreRollback

(* Sets of naturals have a least member.                                    *)
LEMMA LeastNat ==
  ASSUME NEW T \in SUBSET Nat, T # {}
  PROVE  \E m \in T : \A y \in T : m <= y
<1> DEFINE R == OpToRel(<, Nat)
<1>1. IsWellFoundedOn(R, Nat)
  BY NatLessThanWellFounded
<1>2. PICK m \in T : \A y \in T : <<y, m>> \notin R
  <2> HIDE DEF R
  <2> QED BY <1>1, WFMin
<1>3. ASSUME NEW y \in T PROVE ~(y < m)
  <2>1. m \in Nat /\ y \in Nat
    OBVIOUS
  <2> QED BY <2>1, <1>2 DEF OpToRel
<1> QED BY <1>3

(* Two paths that meet at a height are the same below.                      *)
LEMMA PathsMeet ==
  ASSUME ListsInv, BeforeIsPath, NEW m, m \in 1..Len(chain), m \in 1..Len(before),
         before[m] = chain[m]
  PROVE  \A i \in 1..m : before[i] = chain[i]
<1> DEFINE Apart == {d \in 0..(m - 1) : before[m - d] # chain[m - d]}
<1> SUFFICES Apart = {}
  <2> SUFFICES ASSUME NEW i \in 1..m PROVE before[i] = chain[i]
    OBVIOUS
  <2>1. m \in Nat
    BY SyncTypes
  <2>2. m - i \in 0..(m - 1) /\ m - (m - i) = i
    BY <2>1
  <2> QED BY <2>2
<1> SUFFICES ASSUME Apart # {} PROVE FALSE
  OBVIOUS
<1>1. /\ m \in Nat /\ m > 0 /\ m - 1 \in Nat
      /\ \A i \in 1..m : i \in 1..Len(chain) /\ i \in 1..Len(before)
  BY SyncTypes
<1>2. PICK d \in Apart : \A e \in Apart : d <= e
  <2>1. Apart \subseteq Nat
    OBVIOUS
  <2> HIDE DEF Apart
  <2> QED BY <2>1, LeastNat
<1>3. d \in 1..(m - 1) /\ d - 1 \notin Apart
  <2>1. d \in 0..(m - 1) /\ before[m - d] # chain[m - d]
    OBVIOUS
  <2>2. d # 0
    <3>1. m - 0 = m
      BY <1>1
    <3> QED BY <2>1, <3>1
  <2>3. d \in 1..(m - 1)
    BY <1>1, <2>1, <2>2
  <2>4. ~(d <= d - 1)
    BY <2>3
  <2> HIDE DEF Apart
  <2>5. d - 1 \notin Apart
    BY <1>2, <2>4
  <2> QED BY <2>3, <2>5
<1> DEFINE i == (m - d) + 1
<1>4. i \in 2..m /\ i - 1 = m - d /\ m - (d - 1) = i
  BY <1>1, <1>3
<1>5. before[i] = chain[i]
  BY <1>1, <1>3, <1>4
<1>6. before[m - d] # chain[m - d]
  BY <1>2
<1> HIDE DEF i
<1>7. i \in 2..Len(before) /\ i \in 2..Len(chain)
  BY <1>1, <1>4
<1>8. Parent[before[i]] = before[i - 1]
  BY <1>7 DEF BeforeIsPath
<1>9. Parent[chain[i]] = chain[i - 1]
  BY <1>7 DEF ListsInv, TablesInv, LedgerInv, Linked
<1> QED BY <1>4, <1>5, <1>6, <1>8, <1>9

(* The backup is cut at the block that follows the last one: up to there,   *)
(* the chain has what is cut off.                                           *)
LEMMA RestoreAttachSync ==
  ASSUME ListsInv, SyncInv, RestoreAttach
  PROVE  SyncInv'
<1>1. PICK j \in Attached : chainBackup' = SubSeq(chainBackup, 1, j)
  BY DEF RestoreAttach
<1>2. /\ pc = "restore" /\ pc' = "reapply" /\ chainBackup # <<>>
      /\ UNCHANGED <<chain, lastBlock, ahead, before>>
  BY DEF RestoreAttach, SyncInv, BackupInUse, ledger
<1> DEFINE m == Len(chain)
           k == Len(chainBackup)
<1>3. m \in Nat /\ k \in Nat /\ DOMAIN chainBackup = 1..k /\ chainBackup \in Seq(Blocks \ {Genesis})
  BY SyncTypes
<1>4. j \in 1..k /\ Parent[chainBackup[j]] = lastBlock
  BY <1>1, <1>3 DEF Attached
<1>5. /\ Len(chainBackup') = j /\ chainBackup' # <<>>
      /\ \A i \in 1..j : chainBackup'[i] = chainBackup[i]
  BY <1>1, <1>3, <1>4
<1>6. BackupInUse'
  BY <1>2 DEF BackupInUse, SyncSteps
<1>7. ASSUME ~ahead PROVE WayBack'
  <2>1. WayBack
    BY <1>2, <1>7 DEF SyncInv, Synchronising, SyncSteps
  <2>2. PICK n \in Nat : Way(n)
    BY <1>2, <2>1 DEF WayBack
  <2>3. /\ n \in 1..m /\ Len(before) = n + k
        /\ \A i \in 1..k : chainBackup[i] = before[(Len(before) + 1) - i]
    BY <2>2 DEF Way
  <2> DEFINE l == Len(before) - j
  <2>4. /\ l \in Nat /\ l + 1 \in 2..Len(before) /\ (l + 1) - 1 = l
        /\ (Len(before) + 1) - j = l + 1 /\ l \in 1..Len(before)
    <3> HIDE DEF m, k
    <3> QED BY <1>3, <1>4, <2>3
  <2>5. chainBackup[j] = before[l + 1] /\ Parent[before[l + 1]] = before[l]
    <3>1. chainBackup[j] = before[l + 1]
      BY <1>4, <2>3, <2>4
    <3>2. Parent[before[l + 1]] = before[l]
      BY <1>2, <2>1, <2>4 DEF WayBack, BeforeIsPath
    <3> QED BY <3>1, <3>2
  <2>6. m > 0 /\ lastBlock = chain[m] /\ Height[lastBlock] = m
    BY <1>7, TipHeight DEF ListsInv
  <2>7. before[l] = chain[m]
    BY <1>4, <2>5, <2>6
  <2>8. m = l
    <3>1. Height[before[l]] = l
      BY <1>2, <2>1, <2>4, SyncTypes DEF WayBack, BeforeIsPath
    <3> QED BY <2>6, <2>7, <3>1
  <2>9. \A i \in 1..m : before[i] = chain[i]
    <3>1. BeforeIsPath
      BY <1>2, <2>1 DEF WayBack
    <3>2. m \in 1..Len(chain) /\ m \in 1..Len(before) /\ before[m] = chain[m]
      BY <1>3, <2>4, <2>6, <2>7, <2>8
    <3> QED BY <3>1, <3>2, PathsMeet
  <2>10. Way(m)'
    <3>1. m \in 1..m /\ Len(before) = m + j
      BY <1>3, <1>4, <2>4, <2>6, <2>8, SyncTypes
    <3>2. \A i \in 1..j : chainBackup'[i] = before[(Len(before) + 1) - i]
      <4>1. \A i \in 1..j : i \in 1..k
        BY <1>3, <1>4
      <4> QED BY <1>5, <2>3, <4>1
    <3> QED BY <1>2, <1>5, <2>9, <3>1, <3>2 DEF Way
  <2> QED BY <1>2, <1>3, <1>5, <2>1, <2>10 DEF WayBack, BeforeIsPath
<1> QED BY <1>2, <1>6, <1>7 DEF SyncInv, Synchronising

(* A block of the backup that is applied moves from it to the chain.        *)
LEMMA ReapplySync ==
  ASSUME ListsInv, SyncInv, Reapply
  PROVE  SyncInv'
<1>1. CASE Ends
  BY <1>1 DEF Ends, SyncInv, BackupInUse, Synchronising, SyncSteps
<1>2. CASE isCleaning /\ UNCHANGED <<flags, pc>>
  BY <1>2 DEF Reapply, SyncInv, BackupInUse, Synchronising, flags, SyncSteps
<1>3. CASE /\ ~isCleaning /\ Applied(Last(chainBackup), listsCache)
           /\ chainBackup' = Front(chainBackup) /\ UNCHANGED <<flags, pc, before>>
  <2> DEFINE b == Last(chainBackup)
             m == Len(chain)
             k == Len(chainBackup)
  <2>1. pc = "reapply" /\ pc' = "reapply" /\ chainBackup # <<>> /\ before' = before
    BY <1>3 DEF Reapply
  <2>2. /\ m \in Nat /\ k \in Nat /\ k > 0 /\ DOMAIN chain = 1..m
        /\ chainBackup \in Seq(Blocks \ {Genesis}) /\ b = chainBackup[k]
    BY <2>1, SyncTypes DEF Last
  <2>3. b \in Blocks /\ Stored(b)
    BY <1>3, <2>2 DEF Applied
  <2>4. BackupInUse'
    BY <2>1 DEF BackupInUse, SyncSteps
  <2>5. ASSUME ~ahead PROVE WayBack'
    <3>1. WayBack
      BY <1>3, <2>1, <2>5 DEF SyncInv, Synchronising, SyncSteps
    <3>2. PICK n \in Nat : Way(n)
      BY <2>1, <3>1 DEF WayBack
    <3>3. /\ n \in 1..m /\ Len(before) = n + k
          /\ \A i \in 1..n : before[i] = chain[i]
          /\ \A i \in 1..k : chainBackup[i] = before[(Len(before) + 1) - i]
      BY <3>2 DEF Way
    <3>4. b = before[n + 1]
      <4>1. (Len(before) + 1) - k = n + 1 /\ k \in 1..k
        <5> HIDE DEF m, k
        <5> QED BY <2>2, <3>3
      <4> QED BY <2>2, <3>3, <4>1
    <3>5. Parent[b] = chain[n]
      <4>1. n + 1 \in 2..Len(before) /\ (n + 1) - 1 = n
        <5> HIDE DEF m, k
        <5> QED BY <2>2, <3>3
      <4>2. Parent[before[n + 1]] = before[n]
        BY <2>1, <3>1, <4>1 DEF WayBack, BeforeIsPath
      <4> QED BY <3>3, <3>4, <4>2
    <3>6. Parent[b] = chain[m]
      <4>1. LedgerInv /\ Insertable(b)
        BY <2>3 DEF Stored, ListsInv, TablesInv
      <4>2. Parent[b] = Last(chain)
        BY <2>3, <4>1, InsertableFollows
      <4> QED BY <4>2 DEF Last
    <3>7. n = m
      <4>1. n \in DOMAIN chain /\ m \in DOMAIN chain
        BY <2>2, <3>3
      <4>2. Height[chain[n]] = n /\ Height[chain[m]] = m
        BY <4>1 DEF ListsInv, TablesInv, HeightsCount
      <4> QED BY <3>5, <3>6, <4>2
    <3>8. /\ Len(chain') = m + 1 /\ chain'[m + 1] = b
          /\ \A i \in 1..m : chain'[i] = chain[i]
      <4>1. chain \in Seq(Blocks) /\ chain' = Append(chain, b)
        BY <2>3, SyncTypes DEF Stored
      <4> QED BY <4>1
    <3>9. Len(chainBackup') = k - 1 /\ \A i \in 1..(k - 1) : chainBackup'[i] = chainBackup[i]
      BY <1>3, <2>2, FrontKeeps
    <3>10. Len(before) = (m + 1) + (k - 1)
      <4> HIDE DEF m, k
      <4> QED BY <2>2, <3>3, <3>7
    <3>11. CASE chainBackup' = <<>>
      <4>1. k - 1 = 0
        BY <3>9, <3>11
      <4>2. Len(before') <= Len(chain')
        <5>1. Len(before) = m + 1
          <6> HIDE DEF m, k
          <6> QED BY <2>2, <3>10, <4>1
        <5> QED BY <2>1, <2>2, <3>8, <5>1
      <4> QED BY <3>11, <4>2 DEF WayBack
    <3>12. CASE chainBackup' # <<>>
      <4>1. \A i \in 1..(m + 1) : before[i] = chain'[i]
        <5>1. \A i \in 1..(m + 1) : i \in 1..m \/ i = m + 1
          BY <2>2
        <5> QED BY <3>3, <3>4, <3>7, <3>8, <5>1
      <4>2. \A i \in 1..(k - 1) : chainBackup'[i] = before[(Len(before) + 1) - i]
        <5>1. \A i \in 1..(k - 1) : i \in 1..k
          BY <2>2
        <5> QED BY <3>3, <3>9, <5>1
      <4>3. m + 1 \in 1..(m + 1) /\ m + 1 \in Nat
        BY <2>2
      <4>4. PICK l \in Nat : l = m + 1
        BY <4>3
      <4>5. Way(l)'
        <5>1. m + 1 \in 1..Len(chain') /\ Len(before') = (m + 1) + Len(chainBackup')
          BY <2>1, <3>8, <3>9, <3>10, <4>3
        <5>2. \A i \in 1..(m + 1) : before'[i] = chain'[i]
          BY <2>1, <4>1
        <5>3. \A i \in 1..Len(chainBackup') :
                chainBackup'[i] = before'[(Len(before') + 1) - i]
          BY <2>1, <3>9, <4>2
        <5>4. /\ l \in 1..Len(chain') /\ Len(before') = l + Len(chainBackup')
              /\ \A i \in 1..l : before'[i] = chain'[i]
          BY <4>4, <5>1, <5>2
        <5> QED BY <5>3, <5>4 DEF Way
      <4> QED BY <2>1, <3>1, <3>12, <4>5 DEF WayBack, BeforeIsPath
    <3> QED BY <3>11, <3>12
  <2> QED BY <2>3, <2>4, <2>5 DEF SyncInv, Synchronising, Stored
<1>4. CASE ~isCleaning /\ ApplyFails(Last(chainBackup), listsCache) /\ Ends
  BY <1>1, <1>4
<1> QED BY <1>1, <1>2, <1>3 DEF Reapply

LEMMA InitSync == Init => SyncInv
BY DEF Init, SyncInv, BackupInUse, Synchronising, SyncSteps

LEMMA NextSync == ListsInv /\ SyncInv /\ [Next]_vars => SyncInv'
<1> SUFFICES ASSUME ListsInv, SyncInv, [Next]_vars PROVE SyncInv'
  OBVIOUS
<1>1. ASSUME UNCHANGED chainBackup, pc \notin SyncSteps, pc' \notin SyncSteps PROVE SyncInv'
  BY <1>1 DEF SyncInv, BackupInUse, Synchronising, SyncSteps
<1>2. ASSUME UNCHANGED <<chain, chainBackup, before>>, ahead' = ahead,
             pc \in SyncSteps \ {"reapply"}, pc' \in SyncSteps \ {"reapply", "restore"}
      PROVE  SyncInv'
  BY <1>2 DEF SyncInv, BackupInUse, Synchronising, WayBack, BeforeIsPath, Way
<1>3. ASSUME UNCHANGED <<chain, chainBackup, before, pc>>, ahead' = ahead,
             isCleaning => isCleaning'
      PROVE  SyncInv'
  BY <1>3 DEF SyncInv, BackupInUse, Synchronising, WayBack, BeforeIsPath, Way
<1>4. ASSUME NEW b \in Blocks \ {Genesis}, Receive(b) PROVE SyncInv'
  BY <1>1, <1>4 DEF Receive, ReceiveNext, ReceiveForkOne, ReceiveForkFive, Ready, task, SyncSteps
<1>5. CASE ForkOneSecond \/ ForkFiveProcess
  BY <1>1, <1>5 DEF ForkOneSecond, ForkFiveProcess, SyncSteps
<1>6. CASE ListDelegates \/ SyncTimer \/ NothingToSync \/ Cleanup \/ UNCHANGED vars
  <2>1. UNCHANGED <<chain, chainBackup, before, pc>> /\ ahead' = ahead
    BY <1>6 DEF ListDelegates, SyncTimer, NothingToSync, Cleanup, vars, ledger, task
  <2>2. isCleaning => isCleaning'
    BY <1>6 DEF ListDelegates, SyncTimer, NothingToSync, Cleanup, vars, flags
  <2> QED BY <1>3, <2>1, <2>2
<1>7. CASE StartSync
  <2>1. /\ pc = "idle" /\ pc' = "peer" /\ before' = chain
        /\ chain' = chain /\ chainBackup' = chainBackup
    BY <1>7 DEF StartSync, ledger
  <2>2. chainBackup' = <<>>
    BY <2>1 DEF SyncInv, BackupInUse, SyncSteps
  <2>3. WayBack'
    BY <2>1, <2>2, SyncTypes DEF WayBack
  <2> QED BY <2>1, <2>2, <2>3 DEF SyncInv, BackupInUse
<1>8. CASE \/ NoPeers \/ RollbackDone \/ LoadDone \/ SyncRoundEnds
           \/ \E p \in Peers : ChoosePeer(p) \/ Request(p)
  <2>1. UNCHANGED <<chain, chainBackup, before>> /\ ahead' = ahead
    BY <1>8 DEF NoPeers, RollbackDone, LoadDone, SyncRoundEnds, ChoosePeer, Request, ledger
  <2>2. pc \in SyncSteps \ {"reapply"} /\ pc' \in SyncSteps \ {"reapply", "restore"}
    BY <1>8 DEF NoPeers, RollbackDone, LoadDone, SyncRoundEnds, ChoosePeer, Request, Retry,
      SyncSteps
  <2> QED BY <1>2, <2>1, <2>2
<1>9. CASE NeedRestore
  <2>1. /\ UNCHANGED <<chain, chainBackup, before>> /\ ahead' = ahead
        /\ pc = "check" /\ pc' = "restore" /\ chainBackup # <<>>
    BY <1>9 DEF NeedRestore, Shorter, ledger
  <2> QED BY <2>1 DEF SyncInv, BackupInUse, Synchronising, WayBack, BeforeIsPath, Way, SyncSteps
<1>10. CASE SyncEnds
  BY <1>10 DEF SyncEnds, Ends, SyncInv, BackupInUse, Synchronising, SyncSteps
<1>11. CASE Boot
  BY <1>11 DEF Boot, SyncInv, BackupInUse, Synchronising, SyncSteps
<1>12. CASE Rollback \/ LoadBlock \/ RestoreRollback \/ RestoreAttach \/ Reapply
  BY <1>12, RollbackSync, LoadSync, RestoreRollbackSync, RestoreAttachSync, ReapplySync
<1> QED
  BY <1>4, <1>5, <1>6, <1>7, <1>8, <1>9, <1>10, <1>11, <1>12 DEF Next, Continue

LEMMA ConcatLength ==
  ASSUME NEW s \in Seq(Blocks), NEW u \in Seq(Blocks)
  PROVE  s \o u \in Seq(Blocks) /\ Len(s \o u) = Len(s) + Len(u)
OBVIOUS

LEMMA ConcatAt ==
  ASSUME NEW s \in Seq(Blocks), NEW u \in Seq(Blocks), NEW i \in 1..(Len(s) + Len(u))
  PROVE  (s \o u)[i] = IF i <= Len(s) THEN s[i] ELSE u[i - Len(s)]
OBVIOUS

LEMMA WayRecovers ==
  ASSUME ListsInv, SyncInv
  PROVE  Recoverable
<1> SUFFICES ASSUME chainBackup # <<>>, ~ahead, pc = "reapply" => ~isCleaning
             PROVE  \E n \in DOMAIN chain : SubSeq(chain, 1, n) \o Reverse(chainBackup) = before
  BY DEF Recoverable
<1>1. WayBack
  BY DEF SyncInv, BackupInUse, Synchronising
<1>2. PICK n \in Nat : Way(n)
  BY <1>1 DEF WayBack
<1> DEFINE k == Len(chainBackup)
           head == SubSeq(chain, 1, n)
           tail == Reverse(chainBackup)
           all == head \o tail
<1>3. /\ chain \in Seq(Blocks) /\ n \in 1..Len(chain) /\ n \in DOMAIN chain
      /\ chainBackup \in Seq(Blocks) /\ k \in Nat /\ before \in Seq(Blocks)
      /\ Len(before) = n + k
      /\ \A i \in 1..n : before[i] = chain[i]
      /\ \A i \in 1..k : chainBackup[i] = before[(Len(before) + 1) - i]
  <2>1. chainBackup \in Seq(Blocks)
    BY SyncTypes
  <2> QED BY <1>2, <2>1, SyncTypes DEF Way
<1>4. head \in Seq(Blocks) /\ Len(head) = n /\ \A i \in 1..n : head[i] = chain[i]
  BY <1>3
<1>5. /\ tail \in Seq(Blocks) /\ Len(tail) = k
      /\ \A i \in 1..k : tail[i] = chainBackup[(k - i) + 1]
  BY <1>3 DEF Reverse
<1>6. /\ all \in Seq(Blocks) /\ Len(all) = n + k
      /\ \A i \in 1..n : all[i] = head[i]
      /\ \A i \in (n + 1)..(n + k) : all[i] = tail[i - n]
  <2> HIDE DEF head, tail, k
  <2>1. Len(head) \in Nat /\ Len(tail) \in Nat /\ n \in Nat
    BY <1>3, <1>4, <1>5
  <2>2. head \o tail \in Seq(Blocks) /\ Len(head \o tail) = Len(head) + Len(tail)
    <3>1. head \in Seq(Blocks) /\ tail \in Seq(Blocks)
      BY <1>4, <1>5
    <3> QED BY <3>1, ConcatLength
  <2>3. \A i \in 1..(Len(head) + Len(tail)) :
          (head \o tail)[i] = IF i <= Len(head) THEN head[i] ELSE tail[i - Len(head)]
    BY <1>4, <1>5, ConcatAt
  <2> QED BY <1>3, <1>4, <1>5, <2>1, <2>2, <2>3
<1>7. ASSUME NEW i \in 1..(n + k) PROVE all[i] = before[i]
  <2>1. CASE i \in 1..n
    BY <1>3, <1>4, <1>6, <2>1
  <2>2. CASE i \notin 1..n
    <3> DEFINE j == i - n
    <3>1. i \in (n + 1)..(n + k) /\ j \in 1..k /\ (k - j) + 1 \in 1..k
          /\ (Len(before) + 1) - ((k - j) + 1) = i
      BY <1>3, <2>2
    <3>2. all[i] = chainBackup[(k - j) + 1]
      BY <1>5, <1>6, <3>1
    <3>3. chainBackup[(k - j) + 1] = before[i]
      BY <1>3, <3>1
    <3> QED BY <3>2, <3>3
  <2> QED BY <2>1, <2>2
<1>8. all = before
  <2> HIDE DEF all, k
  <2> QED BY <1>3, <1>6, <1>7
<1> QED BY <1>3, <1>8

LEMMA WayNotShorter ==
  ASSUME ListsInv, SyncInv
  PROVE  NeverShorter
<1> SUFFICES ASSUME Complete, ~ahead, ~isCleaning PROVE Len(before) <= Len(chain)
  BY SyncTypes DEF NeverShorter
<1>1. WayBack
  BY DEF Complete, SyncInv, Synchronising, SyncSteps
<1>2. CASE chainBackup = <<>>
  BY <1>1, <1>2 DEF WayBack
<1>3. CASE chainBackup # <<>>
  <2>1. Height[lastBlock] >= Height[Head(chainBackup)]
    <3>1. ~(Height[lastBlock] < Height[Head(chainBackup)])
      BY <1>3 DEF Complete, Shorter
    <3>2. Head(chainBackup) \in Blocks /\ lastBlock \in Blocks
      BY <1>3, SyncTypes DEF ListsInv, TablesInv, LedgerInv
    <3> QED BY <3>1, <3>2, ChainAssumption
  <2>2. PICK n \in Nat : Way(n)
    BY <1>1, <1>3 DEF WayBack
  <2>3. Len(chainBackup) > 0 /\ Len(chainBackup) \in Nat
    BY <1>3, SyncTypes
  <2>4. Head(chainBackup) = before[Len(before)]
    <3>1. 1 \in 1..Len(chainBackup) /\ (Len(before) + 1) - 1 = Len(before)
      BY <2>3, SyncTypes
    <3>2. chainBackup[1] = before[Len(before)]
      BY <2>2, <3>1 DEF Way
    <3> QED BY <1>3, <3>2, SyncTypes
  <2>5. Len(before) \in DOMAIN before
    <3>1. Len(before) = n + Len(chainBackup)
      BY <2>2 DEF Way
    <3> QED BY <2>3, <3>1, SyncTypes
  <2>6. Height[before[Len(before)]] = Len(before)
    BY <1>1, <1>3, <2>5 DEF WayBack, BeforeIsPath
  <2>7. Height[lastBlock] = Len(chain)
    BY TipHeight DEF ListsInv
  <2> QED BY <2>1, <2>4, <2>6, <2>7
<1> QED BY <1>2, <1>3

(* Nothing of the chain is lost to a synchronisation that fails             *)
(* (syncWithNetwork in loader.ts): at every moment the chain before the     *)
(* first rollback is the beginning of the present one followed by the       *)
(* backup, and a synchronisation that ends leaves no shorter chain, unless  *)
(* a commit has failed or a shutdown makes it skip the backup.              *)
THEOREM SyncLosesNothing == Spec => []SyncKeepsChain
<1>1. Spec => []ListsInv
  BY InitLists, NextListsInv, PTL DEF Spec
<1>2. Spec => []SyncInv
  BY <1>1, InitSync, NextSync, PTL DEF Spec
<1>3. ListsInv /\ SyncInv => SyncKeepsChain
  BY WayRecovers, WayNotShorter DEF SyncKeepsChain
<1> QED BY <1>1, <1>2, <1>3, PTL
=============================================================================
