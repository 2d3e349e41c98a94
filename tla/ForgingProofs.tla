---------------------------- MODULE ForgingProofs ----------------------------
(***************************************************************************)
(* For any keys, lists, slots and bounds: the node never makes a block that *)
(* it would refuse itself, and sends one block for a slot.                  *)
(***************************************************************************)
EXTENDS Forging, FiniteSetTheorems, WellFoundedInduction, TLAPS

-----------------------------------------------------------------------------
(* The inductive invariant.                                                 *)
Block == [slot : Nat, key : Keys \cup {None}]
Making == pc \in {"generating", "processing"}

(* The blocks are in the order of their slots, none of which is after the   *)
(* next one: there are at most as many as slots.                            *)
ChainInv ==
  /\ chain \in Seq(Block) /\ chain # <<>>
  /\ \A i \in 1..Len(chain) : i <= chain[i].slot + 1 /\ chain[i].slot <= now + 1
  /\ \A i, j \in 1..Len(chain) : i < j => chain[i].slot < chain[j].slot

(* A run of the job holds the default sequence: no synchronisation runs in  *)
(* it, and the keys are read one after the other.                           *)
RunInv ==
  /\ syncing = "running" => pc = "idle"
  /\ pc = "loading" => secret \in 1..Len(Secrets)
  /\ pc # "loading" => secret = 1
  /\ slot \in 0..now

(* What forge.ts looked at before its awaits is true after them.            *)
BlockInv ==
  Making =>
    /\ block \in [slot : Nat, key : Keys]
    /\ slot <= block.slot /\ block.slot <= now
    /\ slot # Last(chain).slot
    /\ block.key = Owner(Len(chain) + 1, block.slot)

(* A block that was sent is in the chain until it is rolled back.           *)
SentInv ==
  \A x \in sent : x.block.slot \in popped \/ \E i \in 1..Len(chain) : chain[i].slot = x.block.slot

IInv == TypeOK /\ ChainInv /\ RunInv /\ BlockInv /\ SentInv /\ OneBlockPerSlot

-----------------------------------------------------------------------------
(* Sets of naturals have a least member.                                    *)
LEMMA LeastNat ==
  ASSUME NEW T \in SUBSET Nat, T # {}
  PROVE  \E m \in T : \A y \in T : m <= y
<1> DEFINE R == OpToRel(<, Nat)
<1>1. IsWellFoundedOn(R, Nat)
  BY NatLessThanWellFounded
<1>2. PICK m \in T : \A y \in T : <<y, m>> \notin R
  <2> HIDE DEF R
  <2> QED BY <1>1, WFMin
<1>3. ASSUME NEW y \in T PROVE ~(y < m)
  <2>1. m \in Nat /\ y \in Nat
    OBVIOUS
  <2> QED BY <2>1, <1>2 DEF OpToRel
<1> QED BY <1>3

(* The least of the slots of a run is one of them.                          *)
LEMMA MinOfNats ==
  ASSUME NEW S \in SUBSET Nat, S # {}
  PROVE  Min(S) \in S
BY LeastNat DEF Min

LEMMA BlockAt ==
  ASSUME NEW c \in Seq(Block), NEW i \in 1..Len(c)
  PROVE  c[i].slot \in Nat /\ c[i].key \in Keys \cup {None}
<1>1. c[i] \in Block
  OBVIOUS
<1> QED BY <1>1 DEF Block

(* There is room for one more height in the lists.                          *)
LEMMA OwnerTyped ==
  ASSUME TypeOK, ChainInv, NEW s \in Nat
  PROVE  Owner(Len(chain) + 1, s) \in Keys \cup {None}
<1>1. Len(chain) \in 1..Len(chain)
  BY DEF ChainInv
<1>2. Len(chain) <= now + 2
  BY <1>1, BlockAt, SMTT(30) DEF ChainInv, TypeOK
<1>3. List(Len(chain) + 1) \in Seq(Keys)
  BY <1>1, <1>2, ForgingAssumption DEF TypeOK
<1> QED BY <1>3 DEF Owner

(* A block after the last one extends the chain.                            *)
LEMMA Extended ==
  ASSUME TypeOK, ChainInv, NEW b \in Block, b.slot > Last(chain).slot, b.slot <= now + 1,
         chain' = Append(chain, b), now' = now
  PROVE  /\ ChainInv'
         /\ \A i \in DOMAIN chain' : chain'[i].key \in Keys \cup {None}
         /\ \A i \in 1..(Len(chain') - 1) : chain'[i].slot < chain'[i + 1].slot
         /\ \A i \in 1..Len(chain) : i \in 1..Len(chain') /\ chain'[i] = chain[i]
         /\ chain'[Len(chain')] = b /\ Len(chain') \in 1..Len(chain')
<1>1. Len(chain) \in Nat \ {0} /\ chain[Len(chain)] \in Block
  BY DEF ChainInv
<1>2. /\ chain' \in Seq(Block) /\ Len(chain') = Len(chain) + 1
      /\ chain'[Len(chain')] = b
      /\ \A i \in 1..Len(chain) : chain'[i] = chain[i]
  BY DEF ChainInv
<1>3. ASSUME NEW i \in 1..Len(chain')
      PROVE  i <= chain'[i].slot + 1 /\ chain'[i].slot <= now + 1
  <2>1. CASE i \in 1..Len(chain)
    BY <1>2, <2>1 DEF ChainInv
  <2>2. CASE i = Len(chain) + 1
    <3>1. Len(chain) \in 1..Len(chain) /\ b.slot \in Nat
      BY <1>1 DEF Block
    <3>2. Last(chain).slot \in Nat /\ Len(chain) <= Last(chain).slot + 1
      BY <3>1, BlockAt DEF ChainInv, Last
    <3>3. chain'[i] = b
      BY <1>2, <2>2
    <3> QED BY <1>1, <2>2, <3>1, <3>2, <3>3
  <2> QED BY <1>1, <1>2, <2>1, <2>2
<1>4. ASSUME NEW i \in 1..Len(chain'), NEW j \in 1..Len(chain'), i < j
      PROVE  chain'[i].slot < chain'[j].slot
  <2>1. CASE j \in 1..Len(chain)
    BY <1>2, <1>4, <2>1 DEF ChainInv
  <2>2. CASE j = Len(chain) + 1
    <3>1. chain[i].slot <= Last(chain).slot /\ chain'[i] = chain[i] /\ chain'[j] = b
      BY <1>1, <1>2, <1>4, <2>2, BlockAt DEF ChainInv, Last
    <3>2. chain[i].slot \in Nat /\ Last(chain).slot \in Nat /\ b.slot \in Nat
      <4>1. b.slot \in Nat
        BY DEF Block
      <4>2. i \in 1..Len(chain) /\ Len(chain) \in 1..Len(chain)
        BY <1>1, <1>2, <1>4, <2>2
      <4> QED BY <4>1, <4>2, BlockAt DEF ChainInv, Last
    <3> QED BY <3>1, <3>2
  <2> QED BY <1>2, <2>1, <2>2
<1>5. \A i \in DOMAIN chain' : chain'[i].key \in Keys \cup {None}
  BY <1>2, BlockAt, SMTT(30)
<1> QED BY <1>1, <1>2, <1>3, <1>4, <1>5 DEF ChainInv

-----------------------------------------------------------------------------
LEMMA InitIInv == Init => IInv
<1> SUFFICES ASSUME Init PROVE IInv
  OBVIOUS
<1>1. chain \in Seq(Block) /\ chain # <<>> /\ Len(chain) = 1
      /\ chain[1] = [slot |-> 0, key |-> None]
  BY DEF Init, Block
<1>2. ChainInv
  BY <1>1 DEF ChainInv, Init
<1>3. now \in 1..MaxSlot /\ secret \in 1..(Len(Secrets) + 1)
  BY ForgingAssumption DEF Init
<1>4. /\ \A i \in DOMAIN chain : chain[i].key \in Keys \cup {None}
      /\ \A i \in 1..(Len(chain) - 1) : chain[i].slot < chain[i + 1].slot
  BY <1>1, BlockAt
<1>5. TypeOK
  BY <1>3, <1>4 DEF TypeOK, Init
<1> QED BY <1>2, <1>5 DEF IInv, RunInv, BlockInv, Making, SentInv, OneBlockPerSlot, Init

(* A step that leaves the chain, the run and what was sent alone.           *)
LEMMA QuietStep ==
  ASSUME IInv, TypeOK', UNCHANGED <<chain, run, sent, popped>>,
         now' \in Nat, now <= now', syncing' = "running" => pc = "idle"
  PROVE  IInv'
<1> USE DEF IInv, run
<1>1. ChainInv'
  <2>1. now \in Nat /\ \A i \in 1..Len(chain) : chain[i].slot \in Nat
    BY BlockAt DEF ChainInv, TypeOK
  <2>2. chain' = chain /\ ChainInv
    OBVIOUS
  <2>3. \A i \in 1..Len(chain) : i <= chain[i].slot + 1 /\ chain[i].slot <= now' + 1
    BY <2>1, <2>2 DEF ChainInv
  <2> QED BY <2>2, <2>3 DEF ChainInv
<1>2. RunInv'
  BY DEF RunInv, TypeOK
<1>3. BlockInv'
  BY DEF BlockInv, Making, TypeOK
<1>4. SentInv' /\ OneBlockPerSlot'
  BY DEF SentInv, OneBlockPerSlot
<1> QED BY <1>1, <1>2, <1>3, <1>4

(* A run that ends, and a restart, leave nothing of the block being made.   *)
LEMMA EndStep ==
  ASSUME IInv, TypeOK', EndRun, UNCHANGED <<now, chain, sent, popped>>
  PROVE  IInv'
<1>1. ChainInv'
  <2>1. chain' = chain /\ now' = now /\ ChainInv
    BY DEF IInv
  <2> QED BY <2>1 DEF ChainInv
<1>2. RunInv' /\ BlockInv'
  BY DEF RunInv, BlockInv, Making, EndRun, IInv, TypeOK
<1>3. SentInv' /\ OneBlockPerSlot'
  BY DEF SentInv, OneBlockPerSlot, IInv
<1> QED BY <1>1, <1>2, <1>3 DEF IInv

(* The clock, the jobs queue, the private API and the flags of the          *)
(* synchronisation leave the run alone.                                     *)
LEMMA AsideStep ==
  ASSUME IInv,
         \/ Register \/ Fire \/ Cleanup \/ Clock \/ StartSync \/ RunSync \/ EndSync
         \/ \E k \in Keys : Enable(k) \/ Disable(k)
  PROVE  IInv'
<1>1. UNCHANGED <<chain, run, sent, popped>> /\ TypeOK'
  <2> USE DEF IInv, TypeOK, run, history
  <2>1. CASE Register \/ Fire \/ Cleanup
    BY <2>1 DEF Register, Fire, Cleanup
  <2>2. CASE Clock
    BY <2>2, ForgingAssumption DEF Clock
  <2>3. CASE StartSync \/ RunSync \/ EndSync
    BY <2>3 DEF StartSync, RunSync, EndSync
  <2>4. ASSUME NEW k \in Keys, Enable(k) \/ Disable(k)
        PROVE  UNCHANGED <<chain, run, sent, popped>> /\ TypeOK'
    <3>1. CASE Enable(k)
      BY <2>4, <3>1 DEF Enable
    <3>2. CASE Disable(k)
      BY <2>4, <3>2 DEF Disable
    <3> QED BY <2>4, <3>1, <3>2
  <2> QED BY <2>1, <2>2, <2>3, <2>4
<1>2. now' \in Nat /\ now <= now' /\ (syncing' = "running" => pc = "idle")
  BY ForgingAssumption DEF IInv, TypeOK, RunInv, Register, Fire, Cleanup, Clock, StartSync,
     RunSync, EndSync, Enable, Disable
<1> QED BY <1>1, <1>2, QuietStep

(* Reading the keys: the slot of the run is the one in which they are read. *)
LEMMA LoadStep ==
  ASSUME IInv, Begin \/ LoadSecret \/ LoadFails
  PROVE  IInv'
<1> USE DEF IInv
<1>1. CASE LoadFails
  <2>1. TypeOK'
    BY <1>1 DEF LoadFails, EndRun, Caught, Rescheduled, TypeOK
  <2> QED BY <1>1, <2>1, EndStep DEF LoadFails
<1>2. CASE Begin \/ LoadSecret
  <2>1. Len(Secrets) \in Nat /\ now \in Nat /\ \A i \in 1..Len(Secrets) : Secrets[i] \in Keys
    BY ForgingAssumption DEF TypeOK
  <2>2. TypeOK'
    <3>1. CASE Begin
      BY <3>1 DEF Begin, Rescheduled, TypeOK, run, history
    <3>2. CASE LoadSecret
      <4>1. /\ secret' \in 1..(Len(Secrets) + 1)
            /\ pc' \in {"loading", "choosing"}
            /\ UNCHANGED <<now, chain, syncing, job, cleaning, disturbed>>
        BY <3>2, <2>1 DEF LoadSecret, RunInv, history
      <4>2. keypairs' \subseteq Keys /\ enabled' \subseteq keypairs'
        BY <3>2, <2>1 DEF LoadSecret, RunInv, TypeOK
      <4> QED BY <4>1, <4>2 DEF TypeOK
    <3> QED BY <1>2, <3>1, <3>2
  <2>3. ChainInv' /\ SentInv' /\ OneBlockPerSlot'
    <3>1. UNCHANGED <<chain, now, sent, popped>>
      BY <1>2 DEF Begin, LoadSecret, history
    <3> QED BY <3>1 DEF ChainInv, SentInv, OneBlockPerSlot
  <2>4. RunInv'
    BY <1>2, <2>1 DEF Begin, LoadSecret, RunInv, run, Free, TypeOK
  <2>5. BlockInv'
    BY <1>2 DEF Begin, LoadSecret, BlockInv, Making, run, Free
  <2> QED BY <2>2, <2>3, <2>4, <2>5
<1> QED BY <1>1, <1>2

(* The block is made for the current slot, if it is one of the node's own.  *)
LEMMA ChooseStep ==
  ASSUME IInv, NEW poor \in BOOLEAN, Choose(poor)
  PROVE  IInv'
<1> DEFINE h == Len(chain) + 1
           own == OwnSlots(h)
<1> USE DEF IInv
<1>1. now \in Nat /\ slot \in Nat /\ ActiveDelegates \in Nat
  BY ForgingAssumption DEF TypeOK, RunInv
<1>2. CASE slot # Last(chain).slot /\ own # {} /\ StillNow(Min(own)) /\ (~poor \/ ForceForging)
  <2>1. own \subseteq Nat /\ \A s \in own : slot <= s /\ Owner(h, s) \in enabled
    BY <1>1 DEF OwnSlots
  <2>2. Min(own) \in own /\ Min(own) = now
    BY <1>2, <2>1, MinOfNats DEF StillNow
  <2>3. Owner(h, now) \in Keys /\ slot <= now
    BY <2>1, <2>2 DEF TypeOK
  <2>4. /\ pc = "choosing" /\ pc' = "generating"
        /\ block' = [slot |-> now, key |-> Owner(h, now)]
        /\ UNCHANGED <<job, secret, slot, now, chain, syncing, keypairs, enabled, cleaning,
                       sent, popped, disturbed>>
    <3> HIDE DEF own
    <3> QED BY <1>2, <2>2 DEF Choose, history, own
  <2> HIDE DEF h, own
  <2>5. TypeOK'
    BY <2>3, <2>4 DEF TypeOK
  <2>6. ChainInv' /\ SentInv' /\ OneBlockPerSlot'
    BY <2>4 DEF ChainInv, SentInv, OneBlockPerSlot
  <2>7. RunInv'
    BY <2>4 DEF RunInv
  <2>8. BlockInv'
    BY <1>1, <1>2, <2>3, <2>4 DEF BlockInv, Making, Owner, h
  <2> QED BY <2>5, <2>6, <2>7, <2>8
<1>3. CASE ~(slot # Last(chain).slot /\ own # {} /\ StillNow(Min(own)) /\ (~poor \/ ForceForging))
  <2> HIDE DEF own
  <2>1. EndRun /\ Rescheduled /\ UNCHANGED <<now, chain, syncing, keypairs, enabled, cleaning,
                                             sent, popped, disturbed>>
    BY <1>3 DEF Choose, history, own
  <2>2. TypeOK'
    BY <2>1 DEF TypeOK, EndRun, Rescheduled
  <2> QED BY <2>1, <2>2, EndStep
<1> QED BY <1>2, <1>3

LEMMA GenerateStep ==
  ASSUME IInv, NEW fails \in BOOLEAN, GenerateBlock(fails)
  PROVE  IInv'
<1> USE DEF IInv
<1>1. CASE fails
  <2>1. EndRun /\ Caught /\ UNCHANGED <<now, chain, syncing, keypairs, enabled, cleaning,
                                        sent, popped, disturbed>>
    BY <1>1 DEF GenerateBlock, history
  <2>2. TypeOK'
    BY <2>1 DEF TypeOK, EndRun, Caught, Rescheduled
  <2> QED BY <2>1, <2>2, EndStep
<1>2. CASE ~fails
  <2>1. /\ pc = "generating" /\ pc' = "processing"
        /\ UNCHANGED <<now, chain, syncing, keypairs, enabled, cleaning, job, secret, slot, block,
                       sent, popped, disturbed>>
    BY <1>2 DEF GenerateBlock, history
  <2>2. ChainInv' /\ SentInv' /\ OneBlockPerSlot'
    BY <2>1 DEF ChainInv, SentInv, OneBlockPerSlot
  <2>3. TypeOK' /\ RunInv' /\ BlockInv'
    BY <2>1 DEF TypeOK, RunInv, BlockInv, Making
  <2> QED BY <2>2, <2>3
<1> QED BY <1>1, <1>2

(* The block of a run passes: nothing has touched the chain since it was    *)
(* looked at.                                                               *)
LEMMA Verified == IInv => OwnBlockVerifies
<1> SUFFICES ASSUME IInv, pc = "processing", ~(Last(chain).slot > slot) PROVE Verifies(block)
  BY DEF OwnBlockVerifies
<1>1. Last(chain).slot \in Nat /\ slot \in Nat
  BY BlockAt DEF IInv, ChainInv, RunInv, Last, TypeOK
<1>2. block.slot \in Nat /\ slot <= block.slot /\ block.slot <= now /\ slot # Last(chain).slot
      /\ block.key = Owner(Len(chain) + 1, block.slot)
  BY DEF IInv, BlockInv, Making
<1> QED BY <1>1, <1>2 DEF Verifies

(* A block that is applied is sent; no earlier one has its slot, unless it  *)
(* was rolled back.                                                         *)
LEMMA ProcessStep ==
  ASSUME IInv, NEW applied \in BOOLEAN, ProcessBlock(applied)
  PROVE  IInv'
<1> USE DEF IInv
<1>1. CASE applied /\ ~cleaning /\ Verifies(block)
  <2>1. /\ EndRun /\ Rescheduled
        /\ chain' = Append(chain, block) /\ sent' = sent \cup {Message}
        /\ UNCHANGED <<now, syncing, keypairs, enabled, cleaning, popped, disturbed>>
        /\ pc = "processing"
    BY <1>1 DEF ProcessBlock, Sent, Caught
  <2>2. block \in Block /\ block.slot > Last(chain).slot /\ block.slot <= now + 1
    BY <1>1, <2>1 DEF BlockInv, Making, Verifies, Block, TypeOK
  <2>3. /\ ChainInv'
        /\ \A i \in DOMAIN chain' : chain'[i].key \in Keys \cup {None}
        /\ \A i \in 1..(Len(chain') - 1) : chain'[i].slot < chain'[i + 1].slot
        /\ \A i \in 1..Len(chain) : i \in 1..Len(chain') /\ chain'[i] = chain[i]
        /\ chain'[Len(chain')] = block /\ Len(chain') \in 1..Len(chain')
    BY <2>1, <2>2, Extended
  <2>4. TypeOK'
    BY <2>1, <2>3 DEF TypeOK, EndRun, Rescheduled
  <2>5. RunInv' /\ BlockInv'
    BY <2>1 DEF RunInv, BlockInv, Making, EndRun, TypeOK
  <2>6. Message.block = block
    BY DEF Message
  <2>7. SentInv'
    BY <2>1, <2>3, <2>6 DEF SentInv
  <2>8. ASSUME NEW x \in sent, x.block.slot = block.slot PROVE x.block.slot \in popped
    <3>1. ASSUME NEW i \in 1..Len(chain) PROVE chain[i].slot < block.slot
      <4>1. chain[i].slot <= Last(chain).slot
        BY BlockAt DEF ChainInv, Last
      <4>2. chain[i].slot \in Nat /\ Last(chain).slot \in Nat /\ block.slot \in Nat
        <5>1. block.slot \in Nat
          BY <2>2 DEF Block
        <5>2. Len(chain) \in 1..Len(chain)
          BY DEF ChainInv
        <5> QED BY <5>1, <5>2, BlockAt DEF ChainInv, Last
      <4> QED BY <2>2, <4>1, <4>2
    <3>2. \A i \in 1..Len(chain) : chain[i].slot \in Nat
      BY BlockAt DEF ChainInv
    <3> QED BY <2>8, <3>1, <3>2 DEF SentInv, Block
  <2>9. OneBlockPerSlot'
    BY <2>1, <2>6, <2>8 DEF OneBlockPerSlot
  <2> QED BY <2>3, <2>4, <2>5, <2>7, <2>9
<1>2. CASE ~(applied /\ ~cleaning /\ Verifies(block))
  <2>1. EndRun /\ Rescheduled /\ UNCHANGED <<now, chain, syncing, keypairs, enabled, cleaning,
                                             sent, popped, disturbed>>
    BY <1>2 DEF ProcessBlock, Sent, Caught
  <2>2. TypeOK'
    BY <2>1 DEF TypeOK, EndRun, Rescheduled
  <2> QED BY <2>1, <2>2, EndStep
<1> QED BY <1>1, <1>2

(* A block signed elsewhere extends the chain while no run makes a block.   *)
LEMMA ArriveStep ==
  ASSUME IInv, NEW s \in 1..(now + 1), Arrive(s), pc = "idle"
  PROVE  IInv'
<1> DEFINE b == [slot |-> s, key |-> Owner(Len(chain) + 1, s)]
<1> USE DEF IInv
<1>1. s \in Nat /\ s <= now + 1 /\ s > Last(chain).slot
  BY DEF Arrive, TypeOK
<1>2. b \in Block
  BY <1>1, OwnerTyped DEF Block
<1>3. chain' = Append(chain, b)
      /\ UNCHANGED <<now, syncing, keypairs, enabled, job, run, cleaning, sent, popped, disturbed>>
  BY DEF Arrive, history
<1>4. b.slot = s
  OBVIOUS
<1> HIDE DEF b
<1>5. /\ ChainInv'
      /\ \A i \in DOMAIN chain' : chain'[i].key \in Keys \cup {None}
      /\ \A i \in 1..(Len(chain') - 1) : chain'[i].slot < chain'[i + 1].slot
      /\ \A i \in 1..Len(chain) : i \in 1..Len(chain') /\ chain'[i] = chain[i]
  BY <1>1, <1>2, <1>3, <1>4, Extended
<1>6. TypeOK' /\ RunInv'
  BY <1>3, <1>5 DEF TypeOK, RunInv, run
<1>7. BlockInv' /\ SentInv' /\ OneBlockPerSlot'
  BY <1>3, <1>5 DEF BlockInv, Making, SentInv, OneBlockPerSlot, run
<1> QED BY <1>5, <1>6, <1>7

LEMMA FrontOfBlocks ==
  ASSUME NEW c \in Seq(Block), Len(c) > 1
  PROVE  /\ Front(c) \in Seq(Block) /\ Front(c) # <<>> /\ Len(Front(c)) = Len(c) - 1
         /\ \A i \in 1..Len(Front(c)) : i \in 1..Len(c) /\ Front(c)[i] = c[i]
<1>1. /\ Front(c) \in Seq(Block) /\ Len(Front(c)) = Len(c) - 1
      /\ \A i \in 1..Len(Front(c)) : Front(c)[i] = c[i]
  BY DEF Front
<1> QED BY <1>1

(* A rolled back block leaves its slot among those that were.               *)
LEMMA PopStep ==
  ASSUME IInv, PopBlock
  PROVE  IInv'
<1> USE DEF IInv
<1>1. /\ pc = "idle" /\ chain' = Front(chain) /\ popped' = popped \cup {Last(chain).slot}
      /\ Len(chain) > 1
      /\ UNCHANGED <<now, syncing, keypairs, enabled, job, run, cleaning, sent, disturbed>>
  BY DEF PopBlock, Free, RunInv
<1>2. /\ chain' \in Seq(Block) /\ chain' # <<>> /\ Len(chain') = Len(chain) - 1
      /\ \A i \in 1..Len(chain') : i \in 1..Len(chain) /\ chain'[i] = chain[i]
  BY <1>1, FrontOfBlocks DEF ChainInv
<1>3. ChainInv'
  BY <1>1, <1>2 DEF ChainInv
<1>4. TypeOK'
  <2>1. \A i \in DOMAIN chain' : chain'[i].key \in Keys \cup {None}
    BY <1>2, BlockAt
  <2>2. \A i \in 1..(Len(chain') - 1) : chain'[i].slot < chain'[i + 1].slot
    BY <1>2 DEF TypeOK, ChainInv
  <2> QED BY <1>1, <2>1, <2>2 DEF TypeOK, run
<1>5. RunInv' /\ BlockInv'
  BY <1>1 DEF RunInv, BlockInv, Making, run
<1>6. SentInv'
  <2> SUFFICES ASSUME NEW x \in sent, NEW i \in 1..Len(chain), chain[i].slot = x.block.slot
               PROVE  \/ x.block.slot \in popped'
                      \/ \E j \in 1..Len(chain') : chain'[j].slot = x.block.slot
    BY <1>1 DEF SentInv
  <2>1. CASE i = Len(chain)
    BY <1>1, <2>1 DEF Last
  <2>2. CASE i # Len(chain)
    BY <1>2, <2>2 DEF ChainInv
  <2> QED BY <2>1, <2>2
<1>7. OneBlockPerSlot'
  BY <1>1 DEF OneBlockPerSlot
<1> QED BY <1>3, <1>4, <1>5, <1>6, <1>7

LEMMA RestartStep ==
  ASSUME IInv, Restart
  PROVE  IInv'
<1>1. TypeOK'
  <2>1. 1 \in 1..(Len(Secrets) + 1)
    BY ForgingAssumption
  <2> QED BY <2>1 DEF Restart, EndRun, TypeOK, IInv
<1> QED BY <1>1, EndStep DEF Restart

LEMMA NextIInv == IInv /\ [Next]_vars => IInv'
<1> SUFFICES ASSUME IInv, [Next]_vars PROVE IInv'
  OBVIOUS
<1>1. CASE JobStep
  BY <1>1, AsideStep, LoadStep, ChooseStep, GenerateStep, ProcessStep DEF JobStep
<1>2. CASE \/ \E k \in Keys : Enable(k) \/ Disable(k)
           \/ Clock \/ StartSync \/ RunSync \/ EndSync \/ Cleanup
  BY <1>2, AsideStep
<1>3. CASE ReceiveBlock \/ SyncBlock
  <2>1. pc = "idle" /\ now \in Nat
    BY <1>3 DEF ReceiveBlock, SyncBlock, Free, IInv, RunInv, TypeOK
  <2>2. PICK s \in 1..(now + 1) : Arrive(s)
    BY <1>3, <2>1 DEF ReceiveBlock, SyncBlock
  <2> QED BY <2>1, <2>2, ArriveStep
<1>4. CASE UNCHANGED vars
  <2>1. TypeOK'
    BY <1>4 DEF IInv, TypeOK, vars
  <2> QED BY <1>4, <2>1, QuietStep DEF vars, run, IInv, TypeOK, RunInv
<1> QED BY <1>1, <1>2, <1>3, <1>4, PopStep, RestartStep DEF Next

-----------------------------------------------------------------------------
(* The invariant, of every behaviour. *)
THEOREM Invariant == Spec => []IInv
BY InitIInv, NextIInv, PTL DEF Spec

(* The chain keeps the order of the slots, and the job its states.          *)
THEOREM TypeCorrect == Spec => []TypeOK
<1>1. IInv => TypeOK
  BY DEF IInv
<1> QED BY <1>1, Invariant, PTL

(* What forge.ts checks before it generates a block holds when the blocks   *)
(* module verifies it, whatever the clock, the private API, the peers and a *)
(* shutdown do meanwhile.                                                   *)
THEOREM OwnBlockPasses == Spec => []OwnBlockVerifies
BY Verified, Invariant, PTL

(* However often blocks fail, are rolled back or the node restarts, peers   *)
(* get a second block for a slot only when the first was rolled back.       *)
THEOREM OneSentPerSlot == Spec => []OneBlockPerSlot
<1>1. IInv => OneBlockPerSlot
  BY DEF IInv
<1> QED BY <1>1, Invariant, PTL
=============================================================================
