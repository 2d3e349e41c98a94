-------------------------------- MODULE Forging --------------------------------
(***************************************************************************)
(* The job that forges (core-consensus-dpos modules/forge.ts): the keys it *)
(* loads and those the private API enables and disables, the slot it picks *)
(* and the block it makes, against the clock, the blocks that arrive, the  *)
(* synchronisation, a shutdown and a restart.                              *)
(*                                                                         *)
(* The job runs in the default sequence, like the receipt of blocks and    *)
(* the synchronisation: the chain changes only between two of its runs.    *)
(* Everything else may happen at each of its awaits.  Time is counted in   *)
(* slots; the lists of delegates are those of Rounds.tla, here a constant. *)
(***************************************************************************)
EXTENDS SequencesExt, FiniteSetsExt, Integers

CONSTANTS
  Keys, None,
  Secrets,            \* forging.secret of the configuration: the keys in order
  RegisteredAt,       \* RegisteredAt[k]: the height from which an account has the key
  List(_),            \* the list of delegates for a height
  ActiveDelegates,
  ForceForging,              \* forging.force of the configuration
  \* bounds of the model
  MaxSlot, MaxHeight, MaxPops, MaxSyncs, MaxCalls, MaxStops, MaxFailures

\* The lists are those of the heights that the slots leave room for
ASSUME ForgingAssumption ==
  /\ ActiveDelegates \in Nat \ {0}
  /\ Secrets \in Seq(Keys)
  /\ MaxSlot \in Nat \ {0}
  /\ \A h \in 1..(MaxSlot + 3) : List(h) \in Seq(Keys)
  /\ ForceForging \in BOOLEAN

VARIABLES
  now,       \* the current slot
  chain,     \* the blocks: their slot and the key that signed them
  syncing,   \* "no", "waiting" for the default sequence or "running" in it
  keypairs, enabled,  \* keypairs and enabledKeys
  job,       \* the job: "none", "delay" before it is registered, "timer", "called"
  pc,        \* a run of the job: "idle", "loading", "choosing", "generating", "processing"
  secret,    \* the secret being loaded
  slot,      \* the slot the run is about
  block,     \* the block being made
  cleaning,  \* a shutdown has begun
  counts,    \* the bounded events
  sent,      \* history: the blocks of this node that were broadcast
  popped,    \* history: the slots of its blocks that were rolled back
  disturbed  \* history: why the configured keys may stay disabled

vars == <<now, chain, syncing, keypairs, enabled, job, pc, secret, slot, block, cleaning, counts,
          sent, popped, disturbed>>
run == <<pc, secret, slot, block>>
history == <<sent, popped, disturbed>>

Free == pc = "idle" /\ syncing # "running"
Known(k) == Len(chain) >= RegisteredAt[k]
Count(event, bound) == counts[event] < bound /\ counts' = [counts EXCEPT ![event] = @ + 1]
Owner(h, s) == LET list == List(h)
                   i == (s % ActiveDelegates) + 1
               IN IF i \in DOMAIN list THEN list[i] ELSE None

Init ==
  /\ now = 1 /\ chain = <<[slot |-> 0, key |-> None]>>
  /\ syncing = "no"
  /\ keypairs = {} /\ enabled = {}
  /\ job = "delay"
  /\ pc = "idle" /\ secret = 1 /\ slot = 0 /\ block = None
  /\ cleaning = FALSE
  /\ counts = [event \in {"pop", "sync", "call", "stop", "failure"} |-> 0]
  /\ sent = {} /\ popped = {} /\ disturbed = FALSE

--------------------------------------------------------------------------
(* The jobs queue *)

\* After ten seconds, whether the node is shutting down or not
Register ==
  /\ job = "delay"
  /\ job' = "timer"
  /\ UNCHANGED <<now, chain, syncing, keypairs, enabled, run, cleaning, counts, history>>

\* The timer fires, and the run waits for its turn
Fire ==
  /\ job = "timer"
  /\ job' = "called"
  /\ UNCHANGED <<now, chain, syncing, keypairs, enabled, run, cleaning, counts, history>>

\* A run has ended: the job is scheduled again unless it was unregistered meanwhile
Rescheduled == job' = IF job = "called" THEN "timer" ELSE job
(* Mutant: a run that throws rejects the promise of the job. *)
NotRescheduled == job' = "none"
Caught == Rescheduled
EndRun ==
  /\ pc' = "idle" /\ secret' = 1 /\ slot' = 0 /\ block' = None

Cleanup ==
  /\ ~cleaning
  /\ Count("stop", MaxStops)
  /\ cleaning' = TRUE
  /\ job' = IF job = "delay" THEN job ELSE "none"
  /\ UNCHANGED <<now, chain, syncing, keypairs, enabled, run, history>>

Restart ==
  /\ cleaning
  /\ cleaning' = FALSE
  /\ syncing' = "no" /\ keypairs' = {} /\ enabled' = {}
  /\ job' = "delay"
  /\ EndRun
  /\ disturbed' = FALSE
  /\ UNCHANGED <<now, chain, counts, sent, popped>>

--------------------------------------------------------------------------
(* A run of the job *)

\* forge: up to its first await
Begin ==
  /\ job = "called" /\ Free
  /\ IF syncing # "no" \/ (keypairs = {} /\ Secrets = <<>>)
     THEN Rescheduled /\ UNCHANGED run
     ELSE /\ pc' = IF keypairs = {} THEN "loading" ELSE "choosing"
          /\ slot' = now
          /\ UNCHANGED <<job, secret, block>>
  /\ UNCHANGED <<now, chain, syncing, keypairs, enabled, cleaning, counts, history>>

\* loadDelegates: one secret at a time; an account that is not there yet ends the run
LoadSecret ==
  /\ pc = "loading"
  /\ Known(Secrets[secret])
  /\ keypairs' = keypairs \cup {Secrets[secret]}
  /\ IF secret < Len(Secrets)
     THEN secret' = secret + 1 /\ UNCHANGED <<pc, enabled, slot>>
     ELSE /\ enabled' = enabled \cup keypairs'
          /\ pc' = "choosing" /\ secret' = 1 /\ slot' = now
  /\ UNCHANGED <<now, chain, syncing, job, block, cleaning, counts, history>>
LoadFails ==
  /\ pc = "loading"
  /\ ~Known(Secrets[secret])
  /\ EndRun /\ Caught
  /\ disturbed' = (disturbed \/ keypairs # {})
  /\ UNCHANGED <<now, chain, syncing, keypairs, enabled, cleaning, counts, sent, popped>>

\* getBlockSlotData: the slots, from the one of the run on, of enabled keys
OwnSlots(h) == {s \in slot..(slot + ActiveDelegates - 1) : Owner(h, s) \in enabled}
(* Mutant: the first own slot is taken for the current one. *)
NotCompared(s) == TRUE
StillNow(s) == s = now
\* The list may be read from the database: the run goes on when it is there
Choose(poor) ==
  LET h == Len(chain) + 1
      own == OwnSlots(h)
  IN /\ pc = "choosing"
     /\ IF /\ slot # Last(chain).slot
           /\ own # {} /\ StillNow(Min(own))
           /\ ~poor \/ ForceForging
        THEN /\ pc' = "generating"
             /\ block' = [slot |-> Min(own), key |-> Owner(h, Min(own))]
             /\ UNCHANGED <<job, secret, slot>>
        ELSE EndRun /\ Rescheduled
     /\ UNCHANGED <<now, chain, syncing, keypairs, enabled, cleaning, counts, history>>

GenerateBlock(fails) ==
  /\ pc = "generating"
  /\ IF fails
     THEN Count("failure", MaxFailures) /\ EndRun /\ Caught
     ELSE pc' = "processing" /\ UNCHANGED <<job, secret, slot, block, counts>>
  /\ UNCHANGED <<now, chain, syncing, keypairs, enabled, cleaning, history>>

(* Mutant: the slot of the last block is not looked at. *)
VerifiesBackwards(b) == b.slot <= now /\ b.key = Owner(Len(chain) + 1, b.slot)
\* verifyBlockSlot and assertValidBlockSlot
Verifies(b) ==
  /\ b.slot > Last(chain).slot
  /\ b.slot <= now
  /\ b.key = Owner(Len(chain) + 1, b.slot)

Message == [block |-> block, parent |-> Last(chain), number |-> Cardinality(sent) + 1]
(* Mutant: the block is sent before it is applied. *)
SentFirst(applied) == sent' = sent \cup {Message}
\* The block is broadcast after its database transaction
Sent(applied) == sent' = IF applied THEN sent \cup {Message} ELSE sent
ProcessBlock(applied) ==
  /\ pc = "processing"
  /\ EndRun /\ Caught
  /\ IF cleaning \/ ~Verifies(block)
     THEN UNCHANGED <<chain, sent, counts>>
     ELSE /\ chain' = IF applied THEN Append(chain, block) ELSE chain
          /\ Sent(applied)
          /\ IF applied THEN UNCHANGED counts ELSE Count("failure", MaxFailures)
  /\ UNCHANGED <<now, syncing, keypairs, enabled, cleaning, popped, disturbed>>

--------------------------------------------------------------------------
(* The private API *)

Enable(k) ==
  /\ Count("call", MaxCalls)
  /\ k \notin enabled /\ Known(k)
  /\ keypairs' = keypairs \cup {k} /\ enabled' = enabled \cup {k}
  /\ disturbed' = TRUE
  /\ UNCHANGED <<now, chain, syncing, job, run, cleaning, sent, popped>>
Disable(k) ==
  /\ Count("call", MaxCalls)
  /\ k \in enabled /\ Known(k)
  /\ enabled' = enabled \ {k}
  /\ disturbed' = TRUE
  /\ UNCHANGED <<now, chain, syncing, keypairs, job, run, cleaning, sent, popped>>

--------------------------------------------------------------------------
(* The clock, the peers and the other tasks of the default sequence *)

Clock ==
  /\ now < MaxSlot
  /\ now' = now + 1
  /\ UNCHANGED <<chain, syncing, keypairs, enabled, job, run, cleaning, counts, history>>

\* Blocks signed elsewhere; verifyBlock lets the clock of a peer run ahead a little, while
\* verifyReceipt does not
Arrive(s) ==
  /\ Len(chain) < MaxHeight
  /\ s > Last(chain).slot
  /\ Owner(Len(chain) + 1, s) \notin enabled \cup {None}
  /\ chain' = Append(chain, [slot |-> s, key |-> Owner(Len(chain) + 1, s)])
  /\ UNCHANGED <<now, syncing, keypairs, enabled, job, run, cleaning, counts, history>>
ReceiveBlock == Free /\ ~cleaning /\ syncing = "no" /\ \E s \in 1..now : Arrive(s)
SyncBlock == syncing = "running" /\ ~cleaning /\ \E s \in 1..(now + 1) : Arrive(s)

\* deleteLastBlock: a fork, or a synchronisation
PopBlock ==
  /\ Free \/ syncing = "running"
  /\ Len(chain) > 1
  /\ Count("pop", MaxPops)
  /\ chain' = Front(chain)
  /\ popped' = popped \cup {Last(chain).slot}
  /\ UNCHANGED <<now, syncing, keypairs, enabled, job, run, cleaning, sent, disturbed>>

StartSync ==
  /\ syncing = "no"
  /\ Count("sync", MaxSyncs)
  /\ syncing' = "waiting"
  /\ UNCHANGED <<now, chain, keypairs, enabled, job, run, cleaning, history>>
RunSync ==
  /\ syncing = "waiting" /\ pc = "idle"
  /\ syncing' = "running"
  /\ UNCHANGED <<now, chain, keypairs, enabled, job, run, cleaning, counts, history>>
EndSync ==
  /\ syncing = "running"
  /\ syncing' = "no"
  /\ UNCHANGED <<now, chain, keypairs, enabled, job, run, cleaning, counts, history>>

JobStep ==
  \/ Register
  \/ Fire
  \/ Begin
  \/ LoadSecret
  \/ LoadFails
  \/ \E poor \in BOOLEAN : Choose(poor)
  \/ \E fails \in BOOLEAN : GenerateBlock(fails)
  \/ \E applied \in BOOLEAN : ProcessBlock(applied)

Next ==
  \/ JobStep
  \/ \E k \in Keys : Enable(k) \/ Disable(k)
  \/ Clock
  \/ ReceiveBlock
  \/ SyncBlock
  \/ PopBlock
  \/ StartSync
  \/ RunSync
  \/ EndSync
  \/ Cleanup
  \/ Restart

\* Timers fire and promises settle; a synchronisation gets its turn and ends
Spec == Init /\ [][Next]_vars /\ WF_vars(JobStep) /\ WF_vars(RunSync) /\ WF_vars(EndSync)

--------------------------------------------------------------------------
(* Properties *)

TypeOK ==
  /\ now \in 1..MaxSlot
  /\ \A i \in DOMAIN chain : chain[i].key \in Keys \cup {None}
  /\ \A i \in 1..(Len(chain) - 1) : chain[i].slot < chain[i + 1].slot
  /\ syncing \in {"no", "waiting", "running"}
  /\ enabled \subseteq keypairs /\ keypairs \subseteq Keys
  /\ job \in {"none", "delay", "timer", "called"}
  /\ pc \in {"idle", "loading", "choosing", "generating", "processing"}
  /\ secret \in 1..(Len(Secrets) + 1)
  /\ pc \in {"generating", "processing"} => block.key \in Keys
  /\ cleaning \in BOOLEAN /\ disturbed \in BOOLEAN

\* The block a node makes passes its own verification: what forge.ts checks before its awaits
\* still holds after them, while the clock goes on and the API and the flags change.  The one
\* exception is a last block of a slot after the one the run began in, from a peer with a fast
\* clock.
OwnBlockVerifies ==
  pc = "processing" => Verifies(block) \/ Last(chain).slot > slot

\* Peers never get two blocks of this node for one slot, over failures, the API, synchronisations
\* and restarts, unless it has rolled back the first.
OneBlockPerSlot ==
  \A x, y \in sent : x.block.slot = y.block.slot => x = y \/ x.block.slot \in popped

\* Once the chain has the accounts of all configured keys, all of them forge, also when the first
\* runs of the job failed for lack of an account, unless a run had read some of the keys before it
\* failed, the API has been used or the node shuts down.
ConfiguredKeysForge ==
  (<>[](\A i \in DOMAIN Secrets : Known(Secrets[i]))) =>
    <>(disturbed \/ cleaning \/ Range(Secrets) \subseteq enabled)
=============================================================================
