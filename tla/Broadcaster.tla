------------------------------ MODULE Broadcaster ------------------------------
(***************************************************************************)
(* The queue of the broadcaster (core-p2p broadcaster.ts) and the requests *)
(* it carries (core-transactions PostTransactionsRequest.ts).              *)
(*                                                                         *)
(* The pool enqueues a task per run of its job, with the transactions that *)
(* became unconfirmed in it.  Every five seconds a release takes the queue,*)
(* asks the database about one task after the other, puts the survivors    *)
(* back behind what was enqueued meanwhile, and sends the first of them,   *)
(* merged.  Who the peers are is the matter of Network.tla.                *)
(***************************************************************************)
EXTENDS SequencesExt, FiniteSetsExt, Integers

CONSTANTS
  Tasks,
  Body,            \* Body[t]: the transactions of a task, in order
  Relays,          \* Relays[t]: how often they had been relayed when they came in
  TaskRelayLimit, ReleaseLimit,
  MaxSharedTxs,    \* the transactions of one request
  \* bounds of the model
  MaxFailures

ASSUME BroadcasterAssumption ==
  /\ \A t \in Tasks : Body[t] \in Seq(ToSet(Body[t])) /\ Body[t] # <<>> /\ IsInjective(Body[t])
  /\ Relays \in [Tasks -> Nat]
  /\ {TaskRelayLimit, ReleaseLimit, MaxSharedTxs} \subseteq Nat \ {0}
  /\ MaxFailures \in Nat

VARIABLES
  queue,            \* queue
  release,          \* releaseQueue: "timer", "filtering", "sending" or, after cleanup, "off"
  old, kept,        \* filterQueue: the tasks still to look at, those that survived
  batch,            \* the tasks of this release
  requests,         \* its requests that are not sent yet
  cleaning,         \* cleanup has unregistered the job
  confirmed,        \* the transactions that are in blocks
  failures,
  posted,           \* history: the transactions sent
  fate              \* history: "none", "queued", "relayed", "sent", "expired" or "lost"

work == <<release, old, kept, batch, requests>>
broadcasterVars == <<queue, work, cleaning, confirmed, failures, posted, fate>>

Txs(t) == ToSet(Body[t])
Become(S, what) == fate' = [t \in Tasks |-> IF t \in S THEN what ELSE fate[t]]

BroadcasterInit ==
  /\ queue = <<>> /\ release = "timer" /\ old = <<>> /\ kept = <<>>
  /\ batch = <<>> /\ requests = <<>>
  /\ cleaning = FALSE
  /\ confirmed = {} /\ failures = 0 /\ posted = {}
  /\ fate = [t \in Tasks |-> "none"]

--------------------------------------------------------------------------
\* applyUnconfirmed has ended: what has been relayed often enough stops here
Relayable(t) == Relays[t] + 1 < TaskRelayLimit
Enqueue(t) ==
  /\ fate[t] = "none"
  /\ IF Relayable(t) THEN queue' = Append(queue, t) /\ Become({t}, "queued")
     ELSE Become({t}, "relayed") /\ UNCHANGED queue
  /\ UNCHANGED <<work, cleaning, confirmed, failures, posted>>

\* releaseQueue, up to the first await of filterQueue
Taken == <<>>
(* Mutant: the queue is not emptied when it is taken. *)
NotTaken == queue
LeftBehind == Taken
Release ==
  /\ release = "timer" /\ queue # <<>>
  /\ release' = "filtering"
  /\ old' = queue /\ queue' = LeftBehind
  /\ UNCHANGED <<kept, batch, requests, cleaning, confirmed, failures, posted, fate>>

\* isRequestExpired: all of its transactions are confirmed
Expired(t) == Txs(t) \subseteq confirmed
Filter ==
  LET t == Head(old)
  IN /\ release = "filtering" /\ old # <<>>
     /\ old' = Tail(old)
     /\ IF Expired(t) THEN Become({t}, "expired") /\ UNCHANGED kept
        ELSE kept' = Append(kept, t) /\ UNCHANGED fate
     /\ UNCHANGED <<queue, release, batch, requests, cleaning, confirmed, failures, posted>>

\* A release ends; the job is scheduled again unless it was unregistered
Scheduled == release' = IF cleaning THEN "off" ELSE "timer"

\* The query fails: filterQueue rejects with what it had taken, the job catches it
FilterFails ==
  /\ release = "filtering" /\ old # <<>>
  /\ failures < MaxFailures /\ failures' = failures + 1
  /\ Become(ToSet(old) \cup ToSet(kept), "lost")
  /\ old' = <<>> /\ kept' = <<>>
  /\ Scheduled
  /\ UNCHANGED <<queue, batch, requests, cleaning, confirmed, posted>>

\* mergeRequests: every transaction once, where it comes first, in chunks
Tx(tasks, p) == Body[tasks[p[1]]][p[2]]
Before(p, q) == p[1] < q[1] \/ (p[1] = q[1] /\ p[2] < q[2])
Firsts(tasks) ==
  LET places == UNION {{i} \X DOMAIN Body[tasks[i]] : i \in DOMAIN tasks}
  IN {p \in places : \A q \in places : Before(q, p) => Tx(tasks, q) # Tx(tasks, p)}
Unique(tasks) ==
  LET firsts == Firsts(tasks)
      Rank(p) == Cardinality({q \in firsts : Before(q, p)})
  IN [k \in 1..Cardinality(firsts) |-> Tx(tasks, CHOOSE p \in firsts : Rank(p) = k - 1)]
RoundedUp(n) == (n + MaxSharedTxs - 1) \div MaxSharedTxs
(* Mutant: the last chunk is dropped unless it is full. *)
RoundedDown(n) == n \div MaxSharedTxs
Chunks(n) == RoundedUp(n)
Merged(tasks) ==
  LET all == Unique(tasks)
  IN [i \in 1..Chunks(Len(all)) |->
        SubSeq(all, (i - 1) * MaxSharedTxs + 1, Min({i * MaxSharedTxs, Len(all)}))]

\* The survivors go behind what was enqueued meanwhile; the first are taken and squashed
Squash ==
  LET requeued == queue \o kept
      n == Min({ReleaseLimit, Len(requeued)})
  IN /\ release = "filtering" /\ old = <<>>
     /\ kept' = <<>>
     /\ batch' = SubSeq(requeued, 1, n)
     /\ queue' = SubSeq(requeued, n + 1, Len(requeued))
     /\ requests' = Merged(batch')
     /\ release' = "sending"
     /\ UNCHANGED <<old, cleaning, confirmed, failures, posted, fate>>

\* A request goes to its peers; the answers and failures change nothing here
Send ==
  /\ release = "sending" /\ requests # <<>>
  /\ posted' = posted \cup ToSet(Head(requests))
  /\ requests' = Tail(requests)
  /\ UNCHANGED <<queue, release, old, kept, batch, cleaning, confirmed, failures, fate>>
Sent ==
  /\ release = "sending" /\ requests = <<>>
  /\ Become(ToSet(batch), "sent")
  /\ batch' = <<>>
  /\ Scheduled
  /\ UNCHANGED <<queue, old, kept, requests, cleaning, confirmed, failures, posted>>

\* A release that is under way goes on
Cleanup ==
  /\ ~cleaning
  /\ cleaning' = TRUE
  /\ release' = IF release = "timer" THEN "off" ELSE release
  /\ UNCHANGED <<queue, old, kept, batch, requests, confirmed, failures, posted, fate>>

Confirm(t) ==
  /\ ~Expired(t)
  /\ \E tx \in Txs(t) \ confirmed : confirmed' = confirmed \cup {tx}
  /\ UNCHANGED <<queue, work, cleaning, failures, posted, fate>>

BroadcasterNext ==
  \/ \E t \in Tasks : Enqueue(t) \/ Confirm(t)
  \/ Release \/ Filter \/ FilterFails \/ Squash \/ Send \/ Sent \/ Cleanup

\* The job is scheduled again after each release; queries and requests end
BroadcasterFairness ==
  WF_broadcasterVars(Release \/ Filter \/ Squash \/ Send \/ Sent)

BroadcasterSpec == BroadcasterInit /\ [][BroadcasterNext]_broadcasterVars /\ BroadcasterFairness

--------------------------------------------------------------------------
\* Every task that is queued, and no other, is in exactly one place: the queue, what
\* filterQueue has taken, what it has kept or the batch; the awaits between the swap
\* of the queue and its refill neither double a task nor drop one (broadcaster.ts
\* filterQueue).
BroadcasterTypeOK ==
  LET places == queue \o old \o kept \o batch
  IN /\ release \in {"timer", "filtering", "sending", "off"}
     /\ IsInjective(places)
     /\ ToSet(places) = {t \in Tasks : fate[t] = "queued"}
     /\ release # "filtering" => old = <<>> /\ kept = <<>>
     /\ release # "sending" => batch = <<>> /\ requests = <<>>
     /\ \A i \in DOMAIN requests : Len(requests[i]) \in 1..MaxSharedTxs
     /\ failures \in 0..MaxFailures

\* Unless a query fails or the node stops, each transaction of a queued task is in a
\* request to the peers in the end, or all of them are in blocks: neither the merge
\* into chunks nor the limit of a release leaves one behind (broadcaster.ts
\* squashQueue, PostTransactionsRequest.ts mergeRequests).
TxsLeave ==
  \A t \in Tasks :
    (fate[t] = "queued") ~>
      (Txs(t) \subseteq posted \/ fate[t] = "expired" \/ fate[t] = "lost" \/ cleaning)
=============================================================================
