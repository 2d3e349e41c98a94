-------------------------------- MODULE Network --------------------------------
(***************************************************************************)
(* The peer-to-peer side of a node (core-p2p): the table of peers, what    *)
(* requests that are sent and received do to it, the job that discovers    *)
(* and pings, the broadcast of blocks, the consensus, and the boot from    *)
(* seeds and saved peers.                                                  *)
(*                                                                         *)
(* The other nodes are the environment: each is up or down, has a tip and  *)
(* a version that is accepted up to a height.  A request is answered, or   *)
(* fails when the remote is down; everything may happen while it is under  *)
(* way.  A broadhash is the id of a block, here its height.                *)
(***************************************************************************)
EXTENDS SequencesExt, FiniteSetsExt, Integers

CONSTANTS
  Remotes, None,
  Seeds,           \* peers.seeds of the configuration
  AcceptedUpTo,    \* AcceptedUpTo[r]: the last height at which the version of r is accepted
  Bans,            \* whether peers.banTime is configured
  RelayLimit, BroadcastLimit,
  \* bounds of the model
  MaxTip, MaxOutages, MaxStops

ASSUME NetworkAssumption ==
  /\ Seeds \subseteq Remotes
  /\ AcceptedUpTo \in [Remotes -> Nat]
  /\ Bans \in BOOLEAN
  /\ {RelayLimit, BroadcastLimit} \subseteq Nat \ {0}
  /\ MaxTip \in Nat

VARIABLES
  up, remoteTip,    \* the other nodes
  phase,            \* "down", "seeds", "reached", "rows" or "ready"
  tip,              \* the last block: broadhash and height of the system module
  table,            \* peers: what is known of a remote, or None
  banned,           \* the remotes removed less than banTime ago
  consensus,        \* node.consensus: None or <<matching, connected>>
  rows,             \* the table of peers in the database
  out,              \* the requests under way: [to, by]
  job,              \* peersDiscoveryAndUpdate: "off", "timer", "asking", "listing", "failed" or "pinging"
  counted,          \* history: the tip when the consensus was computed
  counts            \* the bounded events

world == <<up, remoteTip>>
peers == <<table, banned, consensus, counted>>
vars == <<world, phase, tip, peers, rows, out, job, counts>>

Count(event, bound) == counts[event] < bound /\ counts' = [counts EXCEPT ![event] = @ + 1]
Listed == {r \in Remotes : table[r] # None}
Unknown == [r \in Remotes |-> None]

Init ==
  /\ up = [r \in Remotes |-> TRUE] /\ remoteTip = [r \in Remotes |-> 0]
  /\ phase = "down"
  /\ tip = 0
  /\ table = Unknown /\ banned = {} /\ consensus = None /\ counted = 0
  /\ rows = {}
  /\ out = {} /\ job = "off"
  /\ counts = [event \in {"outage", "stop"} |-> 0]

--------------------------------------------------------------------------
(* The table of peers *)

VersionCompatible(r) == tip <= AcceptedUpTo[r]
Connected(t) == {r \in Remotes : t[r] # None /\ t[r].state = "connected"}
Acceptable(S) == {r \in S : VersionCompatible(r)}

\* determineConsensus, with the broadhash of the system module
Consensus(t) ==
  LET counting == Acceptable(Connected(t))
  IN <<Cardinality({r \in counting : t[r].broadhash = tip}), Cardinality(counting)>>
UpdateConsensus(t) == consensus' = Consensus(t) /\ counted' = tip

\* peersModule.update: the peer has answered or called, with its headers
UpdatePeer(r) ==
  LET entry == [state |-> "connected", broadhash |-> remoteTip[r]]
  IN IF table[r] = None /\ r \in banned
     THEN UNCHANGED peers
     ELSE /\ table' = IF table[r] # None \/ VersionCompatible(r)
                      THEN [table EXCEPT ![r] = entry] ELSE table
          /\ UpdateConsensus(table')
          /\ UNCHANGED banned

\* peersModule.remove
RemovalCounted(t) == UpdateConsensus(t)
(* Mutant: only an update computes the consensus. *)
RemovalNotCounted(t) == UNCHANGED <<consensus, counted>>
Recount(t) == RemovalCounted(t)
RemovePeer(r) ==
  IF table[r] = None THEN UNCHANGED peers
  ELSE /\ table' = [table EXCEPT ![r] = None]
       /\ banned' = IF Bans THEN banned \cup {r} ELSE banned
       /\ Recount(table')

\* upsert with insertOnly: the peers another one told of
(* Mutant: only an update looks at what was removed recently. *)
AnyAcceptable(S) == Acceptable(S)
Insertable(S) == Acceptable(S) \ banned
Inserted(S) ==
  [r \in Remotes |-> IF r \in Insertable(S) /\ table[r] = None
                     THEN [state |-> "disconnected", broadhash |-> None] ELSE table[r]]

\* getPeers: the connected peers, those with the given broadhash first
Preferred(hash) == {r \in Acceptable(Connected(table)) : table[r].broadhash = hash}
Asked == IF Preferred(tip) # {} THEN Preferred(tip) ELSE Acceptable(Connected(table))
\* broadcast: at most broadcastLimit of them
Targets(hash) ==
  LET all == Acceptable(Connected(table))
      first == Preferred(hash)
      size == Min({BroadcastLimit, Cardinality(all)})
  IN {S \in SUBSET all : Cardinality(S) = size /\ (first \subseteq S \/ S \subseteq first)}

\* findGoodPeers: the peers near the most frequent height, two heights to a class
Good ==
  LET near == {r \in Acceptable(Connected(table)) : table[r].broadhash >= tip}
      Class(r) == table[r].broadhash \div 2
      Members(c) == Cardinality({r \in near : Class(r) = c})
      classes == {Class(r) : r \in near}
      most == Max({Members(c) : c \in classes})
      height == 2 * Max({c \in classes : Members(c) = most})
  IN IF near = {} THEN {}
     ELSE {r \in near : table[r].broadhash - height \in -2..2}

--------------------------------------------------------------------------
(* Requests: getFromPeer *)

Requests(S, by) == {[to |-> r, by |-> by] : r \in S}
Pending(by) == {q \in out : q.by = by}
To(r, by) == [to |-> r, by |-> by]

\* The answer, its headers first
Answered(r) == IF VersionCompatible(r) THEN UpdatePeer(r) ELSE RemovePeer(r)

\* The answer to a request of which only the headers matter
Answer(r, by) ==
  /\ To(r, by) \in out /\ up[r]
  /\ out' = out \ {To(r, by)}
  /\ Answered(r)
  /\ UNCHANGED <<world, phase, tip, rows, job, counts>>

\* No answer, twice
Fail(r, by) ==
  /\ To(r, by) \in out /\ ~up[r]
  /\ out' = out \ {To(r, by)}
  /\ RemovePeer(r)
  /\ UNCHANGED <<world, phase, tip, rows, job, counts>>

\* validatePeerHeaders: a remote calls; one behind a firewall is not added
Incoming(r, firewalled) ==
  /\ phase # "down" /\ up[r]
  /\ IF ~VersionCompatible(r) THEN RemovePeer(r)
     ELSE IF firewalled THEN UNCHANGED peers ELSE UpdatePeer(r)
  /\ UNCHANGED <<world, phase, tip, rows, out, job, counts>>

--------------------------------------------------------------------------
(* Boot and stop *)

\* bootstrapPeers: every seed is pinged
Boot ==
  /\ phase = "down"
  /\ phase' = "seeds"
  /\ out' = Requests(Seeds, "seed")
  /\ UNCHANGED <<world, tip, peers, rows, job, counts>>

AnswerSeed(r) ==
  /\ To(r, "seed") \in out /\ up[r]
  /\ out' = out \ {To(r, "seed")}
  /\ phase' = IF VersionCompatible(r) THEN "reached" ELSE phase
  /\ Answered(r)
  /\ UNCHANGED <<world, tip, rows, job, counts>>

\* dbLoad: the saved peers are pinged, those that are not in the table
LoadRows ==
  /\ phase = "reached" /\ Pending("seed") = {}
  /\ phase' = "rows"
  /\ out' = out \cup Requests(rows \ Listed, "row")
  /\ UNCHANGED <<world, tip, peers, rows, job, counts>>

\* All the rows have answered or not: the job starts
PeersReady ==
  /\ phase = "rows" /\ Pending("row") = {}
  /\ phase' = "ready"
  /\ job' = "timer"
  /\ UNCHANGED <<world, tip, peers, rows, out, counts>>

\* The memory of the process is gone
Gone ==
  /\ phase' = "down"
  /\ table' = Unknown /\ banned' = {} /\ consensus' = None /\ counted' = tip
  /\ out' = {} /\ job' = "off"
  /\ UNCHANGED <<world, tip>>

\* No seed answered: the boot fails
Unreachable ==
  /\ phase = "seeds" /\ Pending("seed") = {}
  /\ Gone
  /\ UNCHANGED <<rows, counts>>

\* A shutdown saves the peers unless there are none; a crash does not
Stop(clean) ==
  /\ phase # "down"
  /\ Count("stop", MaxStops)
  /\ rows' = IF clean /\ Listed # {} THEN Listed ELSE rows
  /\ Gone

--------------------------------------------------------------------------
(* The job that discovers and pings *)

\* One of the connected peers is asked for its list; none is there to ask, and
\* what is in the table is pinged
Discover(r) ==
  /\ job = "timer" /\ r \in Asked
  /\ job' = "asking"
  /\ out' = out \cup {To(r, "list")}
  /\ UNCHANGED <<world, phase, tip, peers, rows, counts>>

\* The entries with stale information: those inserted just now are fresh, those
\* of peers that have not been reached yet are not
(* Mutant: only connected peers are pinged. *)
ConnectedOnly(S) == S \subseteq Connected(table)
Stale(S) == Listed \ Connected(table) \subseteq S /\ S \subseteq Listed
Ping(S) == job' = "pinging" /\ out' = (out \ Pending("list")) \cup Requests(S, "ping")
DiscoverNobody(S) ==
  /\ job = "timer" /\ Asked = {}
  /\ Stale(S) /\ Ping(S)
  /\ UNCHANGED <<world, phase, tip, peers, rows, counts>>

\* discoverPeers: the answer, and a refused or missing one, which removes the remote
AnswerList(r) ==
  /\ To(r, "list") \in out /\ up[r]
  /\ job' = IF VersionCompatible(r) THEN "listing" ELSE "failed"
  /\ out' = out \ {To(r, "list")}
  /\ Answered(r)
  /\ UNCHANGED <<world, phase, tip, rows, counts>>
FailList(r) ==
  /\ To(r, "list") \in out /\ ~up[r]
  /\ job' = "failed"
  /\ out' = out \ {To(r, "list")}
  /\ RemovePeer(r)
  /\ UNCHANGED <<world, phase, tip, rows, counts>>

\* What the remote told of enters the table, not reached yet and too fresh to be
\* pinged now
Insert(told, S) ==
  /\ job = "listing"
  /\ table' = Inserted(told)
  /\ Stale(S) /\ Ping(S)
  /\ UNCHANGED <<world, phase, tip, banned, consensus, counted, rows, counts>>
PingAnyway(S) ==
  /\ job = "failed"
  /\ Stale(S) /\ Ping(S)
  /\ UNCHANGED <<world, phase, tip, peers, rows, counts>>
Pinged ==
  /\ job = "pinging" /\ Pending("ping") = {}
  /\ job' = "timer"
  /\ UNCHANGED <<world, phase, tip, peers, rows, out, counts>>

--------------------------------------------------------------------------
(* Blocks *)

\* A block of this node or of another one is applied: unless it was synchronised it
\* goes to peers that have its predecessor first (core-blocks p2p/main.ts)
Relayed(relays) == relays < RelayLimit
NewBlock(relays, S) ==
  /\ phase # "down" /\ tip < MaxTip
  /\ tip' = tip + 1
  /\ IF Relayed(relays) THEN S \in Targets(tip) ELSE S = {}
  /\ out' = out \cup Requests(S, "block")
  /\ UNCHANGED <<world, phase, peers, rows, job, counts>>

\* The sync timer: from one of the good peers
Sync(r) ==
  /\ phase = "ready" /\ Pending("sync") = {}
  /\ r \in Good
  /\ out' = out \cup {To(r, "sync")}
  /\ UNCHANGED <<world, phase, tip, peers, rows, job, counts>>
Synced(r) ==
  /\ To(r, "sync") \in out /\ up[r]
  /\ out' = out \ {To(r, "sync")}
  /\ Answered(r)
  /\ tip' = IF VersionCompatible(r) /\ remoteTip[r] > tip THEN remoteTip[r] ELSE tip
  /\ UNCHANGED <<world, phase, rows, job, counts>>

--------------------------------------------------------------------------
(* The environment *)

RemoteGrows(r) ==
  /\ up[r] /\ remoteTip[r] < MaxTip
  /\ remoteTip' = [remoteTip EXCEPT ![r] = @ + 1]
  /\ UNCHANGED <<up, phase, tip, peers, rows, out, job, counts>>
RemoteDown(r) ==
  /\ up[r]
  /\ Count("outage", MaxOutages)
  /\ up' = [up EXCEPT ![r] = FALSE]
  /\ UNCHANGED <<remoteTip, phase, tip, peers, rows, out, job>>
RemoteUp(r) ==
  /\ ~up[r]
  /\ up' = [up EXCEPT ![r] = TRUE]
  /\ UNCHANGED <<remoteTip, phase, tip, peers, rows, out, job, counts>>

\* banTime is over; it is longer than any request takes
BanEnds(r) ==
  /\ r \in banned /\ \A q \in out : q.to # r
  /\ banned' = banned \ {r}
  /\ UNCHANGED <<world, phase, tip, table, consensus, counted, rows, out, job, counts>>

--------------------------------------------------------------------------
Next ==
  \/ Boot \/ LoadRows \/ PeersReady \/ Unreachable
  \/ \E clean \in BOOLEAN : Stop(clean)
  \/ \E r \in Remotes :
       \/ AnswerSeed(r) \/ AnswerList(r) \/ FailList(r) \/ Synced(r)
       \/ \E by \in {"row", "ping", "block"} : Answer(r, by)
       \/ \E by \in {"seed", "row", "ping", "block", "sync"} : Fail(r, by)
       \/ \E firewalled \in BOOLEAN : Incoming(r, firewalled)
       \/ Discover(r) \/ Sync(r)
       \/ RemoteGrows(r) \/ RemoteDown(r) \/ RemoteUp(r) \/ BanEnds(r)
  \/ Pinged
  \/ \E S \in SUBSET Remotes :
       \/ DiscoverNobody(S) \/ PingAnyway(S)
       \/ \E told \in SUBSET Remotes : Insert(told, S)
       \/ \E relays \in 0..RelayLimit : NewBlock(relays, S)

\* What the node has begun goes on; requests end, remotes come back, bans end.  A
\* remote that is asked for its list sooner or later tells of everybody, and the job
\* finds all of its information stale, as it does when nobody calls for five seconds.
Fairness ==
  /\ WF_vars(Boot) /\ WF_vars(LoadRows) /\ WF_vars(PeersReady) /\ WF_vars(Unreachable)
  /\ WF_vars(Pinged)
  /\ WF_vars(\E r \in Remotes : Discover(r))
  /\ WF_vars(\E told, S \in SUBSET Remotes : Insert(told, S))
  /\ SF_vars(Insert(Remotes, Listed))
  /\ SF_vars(DiscoverNobody(Listed)) /\ SF_vars(PingAnyway(Listed))
  /\ \A r \in Remotes :
       /\ WF_vars(AnswerSeed(r)) /\ WF_vars(AnswerList(r)) /\ WF_vars(FailList(r))
       /\ WF_vars(Synced(r)) /\ SF_vars(Sync(r))
       /\ \A by \in {"row", "ping", "block"} : WF_vars(Answer(r, by))
       /\ \A by \in {"seed", "row", "ping", "block", "sync"} : WF_vars(Fail(r, by))
       /\ WF_vars(RemoteUp(r)) /\ WF_vars(BanEnds(r))

Spec == Init /\ [][Next]_vars /\ Fairness

--------------------------------------------------------------------------
(* Properties *)

\* The state is well formed: what is banned is not in the table, and the job runs
\* when the peers are ready, with the requests under way that belong to its step.
TypeOK ==
  /\ up \in [Remotes -> BOOLEAN] /\ remoteTip \in [Remotes -> 0..MaxTip] /\ tip \in 0..MaxTip
  /\ phase \in {"down", "seeds", "reached", "rows", "ready"}
  /\ \A r \in Listed : table[r] \in [state : {"connected"}, broadhash : 0..MaxTip]
                              \cup [state : {"disconnected"}, broadhash : {None}]
  /\ banned \subseteq Remotes \ Listed
  /\ rows \subseteq Remotes
  /\ (job = "off") = (phase # "ready")
  /\ Pending("list") # {} <=> job = "asking"
  /\ Pending("ping") # {} => job = "pinging"

\* The consensus is the share of the connected peers, as they are now, that had the
\* tip the node had when the table last changed: no path that adds, updates or
\* removes a peer leaves it behind (peersModule.ts updateConsensus).
ConsensusOfTable ==
  consensus = None \/
  LET counting == {r \in Connected(table) : counted <= AcceptedUpTo[r]}
  IN consensus = <<Cardinality({r \in counting : table[r].broadhash = counted}),
                   Cardinality(counting)>>

\* Outages and stops are bounded here.  In the end the node has lost all its peers,
\* and nobody calls it, or it is connected to every node whose version it accepts and
\* has their blocks (transport.ts discoverPeers, loader.ts syncTimer).
InTouch ==
  \/ <>[](Listed = {})
  \/ <>[](\A r \in Acceptable(Remotes) : r \in Connected(table) /\ tip >= remoteTip[r])
=============================================================================
