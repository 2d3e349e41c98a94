-------------------------- MODULE PeerToPeerProofs --------------------------
(***************************************************************************)
(* For any nodes, versions, seeds and limits: the table of peers is well    *)
(* formed, and the consensus is that of the table.  For any tasks and       *)
(* transactions: a task that is queued is in one place of the broadcaster,  *)
(* and no request is empty or too large.                                    *)
(***************************************************************************)
EXTENDS Network, Broadcaster, FiniteSetTheorems, TLAPS


-----------------------------------------------------------------------------
(* The peers: the inductive invariant.                                      *)
Entry == [state : {"connected"}, broadhash : 0..MaxTip]
           \cup [state : {"disconnected"}, broadhash : {None}]
Purposes == {"seed", "row", "list", "ping", "block", "sync"}

NodesInv ==
  /\ up \in [Remotes -> BOOLEAN] /\ remoteTip \in [Remotes -> 0..MaxTip] /\ tip \in 0..MaxTip
  /\ rows \subseteq Remotes

TableInv ==
  /\ table \in [Remotes -> Entry \cup {None}]
  /\ banned \subseteq Remotes \ Listed
  /\ ConsensusOfTable

(* One remote at a time is asked for its list, and the seeds are only asked *)
(* until one of them is reached: a late answer of theirs would begin the    *)
(* boot anew.                                                               *)
RequestsInv ==
  /\ phase \in {"down", "seeds", "reached", "rows", "ready"}
  /\ out \in SUBSET [to : Remotes, by : Purposes]
  /\ (job = "off") = (phase # "ready")
  /\ Pending("list") # {} <=> job = "asking"
  /\ \A q, p \in Pending("list") : q = p
  /\ Pending("ping") # {} => job = "pinging"
  /\ Pending("seed") # {} => phase \in {"seeds", "reached"}

IInv == NodesInv /\ TableInv /\ RequestsInv

LEMMA Implied == IInv => TypeOK
BY DEF IInv, NodesInv, TableInv, RequestsInv, TypeOK, Entry, Listed

LEMMA InitIInv == Init => IInv
<1> SUFFICES ASSUME Init PROVE IInv
  OBVIOUS
<1>1. NodesInv
  BY NetworkAssumption DEF Init, NodesInv
<1>2. TableInv
  BY DEF Init, TableInv, Unknown, ConsensusOfTable
<1>3. RequestsInv
  BY DEF Init, RequestsInv, Pending
<1> QED BY <1>1, <1>2, <1>3 DEF IInv

-----------------------------------------------------------------------------
(* What a step does to the table of peers.                                  *)
Forgotten ==
  /\ table' = Unknown /\ banned' = {} /\ consensus' = None

(* The peers another one tells of are not connected yet: they do not count. *)
Told ==
  /\ \E told \in SUBSET Remotes : table' = Inserted(told)
  /\ UNCHANGED <<banned, consensus, counted>>

TableStep ==
  \/ UNCHANGED peers
  \/ \E r \in Remotes : UpdatePeer(r) \/ RemovePeer(r)
  \/ Told
  \/ Forgotten
  \/ \E r \in banned : banned' = banned \ {r} /\ UNCHANGED <<table, consensus, counted>>

(* A consensus that is computed from a table is the one of that table.      *)
LEMMA Computed ==
  ASSUME UpdateConsensus(table')
  PROVE  ConsensusOfTable'
<1>1. {r \in Connected(table)' : counted' <= AcceptedUpTo[r]} = Acceptable(Connected(table'))
  BY DEF UpdateConsensus, Acceptable, VersionCompatible, Connected
<1> QED BY <1>1 DEF UpdateConsensus, Consensus, ConsensusOfTable

LEMMA TableStepKeeps ==
  ASSUME NodesInv, TableInv, TableStep
  PROVE  TableInv'
<1> USE DEF TableInv
<1>1. CASE UNCHANGED peers
  BY <1>1 DEF peers, Listed, ConsensusOfTable, Connected
<1>2. ASSUME NEW r \in Remotes, UpdatePeer(r), ~UNCHANGED peers PROVE TableInv'
  <2> DEFINE entry == [state |-> "connected", broadhash |-> remoteTip[r]]
  <2>1. /\ ~(table[r] = None /\ r \in banned)
        /\ table' = [table EXCEPT ![r] = entry] \/ table' = table
        /\ banned' = banned
        /\ UpdateConsensus(table')
    BY <1>2 DEF UpdatePeer
  <2>2. entry \in Entry
    BY DEF Entry, NodesInv
  <2>3. table' \in [Remotes -> Entry \cup {None}]
    BY <2>1, <2>2
  <2>4. r \notin banned
    BY <2>1 DEF Listed
  <2>5. banned' \subseteq Remotes \ Listed'
    BY <2>1, <2>4 DEF Listed
  <2> QED BY <2>1, <2>3, <2>5, Computed
<1>3. ASSUME NEW r \in Remotes, RemovePeer(r), ~UNCHANGED peers PROVE TableInv'
  <2>1. /\ table' = [table EXCEPT ![r] = None]
        /\ banned' = banned \/ banned' = banned \cup {r}
        /\ UpdateConsensus(table')
    BY <1>3 DEF RemovePeer, Recount, RemovalCounted
  <2>2. table' \in [Remotes -> Entry \cup {None}]
    BY <2>1
  <2>3. Listed' \subseteq Listed \ {r}
    BY <2>1 DEF Listed
  <2> QED BY <2>1, <2>2, <2>3, Computed
<1>4. CASE Told
  <2>1. PICK told \in SUBSET Remotes : table' = Inserted(told)
    BY <1>4 DEF Told
  <2>2. table' \in [Remotes -> Entry \cup {None}]
    BY <2>1 DEF Inserted, Entry
  <2>3. banned' \subseteq Remotes \ Listed'
    BY <1>4, <2>1 DEF Told, Inserted, Insertable, Listed
  <2>4. /\ Connected(table') = Connected(table)
        /\ \A r \in Connected(table) : table'[r] = table[r]
    BY <2>1 DEF Inserted, Connected
  <2>5. ConsensusOfTable'
    <3>1. Connected(table)' = Connected(table) /\ Connected(table) \subseteq Remotes
      BY <2>4 DEF Connected
    <3> DEFINE counting == {r \in Connected(table) : counted <= AcceptedUpTo[r]}
    <3>2. {r \in counting : table'[r].broadhash = counted}
            = {r \in counting : table[r].broadhash = counted}
      BY <2>4
    <3> QED BY <1>4, <3>1, <3>2 DEF ConsensusOfTable, Told
  <2> QED BY <2>2, <2>3, <2>5
<1>5. CASE Forgotten
  BY <1>5 DEF Forgotten, Unknown, ConsensusOfTable
<1>6. ASSUME NEW r \in banned, banned' = banned \ {r}, UNCHANGED <<table, consensus, counted>>
      PROVE  TableInv'
  BY <1>6 DEF Listed, ConsensusOfTable, Connected
<1> QED BY <1>1, <1>2, <1>3, <1>4, <1>5, <1>6 DEF TableStep

LEMMA AnswerTable ==
  ASSUME NEW r \in Remotes, Answered(r)
  PROVE  TableStep
BY DEF Answered, TableStep

-----------------------------------------------------------------------------
(* What a step does to the requests under way.  An answer that no step of   *)
(* the job or of the boot waits for only takes a request away.              *)
RequestEnds(q) ==
  /\ q \in out /\ q.by # "list" /\ out' = out \ {q}
  /\ UNCHANGED <<phase, job>>

RequestsMade(S, by) ==
  /\ S \subseteq Remotes /\ by \in {"block", "sync"}
  /\ out' = out \cup Requests(S, by)
  /\ UNCHANGED <<phase, job>>

LEMMA RequestTyped ==
  ASSUME NEW S \in SUBSET Remotes, NEW by \in Purposes
  PROVE  Requests(S, by) \in SUBSET [to : Remotes, by : Purposes]
         /\ \A q \in Requests(S, by) : q.by = by
BY DEF Requests

LEMMA EndsKeeps ==
  ASSUME RequestsInv, NEW q, RequestEnds(q)
  PROVE  RequestsInv'
BY DEF RequestsInv, RequestEnds, Pending

LEMMA MadeKeeps ==
  ASSUME RequestsInv, NEW S, NEW by, RequestsMade(S, by)
  PROVE  RequestsInv'
<1>1. /\ Requests(S, by) \in SUBSET [to : Remotes, by : Purposes]
      /\ \A q \in Requests(S, by) : q.by = by
  BY RequestTyped DEF RequestsMade, Purposes
<1>2. \A w \in {"list", "ping", "seed"} : Pending(w)' = Pending(w)
  BY <1>1 DEF RequestsMade, Pending
<1> QED BY <1>1, <1>2 DEF RequestsInv, RequestsMade

LEMMA SameRequests ==
  ASSUME RequestsInv, UNCHANGED <<phase, out, job>>
  PROVE  RequestsInv'
BY DEF RequestsInv, Pending

LEMMA SameNodes ==
  ASSUME NodesInv, UNCHANGED <<world, tip, rows>>
  PROVE  NodesInv'
BY DEF NodesInv, world

(* The memory of the process is gone. *)
LEMMA GoneStep ==
  ASSUME IInv, Gone, rows' \subseteq Remotes
  PROVE  NodesInv' /\ TableStep /\ RequestsInv'
<1>1. NodesInv'
  BY DEF Gone, IInv, NodesInv, world
<1>2. TableStep
  BY DEF Gone, TableStep, Forgotten
<1>3. RequestsInv'
  BY DEF Gone, RequestsInv, Pending
<1> QED BY <1>1, <1>2, <1>3

(* The boot, up to the start of the job. *)
LEMMA BootStep ==
  ASSUME IInv,
         \/ Boot \/ LoadRows \/ PeersReady \/ Unreachable
         \/ \E clean \in BOOLEAN : Stop(clean)
         \/ \E r \in Remotes : AnswerSeed(r)
  PROVE  NodesInv' /\ TableStep /\ RequestsInv'
<1> USE DEF IInv
<1>1. CASE Unreachable
  BY <1>1, GoneStep DEF Unreachable, NodesInv
<1>2. ASSUME NEW clean \in BOOLEAN, Stop(clean)
      PROVE  NodesInv' /\ TableStep /\ RequestsInv'
  BY <1>2, GoneStep DEF Stop, NodesInv, Listed
<1>3. CASE Boot
  <2>1. NodesInv' /\ TableStep
    BY <1>3, SameNodes DEF Boot, TableStep
  <2>2. out' \in SUBSET [to : Remotes, by : Purposes] /\ \A q \in out' : q.by = "seed"
    BY <1>3, RequestTyped, NetworkAssumption DEF Boot, Purposes
  <2>3. Pending("list")' = {} /\ Pending("ping")' = {}
    BY <2>2 DEF Pending
  <2> QED BY <1>3, <2>1, <2>2, <2>3 DEF Boot, RequestsInv
<1>4. CASE LoadRows
  <2>1. NodesInv' /\ TableStep
    BY <1>4, SameNodes DEF LoadRows, TableStep
  <2>2. /\ Requests(rows \ Listed, "row") \in SUBSET [to : Remotes, by : Purposes]
        /\ \A q \in Requests(rows \ Listed, "row") : q.by = "row"
    BY RequestTyped DEF NodesInv, Purposes
  <2>3. out' = out \cup Requests(rows \ Listed, "row")
    BY <1>4 DEF LoadRows
  <2>4. \A w \in {"list", "ping", "seed"} : Pending(w)' = Pending(w)
    BY <2>2, <2>3 DEF Pending
  <2> QED BY <1>4, <2>1, <2>2, <2>3, <2>4 DEF LoadRows, RequestsInv
<1>5. CASE PeersReady
  <2>1. NodesInv' /\ TableStep
    BY <1>5, SameNodes DEF PeersReady, TableStep
  <2>2. Pending("list") = {} /\ Pending("ping") = {} /\ Pending("seed") = {}
    BY <1>5 DEF PeersReady, RequestsInv
  <2> QED BY <1>5, <2>1, <2>2 DEF PeersReady, RequestsInv, Pending
<1>6. ASSUME NEW r \in Remotes, AnswerSeed(r)
      PROVE  NodesInv' /\ TableStep /\ RequestsInv'
  <2>1. NodesInv' /\ TableStep
    BY <1>6, SameNodes, AnswerTable DEF AnswerSeed
  <2>2. To(r, "seed") \in Pending("seed")
    BY <1>6 DEF AnswerSeed, Pending, To
  <2>3. phase \in {"seeds", "reached"} /\ job = "off" /\ phase' \in {"seeds", "reached"}
    BY <1>6, <2>2 DEF AnswerSeed, RequestsInv
  <2>4. out' \subseteq out /\ job' = job
    BY <1>6 DEF AnswerSeed
  <2> QED BY <2>1, <2>3, <2>4 DEF RequestsInv, Pending
<1> QED BY <1>1, <1>2, <1>3, <1>4, <1>5, <1>6

(* The answers, and their absence. *)
LEMMA AnswerStep ==
  ASSUME IInv, NEW r \in Remotes,
         \/ \E by \in {"row", "ping", "block"} : Answer(r, by)
         \/ \E by \in {"seed", "row", "ping", "block", "sync"} : Fail(r, by)
         \/ Synced(r)
  PROVE  NodesInv' /\ TableStep /\ RequestsInv'
<1> USE DEF IInv
<1>1. ASSUME NEW by \in {"row", "ping", "block"}, Answer(r, by)
      PROVE  NodesInv' /\ TableStep /\ RequestsInv'
  <2>1. RequestEnds(To(r, by))
    BY <1>1 DEF Answer, RequestEnds, To
  <2> QED BY <1>1, <2>1, EndsKeeps, SameNodes, AnswerTable DEF Answer
<1>2. ASSUME NEW by \in {"seed", "row", "ping", "block", "sync"}, Fail(r, by)
      PROVE  NodesInv' /\ TableStep /\ RequestsInv'
  <2>1. RequestEnds(To(r, by))
    BY <1>2 DEF Fail, RequestEnds, To
  <2> QED BY <1>2, <2>1, EndsKeeps, SameNodes DEF Fail, TableStep
<1>3. ASSUME Synced(r)
      PROVE  NodesInv' /\ TableStep /\ RequestsInv'
  <2>1. RequestEnds(To(r, "sync"))
    BY <1>3 DEF Synced, RequestEnds, To
  <2>2. NodesInv'
    BY <1>3 DEF Synced, NodesInv, world
  <2> QED BY <1>3, <2>1, <2>2, EndsKeeps, AnswerTable DEF Synced
<1> QED BY <1>1, <1>2, <1>3

(* The job asks one peer for its list, and pings what is in the table: the  *)
(* step it waits in is that of the requests it has under way.               *)
LEMMA PingKeeps ==
  ASSUME RequestsInv, NEW S \in SUBSET Remotes, Ping(S), job # "off", UNCHANGED phase
  PROVE  RequestsInv'
<1>1. /\ Requests(S, "ping") \in SUBSET [to : Remotes, by : Purposes]
      /\ \A q \in Requests(S, "ping") : q.by = "ping"
  BY RequestTyped DEF Purposes
<1>2. job' = "pinging" /\ out' = (out \ Pending("list")) \cup Requests(S, "ping")
  BY DEF Ping
<1>3. Pending("list")' = {} /\ Pending("seed")' = Pending("seed")
  BY <1>1, <1>2 DEF Pending
<1> QED BY <1>1, <1>2, <1>3 DEF RequestsInv

LEMMA JobStep ==
  ASSUME IInv,
         \/ \E r \in Remotes : Discover(r) \/ AnswerList(r) \/ FailList(r)
         \/ Pinged
         \/ \E S \in SUBSET Remotes :
              \/ DiscoverNobody(S) \/ PingAnyway(S)
              \/ \E told \in SUBSET Remotes : Insert(told, S)
  PROVE  NodesInv' /\ TableStep /\ RequestsInv'
<1> USE DEF IInv
<1>1. ASSUME NEW r \in Remotes, Discover(r)
      PROVE  NodesInv' /\ TableStep /\ RequestsInv'
  <2>1. NodesInv' /\ TableStep
    BY <1>1, SameNodes DEF Discover, TableStep
  <2>2. job = "timer" /\ job' = "asking" /\ out' = out \cup {To(r, "list")} /\ phase' = phase
    BY <1>1 DEF Discover
  <2>3. Pending("list") = {} /\ Pending("ping") = {}
    BY <2>2 DEF RequestsInv
  <2>4. To(r, "list") \in [to : Remotes, by : Purposes] /\ To(r, "list").by = "list"
    BY DEF To, Purposes
  <2>5. /\ Pending("list")' = {To(r, "list")} /\ Pending("ping")' = {}
        /\ Pending("seed")' = Pending("seed")
    BY <2>2, <2>3, <2>4 DEF Pending
  <2> QED BY <2>1, <2>2, <2>4, <2>5 DEF RequestsInv
<1>2. ASSUME NEW r \in Remotes, AnswerList(r) \/ FailList(r)
      PROVE  NodesInv' /\ TableStep /\ RequestsInv'
  <2>1. NodesInv' /\ TableStep
    <3>1. CASE AnswerList(r)
      BY <3>1, SameNodes, AnswerTable DEF AnswerList
    <3>2. CASE FailList(r)
      BY <3>2, SameNodes DEF FailList, TableStep
    <3> QED BY <1>2, <3>1, <3>2
  <2>2. /\ To(r, "list") \in out /\ out' = out \ {To(r, "list")}
        /\ job' \in {"listing", "failed"} /\ phase' = phase
    BY <1>2 DEF AnswerList, FailList
  <2>3. To(r, "list") \in Pending("list")
    BY <2>2 DEF Pending, To
  <2>4. job = "asking" /\ Pending("list") = {To(r, "list")} /\ Pending("ping") = {}
    BY <2>3 DEF RequestsInv
  <2>5. /\ Pending("list")' = {} /\ Pending("ping")' = {}
        /\ Pending("seed")' = Pending("seed")
    BY <2>2, <2>4 DEF Pending, To
  <2> QED BY <2>1, <2>2, <2>4, <2>5 DEF RequestsInv
<1>3. CASE Pinged
  <2>1. NodesInv' /\ TableStep
    BY <1>3, SameNodes DEF Pinged, TableStep
  <2> QED BY <1>3, <2>1 DEF Pinged, RequestsInv, Pending
<1>4. ASSUME NEW S \in SUBSET Remotes, DiscoverNobody(S) \/ PingAnyway(S)
      PROVE  NodesInv' /\ TableStep /\ RequestsInv'
  BY <1>4, SameNodes, PingKeeps DEF DiscoverNobody, PingAnyway, TableStep
<1>5. ASSUME NEW S \in SUBSET Remotes, NEW told \in SUBSET Remotes, Insert(told, S)
      PROVE  NodesInv' /\ TableStep /\ RequestsInv'
  BY <1>5, SameNodes, PingKeeps DEF Insert, TableStep, Told
<1> QED BY <1>1, <1>2, <1>3, <1>4, <1>5

(* Blocks that are relayed and asked for, calls, and the other nodes. *)
LEMMA OtherStep ==
  ASSUME IInv,
         \/ \E r \in Remotes :
              \/ \E firewalled \in BOOLEAN : Incoming(r, firewalled)
              \/ Sync(r)
              \/ RemoteGrows(r) \/ RemoteDown(r) \/ RemoteUp(r) \/ BanEnds(r)
         \/ \E S \in SUBSET Remotes, relays \in 0..RelayLimit : NewBlock(relays, S)
  PROVE  NodesInv' /\ TableStep /\ RequestsInv'
<1> USE DEF IInv
<1>1. ASSUME NEW r \in Remotes, NEW firewalled \in BOOLEAN, Incoming(r, firewalled)
      PROVE  NodesInv' /\ TableStep /\ RequestsInv'
  BY <1>1, SameNodes, SameRequests DEF Incoming, TableStep
<1>2. ASSUME NEW r \in Remotes, Sync(r)
      PROVE  NodesInv' /\ TableStep /\ RequestsInv'
  <2>1. RequestsMade({r}, "sync")
    BY <1>2 DEF Sync, RequestsMade, Requests, To
  <2> QED BY <1>2, <2>1, SameNodes, MadeKeeps DEF Sync, TableStep
<1>3. ASSUME NEW r \in Remotes, RemoteGrows(r) \/ RemoteDown(r) \/ RemoteUp(r)
      PROVE  NodesInv' /\ TableStep /\ RequestsInv'
  <2>1. UNCHANGED <<phase, tip, peers, rows, out, job>>
    BY <1>3 DEF RemoteGrows, RemoteDown, RemoteUp
  <2>2. up' \in [Remotes -> BOOLEAN] /\ remoteTip' \in [Remotes -> 0..MaxTip]
    <3>1. CASE RemoteGrows(r)
      <4>1. remoteTip[r] + 1 \in 0..MaxTip
        BY <3>1, NetworkAssumption DEF RemoteGrows, NodesInv
      <4> QED BY <3>1, <4>1 DEF RemoteGrows, NodesInv
    <3>2. CASE RemoteDown(r) \/ RemoteUp(r)
      BY <3>2 DEF RemoteDown, RemoteUp, NodesInv
    <3> QED BY <1>3, <3>1, <3>2
  <2> QED BY <2>1, <2>2, SameRequests DEF NodesInv, TableStep
<1>4. ASSUME NEW r \in Remotes, BanEnds(r)
      PROVE  NodesInv' /\ TableStep /\ RequestsInv'
  BY <1>4, SameNodes, SameRequests DEF BanEnds, TableStep
<1>5. ASSUME NEW S \in SUBSET Remotes, NEW relays \in 0..RelayLimit, NewBlock(relays, S)
      PROVE  NodesInv' /\ TableStep /\ RequestsInv'
  <2>1. RequestsMade(S, "block")
    BY <1>5 DEF NewBlock, RequestsMade
  <2>2. NodesInv'
    BY <1>5, NetworkAssumption DEF NewBlock, NodesInv, world
  <2> QED BY <1>5, <2>1, <2>2, MadeKeeps DEF NewBlock, TableStep
<1> QED BY <1>1, <1>2, <1>3, <1>4, <1>5

LEMMA NextIInv == IInv /\ [Next]_vars => IInv'
<1> SUFFICES ASSUME IInv, [Next]_vars PROVE NodesInv' /\ TableStep /\ RequestsInv'
  BY TableStepKeeps DEF IInv
<1>1. CASE UNCHANGED vars
  BY <1>1, SameNodes, SameRequests DEF IInv, vars, TableStep
<1>2. CASE Next
  BY <1>2, BootStep, AnswerStep, JobStep, OtherStep DEF Next
<1> QED BY <1>1, <1>2

-----------------------------------------------------------------------------
(* The invariant, of every behaviour. *)
THEOREM Invariant == Spec => []IInv
BY InitIInv, NextIInv, PTL DEF Spec

(* A banned peer is not in the table, and the job waits for the requests of *)
(* its own step, whichever answers and calls come in between.               *)
THEOREM TypeCorrect == Spec => []TypeOK
BY Implied, Invariant, PTL

(* No path that adds, updates, removes or forgets a peer leaves the         *)
(* consensus behind (peersModule.ts updateConsensus).                       *)
THEOREM ConsensusFollows == Spec => []ConsensusOfTable
<1>1. IInv => ConsensusOfTable
  BY DEF IInv, TableInv
<1> QED BY <1>1, Invariant, PTL


-----------------------------------------------------------------------------
(* The broadcaster: the inductive invariant, the four places of a task one  *)
(* by one.                                                                  *)
Apart(s, t) == ToSet(s) \cap ToSet(t) = {}

PlacesInv ==
  /\ queue \in Seq(Tasks) /\ old \in Seq(Tasks) /\ kept \in Seq(Tasks) /\ batch \in Seq(Tasks)
  /\ IsInjective(queue) /\ IsInjective(old) /\ IsInjective(kept) /\ IsInjective(batch)
  /\ Apart(queue, old) /\ Apart(queue, kept) /\ Apart(queue, batch)
  /\ Apart(old, kept) /\ Apart(old, batch) /\ Apart(kept, batch)
  /\ ToSet(queue) \cup ToSet(old) \cup ToSet(kept) \cup ToSet(batch)
       = {t \in Tasks : fate[t] = "queued"}

StagesInv ==
  /\ release \in {"timer", "filtering", "sending", "off"}
  /\ release # "filtering" => old = <<>> /\ kept = <<>>
  /\ release # "sending" => batch = <<>> /\ requests = <<>>
  /\ requests \in Seq(ToSet(requests))
  /\ \A i \in DOMAIN requests : Len(requests[i]) \in 1..MaxSharedTxs
  /\ failures \in 0..MaxFailures
  /\ fate \in [Tasks -> {"none", "queued", "relayed", "sent", "expired", "lost"}]

TasksInv == PlacesInv /\ StagesInv

-----------------------------------------------------------------------------
(* Sequences without repetitions.                                           *)
LEMMA InToSet ==
  ASSUME NEW S, NEW s \in Seq(S)
  PROVE  /\ \A x : x \in ToSet(s) <=> \E i \in 1..Len(s) : s[i] = x
         /\ IsInjective(s) <=> \A i, j \in 1..Len(s) : s[i] = s[j] => i = j
<1>1. DOMAIN s = 1..Len(s)
  OBVIOUS
<1> QED BY <1>1 DEF ToSet, IsInjective

LEMMA FunctionIsSeq ==
  ASSUME NEW n \in Nat, NEW f, f = [i \in 1..n |-> f[i]]
  PROVE  f \in Seq(ToSet(f)) /\ Len(f) = n /\ DOMAIN f = 1..n
<1>1. DOMAIN f = 1..n
  OBVIOUS
<1>2. \A i \in 1..n : f[i] \in ToSet(f)
  BY <1>1 DEF ToSet
<1>3. f \in [1..n -> ToSet(f)]
  BY <1>2
<1> QED BY <1>1, <1>3

LEMMA EmptySeqFacts ==
  ASSUME NEW S
  PROVE  <<>> \in Seq(S) /\ IsInjective(<<>>) /\ ToSet(<<>>) = {}
BY DEF IsInjective, ToSet

LEMMA ConcatFacts ==
  ASSUME NEW S, NEW s \in Seq(S), NEW t \in Seq(S)
  PROVE  /\ s \o t \in Seq(S)
         /\ ToSet(s \o t) = ToSet(s) \cup ToSet(t)
         /\ IsInjective(s) /\ IsInjective(t) /\ Apart(s, t) => IsInjective(s \o t)
<1> DEFINE u == s \o t
<1>1. /\ u \in Seq(S) /\ Len(u) = Len(s) + Len(t)
      /\ \A i \in 1..Len(s) : u[i] = s[i]
      /\ \A i \in 1..Len(t) : u[Len(s) + i] = t[i]
  OBVIOUS
<1>2. ASSUME NEW i \in 1..Len(u)
      PROVE  \/ i \in 1..Len(s) /\ u[i] = s[i]
             \/ i - Len(s) \in 1..Len(t) /\ u[i] = t[i - Len(s)]
  <2>1. CASE i <= Len(s)
    BY <1>1, <2>1
  <2>2. CASE i > Len(s)
    <3>1. i - Len(s) \in 1..Len(t) /\ Len(s) + (i - Len(s)) = i
      BY <1>1, <2>2
    <3> QED BY <1>1, <3>1
  <2> QED BY <2>1, <2>2
<1>3. DOMAIN u = 1..Len(u) /\ DOMAIN s = 1..Len(s) /\ DOMAIN t = 1..Len(t)
  BY <1>1
<1> HIDE DEF u
<1>4. ToSet(u) = ToSet(s) \cup ToSet(t)
  <2>1. ToSet(u) \subseteq ToSet(s) \cup ToSet(t)
    BY <1>2, <1>3 DEF ToSet
  <2>2. ASSUME NEW i \in 1..Len(s) PROVE s[i] \in ToSet(u)
    <3>1. i \in 1..Len(u) /\ u[i] = s[i]
      BY <1>1
    <3> QED BY <1>3, <3>1 DEF ToSet
  <2>3. ASSUME NEW i \in 1..Len(t) PROVE t[i] \in ToSet(u)
    <3>1. Len(s) + i \in 1..Len(u)
      BY <1>1
    <3> QED BY <1>1, <1>3, <3>1 DEF ToSet
  <2> QED BY <1>3, <2>1, <2>2, <2>3 DEF ToSet
<1>5. ASSUME IsInjective(s), IsInjective(t), Apart(s, t) PROVE IsInjective(u)
  <2> SUFFICES ASSUME NEW i \in 1..Len(u), NEW j \in 1..Len(u), u[i] = u[j] PROVE i = j
    BY <1>3 DEF IsInjective
  <2>1. \A k \in 1..Len(s) : \A m \in 1..Len(t) : s[k] # t[m]
    BY <1>3, <1>5 DEF Apart, ToSet
  <2>2. CASE i \in 1..Len(s) /\ u[i] = s[i]
    <3>1. j \in 1..Len(s) /\ u[j] = s[j]
      BY <1>2, <2>1, <2>2
    <3> QED BY <1>3, <1>5, <2>2, <3>1 DEF IsInjective
  <2>3. CASE i - Len(s) \in 1..Len(t) /\ u[i] = t[i - Len(s)]
    <3>1. j - Len(s) \in 1..Len(t) /\ u[j] = t[j - Len(s)]
      BY <1>2, <2>1, <2>3
    <3>2. i - Len(s) = j - Len(s)
      BY <1>3, <1>5, <2>3, <3>1 DEF IsInjective
    <3> QED BY <3>2, <1>1
  <2> QED BY <1>2, <2>2, <2>3
<1> QED BY <1>1, <1>4, <1>5 DEF u

LEMMA AppendFacts ==
  ASSUME NEW S, NEW s \in Seq(S), NEW x \in S, IsInjective(s), x \notin ToSet(s)
  PROVE  /\ Append(s, x) \in Seq(S) /\ IsInjective(Append(s, x))
         /\ ToSet(Append(s, x)) = ToSet(s) \cup {x}
<1> DEFINE t == <<x>>
<1>1. Append(s, x) = s \o t /\ t \in Seq(S)
  OBVIOUS
<1>2. IsInjective(t) /\ ToSet(t) = {x}
  BY DEF IsInjective, ToSet
<1> HIDE DEF t
<1>3. Apart(s, t)
  BY <1>2 DEF Apart
<1>4. s \o t \in Seq(S) /\ IsInjective(s \o t) /\ ToSet(s \o t) = ToSet(s) \cup {x}
  BY <1>1, <1>2, <1>3, ConcatFacts
<1> QED BY <1>1, <1>4

(* A sequence without repetitions that is cut in two.                       *)
LEMMA CutFacts ==
  ASSUME NEW S, NEW s \in Seq(S), NEW n \in 0..Len(s), IsInjective(s)
  PROVE  LET u == SubSeq(s, 1, n)
             v == SubSeq(s, n + 1, Len(s))
         IN /\ u \in Seq(S) /\ v \in Seq(S) /\ IsInjective(u) /\ IsInjective(v) /\ Apart(u, v)
            /\ ToSet(s) = ToSet(u) \cup ToSet(v)
<1> DEFINE u == SubSeq(s, 1, n)
           v == SubSeq(s, n + 1, Len(s))
<1>1. u \in Seq(S) /\ Len(u) = n /\ \A i \in 1..n : u[i] = s[i]
  OBVIOUS
<1>2. v \in Seq(S) /\ Len(v) = Len(s) - n /\ \A i \in 1..(Len(s) - n) : v[i] = s[n + i]
  OBVIOUS
<1>3. DOMAIN u = 1..n /\ DOMAIN v = 1..(Len(s) - n) /\ DOMAIN s = 1..Len(s)
  BY <1>1, <1>2
<1> HIDE DEF u, v
<1>4. ASSUME NEW i \in 1..Len(s), NEW j \in 1..Len(s), s[i] = s[j] PROVE i = j
  BY <1>4, InToSet
<1>5. IsInjective(u)
  BY <1>1, <1>3, <1>4 DEF IsInjective
<1>7. ASSUME NEW i \in 1..(Len(s) - n) PROVE n + i \in 1..Len(s) /\ v[i] = s[n + i]
  BY <1>2
<1>8. IsInjective(v)
  <2> SUFFICES ASSUME NEW i \in 1..(Len(s) - n), NEW j \in 1..(Len(s) - n), v[i] = v[j]
               PROVE  i = j
    BY <1>3 DEF IsInjective
  <2>1. n + i = n + j
    BY <1>4, <1>7
  <2> QED BY <2>1
<1>9. Apart(u, v)
  <2> SUFFICES ASSUME NEW i \in 1..n, NEW j \in 1..(Len(s) - n), u[i] = v[j] PROVE FALSE
    BY <1>3 DEF Apart, ToSet
  <2>1. i \in 1..Len(s) /\ u[i] = s[i] /\ n + j \in 1..Len(s) /\ v[j] = s[n + j]
    BY <1>1, <1>7
  <2>2. i = n + j
    BY <1>4, <2>1
  <2> QED BY <2>2
<1>6. ToSet(s) = ToSet(u) \cup ToSet(v)
  <2>1. ASSUME NEW i \in 1..Len(s) PROVE s[i] \in ToSet(u) \cup ToSet(v)
    <3>1. CASE i <= n
      BY <1>1, <1>3, <3>1 DEF ToSet
    <3>2. CASE i > n
      <4>1. i - n \in 1..(Len(s) - n) /\ n + (i - n) = i
        BY <3>2
      <4> QED BY <1>2, <1>3, <4>1 DEF ToSet
    <3> QED BY <3>1, <3>2
  <2>2. \A i \in 1..n : i \in DOMAIN s /\ u[i] = s[i]
    BY <1>1, <1>3
  <2>3. \A i \in 1..(Len(s) - n) : n + i \in DOMAIN s /\ v[i] = s[n + i]
    BY <1>7, <1>3
  <2>4. ToSet(u) \subseteq ToSet(s) /\ ToSet(v) \subseteq ToSet(s)
    BY <1>3, <2>2, <2>3 DEF ToSet
  <2> QED BY <1>3, <2>1, <2>4 DEF ToSet
<1> QED BY <1>1, <1>2, <1>5, <1>6, <1>8, <1>9 DEF u, v

LEMMA TailFacts ==
  ASSUME NEW S, NEW s \in Seq(S), s # <<>>, IsInjective(s)
  PROVE  /\ Tail(s) \in Seq(S) /\ IsInjective(Tail(s))
         /\ Head(s) \in S /\ Head(s) \notin ToSet(Tail(s))
         /\ ToSet(s) = ToSet(Tail(s)) \cup {Head(s)}
<1> DEFINE t == Tail(s)
<1>1. /\ t \in Seq(S) /\ Len(t) = Len(s) - 1 /\ Len(s) \in Nat /\ 1 <= Len(s)
      /\ Head(s) \in S /\ Head(s) = s[1]
      /\ \A i \in 1..Len(t) : t[i] = s[i + 1]
  OBVIOUS
<1>2. \A i \in 1..Len(t) : i + 1 \in 1..Len(s) /\ i + 1 # 1
  BY <1>1
<1>3. \A i \in 1..Len(s) : i = 1 \/ (i - 1 \in 1..Len(t) /\ s[i] = t[i - 1])
  BY <1>1
<1>4. 1 \in 1..Len(s)
  BY <1>1
<1> HIDE DEF t
<1>5. \A i, j \in 1..Len(s) : s[i] = s[j] => i = j
  BY InToSet
<1>6. \A i, j \in 1..Len(t) : t[i] = t[j] => i = j
  <2> SUFFICES ASSUME NEW i \in 1..Len(t), NEW j \in 1..Len(t), t[i] = t[j] PROVE i = j
    OBVIOUS
  <2>1. i + 1 = j + 1
    BY <1>1, <1>2, <1>5
  <2> QED BY <2>1
<1>7. Head(s) \notin ToSet(t)
  <2> SUFFICES ASSUME NEW i \in 1..Len(t), t[i] = s[1] PROVE FALSE
    BY <1>1, InToSet
  <2> QED BY <1>1, <1>2, <1>4, <1>5
<1>8. ToSet(s) \subseteq ToSet(t) \cup {Head(s)}
  <2> SUFFICES ASSUME NEW i \in 1..Len(s), i # 1 PROVE s[i] \in ToSet(t)
    BY <1>1, InToSet
  <2> QED BY <1>1, <1>3, InToSet
<1>9. ToSet(t) \cup {Head(s)} \subseteq ToSet(s)
  BY <1>1, <1>2, <1>4, InToSet
<1> QED BY <1>1, <1>6, <1>7, <1>8, <1>9, InToSet DEF t

-----------------------------------------------------------------------------
(* The requests: as many chunks as the transactions fill.                   *)
LEMMA PlacesFinite ==
  ASSUME NEW tasks \in Seq(Tasks)
  PROVE  IsFiniteSet(Firsts(tasks))
<1> DEFINE P(i) == {i} \X DOMAIN Body[tasks[i]]
           F == {P(i) : i \in DOMAIN tasks}
<1>1. DOMAIN tasks = 1..Len(tasks) /\ Len(tasks) \in Nat
  OBVIOUS
<1>2. ASSUME NEW i \in DOMAIN tasks PROVE IsFiniteSet(P(i))
  <2>1. tasks[i] \in Tasks
    OBVIOUS
  <2>2. Body[tasks[i]] \in Seq(ToSet(Body[tasks[i]]))
    BY <2>1, BroadcasterAssumption
  <2>3. DOMAIN Body[tasks[i]] = 1..Len(Body[tasks[i]]) /\ Len(Body[tasks[i]]) \in Nat
    BY <2>2
  <2>4. IsFiniteSet(DOMAIN Body[tasks[i]])
    BY <2>3, FS_Interval
  <2>5. IsFiniteSet({i})
    BY FS_Singleton
  <2> QED BY <2>4, <2>5, FS_Product
<1>3. IsFiniteSet(DOMAIN tasks)
  BY <1>1, FS_Interval
<1>4. IsFiniteSet(F)
  <2> DEFINE f == [i \in DOMAIN tasks |-> P(i)]
  <2>1. f \in Surjection(DOMAIN tasks, F)
    <3> HIDE DEF P
    <3> QED BY DEF Surjection
  <2> HIDE DEF P, f, F
  <2> QED BY <1>3, <2>1, FS_Surjection
<1>5. \A f \in F : IsFiniteSet(f)
  BY <1>2
<1> HIDE DEF F
<1>6. IsFiniteSet(UNION F)
  BY <1>4, <1>5, FS_UNION
<1>7. Firsts(tasks) \subseteq UNION F
  BY DEF Firsts, F
<1> QED BY <1>6, <1>7, FS_Subset

LEMMA ChunkBounds ==
  ASSUME NEW n \in Nat, NEW i \in 1..RoundedUp(n)
  PROVE  RoundedUp(n) \in Nat /\ (i - 1) * MaxSharedTxs + 1 <= n
<1> DEFINE m == MaxSharedTxs
           a == n + m - 1
           r == a \div m
<1>1. m \in Nat /\ m > 0 /\ a \in Nat
  BY BroadcasterAssumption
<1> HIDE DEF m, a
<1>2. r \in Nat /\ m * r <= a
  BY <1>1
<1>3. RoundedUp(n) = r
  BY DEF RoundedUp, m, a
<1> HIDE DEF r
<1>4. i \in Nat /\ i <= r
  BY <1>2, <1>3
<1>5. i * m <= r * m /\ r * m = m * r /\ (i - 1) * m = i * m - m
  BY <1>1, <1>2, <1>4
<1>6. i * m \in Int /\ r * m \in Int
  BY <1>1, <1>2, <1>4
<1>7. (i - 1) * m <= a - m
  BY <1>1, <1>2, <1>5, <1>6
<1> QED BY <1>1, <1>2, <1>3, <1>7 DEF a, m

(* No request is empty, and none takes more than its limit.                 *)
LEMMA MergedSizes ==
  ASSUME NEW tasks \in Seq(Tasks)
  PROVE  /\ Merged(tasks) \in Seq(ToSet(Merged(tasks)))
         /\ \A i \in DOMAIN Merged(tasks) : Len(Merged(tasks)[i]) \in 1..MaxSharedTxs
<1> DEFINE all == Unique(tasks)
           n == Cardinality(Firsts(tasks))
           low(i) == (i - 1) * MaxSharedTxs + 1
           high(i) == Min({i * MaxSharedTxs, n})
<1>1. n \in Nat
  BY PlacesFinite, FS_CardinalityType
<1>2. all \in Seq(ToSet(all)) /\ Len(all) = n
  <2>1. all = [k \in 1..n |-> all[k]]
    BY DEF Unique
  <2> HIDE DEF n, all
  <2> QED BY <1>1, <2>1, FunctionIsSeq
<1>3. Merged(tasks) = [i \in 1..RoundedUp(n) |-> SubSeq(all, low(i), high(i))]
  BY <1>2 DEF Merged, Chunks
<1> HIDE DEF n, all
<1>4. ASSUME NEW i \in 1..RoundedUp(n)
      PROVE  Len(SubSeq(all, low(i), high(i))) \in 1..MaxSharedTxs
  <2> DEFINE m == MaxSharedTxs
  <2>1. m \in Nat /\ m > 0 /\ i \in Nat /\ i > 0
    BY BroadcasterAssumption
  <2>2. (i - 1) * m + 1 <= n
    BY <1>1, ChunkBounds
  <2> DEFINE a == (i - 1) * m
             b == i * m
  <2>3. a \in Nat /\ b \in Nat /\ b = a + m
    BY <2>1
  <2> HIDE DEF a, b, m
  <2>4. high(i) \in {b, n} /\ high(i) <= b /\ high(i) <= n
    <3>1. \E x \in {b, n} : \A y \in {b, n} : x <= y
      BY <1>1, <2>3
    <3>2. high(i) = CHOOSE x \in {b, n} : \A y \in {b, n} : x <= y
      BY DEF Min, b, m
    <3> HIDE DEF high
    <3> QED BY <3>1, <3>2, <1>1, <2>3
  <2>5. low(i) = a + 1 /\ a + 1 <= n
    BY <2>2 DEF a, m
  <2> HIDE DEF low, high
  <2>6. low(i) \in 1..Len(all) /\ high(i) \in low(i)..Len(all) /\ high(i) - low(i) + 1 \in 1..m
    BY <1>1, <1>2, <2>1, <2>3, <2>4, <2>5
  <2>7. Len(SubSeq(all, low(i), high(i))) = high(i) - low(i) + 1
    BY <1>2, <2>6
  <2> QED BY <2>6, <2>7 DEF m
<1>5. RoundedUp(n) \in Nat
  <2>1. MaxSharedTxs \in Nat /\ MaxSharedTxs > 0 /\ n + MaxSharedTxs - 1 \in Nat
    BY <1>1, BroadcasterAssumption
  <2> QED BY <2>1 DEF RoundedUp
<1> HIDE DEF low, high
<1>6. Merged(tasks) = [i \in 1..RoundedUp(n) |-> Merged(tasks)[i]]
  BY <1>3
<1>7. Merged(tasks) \in Seq(ToSet(Merged(tasks))) /\ DOMAIN Merged(tasks) = 1..RoundedUp(n)
  BY <1>5, <1>6, FunctionIsSeq
<1> QED BY <1>3, <1>4, <1>7

-----------------------------------------------------------------------------
(* The four places, one after the other, hold each task once.               *)
LEMMA TasksImplied == TasksInv => BroadcasterTypeOK
<1> SUFFICES ASSUME TasksInv PROVE BroadcasterTypeOK
  OBVIOUS
<1> USE DEF TasksInv
<1> DEFINE two == queue \o old
           three == two \o kept
           four == three \o batch
<1>1. two \in Seq(Tasks) /\ IsInjective(two) /\ ToSet(two) = ToSet(queue) \cup ToSet(old)
  BY ConcatFacts DEF PlacesInv
<1> HIDE DEF two
<1>2. Apart(two, kept)
  BY <1>1 DEF PlacesInv, Apart
<1>3. three \in Seq(Tasks) /\ IsInjective(three) /\ ToSet(three) = ToSet(two) \cup ToSet(kept)
  BY <1>1, <1>2, ConcatFacts DEF PlacesInv
<1> HIDE DEF three
<1>4. Apart(three, batch)
  BY <1>1, <1>3 DEF PlacesInv, Apart
<1>5. IsInjective(four) /\ ToSet(four) = ToSet(three) \cup ToSet(batch)
  BY <1>3, <1>4, ConcatFacts DEF PlacesInv
<1>6. ToSet(four) = {t \in Tasks : fate[t] = "queued"}
  BY <1>1, <1>3, <1>5 DEF PlacesInv
<1> HIDE DEF four
<1>7. queue \o old \o kept \o batch = four
  BY DEF four, three, two
<1> QED BY <1>5, <1>6, <1>7 DEF BroadcasterTypeOK, StagesInv

LEMMA InitTasksInv == BroadcasterInit => TasksInv
<1> SUFFICES ASSUME BroadcasterInit PROVE TasksInv
  OBVIOUS
<1>1. PlacesInv
  BY EmptySeqFacts DEF BroadcasterInit, PlacesInv, Apart
<1>2. StagesInv
  BY EmptySeqFacts, BroadcasterAssumption DEF BroadcasterInit, StagesInv
<1> QED BY <1>1, <1>2 DEF TasksInv

(* What becomes of tasks. *)
LEMMA BecomeFacts ==
  ASSUME StagesInv, NEW S \in SUBSET Tasks,
         NEW what \in {"queued", "relayed", "sent", "expired", "lost"}, Become(S, what)
  PROVE  /\ fate' \in [Tasks -> {"none", "queued", "relayed", "sent", "expired", "lost"}]
         /\ {t \in Tasks : fate'[t] = "queued"}
              = IF what = "queued" THEN {t \in Tasks : fate[t] = "queued"} \cup S
                ELSE {t \in Tasks : fate[t] = "queued"} \ S
BY DEF Become, StagesInv

LEMMA EnqueueStep ==
  ASSUME TasksInv, NEW t \in Tasks, Enqueue(t)
  PROVE  TasksInv'
<1> USE DEF TasksInv
<1>1. t \notin {x \in Tasks : fate[x] = "queued"} /\ UNCHANGED <<old, kept, batch>>
  BY DEF Enqueue, work
<1>2. CASE Relayable(t)
  <2>1. queue' = Append(queue, t) /\ Become({t}, "queued")
    BY <1>2 DEF Enqueue
  <2>2. /\ queue' \in Seq(Tasks) /\ IsInjective(queue') /\ ToSet(queue') = ToSet(queue) \cup {t}
    BY <1>1, <2>1, AppendFacts DEF PlacesInv
  <2>3. PlacesInv'
    BY <1>1, <2>1, <2>2, BecomeFacts DEF PlacesInv, Apart
  <2>4. StagesInv'
    BY <2>1, BecomeFacts DEF Enqueue, work, StagesInv
  <2> QED BY <2>3, <2>4
<1>3. CASE ~Relayable(t)
  <2>1. queue' = queue /\ Become({t}, "relayed")
    BY <1>3 DEF Enqueue
  <2>2. PlacesInv'
    BY <1>1, <2>1, BecomeFacts DEF PlacesInv, Apart
  <2>3. StagesInv'
    BY <2>1, BecomeFacts DEF Enqueue, work, StagesInv
  <2> QED BY <2>2, <2>3
<1> QED BY <1>2, <1>3

(* filterQueue takes the queue, which others may fill again. *)
LEMMA ReleaseStep ==
  ASSUME TasksInv, Release
  PROVE  TasksInv'
<1> USE DEF TasksInv
<1>1. /\ old = <<>> /\ kept = <<>> /\ batch = <<>> /\ requests = <<>>
      /\ old' = queue /\ queue' = <<>> /\ UNCHANGED <<kept, batch, requests, failures, fate>>
      /\ release' = "filtering"
  BY DEF Release, LeftBehind, Taken, StagesInv
<1>2. PlacesInv'
  BY <1>1, EmptySeqFacts DEF PlacesInv, Apart
<1>3. StagesInv'
  BY <1>1 DEF StagesInv
<1> QED BY <1>2, <1>3

(* A task is looked at: it goes, or it is kept behind the others. *)
LEMMA FilterStep ==
  ASSUME TasksInv, Filter
  PROVE  TasksInv'
<1> USE DEF TasksInv
<1> DEFINE t == Head(old)
<1>1. old # <<>> /\ old' = Tail(old) /\ release = "filtering"
      /\ UNCHANGED <<queue, release, batch, requests, failures>>
  BY DEF Filter
<1>2. /\ old' \in Seq(Tasks) /\ IsInjective(old') /\ t \in Tasks /\ t \notin ToSet(old')
      /\ ToSet(old) = ToSet(old') \cup {t}
  BY <1>1, TailFacts DEF PlacesInv
<1> HIDE DEF t
<1>3. CASE Expired(t)
  <2>1. Become({t}, "expired") /\ kept' = kept
    BY <1>3 DEF Filter, t
  <2>2. PlacesInv'
    BY <1>1, <1>2, <2>1, BecomeFacts DEF PlacesInv, Apart
  <2>3. StagesInv'
    BY <1>1, <1>2, <2>1, BecomeFacts DEF StagesInv
  <2> QED BY <2>2, <2>3
<1>4. CASE ~Expired(t)
  <2>1. kept' = Append(kept, t) /\ fate' = fate
    BY <1>4 DEF Filter, t
  <2>2. t \notin ToSet(kept)
    BY <1>2 DEF PlacesInv, Apart
  <2>3. kept' \in Seq(Tasks) /\ IsInjective(kept') /\ ToSet(kept') = ToSet(kept) \cup {t}
    BY <1>2, <2>1, <2>2, AppendFacts DEF PlacesInv
  <2>4. PlacesInv'
    BY <1>1, <1>2, <2>1, <2>3 DEF PlacesInv, Apart
  <2>5. StagesInv'
    BY <1>1, <2>1 DEF StagesInv
  <2> QED BY <2>4, <2>5
<1> QED BY <1>3, <1>4

(* A query fails: what was taken and kept is lost, and nothing else. *)
LEMMA FilterFailsStep ==
  ASSUME TasksInv, FilterFails
  PROVE  TasksInv'
<1> USE DEF TasksInv
<1>1. /\ Become(ToSet(old) \cup ToSet(kept), "lost") /\ old' = <<>> /\ kept' = <<>>
      /\ release = "filtering" /\ release' \in {"off", "timer"}
      /\ UNCHANGED <<queue, batch, requests>>
      /\ failures < MaxFailures /\ failures' = failures + 1
  BY DEF FilterFails, Scheduled
<1>2. ToSet(old) \cup ToSet(kept) \in SUBSET Tasks
  BY DEF PlacesInv
<1>3. PlacesInv'
  BY <1>1, <1>2, BecomeFacts, EmptySeqFacts DEF PlacesInv, Apart
<1>4. failures' \in 0..MaxFailures
  BY <1>1, BroadcasterAssumption DEF StagesInv
<1>5. StagesInv'
  BY <1>1, <1>2, <1>4, BecomeFacts DEF StagesInv
<1> QED BY <1>3, <1>5

(* The survivors go back behind the queue, whose head is the batch. *)
LEMMA SquashStep ==
  ASSUME TasksInv, Squash
  PROVE  TasksInv'
<1> USE DEF TasksInv
<1> DEFINE requeued == queue \o kept
           n == Min({ReleaseLimit, Len(requeued)})
<1>1. /\ release = "filtering" /\ old = <<>> /\ kept' = <<>> /\ release' = "sending"
      /\ batch' = SubSeq(requeued, 1, n)
      /\ queue' = SubSeq(requeued, n + 1, Len(requeued))
      /\ requests' = Merged(batch')
      /\ UNCHANGED <<old, failures, fate>>
  BY DEF Squash
<1>2. batch = <<>>
  BY <1>1 DEF StagesInv
<1>3. /\ requeued \in Seq(Tasks) /\ IsInjective(requeued)
      /\ ToSet(requeued) = ToSet(queue) \cup ToSet(kept)
  BY ConcatFacts DEF PlacesInv
<1> HIDE DEF requeued
<1>4. n \in 0..Len(requeued)
  <2>1. Len(requeued) \in Nat /\ ReleaseLimit \in Nat
    BY <1>3, BroadcasterAssumption
  <2>2. \E x \in {ReleaseLimit, Len(requeued)} :
          \A y \in {ReleaseLimit, Len(requeued)} : x <= y
    BY <2>1
  <2> QED BY <2>1, <2>2 DEF Min
<1> HIDE DEF n
<1>5. /\ batch' \in Seq(Tasks) /\ queue' \in Seq(Tasks)
      /\ IsInjective(batch') /\ IsInjective(queue') /\ Apart(batch, queue)'
      /\ ToSet(requeued) = ToSet(batch') \cup ToSet(queue')
  <2>1. LET u == SubSeq(requeued, 1, n)
            v == SubSeq(requeued, n + 1, Len(requeued))
        IN /\ u \in Seq(Tasks) /\ v \in Seq(Tasks) /\ IsInjective(u) /\ IsInjective(v)
           /\ Apart(u, v) /\ ToSet(requeued) = ToSet(u) \cup ToSet(v)
    BY <1>3, <1>4, CutFacts
  <2> QED BY <1>1, <2>1 DEF Apart
<1>6. PlacesInv'
  BY <1>1, <1>2, <1>3, <1>5, EmptySeqFacts DEF PlacesInv, Apart
<1>7. StagesInv'
  <2>1. /\ requests' \in Seq(ToSet(requests'))
        /\ \A i \in DOMAIN requests' : Len(requests'[i]) \in 1..MaxSharedTxs
    BY <1>1, <1>5, MergedSizes
  <2> QED BY <1>1, <2>1 DEF StagesInv
<1> QED BY <1>6, <1>7

(* The requests leave one after the other, then their tasks are done. *)
LEMMA SendStep ==
  ASSUME TasksInv, Send \/ Sent
  PROVE  TasksInv'
<1> USE DEF TasksInv
<1>1. CASE Send
  <2>1. release = "sending" /\ requests # <<>> /\ requests' = Tail(requests)
        /\ UNCHANGED <<queue, release, old, kept, batch, failures, fate>>
    BY <1>1 DEF Send
  <2>2. PlacesInv'
    BY <2>1 DEF PlacesInv, Apart
  <2>3. /\ requests' \in Seq(ToSet(requests'))
        /\ \A i \in DOMAIN requests' : Len(requests'[i]) \in 1..MaxSharedTxs
    <3> DEFINE R == ToSet(requests)
    <3>1. /\ requests' \in Seq(R) /\ Len(requests') = Len(requests) - 1
          /\ \A i \in 1..Len(requests') : requests'[i] = requests[i + 1]
          /\ Len(requests) \in Nat
      <4>1. requests \in Seq(R)
        BY DEF StagesInv
      <4> HIDE DEF R
      <4> QED BY <2>1, <4>1
    <3>2. DOMAIN requests' = 1..Len(requests') /\ DOMAIN requests = 1..Len(requests)
      BY <3>1 DEF StagesInv
    <3>3. requests' = [i \in 1..Len(requests') |-> requests'[i]] /\ Len(requests') \in Nat
      BY <3>1
    <3>4. \A i \in 1..Len(requests') : i + 1 \in DOMAIN requests
      BY <3>1, <3>2
    <3> QED BY <3>1, <3>2, <3>3, <3>4, FunctionIsSeq DEF StagesInv
  <2>4. StagesInv'
    BY <2>1, <2>3 DEF StagesInv
  <2> QED BY <2>2, <2>4
<1>2. CASE Sent
  <2>1. /\ release = "sending" /\ requests = <<>> /\ Become(ToSet(batch), "sent")
        /\ batch' = <<>> /\ release' \in {"off", "timer"}
        /\ UNCHANGED <<queue, old, kept, requests, failures>>
    BY <1>2 DEF Sent, Scheduled
  <2>2. ToSet(batch) \in SUBSET Tasks
    BY DEF PlacesInv
  <2>3. PlacesInv'
    BY <2>1, <2>2, BecomeFacts, EmptySeqFacts DEF PlacesInv, Apart
  <2>4. StagesInv'
    BY <2>1, <2>2, BecomeFacts DEF StagesInv
  <2> QED BY <2>3, <2>4
<1> QED BY <1>1, <1>2

LEMMA AsideStep ==
  ASSUME TasksInv, Cleanup \/ (\E t \in Tasks : Confirm(t)) \/ UNCHANGED broadcasterVars
  PROVE  TasksInv'
<1>1. /\ UNCHANGED <<queue, old, kept, batch, requests, failures, fate>>
      /\ release' = release \/ (release = "timer" /\ release' = "off")
  BY DEF Cleanup, Confirm, broadcasterVars, work
<1> QED BY <1>1 DEF TasksInv, PlacesInv, StagesInv, Apart

LEMMA NextTasksInv == TasksInv /\ [BroadcasterNext]_broadcasterVars => TasksInv'
BY EnqueueStep, ReleaseStep, FilterStep, FilterFailsStep, SquashStep, SendStep, AsideStep DEF BroadcasterNext

-----------------------------------------------------------------------------
(* The invariant, of every behaviour. *)
THEOREM TasksInvariant == BroadcasterSpec => []TasksInv
BY InitTasksInv, NextTasksInv, PTL DEF BroadcasterSpec

(* Whatever is enqueued while a release waits for the database or for its   *)
(* peers, and also when a query fails, no task is doubled or forgotten      *)
(* (broadcaster.ts filterQueue), and no request is empty or larger than     *)
(* maxSharedTxs (PostTransactionsRequest.ts mergeRequests).                 *)
THEOREM TasksInOnePlace == BroadcasterSpec => []BroadcasterTypeOK
BY TasksImplied, TasksInvariant, PTL
=============================================================================
