------------------------------ MODULE NodeControl ------------------------------
(***************************************************************************)
(* The command line (packages/cli) and what it controls: the processes of  *)
(* the node with their boot (core loader.ts), the database server, the     *)
(* lock files, the backups and the snapshots.                              *)
(*                                                                         *)
(* Operators in several shells follow a plan, a sequence of commands each. *)
(* A command is a sequence of steps, one per await of its function; a step *)
(* that throws ends the command, through the finally blocks around it.     *)
(* A database is the number of its blocks and the height its accounts were *)
(* computed up to; pg_dump writes the blocks before the accounts.          *)
(***************************************************************************)
EXTENDS SequencesExt, FiniteSetsExt, Integers

CONSTANTS
  Shells, None,
  Plans,           \* the sessions: for each shell the commands it runs
  R,               \* activeDelegates
  Published,       \* the height of the snapshot that can be downloaded
  \* bounds of the model
  Heights,         \* the heights of the database at the beginning
  MaxHeight, MaxNodes, MaxFaults

ASSUME NodeControlAssumption ==
  /\ {R, Published} \subseteq Nat \ {0} /\ Published % R = 0 /\ Published <= MaxHeight
  /\ {MaxHeight, MaxNodes, MaxFaults} \subseteq Nat /\ Heights \subseteq 1..MaxHeight
  /\ None \notin Nat \cup {"ok", "signal"} \cup [blocks : Nat, accounts : Nat]

VARIABLES
  node,            \* node[p]: the process p of a node
  lock,            \* the node lock: a process, or None
  held,            \* held[l]: who holds the lock l: a shell, "stale" or None
  server,          \* whether the database server runs
  db,              \* db["main"], db["snap"]: a database, or None
  files,           \* the backups and snapshots written
  latest, fetched, \* the contents of backups/latest and of the downloaded file
  cmd,             \* cmd[c]: the command that runs in a shell
  plan,            \* plan[c]: the commands to come
  overlapped,      \* history: two commands have run at once, or one was killed
  faults

store == <<server, db, files, latest, fetched>>
vars == <<node, lock, held, store, cmd, plan, overlapped, faults>>

Pids == 1..MaxNodes

--------------------------------------------------------------------------
(* The commands: steps, each with the locks its finally blocks remove *)

Steps(locks, ops) == [i \in DOMAIN ops |-> [op |-> ops[i], frees |-> locks]]
Within(l, steps) == [i \in DOMAIN steps |-> [steps[i] EXCEPT !.frees = @ \cup {l}]]

NodeStop == Steps({}, <<"signal", "unlock">>)
NodeStart == Steps({}, <<"check node", "spawn", "await">>)
DbStart == Steps({}, <<"check server">>) \o NodeStop \o Steps({}, <<"up">>)
DbInit == NodeStop \o Steps({}, <<"down", "wipe">>) \o DbStart \o Steps({}, <<"create main">>)
ExportDB ==
  Within("backup", Steps({}, <<"check backup", "lock backup">>) \o NodeStop \o
    Steps({}, <<"drop snap", "vacuum", "create snap", "copy", "height", "dump", "drop snap",
                "free backup">>))
ImportDB(file) ==
  Within("backup", Steps({}, <<"check import", "lock backup">>) \o NodeStop \o
    Steps({}, <<"drop main", "create main", file, "free backup">>))
ExportSnapshot ==
  Within("snapshot", Steps({}, <<"check snapshot", "lock snapshot">>) \o ExportDB \o
    Steps({}, <<"drop snap", "create snap", "load snap", "check node", "spawn verifying",
                "await", "dump snap", "drop snap", "free snapshot">>))
DownloadSnapshot == Steps({}, <<"download">>) \o ImportDB("load fetched")

Program == [
  start |-> NodeStart,
  restart |-> NodeStop \o NodeStart,
  stop |-> NodeStop,
  kill |-> Steps({}, <<"kill all">>),
  dbstart |-> DbStart,
  dbstop |-> Steps({}, <<"down">>),
  export |-> ExportDB,
  import |-> ImportDB("load latest"),
  snapshot |-> ExportSnapshot,
  setup |-> Steps({}, <<"down", "kill all">>) \o NodeStop \o Steps({}, <<"down">>) \o DbInit
            \o DownloadSnapshot \o NodeStart]

ASSUME PlansAssumption == Plans \subseteq [Shells -> Seq(DOMAIN Program)]

Idle == [name |-> None, at |-> 0, pid |-> None, verifying |-> FALSE, ready |-> FALSE,
         rebuilt |-> FALSE, height |-> 0, clean |-> TRUE]
Commands(c) == Program[cmd[c].name]
Active(c) == cmd[c].name # None
Doing(c, op) == Active(c) /\ Commands(c)[cmd[c].at].op = op
Foreground(c) == cmd[c].name = "snapshot"

\* The command c goes n steps further, with what it now knows; or it throws
Onward(k, n) == IF k.at + n > Len(Program[k.name]) THEN Idle ELSE [k EXCEPT !.at = @ + n]
Skip(c, n) == cmd' = [cmd EXCEPT ![c] = Onward(@, n)]
Done(c) == Skip(c, 1)
Freed(locks) == [l \in DOMAIN held |-> IF l \in locks THEN None ELSE held[l]]
Throws(c) ==
  /\ cmd' = [cmd EXCEPT ![c] = Idle]
  /\ held' = Freed(Commands(c)[cmd[c].at].frees)
DoneOr(c, condition) == IF condition THEN Done(c) /\ UNCHANGED held ELSE Throws(c)
Fault == faults < MaxFaults /\ faults' = faults + 1
Unclean(S) == [c \in Shells |-> IF c \in S /\ Active(c) THEN [cmd[c] EXCEPT !.clean = FALSE] ELSE cmd[c]]

--------------------------------------------------------------------------
(* Processes and databases *)

Alive(p) == node[p].phase \in {"boot", "load", "ready"}
NoNode == [phase |-> "none", on |-> "main", verifying |-> FALSE, announced |-> FALSE,
           stopping |-> FALSE, code |-> None]
Empty == [blocks |-> 0, accounts |-> 0]
Usable(d) == server /\ db[d] # None
Connected(d) == \E p \in Pids : Alive(p) /\ node[p].on = d
\* A copy that breaks off: no exit code but the last one of the pipe is looked at
Partial(x) == {Empty, [x EXCEPT !.accounts = 0]}

Init ==
  /\ node = [p \in Pids |-> NoNode] /\ lock = None
  /\ held = [l \in {"backup", "snapshot"} |-> None]
  /\ server = TRUE
  /\ \E h \in Heights : db = [main |-> [blocks |-> h, accounts |-> h], snap |-> None]
  /\ files = {} /\ latest = None /\ fetched = None
  /\ cmd = [c \in Shells |-> Idle]
  /\ plan \in Plans
  /\ overlapped = FALSE /\ faults = 0

Begin(c) ==
  LET others == {o \in Shells : Active(o)}
      new == [Idle EXCEPT !.name = Head(plan[c]), !.at = 1]
  IN /\ ~Active(c) /\ plan[c] # <<>>
     /\ plan' = [plan EXCEPT ![c] = Tail(@)]
     /\ cmd' = [Unclean(others) EXCEPT ![c] = [new EXCEPT !.clean = (others = {})]]
     /\ overlapped' = (overlapped \/ others # {})
     /\ UNCHANGED <<node, lock, held, store, faults>>

\* The process of a command is killed: no finally block runs
Crash(c) ==
  /\ Active(c) /\ Fault
  /\ cmd' = [cmd EXCEPT ![c] = Idle]
  /\ held' = [l \in DOMAIN held |-> IF held[l] = c THEN "stale" ELSE held[l]]
  /\ overlapped' = TRUE
  /\ UNCHANGED <<node, lock, store, plan>>

--------------------------------------------------------------------------
(* The locks *)

\* getPID: a lock whose process is gone is removed
Collected == IF lock # None /\ ~Alive(lock) THEN None ELSE lock
Taken(l) == held[l] \notin {None, "stale"}

\* checkConditions of the exports; the refused command removes the lock all the same
Check(c, op, l) ==
  /\ Doing(c, op)
  /\ IF Taken(l) THEN Throws(c) ELSE Done(c) /\ held' = Freed({l})
  /\ UNCHANGED <<node, lock, store, plan, overlapped, faults>>
Lock(c, op, l) ==
  /\ Doing(c, op)
  /\ held' = [held EXCEPT ![l] = c]
  /\ Done(c)
  /\ UNCHANGED <<node, lock, store, plan, overlapped, faults>>
Free(c, op, l) ==
  /\ Doing(c, op)
  /\ held' = Freed({l})
  /\ Done(c)
  /\ UNCHANGED <<node, lock, store, plan, overlapped, faults>>

\* checkConditions of import-db: a refused import returns as if it had been done, and
\* removes the lock it was refused for; a node that runs is killed, its lock stays
File(c) == IF cmd[c].name = "import" THEN latest ELSE fetched
CheckImport(c) ==
  /\ Doing(c, "check import")
  /\ IF Taken("backup") \/ File(c) = None
     THEN Skip(c, Len(ImportDB("load latest"))) /\ held' = Freed({"backup"}) /\ UNCHANGED <<node, lock>>
     ELSE /\ Done(c) /\ held' = Freed({"backup"})
          /\ lock' = Collected
          /\ node' = IF Collected = None THEN node ELSE [node EXCEPT ![Collected].stopping = TRUE]
  /\ UNCHANGED <<store, plan, overlapped, faults>>

--------------------------------------------------------------------------
(* Start and stop of the node *)

\* nodeStop: the process of the lock is told to end, and nobody waits until it has
Signal(c) ==
  /\ Doing(c, "signal")
  /\ lock' = Collected
  /\ IF Collected = None THEN Skip(c, 2) /\ UNCHANGED node
     ELSE Done(c) /\ node' = [node EXCEPT ![Collected].stopping = TRUE]
  /\ UNCHANGED <<held, store, plan, overlapped, faults>>
Unlock(c) ==
  /\ Doing(c, "unlock")
  /\ lock' = None
  /\ Done(c)
  /\ UNCHANGED <<node, held, store, plan, overlapped, faults>>

\* node kill: every node is, and the lock stays
KillAll(c) ==
  /\ Doing(c, "kill all")
  /\ node' = [p \in Pids |-> IF Alive(p) THEN [node[p] EXCEPT !.stopping = TRUE] ELSE node[p]]
  /\ Done(c)
  /\ UNCHANGED <<lock, held, store, plan, overlapped, faults>>

CheckNode(c) ==
  /\ Doing(c, "check node")
  /\ lock' = Collected
  /\ DoneOr(c, Collected = None)
  /\ UNCHANGED <<node, store, plan, overlapped, faults>>

\* startLaunchpad, with -s on the other database when a snapshot is verified
LockOf(p) == p
(* Mutant: the lock is written when the node is ready, and not before. *)
LockWhenReady(p) == lock
StartingLock(p) == LockOf(p)
Spawn(c) ==
  LET verifying == Doing(c, "spawn verifying") /\ ~cmd[c].rebuilt
  IN /\ Doing(c, "spawn") \/ Doing(c, "spawn verifying")
     /\ \E p \in Pids :
          /\ node[p].phase = "none" /\ \A q \in 1..(p - 1) : node[q].phase # "none"
          /\ node' = [node EXCEPT ![p] = [NoNode EXCEPT !.phase = "boot", !.verifying = verifying,
                                            !.on = IF verifying THEN "snap" ELSE "main"]]
          /\ lock' = StartingLock(p)
          /\ cmd' = [cmd EXCEPT ![c] = [Onward(@, 1) EXCEPT !.pid = p, !.verifying = verifying]]
     /\ UNCHANGED <<held, store, plan, overlapped, faults>>

\* "Blockchain ready" in the output: the lock is written again; a start in the
\* background has ended
SeeReady(c) ==
  /\ Doing(c, "await") /\ node[cmd[c].pid].announced /\ ~cmd[c].ready
  /\ lock' = cmd[c].pid
  /\ cmd' = [cmd EXCEPT ![c] = IF Foreground(c) THEN [@ EXCEPT !.ready = TRUE] ELSE Onward(@, 1)]
  /\ UNCHANGED <<node, held, store, plan, overlapped, faults>>

\* The process has ended.  Its exit code, zero or not; a signal leaves none, which
\* is taken for zero
Resolves(code) == code \in {"ok", "signal"}
(* Mutant: the exit code is not looked at. *)
ResolvesAnyway(code) == code # "native"
Accepted(code) == Resolves(code)
HasEnded(p) == node[p].phase = "gone"
(* Mutant: the end of a process without an exit code goes unnoticed. *)
HasExited(p) == node[p].phase = "gone" /\ node[p].code # "signal"
Closed(p) == HasEnded(p)
SeeClose(c) ==
  LET p == cmd[c].pid
  IN /\ Doing(c, "await") /\ Closed(p)
     /\ node[p].announced => cmd[c].ready
     /\ node[p].code # "native" \/ cmd[c].rebuilt
     /\ DoneOr(c, Accepted(node[p].code) /\ (cmd[c].ready \/ cmd[c].verifying))
     /\ UNCHANGED <<node, lock, store, plan, overlapped, faults>>

\* The native modules are rebuilt and the node started again: neither the check of
\* the lock nor verifySnapshot are passed on
Rebuild(c) ==
  LET p == cmd[c].pid
  IN /\ Doing(c, "await") /\ node[p].phase = "gone" /\ node[p].code = "native"
     /\ ~cmd[c].rebuilt
     /\ cmd' = [cmd EXCEPT ![c].at = @ - 1, ![c].rebuilt = TRUE, ![c].clean = FALSE]
     /\ UNCHANGED <<node, lock, held, store, plan, overlapped, faults>>

\* Two minutes in the background
Timeout(c) ==
  /\ Doing(c, "await") /\ ~Foreground(c) /\ Alive(cmd[c].pid) /\ ~node[cmd[c].pid].announced
  /\ ~node[cmd[c].pid].stopping
  /\ node' = [node EXCEPT ![cmd[c].pid].stopping = TRUE]
  /\ UNCHANGED <<lock, held, store, cmd, plan, overlapped, faults>>

\* Ctrl-C: the node is told to end and the lock removed, whatever it names
Interrupt(c) ==
  /\ Doing(c, "await") /\ Alive(cmd[c].pid) /\ Fault
  /\ node' = [node EXCEPT ![cmd[c].pid].stopping = TRUE]
  /\ lock' = None
  /\ cmd' = Unclean({c})
  /\ UNCHANGED <<held, store, plan, overlapped>>

--------------------------------------------------------------------------
(* The server and its databases *)

CheckServer(c) ==
  /\ Doing(c, "check server")
  /\ Skip(c, IF server THEN Len(DbStart) ELSE 1)
  /\ UNCHANGED <<node, lock, held, store, plan, overlapped, faults>>
Switch(c, op, on) ==
  /\ Doing(c, op)
  /\ server' = on
  /\ Done(c)
  /\ UNCHANGED <<node, lock, held, db, files, latest, fetched, plan, overlapped, faults>>

\* The data directory is removed and made again
Wipe(c) ==
  /\ Doing(c, "wipe")
  /\ db' = [d \in DOMAIN db |-> None]
  /\ Done(c)
  /\ UNCHANGED <<node, lock, held, server, files, latest, fetched, plan, overlapped, faults>>

\* dropdb and createdb: a database with connections cannot be dropped
Drop(c, op, d) ==
  /\ Doing(c, op)
  /\ DoneOr(c, server /\ ~Connected(d))
  /\ db' = IF server /\ ~Connected(d) THEN [db EXCEPT ![d] = None] ELSE db
  /\ UNCHANGED <<node, lock, server, files, latest, fetched, plan, overlapped, faults>>
Create(c, op, d) ==
  /\ Doing(c, op)
  /\ DoneOr(c, server /\ db[d] = None)
  /\ db' = IF server /\ db[d] = None THEN [db EXCEPT ![d] = Empty] ELSE db
  /\ UNCHANGED <<node, lock, server, files, latest, fetched, plan, overlapped, faults>>

Vacuum(c) ==
  /\ Doing(c, "vacuum")
  /\ DoneOr(c, Usable("main"))
  /\ UNCHANGED <<node, lock, store, plan, overlapped, faults>>

\* What a pipe delivers of x: all of it, or, with a fault, a part
Delivers(c, x, y) ==
  \/ y = x /\ Done(c) /\ UNCHANGED faults
  \/ y \in Partial(x) /\ Fault /\ cmd' = [cmd EXCEPT ![c] = [Onward(@, 1) EXCEPT !.clean = FALSE]]

\* pg_dump main | psql snap: that it fails is only logged
Copy(c) ==
  /\ Doing(c, "copy")
  /\ IF Usable("main") /\ Usable("snap")
     THEN \E y \in Partial(db.main) \cup {db.main} :
            Delivers(c, db.main, y) /\ db' = [db EXCEPT !.snap = y]
     ELSE Done(c) /\ UNCHANGED <<db, faults>>
  /\ UNCHANGED <<node, lock, held, server, files, latest, fetched, plan, overlapped>>

\* The height is read from the main database
Height(c) ==
  /\ Doing(c, "height")
  /\ IF Usable("main") /\ db.main.blocks > 0
     THEN cmd' = [cmd EXCEPT ![c] = [Onward(@, 1) EXCEPT !.height = db.main.blocks]] /\ UNCHANGED held
     ELSE Throws(c)
  /\ UNCHANGED <<node, lock, store, plan, overlapped, faults>>

\* pg_dump snap | gzip > file: it fails for the disk only
Content(d) == IF Usable(d) THEN db[d] ELSE Empty
Written(c, kind, height, y) ==
  files' = files \cup {[kind |-> kind, height |-> height, content |-> y,
                        clean |-> cmd[c].clean /\ faults' = faults]}
Dump(c) ==
  /\ Doing(c, "dump")
  /\ \E y \in Partial(Content("snap")) \cup {Content("snap")} :
       /\ Delivers(c, Content("snap"), y)
       /\ latest' = y
       /\ Written(c, "backup", cmd[c].height, y)
  /\ UNCHANGED <<node, lock, held, server, db, fetched, plan, overlapped>>
DumpSnap(c) ==
  /\ Doing(c, "dump snap")
  /\ IF Usable("snap")
     THEN \E y \in Partial(db.snap) \cup {db.snap} :
            /\ Delivers(c, db.snap, y)
            /\ Written(c, "snapshot", db.snap.blocks, y)
            /\ UNCHANGED held
     ELSE Throws(c) /\ UNCHANGED <<files, faults>>
  /\ UNCHANGED <<node, lock, server, db, latest, fetched, plan, overlapped>>

\* The download: refused, broken off or complete
Download(c) ==
  /\ Doing(c, "download")
  /\ \/ /\ fetched' = [blocks |-> Published, accounts |-> Published]
        /\ Done(c) /\ UNCHANGED <<held, faults>>
     \/ fetched' = Empty /\ Done(c) /\ Fault /\ UNCHANGED held
     \/ Throws(c) /\ Fault /\ UNCHANGED fetched
  /\ UNCHANGED <<node, lock, server, db, files, latest, plan, overlapped>>

\* gunzip file | psql: that it fails shows in the queries that follow, when there is no
\* table to query
Load(c, op, d, file) ==
  /\ Doing(c, op)
  /\ IF Usable(d) /\ file \notin {Empty, None}
     THEN \/ /\ \E y \in (Partial(file) \cup {file}) \ {Empty} :
                  Delivers(c, file, y) /\ db' = [db EXCEPT ![d] = y]
             /\ UNCHANGED held
          \/ Throws(c) /\ Fault /\ UNCHANGED db
     ELSE Throws(c) /\ UNCHANGED <<db, faults>>
  /\ UNCHANGED <<node, lock, server, files, latest, fetched, plan, overlapped>>

CommandStep(c) ==
  \/ Check(c, "check backup", "backup") \/ Check(c, "check snapshot", "snapshot")
  \/ Lock(c, "lock backup", "backup") \/ Lock(c, "lock snapshot", "snapshot")
  \/ Free(c, "free backup", "backup") \/ Free(c, "free snapshot", "snapshot")
  \/ CheckImport(c) \/ Signal(c) \/ Unlock(c) \/ KillAll(c) \/ CheckNode(c) \/ Spawn(c)
  \/ SeeReady(c) \/ SeeClose(c) \/ Rebuild(c)
  \/ CheckServer(c) \/ Switch(c, "up", TRUE) \/ Switch(c, "down", FALSE) \/ Wipe(c)
  \/ Drop(c, "drop main", "main") \/ Drop(c, "drop snap", "snap")
  \/ Create(c, "create main", "main") \/ Create(c, "create snap", "snap")
  \/ Vacuum(c) \/ Copy(c) \/ Height(c) \/ Dump(c) \/ DumpSnap(c) \/ Download(c)
  \/ Load(c, "load latest", "main", latest) \/ Load(c, "load fetched", "main", fetched)
  \/ Load(c, "load snap", "snap", latest)

--------------------------------------------------------------------------
(* The node: loadBlockChain *)

Database(p) == db[node[p].on]
OnDatabase(p, x) == db' = [db EXCEPT ![node[p].on] = x]
Becomes(p, phase) == node' = [node EXCEPT ![p].phase = phase]
Exit(p, code) == node' = [node EXCEPT ![p].phase = "gone", ![p].code = code]
NodeOnly == UNCHANGED <<lock, held, server, files, latest, fetched, plan, overlapped>>

\* The genesis block is saved; a database of one block, one to verify and one
\* without accounts are loaded from the start, any other one is taken as it is.  An
\* export that reads the height meanwhile is disturbed
Boot(p) ==
  LET blocks == Max({1, Database(p).blocks})
      fromStart == blocks = 1 \/ node[p].verifying \/ Database(p).accounts = 0
  IN /\ node[p].phase = "boot" /\ ~node[p].stopping
     /\ IF ~Usable(node[p].on) \/ \E q \in Pids : node[q].phase \in {"load", "ready"}
        THEN Exit(p, "error") /\ UNCHANGED db
        ELSE /\ OnDatabase(p, [blocks |-> blocks,
                               accounts |-> IF fromStart THEN 0 ELSE Database(p).accounts])
             /\ node' = [node EXCEPT ![p].phase = IF fromStart THEN "load" ELSE "ready",
                                     ![p].verifying = @ /\ blocks > 1,
                                     ![p].announced = ~fromStart]
     /\ cmd' = Unclean({c \in Shells : Doing(c, "height")})
     /\ NodeOnly /\ UNCHANGED faults

\* A library that was built for another version of node
BootFails(p) ==
  /\ node[p].phase = "boot" /\ Fault
  /\ Exit(p, "native")
  /\ NodeOnly /\ UNCHANGED <<db, cmd>>

\* SnapshotBlocksCountFilter: the end of the last complete round, and of the first
\* one when there is none
LastRound(blocks) == R * Max({1, blocks \div R})
Target(p) == IF node[p].verifying THEN LastRound(Database(p).blocks) ELSE Database(p).blocks

LoadBlock(p) ==
  /\ node[p].phase = "load" /\ ~node[p].stopping /\ Usable(node[p].on)
  /\ Database(p).accounts < Min({Target(p), Database(p).blocks})
  /\ OnDatabase(p, [Database(p) EXCEPT !.accounts = @ + 1])
  /\ NodeOnly /\ UNCHANGED <<node, cmd, faults>>
\* A block does not apply, or the server is gone
LoadFails(p) ==
  /\ node[p].phase = "load" /\ ~node[p].stopping
  /\ ~Usable(node[p].on) \/ Database(p).accounts < Min({Target(p), Database(p).blocks})
  /\ Exit(p, "error")
  /\ NodeOnly /\ UNCHANGED <<db, cmd, faults>>

\* deleteAfterBlock
After(height, blocks) == Min({blocks, height})
(* Mutant: the block of that height is deleted too. *)
From(height, blocks) == Min({blocks, height - 1})
Clipped(height, blocks) == After(height, blocks)
\* The loop is over, or left because of a shutdown, which load does not tell apart
Loaded(p) ==
  LET x == Database(p)
      complete == x.accounts = Target(p)
  IN /\ node[p].phase = "load" /\ Usable(node[p].on)
     /\ node[p].stopping \/ x.accounts = Min({Target(p), x.blocks})
     /\ IF node[p].verifying
        THEN /\ Exit(p, IF complete THEN "ok" ELSE "error")
             /\ OnDatabase(p, IF complete THEN [x EXCEPT !.blocks = Clipped(x.accounts, @)] ELSE x)
        ELSE /\ node' = [node EXCEPT ![p].phase = "ready", ![p].announced = TRUE]
             /\ UNCHANGED db
     /\ NodeOnly /\ UNCHANGED <<cmd, faults>>

\* A block is applied, also while the shutdown waits for it
Grow(p) ==
  /\ node[p].phase = "ready" /\ Usable(node[p].on)
  /\ Database(p).blocks < MaxHeight
  /\ OnDatabase(p, [blocks |-> Database(p).blocks + 1, accounts |-> Database(p).accounts + 1])
  /\ cmd' = Unclean({c \in Shells : Doing(c, "height")})
  /\ NodeOnly /\ UNCHANGED <<node, faults>>

\* A node that was told to ends; its shell may have been killed by the signal
Ends(p) ==
  /\ Alive(p) /\ node[p].stopping
  /\ \E code \in {"error", "signal"} : Exit(p, code)
  /\ NodeOnly /\ UNCHANGED <<db, cmd, faults>>
\* Killed for want of memory
Killed(p) ==
  /\ Alive(p) /\ Fault
  /\ Exit(p, "signal")
  /\ cmd' = Unclean({c \in Shells : cmd[c].pid = p})
  /\ NodeOnly /\ UNCHANGED db

NodeStep(p) == Boot(p) \/ LoadBlock(p) \/ LoadFails(p) \/ Loaded(p) \/ Ends(p)

--------------------------------------------------------------------------
Next ==
  \/ \E c \in Shells : Begin(c) \/ CommandStep(c) \/ Timeout(c) \/ Interrupt(c) \/ Crash(c)
  \/ \E p \in Pids : NodeStep(p) \/ Grow(p) \/ BootFails(p) \/ Killed(p)

\* Commands and processes go on, and a start in the background runs into its timeout
Fairness ==
  /\ \A c \in Shells : WF_vars(CommandStep(c)) /\ WF_vars(Timeout(c))
  /\ \A p \in Pids : WF_vars(NodeStep(p))

Spec == Init /\ [][Next]_vars /\ Fairness

--------------------------------------------------------------------------
(* Properties *)

Databases == [blocks : 0..MaxHeight, accounts : 0..MaxHeight]
(* In a database the accounts are never computed from blocks that are not there:     *)
(* loading, deleteAfterBlock after a verification, broken copies and the commands    *)
(* that replace a database under a node keep the one within the other.               *)
TypeOK ==
  /\ lock \in Pids \cup {None}
  /\ held \in [{"backup", "snapshot"} -> Shells \cup {"stale", None}]
  /\ \A d \in DOMAIN db : db[d] # None =>
       db[d] \in Databases /\ db[d].accounts <= db[d].blocks
  /\ {latest, fetched} \subseteq Databases \cup {None}
  /\ faults \in 0..MaxFaults

(* As long as one command runs at a time, a node that nobody has told to end is the  *)
(* one the node lock names, so that stop, restart, export and import find it: from   *)
(* its spawn on, over ready, a rebuild of the native modules, failed starts and the  *)
(* locks that other commands remove.                                                 *)
LockNamesNode ==
  overlapped \/ \A p \in Pids : Alive(p) /\ ~node[p].stopping => lock = p

(* What a command that nothing disturbed writes is what its name says: a backup      *)
(* has all blocks up to its height, a snapshot ends with a round and its accounts    *)
(* were computed from all of its blocks.                                             *)
FilesAreWhole ==
  \A f \in files : f.clean =>
    /\ f.content.blocks = f.height
    /\ f.kind = "snapshot" => f.content.accounts = f.height /\ f.height % R = 0

(* Every command ends but export-snapshot, which waits for a verification in the      *)
(* foreground: whichever of its steps fails, whatever runs beside it, and although a *)
(* start waits for what the node prints, for its exit or for the timeout.            *)
CommandsEnd == \A c \in Shells : (Active(c) /\ ~Foreground(c)) ~> ~Active(c)

=============================================================================
