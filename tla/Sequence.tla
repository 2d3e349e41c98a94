------------------------------ MODULE Sequence ------------------------------
(***************************************************************************)
(* The FIFO sequences of core-helpers/src/sequence.ts, several of them     *)
(* side by side, as the node uses them: defaultSequence, dbSequence and    *)
(* balancesSequence, with tasks of one sequence that await calls made      *)
(* through another one.                                                    *)
(*                                                                         *)
(* A sequence owns an array of waiting tasks and a running flag.  A call   *)
(* pushes a task and, if nothing runs, schedules a tick on the event loop; *)
(* several calls made before the first tick schedule several ticks.  A     *)
(* tick serves as many tasks as were waiting when it started, one after    *)
(* the other, and then starts over if more have arrived.  The              *)
(* continuation-local flag "running" follows the callbacks scheduled from  *)
(* a task, so that a task calling its own sequence is refused instead of   *)
(* waiting for itself.                                                     *)
(***************************************************************************)
EXTENDS Naturals, Sequences

CONSTANTS Names,   \* the sequences: tags of the Sequence objects
          Tasks,   \* the calls of addAndPromise, each made at most once
          SeqOf,   \* SeqOf[t]: the sequence t is added to
          Calls,   \* Calls[t]: the calls the worker of t makes and awaits, in order
          Rank,    \* Rank[s]: the order in which sequences are nested
          NoTask   \* no task is being served

ASSUME SequenceAssumption ==
  /\ NoTask \notin Tasks
  /\ SeqOf \in [Tasks -> Names]
  /\ Calls \in [Tasks -> Seq(Tasks)]

(* The nesting of WrapInDefaultSequence, WrapInDBSequence and              *)
(* WrapInBalanceSequence in the code: a worker only calls through a        *)
(* sequence of lower rank than its own.                                    *)
ASSUME NestingAssumption ==
  /\ Rank \in [Names -> Nat]
  /\ \A t \in Tasks : \A i \in DOMAIN Calls[t] :
       Rank[SeqOf[Calls[t][i]]] < Rank[SeqOf[t]]

VARIABLES
  sequence,    \* sequence[s]: the array of tasks not yet shifted out
  running,     \* running[s]: the flag this.running
  immediates,  \* immediates[s]: the contexts in which a tick was scheduled
  active,      \* active[s]: the ticks of s that are executing their loop
  promise      \* promise[t]: what the caller of t has seen

vars == <<sequence, running, immediates, active, promise>>

Contexts == SUBSET Names
Ticks == [left : Nat, task : Tasks \cup {NoTask}, ctx : Contexts]
Outcomes == {"resolved", "rejected"}
Settled == {"resolved", "rejected", "conflict"}

TypeOK ==
  /\ sequence \in [Names -> Seq(Tasks)]
  /\ running \in [Names -> BOOLEAN]
  /\ immediates \in [Names -> Seq(Contexts)]
  /\ active \in [Names -> SUBSET Ticks]
  /\ promise \in [Tasks -> {"idle", "pending"} \cup Settled]

Init ==
  /\ sequence = [s \in Names |-> <<>>]
  /\ running = [s \in Names |-> FALSE]
  /\ immediates = [s \in Names |-> <<>>]
  /\ active = [s \in Names |-> {}]
  /\ promise = [t \in Tasks |-> "idle"]

-----------------------------------------------------------------------------
(* Calls made from outside any sequence: requests of peers, jobs. *)
Roots == {t \in Tasks : \A p \in Tasks : \A i \in DOMAIN Calls[p] : Calls[p][i] # t}

(* The flag of the namespace of s, read in context ctx. *)
RunsIn(s, ctx) == s \in ctx

(* addAndPromise called for t in context ctx: refused when the context is *)
(* inside the same sequence, else queued, with a tick scheduled unless one *)
(* is running.                                                             *)
AddAndPromise(t, ctx) ==
  LET s == SeqOf[t] IN
  /\ promise[t] = "idle"
  /\ \/ /\ RunsIn(s, ctx)
        /\ promise' = [promise EXCEPT ![t] = "conflict"]
        /\ UNCHANGED <<sequence, immediates>>
     \/ /\ ~RunsIn(s, ctx)
        /\ promise' = [promise EXCEPT ![t] = "pending"]
        /\ sequence' = [sequence EXCEPT ![s] = Append(@, t)]
        /\ immediates' = IF running[s] THEN immediates
                         ELSE [immediates EXCEPT ![s] = Append(@, ctx)]
  /\ UNCHANGED <<running, active>>

(* A call from outside: its context is inside no sequence. *)
Call(t) == t \in Roots /\ AddAndPromise(t, {})

(* The worker served by tick k makes its next call, having seen the        *)
(* earlier ones resolve.                                                   *)
CallNested(s, k) ==
  /\ k.task # NoTask
  /\ \E i \in DOMAIN Calls[k.task] :
       /\ \A j \in 1..(i - 1) : promise[Calls[k.task][j]] = "resolved"
       /\ AddAndPromise(Calls[k.task][i], k.ctx)

(* A tick that starts in context ctx with n tasks waiting. *)
NewTick(s, n, ctx) == [left |-> n, task |-> NoTask, ctx |-> ctx \cup {s}]

(* Mutant: tick() does not look at the flag. *)
NeverDropped(s) == FALSE

(* tick() returns at once when a tick is running. *)
TickDropped(s) == running[s]

(* The event loop runs a scheduled tick: it returns at once if a tick is  *)
(* running, else it takes the number of tasks to serve.                   *)
Tick(s) ==
  /\ immediates[s] # <<>>
  /\ immediates' = [immediates EXCEPT ![s] = Tail(@)]
  /\ IF TickDropped(s)
     THEN UNCHANGED <<running, active>>
     ELSE /\ running' = [running EXCEPT ![s] = TRUE]
          /\ active' = [active EXCEPT ![s] =
                          @ \cup {NewTick(s, Len(sequence[s]), Head(immediates[s]))}]
  /\ UNCHANGED <<sequence, promise>>

(* Mutant: the loop goes on as long as tasks wait, past the number it took. *)
ShiftPastCount(s, k) ==
  /\ k.task = NoTask
  /\ sequence[s] # <<>>
  /\ active' = [active EXCEPT ![s] = (@ \ {k}) \cup
                  {[left |-> k.left - 1, task |-> Head(sequence[s]), ctx |-> k.ctx]}]
  /\ sequence' = [sequence EXCEPT ![s] = Tail(@)]
  /\ UNCHANGED <<running, immediates, promise>>

(* The loop of a tick shifts the next task out and starts its worker. *)
Shift(s, k) ==
  /\ k.task = NoTask
  /\ k.left > 0
  /\ sequence[s] # <<>>
  /\ active' = [active EXCEPT ![s] = (@ \ {k}) \cup
                  {[left |-> k.left - 1, task |-> Head(sequence[s]), ctx |-> k.ctx]}]
  /\ sequence' = [sequence EXCEPT ![s] = Tail(@)]
  /\ UNCHANGED <<running, immediates, promise>>

(* The worker returns or throws, none of its calls being awaited; the      *)
(* caller's promise settles and the loop goes on.                          *)
Settle(s, k) ==
  /\ k.task # NoTask
  /\ \A i \in DOMAIN Calls[k.task] : promise[Calls[k.task][i]] # "pending"
  /\ \E outcome \in Outcomes : promise' = [promise EXCEPT ![k.task] = outcome]
  /\ active' = [active EXCEPT ![s] = (@ \ {k}) \cup {[k EXCEPT !.task = NoTask]}]
  /\ UNCHANGED <<sequence, running, immediates>>

(* The namespace flag of s is reset: contexts captured during the tick no  *)
(* longer see it.                                                          *)
Leave(s, ctx) == ctx \ {s}
LeaveTick(s, k) == [left |-> k.left, task |-> k.task, ctx |-> Leave(s, k.ctx)]

(* Mutant: tick() is not called again. *)
NoFollowUp(s, k) == {}

(* tick() is called again by the end of k when tasks have arrived. *)
FollowUp(s, k) == IF sequence[s] = <<>> THEN {}
                  ELSE {NewTick(s, Len(sequence[s]), k.ctx)}

(* The loop is over: the flags are reset and, if tasks have arrived in the *)
(* meantime, tick() is called again within the same context.               *)
EndTick(s, k) ==
  /\ k.task = NoTask
  /\ k.left = 0
  /\ immediates' = [r \in Names |->
                      [i \in DOMAIN immediates[r] |-> Leave(s, immediates[r][i])]]
  /\ running' = [running EXCEPT ![s] = FollowUp(s, k) # {}]
  /\ active' = [r \in Names |->
                  IF r # s THEN {LeaveTick(s, j) : j \in active[r]}
                  ELSE (active[s] \ {k}) \cup FollowUp(s, k)]
  /\ UNCHANGED <<sequence, promise>>

-----------------------------------------------------------------------------
Step(s) == \/ Tick(s)
           \/ \E k \in active[s] : \/ CallNested(s, k)
                                   \/ Shift(s, k)
                                   \/ Settle(s, k)
                                   \/ EndTick(s, k)

Next == (\E t \in Tasks : Call(t)) \/ (\E s \in Names : Step(s))

(* The event loop runs every scheduled callback, and a worker whose own    *)
(* calls have settled settles (its database and network requests answer or *)
(* time out).  Nothing obliges anybody to make a call.                     *)
Fairness == \A s \in Names :
  /\ WF_vars(Tick(s))
  /\ WF_vars(\E k \in active[s] : Shift(s, k) \/ Settle(s, k) \/ EndTick(s, k))

Spec == Init /\ [][Next]_vars /\ Fairness

-----------------------------------------------------------------------------
(* At most one tick of a sequence executes, although every call made       *)
(* before the first tick schedules one, and the flag says so.              *)
MutualExclusion ==
  \A s \in Names : /\ running[s] <=> active[s] # {}
                   /\ \A j, k \in active[s] : j = k

(* A tick never shifts from an empty array: the tasks it counted when it   *)
(* started are still there.                                                *)
TickNeverStarves ==
  \A s \in Names : \A k \in active[s] : k.left <= Len(sequence[s])

(* The check of addAndPromise never refuses a call of the node: contexts   *)
(* are inherited by whoever ticks next, yet no task finds itself inside    *)
(* the sequence it calls.                                                  *)
NoConflict == \A t \in Tasks : promise[t] # "conflict"

(* One tick at a time serves a sequence, it finds a task for each of its    *)
(* turns, and no caller is refused.                                         *)
OneTickServes == MutualExclusion /\ TickNeverStarves /\ NoConflict

(* The calls accepted and not answered: the one being served, then the     *)
(* array.                                                                  *)
Serving(s) == {k.task : k \in {j \in active[s] : j.task # NoTask}}
Front(S) == IF S = {} THEN <<>> ELSE <<CHOOSE t \in S : TRUE>>
Line(s) == Front(Serving(s)) \o sequence[s]

Serial == INSTANCE SerialExecutor WITH line <- [s \in Names |-> Line(s)]

(* The sequences implement one line per name, served in order of arrival;  *)
(* with tasks that await other lines, every accepted call is answered.     *)
ServesInOrder == Serial!Spec
=============================================================================
