--------------------------- MODULE SequenceProofs ---------------------------
(***************************************************************************)
(* Proofs about Sequence.tla, for every set of sequences and of calls that *)
(* respects the nesting order.                                             *)
(***************************************************************************)
EXTENDS Sequence, SequenceTheorems, TLAPS

(* Every task waits in, and is served by, the sequence it was added to. *)
AtHome ==
  \A s \in Names :
    /\ \A i \in DOMAIN sequence[s] : SeqOf[sequence[s][i]] = s
    /\ \A k \in active[s] : k.task # NoTask => SeqOf[k.task] = s

(* A context only mentions sequences of higher rank than the one that ticks *)
(* in it, and, while it ticks, that one.                                    *)
ContextsOrdered ==
  \A s \in Names :
    /\ \A i \in DOMAIN immediates[s] :
         \A r \in immediates[s][i] : Rank[s] < Rank[r]
    /\ \A k \in active[s] : \A r \in k.ctx : r = s \/ Rank[s] < Rank[r]

(* The inductive invariant. *)
IInv == /\ TypeOK
        /\ MutualExclusion
        /\ TickNeverStarves
        /\ AtHome
        /\ ContextsOrdered
        /\ NoConflict

-----------------------------------------------------------------------------
(* The invariant holds before anything has been called. *)
LEMMA InitIInv == Init => IInv
  BY DEF Init, IInv, TypeOK, MutualExclusion, TickNeverStarves, AtHome,
         ContextsOrdered, NoConflict, Contexts

(* A call in a context that does not hold the sequence of the task is       *)
(* queued, and keeps the invariant.                                         *)
LEMMA AddIInv ==
  ASSUME IInv, NEW t \in Tasks, NEW ctx \in Contexts,
         \A r \in ctx : Rank[SeqOf[t]] < Rank[r],
         AddAndPromise(t, ctx)
  PROVE  IInv'
<1> DEFINE s == SeqOf[t]
<1>1. s \in Names /\ Rank[s] \in Nat
  BY SequenceAssumption, NestingAssumption
<1>2. ~RunsIn(s, ctx)
  BY <1>1, NestingAssumption DEF RunsIn, Contexts
<1>3. /\ promise' = [promise EXCEPT ![t] = "pending"]
      /\ sequence' = [sequence EXCEPT ![s] = Append(@, t)]
      /\ immediates' = IF running[s] THEN immediates
                       ELSE [immediates EXCEPT ![s] = Append(@, ctx)]
      /\ UNCHANGED <<running, active>>
  BY <1>2 DEF AddAndPromise
<1> USE DEF IInv
<1>4. TypeOK'
  BY <1>1, <1>3 DEF TypeOK
<1>5. MutualExclusion'
  BY <1>3 DEF MutualExclusion
<1>6. \A r \in Names : Len(sequence[r]) <= Len(sequence'[r])
  BY <1>1, <1>3 DEF TypeOK
<1>7. TickNeverStarves'
  <2> SUFFICES ASSUME NEW r \in Names, NEW k \in active[r]
               PROVE  k.left <= Len(sequence'[r])
    BY <1>3 DEF TickNeverStarves
  <2>1. k.left <= Len(sequence[r]) /\ k.left \in Nat
    BY DEF TickNeverStarves, TypeOK, Ticks
  <2>2. Len(sequence[r]) \in Nat /\ Len(sequence'[r]) \in Nat
    BY <1>4 DEF TypeOK
  <2> QED BY <2>1, <2>2, <1>6
<1>8. AtHome'
  BY <1>1, <1>3 DEF AtHome, TypeOK
<1>9. ContextsOrdered'
  BY <1>1, <1>3 DEF ContextsOrdered, TypeOK
<1>10. NoConflict'
  BY <1>3 DEF NoConflict, TypeOK
<1> QED BY <1>4, <1>5, <1>7, <1>8, <1>9, <1>10

(* A call from outside the sequences keeps the invariant. *)
LEMMA CallIInv ==
  ASSUME IInv, NEW t \in Tasks, Call(t)
  PROVE  IInv'
  BY AddIInv DEF Call, Contexts

(* A call made by a worker keeps the invariant: it goes to a sequence of    *)
(* lower rank than every sequence its context holds.                        *)
LEMMA CallNestedIInv ==
  ASSUME IInv, NEW s \in Names, NEW k \in active[s], CallNested(s, k)
  PROVE  IInv'
<1>1. k \in Ticks /\ k.task \in Tasks /\ k.ctx \in Contexts
  BY DEF IInv, TypeOK, CallNested, Ticks
<1>2. PICK i \in DOMAIN Calls[k.task] : AddAndPromise(Calls[k.task][i], k.ctx)
  BY DEF CallNested
<1> DEFINE t == Calls[k.task][i]
<1>3. t \in Tasks
  BY <1>1, SequenceAssumption
<1>4. Rank[SeqOf[t]] < Rank[s]
  BY <1>1, NestingAssumption DEF IInv, AtHome, CallNested
<1>5. ASSUME NEW r \in k.ctx PROVE Rank[SeqOf[t]] < Rank[r]
  <2>1. r = s \/ Rank[s] < Rank[r]
    BY <1>5 DEF IInv, ContextsOrdered
  <2>2. Rank[s] \in Nat /\ Rank[r] \in Nat /\ Rank[SeqOf[t]] \in Nat
    BY <1>1, <1>3, <1>5, SequenceAssumption, NestingAssumption DEF Contexts
  <2> QED BY <2>1, <2>2, <1>4
<1> QED BY <1>1, <1>2, <1>3, <1>5, AddIInv

(* The tick that starts keeps the invariant: it counts the tasks there are. *)
LEMMA TickIInv ==
  ASSUME IInv, NEW s \in Names, Tick(s)
  PROVE  IInv'
<1> USE DEF IInv
<1>1. CASE running[s]
  <2>1. /\ immediates' = [immediates EXCEPT ![s] = Tail(@)]
        /\ UNCHANGED <<running, active, sequence, promise>>
    BY <1>1 DEF Tick, TickDropped
  <2>2. TypeOK'
    BY <2>1 DEF TypeOK, Tick
  <2>3. ContextsOrdered'
    BY <2>1 DEF ContextsOrdered, TypeOK, Tick
  <2> QED
    BY <2>1, <2>2, <2>3 DEF MutualExclusion, TickNeverStarves, AtHome, NoConflict
<1>2. CASE ~running[s]
  <2> DEFINE k == NewTick(s, Len(sequence[s]), Head(immediates[s]))
  <2>1. /\ immediates' = [immediates EXCEPT ![s] = Tail(@)]
        /\ running' = [running EXCEPT ![s] = TRUE]
        /\ active' = [active EXCEPT ![s] = {k}]
        /\ UNCHANGED <<sequence, promise>>
    BY <1>2 DEF Tick, TickDropped, MutualExclusion, TypeOK
  <2>2. /\ Head(immediates[s]) \in Contexts
        /\ \A r \in Head(immediates[s]) : Rank[s] < Rank[r]
    BY DEF Tick, TypeOK, ContextsOrdered
  <2>3. k \in Ticks /\ k.left = Len(sequence[s]) /\ k.task = NoTask
    BY <2>2 DEF NewTick, Ticks, TypeOK, Contexts
  <2>4. TypeOK'
    BY <2>1, <2>3 DEF TypeOK, Tick
  <2>5. MutualExclusion'
    BY <2>1 DEF MutualExclusion, TypeOK
  <2>6. TickNeverStarves'
    <3> SUFFICES ASSUME NEW r \in Names, NEW j \in active'[r]
                 PROVE  j.left <= Len(sequence[r])
      BY <2>1 DEF TickNeverStarves
    <3>1. CASE r = s
      BY <2>1, <2>3, <3>1 DEF TypeOK
    <3>2. CASE r # s
      BY <2>1, <3>2 DEF TypeOK, TickNeverStarves
    <3> QED BY <3>1, <3>2
  <2>7. AtHome'
    BY <2>1, <2>3 DEF AtHome, TypeOK
  <2>8. \A r \in k.ctx : r = s \/ Rank[s] < Rank[r]
    BY <2>2 DEF NewTick
  <2>9. ContextsOrdered'
    <3> SUFFICES ASSUME NEW r \in Names
                 PROVE  /\ \A i \in DOMAIN immediates'[r] :
                             \A q \in immediates'[r][i] : Rank[r] < Rank[q]
                        /\ \A j \in active'[r] : \A q \in j.ctx : q = r \/ Rank[r] < Rank[q]
      BY DEF ContextsOrdered
    <3>1. \A i \in DOMAIN immediates'[r] :
            \A q \in immediates'[r][i] : Rank[r] < Rank[q]
      BY <2>1 DEF ContextsOrdered, TypeOK, Tick
    <3>2. \A j \in active'[r] : \A q \in j.ctx : q = r \/ Rank[r] < Rank[q]
      BY <2>1, <2>8 DEF ContextsOrdered, TypeOK
    <3> QED BY <3>1, <3>2
  <2> QED
    BY <2>1, <2>4, <2>5, <2>6, <2>7, <2>9 DEF NoConflict
<1> QED BY <1>1, <1>2

(* The loop takes the next task: one less to serve, one less in the array.  *)
LEMMA ShiftIInv ==
  ASSUME IInv, NEW s \in Names, NEW k \in active[s], Shift(s, k)
  PROVE  IInv'
<1> USE DEF IInv
<1> DEFINE h == Head(sequence[s])
           n == [left |-> k.left - 1, task |-> h, ctx |-> k.ctx]
<1>1. active[s] = {k}
  BY DEF MutualExclusion
<1>2. k \in Ticks /\ sequence[s] \in Seq(Tasks) /\ sequence[s] # <<>> /\ k.left > 0
  BY DEF TypeOK, Shift
<1>3. h \in Tasks /\ SeqOf[h] = s
  <2>1. 1 \in DOMAIN sequence[s] /\ h = sequence[s][1]
    BY <1>2
  <2> QED BY <2>1, <1>2 DEF AtHome
<1>4. n \in Ticks /\ n.left = k.left - 1 /\ n.task = h /\ n.ctx = k.ctx
  <2>1. k.left - 1 \in Nat
    BY <1>2 DEF Ticks
  <2> QED BY <1>2, <1>3, <2>1 DEF Ticks
<1>5. /\ active' = [active EXCEPT ![s] = {n}]
      /\ sequence' = [sequence EXCEPT ![s] = Tail(@)]
      /\ UNCHANGED <<running, immediates, promise>>
  BY <1>1 DEF Shift, TypeOK
<1>6. TypeOK'
  BY <1>2, <1>4, <1>5 DEF TypeOK
<1>7. MutualExclusion'
  BY <1>1, <1>5 DEF MutualExclusion, TypeOK
<1>8. TickNeverStarves'
  <2>1. n.left <= Len(Tail(sequence[s]))
    <3>1. k.left <= Len(sequence[s]) /\ k.left \in Nat
      BY <1>2 DEF TickNeverStarves, Ticks
    <3>2. Len(Tail(sequence[s])) = Len(sequence[s]) - 1 /\ Len(sequence[s]) \in Nat
      BY <1>2
    <3> QED BY <3>1, <3>2, <1>4
  <2> QED BY <2>1, <1>5 DEF TickNeverStarves, TypeOK
<1>9. AtHome'
  <2> SUFFICES ASSUME NEW r \in Names
               PROVE  /\ \A i \in DOMAIN sequence'[r] : SeqOf[sequence'[r][i]] = r
                      /\ \A j \in active'[r] : j.task # NoTask => SeqOf[j.task] = r
    BY DEF AtHome
  <2>1. CASE r # s
    BY <2>1, <1>5 DEF AtHome, TypeOK
  <2>2. CASE r = s
    <3>1. sequence'[s] = Tail(sequence[s]) /\ active'[s] = {n}
      BY <1>5 DEF TypeOK
    <3>2. ASSUME NEW i \in DOMAIN Tail(sequence[s])
          PROVE  SeqOf[Tail(sequence[s])[i]] = s
      <4>1. i + 1 \in DOMAIN sequence[s] /\ Tail(sequence[s])[i] = sequence[s][i + 1]
        BY <1>2
      <4> QED BY <4>1 DEF AtHome
    <3> QED BY <2>2, <3>1, <3>2, <1>3, <1>4
  <2> QED BY <2>1, <2>2
<1>10. ContextsOrdered'
  BY <1>4, <1>5 DEF ContextsOrdered, TypeOK
<1> QED BY <1>5, <1>6, <1>7, <1>8, <1>9, <1>10 DEF NoConflict

(* A worker that settles keeps the invariant. *)
LEMMA SettleIInv ==
  ASSUME IInv, NEW s \in Names, NEW k \in active[s], Settle(s, k)
  PROVE  IInv'
<1> USE DEF IInv
<1> DEFINE n == [k EXCEPT !.task = NoTask]
<1>1. active[s] = {k} /\ k \in Ticks /\ k.task \in Tasks
  BY DEF MutualExclusion, TypeOK, Settle, Ticks
<1>2. n \in Ticks /\ n.left = k.left /\ n.task = NoTask /\ n.ctx = k.ctx
  BY <1>1 DEF Ticks
<1>3. /\ active' = [active EXCEPT ![s] = {n}]
      /\ \E outcome \in Outcomes : promise' = [promise EXCEPT ![k.task] = outcome]
      /\ UNCHANGED <<sequence, running, immediates>>
  BY <1>1 DEF Settle, TypeOK
<1>4. TypeOK'
  BY <1>1, <1>2, <1>3 DEF TypeOK, Outcomes, Settled
<1>5. MutualExclusion'
  BY <1>1, <1>3 DEF MutualExclusion, TypeOK
<1>6. TickNeverStarves'
  BY <1>1, <1>2, <1>3 DEF TickNeverStarves, TypeOK
<1>7. AtHome'
  BY <1>2, <1>3 DEF AtHome, TypeOK
<1>8. ContextsOrdered'
  BY <1>1, <1>2, <1>3 DEF ContextsOrdered, TypeOK
<1>9. NoConflict'
  BY <1>3 DEF NoConflict, TypeOK, Outcomes
<1> QED BY <1>4, <1>5, <1>6, <1>7, <1>8, <1>9

(* The end of a loop keeps the invariant: contexts only shrink, and a loop  *)
(* that starts over counts again.                                           *)
LEMMA EndTickIInv ==
  ASSUME IInv, NEW s \in Names, NEW k \in active[s], EndTick(s, k)
  PROVE  IInv'
<1> USE DEF IInv
<1> DEFINE n == NewTick(s, Len(sequence[s]), k.ctx)
<1>1. active[s] = {k} /\ k \in Ticks
  BY DEF MutualExclusion, TypeOK
<1>2. n \in Ticks /\ n.left = Len(sequence[s]) /\ n.task = NoTask /\ n.ctx = k.ctx \cup {s}
  BY <1>1 DEF NewTick, Ticks, TypeOK, Contexts
<1>3. /\ FollowUp(s, k) = IF sequence[s] = <<>> THEN {} ELSE {n}
      /\ active'[s] = FollowUp(s, k)
      /\ \A r \in Names \ {s} : active'[r] = {LeaveTick(s, j) : j \in active[r]}
      /\ running' = [running EXCEPT ![s] = FollowUp(s, k) # {}]
      /\ UNCHANGED <<sequence, promise>>
  BY <1>1 DEF EndTick, FollowUp
<1>4. /\ immediates' \in [Names -> Seq(Contexts)]
      /\ \A r \in Names : /\ DOMAIN immediates'[r] = DOMAIN immediates[r]
                           /\ \A i \in DOMAIN immediates[r] :
                                immediates'[r][i] \subseteq immediates[r][i]
  <2>1. immediates' = [r \in Names |->
                      [i \in DOMAIN immediates[r] |-> Leave(s, immediates[r][i])]]
    BY DEF EndTick
  <2>2. ASSUME NEW r \in Names
        PROVE [i \in DOMAIN immediates[r] |-> Leave(s, immediates[r][i])] \in Seq(Contexts)
    <3>1. immediates[r] \in Seq(Contexts)
      BY DEF TypeOK
    <3>2. /\ DOMAIN immediates[r] = 1..Len(immediates[r])
          /\ Len(immediates[r]) \in Nat
          /\ \A i \in DOMAIN immediates[r] : immediates[r][i] \in Contexts
      BY <3>1
    <3>3. [i \in DOMAIN immediates[r] |-> Leave(s, immediates[r][i])]
            \in [1..Len(immediates[r]) -> Contexts]
      BY <3>2 DEF Leave, Contexts
    <3> QED BY <3>2, <3>3, SeqDef, ZenonT(30)
  <2>3. immediates' \in [Names -> Seq(Contexts)]
    BY <2>1, <2>2
  <2> QED BY <2>1, <2>3 DEF Leave
<1>5. ASSUME NEW r \in Names, NEW j \in active[r]
      PROVE  /\ LeaveTick(s, j) \in Ticks
             /\ LeaveTick(s, j).left = j.left
             /\ LeaveTick(s, j).task = j.task
             /\ LeaveTick(s, j).ctx \subseteq j.ctx
  BY DEF LeaveTick, Leave, TypeOK, Ticks, Contexts
<1>6. active' \in [Names -> SUBSET Ticks]
  <2>1. active' = [r \in Names |-> active'[r]]
    BY DEF EndTick
  <2>2. \A r \in Names : active'[r] \in SUBSET Ticks
    BY <1>2, <1>3, <1>5
  <2> QED BY <2>1, <2>2
<1>7. TypeOK'
  BY <1>3, <1>4, <1>6 DEF TypeOK
<1>8. MutualExclusion'
  <2> SUFFICES ASSUME NEW r \in Names
               PROVE  /\ running'[r] <=> active'[r] # {}
                      /\ \A i, j \in active'[r] : i = j
    BY DEF MutualExclusion
  <2>1. CASE r = s
    <3>1. running'[s] = (FollowUp(s, k) # {}) /\ active'[s] = FollowUp(s, k)
      BY <1>3 DEF TypeOK
    <3>2. \A i, j \in FollowUp(s, k) : i = j
      BY <1>3
    <3> QED BY <2>1, <3>1, <3>2
  <2>2. CASE r # s
    <3>1. running'[r] = running[r] /\ active'[r] = {LeaveTick(s, j) : j \in active[r]}
      BY <2>2, <1>3 DEF TypeOK
    <3>2. running[r] <=> active[r] # {}
      BY DEF MutualExclusion
    <3>3. \A i, j \in active[r] : i = j
      BY DEF MutualExclusion
    <3>4. active'[r] # {} <=> active[r] # {}
      BY <3>1
    <3>5. \A i, j \in active'[r] : i = j
      BY <3>1, <3>3
    <3> QED BY <3>1, <3>2, <3>4, <3>5
  <2> QED BY <2>1, <2>2
<1>9. TickNeverStarves'
  <2> SUFFICES ASSUME NEW r \in Names, NEW j \in active'[r]
               PROVE  j.left <= Len(sequence[r])
    BY <1>3 DEF TickNeverStarves
  <2>1. CASE r = s
    BY <2>1, <1>2, <1>3 DEF TypeOK
  <2>2. CASE r # s
    <3>1. PICK i \in active[r] : j = LeaveTick(s, i)
      BY <2>2, <1>3
    <3> QED BY <3>1, <1>5 DEF TickNeverStarves
  <2> QED BY <2>1, <2>2
<1>10. AtHome'
  <2> SUFFICES ASSUME NEW r \in Names, NEW j \in active'[r], j.task # NoTask
               PROVE  SeqOf[j.task] = r
    BY <1>3 DEF AtHome
  <2>1. r # s
    BY <1>2, <1>3
  <2>2. PICK i \in active[r] : j = LeaveTick(s, i)
    BY <2>1, <1>3
  <2> QED BY <2>2, <1>5 DEF AtHome
<1>11. ContextsOrdered'
  <2> SUFFICES ASSUME NEW r \in Names
               PROVE  /\ \A i \in DOMAIN immediates'[r] :
                           \A q \in immediates'[r][i] : Rank[r] < Rank[q]
                      /\ \A j \in active'[r] : \A q \in j.ctx : q = r \/ Rank[r] < Rank[q]
    BY DEF ContextsOrdered
  <2>1. \A i \in DOMAIN immediates'[r] : \A q \in immediates'[r][i] : Rank[r] < Rank[q]
    BY <1>4 DEF ContextsOrdered
  <2>2. ASSUME NEW j \in active'[r], NEW q \in j.ctx
        PROVE  q = r \/ Rank[r] < Rank[q]
    <3>1. CASE r = s
      BY <3>1, <2>2, <1>1, <1>2, <1>3 DEF ContextsOrdered
    <3>2. CASE r # s
      <4>1. PICK i \in active[r] : j = LeaveTick(s, i)
        BY <3>2, <1>3
      <4> QED BY <4>1, <1>5, <2>2 DEF ContextsOrdered
    <3> QED BY <3>1, <3>2
  <2> QED BY <2>1, <2>2
<1> QED BY <1>3, <1>7, <1>8, <1>9, <1>10, <1>11 DEF NoConflict

(* Every step keeps the invariant. *)
LEMMA NextIInv ==
  ASSUME IInv, [Next]_vars
  PROVE  IInv'
<1>1. ASSUME NEW t \in Tasks, Call(t) PROVE IInv'
  BY <1>1, CallIInv
<1>2. ASSUME NEW s \in Names, Step(s) PROVE IInv'
  BY <1>2, TickIInv, CallNestedIInv, ShiftIInv, SettleIInv, EndTickIInv DEF Step
<1>3. CASE UNCHANGED vars
  BY <1>3 DEF vars, IInv, TypeOK, MutualExclusion, TickNeverStarves, AtHome,
              ContextsOrdered, NoConflict
<1> QED BY <1>1, <1>2, <1>3 DEF Next

(* The inductive invariant holds in every state. *)
THEOREM Invariant == Spec => []IInv
  BY InitIInv, NextIInv, PTL DEF Spec

(* The variables keep their types. *)
THEOREM TypeCorrect == Spec => []TypeOK
  BY Invariant, PTL DEF IInv

(* However many ticks are scheduled, one at most runs (sequence.ts, tick).  *)
THEOREM OneTickAtATime == Spec => []MutualExclusion
  BY Invariant, PTL DEF IInv

(* The loop of a tick never shifts from an empty array (sequence.ts, tick). *)
THEOREM NeverStarves == Spec => []TickNeverStarves
  BY Invariant, PTL DEF IInv

(* Nested in the order of their ranks, calls are never refused              *)
(* (sequence.ts, addAndPromise).                                            *)
THEOREM NeverRefused == Spec => []NoConflict
  BY Invariant, PTL DEF IInv

(* One tick at a time serves a sequence, with a task for each of its turns  *)
(* and without refusing anyone (sequence.ts).                               *)
THEOREM OneServes == Spec => []OneTickServes
<1>1. IInv => OneTickServes
  BY DEF IInv, OneTickServes
<1> QED BY <1>1, Invariant, PTL

-----------------------------------------------------------------------------
(* The front of a line holds the call being served, if there is one. *)
LEMMA FrontFacts ==
  /\ Front({}) = <<>>
  /\ \A x : Front({x}) = <<x>>
  /\ \A S \in SUBSET Tasks : Front(S) \in Seq(Tasks)
<1>1. Front({}) = <<>>
  BY DEF Front
<1>2. ASSUME NEW x PROVE Front({x}) = <<x>>
  <2>1. (CHOOSE t \in {x} : TRUE) = x
    OBVIOUS
  <2> QED BY <2>1 DEF Front
<1>3. ASSUME NEW S \in SUBSET Tasks PROVE Front(S) \in Seq(Tasks)
  <2>1. CASE S = {}
    BY <2>1 DEF Front
  <2>2. CASE S # {}
    <3>1. (CHOOSE t \in S : TRUE) \in S
      BY <2>2
    <3>2. (CHOOSE t \in S : TRUE) \in Tasks
      BY <3>1
    <3> QED BY <2>2, <3>2 DEF Front
  <2> QED BY <2>1, <2>2
<1> QED BY <1>1, <1>2, <1>3

(* The line of a sequence without a worker is its array. *)
LEMMA LineIdle ==
  ASSUME NEW s \in Names, \A k \in active[s] : k.task = NoTask
  PROVE  Line(s) = <<>> \o sequence[s]
<1>1. Serving(s) = {}
  BY DEF Serving
<1> QED BY <1>1, FrontFacts DEF Line

(* With a worker, the call it serves is in front. *)
LEMMA LineBusy ==
  ASSUME NEW s \in Names, NEW k, active[s] = {k}, k.task # NoTask
  PROVE  Line(s) = <<k.task>> \o sequence[s]
<1>1. Serving(s) = {k.task}
  BY DEF Serving
<1> QED BY <1>1, FrontFacts DEF Line

(* The lines after a step in which a sequence keeps its array and the calls *)
(* it serves are the lines before it.                                       *)
LEMMA LineSame ==
  ASSUME NEW s \in Names, Serving(s)' = Serving(s), sequence'[s] = sequence[s]
  PROVE  Line(s)' = Line(s)
  BY DEF Line

(* Accepting a call appends it to its line. *)
LEMMA AcceptStep ==
  ASSUME IInv, NEW t \in Tasks, NEW ctx \in Contexts, AddAndPromise(t, ctx)
  PROVE  Serial!Next
<1> DEFINE s == SeqOf[t]
<1>1. s \in Names /\ sequence[s] \in Seq(Tasks)
  BY SequenceAssumption DEF IInv, TypeOK
<1>2. CASE RunsIn(s, ctx)
  <2>1. Serial!Refuse(t)
    <3>1. \A r \in Names : Line(r)' = Line(r)
      BY <1>2, LineSame DEF AddAndPromise, Serving
    <3>2. promise[t] = "idle" /\ promise' = [promise EXCEPT ![t] = "conflict"]
      BY <1>2 DEF AddAndPromise
    <3> QED BY <3>1, <3>2 DEF Serial!Refuse
  <2> QED BY <2>1 DEF Serial!Next
<1>3. CASE ~RunsIn(s, ctx)
  <2>1. /\ promise[t] = "idle"
        /\ promise' = [promise EXCEPT ![t] = "pending"]
        /\ sequence' = [sequence EXCEPT ![s] = Append(@, t)]
        /\ active' = active
    BY <1>3 DEF AddAndPromise
  <2>2. \A r \in Names : Serving(r)' = Serving(r)
    BY <2>1 DEF Serving
  <2>3. Serving(s) \subseteq Tasks
    BY <1>1 DEF Serving, IInv, TypeOK, Ticks
  <2>4. Line(s)' = Append(Line(s), t)
    <3> DEFINE front == Front(Serving(s))
    <3>1. front \in Seq(Tasks)
      BY <2>3, FrontFacts
    <3>2. Line(s) = front \o sequence[s] /\ Line(s)' = front \o sequence'[s]
      BY <1>1, <2>2 DEF Line
    <3>3. sequence'[s] = Append(sequence[s], t)
      BY <1>1, <2>1 DEF IInv, TypeOK
    <3>4. front \o Append(sequence[s], t) = Append(front \o sequence[s], t)
      <4> HIDE DEF front
      <4> QED BY <1>1, <3>1
    <3> QED BY <3>2, <3>3, <3>4
  <2>5. \A r \in Names \ {s} : Line(r)' = Line(r)
    BY <2>1, <2>2, LineSame DEF IInv, TypeOK
  <2>6. Serial!Accept(t)
    BY <1>1, <2>1, <2>4, <2>5 DEF Serial!Accept
  <2> QED BY <2>6 DEF Serial!Next
<1> QED BY <1>2, <1>3

(* A tick, the shift of the next task and the end of a loop leave every     *)
(* line as it is.                                                           *)
LEMMA QuietStep ==
  ASSUME IInv, NEW s \in Names,
         \/ Tick(s)
         \/ \E k \in active[s] : Shift(s, k) \/ EndTick(s, k)
  PROVE  /\ promise' = promise
         /\ \A r \in Names : Line(r)' = Line(r)
<1> USE DEF IInv
<1>1. CASE Tick(s)
  <2>1. \A r \in Names : Serving(r)' = Serving(r)
    <3>1. CASE TickDropped(s)
      BY <1>1, <3>1 DEF Tick, Serving
    <3>2. CASE ~TickDropped(s)
      <4>1. \E k : k.task = NoTask /\ active' = [active EXCEPT ![s] = @ \cup {k}]
        BY <1>1, <3>2 DEF Tick, NewTick
      <4> QED BY <4>1 DEF Serving, TypeOK
    <3> QED BY <3>1, <3>2
  <2> QED BY <1>1, <2>1, LineSame DEF Tick
<1>2. ASSUME NEW k \in active[s], Shift(s, k)
      PROVE  promise' = promise /\ \A r \in Names : Line(r)' = Line(r)
  <2> DEFINE n == [left |-> k.left - 1, task |-> Head(sequence[s]), ctx |-> k.ctx]
  <2>1. active[s] = {k} /\ sequence[s] \in Seq(Tasks) /\ sequence[s] # <<>>
    BY <1>2 DEF MutualExclusion, TypeOK, Shift
  <2>2. /\ active' = [active EXCEPT ![s] = {n}]
        /\ sequence' = [sequence EXCEPT ![s] = Tail(@)]
        /\ promise' = promise
    BY <1>2, <2>1 DEF Shift, TypeOK
  <2>3. Head(sequence[s]) \in Tasks /\ Head(sequence[s]) # NoTask
    BY <2>1, SequenceAssumption
  <2>4. Line(s) = <<>> \o sequence[s]
    BY <1>2, <2>1, LineIdle DEF Shift
  <2>5. Line(s)' = <<Head(sequence[s])>> \o Tail(sequence[s])
    <3>1. active'[s] = {n} /\ n.task = Head(sequence[s])
      BY <2>2 DEF TypeOK
    <3>2. Serving(s)' = {Head(sequence[s])}
      BY <2>3, <3>1 DEF Serving
    <3>3. sequence'[s] = Tail(sequence[s])
      BY <2>2 DEF TypeOK
    <3> QED BY <3>2, <3>3, FrontFacts DEF Line
  <2>6. Line(s)' = Line(s)
    BY <2>1, <2>3, <2>4, <2>5
  <2>7. \A r \in Names \ {s} : Line(r)' = Line(r)
    BY <2>2, LineSame DEF Serving, TypeOK
  <2> QED BY <2>2, <2>6, <2>7
<1>3. ASSUME NEW k \in active[s], EndTick(s, k)
      PROVE  promise' = promise /\ \A r \in Names : Line(r)' = Line(r)
  <2>1. active[s] = {k} /\ k.task = NoTask
    BY <1>3 DEF MutualExclusion, EndTick
  <2>2. \A j \in active'[s] : j.task = NoTask
    BY <1>3, <2>1 DEF EndTick, FollowUp, NewTick
  <2>3. ASSUME NEW r \in Names \ {s} PROVE Serving(r)' = Serving(r)
    <3>1. active'[r] = {LeaveTick(s, j) : j \in active[r]}
      BY <1>3, <2>3 DEF EndTick
    <3>2. \A j \in active[r] : LeaveTick(s, j).task = j.task
      BY DEF LeaveTick
    <3> QED BY <3>1, <3>2 DEF Serving
  <2>4. Serving(s)' = Serving(s)
    BY <2>1, <2>2 DEF Serving
  <2> QED BY <1>3, <2>3, <2>4, LineSame DEF EndTick
<1> QED BY <1>1, <1>2, <1>3

(* A worker that settles answers the head of its line. *)
LEMMA AnswerStep ==
  ASSUME IInv, NEW s \in Names, NEW k \in active[s], Settle(s, k)
  PROVE  Serial!Next
<1> USE DEF IInv
<1> DEFINE n == [k EXCEPT !.task = NoTask]
<1>1. active[s] = {k} /\ k \in Ticks /\ k.task # NoTask /\ k.task \in Tasks
  BY DEF MutualExclusion, TypeOK, Settle, Ticks
<1>2. /\ active' = [active EXCEPT ![s] = {n}]
      /\ sequence' = sequence
      /\ n.task = NoTask
  BY <1>1 DEF Settle, TypeOK, Ticks
<1>3. sequence[s] \in Seq(Tasks)
  BY DEF TypeOK
<1>4. Line(s) = <<k.task>> \o sequence[s]
  BY <1>1, LineBusy
<1>5. Line(s)' = <<>> \o sequence[s]
  <2>1. Serving(s)' = {}
    BY <1>2 DEF Serving, TypeOK
  <2> QED BY <2>1, <1>2, FrontFacts DEF Line
<1>6. Line(s) # <<>> /\ Head(Line(s)) = k.task /\ Line(s)' = Tail(Line(s))
  BY <1>1, <1>3, <1>4, <1>5
<1>7. \A r \in Names \ {s} : Line(r)' = Line(r)
  BY <1>2, LineSame DEF Serving, TypeOK
<1>8. \E outcome \in {"resolved", "rejected"} :
        promise' = [promise EXCEPT ![k.task] = outcome]
  BY DEF Settle, Outcomes
<1>9. Serial!Answer(s)
  BY <1>6, <1>7, <1>8 DEF Serial!Answer
<1> QED BY <1>9 DEF Serial!Next

(* The sequences implement the serial executor (safety): calls are answered *)
(* one at a time and in the order in which they were accepted.              *)
THEOREM ImplementsSerialExecutor == Spec => Serial!SafeSpec
<1>1. Init => Serial!Init
  <2>1. ASSUME Init, NEW s \in Names PROVE Line(s) = <<>>
    <3>1. Serving(s) = {} /\ sequence[s] = <<>>
      BY <2>1 DEF Init, Serving
    <3> QED BY <3>1, FrontFacts DEF Line
  <2> QED BY <2>1 DEF Init, Serial!Init
<1>2. IInv /\ [Next]_vars => [Serial!Next]_Serial!vars
  <2> SUFFICES ASSUME IInv, [Next]_vars PROVE [Serial!Next]_Serial!vars
    OBVIOUS
  <2>1. ASSUME NEW t \in Tasks, Call(t) PROVE Serial!Next
    BY <2>1, AcceptStep DEF Call, Contexts
  <2>2. ASSUME NEW s \in Names, NEW k \in active[s], CallNested(s, k) PROVE Serial!Next
    BY <2>2, AcceptStep, SequenceAssumption, SMTT(30) DEF CallNested, IInv, TypeOK, Ticks
  <2>3. ASSUME NEW s \in Names,
               \/ Tick(s)
               \/ \E k \in active[s] : Shift(s, k) \/ EndTick(s, k)
        PROVE  UNCHANGED Serial!vars
    BY <2>3, QuietStep DEF Serial!vars
  <2>4. ASSUME NEW s \in Names, NEW k \in active[s], Settle(s, k) PROVE Serial!Next
    BY <2>4, AnswerStep
  <2>5. CASE UNCHANGED vars
    BY <2>5 DEF vars, Serial!vars, Line, Serving
  <2> QED BY <2>1, <2>2, <2>3, <2>4, <2>5 DEF Next, Step
<1> QED BY <1>1, <1>2, Invariant, PTL DEF Spec, Serial!SafeSpec
=============================================================================
