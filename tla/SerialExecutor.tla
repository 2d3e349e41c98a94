--------------------------- MODULE SerialExecutor ---------------------------
(***************************************************************************)
(* What the node relies on when it wraps a method in a named sequence      *)
(* (core-utils/src/decorators/wrapInSequence.ts): the calls made through   *)
(* one name form a line, the call at the head of the line is the only one  *)
(* being served, calls are answered in the order they were made, and every *)
(* call that was accepted is answered.  Sequence.tla is shown to implement *)
(* this module.                                                            *)
(***************************************************************************)
EXTENDS Naturals, Sequences

CONSTANTS Names,   \* the named sequences
          Tasks,   \* the calls made through them
          SeqOf    \* the sequence each call goes through

VARIABLES line,    \* line[s]: the accepted, unanswered calls of s
          promise  \* promise[t]: what the caller of t has seen so far

vars == <<line, promise>>

Init == /\ line = [s \in Names |-> <<>>]
        /\ promise = [t \in Tasks |-> "idle"]

(* A call is accepted and goes to the end of its line. *)
Accept(t) ==
  /\ promise[t] = "idle"
  /\ promise' = [promise EXCEPT ![t] = "pending"]
  /\ line' = [line EXCEPT ![SeqOf[t]] = Append(@, t)]

(* A call made by a task that already holds the sequence is refused. *)
Refuse(t) ==
  /\ promise[t] = "idle"
  /\ promise' = [promise EXCEPT ![t] = "conflict"]
  /\ UNCHANGED line

(* The call at the head of the line is answered and leaves. *)
Answer(s) ==
  /\ line[s] # <<>>
  /\ \E outcome \in {"resolved", "rejected"} :
       promise' = [promise EXCEPT ![Head(line[s])] = outcome]
  /\ line' = [line EXCEPT ![s] = Tail(@)]

Next == \/ \E t \in Tasks : Accept(t) \/ Refuse(t)
        \/ \E s \in Names : Answer(s)

SafeSpec == Init /\ [][Next]_vars

Spec == SafeSpec /\ \A s \in Names : WF_vars(Answer(s))
=============================================================================
