-------------------------- MODULE NodeControlProofs --------------------------
(***************************************************************************)
(* The node lock names the node that runs, for any plans, faults and        *)
(* bounds, from the shape of the commands: which step comes before a spawn, *)
(* a wait or the removal of the lock, and where the early returns lead; and *)
(* what the exports write is whole, from what each of their steps knows.    *)
(***************************************************************************)
EXTENDS NodeControl, SequenceTheorems, TLAPS

Locks == {"backup", "snapshot"}
Spawning == {"spawn", "spawn verifying"}
\* The steps that have something to do with the node, or from which a command skips others
Special == {"signal", "unlock", "await", "check server", "check import"} \cup Spawning
Plain == {"check node", "up", "down", "wipe", "kill all", "download", "vacuum", "copy", "height",
          "dump", "dump snap", "check backup", "lock backup", "free backup", "check snapshot",
          "lock snapshot", "free snapshot", "drop main", "drop snap", "create main", "create snap",
          "load latest", "load fetched", "load snap"}
Ops == Special \cup Plain
Step == [op : Ops, frees : SUBSET Locks]

(* The lock is removed after the signal and in no other place, a spawn comes  *)
(* after the check, a wait after the spawn, and the early returns come out    *)
(* behind the last step of their function.                                    *)
Fits(P, i) ==
  \/ P[i].op \in Plain
  \/ P[i].op = "signal" /\ i + 1 <= Len(P) /\ P[i + 1].op = "unlock"
  \/ P[i].op = "unlock" /\ 1 <= i - 1 /\ P[i - 1].op = "signal"
  \/ P[i].op = "await" /\ 1 <= i - 1 /\ P[i - 1].op \in Spawning
  \/ P[i].op \in Spawning /\ 1 <= i - 1 /\ P[i - 1].op = "check node"
  \/ P[i].op = "check server" /\ i + 3 <= Len(P) /\ P[i + 3].op = "up"
  \/ P[i].op = "check import" /\ i + 7 <= Len(P) /\ P[i + 7].op = "free backup"
Shape(P) == P \in Seq(Step) /\ 1 <= Len(P) /\ \A i \in 1..Len(P) : Fits(P, i)

-----------------------------------------------------------------------------
(* The commands *)

LEMMA SeqMade ==
  ASSUME NEW S, NEW n \in Nat, NEW f \in [1..n -> S]
  PROVE  f \in Seq(S) /\ Len(f) = n
BY SeqDef

(* The steps do what the list of their operations says.                     *)
LEMMA StepsOps ==
  ASSUME NEW ops \in Seq(Ops), NEW l \in SUBSET Locks
  PROVE  /\ Steps(l, ops) \in Seq(Step) /\ Len(Steps(l, ops)) = Len(ops)
         /\ \A i \in 1..Len(ops) : Steps(l, ops)[i].op = ops[i]
<1>1. Steps(l, ops) \in [1..Len(ops) -> Step]
  BY DEF Steps, Step
<1>2. Steps(l, ops) \in Seq(Step) /\ Len(Steps(l, ops)) = Len(ops)
  BY <1>1, SeqMade
<1> QED BY <1>2 DEF Steps

LEMMA PlainShape ==
  ASSUME NEW ops \in Seq(Plain), 1 <= Len(ops), NEW l \in SUBSET Locks
  PROVE  Shape(Steps(l, ops))
<1> DEFINE P == Steps(l, ops)
<1>1. ops \in Seq(Ops) /\ \A i \in 1..Len(ops) : ops[i] \in Plain
  BY DEF Ops
<1>2. P \in Seq(Step) /\ Len(P) = Len(ops) /\ \A i \in 1..Len(ops) : P[i].op = ops[i]
  BY <1>1, StepsOps
<1> HIDE DEF P
<1>3. ASSUME NEW i \in 1..Len(P) PROVE Fits(P, i)
  <2>1. P[i].op \in Plain
    BY <1>1, <1>2
  <2> QED BY <2>1 DEF Fits
<1> QED BY <1>2, <1>3 DEF Shape, P

(* A function fits wherever it is called.                                   *)
LEMMA Moved ==
  ASSUME NEW P, NEW J, NEW d \in Nat, Len(P) \in Nat, Len(J) \in Nat, d + Len(P) <= Len(J),
         \A k \in 1..Len(P) : J[d + k].op = P[k].op,
         NEW i \in 1..Len(P), Fits(P, i)
  PROVE  Fits(J, d + i)
<1>1. ASSUME NEW k \in 1..Len(P) PROVE J[d + k].op = P[k].op
  OBVIOUS
<1>2. /\ 1 <= i - 1 => J[(d + i) - 1].op = P[i - 1].op /\ 1 <= (d + i) - 1
      /\ i + 1 <= Len(P) => J[(d + i) + 1].op = P[i + 1].op /\ (d + i) + 1 <= Len(J)
      /\ i + 3 <= Len(P) => J[(d + i) + 3].op = P[i + 3].op /\ (d + i) + 3 <= Len(J)
      /\ i + 7 <= Len(P) => J[(d + i) + 7].op = P[i + 7].op /\ (d + i) + 7 <= Len(J)
  <2>1. ASSUME NEW n \in Int, i + n \in 1..Len(P)
        PROVE  J[(d + i) + n].op = P[i + n].op /\ 1 <= (d + i) + n /\ (d + i) + n <= Len(J)
    <3>1. (d + i) + n = d + (i + n)
      OBVIOUS
    <3> QED BY <1>1, <2>1, <3>1
  <2>2. /\ 1 <= i - 1 => i + (-1) \in 1..Len(P) /\ i + (-1) = i - 1 /\ (d + i) + (-1) = (d + i) - 1
        /\ i + 1 <= Len(P) => i + 1 \in 1..Len(P)
        /\ i + 3 <= Len(P) => i + 3 \in 1..Len(P)
        /\ i + 7 <= Len(P) => i + 7 \in 1..Len(P)
    OBVIOUS
  <2>3. 1 <= i - 1 => J[(d + i) - 1].op = P[i - 1].op /\ 1 <= (d + i) - 1
    <3> SUFFICES ASSUME 1 <= i - 1 PROVE J[(d + i) - 1].op = P[i - 1].op /\ 1 <= (d + i) - 1
      OBVIOUS
    <3>1. J[(d + i) + (-1)].op = P[i + (-1)].op /\ 1 <= (d + i) + (-1)
      BY <2>1, <2>2
    <3> QED BY <2>2, <3>1
  <2> QED BY <2>1, <2>2, <2>3
<1>3. J[d + i].op = P[i].op
  BY <1>1
<1> QED BY <1>2, <1>3 DEF Fits

(* The finally block of a function changes no operation.                    *)
LEMMA WithinShape ==
  ASSUME NEW P, Shape(P), NEW l \in Locks
  PROVE  Shape(Within(l, P)) /\ Len(Within(l, P)) = Len(P)
<1> DEFINE W == Within(l, P)
<1>1. P \in Seq(Step) /\ Len(P) \in Nat /\ \A i \in 1..Len(P) : P[i] \in Step /\ Fits(P, i)
  BY DEF Shape
<1>2. W \in [1..Len(P) -> Step]
  BY <1>1 DEF Step, Within
<1>3. W \in Seq(Step) /\ Len(W) = Len(P)
  BY <1>1, <1>2, SeqMade
<1>4. ASSUME NEW i \in 1..Len(P) PROVE W[0 + i].op = P[i].op
  <2>1. P[i] \in Step /\ 0 + i = i
    BY <1>1
  <2> QED BY <1>1, <2>1 DEF Step, Within
<1> HIDE DEF W
<1>5. ASSUME NEW i \in 1..Len(W) PROVE Fits(W, i)
  <2>1. Fits(W, 0 + i)
    BY <1>1, <1>3, <1>4, Moved, SMTT(30)
  <2> QED BY <1>1, <1>3, <2>1
<1> QED BY <1>3, <1>5 DEF Shape, W

LEMMA Joined ==
  ASSUME NEW P \in Seq(Step), NEW Q \in Seq(Step)
  PROVE  /\ P \o Q \in Seq(Step) /\ Len(P \o Q) = Len(P) + Len(Q)
         /\ \A i \in 1..Len(P) : (P \o Q)[i] = P[i]
         /\ \A i \in 1..Len(Q) : (P \o Q)[Len(P) + i] = Q[i]
OBVIOUS

(* One function after the other.                                            *)
LEMMA JoinedShape ==
  ASSUME NEW P, NEW Q, Shape(P), Shape(Q)
  PROVE  Shape(P \o Q) /\ Len(P \o Q) = Len(P) + Len(Q)
<1> DEFINE J == P \o Q
<1>1. /\ P \in Seq(Step) /\ Q \in Seq(Step) /\ Len(P) \in Nat /\ Len(Q) \in Nat
      /\ \A i \in 1..Len(P) : Fits(P, i)
      /\ \A i \in 1..Len(Q) : Fits(Q, i)
  BY DEF Shape
<1>2. J \in Seq(Step) /\ Len(J) = Len(P) + Len(Q)
  BY <1>1
<1>3. /\ \A i \in 1..Len(P) : J[0 + i].op = P[i].op
      /\ \A i \in 1..Len(Q) : J[Len(P) + i].op = Q[i].op
  BY <1>1
<1> HIDE DEF J
<1>4. ASSUME NEW i \in 1..Len(J) PROVE Fits(J, i)
  <2>1. CASE i \in 1..Len(P)
    <3>1. Fits(J, 0 + i)
      <4>1. Len(J) \in Nat /\ 0 + Len(P) <= Len(J)
        BY <1>1, <1>2
      <4> QED BY <1>1, <1>3, <2>1, <4>1, Moved
    <3> QED BY <1>1, <2>1, <3>1
  <2>2. CASE i \notin 1..Len(P)
    <3> DEFINE k == i - Len(P)
    <3>1. k \in 1..Len(Q) /\ Len(P) + k = i
      BY <1>1, <1>2, <2>2
    <3> HIDE DEF k
    <3>2. Fits(J, Len(P) + k)
      BY <1>1, <1>2, <1>3, <3>1, Moved
    <3> QED BY <3>1, <3>2
  <2> QED BY <2>1, <2>2
<1> QED BY <1>2, <1>4 DEF Shape, J

(* The functions whose steps depend on each other.                          *)
LEMMA StopShape == Shape(NodeStop) /\ Len(NodeStop) = 2
<1> DEFINE ops == <<"signal", "unlock">>
           P == Steps({}, ops)
<1>1. ops \in Seq(Ops) /\ Len(ops) = 2
  BY DEF Ops, Special, Plain, Spawning
<1>2. ops[1] = "signal" /\ ops[2] = "unlock"
  OBVIOUS
<1> HIDE DEF ops
<1>3. P \in Seq(Step) /\ Len(P) = 2 /\ \A i \in 1..2 : P[i].op = ops[i]
  BY <1>1, StepsOps
<1> HIDE DEF P
<1>4. P[1].op = ops[1] /\ P[2].op = ops[2]
  BY <1>3
<1>5. P[1].op = "signal" /\ P[2].op = "unlock"
  BY <1>2, <1>4, Zenon
<1>6. Fits(P, 1)
  <2>1. 1 + 1 <= Len(P) /\ P[1 + 1].op = "unlock"
    BY <1>3, <1>5
  <2> QED BY <1>5, <2>1, Zenon DEF Fits
<1>7. Fits(P, 2)
  <2>1. 2 - 1 = 1 /\ 1 <= 2 - 1
    OBVIOUS
  <2>2. P[2 - 1].op = "signal"
    BY <1>5, <2>1, Zenon
  <2> QED BY <1>5, <2>1, <2>2, Zenon DEF Fits
<1>8. \A i \in 1..Len(P) : Fits(P, i)
  BY <1>3, <1>6, <1>7
<1> QED BY <1>3, <1>8 DEF Shape, NodeStop, P, ops

LEMMA StartShape == Shape(NodeStart)
<1> DEFINE ops == <<"check node", "spawn", "await">>
           P == Steps({}, ops)
<1>1. ops \in Seq(Ops) /\ Len(ops) = 3
  BY DEF Ops, Special, Plain, Spawning
<1>2. ops[1] = "check node" /\ ops[2] = "spawn" /\ ops[3] = "await"
  OBVIOUS
<1> HIDE DEF ops
<1>3. P \in Seq(Step) /\ Len(P) = 3 /\ \A i \in 1..3 : P[i].op = ops[i]
  BY <1>1, StepsOps
<1> HIDE DEF P
<1>4. P[1].op = ops[1] /\ P[2].op = ops[2] /\ P[3].op = ops[3]
  BY <1>3
<1>5. P[1].op = "check node" /\ P[2].op = "spawn" /\ P[3].op = "await"
  BY <1>2, <1>4, Zenon
<1>6. Fits(P, 1)
  BY <1>5 DEF Fits, Plain
<1>7. Fits(P, 2)
  <2>1. 2 - 1 = 1 /\ 1 <= 2 - 1
    OBVIOUS
  <2>2. P[2 - 1].op = "check node"
    BY <1>5, <2>1, Zenon
  <2> QED BY <1>5, <2>1, <2>2, Zenon DEF Fits, Spawning
<1>8. Fits(P, 3)
  <2>1. 3 - 1 = 2 /\ 1 <= 3 - 1
    OBVIOUS
  <2>2. P[3 - 1].op = "spawn"
    BY <1>5, <2>1, Zenon
  <2> QED BY <1>5, <2>1, <2>2, Zenon DEF Fits, Spawning
<1>9. 1 <= Len(P) /\ \A i \in 1..Len(P) : Fits(P, i)
  BY <1>3, <1>6, <1>7, <1>8
<1> QED BY <1>3, <1>9, Zenon DEF Shape, NodeStart, P, ops

(* An early return from the first step comes out behind the last one.       *)
Early(P, Q) ==
  /\ 1 <= Len(P) /\ 1 <= Len(Q) /\ \A i \in 2..Len(P) : P[i].op \in Plain
  /\ \/ P[1].op = "check server" /\ Len(P) + Len(Q) = 4 /\ Q[Len(Q)].op = "up"
     \/ P[1].op = "check import" /\ Len(P) + Len(Q) = 8 /\ Q[Len(Q)].op = "free backup"

LEMMA FirstShape ==
  ASSUME NEW P, NEW Q, P \in Seq(Step), Shape(Q), Early(P, Q)
  PROVE  Shape(P \o Q) /\ Len(P \o Q) = Len(P) + Len(Q)
<1> DEFINE J == P \o Q
<1>1. Q \in Seq(Step) /\ Len(Q) \in Nat /\ Len(P) \in Nat /\ \A i \in 1..Len(Q) : Fits(Q, i)
  BY DEF Shape
<1>2. J \in Seq(Step) /\ Len(J) = Len(P) + Len(Q) /\ Len(J) \in Nat
  BY <1>1, Joined
<1>3. /\ \A i \in 1..Len(P) : J[i] = P[i]
      /\ \A i \in 1..Len(Q) : J[Len(P) + i] = Q[i]
  BY <1>1, Joined
<1> HIDE DEF J
<1>4. 1 <= Len(P) /\ 1 <= Len(Q) /\ \A i \in 2..Len(P) : P[i].op \in Plain
  BY DEF Early
<1>5. J[1] = P[1] /\ J[Len(J)] = Q[Len(Q)]
  BY <1>1, <1>2, <1>3, <1>4
<1>6. Fits(J, 1)
  <2>1. CASE P[1].op = "check server" /\ Len(P) + Len(Q) = 4 /\ Q[Len(Q)].op = "up"
    <3>1. Len(J) = 4
      BY <1>2, <2>1, Zenon
    <3>2. 1 + 3 = 4 /\ 4 <= 4
      OBVIOUS
    <3> QED BY <1>5, <2>1, <3>1, <3>2, Zenon DEF Fits
  <2>2. CASE P[1].op = "check import" /\ Len(P) + Len(Q) = 8 /\ Q[Len(Q)].op = "free backup"
    <3>1. Len(J) = 8
      BY <1>2, <2>2, Zenon
    <3>2. 1 + 7 = 8 /\ 8 <= 8
      OBVIOUS
    <3> QED BY <1>5, <2>2, <3>1, <3>2, Zenon DEF Fits
  <2> QED BY <2>1, <2>2 DEF Early
<1>7. ASSUME NEW i \in 1..Len(J), i # 1 PROVE Fits(J, i)
  <2>1. CASE i <= Len(P)
    <3>1. J[i].op \in Plain
      BY <1>1, <1>3, <1>4, <1>7, <2>1
    <3> QED BY <3>1, Zenon DEF Fits
  <2>2. CASE ~(i <= Len(P))
    <3> DEFINE k == i - Len(P)
    <3>1. k \in 1..Len(Q) /\ Len(P) + k = i
      BY <1>1, <1>2, <2>2
    <3>2. Len(P) + Len(Q) <= Len(J)
      BY <1>1, <1>2
    <3> HIDE DEF k
    <3>3. Fits(J, Len(P) + k)
      BY <1>1, <1>2, <1>3, <3>1, <3>2, Moved
    <3> QED BY <3>1, <3>3
  <2> QED BY <2>1, <2>2
<1> QED BY <1>2, <1>6, <1>7 DEF Shape, J

(* A call of nodeStop between two other parts of a function.                *)
LEMMA AroundStop ==
  ASSUME NEW P \in Seq(Step), NEW C, Shape(C), 1 <= Len(C)
  PROVE  /\ (P \o NodeStop) \o C = P \o (NodeStop \o C)
         /\ Shape(NodeStop \o C) /\ Len(NodeStop \o C) = 2 + Len(C)
         /\ (NodeStop \o C)[Len(NodeStop \o C)] = C[Len(C)]
<1>1. NodeStop \in Seq(Step) /\ C \in Seq(Step) /\ Len(C) \in Nat
  BY StopShape DEF Shape
<1>2. (P \o NodeStop) \o C = P \o (NodeStop \o C)
  <2> DEFINE N == NodeStop
  <2> HIDE DEF N
  <2>1. N \in Seq(Step) /\ C \in Seq(Step)
    BY <1>1 DEF N
  <2>2. (P \o N) \o C = P \o (N \o C)
    BY <2>1, ConcatAssociative
  <2> QED BY <2>2 DEF N
<1>3. Shape(NodeStop \o C) /\ Len(NodeStop \o C) = Len(NodeStop) + Len(C)
  BY StopShape, JoinedShape
<1>4. (NodeStop \o C)[Len(NodeStop) + Len(C)] = C[Len(C)]
  <2>1. Len(C) \in 1..Len(C)
    BY <1>1
  <2> QED BY <1>1, <2>1, Joined
<1>5. Len(NodeStop) = 2
  BY StopShape
<1> QED BY <1>2, <1>3, <1>4, <1>5, Zenon

(* db start, skipped when the server runs already.                          *)
LEMMA DbStartShape == Shape(DbStart) /\ Len(DbStart) = 4
<1> DEFINE a == <<"check server">>
           c == <<"up">>
           A == Steps({}, a)
           C == Steps({}, c)
           Q == NodeStop \o C
<1>1. a \in Seq(Ops) /\ c \in Seq(Ops) /\ c \in Seq(Plain) /\ Len(a) = 1 /\ Len(c) = 1
  BY DEF Ops, Special, Plain
<1>2. a[1] = "check server" /\ c[1] = "up"
  OBVIOUS
<1> HIDE DEF a, c
<1>3. /\ A \in Seq(Step) /\ Len(A) = 1 /\ A[1].op = a[1]
      /\ C \in Seq(Step) /\ Len(C) = 1 /\ C[1].op = c[1] /\ Shape(C)
  BY <1>1, StepsOps, PlainShape
<1> HIDE DEF A, C
<1>4. 1 <= Len(C) /\ C[Len(C)].op = c[1]
  BY <1>3
<1>5. Shape(Q) /\ Len(Q) = 3 /\ Q[Len(Q)].op = "up" /\ DbStart = A \o Q
  <2>1. Shape(Q) /\ Len(Q) = 2 + Len(C) /\ Q[Len(Q)] = C[Len(C)] /\ (A \o NodeStop) \o C = A \o Q
    BY <1>3, <1>4, AroundStop, Zenon
  <2>2. DbStart = (A \o NodeStop) \o C
    BY DEF DbStart, A, C, a, c
  <2>3. 2 + Len(C) = 3
    BY <1>3
  <2> QED BY <1>2, <1>4, <2>1, <2>2, <2>3, Zenon
<1> HIDE DEF Q
<1>6. Early(A, Q)
  <2>1. 1 <= Len(A) /\ 1 <= Len(Q) /\ Len(A) + Len(Q) = 4 /\ 2..Len(A) = {}
    BY <1>3, <1>5
  <2>2. A[1].op = "check server"
    BY <1>2, <1>3, Zenon
  <2> QED BY <1>5, <2>1, <2>2, Zenon DEF Early
<1>7. Shape(A \o Q) /\ Len(A \o Q) = Len(A) + Len(Q)
  BY <1>3, <1>5, <1>6, FirstShape
<1> QED BY <1>3, <1>5, <1>7

(* import-db, which a refusal leaves at its end.                            *)
Loads == {"load latest", "load fetched"}
LEMMA ImportShape ==
  ASSUME NEW file \in Loads
  PROVE  Shape(ImportDB(file)) /\ Len(ImportDB(file)) = 8
<1> DEFINE a == <<"check import", "lock backup">>
           c == <<"drop main", "create main", file, "free backup">>
           A == Steps({}, a)
           C == Steps({}, c)
           Q == NodeStop \o C
<1>1. /\ a \in Seq(Ops) /\ c \in Seq(Plain) /\ c \in Seq(Ops)
      /\ Len(a) = 2 /\ Len(c) = 4
  <2>1. a \in Seq(Ops) /\ Len(a) = 2
    BY DEF Ops, Special, Plain
  <2>2. c \in Seq(Plain) /\ Len(c) = 4
    <3>1. Loads \subseteq Plain /\ {"drop main", "create main", "free backup"} \subseteq Plain
      BY DEF Plain, Loads
    <3>2. \A x, y, z, w \in Plain : <<x, y, z, w>> \in Seq(Plain) /\ Len(<<x, y, z, w>>) = 4
      OBVIOUS
    <3> QED BY <3>1, <3>2
  <2>3. c \in Seq(Ops)
    <3>1. Plain \subseteq Ops
      BY DEF Ops
    <3> HIDE DEF c
    <3> QED BY <2>2, <3>1
  <2> QED BY <2>1, <2>2, <2>3
<1>2. a[1] = "check import" /\ a[2] = "lock backup" /\ c[4] = "free backup"
  OBVIOUS
<1> HIDE DEF a, c
<1>3. /\ A \in Seq(Step) /\ Len(A) = 2 /\ A[1].op = a[1] /\ A[2].op = a[2]
      /\ C \in Seq(Step) /\ Len(C) = 4 /\ C[4].op = c[4] /\ Shape(C)
  <2>1. A \in Seq(Step) /\ Len(A) = Len(a) /\ \A i \in 1..Len(a) : A[i].op = a[i]
    BY <1>1, StepsOps
  <2>2. C \in Seq(Step) /\ Len(C) = Len(c) /\ \A i \in 1..Len(c) : C[i].op = c[i]
    BY <1>1, StepsOps
  <2>3. Shape(C)
    <3>1. 1 <= Len(c)
      BY <1>1
    <3> QED BY <1>1, <3>1, PlainShape
  <2>4. 1 \in 1..Len(a) /\ 2 \in 1..Len(a) /\ 4 \in 1..Len(c)
    BY <1>1
  <2> HIDE DEF A, C
  <2> QED BY <1>1, <2>1, <2>2, <2>3, <2>4, Zenon
<1> HIDE DEF A, C
<1>4. 1 <= Len(C) /\ C[Len(C)].op = c[4]
  <2>1. 1 <= 4
    OBVIOUS
  <2> QED BY <1>3, <2>1, Zenon
<1>5. /\ Shape(Q) /\ Len(Q) = 6 /\ Q[Len(Q)].op = "free backup"
      /\ ImportDB(file) = Within("backup", A \o Q)
  <2>1. Shape(Q) /\ Len(Q) = 2 + Len(C) /\ Q[Len(Q)] = C[Len(C)] /\ (A \o NodeStop) \o C = A \o Q
    BY <1>3, <1>4, AroundStop, Zenon
  <2>2. ImportDB(file) = Within("backup", (A \o NodeStop) \o C)
    BY DEF ImportDB, A, C, a, c
  <2>3. 2 + 4 = 6
    OBVIOUS
  <2> QED BY <1>2, <1>3, <1>4, <2>1, <2>2, <2>3, Zenon
<1> HIDE DEF Q
<1>6. Early(A, Q)
  <2>1. 1 <= Len(A) /\ 1 <= Len(Q) /\ Len(A) + Len(Q) = 8 /\ \A i \in 2..Len(A) : i = 2
    <3>1. Len(A) = 2 /\ Len(Q) = 6
      BY <1>3, <1>5, Zenon
    <3> QED BY <3>1
  <2>2. A[1].op = "check import" /\ A[2].op = "lock backup"
    BY <1>2, <1>3, Zenon
  <2>3. \A i \in 2..Len(A) : A[i].op \in Plain
    BY <2>1, <2>2 DEF Plain
  <2> QED BY <1>5, <2>1, <2>2, <2>3, Zenon DEF Early
<1>7. Shape(A \o Q) /\ Len(A \o Q) = Len(A) + Len(Q)
  BY <1>3, <1>5, <1>6, FirstShape
<1>8. Len(A) + Len(Q) = 8
  <2>1. Len(A) = 2 /\ Len(Q) = 6
    BY <1>3, <1>5, Zenon
  <2> QED BY <2>1
<1>9. Shape(Within("backup", A \o Q)) /\ Len(Within("backup", A \o Q)) = Len(A \o Q)
  BY <1>7, WithinShape DEF Locks
<1> QED BY <1>5, <1>7, <1>8, <1>9, Zenon

(* Every program of the command line has the shape.                         *)
LEMMA ExportShape == Shape(ExportDB)
<1>1. Shape(Steps({}, <<"check backup", "lock backup">>))
  <2>1. <<"check backup", "lock backup">> \in Seq(Plain) /\ 1 <= Len(<<"check backup", "lock backup">>)
    BY DEF Plain
  <2> QED BY <2>1, PlainShape
<1>2. Shape(Steps({}, <<"drop snap", "vacuum", "create snap", "copy", "height", "dump", "drop snap",
                        "free backup">>))
  <2>1. \A a, b, c, d, e, f, g, h \in Plain :
          <<a, b, c, d, e, f, g, h>> \in Seq(Plain)
    OBVIOUS
  <2>2. {"drop snap", "vacuum", "create snap", "copy", "height", "dump", "free backup"} \subseteq Plain
    BY DEF Plain
  <2> DEFINE ops == <<"drop snap", "vacuum", "create snap", "copy", "height", "dump", "drop snap",
                      "free backup">>
  <2>3. ops \in Seq(Plain) /\ 1 <= Len(ops)
    <3>1. ops \in Seq(Plain)
      BY <2>1, <2>2
    <3>2. Len(ops) = 8
      OBVIOUS
    <3> HIDE DEF ops
    <3>3. 1 <= Len(ops)
      BY <3>2
    <3> QED BY <3>1, <3>3
  <2> HIDE DEF ops
  <2>4. Shape(Steps({}, ops))
    BY <2>3, PlainShape
  <2> QED BY <2>4 DEF ops
<1> QED BY <1>1, <1>2, StopShape, JoinedShape, WithinShape, Zenon DEF ExportDB, Locks

LEMMA SnapshotShape == Shape(ExportSnapshot)
<1> DEFINE ops == <<"drop snap", "create snap", "load snap", "check node", "spawn verifying",
                    "await", "dump snap", "drop snap", "free snapshot">>
           P == Steps({}, ops)
<1>1. Shape(Steps({}, <<"check snapshot", "lock snapshot">>))
  <2>1. /\ <<"check snapshot", "lock snapshot">> \in Seq(Plain)
        /\ 1 <= Len(<<"check snapshot", "lock snapshot">>)
    BY DEF Plain
  <2> QED BY <2>1, PlainShape
<1>2. ops \in Seq(Ops) /\ Len(ops) = 9
  <2>1. \A a, b, c, d, e, f, g, h, i \in Ops :
          <<a, b, c, d, e, f, g, h, i>> \in Seq(Ops) /\ Len(<<a, b, c, d, e, f, g, h, i>>) = 9
    OBVIOUS
  <2>2. {"drop snap", "create snap", "load snap", "check node", "spawn verifying",
         "await", "dump snap", "free snapshot"} \subseteq Ops
    BY DEF Ops, Special, Plain, Spawning
  <2> QED BY <2>1, <2>2
<1>3. /\ ops[1] = "drop snap" /\ ops[2] = "create snap" /\ ops[3] = "load snap"
      /\ ops[4] = "check node" /\ ops[5] = "spawn verifying" /\ ops[6] = "await"
      /\ ops[7] = "dump snap" /\ ops[8] = "drop snap" /\ ops[9] = "free snapshot"
  OBVIOUS
<1> HIDE DEF ops
<1>4. P \in Seq(Step) /\ Len(P) = 9 /\ \A i \in 1..9 : P[i].op = ops[i]
  BY <1>2, StepsOps, SMTT(30)
<1> HIDE DEF P
<1>5. /\ P[4].op = ops[4] /\ P[5].op = ops[5] /\ P[6].op = ops[6]
      /\ \A i \in 1..9 : i \notin {5, 6} => P[i].op = ops[i]
  BY <1>4
<1>6. Fits(P, 5)
  <2>1. 5 - 1 = 4 /\ 1 <= 5 - 1
    OBVIOUS
  <2>2. P[5 - 1].op = "check node"
    BY <1>3, <1>5, <2>1, Zenon
  <2> QED BY <1>3, <1>5, <2>1, <2>2, Zenon DEF Fits, Spawning
<1>7. Fits(P, 6)
  <2>1. 6 - 1 = 5 /\ 1 <= 6 - 1
    OBVIOUS
  <2>2. P[6 - 1].op \in Spawning
    BY <1>3, <1>5, <2>1, Zenon DEF Spawning
  <2> QED BY <1>3, <1>5, <2>1, <2>2, Zenon DEF Fits
<1>8. ASSUME NEW i \in 1..9, i \notin {5, 6} PROVE Fits(P, i)
  <2>1. ops[i] \in {ops[1], ops[2], ops[3], ops[4], ops[7], ops[8], ops[9]}
    <3>1. i \in {1, 2, 3, 4, 7, 8, 9}
      BY <1>8
    <3> QED BY <3>1
  <2>2. {ops[1], ops[2], ops[3], ops[4], ops[7], ops[8], ops[9]} \subseteq Plain
    BY <1>3, Zenon DEF Plain
  <2> QED BY <1>5, <1>8, <2>1, <2>2, Zenon DEF Fits
<1>9. Shape(P)
  BY <1>4, <1>6, <1>7, <1>8 DEF Shape
<1> QED BY <1>1, <1>9, ExportShape, JoinedShape, WithinShape, Zenon DEF ExportSnapshot, Locks, P, ops

LEMMA ProgramShape ==
  ASSUME NEW n \in DOMAIN Program
  PROVE  Shape(Program[n])
<1> DEFINE One(op) == Shape(Steps({}, <<op>>))
<1>1. \A a \in Plain : <<a>> \in Seq(Plain) /\ 1 <= Len(<<a>>)
  OBVIOUS
<1>2. {"kill all", "down", "create main", "download"} \subseteq Plain
  BY DEF Plain
<1>3. One("kill all") /\ One("down") /\ One("create main") /\ One("download")
  BY <1>1, <1>2, PlainShape
<1>4. Shape(Steps({}, <<"down", "wipe">>)) /\ Shape(Steps({}, <<"down", "kill all">>))
  <2>1. /\ <<"down", "wipe">> \in Seq(Plain) /\ 1 <= Len(<<"down", "wipe">>)
        /\ <<"down", "kill all">> \in Seq(Plain) /\ 1 <= Len(<<"down", "kill all">>)
    BY DEF Plain
  <2> QED BY <2>1, PlainShape
<1>5. Shape(DbInit)
  BY <1>3, <1>4, StopShape, DbStartShape, JoinedShape, Zenon DEF DbInit
<1>6. Shape(ImportDB("load latest")) /\ Shape(DownloadSnapshot)
  <2>1. Shape(ImportDB("load latest")) /\ Shape(ImportDB("load fetched"))
    BY ImportShape DEF Loads
  <2> QED BY <1>3, <2>1, JoinedShape, Zenon DEF DownloadSnapshot
<1>7. Shape(NodeStop \o NodeStart)
  BY StopShape, StartShape, JoinedShape, Zenon
<1>8. Shape(Steps({}, <<"down", "kill all">>) \o NodeStop \o Steps({}, <<"down">>) \o DbInit
              \o DownloadSnapshot \o NodeStart)
  BY <1>3, <1>4, <1>5, <1>6, StopShape, StartShape, JoinedShape, Zenon
<1> HIDE DEF One
<1>9. n \in {"start", "restart", "stop", "kill", "dbstart", "dbstop", "export", "import",
              "snapshot", "setup"}
  BY DEF Program
<1>10. /\ Program["start"] = NodeStart /\ Program["restart"] = NodeStop \o NodeStart
       /\ Program["stop"] = NodeStop /\ Program["kill"] = Steps({}, <<"kill all">>)
       /\ Program["dbstart"] = DbStart /\ Program["dbstop"] = Steps({}, <<"down">>)
       /\ Program["export"] = ExportDB /\ Program["import"] = ImportDB("load latest")
       /\ Program["snapshot"] = ExportSnapshot
       /\ Program["setup"] = Steps({}, <<"down", "kill all">>) \o NodeStop \o Steps({}, <<"down">>)
                             \o DbInit \o DownloadSnapshot \o NodeStart
  BY DEF Program
<1>11. Shape(Steps({}, <<"kill all">>)) /\ Shape(Steps({}, <<"down">>))
  BY <1>3 DEF One
<1>12. /\ Shape(Program["start"]) /\ Shape(Program["restart"]) /\ Shape(Program["stop"])
       /\ Shape(Program["kill"]) /\ Shape(Program["dbstart"]) /\ Shape(Program["dbstop"])
       /\ Shape(Program["export"]) /\ Shape(Program["import"]) /\ Shape(Program["snapshot"])
       /\ Shape(Program["setup"])
  BY <1>6, <1>7, <1>8, <1>10, <1>11, StopShape, StartShape, DbStartShape, ExportShape, SnapshotShape,
     Zenon
<1> QED BY <1>9, <1>12, Zenon

-----------------------------------------------------------------------------
(* The invariant *)

Node == [phase : {"none", "boot", "load", "ready", "gone"}, on : {"main", "snap"},
         verifying : BOOLEAN, announced : BOOLEAN, stopping : BOOLEAN,
         code : {None, "ok", "error", "native", "signal"}]
Command == [name : DOMAIN Program \cup {None}, at : Nat, pid : Pids \cup {None},
            verifying : BOOLEAN, ready : BOOLEAN, rebuilt : BOOLEAN, height : Nat,
            clean : BOOLEAN]
Whole == {x \in Databases : x.accounts <= x.blocks}

TypeInv ==
  /\ node \in [Pids -> Node]
  /\ lock \in Pids \cup {None}
  /\ held \in [Locks -> Shells \cup {"stale", None}]
  /\ server \in BOOLEAN
  /\ db \in [{"main", "snap"} -> Whole \cup {None}]
  /\ latest \in Whole \cup {None} /\ fetched \in Whole \cup {None}
  /\ cmd \in [Shells -> Command]
  /\ plan \in [Shells -> Seq(DOMAIN Program)]
  /\ overlapped \in BOOLEAN
  /\ faults \in 0..MaxFaults

Op(k) == Program[k.name][k.at].op
Delicate == {"unlock", "await"} \cup Spawning
Running(p) == Alive(p) /\ ~node[p].stopping

(* A command is at a step of its program, and waits for a process it has.   *)
Stands(k) ==
  k.name # None => k.at \in 1..Len(Program[k.name]) /\ (Op(k) = "await" => k.pid \in Pids)

(* What a command that is alone relies on: nothing runs when it removes the *)
(* lock or spawns a node, and what runs while it waits is its own.          *)
Relies(k) ==
  k.name # None =>
    /\ Op(k) \in {"unlock"} \cup Spawning => \A p \in Pids : ~Running(p)
    /\ Op(k) = "await" => \A p \in Pids : Running(p) => p = k.pid

CommandInv == \A c \in Shells : Stands(cmd[c])
AloneInv ==
  ~overlapped =>
    /\ \A c, d \in Shells : Active(c) /\ Active(d) => c = d
    /\ \A c \in Shells : Relies(cmd[c])

IInv == TypeInv /\ CommandInv /\ AloneInv /\ LockNamesNode

-----------------------------------------------------------------------------
(* How a command goes on *)

\* It is over, or at a step that relies on nothing
Rests(k) ==
  k.name # None => k.at \in 1..Len(Program[k.name]) /\ Op(k) \notin Delicate
Moves(c) == \E X \in Command : Rests(X) /\ cmd' = [cmd EXCEPT ![c] = X]

LEMMA IdleRests == Idle \in Command /\ Rests(Idle)
BY DEF Idle, Command, Rests

\* n steps from one operation on
Reaches(op, n) ==
  \/ n = 1 /\ op \notin {"signal", "check node"} \cup Spawning
  \/ n = 2 /\ op = "signal"
  \/ n = 4 /\ op = "check server"
  \/ n = 8 /\ op = "check import"

(* The step that is reached fits only behind the last one that is done or   *)
(* left out.                                                                *)
LEMMA Landing ==
  ASSUME NEW P, Shape(P), NEW i \in 1..Len(P), NEW n, Reaches(P[i].op, n), i + n <= Len(P)
  PROVE  i + n \in 1..Len(P) /\ P[i + n].op \notin Delicate
<1>1. Len(P) \in Nat /\ n \in {1, 2, 4, 8}
  <2>1. n = 1 \/ n = 2 \/ n = 4 \/ n = 8
    BY Zenon DEF Reaches
  <2>2. Len(P) \in Nat
    BY DEF Shape
  <2> QED BY <2>1, <2>2
<1>2. i + n \in 1..Len(P) /\ i \in 1..Len(P)
  BY <1>1
<1>3. Fits(P, i) /\ Fits(P, i + n)
  BY <1>2 DEF Shape
<1>4. P[(i + n) - 1].op \notin {"signal", "check node"} \cup Spawning
  <2>1. CASE n = 1 /\ P[i].op \notin {"signal", "check node"} \cup Spawning
    <3>1. (i + n) - 1 = i
      <4>1. n = 1
        BY <2>1, Zenon
      <4> QED BY <4>1
    <3> QED BY <2>1, <3>1
  <2>2. CASE n = 2 /\ P[i].op = "signal"
    <3>1. (i + n) - 1 = i + 1
      BY <2>2
    <3>2. P[i + 1].op = "unlock"
      BY <1>3, <2>2 DEF Fits, Plain, Spawning
    <3> QED BY <3>1, <3>2 DEF Spawning
  <2>3. CASE n = 4 /\ P[i].op = "check server"
    <3>1. (i + n) - 1 = i + 3
      <4>1. n = 4
        BY <2>3, Zenon
      <4> QED BY <4>1
    <3>2. P[i + 3].op = "up"
      BY <1>3, <2>3 DEF Fits, Plain, Spawning
    <3> QED BY <3>1, <3>2 DEF Spawning
  <2>4. CASE n = 8 /\ P[i].op = "check import"
    <3>1. (i + n) - 1 = i + 7
      <4>1. n = 8
        BY <2>4, Zenon
      <4> QED BY <4>1
    <3>2. P[i + 7].op = "free backup"
      BY <1>3, <2>4 DEF Fits, Plain, Spawning
    <3> QED BY <3>1, <3>2 DEF Spawning
  <2> QED BY <2>1, <2>2, <2>3, <2>4 DEF Reaches
<1>5. P[i + n].op \notin {"unlock", "await"} \cup Spawning
  <2>1. Plain \cap ({"unlock", "await"} \cup Spawning) = {}
    BY DEF Plain, Spawning
  <2>2. P[i + n].op # "unlock"
    BY <1>3, <1>4, <2>1 DEF Fits, Spawning
  <2>3. P[i + n].op # "await"
    BY <1>3, <1>4, <2>1 DEF Fits, Spawning
  <2>4. P[i + n].op \notin Spawning
    BY <1>3, <1>4, <2>1 DEF Fits, Spawning
  <2> QED BY <2>2, <2>3, <2>4
<1> QED BY <1>2, <1>5 DEF Delicate

LEMMA OnwardRests ==
  ASSUME NEW k \in Command, k.name # None, Stands(k), NEW n, Reaches(Op(k), n)
  PROVE  Onward(k, n) \in Command /\ Rests(Onward(k, n))
<1> DEFINE P == Program[k.name]
<1>1. k.name \in DOMAIN Program /\ k.at \in 1..Len(P) /\ Len(P) \in Nat /\ Shape(P)
  BY ProgramShape DEF Command, Stands, Shape
<1>2. n \in Nat
  <2>1. n = 1 \/ n = 2 \/ n = 4 \/ n = 8
    BY Zenon DEF Reaches
  <2> QED BY <2>1
<1>3. CASE k.at + n > Len(P)
  BY <1>3, IdleRests DEF Onward
<1>4. CASE ~(k.at + n > Len(P))
  <2> DEFINE X == [k EXCEPT !.at = k.at + n]
  <2>1. Onward(k, n) = X
    BY <1>4 DEF Onward
  <2>2. X \in Command /\ X.name = k.name /\ X.at = k.at + n
    BY <1>1, <1>2 DEF Command
  <2>3. k.at + n <= Len(P)
    BY <1>1, <1>2, <1>4
  <2> HIDE DEF X
  <2>4. k.at + n \in 1..Len(P) /\ P[k.at + n].op \notin Delicate
    BY <1>1, <2>3, Landing DEF Op
  <2> QED BY <2>1, <2>2, <2>4 DEF Rests, Op
<1> QED BY <1>3, <1>4

LEMMA DoingOp ==
  ASSUME NEW c \in Shells, NEW op, Doing(c, op)
  PROVE  Active(c) /\ Op(cmd[c]) = op
BY DEF Doing, Op, Commands

LEMMA SkipMoves ==
  ASSUME IInv, NEW c \in Shells, Active(c), NEW n, Reaches(Op(cmd[c]), n), Skip(c, n)
  PROVE  Moves(c)
<1>1. cmd[c] \in Command /\ cmd[c].name # None /\ Stands(cmd[c])
  BY DEF IInv, TypeInv, CommandInv, Active
<1>2. Onward(cmd[c], n) \in Command /\ Rests(Onward(cmd[c], n))
  BY <1>1, OnwardRests
<1>3. cmd' = [cmd EXCEPT ![c] = Onward(cmd[c], n)]
  BY DEF Skip
<1> QED BY <1>2, <1>3 DEF Moves

Usual(c) == Reaches(Op(cmd[c]), 1)
LEMMA DoneMoves ==
  ASSUME IInv, NEW c \in Shells, Active(c), Usual(c), Done(c)
  PROVE  Moves(c)
BY SkipMoves DEF Done, Usual

HeldOK == held' \in [Locks -> Shells \cup {"stale", None}]
LEMMA FreedTyped ==
  ASSUME IInv, NEW S
  PROVE  Freed(S) \in [Locks -> Shells \cup {"stale", None}]
BY DEF IInv, TypeInv, Freed

LEMMA ThrowsMoves ==
  ASSUME IInv, NEW c \in Shells, Throws(c)
  PROVE  Moves(c) /\ HeldOK
<1>1. Moves(c)
  BY IdleRests DEF Throws, Moves
<1>2. HeldOK
  BY FreedTyped DEF Throws, HeldOK
<1> QED BY <1>1, <1>2

LEMMA DoneOrMoves ==
  ASSUME IInv, NEW c \in Shells, Active(c), Usual(c), NEW condition, DoneOr(c, condition)
  PROVE  Moves(c) /\ HeldOK
<1>1. (Done(c) /\ UNCHANGED held) \/ Throws(c)
  BY DEF DoneOr
<1>2. CASE Done(c) /\ UNCHANGED held
  BY <1>2, DoneMoves DEF HeldOK, IInv, TypeInv
<1> QED BY <1>1, <1>2, ThrowsMoves

LEMMA MoveTyped ==
  ASSUME IInv, NEW c \in Shells, Moves(c)
  PROVE  cmd' \in [Shells -> Command]
BY DEF IInv, TypeInv, Moves

(* A command that goes on to a step that relies on nothing, while no more   *)
(* nodes run than before.                                                   *)
LEMMA RestStep ==
  ASSUME IInv, NEW c \in Shells, Active(c), Moves(c), overlapped' = overlapped,
         \A p \in Pids : Running(p)' => Running(p)
  PROVE  CommandInv' /\ AloneInv'
<1>1. PICK X \in Command : Rests(X) /\ cmd' = [cmd EXCEPT ![c] = X]
  BY DEF Moves
<1>2. /\ cmd'[c] = X
      /\ \A d \in Shells : d # c => cmd'[d] = cmd[d]
  BY <1>1 DEF IInv, TypeInv
<1>3. Stands(X) /\ Relies(X)'
  BY <1>1 DEF Rests, Stands, Relies, Delicate
<1>4. ASSUME NEW d \in Shells PROVE Stands(cmd[d])'
  <2>1. CASE d = c
    BY <1>2, <1>3, <2>1 DEF Stands, Op
  <2>2. CASE d # c
    BY <1>2, <2>2 DEF IInv, CommandInv, Stands, Op
  <2> QED BY <2>1, <2>2
<1>5. ASSUME ~overlapped, NEW d \in Shells PROVE Relies(cmd[d])'
  <2>1. CASE d = c
    BY <1>2, <1>3, <2>1 DEF Relies, Op
  <2>2. CASE d # c
    <3>1. Relies(cmd[d]) /\ cmd'[d] = cmd[d]
      BY <1>2, <1>5, <2>2 DEF IInv, AloneInv
    <3> QED BY <3>1 DEF Relies, Op
  <2> QED BY <2>1, <2>2
<1>6. \A d \in Shells : Active(d)' => Active(d)
  BY <1>2 DEF Active
<1>7. CommandInv'
  BY <1>4 DEF CommandInv
<1>8. AloneInv'
  BY <1>5, <1>6 DEF AloneInv, IInv
<1> QED BY <1>7, <1>8

ControlInv == CommandInv /\ AloneInv /\ LockNamesNode

LEMMA SameNodes ==
  ASSUME IInv, NEW c \in Shells, Active(c), Moves(c), UNCHANGED <<node, lock, overlapped>>
  PROVE  ControlInv'
<1>1. \A p \in Pids : Running(p)' => Running(p)
  BY DEF Running, Alive
<1>2. CommandInv' /\ AloneInv'
  BY <1>1, RestStep
<1>3. LockNamesNode'
  BY DEF IInv, LockNamesNode, Alive
<1> QED BY <1>2, <1>3 DEF ControlInv

-----------------------------------------------------------------------------
(* The steps that have to do with the store                                 *)

FaultsOK == faults' \in 0..MaxFaults
DbOK == db' \in [{"main", "snap"} -> Whole \cup {None}]
Contents == Whole \cup {None}

LEMMA WholeSets ==
  /\ Empty \in Whole
  /\ \A x \in Whole : Partial(x) \subseteq Whole
<1>1. MaxHeight \in Nat
  BY NodeControlAssumption
<1> QED BY <1>1 DEF Whole, Databases, Empty, Partial

LEMMA StoreStep ==
  ASSUME IInv, NEW c \in Shells, Active(c), Moves(c), HeldOK, FaultsOK, DbOK,
         UNCHANGED <<node, lock, plan, overlapped>>,
         server' \in BOOLEAN, latest' \in Contents, fetched' \in Contents
  PROVE  IInv'
<1>1. ControlInv'
  BY SameNodes
<1>2. TypeInv'
  BY MoveTyped DEF IInv, TypeInv, HeldOK, FaultsOK, DbOK, Contents
<1> QED BY <1>1, <1>2 DEF IInv, ControlInv

LEMMA StoreSame ==
  ASSUME IInv
  PROVE  /\ UNCHANGED held => HeldOK
         /\ UNCHANGED faults => FaultsOK
         /\ UNCHANGED db => DbOK
         /\ UNCHANGED server => server' \in BOOLEAN
         /\ UNCHANGED latest => latest' \in Contents
         /\ UNCHANGED fetched => fetched' \in Contents
BY DEF IInv, TypeInv, HeldOK, FaultsOK, DbOK, Contents

LEMMA UsualOp ==
  ASSUME NEW c \in Shells, NEW op, Doing(c, op), op \notin {"signal", "check node"} \cup Spawning
  PROVE  Active(c) /\ Usual(c)
<1>1. Active(c) /\ Op(cmd[c]) = op
  BY DoingOp
<1> QED BY <1>1, Zenon DEF Usual, Reaches

LEMMA Faulty == ASSUME IInv, Fault PROVE FaultsOK
BY NodeControlAssumption DEF IInv, TypeInv, Fault, FaultsOK

LEMMA DeliversMoves ==
  ASSUME IInv, NEW c \in Shells, Active(c), Usual(c), NEW x, NEW y, Delivers(c, x, y)
  PROVE  Moves(c) /\ FaultsOK
<1>1. CASE Done(c) /\ UNCHANGED faults
  BY <1>1, DoneMoves, StoreSame
<1>2. CASE Fault /\ cmd' = [cmd EXCEPT ![c] = [Onward(cmd[c], 1) EXCEPT !.clean = FALSE]]
  <2> DEFINE k == Onward(cmd[c], 1)
             X == [k EXCEPT !.clean = FALSE]
  <2>1. cmd[c] \in Command /\ cmd[c].name # None /\ Stands(cmd[c])
    BY DEF IInv, TypeInv, CommandInv, Active
  <2>2. k \in Command /\ Rests(k)
    BY <2>1, OnwardRests DEF Usual
  <2> HIDE DEF k
  <2>3. X \in Command /\ X.name = k.name /\ X.at = k.at
    BY <2>2 DEF Command
  <2>4. Rests(X)
    BY <2>2, <2>3 DEF Rests, Op
  <2>5. cmd' = [cmd EXCEPT ![c] = X]
    BY <1>2 DEF k
  <2> HIDE DEF X
  <2>6. Moves(c)
    BY <2>3, <2>4, <2>5 DEF Moves
  <2> QED BY <1>2, <2>6, Faulty
<1> QED BY <1>1, <1>2 DEF Delivers

LEMMA ContentTyped ==
  ASSUME IInv, NEW d \in {"main", "snap"}
  PROVE  Content(d) \in Whole /\ (Usable(d) => db[d] \in Whole)
BY WholeSets DEF Content, Usable, IInv, TypeInv

LEMMA LockFileSteps ==
  ASSUME IInv, NEW c \in Shells, NEW l \in Locks, NEW op \in Plain, op # "check node",
         Check(c, op, l) \/ Lock(c, op, l) \/ Free(c, op, l)
  PROVE  IInv'
<1>1. op \notin {"signal", "check node"} \cup Spawning
  BY DEF Plain, Spawning
<1>2. CASE Check(c, op, l)
  <2>1. Active(c) /\ Usual(c)
    BY <1>1, <1>2, UsualOp DEF Check
  <2>2. Moves(c) /\ HeldOK
    <3>1. Throws(c) \/ (Done(c) /\ held' = Freed({l}))
      BY <1>2 DEF Check
    <3> QED BY <2>1, <3>1, ThrowsMoves, DoneMoves, FreedTyped DEF HeldOK
  <2> QED BY <1>2, <2>1, <2>2, StoreSame, StoreStep DEF Check, store
<1>3. CASE Lock(c, op, l)
  <2>1. Active(c) /\ Usual(c) /\ Moves(c)
    BY <1>1, <1>3, UsualOp, DoneMoves DEF Lock
  <2>2. HeldOK
    BY <1>3 DEF Lock, HeldOK, IInv, TypeInv
  <2> QED BY <1>3, <2>1, <2>2, StoreSame, StoreStep DEF Lock, store
<1>4. CASE Free(c, op, l)
  <2>1. Active(c) /\ Usual(c) /\ Moves(c)
    BY <1>1, <1>4, UsualOp, DoneMoves DEF Free
  <2>2. HeldOK
    BY <1>4, FreedTyped DEF Free, HeldOK
  <2> QED BY <1>4, <2>1, <2>2, StoreSame, StoreStep DEF Free, store
<1> QED BY <1>2, <1>3, <1>4

LEMMA ServerSteps ==
  ASSUME IInv, NEW c \in Shells,
         \/ CheckServer(c) \/ Switch(c, "up", TRUE) \/ Switch(c, "down", FALSE)
         \/ Wipe(c) \/ Vacuum(c) \/ Height(c) \/ SeeClose(c)
  PROVE  IInv'
<1>1. CASE CheckServer(c)
  <2>1. Active(c) /\ Usual(c) /\ Op(cmd[c]) = "check server"
    BY <1>1, UsualOp, DoingOp DEF CheckServer, Spawning
  <2>2. Len(DbStart) = 4
    BY DbStartShape
  <2>3. Reaches(Op(cmd[c]), 4)
    BY <2>1 DEF Reaches
  <2>4. Moves(c)
    BY <1>1, <2>1, <2>2, <2>3, SkipMoves DEF CheckServer, Usual
  <2> QED BY <1>1, <2>1, <2>4, StoreSame, StoreStep DEF CheckServer, store
<1>2. ASSUME NEW op \in {"up", "down"}, NEW on \in BOOLEAN, Switch(c, op, on) PROVE IInv'
  <2>1. Active(c) /\ Usual(c) /\ Moves(c)
    BY <1>2, UsualOp, DoneMoves DEF Switch, Spawning
  <2> QED BY <1>2, <2>1, StoreSame, StoreStep DEF Switch
<1>3. CASE Wipe(c)
  <2>1. Active(c) /\ Usual(c) /\ Moves(c)
    BY <1>3, UsualOp, DoneMoves DEF Wipe, Spawning
  <2>2. DbOK
    BY <1>3 DEF Wipe, DbOK, IInv, TypeInv
  <2> QED BY <1>3, <2>1, <2>2, StoreSame, StoreStep DEF Wipe
<1>4. CASE Vacuum(c)
  <2>1. Active(c) /\ Usual(c)
    BY <1>4, UsualOp DEF Vacuum, Spawning
  <2>2. Moves(c) /\ HeldOK
    BY <1>4, <2>1, DoneOrMoves DEF Vacuum
  <2> QED BY <1>4, <2>1, <2>2, StoreSame, StoreStep DEF Vacuum, store
<1>5. CASE Height(c)
  <2>1. Active(c) /\ Usual(c)
    BY <1>5, UsualOp DEF Height, Spawning
  <2>2. CASE Throws(c)
    BY <1>5, <2>1, <2>2, ThrowsMoves, StoreSame, StoreStep DEF Height, store
  <2>3. CASE /\ Usable("main") /\ UNCHANGED held
             /\ cmd' = [cmd EXCEPT ![c] = [Onward(cmd[c], 1) EXCEPT !.height = db.main.blocks]]
    <3> DEFINE k == Onward(cmd[c], 1)
               X == [k EXCEPT !.height = db.main.blocks]
    <3>1. cmd[c] \in Command /\ cmd[c].name # None /\ Stands(cmd[c])
      BY <2>1 DEF IInv, TypeInv, CommandInv, Active
    <3>2. k \in Command /\ Rests(k)
      BY <2>1, <3>1, OnwardRests DEF Usual
    <3> HIDE DEF k
    <3>3. db.main.blocks \in Nat
      BY <2>3, ContentTyped DEF Whole, Databases
    <3>4. X \in Command /\ X.name = k.name /\ X.at = k.at
      BY <3>2, <3>3 DEF Command
    <3>5. Rests(X)
      BY <3>2, <3>4 DEF Rests, Op
    <3>6. cmd' = [cmd EXCEPT ![c] = X]
      BY <2>3 DEF k
    <3> HIDE DEF X
    <3>7. Moves(c)
      BY <3>4, <3>5, <3>6 DEF Moves
    <3> QED BY <1>5, <2>1, <2>3, <3>7, StoreSame, StoreStep DEF Height, store
  <2> QED BY <1>5, <2>2, <2>3 DEF Height
<1>6. CASE SeeClose(c)
  <2>1. Active(c) /\ Usual(c)
    BY <1>6, UsualOp DEF SeeClose, Spawning
  <2>2. Moves(c) /\ HeldOK
    BY <1>6, <2>1, DoneOrMoves DEF SeeClose
  <2> QED BY <1>6, <2>1, <2>2, StoreSame, StoreStep DEF SeeClose, store
<1> QED BY <1>1, <1>2, <1>3, <1>4, <1>5, <1>6

LEMMA DatabaseSteps ==
  ASSUME IInv, NEW c \in Shells, NEW d \in {"main", "snap"}, NEW op \in Plain, op # "check node",
         Drop(c, op, d) \/ Create(c, op, d)
  PROVE  IInv'
<1>1. op \notin {"signal", "check node"} \cup Spawning
  BY DEF Plain, Spawning
<1>2. CASE Drop(c, op, d)
  <2>1. Active(c) /\ Usual(c)
    BY <1>1, <1>2, UsualOp DEF Drop
  <2>2. Moves(c) /\ HeldOK
    BY <1>2, <2>1, DoneOrMoves DEF Drop
  <2>3. DbOK
    BY <1>2 DEF Drop, DbOK, IInv, TypeInv
  <2> QED BY <1>2, <2>1, <2>2, <2>3, StoreSame, StoreStep DEF Drop
<1>3. CASE Create(c, op, d)
  <2>1. Active(c) /\ Usual(c)
    BY <1>1, <1>3, UsualOp DEF Create
  <2>2. Moves(c) /\ HeldOK
    BY <1>3, <2>1, DoneOrMoves DEF Create
  <2>3. DbOK
    BY <1>3, WholeSets DEF Create, DbOK, IInv, TypeInv
  <2> QED BY <1>3, <2>1, <2>2, <2>3, StoreSame, StoreStep DEF Create
<1> QED BY <1>2, <1>3

LEMMA CopySteps ==
  ASSUME IInv, NEW c \in Shells, Copy(c) \/ Dump(c) \/ DumpSnap(c) \/ Download(c)
  PROVE  IInv'
<1>1. CASE Copy(c)
  <2>1. Active(c) /\ Usual(c)
    BY <1>1, UsualOp DEF Copy, Spawning
  <2>2. Moves(c) /\ FaultsOK /\ DbOK
    <3>1. CASE Usable("main") /\ Usable("snap")
      <4>1. PICK y \in Partial(db.main) \cup {db.main} :
               Delivers(c, db.main, y) /\ db' = [db EXCEPT !.snap = y]
        BY <1>1, <3>1 DEF Copy
      <4>2. y \in Whole
        BY <3>1, <4>1, ContentTyped, WholeSets
      <4>3. DbOK
        BY <4>1, <4>2 DEF DbOK, IInv, TypeInv
      <4> QED BY <2>1, <4>1, <4>3, DeliversMoves
    <3>2. CASE ~(Usable("main") /\ Usable("snap"))
      <4>1. Done(c) /\ UNCHANGED <<db, faults>>
        BY <1>1, <3>2 DEF Copy
      <4> QED BY <2>1, <4>1, DoneMoves, StoreSame
    <3> QED BY <3>1, <3>2
  <2> QED BY <1>1, <2>1, <2>2, StoreSame, StoreStep DEF Copy
<1>2. CASE Dump(c)
  <2>1. Active(c) /\ Usual(c)
    BY <1>2, UsualOp DEF Dump, Spawning
  <2>2. PICK y \in Partial(Content("snap")) \cup {Content("snap")} :
           Delivers(c, Content("snap"), y) /\ latest' = y
    BY <1>2 DEF Dump
  <2>3. latest' \in Contents
    BY <2>2, ContentTyped, WholeSets DEF Contents
  <2>4. Moves(c) /\ FaultsOK
    BY <2>1, <2>2, DeliversMoves
  <2> QED BY <1>2, <2>1, <2>3, <2>4, StoreSame, StoreStep DEF Dump
<1>3. CASE DumpSnap(c)
  <2>1. Active(c) /\ Usual(c)
    BY <1>3, UsualOp DEF DumpSnap, Spawning
  <2>2. Moves(c) /\ FaultsOK /\ HeldOK
    <3>1. CASE Throws(c) /\ UNCHANGED <<files, faults>>
      BY <3>1, ThrowsMoves, StoreSame
    <3>2. CASE \E y : Delivers(c, db.snap, y) /\ UNCHANGED held
      BY <2>1, <3>2, DeliversMoves, StoreSame
    <3> QED BY <1>3, <3>1, <3>2 DEF DumpSnap
  <2> QED BY <1>3, <2>1, <2>2, StoreSame, StoreStep DEF DumpSnap
<1>4. CASE Download(c)
  <2>1. Active(c) /\ Usual(c)
    BY <1>4, UsualOp DEF Download, Spawning
  <2>2. [blocks |-> Published, accounts |-> Published] \in Whole
    BY NodeControlAssumption DEF Whole, Databases
  <2>3. fetched' \in Contents /\ Moves(c) /\ FaultsOK /\ HeldOK
    <3>1. CASE /\ fetched' = [blocks |-> Published, accounts |-> Published]
               /\ Done(c) /\ UNCHANGED <<held, faults>>
      BY <2>1, <2>2, <3>1, DoneMoves, StoreSame DEF Contents
    <3>2. CASE fetched' = Empty /\ Done(c) /\ Fault /\ UNCHANGED held
      BY <2>1, <3>2, DoneMoves, StoreSame, Faulty, WholeSets DEF Contents
    <3>3. CASE Throws(c) /\ Fault /\ UNCHANGED fetched
      BY <3>3, ThrowsMoves, StoreSame, Faulty
    <3> QED BY <1>4, <3>1, <3>2, <3>3 DEF Download
  <2> QED BY <1>4, <2>1, <2>3, StoreSame, StoreStep DEF Download
<1> QED BY <1>1, <1>2, <1>3, <1>4

LEMMA LoadSteps ==
  ASSUME IInv, NEW c \in Shells, NEW d \in {"main", "snap"}, NEW op \in Plain, op # "check node",
         NEW file \in Contents, Load(c, op, d, file)
  PROVE  IInv'
<1>1. op \notin {"signal", "check node"} \cup Spawning
  BY DEF Plain, Spawning
<1>2. Active(c) /\ Usual(c)
  BY <1>1, UsualOp DEF Load
<1>3. Moves(c) /\ FaultsOK /\ HeldOK /\ DbOK
  <2>1. CASE \E y \in (Partial(file) \cup {file}) \ {Empty} :
               Delivers(c, file, y) /\ db' = [db EXCEPT ![d] = y] /\ file # None /\ UNCHANGED held
    <3>1. PICK y \in Partial(file) \cup {file} :
             Delivers(c, file, y) /\ db' = [db EXCEPT ![d] = y] /\ file # None
      BY <2>1
    <3>2. y \in Whole
      BY <3>1, WholeSets DEF Contents
    <3>3. DbOK
      BY <3>1, <3>2 DEF DbOK, IInv, TypeInv
    <3> QED BY <1>2, <2>1, <3>1, <3>3, DeliversMoves, StoreSame
  <2>2. CASE Throws(c) /\ Fault /\ UNCHANGED db
    BY <2>2, ThrowsMoves, Faulty, StoreSame
  <2>3. CASE Throws(c) /\ UNCHANGED <<db, faults>>
    BY <2>3, ThrowsMoves, StoreSame
  <2> QED BY <2>1, <2>2, <2>3 DEF Load
<1> QED BY <1>2, <1>3, StoreSame, StoreStep DEF Load

-----------------------------------------------------------------------------
(* The steps that have to do with the node and its lock                     *)

NodeOK == node' \in [Pids -> Node] /\ lock' \in Pids \cup {None}
CmdOK == cmd' \in [Shells -> Command]

LEMMA ControlStep ==
  ASSUME IInv, ControlInv', NodeOK, CmdOK, HeldOK, FaultsOK, UNCHANGED <<store, plan>>,
         overlapped' \in BOOLEAN
  PROVE  IInv'
<1>1. TypeInv'
  BY DEF IInv, TypeInv, NodeOK, CmdOK, HeldOK, FaultsOK, store
<1> QED BY <1>1 DEF IInv, ControlInv

LEMMA NoneIsNoPid == None \notin Pids /\ Pids \subseteq Nat
BY NodeControlAssumption DEF Pids

(* getPID gives the process of the lock, and none that runs escapes it.     *)
LEMMA CollectedLock ==
  ASSUME IInv
  PROVE  /\ Collected \in Pids \cup {None}
         /\ ~overlapped => \A p \in Pids : Running(p) => Collected = p /\ lock = p
<1>1. lock \in Pids \cup {None}
  BY DEF IInv, TypeInv
<1>2. ~overlapped => \A p \in Pids : Running(p) => lock = p /\ Alive(p)
  BY DEF IInv, LockNamesNode, Running
<1> QED BY <1>1, <1>2, NoneIsNoPid DEF Collected

Told(p) == node' = [node EXCEPT ![p].stopping = TRUE]
LEMMA ToldStep ==
  ASSUME IInv, NEW p \in Pids, Told(p)
  PROVE  /\ node' \in [Pids -> Node]
         /\ \A q \in Pids : Running(q)' => Running(q) /\ q # p
<1>1. /\ node' \in [Pids -> Node] /\ node'[p].stopping
      /\ \A q \in Pids : q # p => node'[q] = node[q]
  <2>1. node \in [Pids -> Node]
    BY DEF IInv, TypeInv
  <2>2. [node[p] EXCEPT !.stopping = TRUE] \in Node /\ [node[p] EXCEPT !.stopping = TRUE].stopping
    BY <2>1 DEF Node
  <2> QED BY <2>1, <2>2 DEF Told
<1> QED BY <1>1 DEF Running, Alive

(* The process of the lock is told to end: nothing runs any more.           *)
LEMMA LockTold ==
  ASSUME IInv, lock' = Collected, overlapped' = overlapped,
         (Collected = None /\ node' = node) \/ (Collected # None /\ Told(Collected))
  PROVE  /\ NodeOK
         /\ \A p \in Pids : Running(p)' => Running(p)
         /\ ~overlapped => \A p \in Pids : ~Running(p)'
         /\ LockNamesNode'
<1>1. CASE Collected = None /\ node' = node
  <2>1. \A p \in Pids : Running(p)' <=> Running(p)
    BY <1>1 DEF Running, Alive
  <2>2. ~overlapped => \A p \in Pids : ~Running(p)
    BY <1>1, CollectedLock, NoneIsNoPid
  <2>3. NodeOK
    BY <1>1, CollectedLock DEF NodeOK, IInv, TypeInv
  <2> QED BY <2>1, <2>2, <2>3 DEF LockNamesNode, Running
<1>2. CASE Collected # None /\ Told(Collected)
  <2>1. Collected \in Pids
    BY <1>2, CollectedLock
  <2>2. node' \in [Pids -> Node] /\ \A q \in Pids : Running(q)' => Running(q) /\ q # Collected
    BY <1>2, <2>1, ToldStep
  <2>3. ~overlapped => \A p \in Pids : ~Running(p)'
    BY <2>2, CollectedLock
  <2>4. NodeOK
    BY <2>1, <2>2 DEF NodeOK
  <2> QED BY <2>2, <2>3, <2>4 DEF LockNamesNode, Running
<1> QED BY <1>1, <1>2

LEMMA ImportStep ==
  ASSUME IInv, NEW c \in Shells, CheckImport(c)
  PROVE  IInv'
<1>1. Active(c) /\ Usual(c) /\ Op(cmd[c]) = "check import"
  BY UsualOp, DoingOp DEF CheckImport, Spawning
<1>2. HeldOK /\ FaultsOK /\ overlapped' \in BOOLEAN /\ overlapped' = overlapped
  <2>1. held' = Freed({"backup"}) /\ UNCHANGED <<faults, overlapped>>
    BY DEF CheckImport
  <2> QED BY <2>1, FreedTyped, StoreSame DEF HeldOK, IInv, TypeInv
<1>3. CASE Skip(c, Len(ImportDB("load latest"))) /\ UNCHANGED <<node, lock>>
  <2>1. Len(ImportDB("load latest")) = 8
    BY ImportShape DEF Loads
  <2>2. Reaches(Op(cmd[c]), 8)
    BY <1>1 DEF Reaches
  <2>3. Moves(c)
    BY <1>1, <1>3, <2>1, <2>2, SkipMoves
  <2>4. ControlInv'
    BY <1>1, <1>2, <1>3, <2>3, SameNodes
  <2>5. NodeOK /\ CmdOK
    BY <1>3, <2>3, MoveTyped DEF NodeOK, CmdOK, IInv, TypeInv
  <2> QED BY <1>2, <2>4, <2>5, ControlStep DEF CheckImport
<1>4. CASE /\ Done(c) /\ lock' = Collected
           /\ node' = IF Collected = None THEN node ELSE [node EXCEPT ![Collected].stopping = TRUE]
  <2>1. Moves(c) /\ CmdOK
    BY <1>1, <1>4, DoneMoves, MoveTyped DEF CmdOK
  <2>2. (Collected = None /\ node' = node) \/ (Collected # None /\ Told(Collected))
    BY <1>4 DEF Told
  <2>3. NodeOK /\ LockNamesNode' /\ \A p \in Pids : Running(p)' => Running(p)
    BY <1>2, <1>4, <2>2, LockTold
  <2>4. CommandInv' /\ AloneInv'
    BY <1>1, <1>2, <2>1, <2>3, RestStep
  <2> QED BY <1>2, <2>1, <2>3, <2>4, ControlStep DEF CheckImport, ControlInv
<1> QED BY <1>3, <1>4 DEF CheckImport

(* One step on, to one that may rely on something.                          *)
Follows(k, X) ==
  X.name # None =>
    /\ X.at \in 1..Len(Program[X.name])
    /\ Op(X) = "unlock" => Op(k) = "signal"
    /\ Op(X) = "await" => Op(k) \in Spawning
    /\ Op(X) \in Spawning => Op(k) = "check node"

LEMMA OnwardOne ==
  ASSUME NEW k \in Command, k.name # None, Stands(k)
  PROVE  Onward(k, 1) \in Command /\ Follows(k, Onward(k, 1))
<1> DEFINE P == Program[k.name]
<1>1. k.name \in DOMAIN Program /\ k.at \in 1..Len(P) /\ Len(P) \in Nat /\ Shape(P)
  BY ProgramShape DEF Command, Stands, Shape
<1>2. CASE k.at + 1 > Len(P)
  <2>1. Onward(k, 1) = Idle
    BY <1>2 DEF Onward
  <2>2. Idle.name = None
    BY DEF Idle
  <2> QED BY <2>1, <2>2, IdleRests DEF Follows
<1>3. CASE ~(k.at + 1 > Len(P))
  <2> DEFINE X == [k EXCEPT !.at = k.at + 1]
             i == k.at + 1
  <2>1. Onward(k, 1) = X
    BY <1>3 DEF Onward
  <2>2. X \in Command /\ X.name = k.name /\ X.at = i
    BY <1>1 DEF Command
  <2>3. i \in 1..Len(P) /\ i - 1 = k.at
    BY <1>1, <1>3
  <2> HIDE DEF X, i
  <2>4. Fits(P, i)
    BY <1>1, <2>3 DEF Shape
  <2>5. /\ P[i].op = "unlock" => P[k.at].op = "signal"
        /\ P[i].op = "await" => P[k.at].op \in Spawning
        /\ P[i].op \in Spawning => P[k.at].op = "check node"
    <3>1. P[i].op = "unlock" => P[k.at].op = "signal"
      BY <2>3, <2>4 DEF Fits, Plain, Spawning
    <3>2. P[i].op = "await" => P[k.at].op \in Spawning
      BY <2>3, <2>4 DEF Fits, Plain, Spawning
    <3>3. P[i].op \in Spawning => P[k.at].op = "check node"
      BY <2>3, <2>4 DEF Fits, Plain, Spawning
    <3> QED BY <3>1, <3>2, <3>3
  <2> QED BY <2>1, <2>2, <2>3, <2>5 DEF Op, Follows
<1> QED BY <1>2, <1>3

(* A command that arrives where it relies on something.                     *)
LEMMA ArriveStep ==
  ASSUME IInv, NEW c \in Shells, Active(c), NEW X \in Command, Stands(X),
         cmd' = [cmd EXCEPT ![c] = X], overlapped' = overlapped, ~overlapped => Relies(X)'
  PROVE  CommandInv' /\ AloneInv' /\ CmdOK
<1>1. /\ cmd'[c] = X
      /\ \A d \in Shells : d # c => cmd'[d] = cmd[d]
      /\ CmdOK
  BY DEF IInv, TypeInv, CmdOK
<1>2. ASSUME NEW d \in Shells PROVE Stands(cmd[d])'
  <2>1. CASE d = c
    BY <1>1, <2>1 DEF Stands, Op
  <2>2. CASE d # c
    BY <1>1, <2>2 DEF IInv, CommandInv, Stands, Op
  <2> QED BY <2>1, <2>2
<1>3. ASSUME ~overlapped, NEW d \in Shells PROVE Relies(cmd[d])'
  <2>1. CASE d = c
    BY <1>1, <1>3, <2>1 DEF Relies, Op
  <2>2. CASE d # c
    <3>1. cmd'[d].name = None
      BY <1>1, <1>3, <2>2 DEF IInv, AloneInv, Active
    <3> QED BY <3>1 DEF Relies
  <2> QED BY <2>1, <2>2
<1>4. \A d \in Shells : Active(d)' => Active(d)
  BY <1>1 DEF Active
<1>5. CommandInv'
  BY <1>2 DEF CommandInv
<1>6. AloneInv'
  BY <1>3, <1>4 DEF AloneInv, IInv
<1> QED BY <1>1, <1>5, <1>6

LEMMA SignalStep ==
  ASSUME IInv, NEW c \in Shells, Signal(c)
  PROVE  IInv'
<1>1. Active(c) /\ Op(cmd[c]) = "signal"
  BY DoingOp DEF Signal
<1>2. HeldOK /\ FaultsOK /\ overlapped' \in BOOLEAN /\ overlapped' = overlapped
  BY StoreSame DEF Signal, IInv, TypeInv
<1>3. (Collected = None /\ node' = node) \/ (Collected # None /\ Told(Collected))
  BY DEF Signal, Told
<1>4. /\ NodeOK /\ LockNamesNode'
      /\ \A p \in Pids : Running(p)' => Running(p)
      /\ ~overlapped => \A p \in Pids : ~Running(p)'
  BY <1>2, <1>3, LockTold DEF Signal
<1>5. CASE Skip(c, 2)
  <2>1. Reaches(Op(cmd[c]), 2)
    BY <1>1 DEF Reaches
  <2>2. Moves(c) /\ CmdOK
    BY <1>1, <1>5, <2>1, SkipMoves, MoveTyped DEF CmdOK
  <2>3. CommandInv' /\ AloneInv'
    BY <1>1, <1>2, <1>4, <2>2, RestStep
  <2> QED BY <1>2, <1>4, <2>2, <2>3, ControlStep DEF Signal, ControlInv
<1>6. CASE Done(c)
  <2>1. cmd[c] \in Command /\ cmd[c].name # None /\ Stands(cmd[c])
    BY <1>1 DEF IInv, TypeInv, CommandInv, Active
  <2>2. PICK X \in Command : X = Onward(cmd[c], 1) /\ Follows(cmd[c], X)
    BY <2>1, OnwardOne
  <2>3. cmd' = [cmd EXCEPT ![c] = X]
    BY <1>6, <2>2 DEF Done, Skip
  <2>4. X.name # None => X.at \in 1..Len(Program[X.name]) /\ Op(X) # "await"
    BY <1>1, <2>2 DEF Follows, Spawning
  <2>5. Stands(X) /\ (~overlapped => Relies(X)')
    BY <1>4, <2>4 DEF Stands, Relies, Op
  <2>6. CommandInv' /\ AloneInv' /\ CmdOK
    BY <1>1, <1>2, <2>2, <2>3, <2>5, ArriveStep
  <2> QED BY <1>2, <1>4, <2>6, ControlStep DEF Signal, ControlInv
<1> QED BY <1>5, <1>6 DEF Signal

LEMMA UnlockStep ==
  ASSUME IInv, NEW c \in Shells, Unlock(c)
  PROVE  IInv'
<1>1. Active(c) /\ Usual(c) /\ Op(cmd[c]) = "unlock"
  BY UsualOp, DoingOp DEF Unlock, Spawning
<1>2. HeldOK /\ FaultsOK /\ overlapped' \in BOOLEAN /\ overlapped' = overlapped
  BY StoreSame DEF Unlock, IInv, TypeInv
<1>3. Moves(c) /\ CmdOK
  BY <1>1, DoneMoves, MoveTyped DEF Unlock, CmdOK
<1>4. \A p \in Pids : Running(p)' <=> Running(p)
  BY DEF Unlock, Running, Alive
<1>5. CommandInv' /\ AloneInv'
  BY <1>1, <1>2, <1>3, <1>4, RestStep
<1>6. LockNamesNode'
  <2>1. ~overlapped => \A p \in Pids : ~Running(p)
    BY <1>1 DEF IInv, AloneInv, Relies, Active
  <2> QED BY <1>2, <1>4, <2>1 DEF LockNamesNode, Running
<1>7. NodeOK
  BY DEF Unlock, NodeOK, IInv, TypeInv
<1> QED BY <1>2, <1>3, <1>5, <1>6, <1>7, ControlStep DEF Unlock, ControlInv

LEMMA KillAllStep ==
  ASSUME IInv, NEW c \in Shells, KillAll(c)
  PROVE  IInv'
<1>1. Active(c) /\ Usual(c)
  BY UsualOp DEF KillAll, Spawning
<1>2. HeldOK /\ FaultsOK /\ overlapped' \in BOOLEAN /\ overlapped' = overlapped
  BY StoreSame DEF KillAll, IInv, TypeInv
<1>3. Moves(c) /\ CmdOK
  BY <1>1, DoneMoves, MoveTyped DEF KillAll, CmdOK
<1>4. node \in [Pids -> Node]
  BY DEF IInv, TypeInv
<1>5. NodeOK /\ \A p \in Pids : ~Running(p)'
  <2> DEFINE told(p) == [node[p] EXCEPT !.stopping = TRUE]
  <2>1. \A p \in Pids : told(p) \in Node /\ told(p).stopping
    BY <1>4 DEF Node
  <2> HIDE DEF told
  <2>2. node' = [p \in Pids |-> IF Alive(p) THEN told(p) ELSE node[p]]
    BY DEF KillAll, told
  <2>3. NodeOK
    BY <1>4, <2>1, <2>2 DEF KillAll, NodeOK, IInv, TypeInv
  <2>4. ASSUME NEW p \in Pids PROVE ~Running(p)'
    <3>1. CASE Alive(p)
      BY <2>1, <2>2, <3>1 DEF Running
    <3>2. CASE ~Alive(p)
      <4>1. node'[p] = node[p]
        BY <2>2, <3>2
      <4> QED BY <3>2, <4>1 DEF Running, Alive
    <3> QED BY <3>1, <3>2
  <2> QED BY <2>3, <2>4
<1>6. CommandInv' /\ AloneInv'
  BY <1>1, <1>2, <1>3, <1>5, RestStep
<1>7. LockNamesNode'
  BY <1>5 DEF LockNamesNode, Running
<1> QED BY <1>2, <1>3, <1>5, <1>6, <1>7, ControlStep DEF KillAll, ControlInv

LEMMA CheckNodeStep ==
  ASSUME IInv, NEW c \in Shells, CheckNode(c)
  PROVE  IInv'
<1>1. Active(c) /\ Op(cmd[c]) = "check node"
  BY DoingOp DEF CheckNode
<1>2. FaultsOK /\ overlapped' \in BOOLEAN /\ overlapped' = overlapped
  BY StoreSame DEF CheckNode, IInv, TypeInv
<1>3. NodeOK /\ \A p \in Pids : Running(p)' <=> Running(p)
  <2>1. node' = node /\ lock' = Collected
    BY DEF CheckNode
  <2> QED BY <2>1, CollectedLock DEF NodeOK, Running, Alive, IInv, TypeInv
<1>4. LockNamesNode'
  BY <1>2, <1>3, CollectedLock DEF CheckNode, LockNamesNode, Running
<1>5. CASE Throws(c)
  <2>1. Moves(c) /\ HeldOK /\ CmdOK
    BY <1>5, ThrowsMoves, MoveTyped DEF CmdOK
  <2>2. CommandInv' /\ AloneInv'
    BY <1>1, <1>2, <1>3, <2>1, RestStep
  <2> QED BY <1>2, <1>3, <1>4, <2>1, <2>2, ControlStep DEF CheckNode, ControlInv
<1>6. CASE Collected = None /\ Done(c) /\ UNCHANGED held
  <2>1. cmd[c] \in Command /\ cmd[c].name # None /\ Stands(cmd[c])
    BY <1>1 DEF IInv, TypeInv, CommandInv, Active
  <2>2. PICK X \in Command : X = Onward(cmd[c], 1) /\ Follows(cmd[c], X)
    BY <2>1, OnwardOne
  <2>3. cmd' = [cmd EXCEPT ![c] = X]
    BY <1>6, <2>2 DEF Done, Skip
  <2>4. X.name # None => X.at \in 1..Len(Program[X.name]) /\ Op(X) # "await"
    BY <1>1, <2>2 DEF Follows, Spawning
  <2>5. ~overlapped => \A p \in Pids : ~Running(p)'
    BY <1>3, <1>6, CollectedLock, NoneIsNoPid
  <2>6. Stands(X) /\ (~overlapped => Relies(X)')
    BY <2>4, <2>5 DEF Stands, Relies, Op
  <2>7. CommandInv' /\ AloneInv' /\ CmdOK
    BY <1>1, <1>2, <2>2, <2>3, <2>6, ArriveStep
  <2>8. HeldOK
    BY <1>6, StoreSame
  <2> QED BY <1>2, <1>3, <1>4, <2>7, <2>8, ControlStep DEF CheckNode, ControlInv
<1> QED BY <1>5, <1>6 DEF CheckNode, DoneOr

\* Follows(cmd[c], X), for a command that goes one step further
LEMMA DoingFollows ==
  ASSUME IInv, NEW c \in Shells, Active(c)
  PROVE  /\ cmd[c] \in Command /\ Stands(cmd[c])
         /\ Onward(cmd[c], 1) \in Command /\ Follows(cmd[c], Onward(cmd[c], 1))
<1>1. cmd[c] \in Command /\ cmd[c].name # None /\ Stands(cmd[c])
  BY DEF IInv, TypeInv, CommandInv, Active
<1> QED BY <1>1, OnwardOne

(* A node that is started while none runs, with its lock.                   *)
LEMMA SpawnStep ==
  ASSUME IInv, NEW c \in Shells, Spawn(c)
  PROVE  IInv'
<1>1. Active(c) /\ Op(cmd[c]) \in Spawning
  BY DoingOp DEF Spawn, Spawning
<1>2. HeldOK /\ FaultsOK /\ overlapped' \in BOOLEAN /\ overlapped' = overlapped
  BY StoreSame DEF Spawn, IInv, TypeInv
<1>3. PICK p \in Pids, v \in BOOLEAN :
         /\ node' = [node EXCEPT ![p] = [NoNode EXCEPT !.phase = "boot", !.verifying = v,
                                                     !.on = IF v THEN "snap" ELSE "main"]]
         /\ lock' = p
         /\ cmd' = [cmd EXCEPT ![c] = [Onward(cmd[c], 1) EXCEPT !.pid = p, !.verifying = v]]
  <2> DEFINE v == Doing(c, "spawn verifying") /\ ~cmd[c].rebuilt
  <2>1. v \in BOOLEAN
    OBVIOUS
  <2> QED BY <2>1 DEF Spawn, StartingLock, LockOf
<1>4. PICK Y \in Command : Y = Onward(cmd[c], 1) /\ Follows(cmd[c], Y)
  BY <1>1, DoingFollows
<1>5. PICK X \in Command :
         /\ X = [Y EXCEPT !.pid = p, !.verifying = v]
         /\ X.name = Y.name /\ X.at = Y.at /\ X.pid = p
  <2>1. [Y EXCEPT !.pid = p, !.verifying = v] \in Command
    BY DEF Command
  <2> QED BY <2>1 DEF Command
<1>6. cmd' = [cmd EXCEPT ![c] = X]
  BY <1>3, <1>4, <1>5
<1>7. NodeOK /\ \A q \in Pids : q # p => node'[q] = node[q]
  <2>1. [NoNode EXCEPT !.phase = "boot", !.verifying = v, !.on = IF v THEN "snap" ELSE "main"] \in Node
    BY DEF NoNode, Node
  <2> QED BY <1>3, <2>1 DEF NodeOK, IInv, TypeInv
<1>8. ~overlapped => \A q \in Pids : Running(q)' => q = p
  <2>1. ~overlapped => \A q \in Pids : ~Running(q)
    BY <1>1 DEF IInv, AloneInv, Relies, Active
  <2> QED BY <1>7, <2>1 DEF Running, Alive
<1>9. Stands(X) /\ (~overlapped => Relies(X)')
  <2>1. X.name # None => /\ X.at \in 1..Len(Program[X.name])
                         /\ Op(X) \notin {"unlock"} \cup Spawning
    BY <1>1, <1>4, <1>5 DEF Follows, Spawning, Op
  <2> QED BY <1>5, <1>8, <2>1 DEF Stands, Relies, Op
<1>10. CommandInv' /\ AloneInv' /\ CmdOK
  BY <1>1, <1>2, <1>6, <1>9, ArriveStep
<1>11. LockNamesNode'
  BY <1>2, <1>3, <1>8 DEF LockNamesNode, Running
<1> QED BY <1>2, <1>7, <1>10, <1>11, ControlStep DEF Spawn, ControlInv

(* The node that the command waits for is the only one that runs.           *)
LEMMA Waiting ==
  ASSUME IInv, NEW c \in Shells, Doing(c, "await")
  PROVE  /\ Active(c) /\ Usual(c) /\ Op(cmd[c]) = "await" /\ cmd[c].pid \in Pids
         /\ ~overlapped => \A p \in Pids : Running(p) => p = cmd[c].pid
<1>1. Active(c) /\ Usual(c) /\ Op(cmd[c]) = "await"
  BY UsualOp, DoingOp DEF Spawning
<1>2. cmd[c].pid \in Pids
  BY <1>1 DEF IInv, CommandInv, Stands, Active
<1>3. ~overlapped => \A p \in Pids : Running(p) => p = cmd[c].pid
  BY <1>1 DEF IInv, AloneInv, Relies, Active
<1> QED BY <1>1, <1>2, <1>3

LEMMA ReadyStep ==
  ASSUME IInv, NEW c \in Shells, SeeReady(c)
  PROVE  IInv'
<1>1. /\ Active(c) /\ Usual(c) /\ Op(cmd[c]) = "await" /\ cmd[c].pid \in Pids
      /\ ~overlapped => \A p \in Pids : Running(p) => p = cmd[c].pid
  BY Waiting DEF SeeReady
<1>2. HeldOK /\ FaultsOK /\ overlapped' \in BOOLEAN /\ overlapped' = overlapped
  BY StoreSame DEF SeeReady, IInv, TypeInv
<1>3. NodeOK /\ \A p \in Pids : Running(p)' <=> Running(p)
  BY <1>1 DEF SeeReady, NodeOK, Running, Alive, IInv, TypeInv
<1>4. LockNamesNode'
  BY <1>1, <1>2, <1>3 DEF SeeReady, LockNamesNode, Running
<1>5. CASE Foreground(c)
  <2>1. cmd[c] \in Command
    BY DEF IInv, TypeInv
  <2>2. PICK X \in Command : /\ X = [cmd[c] EXCEPT !.ready = TRUE]
                             /\ X.name = cmd[c].name /\ X.at = cmd[c].at /\ X.pid = cmd[c].pid
    <3>1. [cmd[c] EXCEPT !.ready = TRUE] \in Command
      BY <2>1 DEF Command
    <3> QED BY <2>1, <3>1 DEF Command
  <2>3. cmd' = [cmd EXCEPT ![c] = X]
    BY <1>5, <2>2 DEF SeeReady
  <2>4. Op(X) = "await" /\ (X.name # None => X.at \in 1..Len(Program[X.name]))
    <3>1. Stands(cmd[c])
      BY DEF IInv, CommandInv
    <3> QED BY <1>1, <2>2, <3>1 DEF Op, Stands
  <2>5. ~overlapped => \A p \in Pids : Running(p)' => p = X.pid
    BY <1>1, <1>3, <2>2
  <2>6. Stands(X) /\ (~overlapped => Relies(X)')
    BY <1>1, <2>2, <2>4, <2>5 DEF Stands, Relies, Op, Spawning
  <2>7. CommandInv' /\ AloneInv' /\ CmdOK
    BY <1>1, <1>2, <2>3, <2>6, ArriveStep
  <2> QED BY <1>2, <1>3, <1>4, <2>7, ControlStep DEF SeeReady, ControlInv
<1>6. CASE ~Foreground(c)
  <2>1. Done(c)
    BY <1>6 DEF SeeReady, Done, Skip
  <2>2. Moves(c) /\ CmdOK
    BY <1>1, <2>1, DoneMoves, MoveTyped DEF CmdOK
  <2>3. CommandInv' /\ AloneInv'
    BY <1>1, <1>2, <1>3, <2>2, RestStep
  <2> QED BY <1>2, <1>3, <1>4, <2>2, <2>3, ControlStep DEF SeeReady, ControlInv
<1> QED BY <1>5, <1>6

(* Before the wait is the spawn, and nothing runs when its node is gone.    *)
LEMMA RebuildStep ==
  ASSUME IInv, NEW c \in Shells, Rebuild(c)
  PROVE  IInv'
<1>1. /\ Active(c) /\ Op(cmd[c]) = "await" /\ cmd[c].pid \in Pids
      /\ ~overlapped => \A p \in Pids : Running(p) => p = cmd[c].pid
  BY Waiting DEF Rebuild
<1>2. HeldOK /\ FaultsOK /\ overlapped' \in BOOLEAN /\ overlapped' = overlapped
  BY StoreSame DEF Rebuild, IInv, TypeInv
<1>3. NodeOK /\ (\A p \in Pids : Running(p)' <=> Running(p)) /\ UNCHANGED <<node, lock>>
  BY DEF Rebuild, NodeOK, Running, Alive, IInv, TypeInv
<1>4. ~overlapped => \A p \in Pids : ~Running(p)'
  BY <1>1, <1>3 DEF Rebuild, Running, Alive
<1>5. PICK i \in 1..Len(Program[cmd[c].name]) :
         i = cmd[c].at - 1 /\ Program[cmd[c].name][i].op \in Spawning
  <2> DEFINE P == Program[cmd[c].name]
             j == cmd[c].at
  <2>1. Shape(P) /\ Len(P) \in Nat /\ j \in 1..Len(P) /\ P[j].op = "await"
    BY <1>1, ProgramShape DEF IInv, TypeInv, CommandInv, Stands, Active, Command, Shape, Op
  <2> HIDE DEF P, j
  <2>2. Fits(P, j)
    BY <2>1 DEF Shape
  <2>3. 1 <= j - 1 /\ P[j - 1].op \in Spawning
    BY <2>1, <2>2 DEF Fits, Plain, Spawning
  <2>4. j - 1 \in 1..Len(P)
    BY <2>1, <2>3
  <2> QED BY <2>3, <2>4 DEF P, j
<1>6. PICK X \in Command :
         /\ X = [cmd[c] EXCEPT !.at = cmd[c].at - 1, !.rebuilt = TRUE, !.clean = FALSE]
         /\ X.name = cmd[c].name /\ X.at = i
  <2>1. cmd[c] \in Command /\ i \in Nat
    BY DEF IInv, TypeInv
  <2>2. [cmd[c] EXCEPT !.at = i, !.rebuilt = TRUE, !.clean = FALSE] \in Command
    BY <2>1 DEF Command
  <2> QED BY <1>5, <2>1, <2>2 DEF Command
<1>7. cmd' = [cmd EXCEPT ![c] = X]
  <2>1. cmd' = [cmd EXCEPT ![c] = [cmd[c] EXCEPT !.at = cmd[c].at - 1, !.rebuilt = TRUE, !.clean = FALSE]]
    BY DEF Rebuild, IInv, TypeInv, Command
  <2> QED BY <1>6, <2>1
<1>8. Op(X) \in Spawning /\ X.at \in 1..Len(Program[X.name])
  BY <1>5, <1>6 DEF Op
<1>9. Stands(X) /\ (~overlapped => Relies(X)')
  BY <1>4, <1>8 DEF Stands, Relies, Op, Spawning
<1>10. CommandInv' /\ AloneInv' /\ CmdOK
  BY <1>1, <1>2, <1>7, <1>9, ArriveStep
<1>11. LockNamesNode'
  BY <1>2, <1>4 DEF LockNamesNode, Running
<1> QED BY <1>2, <1>3, <1>10, <1>11, ControlStep DEF Rebuild, ControlInv

-----------------------------------------------------------------------------
(* The steps at which no command goes on                                    *)

\* The commands stay where they are
Quiet ==
  /\ CmdOK
  /\ \A c \in Shells : /\ cmd'[c].name = cmd[c].name /\ cmd'[c].at = cmd[c].at
                       /\ cmd'[c].pid = cmd[c].pid

LEMMA QuietSame == ASSUME IInv, UNCHANGED cmd PROVE Quiet
BY DEF IInv, TypeInv, Quiet, CmdOK

LEMMA UncleanSame ==
  ASSUME IInv, NEW S
  PROVE  /\ Unclean(S) \in [Shells -> Command]
         /\ \A c \in Shells : /\ Unclean(S)[c].name = cmd[c].name /\ Unclean(S)[c].at = cmd[c].at
                              /\ Unclean(S)[c].pid = cmd[c].pid
<1>1. \A c \in Shells : cmd[c] \in Command
  BY DEF IInv, TypeInv
<1>2. ASSUME NEW k \in Command
      PROVE  /\ [k EXCEPT !.clean = FALSE] \in Command
             /\ [k EXCEPT !.clean = FALSE].name = k.name /\ [k EXCEPT !.clean = FALSE].at = k.at
             /\ [k EXCEPT !.clean = FALSE].pid = k.pid
  BY DEF Command
<1> QED BY <1>1, <1>2 DEF Unclean

LEMMA QuietUnclean == ASSUME IInv, NEW S, cmd' = Unclean(S) PROVE Quiet
BY UncleanSame DEF Quiet, CmdOK

LEMMA QuietStep ==
  ASSUME IInv, Quiet, overlapped' = overlapped, \A p \in Pids : Running(p)' => Running(p)
  PROVE  CommandInv' /\ AloneInv' /\ CmdOK
<1>1. ASSUME NEW c \in Shells
      PROVE  /\ Stands(cmd[c])' /\ (~overlapped => Relies(cmd[c])')
             /\ Active(c)' => Active(c)
  <2>1. cmd'[c].name = cmd[c].name /\ cmd'[c].at = cmd[c].at /\ cmd'[c].pid = cmd[c].pid
    BY DEF Quiet
  <2>2. Stands(cmd[c]) /\ (~overlapped => Relies(cmd[c]))
    BY DEF IInv, CommandInv, AloneInv
  <2>3. Stands(cmd[c])'
    BY <2>1, <2>2 DEF Stands, Op
  <2>4. ~overlapped => Relies(cmd[c])'
    BY <2>1, <2>2 DEF Relies, Op
  <2> QED BY <2>1, <2>3, <2>4 DEF Active
<1>2. CommandInv'
  BY <1>1 DEF CommandInv
<1>3. AloneInv'
  BY <1>1 DEF AloneInv, IInv
<1> QED BY <1>2, <1>3 DEF Quiet

LEMMA TimeoutStep ==
  ASSUME IInv, NEW c \in Shells, Timeout(c)
  PROVE  IInv'
<1>1. cmd[c].pid \in Pids
  BY Waiting DEF Timeout
<1>2. HeldOK /\ FaultsOK /\ overlapped' \in BOOLEAN /\ overlapped' = overlapped
  BY StoreSame DEF Timeout, IInv, TypeInv
<1>3. NodeOK /\ \A p \in Pids : Running(p)' => Running(p)
  <2>1. Told(cmd[c].pid)
    BY DEF Timeout, Told
  <2> QED BY <1>1, <2>1, ToldStep DEF Timeout, NodeOK, IInv, TypeInv
<1>4. CommandInv' /\ AloneInv' /\ CmdOK
  BY <1>2, <1>3, QuietSame, QuietStep DEF Timeout
<1>5. LockNamesNode'
  BY <1>2, <1>3 DEF Timeout, LockNamesNode, Running, IInv
<1> QED BY <1>2, <1>3, <1>4, <1>5, ControlStep DEF Timeout, ControlInv

(* The lock is removed, and the only node that ran told to end.             *)
LEMMA InterruptStep ==
  ASSUME IInv, NEW c \in Shells, Interrupt(c)
  PROVE  IInv'
<1>1. /\ cmd[c].pid \in Pids
      /\ ~overlapped => \A p \in Pids : Running(p) => p = cmd[c].pid
  BY Waiting DEF Interrupt
<1>2. HeldOK /\ FaultsOK /\ overlapped' \in BOOLEAN /\ overlapped' = overlapped
  BY StoreSame, Faulty DEF Interrupt, IInv, TypeInv
<1>3. /\ NodeOK
      /\ \A p \in Pids : Running(p)' => Running(p) /\ p # cmd[c].pid
  <2>1. Told(cmd[c].pid)
    BY DEF Interrupt, Told
  <2> QED BY <1>1, <2>1, ToldStep DEF Interrupt, NodeOK
<1>4. CommandInv' /\ AloneInv' /\ CmdOK
  BY <1>2, <1>3, QuietUnclean, QuietStep DEF Interrupt
<1>5. LockNamesNode'
  BY <1>1, <1>2, <1>3 DEF LockNamesNode, Running
<1> QED BY <1>2, <1>3, <1>4, <1>5, ControlStep DEF Interrupt, ControlInv

(* No program begins with a step that relies on something.                  *)
LEMMA BeginRests ==
  ASSUME NEW n \in DOMAIN Program, NEW k \in Command, k.name = n, k.at = 1
  PROVE  Rests(k)
<1> DEFINE P == Program[n]
<1>1. Shape(P) /\ Len(P) \in Nat /\ 1 \in 1..Len(P)
  BY ProgramShape DEF Shape
<1>2. Fits(P, 1)
  BY <1>1 DEF Shape
<1>3. ~(1 <= 1 - 1)
  OBVIOUS
<1> HIDE DEF P
<1>4. P[1].op \notin Delicate
  <2>1. Plain \cap Delicate = {} /\ {"signal", "check server", "check import"} \cap Delicate = {}
    BY DEF Plain, Delicate, Spawning
  <2>2. P[1].op \in Plain \cup {"signal", "check server", "check import"}
    BY <1>2, <1>3, Zenon DEF Fits
  <2> QED BY <2>1, <2>2
<1> QED BY <1>1, <1>4 DEF Rests, Op, P

LEMMA BeginStep ==
  ASSUME IInv, NEW c \in Shells, Begin(c)
  PROVE  IInv'
<1> DEFINE others == {o \in Shells : Active(o)}
           n == Head(plan[c])
<1>1. n \in DOMAIN Program /\ plan' \in [Shells -> Seq(DOMAIN Program)]
  BY DEF Begin, IInv, TypeInv
<1>2. overlapped' = (overlapped \/ others # {}) /\ UNCHANGED <<node, lock, held, store, faults>>
  BY DEF Begin
<1>3. PICK X \in Command :
         /\ X.name = n /\ X.at = 1
         /\ cmd' = [Unclean(others) EXCEPT ![c] = X]
  <2> DEFINE b == (others = {})
             X == [[Idle EXCEPT !.name = n, !.at = 1] EXCEPT !.clean = b]
  <2>1. b \in BOOLEAN
    OBVIOUS
  <2>2. cmd' = [Unclean(others) EXCEPT ![c] = X]
    BY DEF Begin
  <2> HIDE DEF b, n
  <2>3. X \in Command /\ X.name = n /\ X.at = 1
    BY <1>1, <2>1 DEF Idle, Command
  <2> QED BY <2>2, <2>3
<1> HIDE DEF others, n
<1>4. Rests(X)
  BY <1>1, <1>3, BeginRests
<1>5. PICK f \in [Shells -> Command] :
         /\ f = Unclean(others)
         /\ \A d \in Shells : /\ f[d].name = cmd[d].name /\ f[d].at = cmd[d].at
                              /\ f[d].pid = cmd[d].pid
  BY UncleanSame
<1>6. CmdOK /\ cmd'[c] = X /\ \A d \in Shells : d # c => cmd'[d] = f[d]
  BY <1>3, <1>5 DEF CmdOK
<1>7. \A p \in Pids : Running(p)' <=> Running(p)
  BY <1>2 DEF Running, Alive
<1>8. CommandInv'
  <2> SUFFICES ASSUME NEW d \in Shells PROVE Stands(cmd[d])'
    BY DEF CommandInv
  <2>1. CASE d = c
    BY <1>4, <1>6, <2>1 DEF Stands, Rests, Op, Delicate
  <2>2. CASE d # c
    BY <1>5, <1>6, <2>2 DEF IInv, CommandInv, Stands, Op
  <2> QED BY <2>1, <2>2
<1>9. AloneInv'
  <2> SUFFICES ASSUME ~overlapped, others = {}
               PROVE  /\ \A d, e \in Shells : Active(d)' /\ Active(e)' => d = e
                      /\ \A d \in Shells : Relies(cmd[d])'
    BY <1>2 DEF AloneInv
  <2>1. \A d \in Shells : d # c => cmd'[d].name = None
    BY <1>5, <1>6 DEF Active, others
  <2>2. Relies(X)'
    BY <1>4 DEF Rests, Relies, Op, Delicate
  <2>3. \A d \in Shells : Relies(cmd[d])'
    BY <1>6, <2>1, <2>2 DEF Relies, Op
  <2> QED BY <2>1, <2>3 DEF Active
<1>10. LockNamesNode'
  BY <1>2, <1>7 DEF LockNamesNode, Running, IInv
<1>11. TypeInv'
  BY <1>1, <1>2, <1>6 DEF IInv, TypeInv, CmdOK, store
<1> QED BY <1>8, <1>9, <1>10, <1>11 DEF IInv

LEMMA CrashStep ==
  ASSUME IInv, NEW c \in Shells, Crash(c)
  PROVE  IInv'
<1>1. NodeOK /\ HeldOK /\ FaultsOK /\ overlapped' = TRUE
  BY Faulty DEF Crash, NodeOK, HeldOK, IInv, TypeInv
<1>2. CmdOK /\ CommandInv'
  <2>1. /\ cmd'[c] = Idle /\ CmdOK
        /\ \A d \in Shells : d # c => cmd'[d] = cmd[d]
    BY IdleRests DEF Crash, CmdOK, IInv, TypeInv
  <2> SUFFICES ASSUME NEW d \in Shells PROVE Stands(cmd[d])'
    BY <2>1 DEF CommandInv
  <2>2. CASE d = c
    BY <2>1, <2>2 DEF Stands, Idle
  <2>3. CASE d # c
    BY <2>1, <2>3 DEF IInv, CommandInv, Stands, Op
  <2> QED BY <2>2, <2>3
<1>3. AloneInv' /\ LockNamesNode'
  BY <1>1 DEF AloneInv, LockNamesNode
<1> QED BY <1>1, <1>2, <1>3, ControlStep DEF Crash, ControlInv

-----------------------------------------------------------------------------
(* The steps of the node                                                    *)

LEMMA TwoNats ==
  ASSUME NEW a \in Nat, NEW b \in Nat
  PROVE  /\ Max({a, b}) \in {a, b} /\ a <= Max({a, b}) /\ b <= Max({a, b})
         /\ Min({a, b}) \in {a, b} /\ Min({a, b}) <= a /\ Min({a, b}) <= b
<1>1. \E x \in {a, b} : \A y \in {a, b} : x >= y
  <2>1. CASE a >= b
    BY <2>1
  <2>2. CASE ~(a >= b)
    BY <2>2
  <2> QED BY <2>1, <2>2
<1>2. \E x \in {a, b} : \A y \in {a, b} : x <= y
  <2>1. CASE a <= b
    BY <2>1
  <2>2. CASE ~(a <= b)
    BY <2>2
  <2> QED BY <2>1, <2>2
<1>3. Max({a, b}) \in {a, b} /\ \A y \in {a, b} : Max({a, b}) >= y
  BY <1>1, Zenon DEF Max
<1>4. Min({a, b}) \in {a, b} /\ \A y \in {a, b} : Min({a, b}) <= y
  BY <1>2, Zenon DEF Min
<1> DEFINE x == Max({a, b})
           y == Min({a, b})
<1>5. x \in {a, b} /\ x >= a /\ x >= b /\ y \in {a, b} /\ y <= a /\ y <= b
  BY <1>3, <1>4, Zenon
<1> HIDE DEF x, y
<1>6. x \in {a, b} /\ a <= x /\ b <= x /\ y \in {a, b} /\ y <= a /\ y <= b
  BY <1>5
<1> QED BY <1>6, Zenon DEF x, y

\* The process p goes on as Y, or is gone, and no command with it
NodeMoves(p, Y) ==
  /\ Alive(p) /\ Y \in Node /\ Y.stopping = node[p].stopping
  /\ node' = [node EXCEPT ![p] = Y]
  /\ Quiet /\ UNCHANGED <<lock, held, server, latest, fetched, plan, overlapped>>

LEMMA NodeMove ==
  ASSUME IInv, NEW p \in Pids, NEW Y, NodeMoves(p, Y), DbOK, FaultsOK
  PROVE  IInv'
<1>1. node' \in [Pids -> Node] /\ node'[p] = Y /\ \A q \in Pids : q # p => node'[q] = node[q]
  BY DEF NodeMoves, IInv, TypeInv
<1>2. \A q \in Pids : Running(q)' => Running(q)
  BY <1>1 DEF NodeMoves, Running, Alive
<1>3. CommandInv' /\ AloneInv' /\ CmdOK
  BY <1>2, QuietStep DEF NodeMoves
<1>4. LockNamesNode'
  BY <1>2 DEF NodeMoves, LockNamesNode, Running, IInv
<1>5. TypeInv'
  BY <1>1, <1>3 DEF NodeMoves, IInv, TypeInv, DbOK, FaultsOK, CmdOK
<1> QED BY <1>3, <1>4, <1>5 DEF IInv

\* The process p stays what it is, and nothing but a database changes
LEMMA NodeStays ==
  ASSUME IInv, Quiet, DbOK, FaultsOK,
         UNCHANGED <<node, lock, held, server, latest, fetched, plan, overlapped>>
  PROVE  IInv'
<1>1. \A q \in Pids : Running(q)' <=> Running(q)
  BY DEF Running, Alive
<1>2. CommandInv' /\ AloneInv' /\ CmdOK
  BY <1>1, QuietStep
<1>3. LockNamesNode'
  BY <1>1 DEF LockNamesNode, Running, IInv
<1>4. TypeInv'
  BY <1>2 DEF IInv, TypeInv, DbOK, FaultsOK, CmdOK
<1> QED BY <1>2, <1>3, <1>4 DEF IInv

LEMMA ExitMoves ==
  ASSUME IInv, NEW p \in Pids, Alive(p), NEW code \in {"ok", "error", "native", "signal"},
         Exit(p, code), Quiet, NodeOnly
  PROVE  \E Y : NodeMoves(p, Y)
<1> DEFINE Y == [node[p] EXCEPT !.phase = "gone", !.code = code]
<1>1. node[p] \in Node /\ node \in [Pids -> Node]
  BY DEF IInv, TypeInv
<1>2. Y \in Node /\ Y.stopping = node[p].stopping
  BY <1>1 DEF Node
<1>3. node' = [node EXCEPT ![p] = Y]
  BY <1>1 DEF Exit, Node
<1> HIDE DEF Y
<1> QED BY <1>2, <1>3 DEF NodeMoves, NodeOnly

\* What a node writes into its database
LEMMA OnDatabaseOK ==
  ASSUME IInv, NEW p \in Pids, NEW x \in Whole, OnDatabase(p, x)
  PROVE  DbOK
BY DEF IInv, TypeInv, Node, OnDatabase, DbOK

LEMMA DatabaseTyped ==
  ASSUME IInv, NEW p \in Pids, Usable(node[p].on)
  PROVE  /\ Database(p) \in Whole
         /\ Database(p).blocks \in Nat /\ Database(p).accounts \in Nat
         /\ Database(p).blocks <= MaxHeight /\ Database(p).accounts <= Database(p).blocks
<1>1. node[p].on \in {"main", "snap"}
  BY DEF IInv, TypeInv, Node
<1>2. Database(p) \in Whole
  BY <1>1 DEF IInv, TypeInv, Usable, Database
<1>3. MaxHeight \in Nat
  BY NodeControlAssumption
<1> QED BY <1>2, <1>3 DEF Whole, Databases

LEMMA WholeMade ==
  ASSUME NEW b \in Nat, NEW a \in Nat, a <= b, b <= MaxHeight
  PROVE  [blocks |-> b, accounts |-> a] \in Whole
BY NodeControlAssumption DEF Whole, Databases

LEMMA BootStep ==
  ASSUME IInv, NEW p \in Pids, Boot(p)
  PROVE  IInv'
<1>1. Alive(p) /\ Quiet /\ FaultsOK
  BY QuietUnclean, StoreSame DEF Boot, Alive
<1>2. CASE Exit(p, "error") /\ UNCHANGED db
  BY <1>1, <1>2, ExitMoves, StoreSame, NodeMove DEF Boot
<1>3. CASE ~(~Usable(node[p].on) \/ \E q \in Pids : node[q].phase \in {"load", "ready"})
  <2> DEFINE b == Max({1, Database(p).blocks})
             s == b = 1 \/ node[p].verifying \/ Database(p).accounts = 0
             a == IF s THEN 0 ELSE Database(p).accounts
             Y == [node[p] EXCEPT !.phase = IF s THEN "load" ELSE "ready",
                                  !.verifying = node[p].verifying /\ b > 1, !.announced = ~s]
  <2>1. /\ OnDatabase(p, [blocks |-> b, accounts |-> a])
        /\ node' = [node EXCEPT ![p].phase = IF s THEN "load" ELSE "ready",
                                ![p].verifying = @ /\ b > 1, ![p].announced = ~s]
    BY <1>3 DEF Boot
  <2>2. /\ Database(p).blocks \in Nat /\ Database(p).accounts \in Nat
        /\ Database(p).blocks <= MaxHeight /\ Database(p).accounts <= Database(p).blocks
    BY <1>3, DatabaseTyped
  <2>3. b \in Nat /\ 1 <= b /\ Database(p).blocks <= b /\ b <= MaxHeight
    <3>1. 1 <= MaxHeight
      BY NodeControlAssumption
    <3>2. b \in {1, Database(p).blocks} /\ 1 <= b /\ Database(p).blocks <= b
      BY <2>2, TwoNats
    <3> HIDE DEF b
    <3> QED BY <2>2, <3>1, <3>2
  <2>4. DbOK
    <3>1. a \in Nat /\ a <= b
      <4> HIDE DEF b, s
      <4> QED BY <2>2, <2>3
    <3> HIDE DEF a, b
    <3>2. [blocks |-> b, accounts |-> a] \in Whole
      BY <2>3, <3>1, WholeMade
    <3> QED BY <2>1, <3>2, OnDatabaseOK
  <2>5. node[p] \in Node /\ node \in [Pids -> Node]
    BY DEF IInv, TypeInv
  <2> HIDE DEF b, s
  <2>6. s \in BOOLEAN
    BY DEF s
  <2>7. Y \in Node /\ Y.stopping = node[p].stopping
    BY <2>5, <2>6 DEF Node
  <2>8. node' = [node EXCEPT ![p] = Y]
    BY <2>1, <2>5 DEF Node
  <2> HIDE DEF Y
  <2>9. NodeMoves(p, Y)
    BY <1>1, <2>7, <2>8 DEF NodeMoves, Boot, NodeOnly
  <2> QED BY <1>1, <2>4, <2>9, NodeMove
<1> QED BY <1>2, <1>3 DEF Boot

LEMMA TargetTyped ==
  ASSUME IInv, NEW p \in Pids, Usable(node[p].on)
  PROVE  Target(p) \in Nat
<1>1. Database(p).blocks \in Nat
  BY DatabaseTyped
<1>2. R \in Nat /\ R > 0
  BY NodeControlAssumption
<1>3. LastRound(Database(p).blocks) \in Nat
  <2> DEFINE q == Database(p).blocks \div R
             m == Max({1, q})
  <2>1. q \in Nat
    BY <1>1, <1>2
  <2>2. m \in Nat
    <3> HIDE DEF q
    <3> QED BY <2>1, TwoNats
  <2> HIDE DEF m
  <2>3. R * m \in Nat
    BY <1>2, <2>2
  <2> QED BY <2>3 DEF LastRound, m
<1> QED BY <1>1, <1>3 DEF Target

LEMMA LoadBlockStep ==
  ASSUME IInv, NEW p \in Pids, LoadBlock(p)
  PROVE  IInv'
<1> DEFINE x == Database(p)
           y == [x EXCEPT !.accounts = @ + 1]
<1>1. /\ x \in Whole /\ x.blocks \in Nat /\ x.accounts \in Nat /\ x.blocks <= MaxHeight
      /\ Target(p) \in Nat
  BY DatabaseTyped, TargetTyped DEF LoadBlock
<1>2. x.accounts < x.blocks
  <2>1. Min({Target(p), x.blocks}) \in Nat /\ Min({Target(p), x.blocks}) <= x.blocks
    BY <1>1, TwoNats
  <2>2. x.accounts < Min({Target(p), x.blocks})
    BY DEF LoadBlock
  <2> HIDE DEF x
  <2> QED BY <1>1, <2>1, <2>2
<1>3. y = [blocks |-> x.blocks, accounts |-> x.accounts + 1]
  <2> HIDE DEF x
  <2> QED BY <1>1 DEF Whole, Databases
<1>4. y \in Whole
  <2> HIDE DEF x, y
  <2>1. x.accounts + 1 \in Nat /\ x.accounts + 1 <= x.blocks
    BY <1>1, <1>2
  <2> QED BY <1>1, <1>3, <2>1, WholeMade
<1>5. OnDatabase(p, y)
  BY DEF LoadBlock
<1> HIDE DEF x, y
<1>6. DbOK
  BY <1>4, <1>5, OnDatabaseOK
<1> QED BY <1>6, QuietSame, StoreSame, NodeStays DEF LoadBlock, NodeOnly

LEMMA LoadedStep ==
  ASSUME IInv, NEW p \in Pids, Loaded(p)
  PROVE  IInv'
<1> DEFINE x == Database(p)
           y == [x EXCEPT !.blocks = Clipped(x.accounts, x.blocks)]
<1>1. Alive(p) /\ Quiet /\ FaultsOK
  BY QuietSame, StoreSame DEF Loaded, Alive
<1>2. /\ x \in Whole /\ x.blocks \in Nat /\ x.accounts \in Nat
      /\ x.blocks <= MaxHeight /\ x.accounts <= x.blocks
  BY DatabaseTyped DEF Loaded
<1>3. y \in Whole
  <2> DEFINE b == Min({x.blocks, x.accounts})
  <2>1. b \in {x.blocks, x.accounts}
    BY <1>2, TwoNats
  <2>2. y = [blocks |-> b, accounts |-> x.accounts]
    <3> HIDE DEF x
    <3> QED BY <1>2 DEF Clipped, After, Whole, Databases
  <2> HIDE DEF x, y, b
  <2>3. b \in Nat /\ x.accounts <= b /\ b <= MaxHeight
    BY <1>2, <2>1, NodeControlAssumption
  <2> QED BY <1>2, <2>2, <2>3, WholeMade
<1>4. CASE node[p].verifying
  <2>1. /\ Exit(p, "ok") \/ Exit(p, "error")
        /\ OnDatabase(p, y) \/ OnDatabase(p, x)
    BY <1>4 DEF Loaded
  <2>2. \E Y : NodeMoves(p, Y)
    BY <1>1, <2>1, ExitMoves DEF Loaded
  <2> HIDE DEF x, y
  <2>3. DbOK
    BY <1>2, <1>3, <2>1, OnDatabaseOK
  <2> QED BY <1>1, <2>2, <2>3, NodeMove
<1>5. CASE ~node[p].verifying
  <2> DEFINE Y == [node[p] EXCEPT !.phase = "ready", !.announced = TRUE]
  <2>1. node[p] \in Node /\ node \in [Pids -> Node]
    BY DEF IInv, TypeInv
  <2>2. Y \in Node /\ Y.stopping = node[p].stopping
    BY <2>1 DEF Node
  <2>3. node' = [node EXCEPT ![p].phase = "ready", ![p].announced = TRUE] /\ UNCHANGED db
    BY <1>5 DEF Loaded
  <2>4. node' = [node EXCEPT ![p] = Y]
    BY <2>1, <2>3 DEF Node
  <2> HIDE DEF Y
  <2>5. NodeMoves(p, Y)
    BY <1>1, <2>2, <2>4 DEF NodeMoves, Loaded, NodeOnly
  <2> QED BY <1>1, <2>3, <2>5, StoreSame, NodeMove
<1> QED BY <1>4, <1>5

(* The ends of a process.                                                   *)
LEMMA EndSteps ==
  ASSUME IInv, NEW p \in Pids, LoadFails(p) \/ Ends(p) \/ BootFails(p) \/ Killed(p)
  PROVE  IInv'
<1>1. Alive(p) /\ Quiet /\ FaultsOK /\ DbOK
  BY QuietSame, QuietUnclean, StoreSame, Faulty DEF LoadFails, Ends, BootFails, Killed, Alive, NodeOnly
<1>2. \E code \in {"ok", "error", "native", "signal"} : Exit(p, code) /\ NodeOnly
  BY DEF LoadFails, Ends, BootFails, Killed
<1>3. \E Y : NodeMoves(p, Y)
  BY <1>1, <1>2, ExitMoves
<1> QED BY <1>1, <1>3, NodeMove

LEMMA GrowStep ==
  ASSUME IInv, NEW p \in Pids, Grow(p)
  PROVE  IInv'
<1> DEFINE x == Database(p)
           y == [blocks |-> x.blocks + 1, accounts |-> x.accounts + 1]
<1>1. /\ x.blocks \in Nat /\ x.accounts \in Nat /\ x.accounts <= x.blocks
      /\ x.blocks < MaxHeight
  BY DatabaseTyped DEF Grow
<1>2. OnDatabase(p, y)
  BY DEF Grow
<1> HIDE DEF x
<1>3. y \in Whole
  <2>1. /\ x.blocks + 1 \in Nat /\ x.accounts + 1 \in Nat
        /\ x.accounts + 1 <= x.blocks + 1 /\ x.blocks + 1 <= MaxHeight
    BY <1>1, NodeControlAssumption
  <2> QED BY <2>1, WholeMade
<1> HIDE DEF y
<1>4. DbOK
  BY <1>2, <1>3, OnDatabaseOK
<1> QED BY <1>4, QuietUnclean, StoreSame, NodeStays DEF Grow, NodeOnly

-----------------------------------------------------------------------------
(* The theorems                                                             *)

LEMMA InitInv == Init => IInv
<1> SUFFICES ASSUME Init PROVE IInv
  OBVIOUS
<1>1. NoNode \in Node /\ ~(NoNode.phase \in {"boot", "load", "ready"})
  BY DEF NoNode, Node
<1>2. Idle \in Command /\ Idle.name = None
  BY IdleRests DEF Idle
<1>3. TypeInv
  <2>1. db \in [{"main", "snap"} -> Whole \cup {None}]
    <3>1. PICK h \in Heights : db = [main |-> [blocks |-> h, accounts |-> h], snap |-> None]
      BY DEF Init
    <3>2. [blocks |-> h, accounts |-> h] \in Whole
      <4>1. h \in Nat /\ h <= MaxHeight
        BY NodeControlAssumption
      <4> QED BY <4>1, WholeMade
    <3> QED BY <3>1, <3>2
  <2>2. plan \in [Shells -> Seq(DOMAIN Program)]
    BY PlansAssumption DEF Init
  <2>3. faults \in 0..MaxFaults
    BY NodeControlAssumption DEF Init
  <2>4. node \in [Pids -> Node] /\ cmd \in [Shells -> Command]
    BY <1>1, <1>2 DEF Init
  <2>5. held \in [Locks -> Shells \cup {"stale", None}]
    BY DEF Init, Locks
  <2> QED BY <2>1, <2>2, <2>3, <2>4, <2>5 DEF Init, TypeInv
<1>4. CommandInv
  BY <1>2 DEF Init, CommandInv, Stands
<1>5. AloneInv
  BY <1>2 DEF Init, AloneInv, Active, Relies
<1>6. LockNamesNode
  BY <1>1 DEF Init, LockNamesNode, Alive
<1> QED BY <1>3, <1>4, <1>5, <1>6 DEF IInv

LEMMA CommandSteps ==
  ASSUME IInv, NEW c \in Shells, CommandStep(c)
  PROVE  IInv'
<1>1. {"backup", "snapshot"} = Locks /\ latest \in Contents /\ fetched \in Contents
  BY DEF Locks, Contents, IInv, TypeInv
<1>2. CASE \/ Check(c, "check backup", "backup") \/ Check(c, "check snapshot", "snapshot")
           \/ Lock(c, "lock backup", "backup") \/ Lock(c, "lock snapshot", "snapshot")
           \/ Free(c, "free backup", "backup") \/ Free(c, "free snapshot", "snapshot")
  BY <1>1, <1>2, LockFileSteps DEF Plain
<1>3. CASE CheckImport(c)
  BY <1>3, ImportStep
<1>4. CASE Signal(c)
  BY <1>4, SignalStep
<1>5. CASE Unlock(c)
  BY <1>5, UnlockStep
<1>6. CASE KillAll(c)
  BY <1>6, KillAllStep
<1>7. CASE CheckNode(c)
  BY <1>7, CheckNodeStep
<1>8. CASE Spawn(c)
  BY <1>8, SpawnStep
<1>9. CASE SeeReady(c)
  BY <1>9, ReadyStep
<1>10. CASE Rebuild(c)
  BY <1>10, RebuildStep
<1>11. CASE \/ CheckServer(c) \/ Switch(c, "up", TRUE) \/ Switch(c, "down", FALSE)
            \/ Wipe(c) \/ Vacuum(c) \/ Height(c) \/ SeeClose(c)
  BY <1>11, ServerSteps
<1>12. CASE \/ Drop(c, "drop main", "main") \/ Drop(c, "drop snap", "snap")
            \/ Create(c, "create main", "main") \/ Create(c, "create snap", "snap")
  BY <1>12, DatabaseSteps DEF Plain
<1>13. CASE Copy(c) \/ Dump(c) \/ DumpSnap(c) \/ Download(c)
  BY <1>13, CopySteps
<1>14. CASE \/ Load(c, "load latest", "main", latest) \/ Load(c, "load fetched", "main", fetched)
            \/ Load(c, "load snap", "snap", latest)
  BY <1>1, <1>14, LoadSteps DEF Plain
<1> QED BY <1>2, <1>3, <1>4, <1>5, <1>6, <1>7, <1>8, <1>9, <1>10, <1>11, <1>12, <1>13, <1>14
        DEF CommandStep

LEMMA NextInv == ASSUME IInv, [Next]_vars PROVE IInv'
<1>1. ASSUME NEW c \in Shells, Begin(c) PROVE IInv'
  BY <1>1, BeginStep
<1>2. ASSUME NEW c \in Shells, CommandStep(c) PROVE IInv'
  BY <1>2, CommandSteps
<1>3. ASSUME NEW c \in Shells, Timeout(c) PROVE IInv'
  BY <1>3, TimeoutStep
<1>4. ASSUME NEW c \in Shells, Interrupt(c) PROVE IInv'
  BY <1>4, InterruptStep
<1>5. ASSUME NEW c \in Shells, Crash(c) PROVE IInv'
  BY <1>5, CrashStep
<1>6. ASSUME NEW p \in Pids, NodeStep(p) PROVE IInv'
  BY <1>6, BootStep, LoadBlockStep, LoadedStep, EndSteps DEF NodeStep
<1>7. ASSUME NEW p \in Pids, Grow(p) PROVE IInv'
  BY <1>7, GrowStep
<1>8. ASSUME NEW p \in Pids, BootFails(p) \/ Killed(p) PROVE IInv'
  BY <1>8, EndSteps
<1>9. CASE UNCHANGED vars
  BY <1>9, QuietSame, StoreSame, NodeStays DEF vars, store
<1> QED BY <1>1, <1>2, <1>3, <1>4, <1>5, <1>6, <1>7, <1>8, <1>9 DEF Next

LEMMA Invariance == Spec => []IInv
<1>1. IInv /\ [Next]_vars => IInv'
  BY NextInv
<1> QED BY InitInv, <1>1, PTL DEF Spec

(* TypeOK: in a database the accounts are never computed from blocks that   *)
(* are not there, whatever the commands and the nodes do to it (loader.ts,  *)
(* deleteAfterBlock, and the commands that replace it under a node).        *)
THEOREM TypeCorrect == Spec => []TypeOK
<1>1. IInv => TypeOK
  BY DEF IInv, TypeInv, TypeOK, Whole, Locks
<1> QED BY Invariance, <1>1, PTL

(* LockNamesNode: as long as one command runs at a time, the node that runs *)
(* is the one the node lock names (startLaunchpad, nodeStop, getPID), for   *)
(* any sessions of commands and any failures.                               *)
THEOREM LockFollows == Spec => []LockNamesNode
<1>1. IInv => LockNamesNode
  BY DEF IInv
<1> QED BY Invariance, <1>1, PTL

-----------------------------------------------------------------------------
(* What an export and a verification know: the order of their steps         *)

\* The steps that rely on the copy of the database, and the others
Copying == {"vacuum", "create snap", "copy", "height", "dump", "load snap", "spawn verifying",
            "dump snap"}
Bare == Ops \ Copying
\* The operations of the commands other than export-snapshot
Common == Ops \ {"spawn verifying", "dump snap"}

Links(P, i) ==
  /\ P[i].op = "vacuum" => 1 <= i - 1 /\ P[i - 1].op = "drop snap"
  /\ P[i].op = "create snap" =>
       /\ 1 <= i - 1 /\ i + 1 <= Len(P)
       /\ P[i - 1].op = "vacuum" \/ (P[i - 1].op = "drop snap" /\ P[i + 1].op = "load snap")
  /\ P[i].op = "copy" => 1 <= i - 1 /\ P[i - 1].op = "create snap"
  /\ P[i].op = "height" => 1 <= i - 1 /\ P[i - 1].op = "copy"
  /\ P[i].op = "dump" => 1 <= i - 1 /\ P[i - 1].op = "height"
  /\ P[i].op = "load snap" => 1 <= i - 1 /\ P[i - 1].op = "create snap"
  /\ P[i].op = "spawn verifying" =>
       1 <= i - 2 /\ P[i - 1].op = "check node" /\ P[i - 2].op = "load snap"
  /\ P[i].op = "dump snap" =>
       1 <= i - 2 /\ P[i - 1].op = "await" /\ P[i - 2].op = "spawn verifying"
Linked(P, S) == P \in Seq(Step) /\ \A i \in 1..Len(P) : Links(P, i) /\ P[i].op \in S

(* A function is linked wherever it is called.                              *)
LEMMA LinkMoved ==
  ASSUME NEW P, NEW J, NEW d \in Nat, Len(P) \in Nat, Len(J) \in Nat, d + Len(P) <= Len(J),
         \A k \in 1..Len(P) : J[d + k].op = P[k].op,
         NEW i \in 1..Len(P), Links(P, i)
  PROVE  Links(J, d + i)
<1>1. ASSUME NEW n \in {-2, -1, 1}, i + n \in 1..Len(P)
      PROVE  J[(d + i) + n].op = P[i + n].op /\ 1 <= (d + i) + n /\ (d + i) + n <= Len(J)
  <2>1. (d + i) + n = d + (i + n)
    OBVIOUS
  <2> QED BY <1>1, <2>1
<1>2. /\ i + (-1) = i - 1 /\ (d + i) + (-1) = (d + i) - 1
      /\ i + (-2) = i - 2 /\ (d + i) + (-2) = (d + i) - 2
      /\ 1 <= i - 1 => i - 1 \in 1..Len(P)
      /\ 1 <= i - 2 => i - 2 \in 1..Len(P) /\ 1 <= i - 1
      /\ i + 1 <= Len(P) => i + 1 \in 1..Len(P)
  OBVIOUS
<1>3. 1 <= i - 1 => J[(d + i) - 1].op = P[i - 1].op /\ 1 <= (d + i) - 1
  BY <1>1, <1>2
<1>4. 1 <= i - 2 => J[(d + i) - 2].op = P[i - 2].op /\ 1 <= (d + i) - 2 /\ 1 <= i - 1
  BY <1>1, <1>2
<1>5. i + 1 <= Len(P) => J[(d + i) + 1].op = P[i + 1].op /\ (d + i) + 1 <= Len(J)
  BY <1>1, <1>2
<1>6. J[d + i].op = P[i].op
  OBVIOUS
<1> DEFINE e == d + i
<1> HIDE DEF e
<1> QED BY <1>3, <1>4, <1>5, <1>6 DEF Links, e

LEMMA LinkedWithin ==
  ASSUME NEW P, NEW S, Linked(P, S), NEW l \in Locks
  PROVE  Linked(Within(l, P), S)
<1> DEFINE W == Within(l, P)
<1>1. P \in Seq(Step) /\ Len(P) \in Nat /\ \A i \in 1..Len(P) : P[i] \in Step
  BY DEF Linked
<1>2. W \in [1..Len(P) -> Step]
  BY <1>1 DEF Step, Within
<1>3. W \in Seq(Step) /\ Len(W) = Len(P)
  BY <1>1, <1>2, SeqMade
<1>4. ASSUME NEW i \in 1..Len(P) PROVE W[0 + i].op = P[i].op /\ W[i].op = P[i].op
  <2>1. P[i] \in Step /\ 0 + i = i
    BY <1>1
  <2> QED BY <1>1, <2>1 DEF Step, Within
<1> HIDE DEF W
<1>5. ASSUME NEW i \in 1..Len(W) PROVE Links(W, i) /\ W[i].op \in S
  <2>1. i \in 1..Len(P) /\ Links(P, i) /\ P[i].op \in S
    BY <1>3 DEF Linked
  <2>2. Links(W, 0 + i)
    <3>1. Len(W) \in Nat /\ 0 + Len(P) <= Len(W)
      BY <1>1, <1>3
    <3> QED BY <1>1, <1>4, <2>1, <3>1, LinkMoved
  <2>3. 0 + i = i
    BY <2>1
  <2> QED BY <1>4, <2>1, <2>2, <2>3
<1> QED BY <1>3, <1>5 DEF Linked, W

LEMMA LinkedJoined ==
  ASSUME NEW P, NEW Q, NEW S, Linked(P, S), Linked(Q, S)
  PROVE  Linked(P \o Q, S)
<1> DEFINE J == P \o Q
<1>1. /\ P \in Seq(Step) /\ Q \in Seq(Step) /\ Len(P) \in Nat /\ Len(Q) \in Nat
      /\ \A i \in 1..Len(P) : Links(P, i) /\ P[i].op \in S
      /\ \A i \in 1..Len(Q) : Links(Q, i) /\ Q[i].op \in S
  BY DEF Linked
<1>2. J \in Seq(Step) /\ Len(J) = Len(P) + Len(Q) /\ Len(J) \in Nat
  BY <1>1
<1>3. /\ \A i \in 1..Len(P) : J[0 + i].op = P[i].op
      /\ \A i \in 1..Len(Q) : J[Len(P) + i].op = Q[i].op
  BY <1>1
<1> HIDE DEF J
<1>4. ASSUME NEW i \in 1..Len(J) PROVE Links(J, i) /\ J[i].op \in S
  <2>1. CASE i \in 1..Len(P)
    <3>1. 0 + Len(P) <= Len(J) /\ 0 + i = i
      BY <1>1, <1>2, <2>1
    <3>2. Links(J, 0 + i)
      BY <1>1, <1>2, <1>3, <2>1, <3>1, LinkMoved
    <3> QED BY <1>1, <1>3, <2>1, <3>1, <3>2
  <2>2. CASE i \notin 1..Len(P)
    <3> DEFINE k == i - Len(P)
    <3>1. k \in 1..Len(Q) /\ Len(P) + k = i /\ Len(P) + Len(Q) <= Len(J)
      BY <1>1, <1>2, <2>2
    <3> HIDE DEF k
    <3>2. Links(J, Len(P) + k)
      BY <1>1, <1>2, <1>3, <3>1, LinkMoved
    <3> QED BY <1>1, <1>3, <3>1, <3>2
  <2> QED BY <2>1, <2>2
<1> QED BY <1>2, <1>4 DEF Linked, J

LEMMA LinkedBare ==
  ASSUME NEW ops \in Seq(Bare), NEW l \in SUBSET Locks
  PROVE  Linked(Steps(l, ops), Common)
<1> DEFINE P == Steps(l, ops)
<1>1. ops \in Seq(Ops) /\ \A i \in 1..Len(ops) : ops[i] \in Bare
  BY DEF Bare
<1>2. P \in Seq(Step) /\ Len(P) = Len(ops) /\ \A i \in 1..Len(ops) : P[i].op = ops[i]
  BY <1>1, StepsOps
<1> HIDE DEF P
<1>3. Bare \subseteq Common /\ \A op \in Bare : op \notin Copying
  BY DEF Bare, Common, Copying
<1>4. ASSUME NEW i \in 1..Len(P) PROVE Links(P, i) /\ P[i].op \in Common
  <2>1. P[i].op \in Common /\ P[i].op \notin Copying
    BY <1>1, <1>2, <1>3
  <2> QED BY <2>1 DEF Links, Copying
<1> QED BY <1>2, <1>4 DEF Linked, P

LEMMA LinkedMore ==
  ASSUME NEW P, Linked(P, Common)
  PROVE  Linked(P, Ops)
BY DEF Linked, Common

(* The functions whose steps are linked.                                    *)
LEMMA CommonLinked ==
  /\ Linked(NodeStop, Common) /\ Linked(NodeStart, Common) /\ Linked(DbStart, Common)
  /\ Linked(DbInit, Common) /\ Linked(DownloadSnapshot, Common)
  /\ \A file \in Loads : Linked(ImportDB(file), Common)
<1> DEFINE One(op) == Linked(Steps({}, <<op>>), Common)
<1>1. \A a, b \in Bare : <<a, b>> \in Seq(Bare)
  OBVIOUS
<1>2. \A a, b, c, d \in Bare : <<a, b, c, d>> \in Seq(Bare) /\ <<a>> \in Seq(Bare) /\ <<a, b, c>> \in Seq(Bare)
  OBVIOUS
<1>3. {"signal", "unlock", "check node", "spawn", "await", "check server", "up", "down", "wipe",
       "create main", "check import", "lock backup", "drop main", "free backup", "download",
       "load latest", "load fetched"} \subseteq Bare
  BY DEF Bare, Ops, Special, Plain, Spawning, Copying
<1>4. Linked(NodeStop, Common)
  <2>1. <<"signal", "unlock">> \in Seq(Bare)
    BY <1>1, <1>3
  <2> QED BY <2>1, LinkedBare DEF NodeStop
<1>5. Linked(NodeStart, Common)
  <2>1. <<"check node", "spawn", "await">> \in Seq(Bare)
    BY <1>2, <1>3
  <2> QED BY <2>1, LinkedBare DEF NodeStart
<1>6. ASSUME NEW a \in Bare PROVE One(a)
  <2>1. <<a>> \in Seq(Bare)
    BY <1>2
  <2> QED BY <2>1, LinkedBare
<1>7. One("check server") /\ One("up") /\ One("down") /\ One("create main") /\ One("download")
  BY <1>3, <1>6
<1>8. Linked(Steps({}, <<"down", "wipe">>), Common)
  <2>1. <<"down", "wipe">> \in Seq(Bare)
    BY <1>1, <1>3
  <2> QED BY <2>1, LinkedBare
<1>9. Linked(DbStart, Common)
  BY <1>4, <1>7, LinkedJoined, Zenon DEF DbStart
<1>10. Linked(DbInit, Common)
  BY <1>4, <1>7, <1>8, <1>9, LinkedJoined, Zenon DEF DbInit
<1>11. ASSUME NEW file \in Loads PROVE Linked(ImportDB(file), Common)
  <2>1. file \in Bare
    BY <1>3 DEF Loads
  <2>2. Linked(Steps({}, <<"check import", "lock backup">>), Common)
    <3>1. <<"check import", "lock backup">> \in Seq(Bare)
      BY <1>1, <1>3
    <3> QED BY <3>1, LinkedBare
  <2>3. Linked(Steps({}, <<"drop main", "create main", file, "free backup">>), Common)
    <3>1. <<"drop main", "create main", file, "free backup">> \in Seq(Bare)
      BY <1>2, <1>3, <2>1
    <3> QED BY <3>1, LinkedBare
  <2> QED BY <1>4, <2>2, <2>3, LinkedJoined, LinkedWithin, Zenon DEF ImportDB, Locks
<1>12. Linked(DownloadSnapshot, Common)
  <2>1. Linked(ImportDB("load fetched"), Common)
    BY <1>11 DEF Loads
  <2> QED BY <1>7, <2>1, LinkedJoined, Zenon DEF DownloadSnapshot
<1> QED BY <1>4, <1>5, <1>9, <1>10, <1>11, <1>12

LEMMA ExportLinked == Linked(ExportDB, Common)
<1> DEFINE ops == <<"drop snap", "vacuum", "create snap", "copy", "height", "dump", "drop snap",
                    "free backup">>
           P == Steps({}, ops)
<1>1. Linked(Steps({}, <<"check backup", "lock backup">>), Common)
  <2>1. <<"check backup", "lock backup">> \in Seq(Bare)
    BY DEF Bare, Ops, Plain, Copying
  <2> QED BY <2>1, LinkedBare
<1>2. ops \in Seq(Ops) /\ Len(ops) = 8
  <2>1. \A a, b, c, d, e, f, g, h \in Ops : <<a, b, c, d, e, f, g, h>> \in Seq(Ops)
    OBVIOUS
  <2>2. {"drop snap", "vacuum", "create snap", "copy", "height", "dump", "free backup"} \subseteq Ops
    BY DEF Ops, Plain
  <2>3. ops \in Seq(Ops)
    BY <2>1, <2>2
  <2>4. Len(ops) = 8
    OBVIOUS
  <2> HIDE DEF ops
  <2> QED BY <2>3, <2>4
<1>3. /\ ops[1] = "drop snap" /\ ops[2] = "vacuum" /\ ops[3] = "create snap" /\ ops[4] = "copy"
      /\ ops[5] = "height" /\ ops[6] = "dump" /\ ops[7] = "drop snap" /\ ops[8] = "free backup"
  OBVIOUS
<1> HIDE DEF ops
<1>4. P \in Seq(Step) /\ Len(P) = 8 /\ \A i \in 1..8 : P[i].op = ops[i]
  <2>1. P \in Seq(Step) /\ Len(P) = Len(ops) /\ \A i \in 1..Len(ops) : P[i].op = ops[i]
    BY <1>2, StepsOps
  <2> QED BY <1>2, <2>1, Zenon
<1> HIDE DEF P
<1>5. /\ P[1].op = ops[1] /\ P[2].op = ops[2] /\ P[3].op = ops[3] /\ P[4].op = ops[4]
      /\ P[5].op = ops[5] /\ P[6].op = ops[6] /\ P[7].op = ops[7] /\ P[8].op = ops[8]
  BY <1>4
<1>6. /\ P[1].op = "drop snap" /\ P[2].op = "vacuum" /\ P[3].op = "create snap" /\ P[4].op = "copy"
      /\ P[5].op = "height" /\ P[6].op = "dump" /\ P[7].op = "drop snap" /\ P[8].op = "free backup"
  BY <1>3, <1>5, Zenon
<1>7. Len(P) = 8 /\ \A i \in 1..Len(P) : i \in {1, 2, 3, 4, 5, 6, 7, 8}
  BY <1>4
<1>8. /\ 2 - 1 = 1 /\ 3 - 1 = 2 /\ 4 - 1 = 3 /\ 5 - 1 = 4 /\ 6 - 1 = 5
      /\ 1 <= 1 /\ 1 <= 2 /\ 1 <= 3 /\ 1 <= 4 /\ 1 <= 5 /\ 3 + 1 = 4 /\ 3 + 1 <= 8
  OBVIOUS
<1>9. Links(P, 1) /\ Links(P, 7) /\ Links(P, 8)
  BY <1>6 DEF Links
<1>10. Links(P, 2) /\ Links(P, 4) /\ Links(P, 5) /\ Links(P, 6)
  BY <1>6, <1>8 DEF Links
<1>11. Links(P, 3)
  BY <1>6, <1>7, <1>8 DEF Links
<1>12. /\ P[1].op \in Common /\ P[2].op \in Common /\ P[3].op \in Common /\ P[4].op \in Common
       /\ P[5].op \in Common /\ P[6].op \in Common /\ P[7].op \in Common /\ P[8].op \in Common
  BY <1>6 DEF Common, Ops, Plain
<1>13. Linked(P, Common)
  <2>1. ASSUME NEW i \in 1..Len(P) PROVE Links(P, i) /\ P[i].op \in Common
    <3>1. i \in {1, 2, 3, 4, 5, 6, 7, 8}
      BY <1>7
    <3> QED BY <1>9, <1>10, <1>11, <1>12, <3>1
  <2> QED BY <1>4, <2>1 DEF Linked
<1>14. ExportDB = Within("backup", Steps({}, <<"check backup", "lock backup">>) \o NodeStop \o P)
  BY DEF ExportDB, P, ops
<1>15. Linked(Steps({}, <<"check backup", "lock backup">>) \o NodeStop, Common)
  BY <1>1, CommonLinked, LinkedJoined
<1>16. Linked(Steps({}, <<"check backup", "lock backup">>) \o NodeStop \o P, Common)
  BY <1>13, <1>15, LinkedJoined
<1> QED BY <1>14, <1>16, LinkedWithin DEF Locks

LEMMA SnapshotLinked == Linked(ExportSnapshot, Ops)
<1> DEFINE ops == <<"drop snap", "create snap", "load snap", "check node", "spawn verifying",
                    "await", "dump snap", "drop snap", "free snapshot">>
           P == Steps({}, ops)
<1>1. Linked(Steps({}, <<"check snapshot", "lock snapshot">>), Ops)
  <2>1. <<"check snapshot", "lock snapshot">> \in Seq(Bare)
    BY DEF Bare, Ops, Plain, Copying
  <2> QED BY <2>1, LinkedBare, LinkedMore
<1>2. ops \in Seq(Ops) /\ Len(ops) = 9
  <2>1. \A a, b, c, d, e, f, g, h, i \in Ops : <<a, b, c, d, e, f, g, h, i>> \in Seq(Ops)
    OBVIOUS
  <2>2. {"drop snap", "create snap", "load snap", "check node", "spawn verifying",
         "await", "dump snap", "free snapshot"} \subseteq Ops
    BY DEF Ops, Special, Plain, Spawning
  <2>3. ops \in Seq(Ops)
    BY <2>1, <2>2
  <2>4. Len(ops) = 9
    OBVIOUS
  <2> HIDE DEF ops
  <2> QED BY <2>3, <2>4
<1>3. /\ ops[1] = "drop snap" /\ ops[2] = "create snap" /\ ops[3] = "load snap"
      /\ ops[4] = "check node" /\ ops[5] = "spawn verifying" /\ ops[6] = "await"
      /\ ops[7] = "dump snap" /\ ops[8] = "drop snap" /\ ops[9] = "free snapshot"
  OBVIOUS
<1> HIDE DEF ops
<1>4. P \in Seq(Step) /\ Len(P) = 9 /\ \A i \in 1..9 : P[i].op = ops[i]
  <2>1. P \in Seq(Step) /\ Len(P) = Len(ops) /\ \A i \in 1..Len(ops) : P[i].op = ops[i]
    BY <1>2, StepsOps
  <2> QED BY <1>2, <2>1, Zenon
<1> HIDE DEF P
<1>5. /\ P[1].op = ops[1] /\ P[2].op = ops[2] /\ P[3].op = ops[3] /\ P[4].op = ops[4]
      /\ P[5].op = ops[5] /\ P[6].op = ops[6] /\ P[7].op = ops[7] /\ P[8].op = ops[8]
      /\ P[9].op = ops[9]
  BY <1>4
<1>6. /\ P[1].op = "drop snap" /\ P[2].op = "create snap" /\ P[3].op = "load snap"
      /\ P[4].op = "check node" /\ P[5].op = "spawn verifying" /\ P[6].op = "await"
      /\ P[7].op = "dump snap" /\ P[8].op = "drop snap" /\ P[9].op = "free snapshot"
  BY <1>3, <1>5, Zenon
<1>7. Len(P) = 9 /\ \A i \in 1..Len(P) : i \in {1, 2, 3, 4, 5, 6, 7, 8, 9}
  BY <1>4
<1>8. /\ 2 - 1 = 1 /\ 3 - 1 = 2 /\ 5 - 1 = 4 /\ 5 - 2 = 3 /\ 7 - 1 = 6 /\ 7 - 2 = 5
      /\ 1 <= 1 /\ 1 <= 2 /\ 1 <= 3 /\ 1 <= 5 /\ 2 + 1 = 3 /\ 2 + 1 <= 9
  OBVIOUS
<1>9. Links(P, 1) /\ Links(P, 4) /\ Links(P, 6) /\ Links(P, 8) /\ Links(P, 9)
  BY <1>6 DEF Links
<1>10. Links(P, 3) /\ Links(P, 5) /\ Links(P, 7)
  BY <1>6, <1>8 DEF Links
<1>11. Links(P, 2)
  BY <1>6, <1>7, <1>8 DEF Links
<1>12. \A i \in 1..Len(P) : P[i].op \in Ops
  <2>1. P \in Seq(Step)
    BY <1>4
  <2>2. ASSUME NEW i \in 1..Len(P) PROVE P[i] \in Step
    BY <2>1
  <2> QED BY <2>2 DEF Step
<1>13. Linked(P, Ops)
  <2>1. ASSUME NEW i \in 1..Len(P) PROVE Links(P, i) /\ P[i].op \in Ops
    <3>1. i \in {1, 2, 3, 4, 5, 6, 7, 8, 9}
      BY <1>7
    <3> QED BY <1>9, <1>10, <1>11, <1>12, <3>1
  <2> QED BY <1>4, <2>1 DEF Linked
<1>14. Linked(ExportDB, Ops)
  BY ExportLinked, LinkedMore
<1>15. ExportSnapshot = Within("snapshot", Steps({}, <<"check snapshot", "lock snapshot">>) \o ExportDB \o P)
  BY DEF ExportSnapshot, P, ops
<1>16. Linked(Steps({}, <<"check snapshot", "lock snapshot">>) \o ExportDB, Ops)
  BY <1>1, <1>14, LinkedJoined
<1>17. Linked(Steps({}, <<"check snapshot", "lock snapshot">>) \o ExportDB \o P, Ops)
  BY <1>13, <1>16, LinkedJoined
<1> QED BY <1>15, <1>17, LinkedWithin DEF Locks

LEMMA ProgramLinked ==
  ASSUME NEW n \in DOMAIN Program
  PROVE  Linked(Program[n], Ops) /\ (n # "snapshot" => Linked(Program[n], Common))
<1>1. \A a, b \in Bare : <<a, b>> \in Seq(Bare) /\ <<a>> \in Seq(Bare)
  OBVIOUS
<1>2. {"kill all", "down"} \subseteq Bare
  BY DEF Bare, Ops, Plain, Copying
<1>3. /\ Linked(Steps({}, <<"kill all">>), Common) /\ Linked(Steps({}, <<"down">>), Common)
      /\ Linked(Steps({}, <<"down", "kill all">>), Common)
  <2>1. <<"kill all">> \in Seq(Bare) /\ <<"down">> \in Seq(Bare) /\ <<"down", "kill all">> \in Seq(Bare)
    BY <1>1, <1>2
  <2> QED BY <2>1, LinkedBare
<1>4. Linked(ImportDB("load latest"), Common)
  BY CommonLinked DEF Loads
<1>5. Linked(NodeStop \o NodeStart, Common)
  BY CommonLinked, LinkedJoined, Zenon
<1>6. Linked(Steps({}, <<"down", "kill all">>) \o NodeStop \o Steps({}, <<"down">>) \o DbInit
               \o DownloadSnapshot \o NodeStart, Common)
  BY <1>3, CommonLinked, LinkedJoined, Zenon
<1>7. n \in {"start", "restart", "stop", "kill", "dbstart", "dbstop", "export", "import",
              "snapshot", "setup"}
  BY DEF Program
<1>8. /\ Program["start"] = NodeStart /\ Program["restart"] = NodeStop \o NodeStart
      /\ Program["stop"] = NodeStop /\ Program["kill"] = Steps({}, <<"kill all">>)
      /\ Program["dbstart"] = DbStart /\ Program["dbstop"] = Steps({}, <<"down">>)
      /\ Program["export"] = ExportDB /\ Program["import"] = ImportDB("load latest")
      /\ Program["snapshot"] = ExportSnapshot
      /\ Program["setup"] = Steps({}, <<"down", "kill all">>) \o NodeStop \o Steps({}, <<"down">>)
                            \o DbInit \o DownloadSnapshot \o NodeStart
  BY DEF Program
<1>9. /\ Linked(Program["start"], Common) /\ Linked(Program["restart"], Common)
      /\ Linked(Program["stop"], Common) /\ Linked(Program["kill"], Common)
      /\ Linked(Program["dbstart"], Common) /\ Linked(Program["dbstop"], Common)
      /\ Linked(Program["export"], Common) /\ Linked(Program["import"], Common)
      /\ Linked(Program["setup"], Common) /\ Linked(Program["snapshot"], Ops)
  BY <1>3, <1>4, <1>5, <1>6, <1>8, CommonLinked, ExportLinked, SnapshotLinked, Zenon
<1>10. n # "snapshot" => Linked(Program[n], Common)
  BY <1>7, <1>9, Zenon
<1>11. n = "snapshot" => Linked(Program[n], Ops)
  BY <1>9, Zenon
<1> QED BY <1>10, <1>11, LinkedMore

-----------------------------------------------------------------------------
(* The invariant about the files                                            *)

\* The operations of the step behind, the one before it and the one ahead
Behind(k) == IF 1 <= k.at - 1 THEN Program[k.name][k.at - 1].op ELSE "begin"
Before(k) == IF 1 <= k.at - 2 THEN Program[k.name][k.at - 2].op ELSE "begin"
Ahead(k) == IF k.at + 1 <= Len(Program[k.name]) THEN Program[k.name][k.at + 1].op ELSE "end"

Apart == ~Connected("snap")
Verified(x) == x # None /\ x.accounts = x.blocks /\ x.blocks % R = 0

(* The node that a command alone waits for has the copy for itself, and when *)
(* its exit says so, has verified it.                                        *)
Verifies(k) ==
  /\ k.verifying /\ k.pid \in Pids
  /\ node[k.pid].on = "snap" /\ ~node[k.pid].stopping /\ node[k.pid].code # "signal"
  /\ node[k.pid].code = "ok" => Verified(db.snap)
  /\ \A q \in Pids : Alive(q) /\ node[q].on = "snap" => q = k.pid

(* What a command that nothing has disturbed knows of the copy.              *)
Knows(k) ==
  /\ ~k.rebuilt
  /\ Op(k) \in {"vacuum", "create snap", "copy", "height", "dump"} => server
  /\ Op(k) \in Copying \/ (Op(k) = "check node" /\ Ahead(k) = "spawn verifying") => Apart
  /\ Op(k) = "create snap" /\ Ahead(k) = "copy" => db.main # None
  /\ Op(k) \in {"copy", "height"} => db.main # None /\ db.snap # None
  /\ Op(k) = "height" => db.snap.blocks = db.main.blocks
  /\ Op(k) = "dump" => db.snap # None /\ db.snap.blocks = k.height
  /\ Op(k) = "await" /\ Behind(k) = "spawn verifying" => Verifies(k)
  /\ Op(k) = "dump snap" => Verified(db.snap)

NodesInv ==
  \A p \in Pids : (node[p].verifying => node[p].on = "snap") /\ (Alive(p) => node[p].code = None)
CleanInv ==
  \A c \in Shells : Active(c) /\ cmd[c].clean =>
    (\A d \in Shells : Active(d) => d = c) /\ Knows(cmd[c])
FilesInv == IInv /\ NodesInv /\ CleanInv /\ FilesAreWhole

-----------------------------------------------------------------------------
(* How a command comes to know                                              *)

\* What a step says of those around it
Came(k) ==
  /\ Op(k) = "vacuum" => Behind(k) = "drop snap"
  /\ Op(k) = "create snap" => Behind(k) = "vacuum" \/ (Behind(k) = "drop snap" /\ Ahead(k) = "load snap")
  /\ Op(k) = "copy" => Behind(k) = "create snap"
  /\ Op(k) = "height" => Behind(k) = "copy"
  /\ Op(k) = "dump" => Behind(k) = "height"
  /\ Op(k) = "load snap" => Behind(k) = "create snap"
  /\ Op(k) = "check node" /\ Ahead(k) = "spawn verifying" => Behind(k) = "load snap"
  /\ Op(k) = "spawn verifying" => Behind(k) = "check node" /\ k.name = "snapshot"
  /\ Op(k) = "await" /\ Behind(k) = "spawn verifying" => k.name = "snapshot"
  /\ Op(k) = "dump snap" => Behind(k) = "await" /\ Before(k) = "spawn verifying"

LEMMA AtCame ==
  ASSUME NEW k \in Command, k.name # None, k.at \in 1..Len(Program[k.name])
  PROVE  Came(k)
<1> DEFINE P == Program[k.name]
           i == k.at
<1>1. k.name \in DOMAIN Program
  BY DEF Command
<1>2. Linked(P, Ops) /\ (k.name # "snapshot" => Linked(P, Common))
  BY <1>1, ProgramLinked
<1>3. i \in 1..Len(P) /\ Len(P) \in Nat /\ i \in Nat
  BY <1>2 DEF Linked
<1>4. /\ Op(k) = P[i].op
      /\ Behind(k) = IF 1 <= i - 1 THEN P[i - 1].op ELSE "begin"
      /\ Before(k) = IF 1 <= i - 2 THEN P[i - 2].op ELSE "begin"
      /\ Ahead(k) = IF i + 1 <= Len(P) THEN P[i + 1].op ELSE "end"
  BY DEF Op, Behind, Before, Ahead
<1> HIDE DEF P, i
<1>5. Links(P, i) /\ (i + 1 <= Len(P) => Links(P, i + 1))
  BY <1>3, <1>2 DEF Linked
<1>6. /\ Op(k) = "vacuum" => Behind(k) = "drop snap"
      /\ Op(k) = "copy" => Behind(k) = "create snap"
      /\ Op(k) = "height" => Behind(k) = "copy"
      /\ Op(k) = "dump" => Behind(k) = "height"
      /\ Op(k) = "load snap" => Behind(k) = "create snap"
  BY <1>4, <1>5 DEF Links
<1>7. Op(k) = "create snap" => Behind(k) = "vacuum" \/ (Behind(k) = "drop snap" /\ Ahead(k) = "load snap")
  BY <1>4, <1>5 DEF Links
<1>8. (1 <= i - 2 => 1 <= i - 1) /\ (i + 1) - 2 = i - 1
  BY <1>3
<1>9. /\ Op(k) = "spawn verifying" => Behind(k) = "check node"
      /\ Op(k) = "dump snap" => Behind(k) = "await" /\ Before(k) = "spawn verifying"
  BY <1>4, <1>5, <1>8 DEF Links
<1>10. Op(k) = "check node" /\ Ahead(k) = "spawn verifying" => Behind(k) = "load snap"
  <2> SUFFICES ASSUME Ahead(k) = "spawn verifying" PROVE Behind(k) = "load snap"
    OBVIOUS
  <2>1. i + 1 <= Len(P) /\ P[i + 1].op = "spawn verifying"
    BY <1>4
  <2>2. Links(P, i + 1)
    BY <1>5, <2>1
  <2>3. 1 <= (i + 1) - 2 /\ P[(i + 1) - 2].op = "load snap"
    BY <2>1, <2>2 DEF Links
  <2> QED BY <1>4, <1>8, <2>3
<1>11. 1 <= i - 1 => i - 1 \in 1..Len(P)
  <2>1. \A n \in Nat : \A j \in 1..n : 1 <= j - 1 => j - 1 \in 1..n
    OBVIOUS
  <2> QED BY <1>3, <2>1, Zenon
<1>12. /\ Op(k) = "spawn verifying" => k.name = "snapshot"
       /\ Behind(k) = "spawn verifying" => k.name = "snapshot"
  <2> SUFFICES ASSUME k.name # "snapshot" PROVE Op(k) # "spawn verifying" /\ Behind(k) # "spawn verifying"
    OBVIOUS
  <2>1. \A j \in 1..Len(P) : P[j].op \in Common
    BY <1>2 DEF Linked
  <2>2. \A op \in Common : op # "spawn verifying"
    BY DEF Common
  <2> QED BY <1>3, <1>4, <1>11, <2>1, <2>2
<1> QED BY <1>6, <1>7, <1>9, <1>10, <1>12 DEF Came

\* The command that has gone one step further, to what the step ahead was
Stepped(k, Y) ==
  Y.name # None =>
    /\ Y.name = k.name /\ Y.at \in 1..Len(Program[Y.name])
    /\ Y.pid = k.pid /\ Y.verifying = k.verifying /\ Y.rebuilt = k.rebuilt
    /\ Y.height = k.height /\ Y.clean = k.clean
    /\ Behind(Y) = Op(k) /\ Before(Y) = Behind(k) /\ Ahead(k) = Op(Y)
    /\ Came(Y)

LEMMA OnwardStepped ==
  ASSUME IInv, NEW c \in Shells, Active(c)
  PROVE  Onward(cmd[c], 1) \in Command /\ Stepped(cmd[c], Onward(cmd[c], 1))
<1> DEFINE k == cmd[c]
           Y == Onward(k, 1)
           P == Program[k.name]
<1>1. k \in Command /\ Stands(k) /\ Y \in Command /\ Follows(k, Y) /\ k.name # None
  BY DoingFollows DEF Active
<1>2. k.at \in Nat /\ 1 <= k.at /\ Len(P) \in Nat
  BY <1>1, ProgramShape DEF Stands, Command, Shape
<1>3. CASE k.at + 1 > Len(P)
  <2>1. Y.name = None
    BY <1>3 DEF Onward, Idle
  <2> QED BY <1>1, <2>1 DEF Stepped
<1>4. CASE ~(k.at + 1 > Len(P))
  <2>1. Y = [k EXCEPT !.at = k.at + 1]
    BY <1>4 DEF Onward
  <2> HIDE DEF Y, k
  <2>2. /\ Y.name = k.name /\ Y.at = k.at + 1 /\ Y.pid = k.pid /\ Y.verifying = k.verifying
        /\ Y.rebuilt = k.rebuilt /\ Y.height = k.height /\ Y.clean = k.clean
    BY <1>1, <2>1 DEF Command
  <2>3. Y.name # None /\ Y.at \in 1..Len(Program[Y.name])
    BY <1>1, <2>2 DEF Follows
  <2>4. Came(Y)
    BY <1>1, <2>3, AtCame
  <2>5. /\ Y.at - 1 = k.at /\ Y.at - 2 = k.at - 1 /\ 1 <= Y.at - 1
        /\ k.at + 1 <= Len(P)
    BY <1>2, <1>4, <2>2
  <2>6. Behind(Y) = Op(k) /\ Before(Y) = Behind(k) /\ Ahead(k) = Op(Y)
    BY <2>2, <2>5 DEF Behind, Before, Ahead, Op
  <2>7. Stepped(k, Y)
    BY <2>2, <2>3, <2>4, <2>6 DEF Stepped
  <2> QED BY <1>1, <2>7 DEF k, Y
<1> QED BY <1>3, <1>4

\* A step at which nothing is known, because it follows none that gives knowledge
Leads == {"drop snap", "vacuum", "create snap", "copy", "height", "load snap", "check node",
          "spawn verifying", "await"}
Ignorant(k) ==
  /\ Op(k) \notin Copying
  /\ ~(Op(k) = "check node" /\ Ahead(k) = "spawn verifying")
  /\ ~(Op(k) = "await" /\ Behind(k) = "spawn verifying")

LEMMA IgnorantCame ==
  ASSUME NEW k, Came(k), Behind(k) \notin Leads
  PROVE  Ignorant(k)
BY DEF Came, Leads, Ignorant, Copying

LEMMA IgnorantKnows ==
  ASSUME NEW k, Ignorant(k), ~k.rebuilt
  PROVE  Knows(k)'
BY DEF Ignorant, Knows, Copying, Op, Ahead, Behind

-----------------------------------------------------------------------------
(* The commands go on *)

LEMMA NoneIsNothing ==
  /\ None \notin Whole /\ None # "ok" /\ None # "signal"
  /\ Whole \subseteq [blocks : Nat, accounts : Nat]
<1>1. Whole \subseteq [blocks : Nat, accounts : Nat]
  BY NodeControlAssumption DEF Whole, Databases
<1> QED BY <1>1, NodeControlAssumption

(* Only the command that goes on has something to know.                     *)
LEMMA CleanStep ==
  ASSUME IInv, CleanInv, NEW c \in Shells, Active(c), NEW X \in Command,
         cmd' = [cmd EXCEPT ![c] = X],
         X.name # None /\ X.clean => cmd[c].clean /\ Knows(X)'
  PROVE  CleanInv'
<1>1. cmd'[c] = X /\ \A d \in Shells : d # c => cmd'[d] = cmd[d]
  BY DEF IInv, TypeInv
<1> SUFFICES ASSUME NEW d \in Shells, Active(d)', cmd'[d].clean
             PROVE  (\A e \in Shells : Active(e)' => e = d) /\ Knows(cmd[d])'
  BY DEF CleanInv
<1>2. d = c
  <2> SUFFICES ASSUME d # c PROVE FALSE
    OBVIOUS
  <2>1. cmd'[d] = cmd[d]
    BY <1>1
  <2>2. Active(d) /\ cmd[d].clean
    BY <2>1 DEF Active
  <2> QED BY <2>2 DEF CleanInv
<1>3. X.name # None /\ X.clean
  BY <1>1, <1>2 DEF Active
<1>4. \A e \in Shells : Active(e) => e = c
  BY <1>3 DEF CleanInv
<1>5. \A e \in Shells : Active(e)' => e = d
  BY <1>1, <1>2, <1>4 DEF Active
<1>6. Knows(cmd[d])'
  <2>1. cmd'[d] = X
    BY <1>1, <1>2
  <2> QED BY <1>3, <2>1 DEF Knows, Op, Behind, Ahead, Verifies
<1> QED BY <1>5, <1>6

LEMMA IgnorantStep ==
  ASSUME IInv, CleanInv, NEW c \in Shells, Active(c), NEW X \in Command,
         cmd' = [cmd EXCEPT ![c] = X],
         X.name # None /\ X.clean => cmd[c].clean /\ Ignorant(X) /\ X.rebuilt = cmd[c].rebuilt
  PROVE  CleanInv'
<1>1. ASSUME X.name # None, X.clean PROVE cmd[c].clean /\ Knows(X)'
  <2>1. ~cmd[c].rebuilt
    BY <1>1 DEF CleanInv, Knows
  <2> QED BY <1>1, <2>1, IgnorantKnows
<1> QED BY <1>1, CleanStep

LEMMA IdleStep ==
  ASSUME IInv, CleanInv, NEW c \in Shells, Active(c), cmd' = [cmd EXCEPT ![c] = Idle]
  PROVE  CleanInv'
<1>1. Idle \in Command /\ Idle.name = None
  BY IdleRests DEF Idle
<1> QED BY <1>1, IgnorantStep

(* A step that gives no knowledge, with what else it does to the command.   *)
LEMMA NoLead ==
  ASSUME IInv, CleanInv, NEW c \in Shells, Active(c), Op(cmd[c]) \notin Leads,
         NEW Y \in Command, Y = Onward(cmd[c], 1), NEW X \in Command,
         X.name = Y.name, X.at = Y.at, X.rebuilt = Y.rebuilt, X.clean => Y.clean,
         cmd' = [cmd EXCEPT ![c] = X]
  PROVE  CleanInv'
<1>1. Stepped(cmd[c], Y)
  BY OnwardStepped
<1>2. ASSUME X.name # None, X.clean
      PROVE  cmd[c].clean /\ Ignorant(X) /\ X.rebuilt = cmd[c].rebuilt
  <2>1. /\ Y.name # None /\ Y.clean = cmd[c].clean /\ Y.rebuilt = cmd[c].rebuilt
        /\ Behind(Y) \notin Leads /\ Came(Y)
    BY <1>1, <1>2 DEF Stepped
  <2>2. Ignorant(Y)
    BY <2>1, IgnorantCame
  <2>3. Ignorant(X)
    BY <2>2 DEF Ignorant, Op, Behind, Ahead
  <2> QED BY <1>2, <2>1, <2>3
<1> QED BY <1>2, IgnorantStep

LEMMA DoneClean ==
  ASSUME IInv, CleanInv, NEW c \in Shells, Active(c), Op(cmd[c]) \notin Leads, Done(c)
  PROVE  CleanInv'
<1>1. PICK Y \in Command : Y = Onward(cmd[c], 1)
  BY OnwardStepped
<1>2. cmd' = [cmd EXCEPT ![c] = Y]
  BY <1>1 DEF Done, Skip
<1> QED BY <1>1, <1>2, NoLead

LEMMA ThrowsClean ==
  ASSUME IInv, CleanInv, NEW c \in Shells, Active(c), Throws(c)
  PROVE  CleanInv'
BY IdleStep DEF Throws

(* An early return comes out behind a step that gives no knowledge.         *)
LEMMA LandingBehind ==
  ASSUME NEW P, Shape(P), NEW i \in 1..Len(P), NEW n, n # 1, Reaches(P[i].op, n), i + n <= Len(P)
  PROVE  1 <= (i + n) - 1 /\ P[(i + n) - 1].op \in {"unlock", "up", "free backup"}
<1>1. Len(P) \in Nat /\ i \in Nat /\ 1 <= i
  BY DEF Shape
<1>2. Fits(P, i)
  BY DEF Shape
<1>3. 1 <= (i + n) - 1
  <2>1. n = 2 \/ n = 4 \/ n = 8
    BY Zenon DEF Reaches
  <2> QED BY <1>1, <2>1
<1>4. CASE n = 2 /\ P[i].op = "signal"
  <2>1. (i + n) - 1 = i + 1
    BY <1>4
  <2>2. P[i + 1].op = "unlock"
    BY <1>2, <1>4 DEF Fits, Plain, Spawning
  <2> QED BY <1>3, <2>1, <2>2
<1>5. CASE n = 4 /\ P[i].op = "check server"
  <2>1. (i + n) - 1 = i + 3
    <3>1. n = 4
      BY <1>5, Zenon
    <3> QED BY <3>1
  <2>2. P[i + 3].op = "up"
    BY <1>2, <1>5 DEF Fits, Plain, Spawning
  <2> QED BY <1>3, <2>1, <2>2
<1>6. CASE n = 8 /\ P[i].op = "check import"
  <2>1. (i + n) - 1 = i + 7
    <3>1. n = 8
      BY <1>6, Zenon
    <3> QED BY <3>1
  <2>2. P[i + 7].op = "free backup"
    BY <1>2, <1>6 DEF Fits, Plain, Spawning
  <2> QED BY <1>3, <2>1, <2>2
<1> QED BY <1>4, <1>5, <1>6, Zenon DEF Reaches

LEMMA SkipClean ==
  ASSUME IInv, CleanInv, NEW c \in Shells, Active(c), NEW n, n # 1, Reaches(Op(cmd[c]), n),
         Skip(c, n)
  PROVE  CleanInv'
<1> DEFINE P == Program[cmd[c].name]
<1>1. cmd[c] \in Command /\ cmd[c].name # None /\ Stands(cmd[c])
  BY DEF IInv, TypeInv, CommandInv, Active
<1>2. /\ cmd[c].at \in 1..Len(P) /\ Len(P) \in Nat /\ Shape(P) /\ Op(cmd[c]) = P[cmd[c].at].op
  BY <1>1, ProgramShape DEF Command, Stands, Shape, Op
<1>3. n \in Nat
  <2>1. n = 2 \/ n = 4 \/ n = 8
    BY Zenon DEF Reaches
  <2> QED BY <2>1
<1>4. PICK X \in Command : X = Onward(cmd[c], n) /\ Rests(X) /\ cmd' = [cmd EXCEPT ![c] = X]
  BY <1>1, OnwardRests DEF Skip
<1>5. CASE cmd[c].at + n > Len(P)
  <2>1. cmd' = [cmd EXCEPT ![c] = Idle]
    BY <1>4, <1>5 DEF Onward
  <2> QED BY <2>1, IdleStep
<1>6. CASE ~(cmd[c].at + n > Len(P))
  <2>1. X = [cmd[c] EXCEPT !.at = cmd[c].at + n]
    BY <1>4, <1>6 DEF Onward
  <2>2. /\ X.name = cmd[c].name /\ X.at = cmd[c].at + n /\ X.rebuilt = cmd[c].rebuilt
        /\ X.clean = cmd[c].clean
    BY <1>1, <2>1 DEF Command
  <2>3. cmd[c].at + n <= Len(P)
    BY <1>2, <1>3, <1>6
  <2> HIDE DEF P
  <2>4. 1 <= (cmd[c].at + n) - 1 /\ P[(cmd[c].at + n) - 1].op \in {"unlock", "up", "free backup"}
    BY <1>2, <2>3, LandingBehind
  <2>5. Behind(X) \in {"unlock", "up", "free backup"}
    BY <2>2, <2>4 DEF Behind, P
  <2>6. Came(X)
    BY <1>1, <1>4, <2>2, AtCame DEF Rests
  <2>7. Ignorant(X)
    BY <2>5, <2>6, IgnorantCame DEF Leads
  <2> QED BY <1>4, <2>2, <2>7, IgnorantStep
<1> QED BY <1>5, <1>6

LEMMA FilesSame == ASSUME FilesAreWhole, UNCHANGED files PROVE FilesAreWhole'
BY DEF FilesAreWhole

LEMMA NodesSame == ASSUME NodesInv, UNCHANGED node PROVE NodesInv'
BY DEF NodesInv, Alive

\* Processes that are told to end
LEMMA NodesTold ==
  ASSUME IInv, NodesInv, NEW S \in SUBSET Pids,
         node' = [p \in Pids |-> IF p \in S THEN [node[p] EXCEPT !.stopping = TRUE] ELSE node[p]]
  PROVE  NodesInv'
<1> SUFFICES ASSUME NEW p \in Pids
             PROVE  /\ node'[p].verifying => node'[p].on = "snap"
                    /\ Alive(p)' => node'[p].code = None
  BY DEF NodesInv
<1>1. node[p] \in Node
  BY DEF IInv, TypeInv
<1>2. /\ node'[p].verifying = node[p].verifying /\ node'[p].on = node[p].on
      /\ node'[p].phase = node[p].phase /\ node'[p].code = node[p].code
  BY <1>1 DEF Node
<1> QED BY <1>2 DEF NodesInv, Alive

LEMMA ToldOne ==
  ASSUME IInv, NodesInv, NEW p \in Pids, node' = [node EXCEPT ![p].stopping = TRUE]
  PROVE  NodesInv'
<1>1. node \in [Pids -> Node]
  BY DEF IInv, TypeInv
<1>2. node' = [q \in Pids |-> IF q \in {p} THEN [node[q] EXCEPT !.stopping = TRUE] ELSE node[q]]
  BY <1>1 DEF Node
<1> QED BY <1>2, NodesTold

-----------------------------------------------------------------------------
(* The steps that give no knowledge                                         *)

LEMMA EndClean ==
  ASSUME IInv, CleanInv, NEW c \in Shells, NEW op, Doing(c, op), op \notin Leads,
         Done(c) \/ Throws(c)
  PROVE  CleanInv'
<1>1. Active(c) /\ Op(cmd[c]) \notin Leads
  BY DoingOp
<1> QED BY <1>1, DoneClean, ThrowsClean

LEMMA DeliversClean ==
  ASSUME IInv, CleanInv, NEW c \in Shells, NEW op, Doing(c, op), op \notin Leads,
         NEW x, NEW y, Delivers(c, x, y)
  PROVE  CleanInv'
<1>1. Active(c) /\ Op(cmd[c]) \notin Leads
  BY DoingOp
<1>2. CASE Done(c)
  BY <1>1, <1>2, DoneClean
<1>3. CASE cmd' = [cmd EXCEPT ![c] = [Onward(cmd[c], 1) EXCEPT !.clean = FALSE]]
  <2>1. PICK Y \in Command : Y = Onward(cmd[c], 1)
    BY <1>1, OnwardStepped
  <2>2. PICK X \in Command : /\ X = [Y EXCEPT !.clean = FALSE] /\ X.name = Y.name /\ X.at = Y.at
                             /\ X.rebuilt = Y.rebuilt /\ ~X.clean
    <3>1. [Y EXCEPT !.clean = FALSE] \in Command
      BY DEF Command
    <3> QED BY <3>1 DEF Command
  <2>3. cmd' = [cmd EXCEPT ![c] = X]
    BY <1>3, <2>1, <2>2
  <2> QED BY <1>1, <2>1, <2>2, <2>3, NoLead
<1> QED BY <1>2, <1>3 DEF Delivers

LEMMA PlainClean ==
  ASSUME IInv, CleanInv, NEW c \in Shells,
         \/ Check(c, "check backup", "backup") \/ Check(c, "check snapshot", "snapshot")
         \/ Lock(c, "lock backup", "backup") \/ Lock(c, "lock snapshot", "snapshot")
         \/ Free(c, "free backup", "backup") \/ Free(c, "free snapshot", "snapshot")
         \/ Unlock(c) \/ KillAll(c) \/ Switch(c, "up", TRUE) \/ Switch(c, "down", FALSE)
         \/ Wipe(c) \/ Drop(c, "drop main", "main") \/ Create(c, "create main", "main")
         \/ Download(c)
  PROVE  CleanInv'
<1> DEFINE Nothing == {"check backup", "check snapshot", "lock backup", "lock snapshot",
                       "free backup", "free snapshot", "unlock", "kill all", "up", "down", "wipe",
                       "drop main", "create main", "download"}
<1>1. Nothing \cap Leads = {}
  BY DEF Leads
<1>2. \E op \in Nothing : Doing(c, op) /\ (Done(c) \/ Throws(c))
  BY DEF Check, Lock, Free, Unlock, KillAll, Switch, Wipe, Drop, Create, Download, DoneOr
<1> HIDE DEF Nothing
<1> QED BY <1>1, <1>2, EndClean

LEMMA ImportClean ==
  ASSUME IInv, CleanInv, NEW c \in Shells, CheckImport(c)
  PROVE  CleanInv'
<1>1. Doing(c, "check import") /\ Active(c) /\ Op(cmd[c]) = "check import" /\ "check import" \notin Leads
  BY DoingOp DEF CheckImport, Leads
<1>2. Len(ImportDB("load latest")) = 8
  BY ImportShape DEF Loads
<1>3. Done(c) \/ Skip(c, 8)
  BY <1>2 DEF CheckImport
<1>4. 8 # 1
  OBVIOUS
<1>5. Reaches(Op(cmd[c]), 8)
  BY <1>1, Zenon DEF Reaches
<1> QED BY <1>1, <1>3, <1>4, <1>5, EndClean, SkipClean

LEMMA SignalClean ==
  ASSUME IInv, CleanInv, NEW c \in Shells, Signal(c)
  PROVE  CleanInv'
<1>1. Doing(c, "signal") /\ Active(c) /\ Op(cmd[c]) = "signal" /\ "signal" \notin Leads
  BY DoingOp DEF Signal, Leads
<1>2. Done(c) \/ Skip(c, 2)
  BY DEF Signal
<1>3. 2 # 1
  OBVIOUS
<1>4. Reaches(Op(cmd[c]), 2)
  BY <1>1, Zenon DEF Reaches
<1> QED BY <1>1, <1>2, <1>3, <1>4, EndClean, SkipClean

LEMMA ServerClean ==
  ASSUME IInv, CleanInv, NEW c \in Shells, CheckServer(c)
  PROVE  CleanInv'
<1>1. /\ Doing(c, "check server") /\ Active(c) /\ Op(cmd[c]) = "check server"
      /\ "check server" \notin Leads
  BY DoingOp DEF CheckServer, Leads
<1>2. Done(c) \/ Skip(c, 4)
  BY DbStartShape DEF CheckServer, Done
<1>3. 4 # 1
  OBVIOUS
<1>4. Reaches(Op(cmd[c]), 4)
  BY <1>1, Zenon DEF Reaches
<1> QED BY <1>1, <1>2, <1>3, <1>4, EndClean, SkipClean

LEMMA MainClean ==
  ASSUME IInv, CleanInv, NEW c \in Shells, NEW file, NEW op \in {"load latest", "load fetched"},
         Load(c, op, "main", file)
  PROVE  CleanInv'
<1>1. Doing(c, op) /\ op \notin Leads
  BY DEF Load, Leads
<1>2. Throws(c) \/ \E y : Delivers(c, file, y)
  BY DEF Load
<1> QED BY <1>1, <1>2, EndClean, DeliversClean

LEMMA DumpClean ==
  ASSUME IInv, CleanInv, NEW c \in Shells, Dump(c) \/ DumpSnap(c)
  PROVE  CleanInv'
<1>1. "dump" \notin Leads /\ "dump snap" \notin Leads
  BY DEF Leads
<1>2. CASE Dump(c)
  <2>1. Doing(c, "dump") /\ \E y : Delivers(c, Content("snap"), y)
    BY <1>2 DEF Dump
  <2> QED BY <1>1, <2>1, DeliversClean
<1>3. CASE DumpSnap(c)
  <2>1. Doing(c, "dump snap") /\ (Throws(c) \/ \E y : Delivers(c, db.snap, y))
    BY <1>3 DEF DumpSnap
  <2> QED BY <1>1, <2>1, EndClean, DeliversClean
<1> QED BY <1>2, <1>3

\* A command that is known to be disturbed
LEMMA RebuildClean ==
  ASSUME IInv, CleanInv, NEW c \in Shells, Rebuild(c)
  PROVE  CleanInv'
<1>1. Active(c) /\ Op(cmd[c]) = "await" /\ Stands(cmd[c])
  BY Waiting DEF Rebuild, IInv, CommandInv
<1>2. cmd[c] \in Command /\ cmd[c].at - 1 \in Nat
  BY <1>1, ProgramShape DEF IInv, TypeInv, Stands, Active, Command, Shape
<1>3. cmd' = [cmd EXCEPT ![c] = [cmd[c] EXCEPT !.at = cmd[c].at - 1, !.rebuilt = TRUE, !.clean = FALSE]]
  BY DEF Rebuild, IInv, TypeInv, Command
<1> DEFINE i == cmd[c].at - 1
<1> HIDE DEF i
<1>4. PICK X \in Command : X = [cmd[c] EXCEPT !.at = i, !.rebuilt = TRUE, !.clean = FALSE] /\ ~X.clean
  <2>1. [cmd[c] EXCEPT !.at = i, !.rebuilt = TRUE, !.clean = FALSE] \in Command
    BY <1>2 DEF Command, i
  <2> QED BY <1>2, <2>1 DEF Command
<1>5. cmd' = [cmd EXCEPT ![c] = X]
  BY <1>3, <1>4 DEF i
<1> QED BY <1>1, <1>4, <1>5, IgnorantStep

-----------------------------------------------------------------------------
(* The steps that give knowledge                                            *)

\* What a command that has gone one step further, undisturbed, knew
Knew(k, Y) ==
  /\ k.clean /\ Knows(k) /\ ~k.rebuilt /\ ~Y.rebuilt
  /\ Y.pid = k.pid /\ Y.verifying = k.verifying /\ Y.height = k.height
  /\ Behind(Y) = Op(k) /\ Before(Y) = Behind(k) /\ Ahead(k) = Op(Y)
  /\ Came(Y)

LEMMA StepKnew ==
  ASSUME IInv, CleanInv, NEW c \in Shells, Active(c), NEW Y \in Command, Y = Onward(cmd[c], 1),
         Y.name # None, Y.clean
  PROVE  Knew(cmd[c], Y)
<1>1. Stepped(cmd[c], Y)
  BY OnwardStepped
<1>2. cmd[c].clean
  BY <1>1 DEF Stepped
<1>3. Knows(cmd[c])
  BY <1>2 DEF CleanInv
<1>4. ~cmd[c].rebuilt
  BY <1>3 DEF Knows
<1> QED BY <1>1, <1>2, <1>3, <1>4 DEF Stepped, Knew

LEMMA DoneKnows ==
  ASSUME IInv, CleanInv, NEW c \in Shells, Active(c), Done(c),
         \A Y \in Command : Knew(cmd[c], Y) => Knows(Y)'
  PROVE  CleanInv'
<1>1. PICK Y \in Command : Y = Onward(cmd[c], 1) /\ cmd' = [cmd EXCEPT ![c] = Y]
  BY OnwardStepped DEF Done, Skip
<1>2. ASSUME Y.name # None, Y.clean PROVE cmd[c].clean /\ Knows(Y)'
  <2>1. Knew(cmd[c], Y)
    BY <1>1, <1>2, StepKnew
  <2> QED BY <2>1 DEF Knew
<1> QED BY <1>1, <1>2, CleanStep

LEMMA ApartSame == ASSUME UNCHANGED node PROVE Apart' = Apart
BY DEF Apart, Connected, Alive

LEMMA DropClean ==
  ASSUME IInv, CleanInv, NEW c \in Shells, Drop(c, "drop snap", "snap")
  PROVE  CleanInv'
<1>1. Active(c) /\ Op(cmd[c]) = "drop snap"
  BY DoingOp DEF Drop
<1>2. CASE Throws(c)
  BY <1>1, <1>2, ThrowsClean
<1>3. CASE server /\ ~Connected("snap") /\ Done(c)
  <2>1. server' /\ Apart'
    BY <1>3, ApartSame DEF Drop, Apart
  <2>2. ASSUME NEW Y \in Command, Knew(cmd[c], Y) PROVE Knows(Y)'
    <3>1. Behind(Y) = "drop snap" /\ Came(Y) /\ ~Y.rebuilt
      BY <1>1, <2>2 DEF Knew
    <3> QED BY <2>1, <3>1 DEF Knows, Came, Copying, Op, Behind, Ahead
  <2> QED BY <1>1, <1>3, <2>2, DoneKnows
<1> QED BY <1>2, <1>3 DEF Drop, DoneOr

LEMMA VacuumClean ==
  ASSUME IInv, CleanInv, NEW c \in Shells, Vacuum(c)
  PROVE  CleanInv'
<1>1. Active(c) /\ Op(cmd[c]) = "vacuum"
  BY DoingOp DEF Vacuum
<1>2. CASE Throws(c)
  BY <1>1, <1>2, ThrowsClean
<1>3. CASE Usable("main") /\ Done(c)
  <2>1. server' /\ db'.main # None
    BY <1>3 DEF Vacuum, store, Usable
  <2>2. ASSUME NEW Y \in Command, Knew(cmd[c], Y) PROVE Knows(Y)'
    <3>1. Behind(Y) = "vacuum" /\ Came(Y) /\ ~Y.rebuilt /\ Knows(cmd[c])
      BY <1>1, <2>2 DEF Knew
    <3>2. Apart'
      BY <1>1, <3>1, ApartSame DEF Knows, Copying, Vacuum
    <3> QED BY <2>1, <3>1, <3>2 DEF Knows, Came, Copying, Op, Behind, Ahead
  <2> QED BY <1>1, <1>3, <2>2, DoneKnows
<1> QED BY <1>2, <1>3 DEF Vacuum, DoneOr

LEMMA CreateClean ==
  ASSUME IInv, CleanInv, NEW c \in Shells, Create(c, "create snap", "snap")
  PROVE  CleanInv'
<1>1. Active(c) /\ Op(cmd[c]) = "create snap"
  BY DoingOp DEF Create
<1>2. CASE Throws(c)
  BY <1>1, <1>2, ThrowsClean
<1>3. CASE server /\ db.snap = None /\ Done(c)
  <2>1. server' /\ db'.main = db.main /\ db'.snap = Empty
    BY <1>3 DEF Create, IInv, TypeInv
  <2>2. db'.snap # None
    BY <2>1, WholeSets, NoneIsNothing
  <2>3. ASSUME NEW Y \in Command, Knew(cmd[c], Y) PROVE Knows(Y)'
    <3>1. /\ Behind(Y) = "create snap" /\ Came(Y) /\ ~Y.rebuilt /\ Knows(cmd[c])
          /\ Ahead(cmd[c]) = Op(Y)
      BY <1>1, <2>3 DEF Knew
    <3>2. Apart' /\ (Op(Y) = "copy" => db'.main # None)
      BY <1>1, <2>1, <3>1, ApartSame DEF Knows, Copying, Create
    <3> QED BY <2>1, <2>2, <3>1, <3>2 DEF Knows, Came, Copying, Op, Behind, Ahead
  <2> QED BY <1>1, <1>3, <2>3, DoneKnows
<1> QED BY <1>2, <1>3 DEF Create, DoneOr

\* A fault on the way disturbs the command
LEMMA DeliversKnows ==
  ASSUME IInv, CleanInv, NEW c \in Shells, Active(c), NEW x, NEW y, Delivers(c, x, y),
         y = x => \A Y \in Command : Knew(cmd[c], Y) => Knows(Y)'
  PROVE  CleanInv'
<1>1. CASE y = x /\ Done(c)
  BY <1>1, DoneKnows
<1>2. CASE cmd' = [cmd EXCEPT ![c] = [Onward(cmd[c], 1) EXCEPT !.clean = FALSE]]
  <2>1. PICK Y \in Command : Y = Onward(cmd[c], 1)
    BY OnwardStepped
  <2>2. PICK X \in Command : X = [Y EXCEPT !.clean = FALSE] /\ ~X.clean
    <3>1. [Y EXCEPT !.clean = FALSE] \in Command
      BY DEF Command
    <3> QED BY <3>1 DEF Command
  <2>3. cmd' = [cmd EXCEPT ![c] = X]
    BY <1>2, <2>1, <2>2
  <2> QED BY <2>2, <2>3, IgnorantStep
<1> QED BY <1>1, <1>2 DEF Delivers

LEMMA CopyClean ==
  ASSUME IInv, CleanInv, NEW c \in Shells, Copy(c)
  PROVE  CleanInv'
<1>1. Active(c) /\ Op(cmd[c]) = "copy"
  BY DoingOp DEF Copy
<1>2. UNCHANGED <<server, node>>
  BY DEF Copy
<1>3. ASSUME NEW y, db' = [db EXCEPT !.snap = y], y = db.main, NEW Y \in Command, Knew(cmd[c], Y)
      PROVE  Knows(Y)'
  <2>1. Behind(Y) = "copy" /\ Came(Y) /\ ~Y.rebuilt /\ Knows(cmd[c])
    BY <1>1, <1>3 DEF Knew
  <2>2. server /\ Apart /\ db.main # None
    BY <1>1, <2>1 DEF Knows, Copying
  <2>3. db'.main = db.main /\ db'.snap = db.main
    BY <1>3 DEF IInv, TypeInv
  <2>4. server' /\ Apart' /\ db'.main # None /\ db'.snap # None /\ db'.snap.blocks = db'.main.blocks
    BY <1>2, <2>2, <2>3, ApartSame
  <2> QED BY <2>1, <2>4 DEF Knows, Came, Copying, Op, Behind, Ahead
<1>4. CASE Usable("main") /\ Usable("snap")
  <2>1. PICK y : Delivers(c, db.main, y) /\ db' = [db EXCEPT !.snap = y]
    BY <1>4 DEF Copy
  <2> QED BY <1>1, <1>3, <2>1, DeliversKnows
<1>5. CASE ~(Usable("main") /\ Usable("snap"))
  <2>1. Done(c)
    BY <1>5 DEF Copy
  <2>2. ASSUME NEW Y \in Command, Knew(cmd[c], Y) PROVE FALSE
    <3>1. Knows(cmd[c])
      BY <2>2 DEF Knew
    <3> QED BY <1>1, <1>5, <3>1 DEF Knows, Usable
  <2> QED BY <1>1, <2>1, <2>2, DoneKnows
<1> QED BY <1>4, <1>5

LEMMA HeightClean ==
  ASSUME IInv, CleanInv, NEW c \in Shells, Height(c)
  PROVE  CleanInv'
<1>1. Active(c) /\ Op(cmd[c]) = "height"
  BY DoingOp DEF Height
<1>2. CASE Throws(c)
  BY <1>1, <1>2, ThrowsClean
<1>3. CASE /\ Usable("main")
           /\ cmd' = [cmd EXCEPT ![c] = [Onward(cmd[c], 1) EXCEPT !.height = db.main.blocks]]
  <2>1. PICK Y \in Command : Y = Onward(cmd[c], 1)
    BY <1>1, OnwardStepped
  <2>2. db.main.blocks \in Nat
    BY <1>3, ContentTyped DEF Whole, Databases
  <2>3. PICK X \in Command : /\ X = [Y EXCEPT !.height = db.main.blocks] /\ X.name = Y.name
                             /\ X.at = Y.at /\ X.rebuilt = Y.rebuilt /\ X.clean = Y.clean
                             /\ X.height = db.main.blocks
    <3>1. [Y EXCEPT !.height = db.main.blocks] \in Command
      BY <2>2 DEF Command
    <3> QED BY <3>1 DEF Command
  <2>4. cmd' = [cmd EXCEPT ![c] = X]
    BY <1>3, <2>1, <2>3
  <2>5. ASSUME X.name # None, X.clean PROVE cmd[c].clean /\ Knows(X)'
    <3>1. Knew(cmd[c], Y)
      BY <1>1, <2>1, <2>3, <2>5, StepKnew
    <3>2. cmd[c].clean /\ Behind(Y) = "height" /\ Came(Y) /\ ~Y.rebuilt /\ Knows(cmd[c])
      BY <1>1, <3>1 DEF Knew
    <3>3. Behind(X) = "height" /\ Came(X) /\ ~X.rebuilt
      BY <2>3, <3>2 DEF Came, Op, Behind, Before, Ahead
    <3>4. server /\ Apart /\ db.snap # None /\ db.snap.blocks = db.main.blocks
      BY <1>1, <3>2 DEF Knows, Copying
    <3>5. server' /\ Apart' /\ db'.snap # None /\ db'.snap.blocks = X.height
      BY <2>3, <3>4, ApartSame DEF Height, store
    <3> QED BY <3>2, <3>3, <3>5 DEF Knows, Came, Copying, Op, Behind, Ahead
  <2> QED BY <1>1, <2>4, <2>5, CleanStep
<1> QED BY <1>2, <1>3 DEF Height

LEMMA LoadClean ==
  ASSUME IInv, CleanInv, NEW c \in Shells, NEW file, Load(c, "load snap", "snap", file)
  PROVE  CleanInv'
<1>1. Active(c) /\ Op(cmd[c]) = "load snap"
  BY DoingOp DEF Load
<1>2. CASE Throws(c)
  BY <1>1, <1>2, ThrowsClean
<1>3. ASSUME NEW Y \in Command, Knew(cmd[c], Y) PROVE Knows(Y)'
  <2>1. Behind(Y) = "load snap" /\ Came(Y) /\ ~Y.rebuilt /\ Knows(cmd[c])
    BY <1>1, <1>3 DEF Knew
  <2>2. Apart'
    BY <1>1, <2>1, ApartSame DEF Knows, Copying, Load
  <2> QED BY <2>1, <2>2 DEF Knows, Came, Copying, Op, Behind, Ahead
<1>4. CASE \E y : Delivers(c, file, y)
  BY <1>1, <1>3, <1>4, DeliversKnows
<1> QED BY <1>2, <1>4 DEF Load

LEMMA CheckClean ==
  ASSUME IInv, CleanInv, NEW c \in Shells, CheckNode(c)
  PROVE  CleanInv'
<1>1. Active(c) /\ Op(cmd[c]) = "check node"
  BY DoingOp DEF CheckNode
<1>2. CASE Throws(c)
  BY <1>1, <1>2, ThrowsClean
<1>3. CASE Done(c)
  <2>1. ASSUME NEW Y \in Command, Knew(cmd[c], Y) PROVE Knows(Y)'
    <3>1. /\ Behind(Y) = "check node" /\ Came(Y) /\ ~Y.rebuilt /\ Knows(cmd[c])
          /\ Ahead(cmd[c]) = Op(Y)
      BY <1>1, <2>1 DEF Knew
    <3>2. Op(Y) = "spawn verifying" => Apart'
      BY <1>1, <3>1, ApartSame DEF Knows, CheckNode
    <3> QED BY <3>1, <3>2 DEF Knows, Came, Copying, Op, Behind, Ahead
  <2> QED BY <1>1, <1>3, <2>1, DoneKnows
<1> QED BY <1>2, <1>3 DEF CheckNode, DoneOr

(* A node that is started with -s has the copy for itself.                  *)
LEMMA SpawnClean ==
  ASSUME IInv, CleanInv, NEW c \in Shells, Spawn(c)
  PROVE  CleanInv'
<1> DEFINE v == Doing(c, "spawn verifying") /\ ~cmd[c].rebuilt
<1>1. Active(c) /\ (Op(cmd[c]) = "spawn" \/ Op(cmd[c]) = "spawn verifying")
  BY DoingOp DEF Spawn
<1>2. PICK p \in Pids :
         /\ node' = [node EXCEPT ![p] = [NoNode EXCEPT !.phase = "boot", !.verifying = v,
                                                     !.on = IF v THEN "snap" ELSE "main"]]
         /\ cmd' = [cmd EXCEPT ![c] = [Onward(cmd[c], 1) EXCEPT !.pid = p, !.verifying = v]]
  BY DEF Spawn
<1>3. PICK Y \in Command : Y = Onward(cmd[c], 1)
  BY <1>1, OnwardStepped
<1>4. v \in BOOLEAN /\ (v <=> Op(cmd[c]) = "spawn verifying" /\ ~cmd[c].rebuilt)
  BY <1>1 DEF Doing, Op, Commands
<1> HIDE DEF v
<1>5. PICK X \in Command : /\ X = [Y EXCEPT !.pid = p, !.verifying = v] /\ X.name = Y.name
                           /\ X.at = Y.at /\ X.rebuilt = Y.rebuilt /\ X.clean = Y.clean
                           /\ X.pid = p /\ X.verifying = v
  <2>1. [Y EXCEPT !.pid = p, !.verifying = v] \in Command
    BY <1>4 DEF Command
  <2> QED BY <2>1 DEF Command
<1>6. cmd' = [cmd EXCEPT ![c] = X]
  BY <1>2, <1>3, <1>5
<1>7. CASE Op(cmd[c]) = "spawn"
  <2>1. Op(cmd[c]) \notin Leads
    BY <1>7 DEF Leads
  <2> QED BY <1>1, <1>3, <1>5, <1>6, <2>1, NoLead
<1>8. CASE Op(cmd[c]) = "spawn verifying"
  <2>1. ASSUME X.name # None, X.clean PROVE cmd[c].clean /\ Knows(X)'
    <3>1. Knew(cmd[c], Y)
      BY <1>1, <1>3, <1>5, <2>1, StepKnew
    <3>2. cmd[c].clean /\ Behind(Y) = "spawn verifying" /\ Came(Y) /\ ~Y.rebuilt /\ Knows(cmd[c])
          /\ ~cmd[c].rebuilt
      BY <1>8, <3>1 DEF Knew
    <3>3. Behind(X) = "spawn verifying" /\ Came(X) /\ ~X.rebuilt
      BY <1>5, <3>2 DEF Came, Op, Behind, Before, Ahead
    <3>4. Apart /\ v
      BY <1>4, <1>8, <3>2 DEF Knows, Copying
    <3>5. /\ node'[p].on = "snap" /\ ~node'[p].stopping /\ node'[p].code = None
          /\ \A q \in Pids : q # p => node'[q] = node[q]
      BY <1>2, <3>4 DEF NoNode, IInv, TypeInv
    <3>6. \A q \in Pids : Alive(q)' /\ node'[q].on = "snap" => q = p
      BY <3>4, <3>5 DEF Apart, Connected, Alive
    <3>7. Verifies(X)'
      BY <1>5, <3>4, <3>5, <3>6, NoneIsNothing DEF Verifies
    <3> QED BY <3>2, <3>3, <3>7 DEF Knows, Came, Copying, Op, Behind, Ahead
  <2> QED BY <1>1, <1>6, <2>1, CleanStep
<1> QED BY <1>1, <1>7, <1>8

LEMMA ReadyClean ==
  ASSUME IInv, CleanInv, NEW c \in Shells, SeeReady(c)
  PROVE  CleanInv'
<1>1. Active(c) /\ Op(cmd[c]) = "await" /\ Stands(cmd[c]) /\ cmd[c] \in Command
  BY Waiting DEF SeeReady, IInv, CommandInv, TypeInv
<1>2. CASE Foreground(c)
  <2>1. PICK X \in Command : /\ X = [cmd[c] EXCEPT !.ready = TRUE] /\ X.name = cmd[c].name
                             /\ X.at = cmd[c].at /\ X.rebuilt = cmd[c].rebuilt
                             /\ X.clean = cmd[c].clean /\ X.pid = cmd[c].pid
                             /\ X.verifying = cmd[c].verifying
    <3>1. [cmd[c] EXCEPT !.ready = TRUE] \in Command
      BY <1>1 DEF Command
    <3> QED BY <1>1, <3>1 DEF Command
  <2>2. cmd' = [cmd EXCEPT ![c] = X]
    BY <1>2, <2>1 DEF SeeReady
  <2>3. ASSUME X.name # None, X.clean PROVE cmd[c].clean /\ Knows(X)'
    <3>1. cmd[c].clean /\ Knows(cmd[c]) /\ ~X.rebuilt
      BY <1>1, <2>1, <2>3 DEF CleanInv, Knows
    <3>2. Op(X) = "await" /\ Behind(X) = Behind(cmd[c])
      BY <1>1, <2>1 DEF Op, Behind
    <3>3. Behind(X) = "spawn verifying" => Verifies(cmd[c])
      BY <1>1, <3>1, <3>2 DEF Knows
    <3>4. Behind(X) = "spawn verifying" => Verifies(X)'
      BY <2>1, <3>3 DEF Verifies, SeeReady, store, Alive
    <3> QED BY <3>1, <3>2, <3>4 DEF Knows, Copying, Op, Behind, Ahead
  <2> QED BY <1>1, <2>2, <2>3, CleanStep
<1>3. CASE ~Foreground(c)
  <2>1. Done(c)
    BY <1>3 DEF SeeReady, Done, Skip
  <2>2. Came(cmd[c])
    BY <1>1, AtCame DEF Stands, Active
  <2>3. Behind(cmd[c]) # "spawn verifying"
    BY <1>1, <1>3, <2>2 DEF Came, Foreground
  <2>4. ASSUME NEW Y \in Command, Knew(cmd[c], Y) PROVE Knows(Y)'
    <3>1. Behind(Y) = "await" /\ Before(Y) # "spawn verifying" /\ Came(Y) /\ ~Y.rebuilt
      BY <1>1, <2>3, <2>4 DEF Knew
    <3> QED BY <3>1 DEF Knows, Came, Copying, Op, Behind, Ahead
  <2> QED BY <1>1, <2>1, <2>4, DoneKnows
<1> QED BY <1>2, <1>3

(* The exit of the node says that the copy is verified.                     *)
LEMMA CloseClean ==
  ASSUME IInv, CleanInv, NEW c \in Shells, SeeClose(c)
  PROVE  CleanInv'
<1>1. Active(c) /\ Op(cmd[c]) = "await" /\ cmd[c].pid \in Pids
  BY Waiting DEF SeeClose
<1>2. CASE Throws(c)
  BY <1>1, <1>2, ThrowsClean
<1>3. CASE Accepted(node[cmd[c].pid].code) /\ Done(c)
  <2>1. ASSUME NEW Y \in Command, Knew(cmd[c], Y) PROVE Knows(Y)'
    <3>1. /\ Behind(Y) = "await" /\ Before(Y) = Behind(cmd[c]) /\ Came(Y) /\ ~Y.rebuilt
          /\ Knows(cmd[c])
      BY <1>1, <2>1 DEF Knew
    <3>2. ASSUME Op(Y) = "dump snap" PROVE Verified(db'.snap) /\ Apart'
      <4>1. Verifies(cmd[c])
        BY <1>1, <3>1, <3>2 DEF Came, Knows
      <4>2. node[cmd[c].pid].code = "ok" /\ node[cmd[c].pid].phase = "gone"
        BY <1>3, <4>1 DEF Verifies, Accepted, Resolves, SeeClose, Closed, HasEnded
      <4>3. Verified(db.snap) /\ Apart
        BY <4>1, <4>2 DEF Verifies, Apart, Connected, Alive
      <4> QED BY <4>3, ApartSame DEF SeeClose, store, Verified
    <3> QED BY <3>1, <3>2 DEF Knows, Came, Copying, Op, Behind, Ahead
  <2> QED BY <1>1, <1>3, <2>1, DoneKnows
<1> QED BY <1>2, <1>3 DEF SeeClose, DoneOr

LEMMA CommandClean ==
  ASSUME IInv, CleanInv, NEW c \in Shells, CommandStep(c)
  PROVE  CleanInv'
<1>1. CASE \/ Check(c, "check backup", "backup") \/ Check(c, "check snapshot", "snapshot")
           \/ Lock(c, "lock backup", "backup") \/ Lock(c, "lock snapshot", "snapshot")
           \/ Free(c, "free backup", "backup") \/ Free(c, "free snapshot", "snapshot")
           \/ Unlock(c) \/ KillAll(c) \/ Switch(c, "up", TRUE) \/ Switch(c, "down", FALSE)
           \/ Wipe(c) \/ Drop(c, "drop main", "main") \/ Create(c, "create main", "main")
           \/ Download(c)
  BY <1>1, PlainClean
<1>2. CASE CheckImport(c) \/ Signal(c) \/ CheckServer(c) \/ Rebuild(c)
  BY <1>2, ImportClean, SignalClean, ServerClean, RebuildClean
<1>3. CASE CheckNode(c) \/ Spawn(c) \/ SeeReady(c) \/ SeeClose(c)
  BY <1>3, CheckClean, SpawnClean, ReadyClean, CloseClean
<1>4. CASE \/ Drop(c, "drop snap", "snap") \/ Create(c, "create snap", "snap") \/ Vacuum(c)
           \/ Copy(c) \/ Height(c) \/ Dump(c) \/ DumpSnap(c)
  BY <1>4, DropClean, CreateClean, VacuumClean, CopyClean, HeightClean, DumpClean
<1>5. CASE \/ Load(c, "load latest", "main", latest) \/ Load(c, "load fetched", "main", fetched)
           \/ Load(c, "load snap", "snap", latest)
  BY <1>5, MainClean, LoadClean
<1> QED BY <1>1, <1>2, <1>3, <1>4, <1>5 DEF CommandStep

-----------------------------------------------------------------------------
(* What the commands do to the nodes and the files                          *)

LEMMA CommandNodes ==
  ASSUME IInv, NodesInv, NEW c \in Shells, CommandStep(c)
  PROVE  NodesInv'
<1>1. CASE UNCHANGED node
  BY <1>1, NodesSame
<1>2. ASSUME NEW l, l = Collected, node' = IF l = None THEN node ELSE [node EXCEPT ![l].stopping = TRUE]
      PROVE  NodesInv'
  <2>1. l \in Pids \cup {None}
    BY <1>2, CollectedLock
  <2> QED BY <1>2, <2>1, NodesSame, ToldOne
<1>3. CASE CheckImport(c)
  <2>1. UNCHANGED node \/ node' = IF Collected = None THEN node ELSE [node EXCEPT ![Collected].stopping = TRUE]
    BY <1>3 DEF CheckImport
  <2> QED BY <1>1, <1>2, <2>1
<1>4. CASE Signal(c)
  <2>1. node' = IF Collected = None THEN node ELSE [node EXCEPT ![Collected].stopping = TRUE]
    BY <1>4 DEF Signal
  <2> QED BY <1>2, <2>1
<1>5. CASE KillAll(c)
  <2>1. node' = [p \in Pids |-> IF p \in {q \in Pids : Alive(q)}
                                  THEN [node[p] EXCEPT !.stopping = TRUE] ELSE node[p]]
    BY <1>5 DEF KillAll
  <2> QED BY <2>1, NodesTold
<1>6. CASE Spawn(c)
  <2>1. PICK p \in Pids, v \in BOOLEAN :
           node' = [node EXCEPT ![p] = [NoNode EXCEPT !.phase = "boot", !.verifying = v,
                                                      !.on = IF v THEN "snap" ELSE "main"]]
    <3> DEFINE v == Doing(c, "spawn verifying") /\ ~cmd[c].rebuilt
    <3>1. v \in BOOLEAN
      OBVIOUS
    <3> QED BY <1>6, <3>1 DEF Spawn
  <2> SUFFICES ASSUME NEW q \in Pids
               PROVE  /\ node'[q].verifying => node'[q].on = "snap"
                      /\ Alive(q)' => node'[q].code = None
    BY DEF NodesInv
  <2>2. CASE q = p
    BY <2>1, <2>2 DEF NoNode, IInv, TypeInv
  <2>3. CASE q # p
    <3>1. node'[q] = node[q]
      BY <2>1, <2>3 DEF IInv, TypeInv
    <3> QED BY <3>1 DEF NodesInv, Alive
  <2> QED BY <2>2, <2>3
<1>7. CASE \/ Check(c, "check backup", "backup") \/ Check(c, "check snapshot", "snapshot")
           \/ Lock(c, "lock backup", "backup") \/ Lock(c, "lock snapshot", "snapshot")
           \/ Free(c, "free backup", "backup") \/ Free(c, "free snapshot", "snapshot")
           \/ Unlock(c) \/ CheckNode(c) \/ SeeReady(c) \/ SeeClose(c) \/ Rebuild(c)
           \/ CheckServer(c) \/ Switch(c, "up", TRUE) \/ Switch(c, "down", FALSE) \/ Wipe(c)
  BY <1>1, <1>7 DEF Check, Lock, Free, Unlock, CheckNode, SeeReady, SeeClose, Rebuild, CheckServer,
                    Switch, Wipe
<1>8. CASE \/ Drop(c, "drop main", "main") \/ Drop(c, "drop snap", "snap")
           \/ Create(c, "create main", "main") \/ Create(c, "create snap", "snap")
           \/ Vacuum(c) \/ Copy(c) \/ Height(c) \/ Dump(c) \/ DumpSnap(c) \/ Download(c)
           \/ Load(c, "load latest", "main", latest) \/ Load(c, "load fetched", "main", fetched)
           \/ Load(c, "load snap", "snap", latest)
  BY <1>1, <1>8 DEF Drop, Create, Vacuum, Copy, Height, Dump, DumpSnap, Download, Load
<1> QED BY <1>3, <1>4, <1>5, <1>6, <1>7, <1>8 DEF CommandStep

LEMMA FileWritten ==
  ASSUME FilesAreWhole, NEW c \in Shells, NEW kind, NEW h, NEW y, Written(c, kind, h, y),
         cmd[c].clean /\ faults' = faults =>
           y.blocks = h /\ (kind = "snapshot" => y.accounts = h /\ h % R = 0)
  PROVE  FilesAreWhole'
<1> DEFINE f == [kind |-> kind, height |-> h, content |-> y, clean |-> cmd[c].clean /\ faults' = faults]
<1>1. files' = files \cup {f}
  BY DEF Written
<1>2. f.kind = kind /\ f.height = h /\ f.content = y /\ (f.clean => cmd[c].clean /\ faults' = faults)
  OBVIOUS
<1> HIDE DEF f
<1> QED BY <1>1, <1>2 DEF FilesAreWhole

\* What a pipe delivers without a fault is all of it
LEMMA Delivered ==
  ASSUME IInv, NEW c \in Shells, NEW x, NEW y, Delivers(c, x, y), faults' = faults
  PROVE  y = x
<1>1. faults \in Nat
  BY NodeControlAssumption DEF IInv, TypeInv
<1>2. ~Fault
  BY <1>1 DEF Fault
<1> QED BY <1>2 DEF Delivers

LEMMA DumpWhole ==
  ASSUME IInv, CleanInv, FilesAreWhole, NEW c \in Shells, Dump(c)
  PROVE  FilesAreWhole'
<1>1. Active(c) /\ Op(cmd[c]) = "dump"
  BY DoingOp DEF Dump
<1>2. PICK y : Delivers(c, Content("snap"), y) /\ Written(c, "backup", cmd[c].height, y)
  BY DEF Dump
<1>3. ASSUME cmd[c].clean, faults' = faults PROVE y.blocks = cmd[c].height
  <2>1. server /\ db.snap # None /\ db.snap.blocks = cmd[c].height
    BY <1>1, <1>3 DEF CleanInv, Knows
  <2>2. y = Content("snap")
    BY <1>2, <1>3, Delivered
  <2> QED BY <2>1, <2>2 DEF Content, Usable
<1> QED BY <1>2, <1>3, FileWritten

LEMMA SnapWhole ==
  ASSUME IInv, CleanInv, FilesAreWhole, NEW c \in Shells, DumpSnap(c)
  PROVE  FilesAreWhole'
<1>1. Active(c) /\ Op(cmd[c]) = "dump snap"
  BY DoingOp DEF DumpSnap
<1>2. CASE UNCHANGED files
  BY <1>2, FilesSame
<1>3. CASE \E y : Delivers(c, db.snap, y) /\ Written(c, "snapshot", db.snap.blocks, y)
  <2>1. PICK y : Delivers(c, db.snap, y) /\ Written(c, "snapshot", db.snap.blocks, y)
    BY <1>3
  <2>2. ASSUME cmd[c].clean, faults' = faults
        PROVE  y.blocks = db.snap.blocks /\ y.accounts = db.snap.blocks /\ db.snap.blocks % R = 0
    <3>1. Verified(db.snap)
      BY <1>1, <2>2 DEF CleanInv, Knows
    <3>2. y = db.snap
      BY <2>1, <2>2, Delivered
    <3> QED BY <3>1, <3>2 DEF Verified
  <2> QED BY <2>1, <2>2, FileWritten
<1> QED BY <1>2, <1>3 DEF DumpSnap

LEMMA CommandFiles ==
  ASSUME IInv, CleanInv, FilesAreWhole, NEW c \in Shells, CommandStep(c)
  PROVE  FilesAreWhole'
<1>1. CASE Dump(c) \/ DumpSnap(c)
  BY <1>1, DumpWhole, SnapWhole
<1>2. CASE \/ Check(c, "check backup", "backup") \/ Check(c, "check snapshot", "snapshot")
           \/ Lock(c, "lock backup", "backup") \/ Lock(c, "lock snapshot", "snapshot")
           \/ Free(c, "free backup", "backup") \/ Free(c, "free snapshot", "snapshot")
           \/ Unlock(c) \/ CheckNode(c) \/ SeeReady(c) \/ SeeClose(c) \/ Rebuild(c)
           \/ CheckServer(c) \/ Switch(c, "up", TRUE) \/ Switch(c, "down", FALSE) \/ Wipe(c)
           \/ CheckImport(c) \/ Signal(c) \/ KillAll(c) \/ Spawn(c)
  BY <1>2, FilesSame DEF Check, Lock, Free, Unlock, CheckNode, SeeReady, SeeClose, Rebuild,
                         CheckServer, Switch, Wipe, CheckImport, Signal, KillAll, Spawn, store
<1>3. CASE \/ Drop(c, "drop main", "main") \/ Drop(c, "drop snap", "snap")
           \/ Create(c, "create main", "main") \/ Create(c, "create snap", "snap")
           \/ Vacuum(c) \/ Copy(c) \/ Height(c) \/ Download(c)
           \/ Load(c, "load latest", "main", latest) \/ Load(c, "load fetched", "main", fetched)
           \/ Load(c, "load snap", "snap", latest)
  BY <1>3, FilesSame DEF Drop, Create, Vacuum, Copy, Height, Download, Load, store
<1> QED BY <1>1, <1>2, <1>3 DEF CommandStep

-----------------------------------------------------------------------------
(* The steps beside the commands                                            *)

(* A command that begins while another one runs disturbs it and is          *)
(* disturbed itself; alone it knows nothing yet.                            *)
LEMMA BeginClean ==
  ASSUME IInv, CleanInv, NEW c \in Shells, Begin(c)
  PROVE  CleanInv'
<1>1. PICK others \in SUBSET Shells, n \in DOMAIN Program :
         /\ \A o \in Shells : o \in others <=> Active(o)
         /\ ~Active(c)
         /\ cmd' = [Unclean(others) EXCEPT ![c] =
                      [[Idle EXCEPT !.name = n, !.at = 1] EXCEPT !.clean = (others = {})]]
  <2>1. Head(plan[c]) \in DOMAIN Program
    BY DEF Begin, IInv, TypeInv
  <2> QED BY <2>1 DEF Begin
<1>2. PICK X \in Command :
         /\ X = [[Idle EXCEPT !.name = n, !.at = 1] EXCEPT !.clean = (others = {})]
         /\ X.name = n /\ X.at = 1 /\ ~X.rebuilt /\ X.clean = (others = {})
  <2> DEFINE b == (others = {})
  <2>1. b \in BOOLEAN /\ n \in DOMAIN Program \cup {None}
    OBVIOUS
  <2> HIDE DEF b
  <2>2. /\ [[Idle EXCEPT !.name = n, !.at = 1] EXCEPT !.clean = b] \in Command
        /\ [[Idle EXCEPT !.name = n, !.at = 1] EXCEPT !.clean = b].name = n
        /\ [[Idle EXCEPT !.name = n, !.at = 1] EXCEPT !.clean = b].at = 1
        /\ ~[[Idle EXCEPT !.name = n, !.at = 1] EXCEPT !.clean = b].rebuilt
        /\ [[Idle EXCEPT !.name = n, !.at = 1] EXCEPT !.clean = b].clean = b
    BY <2>1 DEF Idle, Command
  <2> QED BY <2>2 DEF b
<1>3. /\ \A d \in Shells : Unclean(others)[d].name = cmd[d].name
      /\ Unclean(others) \in [Shells -> Command]
  BY UncleanSame
<1>4. cmd'[c] = X /\ \A d \in Shells : d # c => cmd'[d] = Unclean(others)[d]
  BY <1>1, <1>2, <1>3
<1> SUFFICES ASSUME NEW d \in Shells, Active(d)', cmd'[d].clean
             PROVE  (\A e \in Shells : Active(e)' => e = d) /\ Knows(cmd[d])'
  BY DEF CleanInv
<1>5. d = c
  <2> SUFFICES ASSUME d # c PROVE FALSE
    OBVIOUS
  <2>1. Active(d) /\ d \in others
    BY <1>1, <1>3, <1>4 DEF Active
  <2>2. cmd'[d] = [cmd[d] EXCEPT !.clean = FALSE]
    BY <1>4, <2>1 DEF Unclean
  <2>3. cmd[d] \in Command
    BY DEF IInv, TypeInv
  <2> QED BY <2>2, <2>3 DEF Command
<1>6. \A e \in Shells : Active(e)' => e = c
  <2>1. others = {}
    BY <1>2, <1>4, <1>5
  <2> QED BY <1>1, <1>3, <1>4, <2>1 DEF Active
<1>7. X.name # None /\ Rests(X)
  <2>1. Rests(X)
    BY <1>2, BeginRests
  <2> QED BY <1>4, <1>5, <2>1 DEF Active
<1>8. Ignorant(X)
  <2>1. Came(X)
    BY <1>7, AtCame DEF Rests
  <2>2. Behind(X) = "begin"
    <3>1. ~(1 <= 1 - 1)
      OBVIOUS
    <3> QED BY <1>2, <3>1, Zenon DEF Behind
  <2> QED BY <2>1, <2>2, IgnorantCame DEF Leads
<1>9. Knows(X)'
  BY <1>2, <1>8, IgnorantKnows
<1>10. Knows(cmd[d])'
  <2>1. cmd'[d] = X
    BY <1>4, <1>5
  <2> QED BY <1>9, <2>1 DEF Knows, Op, Behind, Ahead, Verifies
<1> QED BY <1>5, <1>6, <1>10

(* Steps at which no command goes on: it is disturbed, or goes on knowing.  *)
LEMMA QuietClean ==
  ASSUME IInv, CleanInv, NEW S, cmd' = Unclean(S),
         \A c \in Shells : \A k \in Command :
           k = cmd[c] /\ Active(c) /\ k.clean /\ c \notin S /\ Knows(k) => Knows(k)'
  PROVE  CleanInv'
<1> SUFFICES ASSUME NEW d \in Shells, Active(d)', cmd'[d].clean
             PROVE  (\A e \in Shells : Active(e)' => e = d) /\ Knows(cmd[d])'
  BY DEF CleanInv
<1>1. \A e \in Shells : Active(e)' => Active(e)
  BY UncleanSame DEF Active
<1>2. cmd[d] \in Command
  BY DEF IInv, TypeInv
<1>3. d \notin S
  <2> SUFFICES ASSUME d \in S PROVE FALSE
    OBVIOUS
  <2>1. cmd'[d] = [cmd[d] EXCEPT !.clean = FALSE]
    BY <1>1 DEF Unclean
  <2> QED BY <1>2, <2>1 DEF Command
<1>4. cmd'[d] = cmd[d]
  BY <1>3 DEF Unclean
<1>5. Active(d) /\ cmd[d].clean
  BY <1>1, <1>4
<1>6. Knows(cmd[d]) /\ \A e \in Shells : Active(e)' => e = d
  BY <1>1, <1>5 DEF CleanInv
<1>7. PICK k \in Command : k = cmd[d]
  BY <1>2
<1>8. Knows(k)'
  BY <1>3, <1>5, <1>6, <1>7
<1>9. Knows(cmd[d])'
  <2>1. cmd'[d] = k
    BY <1>4, <1>7
  <2> QED BY <1>8, <2>1 DEF Knows, Op, Behind, Ahead, Verifies
<1> QED BY <1>6, <1>9

LEMMA QuietNone ==
  ASSUME IInv, UNCHANGED cmd
  PROVE  cmd' = Unclean({})
BY DEF IInv, TypeInv, Unclean

LEMMA NothingClean ==
  ASSUME IInv, CleanInv, UNCHANGED <<cmd, node, server, db>>
  PROVE  CleanInv'
<1>1. ASSUME NEW k \in Command, Knows(k) PROVE Knows(k)'
  BY <1>1 DEF Knows, Op, Behind, Ahead, Verifies, Apart, Connected, Alive
<1> QED BY <1>1, QuietClean, QuietNone

(* Only a start in the background has a timeout, and it knows of no copy.   *)
LEMMA TimeoutClean ==
  ASSUME IInv, CleanInv, NEW c \in Shells, Timeout(c)
  PROVE  CleanInv'
<1>1. Active(c) /\ Op(cmd[c]) = "await" /\ cmd[c].pid \in Pids /\ Stands(cmd[c]) /\ cmd[c] \in Command
  BY Waiting DEF Timeout, IInv, CommandInv, TypeInv
<1>2. Came(cmd[c]) /\ Behind(cmd[c]) # "spawn verifying"
  <2>1. Came(cmd[c])
    BY <1>1, AtCame DEF Stands, Active
  <2> QED BY <1>1, <2>1 DEF Came, Timeout, Foreground
<1>3. UNCHANGED <<server, db, cmd>>
  BY DEF Timeout, store
<1>4. ASSUME NEW d \in Shells, NEW k \in Command, k = cmd[d], Active(d), k.clean, Knows(k)
      PROVE  Knows(k)'
  <2>1. d = c
    BY <1>1, <1>4 DEF CleanInv
  <2>2. Ignorant(k) /\ ~k.rebuilt
    BY <1>1, <1>2, <1>4, <2>1 DEF Ignorant, Copying, Knows
  <2> QED BY <2>2, IgnorantKnows
<1> QED BY <1>3, <1>4, QuietClean, QuietNone

LEMMA InterruptClean ==
  ASSUME IInv, CleanInv, NEW c \in Shells, Interrupt(c)
  PROVE  CleanInv'
<1>1. Active(c) /\ cmd' = Unclean({c})
  BY Waiting DEF Interrupt
<1>2. ASSUME NEW d \in Shells, NEW k \in Command, k = cmd[d], Active(d), k.clean, d \notin {c}, Knows(k)
      PROVE  Knows(k)'
  BY <1>1, <1>2 DEF CleanInv
<1> QED BY <1>1, <1>2, QuietClean

-----------------------------------------------------------------------------
(* The steps of the node                                                    *)

(* What a node does to its database and itself disturbs no command that     *)
(* knows of the copy, but the one that waits for it: the others have the    *)
(* copy for themselves.                                                     *)
LEMMA NodeKnows ==
  ASSUME IInv, NodesInv, NEW k \in Command, Knows(k), NEW p \in Pids, Alive(p),
         NEW Y, node' = [node EXCEPT ![p] = Y],
         Y.on = node[p].on, Y.stopping = node[p].stopping,
         server' = server,
         UNCHANGED db \/ \E x \in Whole : OnDatabase(p, x) /\ db[node[p].on] # None,
         Op(k) = "height" => db'.main.blocks = db.main.blocks,
         Verifies(k) /\ p = k.pid => Y.code # "signal" /\ (Y.code = "ok" => Verified(db'.snap))
  PROVE  Knows(k)'
<1>1. /\ node'[p] = Y /\ \A q \in Pids : q # p => node'[q] = node[q]
      /\ node[p].on \in {"main", "snap"}
  BY DEF IInv, TypeInv, Node
<1>2. \A q \in Pids : Alive(q)' => Alive(q) /\ node'[q].on = node[q].on
  BY <1>1 DEF Alive
<1>3. Apart => Apart' /\ db'.snap = db.snap
  <2>1. Apart => Apart' /\ node[p].on = "main"
    BY <1>1, <1>2 DEF Apart, Connected
  <2> QED BY <2>1 DEF OnDatabase, IInv, TypeInv
<1>4. (db.main # None => db'.main # None) /\ (db.snap # None => db'.snap # None)
  BY <1>1, NoneIsNothing DEF OnDatabase, IInv, TypeInv
<1>5. ASSUME Verifies(k) PROVE Verifies(k)'
  <2>1. /\ node'[k.pid].on = "snap" /\ ~node'[k.pid].stopping
        /\ \A q \in Pids : Alive(q)' /\ node'[q].on = "snap" => q = k.pid
    BY <1>1, <1>2, <1>5 DEF Verifies
  <2>2. node'[k.pid].code # "signal" /\ (node'[k.pid].code = "ok" => Verified(db'.snap))
    <3>1. CASE p = k.pid
      BY <1>1, <1>5, <3>1
    <3>2. CASE p # k.pid
      <4>1. node'[k.pid] = node[k.pid]
        BY <1>1, <1>5, <3>2 DEF Verifies
      <4>2. node[p].on = "main"
        BY <1>1, <1>5, <3>2 DEF Verifies
      <4>3. db'.snap = db.snap
        BY <4>2 DEF OnDatabase, IInv, TypeInv
      <4> QED BY <1>5, <4>1, <4>3 DEF Verifies
    <3> QED BY <3>1, <3>2
  <2> QED BY <1>5, <2>1, <2>2 DEF Verifies, Verified
<1>6. /\ Op(k) \in Copying \/ (Op(k) = "check node" /\ Ahead(k) = "spawn verifying") => Apart' /\ db'.snap = db.snap
      /\ Op(k) = "await" /\ Behind(k) = "spawn verifying" => Verifies(k)'
  BY <1>3, <1>5 DEF Knows
<1>7. Knows(k)'
  BY <1>4, <1>6 DEF Knows, Verified, Copying, Op, Behind, Ahead
<1> QED BY <1>7

LEMMA NodesMoved ==
  ASSUME IInv, NodesInv, NEW p \in Pids, NEW Y, node' = [node EXCEPT ![p] = Y],
         Y.on = node[p].on, Y.verifying => node[p].verifying,
         Y.phase \in {"boot", "load", "ready"} => Y.code = None
  PROVE  NodesInv'
<1>1. node'[p] = Y /\ \A q \in Pids : q # p => node'[q] = node[q]
  BY DEF IInv, TypeInv
<1> SUFFICES ASSUME NEW q \in Pids
             PROVE  /\ node'[q].verifying => node'[q].on = "snap"
                    /\ Alive(q)' => node'[q].code = None
  BY DEF NodesInv
<1>2. CASE q = p
  BY <1>1, <1>2 DEF NodesInv, Alive
<1>3. CASE q # p
  BY <1>1, <1>3 DEF NodesInv, Alive
<1> QED BY <1>2, <1>3

(* A process that is gone: the command that waits for it sees its code.     *)
LEMMA ExitClean ==
  ASSUME IInv, NodesInv, CleanInv, NEW p \in Pids, Alive(p), NEW code, Exit(p, code),
         server' = server, NEW S, cmd' = Unclean(S),
         UNCHANGED db \/ \E x \in Whole : OnDatabase(p, x) /\ db[node[p].on] # None,
         db'.main.blocks = db.main.blocks,
         code = "ok" => Verified(db'.snap),
         code = "signal" => \A c \in Shells : Verifies(cmd[c]) /\ cmd[c].pid = p => c \in S
  PROVE  NodesInv' /\ CleanInv'
<1>1. PICK Y : /\ Y = [node[p] EXCEPT !.phase = "gone", !.code = code]
               /\ Y.on = node[p].on /\ Y.verifying = node[p].verifying
               /\ Y.stopping = node[p].stopping /\ Y.phase = "gone" /\ Y.code = code
  <2> DEFINE Y == [node[p] EXCEPT !.phase = "gone", !.code = code]
  <2>1. node[p] \in Node
    BY DEF IInv, TypeInv
  <2>2. /\ Y.on = node[p].on /\ Y.verifying = node[p].verifying
        /\ Y.stopping = node[p].stopping /\ Y.phase = "gone" /\ Y.code = code
    BY <2>1 DEF Node
  <2>3. Y = [node[p] EXCEPT !.phase = "gone", !.code = code]
    OBVIOUS
  <2> HIDE DEF Y
  <2> QED BY <2>2, <2>3
<1>2. node' = [node EXCEPT ![p] = Y]
  BY <1>1 DEF Exit, IInv, TypeInv, Node
<1>3. NodesInv'
  BY <1>1, <1>2, NodesMoved
<1>4. ASSUME NEW c \in Shells, NEW k \in Command, k = cmd[c], Active(c), k.clean, c \notin S, Knows(k)
      PROVE  Knows(k)'
  <2>1. Verifies(k) /\ p = k.pid => Y.code # "signal" /\ (Y.code = "ok" => Verified(db'.snap))
    BY <1>1, <1>4
  <2> QED BY <1>1, <1>2, <1>4, <2>1, NodeKnows
<1>5. CleanInv'
  BY <1>4, QuietClean
<1> QED BY <1>3, <1>5

LEMMA EndsClean ==
  ASSUME IInv, NodesInv, CleanInv, NEW p \in Pids,
         LoadFails(p) \/ Ends(p) \/ BootFails(p) \/ Killed(p)
  PROVE  NodesInv' /\ CleanInv'
<1>1. Alive(p) /\ server' = server /\ UNCHANGED db
  BY DEF LoadFails, Ends, BootFails, Killed, NodeOnly, Alive
<1>2. db'.main.blocks = db.main.blocks
  BY <1>1
<1>3. CASE LoadFails(p) \/ BootFails(p)
  <2>1. PICK code \in {"error", "native"} : Exit(p, code) /\ UNCHANGED cmd
    BY <1>3 DEF LoadFails, BootFails
  <2>2. cmd' = Unclean({})
    BY <2>1, QuietNone
  <2>3. code # "ok" /\ code # "signal"
    BY <2>1
  <2> QED BY <1>1, <1>2, <2>1, <2>2, <2>3, ExitClean
<1>4. CASE Ends(p)
  <2>1. PICK code \in {"error", "signal"} : Exit(p, code) /\ UNCHANGED cmd /\ node[p].stopping
    BY <1>4 DEF Ends
  <2>2. cmd' = Unclean({})
    BY <2>1, QuietNone
  <2>3. code # "ok" /\ \A c \in Shells : ~(Verifies(cmd[c]) /\ cmd[c].pid = p)
    BY <2>1 DEF Verifies
  <2> QED BY <1>1, <1>2, <2>1, <2>2, <2>3, ExitClean
<1>5. CASE Killed(p)
  <2> DEFINE S == {c \in Shells : cmd[c].pid = p}
  <2>1. Exit(p, "signal") /\ cmd' = Unclean(S)
    BY <1>5 DEF Killed
  <2>2. \A c \in Shells : Verifies(cmd[c]) /\ cmd[c].pid = p => c \in S
    OBVIOUS
  <2> HIDE DEF S
  <2> QED BY <1>1, <1>2, <2>1, <2>2, ExitClean
<1> QED BY <1>3, <1>4, <1>5

(* A node that loads or grows; an export that reads the height is disturbed.*)
LEMMA GoesOn ==
  ASSUME IInv, NodesInv, CleanInv, NEW p \in Pids, Alive(p), NEW Y,
         node' = [node EXCEPT ![p] = Y], Y.on = node[p].on, Y.stopping = node[p].stopping,
         Y.verifying => node[p].verifying, Y.code = node[p].code,
         server' = server, NEW S, cmd' = Unclean(S),
         UNCHANGED db \/ \E x \in Whole : OnDatabase(p, x) /\ db[node[p].on] # None,
         \A c \in Shells : Doing(c, "height") /\ c \notin S => db'.main.blocks = db.main.blocks
  PROVE  NodesInv' /\ CleanInv'
<1>1. Y.code = None
  BY DEF NodesInv
<1>2. NodesInv'
  BY <1>1, NodesMoved
<1>3. ASSUME NEW c \in Shells, NEW k \in Command, k = cmd[c], Active(c), k.clean, c \notin S, Knows(k)
      PROVE  Knows(k)'
  <2>1. Op(k) = "height" => db'.main.blocks = db.main.blocks
    BY <1>3 DEF Doing, Op, Commands
  <2> QED BY <1>1, <1>3, <2>1, NoneIsNothing, NodeKnows
<1>4. CleanInv'
  BY <1>3, QuietClean
<1> QED BY <1>2, <1>4

LEMMA BootClean ==
  ASSUME IInv, NodesInv, CleanInv, NEW p \in Pids, Boot(p)
  PROVE  NodesInv' /\ CleanInv'
<1> DEFINE S == {c \in Shells : Doing(c, "height")}
<1>1. Alive(p) /\ server' = server /\ cmd' = Unclean(S)
  BY DEF Boot, Alive, NodeOnly
<1>2. CASE Exit(p, "error") /\ UNCHANGED db
  <2>1. db'.main.blocks = db.main.blocks
    BY <1>2
  <2> HIDE DEF S
  <2> QED BY <1>1, <1>2, <2>1, ExitClean
<1>3. CASE ~(~Usable(node[p].on) \/ \E q \in Pids : node[q].phase \in {"load", "ready"})
  <2> DEFINE b == Max({1, Database(p).blocks})
             s == b = 1 \/ node[p].verifying \/ Database(p).accounts = 0
             a == IF s THEN 0 ELSE Database(p).accounts
             x == [blocks |-> b, accounts |-> a]
  <2>1. /\ OnDatabase(p, x)
        /\ node' = [node EXCEPT ![p].phase = IF s THEN "load" ELSE "ready",
                                ![p].verifying = @ /\ b > 1, ![p].announced = ~s]
    BY <1>3 DEF Boot
  <2>2. x \in Whole
    <3>1. DbOK
      BY BootStep DEF IInv, TypeInv, DbOK
    <3>2. db'[node[p].on] = x /\ node[p].on \in {"main", "snap"}
      BY <2>1 DEF OnDatabase, IInv, TypeInv, Node
    <3>3. x \in Whole \cup {None}
      BY <3>1, <3>2 DEF DbOK
    <3>4. x # None
      <4>1. /\ Database(p).blocks \in Nat /\ Database(p).accounts \in Nat
        BY <1>3, DatabaseTyped
      <4>2. b \in Nat
        BY <4>1, TwoNats
      <4> HIDE DEF b, s
      <4>3. a \in Nat
        BY <4>1
      <4> HIDE DEF a
      <4> QED BY <4>2, <4>3, NodeControlAssumption
    <3> QED BY <3>3, <3>4
  <2>3. node[p] \in Node /\ node \in [Pids -> Node]
    BY DEF IInv, TypeInv
  <2> HIDE DEF b, s, x
  <2>4. PICK Y : /\ node' = [node EXCEPT ![p] = Y] /\ Y.on = node[p].on
                 /\ Y.stopping = node[p].stopping /\ Y.code = node[p].code
                 /\ Y.verifying => node[p].verifying
    <3> DEFINE Y == [node[p] EXCEPT !.phase = IF s THEN "load" ELSE "ready",
                                    !.verifying = node[p].verifying /\ b > 1, !.announced = ~s]
    <3>1. node' = [node EXCEPT ![p] = Y]
      BY <2>1, <2>3 DEF Node
    <3>2. /\ Y.on = node[p].on /\ Y.stopping = node[p].stopping /\ Y.code = node[p].code
          /\ Y.verifying => node[p].verifying
      BY <2>3 DEF Node
    <3> HIDE DEF Y
    <3> QED BY <3>1, <3>2
  <2>5. db[node[p].on] # None
    BY <1>3 DEF Usable
  <2>6. \A c \in Shells : Doing(c, "height") => c \in S
    OBVIOUS
  <2>7. \E z \in Whole : OnDatabase(p, z) /\ db[node[p].on] # None
    BY <2>1, <2>2, <2>5
  <2> HIDE DEF S
  <2> QED BY <1>1, <2>4, <2>6, <2>7, GoesOn
<1> QED BY <1>2, <1>3 DEF Boot

LEMMA GrowClean ==
  ASSUME IInv, NodesInv, CleanInv, NEW p \in Pids, Grow(p)
  PROVE  NodesInv' /\ CleanInv'
<1> DEFINE S == {c \in Shells : Doing(c, "height")}
<1>1. /\ Alive(p) /\ server' = server /\ cmd' = Unclean(S)
      /\ node' = [node EXCEPT ![p] = node[p]] /\ node[p].on \in {"main", "snap"}
  BY DEF Grow, Alive, NodeOnly, IInv, TypeInv, Node
<1>2. PICK x : OnDatabase(p, x) /\ x # None
  <2>1. [blocks |-> Database(p).blocks + 1, accounts |-> Database(p).accounts + 1] # None
    <3>1. Database(p).blocks \in Nat /\ Database(p).accounts \in Nat
      BY DatabaseTyped DEF Grow
    <3>2. Database(p).blocks + 1 \in Nat /\ Database(p).accounts + 1 \in Nat
      BY <3>1
    <3> QED BY <3>2, NodeControlAssumption
  <2> QED BY <2>1 DEF Grow
<1>3. \E z \in Whole : OnDatabase(p, z) /\ db[node[p].on] # None
  <2>1. DbOK
    BY GrowStep DEF IInv, TypeInv, DbOK
  <2>2. x \in Whole
    <3>1. db'[node[p].on] = x
      BY <1>1, <1>2 DEF OnDatabase, IInv, TypeInv
    <3> QED BY <1>1, <1>2, <2>1, <3>1 DEF DbOK
  <2> QED BY <1>2, <2>2 DEF Grow, Usable
<1>4. \A c \in Shells : Doing(c, "height") => c \in S
  OBVIOUS
<1> HIDE DEF S
<1> QED BY <1>1, <1>3, <1>4, GoesOn

\* A verification ends at the end of a round
LEMMA RoundEnds ==
  ASSUME NEW b \in Nat
  PROVE  LastRound(b) \in Nat /\ LastRound(b) % R = 0
<1> DEFINE q == b \div R
           m == Max({1, q})
<1>1. R \in Nat /\ R > 0
  BY NodeControlAssumption
<1>2. m \in Nat
  <2>1. q \in Nat
    BY <1>1
  <2> HIDE DEF q
  <2> QED BY <2>1, TwoNats
<1>3. LastRound(b) = R * m
  BY DEF LastRound
<1> HIDE DEF m
<1>4. ASSUME NEW n \in Nat PROVE R * n \in Nat /\ (R * n) % R = 0
  BY <1>1
<1> QED BY <1>2, <1>3, <1>4

LEMMA LoadBlockClean ==
  ASSUME IInv, NodesInv, CleanInv, NEW p \in Pids, LoadBlock(p)
  PROVE  NodesInv' /\ CleanInv'
<1>1. /\ Alive(p) /\ server' = server /\ UNCHANGED cmd
      /\ node' = [node EXCEPT ![p] = node[p]] /\ node[p].on \in {"main", "snap"}
  BY DEF LoadBlock, Alive, NodeOnly, IInv, TypeInv, Node
<1>2. cmd' = Unclean({})
  BY <1>1, QuietNone
<1> DEFINE x == [Database(p) EXCEPT !.accounts = @ + 1]
<1>3. OnDatabase(p, x) /\ x.blocks = Database(p).blocks /\ db[node[p].on] # None
  <2>1. Database(p) \in Whole
    BY DatabaseTyped DEF LoadBlock
  <2> QED BY <2>1 DEF LoadBlock, Usable, Whole, Databases
<1>4. x \in Whole
  <2>1. DbOK
    BY LoadBlockStep DEF IInv, TypeInv, DbOK
  <2>2. db'[node[p].on] = x
    BY <1>1, <1>3 DEF OnDatabase, IInv, TypeInv
  <2>3. x # None
    <3>1. Database(p) \in [blocks : Nat, accounts : Nat]
      BY DatabaseTyped, NoneIsNothing DEF LoadBlock
    <3>2. x \in [blocks : Nat, accounts : Nat]
      <4> DEFINE y == Database(p)
      <4> HIDE DEF y
      <4>1. y \in [blocks : Nat, accounts : Nat]
        BY <3>1 DEF y
      <4>2. [y EXCEPT !.accounts = @ + 1] \in [blocks : Nat, accounts : Nat]
        BY <4>1
      <4> QED BY <4>2 DEF y
    <3> HIDE DEF x
    <3> QED BY <3>2, NodeControlAssumption
  <2> QED BY <1>1, <2>1, <2>2, <2>3 DEF DbOK
<1>5. db'.main.blocks = db.main.blocks
  <2> HIDE DEF x
  <2>1. CASE node[p].on = "main"
    BY <1>3, <2>1 DEF OnDatabase, Database, IInv, TypeInv
  <2>2. CASE node[p].on # "main"
    BY <1>3, <2>2 DEF OnDatabase, IInv, TypeInv
  <2> QED BY <2>1, <2>2
<1> HIDE DEF x
<1>6. \E z \in Whole : OnDatabase(p, z) /\ db[node[p].on] # None
  BY <1>3, <1>4
<1> QED BY <1>1, <1>2, <1>5, <1>6, GoesOn

(* A verification ends with ok only when the accounts were computed from    *)
(* all of the blocks that it has left.                                      *)
LEMMA LoadedClean ==
  ASSUME IInv, NodesInv, CleanInv, NEW p \in Pids, Loaded(p)
  PROVE  NodesInv' /\ CleanInv'
<1>1. /\ Alive(p) /\ server' = server /\ UNCHANGED cmd /\ node[p].on \in {"main", "snap"}
      /\ db[node[p].on] # None
  BY DEF Loaded, Alive, NodeOnly, IInv, TypeInv, Node, Usable
<1>2. cmd' = Unclean({})
  BY <1>1, QuietNone
<1>3. CASE ~node[p].verifying
  <2>1. node' = [node EXCEPT ![p].phase = "ready", ![p].announced = TRUE] /\ UNCHANGED db
    BY <1>3 DEF Loaded
  <2> DEFINE Y == [node[p] EXCEPT !.phase = "ready", !.announced = TRUE]
  <2>2. node[p] \in Node /\ node \in [Pids -> Node]
    BY DEF IInv, TypeInv
  <2>3. /\ Y.on = node[p].on /\ Y.verifying = node[p].verifying /\ Y.code = node[p].code
        /\ Y.stopping = node[p].stopping
    BY <2>2 DEF Node
  <2>4. node' = [node EXCEPT ![p] = Y]
    BY <2>1, <2>2 DEF Node
  <2>5. db'.main.blocks = db.main.blocks
    BY <2>1
  <2>6. PICK y : /\ node' = [node EXCEPT ![p] = y] /\ y.on = node[p].on
                 /\ y.verifying => node[p].verifying
                 /\ y.code = node[p].code /\ y.stopping = node[p].stopping
    <3>1. Y.verifying => node[p].verifying
      BY <2>3
    <3> HIDE DEF Y
    <3> QED BY <2>3, <2>4, <3>1
  <2> QED BY <1>1, <1>2, <2>1, <2>5, <2>6, GoesOn
<1>4. CASE node[p].verifying
  <2> DEFINE x == Database(p)
             y == [x EXCEPT !.blocks = Clipped(x.accounts, x.blocks)]
  <2>1. node[p].on = "snap" /\ x = db.snap
    BY <1>4 DEF NodesInv, Database
  <2>2. /\ x \in Whole /\ x.blocks \in Nat /\ x.accounts \in Nat /\ x.accounts <= x.blocks
        /\ x.blocks <= MaxHeight
    BY DatabaseTyped DEF Loaded
  <2>3. CASE x.accounts = Target(p)
    <3>1. Exit(p, "ok") /\ OnDatabase(p, y)
      BY <1>4, <2>3 DEF Loaded
    <3>2. x.accounts % R = 0
      <4>1. Target(p) = LastRound(x.blocks)
        BY <1>4 DEF Target
      <4> QED BY <2>2, <2>3, <4>1, RoundEnds
    <3> HIDE DEF x
    <3>3. Clipped(x.accounts, x.blocks) = x.accounts
      <4> DEFINE m == Min({x.blocks, x.accounts})
      <4>1. m \in {x.blocks, x.accounts} /\ m <= x.accounts
        BY <2>2, TwoNats
      <4>2. Clipped(x.accounts, x.blocks) = m
        BY DEF Clipped, After
      <4> HIDE DEF m
      <4> QED BY <2>2, <4>1, <4>2
    <3>4. y = [blocks |-> x.accounts, accounts |-> x.accounts]
      BY <2>2, <3>3 DEF Whole, Databases
    <3> HIDE DEF y
    <3>5. y \in Whole /\ y # None
      <4>1. x.accounts <= MaxHeight /\ x.accounts <= x.accounts
        BY <2>2, NodeControlAssumption
      <4> QED BY <2>2, <3>4, <4>1, WholeMade, NoneIsNothing
    <3>6. db'.snap = y /\ db'.main.blocks = db.main.blocks
      BY <2>1, <3>1 DEF OnDatabase, IInv, TypeInv
    <3>7. Verified(db'.snap)
      BY <3>2, <3>4, <3>5, <3>6 DEF Verified
    <3>8. \E z \in Whole : OnDatabase(p, z) /\ db[node[p].on] # None
      BY <1>1, <3>1, <3>5
    <3>9. "ok" # "signal"
      OBVIOUS
    <3> QED BY <1>1, <1>2, <3>1, <3>6, <3>7, <3>8, <3>9, ExitClean
  <2>4. CASE x.accounts # Target(p)
    <3>1. Exit(p, "error") /\ OnDatabase(p, x)
      BY <1>4, <2>4 DEF Loaded
    <3>2. db'.main.blocks = db.main.blocks
      BY <2>1, <3>1 DEF OnDatabase, IInv, TypeInv
    <3>3. \E z \in Whole : OnDatabase(p, z) /\ db[node[p].on] # None
      BY <1>1, <2>2, <3>1
    <3>4. "error" # "ok" /\ "error" # "signal"
      OBVIOUS
    <3> HIDE DEF x, y
    <3> QED BY <1>1, <1>2, <3>1, <3>2, <3>3, <3>4, ExitClean
  <2> QED BY <2>3, <2>4
<1> QED BY <1>3, <1>4

-----------------------------------------------------------------------------
LEMMA FilesInit == Init => NodesInv /\ CleanInv /\ FilesAreWhole
<1> SUFFICES ASSUME Init PROVE NodesInv /\ CleanInv /\ FilesAreWhole
  OBVIOUS
<1>1. NodesInv
  BY DEF Init, NodesInv, NoNode, Alive
<1>2. CleanInv
  BY DEF Init, CleanInv, Active, Idle
<1>3. FilesAreWhole
  BY DEF Init, FilesAreWhole
<1> QED BY <1>1, <1>2, <1>3

LEMMA FilesNext ==
  ASSUME FilesInv, [Next]_vars
  PROVE  FilesInv'
<1> USE DEF FilesInv
<1>1. IInv'
  BY NextInv
<1>2. ASSUME NEW c \in Shells, CommandStep(c) PROVE FilesInv'
  BY <1>1, <1>2, CommandClean, CommandNodes, CommandFiles
<1>3. ASSUME NEW c \in Shells, Begin(c) PROVE FilesInv'
  <2>1. UNCHANGED <<node, files>>
    BY <1>3 DEF Begin, store
  <2> QED BY <1>1, <1>3, <2>1, BeginClean, NodesSame, FilesSame
<1>4. ASSUME NEW c \in Shells, Timeout(c) PROVE FilesInv'
  <2>1. NodesInv'
    <3>1. cmd[c].pid \in Pids
      BY <1>4, Waiting DEF Timeout
    <3> QED BY <1>4, <3>1, ToldOne DEF Timeout
  <2>2. UNCHANGED files
    BY <1>4 DEF Timeout, store
  <2> QED BY <1>1, <1>4, <2>1, <2>2, TimeoutClean, FilesSame
<1>5. ASSUME NEW c \in Shells, Interrupt(c) PROVE FilesInv'
  <2>1. NodesInv'
    <3>1. cmd[c].pid \in Pids
      BY <1>5, Waiting DEF Interrupt
    <3> QED BY <1>5, <3>1, ToldOne DEF Interrupt
  <2>2. UNCHANGED files
    BY <1>5 DEF Interrupt, store
  <2> QED BY <1>1, <1>5, <2>1, <2>2, InterruptClean, FilesSame
<1>6. ASSUME NEW c \in Shells, Crash(c) PROVE FilesInv'
  <2>1. Active(c) /\ cmd' = [cmd EXCEPT ![c] = Idle] /\ UNCHANGED <<node, files>>
    BY <1>6 DEF Crash, store
  <2> QED BY <1>1, <2>1, IdleStep, NodesSame, FilesSame
<1>7. ASSUME NEW p \in Pids, NodeStep(p) \/ Grow(p) \/ BootFails(p) \/ Killed(p) PROVE FilesInv'
  <2>1. UNCHANGED files
    BY <1>7 DEF NodeStep, Boot, LoadBlock, LoadFails, Loaded, Ends, Grow, BootFails, Killed, NodeOnly
  <2>2. NodesInv' /\ CleanInv'
    BY <1>7, BootClean, LoadBlockClean, LoadedClean, EndsClean, GrowClean DEF NodeStep
  <2> QED BY <1>1, <2>1, <2>2, FilesSame
<1>8. CASE UNCHANGED vars
  BY <1>1, <1>8, NothingClean, NodesSame, FilesSame DEF vars, store
<1> QED BY <1>2, <1>3, <1>4, <1>5, <1>6, <1>7, <1>8 DEF Next

(* FilesAreWhole: a backup or a snapshot that a command wrote undisturbed   *)
(* has all blocks up to its height, and a snapshot ends with a round        *)
(* (export-db, export-snapshot, verifySnapshot, loader.ts), whatever other  *)
(* commands, nodes and failures come before or after it.                    *)
THEOREM FilesHold == Spec => []FilesAreWhole
<1>1. Init => FilesInv
  BY InitInv, FilesInit DEF FilesInv
<1>2. FilesInv /\ [Next]_vars => FilesInv'
  BY FilesNext
<1>3. FilesInv => FilesAreWhole
  BY DEF FilesInv
<1> QED BY <1>1, <1>2, <1>3, PTL DEF Spec

=============================================================================
