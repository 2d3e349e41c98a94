------------------------ MODULE BlockApplicationProofs ------------------------
(***************************************************************************)
(* For any accounts, transactions and bounds: no transaction is confirmed  *)
(* twice, none is unconfirmed and confirmed, the flag isProcessing is set  *)
(* while a block is being applied, the confirmed balances are those of the *)
(* chain, and the unconfirmed ones follow the pool.                        *)
(***************************************************************************)
EXTENDS BlockApplication, FiniteSetTheorems, WellFoundedInduction, TLAPS

(* First what the operators of Accounts.tla do, for any accounts: the laws  *)
(* of SumOver, and what performOps leaves in the balances of an account     *)
(* after any number of transactions.                                        *)

-----------------------------------------------------------------------------
(* Induction, for a property that is given as a set.                        *)

(* Sets of naturals have a least member.                                    *)
LEMMA LeastNat ==
  ASSUME NEW T \in SUBSET Nat, T # {}
  PROVE  \E m \in T : \A y \in T : m <= y
<1> DEFINE R == OpToRel(<, Nat)
<1>1. IsWellFoundedOn(R, Nat)
  BY NatLessThanWellFounded
<1>2. PICK m \in T : \A y \in T : <<y, m>> \notin R
  <2> HIDE DEF R
  <2> QED BY <1>1, WFMin
<1>3. ASSUME NEW y \in T PROVE ~(y < m)
  <2>1. m \in Nat /\ y \in Nat
    OBVIOUS
  <2> QED BY <2>1, <1>2 DEF OpToRel
<1> QED BY <1>3

(* Induction over the naturals.                                             *)
LEMMA SetInduction ==
  ASSUME NEW T, 0 \in T, \A n \in Nat : n \in T => n + 1 \in T
  PROVE  Nat \subseteq T
<1> DEFINE U == Nat \ T
<1> SUFFICES ASSUME U # {} PROVE FALSE
  OBVIOUS
<1>1. PICK m \in U : \A y \in U : m <= y
  BY LeastNat
<1>2. m # 0 /\ m - 1 \in Nat
  OBVIOUS
<1>3. m - 1 \in T
  BY <1>1, <1>2
<1> QED BY <1>2, <1>3

(* A function on 0..m is defined by its value at 0 and by a step.           *)
IsStep(step, m, R) == m \in Nat /\ step \in [(1..m) \X R -> R]
Iterates(f, step, r, m, R) ==
  f \in [0..m -> R] /\ f[0] = r /\ \A n \in 1..m : f[n] = step[<<n, f[n - 1]>>]

LEMMA Iteration ==
  ASSUME NEW R, NEW r, NEW m, NEW step, r \in R, IsStep(step, m, R)
  PROVE  \E f : Iterates(f, step, r, m, R)
<1> USE DEF IsStep
<1> DEFINE Follows(f, k) == f[0] = r /\ \A n \in 1..k : f[n] = step[<<n, f[n - 1]>>]
           T == {k \in Nat : k <= m => \E f \in [0..k -> R] : Follows(f, k)}
<1>1. 0 \in T
  <2> DEFINE f == [i \in 0..0 |-> r]
  <2>1. f \in [0..0 -> R] /\ Follows(f, 0)
    OBVIOUS
  <2> QED BY <2>1
<1>2. ASSUME NEW k \in Nat, k \in T PROVE k + 1 \in T
  <2> SUFFICES ASSUME k + 1 <= m
               PROVE  \E f \in [0..(k + 1) -> R] : Follows(f, k + 1)
    OBVIOUS
  <2>1. PICK f \in [0..k -> R] : Follows(f, k)
    BY <1>2
  <2> DEFINE g == [i \in 0..(k + 1) |-> IF i = k + 1 THEN step[<<k + 1, f[k]>>] ELSE f[i]]
  <2>2. step[<<k + 1, f[k]>>] \in R
    OBVIOUS
  <2>3. g \in [0..(k + 1) -> R]
    BY <2>2
  <2>4. g[0] = r
    BY <2>1
  <2>5. ASSUME NEW n \in 1..(k + 1) PROVE g[n] = step[<<n, g[n - 1]>>]
    <3>1. n - 1 \in 0..k /\ n - 1 # k + 1
      OBVIOUS
    <3>2. g[n - 1] = f[n - 1]
      BY <3>1
    <3>3. CASE n = k + 1
      <4>1. n - 1 = k /\ g[n] = step[<<k + 1, f[k]>>]
        BY <3>3
      <4> QED BY <4>1, <3>2, <3>3
    <3>4. CASE n # k + 1
      <4>1. n \in 1..k /\ g[n] = f[n]
        BY <3>4
      <4> QED BY <4>1, <3>2, <2>1
    <3> QED BY <3>3, <3>4
  <2>6. Follows(g, k + 1)
    BY <2>4, <2>5
  <2> QED BY <2>3, <2>6
<1>3. m \in T
  <2> HIDE DEF T
  <2> QED BY <1>1, <1>2, SetInduction
<1> QED BY <1>3 DEF Iterates

(* Two functions on 0..m that start and go on alike are alike.              *)
Alike(f, g, m) ==
  f[0] = g[0] /\ \A n \in 1..m : f[n - 1] = g[n - 1] => f[n] = g[n]

LEMMA SameIteration ==
  ASSUME NEW f, NEW g, NEW m, m \in Nat, Alike(f, g, m)
  PROVE  f[m] = g[m]
<1> USE DEF Alike
<1> DEFINE T == {k \in Nat : k <= m => f[k] = g[k]}
<1>1. 0 \in T
  OBVIOUS
<1>2. ASSUME NEW k \in Nat, k \in T PROVE k + 1 \in T
  <2>1. CASE k + 1 <= m
    <3>1. k + 1 \in 1..m /\ (k + 1) - 1 = k /\ f[k] = g[k]
      BY <1>2, <2>1
    <3>2. f[(k + 1) - 1] = g[(k + 1) - 1]
      BY <3>1
    <3> QED BY <3>1, <3>2
  <2>2. CASE ~(k + 1 <= m)
    BY <2>2
  <2> QED BY <2>1, <2>2
<1>3. Nat \subseteq T
  <2> HIDE DEF T
  <2> QED BY <1>1, <1>2, SetInduction
<1> QED BY <1>3

(* Induction up to m.                                                       *)
LEMMA BoundedInduction ==
  ASSUME NEW m, NEW T, m \in Nat, 0 \in T, \A n \in 1..m : n - 1 \in T => n \in T
  PROVE  0..m \subseteq T
<1> DEFINE U == {k \in Nat : k <= m => k \in T}
<1>1. 0 \in U
  OBVIOUS
<1>2. ASSUME NEW k \in Nat, k \in U PROVE k + 1 \in U
  <2>1. CASE k + 1 <= m
    <3>1. k + 1 \in 1..m /\ (k + 1) - 1 \in T
      BY <1>2, <2>1
    <3>2. k + 1 \in T
      BY <3>1
    <3> QED BY <3>2
  <2>2. CASE ~(k + 1 <= m)
    BY <2>2
  <2> QED BY <2>1, <2>2
<1>3. Nat \subseteq U
  <2> HIDE DEF U
  <2> QED BY <1>1, <1>2, SetInduction
<1> QED BY <1>3

-----------------------------------------------------------------------------
(* Sums.                                                                    *)
Points(f, S) == UNION {{x} \X (1..f[x]) : x \in S}

(* Every term is a natural number. *)
Summable(f, S) == IsFiniteSet(S) /\ \A x \in S : f[x] \in Nat

LEMMA PointsFinite ==
  ASSUME NEW S, NEW f, Summable(f, S)
  PROVE  IsFiniteSet(Points(f, S))
<1> DEFINE Column(x) == {x} \X (1..f[x])
           Columns == {Column(x) : x \in S}
           g == [x \in S |-> Column(x)]
<1>1. g \in Surjection(S, Columns)
  BY DEF Surjection
<1>2. IsFiniteSet(Columns)
  <2> HIDE DEF g, Columns
  <2> QED BY <1>1, FS_Surjection DEF Summable
<1>3. ASSUME NEW C \in Columns PROVE IsFiniteSet(C)
  <2>1. PICK x \in S : C = Column(x)
    OBVIOUS
  <2>2. f[x] \in Nat
    BY DEF Summable
  <2>3. IsFiniteSet({x}) /\ IsFiniteSet(1..f[x])
    <3>1. IsFiniteSet({x})
      BY FS_Singleton
    <3>2. IsFiniteSet(1..f[x])
      BY <2>2, FS_Interval
    <3> QED BY <3>1, <3>2
  <2> HIDE DEF Columns
  <2> QED BY <2>1, <2>3, FS_Product
<1> HIDE DEF Columns, Column
<1>4. IsFiniteSet(UNION Columns)
  BY <1>2, <1>3, FS_UNION
<1> QED BY <1>4 DEF Points, Columns, Column

LEMMA SumType ==
  ASSUME NEW S, NEW f, Summable(f, S)
  PROVE  SumOver(f, S) \in Nat
BY PointsFinite, FS_CardinalityType DEF SumOver, Points

LEMMA SumEmpty ==
  ASSUME NEW f
  PROVE  SumOver(f, {}) = 0
<1>1. UNION {{x} \X (1..f[x]) : x \in {}} = {}
  OBVIOUS
<1> QED BY <1>1, FS_EmptySet DEF SumOver

(* The sum over two sets without a common member. *)
LEMMA SumUnion ==
  ASSUME NEW A, NEW B, NEW f, Summable(f, A), Summable(f, B), A \cap B = {}
  PROVE  SumOver(f, A \cup B) = SumOver(f, A) + SumOver(f, B)
<1>1. IsFiniteSet(Points(f, A)) /\ IsFiniteSet(Points(f, B))
  BY PointsFinite
<1>2. Points(f, A \cup B) = Points(f, A) \cup Points(f, B)
  BY DEF Points
<1>3. Points(f, A) \cap Points(f, B) = {}
  <2> SUFFICES ASSUME NEW p \in Points(f, A), p \in Points(f, B) PROVE FALSE
    OBVIOUS
  <2>1. PICK x \in A : p \in {x} \X (1..f[x])
    BY DEF Points
  <2>2. PICK y \in B : p \in {y} \X (1..f[y])
    BY DEF Points
  <2> QED BY <2>1, <2>2
<1>4. Cardinality(Points(f, A \cup B))
        = Cardinality(Points(f, A)) + Cardinality(Points(f, B))
  <2>1. Cardinality(Points(f, A) \cup Points(f, B))
          = Cardinality(Points(f, A)) + Cardinality(Points(f, B)) - Cardinality({})
    BY <1>1, <1>3, FS_Union
  <2>2. Cardinality({}) = 0
    BY FS_EmptySet
  <2>3. Cardinality(Points(f, A)) \in Nat /\ Cardinality(Points(f, B)) \in Nat
    BY <1>1, FS_CardinalityType
  <2> DEFINE m == Cardinality(Points(f, A))
             n == Cardinality(Points(f, B))
             z == Cardinality({})
  <2>4. Cardinality(Points(f, A) \cup Points(f, B)) = m + n
    <3>1. Cardinality(Points(f, A) \cup Points(f, B)) = m + n - z
      BY <2>1
    <3>2. z = 0 /\ m \in Nat /\ n \in Nat
      BY <2>2, <2>3
    <3> HIDE DEF m, n, z
    <3> QED BY <3>1, <3>2
  <2> QED BY <1>2, <2>4
<1> QED BY <1>4 DEF SumOver, Points

LEMMA SumOne ==
  ASSUME NEW x, NEW f, f[x] \in Nat
  PROVE  SumOver(f, {x}) = f[x]
<1> DEFINE P == {x} \X (1..f[x])
<1>1. UNION {{y} \X (1..f[y]) : y \in {x}} = P
  OBVIOUS
<1>2. Cardinality(P) = f[x]
  <2>1. IsFiniteSet({x}) /\ Cardinality({x}) = 1
    BY FS_Singleton
  <2>2. IsFiniteSet(1..f[x]) /\ Cardinality(1..f[x]) = f[x]
    <3>1. /\ IsFiniteSet(1..f[x])
          /\ Cardinality(1..f[x]) = IF 1 > f[x] THEN 0 ELSE f[x] - 1 + 1
      BY FS_Interval, SMTT(30)
    <3> QED BY <3>1
  <2>3. Cardinality(P) = Cardinality({x}) * Cardinality(1..f[x])
    BY <2>1, <2>2, FS_Product
  <2>4. Cardinality(P) = 1 * f[x]
    BY <2>1, <2>2, <2>3
  <2> QED BY <2>4
<1> HIDE DEF P
<1> QED BY <1>1, <1>2 DEF SumOver

LEMMA SumAdd ==
  ASSUME NEW A, NEW x, NEW f, Summable(f, A), f[x] \in Nat, x \notin A
  PROVE  SumOver(f, A \cup {x}) = SumOver(f, A) + f[x]
<1>1. Summable(f, {x}) /\ A \cap {x} = {}
  BY FS_Singleton DEF Summable
<1> QED BY <1>1, SumUnion, SumOne

(* A part sums up to less, by the sum of the rest. *)
LEMMA SumSplit ==
  ASSUME NEW B, NEW A \in SUBSET B, NEW f, Summable(f, B)
  PROVE  /\ Summable(f, A) /\ Summable(f, B \ A)
         /\ SumOver(f, B) = SumOver(f, A) + SumOver(f, B \ A)
         /\ SumOver(f, A) <= SumOver(f, B)
<1>1. Summable(f, A) /\ Summable(f, B \ A)
  BY FS_Subset, FS_Difference DEF Summable
<1>2. A \cup (B \ A) = B /\ A \cap (B \ A) = {}
  OBVIOUS
<1>3. SumOver(f, B) = SumOver(f, A) + SumOver(f, B \ A)
  BY <1>1, <1>2, SumUnion
<1> QED BY <1>1, <1>3, SumType

-----------------------------------------------------------------------------
(* Balances along a sequence of transactions.                               *)

LEMMA FirstTxsGrows ==
  ASSUME NEW txs \in Seq(Txs), IsInjective(txs), NEW n \in 1..Len(txs)
  PROVE  /\ FirstTxs(txs, n) = FirstTxs(txs, n - 1) \cup {txs[n]}
         /\ txs[n] \notin FirstTxs(txs, n - 1)
         /\ FirstTxs(txs, n - 1) \subseteq Txs
         /\ FirstTxs(txs, n) \subseteq Txs
         /\ txs[n] \in Txs
<1>1. DOMAIN txs = 1..Len(txs) /\ \A i \in 1..Len(txs) : txs[i] \in Txs
  OBVIOUS
<1>2. 1..n = (1..(n - 1)) \cup {n} /\ 1..n \subseteq 1..Len(txs) /\ n \notin 1..(n - 1)
  OBVIOUS
<1> QED BY <1>1, <1>2 DEF FirstTxs, IsInjective

LEMMA FirstTxsEnds ==
  ASSUME NEW txs \in Seq(Txs)
  PROVE  FirstTxs(txs, 0) = {} /\ FirstTxs(txs, Len(txs)) = ToSet(txs)
BY DEF FirstTxs, ToSet

(* Functions that tell what a transaction is worth. *)
Worths == [Txs -> Nat]

LEMMA WorthSummable ==
  ASSUME AccountsAssumption, NEW f \in Worths, NEW S \in SUBSET Txs
  PROVE  Summable(f, S) /\ SumOver(f, S) \in Nat
<1>1. Summable(f, S)
  BY FS_Subset DEF Summable, Worths, AccountsAssumption
<1> QED BY <1>1, SumType

(* A quantity that every transaction of a sequence changes by what it is    *)
(* worth.                                                                   *)
LEMMA RunningSum ==
  ASSUME AccountsAssumption,
         NEW txs \in Seq(Txs), IsInjective(txs),
         NEW more \in Worths, NEW less \in Worths,
         NEW x \in [0..Len(txs) -> Int],
         \A n \in 1..Len(txs) : x[n] = x[n - 1] + more[txs[n]] - less[txs[n]]
  PROVE  \A n \in 0..Len(txs) :
           x[n] = x[0] + SumOver(more, FirstTxs(txs, n)) - SumOver(less, FirstTxs(txs, n))
<1> DEFINE Holds(n) ==
             x[n] = x[0] + SumOver(more, FirstTxs(txs, n)) - SumOver(less, FirstTxs(txs, n))
           T == {n \in Nat : n <= Len(txs) => Holds(n)}
<1>1. 0 \in T
  <2>1. SumOver(more, FirstTxs(txs, 0)) = 0 /\ SumOver(less, FirstTxs(txs, 0)) = 0
    BY FirstTxsEnds, SumEmpty
  <2>2. x[0] \in Int
    OBVIOUS
  <2> QED BY <2>1, <2>2
<1>2. ASSUME NEW n \in Nat, n \in T PROVE n + 1 \in T
  <2> SUFFICES ASSUME n + 1 <= Len(txs) PROVE Holds(n + 1)
    OBVIOUS
  <2> DEFINE t == txs[n + 1]
             A == FirstTxs(txs, n)
  <2>1. n + 1 \in 1..Len(txs) /\ (n + 1) - 1 = n
    OBVIOUS
  <2>2. FirstTxs(txs, n + 1) = A \cup {t} /\ t \notin A /\ A \subseteq Txs /\ t \in Txs
    BY <2>1, FirstTxsGrows
  <2>3. /\ Summable(more, A) /\ Summable(less, A)
        /\ SumOver(more, A) \in Nat /\ SumOver(less, A) \in Nat
        /\ more[t] \in Nat /\ less[t] \in Nat
    BY <2>2, WorthSummable DEF Worths
  <2>4. /\ SumOver(more, FirstTxs(txs, n + 1)) = SumOver(more, A) + more[t]
        /\ SumOver(less, FirstTxs(txs, n + 1)) = SumOver(less, A) + less[t]
    <3> HIDE DEF A, t
    <3>1. SumOver(more, A \cup {t}) = SumOver(more, A) + more[t]
      BY <2>2, <2>3, SumAdd
    <3>2. SumOver(less, A \cup {t}) = SumOver(less, A) + less[t]
      BY <2>2, <2>3, SumAdd
    <3> QED BY <2>2, <3>1, <3>2
  <2>5. x[n + 1] = x[n] + more[t] - less[t] /\ x[n] \in Int /\ x[0] \in Int
    <3>1. x[n + 1] = x[(n + 1) - 1] + more[t] - less[t]
      BY <2>1
    <3>2. n \in 0..Len(txs) /\ 0 \in 0..Len(txs)
      OBVIOUS
    <3> QED BY <2>1, <3>1, <3>2
  <2>6. x[n] = x[0] + SumOver(more, A) - SumOver(less, A)
    BY <1>2
  <2> DEFINE a == SumOver(more, A)
             b == SumOver(less, A)
  <2>7. x[n + 1] = x[0] + (a + more[t]) - (b + less[t])
    <3>1. a \in Nat /\ b \in Nat /\ x[n] = x[0] + a - b
      BY <2>3, <2>6
    <3>2. more[t] \in Nat /\ less[t] \in Nat /\ x[0] \in Int
      BY <2>3, <2>5
    <3>3. \A p \in Int : \A c, d, e, h \in Nat :
            (p + c - d) + e - h = p + (c + e) - (d + h)
      OBVIOUS
    <3>4. x[n + 1] = (x[0] + a - b) + more[t] - less[t]
      BY <2>5, <3>1
    <3> HIDE DEF A, t, a, b
    <3>5. (x[0] + a - b) + more[t] - less[t] = x[0] + (a + more[t]) - (b + less[t])
      BY ONLY <3>1, <3>2, <3>3
    <3> QED BY ONLY <3>4, <3>5
  <2> HIDE DEF A, t
  <2> QED BY <2>4, <2>7
<1>3. Nat \subseteq T
  <2> HIDE DEF T
  <2> QED BY <1>1, <1>2, SetInduction
<1> QED BY <1>3

-----------------------------------------------------------------------------
(* Updates.  A refused update leaves tables that nobody reads, with any     *)
(* integers; as long as none is refused the tables hold natural numbers.    *)
IntTables == [AccountIds -> [balance : Int, u_balance : Int]]
Results == {r \in [ok : BOOLEAN, db : IntTables] : r.ok => r.db \in Tables}

LEMMA UnharmedResult ==
  ASSUME NEW tables \in Tables
  PROVE  Unharmed(tables) \in Results
BY DEF Unharmed, Results, IntTables, Tables, Balances

LEMMA UpdateEffect ==
  ASSUME NEW r \in Results, NEW a \in AccountIds, NEW b \in Int, NEW u \in Int
  PROVE  LET s == Update(r, Diff(a, b, u)) IN
         /\ s \in Results
         /\ \A c \in AccountIds :
              /\ s.db[c].balance = r.db[c].balance + (IF c = a THEN b ELSE 0)
              /\ s.db[c].u_balance = r.db[c].u_balance + (IF c = a THEN u ELSE 0)
         /\ s.ok <=> r.ok /\ r.db[a].balance + b >= 0 /\ r.db[a].u_balance + u >= 0
<1> DEFINE s == Update(r, Diff(a, b, u))
           row == [balance |-> r.db[a].balance + b, u_balance |-> r.db[a].u_balance + u]
<1>1. /\ r.ok \in BOOLEAN /\ r.db \in IntTables
      /\ r.ok => r.db \in Tables
  BY DEF Results
<1>2. /\ r.db[a].balance \in Int /\ r.db[a].u_balance \in Int
      /\ row \in [balance : Int, u_balance : Int]
  BY <1>1 DEF IntTables
<1>3. s = [ok |-> r.ok /\ row.balance >= 0 /\ row.u_balance >= 0,
           db |-> [r.db EXCEPT ![a] = row]]
  BY DEF Update, Diff
<1> HIDE DEF s
<1>4. s.ok = (r.ok /\ row.balance >= 0 /\ row.u_balance >= 0)
  <2> HIDE DEF row
  <2> QED BY <1>3, Zenon
<1>5. s.db = [r.db EXCEPT ![a] = row]
  <2> HIDE DEF row
  <2> QED BY <1>3, Zenon
<1>6. s.db \in IntTables
  BY <1>1, <1>2, <1>5 DEF IntTables
<1>7. ASSUME s.ok PROVE s.db \in Tables
  <2>1. row \in Balances
    <3>1. row.balance >= 0 /\ row.u_balance >= 0
      BY <1>4, <1>7
    <3> QED BY <1>2, <3>1 DEF Balances
  <2>2. r.db \in Tables
    BY <1>1, <1>4, <1>7
  <2> QED BY <1>5, <2>1, <2>2 DEF Tables
<1>8. s \in [ok : BOOLEAN, db : IntTables]
  <2> DEFINE ok == r.ok /\ row.balance >= 0 /\ row.u_balance >= 0
             d == [r.db EXCEPT ![a] = row]
  <2>1. ok \in BOOLEAN /\ d \in IntTables /\ s = [ok |-> ok, db |-> d]
    BY <1>3, <1>5, <1>6
  <2> HIDE DEF ok, d, row
  <2> QED BY <2>1, Zenon
<1>9. s \in Results
  BY <1>7, <1>8, Zenon DEF Results
<1>10. ASSUME NEW c \in AccountIds
       PROVE  /\ s.db[c].balance = r.db[c].balance + (IF c = a THEN b ELSE 0)
              /\ s.db[c].u_balance = r.db[c].u_balance + (IF c = a THEN u ELSE 0)
  <2>1. r.db[c].balance \in Int /\ r.db[c].u_balance \in Int
    BY <1>1 DEF IntTables
  <2>2. DOMAIN r.db = AccountIds
    BY <1>1 DEF IntTables
  <2>3. CASE c = a
    BY <1>5, <2>2, <2>3
  <2>4. CASE c # a
    BY <1>5, <2>1, <2>2, <2>4
  <2> QED BY <2>3, <2>4
<1>11. s.ok <=> r.ok /\ r.db[a].balance + b >= 0 /\ r.db[a].u_balance + u >= 0
  BY <1>4
<1>12. /\ s \in Results
       /\ \A c \in AccountIds :
            /\ s.db[c].balance = r.db[c].balance + (IF c = a THEN b ELSE 0)
            /\ s.db[c].u_balance = r.db[c].u_balance + (IF c = a THEN u ELSE 0)
       /\ s.ok <=> r.ok /\ r.db[a].balance + b >= 0 /\ r.db[a].u_balance + u >= 0
  BY <1>9, <1>10, <1>11
<1> QED BY <1>12 DEF s

-----------------------------------------------------------------------------
(* performOps, list by list.                                                *)
Diffs == [address : AccountIds, balance : Int, u_balance : Int]

LEMMA UpdateType ==
  ASSUME NEW r \in Results, NEW d \in Diffs
  PROVE  Update(r, d) \in Results
<1>1. PICK a \in AccountIds, b \in Int, u \in Int : d = Diff(a, b, u)
  BY DEF Diffs, Diff
<1>2. Update(r, Diff(a, b, u)) \in Results
  BY UpdateEffect
<1> QED BY <1>1, <1>2

LEMMA PerformOpsSteps ==
  ASSUME NEW ops \in Seq(Diffs), NEW r \in Results
  PROVE  \E f \in [0..Len(ops) -> Results] :
           /\ f[0] = r
           /\ \A n \in 1..Len(ops) : f[n] = Update(f[n - 1], ops[n])
           /\ PerformOps(ops, r) = f[Len(ops)]
<1>1. PICK m \in Nat : m = Len(ops)
  OBVIOUS
<1>2. \A n \in 1..m : ops[n] \in Diffs
  BY <1>1
<1> DEFINE step == [p \in (1..m) \X Results |-> Update(p[2], ops[p[1]])]
           after == CHOOSE g : g = [n \in 0..m |-> IF n = 0 THEN r ELSE Update(g[n - 1], ops[n])]
<1>3. step \in [(1..m) \X Results -> Results]
  <2> SUFFICES ASSUME NEW n \in 1..m, NEW x \in Results PROVE Update(x, ops[n]) \in Results
    OBVIOUS
  <2> QED BY <1>2, UpdateType
<1>4. PerformOps(ops, r) = after[m]
  BY <1>1 DEF PerformOps
<1>5. \A n \in 1..m, x \in Results : step[<<n, x>>] = Update(x, ops[n])
  OBVIOUS
<1> HIDE DEF step
<1>6. PICK f \in [0..m -> Results] :
        f[0] = r /\ \A n \in 1..m : f[n] = step[<<n, f[n - 1]>>]
  <2>1. IsStep(step, m, Results)
    BY <1>3 DEF IsStep
  <2>2. PICK f : Iterates(f, step, r, m, Results)
    BY <2>1, Iteration
  <2> QED BY <2>2 DEF Iterates
<1>7. f = [n \in 0..m |-> IF n = 0 THEN r ELSE Update(f[n - 1], ops[n])]
  <2>1. \A n \in 1..m : f[n - 1] \in Results
    OBVIOUS
  <2>2. \A n \in 1..m : f[n] = Update(f[n - 1], ops[n])
    BY <1>5, <1>6, <2>1
  <2> QED BY <1>6, <2>2
<1>8. after = [n \in 0..m |-> IF n = 0 THEN r ELSE Update(after[n - 1], ops[n])]
  BY <1>7, Zenon
<1> HIDE DEF after
<1>9. f[0] = after[0] /\ \A n \in 1..m : f[n - 1] = after[n - 1] => f[n] = after[n]
  BY <1>7, <1>8
<1>10. f[m] = after[m]
  <2>1. Alike(f, after, m)
    BY <1>9 DEF Alike
  <2> QED BY <2>1, SameIteration
<1>11. \A n \in 1..m : f[n] = Update(f[n - 1], ops[n])
  BY <1>7
<1> QED BY <1>1, <1>4, <1>6, <1>10, <1>11

LEMMA PerformOpsType ==
  ASSUME NEW ops \in Seq(Diffs), NEW r \in Results
  PROVE  PerformOps(ops, r) \in Results
<1>1. PICK f \in [0..Len(ops) -> Results] : PerformOps(ops, r) = f[Len(ops)]
  BY PerformOpsSteps
<1> QED BY <1>1

LEMMA PerformAllSteps ==
  ASSUME NEW lists \in Seq(Seq(Diffs)), NEW r \in Results
  PROVE  \E f \in [0..Len(lists) -> Results] :
           /\ f[0] = r
           /\ \A n \in 1..Len(lists) : f[n] = PerformOps(lists[n], f[n - 1])
           /\ PerformAll(lists, r) = f[Len(lists)]
<1>1. PICK m \in Nat : m = Len(lists)
  OBVIOUS
<1>2. \A n \in 1..m : lists[n] \in Seq(Diffs)
  BY <1>1
<1> DEFINE step == [p \in (1..m) \X Results |-> PerformOps(lists[p[1]], p[2])]
           after == CHOOSE g : g = [n \in 0..m |-> IF n = 0 THEN r ELSE PerformOps(lists[n], g[n - 1])]
<1>3. step \in [(1..m) \X Results -> Results]
  <2> SUFFICES ASSUME NEW n \in 1..m, NEW x \in Results
               PROVE  PerformOps(lists[n], x) \in Results
    OBVIOUS
  <2> QED BY <1>2, PerformOpsType
<1>4. PerformAll(lists, r) = after[m]
  BY <1>1 DEF PerformAll
<1>5. \A n \in 1..m, x \in Results : step[<<n, x>>] = PerformOps(lists[n], x)
  OBVIOUS
<1> HIDE DEF step
<1>6. PICK f \in [0..m -> Results] :
        f[0] = r /\ \A n \in 1..m : f[n] = step[<<n, f[n - 1]>>]
  <2>1. IsStep(step, m, Results)
    BY <1>3 DEF IsStep
  <2>2. PICK f : Iterates(f, step, r, m, Results)
    BY <2>1, Iteration
  <2> QED BY <2>2 DEF Iterates
<1>7. f = [n \in 0..m |-> IF n = 0 THEN r ELSE PerformOps(lists[n], f[n - 1])]
  <2>1. \A n \in 1..m : f[n - 1] \in Results
    OBVIOUS
  <2>2. \A n \in 1..m : f[n] = PerformOps(lists[n], f[n - 1])
    BY <1>5, <1>6, <2>1
  <2> QED BY <1>6, <2>2
<1>8. after = [n \in 0..m |-> IF n = 0 THEN r ELSE PerformOps(lists[n], after[n - 1])]
  BY <1>7, Zenon
<1> HIDE DEF after
<1>9. f[0] = after[0] /\ \A n \in 1..m : f[n - 1] = after[n - 1] => f[n] = after[n]
  BY <1>7, <1>8
<1>10. f[m] = after[m]
  <2>1. Alike(f, after, m)
    BY <1>9 DEF Alike
  <2> QED BY <2>1, SameIteration
<1>11. \A n \in 1..m : f[n] = PerformOps(lists[n], f[n - 1])
  BY <1>7
<1> QED BY <1>1, <1>4, <1>6, <1>10, <1>11

LEMMA PerformAllType ==
  ASSUME NEW lists \in Seq(Seq(Diffs)), NEW r \in Results
  PROVE  PerformAll(lists, r) \in Results
<1>1. PICK f \in [0..Len(lists) -> Results] : PerformAll(lists, r) = f[Len(lists)]
  BY PerformAllSteps
<1> QED BY <1>1

(* Lists of two operations at most. *)
LEMMA PerformNone ==
  ASSUME NEW r \in Results
  PROVE  PerformOps(<<>>, r) = r
<1> DEFINE ops == <<>>
<1>1. ops \in Seq(Diffs) /\ Len(ops) = 0
  OBVIOUS
<1> HIDE DEF ops
<1>2. PICK f \in [0..Len(ops) -> Results] :
        /\ f[0] = r
        /\ \A n \in 1..Len(ops) : f[n] = Update(f[n - 1], ops[n])
        /\ PerformOps(ops, r) = f[Len(ops)]
  BY <1>1, PerformOpsSteps
<1> QED BY <1>1, <1>2 DEF ops

LEMMA PerformOne ==
  ASSUME NEW r \in Results, NEW d \in Diffs
  PROVE  PerformOps(<<d>>, r) = Update(r, d)
<1> DEFINE ops == <<d>>
<1>1. ops \in Seq(Diffs) /\ Len(ops) = 1 /\ ops[1] = d
  OBVIOUS
<1> HIDE DEF ops
<1>2. PICK f \in [0..Len(ops) -> Results] :
        /\ f[0] = r
        /\ \A n \in 1..Len(ops) : f[n] = Update(f[n - 1], ops[n])
        /\ PerformOps(ops, r) = f[Len(ops)]
  BY <1>1, PerformOpsSteps
<1>3. f[1] = Update(f[1 - 1], ops[1]) /\ 1 - 1 = 0
  BY <1>1, <1>2
<1> QED BY <1>1, <1>2, <1>3 DEF ops

LEMMA PerformTwo ==
  ASSUME NEW r \in Results, NEW d \in Diffs, NEW e \in Diffs
  PROVE  PerformOps(<<d, e>>, r) = Update(Update(r, d), e)
<1> DEFINE ops == <<d, e>>
<1>1. ops \in Seq(Diffs) /\ Len(ops) = 2 /\ ops[1] = d /\ ops[2] = e
  OBVIOUS
<1> HIDE DEF ops
<1>2. PICK f \in [0..Len(ops) -> Results] :
        /\ f[0] = r
        /\ \A n \in 1..Len(ops) : f[n] = Update(f[n - 1], ops[n])
        /\ PerformOps(ops, r) = f[Len(ops)]
  BY <1>1, PerformOpsSteps
<1>3. /\ f[1] = Update(f[1 - 1], ops[1]) /\ 1 - 1 = 0
      /\ f[2] = Update(f[2 - 1], ops[2]) /\ 2 - 1 = 1
  BY <1>1, <1>2
<1> QED BY <1>1, <1>2, <1>3 DEF ops

LEMMA PerformThree ==
  ASSUME NEW r \in Results, NEW d \in Diffs, NEW e \in Diffs, NEW h \in Diffs
  PROVE  PerformOps(<<d, e, h>>, r) = Update(Update(Update(r, d), e), h)
<1> DEFINE ops == <<d, e, h>>
<1>1. ops \in Seq(Diffs) /\ Len(ops) = 3 /\ ops[1] = d /\ ops[2] = e /\ ops[3] = h
  OBVIOUS
<1> HIDE DEF ops
<1>2. PICK f \in [0..Len(ops) -> Results] :
        /\ f[0] = r
        /\ \A n \in 1..Len(ops) : f[n] = Update(f[n - 1], ops[n])
        /\ PerformOps(ops, r) = f[Len(ops)]
  BY <1>1, PerformOpsSteps
<1>3. /\ f[1] = Update(f[1 - 1], ops[1]) /\ 1 - 1 = 0
      /\ f[2] = Update(f[2 - 1], ops[2]) /\ 2 - 1 = 1
      /\ f[3] = Update(f[3 - 1], ops[3]) /\ 3 - 1 = 2
  BY <1>1, <1>2
<1> QED BY <1>1, <1>2, <1>3 DEF ops

-----------------------------------------------------------------------------
(* Transactions.  What a gets from a transaction, and from those of S.      *)
Got(a) == [t \in Txs |-> IF Recipient[t] = a THEN Amount[t] ELSE 0]
Received(S, a) == SumOver(Got(a), S)

LEMMA TxWorth ==
  ASSUME AccountsAssumption
  PROVE  /\ \A t \in Txs : /\ Sender[t] \in AccountIds /\ Recipient[t] \in AccountIds
                           /\ Amount[t] \in Nat /\ Fee[t] \in Nat /\ Cost(t) \in Nat
         /\ \A a \in AccountIds : Paid(a) \in Worths /\ Got(a) \in Worths
<1>1. \A t \in Txs : /\ Sender[t] \in AccountIds /\ Recipient[t] \in AccountIds
                     /\ Amount[t] \in Nat /\ Fee[t] \in Nat /\ Cost(t) \in Nat
  BY DEF AccountsAssumption, Cost
<1>2. \A a \in AccountIds : Paid(a) \in Worths /\ Got(a) \in Worths
  BY <1>1 DEF Paid, Got, Worths
<1> QED BY <1>1, <1>2

LEMMA ResultRows ==
  ASSUME NEW r \in Results, NEW a \in AccountIds
  PROVE  /\ r.ok \in BOOLEAN /\ r.db \in IntTables /\ r.ok => r.db \in Tables
         /\ r.db[a].balance \in Int /\ r.db[a].u_balance \in Int
         /\ r.ok => r.db[a].balance >= 0 /\ r.db[a].u_balance >= 0
<1>1. r.ok \in BOOLEAN /\ r.db \in IntTables /\ (r.ok => r.db \in Tables)
  BY DEF Results
<1>2. r.db[a].balance \in Int /\ r.db[a].u_balance \in Int
  BY <1>1 DEF IntTables
<1>3. ASSUME r.ok PROVE r.db[a].balance >= 0 /\ r.db[a].u_balance >= 0
  BY <1>1, <1>3 DEF Tables, Balances
<1> QED BY <1>1, <1>2, <1>3

LEMMA ApplyEffect ==
  ASSUME AccountsAssumption, NEW r \in Results, NEW t \in Txs
  PROVE  LET s == PerformOps(ApplyOps(t), r) IN
         /\ s \in Results
         /\ \A c \in AccountIds :
              /\ s.db[c].balance = r.db[c].balance + Got(c)[t] - Paid(c)[t]
              /\ s.db[c].u_balance = r.db[c].u_balance + Got(c)[t]
         /\ r.ok /\ r.db[Sender[t]].balance >= Cost(t) => s.ok
<1> DEFINE from == Sender[t]
           to == Recipient[t]
           cost == Cost(t)
           q == Update(r, Diff(from, -cost, 0))
           s == Update(q, Diff(to, Amount[t], Amount[t]))
<1>1. from \in AccountIds /\ to \in AccountIds /\ cost \in Nat /\ Amount[t] \in Nat
  BY TxWorth
<1>2. /\ q \in Results
      /\ \A c \in AccountIds :
           /\ q.db[c].balance = r.db[c].balance + (IF c = from THEN -cost ELSE 0)
           /\ q.db[c].u_balance = r.db[c].u_balance + (IF c = from THEN 0 ELSE 0)
      /\ q.ok <=> r.ok /\ r.db[from].balance + -cost >= 0 /\ r.db[from].u_balance + 0 >= 0
  <2>1. -cost \in Int /\ 0 \in Int
    BY <1>1
  <2> HIDE DEF cost, from
  <2> QED BY <1>1, <2>1, UpdateEffect
<1>3. /\ s \in Results
      /\ \A c \in AccountIds :
           /\ s.db[c].balance = q.db[c].balance + (IF c = to THEN Amount[t] ELSE 0)
           /\ s.db[c].u_balance = q.db[c].u_balance + (IF c = to THEN Amount[t] ELSE 0)
      /\ s.ok <=> q.ok /\ q.db[to].balance + Amount[t] >= 0
                       /\ q.db[to].u_balance + Amount[t] >= 0
  <2> HIDE DEF q, to
  <2> QED BY <1>1, <1>2, UpdateEffect
<1>4. \A c \in AccountIds : /\ Got(c)[t] = IF c = to THEN Amount[t] ELSE 0
                            /\ Paid(c)[t] = IF c = from THEN cost ELSE 0
  BY DEF Got, Paid
<1>5. PerformOps(ApplyOps(t), r) = s
  <2>1. Diff(from, -cost, 0) \in Diffs /\ Diff(to, Amount[t], Amount[t]) \in Diffs
    BY <1>1 DEF Diff, Diffs
  <2>2. ApplyOps(t) = <<Diff(from, -cost, 0), Diff(to, Amount[t], Amount[t])>>
    BY DEF ApplyOps
  <2> HIDE DEF from, to, cost
  <2> QED BY <2>1, <2>2, PerformTwo DEF q, s
<1> HIDE DEF s, q, from, to, cost
<1>6. ASSUME NEW c \in AccountIds
      PROVE  /\ s.db[c].balance = r.db[c].balance + Got(c)[t] - Paid(c)[t]
             /\ s.db[c].u_balance = r.db[c].u_balance + Got(c)[t]
  <2>1. r.db[c].balance \in Int /\ r.db[c].u_balance \in Int
    BY ResultRows
  <2> QED BY <1>1, <1>2, <1>3, <1>4, <2>1
<1>7. ASSUME r.ok, r.db[from].balance >= cost PROVE s.ok
  <2>1. r.db[from].balance \in Int /\ r.db[from].u_balance \in Int /\ r.db[from].u_balance >= 0
    BY <1>1, <1>7, ResultRows
  <2>2. q.ok
    BY <1>1, <1>2, <1>7, <2>1
  <2>3. /\ q.db[to].balance \in Int /\ q.db[to].u_balance \in Int
        /\ q.db[to].balance >= 0 /\ q.db[to].u_balance >= 0
    BY <1>1, <1>2, <2>2, ResultRows
  <2> QED BY <1>1, <1>3, <2>2, <2>3
<1>8. /\ s \in Results
      /\ \A c \in AccountIds :
           /\ s.db[c].balance = r.db[c].balance + Got(c)[t] - Paid(c)[t]
           /\ s.db[c].u_balance = r.db[c].u_balance + Got(c)[t]
      /\ r.ok /\ r.db[Sender[t]].balance >= Cost(t) => s.ok
  BY <1>3, <1>6, <1>7 DEF from, cost
<1> QED BY <1>5, <1>8

LEMMA UndoUnconfirmedEffect ==
  ASSUME AccountsAssumption, NEW r \in Results, NEW t \in Txs
  PROVE  LET s == PerformOps(UndoUnconfirmedOps(t), r) IN
         /\ s \in Results
         /\ \A c \in AccountIds :
              /\ s.db[c].balance = r.db[c].balance
              /\ s.db[c].u_balance = r.db[c].u_balance + Paid(c)[t]
         /\ r.ok => s.ok
<1> DEFINE from == Sender[t]
           cost == Cost(t)
           s == Update(r, Diff(from, 0, cost))
<1>1. from \in AccountIds /\ cost \in Nat
  BY TxWorth
<1>2. /\ s \in Results
      /\ \A c \in AccountIds :
           /\ s.db[c].balance = r.db[c].balance + (IF c = from THEN 0 ELSE 0)
           /\ s.db[c].u_balance = r.db[c].u_balance + (IF c = from THEN cost ELSE 0)
      /\ s.ok <=> r.ok /\ r.db[from].balance + 0 >= 0 /\ r.db[from].u_balance + cost >= 0
  <2>1. cost \in Int /\ 0 \in Int
    BY <1>1
  <2> HIDE DEF cost, from
  <2> QED BY <1>1, <2>1, UpdateEffect
<1>3. \A c \in AccountIds : Paid(c)[t] = IF c = from THEN cost ELSE 0
  BY DEF Paid
<1>4. PerformOps(UndoUnconfirmedOps(t), r) = s
  <2>1. Diff(from, 0, cost) \in Diffs
    BY <1>1 DEF Diff, Diffs
  <2>2. UndoUnconfirmedOps(t) = <<Diff(from, 0, cost)>>
    BY DEF UndoUnconfirmedOps
  <2> HIDE DEF from, cost
  <2> QED BY <2>1, <2>2, PerformOne DEF s
<1> HIDE DEF s, from, cost
<1>5. /\ s \in Results
      /\ \A c \in AccountIds :
           /\ s.db[c].balance = r.db[c].balance
           /\ s.db[c].u_balance = r.db[c].u_balance + Paid(c)[t]
      /\ r.ok => s.ok
  BY <1>1, <1>2, <1>3, ResultRows
<1> QED BY <1>4, <1>5

LEMMA ApplyUnconfirmedEffect ==
  ASSUME AccountsAssumption, NEW r \in Results, NEW t \in Txs
  PROVE  LET s == PerformOps(ApplyUnconfirmedOps(t), r) IN
         /\ s \in Results
         /\ \A c \in AccountIds :
              /\ s.db[c].balance = r.db[c].balance
              /\ s.db[c].u_balance = r.db[c].u_balance - Paid(c)[t]
         /\ r.ok /\ r.db[Sender[t]].u_balance >= Cost(t) => s.ok
<1> DEFINE from == Sender[t]
           cost == Cost(t)
           s == Update(r, Diff(from, 0, -cost))
<1>1. from \in AccountIds /\ cost \in Nat
  BY TxWorth
<1>2. /\ s \in Results
      /\ \A c \in AccountIds :
           /\ s.db[c].balance = r.db[c].balance + (IF c = from THEN 0 ELSE 0)
           /\ s.db[c].u_balance = r.db[c].u_balance + (IF c = from THEN -cost ELSE 0)
      /\ s.ok <=> r.ok /\ r.db[from].balance + 0 >= 0 /\ r.db[from].u_balance + -cost >= 0
  <2>1. -cost \in Int /\ 0 \in Int
    BY <1>1
  <2> HIDE DEF cost, from
  <2> QED BY <1>1, <2>1, UpdateEffect
<1>3. \A c \in AccountIds : Paid(c)[t] = IF c = from THEN cost ELSE 0
  BY DEF Paid
<1>4. PerformOps(ApplyUnconfirmedOps(t), r) = s
  <2>1. Diff(from, 0, -cost) \in Diffs
    BY <1>1 DEF Diff, Diffs
  <2>2. ApplyUnconfirmedOps(t) = <<Diff(from, 0, -cost)>>
    BY DEF ApplyUnconfirmedOps
  <2> HIDE DEF from, cost
  <2> QED BY <2>1, <2>2, PerformOne DEF s
<1>5. /\ s \in Results
      /\ \A c \in AccountIds :
           /\ s.db[c].balance = r.db[c].balance
           /\ s.db[c].u_balance = r.db[c].u_balance - Paid(c)[t]
      /\ r.ok /\ r.db[from].u_balance >= cost => s.ok
  <2> HIDE DEF s, from, cost
  <2> QED BY <1>1, <1>2, <1>3, ResultRows
<1> QED BY <1>4, <1>5

LEMMA TwoAndOne ==
  ASSUME NEW d, NEW e, NEW h
  PROVE  <<d, e>> \o <<h>> = <<d, e, h>>
<1> DEFINE S == {d, e, h}
           x == <<d, e>>
           y == <<h>>
           z == <<d, e, h>>
<1>1. x \in Seq(S) /\ y \in Seq(S) /\ z \in Seq(S)
  OBVIOUS
<1>2. /\ Len(x) = 2 /\ x[1] = d /\ x[2] = e
      /\ Len(y) = 1 /\ y[1] = h
      /\ Len(z) = 3 /\ z[1] = d /\ z[2] = e /\ z[3] = h
  OBVIOUS
<1> HIDE DEF S, x, y, z
<1>3. /\ x \o y \in Seq(S) /\ Len(x \o y) = 3
      /\ (x \o y)[1] = d /\ (x \o y)[2] = e /\ (x \o y)[3] = h
  <2>1. x \o y \in Seq(S) /\ Len(x \o y) = Len(x) + Len(y)
    BY <1>1
  <2>2. \A i \in 1..Len(x) : (x \o y)[i] = x[i]
    BY <1>1
  <2>3. \A i \in 1..Len(y) : (x \o y)[Len(x) + i] = y[i]
    BY <1>1
  <2> QED BY <1>2, <2>1, <2>2, <2>3
<1>4. x \o y = z
  <2>1. \A i \in 1..3 : (x \o y)[i] = z[i]
    BY <1>2, <1>3
  <2> QED BY <1>1, <1>2, <1>3, <2>1
<1> QED BY <1>4 DEF x, y, z

LEMMA UndoEffect ==
  ASSUME AccountsAssumption, NEW r \in Results, NEW t \in Txs
  PROVE  LET s == PerformOps(UndoOps(t) \o UndoUnconfirmedOps(t), r) IN
         /\ s \in Results
         /\ \A c \in AccountIds :
              /\ s.db[c].balance = r.db[c].balance + Paid(c)[t] - Got(c)[t]
              /\ s.db[c].u_balance = r.db[c].u_balance + Paid(c)[t] - Got(c)[t]
<1> DEFINE from == Sender[t]
           to == Recipient[t]
           cost == Cost(t)
           back == -Amount[t]
           d == Diff(from, cost, 0)
           e == Diff(to, back, back)
           h == Diff(from, 0, cost)
           p == Update(r, d)
           q == Update(p, e)
           s == Update(q, h)
<1>1. /\ from \in AccountIds /\ to \in AccountIds
      /\ cost \in Nat /\ Amount[t] \in Nat /\ back \in Int /\ cost \in Int
  BY TxWorth
<1>2. \A c \in AccountIds : /\ Got(c)[t] = IF c = to THEN Amount[t] ELSE 0
                            /\ Paid(c)[t] = IF c = from THEN cost ELSE 0
  BY DEF Got, Paid
<1>3. UndoOps(t) \o UndoUnconfirmedOps(t) = <<d, e, h>>
  <2>1. UndoOps(t) = <<d, e>> /\ UndoUnconfirmedOps(t) = <<h>>
    BY DEF UndoOps, UndoUnconfirmedOps
  <2> HIDE DEF d, e, h
  <2> QED BY <2>1, TwoAndOne
<1>4. \A v \in Int : v + back = v - Amount[t]
  BY <1>1
<1> HIDE DEF from, to, cost, back
<1>5. d \in Diffs /\ e \in Diffs /\ h \in Diffs
  BY <1>1 DEF Diff, Diffs
<1>6. /\ p \in Results
      /\ \A c \in AccountIds :
           /\ p.db[c].balance = r.db[c].balance + (IF c = from THEN cost ELSE 0)
           /\ p.db[c].u_balance = r.db[c].u_balance + (IF c = from THEN 0 ELSE 0)
  BY <1>1, UpdateEffect
<1>7. /\ q \in Results
      /\ \A c \in AccountIds :
           /\ q.db[c].balance = p.db[c].balance + (IF c = to THEN back ELSE 0)
           /\ q.db[c].u_balance = p.db[c].u_balance + (IF c = to THEN back ELSE 0)
  <2> HIDE DEF p
  <2> QED BY <1>1, <1>6, UpdateEffect
<1>8. /\ s \in Results
      /\ \A c \in AccountIds :
           /\ s.db[c].balance = q.db[c].balance + (IF c = from THEN 0 ELSE 0)
           /\ s.db[c].u_balance = q.db[c].u_balance + (IF c = from THEN cost ELSE 0)
  <2> HIDE DEF q
  <2> QED BY <1>1, <1>7, UpdateEffect
<1>9. PerformOps(UndoOps(t) \o UndoUnconfirmedOps(t), r) = s
  <2> HIDE DEF d, e, h
  <2> QED BY <1>3, <1>5, PerformThree DEF p, q, s
<1> HIDE DEF p, q, s
<1>10. /\ s \in Results
       /\ \A c \in AccountIds :
            /\ s.db[c].balance = r.db[c].balance + Paid(c)[t] - Got(c)[t]
            /\ s.db[c].u_balance = r.db[c].u_balance + Paid(c)[t] - Got(c)[t]
  <2>1. ASSUME NEW c \in AccountIds
        PROVE  /\ s.db[c].balance = r.db[c].balance + Paid(c)[t] - Got(c)[t]
               /\ s.db[c].u_balance = r.db[c].u_balance + Paid(c)[t] - Got(c)[t]
    <3>1. r.db[c].balance \in Int /\ r.db[c].u_balance \in Int
      BY ResultRows
    <3>2. /\ s.db[c].balance = r.db[c].balance + (IF c = from THEN cost ELSE 0)
                                + (IF c = to THEN back ELSE 0)
          /\ s.db[c].u_balance = r.db[c].u_balance + (IF c = to THEN back ELSE 0)
                                  + (IF c = from THEN cost ELSE 0)
      BY <1>1, <1>6, <1>7, <1>8, <3>1
    <3> DEFINE paid == IF c = from THEN cost ELSE 0
               got == IF c = to THEN Amount[t] ELSE 0
    <3>3. paid \in Int /\ got \in Int /\ paid = Paid(c)[t] /\ got = Got(c)[t]
      BY <1>1, <1>2
    <3>4. \A v \in Int : v + (IF c = to THEN back ELSE 0) = v - got
      BY <1>4
    <3>5. /\ s.db[c].balance = (r.db[c].balance + paid) - got
          /\ s.db[c].u_balance = (r.db[c].u_balance - got) + paid
      <4>1. r.db[c].balance + paid \in Int
        BY <3>1, <3>3
      <4> QED BY <3>1, <3>2, <3>4, <4>1
    <3> HIDE DEF paid, got
    <3> QED BY <3>1, <3>3, <3>5
  <2> QED BY <1>8, <2>1
<1> QED BY <1>9, <1>10

-----------------------------------------------------------------------------
(* Sequences of transactions.                                               *)
Nothing == [t \in Txs |-> 0]

LEMMA SumNothing ==
  ASSUME NEW S \in SUBSET Txs
  PROVE  Nothing \in Worths /\ SumOver(Nothing, S) = 0
<1>1. Nothing \in Worths
  BY DEF Nothing, Worths
<1>2. \A x \in S : 1..Nothing[x] = {}
  BY DEF Nothing
<1>3. UNION {{x} \X (1..Nothing[x]) : x \in S} = {}
  BY <1>2
<1>4. SumOver(Nothing, S) = 0
  BY <1>3, FS_EmptySet DEF SumOver
<1> QED BY <1>1, <1>4

(* What a list of operations does to the two balances of c.                 *)
Effect(c, ops, more, less, umore, uless) ==
  \A q \in Results :
    /\ PerformOps(ops, q).db[c].balance = q.db[c].balance + more - less
    /\ PerformOps(ops, q).db[c].u_balance = q.db[c].u_balance + umore - uless

(* f tells the results of the lists of the transactions txs.                *)
Along(f, lists, txs) ==
  /\ txs \in Seq(Txs) /\ IsInjective(txs)
  /\ f \in [0..Len(txs) -> Results]
  /\ \A n \in 1..Len(txs) : f[n] = PerformOps(lists[n], f[n - 1])

Effects(c, lists, txs, more, less, umore, uless) ==
  /\ {more, less, umore, uless} \subseteq Worths
  /\ \A n \in 1..Len(txs) :
       Effect(c, lists[n], more[txs[n]], less[txs[n]], umore[txs[n]], uless[txs[n]])

LEMMA BalancesAlong ==
  ASSUME AccountsAssumption, NEW c, c \in AccountIds,
         NEW txs, NEW lists, NEW f, Along(f, lists, txs),
         NEW more, NEW less, NEW umore, NEW uless,
         Effects(c, lists, txs, more, less, umore, uless),
         NEW n, n \in 0..Len(txs)
  PROVE  /\ f[n].db[c].balance
              = f[0].db[c].balance + SumOver(more, FirstTxs(txs, n))
                  - SumOver(less, FirstTxs(txs, n))
         /\ f[n].db[c].u_balance
              = f[0].db[c].u_balance + SumOver(umore, FirstTxs(txs, n))
                  - SumOver(uless, FirstTxs(txs, n))
<1> DEFINE x == [k \in 0..Len(txs) |-> f[k].db[c].balance]
           y == [k \in 0..Len(txs) |-> f[k].db[c].u_balance]
<1>1. /\ txs \in Seq(Txs) /\ IsInjective(txs)
      /\ f \in [0..Len(txs) -> Results]
      /\ more \in Worths /\ less \in Worths /\ umore \in Worths /\ uless \in Worths
  BY DEF Along, Effects
<1>2. x \in [0..Len(txs) -> Int] /\ y \in [0..Len(txs) -> Int]
  <2>1. ASSUME NEW k \in 0..Len(txs)
        PROVE  f[k].db[c].balance \in Int /\ f[k].db[c].u_balance \in Int
    <3>1. f[k] \in Results
      BY <1>1
    <3> QED BY <3>1, ResultRows
  <2> QED BY <2>1
<1>3. Len(txs) \in Nat /\ \A k \in 1..Len(txs) : k - 1 \in 0..Len(txs) /\ k \in 0..Len(txs)
  BY <1>1
<1>4. ASSUME NEW k \in 1..Len(txs)
      PROVE  /\ x[k] = x[k - 1] + more[txs[k]] - less[txs[k]]
             /\ y[k] = y[k - 1] + umore[txs[k]] - uless[txs[k]]
  <2>1. f[k - 1] \in Results
    BY <1>1, <1>3
  <2>2. f[k] = PerformOps(lists[k], f[k - 1])
    BY DEF Along
  <2>3. Effect(c, lists[k], more[txs[k]], less[txs[k]], umore[txs[k]], uless[txs[k]])
    BY DEF Effects
  <2>4. /\ f[k].db[c].balance = f[k - 1].db[c].balance + more[txs[k]] - less[txs[k]]
        /\ f[k].db[c].u_balance
             = f[k - 1].db[c].u_balance + umore[txs[k]] - uless[txs[k]]
    BY <2>1, <2>2, <2>3 DEF Effect
  <2>5. /\ x[k] = f[k].db[c].balance /\ x[k - 1] = f[k - 1].db[c].balance
        /\ y[k] = f[k].db[c].u_balance /\ y[k - 1] = f[k - 1].db[c].u_balance
    BY <1>3
  <2> QED BY <2>4, <2>5
<1> HIDE DEF x, y
<1>5. x[n] = x[0] + SumOver(more, FirstTxs(txs, n)) - SumOver(less, FirstTxs(txs, n))
  BY <1>1, <1>2, <1>4, RunningSum
<1>6. y[n] = y[0] + SumOver(umore, FirstTxs(txs, n)) - SumOver(uless, FirstTxs(txs, n))
  BY <1>1, <1>2, <1>4, RunningSum
<1>7. /\ x[n] = f[n].db[c].balance /\ y[n] = f[n].db[c].u_balance
      /\ x[0] = f[0].db[c].balance /\ y[0] = f[0].db[c].u_balance
  BY <1>3 DEF x, y
<1> QED BY <1>5, <1>6, <1>7

(* The effects of the lists of a transaction.                               *)
LEMMA TxEffects ==
  ASSUME AccountsAssumption, NEW t \in Txs, NEW c \in AccountIds
  PROVE  /\ Effect(c, ApplyOps(t), Got(c)[t], Paid(c)[t], Got(c)[t], Nothing[t])
         /\ Effect(c, UndoUnconfirmedOps(t), Nothing[t], Nothing[t], Paid(c)[t], Nothing[t])
         /\ Effect(c, ApplyUnconfirmedOps(t), Nothing[t], Nothing[t], Nothing[t], Paid(c)[t])
         /\ Effect(c, UndoOps(t) \o UndoUnconfirmedOps(t),
                   Paid(c)[t], Got(c)[t], Paid(c)[t], Got(c)[t])
         /\ Effect(c, <<>>, 0, 0, 0, 0)
<1>1. Got(c)[t] \in Nat /\ Paid(c)[t] \in Nat /\ Nothing[t] = 0
  BY TxWorth DEF Worths, Nothing
<1>2. \A q \in Results : q.db[c].balance \in Int /\ q.db[c].u_balance \in Int
  BY ResultRows
<1>3. Effect(c, ApplyOps(t), Got(c)[t], Paid(c)[t], Got(c)[t], Nothing[t])
  BY <1>1, <1>2, ApplyEffect DEF Effect
<1>4. Effect(c, UndoUnconfirmedOps(t), Nothing[t], Nothing[t], Paid(c)[t], Nothing[t])
  BY <1>1, <1>2, UndoUnconfirmedEffect DEF Effect
<1>5. Effect(c, ApplyUnconfirmedOps(t), Nothing[t], Nothing[t], Nothing[t], Paid(c)[t])
  BY <1>1, <1>2, ApplyUnconfirmedEffect DEF Effect
<1>6. Effect(c, UndoOps(t) \o UndoUnconfirmedOps(t),
             Paid(c)[t], Got(c)[t], Paid(c)[t], Got(c)[t])
  BY <1>1, <1>2, UndoEffect DEF Effect
<1>7. Effect(c, <<>>, 0, 0, 0, 0)
  BY <1>2, PerformNone DEF Effect
<1> QED BY <1>3, <1>4, <1>5, <1>6, <1>7

(* The lists of operations are lists of operations. *)
LEMMA OpsTyped ==
  ASSUME AccountsAssumption, NEW t \in Txs
  PROVE  /\ ApplyOps(t) \in Seq(Diffs)
         /\ ApplyUnconfirmedOps(t) \in Seq(Diffs)
         /\ UndoUnconfirmedOps(t) \in Seq(Diffs)
         /\ UndoOps(t) \o UndoUnconfirmedOps(t) \in Seq(Diffs)
<1>1. /\ Sender[t] \in AccountIds /\ Recipient[t] \in AccountIds
      /\ Cost(t) \in Int /\ -Cost(t) \in Int
      /\ Amount[t] \in Int /\ -Amount[t] \in Int
  BY TxWorth
<1>2. \A a \in AccountIds, b, u \in Int : Diff(a, b, u) \in Diffs
  BY DEF Diff, Diffs
<1>3. ApplyOps(t) \in Seq(Diffs) /\ UndoOps(t) \in Seq(Diffs)
  BY <1>1, <1>2 DEF ApplyOps, UndoOps
<1>4. ApplyUnconfirmedOps(t) \in Seq(Diffs) /\ UndoUnconfirmedOps(t) \in Seq(Diffs)
  BY <1>1, <1>2 DEF ApplyUnconfirmedOps, UndoUnconfirmedOps
<1>5. UndoOps(t) \o UndoUnconfirmedOps(t) \in Seq(Diffs)
  BY <1>3, <1>4
<1> QED BY <1>3, <1>4, <1>5

(* A list of operations for every transaction of a sequence.                *)
Runs(lists, txs) ==
  /\ txs \in Seq(Txs) /\ IsInjective(txs)
  /\ lists \in Seq(Seq(Diffs)) /\ Len(lists) = Len(txs)

(* f tells the results of the lists from r on, s is the last one.           *)
Performs(f, lists, txs, r, s) ==
  Along(f, lists, txs) /\ f[0] = r /\ f[Len(txs)] = s

LEMMA PerformsExists ==
  ASSUME NEW lists, NEW txs, Runs(lists, txs), NEW r, r \in Results
  PROVE  \E f : Performs(f, lists, txs, r, PerformAll(lists, r))
<1>1. PICK f \in [0..Len(lists) -> Results] :
        /\ f[0] = r
        /\ \A n \in 1..Len(lists) : f[n] = PerformOps(lists[n], f[n - 1])
        /\ PerformAll(lists, r) = f[Len(lists)]
  BY PerformAllSteps DEF Runs
<1>2. Performs(f, lists, txs, r, PerformAll(lists, r))
  BY <1>1 DEF Runs, Along, Performs
<1> QED BY <1>2

LEMMA PerformsEffects ==
  ASSUME AccountsAssumption, NEW c, c \in AccountIds,
         NEW f, NEW lists, NEW txs, NEW r, NEW s, Performs(f, lists, txs, r, s),
         NEW more, NEW less, NEW umore, NEW uless,
         Effects(c, lists, txs, more, less, umore, uless)
  PROVE  /\ s.db[c].balance
              = r.db[c].balance + SumOver(more, ToSet(txs)) - SumOver(less, ToSet(txs))
         /\ s.db[c].u_balance
              = r.db[c].u_balance + SumOver(umore, ToSet(txs)) - SumOver(uless, ToSet(txs))
<1>1. Along(f, lists, txs) /\ f[0] = r /\ f[Len(txs)] = s /\ txs \in Seq(Txs)
  BY DEF Performs, Along
<1>2. FirstTxs(txs, Len(txs)) = ToSet(txs)
  BY <1>1, FirstTxsEnds
<1>3. Len(txs) \in 0..Len(txs)
  BY <1>1
<1> QED BY <1>1, <1>2, <1>3, BalancesAlong

(* As long as every list passes after those before it, all pass.            *)
LEMMA PerformsOk ==
  ASSUME NEW f, NEW lists, NEW txs, NEW r, NEW s, Performs(f, lists, txs, r, s),
         r.ok, \A n \in 1..Len(txs) : f[n - 1].ok => f[n].ok
  PROVE  s.ok
<1> DEFINE T == {n \in 0..Len(txs) : f[n].ok}
<1>1. Len(txs) \in Nat /\ f[0] = r /\ f[Len(txs)] = s
  BY DEF Performs, Along
<1>2. 0 \in T
  BY <1>1
<1>3. \A n \in 1..Len(txs) : n - 1 \in T => n \in T
  BY <1>1
<1>4. 0..Len(txs) \subseteq T
  <2> HIDE DEF T
  <2> QED BY <1>1, <1>2, <1>3, BoundedInduction
<1> QED BY <1>1, <1>4

LEMMA PerformsType ==
  ASSUME NEW f, NEW lists, NEW txs, NEW r, NEW s, Performs(f, lists, txs, r, s)
  PROVE  r \in Results /\ s \in Results /\ ToSet(txs) \subseteq Txs
BY DEF Performs, Along, ToSet

(* One more transaction of a sequence is worth no more than what is left.   *)
LEMMA TermsFit ==
  ASSUME AccountsAssumption, NEW txs \in Seq(Txs), IsInjective(txs),
         NEW n \in 1..Len(txs), NEW w \in Worths
  PROVE  /\ SumOver(w, FirstTxs(txs, n - 1)) + w[txs[n]] <= SumOver(w, ToSet(txs))
         /\ SumOver(w, FirstTxs(txs, n - 1)) \in Nat /\ w[txs[n]] \in Nat
         /\ SumOver(w, ToSet(txs)) \in Nat
<1> DEFINE t == txs[n]
           A == FirstTxs(txs, n - 1)
           S == ToSet(txs)
<1>1. t \notin A /\ A \subseteq Txs /\ t \in Txs
  BY FirstTxsGrows
<1>2. A \cup {t} \subseteq S /\ S \subseteq Txs
  <2>1. \A i \in 1..Len(txs) : i \in DOMAIN txs /\ txs[i] \in Txs
    OBVIOUS
  <2>2. \A i \in 1..(n - 1) : i \in 1..Len(txs)
    OBVIOUS
  <2>3. A \subseteq S
    BY <2>1, <2>2 DEF FirstTxs, ToSet
  <2>4. t \in S
    BY <2>1 DEF ToSet
  <2>5. S \subseteq Txs
    BY DEF ToSet
  <2> HIDE DEF A, t, S
  <2> QED BY <2>3, <2>4, <2>5
<1> HIDE DEF t, A, S
<1>3. Summable(w, A) /\ Summable(w, S) /\ w[t] \in Nat
  BY <1>1, <1>2, WorthSummable DEF Worths
<1>4. SumOver(w, A \cup {t}) = SumOver(w, A) + w[t]
  BY <1>1, <1>3, SumAdd
<1>5. SumOver(w, A \cup {t}) <= SumOver(w, S)
  BY <1>2, <1>3, SumSplit
<1>6. SumOver(w, A) + w[t] <= SumOver(w, S) /\ SumOver(w, A) \in Nat /\ SumOver(w, S) \in Nat
  BY <1>3, <1>4, <1>5, SumType
<1> QED BY <1>3, <1>6 DEF t, A, S

(* The transactions of a sequence, one after the other: every list of       *)
(* operations is that of its transaction.                                   *)
LEMMA ApplyAll ==
  ASSUME AccountsAssumption, NEW txs, NEW lists, Runs(lists, txs),
         \A n \in 1..Len(txs) : lists[n] = ApplyOps(txs[n]),
         NEW r, r \in Results, NEW s, s = PerformAll(lists, r)
  PROVE  /\ s \in Results
         /\ \A c \in AccountIds :
              /\ s.db[c].balance = r.db[c].balance + Received(ToSet(txs), c) - CostOf(ToSet(txs), c)
              /\ s.db[c].u_balance = r.db[c].u_balance + Received(ToSet(txs), c)
         /\ (/\ r.ok
             /\ \A t \in ToSet(txs) : r.db[Sender[t]].balance >= CostOf(ToSet(txs), Sender[t]))
               => s.ok
<1>1. PICK f : Performs(f, lists, txs, r, s)
  BY PerformsExists
<1>2. s \in Results /\ ToSet(txs) \subseteq Txs
  BY <1>1, PerformsType
<1>3. txs \in Seq(Txs) /\ IsInjective(txs) /\ \A n \in 1..Len(txs) : txs[n] \in Txs
  BY DEF Runs
<1>4. ASSUME NEW c \in AccountIds
      PROVE  Effects(c, lists, txs, Got(c), Paid(c), Got(c), Nothing)
  <2>1. {Got(c), Paid(c), Got(c), Nothing} \subseteq Worths
    BY TxWorth, SumNothing
  <2>2. \A n \in 1..Len(txs) :
          Effect(c, lists[n], Got(c)[txs[n]], Paid(c)[txs[n]], Got(c)[txs[n]], Nothing[txs[n]])
    BY <1>3, TxEffects
  <2> QED BY <2>1, <2>2 DEF Effects
<1>5. ASSUME NEW c \in AccountIds
      PROVE  /\ s.db[c].balance = r.db[c].balance + Received(ToSet(txs), c) - CostOf(ToSet(txs), c)
             /\ s.db[c].u_balance = r.db[c].u_balance + Received(ToSet(txs), c)
  <2>1. /\ s.db[c].balance
             = r.db[c].balance + SumOver(Got(c), ToSet(txs)) - SumOver(Paid(c), ToSet(txs))
        /\ s.db[c].u_balance
             = r.db[c].u_balance + SumOver(Got(c), ToSet(txs)) - SumOver(Nothing, ToSet(txs))
    BY <1>1, <1>4, PerformsEffects
  <2>2. SumOver(Nothing, ToSet(txs)) = 0 /\ SumOver(Got(c), ToSet(txs)) \in Nat
    BY <1>2, SumNothing, TxWorth, WorthSummable
  <2>3. r.db[c].u_balance \in Int
    BY ResultRows
  <2> QED BY <2>1, <2>2, <2>3 DEF Received, CostOf
<1>6. ASSUME r.ok,
             \A t \in ToSet(txs) : r.db[Sender[t]].balance >= CostOf(ToSet(txs), Sender[t])
      PROVE  s.ok
  <2>1. ASSUME NEW n \in 1..Len(txs), f[n - 1].ok PROVE f[n].ok
    <3> DEFINE t == txs[n]
               a == Sender[t]
               A == FirstTxs(txs, n - 1)
               S == ToSet(txs)
    <3>1. /\ FirstTxs(txs, n) = A \cup {t} /\ t \notin A
          /\ A \subseteq Txs /\ t \in Txs
      BY <1>3, FirstTxsGrows
    <3>2. a \in AccountIds /\ t \in S /\ Cost(t) \in Nat /\ n - 1 \in 0..Len(txs)
      <4>1. Len(txs) \in Nat /\ DOMAIN txs = 1..Len(txs)
        BY <1>3
      <4> QED BY <3>1, <4>1, TxWorth, SMTT(30) DEF ToSet
    <3>3. Along(f, lists, txs) /\ f[0] = r
      BY <1>1 DEF Performs
    <3>4. f[n - 1] \in Results /\ f[n] = PerformOps(ApplyOps(t), f[n - 1])
      BY <3>2, <3>3 DEF Along
    <3>5. f[n - 1].db[a].balance = r.db[a].balance + SumOver(Got(a), A) - SumOver(Paid(a), A)
      <4> HIDE DEF a
      <4>1. Effects(a, lists, txs, Got(a), Paid(a), Got(a), Nothing)
        BY <1>4, <3>2
      <4> DEFINE k == n - 1
      <4>2. k \in 0..Len(txs) /\ a \in AccountIds
        BY <3>2
      <4> HIDE DEF k
      <4>3. f[k].db[a].balance
              = f[0].db[a].balance + SumOver(Got(a), FirstTxs(txs, k))
                  - SumOver(Paid(a), FirstTxs(txs, k))
        BY <3>3, <4>1, <4>2, BalancesAlong
      <4> QED BY <3>3, <4>3 DEF k
    <3>6. SumOver(Paid(a), A) + Cost(t) <= CostOf(S, a)
      <4>1. Paid(a) \in Worths /\ Paid(a)[t] = Cost(t)
        <5>1. Paid(a)[t] = Cost(t)
          BY <3>1 DEF Paid
        <5> QED BY <3>2, <5>1, TxWorth
      <4> HIDE DEF a
      <4> QED BY <1>3, <4>1, TermsFit DEF CostOf
    <3>7. r.db[a].balance >= CostOf(S, a)
      BY <1>6, <3>2
    <3>8. /\ SumOver(Got(a), A) \in Nat /\ SumOver(Paid(a), A) \in Nat
          /\ CostOf(S, a) \in Nat /\ r.db[a].balance \in Int
      <4>1. Got(a) \in Worths /\ Paid(a) \in Worths
        BY <3>2, TxWorth
      <4> HIDE DEF a, A, S
      <4>2. SumOver(Got(a), A) \in Nat /\ SumOver(Paid(a), A) \in Nat
        BY <3>1, <4>1, WorthSummable
      <4>3. CostOf(S, a) \in Nat
        BY <1>2, <4>1, WorthSummable DEF CostOf, S
      <4>4. r.db[a].balance \in Int
        BY <3>2, ResultRows
      <4> QED BY <4>2, <4>3, <4>4
    <3>9. f[n - 1].db[a].balance >= Cost(t)
      <4> DEFINE got == SumOver(Got(a), A)
                 paid == SumOver(Paid(a), A)
                 all == CostOf(S, a)
                 had == r.db[a].balance
                 has == f[n - 1].db[a].balance
                 cost == Cost(t)
      <4>1. /\ has = had + got - paid /\ paid + cost <= all /\ had >= all
            /\ got \in Nat /\ paid \in Nat /\ all \in Nat /\ had \in Int /\ cost \in Nat
        BY <3>2, <3>5, <3>6, <3>7, <3>8
      <4> HIDE DEF got, paid, all, had, has, cost
      <4>2. has >= cost
        BY ONLY <4>1
      <4> QED BY <4>2 DEF has, cost
    <3> HIDE DEF t, A, S
    <3> QED BY <2>1, <3>1, <3>4, <3>9, ApplyEffect
  <2> QED BY <1>1, <1>6, <2>1, PerformsOk
<1> QED BY <1>2, <1>5, <1>6

(* The unconfirmed debits of a sequence are taken back.                     *)
LEMMA UndoUnconfirmedAll ==
  ASSUME AccountsAssumption, NEW txs, NEW lists, Runs(lists, txs),
         \A n \in 1..Len(txs) : lists[n] = UndoUnconfirmedOps(txs[n]),
         NEW r, r \in Results, NEW s, s = PerformAll(lists, r)
  PROVE  /\ s \in Results
         /\ \A c \in AccountIds :
              /\ s.db[c].balance = r.db[c].balance
              /\ s.db[c].u_balance = r.db[c].u_balance + CostOf(ToSet(txs), c)
         /\ r.ok => s.ok
<1>1. PICK f : Performs(f, lists, txs, r, s)
  BY PerformsExists
<1>2. s \in Results /\ ToSet(txs) \subseteq Txs
  BY <1>1, PerformsType
<1>3. txs \in Seq(Txs) /\ \A n \in 1..Len(txs) : txs[n] \in Txs
  BY DEF Runs
<1>4. ASSUME NEW c \in AccountIds
      PROVE  Effects(c, lists, txs, Nothing, Nothing, Paid(c), Nothing)
  <2>1. {Nothing, Nothing, Paid(c), Nothing} \subseteq Worths
    BY TxWorth, SumNothing
  <2>2. \A n \in 1..Len(txs) :
          Effect(c, lists[n], Nothing[txs[n]], Nothing[txs[n]], Paid(c)[txs[n]], Nothing[txs[n]])
    BY <1>3, TxEffects
  <2> QED BY <2>1, <2>2 DEF Effects
<1>5. ASSUME NEW c \in AccountIds
      PROVE  /\ s.db[c].balance = r.db[c].balance
             /\ s.db[c].u_balance = r.db[c].u_balance + CostOf(ToSet(txs), c)
  <2>1. /\ s.db[c].balance
             = r.db[c].balance + SumOver(Nothing, ToSet(txs)) - SumOver(Nothing, ToSet(txs))
        /\ s.db[c].u_balance
             = r.db[c].u_balance + SumOver(Paid(c), ToSet(txs)) - SumOver(Nothing, ToSet(txs))
    BY <1>1, <1>4, PerformsEffects
  <2>2. SumOver(Nothing, ToSet(txs)) = 0 /\ SumOver(Paid(c), ToSet(txs)) \in Nat
    BY <1>2, SumNothing, TxWorth, WorthSummable
  <2>3. r.db[c].u_balance \in Int /\ r.db[c].balance \in Int
    BY ResultRows
  <2> QED BY <2>1, <2>2, <2>3 DEF CostOf
<1>6. ASSUME r.ok PROVE s.ok
  <2>1. ASSUME NEW n \in 1..Len(txs), f[n - 1].ok PROVE f[n].ok
    <3>1. f[n - 1] \in Results /\ f[n] = PerformOps(UndoUnconfirmedOps(txs[n]), f[n - 1])
      <4>1. Len(txs) \in Nat /\ n - 1 \in 0..Len(txs)
        BY <1>3
      <4> QED BY <1>1, <4>1 DEF Performs, Along
    <3> QED BY <1>3, <2>1, <3>1, UndoUnconfirmedEffect
  <2> QED BY <1>1, <1>6, <2>1, PerformsOk
<1> QED BY <1>2, <1>5, <1>6

(* A sequence is taken back, confirmed and unconfirmed.                     *)
Pops(lists, txs) ==
  \A n \in 1..Len(txs) : lists[n] = UndoOps(txs[n]) \o UndoUnconfirmedOps(txs[n])

LEMMA PopAll ==
  ASSUME AccountsAssumption, NEW txs, NEW lists, Runs(lists, txs), Pops(lists, txs),
         NEW r, r \in Results, NEW s, s = PerformAll(lists, r)
  PROVE  /\ s \in Results
         /\ \A c \in AccountIds :
              /\ s.db[c].balance = r.db[c].balance + CostOf(ToSet(txs), c) - Received(ToSet(txs), c)
              /\ s.db[c].u_balance
                   = r.db[c].u_balance + CostOf(ToSet(txs), c) - Received(ToSet(txs), c)
<1>1. PICK f : Performs(f, lists, txs, r, s)
  BY PerformsExists
<1>2. s \in Results /\ ToSet(txs) \subseteq Txs
  BY <1>1, PerformsType
<1>3. txs \in Seq(Txs) /\ \A n \in 1..Len(txs) : txs[n] \in Txs
  BY DEF Runs
<1>4. ASSUME NEW c \in AccountIds
      PROVE  Effects(c, lists, txs, Paid(c), Got(c), Paid(c), Got(c))
  <2>1. {Paid(c), Got(c), Paid(c), Got(c)} \subseteq Worths
    BY TxWorth
  <2>2. \A n \in 1..Len(txs) :
          Effect(c, lists[n], Paid(c)[txs[n]], Got(c)[txs[n]], Paid(c)[txs[n]], Got(c)[txs[n]])
    BY <1>3, TxEffects DEF Pops
  <2> QED BY <2>1, <2>2 DEF Effects
<1>5. ASSUME NEW c \in AccountIds
      PROVE  /\ s.db[c].balance
                  = r.db[c].balance + CostOf(ToSet(txs), c) - Received(ToSet(txs), c)
             /\ s.db[c].u_balance
                  = r.db[c].u_balance + CostOf(ToSet(txs), c) - Received(ToSet(txs), c)
  BY <1>1, <1>4, PerformsEffects DEF CostOf, Received
<1> QED BY <1>2, <1>5

(* The part D of a sequence is debited.                                     *)
Debits(lists, txs, D) ==
  \A n \in 1..Len(txs) :
    lists[n] = IF txs[n] \in D THEN ApplyUnconfirmedOps(txs[n]) ELSE <<>>

(* From r to s, the transactions of S are debited.                          *)
DebitedFor(r, s, S) ==
  /\ s \in Results
  /\ \A c \in AccountIds :
       /\ s.db[c].balance = r.db[c].balance
       /\ s.db[c].u_balance = r.db[c].u_balance - CostOf(S, c)
  /\ (r.ok /\ \A t \in S : r.db[Sender[t]].u_balance >= CostOf(S, Sender[t])) => s.ok

LEMMA DebitAll ==
  ASSUME AccountsAssumption, NEW txs, NEW lists, Runs(lists, txs),
         NEW D, Debits(lists, txs, D),
         NEW r, r \in Results, NEW s, s = PerformAll(lists, r)
  PROVE  DebitedFor(r, s, ToSet(txs) \cap D)
<1> DEFINE Part(c) == [t \in Txs |-> IF t \in D THEN Paid(c)[t] ELSE 0]
           S == ToSet(txs)
<1>1. PICK f : Performs(f, lists, txs, r, s)
  BY PerformsExists
<1>2. s \in Results /\ S \subseteq Txs
  BY <1>1, PerformsType
<1>3. txs \in Seq(Txs) /\ IsInjective(txs) /\ \A n \in 1..Len(txs) : txs[n] \in Txs
  BY DEF Runs
<1>4. ASSUME NEW c \in AccountIds
      PROVE  Part(c) \in Worths /\ SumOver(Part(c), S) = CostOf(S \cap D, c)
  <2>1. Part(c) \in Worths
    <3>1. Paid(c) \in Worths
      BY TxWorth
    <3> QED BY <3>1 DEF Worths
  <2>2. Points(Part(c), S) = Points(Paid(c), S \cap D)
    <3>1. ASSUME NEW p \in Points(Part(c), S) PROVE p \in Points(Paid(c), S \cap D)
      <4>1. PICK x \in S : p \in {x} \X (1..Part(c)[x])
        BY DEF Points
      <4>2. x \in D /\ Part(c)[x] = Paid(c)[x]
        BY <1>2, <4>1
      <4> QED BY <4>1, <4>2 DEF Points
    <3>2. ASSUME NEW p \in Points(Paid(c), S \cap D) PROVE p \in Points(Part(c), S)
      <4>1. PICK x \in S \cap D : p \in {x} \X (1..Paid(c)[x])
        BY DEF Points
      <4>2. Part(c)[x] = Paid(c)[x]
        BY <1>2
      <4> QED BY <4>1, <4>2 DEF Points
    <3> QED BY <3>1, <3>2
  <2> HIDE DEF Part
  <2> QED BY <2>1, <2>2 DEF SumOver, Points, CostOf
<1>5. ASSUME NEW c \in AccountIds
      PROVE  Effects(c, lists, txs, Nothing, Nothing, Nothing, Part(c))
  <2>1. {Nothing, Nothing, Nothing, Part(c)} \subseteq Worths
    BY <1>4, SumNothing
  <2>2. ASSUME NEW n \in 1..Len(txs)
        PROVE  Effect(c, lists[n], Nothing[txs[n]], Nothing[txs[n]], Nothing[txs[n]],
                      Part(c)[txs[n]])
    <3>1. txs[n] \in Txs /\ Nothing[txs[n]] = 0
      BY <1>3 DEF Nothing
    <3>2. CASE txs[n] \in D
      <4>1. Part(c)[txs[n]] = Paid(c)[txs[n]] /\ lists[n] = ApplyUnconfirmedOps(txs[n])
        BY <3>1, <3>2 DEF Debits
      <4> HIDE DEF Part
      <4> QED BY <3>1, <4>1, TxEffects
    <3>3. CASE txs[n] \notin D
      <4>1. Part(c)[txs[n]] = 0 /\ lists[n] = <<>>
        BY <3>1, <3>3 DEF Debits
      <4> HIDE DEF Part
      <4> QED BY <3>1, <4>1, TxEffects
    <3> QED BY <3>2, <3>3
  <2> HIDE DEF Part
  <2> QED BY <2>1, <2>2 DEF Effects
<1>6. ASSUME NEW c \in AccountIds
      PROVE  /\ s.db[c].balance = r.db[c].balance
             /\ s.db[c].u_balance = r.db[c].u_balance - CostOf(S \cap D, c)
  <2> HIDE DEF Part
  <2>1. /\ s.db[c].balance = r.db[c].balance + SumOver(Nothing, S) - SumOver(Nothing, S)
        /\ s.db[c].u_balance
             = r.db[c].u_balance + SumOver(Nothing, S) - SumOver(Part(c), S)
    BY <1>1, <1>5, PerformsEffects
  <2>2. SumOver(Nothing, S) = 0 /\ SumOver(Part(c), S) = CostOf(S \cap D, c)
    BY <1>2, <1>4, SumNothing
  <2>3. SumOver(Part(c), S) \in Nat
    BY <1>2, <1>4, WorthSummable
  <2>4. r.db[c].u_balance \in Int /\ r.db[c].balance \in Int
    BY ResultRows
  <2> HIDE DEF S
  <2> QED BY <2>1, <2>2, <2>3, <2>4
<1>7. ASSUME r.ok,
             \A t \in S \cap D : r.db[Sender[t]].u_balance >= CostOf(S \cap D, Sender[t])
      PROVE  s.ok
  <2>1. ASSUME NEW n \in 1..Len(txs), f[n - 1].ok PROVE f[n].ok
    <3> DEFINE t == txs[n]
               a == Sender[t]
               k == n - 1
               A == FirstTxs(txs, k)
    <3>1. t \in Txs /\ t \in S /\ a \in AccountIds /\ k \in 0..Len(txs) /\ Cost(t) \in Nat
      <4>1. Len(txs) \in Nat /\ n \in DOMAIN txs /\ t \in Txs
        BY <1>3
      <4>2. t \in S
        BY <4>1 DEF ToSet
      <4>3. k \in 0..Len(txs)
        BY <4>1
      <4> HIDE DEF t, S, k
      <4> QED BY <4>1, <4>2, <4>3, TxWorth
    <3>2. Along(f, lists, txs) /\ f[0] = r
      BY <1>1 DEF Performs
    <3>3. f[k] \in Results /\ f[n] = PerformOps(lists[n], f[k])
      BY <3>1, <3>2 DEF Along
    <3>4. CASE t \notin D
      <4>1. lists[n] = <<>>
        BY <3>4 DEF Debits
      <4> QED BY <2>1, <3>3, <4>1, PerformNone
    <3>5. CASE t \in D
      <4>1. lists[n] = ApplyUnconfirmedOps(t)
        BY <3>5 DEF Debits
      <4>2. f[k].db[a].u_balance = r.db[a].u_balance + SumOver(Nothing, A) - SumOver(Part(a), A)
        <5> HIDE DEF Part, a, k
        <5>1. Effects(a, lists, txs, Nothing, Nothing, Nothing, Part(a))
          BY <1>5, <3>1
        <5>2. k \in 0..Len(txs) /\ a \in AccountIds
          BY <3>1
        <5>3. f[k].db[a].u_balance
                = f[0].db[a].u_balance + SumOver(Nothing, FirstTxs(txs, k))
                    - SumOver(Part(a), FirstTxs(txs, k))
          BY <3>2, <5>1, <5>2, BalancesAlong
        <5> QED BY <3>2, <5>3
      <4>3. Part(a)[t] = Cost(t) /\ Part(a) \in Worths
        <5>1. Paid(a)[t] = Cost(t)
          BY <3>1 DEF Paid
        <5>2. Part(a)[t] = Paid(a)[t]
          BY <3>1, <3>5
        <5> QED BY <1>4, <3>1, <5>1, <5>2
      <4>4. /\ SumOver(Part(a), A) + Cost(t) <= SumOver(Part(a), S)
            /\ SumOver(Part(a), A) \in Nat /\ SumOver(Part(a), S) \in Nat
        <5> HIDE DEF Part, a
        <5> QED BY <1>3, <4>3, TermsFit
      <4>5. r.db[a].u_balance >= SumOver(Part(a), S)
        BY <1>4, <1>7, <3>1, <3>5
      <4>6. A \subseteq Txs
        BY FirstTxsGrows, <1>3
      <4>7. SumOver(Nothing, A) = 0 /\ r.db[a].u_balance \in Int
        BY <3>1, <4>6, SumNothing, ResultRows
      <4>8. f[k].db[a].u_balance >= Cost(t)
        <5> DEFINE paid == SumOver(Part(a), A)
                   all == SumOver(Part(a), S)
                   had == r.db[a].u_balance
                   has == f[k].db[a].u_balance
                   cost == Cost(t)
                   none == SumOver(Nothing, A)
        <5>1. /\ has = had + none - paid /\ none = 0 /\ paid + cost <= all /\ had >= all
              /\ paid \in Nat /\ all \in Nat /\ had \in Int /\ cost \in Nat
          BY <3>1, <4>2, <4>4, <4>5, <4>7
        <5> HIDE DEF paid, all, had, has, cost, none
        <5>2. has >= cost
          BY ONLY <5>1
        <5> QED BY <5>2 DEF has, cost
      <4> HIDE DEF t, k, A, S, Part
      <4>9. f[k].ok
        BY <2>1 DEF k
      <4> QED BY <3>1, <3>3, <4>1, <4>8, <4>9, ApplyUnconfirmedEffect
    <3> QED BY <3>4, <3>5
  <2> QED BY <1>1, <1>7, <2>1, PerformsOk
<1> HIDE DEF Part
<1> QED BY <1>2, <1>6, <1>7 DEF DebitedFor

-----------------------------------------------------------------------------
(* Sequences that the modules take the transactions from.                   *)

(* The sequence of a set lists every member once. *)
LEMMA SetToSeqLists ==
  ASSUME NEW S, IsFiniteSet(S)
  PROVE  /\ SetToSeq(S) \in Seq(S)
         /\ IsInjective(SetToSeq(S))
         /\ ToSet(SetToSeq(S)) = S
<1> DEFINE n == Cardinality(S)
           s == SetToSeq(S)
<1>1. n \in Nat /\ \E f \in [1..n -> S] : IsInjective(f)
  BY FS_CardinalityType DEF ExistsBijection, Bijection, Injection
<1>2. s \in [1..n -> S] /\ IsInjective(s)
  BY <1>1, Zenon DEF SetToSeq
<1> HIDE DEF s
<1>3. s \in Seq(S)
  BY <1>1, <1>2
<1>4. s \in Surjection(1..n, S)
  <2>1. s \in Injection(1..n, S)
    BY <1>2 DEF Injection
  <2>2. IsFiniteSet(1..n) /\ Cardinality(1..n) = n
    <3>1. Cardinality(1..n) = IF 1 > n THEN 0 ELSE n - 1 + 1
      BY <1>1, FS_Interval
    <3> QED BY <1>1, <3>1, FS_Interval
  <2> QED BY <2>1, <2>2, FS_Injection
<1>5. ToSet(s) = S
  BY <1>2, <1>4 DEF Surjection, ToSet
<1> QED BY <1>2, <1>3, <1>5 DEF s

(* The transactions of a block in the reverse order.                        *)
LEMMA ReverseLists ==
  ASSUME NEW txs \in Seq(Txs), IsInjective(txs)
  PROVE  /\ Reverse(txs) \in Seq(Txs)
         /\ IsInjective(Reverse(txs))
         /\ ToSet(Reverse(txs)) = ToSet(txs)
<1> DEFINE s == Reverse(txs)
<1>1. PICK n \in Nat : n = Len(txs) /\ DOMAIN txs = 1..n
  OBVIOUS
<1>2. s = [i \in 1..n |-> txs[(n - i) + 1]]
  BY <1>1 DEF Reverse
<1>3. \A i \in 1..n : (n - i) + 1 \in 1..n /\ (n - ((n - i) + 1)) + 1 = i
  OBVIOUS
<1>4. \A i \in 1..n : txs[i] \in Txs
  BY <1>1
<1>5. s \in Seq(Txs) /\ DOMAIN s = 1..n
  <2>1. s \in [1..n -> Txs]
    BY <1>2, <1>3, <1>4
  <2> HIDE DEF s
  <2> QED BY <2>1
<1> HIDE DEF s
<1>6. \A i \in 1..n : s[i] = txs[(n - i) + 1]
  BY <1>2
<1>7. IsInjective(s)
  <2> SUFFICES ASSUME NEW i \in 1..n, NEW j \in 1..n, s[i] = s[j] PROVE i = j
    BY <1>5 DEF IsInjective
  <2> DEFINE k == (n - i) + 1
             l == (n - j) + 1
  <2>1. k \in DOMAIN txs /\ l \in DOMAIN txs /\ txs[k] = txs[l]
    BY <1>1, <1>3, <1>6
  <2>2. k = l
    <3> HIDE DEF k, l
    <3> QED BY <2>1 DEF IsInjective
  <2> QED BY <2>2
<1>8. ToSet(s) = ToSet(txs)
  <2>1. \A i \in 1..n : s[i] \in ToSet(txs)
    BY <1>1, <1>3, <1>6 DEF ToSet
  <2>2. ASSUME NEW i \in 1..n PROVE txs[i] \in ToSet(s)
    <3> DEFINE j == (n - i) + 1
    <3>1. j \in 1..n /\ s[j] = txs[i]
      BY <1>3, <1>6
    <3> HIDE DEF j
    <3> QED BY <1>5, <3>1 DEF ToSet
  <2> QED BY <1>1, <1>5, <2>1, <2>2 DEF ToSet
<1> QED BY <1>5, <1>7, <1>8 DEF s

(* One list of operations for every transaction. *)
LEMMA RunsLists ==
  ASSUME NEW txs \in Seq(Txs), IsInjective(txs), NEW lists,
         lists \in [DOMAIN txs -> Seq(Diffs)]
  PROVE  Runs(lists, txs) /\ \A n \in 1..Len(txs) : n \in DOMAIN txs /\ txs[n] \in Txs
<1>1. PICK n \in Nat : n = Len(txs) /\ DOMAIN txs = 1..n
  OBVIOUS
<1>2. lists \in Seq(Seq(Diffs)) /\ Len(lists) = n
  BY <1>1
<1> QED BY <1>1, <1>2 DEF Runs

-----------------------------------------------------------------------------
(* The inductive invariant.                                                 *)
BlockFields == {"stage", "txs", "accounts", "overlap", "debited"}

Typed ==
  /\ pool \in [Queues -> SUBSET Txs]
  /\ chain \in Seq(Seq(Txs))
  /\ DOMAIN blk = BlockFields
  /\ blk.stage \in Stages
  /\ blk.txs \in Seq(Txs)

(* The balances sequence is held once. *)
HeldOnce == Applying => job # "cycle"

(* A block that passed its checks holds no confirmed transaction and no     *)
(* transaction twice until it is saved.                                     *)
BlockFresh ==
  blk.stage \in {"checked", "entered", "prepared"} =>
    /\ IsInjective(blk.txs)
    /\ ToSet(blk.txs) \cap Confirmed = {}

(* The transactions of a prepared block have left the unconfirmed queue.    *)
BlockOutOfPool ==
  blk.stage = "prepared" => ToSet(blk.txs) \cap pool["unconfirmed"] = {}

IInv ==
  /\ Typed
  /\ HeldOnce
  /\ BlockFresh
  /\ BlockOutOfPool
  /\ UnconfirmedNotConfirmed
  /\ ConfirmedOnce
  /\ ApplyHoldsShutdown

-----------------------------------------------------------------------------
(* Appending a block to a chain adds its transactions, and no others.       *)
LEMMA TxsOfAppend ==
  ASSUME NEW c \in Seq(Seq(Txs)), NEW b \in Seq(Txs)
  PROVE  TxsOf(Append(c, b)) = TxsOf(c) \cup ToSet(b)
<1> DEFINE d == Append(c, b)
<1>1. /\ DOMAIN d = DOMAIN c \cup {Len(c) + 1}
      /\ d[Len(c) + 1] = b
      /\ \A i \in DOMAIN c : d[i] = c[i]
  OBVIOUS
<1>2. TxsOf(d) \subseteq TxsOf(c) \cup ToSet(b)
  BY <1>1, Zenon DEF TxsOf
<1>3. TxsOf(c) \cup ToSet(b) \subseteq TxsOf(d)
  BY <1>1, Zenon DEF TxsOf
<1> QED BY <1>2, <1>3

(* The chain without its last block has no other transactions.             *)
LEMMA TxsOfFront ==
  ASSUME NEW c \in Seq(Seq(Txs)), c # <<>>
  PROVE  /\ Front(c) \in Seq(Seq(Txs))
         /\ DOMAIN Front(c) \subseteq DOMAIN c
         /\ \A i \in DOMAIN Front(c) : Front(c)[i] = c[i]
         /\ TxsOf(Front(c)) \subseteq TxsOf(c)
<1>1. /\ Front(c) \in Seq(Seq(Txs))
      /\ DOMAIN Front(c) \subseteq DOMAIN c
      /\ \A i \in DOMAIN Front(c) : Front(c)[i] = c[i]
  BY DEF Front
<1>2. TxsOf(Front(c)) \subseteq TxsOf(c)
  BY <1>1, Zenon DEF TxsOf
<1> QED BY <1>1, <1>2

(* The transactions of a block of the chain are confirmed.                 *)
LEMMA InTxsOf ==
  ASSUME NEW c \in Seq(Seq(Txs)), NEW i \in DOMAIN c
  PROVE  ToSet(c[i]) \subseteq TxsOf(c)
BY Zenon DEF TxsOf

-----------------------------------------------------------------------------
LEMMA InitIInv == Init => IInv
<1> SUFFICES ASSUME Init PROVE IInv
  OBVIOUS
<1> USE DEF Init, NoBlock, EmptyPool
<1>1. Typed
  BY DEF Typed, BlockFields, Stages
<1>2. HeldOnce /\ BlockFresh /\ BlockOutOfPool /\ ApplyHoldsShutdown
  BY DEF HeldOnce, Applying, BlockFresh, BlockOutOfPool, ApplyHoldsShutdown
<1>3. Confirmed = {}
  BY DEF Confirmed, TxsOf
<1>4. UnconfirmedNotConfirmed
  BY <1>3 DEF UnconfirmedNotConfirmed
<1>5. ConfirmedOnce
  BY DEF ConfirmedOnce
<1> QED BY <1>1, <1>2, <1>4, <1>5 DEF IInv

(* A step that leaves the chain and the block alone, and does not take the  *)
(* balances sequence from applyBlock, preserves the invariant if the        *)
(* unconfirmed queue gains only transactions that are not confirmed, and    *)
(* nothing while a block is applied.                                        *)
LEMMA PoolStep ==
  ASSUME IInv,
         UNCHANGED <<chain, blk, isProcessing>>,
         pool' \in [Queues -> SUBSET Txs],
         pool'["unconfirmed"] \cap Confirmed = {},
         Applying => pool'["unconfirmed"] \subseteq pool["unconfirmed"],
         Applying => job' # "cycle"
  PROVE  IInv'
<1>1. Typed'
  BY DEF IInv, Typed
<1>2. Applying' = Applying /\ Confirmed' = Confirmed
  BY DEF Applying, Confirmed
<1>3. HeldOnce'
  BY <1>2 DEF HeldOnce
<1>4. BlockFresh'
  BY <1>2 DEF IInv, BlockFresh
<1>5. BlockOutOfPool'
  BY DEF IInv, BlockOutOfPool, Applying
<1>6. UnconfirmedNotConfirmed'
  BY <1>2 DEF UnconfirmedNotConfirmed
<1>7. ConfirmedOnce'
  BY DEF IInv, ConfirmedOnce
<1>8. ApplyHoldsShutdown'
  BY <1>2 DEF IInv, ApplyHoldsShutdown
<1> QED BY <1>1, <1>3, <1>4, <1>5, <1>6, <1>7, <1>8 DEF IInv

(* The actions of the pool.                                                 *)
LEMMA PoolIInv ==
  ASSUME IInv
  PROVE  /\ \A t \in Txs : Incoming(t) \/ ExpireTx(t) => IInv'
         /\ ExpireDone \/ ProcessQueued \/ CheckPending => IInv'
<1> USE DEF IInv, Typed, UnconfirmedNotConfirmed, counters
<1>1. ASSUME NEW t \in Txs, Incoming(t) PROVE IInv'
  <2>1. pool' \in [Queues -> SUBSET Txs] /\ pool'["unconfirmed"] = pool["unconfirmed"]
    BY <1>1 DEF Incoming, Queues
  <2> QED BY <2>1, <1>1, PoolStep DEF Incoming, Held
<1>2. ASSUME NEW t \in Txs, ExpireTx(t) PROVE IInv'
  <2>1. /\ pool' \in [Queues -> SUBSET Txs]
        /\ pool'["unconfirmed"] \subseteq pool["unconfirmed"]
    BY <1>2 DEF ExpireTx, Queues, RemoveFromPool
  <2> QED BY <2>1, <1>2, PoolStep DEF ExpireTx
<1>3. ASSUME ExpireDone PROVE IInv'
  BY <1>3, PoolStep DEF ExpireDone
<1>4. ASSUME ProcessQueued PROVE IInv'
  <2>1. /\ pool' \in [Queues -> SUBSET Txs]
        /\ pool'["unconfirmed"] \subseteq pool["unconfirmed"]
    <3>1. PICK held \in SUBSET pool["queued"], bad \in SUBSET pool["queued"] :
            pool' = RemoveFromPool(
                      MoveTx(MoveTx(pool, held, "queued", "pending"),
                             pool["queued"] \ held, "queued", "ready"), bad)
      BY ONLY <1>4 DEF ProcessQueued
    <3> DEFINE first == MoveTx(pool, held, "queued", "pending")
               second == MoveTx(first, pool["queued"] \ held, "queued", "ready")
    <3>2. /\ first \in [Queues -> SUBSET Txs]
          /\ first["unconfirmed"] = pool["unconfirmed"]
      BY DEF MoveTx, Queues
    <3>3. /\ second \in [Queues -> SUBSET Txs]
          /\ second["unconfirmed"] = pool["unconfirmed"]
      BY <3>2 DEF MoveTx, Queues
    <3> QED BY <3>1, <3>3 DEF RemoveFromPool, Queues
  <2> QED BY <2>1, <1>4, PoolStep DEF ProcessQueued, Held
<1>5. ASSUME CheckPending PROVE IInv'
  <2>1. /\ pool' \in [Queues -> SUBSET Txs]
        /\ pool'["unconfirmed"] \subseteq pool["unconfirmed"]
    BY <1>5 DEF CheckPending, Queues, MoveTx
  <2> QED BY <2>1, <1>5, PoolStep DEF CheckPending, Held
<1> QED BY <1>1, <1>2, <1>3, <1>4, <1>5

(* The cycle of applyUnconfirmed: a transaction becomes unconfirmed only if *)
(* it is not confirmed, and while no block is being applied.                *)
LEMMA CycleIInv ==
  ASSUME IInv
  PROVE  /\ StartCycle \/ EndCycle => IInv'
         /\ \A t \in Txs : DropConfirmed(t) \/ Unconfirm(t) \/ BackToQueued(t) => IInv'
<1> USE DEF IInv, Typed, UnconfirmedNotConfirmed, counters
<1>1. ASSUME StartCycle PROVE IInv'
  BY <1>1, PoolStep DEF StartCycle, Held
<1>2. ASSUME EndCycle PROVE IInv'
  BY <1>2, PoolStep DEF EndCycle
<1>3. ASSUME NEW t \in Txs, DropConfirmed(t) PROVE IInv'
  <2>1. /\ pool' \in [Queues -> SUBSET Txs]
        /\ pool'["unconfirmed"] \subseteq pool["unconfirmed"]
    BY <1>3 DEF DropConfirmed, Advance, Queues, RemoveFromPool
  <2> QED BY <2>1, <1>3, PoolStep DEF DropConfirmed, Advance, HeldOnce
<1>4. ASSUME NEW t \in Txs, Unconfirm(t) PROVE IInv'
  <2>1. /\ pool' \in [Queues -> SUBSET Txs]
        /\ pool'["unconfirmed"] = pool["unconfirmed"] \cup {t}
    BY <1>4 DEF Unconfirm, Advance, Queues, MoveTx
  <2>2. t \notin Confirmed
    BY <1>4 DEF Unconfirm, AlreadyConfirmed
  <2>3. ~Applying
    BY <1>4 DEF Unconfirm, Turn, HeldOnce
  <2> QED BY <2>1, <2>2, <2>3, <1>4, PoolStep DEF Unconfirm, Advance
<1>5. ASSUME NEW t \in Txs, BackToQueued(t) PROVE IInv'
  <2>1. /\ pool' \in [Queues -> SUBSET Txs]
        /\ pool'["unconfirmed"] = pool["unconfirmed"]
    BY <1>5 DEF BackToQueued, Advance, Queues, MoveTx
  <2> QED BY <2>1, <1>5, PoolStep DEF BackToQueued, Advance, HeldOnce
<1> QED BY <1>1, <1>2, <1>3, <1>4, <1>5

-----------------------------------------------------------------------------
(* A step that leaves the chain alone and drops the block.                  *)
LEMMA DropStep ==
  ASSUME IInv,
         blk' = NoBlock,
         pool' \in [Queues -> SUBSET Txs],
         pool'["unconfirmed"] \subseteq pool["unconfirmed"],
         chain' = chain
  PROVE  IInv'
<1>1. Typed'
  BY DEF IInv, Typed, NoBlock, BlockFields, Stages
<1>2. ~Applying' /\ Confirmed' = Confirmed
  BY DEF Applying, Confirmed, NoBlock
<1>3. HeldOnce' /\ BlockFresh' /\ BlockOutOfPool' /\ ApplyHoldsShutdown'
  BY <1>2 DEF HeldOnce, BlockFresh, BlockOutOfPool, ApplyHoldsShutdown, NoBlock
<1>4. UnconfirmedNotConfirmed'
  BY <1>2 DEF IInv, UnconfirmedNotConfirmed
<1>5. ConfirmedOnce'
  BY DEF IInv, ConfirmedOnce
<1> QED BY <1>1, <1>3, <1>4, <1>5 DEF IInv

(* The checks of a block, and what ends its application without saving it.  *)
LEMMA CheckIInv ==
  ASSUME IInv
  PROVE  /\ \A txs \in {b \in Blocks : IsInjective(b)} :
              CheckBlock(txs) \/ RejectConfirmed(txs) => IInv'
         /\ SkipApply \/ PrepareThrows \/ PrepareFails \/ Rollback => IInv'
<1> USE DEF counters, poolVars
<1>1. ASSUME NEW txs \in Blocks, IsInjective(txs), CheckBlock(txs) PROVE IInv'
  <2>1. txs \in Seq(Txs)
    <3>1. PICK m \in 0..MaxTxsPerBlock : txs \in [1..m -> Txs]
      BY Zenon DEF Blocks, BoundedSeq, SeqOf
    <3> QED BY <3>1, BlockApplicationAssumption
  <2>2. blk' = [NoBlock EXCEPT !.stage = "checked", !.txs = txs, !.accounts = db]
    BY <1>1 DEF CheckBlock
  <2>3. /\ DOMAIN blk' = BlockFields
        /\ blk'.stage = "checked"
        /\ blk'.txs = txs
    BY <2>2 DEF NoBlock, BlockFields
  <2>4. Typed'
    BY <1>1, <2>1, <2>3 DEF CheckBlock, IInv, Typed, Stages
  <2>5. ~Applying' /\ Confirmed' = Confirmed
    BY <1>1, <2>3 DEF CheckBlock, Applying, Confirmed
  <2>6. ToSet(txs) \cap Confirmed = {}
    BY <1>1 DEF CheckBlock, ConfirmedIn
  <2>7. BlockFresh'
    BY <1>1, <2>3, <2>5, <2>6 DEF BlockFresh
  <2>8. HeldOnce' /\ BlockOutOfPool' /\ ApplyHoldsShutdown'
    BY <2>3, <2>5 DEF HeldOnce, BlockOutOfPool, ApplyHoldsShutdown
  <2>9. UnconfirmedNotConfirmed' /\ ConfirmedOnce'
    BY <1>1, <2>5 DEF CheckBlock, IInv, UnconfirmedNotConfirmed, ConfirmedOnce
  <2> QED BY <2>4, <2>7, <2>8, <2>9 DEF IInv
<1>2. ASSUME NEW txs \in Blocks, RejectConfirmed(txs) PROVE IInv'
  <2>1. /\ pool' \in [Queues -> SUBSET Txs]
        /\ pool'["unconfirmed"] \subseteq pool["unconfirmed"]
    BY <1>2 DEF RejectConfirmed, Queues, IInv, Typed
  <2> QED
    BY <2>1, <1>2, PoolStep
    DEF RejectConfirmed, IInv, UnconfirmedNotConfirmed, HeldOnce
<1>3. ASSUME SkipApply PROVE IInv'
  BY <1>3, DropStep DEF SkipApply, IInv, Typed
<1>4. ASSUME NEW n \in Nat, ThrowAfter(n) PROVE IInv'
  <2>1. /\ pool' \in [Queues -> SUBSET Txs]
        /\ pool'["unconfirmed"] \subseteq pool["unconfirmed"]
    BY <1>4 DEF ThrowAfter, Queues, IInv, Typed
  <2> QED BY <2>1, <1>4, DropStep DEF ThrowAfter
<1>5. Len(blk.txs) \in Nat
  BY DEF IInv, Typed
<1>6. ASSUME PrepareThrows PROVE IInv'
  BY <1>6, <1>4, <1>5 DEF PrepareThrows
<1>7. ASSUME PrepareFails PROVE IInv'
  BY <1>7, <1>4, <1>5 DEF PrepareFails
<1>8. ASSUME Rollback PROVE IInv'
  BY <1>8, DropStep DEF Rollback, IInv, Typed
<1> QED BY <1>1, <1>2, <1>3, <1>6, <1>7, <1>8

(* applyBlock takes the sequence, and prepares its operations.              *)
LEMMA PrepareIInv ==
  ASSUME IInv, EnterApply \/ Prepare
  PROVE  IInv'
<1> USE DEF counters, poolVars
<1>1. CASE EnterApply
  <2>1. blk' = [blk EXCEPT !.stage = "entered",
                           !.overlap = pool["unconfirmed"] \ ToSet(blk.txs)]
    BY <1>1 DEF EnterApply
  <2>2. /\ DOMAIN blk' = BlockFields
        /\ blk'.stage = "entered"
        /\ blk'.txs = blk.txs
    BY <2>1 DEF IInv, Typed, BlockFields
  <2>3. Typed'
    BY <1>1, <2>2 DEF EnterApply, IInv, Typed, Stages
  <2>4. Confirmed' = Confirmed
    BY <1>1 DEF EnterApply, Confirmed
  <2>5. BlockFresh'
    BY <1>1, <2>2, <2>4 DEF EnterApply, IInv, BlockFresh
  <2>6. HeldOnce' /\ BlockOutOfPool' /\ ApplyHoldsShutdown'
    BY <1>1, <2>2 DEF EnterApply, Held, HeldOnce, BlockOutOfPool, ApplyHoldsShutdown
  <2>7. UnconfirmedNotConfirmed' /\ ConfirmedOnce'
    BY <1>1, <2>4 DEF EnterApply, IInv, UnconfirmedNotConfirmed, ConfirmedOnce
  <2> QED BY <2>3, <2>5, <2>6, <2>7 DEF IInv
<1>2. CASE Prepare
  <2>1. /\ blk.stage = "entered"
        /\ blk' = [blk EXCEPT !.stage = "prepared", !.debited = NotInPool]
        /\ pool' = [pool EXCEPT !["unconfirmed"] = @ \ ToSet(blk.txs)]
    BY <1>2 DEF Prepare
  <2>2. /\ DOMAIN blk' = BlockFields
        /\ blk'.stage = "prepared"
        /\ blk'.txs = blk.txs
    BY <2>1 DEF IInv, Typed, BlockFields
  <2>3. /\ pool' \in [Queues -> SUBSET Txs]
        /\ pool'["unconfirmed"] = pool["unconfirmed"] \ ToSet(blk.txs)
    BY <2>1 DEF IInv, Typed, Queues
  <2>4. Typed'
    BY <1>2, <2>2, <2>3 DEF Prepare, IInv, Typed, Stages
  <2>5. Confirmed' = Confirmed
    BY <1>2 DEF Prepare, Confirmed
  <2>6. BlockFresh'
    BY <2>1, <2>2, <2>5 DEF IInv, BlockFresh
  <2>7. BlockOutOfPool'
    BY <2>2, <2>3 DEF BlockOutOfPool
  <2>8. HeldOnce' /\ ApplyHoldsShutdown'
    BY <1>2, <2>1, <2>2 DEF Prepare, IInv, Applying, HeldOnce, ApplyHoldsShutdown
  <2>9. UnconfirmedNotConfirmed'
    BY <2>3, <2>5 DEF IInv, UnconfirmedNotConfirmed
  <2>10. ConfirmedOnce'
    BY <1>2 DEF Prepare, IInv, ConfirmedOnce
  <2> QED BY <2>4, <2>6, <2>7, <2>8, <2>9, <2>10 DEF IInv
<1> QED BY <1>1, <1>2

(* The block is saved: its transactions become confirmed, none of them was, *)
(* and none of them is unconfirmed.                                         *)
LEMMA CommitIInv ==
  ASSUME IInv, Commit
  PROVE  IInv'
<1> USE DEF counters, poolVars
<1>1. /\ blk.stage = "prepared"
      /\ chain' = Append(chain, blk.txs)
      /\ blk' = [blk EXCEPT !.stage = "committed"]
      /\ UNCHANGED <<pool, job, isProcessing>>
  BY DEF Commit
<1>2. /\ DOMAIN blk' = BlockFields
      /\ blk'.stage = "committed"
      /\ blk'.txs = blk.txs
  BY <1>1 DEF IInv, Typed, BlockFields
<1>3. chain \in Seq(Seq(Txs)) /\ blk.txs \in Seq(Txs)
  BY DEF IInv, Typed
<1>4. Typed'
  BY <1>1, <1>2, <1>3 DEF IInv, Typed, Stages
<1>5. Confirmed' = Confirmed \cup ToSet(blk.txs)
  BY <1>1, <1>3, TxsOfAppend DEF Confirmed
<1>6. UnconfirmedNotConfirmed'
  BY <1>1, <1>5 DEF IInv, UnconfirmedNotConfirmed, BlockOutOfPool
<1>7. IsInjective(blk.txs) /\ ToSet(blk.txs) \cap Confirmed = {}
  BY <1>1 DEF IInv, BlockFresh
<1>8. ConfirmedOnce'
  <2>1. /\ DOMAIN chain' = DOMAIN chain \cup {Len(chain) + 1}
        /\ chain'[Len(chain) + 1] = blk.txs
        /\ \A i \in DOMAIN chain : chain'[i] = chain[i]
    BY <1>1, <1>3
  <2>2. \A i \in DOMAIN chain : ToSet(chain[i]) \cap ToSet(blk.txs) = {}
    BY <1>3, <1>7, InTxsOf DEF Confirmed
  <2>3. \A i \in DOMAIN chain' : IsInjective(chain'[i])
    BY <2>1, <1>7 DEF IInv, ConfirmedOnce
  <2>4. \A i, j \in DOMAIN chain' : i # j => ToSet(chain'[i]) \cap ToSet(chain'[j]) = {}
    BY <2>1, <2>2 DEF IInv, ConfirmedOnce
  <2> QED BY <2>3, <2>4 DEF ConfirmedOnce
<1>9. HeldOnce' /\ BlockFresh' /\ BlockOutOfPool' /\ ApplyHoldsShutdown'
  BY <1>1, <1>2
  DEF IInv, Applying, HeldOnce, BlockFresh, BlockOutOfPool, ApplyHoldsShutdown
<1> QED BY <1>4, <1>6, <1>8, <1>9 DEF IInv

(* applyBlock ends.                                                         *)
LEMMA FinishIInv ==
  ASSUME IInv, Finish \/ FinishThrows
  PROVE  IInv'
<1>1. /\ pool' \in [Queues -> SUBSET Txs]
      /\ pool'["unconfirmed"] \subseteq pool["unconfirmed"]
  <2>1. PICK moved \in SUBSET pool["unconfirmed"] :
          pool' = MoveTx(pool, moved, "unconfirmed", "queued")
    BY DEF Finish, FinishThrows
  <2> QED BY <2>1 DEF MoveTx, IInv, Typed, Queues
<1>2. blk' = NoBlock /\ chain' = chain
  BY DEF Finish, FinishThrows
<1> QED BY <1>1, <1>2, DropStep

(* The last block is deleted: fewer transactions are confirmed.             *)
LEMMA PopIInv ==
  ASSUME IInv, PopLastBlock
  PROVE  IInv'
<1> USE DEF counters, poolVars
<1>1. /\ blk.stage = "idle"
      /\ chain # <<>>
      /\ chain' = Front(chain)
      /\ UNCHANGED <<pool, job, blk, isProcessing>>
  BY DEF PopLastBlock
<1>2. /\ chain' \in Seq(Seq(Txs))
      /\ DOMAIN chain' \subseteq DOMAIN chain
      /\ \A i \in DOMAIN chain' : chain'[i] = chain[i]
      /\ Confirmed' \subseteq Confirmed
  BY <1>1, TxsOfFront DEF IInv, Typed, Confirmed
<1>3. Typed'
  BY <1>1, <1>2 DEF IInv, Typed
<1>4. UnconfirmedNotConfirmed'
  BY <1>1, <1>2 DEF IInv, UnconfirmedNotConfirmed
<1>5. ConfirmedOnce'
  BY <1>2 DEF IInv, ConfirmedOnce
<1>6. HeldOnce' /\ BlockFresh' /\ BlockOutOfPool' /\ ApplyHoldsShutdown'
  BY <1>1 DEF Applying, HeldOnce, BlockFresh, BlockOutOfPool, ApplyHoldsShutdown
<1> QED BY <1>3, <1>4, <1>5, <1>6 DEF IInv

(* The process ends and boots.                                              *)
LEMMA BootIInv ==
  ASSUME IInv, Boot
  PROVE  IInv'
<1>1. blk' = NoBlock /\ chain' = chain /\ pool' = EmptyPool
  BY DEF Boot
<1>2. pool' \in [Queues -> SUBSET Txs] /\ pool'["unconfirmed"] = {}
  BY <1>1 DEF EmptyPool, Queues
<1> QED BY <1>1, <1>2, DropStep

LEMMA NextIInv == IInv /\ [Next]_vars => IInv'
<1> SUFFICES ASSUME IInv, [Next]_vars PROVE IInv'
  OBVIOUS
<1>1. CASE Next
  <2>1. CASE \E t \in Txs : Incoming(t) \/ ExpireTx(t)
    BY <2>1, PoolIInv
  <2>2. CASE ExpireDone \/ ProcessQueued \/ CheckPending
    BY <2>2, PoolIInv
  <2>3. CASE StartCycle \/ EndCycle
    BY <2>3, CycleIInv
  <2>4. CASE \E t \in Txs : DropConfirmed(t) \/ Unconfirm(t) \/ BackToQueued(t)
    BY <2>4, CycleIInv
  <2>5. CASE \E txs \in {b \in Blocks : IsInjective(b)} :
               CheckBlock(txs) \/ RejectConfirmed(txs)
    BY <2>5, CheckIInv
  <2>6. CASE SkipApply \/ PrepareThrows \/ PrepareFails \/ Rollback
    BY <2>6, CheckIInv
  <2>7. CASE EnterApply \/ Prepare
    BY <2>7, PrepareIInv
  <2>8. CASE Commit
    BY <2>8, CommitIInv
  <2>9. CASE Finish \/ FinishThrows
    BY <2>9, FinishIInv
  <2>10. CASE PopLastBlock
    BY <2>10, PopIInv
  <2>11. CASE Cleanup
    BY <2>11, PoolStep
    DEF Cleanup, poolVars, IInv, Typed, UnconfirmedNotConfirmed, HeldOnce
  <2>12. CASE Shutdown \/ Crash
    BY <2>12, BootIInv DEF Shutdown, Crash
  <2> QED
    BY <1>1, <2>1, <2>2, <2>3, <2>4, <2>5, <2>6, <2>7, <2>8, <2>9, <2>10, <2>11, <2>12
    DEF Next
<1>2. CASE UNCHANGED vars
  BY <1>2, PoolStep DEF vars, poolVars, IInv, Typed, UnconfirmedNotConfirmed, HeldOnce
<1> QED BY <1>1, <1>2

-----------------------------------------------------------------------------
(* The strengthening holds in every reachable state.                        *)
THEOREM Invariant == Spec => []IInv
<1>1. Init => IInv
  BY InitIInv
<1>2. IInv /\ [Next]_vars => IInv'
  BY NextIInv
<1> QED BY <1>1, <1>2, PTL DEF Spec

(* Whatever is received, expires, is popped, crashes or fails: no           *)
(* transaction is at once unconfirmed in the pool and confirmed in a block  *)
(* (filterConfirmedIds in PoolManager.ts and applyBlock in chain.ts).       *)
THEOREM NeverBoth == Spec => []UnconfirmedNotConfirmed
<1>1. IInv => UnconfirmedNotConfirmed
  BY DEF IInv
<1> QED BY <1>1, Invariant, PTL

(* No transaction is confirmed twice in the chain (checkBlockTransactions   *)
(* in verify.ts, and the default sequence from there to the commit).        *)
THEOREM NeverTwice == Spec => []ConfirmedOnce
<1>1. IInv => ConfirmedOnce
  BY DEF IInv
<1> QED BY <1>1, Invariant, PTL

(* A transaction is in one place: never in two blocks, nor in a block and   *)
(* among the unconfirmed ones.                                              *)
THEOREM OnePlace == Spec => []TxInOnePlace
<1>1. UnconfirmedNotConfirmed /\ ConfirmedOnce => TxInOnePlace
  BY DEF TxInOnePlace
<1> QED BY <1>1, NeverBoth, NeverTwice, PTL

(* The flag a shutdown waits for is set while a block is being applied      *)
(* (isProcessing in chain.ts).                                              *)
THEOREM ShutdownWaits == Spec => []ApplyHoldsShutdown
<1>1. IInv => ApplyHoldsShutdown
  BY DEF IInv
<1> QED BY <1>1, Invariant, PTL
-----------------------------------------------------------------------------
(* The updates of the database that the actions make.                       *)

LEMMA SetOfTxs ==
  ASSUME NEW S, S \subseteq Txs
  PROVE  IsFiniteSet(S)
BY FS_Subset, AccountsAssumption DEF AccountsAssumption

LEMMA SumTypes ==
  ASSUME NEW S, S \subseteq Txs, NEW a, a \in AccountIds
  PROVE  CostOf(S, a) \in Nat /\ Received(S, a) \in Nat
BY TxWorth, WorthSummable, AccountsAssumption DEF CostOf, Received

(* The transactions of a set give back what they were debited.              *)
LEMMA UndoSetEffect ==
  ASSUME NEW S, S \subseteq Txs, NEW r, r \in Results,
         NEW s, s = PerformAll(OpsOf(UndoUnconfirmedOps, SetToSeq(S)), r)
  PROVE  /\ s \in Results
         /\ \A c \in AccountIds :
              /\ s.db[c].balance = r.db[c].balance
              /\ s.db[c].u_balance = r.db[c].u_balance + CostOf(S, c)
         /\ r.ok => s.ok
         /\ S = {} => s = r
<1> DEFINE txs == SetToSeq(S)
           lists == [i \in DOMAIN txs |-> UndoUnconfirmedOps(txs[i])]
<1>1. txs \in Seq(S) /\ txs \in Seq(Txs) /\ IsInjective(txs) /\ ToSet(txs) = S
  <2>1. txs \in Seq(S) /\ IsInjective(txs) /\ ToSet(txs) = S
    BY SetOfTxs, SetToSeqLists
  <2> HIDE DEF txs
  <2> QED BY <2>1
<1>2. s = PerformAll(lists, r)
  BY DEF OpsOf
<1> HIDE DEF txs
<1>3. \A i \in DOMAIN txs : txs[i] \in Txs
  BY <1>1
<1>4. lists \in [DOMAIN txs -> Seq(Diffs)]
  BY <1>3, OpsTyped, AccountsAssumption
<1>5. Runs(lists, txs) /\ \A n \in 1..Len(txs) : lists[n] = UndoUnconfirmedOps(txs[n])
  <2>1. Runs(lists, txs) /\ \A n \in 1..Len(txs) : n \in DOMAIN txs
    <3> HIDE DEF lists
    <3> QED BY <1>1, <1>4, RunsLists
  <2> QED BY <2>1
<1> HIDE DEF lists
<1>6. /\ s \in Results
      /\ \A c \in AccountIds :
           /\ s.db[c].balance = r.db[c].balance
           /\ s.db[c].u_balance = r.db[c].u_balance + CostOf(S, c)
      /\ r.ok => s.ok
  BY <1>1, <1>2, <1>5, UndoUnconfirmedAll, AccountsAssumption, SMTT(30)
<1>7. ASSUME S = {} PROVE s = r
  <2>1. Len(txs) = 0
    BY <1>1, <1>7
  <2>2. PICK f : Performs(f, lists, txs, r, s)
    BY <1>2, <1>5, PerformsExists
  <2> QED BY <2>1, <2>2 DEF Performs
<1> QED BY <1>6, <1>7

(* What is asked of a block that is being applied. *)
Applicable ==
  /\ blk.txs \in Seq(Txs)
  /\ IsInjective(blk.txs)
  /\ blk.overlap \subseteq Txs
  /\ db \in Tables

LEMMA UndoneEffect ==
  ASSUME Applicable
  PROVE  /\ Undone \in Results /\ Undone.ok
         /\ \A c \in AccountIds :
              /\ Undone.db[c].balance = db[c].balance
              /\ Undone.db[c].u_balance = db[c].u_balance + CostOf(blk.overlap, c)
<1>1. Unharmed(db) \in Results /\ Unharmed(db).ok /\ Unharmed(db).db = db
  BY UnharmedResult DEF Unharmed, Applicable
<1> QED BY <1>1, UndoSetEffect DEF Undone, Applicable

LEMMA DebitedEffect ==
  ASSUME Applicable
  PROVE  LET D == ToSet(blk.txs) \cap blk.debited IN
         /\ Debited \in Results
         /\ \A c \in AccountIds :
              /\ Debited.db[c].balance = Undone.db[c].balance
              /\ Debited.db[c].u_balance = Undone.db[c].u_balance - CostOf(D, c)
         /\ (\A t \in D : Undone.db[Sender[t]].u_balance >= CostOf(D, Sender[t]))
              => Debited.ok
<1> DEFINE txs == blk.txs
           lists == [i \in DOMAIN txs |->
                       IF txs[i] \in blk.debited THEN ApplyUnconfirmedOps(txs[i]) ELSE <<>>]
<1>1. txs \in Seq(Txs) /\ IsInjective(txs) /\ \A i \in DOMAIN txs : txs[i] \in Txs
  BY DEF Applicable
<1>2. Debited = PerformAll(lists, Undone)
  BY DEF Debited, OpsOf, DebitOps
<1>3. lists \in [DOMAIN txs -> Seq(Diffs)]
  <2>1. <<>> \in Seq(Diffs)
    OBVIOUS
  <2>2. \A i \in DOMAIN txs : ApplyUnconfirmedOps(txs[i]) \in Seq(Diffs)
    BY <1>1, OpsTyped, AccountsAssumption
  <2> QED BY <2>1, <2>2
<1>4. Runs(lists, txs) /\ Debits(lists, txs, blk.debited)
  <2>1. Runs(lists, txs) /\ \A n \in 1..Len(txs) : n \in DOMAIN txs
    <3> HIDE DEF lists, txs
    <3> QED BY <1>1, <1>3, RunsLists
  <2> QED BY <2>1 DEF Debits
<1>5. Undone \in Results /\ Undone.ok
  BY UndoneEffect
<1> HIDE DEF lists
<1> DEFINE D == ToSet(txs) \cap blk.debited
<1>6. /\ Debited \in Results
      /\ \A c \in AccountIds :
           /\ Debited.db[c].balance = Undone.db[c].balance
           /\ Debited.db[c].u_balance = Undone.db[c].u_balance - CostOf(D, c)
      /\ (/\ Undone.ok
          /\ \A t \in D : Undone.db[Sender[t]].u_balance >= CostOf(D, Sender[t]))
           => Debited.ok
  <2> DEFINE E == blk.debited
  <2> HIDE DEF txs, E
  <2>1. Debits(lists, txs, E)
    BY <1>4 DEF E
  <2>2. DebitedFor(Undone, Debited, ToSet(txs) \cap E)
    BY <1>2, <1>4, <1>5, <2>1, DebitAll, AccountsAssumption
  <2> QED BY <2>2, Zenon DEF E, DebitedFor
<1> QED BY <1>5, <1>6

LEMMA BlockEffect ==
  ASSUME Applicable
  PROVE  LET B == ToSet(blk.txs)
             D == B \cap blk.debited
         IN
         /\ BlockResult \in Results
         /\ \A c \in AccountIds :
              /\ BlockResult.db[c].balance
                   = db[c].balance + Received(B, c) - CostOf(B, c)
              /\ BlockResult.db[c].u_balance
                   = db[c].u_balance + CostOf(blk.overlap, c) - CostOf(D, c) + Received(B, c)
         /\ (/\ \A t \in D : db[Sender[t]].u_balance + CostOf(blk.overlap, Sender[t])
                               >= CostOf(D, Sender[t])
             /\ \A t \in B : db[Sender[t]].balance >= CostOf(B, Sender[t]))
              => BlockResult.ok
<1> DEFINE txs == blk.txs
           B == ToSet(txs)
           D == B \cap blk.debited
           lists == [i \in DOMAIN txs |-> ApplyOps(txs[i])]
<1>1. txs \in Seq(Txs) /\ IsInjective(txs) /\ \A i \in DOMAIN txs : txs[i] \in Txs
  BY DEF Applicable
<1>2. BlockResult = PerformAll(lists, Debited)
  BY DEF BlockResult, OpsOf
<1>3. lists \in [DOMAIN txs -> Seq(Diffs)]
  BY <1>1, OpsTyped, AccountsAssumption
<1>4. Runs(lists, txs) /\ \A n \in 1..Len(txs) : lists[n] = ApplyOps(txs[n])
  <2>1. Runs(lists, txs) /\ \A n \in 1..Len(txs) : n \in DOMAIN txs
    <3> HIDE DEF lists, txs
    <3> QED BY <1>1, <1>3, RunsLists
  <2> QED BY <2>1
<1>5. B \subseteq Txs
  BY <1>1 DEF ToSet
<1> HIDE DEF lists
<1>6. /\ Debited \in Results
      /\ \A c \in AccountIds :
           /\ Debited.db[c].balance = Undone.db[c].balance
           /\ Debited.db[c].u_balance = Undone.db[c].u_balance - CostOf(D, c)
      /\ (\A t \in D : Undone.db[Sender[t]].u_balance >= CostOf(D, Sender[t]))
           => Debited.ok
  BY DebitedEffect
<1>7. /\ Undone \in Results /\ Undone.ok
      /\ \A c \in AccountIds :
           /\ Undone.db[c].balance = db[c].balance
           /\ Undone.db[c].u_balance = db[c].u_balance + CostOf(blk.overlap, c)
  BY UndoneEffect
<1> HIDE DEF B, D
<1>8. /\ BlockResult \in Results
      /\ \A c \in AccountIds :
           /\ BlockResult.db[c].balance
                = Debited.db[c].balance + Received(B, c) - CostOf(B, c)
           /\ BlockResult.db[c].u_balance = Debited.db[c].u_balance + Received(B, c)
      /\ (/\ Debited.ok
          /\ \A t \in B : Debited.db[Sender[t]].balance >= CostOf(B, Sender[t]))
           => BlockResult.ok
  BY <1>2, <1>4, <1>6, ApplyAll, AccountsAssumption DEF B
<1>9. \A t \in B : t \in Txs /\ Sender[t] \in AccountIds
  BY <1>5, TxWorth, AccountsAssumption
<1>10. D \subseteq B
  BY DEF D
<1>11. \A c \in AccountIds :
         /\ BlockResult.db[c].balance
              = db[c].balance + Received(B, c) - CostOf(B, c)
         /\ BlockResult.db[c].u_balance
              = db[c].u_balance + CostOf(blk.overlap, c) - CostOf(D, c) + Received(B, c)
  <2> SUFFICES ASSUME NEW c \in AccountIds
               PROVE  /\ BlockResult.db[c].balance
                           = db[c].balance + Received(B, c) - CostOf(B, c)
                      /\ BlockResult.db[c].u_balance
                           = db[c].u_balance + CostOf(blk.overlap, c)
                               - CostOf(D, c) + Received(B, c)
    OBVIOUS
  <2>1. Debited.db[c].balance = db[c].balance
    BY <1>6, <1>7
  <2>2. Debited.db[c].u_balance = db[c].u_balance + CostOf(blk.overlap, c) - CostOf(D, c)
    <3>1. /\ Debited.db[c].u_balance = Undone.db[c].u_balance - CostOf(D, c)
          /\ Undone.db[c].u_balance = db[c].u_balance + CostOf(blk.overlap, c)
      BY <1>6, <1>7
    <3>2. db[c].u_balance \in Int /\ CostOf(blk.overlap, c) \in Nat /\ CostOf(D, c) \in Nat
      BY <1>5, <1>10, SumTypes DEF Applicable, Tables, Balances
    <3> QED BY <3>1, <3>2
  <2> QED BY <1>8, <2>1, <2>2
<1>12. ASSUME \A t \in D : db[Sender[t]].u_balance + CostOf(blk.overlap, Sender[t])
                             >= CostOf(D, Sender[t]),
              \A t \in B : db[Sender[t]].balance >= CostOf(B, Sender[t])
       PROVE  BlockResult.ok
  <2>1. Debited.ok
    BY <1>6, <1>7, <1>9, <1>10, <1>12
  <2>2. \A t \in B : Debited.db[Sender[t]].balance >= CostOf(B, Sender[t])
    BY <1>6, <1>7, <1>9, <1>12
  <2> QED BY <1>8, <2>1, <2>2
<1> QED BY <1>8, <1>11, <1>12 DEF B, D

(* popLastBlock. *)
LEMMA PopEffect ==
  ASSUME NEW b \in Seq(Txs), IsInjective(b), db \in Tables, NEW s,
         s = PerformAll(OpsOf(PopOps, Reverse(b)), Unharmed(db))
  PROVE  /\ s \in Results
         /\ \A c \in AccountIds :
              /\ s.db[c].balance = db[c].balance + CostOf(ToSet(b), c) - Received(ToSet(b), c)
              /\ s.db[c].u_balance
                   = db[c].u_balance + CostOf(ToSet(b), c) - Received(ToSet(b), c)
<1> DEFINE txs == Reverse(b)
           lists == [i \in DOMAIN txs |-> UndoOps(txs[i]) \o UndoUnconfirmedOps(txs[i])]
<1>1. txs \in Seq(Txs) /\ IsInjective(txs) /\ ToSet(txs) = ToSet(b)
  BY ReverseLists
<1>2. s = PerformAll(lists, Unharmed(db))
  BY DEF OpsOf, PopOps
<1> HIDE DEF txs
<1>3. \A i \in DOMAIN txs : txs[i] \in Txs
  BY <1>1
<1>4. lists \in [DOMAIN txs -> Seq(Diffs)]
  BY <1>3, OpsTyped, AccountsAssumption
<1>5. Runs(lists, txs) /\ Pops(lists, txs)
  <2>1. Runs(lists, txs) /\ \A n \in 1..Len(txs) : n \in DOMAIN txs
    <3> HIDE DEF lists
    <3> QED BY <1>1, <1>4, RunsLists
  <2> QED BY <2>1 DEF Pops
<1> HIDE DEF lists
<1> DEFINE r == Unharmed(db)
<1>6. r \in Results /\ r.db = db
  BY UnharmedResult DEF Unharmed
<1> HIDE DEF r
<1>7. s = PerformAll(lists, r)
  BY <1>2 DEF r
<1>8. /\ s \in Results
      /\ \A c \in AccountIds :
           /\ s.db[c].balance
                = r.db[c].balance + CostOf(ToSet(txs), c) - Received(ToSet(txs), c)
           /\ s.db[c].u_balance
                = r.db[c].u_balance + CostOf(ToSet(txs), c) - Received(ToSet(txs), c)
  BY <1>5, <1>6, <1>7, PopAll, AccountsAssumption
<1> QED BY <1>1, <1>6, <1>8
-----------------------------------------------------------------------------
(* Types.                                                                   *)

LEMMA ReadyListsType ==
  ASSUME NEW list \in ReadyLists, pool \in [Queues -> SUBSET Txs]
  PROVE  list \in Seq(Txs)
<1>1. PICK S \in SUBSET pool["ready"] : list \in SetToSeqs(S)
  BY DEF ReadyLists, kSubset
<1>2. S \subseteq Txs /\ IsFiniteSet(S)
  BY <1>1, SetOfTxs DEF Queues
<1>3. Cardinality(S) \in Nat
  BY <1>2, FS_CardinalityType
<1>4. list \in [1..Cardinality(S) -> S]
  BY <1>1, Zenon DEF SetToSeqs
<1> QED BY <1>2, <1>3, <1>4

LEMMA NoAccountsType ==
  /\ NoAccounts \in Tables
  /\ NoCycle \in [todo : Seq(Txs), accounts : Tables]
  /\ NoBlock \in [stage : Stages, txs : Seq(Txs), accounts : Tables,
                  overlap : SUBSET Txs, debited : SUBSET Txs]
<1>1. NoAccounts \in Tables
  BY DEF NoAccounts, Tables, Balances
<1> QED BY <1>1 DEF NoCycle, NoBlock, Stages

LEMMA GenesisTablesType ==
  /\ GenesisTables \in Tables
  /\ \A a \in AccountIds : /\ GenesisTables[a].balance = Genesis[a] /\ Genesis[a] \in Nat
                           /\ GenesisTables[a].u_balance = Genesis[a]
BY BlockApplicationAssumption DEF GenesisTables, BlockApplicationAssumption, Tables, Balances

LEMMA InitTypeOK == Init => TypeOK
<1> SUFFICES ASSUME Init PROVE TypeOK
  OBVIOUS
<1>1. db \in Tables
  BY GenesisTablesType DEF Init
<1>2. pool \in [Queues -> SUBSET Txs] /\ chain \in Seq(Seq(Txs)) /\ job \in Jobs
  BY DEF Init, EmptyPool, Jobs
<1>3. cycle \in [todo : Seq(Txs), accounts : Tables]
      /\ blk \in [stage : Stages, txs : Seq(Txs), accounts : Tables,
                  overlap : SUBSET Txs, debited : SUBSET Txs]
  BY NoAccountsType DEF Init
<1>4. /\ isProcessing \in BOOLEAN /\ isCleaning \in BOOLEAN
      /\ counters \in Nat \X Nat \X Nat \X Nat /\ disturbed \subseteq Disturbances
  BY DEF Init, counters
<1> QED BY <1>1, <1>2, <1>3, <1>4 DEF TypeOK

CycleType == [todo : Seq(Txs), accounts : Tables]
BlkType == [stage : Stages, txs : Seq(Txs), accounts : Tables,
            overlap : SUBSET Txs, debited : SUBSET Txs]
CountersType == Nat \X Nat \X Nat \X Nat

(* What TypeOK says beyond Typed. *)
RestTyped ==
  /\ job \in Jobs
  /\ cycle \in CycleType
  /\ db \in Tables
  /\ blk \in BlkType
  /\ isProcessing \in BOOLEAN
  /\ isCleaning \in BOOLEAN
  /\ counters \in CountersType
  /\ disturbed \subseteq Disturbances

LEMMA TypeOKParts == Typed /\ RestTyped <=> Typed /\ TypeOK
BY DEF Typed, RestTyped, TypeOK, CycleType, BlkType, CountersType

LEMMA PoolTyped ==
  ASSUME RestTyped
  PROVE  /\ \A t \in Txs : Incoming(t) \/ ExpireTx(t) => RestTyped'
         /\ ExpireDone \/ ProcessQueued \/ CheckPending \/ EndCycle \/ Cleanup => RestTyped'
<1> USE DEF RestTyped, counters, poolVars, CountersType
<1>1. ASSUME NEW t \in Txs, Incoming(t) PROVE RestTyped'
  BY <1>1 DEF Incoming
<1>2. ASSUME NEW t \in Txs, ExpireTx(t) PROVE RestTyped'
  <2>1. disturbed' \subseteq Disturbances
    BY <1>2 DEF ExpireTx, Disturbances
  <2>2. counters' \in CountersType
    BY <1>2 DEF ExpireTx
  <2> QED BY <1>2, <2>1, <2>2 DEF ExpireTx
<1>3. ASSUME ExpireDone PROVE RestTyped'
  BY <1>3 DEF ExpireDone, Jobs
<1>4. ASSUME ProcessQueued PROVE RestTyped'
  <2>1. disturbed' \subseteq Disturbances
    BY <1>4 DEF ProcessQueued, Disturb, Disturbances
  <2> QED BY <1>4, <2>1 DEF ProcessQueued, Jobs
<1>5. ASSUME CheckPending PROVE RestTyped'
  BY <1>5 DEF CheckPending, Jobs
<1>6. ASSUME EndCycle PROVE RestTyped'
  BY <1>6, NoAccountsType DEF EndCycle, Jobs, CycleType
<1>7. ASSUME Cleanup PROVE RestTyped'
  BY <1>7 DEF Cleanup
<1> QED BY <1>1, <1>2, <1>3, <1>4, <1>5, <1>6, <1>7

LEMMA CycleTyped ==
  ASSUME Typed, RestTyped
  PROVE  /\ StartCycle => RestTyped'
         /\ \A t \in Txs : DropConfirmed(t) \/ Unconfirm(t) \/ BackToQueued(t) => RestTyped'
<1> USE DEF RestTyped, counters, poolVars, CountersType
<1>1. ASSUME StartCycle PROVE RestTyped'
  <2>1. PICK list \in ReadyLists : cycle' = [todo |-> list, accounts |-> db]
    BY <1>1 DEF StartCycle
  <2>2. list \in Seq(Txs)
    BY ReadyListsType DEF Typed
  <2>3. cycle' \in CycleType
    BY <2>1, <2>2 DEF CycleType
  <2> QED BY <1>1, <2>3 DEF StartCycle, Jobs
<1>2. ASSUME NEW t \in Txs, Turn(t), NEW accounts, accounts \in Tables,
             NEW p, Advance(p, accounts)
      PROVE  cycle' \in CycleType
  <2>1. Tail(cycle.todo) \in Seq(Txs)
    BY <1>2 DEF Turn, CycleType
  <2> QED BY <1>2, <2>1 DEF Advance, CycleType
<1>3. cycle.accounts \in Tables
  BY DEF CycleType
<1>4. ASSUME NEW t \in Txs, Affordable(t) PROVE Debit(t) \in Tables
  <2>1. Sender[t] \in AccountIds /\ Cost(t) \in Nat
    BY TxWorth, AccountsAssumption
  <2>2. cycle.accounts[Sender[t]].u_balance - Cost(t) \in Nat
    BY <1>3, <1>4, <2>1 DEF Affordable, Tables, Balances
  <2> QED BY <1>3, <2>1, <2>2 DEF Debit, Tables, Balances
<1>5. ASSUME NEW t \in Txs, DropConfirmed(t) PROVE RestTyped'
  <2>1. cycle' \in CycleType
    BY <1>2, <1>3, <1>5 DEF DropConfirmed
  <2> QED BY <1>5, <2>1 DEF DropConfirmed, Advance
<1>6. ASSUME NEW t \in Txs, Unconfirm(t) PROVE RestTyped'
  <2>1. cycle' \in CycleType
    BY <1>2, <1>4, <1>6 DEF Unconfirm
  <2>2. db' \in Tables
    <3>1. Unharmed(db) \in Results
      BY UnharmedResult
    <3> DEFINE s == PerformOps(ApplyUnconfirmedOps(t), Unharmed(db))
    <3>2. s \in Results
      BY <3>1, ApplyUnconfirmedEffect, AccountsAssumption
    <3>3. s.ok /\ db' = s.db
      BY <1>6 DEF Unconfirm
    <3> HIDE DEF s
    <3> QED BY <3>2, <3>3 DEF Results
  <2>3. disturbed' \subseteq Disturbances
    BY <1>6 DEF Unconfirm, Disturb, Disturbances
  <2> QED BY <1>6, <2>1, <2>2, <2>3 DEF Unconfirm, Advance
<1>7. ASSUME NEW t \in Txs, BackToQueued(t) PROVE RestTyped'
  <2>1. cycle' \in CycleType
    BY <1>2, <1>3, <1>4, <1>7 DEF BackToQueued
  <2>2. counters' \in CountersType /\ UNCHANGED <<db, disturbed>>
    BY <1>7 DEF BackToQueued, Advance
  <2> QED BY <1>7, <2>1, <2>2 DEF BackToQueued, Advance
<1> QED BY <1>1, <1>5, <1>6, <1>7

(* Nothing in the pool is undone for a block that is refused: none of its   *)
(* confirmed transactions is unconfirmed.                                   *)
LEMMA NothingStale ==
  ASSUME IInv, db \in Tables, NEW txs, RejectConfirmed(txs)
  PROVE  UNCHANGED db /\ pool'["unconfirmed"] = pool["unconfirmed"]
<1> DEFINE stale == ConfirmedIn(txs) \cap pool["unconfirmed"]
<1>1. stale = {}
  BY DEF IInv, UnconfirmedNotConfirmed, ConfirmedIn
<1>2. Unharmed(db) \in Results /\ Unharmed(db).db = db
  BY UnharmedResult DEF Unharmed
<1>3. PerformAll(OpsOf(UndoUnconfirmedOps, SetToSeq(stale)), Unharmed(db)) = Unharmed(db)
  <2> HIDE DEF stale
  <2> QED BY <1>1, <1>2, UndoSetEffect
<1>4. UNCHANGED db
  BY <1>2, <1>3 DEF RejectConfirmed, UndoUnconfirmed
<1>5. pool' = [pool EXCEPT !["unconfirmed"] = @ \ stale]
  BY DEF RejectConfirmed
<1>6. pool'["unconfirmed"] = pool["unconfirmed"]
  <2> HIDE DEF stale
  <2> QED BY <1>1, <1>5 DEF IInv, Typed, Queues
<1> QED BY <1>4, <1>6

LEMMA CheckTyped ==
  ASSUME IInv, RestTyped
  PROVE  /\ \A txs \in {b \in Blocks : IsInjective(b)} :
              CheckBlock(txs) \/ RejectConfirmed(txs) => RestTyped'
         /\ SkipApply \/ PrepareThrows \/ PrepareFails \/ Rollback => RestTyped'
<1> USE DEF RestTyped, counters, poolVars, CountersType
<1>1. ASSUME NEW txs \in Blocks, CheckBlock(txs) PROVE RestTyped'
  <2>1. txs \in Seq(Txs)
    <3>1. PICK m \in 0..MaxTxsPerBlock : txs \in [1..m -> Txs]
      BY Zenon DEF Blocks, BoundedSeq, SeqOf
    <3> QED BY <3>1, BlockApplicationAssumption
  <2>2. blk' \in BlkType
    <3>1. blk' = [NoBlock EXCEPT !.stage = "checked", !.txs = txs, !.accounts = db]
      BY <1>1 DEF CheckBlock
    <3>2. NoBlock \in BlkType
      BY NoAccountsType DEF BlkType
    <3> QED BY <2>1, <3>1, <3>2 DEF BlkType, Stages
  <2> QED BY <1>1, <2>2 DEF CheckBlock
<1>2. ASSUME NEW txs \in Blocks, RejectConfirmed(txs) PROVE RestTyped'
  BY <1>2, NothingStale DEF RejectConfirmed
<1>3. NoBlock \in BlkType
  BY NoAccountsType DEF BlkType
<1>4. ASSUME SkipApply PROVE RestTyped'
  BY <1>3, <1>4 DEF SkipApply
<1>5. ASSUME NEW n, ThrowAfter(n), faults' \in Nat PROVE RestTyped'
  <2>1. disturbed' \subseteq Disturbances
    BY <1>5 DEF ThrowAfter, Disturb, Disturbances
  <2> QED BY <1>3, <1>5, <2>1 DEF ThrowAfter
<1>6. ASSUME PrepareThrows PROVE RestTyped'
  BY <1>5, <1>6 DEF PrepareThrows
<1>7. ASSUME PrepareFails PROVE RestTyped'
  BY <1>5, <1>7 DEF PrepareFails
<1>8. ASSUME Rollback PROVE RestTyped'
  <2>1. disturbed' \subseteq Disturbances
    BY <1>8 DEF Rollback, Disturb, Disturbances
  <2>2. faults' \in Nat /\ db' = db
    BY <1>8 DEF Rollback, RolledBack
  <2> QED BY <1>3, <1>8, <2>1, <2>2 DEF Rollback
<1> QED BY <1>1, <1>2, <1>4, <1>6, <1>7, <1>8

LEMMA IsApplicable ==
  ASSUME IInv, RestTyped, blk.stage = "prepared"
  PROVE  Applicable
BY DEF IInv, Typed, BlockFresh, RestTyped, BlkType, Applicable

LEMMA ApplyTyped ==
  ASSUME IInv, RestTyped, EnterApply \/ Prepare \/ Commit \/ Finish \/ FinishThrows
  PROVE  RestTyped'
<1> USE DEF RestTyped, counters, poolVars, CountersType
<1>1. CASE EnterApply
  <2>1. blk' \in BlkType
    BY <1>1 DEF EnterApply, BlkType, Stages, IInv, Typed, Queues
  <2> QED BY <1>1, <2>1 DEF EnterApply
<1>2. CASE Prepare
  <2>1. NotInPool \subseteq Txs
    BY DEF NotInPool, IInv, Typed, ToSet
  <2>2. blk' \in BlkType
    BY <1>2, <2>1 DEF Prepare, BlkType, Stages
  <2> QED BY <1>2, <2>2 DEF Prepare
<1>3. CASE Commit
  <2>1. blk' \in BlkType
    BY <1>3 DEF Commit, BlkType, Stages
  <2>2. db' \in Tables
    <3>1. BlockResult \in Results
      BY <1>3, IsApplicable, BlockEffect DEF Commit
    <3> QED BY <1>3, <3>1 DEF Commit, Results
  <2> QED BY <1>3, <2>1, <2>2 DEF Commit
<1>4. CASE Finish \/ FinishThrows
  BY <1>4, NoAccountsType DEF Finish, FinishThrows, BlkType
<1> QED BY <1>1, <1>2, <1>3, <1>4

LEMMA TxsOfLast ==
  ASSUME NEW c \in Seq(Seq(Txs)), c # <<>>
  PROVE  TxsOf(c) = TxsOf(Front(c)) \cup ToSet(Last(c))
<1> DEFINE d == Front(c)
           b == Last(c)
<1>1. d \in Seq(Seq(Txs)) /\ b \in Seq(Txs)
  BY DEF Front, Last
<1>2. Append(d, b) = c
  BY DEF Front, Last
<1> HIDE DEF d, b
<1>3. TxsOf(Append(d, b)) = TxsOf(d) \cup ToSet(b)
  BY <1>1, TxsOfAppend
<1> QED BY <1>2, <1>3 DEF d, b

(* What popLastBlock does to the chain and to the database. *)
LEMMA PopStep ==
  ASSUME IInv, db \in Tables, PopLastBlock
  PROVE  LET B == ToSet(Last(chain)) IN
         /\ db' \in Tables
         /\ B \subseteq Confirmed
         /\ Confirmed' = Confirmed \ B
         /\ \A c \in AccountIds :
              /\ db'[c].balance = db[c].balance + CostOf(B, c) - Received(B, c)
              /\ db'[c].u_balance = db[c].u_balance + CostOf(B, c) - Received(B, c)
<1> DEFINE b == Last(chain)
           B == ToSet(b)
           s == PerformAll(OpsOf(PopOps, Reverse(b)), Unharmed(db))
<1>1. chain \in Seq(Seq(Txs)) /\ chain # <<>> /\ chain' = Front(chain)
  BY DEF PopLastBlock, IInv, Typed
<1>2. PICK n \in Nat : n + 1 = Len(chain) /\ DOMAIN chain = 1..(n + 1)
  <2>1. Len(chain) \in Nat /\ Len(chain) # 0 /\ DOMAIN chain = 1..Len(chain)
    BY <1>1
  <2> DEFINE k == Len(chain)
  <2>2. k - 1 \in Nat /\ (k - 1) + 1 = k
    BY <2>1
  <2>3. DOMAIN chain = 1..((k - 1) + 1)
    BY <2>1, <2>2
  <2> HIDE DEF k
  <2> QED BY <2>2, <2>3 DEF k
<1>3. b = chain[n + 1] /\ n + 1 \in DOMAIN chain
  BY <1>2 DEF Last
<1>4. b \in Seq(Txs) /\ IsInjective(b)
  BY <1>1, <1>3 DEF IInv, ConfirmedOnce
<1>5. s.ok /\ db' = s.db
  BY DEF PopLastBlock
<1>6. /\ s \in Results
      /\ \A c \in AccountIds :
           /\ s.db[c].balance = db[c].balance + CostOf(B, c) - Received(B, c)
           /\ s.db[c].u_balance = db[c].u_balance + CostOf(B, c) - Received(B, c)
  <2> HIDE DEF b
  <2> QED BY <1>4, PopEffect
<1>7. db' \in Tables
  <2> HIDE DEF s
  <2> QED BY <1>5, <1>6 DEF Results
<1>8. DOMAIN chain' = 1..n /\ \A i \in 1..n : chain'[i] = chain[i]
  BY <1>1, <1>2 DEF Front
<1>9. B \subseteq Confirmed
  BY <1>1, <1>3, InTxsOf DEF Confirmed
<1>10. Confirmed' = Confirmed \ B
  <2>1. Confirmed' = TxsOf(Front(chain)) /\ Confirmed = Confirmed' \cup B
    BY <1>1, TxsOfLast DEF Confirmed
  <2>2. Confirmed' \cap B = {}
    <3> SUFFICES ASSUME NEW x \in Confirmed', x \in B PROVE FALSE
      OBVIOUS
    <3>1. PICK i \in 1..n : x \in ToSet(chain[i])
      <4>1. PICK i \in DOMAIN chain' : x \in ToSet(chain'[i])
        BY DEF Confirmed, TxsOf
      <4> QED BY <1>8, <4>1
    <3>2. i \in DOMAIN chain /\ i # n + 1
      BY <1>2
    <3>3. ToSet(chain[i]) \cap ToSet(chain[n + 1]) = {}
      BY <1>3, <3>2 DEF IInv, ConfirmedOnce
    <3> QED BY <1>3, <3>1, <3>3
  <2> HIDE DEF B
  <2> QED BY <2>1, <2>2
<1> HIDE DEF s, B
<1> QED BY <1>5, <1>6, <1>7, <1>9, <1>10 DEF B

LEMMA NextTypeOK == IInv /\ TypeOK /\ [Next]_vars => TypeOK'
<1> SUFFICES ASSUME IInv, TypeOK, [Next]_vars PROVE TypeOK'
  OBVIOUS
<1>1. Typed /\ RestTyped /\ Typed'
  BY NextIInv, TypeOKParts DEF IInv
<1>2. RestTyped'
  <2>1. CASE Next
    <3>1. CASE \E t \in Txs : Incoming(t) \/ ExpireTx(t)
      BY <1>1, <3>1, PoolTyped
    <3>2. CASE ExpireDone \/ ProcessQueued \/ CheckPending \/ EndCycle \/ Cleanup
      BY <1>1, <3>2, PoolTyped
    <3>3. CASE StartCycle
      BY <1>1, <3>3, CycleTyped
    <3>4. CASE \E t \in Txs : DropConfirmed(t) \/ Unconfirm(t) \/ BackToQueued(t)
      BY <1>1, <3>4, CycleTyped
    <3>5. CASE \E txs \in {b \in Blocks : IsInjective(b)} :
                 CheckBlock(txs) \/ RejectConfirmed(txs)
      BY <1>1, <3>5, CheckTyped
    <3>6. CASE SkipApply \/ PrepareThrows \/ PrepareFails \/ Rollback
      BY <1>1, <3>6, CheckTyped
    <3>7. CASE EnterApply \/ Prepare \/ Commit \/ Finish \/ FinishThrows
      BY <1>1, <3>7, ApplyTyped
    <3>8. CASE PopLastBlock
      <4>1. db' \in Tables
        BY <1>1, <3>8, PopStep DEF RestTyped
      <4> QED BY <1>1, <3>8, <4>1 DEF PopLastBlock, RestTyped, counters, poolVars
    <3>9. CASE Shutdown \/ Crash
      <4>1. Boot
        BY <3>9 DEF Shutdown, Crash
      <4>2. disturbed' \subseteq Disturbances
        BY <1>1, <4>1 DEF Boot, Disturb, Disturbances, RestTyped
      <4>3. blk' \in BlkType /\ cycle' \in CycleType /\ db' \in {db, GenesisTables}
        BY <4>1, NoAccountsType DEF Boot, BlkType, CycleType, RestoreUnconfirmedEntries
      <4>4. counters' \in CountersType
        BY <1>1, <4>1 DEF Boot, RestTyped, counters, CountersType
      <4>5. job' \in Jobs /\ isProcessing' \in BOOLEAN /\ isCleaning' \in BOOLEAN
        BY <4>1 DEF Boot, Jobs
      <4> QED BY <1>1, <4>2, <4>3, <4>4, <4>5, GenesisTablesType DEF RestTyped
    <3> QED
      BY <2>1, <3>1, <3>2, <3>3, <3>4, <3>5, <3>6, <3>7, <3>8, <3>9 DEF Next
  <2>2. CASE UNCHANGED vars
    BY <1>1, <2>2 DEF vars, poolVars, RestTyped
  <2> QED BY <2>1, <2>2
<1>3. Typed' /\ RestTyped' => TypeOK'
  BY DEF Typed, RestTyped, TypeOK, CycleType, BlkType, CountersType
<1> QED BY <1>1, <1>2, <1>3

(* Every variable keeps its type; above all, no balance is ever negative.   *)
THEOREM TypeCorrect == Spec => []TypeOK
<1>1. Init => TypeOK
  BY InitTypeOK
<1>2. IInv /\ TypeOK /\ [Next]_vars => TypeOK'
  BY NextTypeOK
<1> QED BY <1>1, <1>2, Invariant, PTL DEF Spec
-----------------------------------------------------------------------------
(* The confirmed balances.                                                  *)

LEMMA SumParts ==
  ASSUME NEW A, A \subseteq Txs, NEW B, B \subseteq Txs, A \cap B = {},
         NEW a, a \in AccountIds
  PROVE  /\ CostOf(A \cup B, a) = CostOf(A, a) + CostOf(B, a)
         /\ Received(A \cup B, a) = Received(A, a) + Received(B, a)
<1>1. Paid(a) \in Worths /\ Got(a) \in Worths
  BY TxWorth, AccountsAssumption
<1>2. /\ Summable(Paid(a), A) /\ Summable(Paid(a), B)
      /\ Summable(Got(a), A) /\ Summable(Got(a), B)
  BY <1>1, WorthSummable, AccountsAssumption
<1> QED BY <1>2, SumUnion DEF CostOf, Received

(* A set is worth what its part and the rest are.                           *)
LEMMA SumRest ==
  ASSUME NEW B, B \subseteq Txs, NEW A, A \subseteq B, NEW a, a \in AccountIds
  PROVE  /\ CostOf(B, a) = CostOf(A, a) + CostOf(B \ A, a)
         /\ Received(B, a) = Received(A, a) + Received(B \ A, a)
         /\ CostOf(A, a) <= CostOf(B, a)
<1>1. A \cup (B \ A) = B /\ A \cap (B \ A) = {} /\ A \subseteq Txs /\ B \ A \subseteq Txs
  OBVIOUS
<1>2. /\ CostOf(B, a) = CostOf(A, a) + CostOf(B \ A, a)
      /\ Received(B, a) = Received(A, a) + Received(B \ A, a)
  BY <1>1, SumParts
<1>3. CostOf(A, a) \in Nat /\ CostOf(B \ A, a) \in Nat
  BY <1>1, SumTypes
<1> QED BY <1>2, <1>3

PartOf(A, B) == A \subseteq B /\ B \subseteq Txs

LEMMA SumOfPart ==
  ASSUME NEW A, NEW B, PartOf(A, B), NEW a, a \in AccountIds
  PROVE  CostOf(B, a) = CostOf(A, a) + CostOf(B \ A, a)
<1> DEFINE R == B \ A
<1>1. A \cup R = B /\ A \cap R = {} /\ A \subseteq Txs /\ R \subseteq Txs
  BY DEF PartOf
<1> HIDE DEF R
<1>2. CostOf(A \cup R, a) = CostOf(A, a) + CostOf(R, a)
  BY <1>1, SumParts
<1> QED BY <1>1, <1>2 DEF R

(* A balance is what genesis gave, and what the chain added and took.       *)
ChainSums ==
  \A a \in AccountIds :
    db[a].balance = Genesis[a] + (Received(Confirmed, a) - CostOf(Confirmed, a))

LEMMA ConfirmedType ==
  ASSUME chain \in Seq(Seq(Txs))
  PROVE  Confirmed \subseteq Txs
<1> SUFFICES ASSUME NEW i \in DOMAIN chain, NEW x \in ToSet(chain[i]) PROVE x \in Txs
  BY DEF Confirmed, TxsOf
<1>1. chain[i] \in Seq(Txs)
  OBVIOUS
<1> QED BY <1>1 DEF ToSet

(* A row of the database. *)
LEMMA RowType ==
  ASSUME db \in Tables, NEW a, a \in AccountIds
  PROVE  db[a].balance \in Nat /\ db[a].u_balance \in Nat
BY DEF Tables, Balances

LEMMA UnconfirmEffect ==
  ASSUME db \in Tables, NEW t, t \in Txs, Unconfirm(t)
  PROVE  \A c \in AccountIds :
           /\ db'[c].balance = db[c].balance
           /\ db'[c].u_balance = db[c].u_balance - Paid(c)[t]
<1> DEFINE r == Unharmed(db)
           s == PerformOps(ApplyUnconfirmedOps(t), r)
<1>1. r \in Results /\ r.db = db
  BY UnharmedResult DEF Unharmed
<1>2. \A c \in AccountIds :
        /\ s.db[c].balance = r.db[c].balance
        /\ s.db[c].u_balance = r.db[c].u_balance - Paid(c)[t]
  <2> HIDE DEF r
  <2> QED BY <1>1, ApplyUnconfirmedEffect, AccountsAssumption
<1>3. db' = s.db
  BY DEF Unconfirm
<1> HIDE DEF s, r
<1> QED BY <1>1, <1>2, <1>3

(* A boot with nothing but genesis gives what genesis gave.                 *)
BootsAtGenesis == chain = <<>> /\ chain' = chain /\ db' = GenesisTables

(* A step that is neither a commit nor a pop nor such a boot leaves the     *)
(* confirmed balances.                                                      *)
LEMMA BalanceStep ==
  ASSUME IInv, TypeOK, [Next]_vars
  PROVE  \/ Commit
         \/ PopLastBlock
         \/ BootsAtGenesis
         \/ chain' = chain /\ \A c \in AccountIds : db'[c].balance = db[c].balance
<1>1. db \in Tables
  BY DEF TypeOK
<1>2. ASSUME NEW t \in Txs, Unconfirm(t)
      PROVE  chain' = chain /\ \A c \in AccountIds : db'[c].balance = db[c].balance
  BY <1>1, <1>2, UnconfirmEffect DEF Unconfirm, Advance
<1>3. ASSUME NEW txs, RejectConfirmed(txs) PROVE chain' = chain /\ db' = db
  BY <1>1, <1>3, NothingStale DEF RejectConfirmed
<1>4. ASSUME NEW n, ThrowAfter(n) PROVE chain' = chain /\ db' = db
  BY <1>4 DEF ThrowAfter
<1>5. CASE UNCHANGED vars
  BY <1>5 DEF vars
<1>6. CASE \E t \in Txs : Incoming(t) \/ ExpireTx(t)
  BY <1>6 DEF Incoming, ExpireTx
<1>7. CASE ExpireDone \/ ProcessQueued \/ CheckPending \/ StartCycle \/ EndCycle \/ Cleanup
  BY <1>7 DEF ExpireDone, ProcessQueued, CheckPending, StartCycle, EndCycle, Cleanup
<1>8. CASE \E t \in Txs : DropConfirmed(t) \/ Unconfirm(t) \/ BackToQueued(t)
  BY <1>2, <1>8 DEF DropConfirmed, BackToQueued, Advance
<1>9. CASE \E txs \in {b \in Blocks : IsInjective(b)} : CheckBlock(txs) \/ RejectConfirmed(txs)
  BY <1>3, <1>9 DEF CheckBlock
<1>10. CASE SkipApply \/ EnterApply \/ Prepare
  BY <1>10 DEF SkipApply, EnterApply, Prepare
<1>11. CASE PrepareThrows \/ PrepareFails
  BY <1>4, <1>11 DEF PrepareThrows, PrepareFails
<1>12. CASE Rollback \/ Finish \/ FinishThrows
  BY <1>12 DEF Rollback, RolledBack, Finish, FinishThrows
<1>13. CASE Shutdown \/ Crash
  BY <1>13 DEF Shutdown, Crash, Boot, RestoreUnconfirmedEntries, BootsAtGenesis
<1>14. CASE Commit \/ PopLastBlock
  BY <1>14
<1> QED
  BY <1>5, <1>6, <1>7, <1>8, <1>9, <1>10, <1>11, <1>12, <1>13, <1>14 DEF Next

(* What Commit does to the chain and to the database.                       *)
LEMMA CommitStep ==
  ASSUME IInv, TypeOK, Commit
  PROVE  LET B == ToSet(blk.txs)
             D == B \cap blk.debited
         IN
         /\ Confirmed' = Confirmed \cup B
         /\ Confirmed \cap B = {}
         /\ B \subseteq Txs
         /\ \A c \in AccountIds :
              /\ db'[c].balance = db[c].balance + Received(B, c) - CostOf(B, c)
              /\ db'[c].u_balance
                   = db[c].u_balance + CostOf(blk.overlap, c) - CostOf(D, c) + Received(B, c)
<1> DEFINE B == ToSet(blk.txs)
           D == B \cap blk.debited
<1>1. blk.stage = "prepared" /\ chain' = Append(chain, blk.txs) /\ db' = BlockResult.db
  BY DEF Commit
<1>2. chain \in Seq(Seq(Txs)) /\ blk.txs \in Seq(Txs)
  BY DEF IInv, Typed
<1>3. Confirmed' = Confirmed \cup B
  BY <1>1, <1>2, TxsOfAppend DEF Confirmed
<1>4. Confirmed \cap B = {} /\ B \subseteq Txs
  BY <1>1, <1>2 DEF IInv, BlockFresh, ToSet
<1>5. Applicable
  BY <1>1, IsApplicable, TypeOKParts DEF IInv
<1>6. \A c \in AccountIds :
        /\ BlockResult.db[c].balance = db[c].balance + Received(B, c) - CostOf(B, c)
        /\ BlockResult.db[c].u_balance
             = db[c].u_balance + CostOf(blk.overlap, c) - CostOf(D, c) + Received(B, c)
  BY <1>5, BlockEffect
<1> HIDE DEF B, D
<1> QED BY <1>1, <1>3, <1>4, <1>6 DEF B, D

LEMMA InitChainSums == Init => ChainSums
<1> SUFFICES ASSUME Init, NEW a \in AccountIds
             PROVE  db[a].balance = Genesis[a] + (Received(Confirmed, a) - CostOf(Confirmed, a))
  BY DEF ChainSums
<1>1. Confirmed = {}
  BY DEF Init, Confirmed, TxsOf
<1>2. Received(Confirmed, a) = 0 /\ CostOf(Confirmed, a) = 0
  BY <1>1, SumEmpty DEF Received, CostOf
<1>3. db[a].balance = Genesis[a] /\ Genesis[a] \in Nat
  BY GenesisTablesType DEF Init
<1> QED BY <1>2, <1>3

LEMMA NextChainSums == IInv /\ TypeOK /\ ChainSums /\ [Next]_vars => ChainSums'
<1> SUFFICES ASSUME IInv, TypeOK, ChainSums, [Next]_vars, NEW a \in AccountIds
             PROVE  db'[a].balance = Genesis[a] + (Received(Confirmed', a) - CostOf(Confirmed', a))
  BY DEF ChainSums
<1> DEFINE C == Confirmed
           genesis == Genesis[a]
<1>1. C \subseteq Txs /\ db \in Tables
  BY ConfirmedType DEF IInv, Typed, TypeOK
<1>2. /\ db[a].balance = genesis + (Received(C, a) - CostOf(C, a))
      /\ genesis \in Nat /\ Received(C, a) \in Nat /\ CostOf(C, a) \in Nat
      /\ db[a].balance \in Nat
  BY <1>1, SumTypes, RowType, BlockApplicationAssumption
  DEF ChainSums, BlockApplicationAssumption
<1> HIDE DEF genesis
<1>3. CASE chain' = chain /\ \A c \in AccountIds : db'[c].balance = db[c].balance
  <2>1. Confirmed' = C /\ db'[a].balance = db[a].balance
    BY <1>3 DEF Confirmed
  <2> QED BY <1>2, <2>1 DEF genesis
<1>4. CASE Commit
  <2> DEFINE B == ToSet(blk.txs)
  <2>1. /\ Confirmed' = C \cup B /\ C \cap B = {} /\ B \subseteq Txs
        /\ db'[a].balance = db[a].balance + Received(B, a) - CostOf(B, a)
    BY <1>4, CommitStep
  <2> HIDE DEF C, B
  <2>2. /\ CostOf(C \cup B, a) = CostOf(C, a) + CostOf(B, a)
        /\ Received(C \cup B, a) = Received(C, a) + Received(B, a)
    BY <1>1, <2>1, SumParts
  <2>3. CostOf(B, a) \in Nat /\ Received(B, a) \in Nat
    BY <2>1, SumTypes
  <2> QED BY <1>2, <2>1, <2>2, <2>3 DEF genesis
<1>5. CASE PopLastBlock
  <2> DEFINE B == ToSet(Last(chain))
  <2>1. /\ B \subseteq C /\ Confirmed' = C \ B
        /\ db'[a].balance = db[a].balance + CostOf(B, a) - Received(B, a)
    BY <1>1, <1>5, PopStep
  <2> HIDE DEF C, B
  <2>2. /\ CostOf(C, a) = CostOf(B, a) + CostOf(C \ B, a)
        /\ Received(C, a) = Received(B, a) + Received(C \ B, a)
    BY <1>1, <2>1, SumRest
  <2>3. /\ CostOf(B, a) \in Nat /\ Received(B, a) \in Nat
        /\ CostOf(C \ B, a) \in Nat /\ Received(C \ B, a) \in Nat
    BY <1>1, <2>1, SumTypes
  <2> QED BY <1>2, <2>1, <2>2, <2>3 DEF genesis
<1>6. CASE BootsAtGenesis
  <2>1. Confirmed' = {}
    BY <1>6 DEF BootsAtGenesis, Confirmed, TxsOf
  <2>2. Received(Confirmed', a) = 0 /\ CostOf(Confirmed', a) = 0
    BY <2>1, SumEmpty DEF Received, CostOf
  <2>3. db'[a].balance = genesis
    BY <1>6, GenesisTablesType DEF BootsAtGenesis, genesis
  <2> QED BY <1>2, <2>2, <2>3 DEF genesis
<1> QED BY <1>3, <1>4, <1>5, <1>6, BalanceStep

(* The replay of the chain, block by block.                                 *)
BlockOps(n) == [i \in DOMAIN chain[n] |-> ApplyOps(chain[n][i])]
FirstBlocks(n) == UNION {ToSet(chain[i]) : i \in 1..n}

LEMMA BlockRuns ==
  ASSUME IInv, NEW n, n \in DOMAIN chain
  PROVE  /\ Runs(BlockOps(n), chain[n])
         /\ \A i \in 1..Len(chain[n]) : BlockOps(n)[i] = ApplyOps(chain[n][i])
         /\ ToSet(chain[n]) \subseteq Txs
<1> DEFINE txs == chain[n]
           lists == BlockOps(n)
<1>1. txs \in Seq(Txs) /\ IsInjective(txs)
  BY DEF IInv, Typed, ConfirmedOnce
<1> HIDE DEF txs
<1>2. \A i \in DOMAIN txs : txs[i] \in Txs /\ ApplyOps(txs[i]) \in Seq(Diffs)
  BY <1>1, OpsTyped, AccountsAssumption
<1>3. lists = [i \in DOMAIN txs |-> ApplyOps(txs[i])]
  BY DEF BlockOps, txs
<1>4. lists \in [DOMAIN txs -> Seq(Diffs)]
  BY <1>2, <1>3
<1>5. Runs(lists, txs) /\ \A i \in 1..Len(txs) : i \in DOMAIN txs
  <2> HIDE DEF lists
  <2> QED BY <1>1, <1>4, RunsLists
<1>6. ToSet(txs) \subseteq Txs
  BY <1>2 DEF ToSet
<1> QED BY <1>3, <1>5, <1>6 DEF txs

LEMMA ReplayedSteps ==
  ASSUME IInv
  PROVE  \E f \in [0..Len(chain) -> Results] :
           /\ f[0] = Unharmed(GenesisTables)
           /\ \A n \in 1..Len(chain) : f[n] = PerformAll(BlockOps(n), f[n - 1])
           /\ Replayed = f[Len(chain)]
<1>1. PICK m \in Nat : m = Len(chain) /\ DOMAIN chain = 1..m
  BY DEF IInv, Typed
<1> DEFINE r == Unharmed(GenesisTables)
           step == [p \in (1..m) \X Results |-> PerformAll(BlockOps(p[1]), p[2])]
           after == CHOOSE g : g = [n \in 0..m |->
                      IF n = 0 THEN r ELSE PerformAll(BlockOps(n), g[n - 1])]
<1>2. r \in Results
  <2>1. GenesisTables \in Tables
    BY BlockApplicationAssumption
    DEF BlockApplicationAssumption, GenesisTables, Tables, Balances
  <2> QED BY <2>1, UnharmedResult
<1>3. step \in [(1..m) \X Results -> Results]
  <2> SUFFICES ASSUME NEW n \in 1..m, NEW x \in Results
               PROVE  PerformAll(BlockOps(n), x) \in Results
    OBVIOUS
  <2>1. BlockOps(n) \in Seq(Seq(Diffs))
    BY <1>1, BlockRuns DEF Runs
  <2> QED BY <2>1, PerformAllType
<1>4. Replayed = after[m]
  BY <1>1, Zenon DEF Replayed, BlockOps, OpsOf
<1>5. \A n \in 1..m, x \in Results : step[<<n, x>>] = PerformAll(BlockOps(n), x)
  OBVIOUS
<1> HIDE DEF step, r
<1>6. PICK f \in [0..m -> Results] :
        f[0] = r /\ \A n \in 1..m : f[n] = step[<<n, f[n - 1]>>]
  <2>1. IsStep(step, m, Results)
    BY <1>3 DEF IsStep
  <2>2. PICK f : Iterates(f, step, r, m, Results)
    BY <1>2, <2>1, Iteration
  <2> QED BY <2>2 DEF Iterates
<1>7. f = [n \in 0..m |-> IF n = 0 THEN r ELSE PerformAll(BlockOps(n), f[n - 1])]
  <2>1. \A n \in 1..m : f[n - 1] \in Results
    OBVIOUS
  <2>2. \A n \in 1..m : f[n] = PerformAll(BlockOps(n), f[n - 1])
    BY <1>5, <1>6, <2>1
  <2> QED BY <1>6, <2>2
<1>8. after = [n \in 0..m |-> IF n = 0 THEN r ELSE PerformAll(BlockOps(n), after[n - 1])]
  BY <1>7, Zenon
<1> HIDE DEF after
<1>9. f[0] = after[0] /\ \A n \in 1..m : f[n - 1] = after[n - 1] => f[n] = after[n]
  BY <1>7, <1>8
<1>10. f[m] = after[m]
  <2>1. Alike(f, after, m)
    BY <1>9 DEF Alike
  <2> QED BY <2>1, SameIteration
<1>11. \A n \in 1..m : f[n] = PerformAll(BlockOps(n), f[n - 1])
  BY <1>7
<1> QED BY <1>1, <1>4, <1>6, <1>10, <1>11 DEF r

(* One block more is worth what its transactions are.                       *)
LEMMA FirstBlocksGrow ==
  ASSUME IInv, NEW n, n \in DOMAIN chain
  PROVE  /\ FirstBlocks(n) = FirstBlocks(n - 1) \cup ToSet(chain[n])
         /\ FirstBlocks(n - 1) \cap ToSet(chain[n]) = {}
         /\ FirstBlocks(n - 1) \subseteq Txs
<1>1. PICK m \in Nat : m = Len(chain) /\ DOMAIN chain = 1..m
  BY DEF IInv, Typed
<1>2. n \in 1..m /\ \A i \in 1..(n - 1) : i \in 1..m /\ i \in 1..n /\ i # n
  BY <1>1
<1>3. FirstBlocks(n - 1) \subseteq Txs /\ FirstBlocks(n - 1) \cap ToSet(chain[n]) = {}
  <2> SUFFICES ASSUME NEW i \in 1..(n - 1), NEW x \in ToSet(chain[i])
               PROVE  x \in Txs /\ x \notin ToSet(chain[n])
    BY DEF FirstBlocks
  <2>1. i \in DOMAIN chain /\ i # n
    BY <1>1, <1>2
  <2>2. ToSet(chain[i]) \cap ToSet(chain[n]) = {} /\ ToSet(chain[i]) \subseteq Txs
    BY <2>1, BlockRuns DEF IInv, ConfirmedOnce
  <2> QED BY <2>2
<1>4. FirstBlocks(n) \subseteq FirstBlocks(n - 1) \cup ToSet(chain[n])
  <2> SUFFICES ASSUME NEW i \in 1..n, NEW x \in ToSet(chain[i])
               PROVE  x \in FirstBlocks(n - 1) \cup ToSet(chain[n])
    BY DEF FirstBlocks
  <2>1. i \in 1..(n - 1) \/ i = n
    BY <1>2
  <2> QED BY <2>1 DEF FirstBlocks
<1>5. FirstBlocks(n - 1) \cup ToSet(chain[n]) \subseteq FirstBlocks(n)
  <2>1. n \in 1..n
    BY <1>2
  <2>2. ToSet(chain[n]) \subseteq FirstBlocks(n)
    BY <2>1 DEF FirstBlocks
  <2>3. ASSUME NEW i \in 1..(n - 1), NEW x \in ToSet(chain[i]) PROVE x \in FirstBlocks(n)
    BY <1>2 DEF FirstBlocks
  <2>4. FirstBlocks(n - 1) \subseteq FirstBlocks(n)
    BY <2>3 DEF FirstBlocks
  <2> QED BY <2>2, <2>4
<1> QED BY <1>3, <1>4, <1>5

LEMMA ReplayedSums ==
  ASSUME IInv, NEW a, a \in AccountIds
  PROVE  Replayed.db[a].balance
           = Genesis[a] + (Received(Confirmed, a) - CostOf(Confirmed, a))
<1>1. PICK m \in Nat : m = Len(chain) /\ DOMAIN chain = 1..m
  BY DEF IInv, Typed
<1>2. PICK f \in [0..m -> Results] :
        /\ f[0] = Unharmed(GenesisTables)
        /\ \A n \in 1..m : f[n] = PerformAll(BlockOps(n), f[n - 1])
        /\ Replayed = f[m]
  BY <1>1, ReplayedSteps
<1> DEFINE Sum(n) == Genesis[a] + (Received(FirstBlocks(n), a) - CostOf(FirstBlocks(n), a))
           T == {n \in 0..m : f[n].db[a].balance = Sum(n)}
<1>3. Genesis[a] \in Nat
  BY BlockApplicationAssumption DEF BlockApplicationAssumption
<1>4. 0 \in T
  <2>1. FirstBlocks(0) = {}
    BY DEF FirstBlocks
  <2>2. Received(FirstBlocks(0), a) = 0 /\ CostOf(FirstBlocks(0), a) = 0
    BY <2>1, SumEmpty DEF Received, CostOf
  <2>3. f[0].db[a].balance = Genesis[a]
    BY <1>2 DEF Unharmed, GenesisTables
  <2> QED BY <1>3, <2>2, <2>3
<1>5. ASSUME NEW n \in 1..m, n - 1 \in T PROVE n \in T
  <2> DEFINE B == ToSet(chain[n])
             A == FirstBlocks(n - 1)
  <2>1. /\ FirstBlocks(n) = A \cup B /\ A \cap B = {}
        /\ A \subseteq Txs /\ B \subseteq Txs
    BY <1>1, FirstBlocksGrow, BlockRuns
  <2>2. f[n - 1] \in Results /\ f[n] = PerformAll(BlockOps(n), f[n - 1])
    BY <1>2
  <2>3. f[n].db[a].balance = f[n - 1].db[a].balance + Received(B, a) - CostOf(B, a)
    <3> DEFINE txs == chain[n]
               lists == BlockOps(n)
               r == f[n - 1]
               s == f[n]
    <3>1. /\ Runs(lists, txs) /\ \A i \in 1..Len(txs) : lists[i] = ApplyOps(txs[i])
          /\ r \in Results /\ s = PerformAll(lists, r)
      BY <1>1, <2>2, BlockRuns
    <3> HIDE DEF txs, lists, r, s
    <3>2. s.db[a].balance
            = r.db[a].balance + Received(ToSet(txs), a) - CostOf(ToSet(txs), a)
      BY <3>1, ApplyAll, AccountsAssumption
    <3> QED BY <3>2 DEF txs, r, s
  <2>4. f[n - 1].db[a].balance = Genesis[a] + (Received(A, a) - CostOf(A, a))
    BY <1>5
  <2> HIDE DEF A, B
  <2>5. /\ CostOf(A \cup B, a) = CostOf(A, a) + CostOf(B, a)
        /\ Received(A \cup B, a) = Received(A, a) + Received(B, a)
    BY <2>1, SumParts
  <2>6. /\ CostOf(A, a) \in Nat /\ Received(A, a) \in Nat
        /\ CostOf(B, a) \in Nat /\ Received(B, a) \in Nat
    BY <2>1, SumTypes
  <2>7. f[n].db[a].balance = Sum(n)
    BY <1>3, <2>1, <2>3, <2>4, <2>5, <2>6
  <2> HIDE DEF Sum
  <2> QED BY <2>7
<1>6. m \in T
  <2>1. 0..m \subseteq T
    <3> HIDE DEF T
    <3> QED BY <1>4, <1>5, BoundedInduction
  <2> QED BY <2>1
<1>7. FirstBlocks(m) = Confirmed
  BY <1>1 DEF FirstBlocks, Confirmed, TxsOf
<1> QED BY <1>2, <1>6, <1>7

LEMMA ChainSumsReplay == IInv /\ ChainSums => BalancesReplayChain
BY ReplayedSums DEF ChainSums, BalancesReplayChain

(* Whatever blocks are applied, refused, rolled back and popped, the        *)
(* confirmed balances are those of the chain replayed from genesis          *)
(* (applyBlock and popLastBlock of chain.ts).                               *)
THEOREM BalancesFollowChain == Spec => []BalancesReplayChain
<1>1. Init => ChainSums
  BY InitChainSums
<1>2. IInv /\ TypeOK /\ ChainSums /\ [Next]_vars => ChainSums'
  BY NextChainSums
<1>3. Spec => []ChainSums
  BY <1>1, <1>2, Invariant, TypeCorrect, PTL DEF Spec
<1> QED BY <1>3, ChainSumsReplay, Invariant, PTL
-----------------------------------------------------------------------------
(* The unconfirmed balances.  As long as no transaction in the hands of     *)
(* applyBlock has expired, the overlapping transactions are those left in   *)
(* the unconfirmed queue.                                                   *)
OverlapIsPool ==
  "overlap" \notin disturbed =>
    /\ blk.stage = "entered" => blk.overlap = pool["unconfirmed"] \ ToSet(blk.txs)
    /\ blk.stage \in {"prepared", "committed"} => blk.overlap = pool["unconfirmed"]

DebitedInBlock == blk.stage = "prepared" => blk.debited \subseteq ToSet(blk.txs)

(* What the unconfirmed balance of a misses of the confirmed one.  A        *)
(* prepared block has taken its transactions out of the queue, and those    *)
(* that were there are still debited.                                       *)
Spent(a) ==
  IF blk.stage = "prepared"
    THEN CostOf(blk.overlap, a) + CostOf(ToSet(blk.txs) \ blk.debited, a)
    ELSE IF blk.stage = "committed" THEN 0
    ELSE CostOf(pool["unconfirmed"], a)

UnconfirmedSums ==
  \A a \in AccountIds :
    /\ "overlap" \notin disturbed => db[a].u_balance <= db[a].balance - Spent(a)
    /\ disturbed = {} => db[a].u_balance = db[a].balance - Spent(a)

(* The accounts read by the checks of a block: the confirmed balances are   *)
(* not written until the block is, the unconfirmed ones miss no more than   *)
(* the unconfirmed transactions there are by now.                           *)
AccountsRead ==
  blk.stage \in {"checked", "entered"} =>
    \A a \in AccountIds :
      /\ blk.accounts[a].balance = db[a].balance
      /\ disturbed = {} =>
           blk.accounts[a].u_balance >= db[a].balance - CostOf(pool["unconfirmed"], a)

(* The confirmed balances pay for a block that is prepared. *)
Afforded ==
  blk.stage = "prepared" =>
    \A a \in AccountIds : db[a].balance >= CostOf(ToSet(blk.txs), a)

PoolInv == OverlapIsPool /\ DebitedInBlock /\ UnconfirmedSums /\ AccountsRead /\ Afforded

(* What holds of every state, besides.                                      *)
Sound == IInv /\ TypeOK

LEMMA SoundTypes ==
  ASSUME Sound
  PROVE  /\ db \in Tables /\ blk.overlap \subseteq Txs /\ blk.txs \in Seq(Txs)
         /\ pool["unconfirmed"] \subseteq Txs /\ ToSet(blk.txs) \subseteq Txs
         /\ blk.accounts \in Tables /\ blk.stage \in Stages
BY DEF Sound, IInv, TypeOK, Typed, Queues, ToSet

(* A step between idle states needs to show only the sums.                  *)
LEMMA IdleStep ==
  ASSUME blk' = NoBlock, UnconfirmedSums'
  PROVE  PoolInv'
BY DEF NoBlock, PoolInv, OverlapIsPool, DebitedInBlock, AccountsRead, Afforded

(* A step that leaves the block and the database alone.                     *)
LEMMA QuietStep ==
  ASSUME Sound, PoolInv, UNCHANGED <<blk, db>>,
         pool'["unconfirmed"] \subseteq pool["unconfirmed"],
         disturbed \subseteq disturbed',
         pool'["unconfirmed"] = pool["unconfirmed"] \/ disturbed' # {},
         Applying /\ "overlap" \notin disturbed' =>
           blk.overlap \cap pool["unconfirmed"] \subseteq pool'["unconfirmed"]
  PROVE  PoolInv'
<1> DEFINE U == pool["unconfirmed"]
<1>1. /\ db \in Tables /\ U \subseteq Txs
      /\ pool'["unconfirmed"] \subseteq U
  BY SoundTypes
<1>2. OverlapIsPool'
  BY DEF PoolInv, OverlapIsPool, Applying
<1>3. DebitedInBlock' /\ Afforded'
  BY DEF PoolInv, DebitedInBlock, Afforded
<1>4. AccountsRead'
  BY DEF PoolInv, AccountsRead
<1>5. UnconfirmedSums'
  <2> SUFFICES ASSUME NEW a \in AccountIds
               PROVE  /\ "overlap" \notin disturbed' =>
                           db[a].u_balance <= db[a].balance - Spent(a)'
                      /\ disturbed' = {} => db[a].u_balance = db[a].balance - Spent(a)'
    BY DEF UnconfirmedSums
  <2>1. CostOf(pool'["unconfirmed"], a) <= CostOf(U, a)
    BY <1>1, SumRest
  <2>2. /\ db[a].balance \in Nat /\ db[a].u_balance \in Nat
        /\ CostOf(U, a) \in Nat /\ CostOf(pool'["unconfirmed"], a) \in Nat
    BY <1>1, RowType, SumTypes
  <2>3. /\ "overlap" \notin disturbed => db[a].u_balance <= db[a].balance - Spent(a)
        /\ disturbed = {} => db[a].u_balance = db[a].balance - Spent(a)
    BY DEF PoolInv, UnconfirmedSums
  <2>4. CASE blk.stage \in {"prepared", "committed"}
    <3>1. Spent(a)' = Spent(a)
      BY <2>4 DEF Spent
    <3> QED BY <2>3, <3>1
  <2>5. CASE blk.stage \notin {"prepared", "committed"}
    <3>1. Spent(a)' = CostOf(pool'["unconfirmed"], a) /\ Spent(a) = CostOf(U, a)
      BY <2>5 DEF Spent
    <3> HIDE DEF U
    <3>2. ASSUME "overlap" \notin disturbed'
          PROVE  db[a].u_balance <= db[a].balance - Spent(a)'
      <4>1. "overlap" \notin disturbed
        BY <3>2
      <4> QED BY <2>1, <2>2, <2>3, <3>1, <4>1
    <3>3. ASSUME disturbed' = {} PROVE db[a].u_balance = db[a].balance - Spent(a)'
      <4>1. disturbed = {} /\ pool'["unconfirmed"] = U
        BY <3>3 DEF U
      <4> QED BY <2>3, <3>1, <4>1
    <3> QED BY <3>2, <3>3
  <2> QED BY <2>4, <2>5
<1> QED BY <1>2, <1>3, <1>4, <1>5 DEF PoolInv

LEMMA InitPoolInv == Init => PoolInv
<1> SUFFICES ASSUME Init PROVE PoolInv
  OBVIOUS
<1>1. UnconfirmedSums
  <2> SUFFICES ASSUME NEW a \in AccountIds PROVE db[a].u_balance = db[a].balance - Spent(a)
    <3>1. db \in Tables
      BY InitTypeOK DEF TypeOK
    <3>2. \A a \in AccountIds : db[a].u_balance \in Nat /\ db[a].balance \in Nat
      BY <3>1, RowType
    <3> QED BY <3>2 DEF UnconfirmedSums
  <2>1. blk.stage = "idle" /\ pool["unconfirmed"] = {}
    BY DEF Init, NoBlock, EmptyPool, Queues
  <2>2. Spent(a) = 0
    BY <2>1, SumEmpty DEF Spent, CostOf
  <2>3. db[a].balance = db[a].u_balance /\ db[a].balance \in Nat
    BY GenesisTablesType DEF Init
  <2> QED BY <2>2, <2>3
<1>2. blk.stage = "idle"
  BY DEF Init, NoBlock
<1> QED
  BY <1>1, <1>2 DEF PoolInv, OverlapIsPool, DebitedInBlock, AccountsRead, Afforded

LEMMA PoolPoolInv ==
  ASSUME Sound, PoolInv
  PROVE  /\ \A t \in Txs : Incoming(t) \/ ExpireTx(t) => PoolInv'
         /\ ExpireDone \/ ProcessQueued \/ CheckPending => PoolInv'
<1>1. pool \in [Queues -> SUBSET Txs]
  BY DEF Sound, TypeOK
<1>2. ASSUME NEW t \in Txs, Incoming(t) PROVE PoolInv'
  <2>1. pool'["unconfirmed"] = pool["unconfirmed"]
    BY <1>1, <1>2 DEF Incoming, Queues
  <2> QED BY <1>2, <2>1, QuietStep DEF Incoming
<1>3. ASSUME NEW t \in Txs, ExpireTx(t) PROVE PoolInv'
  <2>1. pool'["unconfirmed"] = pool["unconfirmed"] \ {t}
    BY <1>1, <1>3 DEF ExpireTx, RemoveFromPool, Queues
  <2>2. /\ disturbed \subseteq disturbed'
        /\ t \in pool["unconfirmed"] => "expired" \in disturbed'
        /\ t \in pool["unconfirmed"] /\ t \in blk.overlap => "overlap" \in disturbed'
    BY <1>3 DEF ExpireTx
  <2> QED BY <1>3, <2>1, <2>2, QuietStep DEF ExpireTx
<1>4. ASSUME ExpireDone PROVE PoolInv'
  BY <1>4, QuietStep DEF ExpireDone
<1>5. ASSUME ProcessQueued PROVE PoolInv'
  <2>1. PICK held \in SUBSET pool["queued"], bad \in SUBSET pool["queued"] :
          /\ pool' = RemoveFromPool(
                       MoveTx(MoveTx(pool, held, "queued", "pending"),
                              pool["queued"] \ held, "queued", "ready"), bad)
          /\ Disturb("duplicate", bad \cap pool["unconfirmed"] # {})
    BY ONLY <1>5 DEF ProcessQueued
  <2>2. pool'["unconfirmed"] = pool["unconfirmed"] \ bad
    <3> DEFINE first == MoveTx(pool, held, "queued", "pending")
               second == MoveTx(first, pool["queued"] \ held, "queued", "ready")
    <3>1. /\ first \in [Queues -> SUBSET Txs]
          /\ first["unconfirmed"] = pool["unconfirmed"]
      BY <1>1 DEF MoveTx, Queues
    <3>2. second["unconfirmed"] = pool["unconfirmed"]
      BY <3>1 DEF MoveTx, Queues
    <3> QED BY <2>1, <3>2 DEF RemoveFromPool, Queues
  <2>3. /\ disturbed \subseteq disturbed'
        /\ bad \cap pool["unconfirmed"] # {} => disturbed' # {}
    BY <2>1 DEF Disturb
  <2>4. ~Applying /\ UNCHANGED <<blk, db>>
    BY <1>5 DEF ProcessQueued, Held
  <2> QED BY <2>2, <2>3, <2>4, QuietStep
<1>6. ASSUME CheckPending PROVE PoolInv'
  <2>1. pool'["unconfirmed"] = pool["unconfirmed"]
    BY <1>1, <1>6 DEF CheckPending, MoveTx, Queues
  <2> QED BY <1>6, <2>1, QuietStep DEF CheckPending
<1> QED BY <1>2, <1>3, <1>4, <1>5, <1>6

(* A transaction becomes unconfirmed as it is debited.                      *)
LEMMA UnconfirmPoolInv ==
  ASSUME Sound, PoolInv, NEW t \in Txs, Unconfirm(t)
  PROVE  PoolInv'
<1> DEFINE U == pool["unconfirmed"]
           V == pool'["unconfirmed"]
<1>1. /\ db \in Tables /\ U \subseteq Txs /\ blk.stage \in Stages
  BY SoundTypes
<1>2. V = U \cup {t}
  BY DEF Unconfirm, Advance, MoveTx, Queues, Sound, TypeOK
<1>3. /\ blk' = blk /\ disturbed \subseteq disturbed'
      /\ t \in U => disturbed' # {}
      /\ "overlap" \notin disturbed' => "overlap" \notin disturbed
  BY DEF Unconfirm, Advance, Disturb
<1>4. blk.stage \in {"idle", "checked"}
  BY <1>1 DEF Unconfirm, Turn, Sound, IInv, HeldOnce, Applying, Stages
<1>5. ASSUME NEW a \in AccountIds
      PROVE  /\ db'[a].balance = db[a].balance
             /\ db'[a].u_balance = db[a].u_balance - Paid(a)[t]
             /\ CostOf(U, a) <= CostOf(V, a)
             /\ CostOf(V, a) <= CostOf(U, a) + Paid(a)[t]
             /\ t \notin U => CostOf(V, a) = CostOf(U, a) + Paid(a)[t]
             /\ CostOf(U, a) \in Nat /\ CostOf(V, a) \in Nat /\ Paid(a)[t] \in Nat
             /\ db[a].balance \in Nat /\ db[a].u_balance \in Nat
  <2>1. /\ db'[a].balance = db[a].balance
        /\ db'[a].u_balance = db[a].u_balance - Paid(a)[t]
    BY <1>1, UnconfirmEffect
  <2>2. Paid(a) \in Worths /\ Paid(a)[t] \in Nat
    BY TxWorth, AccountsAssumption DEF Worths
  <2>3. CostOf(U, a) \in Nat /\ CostOf(V, a) \in Nat
    BY <1>1, <1>2, SumTypes
  <2>4. t \notin U => CostOf(V, a) = CostOf(U, a) + Paid(a)[t]
    <3>1. Summable(Paid(a), U)
      BY <1>1, <2>2, WorthSummable, AccountsAssumption
    <3> HIDE DEF U, V
    <3> QED BY <1>2, <2>2, <3>1, SumAdd DEF CostOf
  <2>5. t \in U => V = U
    BY <1>2
  <2>6. CostOf(U, a) <= CostOf(V, a) /\ CostOf(V, a) <= CostOf(U, a) + Paid(a)[t]
    <3> HIDE DEF U, V
    <3>1. CASE t \in U
      BY <2>2, <2>3, <2>5, <3>1
    <3>2. CASE t \notin U
      BY <2>2, <2>3, <2>4, <3>2
    <3> QED BY <3>1, <3>2
  <2>7. db[a].balance \in Nat /\ db[a].u_balance \in Nat
    BY <1>1, RowType
  <2> HIDE DEF U, V
  <2> QED BY <2>1, <2>2, <2>3, <2>4, <2>6, <2>7
<1>6. UnconfirmedSums'
  <2> SUFFICES ASSUME NEW a \in AccountIds
               PROVE  /\ "overlap" \notin disturbed' =>
                           db'[a].u_balance <= db'[a].balance - Spent(a)'
                      /\ disturbed' = {} =>
                           db'[a].u_balance = db'[a].balance - Spent(a)'
    BY DEF UnconfirmedSums
  <2>1. Spent(a) = CostOf(U, a) /\ Spent(a)' = CostOf(V, a)
    BY <1>3, <1>4 DEF Spent
  <2>2. /\ "overlap" \notin disturbed => db[a].u_balance <= db[a].balance - Spent(a)
        /\ disturbed = {} => db[a].u_balance = db[a].balance - Spent(a)
    BY DEF PoolInv, UnconfirmedSums
  <2> HIDE DEF U, V
  <2>3. ASSUME "overlap" \notin disturbed'
        PROVE  db'[a].u_balance <= db'[a].balance - Spent(a)'
    BY <1>3, <1>5, <2>1, <2>2, <2>3
  <2>4. ASSUME disturbed' = {} PROVE db'[a].u_balance = db'[a].balance - Spent(a)'
    <3>1. disturbed = {} /\ t \notin U
      BY <1>3, <2>4
    <3> QED BY <1>5, <2>1, <2>2, <3>1
  <2> QED BY <2>3, <2>4
<1>7. AccountsRead'
  <2> SUFFICES ASSUME blk.stage = "checked", NEW a \in AccountIds
               PROVE  /\ blk.accounts[a].balance = db'[a].balance
                      /\ disturbed' = {} =>
                           blk.accounts[a].u_balance >= db'[a].balance - CostOf(V, a)
    BY <1>3, <1>4 DEF AccountsRead
  <2>1. /\ blk.accounts[a].balance = db[a].balance
        /\ disturbed = {} => blk.accounts[a].u_balance >= db[a].balance - CostOf(U, a)
    BY DEF PoolInv, AccountsRead
  <2>2. blk.accounts[a].u_balance \in Nat
    BY SoundTypes DEF Tables, Balances
  <2> HIDE DEF U, V
  <2>3. disturbed' = {} => disturbed = {}
    BY <1>3
  <2> QED BY <1>5, <2>1, <2>2, <2>3
<1>8. OverlapIsPool' /\ DebitedInBlock' /\ Afforded'
  BY <1>3, <1>4 DEF OverlapIsPool, DebitedInBlock, Afforded
<1> QED BY <1>6, <1>7, <1>8 DEF PoolInv

LEMMA CyclePoolInv ==
  ASSUME Sound, PoolInv
  PROVE  /\ StartCycle \/ EndCycle \/ Cleanup => PoolInv'
         /\ \A t \in Txs : DropConfirmed(t) \/ BackToQueued(t) => PoolInv'
<1>1. pool \in [Queues -> SUBSET Txs]
  BY DEF Sound, TypeOK
<1>2. ASSUME StartCycle \/ EndCycle \/ Cleanup PROVE PoolInv'
  BY <1>2, QuietStep DEF StartCycle, EndCycle, Cleanup, poolVars
<1>3. ASSUME NEW t \in Txs, DropConfirmed(t) PROVE PoolInv'
  <2>1. t \notin pool["unconfirmed"]
    BY <1>3 DEF DropConfirmed, AlreadyConfirmed, Sound, IInv, UnconfirmedNotConfirmed
  <2>2. pool'["unconfirmed"] = pool["unconfirmed"]
    BY <1>1, <1>3, <2>1 DEF DropConfirmed, Advance, RemoveFromPool, Queues
  <2> QED BY <1>3, <2>2, QuietStep DEF DropConfirmed, Advance
<1>4. ASSUME NEW t \in Txs, BackToQueued(t) PROVE PoolInv'
  <2>1. pool'["unconfirmed"] = pool["unconfirmed"]
    BY <1>1, <1>4 DEF BackToQueued, Advance, MoveTx, Queues
  <2>2. UNCHANGED <<blk, db, disturbed>>
    BY <1>4 DEF BackToQueued, Advance
  <2> QED BY <2>1, <2>2, QuietStep
<1> QED BY <1>2, <1>3, <1>4
(* A block passes its checks, or is dropped before its operations are       *)
(* prepared.                                                                *)
LEMMA CheckPoolInv ==
  ASSUME Sound, PoolInv
  PROVE  /\ \A txs \in {b \in Blocks : IsInjective(b)} :
              CheckBlock(txs) \/ RejectConfirmed(txs) => PoolInv'
         /\ SkipApply \/ PrepareThrows \/ PrepareFails => PoolInv'
<1> USE DEF poolVars
<1>1. pool \in [Queues -> SUBSET Txs] /\ db \in Tables
  BY DEF Sound, TypeOK
<1>2. \A a \in AccountIds : /\ db[a].balance \in Nat /\ db[a].u_balance \in Nat
                            /\ CostOf(pool["unconfirmed"], a) \in Nat
  BY <1>1, SoundTypes, RowType, SumTypes
<1>3. ASSUME NEW txs \in Blocks, CheckBlock(txs) PROVE PoolInv'
  <2>1. /\ blk.stage = "idle" /\ UNCHANGED <<pool, db, disturbed>>
        /\ blk' = [NoBlock EXCEPT !.stage = "checked", !.txs = txs, !.accounts = db]
    BY <1>3 DEF CheckBlock
  <2>2. blk'.stage = "checked" /\ blk'.accounts = db
    BY <2>1 DEF NoBlock
  <2>3. \A a \in AccountIds : Spent(a)' = Spent(a) /\ Spent(a) = CostOf(pool["unconfirmed"], a)
    BY <2>1, <2>2 DEF Spent
  <2>4. UnconfirmedSums'
    BY <2>1, <2>3 DEF PoolInv, UnconfirmedSums
  <2>5. AccountsRead'
    <3> SUFFICES ASSUME NEW a \in AccountIds, disturbed = {}
                 PROVE  db[a].u_balance >= db[a].balance - CostOf(pool["unconfirmed"], a)
      BY <2>1, <2>2 DEF AccountsRead
    <3>1. db[a].u_balance = db[a].balance - CostOf(pool["unconfirmed"], a)
      BY <2>3 DEF PoolInv, UnconfirmedSums
    <3> QED BY <1>2, <3>1
  <2> QED BY <2>2, <2>4, <2>5 DEF PoolInv, OverlapIsPool, DebitedInBlock, Afforded
<1>4. ASSUME NEW txs \in Blocks, RejectConfirmed(txs) PROVE PoolInv'
  <2>1. UNCHANGED db /\ pool'["unconfirmed"] = pool["unconfirmed"]
    BY <1>1, <1>4, NothingStale DEF Sound
  <2> QED BY <1>4, <2>1, QuietStep DEF RejectConfirmed
<1>5. ASSUME SkipApply PROVE PoolInv'
  <2>1. blk.stage = "checked" /\ blk' = NoBlock /\ UNCHANGED <<pool, db, disturbed>>
    BY <1>5 DEF SkipApply
  <2>2. \A a \in AccountIds : Spent(a)' = Spent(a)
    BY <2>1 DEF Spent, NoBlock
  <2>3. UnconfirmedSums'
    BY <2>1, <2>2 DEF PoolInv, UnconfirmedSums
  <2> QED BY <2>1, <2>3, IdleStep
<1>6. ASSUME NEW n, ThrowAfter(n), blk.stage = "entered" PROVE PoolInv'
  <2> DEFINE U == pool["unconfirmed"]
             gone == FirstTxs(blk.txs, n)
             V == pool'["unconfirmed"]
  <2>1. blk' = NoBlock /\ db' = db
    BY <1>6 DEF ThrowAfter
  <2>2. V = U \ gone
    BY <1>1, <1>6 DEF ThrowAfter, Queues
  <2>3. disturbed \subseteq disturbed' /\ (gone \cap U # {} => disturbed' # {})
    BY <1>6 DEF ThrowAfter, Disturb
  <2>4. "overlap" \notin disturbed' => "overlap" \notin disturbed
    BY <2>3
  <2>5. disturbed' = {} => disturbed = {} /\ V = U
    BY <2>2, <2>3
  <2>6. UnconfirmedSums'
    <3> SUFFICES ASSUME NEW a \in AccountIds
                 PROVE  /\ "overlap" \notin disturbed' =>
                             db[a].u_balance <= db[a].balance - CostOf(V, a)
                        /\ disturbed' = {} =>
                             db[a].u_balance = db[a].balance - CostOf(V, a)
      BY <2>1 DEF UnconfirmedSums, Spent, NoBlock
    <3>1. CostOf(V, a) <= CostOf(U, a) /\ CostOf(V, a) \in Nat
      <4>1. U \subseteq Txs /\ V \subseteq U
        BY <2>2, SoundTypes
      <4> HIDE DEF U, V
      <4> QED BY <4>1, SumRest, SumTypes
    <3>2. Spent(a) = CostOf(U, a)
      BY <1>6 DEF Spent
    <3>3. /\ "overlap" \notin disturbed => db[a].u_balance <= db[a].balance - Spent(a)
          /\ disturbed = {} => db[a].u_balance = db[a].balance - Spent(a)
      BY DEF PoolInv, UnconfirmedSums
    <3>4. /\ db[a].balance \in Nat /\ db[a].u_balance \in Nat /\ CostOf(U, a) \in Nat
      BY <1>2
    <3> HIDE DEF U, V
    <3>5. ASSUME "overlap" \notin disturbed'
          PROVE  db[a].u_balance <= db[a].balance - CostOf(V, a)
      BY <2>4, <3>1, <3>2, <3>3, <3>4, <3>5
    <3> QED BY <2>5, <3>2, <3>3, <3>5
  <2> QED BY <2>1, <2>6, IdleStep
<1>7. ASSUME PrepareThrows PROVE PoolInv'
  BY <1>6, <1>7 DEF PrepareThrows
<1>8. ASSUME PrepareFails PROVE PoolInv'
  BY <1>6, <1>8 DEF PrepareFails
<1> QED BY <1>3, <1>4, <1>5, <1>7, <1>8

(* The database transaction is rolled back: the transactions of the block   *)
(* that had been debited are lost, a disturbance; without them the          *)
(* overlapping ones are all that was.                                       *)
LEMMA RollbackPoolInv ==
  ASSUME Sound, PoolInv, Rollback
  PROVE  PoolInv'
<1> DEFINE U == pool["unconfirmed"]
           rest == ToSet(blk.txs) \ blk.debited
<1>1. /\ blk.stage = "prepared" /\ blk' = NoBlock /\ UNCHANGED <<pool, db>>
      /\ disturbed \subseteq disturbed'
      /\ ToSet(blk.txs) # blk.debited => disturbed' # {}
  BY DEF Rollback, RolledBack, poolVars, Disturb
<1>2. UnconfirmedSums'
  <2> SUFFICES ASSUME NEW a \in AccountIds
               PROVE  /\ "overlap" \notin disturbed' =>
                           db[a].u_balance <= db[a].balance - CostOf(U, a)
                      /\ disturbed' = {} =>
                           db[a].u_balance = db[a].balance - CostOf(U, a)
    BY <1>1 DEF UnconfirmedSums, Spent, NoBlock
  <2>1. Spent(a) = CostOf(blk.overlap, a) + CostOf(rest, a)
    BY <1>1 DEF Spent
  <2>2. "overlap" \notin disturbed => blk.overlap = U
    BY <1>1 DEF PoolInv, OverlapIsPool
  <2>3. /\ "overlap" \notin disturbed => db[a].u_balance <= db[a].balance - Spent(a)
        /\ disturbed = {} => db[a].u_balance = db[a].balance - Spent(a)
    BY DEF PoolInv, UnconfirmedSums
  <2>4. /\ db[a].balance \in Nat /\ db[a].u_balance \in Nat
        /\ CostOf(U, a) \in Nat /\ CostOf(rest, a) \in Nat
    <3>1. U \subseteq Txs /\ rest \subseteq Txs /\ db \in Tables
      BY SoundTypes
    <3> HIDE DEF U, rest
    <3> QED BY <3>1, RowType, SumTypes
  <2>5. disturbed' = {} => CostOf(rest, a) = 0
    <3>1. disturbed' = {} => rest = {}
      BY <1>1
    <3> HIDE DEF rest
    <3> QED BY <3>1, SumEmpty DEF CostOf
  <2> HIDE DEF U, rest
  <2>6. ASSUME "overlap" \notin disturbed'
        PROVE  db[a].u_balance <= db[a].balance - CostOf(U, a)
    <3>1. "overlap" \notin disturbed
      BY <1>1, <2>6
    <3> QED BY <2>1, <2>2, <2>3, <2>4, <3>1
  <2>7. ASSUME disturbed' = {} PROVE db[a].u_balance = db[a].balance - CostOf(U, a)
    <3>1. disturbed = {}
      BY <1>1, <2>7
    <3> QED BY <2>1, <2>2, <2>3, <2>4, <2>5, <2>7, <3>1
  <2> QED BY <2>6, <2>7
<1> QED BY <1>1, <1>2, IdleStep

(* The assertions of the transaction logic: a sender pays for all of its    *)
(* transactions in the block.                                               *)
LEMMA PassAffords ==
  ASSUME blk.txs \in Seq(Txs), IsInjective(blk.txs), blk.accounts \in Tables,
         ConfirmedPass(Len(blk.txs), {}), NEW a \in AccountIds
  PROVE  blk.accounts[a].balance >= CostOf(ToSet(blk.txs), a)
<1> DEFINE txs == blk.txs
           had == blk.accounts[a].balance
           T == {n \in 0..Len(txs) : had >= CostOf(FirstTxs(txs, n), a)}
<1>1. Len(txs) \in Nat /\ had \in Nat
  BY DEF Tables, Balances
<1>2. 0 \in T
  <2>1. CostOf(FirstTxs(txs, 0), a) = 0
    BY FirstTxsEnds, SumEmpty DEF CostOf
  <2> QED BY <1>1, <2>1
<1>3. ASSUME NEW n \in 1..Len(txs), n - 1 \in T PROVE n \in T
  <2> DEFINE t == txs[n]
             A == FirstTxs(txs, n - 1)
  <2>1. FirstTxs(txs, n) = A \cup {t} /\ t \notin A /\ A \subseteq Txs /\ t \in Txs
    BY FirstTxsGrows
  <2>2. CASE Sender[t] = a
    <3>1. had >= CostOf(FirstTxs(txs, n), a)
      BY <2>2 DEF ConfirmedPass
    <3> HIDE DEF t, A
    <3> QED BY <1>1, <3>1
  <2>3. CASE Sender[t] # a
    <3>1. Paid(a) \in Worths /\ Paid(a)[t] = 0
      <4>1. Paid(a)[t] = 0
        BY <2>1, <2>3 DEF Paid
      <4> QED BY <4>1, TxWorth, AccountsAssumption
    <3> HIDE DEF t, A
    <3>2. Summable(Paid(a), A) /\ SumOver(Paid(a), A) \in Nat
      BY <2>1, <3>1, WorthSummable, AccountsAssumption
    <3>3. SumOver(Paid(a), A \cup {t}) = SumOver(Paid(a), A) + 0
      <4>1. Paid(a)[t] \in Nat
        BY <3>1
      <4> QED BY <2>1, <3>1, <3>2, <4>1, SumAdd
    <3>4. CostOf(FirstTxs(txs, n), a) = CostOf(A, a)
      BY <2>1, <3>2, <3>3 DEF CostOf
    <3>5. had >= CostOf(A, a)
      BY <1>3 DEF A
    <3>6. n \in 0..Len(txs)
      BY <1>1
    <3> QED BY <3>4, <3>5, <3>6
  <2> QED BY <2>2, <2>3
<1>4. Len(txs) \in T
  <2>1. 0..Len(txs) \subseteq T
    <3> HIDE DEF T
    <3> QED BY <1>1, <1>2, <1>3, BoundedInduction
  <2> QED BY <1>1, <2>1
<1> QED BY <1>4, FirstTxsEnds

LEMMA EnterPoolInv ==
  ASSUME Sound, PoolInv, EnterApply
  PROVE  PoolInv'
<1>1. /\ blk.stage = "checked" /\ UNCHANGED <<pool, db, disturbed>>
      /\ blk' = [blk EXCEPT !.stage = "entered",
                            !.overlap = pool["unconfirmed"] \ ToSet(blk.txs)]
  BY DEF EnterApply, poolVars
<1>2. /\ blk'.stage = "entered" /\ blk'.txs = blk.txs /\ blk'.accounts = blk.accounts
      /\ blk'.overlap = pool["unconfirmed"] \ ToSet(blk.txs)
  BY <1>1 DEF Sound, TypeOK
<1>3. \A a \in AccountIds : Spent(a)' = Spent(a)
  BY <1>1, <1>2 DEF Spent
<1>4. UnconfirmedSums'
  BY <1>1, <1>3 DEF PoolInv, UnconfirmedSums
<1>5. AccountsRead'
  BY <1>1, <1>2 DEF PoolInv, AccountsRead
<1>6. OverlapIsPool' /\ DebitedInBlock' /\ Afforded'
  BY <1>1, <1>2 DEF OverlapIsPool, DebitedInBlock, Afforded
<1> QED BY <1>4, <1>5, <1>6 DEF PoolInv

(* The transactions of the block leave the unconfirmed queue: those that    *)
(* were there stay debited until the block is applied.                      *)
LEMMA PreparePoolInv ==
  ASSUME Sound, PoolInv, Prepare
  PROVE  PoolInv'
<1> DEFINE U == pool["unconfirmed"]
           B == ToSet(blk.txs)
<1>1. /\ blk.stage = "entered" /\ ConfirmedPass(Len(blk.txs), {})
      /\ UNCHANGED <<db, disturbed>>
      /\ blk' = [blk EXCEPT !.stage = "prepared", !.debited = NotInPool]
  BY DEF Prepare
<1>2. pool'["unconfirmed"] = U \ B
  BY DEF Prepare, Sound, TypeOK, Queues
<1>3. /\ blk'.stage = "prepared" /\ blk'.txs = blk.txs /\ blk'.overlap = blk.overlap
      /\ blk'.debited = B \ U
  BY <1>1 DEF Sound, TypeOK, NotInPool
<1>4. OverlapIsPool'
  BY <1>1, <1>2, <1>3 DEF PoolInv, OverlapIsPool
<1>5. DebitedInBlock' /\ AccountsRead'
  BY <1>3 DEF DebitedInBlock, AccountsRead
<1>6. Afforded'
  <2> SUFFICES ASSUME NEW a \in AccountIds PROVE db[a].balance >= CostOf(B, a)
    BY <1>1, <1>3 DEF Afforded
  <2>1. blk.accounts[a].balance >= CostOf(B, a)
    BY <1>1, SoundTypes, PassAffords DEF Sound, IInv, BlockFresh
  <2>2. blk.accounts[a].balance = db[a].balance
    BY <1>1 DEF PoolInv, AccountsRead
  <2> QED BY <2>1, <2>2
<1>7. UnconfirmedSums'
  <2> SUFFICES ASSUME NEW a \in AccountIds, "overlap" \notin disturbed
               PROVE  Spent(a)' = Spent(a)
    BY <1>1 DEF PoolInv, UnconfirmedSums
  <2>1. blk.overlap = U \ B
    BY <1>1 DEF PoolInv, OverlapIsPool
  <2>2. Spent(a)' = CostOf(U \ B, a) + CostOf(B \ (B \ U), a)
    BY <1>3, <2>1 DEF Spent
  <2>3. Spent(a) = CostOf(U, a)
    BY <1>1 DEF Spent
  <2>4. U \subseteq Txs
    BY SoundTypes
  <2> HIDE DEF U, B
  <2>5. U \ (U \ B) = B \ (B \ U) /\ U \ B \subseteq U
    OBVIOUS
  <2>6. CostOf(U, a) = CostOf(U \ B, a) + CostOf(U \ (U \ B), a)
    <3> DEFINE W == U \ B
    <3>1. PartOf(W, U)
      BY <2>4, <2>5 DEF PartOf
    <3> HIDE DEF W
    <3>2. CostOf(U, a) = CostOf(W, a) + CostOf(U \ W, a)
      BY <3>1, SumOfPart
    <3> QED BY <3>2 DEF W
  <2> QED BY <2>2, <2>3, <2>5, <2>6
<1> QED BY <1>4, <1>5, <1>6, <1>7 DEF PoolInv

LEMMA CommitPoolInv ==
  ASSUME Sound, PoolInv, Commit
  PROVE  PoolInv'
<1> DEFINE B == ToSet(blk.txs)
           D == B \cap blk.debited
<1>1. /\ blk.stage = "prepared" /\ UNCHANGED <<pool, disturbed>>
      /\ blk' = [blk EXCEPT !.stage = "committed"]
  BY DEF Commit, poolVars
<1>2. blk'.stage = "committed" /\ blk'.overlap = blk.overlap
  BY <1>1 DEF Sound, TypeOK
<1>3. OverlapIsPool' /\ DebitedInBlock' /\ AccountsRead' /\ Afforded'
  BY <1>1, <1>2 DEF PoolInv, OverlapIsPool, DebitedInBlock, AccountsRead, Afforded
<1>4. UnconfirmedSums'
  <2> SUFFICES ASSUME NEW a \in AccountIds
               PROVE  /\ "overlap" \notin disturbed => db'[a].u_balance <= db'[a].balance
                      /\ disturbed = {} => db'[a].u_balance = db'[a].balance
    <3>1. \A c \in AccountIds : db'[c].balance - 0 = db'[c].balance
      <4>1. db' \in Tables
        BY NextTypeOK DEF Sound, TypeOK, Next
      <4> QED BY <4>1 DEF Tables, Balances
    <3>2. \A c \in AccountIds : Spent(c)' = 0
      BY <1>2 DEF Spent
    <3> QED BY <1>1, <3>1, <3>2 DEF UnconfirmedSums
  <2> DEFINE overlap == CostOf(blk.overlap, a)
             debited == CostOf(D, a)
             rest == CostOf(B \ D, a)
             all == CostOf(B, a)
             got == Received(B, a)
             bal == db[a].balance
             ubal == db[a].u_balance
  <2>1. /\ db'[a].balance = bal + got - all
        /\ db'[a].u_balance = ubal + overlap - debited + got
    BY CommitStep DEF Sound
  <2>2. B \subseteq Txs /\ D \subseteq B /\ blk.overlap \subseteq Txs /\ db \in Tables
    BY SoundTypes
  <2>3. all = debited + rest
    <3>1. PartOf(D, B)
      BY <2>2 DEF PartOf
    <3> HIDE DEF B, D
    <3> QED BY <3>1, SumOfPart
  <2>4. Spent(a) = overlap + rest
    <3>1. B \ blk.debited = B \ D
      OBVIOUS
    <3> QED BY <1>1, <3>1 DEF Spent
  <2>5. /\ overlap \in Nat /\ debited \in Nat /\ rest \in Nat /\ all \in Nat /\ got \in Nat
        /\ bal \in Nat /\ ubal \in Nat
    <3>1. B \ D \subseteq Txs /\ D \subseteq Txs
      BY <2>2
    <3> HIDE DEF B, D
    <3> QED BY <2>2, <3>1, SumTypes, RowType
  <2>6. /\ "overlap" \notin disturbed => ubal <= bal - Spent(a)
        /\ disturbed = {} => ubal = bal - Spent(a)
    BY DEF PoolInv, UnconfirmedSums
  <2> HIDE DEF overlap, debited, rest, all, got, bal, ubal
  <2>7. ASSUME "overlap" \notin disturbed PROVE db'[a].u_balance <= db'[a].balance
    BY <2>1, <2>3, <2>4, <2>5, <2>6, <2>7
  <2>8. ASSUME disturbed = {} PROVE db'[a].u_balance = db'[a].balance
    BY <2>1, <2>3, <2>4, <2>5, <2>6, <2>8
  <2> QED BY <2>7, <2>8
<1> QED BY <1>3, <1>4 DEF PoolInv

(* The overlapping transactions go back to the queue: they are all that was *)
(* in the unconfirmed queue.                                                *)
LEMMA FinishPoolInv ==
  ASSUME Sound, PoolInv, Finish \/ FinishThrows
  PROVE  PoolInv'
<1>1. blk.stage = "committed" /\ blk' = NoBlock /\ UNCHANGED <<db, disturbed>>
  BY DEF Finish, FinishThrows
<1>2. "overlap" \notin disturbed => Finish /\ blk.overlap = pool["unconfirmed"]
  BY <1>1 DEF PoolInv, OverlapIsPool, FinishThrows
<1>3. "overlap" \notin disturbed => pool'["unconfirmed"] = {}
  BY <1>2 DEF Finish, MoveTx, Queues, Sound, TypeOK
<1>4. UnconfirmedSums'
  <2> SUFFICES ASSUME NEW a \in AccountIds, "overlap" \notin disturbed
               PROVE  Spent(a)' = Spent(a)
    BY <1>1 DEF PoolInv, UnconfirmedSums
  <2>1. Spent(a) = 0
    BY <1>1 DEF Spent
  <2>2. Spent(a)' = 0
    BY <1>1, <1>3, SumEmpty DEF Spent, NoBlock, CostOf
  <2> QED BY <2>1, <2>2
<1> QED BY <1>1, <1>4, IdleStep

LEMMA PopPoolInv ==
  ASSUME Sound, PoolInv, PopLastBlock
  PROVE  PoolInv'
<1> DEFINE B == ToSet(Last(chain))
<1>1. blk.stage = "idle" /\ UNCHANGED <<pool, blk, disturbed>>
  BY DEF PopLastBlock, poolVars
<1>2. /\ db \in Tables /\ db' \in Tables /\ B \subseteq Txs
      /\ \A c \in AccountIds :
           /\ db'[c].balance = db[c].balance + CostOf(B, c) - Received(B, c)
           /\ db'[c].u_balance = db[c].u_balance + CostOf(B, c) - Received(B, c)
  BY PopStep, ConfirmedType DEF Sound, TypeOK
<1> HIDE DEF B
<1>3. UnconfirmedSums'
  <2> SUFFICES ASSUME NEW a \in AccountIds
               PROVE  /\ "overlap" \notin disturbed =>
                           db'[a].u_balance <= db'[a].balance - Spent(a)
                      /\ disturbed = {} => db'[a].u_balance = db'[a].balance - Spent(a)
    <3>1. \A c \in AccountIds : Spent(c)' = Spent(c)
      BY <1>1 DEF Spent
    <3> QED BY <1>1, <3>1 DEF UnconfirmedSums
  <2>1. Spent(a) \in Nat
    BY <1>1, SoundTypes, SumTypes DEF Spent
  <2>2. /\ db[a].balance \in Nat /\ db[a].u_balance \in Nat
        /\ CostOf(B, a) \in Nat /\ Received(B, a) \in Nat
    BY <1>2, RowType, SumTypes
  <2>3. /\ "overlap" \notin disturbed => db[a].u_balance <= db[a].balance - Spent(a)
        /\ disturbed = {} => db[a].u_balance = db[a].balance - Spent(a)
    BY DEF PoolInv, UnconfirmedSums
  <2> QED BY <1>2, <2>1, <2>2, <2>3
<1> QED BY <1>1, <1>3 DEF PoolInv, OverlapIsPool, DebitedInBlock, AccountsRead, Afforded

LEMMA BootPoolInv ==
  ASSUME Sound, PoolInv, Boot
  PROVE  PoolInv'
<1>1. /\ blk' = NoBlock /\ db' \in {db, GenesisTables} /\ pool'["unconfirmed"] = {}
      /\ disturbed \subseteq disturbed' /\ disturbed' # {}
  BY DEF Boot, EmptyPool, Queues, RestoreUnconfirmedEntries, Disturb
<1>2. UnconfirmedSums'
  <2> SUFFICES ASSUME NEW a \in AccountIds, "overlap" \notin disturbed
               PROVE  db'[a].u_balance <= db'[a].balance - Spent(a)'
    BY <1>1 DEF UnconfirmedSums
  <2>1. Spent(a)' = 0
    BY <1>1, SumEmpty DEF Spent, NoBlock, CostOf
  <2>2. Spent(a) \in Nat
    <3>1. /\ pool["unconfirmed"] \subseteq Txs /\ blk.overlap \subseteq Txs
          /\ ToSet(blk.txs) \ blk.debited \subseteq Txs
      BY SoundTypes
    <3>2. /\ CostOf(pool["unconfirmed"], a) \in Nat /\ CostOf(blk.overlap, a) \in Nat
          /\ CostOf(ToSet(blk.txs) \ blk.debited, a) \in Nat
      BY <3>1, SumTypes
    <3> QED BY <3>2 DEF Spent
  <2>3. db[a].u_balance <= db[a].balance - Spent(a)
    BY DEF PoolInv, UnconfirmedSums
  <2>4. db[a].balance \in Nat /\ db[a].u_balance \in Nat
    BY SoundTypes, RowType
  <2>5. CASE db' = db
    BY <2>1, <2>2, <2>3, <2>4, <2>5
  <2>6. CASE db' = GenesisTables
    BY <2>1, <2>6, GenesisTablesType
  <2> QED BY <1>1, <2>5, <2>6
<1> QED BY <1>1, <1>2, IdleStep

LEMMA NextPoolInv == Sound /\ PoolInv /\ [Next]_vars => PoolInv'
<1> SUFFICES ASSUME Sound, PoolInv, [Next]_vars PROVE PoolInv'
  OBVIOUS
<1>1. CASE Next
  <2>1. CASE \E t \in Txs : Incoming(t) \/ ExpireTx(t)
    BY <2>1, PoolPoolInv
  <2>2. CASE ExpireDone \/ ProcessQueued \/ CheckPending
    BY <2>2, PoolPoolInv
  <2>3. CASE StartCycle \/ EndCycle \/ Cleanup
    BY <2>3, CyclePoolInv
  <2>4. CASE \E t \in Txs : DropConfirmed(t) \/ Unconfirm(t) \/ BackToQueued(t)
    BY <2>4, CyclePoolInv, UnconfirmPoolInv
  <2>5. CASE \E txs \in {b \in Blocks : IsInjective(b)} :
               CheckBlock(txs) \/ RejectConfirmed(txs)
    BY <2>5, CheckPoolInv
  <2>6. CASE SkipApply \/ PrepareThrows \/ PrepareFails
    BY <2>6, CheckPoolInv
  <2>7. CASE EnterApply \/ Prepare
    BY <2>7, EnterPoolInv, PreparePoolInv
  <2>8. CASE Commit \/ Rollback
    BY <2>8, CommitPoolInv, RollbackPoolInv
  <2>9. CASE Finish \/ FinishThrows
    BY <2>9, FinishPoolInv
  <2>10. CASE PopLastBlock
    BY <2>10, PopPoolInv
  <2>11. CASE Shutdown \/ Crash
    BY <2>11, BootPoolInv DEF Shutdown, Crash
  <2> QED
    BY <1>1, <2>1, <2>2, <2>3, <2>4, <2>5, <2>6, <2>7, <2>8, <2>9, <2>10, <2>11 DEF Next
<1>2. CASE UNCHANGED vars
  BY <1>2, QuietStep DEF vars, poolVars
<1> QED BY <1>1, <1>2

(* The unconfirmed balances and the pool, in every state.                   *)
THEOREM PoolInvariant == Spec => [](Sound /\ PoolInv)
<1>1. Init => PoolInv
  BY InitPoolInv
<1>2. Sound /\ PoolInv /\ [Next]_vars => PoolInv'
  BY NextPoolInv
<1>3. IInv /\ TypeOK => Sound
  BY DEF Sound
<1> QED BY <1>1, <1>2, <1>3, Invariant, TypeCorrect, PTL DEF Spec

LEMMA PoolInvFollows == Sound /\ PoolInv => UnconfirmedFollowsPool
<1> SUFFICES ASSUME Sound, PoolInv, ~Applying, NEW a \in AccountIds
             PROVE  /\ "overlap" \notin disturbed => db[a].u_balance <= Expected(a)
                    /\ disturbed = {} => db[a].u_balance = Expected(a)
  BY DEF UnconfirmedFollowsPool, NeverOverstated, ExactWhenUndisturbed
<1>1. Spent(a) = CostOf(pool["unconfirmed"], a)
  BY DEF Spent, Applying
<1> QED BY <1>1 DEF Expected, PoolInv, UnconfirmedSums

(* Between two blocks, the unconfirmed balances follow the unconfirmed      *)
(* transactions of the pool (applyUnconfirmed and undoUnconfirmed of        *)
(* TransactionLogic.ts, as PoolManager.ts, process.ts and chain.ts call     *)
(* them): they never offer what those spend, and are what those leave as    *)
(* long as none has expired, come twice or been lost.                       *)
THEOREM UnconfirmedFollows == Spec => []UnconfirmedFollowsPool
BY PoolInvariant, PoolInvFollows, PTL

(* What the block spends besides the unconfirmed transactions is there: the *)
(* sender pays for the block, and the unconfirmed transactions in it are    *)
(* debited already.                                                         *)
LEMMA EnteredPasses ==
  ASSUME Sound, PoolInv, disturbed = {}, blk.stage = "entered",
         ConfirmedPass(Len(blk.txs), {})
  PROVE  UnconfirmedPass
<1> DEFINE U == pool["unconfirmed"]
           B == ToSet(blk.txs)
<1> SUFFICES ASSUME NEW t \in B \ U
             PROVE  blk.accounts[Sender[t]].u_balance + CostOf(blk.overlap, Sender[t])
                      >= CostOf(B \ U, Sender[t])
  BY DEF UnconfirmedPass, NotInPool
<1>1. U \subseteq Txs /\ B \subseteq Txs /\ blk.overlap = U \ B
  BY SoundTypes DEF PoolInv, OverlapIsPool
<1>2. PICK a \in AccountIds : a = Sender[t]
  BY <1>1, AccountsAssumption DEF AccountsAssumption
<1> DEFINE had == db[a].balance
           left == blk.accounts[a].u_balance
<1>3. had >= CostOf(B, a)
  <2>1. blk.accounts[a].balance >= CostOf(B, a)
    BY SoundTypes, PassAffords DEF Sound, IInv, BlockFresh
  <2> QED BY <2>1 DEF PoolInv, AccountsRead
<1>4. left >= had - CostOf(U, a)
  BY DEF PoolInv, AccountsRead
<1>5. had \in Nat /\ left \in Nat
  BY SoundTypes, RowType DEF Tables, Balances
<1> HIDE DEF U, B, had, left
<1> DEFINE both == U \cap B
           mine == U \ B
           new == B \ U
<1>6. /\ both \subseteq Txs /\ mine \subseteq Txs /\ new \subseteq Txs
      /\ U = both \cup mine /\ both \cap mine = {}
      /\ B = both \cup new /\ both \cap new = {}
  BY <1>1
<1> HIDE DEF both, mine, new
<1>7. /\ CostOf(U, a) = CostOf(both, a) + CostOf(mine, a)
      /\ CostOf(B, a) = CostOf(both, a) + CostOf(new, a)
  BY <1>6, SumParts
<1>8. CostOf(both, a) \in Nat /\ CostOf(mine, a) \in Nat /\ CostOf(new, a) \in Nat
  BY <1>6, SumTypes
<1>9. left + CostOf(mine, a) >= CostOf(new, a)
  BY <1>3, <1>4, <1>5, <1>7, <1>8
<1> QED BY <1>1, <1>2, <1>9 DEF left, mine, new

(* Nor does the trigger refuse a prepared block.                            *)
LEMMA PreparedApplies ==
  ASSUME Sound, PoolInv, disturbed = {}, blk.stage = "prepared"
  PROVE  BlockResult.ok
<1> DEFINE B == ToSet(blk.txs)
           D == B \cap blk.debited
<1>1. Applicable
  BY IsApplicable, TypeOKParts DEF Sound, IInv
<1>2. B \subseteq Txs /\ D \subseteq B /\ blk.overlap \subseteq Txs /\ db \in Tables
  BY SoundTypes
<1>3. ASSUME NEW a \in AccountIds
      PROVE  /\ db[a].u_balance + CostOf(blk.overlap, a) >= CostOf(D, a)
             /\ db[a].balance >= CostOf(B, a)
  <2> DEFINE bal == db[a].balance
             ubal == db[a].u_balance
             overlap == CostOf(blk.overlap, a)
  <2>1. bal >= CostOf(B, a)
    BY DEF PoolInv, Afforded
  <2>2. ubal = bal - Spent(a)
    BY DEF PoolInv, UnconfirmedSums
  <2>3. Spent(a) = overlap + CostOf(B \ D, a)
    <3>1. B \ blk.debited = B \ D
      OBVIOUS
    <3> QED BY <3>1 DEF Spent
  <2>4. CostOf(B, a) = CostOf(D, a) + CostOf(B \ D, a)
    <3>1. PartOf(D, B)
      BY <1>2 DEF PartOf
    <3> HIDE DEF B, D
    <3> QED BY <3>1, SumOfPart
  <2>5. /\ overlap \in Nat /\ CostOf(D, a) \in Nat /\ CostOf(B \ D, a) \in Nat
        /\ bal \in Nat /\ ubal \in Nat
    <3>1. B \ D \subseteq Txs /\ D \subseteq Txs
      BY <1>2
    <3> HIDE DEF B, D
    <3> QED BY <1>2, <3>1, SumTypes, RowType
  <2> HIDE DEF bal, ubal, overlap, B, D
  <2>6. ubal + overlap >= CostOf(D, a)
    BY <2>1, <2>2, <2>3, <2>4, <2>5
  <2> QED BY <2>1, <2>6 DEF bal, ubal, overlap
<1>4. \A t \in B : Sender[t] \in AccountIds
  BY <1>2, AccountsAssumption DEF AccountsAssumption
<1>5. /\ \A t \in D : db[Sender[t]].u_balance + CostOf(blk.overlap, Sender[t])
                        >= CostOf(D, Sender[t])
      /\ \A t \in B : db[Sender[t]].balance >= CostOf(B, Sender[t])
  BY <1>2, <1>3, <1>4
<1> QED BY <1>1, <1>5, BlockEffect

LEMMA PoolInvExcludes == Sound /\ PoolInv => PoolNeverExcludes
BY EnteredPasses, PreparedApplies DEF PoolNeverExcludes

(* A block that the confirmed balances pay for is never refused because of  *)
(* what the pool spends, neither by the transaction logic nor by the        *)
(* trigger on the balances (applyBlock of chain.ts), as long as nothing has *)
(* made the pool and the balances part.                                     *)
THEOREM PoolExcludesNothing == Spec => []PoolNeverExcludes
BY PoolInvariant, PoolInvExcludes, PTL
=============================================================================
