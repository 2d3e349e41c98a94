---------------------------- MODULE RoundsProofs ----------------------------
(***************************************************************************)
(* For any delegates, votes, fees, rewards and bounds, whatever blocks are  *)
(* applied and popped: the money is where a node has it that has applied    *)
(* the present chain and nothing else, and so are the list of the next      *)
(* block and the missed blocks, unless the node went astray.                *)
(***************************************************************************)
EXTENDS Rounds, WellFoundedInduction, TLAPS

-----------------------------------------------------------------------------
(* Induction, for a property that is given as a set.                        *)

(* Sets of naturals have a least member.                                    *)
LEMMA LeastNat ==
  ASSUME NEW T \in SUBSET Nat, T # {}
  PROVE  \E m \in T : \A y \in T : m <= y
<1> DEFINE R == OpToRel(<, Nat)
<1>1. IsWellFoundedOn(R, Nat)
  BY NatLessThanWellFounded
<1>2. PICK m \in T : \A y \in T : <<y, m>> \notin R
  <2> HIDE DEF R
  <2> QED BY <1>1, WFMin
<1>3. ASSUME NEW y \in T PROVE ~(y < m)
  <2>1. m \in Nat /\ y \in Nat
    OBVIOUS
  <2> QED BY <2>1, <1>2 DEF OpToRel
<1> QED BY <1>3

(* Induction over the naturals.                                             *)
LEMMA SetInduction ==
  ASSUME NEW T, 0 \in T, \A n \in Nat : n \in T => n + 1 \in T
  PROVE  Nat \subseteq T
<1> DEFINE U == Nat \ T
<1> SUFFICES ASSUME U # {} PROVE FALSE
  OBVIOUS
<1>1. PICK m \in U : \A y \in U : m <= y
  BY LeastNat
<1>2. m # 0 /\ m - 1 \in Nat
  OBVIOUS
<1>3. m - 1 \in T
  BY <1>1, <1>2
<1> QED BY <1>2, <1>3

(* A function on 0..m is defined by its value at 0 and by a step.           *)
IsStep(step, m, R) == m \in Nat /\ step \in [(1..m) \X R -> R]
Iterates(f, step, r, m, R) ==
  f \in [0..m -> R] /\ f[0] = r /\ \A n \in 1..m : f[n] = step[<<n, f[n - 1]>>]

LEMMA Iteration ==
  ASSUME NEW R, NEW r, NEW m, NEW step, r \in R, IsStep(step, m, R)
  PROVE  \E f : Iterates(f, step, r, m, R)
<1> USE DEF IsStep
<1> DEFINE Runs(f, k) == f[0] = r /\ \A n \in 1..k : f[n] = step[<<n, f[n - 1]>>]
           T == {k \in Nat : k <= m => \E f \in [0..k -> R] : Runs(f, k)}
<1>1. 0 \in T
  <2> DEFINE f == [i \in 0..0 |-> r]
  <2>1. f \in [0..0 -> R] /\ Runs(f, 0)
    OBVIOUS
  <2> QED BY <2>1
<1>2. ASSUME NEW k \in Nat, k \in T PROVE k + 1 \in T
  <2> SUFFICES ASSUME k + 1 <= m
               PROVE  \E f \in [0..(k + 1) -> R] : Runs(f, k + 1)
    OBVIOUS
  <2>1. PICK f \in [0..k -> R] : Runs(f, k)
    BY <1>2
  <2> DEFINE g == [i \in 0..(k + 1) |-> IF i = k + 1 THEN step[<<k + 1, f[k]>>] ELSE f[i]]
  <2>2. step[<<k + 1, f[k]>>] \in R
    OBVIOUS
  <2>3. g \in [0..(k + 1) -> R]
    BY <2>2
  <2>4. g[0] = r
    BY <2>1
  <2>5. ASSUME NEW n \in 1..(k + 1) PROVE g[n] = step[<<n, g[n - 1]>>]
    <3>1. n - 1 \in 0..k /\ n - 1 # k + 1
      OBVIOUS
    <3>2. g[n - 1] = f[n - 1]
      BY <3>1
    <3>3. CASE n = k + 1
      <4>1. n - 1 = k /\ g[n] = step[<<k + 1, f[k]>>]
        BY <3>3
      <4> QED BY <4>1, <3>2, <3>3
    <3>4. CASE n # k + 1
      <4>1. n \in 1..k /\ g[n] = f[n]
        BY <3>4
      <4> QED BY <4>1, <3>2, <2>1
    <3> QED BY <3>3, <3>4
  <2>6. Runs(g, k + 1)
    BY <2>4, <2>5
  <2> QED BY <2>3, <2>6
<1>3. m \in T
  <2> HIDE DEF T
  <2> QED BY <1>1, <1>2, SetInduction
<1> QED BY <1>3 DEF Iterates

-----------------------------------------------------------------------------
(* Accounts, of which only the money is looked at, and what is moved.       *)
Over(M, C, V, W, K, S) ==
  [balance : Int, fees : Int, rewards : Int, produced : Int,
   missed : M, cmb : C, vote : V, weight : W, key : K, votes : S]
IsAccounts(acc) == \E M, C, V, W, K, S : acc \in [AccountIds -> Over(M, C, V, W, K, S)]
Moves == [balance : Int, fees : Int, rewards : Int, produced : Int]
(* The account y has what x has and what is moved.                          *)
Moved(x, d, y) ==
  /\ y.balance = x.balance + d.balance /\ y.fees = x.fees + d.fees
  /\ y.rewards = x.rewards + d.rewards /\ y.produced = x.produced + d.produced
Nought == [balance |-> 0, fees |-> 0, rewards |-> 0, produced |-> 0]

(* Between two states of all accounts.                                      *)
AllMoved(acc, d, new) == \A b \in AccountIds : Moved(acc[b], d[b], new[b])
Still == [b \in AccountIds |-> Nought]
Together(d, e) ==
  [b \in AccountIds |->
     [balance |-> d[b].balance + e[b].balance, fees |-> d[b].fees + e[b].fees,
      rewards |-> d[b].rewards + e[b].rewards, produced |-> d[b].produced + e[b].produced]]

LEMMA TogetherType ==
  ASSUME NEW d \in [AccountIds -> Moves], NEW e \in [AccountIds -> Moves]
  PROVE  Together(d, e) \in [AccountIds -> Moves]
BY DEF Together, Moves

LEMMA StillType == Still \in [AccountIds -> Moves]
BY DEF Still, Nought, Moves

LEMMA MoneyOf ==
  ASSUME NEW acc, IsAccounts(acc), NEW b \in AccountIds
  PROVE  acc[b].balance \in Int /\ acc[b].fees \in Int /\ acc[b].rewards \in Int /\ acc[b].produced \in Int
<1>1. PICK M, C, V, W, K, S : acc \in [AccountIds -> Over(M, C, V, W, K, S)]
  BY DEF IsAccounts
<1>2. acc[b] \in Over(M, C, V, W, K, S)
  BY <1>1
<1> QED BY <1>2 DEF Over

LEMMA MovedTogether ==
  ASSUME NEW x, NEW y, NEW z, IsAccounts(x), IsAccounts(y), IsAccounts(z),
         NEW d \in [AccountIds -> Moves], NEW e \in [AccountIds -> Moves],
         AllMoved(x, d, y), AllMoved(y, e, z)
  PROVE  AllMoved(x, Together(d, e), z)
<1> SUFFICES ASSUME NEW b \in AccountIds
             PROVE  Moved(x[b], Together(d, e)[b], z[b])
  BY DEF AllMoved
<1>1. Moved(x[b], d[b], y[b]) /\ Moved(y[b], e[b], z[b])
  BY DEF AllMoved
<1>2. d[b] \in Moves /\ e[b] \in Moves
  OBVIOUS
<1>3. /\ Together(d, e)[b].balance = d[b].balance + e[b].balance
      /\ Together(d, e)[b].fees = d[b].fees + e[b].fees
      /\ Together(d, e)[b].rewards = d[b].rewards + e[b].rewards
      /\ Together(d, e)[b].produced = d[b].produced + e[b].produced
  BY DEF Together
<1>4. x[b].balance \in Int /\ x[b].fees \in Int /\ x[b].rewards \in Int /\ x[b].produced \in Int
  BY MoneyOf
<1>5. /\ d[b].balance \in Int /\ d[b].fees \in Int /\ d[b].rewards \in Int /\ d[b].produced \in Int
      /\ e[b].balance \in Int /\ e[b].fees \in Int /\ e[b].rewards \in Int /\ e[b].produced \in Int
  BY <1>2 DEF Moves
<1> QED BY <1>1, <1>3, <1>4, <1>5 DEF Moved

(* The last operation on accounts with the missed blocks, votes and keys    *)
(* alone.                                                                   *)
SameMoney(x, y) ==
  x.balance = y.balance /\ x.fees = y.fees /\ x.rewards = y.rewards /\ x.produced = y.produced

LEMMA NoneMoved ==
  ASSUME NEW x, NEW y, IsAccounts(x), \A b \in AccountIds : SameMoney(x[b], y[b])
  PROVE  AllMoved(x, Still, y)
<1> SUFFICES ASSUME NEW b \in AccountIds PROVE Moved(x[b], Still[b], y[b])
  BY DEF AllMoved
<1>1. Still[b] = Nought
  BY DEF Still
<1>2. x[b].balance \in Int /\ x[b].fees \in Int /\ x[b].rewards \in Int /\ x[b].produced \in Int
  BY MoneyOf
<1> QED BY <1>1, <1>2 DEF Moved, Nought, SameMoney

-----------------------------------------------------------------------------
(* Transactions.                                                            *)
Given(a, b, x) == IF a # None /\ a = b THEN x ELSE 0
InTx(t, b) == Given(Tx[t].recipient, b, Tx[t].amount) - Given(Tx[t].sender, b, Tx[t].amount + Tx[t].fee)

LEMMA MergeMoves ==
  ASSUME NEW M, NEW C, NEW V, NEW W, NEW K, NEW S,
         NEW acc \in [AccountIds -> Over(M, C, V, W, K, S)], NEW a, NEW x \in Int
  PROVE  /\ Merge(acc, a, x) \in [AccountIds -> Over(M, C, V, W, K, S)]
         /\ \A b \in AccountIds :
              Merge(acc, a, x)[b] = [acc[b] EXCEPT !.balance = @ + Given(a, b, x)]
<1> DEFINE r == Merge(acc, a, x)
<1>1. \A b \in AccountIds : acc[b] \in Over(M, C, V, W, K, S) /\ acc[b].balance \in Int
  BY DEF Over
<1>2. \A b \in AccountIds : [acc[b] EXCEPT !.balance = @ + 0] = acc[b]
  BY <1>1 DEF Over
<1>3. CASE a = None
  BY <1>2, <1>3 DEF Merge, Given
<1>4. CASE a # None
  <2>1. r = [acc EXCEPT ![a].balance = @ + x]
    BY <1>4 DEF Merge
  <2>2. ASSUME NEW b \in AccountIds
        PROVE  r[b] = [acc[b] EXCEPT !.balance = @ + Given(a, b, x)]
    <3>1. CASE b = a
      BY <1>4, <2>1, <3>1 DEF Given
    <3>2. CASE b # a
      <4>1. r[b] = acc[b]
        BY <2>1, <3>2
      <4> QED BY <4>1, <1>2, <3>2 DEF Given
    <3> QED BY <3>1, <3>2
  <2>3. r = [b \in AccountIds |-> r[b]]
    BY <2>1
  <2>4. \A b \in AccountIds : r[b] \in Over(M, C, V, W, K, S)
    <3> TAKE b \in AccountIds
    <3>1. Given(a, b, x) \in Int
      BY DEF Given
    <3>2. [acc[b] EXCEPT !.balance = @ + Given(a, b, x)] \in Over(M, C, V, W, K, S)
      BY <1>1, <3>1 DEF Over
    <3> QED BY <2>2, <3>2
  <2> HIDE DEF r
  <2>5. r \in [AccountIds -> Over(M, C, V, W, K, S)]
    BY <2>3, <2>4
  <2> QED BY <2>2, <2>5 DEF r
<1> QED BY <1>3, <1>4

WithVotes(acc, a, v) == [acc EXCEPT ![a].votes = v]
WithKey(acc, a, k) == [acc EXCEPT ![a].key = k]

LEMMA VotesMoveNothing ==
  ASSUME NEW M, NEW C, NEW V, NEW W, NEW K, NEW S,
         NEW acc \in [AccountIds -> Over(M, C, V, W, K, S)], NEW a, NEW v
  PROVE  /\ WithVotes(acc, a, v) \in [AccountIds -> Over(M, C, V, W, K, S \cup {v})]
         /\ \A b \in AccountIds : SameMoney(acc[b], WithVotes(acc, a, v)[b])
<1> DEFINE r == WithVotes(acc, a, v)
<1>1. ASSUME NEW b \in AccountIds
      PROVE  r[b] \in Over(M, C, V, W, K, S \cup {v}) /\ SameMoney(acc[b], r[b])
  <2>1. acc[b] \in Over(M, C, V, W, K, S)
    OBVIOUS
  <2>2. r[b] = IF b = a THEN [acc[b] EXCEPT !.votes = v] ELSE acc[b]
    BY DEF WithVotes, WithKey
  <2> HIDE DEF r
  <2>3. CASE b = a
    BY <2>1, <2>2, <2>3 DEF Over, SameMoney
  <2>4. CASE b # a
    BY <2>1, <2>2, <2>4 DEF Over, SameMoney
  <2> QED BY <2>3, <2>4
<1>2. r = [b \in AccountIds |-> r[b]]
  BY DEF WithVotes
<1> HIDE DEF r
<1>3. r \in [AccountIds -> Over(M, C, V, W, K, S \cup {v})]
  BY <1>1, <1>2
<1> QED BY <1>1, <1>3 DEF r

LEMMA KeyMovesNothing ==
  ASSUME NEW M, NEW C, NEW V, NEW W, NEW K, NEW S,
         NEW acc \in [AccountIds -> Over(M, C, V, W, K, S)], NEW a, NEW k
  PROVE  /\ WithKey(acc, a, k) \in [AccountIds -> Over(M, C, V, W, K \cup {k}, S)]
         /\ \A b \in AccountIds : SameMoney(acc[b], WithKey(acc, a, k)[b])
<1> DEFINE r == WithKey(acc, a, k)
<1>1. ASSUME NEW b \in AccountIds
      PROVE  r[b] \in Over(M, C, V, W, K \cup {k}, S) /\ SameMoney(acc[b], r[b])
  <2>1. acc[b] \in Over(M, C, V, W, K, S)
    OBVIOUS
  <2>2. r[b] = IF b = a THEN [acc[b] EXCEPT !.key = k] ELSE acc[b]
    BY DEF WithVotes, WithKey
  <2> HIDE DEF r
  <2>3. CASE b = a
    BY <2>1, <2>2, <2>3 DEF Over, SameMoney
  <2>4. CASE b # a
    BY <2>1, <2>2, <2>4 DEF Over, SameMoney
  <2> QED BY <2>3, <2>4
<1>2. r = [b \in AccountIds |-> r[b]]
  BY DEF WithKey
<1> HIDE DEF r
<1>3. r \in [AccountIds -> Over(M, C, V, W, K \cup {k}, S)]
  BY <1>1, <1>2
<1> QED BY <1>1, <1>3 DEF r

(* Two payments, one after the other.                                       *)
LEMMA TwoMerges ==
  ASSUME NEW M, NEW C, NEW V, NEW W, NEW K, NEW S,
         NEW acc \in [AccountIds -> Over(M, C, V, W, K, S)],
         NEW a, NEW x \in Int, NEW c, NEW y \in Int
  PROVE  LET r == Merge(Merge(acc, a, x), c, y)
         IN /\ r \in [AccountIds -> Over(M, C, V, W, K, S)]
            /\ \A b \in AccountIds :
                 /\ r[b].balance = acc[b].balance + Given(a, b, x) + Given(c, b, y)
                 /\ r[b].fees = acc[b].fees /\ r[b].rewards = acc[b].rewards
                 /\ r[b].produced = acc[b].produced
<1> DEFINE q == Merge(acc, a, x)
           r == Merge(q, c, y)
<1>1. /\ q \in [AccountIds -> Over(M, C, V, W, K, S)]
      /\ \A b \in AccountIds : q[b] = [acc[b] EXCEPT !.balance = @ + Given(a, b, x)]
  BY MergeMoves
<1> HIDE DEF q
<1>2. /\ r \in [AccountIds -> Over(M, C, V, W, K, S)]
      /\ \A b \in AccountIds : r[b] = [q[b] EXCEPT !.balance = @ + Given(c, b, y)]
  BY <1>1, MergeMoves
<1> HIDE DEF r
<1>3. ASSUME NEW b \in AccountIds
      PROVE  /\ r[b].balance = acc[b].balance + Given(a, b, x) + Given(c, b, y)
             /\ r[b].fees = acc[b].fees /\ r[b].rewards = acc[b].rewards
             /\ r[b].produced = acc[b].produced
  <2>1. acc[b] \in Over(M, C, V, W, K, S) /\ q[b] \in Over(M, C, V, W, K, S)
    BY <1>1
  <2>2. q[b] = [acc[b] EXCEPT !.balance = @ + Given(a, b, x)]
    BY <1>1
  <2>3. r[b] = [q[b] EXCEPT !.balance = @ + Given(c, b, y)]
    BY <1>2
  <2> QED BY <2>1, <2>2, <2>3 DEF Over
<1> QED BY <1>2, <1>3 DEF q, r

TxMoves(t) == [b \in AccountIds |-> [balance |-> InTx(t, b), fees |-> 0, rewards |-> 0, produced |-> 0]]

LEMMA TxMovesType ==
  ASSUME NEW t \in Txs
  PROVE  /\ TxMoves(t) \in [AccountIds -> Moves]
         /\ Tx[t].amount \in Int /\ Tx[t].fee \in Int /\ Tx[t].sender \in AccountIds
<1>1. Tx[t].amount \in Int /\ Tx[t].fee \in Int /\ Tx[t].sender \in AccountIds
  BY RoundsAssumption
<1>2. \A b \in AccountIds : InTx(t, b) \in Int
  BY <1>1 DEF InTx, Given
<1> QED BY <1>1, <1>2 DEF TxMoves, Moves

LEMMA ApplyTxMoves ==
  ASSUME NEW t \in Txs, NEW acc, IsAccounts(acc)
  PROVE  IsAccounts(ApplyTx(acc, t)) /\ AllMoved(acc, TxMoves(t), ApplyTx(acc, t))
<1>1. PICK M, C, V, W, K, S : acc \in [AccountIds -> Over(M, C, V, W, K, S)]
  BY DEF IsAccounts
<1>2. Tx[t].amount \in Int /\ Tx[t].fee \in Int /\ Tx[t].sender \in AccountIds
  BY TxMovesType
<1> DEFINE x == -(Tx[t].amount + Tx[t].fee)
           paid == Merge(Merge(acc, Tx[t].sender, x), Tx[t].recipient, Tx[t].amount)
           r == ApplyTx(acc, t)
<1>3. x \in Int
  BY <1>2
<1> HIDE DEF x
<1>4. /\ paid \in [AccountIds -> Over(M, C, V, W, K, S)]
      /\ \A b \in AccountIds :
           /\ paid[b].balance = acc[b].balance + Given(Tx[t].sender, b, x) + Given(Tx[t].recipient, b, Tx[t].amount)
           /\ paid[b].fees = acc[b].fees /\ paid[b].rewards = acc[b].rewards
           /\ paid[b].produced = acc[b].produced
  BY <1>1, <1>2, <1>3, TwoMerges
<1> HIDE DEF paid
<1>5. r = CASE Tx[t].type = "vote" -> [paid EXCEPT ![Tx[t].sender].votes = Tx[t].votes]
            [] Tx[t].type = "key" -> [paid EXCEPT ![Tx[t].sender].key = Tx[t].key]
            [] OTHER -> paid
  BY DEF ApplyTx, paid, x
<1> HIDE DEF r
<1>6. IsAccounts(r) /\ \A b \in AccountIds : SameMoney(paid[b], r[b])
  <2>1. CASE Tx[t].type = "vote"
    <3>1. r = WithVotes(paid, Tx[t].sender, Tx[t].votes)
      BY <1>5, <2>1 DEF WithVotes
    <3>2. /\ r \in [AccountIds -> Over(M, C, V, W, K, S \cup {Tx[t].votes})]
          /\ \A b \in AccountIds : SameMoney(paid[b], r[b])
      BY <1>4, <3>1, VotesMoveNothing
    <3> QED BY <3>2 DEF IsAccounts
  <2>2. CASE Tx[t].type = "key"
    <3>1. r = WithKey(paid, Tx[t].sender, Tx[t].key)
      BY <1>5, <2>2 DEF WithKey
    <3>2. /\ r \in [AccountIds -> Over(M, C, V, W, K \cup {Tx[t].key}, S)]
          /\ \A b \in AccountIds : SameMoney(paid[b], r[b])
      BY <1>4, <3>1, KeyMovesNothing
    <3> QED BY <3>2 DEF IsAccounts
  <2>3. CASE Tx[t].type # "vote" /\ Tx[t].type # "key"
    <3>1. r = paid
      BY <1>5, <2>3
    <3> QED BY <1>4, <3>1 DEF IsAccounts, SameMoney
  <2> QED BY <2>1, <2>2, <2>3
<1>7. ASSUME NEW b \in AccountIds PROVE Moved(acc[b], TxMoves(t)[b], r[b])
  <2>1. SameMoney(paid[b], r[b])
    BY <1>6
  <2>2. acc[b].balance \in Int /\ acc[b].fees \in Int /\ acc[b].rewards \in Int /\ acc[b].produced \in Int
    BY MoneyOf
  <2>3. TxMoves(t)[b] = [balance |-> InTx(t, b), fees |-> 0, rewards |-> 0, produced |-> 0]
    BY DEF TxMoves
  <2>4. InTx(t, b) = Given(Tx[t].sender, b, x) + Given(Tx[t].recipient, b, Tx[t].amount)
    BY <1>2 DEF InTx, Given, x
  <2>5. Given(Tx[t].sender, b, x) \in Int /\ Given(Tx[t].recipient, b, Tx[t].amount) \in Int
    BY <1>2, <1>3 DEF Given
  <2> QED BY <1>4, <2>1, <2>2, <2>3, <2>4, <2>5 DEF Moved, SameMoney
<1> QED BY <1>6, <1>7 DEF AllMoved, r

LEMMA UndoTxMoves ==
  ASSUME NEW t \in Txs, NEW acc, IsAccounts(acc), NEW before
  PROVE  IsAccounts(UndoTx(acc, t, before)) /\ AllMoved(UndoTx(acc, t, before), TxMoves(t), acc)
<1>1. PICK M, C, V, W, K, S : acc \in [AccountIds -> Over(M, C, V, W, K, S)]
  BY DEF IsAccounts
<1>2. Tx[t].amount \in Int /\ Tx[t].fee \in Int /\ Tx[t].sender \in AccountIds
  BY TxMovesType
<1> DEFINE x == -Tx[t].amount
           y == Tx[t].amount + Tx[t].fee
           back == Merge(Merge(acc, Tx[t].recipient, x), Tx[t].sender, y)
           voted == WithVotes(back, Tx[t].sender, before.votes)
           keyed == WithKey(voted, Tx[t].sender, before.key)
           r == UndoTx(acc, t, before)
<1>3. x \in Int /\ y \in Int
  BY <1>2
<1> HIDE DEF x, y
<1>4. /\ back \in [AccountIds -> Over(M, C, V, W, K, S)]
      /\ \A b \in AccountIds :
           /\ back[b].balance = acc[b].balance + Given(Tx[t].recipient, b, x) + Given(Tx[t].sender, b, y)
           /\ back[b].fees = acc[b].fees /\ back[b].rewards = acc[b].rewards
           /\ back[b].produced = acc[b].produced
  BY <1>1, <1>3, TwoMerges
<1>5. r = [back EXCEPT ![Tx[t].sender].votes = before.votes, ![Tx[t].sender].key = before.key]
  BY DEF UndoTx, x, y
<1> HIDE DEF back
<1>6. r = keyed
  BY <1>5 DEF WithVotes, WithKey
<1>7. /\ voted \in [AccountIds -> Over(M, C, V, W, K, S \cup {before.votes})]
      /\ \A b \in AccountIds : SameMoney(back[b], voted[b])
  BY <1>4, VotesMoveNothing
<1> HIDE DEF voted
<1>8. /\ keyed \in [AccountIds -> Over(M, C, V, W, K \cup {before.key}, S \cup {before.votes})]
      /\ \A b \in AccountIds : SameMoney(voted[b], keyed[b])
  BY <1>7, KeyMovesNothing
<1> HIDE DEF keyed, r
<1>9. IsAccounts(r)
  BY <1>6, <1>8 DEF IsAccounts
<1>10. ASSUME NEW b \in AccountIds PROVE Moved(r[b], TxMoves(t)[b], acc[b])
  <2>1. SameMoney(back[b], r[b])
    BY <1>6, <1>7, <1>8 DEF SameMoney
  <2>2. acc[b].balance \in Int /\ acc[b].fees \in Int /\ acc[b].rewards \in Int /\ acc[b].produced \in Int
    BY MoneyOf
  <2>3. TxMoves(t)[b] = [balance |-> InTx(t, b), fees |-> 0, rewards |-> 0, produced |-> 0]
    BY DEF TxMoves
  <2>4. InTx(t, b) = -(Given(Tx[t].recipient, b, x) + Given(Tx[t].sender, b, y))
    BY <1>2 DEF InTx, Given, x, y
  <2>5. Given(Tx[t].recipient, b, x) \in Int /\ Given(Tx[t].sender, b, y) \in Int
    BY <1>3 DEF Given
  <2> QED BY <1>4, <2>1, <2>2, <2>3, <2>4, <2>5 DEF Moved, SameMoney
<1> QED BY <1>9, <1>10 DEF AllMoved, r

(* A block has one transaction at most.                                     *)
Few(txs) == txs = {} \/ \E t \in Txs : txs = {t}

LEMMA ApplyTxsIs ==
  ASSUME NEW acc, NEW t
  PROVE  ApplyTxs(acc, {}) = acc /\ ApplyTxs(acc, {t}) = ApplyTx(acc, t)
<1> DEFINE Step(f, S) == IF S = {} THEN acc ELSE LET u == CHOOSE u \in S : TRUE IN ApplyTx(f[S \ {u}], u)
           IsAfter(f, txs) == f = [S \in SUBSET txs |-> Step(f, S)]
           after(txs) == CHOOSE f : IsAfter(f, txs)
<1>1. ApplyTxs(acc, {}) = after({})[{}] /\ ApplyTxs(acc, {t}) = after({t})[{t}]
  BY DEF ApplyTxs
<1>2. \A txs : {} \in SUBSET txs /\ txs \in SUBSET txs
  OBVIOUS
<1>3. IsAfter([S \in SUBSET {} |-> acc], {})
  OBVIOUS
<1>4. IsAfter(after({}), {})
  <2> HIDE DEF IsAfter
  <2> QED BY <1>3
<1>5. after({})[{}] = acc
  <2> HIDE DEF after
  <2> QED BY <1>2, <1>4
<1>6. (CHOOSE u \in {t} : TRUE) = t /\ {t} \ {t} = {}
  OBVIOUS
<1> DEFINE f == [S \in SUBSET {t} |-> IF S = {} THEN acc ELSE ApplyTx(acc, t)]
<1>7. IsAfter(f, {t})
  <2>1. f[{}] = acc
    BY <1>2
  <2>2. ASSUME NEW S \in SUBSET {t} PROVE f[S] = Step(f, S)
    <3>1. S = {} \/ S = {t}
      OBVIOUS
    <3>2. CASE S = {t}
      <4>1. Step(f, {t}) = ApplyTx(f[{}], t)
        <5> HIDE DEF f
        <5> QED BY <1>6
      <4> QED BY <2>1, <3>2, <4>1
    <3> QED BY <3>1, <3>2
  <2> QED BY <2>2
<1>8. IsAfter(after({t}), {t})
  <2> HIDE DEF IsAfter, f
  <2> QED BY <1>7
<1>9. after({t})[{t}] = ApplyTx(acc, t)
  <2> DEFINE g == after({t})
  <2>1. \A S \in SUBSET {t} : g[S] = Step(g, S)
    <3> HIDE DEF after
    <3> QED BY <1>8
  <2> HIDE DEF g
  <2>2. g[{}] = acc
    BY <1>2, <2>1
  <2>3. g[{t}] = ApplyTx(g[{}], t)
    BY <1>2, <1>6, <2>1
  <2> QED BY <2>2, <2>3 DEF g
<1> QED BY <1>1, <1>5, <1>9

LEMMA UndoTxsIs ==
  ASSUME NEW acc, NEW t, NEW bs
  PROVE  UndoTxs(acc, {}, bs) = acc /\ UndoTxs(acc, {t}, bs) = UndoTx(acc, t, Before(bs, Tx[t].sender))
<1> DEFINE Step(f, S) == IF S = {} THEN acc ELSE LET u == CHOOSE u \in S : TRUE IN UndoTx(f[S \ {u}], u, Before(bs, Tx[u].sender))
           IsAfter(f, txs) == f = [S \in SUBSET txs |-> Step(f, S)]
           after(txs) == CHOOSE f : IsAfter(f, txs)
<1>1. UndoTxs(acc, {}, bs) = after({})[{}] /\ UndoTxs(acc, {t}, bs) = after({t})[{t}]
  BY DEF UndoTxs
<1>2. \A txs : {} \in SUBSET txs /\ txs \in SUBSET txs
  OBVIOUS
<1>3. IsAfter([S \in SUBSET {} |-> acc], {})
  OBVIOUS
<1>4. IsAfter(after({}), {})
  <2> HIDE DEF IsAfter
  <2> QED BY <1>3
<1>5. after({})[{}] = acc
  <2> HIDE DEF after
  <2> QED BY <1>2, <1>4
<1>6. (CHOOSE u \in {t} : TRUE) = t /\ {t} \ {t} = {}
  OBVIOUS
<1> DEFINE f == [S \in SUBSET {t} |-> IF S = {} THEN acc ELSE UndoTx(acc, t, Before(bs, Tx[t].sender))]
<1>7. IsAfter(f, {t})
  <2>1. f[{}] = acc
    BY <1>2
  <2>2. ASSUME NEW S \in SUBSET {t} PROVE f[S] = Step(f, S)
    <3>1. S = {} \/ S = {t}
      OBVIOUS
    <3>2. CASE S = {t}
      <4>1. Step(f, {t}) = UndoTx(f[{}], t, Before(bs, Tx[t].sender))
        <5> HIDE DEF f
        <5> QED BY <1>6
      <4> QED BY <2>1, <3>2, <4>1
    <3> QED BY <3>1, <3>2
  <2> QED BY <2>2
<1>8. IsAfter(after({t}), {t})
  <2> HIDE DEF IsAfter, f
  <2> QED BY <1>7
<1>9. after({t})[{t}] = UndoTx(acc, t, Before(bs, Tx[t].sender))
  <2> DEFINE g == after({t})
  <2>1. \A S \in SUBSET {t} : g[S] = Step(g, S)
    <3> HIDE DEF after
    <3> QED BY <1>8
  <2> HIDE DEF g
  <2>2. g[{}] = acc
    BY <1>2, <2>1
  <2>3. g[{t}] = UndoTx(g[{}], t, Before(bs, Tx[t].sender))
    BY <1>2, <1>6, <2>1
  <2> QED BY <2>2, <2>3 DEF g
<1> QED BY <1>1, <1>5, <1>9

LEMMA TotalFeeIs ==
  ASSUME NEW t
  PROVE  TotalFee({}) = 0 /\ TotalFee({t}) = 0 + Tx[t].fee
<1> DEFINE Step(f, S) == IF S = {} THEN 0 ELSE LET u == CHOOSE u \in S : TRUE IN f[S \ {u}] + Tx[u].fee
           IsAfter(f, txs) == f = [S \in SUBSET txs |-> Step(f, S)]
           after(txs) == CHOOSE f : IsAfter(f, txs)
<1>1. TotalFee({}) = after({})[{}] /\ TotalFee({t}) = after({t})[{t}]
  BY DEF TotalFee
<1>2. \A txs : {} \in SUBSET txs /\ txs \in SUBSET txs
  OBVIOUS
<1>3. IsAfter([S \in SUBSET {} |-> 0], {})
  OBVIOUS
<1>4. IsAfter(after({}), {})
  <2> HIDE DEF IsAfter
  <2> QED BY <1>3
<1>5. after({})[{}] = 0
  <2> HIDE DEF after
  <2> QED BY <1>2, <1>4
<1>6. (CHOOSE u \in {t} : TRUE) = t /\ {t} \ {t} = {}
  OBVIOUS
<1> DEFINE f == [S \in SUBSET {t} |-> IF S = {} THEN 0 ELSE 0 + Tx[t].fee]
<1>7. IsAfter(f, {t})
  <2>1. f[{}] = 0
    BY <1>2
  <2>2. ASSUME NEW S \in SUBSET {t} PROVE f[S] = Step(f, S)
    <3>1. S = {} \/ S = {t}
      OBVIOUS
    <3>2. CASE S = {t}
      <4>1. Step(f, {t}) = f[{}] + Tx[t].fee
        <5> HIDE DEF f
        <5> QED BY <1>6
      <4> QED BY <2>1, <3>2, <4>1
    <3> QED BY <3>1, <3>2
  <2> QED BY <2>2
<1>8. IsAfter(after({t}), {t})
  <2> HIDE DEF IsAfter, f
  <2> QED BY <1>7
<1>9. after({t})[{t}] = 0 + Tx[t].fee
  <2> DEFINE g == after({t})
  <2>1. \A S \in SUBSET {t} : g[S] = Step(g, S)
    <3> HIDE DEF after
    <3> QED BY <1>8
  <2> HIDE DEF g
  <2>2. g[{}] = 0
    BY <1>2, <2>1
  <2>3. g[{t}] = g[{}] + Tx[t].fee
    BY <1>2, <1>6, <2>1
  <2> QED BY <2>2, <2>3 DEF g
<1> QED BY <1>1, <1>5, <1>9

LEMMA BlockFee ==
  ASSUME NEW txs, Few(txs)
  PROVE  TotalFee(txs) \in Int
<1>1. CASE txs = {}
  <2>1. ASSUME NEW t PROVE TotalFee({}) = 0
    BY TotalFeeIs
  <2>2. TotalFee({}) = 0
    BY <2>1
  <2> QED BY <1>1, <2>2
<1>2. CASE \E t \in Txs : txs = {t}
  <2>1. PICK t \in Txs : txs = {t}
    BY <1>2
  <2>2. TotalFee({t}) = 0 + Tx[t].fee
    BY TotalFeeIs
  <2> QED BY <2>1, <2>2, TxMovesType
<1> QED BY <1>1, <1>2 DEF Few

(* What the transactions of a block move is moved back when they are undone. *)
LEMMA TxsMove ==
  ASSUME NEW txs, Few(txs)
  PROVE  \E d \in [AccountIds -> Moves] : \A acc, bs : IsAccounts(acc) =>
           /\ IsAccounts(ApplyTxs(acc, txs)) /\ AllMoved(acc, d, ApplyTxs(acc, txs))
           /\ IsAccounts(UndoTxs(acc, txs, bs)) /\ AllMoved(UndoTxs(acc, txs, bs), d, acc)
<1>1. CASE txs = {}
  <2>1. ASSUME NEW acc, NEW bs, IsAccounts(acc)
        PROVE  ApplyTxs(acc, {}) = acc /\ UndoTxs(acc, {}, bs) = acc /\ AllMoved(acc, Still, acc)
    <3>1. AllMoved(acc, Still, acc)
      BY <2>1, NoneMoved DEF SameMoney
    <3> QED BY <3>1, ApplyTxsIs, UndoTxsIs
  <2> QED BY <1>1, <2>1, StillType
<1>2. CASE \E t \in Txs : txs = {t}
  <2>1. PICK t \in Txs : txs = {t}
    BY <1>2
  <2>2. TxMoves(t) \in [AccountIds -> Moves]
    BY TxMovesType
  <2>3. ASSUME NEW acc, NEW bs, IsAccounts(acc)
        PROVE  /\ IsAccounts(ApplyTxs(acc, txs)) /\ AllMoved(acc, TxMoves(t), ApplyTxs(acc, txs))
               /\ IsAccounts(UndoTxs(acc, txs, bs)) /\ AllMoved(UndoTxs(acc, txs, bs), TxMoves(t), acc)
    <3>1. ApplyTxs(acc, txs) = ApplyTx(acc, t)
      BY <2>1, ApplyTxsIs
    <3>2. UndoTxs(acc, txs, bs) = UndoTx(acc, t, Before(bs, Tx[t].sender))
      BY <2>1, UndoTxsIs
    <3>3. IsAccounts(ApplyTx(acc, t)) /\ AllMoved(acc, TxMoves(t), ApplyTx(acc, t))
      BY <2>3, ApplyTxMoves
    <3>4. /\ IsAccounts(UndoTx(acc, t, Before(bs, Tx[t].sender)))
          /\ AllMoved(UndoTx(acc, t, Before(bs, Tx[t].sender)), TxMoves(t), acc)
      BY <2>3, UndoTxMoves
    <3> QED BY <3>1, <3>2, <3>3, <3>4
  <2> QED BY <2>2, <2>3
<1> QED BY <1>1, <1>2 DEF Few

-----------------------------------------------------------------------------
(* The end of a round.                                                      *)

(* Missed blocks, votes and weights are no money.                           *)
LEMMA MissedMoveNothing ==
  ASSUME NEW acc, IsAccounts(acc), NEW outsiders, NEW h, NEW sign
  PROVE  LET r == UpdateMissedBlocks(acc, outsiders, h, sign)
         IN IsAccounts(r) /\ \A b \in AccountIds : SameMoney(acc[b], r[b])
<1>1. PICK M, C, V, W, K, S : acc \in [AccountIds -> Over(M, C, V, W, K, S)]
  BY DEF IsAccounts
<1> DEFINE m(b) == acc[b].missed + sign
           c(b) == IF IsV2(h) THEN acc[b].cmb + sign ELSE 0
           M2 == M \cup {m(b) : b \in AccountIds}
           C2 == C \cup {c(b) : b \in AccountIds}
           r == UpdateMissedBlocks(acc, outsiders, h, sign)
<1>2. r = [b \in AccountIds |-> IF b \in outsiders THEN [acc[b] EXCEPT !.missed = m(b), !.cmb = c(b)]
                                ELSE acc[b]]
  BY DEF UpdateMissedBlocks
<1> HIDE DEF r, m, c
<1>3. ASSUME NEW b \in AccountIds
      PROVE  r[b] \in Over(M2, C2, V, W, K, S) /\ SameMoney(acc[b], r[b])
  <2>1. acc[b] \in Over(M, C, V, W, K, S)
    BY <1>1
  <2>2. m(b) \in M2 /\ c(b) \in C2 /\ M \subseteq M2 /\ C \subseteq C2
    OBVIOUS
  <2> HIDE DEF M2, C2
  <2>3. CASE b \in outsiders
    <3>1. r[b] = [acc[b] EXCEPT !.missed = m(b), !.cmb = c(b)]
      BY <1>2, <2>3
    <3> QED BY <2>1, <2>2, <3>1 DEF Over, SameMoney
  <2>4. CASE b \notin outsiders
    <3>1. r[b] = acc[b]
      BY <1>2, <2>4
    <3> QED BY <2>1, <2>2, <3>1 DEF Over, SameMoney
  <2> QED BY <2>3, <2>4
<1>4. r \in [AccountIds -> Over(M2, C2, V, W, K, S)]
  <2> HIDE DEF M2, C2
  <2> QED BY <1>2, <1>3
<1>5. IsAccounts(r)
  BY <1>4 DEF IsAccounts
<1> QED BY <1>3, <1>5 DEF r

WithStrength(acc, T, v, w) ==
  [b \in AccountIds |-> IF b \in T THEN [acc[b] EXCEPT !.vote = v[b], !.weight = w[b]] ELSE acc[b]]

LEMMA StrengthMovesNothing ==
  ASSUME NEW acc, IsAccounts(acc), NEW T, NEW v, NEW w
  PROVE  /\ IsAccounts(WithStrength(acc, T, v, w))
         /\ \A b \in AccountIds : SameMoney(acc[b], WithStrength(acc, T, v, w)[b])
<1> DEFINE r == WithStrength(acc, T, v, w)
<1>1. PICK M, C, V, W, K, S : acc \in [AccountIds -> Over(M, C, V, W, K, S)]
  BY DEF IsAccounts
<1> DEFINE V2 == V \cup {v[b] : b \in AccountIds}
           W2 == W \cup {w[b] : b \in AccountIds}
<1>2. r = [b \in AccountIds |-> IF b \in T THEN [acc[b] EXCEPT !.vote = v[b], !.weight = w[b]]
                                ELSE acc[b]]
  BY DEF WithStrength
<1> HIDE DEF r
<1>3. ASSUME NEW b \in AccountIds
      PROVE  r[b] \in Over(M, C, V2, W2, K, S) /\ SameMoney(acc[b], r[b])
  <2>1. acc[b] \in Over(M, C, V, W, K, S)
    BY <1>1
  <2>2. v[b] \in V2 /\ w[b] \in W2 /\ V \subseteq V2 /\ W \subseteq W2
    OBVIOUS
  <2> HIDE DEF V2, W2
  <2>3. CASE b \in T
    <3>1. r[b] = [acc[b] EXCEPT !.vote = v[b], !.weight = w[b]]
      BY <1>2, <2>3
    <3> QED BY <2>1, <2>2, <3>1 DEF Over, SameMoney
  <2>4. CASE b \notin T
    <3>1. r[b] = acc[b]
      BY <1>2, <2>4
    <3> QED BY <2>1, <2>2, <3>1 DEF Over, SameMoney
  <2> QED BY <2>3, <2>4
<1>4. r \in [AccountIds -> Over(M, C, V2, W2, K, S)]
  <2> HIDE DEF V2, W2
  <2> QED BY <1>2, <1>3
<1>5. IsAccounts(r)
  BY <1>4 DEF IsAccounts
<1> QED BY <1>3, <1>5 DEF r

LEMMA SnapshotMovesNothing ==
  ASSUME NEW acc, IsAccounts(acc), NEW s
  PROVE  LET r == RestoreVotesSnapshot(acc, s)
         IN IsAccounts(r) /\ \A b \in AccountIds : SameMoney(acc[b], r[b])
<1> DEFINE v == [b \in AccountIds |-> s[b].vote]
           w == [b \in AccountIds |-> s[b].weight]
           T == DOMAIN s
           r == RestoreVotesSnapshot(acc, s)
<1>1. \A b \in AccountIds : v[b] = s[b].vote /\ w[b] = s[b].weight
  OBVIOUS
<1>2. r = [b \in AccountIds |-> IF b \in T THEN [acc[b] EXCEPT !.vote = s[b].vote, !.weight = s[b].weight]
                                ELSE acc[b]]
  BY DEF RestoreVotesSnapshot
<1> HIDE DEF v, w, T, r
<1>3. r = WithStrength(acc, T, v, w)
  BY <1>1, <1>2 DEF WithStrength
<1>4. IsAccounts(r) /\ \A b \in AccountIds : SameMoney(acc[b], r[b])
  BY <1>3, StrengthMovesNothing
<1> QED BY <1>4 DEF r

LEMMA ReCalcMovesNothing ==
  ASSUME NEW acc, IsAccounts(acc)
  PROVE  LET r == ReCalcVotes(acc)
         IN IsAccounts(r) /\ \A b \in AccountIds : SameMoney(acc[b], r[b])
<1> DEFINE v == [b \in AccountIds |-> VoteOf(Stakes(acc), b)]
           w == [b \in AccountIds |-> WeightOf(Stakes(acc), b, acc[b].produced, acc[b].missed)]
           r == ReCalcVotes(acc)
<1>1. r = WithStrength(acc, Delegates, v, w)
  BY DEF ReCalcVotes, WithStrength
<1>2. IsAccounts(r) /\ \A b \in AccountIds : SameMoney(acc[b], r[b])
  <2> HIDE DEF v, w, r
  <2> QED BY <1>1, StrengthMovesNothing
<1> QED BY <1>2 DEF r

(* Who forged a block is paid.                                              *)
IsPay(c) == c.balance \in Int /\ c.fees \in Int /\ c.rewards \in Int
PayMoves(a, c) ==
  [b \in AccountIds |-> IF a # None /\ a = b
                        THEN [balance |-> c.balance, fees |-> c.fees, rewards |-> c.rewards, produced |-> 1]
                        ELSE Nought]

LEMMA PayMovesType ==
  ASSUME NEW a, NEW c, IsPay(c)
  PROVE  PayMoves(a, c) \in [AccountIds -> Moves]
BY DEF PayMoves, IsPay, Moves, Nought

LEMMA ReceivesType ==
  ASSUME NEW M, NEW C, NEW V, NEW W, NEW K, NEW S, 0 \in C,
         NEW x \in Over(M, C, V, W, K, S), NEW c, IsPay(c), NEW sign \in {1, -1}
  PROVE  LET y == Receives(x, c, sign)
         IN /\ y \in Over(M, C, V, W, K, S)
            /\ y.balance = x.balance + sign * c.balance /\ y.fees = x.fees + sign * c.fees
            /\ y.rewards = x.rewards + sign * c.rewards /\ y.produced = x.produced + sign
<1> DEFINE p == x.balance + sign * c.balance
           q == x.fees + sign * c.fees
           r == x.rewards + sign * c.rewards
           s == x.produced + sign
           y1 == [x EXCEPT !.balance = p, !.fees = q]
           y2 == [y1 EXCEPT !.rewards = r, !.produced = s]
           y3 == [y2 EXCEPT !.cmb = 0]
           y == Receives(x, c, sign)
<1>1. x.balance \in Int /\ x.fees \in Int /\ x.rewards \in Int /\ x.produced \in Int
  BY DEF Over
<1>2. c.balance \in Int /\ c.fees \in Int /\ c.rewards \in Int
  BY DEF IsPay
<1>3. p \in Int /\ q \in Int /\ r \in Int /\ s \in Int
  BY <1>1, <1>2
<1>4. y = [x EXCEPT !.balance = p, !.fees = q, !.rewards = r, !.produced = s, !.cmb = 0]
  BY DEF Receives
<1> HIDE DEF p, q, r, s, y
<1>5. y = y3
  BY <1>4
<1>6. y1 \in Over(M, C, V, W, K, S) /\ y1.balance = p /\ y1.fees = q
  BY <1>3 DEF Over
<1> HIDE DEF y1
<1>7. y2 \in Over(M, C, V, W, K, S) /\ y2.balance = p /\ y2.fees = q /\ y2.rewards = r /\ y2.produced = s
  BY <1>3, <1>6 DEF Over
<1> HIDE DEF y2
<1>8. y3 \in Over(M, C, V, W, K, S) /\ y3.balance = p /\ y3.fees = q /\ y3.rewards = r /\ y3.produced = s
  BY <1>7 DEF Over
<1> QED BY <1>5, <1>8 DEF p, q, r, s, y

LEMMA PayType ==
  ASSUME NEW M, NEW C, NEW V, NEW W, NEW K, NEW S, 0 \in C,
         NEW acc \in [AccountIds -> Over(M, C, V, W, K, S)],
         NEW a, NEW c, IsPay(c), NEW sign \in {1, -1}
  PROVE  /\ Pay(acc, a, c, sign) \in [AccountIds -> Over(M, C, V, W, K, S)]
         /\ \A b \in AccountIds : Pay(acc, a, c, sign)[b] =
              IF a # None /\ a = b THEN Receives(acc[b], c, sign) ELSE acc[b]
<1> DEFINE r == Pay(acc, a, c, sign)
           x(b) == Receives(acc[b], c, sign)
<1>1. \A b \in AccountIds : acc[b] \in Over(M, C, V, W, K, S)
  OBVIOUS
<1>3. \A b \in AccountIds : x(b) \in Over(M, C, V, W, K, S)
  BY <1>1, ReceivesType
<1>4. CASE a = None
  <2>1. r = acc
    BY <1>4 DEF Pay
  <2> QED BY <1>4, <2>1
<1>5. CASE a # None
  <2>2. r = [acc EXCEPT ![a] = x(a)]
    BY <1>5 DEF Pay
  <2> HIDE DEF x, r
  <2>3. \A b \in AccountIds : r[b] = IF a = b THEN x(b) ELSE acc[b]
    BY <2>2
  <2>4. r \in [AccountIds -> Over(M, C, V, W, K, S)]
    BY <1>3, <2>2
  <2> QED BY <1>5, <2>3, <2>4 DEF r, x
<1> QED BY <1>4, <1>5

LEMMA PaysMove ==
  ASSUME NEW acc, IsAccounts(acc), NEW a, NEW c, IsPay(c)
  PROVE  /\ IsAccounts(Pay(acc, a, c, 1)) /\ AllMoved(acc, PayMoves(a, c), Pay(acc, a, c, 1))
         /\ IsAccounts(Pay(acc, a, c, -1)) /\ AllMoved(Pay(acc, a, c, -1), PayMoves(a, c), acc)
<1>1. PICK M, C0, V, W, K, S : acc \in [AccountIds -> Over(M, C0, V, W, K, S)]
  BY DEF IsAccounts
<1> DEFINE C == C0 \cup {0}
<1>2. acc \in [AccountIds -> Over(M, C, V, W, K, S)] /\ 0 \in C
  BY <1>1 DEF Over
<1> HIDE DEF C
<1> DEFINE r(s) == Pay(acc, a, c, s)
<1>3. ASSUME NEW s \in {1, -1}
      PROVE  /\ r(s) \in [AccountIds -> Over(M, C, V, W, K, S)]
             /\ \A b \in AccountIds : r(s)[b] = IF a # None /\ a = b THEN Receives(acc[b], c, s) ELSE acc[b]
  BY <1>2, <1>3, PayType
<1> HIDE DEF r
<1>4. IsAccounts(r(1)) /\ IsAccounts(r(-1))
  BY <1>3 DEF IsAccounts
<1>5. ASSUME NEW b \in AccountIds
      PROVE  Moved(acc[b], PayMoves(a, c)[b], r(1)[b]) /\ Moved(r(-1)[b], PayMoves(a, c)[b], acc[b])
  <2>1. acc[b] \in Over(M, C, V, W, K, S)
    BY <1>2
  <2>2. c.balance \in Int /\ c.fees \in Int /\ c.rewards \in Int
    BY DEF IsPay
  <2>3. CASE a # None /\ a = b
    <3>1. PayMoves(a, c)[b] = [balance |-> c.balance, fees |-> c.fees, rewards |-> c.rewards, produced |-> 1]
      BY <2>3 DEF PayMoves
    <3>2. r(1)[b] = Receives(acc[b], c, 1) /\ r(-1)[b] = Receives(acc[b], c, -1)
      BY <1>3, <2>3
    <3>3. ASSUME NEW s \in {1, -1}
          PROVE  /\ r(s)[b].balance = acc[b].balance + s * c.balance
                 /\ r(s)[b].fees = acc[b].fees + s * c.fees
                 /\ r(s)[b].rewards = acc[b].rewards + s * c.rewards
                 /\ r(s)[b].produced = acc[b].produced + s
      <4>1. r(s)[b] = Receives(acc[b], c, s)
        BY <3>2, <3>3
      <4> QED BY <1>2, <2>1, <3>3, <4>1, ReceivesType
    <3>5. acc[b].balance \in Int /\ acc[b].fees \in Int /\ acc[b].rewards \in Int /\ acc[b].produced \in Int
      BY MoneyOf
    <3> QED BY <2>2, <3>1, <3>3, <3>5 DEF Moved
  <2>4. CASE ~(a # None /\ a = b)
    <3>1. PayMoves(a, c)[b] = Nought
      BY <2>4 DEF PayMoves
    <3>2. r(1)[b] = acc[b] /\ r(-1)[b] = acc[b]
      BY <1>3, <2>4
    <3> QED BY <2>1, <3>1, <3>2 DEF Moved, Over, Nought
  <2> QED BY <2>3, <2>4
<1> QED BY <1>4, <1>5 DEF AllMoved, r

(* The fees of a round, and the pay of the i-th block of it.                *)
IsRound(round) ==
  /\ Len(round) \in Nat
  /\ \A i \in 1..Len(round) : round[i].fee \in Int /\ round[i].reward \in Int

LEMMA FeesType ==
  ASSUME NEW round, IsRound(round)
  PROVE  FeesOf(round) \in Int
<1> DEFINE m == Len(round)
           IsUpto(f) == f = [i \in 0..m |-> IF i = 0 THEN 0 ELSE f[i - 1] + round[i].fee]
           upto == CHOOSE f : IsUpto(f)
           step == [p \in (1..m) \X Int |-> p[2] + round[p[1]].fee]
<1>1. m \in Nat /\ \A i \in 1..m : round[i].fee \in Int
  BY DEF IsRound
<1>2. FeesOf(round) = upto[m]
  BY DEF FeesOf
<1> HIDE DEF m
<1>3. IsStep(step, m, Int)
  BY <1>1 DEF IsStep
<1>4. PICK f : Iterates(f, step, 0, m, Int)
  <2> HIDE DEF step
  <2> QED BY <1>3, Iteration
<1>5. f \in [0..m -> Int] /\ f[0] = 0 /\ \A n \in 1..m : f[n] = f[n - 1] + round[n].fee
  <2>1. f \in [0..m -> Int] /\ f[0] = 0 /\ \A n \in 1..m : f[n] = step[<<n, f[n - 1]>>]
    BY <1>4 DEF Iterates
  <2>2. ASSUME NEW n \in 1..m PROVE step[<<n, f[n - 1]>>] = f[n - 1] + round[n].fee
    <3>1. n - 1 \in 0..m
      BY <1>1
    <3>2. f[n - 1] \in Int
      BY <2>1, <3>1
    <3> QED BY <3>2
  <2> QED BY <2>1, <2>2
<1>6. IsUpto(f)
  <2>1. f = [i \in 0..m |-> f[i]]
    BY <1>5
  <2>2. \A i \in 0..m : f[i] = IF i = 0 THEN 0 ELSE f[i - 1] + round[i].fee
    BY <1>1, <1>5
  <2> QED BY <2>1, <2>2
<1>7. IsUpto(upto)
  <2> HIDE DEF IsUpto
  <2> QED BY <1>6
<1> HIDE DEF upto
<1> DEFINE T == {k \in Nat : k <= m => upto[k] \in Int}
<1>8. 0 \in T
  BY <1>1, <1>7
<1>9. ASSUME NEW k \in Nat, k \in T PROVE k + 1 \in T
  <2> SUFFICES ASSUME k + 1 <= m PROVE upto[k + 1] \in Int
    OBVIOUS
  <2>1. upto[k] \in Int
    BY <1>1, <1>9
  <2>2. k + 1 \in 0..m /\ k + 1 \in 1..m /\ k + 1 # 0 /\ (k + 1) - 1 = k
    BY <1>1
  <2>3. upto[k + 1] = upto[k] + round[k + 1].fee
    <3>1. \A i \in 0..m : upto[i] = IF i = 0 THEN 0 ELSE upto[i - 1] + round[i].fee
      BY <1>7
    <3> QED BY <2>2, <3>1
  <2> QED BY <1>1, <2>1, <2>2, <2>3
<1>10. m \in T
  <2> HIDE DEF T
  <2> QED BY <1>1, <1>8, <1>9, SetInduction
<1> QED BY <1>2, <1>10

LEMMA AtType ==
  ASSUME NEW round, IsRound(round), NEW class, NEW i \in 1..Len(round)
  PROVE  IsPay(At(class, round, i))
<1> DEFINE total == FeesOf(round)
           each == total \div ActiveDelegates
           remaining == IF i = ActiveDelegates THEN total - each * ActiveDelegates ELSE 0
<1>1. total \in Int /\ ActiveDelegates \in Nat /\ ActiveDelegates > 0
  BY FeesType, RoundsAssumption
<1> HIDE DEF total
<1>2. each \in Int
  BY <1>1
<1> HIDE DEF each
<1>3. remaining \in Int
  BY <1>1, <1>2
<1> HIDE DEF remaining
<1>4. round[i].fee \in Int /\ round[i].reward \in Int
  BY DEF IsRound
<1>5. At(class, round, i) = IF class = "RoundChanges"
        THEN [balance |-> round[i].fee + round[i].reward, fees |-> round[i].fee,
              rewards |-> round[i].reward]
        ELSE [balance |-> each + round[i].reward + remaining, fees |-> each,
              rewards |-> round[i].reward]
  BY DEF At, total, each, remaining
<1>6. CASE class = "RoundChanges"
  BY <1>4, <1>5, <1>6 DEF IsPay
<1>7. CASE class # "RoundChanges"
  BY <1>2, <1>3, <1>4, <1>5, <1>7 DEF IsPay
<1> QED BY <1>6, <1>7

(* The blocks of a round are paid one after the other.                      *)
Payee(round, i) == KeyAddress[round[i].generator]
Paying(f, class, round, sign) ==
  \A i \in 1..Len(round) : f[i] = Pay(f[i - 1], Payee(round, i), At(class, round, i), sign)

LEMMA ApplyRoundIs ==
  ASSUME NEW acc, IsAccounts(acc), NEW round, IsRound(round), NEW class, NEW sign \in {1, -1}
  PROVE  \E f : f[0] = acc /\ Paying(f, class, round, sign) /\ ApplyRound(acc, class, round, sign) = f[Len(round)]
<1>1. PICK M, C0, V, W, K, S : acc \in [AccountIds -> Over(M, C0, V, W, K, S)]
  BY DEF IsAccounts
<1> DEFINE C == C0 \cup {0}
           R == [AccountIds -> Over(M, C, V, W, K, S)]
           m == Len(round)
           Step(a, i) == Pay(a, KeyAddress[round[i].generator], At(class, round, i), sign)
           IsAfter(f) == f = [i \in 0..m |-> IF i = 0 THEN acc ELSE Step(f[i - 1], i)]
           after == CHOOSE f : IsAfter(f)
           step == [p \in (1..m) \X R |-> Step(p[2], p[1])]
<1>2. acc \in R
  BY <1>1 DEF Over
<1>3. m \in Nat
  BY DEF IsRound
<1>4. ASSUME NEW a \in R, NEW i \in 1..m PROVE Step(a, i) \in R
  <2>1. IsPay(At(class, round, i))
    BY AtType
  <2>2. 0 \in C
    OBVIOUS
  <2> HIDE DEF C
  <2> QED BY <2>1, <2>2, PayType
<1>5. ApplyRound(acc, class, round, sign) = after[m]
  BY DEF ApplyRound
<1> HIDE DEF m, R
<1>6. IsStep(step, m, R)
  <2> HIDE DEF Step
  <2>1. \A p \in (1..m) \X R : Step(p[2], p[1]) \in R
    BY <1>4
  <2> QED BY <1>3, <2>1 DEF IsStep
<1>7. PICK f : Iterates(f, step, acc, m, R)
  <2> HIDE DEF step
  <2> QED BY <1>2, <1>6, Iteration
<1>8. f \in [0..m -> R] /\ f[0] = acc /\ \A n \in 1..m : f[n] = Step(f[n - 1], n)
  <2>1. f \in [0..m -> R] /\ f[0] = acc /\ \A n \in 1..m : f[n] = step[<<n, f[n - 1]>>]
    BY <1>7 DEF Iterates
  <2>2. ASSUME NEW n \in 1..m PROVE step[<<n, f[n - 1]>>] = Step(f[n - 1], n)
    <3>1. n - 1 \in 0..m
      BY <1>3
    <3>2. f[n - 1] \in R
      BY <2>1, <3>1
    <3> HIDE DEF Step
    <3> QED BY <3>2
  <2> HIDE DEF Step
  <2> QED BY <2>1, <2>2
<1>9. IsAfter(f)
  <2> HIDE DEF Step
  <2>1. f = [i \in 0..m |-> f[i]]
    BY <1>8
  <2>2. \A i \in 0..m : f[i] = IF i = 0 THEN acc ELSE Step(f[i - 1], i)
    BY <1>3, <1>8
  <2> QED BY <2>1, <2>2
<1>10. IsAfter(after)
  <2> HIDE DEF IsAfter
  <2> QED BY <1>9
<1> HIDE DEF after
<1>11. after[0] = acc /\ \A i \in 1..m : after[i] = Step(after[i - 1], i)
  <2> HIDE DEF Step
  <2>1. \A i \in 0..m : after[i] = IF i = 0 THEN acc ELSE Step(after[i - 1], i)
    BY <1>10
  <2>2. 0 \in 0..m /\ \A i \in 1..m : i \in 0..m /\ i # 0
    BY <1>3
  <2> QED BY <2>1, <2>2
<1>12. Paying(after, class, round, sign)
  BY <1>11 DEF Paying, Payee, m
<1> QED BY <1>5, <1>11, <1>12 DEF m

LEMMA TogetherCommutes ==
  ASSUME NEW d \in [AccountIds -> Moves], NEW e \in [AccountIds -> Moves]
  PROVE  Together(d, e) = Together(e, d)
<1>1. ASSUME NEW b \in AccountIds
      PROVE  /\ d[b].balance + e[b].balance = e[b].balance + d[b].balance
             /\ d[b].fees + e[b].fees = e[b].fees + d[b].fees
             /\ d[b].rewards + e[b].rewards = e[b].rewards + d[b].rewards
             /\ d[b].produced + e[b].produced = e[b].produced + d[b].produced
  <2>1. d[b] \in Moves /\ e[b] \in Moves
    OBVIOUS
  <2> QED BY <2>1 DEF Moves
<1> QED BY <1>1 DEF Together

(* What a round pays is paid back when the round is undone.                 *)
LEMMA RoundMoves ==
  ASSUME NEW round, IsRound(round), NEW class
  PROVE  \E d \in [AccountIds -> Moves] : \A acc : IsAccounts(acc) =>
           /\ IsAccounts(ApplyRound(acc, class, round, 1))
           /\ AllMoved(acc, d, ApplyRound(acc, class, round, 1))
           /\ IsAccounts(ApplyRound(acc, class, round, -1))
           /\ AllMoved(ApplyRound(acc, class, round, -1), d, acc)
<1> DEFINE m == Len(round)
           Good(d, k) ==
             /\ \A f : IsAccounts(f[0]) /\ Paying(f, class, round, 1) =>
                         IsAccounts(f[k]) /\ AllMoved(f[0], d, f[k])
             /\ \A f : IsAccounts(f[0]) /\ Paying(f, class, round, -1) =>
                         IsAccounts(f[k]) /\ AllMoved(f[k], d, f[0])
           T == {k \in Nat : k <= m => \E d \in [AccountIds -> Moves] : Good(d, k)}
<1>1. m \in Nat
  BY DEF IsRound
<1>2. 0 \in T
  <2>1. ASSUME NEW acc, IsAccounts(acc) PROVE AllMoved(acc, Still, acc)
    BY <2>1, NoneMoved DEF SameMoney
  <2>2. Good(Still, 0)
    BY <2>1
  <2> HIDE DEF Good
  <2> QED BY <2>2, StillType
<1>3. ASSUME NEW k \in Nat, k \in T PROVE k + 1 \in T
  <2> SUFFICES ASSUME k + 1 <= m PROVE \E d \in [AccountIds -> Moves] : Good(d, k + 1)
    OBVIOUS
  <2>1. PICK d \in [AccountIds -> Moves] : Good(d, k)
    <3> HIDE DEF Good, m
    <3> QED BY <1>1, <1>3
  <2> DEFINE c == At(class, round, k + 1)
             a == Payee(round, k + 1)
             e == PayMoves(a, c)
             g == Together(d, e)
  <2>2. k + 1 \in 1..Len(round) /\ (k + 1) - 1 = k
    BY <1>1
  <2>3. IsPay(c)
    BY <2>2, AtType
  <2> HIDE DEF c, a
  <2>4. e \in [AccountIds -> Moves]
    BY <2>3, PayMovesType
  <2> HIDE DEF e
  <2>5. g \in [AccountIds -> Moves] /\ g = Together(e, d)
    BY <2>4, TogetherType, TogetherCommutes
  <2>6. ASSUME NEW f, IsAccounts(f[0]), Paying(f, class, round, 1)
        PROVE  IsAccounts(f[k + 1]) /\ AllMoved(f[0], g, f[k + 1])
    <3>1. IsAccounts(f[k]) /\ AllMoved(f[0], d, f[k])
      BY <2>1, <2>6
    <3>2. f[k + 1] = Pay(f[k], a, c, 1)
      BY <2>2, <2>6 DEF Paying, a, c
    <3>3. IsAccounts(f[k + 1]) /\ AllMoved(f[k], e, f[k + 1])
      BY <2>3, <3>1, <3>2, PaysMove DEF e
    <3> QED BY <2>4, <2>6, <3>1, <3>3, MovedTogether
  <2>7. ASSUME NEW f, IsAccounts(f[0]), Paying(f, class, round, -1)
        PROVE  IsAccounts(f[k + 1]) /\ AllMoved(f[k + 1], g, f[0])
    <3>1. IsAccounts(f[k]) /\ AllMoved(f[k], d, f[0])
      BY <2>1, <2>7
    <3>2. f[k + 1] = Pay(f[k], a, c, -1)
      BY <2>2, <2>7 DEF Paying, a, c
    <3>3. IsAccounts(f[k + 1]) /\ AllMoved(f[k + 1], e, f[k])
      BY <2>3, <3>1, <3>2, PaysMove DEF e
    <3>4. AllMoved(f[k + 1], Together(e, d), f[0])
      BY <2>4, <2>7, <3>1, <3>3, MovedTogether
    <3> QED BY <2>5, <3>3, <3>4
  <2>8. Good(g, k + 1)
    <3> HIDE DEF g
    <3> QED BY <2>6, <2>7
  <2> HIDE DEF Good, g
  <2> QED BY <2>5, <2>8
<1>4. m \in T
  <2> HIDE DEF T
  <2> QED BY <1>1, <1>2, <1>3, SetInduction
<1>5. PICK d \in [AccountIds -> Moves] : Good(d, m)
  <2> HIDE DEF Good, m
  <2> QED BY <1>1, <1>4
<1>6. ASSUME NEW acc, IsAccounts(acc)
      PROVE  /\ IsAccounts(ApplyRound(acc, class, round, 1))
             /\ AllMoved(acc, d, ApplyRound(acc, class, round, 1))
             /\ IsAccounts(ApplyRound(acc, class, round, -1))
             /\ AllMoved(ApplyRound(acc, class, round, -1), d, acc)
  <2>1. PICK f : f[0] = acc /\ Paying(f, class, round, 1) /\ ApplyRound(acc, class, round, 1) = f[m]
    BY <1>6, ApplyRoundIs
  <2>2. PICK f2 : f2[0] = acc /\ Paying(f2, class, round, -1) /\ ApplyRound(acc, class, round, -1) = f2[m]
    BY <1>6, ApplyRoundIs
  <2> HIDE DEF m
  <2> QED BY <1>5, <1>6, <2>1, <2>2
<1> QED BY <1>6

-----------------------------------------------------------------------------
(* The blocks.                                                              *)
IsList(s) == Len(s) \in Nat /\ s = [i \in 1..Len(s) |-> s[i]]
IsBlock(b) == b.fee \in Int /\ b.reward \in Int /\ Few(b.txs)
IsChain(bs) == IsList(bs) /\ \A i \in 1..Len(bs) : IsBlock(bs[i])
Prefix(bs, h) == [i \in 1..h |-> bs[i]]

LEMMA ListIsSequence ==
  ASSUME NEW s, IsList(s)
  PROVE  s \in Seq({s[i] : i \in 1..Len(s)})
<1> DEFINE S == {s[i] : i \in 1..Len(s)}
<1>1. Len(s) \in Nat /\ s = [i \in 1..Len(s) |-> s[i]]
  BY DEF IsList
<1>2. s \in [1..Len(s) -> S]
  BY <1>1
<1> QED BY <1>1, <1>2

LEMMA SequenceIsList ==
  ASSUME NEW S, NEW s \in Seq(S)
  PROVE  IsList(s)
<1>1. Len(s) \in Nat /\ s \in [1..Len(s) -> S]
  OBVIOUS
<1> QED BY <1>1 DEF IsList

LEMMA AppendToList ==
  ASSUME NEW s, IsList(s), NEW x
  PROVE  /\ IsList(Append(s, x)) /\ Len(Append(s, x)) = Len(s) + 1
         /\ Append(s, x)[Len(s) + 1] = x
         /\ \A i \in 1..Len(s) : Append(s, x)[i] = s[i]
         /\ Front(Append(s, x)) = s /\ Last(Append(s, x)) = x
<1> DEFINE S == {s[i] : i \in 1..Len(s)} \cup {x}
           new == Append(s, x)
<1>1. s \in Seq({s[i] : i \in 1..Len(s)})
  BY ListIsSequence
<1>2. s \in Seq(S) /\ x \in S /\ Len(s) \in Nat
  <2>1. \A U, V : U \subseteq V => Seq(U) \subseteq Seq(V)
    OBVIOUS
  <2> QED BY <1>1, <2>1 DEF IsList
<1> HIDE DEF S
<1>3. /\ Len(new) = Len(s) + 1 /\ new \in Seq(S)
      /\ new[Len(s) + 1] = x /\ \A i \in 1..Len(s) : new[i] = s[i]
  BY <1>2
<1>4. IsList(new)
  <2> HIDE DEF new
  <2> QED BY <1>3, SequenceIsList
<1>6. Front(new) = s
  <2>1. Front(new) = SubSeq(new, 1, Len(s))
    BY <1>2, <1>3 DEF Front
  <2>2. SubSeq(new, 1, Len(s)) = [i \in 1..Len(s) |-> new[i]]
    <3> HIDE DEF new
    <3>1. 1 \in Nat /\ 1..Len(s) \subseteq 1..Len(new)
      BY <1>2, <1>3
    <3> QED BY <1>2, <1>3, <3>1
  <2>3. s = [i \in 1..Len(s) |-> s[i]]
    BY DEF IsList
  <2> HIDE DEF new
  <2> QED BY <1>3, <2>1, <2>2, <2>3
<1>7. Last(new) = x
  BY <1>3 DEF Last
<1> QED BY <1>3, <1>4, <1>6, <1>7

(* All but the last one.                                                    *)
LEMMA FrontOfList ==
  ASSUME NEW s, IsList(s), Len(s) > 0
  PROVE  /\ IsList(Front(s)) /\ Len(Front(s)) = Len(s) - 1 /\ Last(s) = s[Len(s)]
         /\ \A i \in 1..(Len(s) - 1) : Front(s)[i] = s[i]
         /\ Front(s) = Prefix(s, Len(s) - 1) /\ Append(Front(s), s[Len(s)]) = s
<1> DEFINE S == {s[i] : i \in 1..Len(s)}
           m == Len(s) - 1
           f == Front(s)
<1>1. s \in Seq(S) /\ Len(s) \in Nat /\ m \in Nat /\ s = [i \in 1..Len(s) |-> s[i]]
  BY ListIsSequence DEF IsList
<1> HIDE DEF S
<1>2. f = SubSeq(s, 1, m)
  BY DEF Front
<1>3. SubSeq(s, 1, m) \in Seq(S) /\ Len(SubSeq(s, 1, m)) = m
      /\ \A i \in 1..m : SubSeq(s, 1, m)[i] = s[i]
  <2>1. 1 \in Nat /\ 1..m \subseteq 1..Len(s)
    BY <1>1
  <2> QED BY <1>1, <2>1
<1> HIDE DEF f
<1>4. IsList(f) /\ Len(f) = m /\ \A i \in 1..m : f[i] = s[i]
  BY <1>2, <1>3, SequenceIsList
<1>5. f = Prefix(s, m)
  <2>1. f = [i \in 1..m |-> f[i]]
    BY <1>4 DEF IsList
  <2> QED BY <1>4, <2>1 DEF Prefix
<1>6. Append(f, s[Len(s)]) = s
  <2> DEFINE new == Append(f, s[Len(s)])
  <2>1. /\ IsList(new) /\ Len(new) = m + 1 /\ new[m + 1] = s[Len(s)]
        /\ \A i \in 1..m : new[i] = f[i]
    BY <1>4, AppendToList
  <2>2. new = [i \in 1..Len(s) |-> new[i]]
    <3> HIDE DEF new
    <3> QED BY <1>1, <2>1 DEF IsList
  <2> HIDE DEF new
  <2>3. ASSUME NEW i \in 1..Len(s) PROVE new[i] = s[i]
    <3>1. i \in 1..m \/ i = Len(s)
      BY <1>1
    <3>2. m + 1 = Len(s)
      BY <1>1
    <3> HIDE DEF m
    <3> QED BY <1>4, <2>1, <3>1, <3>2
  <2>4. new = s
    BY <1>1, <2>2, <2>3
  <2> QED BY <2>4 DEF new
<1>7. Last(s) = s[Len(s)]
  BY DEF Last
<1> QED BY <1>4, <1>5, <1>6, <1>7 DEF f

LEMMA AppendToChain ==
  ASSUME NEW bs, IsChain(bs), NEW b, IsBlock(b)
  PROVE  /\ IsChain(Append(bs, b)) /\ Len(Append(bs, b)) = Len(bs) + 1
         /\ Front(Append(bs, b)) = bs /\ Last(Append(bs, b)) = b
<1> DEFINE new == Append(bs, b)
<1>1. Len(bs) \in Nat /\ \A i \in 1..Len(bs) : IsBlock(bs[i])
  BY DEF IsChain, IsList
<1>2. /\ IsList(new) /\ Len(new) = Len(bs) + 1 /\ new[Len(bs) + 1] = b
      /\ \A i \in 1..Len(bs) : new[i] = bs[i]
  BY AppendToList DEF IsChain
<1> HIDE DEF new
<1>3. \A i \in 1..Len(new) : i \in 1..Len(bs) \/ i = Len(bs) + 1
  BY <1>1, <1>2
<1>4. IsChain(new)
  BY <1>1, <1>2, <1>3 DEF IsChain
<1>5. Front(new) = bs /\ Last(new) = b
  BY AppendToList DEF IsChain, new
<1> QED BY <1>2, <1>4, <1>5 DEF new

(* The rounds of the delegates.                                             *)
LEMMA ADPositive == ActiveDelegates \in Nat /\ ActiveDelegates > 0 /\ FeesSwitchHeight \in Int
BY RoundsAssumption

LEMMA Quotient ==
  ASSUME NEW a \in Nat, NEW d \in Nat, d > 0, NEW q \in Nat, NEW r \in Nat, a = q * d + r, r < d
  PROVE  a \div d = q
OBVIOUS

LEMMA RoundIsPositive ==
  ASSUME NEW h \in Nat, h > 0
  PROVE  CalcRound(h) \in Nat /\ CalcRound(h) > 0 /\ FirstInRound(CalcRound(h)) \in Nat
         /\ FirstInRound(CalcRound(h)) > 0
<1>1. ActiveDelegates \in Nat /\ ActiveDelegates > 0
  BY ADPositive
<1> DEFINE a == h + ActiveDelegates - 1
           r == a \div ActiveDelegates
<1>2. a \in Nat /\ a >= ActiveDelegates
  BY <1>1
<1>3. r \in Int /\ r >= 1
  BY <1>1, <1>2
<1>4. CalcRound(h) = r
  BY DEF CalcRound
<1> HIDE DEF r
<1>5. (r - 1) * ActiveDelegates \in Nat
  BY <1>1, <1>3
<1> QED BY <1>3, <1>4, <1>5 DEF FirstInRound

(* The class of round changes is not switched with a block that ends a round. *)
LEMMA NoSwitchAtTheEnd ==
  ASSUME NEW h \in Nat, h > 1, h = FeesSwitchHeight
  PROVE  ~FinishRound(h)
<1> DEFINE d == ActiveDelegates
           q == h \div d
           r == h % d
<1>1. d \in Nat /\ d > 0 /\ r # 0
  BY RoundsAssumption
<1>2. q \in Nat /\ r \in Nat /\ r < d /\ h = q * d + r
  BY <1>1
<1> HIDE DEF d, q, r
<1>3. (q + 1) * d = q * d + d
  BY <1>1, <1>2
<1>4. (h + d - 1) \div d = q + 1
  <2>1. r - 1 \in Nat /\ r - 1 < d /\ q + 1 \in Nat /\ h + d - 1 \in Nat
    BY <1>1, <1>2
  <2>2. q * d \in Nat /\ (q + 1) * d \in Nat
    BY <1>1, <1>2
  <2>3. h + d - 1 = (q + 1) * d + (r - 1)
    BY <1>1, <1>2, <1>3, <2>2
  <2> QED BY <1>1, <2>1, <2>3, Quotient
<1>5. (h + 1 + d - 1) \div d = q + 1
  <2>1. q + 1 \in Nat /\ h + 1 + d - 1 \in Nat
    BY <1>1, <1>2
  <2>2. q * d \in Nat /\ (q + 1) * d \in Nat
    BY <1>1, <1>2
  <2>3. h + 1 + d - 1 = (q + 1) * d + r
    BY <1>1, <1>2, <1>3, <2>2
  <2> QED BY <1>1, <1>2, <2>1, <2>3, Quotient
<1> QED BY <1>4, <1>5 DEF FinishRound, CalcRound, d

LEMMA RoundOfBlocks ==
  ASSUME NEW bs, IsChain(bs), Len(bs) > 0
  PROVE  IsRound(RoundBlocks(bs, Len(bs)))
<1> DEFINE h == Len(bs)
           S == {bs[i] : i \in 1..Len(bs)}
<1>1. h \in Nat /\ h > 0
  BY DEF IsChain, IsList
<1>2. bs \in Seq(S)
  BY ListIsSequence DEF IsChain
<1>3. \A x \in S : x.fee \in Int /\ x.reward \in Int
  BY DEF IsChain, IsBlock
<1> HIDE DEF S
<1>4. \A s \in Seq(S) : IsRound(s)
  <2> TAKE s \in Seq(S)
  <2>1. Len(s) \in Nat /\ \A i \in 1..Len(s) : s[i] \in S
    OBVIOUS
  <2> QED BY <1>3, <2>1 DEF IsRound
<1>5. CASE h = 1
  <2>1. bs[1] \in S
    BY <1>1, <1>2
  <2>2. <<bs[1]>> \in Seq(S)
    BY <2>1
  <2> QED BY <1>4, <1>5, <2>2 DEF RoundBlocks
<1>6. CASE h # 1
  <2> DEFINE from == FirstInRound(CalcRound(h))
  <2>1. from \in Nat /\ from > 0
    BY <1>1, RoundIsPositive
  <2> HIDE DEF from
  <2>2. SubSeq(bs, from, h) \in Seq(S)
    BY <1>1, <1>2, <2>1
  <2>3. RoundBlocks(bs, h) = SubSeq(bs, from, h)
    BY <1>6 DEF RoundBlocks, from
  <2> QED BY <1>4, <2>2, <2>3
<1> QED BY <1>5, <1>6

(* The end of a round, applied and undone, of any node with these accounts. *)
IsNode(n) ==
  \E a, b, s, t, c, x :
    n = [accounts |-> a, blocks |-> b, snapshot |-> s, table |-> t, cache |-> c, changes |-> x]
(* A node that is at the end of the chain bs.                               *)
Sound(n, bs) ==
  /\ IsNode(n) /\ n.blocks = bs /\ n.changes = SwitchDposFees(Len(bs)) /\ IsAccounts(n.accounts)

LEMMA TicksMove ==
  ASSUME NEW bs, IsChain(bs), Len(bs) > 0, NEW class
  PROVE  \E d \in [AccountIds -> Moves] : \A n : IsNode(n) /\ IsAccounts(n.accounts) =>
           /\ n.changes = class =>
                /\ IsNode(Tick(n, bs)) /\ Tick(n, bs).blocks = n.blocks
                /\ Tick(n, bs).changes = n.changes
                /\ IsAccounts(Tick(n, bs).accounts) /\ AllMoved(n.accounts, d, Tick(n, bs).accounts)
           /\ n.changes = class \/ ~FinishRound(Len(bs)) =>
                /\ IsNode(BackwardTick(n, bs)) /\ BackwardTick(n, bs).blocks = n.blocks
                /\ BackwardTick(n, bs).changes = n.changes
                /\ IsAccounts(BackwardTick(n, bs).accounts)
                /\ AllMoved(BackwardTick(n, bs).accounts, d, n.accounts)
<1> DEFINE h == Len(bs)
           round == RoundBlocks(bs, h)
<1>1. IsRound(round)
  BY RoundOfBlocks
<1>2. PICK d \in [AccountIds -> Moves] : \A acc : IsAccounts(acc) =>
           /\ IsAccounts(ApplyRound(acc, class, round, 1))
           /\ AllMoved(acc, d, ApplyRound(acc, class, round, 1))
           /\ IsAccounts(ApplyRound(acc, class, round, -1))
           /\ AllMoved(ApplyRound(acc, class, round, -1), d, acc)
  <2> HIDE DEF round
  <2> QED BY <1>1, RoundMoves
<1> HIDE DEF round
<1>3. CASE ~FinishRound(h)
  <2>1. ASSUME NEW n, IsNode(n), IsAccounts(n.accounts)
        PROVE  Tick(n, bs) = n /\ BackwardTick(n, bs) = n /\ AllMoved(n.accounts, Still, n.accounts)
    <3>1. Tick(n, bs) = n /\ BackwardTick(n, bs) = n
      BY <1>3 DEF Tick, BackwardTick
    <3>2. AllMoved(n.accounts, Still, n.accounts)
      BY <2>1, NoneMoved DEF SameMoney
    <3> QED BY <3>1, <3>2
  <2> QED BY <2>1, StillType
<1>4. CASE FinishRound(h)
  <2>1. ASSUME NEW n, IsNode(n), IsAccounts(n.accounts), n.changes = class
        PROVE  /\ IsNode(Tick(n, bs)) /\ Tick(n, bs).blocks = n.blocks
               /\ Tick(n, bs).changes = n.changes
               /\ IsAccounts(Tick(n, bs).accounts) /\ AllMoved(n.accounts, d, Tick(n, bs).accounts)
    <3> DEFINE out == Outsiders(DelegateList(n, h), round)
               missed == UpdateMissedBlocks(n.accounts, out, h, 1)
               paid == ApplyRound(missed, n.changes, round, 1)
               new == ReCalcVotes(paid)
               m == Tick(n, bs)
    <3>1. m = [n EXCEPT !.accounts = new, !.snapshot = PerformVotesSnapshot(paid)]
      BY <1>4 DEF Tick, round
    <3> HIDE DEF out
    <3>2. IsAccounts(missed) /\ \A b \in AccountIds : SameMoney(n.accounts[b], missed[b])
      BY <2>1, MissedMoveNothing
    <3> HIDE DEF missed
    <3>3. IsAccounts(paid) /\ AllMoved(missed, d, paid)
      BY <1>2, <2>1, <3>2
    <3> HIDE DEF paid
    <3>4. IsAccounts(new) /\ \A b \in AccountIds : SameMoney(paid[b], new[b])
      BY <3>3, ReCalcMovesNothing
    <3> HIDE DEF new, m
    <3>5. AllMoved(n.accounts, d, new)
      BY <3>2, <3>3, <3>4 DEF AllMoved, Moved, SameMoney
    <3>6. m = [accounts |-> new, blocks |-> n.blocks, snapshot |-> PerformVotesSnapshot(paid),
               table |-> n.table, cache |-> n.cache, changes |-> n.changes]
      BY <2>1, <3>1 DEF IsNode
    <3>7. IsNode(m) /\ m.blocks = n.blocks /\ m.changes = n.changes /\ m.accounts = new
      BY <3>6 DEF IsNode
    <3> QED BY <3>4, <3>5, <3>7 DEF m
  <2>2. ASSUME NEW n, IsNode(n), IsAccounts(n.accounts), n.changes = class
        PROVE  /\ IsNode(BackwardTick(n, bs)) /\ BackwardTick(n, bs).blocks = n.blocks
               /\ BackwardTick(n, bs).changes = n.changes
               /\ IsAccounts(BackwardTick(n, bs).accounts)
               /\ AllMoved(BackwardTick(n, bs).accounts, d, n.accounts)
    <3> DEFINE out == Outsiders(DelegateList(n, h), round)
               missed == UpdateMissedBlocks(n.accounts, out, h, -1)
               paid == ApplyRound(missed, n.changes, round, -1)
               new == RestoreVotesSnapshot(paid, n.snapshot)
               m == BackwardTick(n, bs)
    <3>1. m = [n EXCEPT !.accounts = new]
      BY <1>4 DEF BackwardTick, round
    <3> HIDE DEF out
    <3>2. IsAccounts(missed) /\ \A b \in AccountIds : SameMoney(n.accounts[b], missed[b])
      BY <2>2, MissedMoveNothing
    <3> HIDE DEF missed
    <3>3. IsAccounts(paid) /\ AllMoved(paid, d, missed)
      BY <1>2, <2>2, <3>2
    <3> HIDE DEF paid
    <3>4. IsAccounts(new) /\ \A b \in AccountIds : SameMoney(paid[b], new[b])
      BY <3>3, SnapshotMovesNothing
    <3> HIDE DEF new, m
    <3>5. AllMoved(new, d, n.accounts)
      BY <3>2, <3>3, <3>4 DEF AllMoved, Moved, SameMoney
    <3>6. m = [accounts |-> new, blocks |-> n.blocks, snapshot |-> n.snapshot,
               table |-> n.table, cache |-> n.cache, changes |-> n.changes]
      BY <2>2, <3>1 DEF IsNode
    <3>7. IsNode(m) /\ m.blocks = n.blocks /\ m.changes = n.changes /\ m.accounts = new
      BY <3>6 DEF IsNode
    <3> QED BY <3>4, <3>5, <3>7 DEF m
  <2> QED BY <1>4, <2>1, <2>2
<1> QED BY <1>3, <1>4

(* The lists of delegates are no part of the accounts.                      *)
LEMMA ListsExcept ==
  ASSUME NEW n, IsNode(n), NEW t, NEW c
  PROVE  LET m == [accounts |-> n.accounts, blocks |-> n.blocks, snapshot |-> n.snapshot,
                   table |-> t, cache |-> c, changes |-> n.changes]
         IN [n EXCEPT !.table = t, !.cache = c] = m /\ [n EXCEPT !.cache = c, !.table = t] = m
<1> DEFINE m == [accounts |-> n.accounts, blocks |-> n.blocks, snapshot |-> n.snapshot,
                 table |-> t, cache |-> c, changes |-> n.changes]
<1>1. PICK a, b, s, u, d, x :
        n = [accounts |-> a, blocks |-> b, snapshot |-> s, table |-> u, cache |-> d, changes |-> x]
  BY DEF IsNode
<1>2. n.accounts = a /\ n.blocks = b /\ n.snapshot = s /\ n.changes = x
  BY <1>1
<1> DEFINE m1 == [n EXCEPT !.table = t]
           m2 == [n EXCEPT !.cache = c]
<1>3. m1 =
        [accounts |-> a, blocks |-> b, snapshot |-> s, table |-> t, cache |-> d, changes |-> x]
  BY <1>1
<1>4. m2 =
        [accounts |-> a, blocks |-> b, snapshot |-> s, table |-> u, cache |-> c, changes |-> x]
  BY <1>1
<1> HIDE DEF m1, m2
<1>5. [m1 EXCEPT !.cache = c] = m
  BY <1>2, <1>3
<1>6. [m2 EXCEPT !.table = t] = m
  BY <1>2, <1>4
<1>7. [n EXCEPT !.table = t, !.cache = c] = m
  BY <1>5 DEF m1
<1>8. [n EXCEPT !.cache = c, !.table = t] = m
  BY <1>6 DEF m2
<1> QED BY <1>7, <1>8

LEMMA ListsMoveNothing ==
  ASSUME NEW n, IsNode(n), NEW h
  PROVE  /\ IsNode(SaveList(n, h)) /\ SaveList(n, h).blocks = n.blocks
         /\ SaveList(n, h).changes = n.changes /\ SaveList(n, h).accounts = n.accounts
         /\ IsNode(DropLists(n, h)) /\ DropLists(n, h).blocks = n.blocks
         /\ DropLists(n, h).changes = n.changes /\ DropLists(n, h).accounts = n.accounts
<1>1. ASSUME NEW t, NEW c
      PROVE  LET m == [n EXCEPT !.table = t, !.cache = c]
             IN IsNode(m) /\ m.blocks = n.blocks /\ m.changes = n.changes /\ m.accounts = n.accounts
  <2> DEFINE m == [n EXCEPT !.table = t, !.cache = c]
  <2>1. m = [accounts |-> n.accounts, blocks |-> n.blocks, snapshot |-> n.snapshot,
             table |-> t, cache |-> c, changes |-> n.changes]
    BY ListsExcept
  <2> HIDE DEF m
  <2>2. IsNode(m) /\ m.blocks = n.blocks /\ m.changes = n.changes /\ m.accounts = n.accounts
    BY <2>1 DEF IsNode
  <2> QED BY <2>2 DEF m
<1>2. \/ SaveList(n, h) = n
      \/ \E t, c : SaveList(n, h) = [n EXCEPT !.table = t, !.cache = c]
  <2> DEFINE r == CalcRound(h)
             t == Put(n.table, r, n.cache[r])
             c == Drop(n.cache, {r - 10})
  <2>1. SaveList(n, h) = n \/ SaveList(n, h) = [n EXCEPT !.table = t, !.cache = c]
    BY DEF SaveList
  <2> HIDE DEF t, c
  <2> QED BY <2>1
<1>3. \/ DropLists(n, h) = n
      \/ \E t, c : DropLists(n, h) = [n EXCEPT !.table = t, !.cache = c]
  <2> DEFINE r == CalcRound(h)
             c == Put(Drop(n.cache, {r + 1}), r,
                      IF r \in DOMAIN n.cache THEN n.cache[r] ELSE n.table[r])
             t == Drop(n.table, {i \in DOMAIN n.table : i >= r + 1})
  <2>1. DropLists(n, h) = n \/ DropLists(n, h) = [n EXCEPT !.cache = c, !.table = t]
    BY DEF DropLists
  <2> HIDE DEF t, c
  <2>2. [n EXCEPT !.cache = c, !.table = t] = [n EXCEPT !.table = t, !.cache = c]
    BY ListsExcept
  <2> QED BY <2>1, <2>2
<1>4. IsNode(SaveList(n, h)) /\ SaveList(n, h).blocks = n.blocks
         /\ SaveList(n, h).changes = n.changes /\ SaveList(n, h).accounts = n.accounts
  <2> DEFINE s == SaveList(n, h)
  <2>1. s = n \/ \E t, c : s = [n EXCEPT !.table = t, !.cache = c]
    BY <1>2
  <2> HIDE DEF s
  <2>2. IsNode(s) /\ s.blocks = n.blocks /\ s.changes = n.changes /\ s.accounts = n.accounts
    <3>1. CASE s = n
      BY <3>1
    <3>2. CASE s # n
      <4>1. PICK t, c : s = [n EXCEPT !.table = t, !.cache = c]
        BY <2>1, <3>2
      <4> QED BY <1>1, <4>1
    <3> QED BY <3>1, <3>2
  <2> QED BY <2>2 DEF s
<1>5. IsNode(DropLists(n, h)) /\ DropLists(n, h).blocks = n.blocks
         /\ DropLists(n, h).changes = n.changes /\ DropLists(n, h).accounts = n.accounts
  <2> DEFINE s == DropLists(n, h)
  <2>1. s = n \/ \E t, c : s = [n EXCEPT !.table = t, !.cache = c]
    BY <1>3
  <2> HIDE DEF s
  <2>2. IsNode(s) /\ s.blocks = n.blocks /\ s.changes = n.changes /\ s.accounts = n.accounts
    <3>1. CASE s = n
      BY <3>1
    <3>2. CASE s # n
      <4>1. PICK t, c : s = [n EXCEPT !.table = t, !.cache = c]
        BY <2>1, <3>2
      <4> QED BY <1>1, <4>1
    <3> QED BY <3>1, <3>2
  <2> QED BY <2>2 DEF s
<1> QED BY <1>4, <1>5

(* What a block moves when it is applied is moved back when it is popped.   *)
BlockMoves(bs, b, d) ==
  /\ \A n : Sound(n, bs) =>
       /\ Sound(ApplyBlock(n, b), Append(bs, b))
       /\ AllMoved(n.accounts, d, ApplyBlock(n, b).accounts)
  /\ \A n : Sound(n, Append(bs, b)) =>
       Sound(PopBlock(n), bs) /\ AllMoved(PopBlock(n).accounts, d, n.accounts)

LEMMA ABlockMoves ==
  ASSUME NEW bs, IsChain(bs), Len(bs) > 0, NEW b, IsBlock(b)
  PROVE  \E d \in [AccountIds -> Moves] : BlockMoves(bs, b, d)
<1> DEFINE new == Append(bs, b)
           h == Len(bs) + 1
           class == SwitchDposFees(Len(bs))
<1>1. /\ IsChain(new) /\ Len(new) = h /\ Front(new) = bs /\ Last(new) = b
      /\ Len(bs) \in Nat /\ h \in Nat /\ h > 1 /\ h - 1 = Len(bs)
  <2>1. Len(bs) \in Nat
    BY DEF IsChain, IsList
  <2> QED BY <2>1, AppendToChain
<1> HIDE DEF new
<1>2. PICK dt \in [AccountIds -> Moves] : \A acc, cs : IsAccounts(acc) =>
           /\ IsAccounts(ApplyTxs(acc, b.txs)) /\ AllMoved(acc, dt, ApplyTxs(acc, b.txs))
           /\ IsAccounts(UndoTxs(acc, b.txs, cs)) /\ AllMoved(UndoTxs(acc, b.txs, cs), dt, acc)
  <2>1. Few(b.txs)
    BY DEF IsBlock
  <2> QED BY <2>1, TxsMove
<1>3. PICK dr \in [AccountIds -> Moves] : \A n : IsNode(n) /\ IsAccounts(n.accounts) =>
           /\ n.changes = class =>
                /\ IsNode(Tick(n, new)) /\ Tick(n, new).blocks = n.blocks
                /\ Tick(n, new).changes = n.changes
                /\ IsAccounts(Tick(n, new).accounts) /\ AllMoved(n.accounts, dr, Tick(n, new).accounts)
           /\ n.changes = class \/ ~FinishRound(Len(new)) =>
                /\ IsNode(BackwardTick(n, new)) /\ BackwardTick(n, new).blocks = n.blocks
                /\ BackwardTick(n, new).changes = n.changes
                /\ IsAccounts(BackwardTick(n, new).accounts)
                /\ AllMoved(BackwardTick(n, new).accounts, dr, n.accounts)
  <2> HIDE DEF class
  <2>1. Len(new) > 0
    BY <1>1
  <2> QED BY <1>1, <2>1, TicksMove
<1> DEFINE d == Together(dt, dr)
<1>4. d \in [AccountIds -> Moves] /\ d = Together(dr, dt)
  BY TogetherType, TogetherCommutes
<1>5. SwitchDposFees(h) = class \/ h = FeesSwitchHeight
  BY <1>1, ADPositive DEF SwitchDposFees
<1> HIDE DEF class
<1>6. ASSUME NEW n, Sound(n, bs)
      PROVE  /\ Sound(ApplyBlock(n, b), new)
             /\ AllMoved(n.accounts, d, ApplyBlock(n, b).accounts)
  <2> DEFINE verified == [n EXCEPT !.cache = Cached(n, h)]
             acc == ApplyTxs(n.accounts, b.txs)
             txs == [verified EXCEPT !.accounts = ApplyTxs(@, b.txs)]
             ticked == Tick(txs, new)
             saved == SaveList(ticked, h)
             c == IF h = FeesSwitchHeight THEN SwitchDposFees(h) ELSE saved.changes
             m == ApplyBlock(n, b)
  <2>1. IsNode(n) /\ n.blocks = bs /\ n.changes = class /\ IsAccounts(n.accounts)
    BY <1>6 DEF Sound, class
  <2>2. m = [saved EXCEPT !.blocks = Append(@, b), !.changes = c]
    <3>1. n.blocks = bs
      BY <2>1
    <3>2. m = [saved EXCEPT !.blocks = Append(@, b),
                            !.changes = IF h = FeesSwitchHeight THEN SwitchDposFees(h) ELSE @]
      BY <3>1 DEF ApplyBlock, new
    <3> HIDE DEF m, saved
    <3> QED BY <3>2
  <2>3. txs = [accounts |-> acc, blocks |-> bs, snapshot |-> n.snapshot, table |-> n.table,
               cache |-> Cached(n, h), changes |-> class]
    <3> DEFINE k == Cached(n, h)
    <3> DEFINE v == [n EXCEPT !.cache = k]
    <3> HIDE DEF k, acc
    <3>1. v = [accounts |-> n.accounts, blocks |-> bs, snapshot |-> n.snapshot,
                                    table |-> n.table, cache |-> k, changes |-> class]
      BY <2>1 DEF IsNode
    <3> HIDE DEF v
    <3>2. [v EXCEPT !.accounts = acc] =
            [accounts |-> acc, blocks |-> bs, snapshot |-> n.snapshot, table |-> n.table,
             cache |-> k, changes |-> class]
      BY <3>1
    <3>3. v.accounts = n.accounts
      BY <3>1
    <3>4. txs = [v EXCEPT !.accounts = acc]
      BY <3>3 DEF acc, k, v
    <3> QED BY <3>2, <3>4 DEF k
  <2>4. IsAccounts(acc) /\ AllMoved(n.accounts, dt, acc)
    BY <1>2, <2>1
  <2> HIDE DEF txs, acc
  <2>5. IsNode(txs) /\ txs.accounts = acc /\ txs.blocks = bs /\ txs.changes = class
    BY <2>3 DEF IsNode
  <2>6. /\ IsNode(ticked) /\ ticked.blocks = bs /\ ticked.changes = class
        /\ IsAccounts(ticked.accounts) /\ AllMoved(acc, dr, ticked.accounts)
    BY <1>3, <2>4, <2>5
  <2> HIDE DEF ticked
  <2>7. IsNode(saved) /\ saved.blocks = bs /\ saved.changes = class /\ saved.accounts = ticked.accounts
    BY <2>6, ListsMoveNothing
  <2> HIDE DEF saved
  <2>8. c = SwitchDposFees(h)
    BY <1>5, <2>7
  <2> HIDE DEF c, m
  <2>9. m = [accounts |-> ticked.accounts, blocks |-> new, snapshot |-> saved.snapshot,
             table |-> saved.table, cache |-> saved.cache, changes |-> c]
    <3>1. Append(saved.blocks, b) = new
      BY <2>7 DEF new
    <3>2. m = [saved EXCEPT !.blocks = new, !.changes = c]
      BY <2>2, <3>1
    <3> QED BY <2>7, <3>2 DEF IsNode
  <2>10. IsNode(m) /\ m.accounts = ticked.accounts /\ m.blocks = new /\ m.changes = c
    BY <2>9 DEF IsNode
  <2>11. Sound(m, new)
    BY <1>1, <2>6, <2>8, <2>10 DEF Sound
  <2>12. AllMoved(n.accounts, d, m.accounts)
    BY <2>1, <2>4, <2>6, <2>10, MovedTogether
  <2> QED BY <2>11, <2>12 DEF m
<1>7. ASSUME NEW n, Sound(n, new)
      PROVE  Sound(PopBlock(n), bs) /\ AllMoved(PopBlock(n).accounts, d, n.accounts)
  <2> DEFINE acc == UndoTxs(n.accounts, b.txs, bs)
             txs == [n EXCEPT !.accounts = UndoTxs(@, Last(n.blocks).txs, Front(n.blocks))]
             ticked == BackwardTick(txs, new)
             back == DropLists(ticked, h - 1)
             c == IF h = FeesSwitchHeight THEN SwitchDposFees(h - 1) ELSE back.changes
             m == PopBlock(n)
  <2>1. IsNode(n) /\ n.blocks = new /\ n.changes = SwitchDposFees(h) /\ IsAccounts(n.accounts)
    BY <1>1, <1>7 DEF Sound
  <2>2. m = [back EXCEPT !.blocks = Front(@), !.changes = c]
    <3>1. m = [back EXCEPT !.blocks = Front(@),
                           !.changes = IF h = FeesSwitchHeight THEN SwitchDposFees(h - 1) ELSE @]
      BY <1>1, <2>1 DEF PopBlock
    <3> HIDE DEF m, back
    <3> QED BY <3>1
  <2>3. txs = [accounts |-> acc, blocks |-> new, snapshot |-> n.snapshot, table |-> n.table,
               cache |-> n.cache, changes |-> SwitchDposFees(h)]
    <3> DEFINE u == UndoTxs(n.accounts, Last(n.blocks).txs, Front(n.blocks))
    <3>1. u = acc
      BY <1>1, <2>1
    <3>2. txs = [n EXCEPT !.accounts = u]
      OBVIOUS
    <3> HIDE DEF u, acc, txs
    <3> QED BY <2>1, <3>1, <3>2 DEF IsNode
  <2>4. IsAccounts(acc) /\ AllMoved(acc, dt, n.accounts)
    BY <1>2, <2>1
  <2> HIDE DEF txs, acc
  <2>5. IsNode(txs) /\ txs.accounts = acc /\ txs.blocks = new /\ txs.changes = SwitchDposFees(h)
    BY <2>3 DEF IsNode
  <2>6. txs.changes = class \/ ~FinishRound(Len(new))
    BY <1>1, <1>5, <2>5, NoSwitchAtTheEnd
  <2>7. /\ IsNode(ticked) /\ ticked.blocks = new /\ ticked.changes = SwitchDposFees(h)
        /\ IsAccounts(ticked.accounts) /\ AllMoved(ticked.accounts, dr, acc)
    BY <1>3, <2>4, <2>5, <2>6
  <2> HIDE DEF ticked
  <2>8. /\ IsNode(back) /\ back.blocks = new /\ back.changes = SwitchDposFees(h)
        /\ back.accounts = ticked.accounts
    BY <2>7, ListsMoveNothing
  <2> HIDE DEF back
  <2>9. c = class
    BY <1>1, <1>5, <2>8 DEF class
  <2> HIDE DEF c, m
  <2>10. m = [accounts |-> ticked.accounts, blocks |-> bs, snapshot |-> back.snapshot,
              table |-> back.table, cache |-> back.cache, changes |-> c]
    <3>1. Front(back.blocks) = bs
      BY <1>1, <2>8
    <3>2. m = [back EXCEPT !.blocks = bs, !.changes = c]
      BY <2>2, <3>1
    <3> QED BY <2>8, <3>2 DEF IsNode
  <2>11. IsNode(m) /\ m.accounts = ticked.accounts /\ m.blocks = bs /\ m.changes = c
    BY <2>10 DEF IsNode
  <2>12. Sound(m, bs)
    BY <2>7, <2>9, <2>11 DEF Sound, class
  <2>13. AllMoved(m.accounts, d, n.accounts)
    BY <1>4, <2>1, <2>4, <2>7, <2>11, MovedTogether
  <2> QED BY <2>12, <2>13 DEF m
<1> HIDE DEF d
<1>8. BlockMoves(bs, b, d)
  BY <1>6, <1>7 DEF BlockMoves, new
<1> QED BY <1>4, <1>8

-----------------------------------------------------------------------------
(* The inductive invariant: the node and its history are at the end of the  *)
(* same chain, step by step, with the same money.                           *)
SameMoneyAs(acc, new) == \A a \in AccountIds : SameMoney(acc[a], new[a])
HistoryInv ==
  /\ IsChain(blocks) /\ Len(blocks) > 0
  /\ Sound(node, blocks)
  /\ IsList(replay) /\ Len(replay) = Len(blocks) /\ replay[1] = AfterGenesis
  /\ \A h \in 1..Len(blocks) : Sound(replay[h], Prefix(blocks, h))
  /\ \A h \in 2..Len(blocks) : replay[h] = ApplyBlock(replay[h - 1], blocks[h])
  /\ SameMoneyAs(accounts, replay[Len(blocks)].accounts)

LEMMA HistoryImplies == HistoryInv => MoneyReplaysChain
<1> SUFFICES ASSUME HistoryInv PROVE MoneyReplaysChain
  OBVIOUS
<1>1. Last(replay) = replay[Len(blocks)]
  BY DEF HistoryInv, Last
<1>2. \A a \in AccountIds : SameMoney(accounts[a], Last(replay).accounts[a])
  BY <1>1 DEF HistoryInv, SameMoneyAs
<1> QED BY <1>2 DEF MoneyReplaysChain, Paid, SameMoney

(* A step that leaves the money and the blocks alone.                       *)
NoMoney ==
  /\ accounts' = accounts /\ blocks' = blocks /\ replay' = replay
  /\ changes' = changes \/ changes' = SwitchDposFees(Len(blocks))

LEMMA NoMoneyKeeps ==
  ASSUME HistoryInv, NoMoney
  PROVE  HistoryInv'
<1>1. changes = SwitchDposFees(Len(blocks)) /\ IsAccounts(accounts)
  BY DEF HistoryInv, Sound, node
<1>2. node' = [accounts |-> accounts, blocks |-> blocks, snapshot |-> snapshot', table |-> table',
               cache |-> cache', changes |-> SwitchDposFees(Len(blocks))]
  BY <1>1 DEF NoMoney, node
<1>3. Sound(node', blocks)
  BY <1>1, <1>2 DEF Sound, IsNode
<1>4. blocks' = blocks /\ replay' = replay /\ accounts' = accounts
  BY DEF NoMoney
<1>5. Sound(node, blocks)'
  BY <1>3, <1>4
<1> QED BY <1>4, <1>5 DEF HistoryInv

LEMMA BecomeIs ==
  ASSUME NEW m, IsNode(m), Become(m)
  PROVE  node' = m /\ accounts' = m.accounts /\ blocks' = m.blocks
<1>1. PICK a, b, s, t, c, x :
        m = [accounts |-> a, blocks |-> b, snapshot |-> s, table |-> t, cache |-> c, changes |-> x]
  BY DEF IsNode
<1>2. m.accounts = a /\ m.blocks = b /\ m.snapshot = s /\ m.table = t /\ m.cache = c /\ m.changes = x
  BY <1>1
<1> QED BY <1>1, <1>2 DEF Become, node

(* Both move by the same.                                                   *)
LEMMA SameAfter ==
  ASSUME NEW x, NEW y, NEW x2, NEW y2, NEW d, SameMoneyAs(x, y), AllMoved(x, d, x2), AllMoved(y, d, y2)
  PROVE  SameMoneyAs(x2, y2)
BY DEF SameMoneyAs, SameMoney, AllMoved, Moved

LEMMA SameBefore ==
  ASSUME NEW x, NEW y, NEW x2, NEW y2, NEW d \in [AccountIds -> Moves], IsAccounts(x2), IsAccounts(y2),
         SameMoneyAs(x, y), AllMoved(x2, d, x), AllMoved(y2, d, y)
  PROVE  SameMoneyAs(x2, y2)
<1> SUFFICES ASSUME NEW a \in AccountIds PROVE SameMoney(x2[a], y2[a])
  BY DEF SameMoneyAs
<1>1. SameMoney(x[a], y[a]) /\ Moved(x2[a], d[a], x[a]) /\ Moved(y2[a], d[a], y[a])
  BY DEF SameMoneyAs, AllMoved
<1>2. d[a].balance \in Int /\ d[a].fees \in Int /\ d[a].rewards \in Int /\ d[a].produced \in Int
  BY DEF Moves
<1>3. /\ x2[a].balance \in Int /\ x2[a].fees \in Int /\ x2[a].rewards \in Int /\ x2[a].produced \in Int
      /\ y2[a].balance \in Int /\ y2[a].fees \in Int /\ y2[a].rewards \in Int /\ y2[a].produced \in Int
  BY MoneyOf
<1>4. x2[a].balance = y2[a].balance
  <2> DEFINE u == x2[a].balance
             v == y2[a].balance
             w == d[a].balance
  <2>1. u \in Int /\ v \in Int /\ w \in Int
    BY <1>2, <1>3
  <2>2. u + w = v + w
    BY <1>1 DEF SameMoney, Moved
  <2> HIDE DEF u, v, w
  <2>3. u = v
    BY <2>1, <2>2
  <2> QED BY <2>3 DEF u, v
<1>5. x2[a].fees = y2[a].fees
  <2> DEFINE u == x2[a].fees
             v == y2[a].fees
             w == d[a].fees
  <2>1. u \in Int /\ v \in Int /\ w \in Int
    BY <1>2, <1>3
  <2>2. u + w = v + w
    BY <1>1 DEF SameMoney, Moved
  <2> HIDE DEF u, v, w
  <2>3. u = v
    BY <2>1, <2>2
  <2> QED BY <2>3 DEF u, v
<1>6. x2[a].rewards = y2[a].rewards
  <2> DEFINE u == x2[a].rewards
             v == y2[a].rewards
             w == d[a].rewards
  <2>1. u \in Int /\ v \in Int /\ w \in Int
    BY <1>2, <1>3
  <2>2. u + w = v + w
    BY <1>1 DEF SameMoney, Moved
  <2> HIDE DEF u, v, w
  <2>3. u = v
    BY <2>1, <2>2
  <2> QED BY <2>3 DEF u, v
<1>7. x2[a].produced = y2[a].produced
  <2> DEFINE u == x2[a].produced
             v == y2[a].produced
             w == d[a].produced
  <2>1. u \in Int /\ v \in Int /\ w \in Int
    BY <1>2, <1>3
  <2>2. u + w = v + w
    BY <1>1 DEF SameMoney, Moved
  <2> HIDE DEF u, v, w
  <2>3. u = v
    BY <2>1, <2>2
  <2> QED BY <2>3 DEF u, v
<1> QED BY <1>4, <1>5, <1>6, <1>7 DEF SameMoney

(* A set of heights has a greatest one.                                     *)
LEMMA MaxIsIn ==
  ASSUME NEW N \in Nat, NEW S, S \subseteq 1..N, S # {}
  PROVE  Max(S) \in S /\ \A y \in S : Max(S) >= y
<1> DEFINE T == {k \in Nat : \E i \in S : k = N - i}
<1>1. T # {}
  <2>1. PICK i \in S : TRUE
    OBVIOUS
  <2>2. N - i \in Nat
    OBVIOUS
  <2> QED BY <2>1, <2>2
<1>2. PICK m \in T : \A y \in T : m <= y
  <2> HIDE DEF T
  <2>1. T \in SUBSET Nat
    BY DEF T
  <2> QED BY <1>1, <2>1, LeastNat
<1>3. PICK x \in S : m = N - x
  OBVIOUS
<1>4. ASSUME NEW y \in S PROVE x >= y
  <2>1. y \in Nat /\ x \in Nat /\ N - y \in Nat
    OBVIOUS
  <2>2. N - y \in T
    BY <2>1
  <2>3. m <= N - y
    BY <1>2, <2>2
  <2> QED BY <1>3, <2>1, <2>3
<1>5. \E z \in S : \A y \in S : z >= y
  BY <1>4
<1> QED BY <1>5 DEF Max

(* Heights have a reward.                                                   *)
LEMMA RewardType ==
  ASSUME NEW h
  PROVE  CalcReward(h) \in Int
<1> DEFINE reached == {i \in DOMAIN Milestones : h >= Milestones[i].fromHeight}
           N == Len(Milestones)
<1>1. /\ Milestones \in Seq([fromHeight : Nat, reward : Nat]) /\ Milestones # <<>>
      /\ N \in Nat /\ DOMAIN Milestones = 1..N
  BY RoundsAssumption
<1>2. N > 0
  BY <1>1
<1>3. CalcMilestone(h) = IF reached = {} THEN 1 ELSE Max(reached)
  BY DEF CalcMilestone
<1>4. reached \subseteq 1..N
  BY <1>1
<1> HIDE DEF reached, N
<1>5. ASSUME reached # {} PROVE Max(reached) \in reached
  BY <1>1, <1>4, <1>5, MaxIsIn
<1>6. CalcMilestone(h) \in 1..N
  <2>1. CASE reached = {}
    <3>1. CalcMilestone(h) = 1
      BY <1>3, <2>1
    <3>2. 1 \in 1..N
      BY <1>1, <1>2
    <3> QED BY <3>1, <3>2
  <2>2. CASE reached # {}
    <3>1. CalcMilestone(h) = Max(reached)
      BY <1>3, <2>2
    <3> QED BY <1>4, <1>5, <2>2, <3>1
  <2> QED BY <2>1, <2>2
<1>7. Milestones[CalcMilestone(h)] \in [fromHeight : Nat, reward : Nat]
  <2>1. CalcMilestone(h) \in 1..Len(Milestones)
    BY <1>6 DEF N
  <2>2. \A S : \A q \in Seq(S) : \A j \in 1..Len(q) : q[j] \in S
    OBVIOUS
  <2> QED BY <1>1, <2>1, <2>2
<1> QED BY <1>7 DEF CalcReward

(* A block is applied to the node and to the end of its history.            *)
Extends(b, d) ==
  LET last == replay[Len(blocks)]
      r == ApplyBlock(last, b)
  IN /\ IsBlock(b) /\ d \in [AccountIds -> Moves]
     /\ node' = ApplyBlock(node, b) /\ blocks' = Append(blocks, b) /\ replay' = Append(replay, r)
     /\ Sound(last, blocks) /\ Sound(node', blocks') /\ Sound(r, blocks')
     /\ AllMoved(accounts, d, accounts') /\ AllMoved(last.accounts, d, r.accounts)

LEMMA ForgeIs ==
  ASSUME HistoryInv, NEW skip, NEW txs \in {{}} \cup {{t} : t \in Txs}, Forge(skip, txs)
  PROVE  \E b, d : Extends(b, d)
<1> DEFINE h == Len(blocks) + 1
           slot == Last(blocks).slot + skip
           list == DelegateList(node, h)
           i == (slot % ActiveDelegates) + 1
           b == [slot |-> slot, generator |-> list[i], txs |-> txs, fee |-> TotalFee(txs),
                 reward |-> CalcReward(h)]
           last == replay[Len(blocks)]
           m == ApplyBlock(node, b)
           r == ApplyBlock(last, b)
<1>1. /\ IsChain(blocks) /\ Len(blocks) \in Nat /\ Len(blocks) > 0 /\ Sound(node, blocks)
      /\ Len(replay) = Len(blocks)
      /\ \A k \in 1..Len(blocks) : Sound(replay[k], Prefix(blocks, k))
  BY DEF HistoryInv, IsChain, IsList
<1>2. Become(m) /\ replay' = Append(replay, r)
  <2>1. Last(replay) = last
    BY <1>1 DEF Last
  <2>2. Become(m) /\ replay' = Append(replay, ApplyBlock(Last(replay), b))
    BY DEF Forge
  <2> HIDE DEF b, last, m
  <2> QED BY <2>1, <2>2
<1>3. IsBlock(b)
  <2>1. Few(txs)
    BY DEF Few
  <2>2. TotalFee(txs) \in Int /\ CalcReward(h) \in Int
    BY <2>1, BlockFee, RewardType
  <2> HIDE DEF h, slot, list, i
  <2> QED BY <2>1, <2>2 DEF IsBlock
<1> HIDE DEF b, slot, list, i
<1>4. Sound(last, blocks)
  <2>1. Prefix(blocks, Len(blocks)) = blocks
    BY <1>1 DEF Prefix, IsChain, IsList
  <2>2. Len(blocks) \in 1..Len(blocks)
    BY <1>1
  <2> QED BY <1>1, <2>1, <2>2
<1> HIDE DEF last
<1>5. PICK d \in [AccountIds -> Moves] : BlockMoves(blocks, b, d)
  BY <1>1, <1>3, ABlockMoves
<1> HIDE DEF m, r
<1>6. /\ Sound(m, Append(blocks, b)) /\ AllMoved(node.accounts, d, m.accounts)
      /\ Sound(r, Append(blocks, b)) /\ AllMoved(last.accounts, d, r.accounts)
  BY <1>1, <1>4, <1>5 DEF BlockMoves, m, r
<1>7. node' = m /\ accounts' = m.accounts /\ blocks' = Append(blocks, b)
  BY <1>2, <1>6, BecomeIs DEF Sound
<1>8. node.accounts = accounts
  BY DEF node
<1>9. Extends(b, d)
  BY <1>2, <1>3, <1>4, <1>6, <1>7, <1>8 DEF Extends, m, r, last
<1> QED BY <1>9

LEMMA ForgeKeeps ==
  ASSUME HistoryInv, NEW skip, NEW txs \in {{}} \cup {{t} : t \in Txs}, Forge(skip, txs)
  PROVE  HistoryInv'
<1> DEFINE h == Len(blocks) + 1
           last == replay[Len(blocks)]
<1>1. /\ IsChain(blocks) /\ Len(blocks) \in Nat /\ Len(blocks) > 0
      /\ IsList(replay) /\ Len(replay) = Len(blocks)
      /\ \A k \in 1..Len(blocks) : Sound(replay[k], Prefix(blocks, k))
      /\ \A k \in 2..Len(blocks) : replay[k] = ApplyBlock(replay[k - 1], blocks[k])
      /\ SameMoneyAs(accounts, replay[Len(blocks)].accounts)
  BY DEF HistoryInv, IsChain, IsList
<1>2. PICK b, d : Extends(b, d)
  BY ForgeIs
<1> DEFINE r == ApplyBlock(last, b)
<1>3. /\ IsBlock(b) /\ blocks' = Append(blocks, b) /\ replay' = Append(replay, r)
      /\ Sound(node', blocks') /\ Sound(r, blocks')
      /\ AllMoved(accounts, d, accounts') /\ AllMoved(last.accounts, d, r.accounts)
  BY <1>2 DEF Extends
<1> HIDE DEF r
<1>4. IsChain(blocks') /\ Len(blocks') = h
  BY <1>1, <1>3, AppendToChain
<1>5. /\ blocks'[h] = b /\ \A k \in 1..Len(blocks) : blocks'[k] = blocks[k]
  BY <1>1, <1>3, AppendToList DEF IsChain
<1>6. /\ IsList(replay') /\ Len(replay') = h /\ replay'[h] = r
       /\ \A k \in 1..Len(blocks) : replay'[k] = replay[k]
  BY <1>1, <1>3, AppendToList
<1>7. ASSUME NEW k \in 1..h PROVE Sound(replay'[k], Prefix(blocks', k))
  <2>1. CASE k = h
    <3>1. Prefix(blocks', h) = blocks'
      BY <1>4 DEF Prefix, IsChain, IsList
    <3> QED BY <1>3, <1>6, <2>1, <3>1
  <2>2. CASE k # h
    <3>1. k \in 1..Len(blocks) /\ 1..k \subseteq 1..Len(blocks)
      BY <1>1, <2>2
    <3>2. Prefix(blocks', k) = Prefix(blocks, k)
      BY <1>5, <3>1 DEF Prefix
    <3> QED BY <1>1, <1>6, <3>1, <3>2
  <2> QED BY <2>1, <2>2
<1>8. ASSUME NEW k \in 2..h PROVE replay'[k] = ApplyBlock(replay'[k - 1], blocks'[k])
  <2>1. CASE k = h
    <3>1. replay'[k - 1] = last
      <4>1. k - 1 = Len(blocks) /\ Len(blocks) \in 1..Len(blocks)
        BY <1>1, <2>1
      <4> QED BY <1>6, <4>1
    <3> QED BY <1>5, <1>6, <2>1, <3>1 DEF r
  <2>2. CASE k # h
    <3>1. k \in 2..Len(blocks) /\ k \in 1..Len(blocks) /\ k - 1 \in 1..Len(blocks)
      BY <1>1, <2>2
    <3> QED BY <1>1, <1>5, <1>6, <3>1
  <2> QED BY <2>1, <2>2
<1>9. SameMoneyAs(accounts', r.accounts)
  <2>1. SameMoneyAs(accounts, last.accounts)
    BY <1>1
  <2> QED BY <1>3, <2>1, SameAfter
<1>10. Len(blocks') > 0
  BY <1>1, <1>4
<1>11. replay'[1] = AfterGenesis
  <2>1. 1 \in 1..Len(blocks)
    BY <1>1
  <2> QED BY <1>6, <2>1 DEF HistoryInv
<1> HIDE DEF h
<1> QED BY <1>3, <1>4, <1>6, <1>7, <1>8, <1>9, <1>10, <1>11 DEF HistoryInv

(* The last block is popped from the node and from the history.             *)
Shrinks(b, d) ==
  LET h == Len(blocks)
      bs == Front(blocks)
      before == replay[h - 1]
  IN /\ h \in Nat /\ h > 1 /\ IsChain(bs) /\ Len(bs) = h - 1 /\ IsBlock(b)
     /\ blocks = Append(bs, b) /\ (\A i \in 1..(h - 1) : bs[i] = blocks[i])
     /\ d \in [AccountIds -> Moves]
     /\ node' = PopBlock(node) /\ blocks' = bs /\ replay' = Front(replay)
     /\ Sound(before, bs) /\ Sound(node', bs) /\ replay[h] = ApplyBlock(before, b)
     /\ AllMoved(accounts', d, accounts) /\ AllMoved(before.accounts, d, replay[h].accounts)

LEMMA PopIs ==
  ASSUME HistoryInv, PopLastBlock
  PROVE  \E b, d : Shrinks(b, d)
<1> DEFINE h == Len(blocks)
           bs == Front(blocks)
           b == blocks[h]
           before == replay[h - 1]
           m == PopBlock(node)
<1>1. /\ IsChain(blocks) /\ h \in Nat /\ h > 1 /\ Sound(node, blocks)
      /\ \A k \in 1..h : Sound(replay[k], Prefix(blocks, k))
      /\ \A k \in 2..h : replay[k] = ApplyBlock(replay[k - 1], blocks[k])
  BY DEF HistoryInv, IsChain, IsList, PopLastBlock
<1>2. Become(m) /\ replay' = Front(replay)
  BY DEF PopLastBlock
<1>3. /\ IsList(bs) /\ Len(bs) = h - 1 /\ \A i \in 1..(h - 1) : bs[i] = blocks[i]
      /\ bs = Prefix(blocks, h - 1) /\ Append(bs, b) = blocks
  BY <1>1, FrontOfList DEF IsChain
<1> HIDE DEF bs, h
<1>4. IsChain(bs) /\ IsBlock(b) /\ Len(bs) > 0
  <2>1. \A i \in 1..h : IsBlock(blocks[i])
    BY <1>1 DEF IsChain, h
  <2>2. h \in 1..h /\ \A i \in 1..(h - 1) : i \in 1..h
    BY <1>1
  <2> QED BY <1>1, <1>3, <2>1, <2>2 DEF IsChain
<1> HIDE DEF b
<1>5. Sound(before, bs) /\ replay[h] = ApplyBlock(before, b)
  <2>1. h - 1 \in 1..h /\ h \in 2..h
    BY <1>1
  <2> QED BY <1>1, <1>3, <2>1 DEF b
<1> HIDE DEF before, m
<1>6. PICK d \in [AccountIds -> Moves] : BlockMoves(bs, b, d)
  BY <1>4, ABlockMoves
<1>7. /\ AllMoved(before.accounts, d, replay[h].accounts)
      /\ Sound(m, bs) /\ AllMoved(m.accounts, d, node.accounts)
  BY <1>1, <1>3, <1>5, <1>6 DEF BlockMoves, m
<1>8. node' = m /\ accounts' = m.accounts /\ blocks' = bs
  BY <1>2, <1>7, BecomeIs DEF Sound
<1>9. node.accounts = accounts
  BY DEF node
<1>10. Shrinks(b, d)
  BY <1>1, <1>2, <1>3, <1>4, <1>5, <1>7, <1>8, <1>9 DEF Shrinks, h, bs, before, m
<1> QED BY <1>10

LEMMA PopKeeps ==
  ASSUME HistoryInv, PopLastBlock
  PROVE  HistoryInv'
<1> DEFINE h == Len(blocks)
           before == replay[h - 1]
<1>1. /\ IsList(replay) /\ Len(replay) = h
      /\ \A k \in 1..h : Sound(replay[k], Prefix(blocks, k))
      /\ \A k \in 2..h : replay[k] = ApplyBlock(replay[k - 1], blocks[k])
      /\ SameMoneyAs(accounts, replay[h].accounts)
  BY DEF HistoryInv
<1>2. PICK b, d : Shrinks(b, d)
  BY PopIs
<1>3. /\ h \in Nat /\ h > 1 /\ IsChain(blocks') /\ Len(blocks') = h - 1
      /\ \A i \in 1..(h - 1) : blocks'[i] = blocks[i]
      /\ d \in [AccountIds -> Moves] /\ replay' = Front(replay)
      /\ Sound(before, blocks') /\ Sound(node', blocks')
      /\ AllMoved(accounts', d, accounts) /\ AllMoved(before.accounts, d, replay[h].accounts)
  BY <1>2 DEF Shrinks
<1>4. /\ IsList(replay') /\ Len(replay') = h - 1 /\ \A i \in 1..(h - 1) : replay'[i] = replay[i]
  BY <1>1, <1>3, FrontOfList
<1> HIDE DEF h, before
<1>5. SameMoneyAs(accounts', before.accounts)
  <2>1. node'.accounts = accounts'
    BY DEF node
  <2>2. IsAccounts(accounts') /\ IsAccounts(before.accounts)
    BY <1>3, <2>1 DEF Sound
  <2> QED BY <1>1, <1>3, <2>2, SameBefore
<1>6. ASSUME NEW k \in 1..(h - 1) PROVE Sound(replay'[k], Prefix(blocks', k))
  <2>1. k \in 1..h /\ 1..k \subseteq 1..(h - 1)
    BY <1>3
  <2>2. Prefix(blocks', k) = Prefix(blocks, k)
    BY <1>3, <2>1 DEF Prefix
  <2> QED BY <1>1, <1>4, <2>1, <2>2
<1>7. ASSUME NEW k \in 2..(h - 1) PROVE replay'[k] = ApplyBlock(replay'[k - 1], blocks'[k])
  <2>1. k \in 2..h /\ k \in 1..(h - 1) /\ k - 1 \in 1..(h - 1)
    BY <1>3
  <2> QED BY <1>1, <1>3, <1>4, <2>1
<1>8. SameMoneyAs(accounts', replay'[h - 1].accounts)
  <2>1. h - 1 \in 1..(h - 1)
    BY <1>3
  <2> QED BY <1>4, <1>5, <2>1 DEF before
<1>9. replay'[1] = AfterGenesis
  <2>1. 1 \in 1..(h - 1)
    BY <1>3
  <2> QED BY <1>4, <2>1 DEF HistoryInv
<1>10. Len(blocks') > 0
  BY <1>3
<1> QED BY <1>3, <1>4, <1>6, <1>7, <1>8, <1>9, <1>10 DEF HistoryInv

(* The genesis block.                                                       *)
LEMMA HistoryInit == Init => HistoryInv
<1> SUFFICES ASSUME Init PROVE HistoryInv
  OBVIOUS
<1> DEFINE acc0 == [a \in AccountIds |-> GenesisAccount(a)]
           empty == [accounts |-> acc0, blocks |-> <<>>,
                     snapshot |-> <<>>, table |-> <<>>, cache |-> <<>>, changes |-> "RoundChanges"]
           ready == [empty EXCEPT !.cache = Cached(empty, 1)]
           bs == <<GenesisBlock>>
           ticked == Tick(ready, bs)
           n == AfterGenesis
<1>1. n = [ticked EXCEPT !.blocks = bs, !.changes = SwitchDposFees(1)]
  BY DEF AfterGenesis
<1>2. IsAccounts(acc0)
  <2> DEFINE K == {Genesis[a].key : a \in AccountIds}
             S == {Genesis[a].votes : a \in AccountIds}
  <2>1. ASSUME NEW a \in AccountIds PROVE GenesisAccount(a) \in Over({0}, {0}, {0}, {0}, K, S)
    <3>1. Genesis[a].key \in K /\ Genesis[a].votes \in S
      OBVIOUS
    <3>2. Genesis[a].balance \in Int
      BY RoundsAssumption
    <3> HIDE DEF K, S
    <3> QED BY <3>1, <3>2 DEF GenesisAccount, Over
  <2>2. acc0 \in [AccountIds -> Over({0}, {0}, {0}, {0}, K, S)]
    <3> HIDE DEF K, S
    <3> QED BY <2>1
  <2> HIDE DEF K, S
  <2> QED BY <2>2 DEF IsAccounts
<1> HIDE DEF acc0
<1>3. IsNode(ready) /\ ready.accounts = acc0 /\ ready.changes = "RoundChanges"
  <2> DEFINE c == Cached(empty, 1)
  <2>1. ready = [empty EXCEPT !.cache = c]
    OBVIOUS
  <2> HIDE DEF c, ready
  <2>2. ready = [accounts |-> acc0, blocks |-> <<>>,
                 snapshot |-> <<>>, table |-> <<>>, cache |-> c, changes |-> "RoundChanges"]
    BY <2>1
  <2> QED BY <2>2 DEF IsNode
<1> HIDE DEF ready, empty
<1>4. IsChain(bs) /\ Len(bs) = 1 /\ bs[1] = GenesisBlock
  <2>1. IsBlock(GenesisBlock)
    BY DEF IsBlock, GenesisBlock, Few
  <2>2. bs \in Seq({GenesisBlock}) /\ Len(bs) = 1 /\ bs[1] = GenesisBlock
    OBVIOUS
  <2>3. IsList(bs)
    <3> HIDE DEF bs
    <3> QED BY <2>2, SequenceIsList
  <2> HIDE DEF bs
  <2>4. \A i \in 1..1 : i = 1
    OBVIOUS
  <2> QED BY <2>1, <2>2, <2>3, <2>4 DEF IsChain
<1> HIDE DEF bs
<1>5. IsNode(ticked) /\ IsAccounts(ticked.accounts)
  <2>1. Len(bs) > 0
    BY <1>4
  <2>2. PICK d \in [AccountIds -> Moves] : \A q : IsNode(q) /\ IsAccounts(q.accounts) =>
           (q.changes = "RoundChanges" => IsNode(Tick(q, bs)) /\ IsAccounts(Tick(q, bs).accounts))
    BY <1>4, <2>1, TicksMove
  <2> QED BY <1>2, <1>3, <2>2
<1> HIDE DEF ticked, n
<1>6. n = [accounts |-> ticked.accounts, blocks |-> bs, snapshot |-> ticked.snapshot,
           table |-> ticked.table, cache |-> ticked.cache, changes |-> SwitchDposFees(1)]
  BY <1>1, <1>5 DEF IsNode
<1>7. IsNode(n) /\ n.accounts = ticked.accounts /\ n.blocks = bs /\ n.changes = SwitchDposFees(1)
  BY <1>6 DEF IsNode
<1>8. Sound(n, bs)
  BY <1>4, <1>5, <1>7 DEF Sound
<1>9. node = n /\ blocks = bs /\ accounts = n.accounts /\ replay = <<n>>
  <2>1. /\ accounts = n.accounts /\ blocks = n.blocks /\ snapshot = n.snapshot
        /\ table = n.table /\ cache = n.cache /\ changes = n.changes /\ replay = <<n>>
    BY DEF Init, StartFrom, n
  <2>2. node = n
    BY <1>6, <2>1 DEF node
  <2> QED BY <1>7, <2>1, <2>2
<1>10. IsList(replay) /\ Len(replay) = 1 /\ replay[1] = n
  <2>1. replay \in Seq({n}) /\ Len(replay) = 1 /\ replay[1] = n
    BY <1>9
  <2> QED BY <2>1, SequenceIsList
<1>11. ASSUME NEW k \in 1..1 PROVE Sound(replay[k], Prefix(blocks, k))
  <2>1. k = 1
    OBVIOUS
  <2>2. Prefix(bs, 1) = bs
    BY <1>4 DEF Prefix, IsChain, IsList
  <2> QED BY <1>8, <1>9, <1>10, <2>1, <2>2
<1>12. Len(blocks) = 1 /\ IsChain(blocks) /\ Sound(node, blocks)
  BY <1>4, <1>8, <1>9
<1>13. \A k \in 1..Len(blocks) : Sound(replay[k], Prefix(blocks, k))
  BY <1>11, <1>12
<1>14. \A k \in 2..Len(blocks) : replay[k] = ApplyBlock(replay[k - 1], blocks[k])
  <2>1. \A k \in 2..1 : FALSE
    OBVIOUS
  <2> QED BY <1>12, <2>1
<1>15. SameMoneyAs(accounts, replay[Len(blocks)].accounts)
  BY <1>9, <1>10, <1>12 DEF SameMoneyAs, SameMoney
<1>16. Len(blocks) > 0 /\ Len(replay) = Len(blocks) /\ replay[1] = AfterGenesis
  BY <1>10, <1>12 DEF n
<1> QED BY <1>10, <1>12, <1>13, <1>14, <1>15, <1>16 DEF HistoryInv

LEMMA RestartKeeps ==
  ASSUME HistoryInv, Restart
  PROVE  HistoryInv'
<1>1. replay' = replay
  BY DEF Restart
<1>2. CASE Len(blocks) = 1
  <2>1. /\ IsChain(blocks) /\ Len(replay) = Len(blocks) /\ Sound(replay[1], Prefix(blocks, 1))
        /\ replay[1] = AfterGenesis
    <3>1. 1 \in 1..Len(blocks)
      BY <1>2
    <3> QED BY <3>1 DEF HistoryInv
  <2>2. Prefix(blocks, 1) = blocks
    BY <1>2, <2>1 DEF Prefix, IsChain, IsList
  <2>3. Sound(AfterGenesis, blocks)
    BY <2>1, <2>2
  <2>4. Become(AfterGenesis)
    BY <1>2 DEF Restart
  <2>5. node' = AfterGenesis /\ accounts' = AfterGenesis.accounts /\ blocks' = blocks
    <3> DEFINE n == AfterGenesis
    <3> HIDE DEF n
    <3>1. Sound(n, blocks) /\ Become(n)
      BY <2>3, <2>4 DEF n
    <3>2. node' = n /\ accounts' = n.accounts /\ blocks' = blocks
      BY <3>1, BecomeIs DEF Sound
    <3> QED BY <3>2 DEF n
  <2>6. Sound(node, blocks)'
    BY <2>3, <2>5
  <2>7. SameMoneyAs(accounts', replay'[Len(blocks')].accounts)
    BY <1>1, <1>2, <2>1, <2>5 DEF SameMoneyAs, SameMoney
  <2> QED BY <1>1, <2>5, <2>6, <2>7 DEF HistoryInv
<1>3. CASE Len(blocks) # 1
  <2> DEFINE c == SwitchDposFees(Len(blocks))
             m1 == [node EXCEPT !.cache = <<>>]
             m == [node EXCEPT !.cache = <<>>, !.changes = SwitchDposFees(Len(blocks))]
  <2>1. m = [accounts |-> accounts, blocks |-> blocks, snapshot |-> snapshot, table |-> table,
             cache |-> <<>>, changes |-> c]
    <3>1. m1 = [accounts |-> accounts, blocks |-> blocks, snapshot |-> snapshot, table |-> table,
                cache |-> <<>>, changes |-> changes]
      BY DEF node
    <3> HIDE DEF m1, c
    <3>2. [m1 EXCEPT !.changes = c] =
            [accounts |-> accounts, blocks |-> blocks, snapshot |-> snapshot, table |-> table,
             cache |-> <<>>, changes |-> c]
      BY <3>1
    <3>3. m = [m1 EXCEPT !.changes = c]
      BY DEF m1, c
    <3> QED BY <3>2, <3>3
  <2>2. Become(m)
    BY <1>3 DEF Restart
  <2>3. NoMoney
    <3> HIDE DEF m
    <3>1. accounts' = m.accounts /\ blocks' = m.blocks /\ changes' = m.changes
      BY <2>2 DEF Become
    <3> QED BY <1>1, <2>1, <3>1 DEF NoMoney
  <2> QED BY <2>3, NoMoneyKeeps
<1> QED BY <1>2, <1>3

LEMMA HistoryNext == HistoryInv /\ [Next]_vars => HistoryInv'
<1> SUFFICES ASSUME HistoryInv, [Next]_vars PROVE HistoryInv'
  OBVIOUS
<1>1. ASSUME NEW skip \in 1..MaxSkip, NEW txs \in {{}} \cup {{t} : t \in Txs}, Forge(skip, txs)
      PROVE  HistoryInv'
  BY <1>1, ForgeKeeps
<1>2. CASE PopLastBlock
  BY <1>2, PopKeeps
<1>3. CASE RequestForgers
  <2>1. NoMoney
    BY <1>3 DEF RequestForgers, NoMoney
  <2> QED BY <2>1, NoMoneyKeeps
<1>4. CASE AnswerForgers
  <2>1. NoMoney
    BY <1>4 DEF AnswerForgers, NoMoney
  <2> QED BY <2>1, NoMoneyKeeps
<1>5. CASE Restart
  BY <1>5, RestartKeeps
<1>6. CASE UNCHANGED vars
  <2>1. NoMoney
    BY <1>6 DEF vars, NoMoney
  <2> QED BY <2>1, NoMoneyKeeps
<1> QED BY <1>1, <1>2, <1>3, <1>4, <1>5, <1>6 DEF Next

(* For any delegates, lists, fees, rewards, transactions and bounds, over   *)
(* the rollback of any number of blocks and rounds, restarts and late       *)
(* answers: balances, fees, rewards and produced blocks are to the unit     *)
(* those of a node that has applied the present chain and nothing else      *)
(* (RoundLogic.apply and undo, with the two classes of round changes).      *)
THEOREM MoneyIsWhereTheChainSays == Spec => []MoneyReplaysChain
<1>1. Init => HistoryInv
  BY HistoryInit
<1>2. HistoryInv /\ [Next]_vars => HistoryInv'
  BY HistoryNext
<1>3. HistoryInv => MoneyReplaysChain
  BY HistoryImplies
<1> QED BY <1>1, <1>2, <1>3, PTL DEF Spec

-----------------------------------------------------------------------------
(* The invariant of the lists.  The list of a round is a function of the    *)
(* history: it is the one computed on the last block of the round before.   *)
(* Here rp is the history and rp[k] the node that has applied k blocks.     *)
Seed(r) == IF r = 1 THEN 1 ELSE LastInRound(r - 1)
ListOf(rp, r) == DelegateList(rp[Seed(r)], Seed(r) + 1)

(* A cache or a table of lists is right: each list is that of the history,  *)
(* and was computed on one of its first k blocks.                           *)
GoodLists(rp, f, k) ==
  \A x \in DOMAIN f : x \in Nat /\ x > 0 /\ (x = 1 \/ Seed(x) <= k) /\ f[x] = ListOf(rp, x)

(* The rounds of the first k blocks have a row; genesis alone has the cache.*)
HasLists(n, k) ==
  /\ \A j \in 2..k : CalcRound(j) \in DOMAIN n.table
  /\ k = 1 => 1 \in DOMAIN n.cache \cup DOMAIN n.table

(* The history: the lists of each rp[k] are right, nobody has missed blocks *)
(* put aside before version 2, and votes and keys are those of the chain.   *)
Counted(acc) == \A a \in AccountIds : acc[a].missed \in Int /\ acc[a].cmb \in Int
Replayed(rp, bs, k) ==
  /\ GoodLists(rp, rp[k].cache, k - 1) /\ GoodLists(rp, rp[k].table, k - 1) /\ HasLists(rp[k], k)
  /\ Counted(rp[k].accounts)
  /\ ~IsV2(k) => \A a \in AccountIds : rp[k].accounts[a].cmb = 0
  /\ \A a \in AccountIds : /\ rp[k].accounts[a].votes = Before(Prefix(bs, k), a).votes
                           /\ rp[k].accounts[a].key = Before(Prefix(bs, k), a).key

(* The node that is not astray: its lists are right and so are the columns  *)
(* the next list is computed from; votes and weights, which an undo restores*)
(* from the snapshot, only have to be right while that list is missing.     *)
SameStanding(x, y) ==
  x.missed = y.missed /\ x.cmb = y.cmb /\ x.votes = y.votes /\ x.key = y.key
SameStandings(acc, new) == \A a \in AccountIds : SameStanding(acc[a], new[a])
SameStrengths(acc, new) ==
  \A a \in Delegates : acc[a].vote = new[a].vote /\ acc[a].weight = new[a].weight
Straight(rp, n, k) ==
  /\ GoodLists(rp, n.cache, k) /\ GoodLists(rp, n.table, k) /\ HasLists(n, k)
  /\ SameStandings(n.accounts, rp[k].accounts)
  /\ k > 1 /\ FinishRound(k) /\ CalcRound(k + 1) \notin DOMAIN n.table =>
       SameStrengths(n.accounts, rp[k].accounts)

ReplayInv == \A k \in 1..Len(blocks) : Replayed(replay, blocks, k)
ListsInv == ReplayInv /\ (~astray => Straight(replay, node, Len(blocks)))

-----------------------------------------------------------------------------
(* The arithmetic of rounds.                                                *)
LEMMA TimesMonotone ==
  ASSUME NEW a \in Int, NEW b \in Int, NEW n \in Nat, n > 0
  PROVE  a <= b <=> a * n <= b * n
OBVIOUS

(* A height is between the ends of its round,                               *)
LEMMA RoundBounds ==
  ASSUME NEW h \in Nat, h > 0
  PROVE  /\ CalcRound(h) \in Nat /\ CalcRound(h) > 0
         /\ (CalcRound(h) - 1) * ActiveDelegates < h /\ h <= CalcRound(h) * ActiveDelegates
<1> DEFINE n == ActiveDelegates
           a == h + n - 1
           r == a \div n
<1>0. n \in Nat /\ n > 0
  BY ADPositive
<1>1. a \in Nat /\ a >= n
  BY <1>0
<1> HIDE DEF a, n
<1>2. r \in Nat /\ n * r <= a /\ a < n * r + n
  BY <1>0, <1>1
<1> HIDE DEF r
<1>3. r * n = n * r /\ (r - 1) * n = n * r - n
  BY <1>0, <1>2
<1>4. r > 0
  BY <1>0, <1>1, <1>2
<1>5. (r - 1) * n < h /\ h <= r * n
  BY <1>0, <1>2, <1>3 DEF a
<1>6. CalcRound(h) = r
  BY DEF CalcRound, r, a, n
<1> QED BY <1>2, <1>4, <1>5, <1>6 DEF n

(* and of no other.                                                         *)
LEMMA RoundUnique ==
  ASSUME NEW h \in Nat, h > 0, NEW r \in Nat,
         (r - 1) * ActiveDelegates < h, h <= r * ActiveDelegates
  PROVE  CalcRound(h) = r
<1> DEFINE n == ActiveDelegates
           q == CalcRound(h)
<1>1. n \in Nat /\ n > 0
  BY ADPositive
<1>2. q \in Nat /\ (q - 1) * n < h /\ h <= q * n
  BY RoundBounds
<1> HIDE DEF n, q
<1>3. ~(q * n <= (r - 1) * n) /\ ~(r * n <= (q - 1) * n)
  <2>1. /\ (r - 1) * n \in Int /\ (q - 1) * n \in Int
        /\ r * n \in Int /\ q * n \in Int
    BY <1>1, <1>2
  <2>2. (r - 1) * n < h /\ h <= r * n
    BY DEF n
  <2> QED BY <1>2, <2>1, <2>2
<1>4. ~(q <= r - 1) /\ ~(r <= q - 1)
  BY <1>1, <1>2, <1>3, TimesMonotone
<1>5. q = r
  BY <1>2, <1>4
<1> QED BY <1>5 DEF q

LEMMA FirstRound ==
  /\ CalcRound(1) = 1 /\ CalcRound(2) = 1 /\ Seed(1) = 1
<1> DEFINE n == ActiveDelegates
<1>1. n \in Nat /\ n > 2
  BY RoundsAssumption
<1>2. (1 - 1) * n = 0 /\ 1 * n = n
  BY <1>1
<1>3. CalcRound(1) = 1 /\ CalcRound(2) = 1
  BY <1>1, <1>2, RoundUnique DEF n
<1> QED BY <1>3 DEF Seed

(* The list of a round is computed on the block before it begins.           *)
LEMMA SeedOfNext ==
  ASSUME NEW h \in Nat, h > 0
  PROVE  /\ Seed(CalcRound(h + 1)) \in 1..h
         /\ CalcRound(h) # CalcRound(h + 1) =>
              /\ h > 2 /\ CalcRound(h + 1) = CalcRound(h) + 1 /\ CalcRound(h + 1) # 1
              /\ Seed(CalcRound(h + 1)) = h /\ FirstInRound(CalcRound(h + 1)) = h + 1
              /\ LastInRound(CalcRound(h)) = h
<1> DEFINE n == ActiveDelegates
           q == CalcRound(h)
           r == CalcRound(h + 1)
<1>1. n \in Nat /\ n > 2
  BY RoundsAssumption
<1>2. /\ q \in Nat /\ q > 0 /\ (q - 1) * n < h /\ h <= q * n
      /\ r \in Nat /\ r > 0 /\ (r - 1) * n < h + 1 /\ h + 1 <= r * n
  BY RoundBounds
<1>3. /\ (q - 1) * n \in Int /\ q * n \in Int /\ (r - 1) * n \in Int /\ r * n \in Int
      /\ (q + 1 - 1) * n = q * n /\ (q + 1) * n = q * n + n
  BY <1>1, <1>2
<1>4. CASE h + 1 <= q * n
  <2>1. r = q
    BY <1>2, <1>3, <1>4, RoundUnique DEF n
  <2>2. Seed(r) \in 1..h
    <3>1. CASE r = 1
      BY <3>1 DEF Seed
    <3>2. CASE r # 1
      <4>1. Seed(r) = (r - 1) * n
        BY <3>2 DEF Seed, LastInRound
      <4>2. 1 <= r - 1
        BY <1>2, <3>2
      <4> HIDE DEF r, n, q
      <4>3. 1 * n <= (r - 1) * n
        BY <1>1, <1>2, <4>2, TimesMonotone
      <4> QED BY <1>1, <1>2, <1>3, <4>1, <4>3
    <3> QED BY <3>1, <3>2
  <2> QED BY <2>1, <2>2
<1>5. CASE ~(h + 1 <= q * n)
  <2>1. h = q * n
    BY <1>2, <1>3, <1>5
  <2>2. r = q + 1
    <3> DEFINE p == q + 1
               k == h + 1
    <3> HIDE DEF q, n
    <3>1. p \in Nat /\ k \in Nat /\ k > 0 /\ p - 1 = q /\ p * n = q * n + n
      BY <1>2, <1>3
    <3> HIDE DEF p
    <3>2. (p - 1) * n < k /\ k <= p * n
      BY <1>1, <1>3, <2>1, <3>1
    <3> HIDE DEF k
    <3>3. CalcRound(k) = p
      BY <3>1, <3>2, RoundUnique DEF n
    <3> QED BY <3>3 DEF p, k
  <2> HIDE DEF q, r
  <2>3. Seed(r) = h /\ LastInRound(q) = h /\ r # 1
    <3>1. r # 1 /\ r - 1 = q
      BY <1>2, <2>2
    <3> QED BY <2>1, <3>1 DEF Seed, LastInRound, n
  <2>4. FirstInRound(r) = h + 1
    BY <1>2, <2>1, <2>2 DEF FirstInRound, n
  <2>5. h > 2
    <3>1. 1 * n <= q * n
      <4> HIDE DEF n
      <4>1. 1 <= q /\ 1 \in Int /\ q \in Int
        BY <1>2
      <4> QED BY <1>1, <4>1, TimesMonotone
    <3> QED BY <1>1, <1>3, <2>1, <3>1
  <2> QED BY <1>2, <2>2, <2>3, <2>4, <2>5 DEF q, r
<1> QED BY <1>4, <1>5

(* When the end of the round of h - 1 is popped there is no later list than *)
(* the next, and otherwise none that was computed on h.                     *)
LEMMA SeedBelow ==
  ASSUME NEW h \in Nat, h > 1, NEW q \in Nat, q > 0, q = 1 \/ Seed(q) <= h,
         h > 2 /\ LastInRound(CalcRound(h - 1)) = h => q < CalcRound(h - 1) + 1
  PROVE  q = 1 \/ Seed(q) <= h - 1
<1> DEFINE n == ActiveDelegates
           r == CalcRound(h - 1)
<1>1. n \in Nat /\ n > 2
  BY RoundsAssumption
<1>2. r \in Nat /\ r > 0 /\ (r - 1) * n < h - 1 /\ h - 1 <= r * n
  BY RoundBounds
<1> SUFFICES ASSUME q # 1 PROVE Seed(q) <= h - 1
  OBVIOUS
<1>3. Seed(q) = (q - 1) * n
  BY DEF Seed, LastInRound
<1> HIDE DEF n, r
<1>4. (q - 1) * n \in Int /\ (r - 1) * n \in Int /\ r * n \in Int
  BY <1>1, <1>2
<1> SUFFICES ASSUME (q - 1) * n = h PROVE FALSE
  BY <1>3, <1>4
<1>5. (q - 1 - 1) * n = h - n
  BY <1>1
<1>6. CalcRound(h - 1) = q - 1
  <2>1. q - 1 \in Nat /\ h - 1 \in Nat /\ h - 1 > 0
    OBVIOUS
  <2>2. (q - 1 - 1) * n < h - 1 /\ h - 1 <= (q - 1) * n
    BY <1>1, <1>5
  <2> QED BY <2>1, <2>2, RoundUnique DEF n
<1>7. LastInRound(CalcRound(h - 1)) = h
  BY <1>6 DEF LastInRound, n
<1>8. h > 2
  <2>1. 1 * n <= (q - 1) * n
    <3>1. 1 <= q - 1 /\ q - 1 \in Int
      OBVIOUS
    <3> QED BY <1>1, <3>1, TimesMonotone
  <2> QED BY <1>1, <2>1
<1> QED BY <1>6, <1>7, <1>8

LEMMA RoundMonotone ==
  ASSUME NEW h \in Nat, h > 0, NEW k \in Nat, k >= h
  PROVE  CalcRound(h) <= CalcRound(k)
<1> DEFINE n == ActiveDelegates
           q == CalcRound(h)
           r == CalcRound(k)
<1>1. n \in Nat /\ n > 0
  BY ADPositive
<1>2. q \in Nat /\ (q - 1) * n < h /\ r \in Nat /\ k <= r * n
  BY RoundBounds
<1> HIDE DEF n, q, r
<1>3. ~(r * n <= (q - 1) * n)
  <2>1. r * n \in Int /\ (q - 1) * n \in Int
    BY <1>1, <1>2
  <2> QED BY <1>2, <2>1
<1>4. ~(r <= q - 1)
  BY <1>1, <1>2, <1>3, TimesMonotone
<1> QED BY <1>2, <1>4 DEF q, r

-----------------------------------------------------------------------------
(* What a transaction does to votes and keys.                               *)
LEMMA MergesStand ==
  ASSUME NEW M, NEW C, NEW V, NEW W, NEW K, NEW S,
         NEW acc \in [AccountIds -> Over(M, C, V, W, K, S)],
         NEW a, NEW x \in Int, NEW c, NEW y \in Int
  PROVE  LET r == Merge(Merge(acc, a, x), c, y)
         IN /\ r \in [AccountIds -> Over(M, C, V, W, K, S)]
            /\ SameStandings(r, acc)
<1> DEFINE q == Merge(acc, a, x)
           r == Merge(q, c, y)
<1>1. /\ q \in [AccountIds -> Over(M, C, V, W, K, S)]
      /\ \A b \in AccountIds : q[b] = [acc[b] EXCEPT !.balance = @ + Given(a, b, x)]
  BY MergeMoves
<1> HIDE DEF q
<1>2. /\ r \in [AccountIds -> Over(M, C, V, W, K, S)]
      /\ \A b \in AccountIds : r[b] = [q[b] EXCEPT !.balance = @ + Given(c, b, y)]
  BY <1>1, MergeMoves
<1> HIDE DEF r
<1>3. ASSUME NEW b \in AccountIds PROVE SameStanding(r[b], acc[b])
  <2>1. acc[b] \in Over(M, C, V, W, K, S) /\ q[b] \in Over(M, C, V, W, K, S)
    BY <1>1
  <2>2. q[b] = [acc[b] EXCEPT !.balance = @ + Given(a, b, x)]
    BY <1>1
  <2>3. r[b] = [q[b] EXCEPT !.balance = @ + Given(c, b, y)]
    BY <1>2
  <2> QED BY <2>1, <2>2, <2>3 DEF Over, SameStanding
<1> QED BY <1>2, <1>3 DEF q, r, SameStandings

Does(t, type, a) == Tx[t].type = type /\ Tx[t].sender = a
LEMMA ApplyTxStands ==
  ASSUME NEW t \in Txs, NEW acc, IsAccounts(acc), NEW a \in AccountIds
  PROVE  LET r == ApplyTx(acc, t)
         IN /\ r[a].missed = acc[a].missed /\ r[a].cmb = acc[a].cmb
            /\ r[a].votes = IF Does(t, "vote", a) THEN Tx[t].votes ELSE acc[a].votes
            /\ r[a].key = IF Does(t, "key", a) THEN Tx[t].key ELSE acc[a].key
<1>1. PICK M, C, V, W, K, S : acc \in [AccountIds -> Over(M, C, V, W, K, S)]
  BY DEF IsAccounts
<1>2. Tx[t].amount \in Int /\ Tx[t].fee \in Int /\ Tx[t].sender \in AccountIds
  BY TxMovesType
<1> DEFINE x == -(Tx[t].amount + Tx[t].fee)
           s == Tx[t].sender
           paid == Merge(Merge(acc, s, x), Tx[t].recipient, Tx[t].amount)
           r == ApplyTx(acc, t)
<1>3. x \in Int
  BY <1>2
<1> HIDE DEF x
<1>4. paid \in [AccountIds -> Over(M, C, V, W, K, S)] /\ SameStandings(paid, acc)
  BY <1>1, <1>2, <1>3, MergesStand
<1> HIDE DEF paid
<1>5. r = CASE Tx[t].type = "vote" -> [paid EXCEPT ![s].votes = Tx[t].votes]
            [] Tx[t].type = "key" -> [paid EXCEPT ![s].key = Tx[t].key]
            [] OTHER -> paid
  BY DEF ApplyTx, paid, x
<1> HIDE DEF r
<1>6. paid[a] \in Over(M, C, V, W, K, S) /\ SameStanding(paid[a], acc[a])
  BY <1>4 DEF SameStandings
<1>7. CASE Tx[t].type = "vote"
  <2>1. r = [paid EXCEPT ![s].votes = Tx[t].votes]
    BY <1>5, <1>7
  <2>2. r[a] = IF a = s THEN [paid[a] EXCEPT !.votes = Tx[t].votes] ELSE paid[a]
    BY <1>4, <2>1
  <2>3. CASE a = s
    BY <1>6, <1>7, <2>2, <2>3 DEF Over, SameStanding, Does, r
  <2>4. CASE a # s
    BY <1>6, <1>7, <2>2, <2>4 DEF SameStanding, Does, r
  <2> QED BY <2>3, <2>4
<1>8. CASE Tx[t].type = "key"
  <2>1. r = [paid EXCEPT ![s].key = Tx[t].key]
    BY <1>5, <1>8
  <2>2. r[a] = IF a = s THEN [paid[a] EXCEPT !.key = Tx[t].key] ELSE paid[a]
    BY <1>4, <2>1
  <2>3. CASE a = s
    BY <1>6, <1>8, <2>2, <2>3 DEF Over, SameStanding, Does, r
  <2>4. CASE a # s
    BY <1>6, <1>8, <2>2, <2>4 DEF SameStanding, Does, r
  <2> QED BY <2>3, <2>4
<1>9. CASE Tx[t].type # "vote" /\ Tx[t].type # "key"
  <2>1. r = paid
    BY <1>5, <1>9
  <2> QED BY <1>6, <1>9, <2>1 DEF SameStanding, Does, r
<1> QED BY <1>7, <1>8, <1>9

LEMMA UndoTxStands ==
  ASSUME NEW t \in Txs, NEW acc, IsAccounts(acc), NEW before, NEW a \in AccountIds
  PROVE  LET r == UndoTx(acc, t, before)
         IN /\ r[a].missed = acc[a].missed /\ r[a].cmb = acc[a].cmb
            /\ r[a].votes = IF Tx[t].sender = a THEN before.votes ELSE acc[a].votes
            /\ r[a].key = IF Tx[t].sender = a THEN before.key ELSE acc[a].key
<1>1. PICK M, C, V, W, K, S : acc \in [AccountIds -> Over(M, C, V, W, K, S)]
  BY DEF IsAccounts
<1>2. Tx[t].amount \in Int /\ Tx[t].fee \in Int /\ Tx[t].sender \in AccountIds
  BY TxMovesType
<1> DEFINE x == -Tx[t].amount
           y == Tx[t].amount + Tx[t].fee
           s == Tx[t].sender
           back == Merge(Merge(acc, Tx[t].recipient, x), s, y)
           voted == [back EXCEPT ![s].votes = before.votes]
           r == UndoTx(acc, t, before)
<1>3. x \in Int /\ y \in Int
  BY <1>2
<1> HIDE DEF x, y
<1>4. back \in [AccountIds -> Over(M, C, V, W, K, S)] /\ SameStandings(back, acc)
  BY <1>1, <1>3, MergesStand
<1>5. r = [back EXCEPT ![s].votes = before.votes, ![s].key = before.key]
  BY DEF UndoTx, x, y
<1> HIDE DEF back
<1>6. r = [voted EXCEPT ![s].key = before.key]
  BY <1>5
<1>7. back[a] \in Over(M, C, V, W, K, S) /\ SameStanding(back[a], acc[a])
  BY <1>4 DEF SameStandings
<1>8. voted[a] = IF a = s THEN [back[a] EXCEPT !.votes = before.votes] ELSE back[a]
  BY <1>4
<1>9. DOMAIN voted = AccountIds
  BY <1>4
<1> HIDE DEF voted, r
<1>10. r[a] = IF a = s THEN [voted[a] EXCEPT !.key = before.key] ELSE voted[a]
  BY <1>6, <1>9
<1>11. CASE a = s
  <2> DEFINE v == before.votes
             k == before.key
             row == [back[a] EXCEPT !.votes = v]
  <2> HIDE DEF v, k
  <2>1. row \in Over(M, C, V, W, K, {v})
    BY <1>7 DEF Over
  <2>2. /\ row.votes = v /\ row.missed = acc[a].missed /\ row.cmb = acc[a].cmb
    BY <1>7 DEF Over, SameStanding
  <2> HIDE DEF row
  <2>3. r[a] = [row EXCEPT !.key = k]
    BY <1>8, <1>10, <1>11 DEF row, v, k
  <2>4. r[a].key = k /\ r[a].votes = v /\ r[a].missed = acc[a].missed /\ r[a].cmb = acc[a].cmb
    BY <2>1, <2>2, <2>3 DEF Over
  <2> QED BY <1>11, <2>4 DEF r, v, k
<1>12. CASE a # s
  <2>1. r[a] = back[a]
    BY <1>8, <1>10, <1>12
  <2> QED BY <1>7, <1>12, <2>1 DEF SameStanding, r
<1> QED BY <1>11, <1>12

(* The votes and the key of an account after the transactions of a block.   *)
Has(txs, type, a) == \E t \in txs : Tx[t].type = type /\ Tx[t].sender = a
Chosen(txs, type, a) == CHOOSE t \in txs : Tx[t].type = type /\ Tx[t].sender = a
VotesAfter(txs, a, v) == IF Has(txs, "vote", a) THEN Tx[Chosen(txs, "vote", a)].votes ELSE v
KeyAfter(txs, a, k) == IF Has(txs, "key", a) THEN Tx[Chosen(txs, "key", a)].key ELSE k

LEMMA OneChosen ==
  ASSUME NEW t, NEW type, NEW a
  PROVE  /\ Has({t}, type, a) <=> Does(t, type, a)
         /\ Does(t, type, a) => Chosen({t}, type, a) = t
<1>1. Has({t}, type, a) <=> Does(t, type, a)
  BY DEF Has, Does
<1>2. ASSUME Does(t, type, a) PROVE Chosen({t}, type, a) = t
  <2>1. \E u \in {t} : Tx[u].type = type /\ Tx[u].sender = a
    BY <1>2 DEF Does
  <2>2. Chosen({t}, type, a) \in {t}
    BY <2>1 DEF Chosen
  <2> QED BY <2>2
<1> QED BY <1>1, <1>2

LEMMA TxsStand ==
  ASSUME NEW txs, Few(txs), NEW acc, IsAccounts(acc), NEW bs, NEW a \in AccountIds
  PROVE  LET r == ApplyTxs(acc, txs)
             u == UndoTxs(acc, txs, bs)
             sent == \E t \in txs : Tx[t].sender = a
         IN /\ r[a].missed = acc[a].missed /\ r[a].cmb = acc[a].cmb
            /\ r[a].votes = VotesAfter(txs, a, acc[a].votes) /\ r[a].key = KeyAfter(txs, a, acc[a].key)
            /\ u[a].missed = acc[a].missed /\ u[a].cmb = acc[a].cmb
            /\ u[a].votes = IF sent THEN Before(bs, a).votes ELSE acc[a].votes
            /\ u[a].key = IF sent THEN Before(bs, a).key ELSE acc[a].key
<1>1. CASE txs = {}
  <2>1. ASSUME NEW t PROVE ApplyTxs(acc, {}) = acc /\ UndoTxs(acc, {}, bs) = acc
    BY ApplyTxsIs, UndoTxsIs
  <2>2. ApplyTxs(acc, txs) = acc /\ UndoTxs(acc, txs, bs) = acc
    BY <1>1, <2>1
  <2>3. VotesAfter(txs, a, acc[a].votes) = acc[a].votes /\ KeyAfter(txs, a, acc[a].key) = acc[a].key
    BY <1>1 DEF VotesAfter, KeyAfter, Has
  <2> QED BY <1>1, <2>2, <2>3
<1>2. CASE \E t \in Txs : txs = {t}
  <2>1. PICK t \in Txs : txs = {t}
    BY <1>2
  <2> DEFINE r == ApplyTx(acc, t)
             before == Before(bs, Tx[t].sender)
             u == UndoTx(acc, t, before)
  <2>2. ApplyTxs(acc, txs) = r /\ UndoTxs(acc, txs, bs) = u
    BY <2>1, ApplyTxsIs, UndoTxsIs
  <2>3. /\ r[a].missed = acc[a].missed /\ r[a].cmb = acc[a].cmb
        /\ r[a].votes = IF Does(t, "vote", a) THEN Tx[t].votes ELSE acc[a].votes
        /\ r[a].key = IF Does(t, "key", a) THEN Tx[t].key ELSE acc[a].key
    BY ApplyTxStands
  <2> HIDE DEF r
  <2>4. VotesAfter(txs, a, acc[a].votes) = IF Does(t, "vote", a) THEN Tx[t].votes ELSE acc[a].votes
    BY <2>1, OneChosen DEF VotesAfter
  <2>5. KeyAfter(txs, a, acc[a].key) = IF Does(t, "key", a) THEN Tx[t].key ELSE acc[a].key
    BY <2>1, OneChosen DEF KeyAfter
  <2>6. /\ u[a].missed = acc[a].missed /\ u[a].cmb = acc[a].cmb
        /\ u[a].votes = IF Tx[t].sender = a THEN before.votes ELSE acc[a].votes
        /\ u[a].key = IF Tx[t].sender = a THEN before.key ELSE acc[a].key
    <3> HIDE DEF before
    <3> QED BY UndoTxStands
  <2> HIDE DEF u
  <2>7. (\E x \in txs : Tx[x].sender = a) <=> Tx[t].sender = a
    BY <2>1
  <2>8. Tx[t].sender = a => before = Before(bs, a)
    OBVIOUS
  <2> HIDE DEF before
  <2> QED BY <2>2, <2>3, <2>4, <2>5, <2>6, <2>7, <2>8
<1> QED BY <1>1, <1>2 DEF Few

LEMMA ApplyTxsStand ==
  ASSUME NEW txs, Few(txs), NEW acc, IsAccounts(acc), NEW a \in AccountIds
  PROVE  LET r == ApplyTxs(acc, txs)
         IN /\ r[a].missed = acc[a].missed /\ r[a].cmb = acc[a].cmb
            /\ r[a].votes = VotesAfter(txs, a, acc[a].votes) /\ r[a].key = KeyAfter(txs, a, acc[a].key)
<1>1. LET r == ApplyTxs(acc, txs)
          u == UndoTxs(acc, txs, <<>>)
          sent == \E t \in txs : Tx[t].sender = a
      IN /\ r[a].missed = acc[a].missed /\ r[a].cmb = acc[a].cmb
         /\ r[a].votes = VotesAfter(txs, a, acc[a].votes) /\ r[a].key = KeyAfter(txs, a, acc[a].key)
         /\ u[a].missed = acc[a].missed /\ u[a].cmb = acc[a].cmb
         /\ u[a].votes = IF sent THEN Before(<<>>, a).votes ELSE acc[a].votes
         /\ u[a].key = IF sent THEN Before(<<>>, a).key ELSE acc[a].key
  BY TxsStand
<1> QED BY <1>1

LEMMA UndoTxsStand ==
  ASSUME NEW txs, Few(txs), NEW acc, IsAccounts(acc), NEW bs, NEW a \in AccountIds
  PROVE  LET u == UndoTxs(acc, txs, bs)
             sent == \E t \in txs : Tx[t].sender = a
         IN /\ u[a].missed = acc[a].missed /\ u[a].cmb = acc[a].cmb
            /\ u[a].votes = IF sent THEN Before(bs, a).votes ELSE acc[a].votes
            /\ u[a].key = IF sent THEN Before(bs, a).key ELSE acc[a].key
BY TxsStand

(* The newest vote or key is in the block that is added, or it is the one   *)
(* it was.                                                                  *)
LEMMA NewestInAppend ==
  ASSUME NEW bs, IsChain(bs), Len(bs) > 0, NEW b, NEW a, NEW type
  PROVE  LET new == Append(bs, b)
         IN IF Has(b.txs, type, a)
            THEN Own(new, a, type) # {} /\ Newest(new, a, type) = Chosen(b.txs, type, a)
            ELSE /\ Own(new, a, type) = Own(bs, a, type)
                 /\ Own(bs, a, type) # {} => Newest(new, a, type) = Newest(bs, a, type)
<1> DEFINE new == Append(bs, b)
           N == Len(bs)
           In(cs, i) == \E t \in cs[i].txs : Tx[t].type = type /\ Tx[t].sender = a
<1>1. /\ N \in Nat /\ N > 0 /\ Len(new) = N + 1 /\ new[N + 1] = b
      /\ \A i \in 1..N : new[i] = bs[i]
  BY AppendToList DEF IsChain, IsList
<1> HIDE DEF new
<1>2. /\ Own(new, a, type) = {i \in 2..(N + 1) : In(new, i)}
      /\ Own(bs, a, type) = {i \in 2..N : In(bs, i)}
  BY <1>1 DEF Own
<1>3. \A i \in 2..N : i \in 1..N /\ new[i] = bs[i]
  BY <1>1
<1>4. In(new, N + 1) <=> Has(b.txs, type, a)
  BY <1>1 DEF Has
<1>5. CASE Has(b.txs, type, a)
  <2> DEFINE S == Own(new, a, type)
  <2>1. N + 1 \in S
    <3> HIDE DEF In
    <3>1. N + 1 \in 2..(N + 1)
      BY <1>1
    <3> QED BY <1>2, <1>4, <1>5, <3>1
  <2>2. S \subseteq 1..(N + 1) /\ N + 1 \in Nat
    BY <1>1, <1>2
  <2> HIDE DEF S
  <2>3. Max(S) \in S /\ \A y \in S : Max(S) >= y
    BY <2>1, <2>2, MaxIsIn
  <2>4. Max(S) = N + 1
    <3>1. Max(S) \in 1..(N + 1) /\ Max(S) >= N + 1
      BY <2>1, <2>2, <2>3
    <3> QED BY <1>1, <3>1
  <2>5. Newest(new, a, type) = Chosen(b.txs, type, a)
    <3>1. new[Max(S)] = b
      BY <1>1, <2>4
    <3> QED BY <3>1 DEF Newest, Chosen, S
  <2> QED BY <1>5, <2>1, <2>5 DEF S, new
<1>6. CASE ~Has(b.txs, type, a)
  <2>1. Own(new, a, type) = Own(bs, a, type)
    <3>1. \A i \in 2..(N + 1) : i = N + 1 \/ i \in 2..N
      BY <1>1
    <3>2. \A i \in 2..N : (In(new, i) <=> In(bs, i)) /\ i \in 2..(N + 1)
      BY <1>1, <1>3
    <3>3. ~In(new, N + 1)
      BY <1>4, <1>6
    <3> HIDE DEF In
    <3> QED BY <1>2, <3>1, <3>2, <3>3
  <2>2. ASSUME Own(bs, a, type) # {} PROVE Newest(new, a, type) = Newest(bs, a, type)
    <3> DEFINE S == Own(bs, a, type)
    <3>1. S \subseteq 1..N /\ S # {} /\ S \subseteq 2..N
      BY <1>1, <1>2, <2>2
    <3> HIDE DEF S
    <3>2. Max(S) \in 2..N
      BY <1>1, <3>1, MaxIsIn
    <3>3. new[Max(S)] = bs[Max(S)]
      BY <1>3, <3>2
    <3> QED BY <2>1, <3>3 DEF Newest, S
  <2> QED BY <1>6, <2>1, <2>2 DEF new
<1> QED BY <1>5, <1>6

LEMMA BeforeAppend ==
  ASSUME NEW bs, IsChain(bs), Len(bs) > 0, NEW b, NEW a
  PROVE  /\ Before(Append(bs, b), a).votes = VotesAfter(b.txs, a, Before(bs, a).votes)
         /\ Before(Append(bs, b), a).key = KeyAfter(b.txs, a, Before(bs, a).key)
<1> DEFINE new == Append(bs, b)
           V(cs) == IF Own(cs, a, "vote") = {} THEN Genesis[a].votes ELSE Tx[Newest(cs, a, "vote")].votes
           K(cs) == IF Own(cs, a, "key") = {} THEN Genesis[a].key ELSE Tx[Newest(cs, a, "key")].key
<1>1. \A cs : Before(cs, a).votes = V(cs) /\ Before(cs, a).key = K(cs)
  BY DEF Before
<1>2. V(new) = VotesAfter(b.txs, a, V(bs))
  <2>1. IF Has(b.txs, "vote", a)
        THEN Own(new, a, "vote") # {} /\ Newest(new, a, "vote") = Chosen(b.txs, "vote", a)
        ELSE /\ Own(new, a, "vote") = Own(bs, a, "vote")
             /\ Own(bs, a, "vote") # {} => Newest(new, a, "vote") = Newest(bs, a, "vote")
    BY NewestInAppend
  <2> HIDE DEF new
  <2> QED BY <2>1 DEF VotesAfter
<1>3. K(new) = KeyAfter(b.txs, a, K(bs))
  <2>1. IF Has(b.txs, "key", a)
        THEN Own(new, a, "key") # {} /\ Newest(new, a, "key") = Chosen(b.txs, "key", a)
        ELSE /\ Own(new, a, "key") = Own(bs, a, "key")
             /\ Own(bs, a, "key") # {} => Newest(new, a, "key") = Newest(bs, a, "key")
    BY NewestInAppend
  <2> HIDE DEF new
  <2> QED BY <2>1 DEF KeyAfter
<1> HIDE DEF V, K
<1> QED BY <1>1, <1>2, <1>3

-----------------------------------------------------------------------------
(* What the end of a round does to missed blocks, votes and weights.        *)
LEMMA MissedStand ==
  ASSUME NEW acc, IsAccounts(acc), NEW out, NEW h, NEW sign, NEW a \in AccountIds
  PROVE  LET r == UpdateMissedBlocks(acc, out, h, sign)
         IN /\ r[a].votes = acc[a].votes /\ r[a].key = acc[a].key
            /\ r[a].missed = IF a \in out THEN acc[a].missed + sign ELSE acc[a].missed
            /\ r[a].cmb = IF a \in out THEN (IF IsV2(h) THEN acc[a].cmb + sign ELSE 0)
                          ELSE acc[a].cmb
<1>1. PICK M, C, V, W, K, S : acc \in [AccountIds -> Over(M, C, V, W, K, S)]
  BY DEF IsAccounts
<1> DEFINE m == acc[a].missed + sign
           c == IF IsV2(h) THEN acc[a].cmb + sign ELSE 0
           r == UpdateMissedBlocks(acc, out, h, sign)
<1>2. r[a] = IF a \in out THEN [acc[a] EXCEPT !.missed = m, !.cmb = c] ELSE acc[a]
  BY DEF UpdateMissedBlocks
<1>3. acc[a] \in Over(M, C, V, W, K, S)
  BY <1>1
<1> HIDE DEF r, m, c
<1>4. CASE a \in out
  <2>1. r[a] = [acc[a] EXCEPT !.missed = m, !.cmb = c]
    BY <1>2, <1>4
  <2>2. r[a].missed = m /\ r[a].cmb = c /\ r[a].votes = acc[a].votes /\ r[a].key = acc[a].key
    BY <1>3, <2>1 DEF Over
  <2> QED BY <1>4, <2>2 DEF r, m, c
<1>5. CASE a \notin out
  <2>1. r[a] = acc[a]
    BY <1>2, <1>5
  <2> QED BY <1>5, <2>1 DEF r
<1> QED BY <1>4, <1>5

LEMMA StrengthStands ==
  ASSUME NEW acc, IsAccounts(acc), NEW T, NEW v, NEW w
  PROVE  LET r == WithStrength(acc, T, v, w)
         IN /\ SameStandings(r, acc)
            /\ \A b \in AccountIds : b \in T => r[b].vote = v[b] /\ r[b].weight = w[b]
<1> DEFINE r == WithStrength(acc, T, v, w)
<1>1. PICK M, C, V, W, K, S : acc \in [AccountIds -> Over(M, C, V, W, K, S)]
  BY DEF IsAccounts
<1>2. r = [b \in AccountIds |-> IF b \in T THEN [acc[b] EXCEPT !.vote = v[b], !.weight = w[b]]
                                ELSE acc[b]]
  BY DEF WithStrength
<1> HIDE DEF r
<1>3. ASSUME NEW b \in AccountIds
      PROVE  /\ SameStanding(r[b], acc[b])
             /\ b \in T => r[b].vote = v[b] /\ r[b].weight = w[b]
  <2>1. acc[b] \in Over(M, C, V, W, K, S)
    BY <1>1
  <2>2. CASE b \in T
    <3>1. r[b] = [acc[b] EXCEPT !.vote = v[b], !.weight = w[b]]
      BY <1>2, <2>2
    <3> QED BY <2>1, <2>2, <3>1 DEF Over, SameStanding
  <2>3. CASE b \notin T
    <3>1. r[b] = acc[b]
      BY <1>2, <2>3
    <3> QED BY <2>3, <3>1 DEF SameStanding
  <2> QED BY <2>2, <2>3
<1> QED BY <1>3 DEF r, SameStandings

LEMMA RestoreStands ==
  ASSUME NEW acc, IsAccounts(acc), NEW s
  PROVE  SameStandings(RestoreVotesSnapshot(acc, s), acc)
<1> DEFINE v == [b \in AccountIds |-> s[b].vote]
           w == [b \in AccountIds |-> s[b].weight]
           T == DOMAIN s
           r == RestoreVotesSnapshot(acc, s)
<1>1. \A b \in AccountIds : v[b] = s[b].vote /\ w[b] = s[b].weight
  OBVIOUS
<1>2. r = [b \in AccountIds |-> IF b \in T THEN [acc[b] EXCEPT !.vote = s[b].vote, !.weight = s[b].weight]
                                ELSE acc[b]]
  BY DEF RestoreVotesSnapshot
<1> HIDE DEF v, w, T, r
<1>3. r = WithStrength(acc, T, v, w)
  BY <1>1, <1>2 DEF WithStrength
<1>4. SameStandings(r, acc)
  BY <1>3, StrengthStands
<1> QED BY <1>4 DEF r

(* The votes and weights are a function of the balances, the votes cast,    *)
(* and the blocks produced and missed.                                      *)
StrengthsOf(acc) ==
  \A d \in Delegates : /\ acc[d].vote = VoteOf(Stakes(acc), d)
                       /\ acc[d].weight = WeightOf(Stakes(acc), d, acc[d].produced, acc[d].missed)

LEMMA ReCalcStands ==
  ASSUME NEW acc, IsAccounts(acc)
  PROVE  SameStandings(ReCalcVotes(acc), acc) /\ StrengthsOf(ReCalcVotes(acc))
<1> DEFINE v == [b \in AccountIds |-> VoteOf(Stakes(acc), b)]
           w == [b \in AccountIds |-> WeightOf(Stakes(acc), b, acc[b].produced, acc[b].missed)]
           r == ReCalcVotes(acc)
<1>1. r = WithStrength(acc, Delegates, v, w)
  BY DEF ReCalcVotes, WithStrength
<1>2. \A b \in AccountIds : /\ v[b] = VoteOf(Stakes(acc), b)
                            /\ w[b] = WeightOf(Stakes(acc), b, acc[b].produced, acc[b].missed)
  OBVIOUS
<1> HIDE DEF v, w, r
<1>3. SameStandings(r, acc) /\ \A b \in AccountIds : b \in Delegates => r[b].vote = v[b] /\ r[b].weight = w[b]
  BY <1>1, StrengthStands
<1>4. \A b \in AccountIds : SameMoney(acc[b], r[b])
  BY ReCalcMovesNothing DEF r
<1>5. Stakes(r) = Stakes(acc)
  BY <1>3, <1>4 DEF Stakes, SameStandings, SameStanding, SameMoney
<1>6. \A b \in AccountIds : r[b].produced = acc[b].produced /\ r[b].missed = acc[b].missed
  BY <1>3, <1>4 DEF SameStandings, SameStanding, SameMoney
<1>7. Delegates \subseteq AccountIds
  BY DEF Delegates
<1>8. StrengthsOf(r)
  BY <1>2, <1>3, <1>5, <1>6, <1>7 DEF StrengthsOf
<1> QED BY <1>3, <1>8 DEF r

(* Who is paid has missed no block since.                                   *)
Payees(round) == {Payee(round, i) : i \in 1..Len(round)} \ {None}

LEMMA ReceivesStands ==
  ASSUME NEW M, NEW C, NEW V, NEW W, NEW K, NEW S, 0 \in C,
         NEW x \in Over(M, C, V, W, K, S), NEW c, IsPay(c), NEW sign \in {1, -1}
  PROVE  LET y == Receives(x, c, sign)
         IN y.missed = x.missed /\ y.votes = x.votes /\ y.key = x.key /\ y.cmb = 0
<1> DEFINE p == x.balance + sign * c.balance
           q == x.fees + sign * c.fees
           r == x.rewards + sign * c.rewards
           s == x.produced + sign
           y1 == [x EXCEPT !.balance = p, !.fees = q]
           y2 == [y1 EXCEPT !.rewards = r, !.produced = s]
           y3 == [y2 EXCEPT !.cmb = 0]
           y == Receives(x, c, sign)
           Kept(z) == z.missed = x.missed /\ z.votes = x.votes /\ z.key = x.key
<1>1. x.balance \in Int /\ x.fees \in Int /\ x.rewards \in Int /\ x.produced \in Int
  BY DEF Over
<1>2. c.balance \in Int /\ c.fees \in Int /\ c.rewards \in Int
  BY DEF IsPay
<1>3. p \in Int /\ q \in Int /\ r \in Int /\ s \in Int
  BY <1>1, <1>2
<1>4. y = [x EXCEPT !.balance = p, !.fees = q, !.rewards = r, !.produced = s, !.cmb = 0]
  BY DEF Receives
<1> HIDE DEF p, q, r, s, y
<1>5. y = y3
  BY <1>4
<1>6. y1 \in Over(M, C, V, W, K, S) /\ Kept(y1)
  BY <1>3 DEF Over
<1> HIDE DEF y1
<1>7. y2 \in Over(M, C, V, W, K, S) /\ Kept(y2)
  BY <1>3, <1>6 DEF Over
<1> HIDE DEF y2
<1>8. y3.cmb = 0 /\ Kept(y3)
  BY <1>7 DEF Over
<1> QED BY <1>5, <1>8 DEF y

LEMMA PayStands ==
  ASSUME NEW acc, IsAccounts(acc), NEW a, NEW c, IsPay(c), NEW sign \in {1, -1}, NEW b \in AccountIds
  PROVE  LET r == Pay(acc, a, c, sign)
         IN /\ r[b].missed = acc[b].missed /\ r[b].votes = acc[b].votes /\ r[b].key = acc[b].key
            /\ r[b].cmb = IF a # None /\ a = b THEN 0 ELSE acc[b].cmb
<1>1. PICK M, C0, V, W, K, S : acc \in [AccountIds -> Over(M, C0, V, W, K, S)]
  BY DEF IsAccounts
<1> DEFINE C == C0 \cup {0}
           r == Pay(acc, a, c, sign)
<1>2. acc \in [AccountIds -> Over(M, C, V, W, K, S)] /\ 0 \in C
  BY <1>1 DEF Over
<1> HIDE DEF C, r
<1>3. r[b] = IF a # None /\ a = b THEN Receives(acc[b], c, sign) ELSE acc[b]
  BY <1>2, PayType DEF r
<1>4. acc[b] \in Over(M, C, V, W, K, S)
  BY <1>2
<1>5. LET y == Receives(acc[b], c, sign)
      IN y.missed = acc[b].missed /\ y.votes = acc[b].votes /\ y.key = acc[b].key /\ y.cmb = 0
  BY <1>2, <1>4, ReceivesStands
<1> QED BY <1>3, <1>5 DEF r

LEMMA RoundStands ==
  ASSUME NEW acc, IsAccounts(acc), NEW round, IsRound(round), NEW class, NEW sign \in {1, -1},
         NEW a \in AccountIds
  PROVE  LET r == ApplyRound(acc, class, round, sign)
         IN /\ r[a].missed = acc[a].missed /\ r[a].votes = acc[a].votes /\ r[a].key = acc[a].key
            /\ r[a].cmb = IF a \in Payees(round) THEN 0 ELSE acc[a].cmb
<1>1. PICK f : f[0] = acc /\ Paying(f, class, round, sign) /\ ApplyRound(acc, class, round, sign) = f[Len(round)]
  BY ApplyRoundIs
<1> DEFINE m == Len(round)
           PaidTo(k) == \E i \in 1..k : Payee(round, i) # None /\ Payee(round, i) = a
           Kept(k) == /\ IsAccounts(f[k])
                      /\ f[k][a].missed = acc[a].missed /\ f[k][a].votes = acc[a].votes
                      /\ f[k][a].key = acc[a].key
                      /\ f[k][a].cmb = IF PaidTo(k) THEN 0 ELSE acc[a].cmb
           T == {k \in Nat : k <= m => Kept(k)}
<1>2. m \in Nat
  BY DEF IsRound
<1>3. 0 \in T
  BY <1>1
<1>4. ASSUME NEW k \in Nat, k \in T PROVE k + 1 \in T
  <2> SUFFICES ASSUME k + 1 <= m PROVE Kept(k + 1)
    OBVIOUS
  <2> DEFINE c == At(class, round, k + 1)
             p == Payee(round, k + 1)
             g == f[k]
             r == Pay(g, p, c, sign)
  <2>1. Kept(k)
    BY <1>2, <1>4
  <2>2. k + 1 \in 1..Len(round) /\ (k + 1) - 1 = k
    BY <1>2
  <2>3. f[k + 1] = r
    BY <1>1, <2>2 DEF Paying
  <2>4. IsPay(c)
    BY <2>2, AtType
  <2>5. IsAccounts(g)
    BY <2>1
  <2> HIDE DEF c, g
  <2>6. /\ r[a].missed = g[a].missed /\ r[a].votes = g[a].votes /\ r[a].key = g[a].key
        /\ r[a].cmb = IF p # None /\ p = a THEN 0 ELSE g[a].cmb
    <3> HIDE DEF p
    <3> QED BY <2>4, <2>5, PayStands
  <2>7. IsAccounts(r)
    <3> HIDE DEF p
    <3> QED BY <2>4, <2>5, PaysMove
  <2>8. PaidTo(k + 1) <=> PaidTo(k) \/ (p # None /\ p = a)
    <3>1. \A i \in 1..(k + 1) : i \in 1..k \/ i = k + 1
      OBVIOUS
    <3>2. \A i \in 1..k : i \in 1..(k + 1)
      OBVIOUS
    <3> QED BY <2>2, <3>1, <3>2
  <2> HIDE DEF r, p, PaidTo
  <2> QED BY <2>1, <2>3, <2>6, <2>7, <2>8 DEF g
<1>5. m \in T
  <2> HIDE DEF T
  <2> QED BY <1>2, <1>3, <1>4, SetInduction
<1>6. Kept(m)
  BY <1>2, <1>5
<1>7. a \in Payees(round) <=> PaidTo(m)
  BY DEF Payees
<1> HIDE DEF PaidTo
<1> QED BY <1>1, <1>6, <1>7

Counts(old, new, out, payees, h, sign) ==
  \A a \in AccountIds :
    /\ new[a].votes = old[a].votes /\ new[a].key = old[a].key
    /\ new[a].missed = IF a \in out THEN old[a].missed + sign ELSE old[a].missed
    /\ new[a].cmb = IF a \in payees THEN 0
                    ELSE IF a \in out THEN (IF IsV2(h) THEN old[a].cmb + sign ELSE 0)
                    ELSE old[a].cmb

LEMMA TicksCount ==
  ASSUME NEW bs, IsChain(bs), Len(bs) > 0, FinishRound(Len(bs)), NEW n, IsNode(n), IsAccounts(n.accounts)
  PROVE  LET h == Len(bs)
             round == RoundBlocks(bs, h)
             out == Outsiders(DelegateList(n, h), round)
             m == Tick(n, bs)
             back == BackwardTick(n, bs)
         IN /\ Counts(n.accounts, m.accounts, out, Payees(round), h, 1) /\ StrengthsOf(m.accounts)
            /\ m.cache = n.cache /\ m.table = n.table
            /\ Counts(n.accounts, back.accounts, out, Payees(round), h, -1)
            /\ back.cache = n.cache /\ back.table = n.table
<1> DEFINE h == Len(bs)
           round == RoundBlocks(bs, h)
           out == Outsiders(DelegateList(n, h), round)
           acc == n.accounts
           missed(s) == UpdateMissedBlocks(acc, out, h, s)
           paid(s) == ApplyRound(missed(s), n.changes, round, s)
           m == Tick(n, bs)
           back == BackwardTick(n, bs)
           new == ReCalcVotes(paid(1))
           old == RestoreVotesSnapshot(paid(-1), n.snapshot)
<1>1. IsRound(round)
  BY RoundOfBlocks
<1>2. m = [n EXCEPT !.accounts = new, !.snapshot = PerformVotesSnapshot(paid(1))]
  BY DEF Tick
<1>3. back = [n EXCEPT !.accounts = old]
  BY DEF BackwardTick
<1> DEFINE P == Payees(round)
<1> HIDE DEF round, out, m, back, P
<1>4. ASSUME NEW s \in {1, -1}
      PROVE  IsAccounts(paid(s)) /\ Counts(acc, paid(s), out, P, h, s)
  <2> DEFINE x == missed(s)
             y == paid(s)
  <2>1. IsAccounts(x)
    BY MissedMoveNothing
  <2>2. IsAccounts(y)
    <3> HIDE DEF x
    <3>1. PICK d \in [AccountIds -> Moves] : \A q : IsAccounts(q) =>
             IsAccounts(ApplyRound(q, n.changes, round, 1)) /\ IsAccounts(ApplyRound(q, n.changes, round, -1))
      BY <1>1, RoundMoves
    <3> QED BY <1>4, <2>1, <3>1 DEF x
  <2>3. ASSUME NEW a \in AccountIds
        PROVE  /\ y[a].votes = acc[a].votes /\ y[a].key = acc[a].key
               /\ y[a].missed = IF a \in out THEN acc[a].missed + s ELSE acc[a].missed
               /\ y[a].cmb = IF a \in P THEN 0
                             ELSE IF a \in out THEN (IF IsV2(h) THEN acc[a].cmb + s ELSE 0)
                             ELSE acc[a].cmb
    <3>1. /\ x[a].votes = acc[a].votes /\ x[a].key = acc[a].key
          /\ x[a].missed = IF a \in out THEN acc[a].missed + s ELSE acc[a].missed
          /\ x[a].cmb = IF a \in out THEN (IF IsV2(h) THEN acc[a].cmb + s ELSE 0) ELSE acc[a].cmb
      <4> HIDE DEF h
      <4> QED BY MissedStand
    <3> DEFINE z == ApplyRound(x, n.changes, round, s)
    <3> HIDE DEF x
    <3>2. /\ z[a].missed = x[a].missed /\ z[a].votes = x[a].votes /\ z[a].key = x[a].key
          /\ z[a].cmb = IF a \in P THEN 0 ELSE x[a].cmb
      BY <1>1, <1>4, <2>1, RoundStands DEF P
    <3>3. y = z
      BY DEF x
    <3> HIDE DEF y, z, h
    <3> QED BY <3>1, <3>2, <3>3
  <2> HIDE DEF x, y
  <2>4. Counts(acc, y, out, P, h, s)
    BY <2>3 DEF Counts
  <2> QED BY <2>2, <2>4 DEF y
<1> HIDE DEF paid, h
<1>5. SameStandings(new, paid(1)) /\ StrengthsOf(new)
  BY <1>4, ReCalcStands
<1>6. SameStandings(old, paid(-1))
  BY <1>4, RestoreStands
<1>7. Counts(acc, paid(1), out, P, h, 1) /\ Counts(acc, paid(-1), out, P, h, -1)
  BY <1>4
<1> HIDE DEF new, old
<1>8. Counts(acc, new, out, P, h, 1)
  BY <1>5, <1>7 DEF Counts, SameStandings, SameStanding
<1>9. Counts(acc, old, out, P, h, -1)
  BY <1>6, <1>7 DEF Counts, SameStandings, SameStanding
<1>10. m.accounts = new /\ m.cache = n.cache /\ m.table = n.table
  <2> DEFINE s == PerformVotesSnapshot(paid(1))
  <2> HIDE DEF s
  <2>1. m = [n EXCEPT !.accounts = new, !.snapshot = s]
    BY <1>2 DEF s
  <2> QED BY <2>1 DEF IsNode
<1>11. back.accounts = old /\ back.cache = n.cache /\ back.table = n.table
  BY <1>3 DEF IsNode
<1> QED BY <1>5, <1>8, <1>9, <1>10, <1>11 DEF h, round, out, m, back, P

-----------------------------------------------------------------------------
(* What a block does to the accounts and the lists when it is applied,      *)
EntersAt(f, g, r, list) ==
  \A x \in DOMAIN f : \/ x = r /\ f[x] = list
                      \/ x \in DOMAIN g /\ f[x] = g[x]
StandAfter(acc, bs, list, new) ==
  LET h == Len(bs)
      round == RoundBlocks(bs, h)
  IN IF FinishRound(h)
     THEN Counts(acc, new, Outsiders(list, round), Payees(round), h, 1) /\ StrengthsOf(new)
     ELSE new = acc
Applied(n, bs, b, m) ==
  LET h == Len(bs) + 1
      r == CalcRound(h)
      list == DelegateList(n, h)
  IN /\ EntersAt(m.cache, n.cache, r, list) /\ EntersAt(m.table, n.table, r, list)
     /\ DOMAIN n.table \subseteq DOMAIN m.table
     /\ FirstInRound(r) = h \/ h = 2 => r \in DOMAIN m.table
     /\ StandAfter(ApplyTxs(n.accounts, b.txs), Append(bs, b), list, m.accounts)

LEMMA PutIs ==
  ASSUME NEW f, NEW r, NEW list
  PROVE  /\ DOMAIN Put(f, r, list) = DOMAIN f \cup {r} /\ Put(f, r, list)[r] = list
         /\ EntersAt(Put(f, r, list), f, r, list)
<1>1. Put(f, r, list) = [x \in DOMAIN f \cup {r} |-> IF x = r THEN list ELSE f[x]]
  BY DEF Put
<1> DEFINE p == Put(f, r, list)
<1> HIDE DEF p
<1>2. DOMAIN p = DOMAIN f \cup {r} /\ \A x \in DOMAIN p : p[x] = IF x = r THEN list ELSE f[x]
  BY <1>1 DEF p
<1> QED BY <1>2 DEF EntersAt, p

LEMMA DropIs ==
  ASSUME NEW f, NEW S
  PROVE  DOMAIN Drop(f, S) = DOMAIN f \ S /\ \A x \in DOMAIN f \ S : Drop(f, S)[x] = f[x]
BY DEF Drop

LEMMA SaveIs ==
  ASSUME NEW n, IsNode(n), NEW h, NEW c, NEW list, n.cache = Put(c, CalcRound(h), list)
  PROVE  LET s == SaveList(n, h)
             r == CalcRound(h)
         IN /\ EntersAt(s.cache, c, r, list) /\ EntersAt(s.table, n.table, r, list)
            /\ DOMAIN n.table \subseteq DOMAIN s.table
            /\ FirstInRound(r) = h \/ h = 2 => r \in DOMAIN s.table
<1> DEFINE s == SaveList(n, h)
           r == CalcRound(h)
           t == Put(n.table, r, n.cache[r])
           d == Drop(n.cache, {r - 10})
<1>1. n.cache[r] = list /\ EntersAt(n.cache, c, r, list)
  <2>1. /\ DOMAIN Put(c, r, list) = DOMAIN c \cup {r} /\ Put(c, r, list)[r] = list
        /\ EntersAt(Put(c, r, list), c, r, list)
    BY PutIs
  <2> HIDE DEF r
  <2> QED BY <2>1 DEF r
<1>2. EntersAt(n.table, n.table, r, list)
  BY DEF EntersAt
<1>3. CASE FirstInRound(r) = h \/ h = 2
  <2>1. s = [n EXCEPT !.table = t, !.cache = d]
    BY <1>3 DEF SaveList
  <2>2. DOMAIN t = DOMAIN n.table \cup {r} /\ EntersAt(t, n.table, r, list)
    BY <1>1, PutIs
  <2>3. DOMAIN d \subseteq DOMAIN n.cache /\ \A x \in DOMAIN d : d[x] = n.cache[x]
    <3>1. /\ DOMAIN d = DOMAIN n.cache \ {r - 10}
          /\ \A x \in DOMAIN n.cache \ {r - 10} : d[x] = n.cache[x]
      BY DropIs
    <3> HIDE DEF d
    <3> QED BY <3>1
  <2> HIDE DEF t, d, s, r
  <2>4. s.table = t /\ s.cache = d
    <3> DEFINE m == [accounts |-> n.accounts, blocks |-> n.blocks, snapshot |-> n.snapshot,
                     table |-> t, cache |-> d, changes |-> n.changes]
    <3>1. s = m
      BY <2>1, ListsExcept
    <3> QED BY <3>1
  <2>5. EntersAt(d, c, r, list)
    BY <1>1, <2>3 DEF EntersAt
  <2> QED BY <2>2, <2>4, <2>5 DEF s, r
<1>4. CASE ~(FirstInRound(r) = h \/ h = 2)
  <2>1. s = n
    BY <1>4 DEF SaveList
  <2> HIDE DEF s
  <2> QED BY <1>1, <1>2, <1>4, <2>1 DEF s
<1> QED BY <1>3, <1>4

LEMMA BlockApplies ==
  ASSUME NEW bs, IsChain(bs), Len(bs) > 0, NEW b, IsBlock(b), NEW n, Sound(n, bs)
  PROVE  Applied(n, bs, b, ApplyBlock(n, b))
<1> DEFINE new == Append(bs, b)
           h == Len(bs) + 1
           r == CalcRound(h)
           list == DelegateList(n, h)
           c == Put(n.cache, r, list)
           verified == [n EXCEPT !.cache = c]
           acc == ApplyTxs(n.accounts, b.txs)
           txs == [verified EXCEPT !.accounts = acc]
           ticked == Tick(txs, new)
           saved == SaveList(ticked, h)
           class == IF h = FeesSwitchHeight THEN SwitchDposFees(h) ELSE saved.changes
           m == ApplyBlock(n, b)
<1>1. /\ IsChain(new) /\ Len(new) = h /\ Len(bs) \in Nat /\ h > 1
  <2>1. Len(bs) \in Nat
    BY DEF IsChain, IsList
  <2> QED BY <2>1, AppendToChain
<1>2. IsNode(n) /\ n.blocks = bs /\ IsAccounts(n.accounts)
  BY DEF Sound
<1>3. verified = [accounts |-> n.accounts, blocks |-> n.blocks, snapshot |-> n.snapshot,
                  table |-> n.table, cache |-> c, changes |-> n.changes]
  <2> HIDE DEF c
  <2> QED BY <1>2 DEF IsNode
<1>4. m = [saved EXCEPT !.blocks = new, !.changes = class]
  <2>1. verified.accounts = n.accounts
    BY <1>3
  <2>2. Cached(n, h) = c
    BY DEF Cached
  <2> DEFINE v == [n EXCEPT !.cache = Cached(n, h)]
             x == [v EXCEPT !.accounts = ApplyTxs(@, b.txs)]
             s == SaveList(Tick(x, Append(n.blocks, b)), h)
  <2>3. m = [s EXCEPT !.blocks = Append(@, b),
                      !.changes = IF h = FeesSwitchHeight THEN SwitchDposFees(h) ELSE @]
    BY <1>2 DEF ApplyBlock
  <2>4. v = verified
    BY <2>2
  <2>5. x = txs
    <3> HIDE DEF v, verified
    <3> QED BY <2>1, <2>4
  <2>6. s = saved
    <3> HIDE DEF x, txs
    <3> QED BY <1>2, <2>5
  <2>7. saved.blocks = bs
    <3>1. IsNode(ticked) /\ ticked.blocks = bs
      <4>1. txs = [accounts |-> acc, blocks |-> n.blocks, snapshot |-> n.snapshot,
                   table |-> n.table, cache |-> c, changes |-> n.changes]
        <5> HIDE DEF verified, acc, c
        <5> QED BY <1>3
      <4> HIDE DEF txs, acc, c
      <4>2. IsNode(txs) /\ txs.blocks = bs /\ txs.accounts = acc
        BY <1>2, <4>1 DEF IsNode
      <4>3. IsAccounts(acc)
        <5>1. Few(b.txs)
          BY DEF IsBlock
        <5> QED BY <1>2, <5>1, TxsMove DEF acc
      <4> HIDE DEF new
      <4>4. Len(new) > 0
        BY <1>1
      <4> QED BY <1>1, <4>2, <4>3, <4>4, TicksMove
    <3> HIDE DEF ticked
    <3> QED BY <3>1, ListsMoveNothing
  <2> HIDE DEF saved, s, m
  <2> QED BY <2>3, <2>6, <2>7
<1>5. txs = [accounts |-> acc, blocks |-> n.blocks, snapshot |-> n.snapshot,
             table |-> n.table, cache |-> c, changes |-> n.changes]
  <2> HIDE DEF verified, acc, c
  <2> QED BY <1>3
<1>6. IsAccounts(acc)
  <2>1. Few(b.txs)
    BY DEF IsBlock
  <2> QED BY <1>2, <2>1, TxsMove
<1> HIDE DEF txs, acc
<1>7. /\ IsNode(txs) /\ txs.blocks = bs /\ txs.accounts = acc /\ txs.cache = c
      /\ txs.table = n.table
  <2> HIDE DEF c
  <2> QED BY <1>2, <1>5 DEF IsNode
<1>8. DelegateList(txs, h) = list
  <2>1. /\ DOMAIN c = DOMAIN n.cache \cup {r} /\ c[r] = list
        /\ EntersAt(c, n.cache, r, list)
    BY PutIs
  <2> HIDE DEF c, list
  <2>2. r \in DOMAIN txs.cache /\ txs.cache[r] = list
    BY <1>7, <2>1
  <2> QED BY <2>2 DEF DelegateList
<1>9. /\ IsNode(ticked) /\ ticked.cache = c /\ ticked.table = n.table
      /\ StandAfter(acc, new, list, ticked.accounts)
  <2> HIDE DEF c, list, new, r
  <2>1. Len(new) > 0
    BY <1>1
  <2>2. IsNode(ticked)
    BY <1>1, <1>6, <1>7, <2>1, TicksMove
  <2>3. CASE FinishRound(h)
    <3> DEFINE round == RoundBlocks(new, h)
               out == Outsiders(DelegateList(txs, h), round)
    <3>1. /\ Counts(txs.accounts, ticked.accounts, out, Payees(round), h, 1)
          /\ StrengthsOf(ticked.accounts)
          /\ ticked.cache = txs.cache /\ ticked.table = txs.table
      <4>1. FinishRound(Len(new)) /\ IsAccounts(txs.accounts)
        BY <1>1, <1>6, <1>7, <2>3
      <4> HIDE DEF h
      <4> QED BY <1>1, <1>7, <2>1, <4>1, TicksCount
    <3> HIDE DEF ticked, h
    <3> QED BY <1>1, <1>7, <1>8, <2>2, <2>3, <3>1 DEF StandAfter
  <2>4. CASE ~FinishRound(h)
    <3>1. ticked = txs
      BY <1>1, <2>4 DEF Tick
    <3> HIDE DEF ticked, h
    <3> QED BY <1>1, <1>7, <2>4, <3>1 DEF StandAfter
  <2> QED BY <2>3, <2>4
<1> HIDE DEF ticked
<1>10. /\ EntersAt(saved.cache, n.cache, r, list) /\ EntersAt(saved.table, n.table, r, list)
       /\ DOMAIN n.table \subseteq DOMAIN saved.table
       /\ FirstInRound(r) = h \/ h = 2 => r \in DOMAIN saved.table
  <2>1. ticked.cache = Put(n.cache, CalcRound(h), list)
    BY <1>9
  <2> HIDE DEF h, list
  <2>2. LET s == SaveList(ticked, h)
            q == CalcRound(h)
        IN /\ EntersAt(s.cache, n.cache, q, list) /\ EntersAt(s.table, ticked.table, q, list)
           /\ DOMAIN ticked.table \subseteq DOMAIN s.table
           /\ FirstInRound(q) = h \/ h = 2 => q \in DOMAIN s.table
    BY <1>9, <2>1, SaveIs
  <2> QED BY <1>9, <2>2
<1>11. IsNode(saved) /\ saved.accounts = ticked.accounts
  BY <1>9, ListsMoveNothing
<1> HIDE DEF saved, class, m, list, r
<1>12. m.cache = saved.cache /\ m.table = saved.table /\ m.accounts = saved.accounts
  <2> HIDE DEF new
  <2> QED BY <1>4, <1>11 DEF IsNode
<1>13. Applied(n, bs, b, m)
  <2>1. StandAfter(acc, new, list, m.accounts)
    BY <1>9, <1>11, <1>12
  <2> QED BY <1>10, <1>12, <2>1 DEF Applied, acc, new, list, r
<1> QED BY <1>13 DEF m

(* and when it is popped.                                                   *)
Leaves(h) == h # 1 /\ LastInRound(CalcRound(h)) = h + 1
Popped(n, bs, b, m) ==
  LET h == Len(bs) + 1
      r == CalcRound(h)
      q == CalcRound(h - 1)
      list == IF r \in DOMAIN n.cache THEN n.cache[r] ELSE n.table[r]
      round == RoundBlocks(Append(bs, b), h)
      acc == UndoTxs(n.accounts, b.txs, bs)
  IN /\ IF FinishRound(h)
        THEN r \in DOMAIN n.cache \cup DOMAIN n.table =>
               Counts(acc, m.accounts, Outsiders(list, round), Payees(round), h, -1)
        ELSE m.accounts = acc
     /\ IF Leaves(h - 1)
        THEN /\ \A x \in DOMAIN m.cache :
                  /\ x # q + 1
                  /\ \/ x \in DOMAIN n.cache /\ m.cache[x] = n.cache[x]
                     \/ x = q /\ m.cache[x] = n.table[q]
             /\ \A x : x \in DOMAIN m.table <=> x \in DOMAIN n.table /\ ~(x >= q + 1)
             /\ \A x \in DOMAIN m.table : m.table[x] = n.table[x]
        ELSE m.cache = n.cache /\ m.table = n.table

LEMMA DropsAre ==
  ASSUME NEW n, IsNode(n), NEW h, CalcRound(h) \in Nat
  PROVE  LET s == DropLists(n, h)
             q == CalcRound(h)
         IN IF Leaves(h)
            THEN /\ \A x \in DOMAIN s.cache :
                      /\ x # q + 1
                      /\ \/ x \in DOMAIN n.cache /\ s.cache[x] = n.cache[x]
                         \/ x = q /\ s.cache[x] = n.table[q]
                 /\ \A x : x \in DOMAIN s.table <=> x \in DOMAIN n.table /\ ~(x >= q + 1)
                 /\ \A x \in DOMAIN s.table : s.table[x] = n.table[x]
            ELSE s.cache = n.cache /\ s.table = n.table
<1> DEFINE s == DropLists(n, h)
           q == CalcRound(h)
           f == Drop(n.cache, {q + 1})
           list == IF q \in DOMAIN n.cache THEN n.cache[q] ELSE n.table[q]
           c == Put(f, q, list)
           t == Drop(n.table, {i \in DOMAIN n.table : i >= q + 1})
<1>1. CASE Leaves(h)
  <2>1. s = [n EXCEPT !.cache = c, !.table = t]
    BY <1>1 DEF DropLists, Leaves
  <2>2. DOMAIN c = DOMAIN f \cup {q} /\ c[q] = list /\ EntersAt(c, f, q, list)
    <3> HIDE DEF f, list, q
    <3> QED BY PutIs
  <2>3. DOMAIN f = DOMAIN n.cache \ {q + 1} /\ \A x \in DOMAIN n.cache \ {q + 1} : f[x] = n.cache[x]
    BY DropIs
  <2>4. q # q + 1
    OBVIOUS
  <2> DEFINE S == {i \in DOMAIN n.table : i >= q + 1}
  <2>5. /\ DOMAIN t = DOMAIN n.table \ S
        /\ \A x \in DOMAIN n.table \ S : t[x] = n.table[x]
    BY DropIs
  <2> HIDE DEF f, c, t, s, q
  <2>6. /\ DOMAIN t = DOMAIN n.table \ {i \in DOMAIN n.table : i >= q + 1}
        /\ \A x \in DOMAIN t : t[x] = n.table[x]
    BY <2>5
  <2>7. s.table = t /\ s.cache = c
    <3> DEFINE m == [accounts |-> n.accounts, blocks |-> n.blocks, snapshot |-> n.snapshot,
                     table |-> t, cache |-> c, changes |-> n.changes]
    <3>1. s = m
      BY <2>1, ListsExcept
    <3> QED BY <3>1
  <2>8. ASSUME NEW x \in DOMAIN c
        PROVE  /\ x # q + 1
               /\ \/ x \in DOMAIN n.cache /\ c[x] = n.cache[x]
                  \/ x = q /\ c[x] = n.table[q]
    <3>1. CASE x = q
      <4>1. c[x] = list
        BY <2>2, <3>1
      <4> QED BY <2>4, <3>1, <4>1
    <3>2. CASE x # q
      <4>1. x \in DOMAIN f /\ c[x] = f[x]
        BY <2>2, <3>2 DEF EntersAt
      <4> QED BY <2>3, <4>1
    <3> QED BY <3>1, <3>2
  <2>9. \A x : x \in DOMAIN t <=> x \in DOMAIN n.table /\ ~(x >= q + 1)
    BY <2>6
  <2> HIDE DEF list
  <2> QED BY <1>1, <2>6, <2>7, <2>8, <2>9 DEF s, q
<1>2. CASE ~Leaves(h)
  <2>1. s = n
    BY <1>2 DEF DropLists, Leaves
  <2> HIDE DEF s
  <2> QED BY <1>2, <2>1 DEF s
<1> QED BY <1>1, <1>2

LEMMA BlockPops ==
  ASSUME NEW bs, IsChain(bs), Len(bs) > 0, NEW b, IsBlock(b), NEW n, Sound(n, Append(bs, b))
  PROVE  Popped(n, bs, b, PopBlock(n))
<1> DEFINE new == Append(bs, b)
           h == Len(bs) + 1
           r == CalcRound(h)
           acc == UndoTxs(n.accounts, b.txs, bs)
           txs == [n EXCEPT !.accounts = UndoTxs(@, Last(n.blocks).txs, Front(n.blocks))]
           ticked == BackwardTick(txs, new)
           back == DropLists(ticked, h - 1)
           class == IF h = FeesSwitchHeight THEN SwitchDposFees(h - 1) ELSE back.changes
           m == PopBlock(n)
<1>1. /\ IsChain(new) /\ Len(new) = h /\ Front(new) = bs /\ Last(new) = b
      /\ Len(bs) \in Nat /\ h > 1 /\ h - 1 = Len(bs)
  <2>1. Len(bs) \in Nat
    BY DEF IsChain, IsList
  <2> QED BY <2>1, AppendToChain
<1>2. IsNode(n) /\ n.blocks = new /\ IsAccounts(n.accounts)
  BY DEF Sound
<1> HIDE DEF new
<1>3. txs = [accounts |-> acc, blocks |-> new, snapshot |-> n.snapshot, table |-> n.table,
             cache |-> n.cache, changes |-> n.changes]
  <2> DEFINE u == UndoTxs(n.accounts, Last(n.blocks).txs, Front(n.blocks))
  <2>1. u = acc
    BY <1>1, <1>2
  <2>2. txs = [n EXCEPT !.accounts = u]
    OBVIOUS
  <2> HIDE DEF u, acc, txs
  <2> QED BY <1>2, <2>1, <2>2 DEF IsNode
<1>4. IsAccounts(acc)
  <2>1. Few(b.txs)
    BY DEF IsBlock
  <2> QED BY <1>2, <2>1, TxsMove
<1>5. m = [back EXCEPT !.blocks = Front(@), !.changes = class]
  <2>1. m = [back EXCEPT !.blocks = Front(@),
                         !.changes = IF h = FeesSwitchHeight THEN SwitchDposFees(h - 1) ELSE @]
    BY <1>1, <1>2 DEF PopBlock
  <2> HIDE DEF m, back
  <2> QED BY <2>1
<1> HIDE DEF txs, acc
<1>6. /\ IsNode(txs) /\ txs.accounts = acc /\ txs.blocks = new /\ txs.cache = n.cache
      /\ txs.table = n.table
  BY <1>3 DEF IsNode
<1> DEFINE list == IF r \in DOMAIN n.cache THEN n.cache[r] ELSE n.table[r]
           round == RoundBlocks(new, h)
<1>7. r \in DOMAIN n.cache \cup DOMAIN n.table => DelegateList(txs, h) = list
  <2> HIDE DEF h
  <2> QED BY <1>6 DEF DelegateList
<1>8. /\ IsNode(ticked) /\ ticked.cache = n.cache /\ ticked.table = n.table
      /\ IF FinishRound(h)
         THEN r \in DOMAIN n.cache \cup DOMAIN n.table =>
               Counts(acc, ticked.accounts, Outsiders(list, round), Payees(round), h, -1)
         ELSE ticked.accounts = acc
  <2> HIDE DEF list, r
  <2>1. Len(new) > 0
    BY <1>1
  <2>3. CASE FinishRound(h)
    <3> DEFINE out == Outsiders(DelegateList(txs, h), round)
    <3>1. /\ Counts(txs.accounts, ticked.accounts, out, Payees(round), h, -1)
          /\ ticked.cache = txs.cache /\ ticked.table = txs.table
      <4>1. FinishRound(Len(new)) /\ IsAccounts(txs.accounts)
        BY <1>1, <1>4, <1>6, <2>3
      <4> HIDE DEF h
      <4> QED BY <1>1, <1>6, <2>1, <4>1, TicksCount
    <3>2. IsNode(ticked)
      <4>1. ticked = [txs EXCEPT !.accounts = ticked.accounts]
        <5> DEFINE old == RestoreVotesSnapshot(ApplyRound(
                            UpdateMissedBlocks(txs.accounts, out, h, -1), txs.changes, round, -1), txs.snapshot)
        <5>1. ticked = [txs EXCEPT !.accounts = old]
          BY <1>1, <2>3 DEF BackwardTick
        <5> HIDE DEF old, ticked
        <5> QED BY <1>6, <5>1 DEF IsNode
      <4> DEFINE a == ticked.accounts
      <4>2. ticked = [txs EXCEPT !.accounts = a]
        BY <4>1
      <4> HIDE DEF a, ticked
      <4> QED BY <1>6, <4>2 DEF IsNode
    <3> HIDE DEF ticked, h
    <3> QED BY <1>1, <1>6, <1>7, <2>3, <3>1, <3>2
  <2>4. CASE ~FinishRound(h)
    <3>1. ticked = txs
      BY <1>1, <2>4 DEF BackwardTick
    <3> HIDE DEF ticked, h
    <3> QED BY <1>1, <1>6, <2>4, <3>1
  <2> QED BY <2>3, <2>4
<1> HIDE DEF ticked
<1>9. CalcRound(h - 1) \in Nat
  BY <1>1, RoundBounds
<1>10. LET q == CalcRound(h - 1)
       IN IF Leaves(h - 1)
          THEN /\ \A x \in DOMAIN back.cache :
                    /\ x # q + 1
                    /\ \/ x \in DOMAIN n.cache /\ back.cache[x] = n.cache[x]
                       \/ x = q /\ back.cache[x] = n.table[q]
               /\ \A x : x \in DOMAIN back.table <=> x \in DOMAIN n.table /\ ~(x >= q + 1)
               /\ \A x \in DOMAIN back.table : back.table[x] = n.table[x]
          ELSE back.cache = n.cache /\ back.table = n.table
  <2> DEFINE k == h - 1
  <2>1. CalcRound(k) \in Nat
    BY <1>9
  <2> HIDE DEF k
  <2>2. LET s == DropLists(ticked, k)
            q == CalcRound(k)
        IN IF Leaves(k)
           THEN /\ \A x \in DOMAIN s.cache :
                     /\ x # q + 1
                     /\ \/ x \in DOMAIN ticked.cache /\ s.cache[x] = ticked.cache[x]
                        \/ x = q /\ s.cache[x] = ticked.table[q]
                /\ \A x : x \in DOMAIN s.table <=> x \in DOMAIN ticked.table /\ ~(x >= q + 1)
                /\ \A x \in DOMAIN s.table : s.table[x] = ticked.table[x]
           ELSE s.cache = ticked.cache /\ s.table = ticked.table
    BY <1>8, <2>1, DropsAre
  <2> QED BY <1>8, <2>2 DEF k
<1>11. IsNode(back) /\ back.accounts = ticked.accounts
  BY <1>8, ListsMoveNothing
<1> HIDE DEF back, class, m
<1>12. m.cache = back.cache /\ m.table = back.table /\ m.accounts = back.accounts
  <2> DEFINE front == Front(back.blocks)
  <2>1. m = [back EXCEPT !.blocks = front, !.changes = class]
    BY <1>5
  <2> HIDE DEF front
  <2> QED BY <1>11, <2>1 DEF IsNode
<1>13. IF FinishRound(h)
       THEN r \in DOMAIN n.cache \cup DOMAIN n.table =>
               Counts(acc, m.accounts, Outsiders(list, round), Payees(round), h, -1)
       ELSE m.accounts = acc
  <2> HIDE DEF list, round, r, h
  <2> QED BY <1>8, <1>11, <1>12
<1>14. Popped(n, bs, b, m)
  <2> HIDE DEF list, round, r
  <2> QED BY <1>10, <1>12, <1>13 DEF Popped, acc, new, list, round, r
<1> QED BY <1>14 DEF m

-----------------------------------------------------------------------------
(* The lists of a node are those of the history.                            *)
LEMMA GoodListsMore ==
  ASSUME NEW rp, NEW f, NEW k \in Int, NEW l \in Int, k <= l, GoodLists(rp, f, k)
  PROVE  GoodLists(rp, f, l)
<1> SUFFICES ASSUME NEW x \in DOMAIN f
             PROVE  x \in Nat /\ x > 0 /\ (x = 1 \/ Seed(x) <= l) /\ f[x] = ListOf(rp, x)
  BY DEF GoodLists
<1>1. x \in Nat /\ x > 0 /\ (x = 1 \/ Seed(x) <= k) /\ f[x] = ListOf(rp, x)
  BY DEF GoodLists
<1>2. Seed(x) \in Int
  <2>1. (x - 1) * ActiveDelegates \in Int
    BY <1>1, ADPositive
  <2> QED BY <2>1 DEF Seed, LastInRound
<1> QED BY <1>1, <1>2

LEMMA SeedType ==
  ASSUME NEW x \in Nat, x > 0
  PROVE  Seed(x) \in Nat /\ Seed(x) > 0
<1>1. CASE x = 1
  BY <1>1 DEF Seed
<1>2. CASE x # 1
  <2> DEFINE n == ActiveDelegates
  <2>1. n \in Nat /\ n > 0 /\ 1 <= x - 1 /\ x - 1 \in Int
    BY <1>2, ADPositive
  <2> HIDE DEF n
  <2>2. 1 * n <= (x - 1) * n
    BY <2>1, TimesMonotone
  <2>3. (x - 1) * n \in Int /\ Seed(x) = (x - 1) * n
    BY <1>2, <2>1 DEF Seed, LastInRound, n
  <2> QED BY <2>1, <2>2, <2>3
<1> QED BY <1>1, <1>2

LEMMA GoodListsStay ==
  ASSUME NEW rp, NEW rq, NEW f, NEW k \in Nat, NEW l \in Nat, l > 0, k <= l,
         \A i \in 1..l : rq[i] = rp[i], GoodLists(rp, f, k)
  PROVE  GoodLists(rq, f, k)
<1> SUFFICES ASSUME NEW x \in DOMAIN f
             PROVE  x \in Nat /\ x > 0 /\ (x = 1 \/ Seed(x) <= k) /\ f[x] = ListOf(rq, x)
  BY DEF GoodLists
<1>1. x \in Nat /\ x > 0 /\ (x = 1 \/ Seed(x) <= k) /\ f[x] = ListOf(rp, x)
  BY DEF GoodLists
<1>2. Seed(x) \in 1..l
  <2>1. Seed(x) \in Nat /\ Seed(x) > 0
    BY <1>1, SeedType
  <2>2. x = 1 => Seed(x) = 1
    BY DEF Seed
  <2> QED BY <1>1, <2>1, <2>2
<1>3. rq[Seed(x)] = rp[Seed(x)]
  BY <1>2
<1> QED BY <1>1, <1>3 DEF ListOf

(* An entry that is made is a list of the history as well.                  *)
LEMMA GoodListsEnter ==
  ASSUME NEW rp, NEW f, NEW g, NEW r, NEW list, NEW k, GoodLists(rp, g, k), EntersAt(f, g, r, list),
         r \in Nat, r > 0, r = 1 \/ Seed(r) <= k, list = ListOf(rp, r)
  PROVE  GoodLists(rp, f, k)
BY DEF GoodLists, EntersAt

LEMMA ReplayedStays ==
  ASSUME NEW rp, NEW rq, NEW bs, NEW cs, NEW k \in Nat, k > 0, Replayed(rp, bs, k),
         \A i \in 1..k : rq[i] = rp[i] /\ cs[i] = bs[i]
  PROVE  Replayed(rq, cs, k)
<1>1. rq[k] = rp[k]
  BY k \in 1..k
<1>2. Prefix(cs, k) = Prefix(bs, k)
  BY DEF Prefix
<1>3. k - 1 \in Nat /\ k - 1 <= k /\ \A i \in 1..k : rq[i] = rp[i]
  OBVIOUS
<1>4. GoodLists(rq, rq[k].cache, k - 1) /\ GoodLists(rq, rq[k].table, k - 1)
  <2> DEFINE j == k - 1
             c == rp[k].cache
             t == rp[k].table
  <2>1. GoodLists(rp, c, j) /\ GoodLists(rp, t, j) /\ j \in Nat /\ j <= k
    BY <1>3 DEF Replayed
  <2> HIDE DEF j, c, t
  <2>2. GoodLists(rq, c, j) /\ GoodLists(rq, t, j)
    BY <1>3, <2>1, GoodListsStay
  <2> QED BY <1>1, <2>2 DEF j, c, t
<1> QED BY <1>1, <1>2, <1>4 DEF Replayed

(* The list of the next block in the history is the one of its round,       *)
LEMMA ListOfHistory ==
  ASSUME NEW rp, NEW bs, NEW k \in Nat, k > 0, Replayed(rp, bs, k)
  PROVE  DelegateList(rp[k], k + 1) = ListOf(rp, CalcRound(k + 1))
<1> DEFINE r == CalcRound(k + 1)
           n == rp[k]
<1>1. GoodLists(rp, n.cache, k - 1) /\ GoodLists(rp, n.table, k - 1) /\ HasLists(n, k)
  BY DEF Replayed
<1>2. CASE r \in DOMAIN n.cache
  <2>1. DelegateList(n, k + 1) = n.cache[r]
    BY <1>2 DEF DelegateList
  <2> HIDE DEF n, r
  <2> QED BY <1>1, <1>2, <2>1 DEF GoodLists, n, r
<1>3. CASE r \notin DOMAIN n.cache /\ r \in DOMAIN n.table
  <2>1. DelegateList(n, k + 1) = n.table[r]
    BY <1>3 DEF DelegateList
  <2> HIDE DEF n, r
  <2> QED BY <1>1, <1>3, <2>1 DEF GoodLists, n, r
<1>4. CASE r \notin DOMAIN n.cache /\ r \notin DOMAIN n.table
  <2>1. CalcRound(k) # r
    <3>1. CASE k = 1
      <4>1. CalcRound(k) = 1 /\ 1 \in DOMAIN n.cache \cup DOMAIN n.table
        BY <1>1, <3>1, FirstRound DEF HasLists
      <4> HIDE DEF n, r
      <4> QED BY <1>4, <4>1
    <3>2. CASE k # 1
      <4>1. k \in 2..k
        BY <3>2
      <4>2. CalcRound(k) \in DOMAIN n.table
        BY <1>1, <4>1 DEF HasLists
      <4> HIDE DEF n, r
      <4> QED BY <1>4, <4>2
    <3> QED BY <3>1, <3>2
  <2>2. Seed(r) = k
    BY <2>1, SeedOfNext
  <2> QED BY <2>2 DEF ListOf
<1> HIDE DEF n, r
<1> QED BY <1>2, <1>3, <1>4 DEF n, r

LEMMA SameCandidates ==
  ASSUME NEW n, NEW m, SameStandings(n.accounts, m.accounts), SameStrengths(n.accounts, m.accounts)
  PROVE  Candidates(n) = Candidates(m)
<1>1. Delegates \subseteq AccountIds
  BY DEF Delegates
<1>2. ASSUME NEW a \in Delegates
      PROVE  /\ n.accounts[a].vote = m.accounts[a].vote /\ n.accounts[a].weight = m.accounts[a].weight
             /\ n.accounts[a].key = m.accounts[a].key /\ n.accounts[a].cmb = m.accounts[a].cmb
  BY <1>1 DEF SameStandings, SameStanding, SameStrengths
<1> QED BY <1>2 DEF Candidates

(* and so it is in a node that is not astray.                               *)
LEMMA ListOfNode ==
  ASSUME NEW rp, NEW bs, NEW k \in Nat, k > 0, Replayed(rp, bs, k), NEW n, Straight(rp, n, k),
         n.blocks = rp[k].blocks
  PROVE  DelegateList(n, k + 1) = ListOf(rp, CalcRound(k + 1))
<1> DEFINE r == CalcRound(k + 1)
           m == rp[k]
<1>1. /\ GoodLists(rp, n.cache, k) /\ GoodLists(rp, n.table, k) /\ HasLists(n, k)
      /\ SameStandings(n.accounts, m.accounts)
      /\ k > 1 /\ FinishRound(k) /\ r \notin DOMAIN n.table => SameStrengths(n.accounts, m.accounts)
  BY DEF Straight
<1>2. CASE r \in DOMAIN n.cache
  <2>1. DelegateList(n, k + 1) = n.cache[r]
    BY <1>2 DEF DelegateList
  <2> HIDE DEF r
  <2> QED BY <1>1, <1>2, <2>1 DEF GoodLists, r
<1>3. CASE r \notin DOMAIN n.cache /\ r \in DOMAIN n.table
  <2>1. DelegateList(n, k + 1) = n.table[r]
    BY <1>3 DEF DelegateList
  <2> HIDE DEF r
  <2> QED BY <1>1, <1>3, <2>1 DEF GoodLists, r
<1>4. CASE r \notin DOMAIN n.cache /\ r \notin DOMAIN n.table
  <2>1. k # 1
    <3> SUFFICES ASSUME k = 1 PROVE FALSE
      OBVIOUS
    <3>1. r = 1 /\ 1 \in DOMAIN n.cache \cup DOMAIN n.table
      BY <1>1, FirstRound DEF HasLists
    <3> HIDE DEF r
    <3> QED BY <1>4, <3>1
  <2>2. CalcRound(k) # r
    <3>1. k \in 2..k
      BY <2>1
    <3>2. CalcRound(k) \in DOMAIN n.table
      BY <1>1, <3>1 DEF HasLists
    <3> HIDE DEF r
    <3> QED BY <1>4, <3>2
  <2>3. Seed(r) = k /\ r # 1
    BY <2>2, SeedOfNext
  <2>4. r \notin DOMAIN m.cache /\ r \notin DOMAIN m.table
    <3>1. GoodLists(rp, m.cache, k - 1) /\ GoodLists(rp, m.table, k - 1)
      BY DEF Replayed
    <3>2. ~(Seed(r) <= k - 1)
      BY <2>3
    <3> HIDE DEF m, r
    <3> QED BY <2>3, <3>1, <3>2 DEF GoodLists
  <2>5. FinishRound(k) /\ k > 1
    BY <2>1, <2>2 DEF FinishRound
  <2>6. Candidates(n) = Candidates(m)
    BY <1>1, <1>4, <2>5, SameCandidates
  <2>7. /\ DelegateList(n, k + 1) = Generate(Candidates(n), n.blocks, k + 1)
        /\ DelegateList(m, k + 1) = Generate(Candidates(m), m.blocks, k + 1)
    BY <1>4, <2>4 DEF DelegateList
  <2>8. ListOf(rp, r) = DelegateList(m, k + 1)
    BY <2>3 DEF ListOf
  <2> HIDE DEF r
  <2> QED BY <2>6, <2>7, <2>8 DEF r
<1> HIDE DEF r, m
<1> QED BY <1>2, <1>3, <1>4 DEF r

(* The end of a round counts the same in two nodes with the same list,      *)
LEMMA CountTheSame ==
  ASSUME NEW x, NEW y, NEW x2, NEW y2, NEW out, NEW payees, NEW h, NEW sign,
         SameStandings(x, y), Counts(x, x2, out, payees, h, sign), Counts(y, y2, out, payees, h, sign)
  PROVE  SameStandings(x2, y2)
BY DEF SameStandings, SameStanding, Counts

(* and its strengths are then the same with the same money.                 *)
LEMMA StrengthsAreSame ==
  ASSUME NEW x, NEW y, SameStandings(x, y), SameMoneyAs(x, y), StrengthsOf(x), StrengthsOf(y)
  PROVE  SameStrengths(x, y)
<1>1. Stakes(x) = Stakes(y)
  BY DEF Stakes, SameStandings, SameStanding, SameMoneyAs, SameMoney
<1>2. Delegates \subseteq AccountIds
  BY DEF Delegates
<1> SUFFICES ASSUME NEW d \in Delegates PROVE x[d].vote = y[d].vote /\ x[d].weight = y[d].weight
  BY DEF SameStrengths
<1>3. x[d].produced = y[d].produced /\ x[d].missed = y[d].missed
  BY <1>2 DEF SameStandings, SameStanding, SameMoneyAs, SameMoney
<1>4. /\ x[d].vote = VoteOf(Stakes(x), d) /\ y[d].vote = VoteOf(Stakes(y), d)
      /\ x[d].weight = WeightOf(Stakes(x), d, x[d].produced, x[d].missed)
      /\ y[d].weight = WeightOf(Stakes(y), d, y[d].produced, y[d].missed)
  BY DEF StrengthsOf
<1> HIDE DEF Stakes
<1> QED BY <1>1, <1>3, <1>4

-----------------------------------------------------------------------------
(* A block is applied to the history,                                       *)
LEMMA WholePrefix ==
  ASSUME NEW bs, IsChain(bs)
  PROVE  Prefix(bs, Len(bs)) = bs
BY DEF Prefix, IsChain, IsList

LEMMA NotV2Before ==
  ASSUME NEW h \in Nat, ~IsV2(h + 1)
  PROVE  ~IsV2(h)
<1>1. FirstV2 \in Int
  BY RoundsAssumption
<1> QED BY <1>1 DEF IsV2

LEMMA CountsKeep ==
  ASSUME NEW acc, NEW new, NEW out, NEW payees, NEW h, NEW sign \in {1, -1},
         Counts(acc, new, out, payees, h, sign), Counted(acc)
  PROVE  /\ Counted(new)
         /\ \A a \in AccountIds : new[a].votes = acc[a].votes /\ new[a].key = acc[a].key
         /\ ~IsV2(h) /\ (\A a \in AccountIds : acc[a].cmb = 0) => \A a \in AccountIds : new[a].cmb = 0
<1>1. ASSUME NEW a \in AccountIds
      PROVE  /\ new[a].missed \in Int /\ new[a].cmb \in Int
             /\ new[a].votes = acc[a].votes /\ new[a].key = acc[a].key
             /\ ~IsV2(h) /\ acc[a].cmb = 0 => new[a].cmb = 0
  <2>1. acc[a].missed \in Int /\ acc[a].cmb \in Int /\ sign \in Int
    BY DEF Counted
  <2> QED BY <2>1 DEF Counts
<1> QED BY <1>1 DEF Counted

LEMMA ListsAfter ==
  ASSUME NEW bs, IsChain(bs), Len(bs) > 0, NEW b, NEW n, NEW m, Applied(n, bs, b, m),
         NEW rp, NEW rq, \A i \in 1..Len(bs) : rq[i] = rp[i],
         GoodLists(rp, n.cache, Len(bs)), GoodLists(rp, n.table, Len(bs)), HasLists(n, Len(bs)),
         DelegateList(n, Len(bs) + 1) = ListOf(rp, CalcRound(Len(bs) + 1))
  PROVE  /\ GoodLists(rq, m.cache, Len(bs)) /\ GoodLists(rq, m.table, Len(bs))
         /\ HasLists(m, Len(bs) + 1)
<1> DEFINE k == Len(bs)
           h == k + 1
           r == CalcRound(h)
           list == DelegateList(n, h)
<1>1. k \in Nat /\ k > 0 /\ h \in Nat
  BY DEF IsChain, IsList
<1>2. /\ EntersAt(m.cache, n.cache, r, list) /\ EntersAt(m.table, n.table, r, list)
      /\ DOMAIN n.table \subseteq DOMAIN m.table
      /\ FirstInRound(r) = h \/ h = 2 => r \in DOMAIN m.table
  BY DEF Applied
<1> HIDE DEF list
<1>3. r \in Nat /\ r > 0 /\ Seed(r) <= k
  <2>1. Seed(r) \in 1..k
    BY <1>1, SeedOfNext
  <2>2. h > 0
    BY <1>1
  <2>3. r \in Nat /\ r > 0
    BY <1>1, <2>2, RoundBounds
  <2> QED BY <1>1, <2>1, <2>3
<1>4. list = ListOf(rp, r)
  BY DEF list
<1>5. HasLists(m, h)
  <2>1. ASSUME NEW j \in 2..h PROVE CalcRound(j) \in DOMAIN m.table
    <3>1. CASE j = h
      <4>1. CASE k = 1 \/ CalcRound(k) # r
        <5>1. FirstInRound(r) = h \/ h = 2
          <6>1. CalcRound(k) # CalcRound(k + 1) => FirstInRound(CalcRound(k + 1)) = k + 1
            BY <1>1, SeedOfNext
          <6>2. k = 1 => h = 2
            OBVIOUS
          <6> QED BY <4>1, <6>1, <6>2
        <5> HIDE DEF r
        <5> QED BY <1>2, <3>1, <5>1 DEF r
      <4>2. CASE k # 1 /\ CalcRound(k) = r
        <5>1. k \in 2..k
          <6>1. k # 1
            BY <4>2
          <6> HIDE DEF k
          <6> QED BY <1>1, <6>1
        <5>2. CalcRound(k) \in DOMAIN n.table
          BY <5>1 DEF HasLists
        <5>3. r \in DOMAIN m.table
          <6> HIDE DEF r
          <6> QED BY <1>2, <4>2, <5>2
        <5> QED BY <3>1, <5>3
      <4> QED BY <4>1, <4>2
    <3>2. CASE j # h
      <4>1. j \in 2..k
        BY <1>1, <3>2
      <4>2. CalcRound(j) \in DOMAIN n.table
        BY <4>1 DEF HasLists
      <4> QED BY <1>2, <4>2
    <3> QED BY <3>1, <3>2
  <2>2. h # 1
    BY <1>1
  <2> HIDE DEF h
  <2> QED BY <2>1, <2>2 DEF HasLists
<1> HIDE DEF r
<1>6. GoodLists(rp, m.cache, k) /\ GoodLists(rp, m.table, k)
  <2> HIDE DEF k
  <2>1. GoodLists(rp, n.cache, k) /\ GoodLists(rp, n.table, k)
    BY DEF k
  <2> QED BY <1>2, <1>3, <1>4, <2>1, GoodListsEnter
<1>7. GoodLists(rq, m.cache, k) /\ GoodLists(rq, m.table, k)
  <2>1. \A i \in 1..k : rq[i] = rp[i]
    OBVIOUS
  <2>2. k <= k
    BY <1>1
  <2> HIDE DEF k
  <2> QED BY <1>1, <1>6, <2>1, <2>2, GoodListsStay
<1> QED BY <1>5, <1>7

LEMMA ReplayedAfter ==
  ASSUME NEW bs, IsChain(bs), Len(bs) > 0, NEW b, IsBlock(b),
         NEW rp, Replayed(rp, bs, Len(bs)), Sound(rp[Len(bs)], bs),
         NEW rq, \A i \in 1..Len(bs) : rq[i] = rp[i],
         rq[Len(bs) + 1] = ApplyBlock(rp[Len(bs)], b)
  PROVE  Replayed(rq, Append(bs, b), Len(bs) + 1)
<1> DEFINE k == Len(bs)
           h == k + 1
           cs == Append(bs, b)
           p == rp[k]
           m == ApplyBlock(p, b)
           list == DelegateList(p, h)
           acc == ApplyTxs(p.accounts, b.txs)
<1>1. k \in Nat /\ k > 0 /\ h - 1 = k /\ Len(cs) = h /\ IsChain(cs)
  BY AppendToChain DEF IsChain, IsList
<1>2. Applied(p, bs, b, m)
  BY BlockApplies
<1> HIDE DEF m
<1>3. /\ GoodLists(rp, p.cache, k - 1) /\ GoodLists(rp, p.table, k - 1) /\ HasLists(p, k)
      /\ Counted(p.accounts)
      /\ ~IsV2(k) => \A a \in AccountIds : p.accounts[a].cmb = 0
      /\ \A a \in AccountIds : /\ p.accounts[a].votes = Before(bs, a).votes
                               /\ p.accounts[a].key = Before(bs, a).key
  BY WholePrefix DEF Replayed
<1>4. list = ListOf(rp, CalcRound(h))
  BY <1>1, ListOfHistory
<1>5. GoodLists(rq, m.cache, k) /\ GoodLists(rq, m.table, k) /\ HasLists(m, h)
  <2>1. GoodLists(rp, p.cache, k) /\ GoodLists(rp, p.table, k)
    <3>1. k - 1 \in Int /\ k \in Int /\ k - 1 <= k
      BY <1>1
    <3> HIDE DEF k, p
    <3> QED BY <1>3, <3>1, GoodListsMore
  <2> HIDE DEF p
  <2> QED BY <1>2, <1>3, <1>4, <2>1, ListsAfter
<1>6. StandAfter(acc, cs, list, m.accounts)
  BY <1>2 DEF Applied
<1>7. IsAccounts(p.accounts)
  BY DEF Sound
<1>8. ASSUME NEW a \in AccountIds
      PROVE  /\ acc[a].missed = p.accounts[a].missed /\ acc[a].cmb = p.accounts[a].cmb
             /\ acc[a].votes = Before(cs, a).votes /\ acc[a].key = Before(cs, a).key
  <2> DEFINE old == p.accounts
             txs == b.txs
  <2>1. IsAccounts(old) /\ Few(txs)
    BY <1>7 DEF IsBlock
  <2>2. /\ Before(cs, a).votes = VotesAfter(txs, a, Before(bs, a).votes)
        /\ Before(cs, a).key = KeyAfter(txs, a, Before(bs, a).key)
    BY BeforeAppend
  <2>3. old[a].votes = Before(bs, a).votes /\ old[a].key = Before(bs, a).key
    BY <1>3
  <2>4. acc = ApplyTxs(old, txs)
    OBVIOUS
  <2> HIDE DEF old, txs, acc
  <2>5. LET r == ApplyTxs(old, txs)
        IN /\ r[a].missed = old[a].missed /\ r[a].cmb = old[a].cmb
           /\ r[a].votes = VotesAfter(txs, a, old[a].votes) /\ r[a].key = KeyAfter(txs, a, old[a].key)
    BY <2>1, ApplyTxsStand
  <2>6. /\ acc[a].missed = old[a].missed /\ acc[a].cmb = old[a].cmb
        /\ acc[a].votes = VotesAfter(txs, a, Before(bs, a).votes)
        /\ acc[a].key = KeyAfter(txs, a, Before(bs, a).key)
    BY <2>3, <2>4, <2>5
  <2> HIDE DEF cs
  <2> QED BY <2>2, <2>6 DEF old
<1>9. Counted(acc)
  <2> DEFINE old == p.accounts
  <2>1. Counted(old)
    BY <1>3
  <2>2. \A a \in AccountIds : acc[a].missed = old[a].missed /\ acc[a].cmb = old[a].cmb
    BY <1>8
  <2> HIDE DEF acc, old
  <2> QED BY <2>1, <2>2 DEF Counted
<1>10. /\ Counted(m.accounts)
       /\ \A a \in AccountIds : m.accounts[a].votes = acc[a].votes /\ m.accounts[a].key = acc[a].key
       /\ ~IsV2(h) => \A a \in AccountIds : m.accounts[a].cmb = 0
  <2>1. ~IsV2(h) => \A a \in AccountIds : acc[a].cmb = 0
    <3>1. ~IsV2(h) => ~IsV2(k)
      BY <1>1, NotV2Before
    <3> DEFINE old == p.accounts
    <3>2. ~IsV2(k) => \A a \in AccountIds : old[a].cmb = 0
      BY <1>3
    <3>3. \A a \in AccountIds : acc[a].cmb = old[a].cmb
      BY <1>8
    <3> HIDE DEF acc, old, h, k
    <3> QED BY <3>1, <3>2, <3>3
  <2> HIDE DEF acc, list, cs, h
  <2>2. CASE FinishRound(h)
    <3> DEFINE round == RoundBlocks(cs, h)
               out == Outsiders(list, round)
    <3>1. Counts(acc, m.accounts, out, Payees(round), h, 1)
      BY <1>1, <1>6, <2>2 DEF StandAfter
    <3> HIDE DEF round, out
    <3> QED BY <1>9, <2>1, <3>1, CountsKeep
  <2>3. CASE ~FinishRound(h)
    <3>1. m.accounts = acc
      BY <1>1, <1>6, <2>3 DEF StandAfter
    <3> QED BY <1>9, <2>1, <3>1
  <2> QED BY <2>2, <2>3
<1>11. rq[h] = m
  BY DEF m
<1>12. Prefix(cs, h) = cs
  BY <1>1, WholePrefix
<1> HIDE DEF h, k, cs, acc
<1>13. \A a \in AccountIds : /\ m.accounts[a].votes = Before(cs, a).votes
                             /\ m.accounts[a].key = Before(cs, a).key
  BY <1>8, <1>10
<1>14. Replayed(rq, cs, h)
  BY <1>1, <1>5, <1>10, <1>11, <1>12, <1>13 DEF Replayed
<1> QED BY <1>14 DEF h, k, cs

(* and to a node that is not astray.                                        *)
LEMMA StraightAfter ==
  ASSUME NEW bs, IsChain(bs), Len(bs) > 0, NEW b, IsBlock(b),
         NEW rp, Replayed(rp, bs, Len(bs)), Sound(rp[Len(bs)], bs),
         NEW rq, \A i \in 1..Len(bs) : rq[i] = rp[i],
         rq[Len(bs) + 1] = ApplyBlock(rp[Len(bs)], b),
         NEW n, Sound(n, bs), Straight(rp, n, Len(bs)),
         SameMoneyAs(ApplyBlock(n, b).accounts, ApplyBlock(rp[Len(bs)], b).accounts)
  PROVE  Straight(rq, ApplyBlock(n, b), Len(bs) + 1)
<1> DEFINE k == Len(bs)
           h == k + 1
           cs == Append(bs, b)
           p == rp[k]
           r == ApplyBlock(p, b)
           m == ApplyBlock(n, b)
           list == DelegateList(n, h)
           x == ApplyTxs(n.accounts, b.txs)
           y == ApplyTxs(p.accounts, b.txs)
<1>1. k \in Nat /\ k > 0 /\ h \in Nat /\ Len(cs) = h
  BY AppendToChain DEF IsChain, IsList
<1>2. Applied(p, bs, b, r) /\ Applied(n, bs, b, m)
  BY BlockApplies
<1>3. SameMoneyAs(m.accounts, r.accounts) /\ rq[h] = r
  OBVIOUS
<1> HIDE DEF m, r
<1>4. DelegateList(p, h) = ListOf(rp, CalcRound(h)) /\ list = ListOf(rp, CalcRound(h))
  <2>1. n.blocks = p.blocks
    BY DEF Sound
  <2> QED BY <1>1, <2>1, ListOfHistory, ListOfNode
<1>5. /\ GoodLists(rp, n.cache, k) /\ GoodLists(rp, n.table, k) /\ HasLists(n, k)
      /\ SameStandings(n.accounts, p.accounts)
  BY DEF Straight
<1>6. GoodLists(rq, m.cache, h) /\ GoodLists(rq, m.table, h) /\ HasLists(m, h)
  <2>1. GoodLists(rq, m.cache, k) /\ GoodLists(rq, m.table, k) /\ HasLists(m, h)
    BY <1>2, <1>4, <1>5, ListsAfter
  <2>2. k \in Int /\ h \in Int /\ k <= h
    BY <1>1
  <2> HIDE DEF k, h
  <2> QED BY <2>1, <2>2, GoodListsMore
<1>7. SameStandings(x, y)
  <2> DEFINE u == n.accounts
             v == p.accounts
             txs == b.txs
  <2>1. IsAccounts(u) /\ IsAccounts(v) /\ Few(txs) /\ SameStandings(u, v)
    BY <1>5 DEF IsBlock, Sound
  <2> HIDE DEF u, v, txs
  <2>2. ASSUME NEW a \in AccountIds PROVE SameStanding(ApplyTxs(u, txs)[a], ApplyTxs(v, txs)[a])
    <3>1. \A acc : IsAccounts(acc) =>
            LET q == ApplyTxs(acc, txs)
            IN /\ q[a].missed = acc[a].missed /\ q[a].cmb = acc[a].cmb
               /\ q[a].votes = VotesAfter(txs, a, acc[a].votes)
               /\ q[a].key = KeyAfter(txs, a, acc[a].key)
      BY <2>1, ApplyTxsStand
    <3>2. SameStanding(u[a], v[a])
      BY <2>1 DEF SameStandings
    <3> QED BY <2>1, <3>1, <3>2 DEF SameStanding
  <2> QED BY <2>2 DEF SameStandings, u, v, txs
<1>8. StandAfter(x, cs, list, m.accounts) /\ StandAfter(y, cs, list, r.accounts)
  <2>1. StandAfter(x, cs, list, m.accounts) /\ StandAfter(y, cs, DelegateList(p, h), r.accounts)
    BY <1>2 DEF Applied
  <2> QED BY <1>4, <2>1
<1> HIDE DEF x, y, list, cs, h, p
<1>9. /\ SameStandings(m.accounts, r.accounts)
      /\ FinishRound(h) => SameStrengths(m.accounts, r.accounts)
  <2>1. CASE FinishRound(h)
    <3> DEFINE round == RoundBlocks(cs, h)
               out == Outsiders(list, round)
    <3>1. /\ Counts(x, m.accounts, out, Payees(round), h, 1) /\ StrengthsOf(m.accounts)
          /\ Counts(y, r.accounts, out, Payees(round), h, 1) /\ StrengthsOf(r.accounts)
      BY <1>1, <1>8, <2>1 DEF StandAfter
    <3> HIDE DEF round, out
    <3>2. SameStandings(m.accounts, r.accounts)
      BY <1>7, <3>1, CountTheSame
    <3> QED BY <1>3, <3>1, <3>2, StrengthsAreSame
  <2>2. CASE ~FinishRound(h)
    <3>1. m.accounts = x /\ r.accounts = y
      BY <1>1, <1>8, <2>2 DEF StandAfter
    <3> QED BY <1>7, <2>2, <3>1
  <2> QED BY <2>1, <2>2
<1>10. Straight(rq, m, h)
  BY <1>3, <1>6, <1>9 DEF Straight
<1> QED BY <1>10 DEF m, h, k

-----------------------------------------------------------------------------
(* A block is popped from a node that is not astray: lists                  *)
LEMMA KeptIsBelow ==
  ASSUME NEW h \in Nat, h > 1, NEW x \in Nat, x > 0, x = 1 \/ Seed(x) <= h,
         Leaves(h - 1) => x # CalcRound(h - 1) + 1
  PROVE  x = 1 \/ Seed(x) <= h - 1
<1> DEFINE n == ActiveDelegates
           q == CalcRound(h - 1)
<1>1. n \in Nat /\ n > 0 /\ q \in Nat
  <2>1. h - 1 \in Nat /\ h - 1 > 0
    OBVIOUS
  <2> QED BY <2>1, ADPositive, RoundBounds
<1> SUFFICES ASSUME x # 1 PROVE Seed(x) <= h - 1
  OBVIOUS
<1>2. Seed(x) = (x - 1) * n /\ LastInRound(q) = q * n
  BY DEF Seed, LastInRound
<1> HIDE DEF n
<1>3. ASSUME h > 2 /\ LastInRound(q) = h PROVE x < q + 1
  <2>1. Leaves(h - 1)
    BY <1>3 DEF Leaves
  <2> HIDE DEF q
  <2>2. (x - 1) * n <= q * n
    BY <1>2, <1>3
  <2>3. x - 1 \in Int /\ q \in Int
    BY <1>1
  <2>4. x - 1 <= q
    BY <1>1, <2>2, <2>3, TimesMonotone
  <2> QED BY <1>1, <2>1, <2>4 DEF q
<1> QED BY <1>3, SeedBelow

LEMMA ListsBefore ==
  ASSUME NEW bs, IsChain(bs), Len(bs) > 0, NEW b, NEW n, NEW m, Popped(n, bs, b, m),
         NEW rp, NEW rq, \A i \in 1..Len(bs) : rq[i] = rp[i],
         GoodLists(rp, n.cache, Len(bs) + 1), GoodLists(rp, n.table, Len(bs) + 1),
         HasLists(n, Len(bs) + 1)
  PROVE  /\ GoodLists(rq, m.cache, Len(bs)) /\ GoodLists(rq, m.table, Len(bs))
         /\ HasLists(m, Len(bs))
         /\ Len(bs) > 1 /\ FinishRound(Len(bs)) => CalcRound(Len(bs) + 1) \in DOMAIN m.table
<1> DEFINE k == Len(bs)
           h == k + 1
           q == CalcRound(k)
<1>1. k \in Nat /\ k > 0 /\ h \in Nat /\ h > 1 /\ h - 1 = k
  BY DEF IsChain, IsList
<1>2. IF Leaves(k)
      THEN /\ \A x \in DOMAIN m.cache :
                /\ x # q + 1
                /\ \/ x \in DOMAIN n.cache /\ m.cache[x] = n.cache[x]
                   \/ x = q /\ m.cache[x] = n.table[q]
           /\ \A x : x \in DOMAIN m.table <=> x \in DOMAIN n.table /\ ~(x >= q + 1)
           /\ \A x \in DOMAIN m.table : m.table[x] = n.table[x]
      ELSE m.cache = n.cache /\ m.table = n.table
  BY <1>1 DEF Popped
<1>3. q \in Nat /\ q > 0
  BY <1>1, RoundBounds
<1>4. Leaves(k) => k # 1
  BY DEF Leaves
<1>5. \A j \in 2..h : CalcRound(j) \in DOMAIN n.table
  BY DEF HasLists
<1>6. k # 1 => q \in DOMAIN n.table
  <2>1. k # 1 => k \in 2..h
    BY <1>1
  <2> QED BY <1>5, <2>1
<1> DEFINE Good(f) == \A x \in DOMAIN f : x \in Nat /\ x > 0 /\ (x = 1 \/ Seed(x) <= h) /\ f[x] = ListOf(rp, x)
<1>7. Good(n.cache) /\ Good(n.table)
  BY DEF GoodLists
<1>8. ASSUME NEW x \in Nat, x > 0, x = 1 \/ Seed(x) <= h, Leaves(k) => x # q + 1
      PROVE  x = 1 \/ Seed(x) <= k
  <2>1. Leaves(h - 1) => x # CalcRound(h - 1) + 1
    BY <1>1, <1>8
  <2> HIDE DEF h
  <2>2. x = 1 \/ Seed(x) <= h - 1
    BY <1>1, <1>8, <2>1, KeptIsBelow
  <2> QED BY <1>1, <2>2
<1> HIDE DEF q
<1>9. ASSUME NEW x \in DOMAIN m.cache
      PROVE  x \in Nat /\ x > 0 /\ (x = 1 \/ Seed(x) <= k) /\ m.cache[x] = ListOf(rp, x)
  <2>1. /\ Leaves(k) => x # q + 1
        /\ \/ x \in DOMAIN n.cache /\ m.cache[x] = n.cache[x]
           \/ x \in DOMAIN n.table /\ m.cache[x] = n.table[x]
    <3> HIDE DEF k
    <3> QED BY <1>2, <1>4, <1>6
  <2>2. x \in Nat /\ x > 0 /\ (x = 1 \/ Seed(x) <= h) /\ m.cache[x] = ListOf(rp, x)
    BY <1>7, <2>1
  <2> HIDE DEF h, k
  <2> QED BY <1>8, <2>1, <2>2
<1>10. ASSUME NEW x \in DOMAIN m.table
       PROVE  x \in Nat /\ x > 0 /\ (x = 1 \/ Seed(x) <= k) /\ m.table[x] = ListOf(rp, x)
  <2>1. /\ Leaves(k) => ~(x >= q + 1)
        /\ x \in DOMAIN n.table /\ m.table[x] = n.table[x]
    <3> HIDE DEF k
    <3> QED BY <1>2
  <2>2. x \in Nat /\ x > 0 /\ (x = 1 \/ Seed(x) <= h) /\ m.table[x] = ListOf(rp, x)
    BY <1>7, <2>1
  <2>3. Leaves(k) => x # q + 1
    BY <1>3, <2>1, <2>2
  <2> HIDE DEF h, k
  <2> QED BY <1>8, <2>2, <2>3
<1>11. GoodLists(rq, m.cache, k) /\ GoodLists(rq, m.table, k)
  <2>1. (\A i \in 1..k : rq[i] = rp[i]) /\ k <= k
    BY <1>1
  <2> HIDE DEF k, h
  <2>2. GoodLists(rp, m.cache, k) /\ GoodLists(rp, m.table, k)
    BY <1>9, <1>10 DEF GoodLists
  <2> QED BY <1>1, <2>1, <2>2, GoodListsStay
<1>12. HasLists(m, k)
  <2>1. ASSUME NEW j \in 2..k PROVE CalcRound(j) \in DOMAIN m.table
    <3>1. CalcRound(j) \in DOMAIN n.table
      <4>1. j \in 2..h
        BY <1>1
      <4> QED BY <1>5, <4>1
    <3>2. CalcRound(j) <= q /\ CalcRound(j) \in Nat
      <4>1. j \in Nat /\ j > 0 /\ k >= j
        BY <1>1
      <4> HIDE DEF k
      <4> QED BY <1>1, <4>1, RoundMonotone, RoundBounds DEF q
    <3>3. ~(CalcRound(j) >= q + 1)
      BY <1>3, <3>2
    <3> HIDE DEF k
    <3> QED BY <1>2, <3>1, <3>3
  <2>2. ASSUME k = 1 PROVE 1 \in DOMAIN m.cache \cup DOMAIN m.table
    <3>1. m.table = n.table
      <4> HIDE DEF k
      <4> QED BY <1>2, <1>4, <2>2
    <3>2. 2 \in 2..h
      BY <2>2
    <3>3. CalcRound(2) \in DOMAIN n.table
      BY <1>5, <3>2
    <3> QED BY <3>1, <3>3, FirstRound
  <2> HIDE DEF k
  <2> QED BY <2>1, <2>2 DEF HasLists
<1>13. ASSUME k > 1, FinishRound(k) PROVE CalcRound(h) \in DOMAIN m.table
  <2>1. CalcRound(k) # CalcRound(k + 1)
    <3>1. k > 1 /\ FinishRound(k)
      BY <1>13
    <3> HIDE DEF k
    <3> QED BY <1>1, <3>1 DEF FinishRound
  <2>2. LastInRound(CalcRound(k)) = k
    BY <1>1, <2>1, SeedOfNext
  <2>3. ~Leaves(k)
    <3> HIDE DEF k
    <3> QED BY <1>1, <2>2 DEF Leaves
  <2>4. CalcRound(h) \in DOMAIN n.table
    <3>1. h \in 2..h
      BY <1>1
    <3> HIDE DEF h
    <3> QED BY <1>5, <3>1
  <2> HIDE DEF k, h
  <2> QED BY <1>2, <2>3, <2>4
<1> QED BY <1>11, <1>12, <1>13

(* and accounts are those of the history before it, when who is paid for    *)
(* the round had missed no block in version 2.                              *)
LEMMA StraightBefore ==
  ASSUME NEW bs, IsChain(bs), Len(bs) > 0, NEW b, IsBlock(b),
         NEW rp, Replayed(rp, bs, Len(bs)), Sound(rp[Len(bs)], bs),
         rp[Len(bs) + 1] = ApplyBlock(rp[Len(bs)], b),
         NEW n, Sound(n, Append(bs, b)), Straight(rp, n, Len(bs) + 1),
         FinishRound(Len(bs) + 1) /\ IsV2(Len(bs) + 1) =>
           \A a \in AccountIds :
             a \in Payees(RoundBlocks(Append(bs, b), Len(bs) + 1)) => rp[Len(bs)].accounts[a].cmb = 0,
         NEW rq, \A i \in 1..Len(bs) : rq[i] = rp[i]
  PROVE  Straight(rq, PopBlock(n), Len(bs))
<1> DEFINE k == Len(bs)
           h == k + 1
           cs == Append(bs, b)
           p == rp[k]
           r == rp[h]
           m == PopBlock(n)
           q == CalcRound(h)
           old == p.accounts
           new == r.accounts
           now == n.accounts
           then == m.accounts
           x == ApplyTxs(old, b.txs)
           y == UndoTxs(now, b.txs, bs)
           round == RoundBlocks(cs, h)
           list == IF q \in DOMAIN n.cache THEN n.cache[q] ELSE n.table[q]
           out == Outsiders(list, round)
           P == Payees(round)
<1>1. k \in Nat /\ k > 0 /\ h \in Nat /\ Len(cs) = h
  BY AppendToChain DEF IsChain, IsList
<1>2. Applied(p, bs, b, r) /\ Popped(n, bs, b, m)
  BY BlockApplies, BlockPops
<1> HIDE DEF m
<1>3. /\ GoodLists(rp, n.cache, h) /\ GoodLists(rp, n.table, h) /\ HasLists(n, h)
      /\ SameStandings(now, new)
  BY DEF Straight
<1>4. /\ GoodLists(rq, m.cache, k) /\ GoodLists(rq, m.table, k) /\ HasLists(m, k)
      /\ k > 1 /\ FinishRound(k) => CalcRound(k + 1) \in DOMAIN m.table
  BY <1>2, <1>3, ListsBefore
<1>5. q \in DOMAIN n.table
  <2>1. h \in 2..h
    BY <1>1
  <2> HIDE DEF h
  <2> QED BY <1>3, <2>1 DEF HasLists
<1>6. list = DelegateList(p, h)
  <2>1. list = ListOf(rp, q)
    <3> HIDE DEF q
    <3> QED BY <1>3, <1>5 DEF GoodLists
  <2>2. DelegateList(p, h) = ListOf(rp, q)
    BY <1>1, ListOfHistory
  <2> QED BY <2>1, <2>2
<1>7. Counted(old) /\ (~IsV2(h) => \A a \in AccountIds : old[a].cmb = 0)
  <2>1. Counted(old) /\ (~IsV2(k) => \A a \in AccountIds : old[a].cmb = 0)
    BY DEF Replayed
  <2>2. ~IsV2(h) => ~IsV2(k)
    BY <1>1, NotV2Before
  <2> QED BY <2>1, <2>2
<1>8. \A a \in AccountIds : old[a].votes = Before(bs, a).votes /\ old[a].key = Before(bs, a).key
  BY WholePrefix DEF Replayed
<1>9. FinishRound(h) => \A a \in AccountIds : a \in P => old[a].cmb = 0
  BY <1>7
<1>10. IF FinishRound(h) THEN Counts(x, new, out, P, h, 1) ELSE new = x
  <2>1. StandAfter(x, cs, DelegateList(p, h), new)
    BY <1>2 DEF Applied
  <2> HIDE DEF x, cs, list, new, h
  <2> QED BY <1>1, <1>6, <2>1 DEF StandAfter
<1>11. IF FinishRound(h) THEN Counts(y, then, out, P, h, -1) ELSE then = y
  <2>1. q \in DOMAIN n.cache \cup DOMAIN n.table
    BY <1>5
  <2> HIDE DEF m
  <2> QED BY <1>2, <2>1 DEF Popped
<1>12. IsAccounts(old) /\ IsAccounts(now) /\ Few(b.txs)
  BY DEF Sound, IsBlock
<1> HIDE DEF out, P, h, old, new, now, then
<1>13. ASSUME NEW a \in AccountIds PROVE SameStanding(then[a], old[a])
  <2> DEFINE txs == b.txs
             sent == \E t \in txs : Tx[t].sender = a
  <2>1. /\ x[a].missed = old[a].missed /\ x[a].cmb = old[a].cmb
        /\ x[a].votes = VotesAfter(txs, a, old[a].votes) /\ x[a].key = KeyAfter(txs, a, old[a].key)
    <3> HIDE DEF txs
    <3> QED BY <1>12, ApplyTxsStand DEF txs
  <2>2. /\ y[a].missed = now[a].missed /\ y[a].cmb = now[a].cmb
        /\ y[a].votes = IF sent THEN Before(bs, a).votes ELSE now[a].votes
        /\ y[a].key = IF sent THEN Before(bs, a).key ELSE now[a].key
    BY <1>12, UndoTxsStand
  <2>3. ~sent => /\ VotesAfter(txs, a, old[a].votes) = old[a].votes
                 /\ KeyAfter(txs, a, old[a].key) = old[a].key
    BY DEF VotesAfter, KeyAfter, Has
  <2>4. SameStanding(now[a], new[a])
    BY <1>3 DEF SameStandings
  <2> HIDE DEF x, y, txs, sent
  <2>5. then[a].votes = y[a].votes /\ then[a].key = y[a].key /\ new[a].votes = x[a].votes /\ new[a].key = x[a].key
    BY <1>10, <1>11 DEF Counts
  <2>6. then[a].votes = old[a].votes /\ then[a].key = old[a].key
    <3>1. CASE sent
      BY <1>8, <2>2, <2>5, <3>1
    <3>2. CASE ~sent
      BY <2>1, <2>2, <2>3, <2>4, <2>5, <3>2 DEF SameStanding
    <3> QED BY <3>1, <3>2
  <2>7. then[a].missed = old[a].missed /\ then[a].cmb = old[a].cmb
    <3>1. CASE FinishRound(h)
      <4>1. /\ new[a].missed = IF a \in out THEN x[a].missed + 1 ELSE x[a].missed
            /\ new[a].cmb = IF a \in P THEN 0
                            ELSE IF a \in out THEN (IF IsV2(h) THEN x[a].cmb + 1 ELSE 0)
                            ELSE x[a].cmb
            /\ then[a].missed = IF a \in out THEN y[a].missed + (-1) ELSE y[a].missed
            /\ then[a].cmb = IF a \in P THEN 0
                             ELSE IF a \in out THEN (IF IsV2(h) THEN y[a].cmb + (-1) ELSE 0)
                             ELSE y[a].cmb
        BY <1>10, <1>11, <3>1 DEF Counts
      <4>2. /\ y[a].missed = new[a].missed /\ y[a].cmb = new[a].cmb
            /\ x[a].missed = old[a].missed /\ x[a].cmb = old[a].cmb
        BY <2>1, <2>2, <2>4 DEF SameStanding
      <4>3. old[a].missed \in Int /\ old[a].cmb \in Int
        BY <1>7 DEF Counted
      <4>4. then[a].missed = old[a].missed
        BY <4>1, <4>2, <4>3
      <4>5. a \in P => old[a].cmb = 0
        BY <1>9, <3>1
      <4>6. ~IsV2(h) => old[a].cmb = 0
        BY <1>7
      <4>7. then[a].cmb = old[a].cmb
        BY <4>1, <4>2, <4>3, <4>5, <4>6
      <4> QED BY <4>4, <4>7
    <3>2. CASE ~FinishRound(h)
      BY <1>10, <1>11, <2>1, <2>2, <2>4, <3>2 DEF SameStanding
    <3> QED BY <3>1, <3>2
  <2> QED BY <2>6, <2>7 DEF SameStanding
<1>14. SameStandings(m.accounts, rq[k].accounts)
  <2>1. SameStandings(then, old)
    BY <1>13 DEF SameStandings
  <2>2. rq[k] = p
    <3>1. k \in 1..k
      BY <1>1
    <3> QED BY <3>1
  <2> QED BY <2>1, <2>2 DEF then, old
<1> HIDE DEF k
<1>15. Straight(rq, m, k)
  BY <1>4, <1>14 DEF Straight
<1> QED BY <1>15 DEF m, k

-----------------------------------------------------------------------------
(* The genesis block.                                                       *)
LEMMA GenesisIs ==
  /\ AfterGenesis.blocks = <<GenesisBlock>>
  /\ DOMAIN AfterGenesis.cache = {1} /\ DOMAIN AfterGenesis.table = {}
  /\ Counted(AfterGenesis.accounts)
  /\ \A a \in AccountIds : /\ ~IsV2(1) => AfterGenesis.accounts[a].cmb = 0
                           /\ AfterGenesis.accounts[a].votes = Genesis[a].votes
                           /\ AfterGenesis.accounts[a].key = Genesis[a].key
<1> DEFINE acc0 == [a \in AccountIds |-> GenesisAccount(a)]
           empty == [accounts |-> acc0, blocks |-> <<>>,
                     snapshot |-> <<>>, table |-> <<>>, cache |-> <<>>, changes |-> "RoundChanges"]
           list == DelegateList(empty, 1)
           c == Put(<<>>, CalcRound(1), list)
           ready == [empty EXCEPT !.cache = c]
           bs == <<GenesisBlock>>
           ticked == Tick(ready, bs)
           n == AfterGenesis
<1>1. n = [ticked EXCEPT !.blocks = bs, !.changes = SwitchDposFees(1)]
  <2>1. Cached(empty, 1) = c
    <3>1. Cached(empty, 1) = Put(empty.cache, CalcRound(1), list)
      BY DEF Cached
    <3>2. empty.cache = <<>>
      OBVIOUS
    <3> HIDE DEF empty, list
    <3> QED BY <3>1, <3>2
  <2>2. n = [Tick([empty EXCEPT !.cache = Cached(empty, 1)], bs)
               EXCEPT !.blocks = bs, !.changes = SwitchDposFees(1)]
    BY DEF AfterGenesis
  <2> HIDE DEF n, c, empty
  <2> QED BY <2>1, <2>2
<1>2. /\ IsAccounts(acc0)
      /\ \A a \in AccountIds : /\ acc0[a].missed = 0 /\ acc0[a].cmb = 0
                               /\ acc0[a].votes = Genesis[a].votes /\ acc0[a].key = Genesis[a].key
  <2> DEFINE K == {Genesis[a].key : a \in AccountIds}
             S == {Genesis[a].votes : a \in AccountIds}
  <2>1. ASSUME NEW a \in AccountIds PROVE GenesisAccount(a) \in Over({0}, {0}, {0}, {0}, K, S)
    <3>1. Genesis[a].key \in K /\ Genesis[a].votes \in S
      OBVIOUS
    <3>2. Genesis[a].balance \in Int
      BY RoundsAssumption
    <3> HIDE DEF K, S
    <3> QED BY <3>1, <3>2 DEF GenesisAccount, Over
  <2>2. acc0 \in [AccountIds -> Over({0}, {0}, {0}, {0}, K, S)]
    <3> HIDE DEF K, S
    <3> QED BY <2>1
  <2>3. \A a \in AccountIds : /\ acc0[a].missed = 0 /\ acc0[a].cmb = 0
                              /\ acc0[a].votes = Genesis[a].votes /\ acc0[a].key = Genesis[a].key
    BY DEF GenesisAccount
  <2> HIDE DEF K, S, acc0
  <2> QED BY <2>2, <2>3 DEF IsAccounts
<1> HIDE DEF acc0
<1>3. IsNode(ready) /\ ready.accounts = acc0 /\ ready.cache = c /\ ready.table = <<>>
  <2> HIDE DEF c, ready
  <2>1. ready = [accounts |-> acc0, blocks |-> <<>>,
                 snapshot |-> <<>>, table |-> <<>>, cache |-> c, changes |-> "RoundChanges"]
    BY DEF ready
  <2> QED BY <2>1 DEF IsNode
<1>4. DOMAIN c = {1}
  <2>1. /\ DOMAIN c = DOMAIN <<>> \cup {CalcRound(1)} /\ c[CalcRound(1)] = list
        /\ EntersAt(c, <<>>, CalcRound(1), list)
    <3> HIDE DEF list
    <3> QED BY PutIs
  <2>2. DOMAIN <<>> = {}
    OBVIOUS
  <2> HIDE DEF c
  <2> QED BY <2>1, <2>2, FirstRound
<1> HIDE DEF ready, empty, c, list
<1>5. IsChain(bs) /\ Len(bs) = 1
  <2>1. IsBlock(GenesisBlock)
    BY DEF IsBlock, GenesisBlock, Few
  <2>2. bs \in Seq({GenesisBlock}) /\ Len(bs) = 1 /\ bs[1] = GenesisBlock
    OBVIOUS
  <2>3. IsList(bs)
    <3> HIDE DEF bs
    <3> QED BY <2>2, SequenceIsList
  <2> HIDE DEF bs
  <2>4. \A i \in 1..1 : i = 1
    OBVIOUS
  <2> QED BY <2>1, <2>2, <2>3, <2>4 DEF IsChain
<1> DEFINE round == RoundBlocks(bs, 1)
           out == Outsiders(DelegateList(ready, 1), round)
<1> HIDE DEF bs
<1>6. Len(bs) > 0 /\ FinishRound(Len(bs))
  BY <1>5 DEF FinishRound
<1>7. /\ Counts(acc0, ticked.accounts, out, Payees(round), 1, 1)
      /\ ticked.cache = c /\ ticked.table = <<>>
  <2> DEFINE h == Len(bs)
             o == Outsiders(DelegateList(ready, h), RoundBlocks(bs, h))
  <2>1. /\ Counts(ready.accounts, ticked.accounts, o, Payees(RoundBlocks(bs, h)), h, 1)
        /\ ticked.cache = ready.cache /\ ticked.table = ready.table
    BY <1>2, <1>3, <1>5, <1>6, TicksCount
  <2>2. h = 1
    BY <1>5
  <2> HIDE DEF h, ticked
  <2> QED BY <1>3, <2>1, <2>2
<1>8. IsNode(ticked)
  <2>1. PICK d \in [AccountIds -> Moves] : \A q : IsNode(q) /\ IsAccounts(q.accounts) =>
           (q.changes = ready.changes => IsNode(Tick(q, bs)))
    BY <1>5, <1>6, TicksMove
  <2> QED BY <1>2, <1>3, <2>1
<1> HIDE DEF ticked, n, round, out
<1>9. n.accounts = ticked.accounts /\ n.cache = c /\ n.table = <<>> /\ n.blocks = bs
  BY <1>1, <1>7, <1>8 DEF IsNode
<1> DEFINE new == ticked.accounts
           P == Payees(round)
<1>10. Counts(acc0, new, out, P, 1, 1)
  BY <1>7
<1> HIDE DEF new, P
<1>11. Counted(acc0)
  BY <1>2 DEF Counted
<1>12. /\ Counted(new)
       /\ \A a \in AccountIds : new[a].votes = acc0[a].votes /\ new[a].key = acc0[a].key
       /\ ~IsV2(1) => \A a \in AccountIds : new[a].cmb = 0
  BY <1>2, <1>10, <1>11, CountsKeep
<1>13. DOMAIN n.table = {}
  <2>1. DOMAIN <<>> = {}
    OBVIOUS
  <2> QED BY <1>9, <2>1
<1>14. n.accounts = new /\ n.cache = c /\ n.blocks = bs
  BY <1>9 DEF new
<1>15. \A a \in AccountIds : /\ ~IsV2(1) => n.accounts[a].cmb = 0
                             /\ n.accounts[a].votes = Genesis[a].votes
                             /\ n.accounts[a].key = Genesis[a].key
  BY <1>2, <1>12, <1>14
<1>16. DOMAIN n.cache = {1} /\ Counted(n.accounts)
  BY <1>4, <1>12, <1>14
<1> QED BY <1>13, <1>14, <1>15, <1>16 DEF n, bs

LEMMA GenesisReplayed ==
  ASSUME NEW rp, rp[1] = AfterGenesis, NEW bs, IsChain(bs), Len(bs) = 1
  PROVE  Replayed(rp, bs, 1)
<1> DEFINE n == AfterGenesis
<1>1. /\ DOMAIN n.cache = {1} /\ DOMAIN n.table = {}
      /\ Counted(n.accounts)
      /\ \A a \in AccountIds : /\ ~IsV2(1) => n.accounts[a].cmb = 0
                               /\ n.accounts[a].votes = Genesis[a].votes
                               /\ n.accounts[a].key = Genesis[a].key
  BY GenesisIs
<1>2. rp[1] = n
  OBVIOUS
<1> HIDE DEF n
<1>3. n.cache[1] = ListOf(rp, 1)
  <2>1. ListOf(rp, 1) = DelegateList(n, 1 + 1)
    BY <1>2, FirstRound DEF ListOf
  <2>2. 1 + 1 = 2
    OBVIOUS
  <2>3. DelegateList(n, 2) = n.cache[1]
    BY <1>1, FirstRound DEF DelegateList
  <2> QED BY <2>1, <2>2, <2>3
<1>4. GoodLists(rp, n.cache, 1 - 1) /\ GoodLists(rp, n.table, 1 - 1)
  BY <1>1, <1>3 DEF GoodLists
<1>5. HasLists(n, 1)
  <2>1. \A j \in 2..1 : FALSE
    OBVIOUS
  <2> QED BY <1>1, <2>1 DEF HasLists
<1>6. \A a \in AccountIds : Before(bs, a).votes = Genesis[a].votes /\ Before(bs, a).key = Genesis[a].key
  <2>1. \A a, type : Own(bs, a, type) = {}
    <3>1. \A i \in 2..1 : FALSE
      OBVIOUS
    <3> QED BY <3>1 DEF Own
  <2> QED BY <2>1 DEF Before
<1>7. Prefix(bs, 1) = bs
  BY WholePrefix
<1> QED BY <1>1, <1>2, <1>4, <1>5, <1>6, <1>7 DEF Replayed

(* The history is not astray of itself.                                     *)
LEMMA StraightItself ==
  ASSUME NEW rp, NEW bs, NEW k \in Nat, Replayed(rp, bs, k)
  PROVE  Straight(rp, rp[k], k)
<1> DEFINE n == rp[k]
<1>1. GoodLists(rp, n.cache, k) /\ GoodLists(rp, n.table, k) /\ HasLists(n, k)
  <2>1. GoodLists(rp, n.cache, k - 1) /\ GoodLists(rp, n.table, k - 1) /\ HasLists(n, k)
    BY DEF Replayed
  <2>2. k - 1 \in Int /\ k \in Int /\ k - 1 <= k
    OBVIOUS
  <2> HIDE DEF n
  <2> QED BY <2>1, <2>2, GoodListsMore
<1>2. SameStandings(n.accounts, n.accounts) /\ SameStrengths(n.accounts, n.accounts)
  BY DEF SameStandings, SameStanding, SameStrengths
<1> QED BY <1>1, <1>2 DEF Straight

LEMMA ListsInit == Init => ListsInv
<1> SUFFICES ASSUME Init PROVE ListsInv
  OBVIOUS
<1>1. HistoryInv
  BY HistoryInit
<1>2. replay = <<AfterGenesis>> /\ blocks = AfterGenesis.blocks
  BY DEF Init, StartFrom
<1>3. replay[1] = AfterGenesis /\ Len(blocks) = 1 /\ IsChain(blocks)
  <2>1. blocks = <<GenesisBlock>>
    BY <1>2, GenesisIs
  <2> QED BY <1>1, <1>2, <2>1 DEF HistoryInv
<1>4. Replayed(replay, blocks, 1)
  BY <1>3, GenesisReplayed
<1>5. Straight(replay, replay[1], 1)
  BY <1>4, StraightItself
<1>6. node = AfterGenesis
  <2> DEFINE n == AfterGenesis
  <2>1. /\ accounts = n.accounts /\ blocks = n.blocks /\ snapshot = n.snapshot
        /\ table = n.table /\ cache = n.cache /\ changes = n.changes
    BY DEF Init, StartFrom
  <2>2. IsNode(n)
    <3>1. 1 \in 1..Len(blocks)
      BY <1>3
    <3>2. Sound(replay[1], Prefix(blocks, 1))
      BY <1>1, <3>1 DEF HistoryInv
    <3> QED BY <1>3, <3>2 DEF Sound
  <2> HIDE DEF n
  <2>3. node = n
    BY <2>1, <2>2 DEF node, IsNode
  <2> QED BY <2>3 DEF n
<1>7. \A k \in 1..1 : k = 1
  OBVIOUS
<1> QED BY <1>3, <1>4, <1>5, <1>6, <1>7 DEF ListsInv, ReplayInv

-----------------------------------------------------------------------------
(* Each step keeps the lists.                                               *)
LEMMA ForgeKeepsLists ==
  ASSUME HistoryInv, ListsInv, HistoryInv',
         NEW skip, NEW txs \in {{}} \cup {{t} : t \in Txs}, Forge(skip, txs)
  PROVE  ListsInv'
<1> DEFINE k == Len(blocks)
           h == k + 1
           p == replay[k]
<1>1. /\ IsChain(blocks) /\ k \in Nat /\ k > 0 /\ IsList(replay) /\ Len(replay) = k
      /\ Sound(node, blocks)
  BY DEF HistoryInv, IsChain, IsList
<1>2. PICK b, d : Extends(b, d)
  BY ForgeIs
<1> DEFINE r == ApplyBlock(p, b)
           m == ApplyBlock(node, b)
<1>3. /\ IsBlock(b) /\ node' = m /\ blocks' = Append(blocks, b) /\ replay' = Append(replay, r)
      /\ Sound(p, blocks)
  BY <1>2 DEF Extends
<1> HIDE DEF r, m
<1>4. /\ Len(blocks') = h /\ (\A i \in 1..k : blocks'[i] = blocks[i])
      /\ replay'[h] = r /\ \A i \in 1..k : replay'[i] = replay[i]
  BY <1>1, <1>3, AppendToList DEF IsChain
<1>5. \A i \in 1..k : Replayed(replay, blocks, i)
  BY DEF ListsInv, ReplayInv
<1>6. k \in 1..k /\ 1..k \subseteq Nat
  BY <1>1
<1>7. Replayed(replay, blocks, k)
  BY <1>5, <1>6
<1> DEFINE rp == replay
           rq == replay'
           bs == blocks
           cs == blocks'
<1>8. Replayed(rq, cs, h)
  <2>1. /\ IsChain(bs) /\ Len(bs) > 0 /\ IsBlock(b) /\ Replayed(rp, bs, Len(bs))
        /\ Sound(rp[Len(bs)], bs) /\ (\A i \in 1..Len(bs) : rq[i] = rp[i])
        /\ rq[Len(bs) + 1] = ApplyBlock(rp[Len(bs)], b) /\ cs = Append(bs, b)
    BY <1>1, <1>3, <1>4, <1>7 DEF r
  <2>2. h = Len(bs) + 1
    OBVIOUS
  <2> HIDE DEF rp, rq, bs, cs, h
  <2> QED BY <2>1, <2>2, ReplayedAfter
<1>9. ASSUME NEW i \in 1..k PROVE Replayed(rq, cs, i)
  <2>1. /\ Replayed(rp, bs, i) /\ i \in Nat /\ i > 0
        /\ \A j \in 1..i : rq[j] = rp[j] /\ cs[j] = bs[j]
    <3>1. 1..i \subseteq 1..k /\ i \in Nat /\ i > 0
      BY <1>1
    <3> QED BY <1>4, <1>5, <3>1
  <2> HIDE DEF rp, rq, bs, cs
  <2> QED BY <2>1, ReplayedStays
<1>10. ReplayInv'
  <2>1. \A i \in 1..h : i \in 1..k \/ i = h
    BY <1>1
  <2> HIDE DEF h, k
  <2> QED BY <1>4, <1>8, <1>9, <2>1 DEF ReplayInv
<1>11. ASSUME ~astray' PROVE Straight(rq, node', h)
  <2>1. astray' = astray
    BY DEF Forge
  <2>2. Straight(replay, node, k)
    BY <1>11, <2>1 DEF ListsInv
  <2>3. SameMoneyAs(m.accounts, r.accounts)
    <3>1. SameMoneyAs(accounts', replay'[h].accounts)
      BY <1>4 DEF HistoryInv
    <3>2. node'.accounts = accounts'
      BY DEF node
    <3> QED BY <1>3, <1>4, <3>1, <3>2
  <2> DEFINE n == node
  <2>4. /\ IsChain(bs) /\ Len(bs) > 0 /\ IsBlock(b) /\ Replayed(rp, bs, Len(bs))
        /\ Sound(rp[Len(bs)], bs) /\ (\A i \in 1..Len(bs) : rq[i] = rp[i])
        /\ rq[Len(bs) + 1] = ApplyBlock(rp[Len(bs)], b)
        /\ Sound(n, bs) /\ Straight(rp, n, Len(bs))
        /\ SameMoneyAs(ApplyBlock(n, b).accounts, ApplyBlock(rp[Len(bs)], b).accounts)
        /\ node' = ApplyBlock(n, b) /\ h = Len(bs) + 1
    BY <1>1, <1>3, <1>4, <1>7, <2>2, <2>3 DEF r, m
  <2> DEFINE next == node'
  <2>5. next = ApplyBlock(n, b)
    BY <2>4
  <2> HIDE DEF rp, rq, bs, n, h, next
  <2>6. Straight(rq, next, h)
    BY <2>4, <2>5, StraightAfter
  <2> QED BY <2>6 DEF next
<1> HIDE DEF h, k
<1> QED BY <1>4, <1>10, <1>11 DEF ListsInv

LEMMA PayeesAre ==
  ASSUME NEW bs, IsChain(bs), Len(bs) > 1, NEW a \in Payees(RoundBlocks(bs, Len(bs)))
  PROVE  \E i \in FirstInRound(CalcRound(Len(bs)))..Len(bs) :
           a = KeyAddress[bs[i].generator] /\ a # None
<1> DEFINE h == Len(bs)
           S == {bs[i] : i \in 1..Len(bs)}
           from == FirstInRound(CalcRound(h))
           round == SubSeq(bs, from, h)
<1>1. h \in Nat /\ bs \in Seq(S)
  BY ListIsSequence DEF IsChain, IsList
<1>2. from \in Nat /\ from > 0
  BY <1>1, RoundIsPositive
<1>3. RoundBlocks(bs, h) = round
  <2>1. h # 1
    BY <1>1
  <2> HIDE DEF h
  <2> QED BY <2>1 DEF RoundBlocks
<1> HIDE DEF from, S
<1>4. \A i \in 1..Len(round) : round[i] = bs[from + i - 1] /\ from + i - 1 \in from..h
  <2>1. from..h \subseteq 1..Len(bs)
    BY <1>1, <1>2
  <2>2. Len(round) = IF from <= h THEN h - from + 1 ELSE 0
    BY <1>1, <1>2
  <2>3. \A i \in 1..Len(round) : from + i - 1 \in from..h
    <3> HIDE DEF round, h
    <3> QED BY <1>1, <1>2, <2>2
  <2>4. \A i \in 1..(h - from + 1) : round[i] = bs[from + i - 1]
    BY <1>1, <1>2, <2>1
  <2>5. \A i \in 1..Len(round) : i \in 1..(h - from + 1)
    <3> HIDE DEF round, h
    <3> QED BY <1>1, <1>2, <2>2
  <2> HIDE DEF round
  <2> QED BY <2>3, <2>4, <2>5
<1> HIDE DEF round
<1>5. PICK i \in 1..Len(round) : a = KeyAddress[round[i].generator] /\ a # None
  BY <1>3 DEF Payees, Payee
<1>6. from + i - 1 \in from..h /\ a = KeyAddress[bs[from + i - 1].generator] /\ a # None
  BY <1>4, <1>5
<1> DEFINE j == from + i - 1
<1>7. j \in from..h /\ a = KeyAddress[bs[j].generator] /\ a # None
  BY <1>6
<1> HIDE DEF j
<1> QED BY <1>7 DEF from

LEMMA PopKeepsLists ==
  ASSUME HistoryInv, ListsInv, PopLastBlock
  PROVE  ListsInv'
<1> DEFINE h == Len(blocks)
           k == h - 1
           before == replay[k]
<1>1. IsList(replay) /\ Len(replay) = h /\ Sound(node, blocks)
  BY DEF HistoryInv
<1>2. PICK b, d : Shrinks(b, d)
  BY PopIs
<1>3. /\ h \in Nat /\ h > 1 /\ IsChain(blocks') /\ Len(blocks') = k /\ IsBlock(b)
      /\ blocks = Append(blocks', b) /\ (\A i \in 1..k : blocks'[i] = blocks[i])
      /\ node' = PopBlock(node) /\ replay' = Front(replay)
      /\ Sound(before, blocks') /\ replay[h] = ApplyBlock(before, b)
  BY <1>2 DEF Shrinks
<1>4. /\ k \in Nat /\ k > 0 /\ k + 1 = h /\ k \in 1..h /\ k \in 1..k /\ 1..k \subseteq 1..h
  BY <1>3
<1>5. \A i \in 1..k : replay'[i] = replay[i]
  BY <1>1, <1>3, FrontOfList
<1>6. \A i \in 1..h : Replayed(replay, blocks, i)
  BY DEF ListsInv, ReplayInv
<1> DEFINE rp == replay
           rq == replay'
           cs == blocks
           bs == blocks'
<1>7. ASSUME NEW i \in 1..k PROVE Replayed(rq, bs, i) /\ Replayed(rp, bs, i)
  <2>1. /\ Replayed(rp, cs, i) /\ i \in Nat /\ i > 0
        /\ \A j \in 1..i : rq[j] = rp[j] /\ bs[j] = cs[j]
    <3>1. 1..i \subseteq 1..k /\ i \in Nat /\ i > 0 /\ i \in 1..h
      BY <1>4
    <3> QED BY <1>3, <1>5, <1>6, <3>1
  <2>2. \A j \in 1..i : rp[j] = rp[j] /\ bs[j] = cs[j]
    BY <2>1
  <2> HIDE DEF rp, rq, bs, cs
  <2> QED BY <2>1, <2>2, ReplayedStays
<1>8. ReplayInv'
  <2> HIDE DEF h, k
  <2> QED BY <1>3, <1>7 DEF ReplayInv
<1>9. ASSUME ~astray' PROVE Straight(rq, node', k)
  <2>1. /\ ~astray
        /\ FinishRound(h) /\ IsV2(h) =>
             \A i \in FirstInRound(CalcRound(h))..h :
               LET a == KeyAddress[blocks[i].generator]
               IN a # None => before.accounts[a].cmb = 0
    BY <1>9 DEF PopLastBlock
  <2>2. Straight(replay, node, h)
    BY <2>1 DEF ListsInv
  <2>3. FinishRound(h) /\ IsV2(h) =>
          \A a \in AccountIds : a \in Payees(RoundBlocks(blocks, h)) => before.accounts[a].cmb = 0
    <3> SUFFICES ASSUME FinishRound(h), IsV2(h), NEW a \in Payees(RoundBlocks(blocks, h))
                 PROVE  before.accounts[a].cmb = 0
      OBVIOUS
    <3>1. IsChain(blocks)
      BY DEF HistoryInv
    <3>2. PICK i \in FirstInRound(CalcRound(h))..h : a = KeyAddress[blocks[i].generator] /\ a # None
      BY <1>3, <3>1, PayeesAre
    <3> HIDE DEF h, before
    <3> QED BY <2>1, <3>2
  <2> DEFINE n == node
             next == node'
  <2>4. /\ IsChain(bs) /\ Len(bs) > 0 /\ IsBlock(b) /\ Replayed(rp, bs, Len(bs))
        /\ Sound(rp[Len(bs)], bs) /\ rp[Len(bs) + 1] = ApplyBlock(rp[Len(bs)], b)
        /\ Sound(n, Append(bs, b)) /\ Straight(rp, n, Len(bs) + 1)
        /\ (\A i \in 1..Len(bs) : rq[i] = rp[i])
        /\ next = PopBlock(n) /\ k = Len(bs)
    <3>1. Replayed(rp, bs, k)
      BY <1>4, <1>7
    <3>2. Len(bs) = k /\ Len(bs) + 1 = h
      BY <1>3, <1>4
    <3> QED BY <1>1, <1>3, <1>4, <1>5, <2>2, <3>1, <3>2
  <2>5. FinishRound(Len(bs) + 1) /\ IsV2(Len(bs) + 1) =>
          \A a \in AccountIds :
            a \in Payees(RoundBlocks(Append(bs, b), Len(bs) + 1)) => rp[Len(bs)].accounts[a].cmb = 0
    <3>1. Len(bs) = k /\ Len(bs) + 1 = h /\ Append(bs, b) = blocks
      BY <1>3, <1>4
    <3> HIDE DEF h, k, bs
    <3> QED BY <2>3, <3>1 DEF k
  <2> HIDE DEF rp, rq, bs, n, next, k
  <2>6. Straight(rq, next, k)
    BY <2>4, <2>5, StraightBefore
  <2> QED BY <2>6 DEF next
<1> HIDE DEF h, k
<1> QED BY <1>3, <1>8, <1>9 DEF ListsInv

(* A step that changes no list and no account.                              *)
NoLists ==
  /\ node' = node /\ blocks' = blocks /\ replay' = replay /\ astray' = astray

LEMMA NoListsKeeps ==
  ASSUME ListsInv, NoLists
  PROVE  ListsInv'
BY DEF ListsInv, ReplayInv, NoLists

LEMMA AnswerKeepsLists ==
  ASSUME ListsInv, AnswerForgers
  PROVE  ListsInv'
<1> DEFINE r == request.round
           list == request.list
           k == Len(blocks)
<1>1. /\ cache' = Put(cache, r, list) /\ accounts' = accounts /\ blocks' = blocks
      /\ snapshot' = snapshot /\ table' = table /\ changes' = changes /\ replay' = replay
      /\ astray' = (astray \/ r \notin DOMAIN table \/ table[r] # list)
  BY DEF AnswerForgers
<1>2. ReplayInv'
  BY <1>1 DEF ListsInv, ReplayInv
<1>3. ASSUME ~astray' PROVE Straight(replay, node', k)
  <2>1. ~astray /\ r \in DOMAIN table /\ table[r] = list
    BY <1>1, <1>3
  <2>2. Straight(replay, node, k)
    BY <2>1 DEF ListsInv
  <2> DEFINE n == node
             m == node'
             c == cache'
  <2>3. /\ n.cache = cache /\ n.table = table
        /\ m.cache = c /\ m.table = table /\ m.accounts = n.accounts
    BY <1>1 DEF node
  <2>4. /\ DOMAIN c = DOMAIN cache \cup {r} /\ EntersAt(c, cache, r, list)
    <3>1. /\ DOMAIN Put(cache, r, list) = DOMAIN cache \cup {r} /\ Put(cache, r, list)[r] = list
          /\ EntersAt(Put(cache, r, list), cache, r, list)
      <4> HIDE DEF r, list
      <4> QED BY PutIs
    <3> QED BY <1>1, <3>1
  <2> HIDE DEF n, m, c, r, list, k
  <2>5. GoodLists(replay, n.cache, k) /\ GoodLists(replay, n.table, k) /\ HasLists(n, k)
    BY <2>2 DEF Straight, n
  <2>6. GoodLists(replay, c, k)
    <3>1. r \in Nat /\ r > 0 /\ (r = 1 \/ Seed(r) <= k) /\ list = ListOf(replay, r)
      BY <2>1, <2>3, <2>5 DEF GoodLists
    <3>2. GoodLists(replay, cache, k)
      BY <2>3, <2>5
    <3> QED BY <2>4, <3>1, <3>2, GoodListsEnter
  <2>7. HasLists(m, k)
    BY <2>3, <2>4, <2>5 DEF HasLists
  <2>8. Straight(replay, m, k)
    BY <2>2, <2>3, <2>5, <2>6, <2>7 DEF Straight, n
  <2> QED BY <2>8 DEF m
<1> QED BY <1>1, <1>2, <1>3 DEF ListsInv

LEMMA RestartKeepsLists ==
  ASSUME HistoryInv, ListsInv, Restart
  PROVE  ListsInv'
<1> DEFINE k == Len(blocks)
<1>1. replay' = replay /\ astray' = astray
  BY DEF Restart
<1>2. CASE k = 1
  <2>1. Become(AfterGenesis)
    BY <1>2 DEF Restart
  <2>2. replay[1] = AfterGenesis /\ Sound(AfterGenesis, Prefix(blocks, 1)) /\ IsChain(blocks)
    <3>1. 1 \in 1..k
      BY <1>2
    <3> QED BY <3>1 DEF HistoryInv
  <2>3. Prefix(blocks, 1) = blocks
    BY <1>2, <2>2, WholePrefix
  <2>4. node' = AfterGenesis /\ blocks' = blocks
    <3> DEFINE n == AfterGenesis
    <3>1. Become(n) /\ Sound(n, blocks)
      BY <2>1, <2>2, <2>3
    <3> HIDE DEF n
    <3>2. node' = n /\ blocks' = blocks
      BY <3>1, BecomeIs DEF Sound
    <3> QED BY <3>2 DEF n
  <2>5. ReplayInv /\ ReplayInv'
    BY <1>1, <2>4 DEF ListsInv, ReplayInv
  <2>6. Replayed(replay, blocks, 1)
    <3>1. 1 \in 1..k
      BY <1>2
    <3> QED BY <2>5, <3>1 DEF ReplayInv
  <2>7. Straight(replay, replay[1], 1)
    BY <2>6, StraightItself
  <2> QED BY <1>1, <1>2, <2>2, <2>4, <2>5, <2>7 DEF ListsInv
<1>3. CASE k # 1
  <2> DEFINE m == [node EXCEPT !.cache = <<>>, !.changes = SwitchDposFees(Len(blocks))]
  <2>1. Become(m)
    BY <1>3 DEF Restart
  <2>2. /\ m.accounts = accounts /\ m.blocks = blocks /\ m.snapshot = snapshot
        /\ m.table = table /\ m.cache = <<>>
    BY DEF node
  <2> HIDE DEF m
  <2>3. accounts' = accounts /\ blocks' = blocks /\ table' = table /\ cache' = <<>>
    BY <2>1, <2>2 DEF Become
  <2>4. ReplayInv'
    BY <1>1, <2>3 DEF ListsInv, ReplayInv
  <2>5. ASSUME ~astray' PROVE Straight(replay, node', k)
    <3>1. Straight(replay, node, k)
      BY <1>1, <2>5 DEF ListsInv
    <3> DEFINE n == node
               next == node'
    <3>2. next.cache = <<>> /\ next.table = n.table /\ next.accounts = n.accounts
      BY <2>3 DEF node
    <3>3. DOMAIN <<>> = {}
      OBVIOUS
    <3> HIDE DEF n, next, k
    <3>4. GoodLists(replay, next.cache, k)
      BY <3>2, <3>3 DEF GoodLists
    <3>5. HasLists(next, k)
      BY <1>3, <3>1, <3>2 DEF Straight, HasLists, n
    <3>6. Straight(replay, next, k)
      BY <3>1, <3>2, <3>4, <3>5 DEF Straight, n
    <3> QED BY <3>6 DEF next
  <2> QED BY <1>1, <2>3, <2>4, <2>5 DEF ListsInv
<1> QED BY <1>2, <1>3

LEMMA ListsNext == HistoryInv /\ ListsInv /\ [Next]_vars => ListsInv'
<1> SUFFICES ASSUME HistoryInv, ListsInv, [Next]_vars PROVE ListsInv'
  OBVIOUS
<1>1. HistoryInv'
  BY HistoryNext
<1>2. ASSUME NEW skip \in 1..MaxSkip, NEW txs \in {{}} \cup {{t} : t \in Txs}, Forge(skip, txs)
      PROVE  ListsInv'
  BY <1>1, <1>2, ForgeKeepsLists
<1>3. CASE PopLastBlock
  BY <1>3, PopKeepsLists
<1>4. CASE RequestForgers
  <2>1. NoLists
    BY <1>4 DEF RequestForgers, NoLists, node
  <2> QED BY <2>1, NoListsKeeps
<1>5. CASE AnswerForgers
  BY <1>5, AnswerKeepsLists
<1>6. CASE Restart
  BY <1>6, RestartKeepsLists
<1>7. CASE UNCHANGED vars
  <2>1. NoLists
    BY <1>7 DEF vars, NoLists, node
  <2> QED BY <2>1, NoListsKeeps
<1> QED BY <1>2, <1>3, <1>4, <1>5, <1>6, <1>7 DEF Next

LEMMA ListsImply == HistoryInv /\ ListsInv => ListReplaysUnlessAstray
<1> SUFFICES ASSUME HistoryInv, ListsInv, ~astray
             PROVE  /\ DelegateList(node, Len(blocks) + 1) = DelegateList(Last(replay), Len(blocks) + 1)
                    /\ \A a \in AccountIds : accounts[a].missed = Last(replay).accounts[a].missed
  BY DEF ListReplaysUnlessAstray
<1> DEFINE k == Len(blocks)
           p == replay[k]
<1>1. /\ k \in Nat /\ k > 0 /\ IsChain(blocks) /\ Sound(node, blocks) /\ Len(replay) = k
  BY DEF HistoryInv, IsChain, IsList
<1>2. k \in 1..k /\ Last(replay) = p
  BY <1>1 DEF Last
<1>3. Sound(p, blocks)
  <2>1. Sound(p, Prefix(blocks, k))
    BY <1>2 DEF HistoryInv
  <2> QED BY <1>1, <2>1, WholePrefix
<1>4. Replayed(replay, blocks, k) /\ Straight(replay, node, k)
  BY <1>2 DEF ListsInv, ReplayInv
<1>5. node.blocks = p.blocks
  BY <1>1, <1>3 DEF Sound
<1>6. DelegateList(node, k + 1) = ListOf(replay, CalcRound(k + 1))
  <2> DEFINE n == node
  <2>1. Straight(replay, n, k) /\ n.blocks = replay[k].blocks
    BY <1>4, <1>5
  <2> HIDE DEF n, k
  <2> QED BY <1>1, <1>4, <2>1, ListOfNode DEF n
<1>7. DelegateList(p, k + 1) = ListOf(replay, CalcRound(k + 1))
  BY <1>1, <1>4, ListOfHistory
<1>8. \A a \in AccountIds : accounts[a].missed = p.accounts[a].missed
  <2>1. node.accounts = accounts
    BY DEF node
  <2> QED BY <1>4, <2>1 DEF Straight, SameStandings, SameStanding
<1> QED BY <1>2, <1>6, <1>7, <1>8

(* For any delegates, votes, transactions and bounds, in both versions:     *)
(* over rollbacks of any number of rounds, restarts and answers that come   *)
(* late, the list of the next block and the missed blocks are those of a    *)
(* node that has applied the present chain and nothing else, as long as no  *)
(* undone round hid the blocks a delegate had missed and no answer brought  *)
(* a list whose row was gone or replaced (Delegates.generateDelegateList    *)
(* and onBlockChanged, RoundLogic.apply and undo).                          *)
THEOREM ListIsThatOfTheChain == Spec => []ListReplaysUnlessAstray
<1> DEFINE I == HistoryInv /\ ListsInv
<1>1. Init => I
  BY HistoryInit, ListsInit
<1>2. I /\ [Next]_vars => I'
  BY HistoryNext, ListsNext
<1>3. I => ListReplaysUnlessAstray
  BY ListsImply
<1> HIDE DEF I
<1> QED BY <1>1, <1>2, <1>3, PTL DEF Spec

=============================================================================
