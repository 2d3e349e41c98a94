---------------------------- MODULE TransferProofs ----------------------------
(***************************************************************************)
(* For any fees, offers and bounds: the blocks of the server are within    *)
(* the limits, the client has the blocks and the rows of the server, field *)
(* by field, whatever way a block took to it, and it drops the server only *)
(* for a transaction the wire damages or across a change of fees.          *)
(***************************************************************************)
EXTENDS Transfer, FiniteSetTheorems, WellFoundedInduction, TLAPS

-----------------------------------------------------------------------------
(* Induction, for a property that is given as a set.                        *)

(* Sets of naturals have a least member.                                    *)
LEMMA LeastNat ==
  ASSUME NEW T \in SUBSET Nat, T # {}
  PROVE  \E m \in T : \A y \in T : m <= y
<1> DEFINE R == OpToRel(<, Nat)
<1>1. IsWellFoundedOn(R, Nat)
  BY NatLessThanWellFounded
<1>2. PICK m \in T : \A y \in T : <<y, m>> \notin R
  <2> HIDE DEF R
  <2> QED BY <1>1, WFMin
<1>3. ASSUME NEW y \in T PROVE ~(y < m)
  <2>1. m \in Nat /\ y \in Nat
    OBVIOUS
  <2> QED BY <2>1, <1>2 DEF OpToRel
<1> QED BY <1>3

(* Induction over the naturals.                                             *)
LEMMA SetInduction ==
  ASSUME NEW T, 0 \in T, \A n \in Nat : n \in T => n + 1 \in T
  PROVE  Nat \subseteq T
<1> DEFINE U == Nat \ T
<1> SUFFICES ASSUME U # {} PROVE FALSE
  OBVIOUS
<1>1. PICK m \in U : \A y \in U : m <= y
  BY LeastNat
<1>2. m # 0 /\ m - 1 \in Nat
  OBVIOUS
<1>3. m - 1 \in T
  BY <1>1, <1>2
<1> QED BY <1>2, <1>3

(* A function on 0..m is defined by its value at 0 and by a step.           *)
IsStep(step, m, R) == m \in Nat /\ step \in [(1..m) \X R -> R]
Iterates(f, step, r, m, R) ==
  f \in [0..m -> R] /\ f[0] = r /\ \A n \in 1..m : f[n] = step[<<n, f[n - 1]>>]

LEMMA Iteration ==
  ASSUME NEW R, NEW r, NEW m, NEW step, r \in R, IsStep(step, m, R)
  PROVE  \E f : Iterates(f, step, r, m, R)
<1> USE DEF IsStep
<1> DEFINE Runs(f, k) == f[0] = r /\ \A n \in 1..k : f[n] = step[<<n, f[n - 1]>>]
           T == {k \in Nat : k <= m => \E f \in [0..k -> R] : Runs(f, k)}
<1>1. 0 \in T
  <2> DEFINE f == [i \in 0..0 |-> r]
  <2>1. f \in [0..0 -> R] /\ Runs(f, 0)
    OBVIOUS
  <2> QED BY <2>1
<1>2. ASSUME NEW k \in Nat, k \in T PROVE k + 1 \in T
  <2> SUFFICES ASSUME k + 1 <= m
               PROVE  \E f \in [0..(k + 1) -> R] : Runs(f, k + 1)
    OBVIOUS
  <2>1. PICK f \in [0..k -> R] : Runs(f, k)
    BY <1>2
  <2> DEFINE g == [i \in 0..(k + 1) |-> IF i = k + 1 THEN step[<<k + 1, f[k]>>] ELSE f[i]]
  <2>2. step[<<k + 1, f[k]>>] \in R
    OBVIOUS
  <2>3. g \in [0..(k + 1) -> R]
    BY <2>2
  <2>4. g[0] = r
    BY <2>1
  <2>5. ASSUME NEW n \in 1..(k + 1) PROVE g[n] = step[<<n, g[n - 1]>>]
    <3>1. n - 1 \in 0..k /\ n - 1 # k + 1
      OBVIOUS
    <3>2. g[n - 1] = f[n - 1]
      BY <3>1
    <3>3. CASE n = k + 1
      <4>1. n - 1 = k /\ g[n] = step[<<k + 1, f[k]>>]
        BY <3>3
      <4> QED BY <4>1, <3>2, <3>3
    <3>4. CASE n # k + 1
      <4>1. n \in 1..k /\ g[n] = f[n]
        BY <3>4
      <4> QED BY <4>1, <3>2, <2>1
    <3> QED BY <3>3, <3>4
  <2>6. Runs(g, k + 1)
    BY <2>4, <2>5
  <2> QED BY <2>3, <2>6
<1>3. m \in T
  <2> HIDE DEF T
  <2> QED BY <1>1, <1>2, SetInduction
<1> QED BY <1>3 DEF Iterates

(* Two functions on 0..m that start and go on alike are alike.              *)
Alike(f, g, m) ==
  f[0] = g[0] /\ \A n \in 1..m : f[n - 1] = g[n - 1] => f[n] = g[n]

LEMMA SameIteration ==
  ASSUME NEW f, NEW g, NEW m, m \in Nat, Alike(f, g, m)
  PROVE  f[m] = g[m]
<1> USE DEF Alike
<1> DEFINE T == {k \in Nat : k <= m => f[k] = g[k]}
<1>1. 0 \in T
  OBVIOUS
<1>2. ASSUME NEW k \in Nat, k \in T PROVE k + 1 \in T
  <2>1. CASE k + 1 <= m
    <3>1. k + 1 \in 1..m /\ (k + 1) - 1 = k /\ f[k] = g[k]
      BY <1>2, <2>1
    <3>2. f[(k + 1) - 1] = g[(k + 1) - 1]
      BY <3>1
    <3> QED BY <3>1, <3>2
  <2>2. CASE ~(k + 1 <= m)
    BY <2>2
  <2> QED BY <2>1, <2>2
<1>3. Nat \subseteq T
  <2> HIDE DEF T
  <2> QED BY <1>1, <1>2, SetInduction
<1> QED BY <1>3

(* Induction up to m.                                                       *)
LEMMA BoundedInduction ==
  ASSUME NEW m, NEW T, m \in Nat, 0 \in T, \A n \in 1..m : n - 1 \in T => n \in T
  PROVE  0..m \subseteq T
<1> DEFINE U == {k \in Nat : k <= m => k \in T}
<1>1. 0 \in U
  OBVIOUS
<1>2. ASSUME NEW k \in Nat, k \in U PROVE k + 1 \in U
  <2>1. CASE k + 1 <= m
    <3>1. k + 1 \in 1..m /\ (k + 1) - 1 \in T
      BY <1>2, <2>1
    <3>2. k + 1 \in T
      BY <3>1
    <3> QED BY <3>2
  <2>2. CASE ~(k + 1 <= m)
    BY <2>2
  <2> QED BY <2>1, <2>2
<1>3. Nat \subseteq U
  <2> HIDE DEF U
  <2> QED BY <1>1, <1>2, SetInduction
<1> QED BY <1>3

-----------------------------------------------------------------------------
(* Sequences.                                                               *)

(* The largest of some numbers up to n.                                     *)
LEMMA MaxUpTo ==
  ASSUME NEW n \in Nat, NEW S \in SUBSET (0 .. n), S # {}
  PROVE  Max(S) \in S /\ \A x \in S : x <= Max(S)
<1> DEFINE D == {n - x : x \in S}
<1>1. D \in SUBSET Nat /\ D # {}
  <2>1. \A x \in S : x \in 0 .. n /\ n - x \in Nat
    OBVIOUS
  <2> QED BY <2>1
<1>2. PICK d \in D : \A y \in D : d <= y
  BY <1>1, LeastNat
<1>3. PICK x \in S : d = n - x
  BY <1>2
<1>4. ASSUME NEW y \in S PROVE y <= x
  <2>1. d <= n - y
    BY <1>2
  <2> QED BY <2>1, <1>3
<1> QED BY <1>3, <1>4 DEF Max

(* The smaller of two numbers.                                              *)
LEMMA MinOfTwo ==
  ASSUME NEW a \in Int, NEW b \in Int
  PROVE  Min({a, b}) = IF a <= b THEN a ELSE b
<1>1. CASE a <= b
  BY <1>1 DEF Min
<1>2. CASE ~(a <= b)
  BY <1>2 DEF Min
<1> QED BY <1>1, <1>2

LEMMA MaxOfTwo ==
  ASSUME NEW a \in Int, NEW b \in Int
  PROVE  Max({a, b}) = IF a >= b THEN a ELSE b
<1>1. CASE a >= b
  BY <1>1 DEF Max
<1>2. CASE ~(a >= b)
  BY <1>2 DEF Max
<1> QED BY <1>1, <1>2

LEMMA SameSeq ==
  ASSUME NEW S, NEW a \in Seq(S), NEW b \in Seq(S), Len(a) = Len(b),
         \A i \in 1 .. Len(a) : a[i] = b[i]
  PROVE  a = b
<1>1. a = [i \in 1 .. Len(a) |-> a[i]]
  OBVIOUS
<1>2. b = [i \in 1 .. Len(a) |-> b[i]]
  OBVIOUS
<1> QED BY <1>1, <1>2

LEMMA ConcatIs ==
  ASSUME NEW S, NEW a \in Seq(S), NEW b \in Seq(S)
  PROVE  /\ a \o b \in Seq(S) /\ Len(a \o b) = Len(a) + Len(b)
         /\ \A i \in 1 .. Len(a) : (a \o b)[i] = a[i]
         /\ \A i \in 1 .. Len(b) : (a \o b)[Len(a) + i] = b[i]
OBVIOUS

LEMMA ConcatSame ==
  ASSUME NEW S, NEW a \in Seq(S), NEW b \in Seq(S), NEW c \in Seq(S), Len(c) = Len(a) + Len(b),
         \A i \in 1 .. Len(a) : c[i] = a[i], \A i \in 1 .. Len(b) : c[Len(a) + i] = b[i]
  PROVE  a \o b = c
<1>1. a \o b \in Seq(S) /\ Len(a \o b) = Len(c)
  BY ConcatIs
<1>2. ASSUME NEW i \in 1 .. Len(c) PROVE (a \o b)[i] = c[i]
  <2>1. CASE i <= Len(a)
    <3>1. i \in 1 .. Len(a)
      BY <2>1
    <3> QED BY <3>1, ConcatIs
  <2>2. CASE i > Len(a)
    <3> DEFINE j == i - Len(a)
    <3>1. j \in 1 .. Len(b) /\ i = Len(a) + j
      BY <2>2
    <3> HIDE DEF j
    <3>2. (a \o b)[Len(a) + j] = b[j] /\ c[Len(a) + j] = b[j]
      BY <3>1, ConcatIs
    <3> QED BY <3>1, <3>2
  <2> QED BY <2>1, <2>2
<1> QED BY <1>1, <1>2, SameSeq

LEMMA HeadThenTail ==
  ASSUME NEW S, NEW t \in Seq(S), t # <<>>
  PROVE  <<t[1]>> \o Tail(t) = t
<1> DEFINE first == <<t[1]>>
           rest == Tail(t)
<1>1. first \in Seq(S) /\ rest \in Seq(S) 
  OBVIOUS
<1>2. 1 = Len(first) /\ first[1] = t[1]
  OBVIOUS
<1>3. Len(rest) = Len(t) - 1 /\ \A i \in 1 .. Len(rest) : rest[i] = t[i + 1]
  OBVIOUS
<1> HIDE DEF first, rest
<1>4. Len(t) = Len(first) + Len(rest)
  <2>1. Len(rest) = Len(t) - 1 /\ Len(t) \in Nat
    BY <1>3
  <2> DEFINE a == Len(first)
             b == Len(rest)
             c == Len(t)
  <2>2. a = 1 /\ b = c - 1 /\ c \in Nat
    BY <1>2, <2>1
  <2> HIDE DEF a, b, c
  <2>3. c = a + b
    BY <2>2
  <2> QED BY <2>3 DEF a, b, c
<1>5. \A i \in 1 .. Len(first) : t[i] = first[i]
  <2> DEFINE a == Len(first)
  <2>1. a = 1
    BY <1>2
  <2> HIDE DEF a
  <2>2. \A i \in 1 .. a : i = 1
    BY <2>1
  <2> QED BY <2>2, <1>2 DEF a
<1>6. \A i \in 1 .. Len(rest) : t[Len(first) + i] = rest[i]
  <2> TAKE i \in 1 .. Len(rest)
  <2> DEFINE a == Len(first)
  <2>1. a = 1 /\ i \in Int
    BY <1>1, <1>2
  <2> HIDE DEF a
  <2>2. a + i = i + 1
    BY <2>1
  <2> QED BY <2>2, <1>3 DEF a
<1>7. first \o rest = t
  BY <1>1, <1>4, <1>5, <1>6, ConcatSame
<1> QED BY <1>7 DEF first, rest

LEMMA TailIs ==
  ASSUME NEW S, NEW t \in Seq(S), t # <<>>
  PROVE  /\ Tail(t) \in Seq(S) /\ t[1] \in S /\ 1 \in 1 .. Len(t)
         /\ \A i \in 1 .. Len(Tail(t)) : Tail(t)[i] = t[i + 1] /\ i + 1 \in 1 .. Len(t)
OBVIOUS

(* What the members of a sequence are does not matter.                      *)
IsSeq(s) == s \in Seq(Range(s))

LEMMA SeqIsSeq ==
  ASSUME NEW S, NEW s \in Seq(S)
  PROVE  IsSeq(s)
BY DEF IsSeq, Range

LEMMA AppendIsSeq ==
  ASSUME NEW s, NEW x, IsSeq(s)
  PROVE  /\ IsSeq(Append(s, x)) /\ Len(Append(s, x)) = Len(s) + 1
         /\ \A i \in 1 .. Len(s) : Append(s, x)[i] = s[i]
         /\ Append(s, x)[Len(s) + 1] = x
<1> DEFINE S == Range(s) \cup {x}
<1>1. s \in Seq(S) /\ x \in S
  BY DEF IsSeq, Range
<1> HIDE DEF S
<1>2. Append(s, x) \in Seq(S)
  BY <1>1
<1>3. Len(Append(s, x)) = Len(s) + 1 /\ Append(s, x)[Len(s) + 1] = x
  BY <1>1
<1>4. \A i \in 1 .. Len(s) : Append(s, x)[i] = s[i]
  BY <1>1
<1> QED BY <1>2, <1>3, <1>4, SeqIsSeq

LEMMA PrefixIsSeq ==
  ASSUME NEW s, NEW n, IsSeq(s), n \in 0 .. Len(s)
  PROVE  /\ IsSeq(SubSeq(s, 1, n)) /\ Len(SubSeq(s, 1, n)) = n
         /\ \A i \in 1 .. n : SubSeq(s, 1, n)[i] = s[i]
<1> DEFINE S == Range(s)
<1>1. s \in Seq(S) /\ n \in Int /\ n <= Len(s) /\ Len(s) \in Nat
  BY DEF IsSeq
<1> HIDE DEF S
<1>2. SubSeq(s, 1, n) \in Seq(S) /\ Len(SubSeq(s, 1, n)) = n
  BY <1>1
<1>3. \A i \in 1 .. n : SubSeq(s, 1, n)[i] = s[i]
  BY <1>1
<1> QED BY <1>2, <1>3, SeqIsSeq

-----------------------------------------------------------------------------
(* Totals, and what the pieces up to one amount to.                         *)
SumsOf(u, numbers) ==
  /\ u \in [0 .. Len(numbers) -> Nat] /\ u[0] = 0
  /\ \A n \in 1 .. Len(numbers) : u[n] = u[n - 1] + numbers[n]

LEMMA TotalIsLast ==
  ASSUME NEW numbers \in Seq(Nat)
  PROVE  \E u : SumsOf(u, numbers) /\ Total(numbers) = u[Len(numbers)]
<1> DEFINE m == Len(numbers)
           step == [p \in (1 .. m) \X Nat |-> p[2] + numbers[p[1]]]
           IsUpto(u) == u = [i \in 0 .. m |-> IF i = 0 THEN 0 ELSE u[i - 1] + numbers[i]]
<1>1. m \in Nat /\ \A i \in 1 .. m : numbers[i] \in Nat
  OBVIOUS
<1> HIDE DEF m
<1>2. IsStep(step, m, Nat)
  <2>1. \A p \in (1 .. m) \X Nat : p[2] + numbers[p[1]] \in Nat
    BY <1>1
  <2> QED BY <1>1, <2>1 DEF IsStep
<1>3. PICK f : Iterates(f, step, 0, m, Nat)
  <2> HIDE DEF step
  <2> QED BY <1>2, Iteration
<1>4. f \in [0 .. m -> Nat] /\ f[0] = 0
  BY <1>3 DEF Iterates
<1>5. ASSUME NEW n \in 1 .. m PROVE f[n] = f[n - 1] + numbers[n]
  <2>1. n - 1 \in 0 .. m /\ f[n] = step[<<n, f[n - 1]>>]
    <3> HIDE DEF step
    <3> QED BY <1>1, <1>3 DEF Iterates
  <2>2. f[n - 1] \in Nat
    BY <2>1, <1>4
  <2> QED BY <2>1, <2>2
<1>6. IsUpto(f)
  <2>1. \A i \in 0 .. m : f[i] = IF i = 0 THEN 0 ELSE f[i - 1] + numbers[i]
    <3> TAKE i \in 0 .. m
    <3>1. i = 0 \/ i \in 1 .. m
      BY <1>1
    <3> QED BY <3>1, <1>4, <1>5
  <2> QED BY <2>1, <1>4
<1> DEFINE g == CHOOSE u : IsUpto(u)
<1>7. IsUpto(g)
  <2> HIDE DEF IsUpto
  <2> QED BY <1>6
<1>8. Total(numbers) = g[m]
  BY DEF Total, m
<1> HIDE DEF g
<1>9. f[m] = g[m]
  <2>1. \A n \in 0 .. m : g[n] = IF n = 0 THEN 0 ELSE g[n - 1] + numbers[n]
    BY <1>7
  <2>2. f[0] = g[0]
    BY <2>1, <1>1, <1>4
  <2>3. \A n \in 1 .. m : g[n] = g[n - 1] + numbers[n]
    <3> TAKE n \in 1 .. m
    <3>1. n \in 0 .. m /\ n # 0
      BY <1>1
    <3> QED BY <3>1, <2>1
  <2>4. Alike(f, g, m)
    BY <2>2, <2>3, <1>5 DEF Alike
  <2> QED BY <2>4, <1>1, SameIteration
<1>10. SumsOf(f, numbers)
  BY <1>4, <1>5 DEF SumsOf, m
<1> QED BY <1>8, <1>9, <1>10 DEF m

LEMMA TotalIs ==
  ASSUME NEW numbers \in Seq(Nat), NEW u, SumsOf(u, numbers)
  PROVE  Total(numbers) = u[Len(numbers)]
<1>1. PICK f : SumsOf(f, numbers) /\ Total(numbers) = f[Len(numbers)]
  BY TotalIsLast
<1>2. Alike(u, f, Len(numbers))
  BY <1>1 DEF SumsOf, Alike
<1>3. Len(numbers) \in Nat
  OBVIOUS
<1> QED BY <1>1, <1>2, <1>3, SameIteration

Words == STRING \cup {"number", "signature"} \cup Nat
Pieces == [is : Seq(Words), len : Nat]
Lengths(s) == [i \in DOMAIN s |-> s[i].len]

LEMMA LengthsType ==
  ASSUME NEW s \in Seq(Pieces)
  PROVE  Lengths(s) \in Seq(Nat) /\ Len(Lengths(s)) = Len(s)
<1>1. DOMAIN s = 1 .. Len(s) /\ Len(s) \in Nat /\ \A i \in 1 .. Len(s) : s[i] \in Pieces
  OBVIOUS
<1>2. \A i \in 1 .. Len(s) : s[i].len \in Nat
  BY <1>1 DEF Pieces
<1> DEFINE l == [i \in 1 .. Len(s) |-> s[i].len]
<1>3. l \in [1 .. Len(s) -> Nat]
  BY <1>2
<1>4. l \in Seq(Nat) /\ Len(l) = Len(s)
  BY <1>1, <1>3
<1> QED BY <1>1, <1>4 DEF Lengths

(* The bytes up to a piece: they grow by the length of each.                *)
LEMMA BytesUpTo ==
  ASSUME NEW s \in Seq(Pieces)
  PROVE  \E u : /\ SumsOf(u, Lengths(s)) /\ Bytes(s) = u[Len(s)]
                /\ \A k \in 0 .. Len(s) : Bytes(SubSeq(s, 1, k)) = u[k]
<1> DEFINE numbers == Lengths(s)
<1>1. numbers \in Seq(Nat) /\ Len(numbers) = Len(s)
  BY LengthsType
<1>2. PICK u : SumsOf(u, numbers) /\ Total(numbers) = u[Len(numbers)]
  BY <1>1, TotalIsLast
<1>3. ASSUME NEW k \in 0 .. Len(s) PROVE Bytes(SubSeq(s, 1, k)) = u[k]
  <2> DEFINE t == SubSeq(s, 1, k)
             w == [i \in 0 .. k |-> u[i]]
  <2>1. /\ t \in Seq(Pieces) /\ Len(t) = k
        /\ \A i \in 1 .. k : t[i] = s[i]
    <3>1. k \in Nat /\ k <= Len(s) /\ Len(s) \in Nat
      OBVIOUS
    <3> QED BY <3>1
  <2> HIDE DEF t
  <2>2. Lengths(t) \in Seq(Nat) /\ Len(Lengths(t)) = k
    BY <2>1, LengthsType
  <2>3. \A i \in 1 .. k : Lengths(t)[i] = numbers[i]
    <3> TAKE i \in 1 .. k
    <3>1. i \in DOMAIN t /\ i \in DOMAIN s /\ t[i] = s[i]
      BY <2>1
    <3> QED BY <3>1 DEF Lengths
  <2>4. SumsOf(w, Lengths(t))
    <3>1. \A i \in 0 .. k : i \in 0 .. Len(numbers) /\ u[i] \in Nat /\ w[i] = u[i]
      <4>1. u \in [0 .. Len(numbers) -> Nat]
        BY <1>2 DEF SumsOf
      <4>2. \A i \in 0 .. k : i \in 0 .. Len(numbers)
        BY <1>1
      <4> HIDE DEF numbers
      <4> QED BY <4>1, <4>2
    <3>2. 0 \in 0 .. k /\ w[0] = 0
      BY <3>1, <1>2 DEF SumsOf
    <3>3. ASSUME NEW n \in 1 .. k PROVE w[n] = w[n - 1] + Lengths(t)[n]
      <4>1. n \in 1 .. Len(numbers) /\ n \in 0 .. k /\ n - 1 \in 0 .. k
        BY <1>1
      <4>2. u[n] = u[n - 1] + numbers[n]
        BY <4>1, <1>2 DEF SumsOf
      <4> QED BY <4>1, <4>2, <2>3
    <3>4. w \in [0 .. k -> Nat]
      BY <3>1
    <3> QED BY <3>2, <3>3, <3>4, <2>2 DEF SumsOf
  <2>5. Total(Lengths(t)) = w[k]
    BY <2>2, <2>4, TotalIs
  <2> HIDE DEF w
  <2>6. Bytes(t) = w[k]
    BY <2>5 DEF Bytes, Lengths
  <2> QED BY <2>6 DEF t, w
<1>4. Bytes(s) = u[Len(s)]
  BY <1>1, <1>2 DEF Bytes, Lengths
<1> QED BY <1>2, <1>3, <1>4

LEMMA BytesType ==
  ASSUME NEW s \in Seq(Pieces)
  PROVE  Bytes(s) \in Nat
<1>1. PICK u : SumsOf(u, Lengths(s)) /\ Bytes(s) = u[Len(s)]
  BY BytesUpTo
<1>2. Len(Lengths(s)) = Len(s) /\ Len(s) \in Nat
  BY LengthsType
<1>3. Len(s) \in 0 .. Len(Lengths(s))
  BY <1>2
<1>4. u[Len(s)] \in Nat
  BY <1>1, <1>3 DEF SumsOf
<1> QED BY <1>1, <1>4

LEMMA BytesOfNone == Bytes(<<>>) = 0
<1> DEFINE s == <<>>
<1>1. s \in Seq(Pieces) /\ SubSeq(s, 1, 0) = s /\ 0 \in 0 .. Len(s)
  OBVIOUS
<1> HIDE DEF s
<1>2. PICK u : SumsOf(u, Lengths(s)) /\ \A k \in 0 .. Len(s) : Bytes(SubSeq(s, 1, k)) = u[k]
  BY <1>1, BytesUpTo
<1>3. Bytes(s) = u[0] /\ u[0] = 0
  BY <1>1, <1>2 DEF SumsOf
<1> QED BY <1>3 DEF s

LEMMA SumsGrow ==
  ASSUME NEW numbers \in Seq(Nat), NEW u, SumsOf(u, numbers),
         NEW k \in 0 .. Len(numbers), NEW j \in 0 .. k
  PROVE  u[j] <= u[k]
<1> DEFINE m == Len(numbers)
           T == {n \in Nat : n <= m => \A i \in 0 .. n : u[i] <= u[n]}
<1>1. m \in Nat /\ (\A i \in 1 .. m : numbers[i] \in Nat) /\ (\A i \in 0 .. m : u[i] \in Nat)
  <2>1. m \in Nat /\ (\A i \in 1 .. m : numbers[i] \in Nat)
    OBVIOUS
  <2>2. u \in [0 .. m -> Nat]
    BY DEF SumsOf
  <2> HIDE DEF m
  <2> QED BY <2>1, <2>2
<1>2. \A n \in 1 .. m : u[n] = u[n - 1] + numbers[n]
  BY DEF SumsOf
<1> HIDE DEF m
<1>3. 0 \in T
  <2>1. 0 \in 0 .. m
    BY <1>1
  <2>2. u[0] \in Nat
    BY <1>1, <2>1
  <2>3. \A i \in 0 .. 0 : i = 0
    OBVIOUS
  <2> QED BY <2>2, <2>3
<1>4. ASSUME NEW n \in 1 .. m, n - 1 \in T PROVE n \in T
  <2>1. n - 1 \in Nat /\ n - 1 <= m /\ n - 1 \in 0 .. m /\ n \in 0 .. m /\ n \in Nat
    BY <1>1
  <2>2. \A i \in 0 .. (n - 1) : u[i] <= u[n - 1]
    BY <1>4, <2>1
  <2>3. u[n - 1] <= u[n]
    BY <1>1, <1>2, <2>1
  <2>4. ASSUME NEW i \in 0 .. n PROVE u[i] <= u[n]
    <3>1. CASE i = n
      BY <3>1, <2>1, <1>1
    <3>2. CASE i # n
      <4>1. i \in 0 .. (n - 1) /\ i \in 0 .. m
        <5>1. i \in Int /\ 0 <= i /\ i <= n /\ n \in Int /\ n <= m /\ m \in Int
          BY <1>1
        <5> QED BY <5>1, <3>2
      <4>2. u[i] <= u[n - 1] /\ u[i] \in Nat /\ u[n - 1] \in Nat /\ u[n] \in Nat
        BY <4>1, <2>1, <2>2, <1>1
      <4> QED BY <4>2, <2>3
    <3> QED BY <3>1, <3>2
  <2> QED BY <2>1, <2>4
<1>5. 0 .. m \subseteq T
  <2> HIDE DEF T
  <2> QED BY <1>1, <1>3, <1>4, BoundedInduction
<1>6. k \in T /\ k <= m
  BY <1>5, <1>1 DEF m
<1> QED BY <1>6

LEMMA BytesConcat ==
  ASSUME NEW s \in Seq(Pieces), NEW t \in Seq(Pieces)
  PROVE  s \o t \in Seq(Pieces) /\ Bytes(s \o t) = Bytes(s) + Bytes(t)
<1> DEFINE r == s \o t
           a == Len(s)
           b == Len(t)
<1>1. /\ r \in Seq(Pieces) /\ Len(r) = a + b /\ a \in Nat /\ b \in Nat
      /\ \A i \in 1 .. b : r[a + i] = t[i]
  OBVIOUS
<1>2. SubSeq(r, 1, a) = s
  <2>1. /\ Len(SubSeq(r, 1, a)) = a /\ SubSeq(r, 1, a) \in Seq(Pieces)
        /\ \A i \in 1 .. a : SubSeq(r, 1, a)[i] = s[i]
    BY <1>1
  <2> QED BY <2>1
<1> HIDE DEF r, a, b
<1>3. PICK u : /\ SumsOf(u, Lengths(r)) /\ Bytes(r) = u[Len(r)]
               /\ \A k \in 0 .. Len(r) : Bytes(SubSeq(r, 1, k)) = u[k]
  BY <1>1, BytesUpTo
<1>4. PICK v : SumsOf(v, Lengths(t)) /\ Bytes(t) = v[b]
  BY BytesUpTo DEF b
<1>5. u[a] = Bytes(s)
  <2>1. a \in 0 .. Len(r)
    BY <1>1
  <2>2. Bytes(SubSeq(r, 1, a)) = u[a]
    BY <2>1, <1>3
  <2> QED BY <2>2, <1>2
<1> DEFINE f == [j \in 0 .. b |-> u[a + j]]
           g == [j \in 0 .. b |-> Bytes(s) + v[j]]
<1>6. Bytes(s) \in Nat /\ v[0] = 0 /\ \A j \in 0 .. b : v[j] \in Nat
  BY <1>4, <1>1, BytesType, LengthsType DEF SumsOf, b
<1>7. f[0] = g[0]
  <2>1. 0 \in 0 .. b /\ a + 0 = a
    BY <1>1
  <2> QED BY <2>1, <1>5, <1>6
<1>8. ASSUME NEW n \in 1 .. b, f[n - 1] = g[n - 1] PROVE f[n] = g[n]
  <2>1. n \in 0 .. b /\ n - 1 \in 0 .. b /\ a + n \in 1 .. Len(r) /\ (a + n) - 1 = a + (n - 1)
    BY <1>1
  <2>2. u[a + n] = u[a + (n - 1)] + Lengths(r)[a + n]
    BY <2>1, <1>1, <1>3, LengthsType DEF SumsOf
  <2>3. v[n] = v[n - 1] + Lengths(t)[n]
    BY <1>4, LengthsType DEF SumsOf, b
  <2>4. Lengths(r)[a + n] = Lengths(t)[n]
    <3>1. a + n \in DOMAIN r /\ n \in DOMAIN t /\ r[a + n] = t[n]
      BY <2>1, <1>1 DEF b
    <3> QED BY <3>1 DEF Lengths
  <2>5. Lengths(t)[n] \in Nat
    BY LengthsType DEF b
  <2>6. u[a + (n - 1)] = Bytes(s) + v[n - 1]
    BY <1>8, <2>1
  <2>7. u[a + n] = Bytes(s) + v[n]
    BY <2>2, <2>3, <2>4, <2>5, <2>6, <2>1, <1>6
  <2> QED BY <2>1, <2>7
<1>9. f[b] = g[b]
  <2> HIDE DEF f, g
  <2>1. Alike(f, g, b)
    BY <1>7, <1>8 DEF Alike
  <2> QED BY <1>1, <2>1, SameIteration
<1>10. u[a + b] = Bytes(s) + Bytes(t)
  <2>1. b \in 0 .. b
    BY <1>1
  <2> QED BY <2>1, <1>9, <1>4
<1> QED BY <1>1, <1>3, <1>10 DEF r

LEMMA BytesAlike ==
  ASSUME NEW s \in Seq(Pieces), NEW c \in Nat, \A i \in 1 .. Len(s) : s[i].len = c
  PROVE  Bytes(s) = c * Len(s)
<1> DEFINE l == Lengths(s)
           u == [i \in 0 .. Len(s) |-> c * i]
<1>1. l \in Seq(Nat) /\ Len(l) = Len(s) /\ Len(s) \in Nat
  BY LengthsType
<1>2. ASSUME NEW n \in 1 .. Len(s) PROVE u[n] = u[n - 1] + l[n]
  <2>1. n \in 0 .. Len(s) /\ n - 1 \in 0 .. Len(s) /\ n \in DOMAIN s /\ n \in Int
    BY <1>1
  <2>2. l[n] = c
    BY <2>1 DEF Lengths
  <2>3. c * n = (c * (n - 1)) + c
    BY <2>1
  <2> QED BY <2>1, <2>2, <2>3
<1>3. u \in [0 .. Len(s) -> Nat] /\ u[0] = 0
  <2>1. \A i \in 0 .. Len(s) : c * i \in Nat
    BY <1>1
  <2>2. 0 \in 0 .. Len(s) /\ c * 0 = 0
    BY <1>1
  <2> QED BY <2>1, <2>2
<1> HIDE DEF u, l
<1>4. Total(l) = u[Len(s)]
  BY <1>1, <1>2, <1>3, TotalIs DEF SumsOf
<1>5. u[Len(s)] = c * Len(s)
  BY <1>1 DEF u
<1> QED BY <1>4, <1>5 DEF Bytes, Lengths, l

(* slice cuts after the last piece that is within the bytes, or before.     *)
LEMMA WithinCuts ==
  ASSUME NEW s \in Seq(Pieces), NEW n \in Nat
  PROVE  \E k \in 0 .. Len(s) :
           /\ Within(s, n) = SubSeq(s, 1, k) /\ After(s, n) = SubSeq(s, k + 1, Len(s))
           /\ Bytes(SubSeq(s, 1, k)) <= n
           /\ \A j \in 0 .. Len(s) : Bytes(SubSeq(s, 1, j)) <= n => j <= k
<1> DEFINE K == {k \in 0 .. Len(s) : Bytes(SubSeq(s, 1, k)) <= n}
           k == Max(K)
<1>1. 0 \in K
  <2>1. PICK u : SumsOf(u, Lengths(s)) /\ \A j \in 0 .. Len(s) : Bytes(SubSeq(s, 1, j)) = u[j]
    BY BytesUpTo
  <2>2. 0 \in 0 .. Len(s)
    OBVIOUS
  <2>3. Bytes(SubSeq(s, 1, 0)) = 0
    BY <2>1, <2>2 DEF SumsOf
  <2> QED BY <2>2, <2>3
<1>2. k \in K /\ \A j \in K : j <= k
  <2>1. K \in SUBSET (0 .. Len(s)) /\ K # {} /\ Len(s) \in Nat
    BY <1>1
  <2> HIDE DEF K
  <2> QED BY <2>1, MaxUpTo
<1>3. Within(s, n) = SubSeq(s, 1, k)
  BY DEF Within
<1> HIDE DEF k
<1>4. Len(Within(s, n)) = k
  <2>1. k \in Nat /\ k <= Len(s)
    BY <1>2
  <2> QED BY <1>3, <2>1
<1>5. After(s, n) = SubSeq(s, k + 1, Len(s))
  BY <1>4 DEF After
<1> QED BY <1>2, <1>3, <1>5

LEMMA WithinAfter ==
  ASSUME NEW s \in Seq(Pieces), NEW n \in Nat
  PROVE  /\ Within(s, n) \in Seq(Pieces) /\ After(s, n) \in Seq(Pieces)
         /\ Within(s, n) \o After(s, n) = s
<1>1. PICK k \in 0 .. Len(s) : /\ Within(s, n) = SubSeq(s, 1, k)
                               /\ After(s, n) = SubSeq(s, k + 1, Len(s))
  BY WithinCuts
<1>2. k \in Nat /\ k <= Len(s) /\ Len(s) \in Nat
  OBVIOUS
<1> DEFINE a == SubSeq(s, 1, k)
           b == SubSeq(s, k + 1, Len(s))
<1>3. a \in Seq(Pieces) /\ Len(a) = k /\ \A i \in 1 .. k : a[i] = s[i]
  BY <1>2
<1>4. b \in Seq(Pieces) /\ Len(b) = Len(s) - k /\ \A i \in 1 .. (Len(s) - k) : b[i] = s[k + i]
  BY <1>2
<1> HIDE DEF a, b
<1>5. a \o b = s
  <2>1. a \o b \in Seq(Pieces) /\ Len(a \o b) = Len(s)
    BY <1>2, <1>3, <1>4
  <2>2. ASSUME NEW i \in 1 .. Len(s) PROVE (a \o b)[i] = s[i]
    <3>1. CASE i <= k
      BY <3>1, <1>2, <1>3, <1>4
    <3>2. CASE i > k
      <4>1. i - k \in 1 .. (Len(s) - k) /\ k + (i - k) = i
        BY <3>2, <1>2
      <4>2. (a \o b)[i] = b[i - k]
        BY <3>2, <1>2, <1>3, <1>4
      <4> QED BY <4>1, <4>2, <1>4
    <3>3. i <= k \/ i > k
      BY <1>2
    <3> QED BY <3>1, <3>2, <3>3
  <2> QED BY <2>1, <2>2, SameSeq
<1> QED BY <1>1, <1>3, <1>4, <1>5 DEF a, b

(* A sequence that amounts to n and goes on with pieces of some length is   *)
(* cut where it goes on.                                                    *)
LEMMA CutBetween ==
  ASSUME NEW s \in Seq(Pieces), NEW t \in Seq(Pieces), \A i \in 1 .. Len(t) : t[i].len > 0
  PROVE  Within(s \o t, Bytes(s)) = s /\ After(s \o t, Bytes(s)) = t
<1> DEFINE r == s \o t
           a == Len(s)
           n == Bytes(s)
<1>1. /\ r \in Seq(Pieces) /\ Len(r) = a + Len(t) /\ a \in Nat /\ Len(t) \in Nat
      /\ (\A i \in 1 .. a : r[i] = s[i]) /\ \A i \in 1 .. Len(t) : r[a + i] = t[i]
  OBVIOUS
<1> HIDE DEF r, a
<1>2. SubSeq(r, 1, a) = s
  <2>1. /\ Len(SubSeq(r, 1, a)) = a /\ SubSeq(r, 1, a) \in Seq(Pieces)
        /\ \A i \in 1 .. a : SubSeq(r, 1, a)[i] = s[i]
    BY <1>1
  <2> QED BY <2>1 DEF a
<1>3. SubSeq(r, a + 1, Len(r)) = t
  <2>1. /\ Len(SubSeq(r, a + 1, Len(r))) = Len(t) /\ SubSeq(r, a + 1, Len(r)) \in Seq(Pieces)
        /\ \A i \in 1 .. Len(t) : SubSeq(r, a + 1, Len(r))[i] = t[i]
    BY <1>1
  <2> QED BY <2>1, SameSeq
<1>4. n \in Nat
  BY BytesType
<1>5. PICK k \in 0 .. Len(r) :
        /\ Within(r, n) = SubSeq(r, 1, k) /\ After(r, n) = SubSeq(r, k + 1, Len(r))
        /\ Bytes(SubSeq(r, 1, k)) <= n
        /\ \A j \in 0 .. Len(r) : Bytes(SubSeq(r, 1, j)) <= n => j <= k
  BY <1>1, <1>4, WithinCuts
<1>6. a <= k
  <2>1. a \in 0 .. Len(r)
    BY <1>1
  <2>2. Bytes(SubSeq(r, 1, a)) <= n
    <3>1. Bytes(SubSeq(r, 1, a)) = n
      BY <1>2
    <3> HIDE DEF n
    <3> QED BY <3>1, <1>4
  <2> QED BY <2>1, <2>2, <1>5
<1>7. ~(a < k)
  <2> SUFFICES ASSUME a < k PROVE FALSE
    OBVIOUS
  <2>1. PICK u : /\ SumsOf(u, Lengths(r))
                 /\ \A j \in 0 .. Len(r) : Bytes(SubSeq(r, 1, j)) = u[j]
    BY <1>1, BytesUpTo
  <2>2. /\ a \in 0 .. Len(r) /\ a + 1 \in 0 .. k /\ a + 1 \in 1 .. Len(r) /\ (a + 1) - 1 = a
        /\ k \in 0 .. Len(r)
    BY <1>1
  <2>3. Lengths(r) \in Seq(Nat) /\ Len(Lengths(r)) = Len(r)
    BY <1>1, LengthsType
  <2>4. u[a + 1] <= u[k]
    BY <2>1, <2>2, <2>3, SumsGrow
  <2>5. u[a + 1] = u[a] + Lengths(r)[a + 1]
    BY <2>1, <2>2, <2>3 DEF SumsOf
  <2>6. Lengths(r)[a + 1] = t[1].len
    <3>1. 1 \in 1 .. Len(t) /\ a + 1 \in DOMAIN r
      BY <1>1, <2>2
    <3>2. r[a + 1] = t[1]
      BY <3>1, <1>1
    <3> QED BY <3>1, <3>2 DEF Lengths
  <2>7. t[1].len > 0 /\ t[1].len \in Nat
    <3>1. 1 \in 1 .. Len(t) /\ t[1] \in Pieces
      BY <1>1, <2>2
    <3> QED BY <3>1 DEF Pieces
  <2>8. u[a] = n /\ u[k] <= n
    BY <2>1, <2>2, <1>2, <1>5
  <2>9. u[k] \in Int
    <3>1. u \in [0 .. Len(r) -> Nat]
      BY <2>1, <2>3 DEF SumsOf
    <3>2. u[k] \in Nat
      BY <3>1
    <3> QED BY <3>2
  <2> HIDE DEF n
  <2> QED BY <2>4, <2>5, <2>6, <2>7, <2>8, <2>9, <1>4
<1>8. k = a
  BY <1>1, <1>6, <1>7
<1> QED BY <1>2, <1>3, <1>5, <1>8 DEF r

-----------------------------------------------------------------------------
(* The members of a set in a sequence.                                      *)
IsAmong(u, s, X) ==
  /\ u[0] = <<>>
  /\ \A n \in 1 .. Len(s) : u[n] = IF s[n] \in X THEN Append(u[n - 1], s[n]) ELSE u[n - 1]

LEMMA AmongIsLast ==
  ASSUME NEW S, NEW s \in Seq(S), NEW X
  PROVE  \E u \in [0 .. Len(s) -> Seq({x \in S : x \in X})] :
           IsAmong(u, s, X) /\ Among(s, X) = u[Len(s)]
<1> DEFINE m == Len(s)
           T == {x \in S : x \in X}
           R == Seq(T)
           step == [p \in (1 .. m) \X R |-> IF s[p[1]] \in X THEN Append(p[2], s[p[1]]) ELSE p[2]]
           IsUpto(u) ==
             u = [i \in 0 .. m |-> IF i = 0 THEN <<>>
                                   ELSE IF s[i] \in X THEN Append(u[i - 1], s[i]) ELSE u[i - 1]]
<1>1. m \in Nat /\ (\A i \in 1 .. m : s[i] \in S) /\ <<>> \in R
  OBVIOUS
<1>2. IsStep(step, m, R)
  <2>1. ASSUME NEW p \in (1 .. m) \X R
        PROVE  (IF s[p[1]] \in X THEN Append(p[2], s[p[1]]) ELSE p[2]) \in R
    <3>1. p[1] \in 1 .. m /\ p[2] \in R /\ s[p[1]] \in S
      BY <1>1
    <3> DEFINE x == s[p[1]]
               q == p[2]
    <3>2. x \in X => x \in T
      BY <3>1
    <3>3. x \in X => Append(q, x) \in Seq(T)
      <4>1. q \in Seq(T)
        BY <3>1
      <4> HIDE DEF x, q, T
      <4> QED BY <4>1, <3>2
    <3> QED BY <3>1, <3>3
  <2> HIDE DEF R, m
  <2> QED BY <1>1, <2>1 DEF IsStep
<1> HIDE DEF m, R
<1>3. PICK f : Iterates(f, step, <<>>, m, R)
  <2> HIDE DEF step
  <2> QED BY <1>1, <1>2, Iteration
<1>4. f \in [0 .. m -> R] /\ f[0] = <<>>
  BY <1>3 DEF Iterates
<1>5. ASSUME NEW n \in 1 .. m
      PROVE  f[n] = IF s[n] \in X THEN Append(f[n - 1], s[n]) ELSE f[n - 1]
  <2>1. n - 1 \in 0 .. m /\ f[n] = step[<<n, f[n - 1]>>]
    <3> HIDE DEF step
    <3> QED BY <1>1, <1>3 DEF Iterates
  <2>2. f[n - 1] \in R
    BY <2>1, <1>4
  <2> QED BY <2>1, <2>2
<1>6. IsUpto(f)
  <2>1. \A i \in 0 .. m : f[i] = IF i = 0 THEN <<>>
                                 ELSE IF s[i] \in X THEN Append(f[i - 1], s[i]) ELSE f[i - 1]
    <3> TAKE i \in 0 .. m
    <3>1. i = 0 \/ i \in 1 .. m
      BY <1>1
    <3> QED BY <3>1, <1>4, <1>5
  <2> QED BY <2>1, <1>4
<1> DEFINE g == CHOOSE u : IsUpto(u)
<1>7. IsUpto(g)
  <2> HIDE DEF IsUpto
  <2> QED BY <1>6
<1>8. Among(s, X) = g[m]
  BY DEF Among, m
<1> HIDE DEF g
<1>9. f[m] = g[m]
  <2>1. \A n \in 0 .. m : g[n] = IF n = 0 THEN <<>>
                                 ELSE IF s[n] \in X THEN Append(g[n - 1], s[n]) ELSE g[n - 1]
    BY <1>7
  <2>2. f[0] = g[0]
    BY <2>1, <1>1, <1>4
  <2>3. \A n \in 1 .. m : g[n] = IF s[n] \in X THEN Append(g[n - 1], s[n]) ELSE g[n - 1]
    <3> TAKE n \in 1 .. m
    <3>1. n \in 0 .. m /\ n # 0
      BY <1>1
    <3> QED BY <3>1, <2>1
  <2>4. Alike(f, g, m)
    BY <2>2, <2>3, <1>5 DEF Alike
  <2> QED BY <2>4, <1>1, SameIteration
<1>10. IsAmong(f, s, X)
  BY <1>4, <1>5 DEF IsAmong, m
<1> QED BY <1>4, <1>8, <1>9, <1>10 DEF m, R

LEMMA AmongIs ==
  ASSUME NEW S, NEW s \in Seq(S), NEW X, NEW u, IsAmong(u, s, X)
  PROVE  Among(s, X) = u[Len(s)]
<1>1. PICK f : IsAmong(f, s, X) /\ Among(s, X) = f[Len(s)]
  BY AmongIsLast
<1>2. Alike(u, f, Len(s))
  BY <1>1 DEF IsAmong, Alike
<1>3. Len(s) \in Nat
  OBVIOUS
<1> QED BY <1>1, <1>2, <1>3, SameIteration

LEMMA AmongType ==
  ASSUME NEW S, NEW s \in Seq(S), NEW X
  PROVE  Among(s, X) \in Seq(S) /\ Among(s, X) \in Seq({x \in S : x \in X})
<1>1. PICK u \in [0 .. Len(s) -> Seq({x \in S : x \in X})] : Among(s, X) = u[Len(s)]
  BY AmongIsLast
<1>2. Len(s) \in 0 .. Len(s)
  OBVIOUS
<1> DEFINE a == Among(s, X)
<1>3. a \in Seq({x \in S : x \in X})
  BY <1>1, <1>2
<1> HIDE DEF a
<1>4. a \in Seq(S)
  BY <1>3
<1> QED BY <1>3, <1>4 DEF a

(* What is in one of two sets that leave nothing out is counted once.       *)
LEMMA AmongParts ==
  ASSUME NEW S, NEW s \in Seq(S), NEW X, NEW Y,
         \A i \in 1 .. Len(s) : s[i] \in X <=> s[i] \notin Y
  PROVE  Len(Among(s, X)) + Len(Among(s, Y)) = Len(s)
<1> DEFINE m == Len(s)
<1>1. PICK u \in [0 .. m -> Seq({x \in S : x \in X})] : IsAmong(u, s, X) /\ Among(s, X) = u[m]
  BY AmongIsLast
<1>2. PICK v \in [0 .. m -> Seq({x \in S : x \in Y})] : IsAmong(v, s, Y) /\ Among(s, Y) = v[m]
  BY AmongIsLast
<1>3. m \in Nat /\ \A i \in 1 .. m : s[i] \in X <=> s[i] \notin Y
  OBVIOUS
<1>4. /\ u[0] = <<>> /\ v[0] = <<>>
      /\ \A n \in 1 .. m : u[n] = IF s[n] \in X THEN Append(u[n - 1], s[n]) ELSE u[n - 1]
      /\ \A n \in 1 .. m : v[n] = IF s[n] \in Y THEN Append(v[n - 1], s[n]) ELSE v[n - 1]
  BY <1>1, <1>2 DEF IsAmong
<1>5. \A n \in 0 .. m : IsSeq(u[n]) /\ IsSeq(v[n])
  BY <1>1, <1>2, SeqIsSeq
<1> HIDE DEF m
<1> DEFINE T == {n \in Nat : n <= m => Len(u[n]) + Len(v[n]) = n}
<1>6. 0 \in T
  BY <1>4
<1>7. ASSUME NEW n \in 1 .. m, n - 1 \in T PROVE n \in T
  <2>1. n - 1 \in 0 .. m /\ n - 1 \in Nat /\ n - 1 <= m /\ n \in Nat
    BY <1>3
  <2>2. Len(u[n - 1]) + Len(v[n - 1]) = n - 1
    BY <1>7, <2>1
  <2>3. Len(u[n - 1]) \in Nat /\ Len(v[n - 1]) \in Nat
    BY <2>1, <1>5 DEF IsSeq
  <2>4. CASE s[n] \in X
    <3>1. u[n] = Append(u[n - 1], s[n]) /\ v[n] = v[n - 1]
      BY <2>4, <1>3, <1>4
    <3>2. Len(u[n]) = Len(u[n - 1]) + 1
      BY <3>1, <2>1, <1>5, AppendIsSeq
    <3>3. Len(u[n]) + Len(v[n]) = n
      BY <3>1, <3>2, <2>1, <2>2, <2>3
    <3> QED BY <3>3, <2>1
  <2>5. CASE s[n] \notin X
    <3>1. v[n] = Append(v[n - 1], s[n]) /\ u[n] = u[n - 1]
      BY <2>5, <1>3, <1>4
    <3>2. Len(v[n]) = Len(v[n - 1]) + 1
      BY <3>1, <2>1, <1>5, AppendIsSeq
    <3>3. Len(u[n]) + Len(v[n]) = n
      BY <3>1, <3>2, <2>1, <2>2, <2>3
    <3> QED BY <3>3, <2>1
  <2> QED BY <2>4, <2>5
<1>8. 0 .. m \subseteq T
  <2> HIDE DEF T
  <2> QED BY <1>3, <1>6, <1>7, BoundedInduction
<1>9. m \in T /\ m <= m
  BY <1>8, <1>3
<1> QED BY <1>1, <1>2, <1>9 DEF m

LEMMA PrefixGrows ==
  ASSUME NEW S, NEW s \in Seq(S)
  PROVE  /\ SubSeq(s, 1, 0) = <<>> /\ SubSeq(s, 1, Len(s)) = s
         /\ \A n \in 1 .. Len(s) : SubSeq(s, 1, n) = Append(SubSeq(s, 1, n - 1), s[n])
<1>1. Len(s) \in Nat
  OBVIOUS
<1>2. \A n \in 0 .. Len(s) : /\ SubSeq(s, 1, n) \in Seq(S) /\ Len(SubSeq(s, 1, n)) = n
                             /\ \A i \in 1 .. n : SubSeq(s, 1, n)[i] = s[i]
  <2> TAKE n \in 0 .. Len(s)
  <2>1. n \in Nat /\ n <= Len(s)
    BY <1>1
  <2> QED BY <2>1
<1>3. SubSeq(s, 1, Len(s)) = s
  <2>1. Len(s) \in 0 .. Len(s)
    BY <1>1
  <2> QED BY <2>1, <1>2, SameSeq
<1>4. SubSeq(s, 1, 0) = <<>>
  OBVIOUS
<1>5. ASSUME NEW n \in 1 .. Len(s) PROVE SubSeq(s, 1, n) = Append(SubSeq(s, 1, n - 1), s[n])
  <2> DEFINE a == SubSeq(s, 1, n - 1)
             b == SubSeq(s, 1, n)
  <2>1. n \in 0 .. Len(s) /\ n - 1 \in 0 .. Len(s) /\ s[n] \in S
    BY <1>1
  <2>2. /\ a \in Seq(S) /\ Len(a) = n - 1 /\ \A i \in 1 .. (n - 1) : a[i] = s[i]
    BY <2>1, <1>2
  <2>3. /\ b \in Seq(S) /\ Len(b) = n /\ \A i \in 1 .. n : b[i] = s[i]
    BY <2>1, <1>2
  <2> HIDE DEF a, b
  <2>4. Append(a, s[n]) \in Seq(S) /\ Len(Append(a, s[n])) = n
    BY <2>1, <2>2
  <2>5. ASSUME NEW i \in 1 .. n PROVE b[i] = Append(a, s[n])[i]
    <3>1. CASE i = n
      BY <3>1, <2>1, <2>2, <2>3
    <3>2. CASE i # n
      <4>1. i \in 1 .. (n - 1) /\ i \in 1 .. n
        BY <3>2, <2>1
      <4> QED BY <4>1, <2>1, <2>2, <2>3
    <3> QED BY <3>1, <3>2
  <2>6. b = Append(a, s[n])
    BY <2>3, <2>4, <2>5, SameSeq
  <2> QED BY <2>6 DEF a, b
<1> QED BY <1>3, <1>4, <1>5

(* t is what is left of s when c[n] of the first n members are taken.       *)
Takes(c, s, X, t) ==
  /\ c[0] = 0 /\ c[Len(s)] = Len(t) /\ \A n \in 0 .. Len(s) : c[n] \in 0 .. Len(t)
  /\ \A n \in 1 .. Len(s) :
       IF s[n] \in X THEN c[n] = c[n - 1] + 1 /\ t[c[n]] = s[n] ELSE c[n] = c[n - 1]

LEMMA AmongTakes ==
  ASSUME NEW S, NEW s \in Seq(S), NEW t \in Seq(S), NEW X, NEW c, Takes(c, s, X, t)
  PROVE  Among(s, X) = t
<1> DEFINE u == [n \in 0 .. Len(s) |-> SubSeq(t, 1, c[n])]
<1>1. Len(s) \in Nat /\ Len(t) \in Nat /\ 0 \in 0 .. Len(s) /\ Len(s) \in 0 .. Len(s)
  OBVIOUS
<1>2. u[0] = <<>> /\ u[Len(s)] = t
  BY <1>1, PrefixGrows DEF Takes
<1>3. ASSUME NEW n \in 1 .. Len(s)
      PROVE  u[n] = IF s[n] \in X THEN Append(u[n - 1], s[n]) ELSE u[n - 1]
  <2>1. n \in 0 .. Len(s) /\ n - 1 \in 0 .. Len(s)
    BY <1>1
  <2>2. u[n] = SubSeq(t, 1, c[n]) /\ u[n - 1] = SubSeq(t, 1, c[n - 1])
    BY <2>1
  <2>3. c[n] \in 0 .. Len(t) /\ c[n - 1] \in 0 .. Len(t)
    BY <2>1 DEF Takes
  <2>4. CASE s[n] \in X
    <3>1. c[n] = c[n - 1] + 1 /\ t[c[n]] = s[n]
      BY <2>4 DEF Takes
    <3>2. c[n] \in 1 .. Len(t) /\ c[n] - 1 = c[n - 1]
      BY <3>1, <2>3, <1>1
    <3>3. SubSeq(t, 1, c[n]) = Append(SubSeq(t, 1, c[n] - 1), t[c[n]])
      BY <3>2, PrefixGrows
    <3> QED BY <3>1, <3>2, <3>3, <2>2, <2>4
  <2>5. CASE s[n] \notin X
    <3>1. c[n] = c[n - 1]
      BY <2>5 DEF Takes
    <3> QED BY <3>1, <2>2, <2>5
  <2> QED BY <2>4, <2>5
<1> HIDE DEF u
<1>4. IsAmong(u, s, X)
  BY <1>2, <1>3 DEF IsAmong
<1> QED BY <1>2, <1>4, AmongIs

LEMMA AmongJoined ==
  ASSUME NEW S, NEW s \in Seq(S), NEW t \in Seq(S), NEW X
  PROVE  /\ (\A i \in 1 .. Len(s) : s[i] \in X) /\ (\A i \in 1 .. Len(t) : t[i] \notin X)
              => Among(s \o t, X) = s
         /\ (\A i \in 1 .. Len(s) : s[i] \notin X) /\ (\A i \in 1 .. Len(t) : t[i] \in X)
              => Among(s \o t, X) = t
<1> DEFINE r == s \o t
           a == Len(s)
           b == Len(t)
           c == [n \in 0 .. (a + b) |-> IF n <= a THEN n ELSE a]
           d == [n \in 0 .. (a + b) |-> IF n <= a THEN 0 ELSE n - a]
<1>1. /\ r \in Seq(S) /\ Len(r) = a + b /\ a \in Nat /\ b \in Nat
      /\ \A i \in 1 .. (a + b) : r[i] = IF i <= a THEN s[i] ELSE t[i - a]
  <2>1. r \in Seq(S) /\ Len(r) = a + b /\ a \in Nat /\ b \in Nat
    OBVIOUS
  <2>2. ASSUME NEW i \in 1 .. (a + b) PROVE r[i] = IF i <= a THEN s[i] ELSE t[i - a]
    BY <2>1
  <2> QED BY <2>1, <2>2
<1> HIDE DEF r
<1>2. ASSUME \A i \in 1 .. a : s[i] \in X, \A i \in 1 .. b : t[i] \notin X
      PROVE  Among(r, X) = s
  <2> HIDE DEF a, b
  <2>1. \A n \in 0 .. (a + b) : c[n] \in 0 .. a
    BY <1>1
  <2>2. c[0] = 0 /\ c[a + b] = a
    <3>1. 0 \in 0 .. (a + b) /\ a + b \in 0 .. (a + b) /\ (a + b <= a => a + b = a)
      BY <1>1
    <3>2. c[0] = 0
      BY <3>1, <1>1
    <3>3. c[a + b] = a
      BY <3>1, <1>1
    <3> QED BY <3>2, <3>3
  <2>3. ASSUME NEW n \in 1 .. (a + b)
        PROVE  IF r[n] \in X THEN c[n] = c[n - 1] + 1 /\ s[c[n]] = r[n] ELSE c[n] = c[n - 1]
    <3>1. n \in 0 .. (a + b) /\ n - 1 \in 0 .. (a + b)
      BY <1>1
    <3>2. CASE n <= a
      <4>1. r[n] = s[n] /\ n \in 1 .. a
        BY <3>2, <1>1
      <4>2. c[n] = n /\ c[n - 1] = n - 1
        BY <3>1, <3>2, <1>1
      <4> QED BY <4>1, <4>2, <1>2
    <3>3. CASE ~(n <= a)
      <4>1. r[n] = t[n - a] /\ n - a \in 1 .. b
        BY <3>3, <1>1
      <4>2. c[n] = a /\ c[n - 1] = a
        BY <3>1, <3>3, <1>1
      <4> QED BY <4>1, <4>2, <1>2
    <3> QED BY <3>2, <3>3
  <2> HIDE DEF c
  <2>4. Takes(c, r, X, s)
    BY <2>1, <2>2, <2>3, <1>1 DEF Takes, a
  <2> QED BY <2>4, <1>1, AmongTakes
<1>3. ASSUME \A i \in 1 .. a : s[i] \notin X, \A i \in 1 .. b : t[i] \in X
      PROVE  Among(r, X) = t
  <2> HIDE DEF a, b
  <2>1. \A n \in 0 .. (a + b) : d[n] \in 0 .. b
    BY <1>1
  <2>2. d[0] = 0 /\ d[a + b] = b
    <3>1. 0 \in 0 .. (a + b) /\ a + b \in 0 .. (a + b) /\ (a + b <= a => b = 0) /\ (a + b) - a = b
      BY <1>1
    <3>2. d[0] = 0
      BY <3>1, <1>1
    <3>3. d[a + b] = b
      BY <3>1, <1>1
    <3> QED BY <3>2, <3>3
  <2>3. ASSUME NEW n \in 1 .. (a + b)
        PROVE  IF r[n] \in X THEN d[n] = d[n - 1] + 1 /\ t[d[n]] = r[n] ELSE d[n] = d[n - 1]
    <3>1. n \in 0 .. (a + b) /\ n - 1 \in 0 .. (a + b)
      BY <1>1
    <3>2. CASE n <= a
      <4>1. r[n] = s[n] /\ n \in 1 .. a
        BY <3>2, <1>1
      <4>2. d[n] = 0 /\ d[n - 1] = 0
        BY <3>1, <3>2, <1>1
      <4> QED BY <4>1, <4>2, <1>3
    <3>3. CASE ~(n <= a)
      <4>1. r[n] = t[n - a] /\ n - a \in 1 .. b
        BY <3>3, <1>1
      <4>2. d[n] = n - a /\ d[n - 1] = n - a - 1
        BY <3>1, <3>3, <1>1
      <4> QED BY <4>1, <4>2, <1>3
    <3> QED BY <3>2, <3>3
  <2> HIDE DEF d
  <2>4. Takes(d, r, X, t)
    BY <2>1, <2>2, <2>3, <1>1 DEF Takes, b
  <2> QED BY <2>4, <1>1, AmongTakes
<1> QED BY <1>2, <1>3 DEF r

-----------------------------------------------------------------------------
(* Transactions and their bytes.                                            *)
Addresses == STRING \cup {NoAddress, Zero}
Tx ==
  [kind : Kinds, timestamp : Int, from : Addresses, to : Addresses, amount : Int, fee : Int,
   asset : Seq(Pieces), sigs : Seq(Pieces)]

LEMMA FeeEntryType ==
  ASSUME NEW h
  PROVE  FeeEntry(h) \in [height : Nat, fee : Nat, perByte : Nat]
<1> DEFINE reached == {i \in 2 .. Len(FeeEntries) : h >= FeeEntries[i].height}
           S == reached \cup {1}
<1>1. Len(FeeEntries) \in Nat /\ Len(FeeEntries) >= 1
  BY TransactionBytesAssumption
<1>2. S \in SUBSET (0 .. Len(FeeEntries)) /\ S \in SUBSET (1 .. Len(FeeEntries)) /\ S # {}
  BY <1>1
<1> HIDE DEF S
<1>3. Max(S) \in 1 .. Len(FeeEntries)
  BY <1>1, <1>2, MaxUpTo
<1>4. FeeEntry(h) = FeeEntries[Max(S)]
  BY DEF FeeEntry, S
<1> DEFINE E == [height : Nat, fee : Nat, perByte : Nat]
<1>5. FeeEntries \in Seq(E)
  BY TransactionBytesAssumption
<1> HIDE DEF E
<1>6. FeeEntries[Max(S)] \in E
  BY <1>3, <1>5
<1> QED BY <1>4, <1>6 DEF E

LEMMA CountedType ==
  ASSUME NEW s \in Seq(Pieces)
  PROVE  /\ Counted(s) \in Seq(Pieces) /\ Len(Counted(s)) = 2 * Len(s)
         /\ \A i \in 1 .. Len(s) : Counted(s)[2 * i] = s[i]
<1> DEFINE c == [i \in 1 .. (2 * Len(s)) |->
                   IF i % 2 = 1 THEN Number(s[(i + 1) \div 2].len) ELSE s[i \div 2]]
<1>1. Len(s) \in Nat
  OBVIOUS
<1>2. \A n \in Nat : Number(n) \in Pieces
  <2> TAKE n \in Nat
  <2>1. \A W, a, b : a \in W /\ b \in W => <<a, b>> \in Seq(W)
    OBVIOUS
  <2>2. "number" \in Words /\ n \in Words
    BY DEF Words
  <2>3. <<"number", n>> \in Seq(Words)
    BY <2>1, <2>2
  <2> QED BY <2>3 DEF Number, Piece, Pieces
<1>3. ASSUME NEW i \in 1 .. (2 * Len(s)) PROVE c[i] \in Pieces
  <2>1. CASE i % 2 = 1
    <3>1. (i + 1) \div 2 \in 1 .. Len(s)
      BY <2>1, <1>1
    <3>2. s[(i + 1) \div 2] \in Pieces
      BY <3>1
    <3>3. s[(i + 1) \div 2].len \in Nat
      BY <3>2 DEF Pieces
    <3> QED BY <2>1, <3>3, <1>2
  <2>2. CASE i % 2 # 1
    <3>1. i \div 2 \in 1 .. Len(s)
      BY <2>2, <1>1
    <3> QED BY <2>2, <3>1
  <2> QED BY <2>1, <2>2
<1>4. ASSUME NEW i \in 1 .. Len(s) PROVE c[2 * i] = s[i]
  <2>1. 2 * i \in 1 .. (2 * Len(s)) /\ (2 * i) % 2 # 1 /\ (2 * i) \div 2 = i
    BY <1>1
  <2> QED BY <2>1
<1>5. c \in [1 .. (2 * Len(s)) -> Pieces] /\ 2 * Len(s) \in Nat
  BY <1>1, <1>3
<1>6. Counted(s) = c
  BY DEF Counted
<1> HIDE DEF c
<1>7. c \in Seq(Pieces) /\ Len(c) = 2 * Len(s)
  BY <1>5
<1> QED BY <1>4, <1>6, <1>7

(* The old format: the asset and the signatures in one.                     *)
LEMMA OldBytes ==
  ASSUME NEW tx \in Tx, tx.kind \in Old
  PROVE  FullBytes(tx) =
           [kind |-> tx.kind,
            time |-> tx.timestamp + (IF tx.to \in V2Addresses THEN TimeBit ELSE 0),
            from |-> tx.from, to |-> IF tx.to = NoAddress THEN Zero ELSE tx.to,
            amount |-> tx.amount, tail |-> tx.asset \o tx.sigs]
<1>1. Asset(tx) = tx.asset
  BY DEF Asset, AssetBytes, Plain, Old
<1> DEFINE b == [kind |-> tx.kind,
                 time |-> tx.timestamp + (IF tx.to \in V2Addresses THEN TimeBit ELSE 0),
                 from |-> tx.from, to |-> IF tx.to = NoAddress THEN Zero ELSE tx.to,
                 amount |-> tx.amount, tail |-> tx.asset]
<1>2. Signable(tx) = b
  BY <1>1 DEF Signable, OldSignable
<1>3. FullBytes(tx) = [b EXCEPT !.tail = tx.asset \o tx.sigs]
  BY <1>2 DEF FullBytes
<1> QED BY <1>3

LEMMA NewBytes ==
  ASSUME NEW tx \in Tx, tx.kind \notin Old
  PROVE  FullBytes(tx) =
           [kind |-> tx.kind, time |-> tx.timestamp, from |-> tx.from, to |-> tx.to,
            amount |-> tx.amount, fee |-> tx.fee, asset |-> Asset(tx), tail |-> tx.sigs]
<1>1. <<>> \o tx.sigs = tx.sigs
  <2>1. tx.sigs \in Seq(Pieces)
    BY DEF Tx
  <2> QED BY <2>1
<1> QED BY <1>1 DEF FullBytes, Signable, NewSignable

LEMMA MinFeeType ==
  ASSUME NEW tx, NEW h, tx.kind \in Kinds, tx.asset \in Seq(Pieces)
  PROVE  MinFee(tx, h) \in Nat /\ (tx.kind \in Old => MinFee(tx, h) = FeeEntry(h).fee)
<1>1. FeeEntry(h).fee \in Nat /\ FeeEntry(h).perByte \in Nat
  BY FeeEntryType
<1>2. CASE tx.kind \in {"send", "keystore"}
  <2>1. Asset(tx) \in Seq(Pieces)
    BY <1>2, CountedType DEF Asset, AssetBytes, Plain
  <2>2. Bytes(Asset(tx)) \in Nat
    BY <2>1, BytesType
  <2>3. FeeEntry(h).perByte * Bytes(Asset(tx)) \in Nat
    BY <1>1, <2>2
  <2>4. MinFee(tx, h) = FeeEntry(h).fee + (FeeEntry(h).perByte * Bytes(Asset(tx)))
    BY <1>2 DEF MinFee
  <2>5. tx.kind \notin Old
    BY <1>2 DEF Old
  <2> QED BY <1>1, <2>3, <2>4, <2>5
<1>3. CASE tx.kind \notin {"send", "keystore"}
  BY <1>1, <1>3 DEF MinFee
<1> QED BY <1>2, <1>3

LEMMA ConsumedType ==
  ASSUME NEW b, b.kind \in Old, b.tail \in Seq(Pieces)
  PROVE  Consumed(b) \in Nat
<1>1. NameBytes(b.tail) \in Nat
  BY BytesType DEF NameBytes
<1>2. KeysRead(b.tail) \in 0 .. 1
  BY DEF KeysRead
<1> QED BY <1>1, <1>2 DEF Consumed, Old

LEMMA OldTail ==
  ASSUME NEW tx \in Tx, tx.kind \in Old
  PROVE  FullBytes(tx).kind = tx.kind /\ FullBytes(tx).tail = tx.asset \o tx.sigs
<1> DEFINE time == tx.timestamp + (IF tx.to \in V2Addresses THEN TimeBit ELSE 0)
           to == IF tx.to = NoAddress THEN Zero ELSE tx.to
           tail == tx.asset \o tx.sigs
           b == FullBytes(tx)
<1>1. b = [kind |-> tx.kind, time |-> time, from |-> tx.from, to |-> to,
           amount |-> tx.amount, tail |-> tail]
  BY OldBytes
<1> HIDE DEF time, to, tail, b
<1>2. b.kind = tx.kind /\ b.tail = tail
  BY <1>1
<1> QED BY <1>2 DEF b, tail

(* A transaction whose bytes of the old format can be read is cut where its *)
(* signatures begin.                                                        *)
CutAsRead(tx) ==
  LET b == FullBytes(tx)
  IN tx.asset = Within(b.tail, Consumed(b)) /\ tx.sigs = After(b.tail, Consumed(b))
Sound ==
  {tx \in Tx : /\ tx.kind = "oldSend" => tx.asset = <<>>
               /\ tx.kind \in Old /\ ~Unreadable(FullBytes(tx)) => CutAsRead(tx)}

(* Whatever is decoded in the old format is cut as it was read.             *)
LEMMA OldIsDecoded ==
  ASSUME NEW o \in Sound, NEW k, o.kind \in Old, ~Unreadable(FullBytes(o))
  PROVE  /\ Decoded(FullBytes(o), k) =
              [kind |-> o.kind,
               timestamp |-> LET time == FullBytes(o).time
                             IN IF time >= TimeBit THEN time - TimeBit ELSE time,
               from |-> o.from,
               to |-> IF Deletes(FullBytes(o)) THEN NoAddress ELSE FullBytes(o).to,
               amount |-> o.amount, fee |-> FeeEntry(k).fee,
               asset |-> o.asset, sigs |-> o.sigs]
         /\ Decoded(FullBytes(o), k) \in Sound
<1> DEFINE b == FullBytes(o)
           d == Decoded(b, k)
<1>1. o \in Tx /\ CutAsRead(o) /\ (o.kind = "oldSend" => o.asset = <<>>)
  BY DEF Sound
<1>2. b = [kind |-> o.kind,
           time |-> o.timestamp + (IF o.to \in V2Addresses THEN TimeBit ELSE 0),
           from |-> o.from, to |-> IF o.to = NoAddress THEN Zero ELSE o.to,
           amount |-> o.amount, tail |-> o.asset \o o.sigs]
  BY <1>1, OldBytes
<1>3. o.asset = Within(b.tail, Consumed(b)) /\ o.sigs = After(b.tail, Consumed(b))
  BY <1>1 DEF CutAsRead
<1>4. d = [kind |-> b.kind,
           timestamp |-> IF b.time >= TimeBit THEN b.time - TimeBit ELSE b.time,
           from |-> b.from, to |-> IF Deletes(b) THEN NoAddress ELSE b.to,
           amount |-> b.amount, fee |-> FeeEntry(k).fee,
           asset |-> Within(b.tail, Consumed(b)), sigs |-> After(b.tail, Consumed(b))]
  BY <1>2 DEF Decoded, OldDecoded, OldFee
<1>5. /\ b.kind = o.kind /\ b.from = o.from /\ b.amount = o.amount /\ b.time \in Int
      /\ b.to \in Addresses /\ b.tail = o.asset \o o.sigs
  <2>1. o.timestamp \in Int /\ o.to \in Addresses /\ TimeBit \in Int
    BY <1>1 DEF Tx, TimeBit
  <2>2. b.to \in Addresses
    BY <1>2, <2>1 DEF Addresses
  <2>3. b.time \in Int
    BY <1>2, <2>1
  <2> HIDE DEF b
  <2>4. /\ b.kind = o.kind /\ b.from = o.from /\ b.amount = o.amount
        /\ b.tail = o.asset \o o.sigs
    BY <1>2
  <2> QED BY <2>2, <2>3, <2>4
<1> HIDE DEF b
<1>6. d = [kind |-> o.kind,
           timestamp |-> IF b.time >= TimeBit THEN b.time - TimeBit ELSE b.time,
           from |-> o.from, to |-> IF Deletes(b) THEN NoAddress ELSE b.to,
           amount |-> o.amount, fee |-> FeeEntry(k).fee,
           asset |-> o.asset, sigs |-> o.sigs]
  BY <1>3, <1>4, <1>5
<1> HIDE DEF d
<1>7. d \in Tx
  <2>1. (IF b.time >= TimeBit THEN b.time - TimeBit ELSE b.time) \in Int
    BY <1>5 DEF TimeBit
  <2>2. (IF Deletes(b) THEN NoAddress ELSE b.to) \in Addresses
    BY <1>5 DEF Addresses
  <2>3. FeeEntry(k).fee \in Int
    BY FeeEntryType
  <2> DEFINE time == IF b.time >= TimeBit THEN b.time - TimeBit ELSE b.time
             to == IF Deletes(b) THEN NoAddress ELSE b.to
             fee == FeeEntry(k).fee
  <2>4. time \in Int /\ to \in Addresses /\ fee \in Int
    BY <2>1, <2>2, <2>3
  <2>5. d = [kind |-> o.kind, timestamp |-> time, from |-> o.from, to |-> to,
             amount |-> o.amount, fee |-> fee, asset |-> o.asset, sigs |-> o.sigs]
    BY <1>6
  <2> HIDE DEF time, to, fee
  <2> QED BY <1>1, <2>4, <2>5 DEF Tx
<1>8. CutAsRead(d)
  <2>1. d.kind = o.kind /\ d.asset = o.asset /\ d.sigs = o.sigs
    BY <1>6
  <2>2. FullBytes(d).kind = b.kind /\ FullBytes(d).tail = b.tail
    <3>1. d.kind \in Old
      BY <2>1
    <3>2. /\ FullBytes(d).kind = d.kind /\ FullBytes(d).tail = d.asset \o d.sigs
      BY <3>1, <1>7, OldTail
    <3> QED BY <3>2, <1>5, <2>1
  <2>3. Consumed(FullBytes(d)) = Consumed(b)
    BY <2>2 DEF Consumed
  <2> QED BY <1>3, <2>1, <2>2, <2>3 DEF CutAsRead
<1>9. d \in Sound
  BY <1>1, <1>6, <1>7, <1>8 DEF Sound
<1> QED BY <1>6, <1>9 DEF b, d

-----------------------------------------------------------------------------
(* Votes: the ones added before the ones removed.                           *)
LEMMA VotesApart ==
  ASSUME NEW v \in Seq(Pieces)
  PROVE  LET a == Added(v)
             r == Removed(v)
         IN /\ a \in Seq(Pieces) /\ r \in Seq(Pieces) /\ a \o r \in Seq(Pieces)
            /\ Len(a) + Len(r) = Len(v) /\ Len(a \o r) = Len(v)
            /\ Added(a \o r) = a /\ Removed(a \o r) = r
<1> DEFINE X == {x \in ToSet(v) : IsAdded(x)}
           Y == {x \in ToSet(v) : ~IsAdded(x)}
           a == Added(v)
           r == Removed(v)
<1>1. a = Among(v, X) /\ r = Among(v, Y)
  BY DEF Added, Removed
<1>2. \A i \in 1 .. Len(v) : v[i] \in X <=> v[i] \notin Y
  <2>1. \A i \in 1 .. Len(v) : v[i] \in ToSet(v)
    BY DEF ToSet
  <2> QED BY <2>1
<1>3. /\ a \in Seq(Pieces) /\ a \in Seq({x \in Pieces : x \in X})
      /\ r \in Seq(Pieces) /\ r \in Seq({x \in Pieces : x \in Y})
  BY <1>1, AmongType
<1>4. Len(a) + Len(r) = Len(v)
  BY <1>1, <1>2, AmongParts
<1>5. (\A i \in 1 .. Len(a) : a[i] \in X) /\ (\A i \in 1 .. Len(r) : r[i] \in Y)
  <2> HIDE DEF a, r, X, Y
  <2>1. \A i \in 1 .. Len(a) : a[i] \in {x \in Pieces : x \in X}
    BY <1>3
  <2>2. \A i \in 1 .. Len(r) : r[i] \in {x \in Pieces : x \in Y}
    BY <1>3
  <2> QED BY <2>1, <2>2
<1>6. (\A i \in 1 .. Len(a) : IsAdded(a[i])) /\ (\A i \in 1 .. Len(r) : ~IsAdded(r[i]))
  BY <1>5
<1> HIDE DEF X, Y, a, r
<1> DEFINE s == a \o r
           U == {x \in ToSet(s) : IsAdded(x)}
           W == {x \in ToSet(s) : ~IsAdded(x)}
<1>7. s \in Seq(Pieces) /\ Len(s) = Len(v)
  BY <1>3, <1>4
<1>8. /\ \A i \in 1 .. Len(a) : a[i] \in ToSet(s)
      /\ \A i \in 1 .. Len(r) : r[i] \in ToSet(s)
  <2>1. ASSUME NEW i \in 1 .. Len(a) PROVE a[i] \in ToSet(s)
    <3>1. i \in DOMAIN s /\ s[i] = a[i]
      BY <1>3
    <3> QED BY <3>1 DEF ToSet
  <2>2. ASSUME NEW i \in 1 .. Len(r) PROVE r[i] \in ToSet(s)
    <3>1. Len(a) + i \in DOMAIN s /\ s[Len(a) + i] = r[i]
      BY <1>3
    <3> HIDE DEF s
    <3> QED BY <3>1 DEF ToSet
  <2> QED BY <2>1, <2>2
<1>9. Among(s, U) = a
  <2>1. (\A i \in 1 .. Len(a) : a[i] \in U) /\ (\A i \in 1 .. Len(r) : r[i] \notin U)
    BY <1>6, <1>8
  <2> HIDE DEF U
  <2> QED BY <2>1, <1>3, AmongJoined
<1>10. Among(s, W) = r
  <2>1. (\A i \in 1 .. Len(a) : a[i] \notin W) /\ (\A i \in 1 .. Len(r) : r[i] \in W)
    BY <1>6, <1>8
  <2> HIDE DEF W
  <2> QED BY <2>1, <1>3, AmongJoined
<1>11. Added(s) = a /\ Removed(s) = r
  BY <1>9, <1>10 DEF Added, Removed
<1> QED BY <1>3, <1>4, <1>7, <1>11 DEF a, r

LEMMA CountedAllIs ==
  ASSUME NEW s \in Seq(Pieces)
  PROVE  /\ CountedAll(s) \in Seq(Pieces) /\ Len(CountedAll(s)) = 1 + (2 * Len(s))
         /\ CountedAll(s)[1].is[2] = Len(s)
         /\ \A i \in 1 .. Len(s) : CountedAll(s)[1 + (2 * i)] = s[i]
<1> DEFINE n == Number(Len(s))
           c == Counted(s)
<1>1. n \in Pieces /\ n.is[2] = Len(s)
  <2>1. \A W, a, b : a \in W /\ b \in W => <<a, b>> \in Seq(W)
    OBVIOUS
  <2>2. "number" \in Words /\ Len(s) \in Words
    BY DEF Words
  <2>3. <<"number", Len(s)>> \in Seq(Words)
    BY <2>1, <2>2
  <2>4. n \in Pieces
    BY <2>3 DEF Number, Piece, Pieces
  <2>5. n.is[2] = Len(s)
    BY DEF Number, Piece
  <2> QED BY <2>4, <2>5
<1>2. c \in Seq(Pieces) /\ Len(c) = 2 * Len(s) /\ Len(s) \in Nat
      /\ \A i \in 1 .. Len(s) : c[2 * i] = s[i]
  BY CountedType
<1> HIDE DEF n, c
<1> DEFINE r == <<n>> \o c
<1>3. r \in Seq(Pieces) /\ Len(r) = 1 + (2 * Len(s)) /\ r[1] = n
  BY <1>1, <1>2
<1>4. ASSUME NEW i \in 1 .. Len(s) PROVE r[1 + (2 * i)] = s[i]
  <2>1. 2 * i \in 1 .. Len(c)
    BY <1>2
  <2>2. r[1 + (2 * i)] = c[2 * i]
    BY <2>1, <1>1, <1>2
  <2> QED BY <2>2, <1>2
<1>5. CountedAll(s) = r
  BY DEF CountedAll, n, c
<1> HIDE DEF r
<1> QED BY <1>1, <1>3, <1>4, <1>5

(* What the new vote reads is what it wrote, the added ones first.          *)
LEMMA VotesReadBack ==
  ASSUME NEW v \in Seq(Pieces)
  PROVE  BothArrays(VoteBytes(v)) = Added(v) \o Removed(v)
<1> DEFINE a == Added(v)
           r == Removed(v)
           p == CountedAll(a)
           q == CountedAll(r)
           b == p \o q
           m == Len(a)
           n == Len(r)
           at == 2 + (2 * m)
<1>1. a \in Seq(Pieces) /\ r \in Seq(Pieces) /\ m \in Nat /\ n \in Nat
  <2>1. a \in Seq(Pieces) /\ r \in Seq(Pieces)
    BY VotesApart
  <2> HIDE DEF a, r
  <2> QED BY <2>1
<1> HIDE DEF a, r
<1>2. /\ p \in Seq(Pieces) /\ Len(p) = 1 + (2 * m) /\ p[1].is[2] = m
      /\ \A i \in 1 .. m : p[1 + (2 * i)] = a[i]
  BY <1>1, CountedAllIs
<1>3. /\ q \in Seq(Pieces) /\ Len(q) = 1 + (2 * n) /\ q[1].is[2] = n
      /\ \A i \in 1 .. n : q[1 + (2 * i)] = r[i]
  BY <1>1, CountedAllIs
<1> HIDE DEF p, q
<1>4. b[1] = p[1]
  BY <1>1, <1>2, <1>3
<1>5. \A i \in 1 .. m : b[1 + (2 * i)] = a[i]
  <2> TAKE i \in 1 .. m
  <2>1. 1 + (2 * i) \in 1 .. Len(p)
    BY <1>1, <1>2
  <2>2. b[1 + (2 * i)] = p[1 + (2 * i)]
    BY <2>1, <1>2, <1>3
  <2> QED BY <2>2, <1>2
<1>6. b[at] = q[1]
  <2>1. at = Len(p) + 1 /\ 1 \in 1 .. Len(q) /\ Len(p) \in Nat
    BY <1>1, <1>2, <1>3
  <2> HIDE DEF at
  <2> QED BY <2>1, <1>2, <1>3
<1>7. \A i \in 1 .. n : b[at + (2 * i)] = r[i]
  <2> TAKE i \in 1 .. n
  <2>1. at + (2 * i) = Len(p) + (1 + (2 * i)) /\ 1 + (2 * i) \in 1 .. Len(q) /\ Len(p) \in Nat
    BY <1>1, <1>2, <1>3
  <2>2. \A j \in 1 .. Len(q) : b[Len(p) + j] = q[j]
    <3>1. p \in Seq(Pieces) /\ q \in Seq(Pieces)
      BY <1>2, <1>3
    <3> HIDE DEF m, n, at
    <3>2. \A j \in 1 .. Len(q) : (p \o q)[Len(p) + j] = q[j]
      BY <3>1
    <3> QED BY <3>2
  <2>3. b[Len(p) + (1 + (2 * i))] = q[1 + (2 * i)]
    BY <2>1, <2>2
  <2> QED BY <2>1, <2>3, <1>3
<1> HIDE DEF b
<1>8. Entries(b, 1, m) = a
  <2>1. Entries(b, 1, m) = [i \in 1 .. m |-> a[i]]
    BY <1>5 DEF Entries
  <2>2. a = [i \in 1 .. m |-> a[i]]
    BY <1>1
  <2> QED BY <2>1, <2>2
<1>9. Entries(b, at, n) = r
  <2>1. Entries(b, at, n) = [i \in 1 .. n |-> r[i]]
    BY <1>7 DEF Entries
  <2>2. r = [i \in 1 .. n |-> r[i]]
    BY <1>1
  <2> QED BY <2>1, <2>2
<1>10. b[1].is[2] = m /\ b[at].is[2] = n
  BY <1>2, <1>3, <1>4, <1>6
<1>11. BothArrays(b) = a \o r
  BY <1>8, <1>9, <1>10 DEF BothArrays
<1> QED BY <1>11 DEF b, p, q, a, r, VoteBytes

(* The text of the votes of the old type gives them back.                   *)
LEMMA JoinedAreSplit ==
  ASSUME NEW v \in Seq(Pieces), Len(v) >= 1, \A i \in 1 .. Len(v) : v[i].len = 65
  PROVE  Split(Joined(v)) = v
<1> DEFINE m == (2 * Len(v)) - 1
           j == [i \in 1 .. m |-> IF i % 2 = 1 THEN v[(i + 1) \div 2] ELSE Comma]
           X == ToSet(j) \ {Comma}
           c == [n \in 0 .. m |-> (n + 1) \div 2]
           P == Pieces \cup {Comma}
<1>1. Len(v) \in Nat /\ m \in Nat /\ m = (2 * Len(v)) - 1
  OBVIOUS
<1>2. \A i \in 1 .. Len(v) : v[i] \in Pieces /\ v[i] # Comma
  <2> TAKE i \in 1 .. Len(v)
  <2>1. v[i] \in Pieces /\ v[i].len = 65
    OBVIOUS
  <2>2. Comma.len = 1
    BY DEF Comma, Piece
  <2>3. v[i] # Comma
    <3> SUFFICES ASSUME v[i] = Comma PROVE 65 = 1
      OBVIOUS
    <3> QED BY <2>1, <2>2
  <2> QED BY <2>1, <2>3
<1> HIDE DEF m
<1>3. ASSUME NEW n \in 1 .. m
      PROVE  /\ n % 2 = 1 => (n + 1) \div 2 \in 1 .. Len(v) /\ (n + 1) \div 2 = (n \div 2) + 1
             /\ n % 2 # 1 => (n + 1) \div 2 = n \div 2
  BY <1>1
<1>4. j \in Seq(P) /\ Len(j) = m /\ v \in Seq(P)
  <2>1. \A i \in 1 .. m : j[i] \in P
    <3> TAKE i \in 1 .. m
    <3>1. CASE i % 2 = 1
      <4>1. v[(i + 1) \div 2] \in Pieces
        BY <3>1, <1>2, <1>3
      <4> QED BY <3>1, <4>1
    <3>2. CASE i % 2 # 1
      BY <3>2
    <3> QED BY <3>1, <3>2
  <2>2. j \in [1 .. m -> P]
    BY <2>1
  <2> HIDE DEF j, P
  <2>3. j \in Seq(P) /\ Len(j) = m
    BY <2>2, <1>1
  <2>4. v \in Seq(P)
    BY <1>2 DEF P
  <2> QED BY <2>3, <2>4
<1>5. ASSUME NEW n \in 1 .. m
      PROVE  IF j[n] \in X THEN c[n] = c[n - 1] + 1 /\ v[c[n]] = j[n] ELSE c[n] = c[n - 1]
  <2>1. n \in 0 .. m /\ n - 1 \in 0 .. m /\ (n - 1) + 1 = n
    BY <1>1
  <2>2. c[n] = (n + 1) \div 2 /\ c[n - 1] = n \div 2
    BY <2>1
  <2>3. CASE n % 2 = 1
    <3>1. j[n] = v[(n + 1) \div 2]
      BY <2>3
    <3>2. (n + 1) \div 2 \in 1 .. Len(v) /\ (n + 1) \div 2 = (n \div 2) + 1
      BY <2>3, <1>3
    <3>3. j[n] \in ToSet(j)
      BY DEF ToSet
    <3>4. j[n] \in X
      BY <3>1, <3>2, <3>3, <1>2
    <3> HIDE DEF j, X, c
    <3> QED BY <2>2, <3>1, <3>2, <3>4
  <2>4. CASE n % 2 # 1
    <3>1. j[n] = Comma
      BY <2>4
    <3>2. j[n] \notin X
      BY <3>1
    <3>3. c[n] = c[n - 1]
      BY <2>2, <2>4, <1>3
    <3> QED BY <3>2, <3>3
  <2> QED BY <2>3, <2>4
<1>6. c[0] = 0 /\ c[m] = Len(v) /\ \A n \in 0 .. m : c[n] \in 0 .. Len(v)
  <2>1. \A n \in 0 .. m : c[n] \in 0 .. Len(v)
    BY <1>1
  <2>2. 0 \in 0 .. m /\ m \in 0 .. m /\ (0 + 1) \div 2 = 0 /\ (m + 1) \div 2 = Len(v)
    BY <1>1
  <2>3. c[0] = 0 /\ c[m] = Len(v)
    BY <2>2
  <2> QED BY <2>1, <2>3
<1> HIDE DEF j, X, c, P
<1>7. Takes(c, j, X, v)
  BY <1>4, <1>5, <1>6 DEF Takes
<1>8. Among(j, X) = v
  BY <1>4, <1>7, AmongTakes
<1>9. Joined(v) = j
  BY DEF Joined, j, m
<1> QED BY <1>8, <1>9 DEF Split, X

(* The tables keep a transaction as it is, but for the order of new votes.  *)
Arranged(tx) ==
  IF tx.kind = "vote" THEN [tx EXCEPT !.asset = Added(tx.asset) \o Removed(tx.asset)] ELSE tx

LEMMA KeptByRow ==
  ASSUME NEW tx \in Tx, NEW a
  PROVE  /\ [[tx EXCEPT !.asset = <<>>] EXCEPT !.asset = a] = [tx EXCEPT !.asset = a]
         /\ (a = tx.asset => [tx EXCEPT !.asset = a] = tx)
         /\ [tx EXCEPT !.asset = <<>>].kind = tx.kind
         /\ [tx EXCEPT !.asset = a].asset = a
BY DEF Tx

LEMMA RestoredFromRow ==
  ASSUME NEW tx \in Sound, Normal(tx), TypeValid(tx)
  PROVE  Restored(Row(tx)) = Arranged(tx)
<1> DEFINE row == Row(tx)
           trs == [tx EXCEPT !.asset = <<>>]
           ar == AssetRow(tx)
<1>1. tx \in Tx /\ (tx.kind = "oldSend" => tx.asset = <<>>) /\ tx.kind \in Kinds
      /\ tx.asset \in Seq(Pieces)
  BY DEF Sound, Tx
<1>2. row.trs = trs /\ row.asset = ar /\ trs.kind = tx.kind
  BY <1>1, KeptByRow DEF Row
<1> HIDE DEF row, ar
<1>3. Restored(row) = [tx EXCEPT !.asset = Attached(row)]
  <2>1. Restored(row) = [trs EXCEPT !.asset = Attached(row)]
    BY <1>2 DEF Restored
  <2> QED BY <1>1, <2>1, KeptByRow
<1> HIDE DEF trs
<1>4. CASE tx.kind = "vote"
  <2>1. ar = <<[added |-> Added(tx.asset), removed |-> Removed(tx.asset)]>>
    BY <1>4 DEF ar, AssetRow, SaveVote
  <2>2. Attached(row) = ar[1].added \o ar[1].removed
    BY <1>2, <1>4 DEF Attached, AttachVote
  <2>3. Attached(row) = Added(tx.asset) \o Removed(tx.asset)
    BY <2>1, <2>2
  <2> QED BY <1>3, <1>4, <2>3 DEF Arranged, row
<1>5. ASSUME tx.kind # "vote" PROVE Attached(row) = tx.asset
  <2>1. CASE tx.kind = "oldSend"
    <3>1. Attached(row) = <<>>
      BY <1>2, <2>1 DEF Attached
    <3> QED BY <1>1, <2>1, <3>1
  <2>2. CASE tx.kind = "send"
    <3>1. ar = IF tx.asset = <<>> THEN NoRow ELSE <<[data |-> tx.asset]>>
      BY <2>2 DEF ar, AssetRow, SaveSend
    <3>2. Attached(row) = IF ar = NoRow THEN <<>> ELSE ar[1].data
      BY <1>2, <2>2 DEF Attached, AttachSend
    <3>3. <<[data |-> tx.asset]>> # <<>>
      OBVIOUS
    <3> QED BY <3>1, <3>2, <3>3 DEF NoRow
  <2>3. CASE tx.kind \in {"oldSecond", "second"}
    <3>1. ar = <<[publicKey |-> tx.asset]>>
      BY <2>3 DEF ar, AssetRow, SaveSignature
    <3>2. Attached(row) = ar[1].publicKey
      BY <1>2, <2>3 DEF Attached, AttachSignature
    <3> QED BY <3>1, <3>2
  <2>4. CASE tx.kind = "oldRegister"
    <3>1. ar = <<[forgingPK |-> tx.from, username |-> tx.asset]>>
      BY <2>4 DEF ar, AssetRow, SaveOldDelegate
    <3>2. Attached(row) = ar[1].username
      BY <1>2, <2>4 DEF Attached, AttachOldDelegate
    <3> QED BY <3>1, <3>2
  <2>5. CASE tx.kind = "register"
    <3>1. ar = <<[forgingPK |-> Within(tx.asset, 32), username |-> After(tx.asset, 32)]>>
      BY <2>5 DEF ar, AssetRow, SaveDelegate
    <3>2. Attached(row) = ar[1].forgingPK \o ar[1].username
      BY <1>2, <2>5 DEF Attached, AttachDelegate
    <3>3. Within(tx.asset, 32) \o After(tx.asset, 32) = tx.asset
      BY <1>1, WithinAfter
    <3> QED BY <3>1, <3>2, <3>3
  <2>6. CASE tx.kind = "oldVote"
    <3>1. ar = <<[votes |-> Joined(tx.asset)]>>
      BY <2>6 DEF ar, AssetRow, SaveOldVote
    <3>2. Attached(row) = Split(ar[1].votes)
      BY <1>2, <2>6 DEF Attached, AttachOldVote
    <3>3. OldVoteNormal(tx)
      BY <2>6 DEF Normal
    <3>4. Len(tx.asset) >= 1 /\ \A i \in 1 .. Len(tx.asset) : tx.asset[i].len = 65
      <4>1. Len(tx.asset) \in 1 .. MaxVotes /\ DOMAIN tx.asset = 1 .. Len(tx.asset)
        BY <1>1, <3>3 DEF OldVoteNormal
      <4>2. Len(tx.asset) >= 1
        BY <4>1
      <4> QED BY <4>1, <4>2, <3>3 DEF OldVoteNormal
    <3>5. Split(Joined(tx.asset)) = tx.asset
      BY <1>1, <3>4, JoinedAreSplit
    <3> QED BY <3>1, <3>2, <3>5
  <2>7. CASE tx.kind = "keystore"
    <3>1. ar = <<[key |-> tx.asset[1], value |-> tx.asset[2]]>>
      BY <2>7 DEF ar, AssetRow, SaveKeystore
    <3>2. Attached(row) = <<ar[1].key, ar[1].value>>
      BY <1>2, <2>7 DEF Attached, AttachKeystore
    <3>3. Len(tx.asset) = 2
      BY <2>7 DEF TypeValid, KeystoreValid
    <3>4. tx.asset = <<tx.asset[1], tx.asset[2]>>
      BY <1>1, <3>3
    <3> QED BY <3>1, <3>2, <3>4
  <2> QED BY <1>1, <1>5, <2>1, <2>2, <2>3, <2>4, <2>5, <2>6, <2>7 DEF Kinds, Old
<1>6. CASE tx.kind # "vote"
  BY <1>1, <1>3, <1>5, <1>6, KeptByRow DEF Arranged, row
<1> QED BY <1>4, <1>6

LEMMA ArrangedIsAlike ==
  ASSUME NEW tx \in Sound, Normal(tx), TypeValid(tx)
  PROVE  LET a == Arranged(tx)
         IN /\ a \in Sound /\ a.kind = tx.kind /\ a.amount = tx.amount /\ a.fee = tx.fee
            /\ a.sigs = tx.sigs
            /\ Asset(a) = Asset(tx) /\ FullBytes(a) = FullBytes(tx)
            /\ Normal(a) /\ TypeValid(a) /\ Row(a) = Row(tx) /\ Arranged(a) = a
<1> DEFINE asset == Added(tx.asset) \o Removed(tx.asset)
           a == [tx EXCEPT !.asset = asset]
<1>1. tx \in Tx
  BY DEF Sound
<1>2. CASE tx.kind # "vote"
  BY <1>2 DEF Arranged
<1>3. CASE tx.kind = "vote"
  <2>1. Arranged(tx) = a
    BY <1>3 DEF Arranged
  <2>2. tx.asset \in Seq(Pieces)
    BY <1>1 DEF Tx
  <2>3. /\ asset \in Seq(Pieces) /\ Len(asset) = Len(tx.asset)
        /\ Added(asset) = Added(tx.asset) /\ Removed(asset) = Removed(tx.asset)
    BY <2>2, VotesApart
  <2> HIDE DEF asset
  <2>4. a \in Tx
    BY <1>1, <2>3 DEF Tx
  <2>5. /\ a.kind = tx.kind /\ a.timestamp = tx.timestamp /\ a.from = tx.from /\ a.to = tx.to
        /\ a.amount = tx.amount /\ a.fee = tx.fee /\ a.sigs = tx.sigs /\ a.asset = asset
    BY <1>1 DEF Tx
  <2>6. [a EXCEPT !.asset = <<>>] = [tx EXCEPT !.asset = <<>>]
    BY <1>1 DEF Tx
  <2>7. [a EXCEPT !.asset = asset] = a
    BY <2>4, <2>5, KeptByRow
  <2> HIDE DEF a
  <2>8. Asset(tx) = VoteBytes(tx.asset) /\ Asset(a) = VoteBytes(asset)
    BY <1>3, <2>5 DEF Asset, AssetBytes
  <2>9. Asset(a) = Asset(tx)
    BY <2>3, <2>8 DEF VoteBytes
  <2>10. FullBytes(a) = FullBytes(tx)
    <3>1. tx.kind \notin Old
      BY <1>3 DEF Old
    <3> QED BY <3>1, <1>1, <2>4, <2>5, <2>9, NewBytes
  <2>11. Normal(a)
    <3>1. VoteNormal(tx)
      BY <1>3 DEF Normal
    <3>2. VoteNormal(a)
      BY <3>1, <2>3, <2>5 DEF VoteNormal
    <3>3. a.sigs # <<>> /\ a.amount >= 0 /\ a.fee >= 0
      BY <2>5 DEF Normal
    <3> QED BY <1>3, <2>5, <3>2, <3>3 DEF Normal
  <2>12. TypeValid(a)
    <3>1. VoteValid(tx)
      BY <1>3 DEF TypeValid
    <3>2. VoteValid(a)
      BY <3>1, <2>3, <2>5 DEF VoteValid
    <3> QED BY <1>3, <2>5, <3>2 DEF TypeValid
  <2>13. Row(a) = Row(tx)
    <3>1. AssetRow(tx) = SaveVote(tx) /\ AssetRow(a) = SaveVote(a)
      BY <1>3, <2>5 DEF AssetRow
    <3>2. SaveVote(a) = SaveVote(tx)
      BY <2>3, <2>5 DEF SaveVote
    <3> QED BY <3>1, <3>2, <2>6 DEF Row
  <2>14. Arranged(a) = a
    <3>1. Arranged(a) = [a EXCEPT !.asset = Added(asset) \o Removed(asset)]
      BY <1>3, <2>5 DEF Arranged
    <3>2. Added(asset) \o Removed(asset) = asset
      BY <2>3 DEF asset
    <3> QED BY <3>1, <3>2, <2>7
  <2>15. a \in Sound
    <3>1. a.kind # "oldSend" /\ a.kind \notin Old
      BY <1>3, <2>5 DEF Old
    <3> QED BY <3>1, <2>4 DEF Sound
  <2> QED BY <2>1, <2>5, <2>9, <2>10, <2>11, <2>12, <2>13, <2>14, <2>15
<1> QED BY <1>2, <1>3

(* In the new format everything is read back but the data of a send.        *)
LEMMA NewIsDecoded ==
  ASSUME NEW tx \in Sound, NEW k, tx.kind \notin Old, TypeValid(tx)
  PROVE  LET asset == IF tx.kind = "send" THEN <<>> ELSE Arranged(tx).asset
         IN /\ Decoded(FullBytes(tx), k) = [tx EXCEPT !.asset = asset]
            /\ [tx EXCEPT !.asset = asset] \in Sound
<1> DEFINE asset == IF tx.kind = "send" THEN <<>> ELSE Arranged(tx).asset
           b == FullBytes(tx)
           w == Asset(tx)
           d == [tx EXCEPT !.asset = asset]
<1>1. tx \in Tx /\ tx.asset \in Seq(Pieces) /\ tx.kind \in Kinds
  BY DEF Sound, Tx
<1>2. b = [kind |-> tx.kind, time |-> tx.timestamp, from |-> tx.from, to |-> tx.to,
           amount |-> tx.amount, fee |-> tx.fee, asset |-> w, tail |-> tx.sigs]
  BY <1>1, NewBytes
<1> HIDE DEF b, w
<1>3. /\ b.kind = tx.kind /\ b.time = tx.timestamp /\ b.from = tx.from /\ b.to = tx.to
      /\ b.amount = tx.amount /\ b.fee = tx.fee /\ b.asset = w /\ b.tail = tx.sigs
  BY <1>2
<1>4. Decoded(b, k) =
        [kind |-> tx.kind, timestamp |-> tx.timestamp, from |-> tx.from, to |-> tx.to,
         amount |-> tx.amount, fee |-> tx.fee, asset |-> ReadAsset(tx.kind, w), sigs |-> tx.sigs]
  BY <1>3 DEF Decoded, NewDecoded
<1>5. ReadAsset(tx.kind, w) = asset /\ asset \in Seq(Pieces)
  <2>1. CASE tx.kind = "send"
    <3>1. asset = <<>>
      BY <2>1
    <3> QED BY <2>1, <3>1 DEF ReadAsset
  <2>2. CASE tx.kind = "second"
    <3>1. w = tx.asset /\ asset = tx.asset
      BY <2>2 DEF w, Asset, AssetBytes, Plain, Arranged
    <3> QED BY <1>1, <2>2, <3>1 DEF ReadAsset
  <2>3. CASE tx.kind = "register"
    <3>1. w = tx.asset /\ asset = tx.asset
      BY <2>3 DEF w, Asset, AssetBytes, Plain, Arranged
    <3>2. ReadAsset(tx.kind, w) = Within(w, 32) \o After(w, 32)
      BY <2>3 DEF ReadAsset, KeyAndName
    <3>3. Within(tx.asset, 32) \o After(tx.asset, 32) = tx.asset
      BY <1>1, WithinAfter
    <3> QED BY <1>1, <3>1, <3>2, <3>3
  <2>4. CASE tx.kind = "keystore"
    <3>1. w = Counted(tx.asset) /\ asset = tx.asset
      BY <2>4 DEF w, Asset, AssetBytes, Arranged
    <3>2. ReadAsset(tx.kind, w) = [i \in 1 .. 2 |-> w[0 + (2 * i)]]
      BY <2>4 DEF ReadAsset, KeyAndValue, Entries
    <3>3. Len(tx.asset) = 2
      BY <2>4 DEF TypeValid, KeystoreValid
    <3>4. ASSUME NEW i \in 1 .. 2 PROVE w[0 + (2 * i)] = tx.asset[i]
      <4>1. i \in 1 .. Len(tx.asset) /\ 0 + (2 * i) = 2 * i
        BY <3>3
      <4>2. Counted(tx.asset)[2 * i] = tx.asset[i]
        BY <1>1, <4>1, CountedType
      <4> QED BY <3>1, <4>1, <4>2
    <3>5. tx.asset = [i \in 1 .. 2 |-> tx.asset[i]]
      BY <1>1, <3>3
    <3>6. ReadAsset(tx.kind, w) = [i \in 1 .. 2 |-> tx.asset[i]]
      BY <3>2, <3>4
    <3> QED BY <1>1, <3>1, <3>5, <3>6
  <2>5. CASE tx.kind = "vote"
    <3>1. w = VoteBytes(tx.asset)
      BY <2>5 DEF w, Asset, AssetBytes
    <3>2. ReadAsset(tx.kind, w) = BothArrays(w)
      BY <2>5 DEF ReadAsset
    <3>3. asset = Added(tx.asset) \o Removed(tx.asset)
      <4>1. Arranged(tx) = [tx EXCEPT !.asset = Added(tx.asset) \o Removed(tx.asset)]
        BY <2>5 DEF Arranged
      <4>2. Arranged(tx).asset = Added(tx.asset) \o Removed(tx.asset)
        <5> DEFINE q == Added(tx.asset) \o Removed(tx.asset)
        <5>1. [tx EXCEPT !.asset = q].asset = q
          <6> HIDE DEF q
          <6> QED BY <1>1, KeptByRow
        <5> QED BY <4>1, <5>1
      <4>3. asset = Arranged(tx).asset
        BY <2>5
      <4> QED BY <4>2, <4>3
    <3>4. Added(tx.asset) \o Removed(tx.asset) \in Seq(Pieces)
      BY <1>1, VotesApart
    <3>5. BothArrays(VoteBytes(tx.asset)) = Added(tx.asset) \o Removed(tx.asset)
      BY <1>1, VotesReadBack
    <3> QED BY <3>1, <3>2, <3>3, <3>4, <3>5
  <2> QED BY <1>1, <2>1, <2>2, <2>3, <2>4, <2>5 DEF Kinds
<1> HIDE DEF asset
<1>6. d \in Tx /\ d.kind = tx.kind
  BY <1>1, <1>5 DEF Tx
<1>7. Decoded(b, k) = d
  BY <1>1, <1>4, <1>5 DEF Tx
<1> HIDE DEF d
<1>8. d \in Sound
  BY <1>6 DEF Sound, Old
<1> QED BY <1>7, <1>8 DEF asset, b, d

(* What a wallet signs is cut where its signatures begin, if it can be read *)
(* at all: more than one key of an old vote cannot.                         *)
Signatures(keys) == [i \in 1 .. keys |-> Piece(<<"signature", i>>, 64)]

LEMMA SignaturesAre ==
  ASSUME NEW keys \in 1 .. 2
  PROVE  LET s == Signatures(keys)
         IN /\ s \in Seq(Pieces) /\ Len(s) = keys /\ Bytes(s) = 64 * keys
            /\ \A i \in 1 .. keys : s[i].len = 64
<1> DEFINE s == Signatures(keys)
<1>1. \A i \in 1 .. keys : Piece(<<"signature", i>>, 64) \in Pieces
  <2> TAKE i \in 1 .. keys
  <2>1. \A W, a, b : a \in W /\ b \in W => <<a, b>> \in Seq(W)
    OBVIOUS
  <2>2. "signature" \in Words /\ i \in Words
    BY DEF Words
  <2>3. <<"signature", i>> \in Seq(Words)
    BY <2>1, <2>2
  <2> QED BY <2>3 DEF Piece, Pieces
<1>2. \A i \in 1 .. keys : s[i].len = 64
  BY DEF Signatures, Piece
<1>3. s \in [1 .. keys -> Pieces]
  BY <1>1 DEF Signatures
<1> HIDE DEF s
<1>4. s \in Seq(Pieces) /\ Len(s) = keys
  BY <1>3
<1>5. Bytes(s) = 64 * Len(s)
  BY <1>2, <1>4, BytesAlike
<1> QED BY <1>2, <1>4, <1>5 DEF s

LEMMA WalletIs ==
  ASSUME NEW o \in Offered, NEW h
  PROVE  LET tx == Wallet(o, h)
         IN /\ tx \in Tx /\ tx.kind = o.tx.kind /\ tx.asset = o.tx.asset
            /\ (tx.kind = "oldSend" => tx.asset = <<>>)
            /\ o.keys \in 1 .. 2 /\ tx.sigs = Signatures(o.keys)
<1> DEFINE tx == Wallet(o, h)
           fee == MinFee(o.tx, h)
           sigs == Signatures(o.keys)
<1>1. o.tx \in Unsigned /\ o.keys \in 1 .. 2
  BY TransferAssumption
<1>2. /\ o.tx \in [kind : Kinds, timestamp : Nat, from : STRING, to : STRING, amount : Int, fee : Int,
                   asset : Seq([is : Seq(STRING), len : Nat]), sigs : {<<>>}]
      /\ o.tx.kind = "oldSend" => o.tx.asset = <<>>
  BY <1>1 DEF Unsigned
<1>3. o.tx.asset \in Seq(Pieces)
  <2> DEFINE P == [is : Seq(STRING), len : Nat]
             s == o.tx.asset
  <2>1. s \in Seq(P)
    BY <1>2
  <2>2. \A p \in P : p \in Pieces
    BY DEF Pieces, Words
  <2> HIDE DEF P, s
  <2>3. s \in Seq(Pieces)
    BY <2>1, <2>2
  <2> QED BY <2>3 DEF s
<1>4. fee \in Int
  BY <1>2, <1>3, MinFeeType
<1>5. sigs \in Seq(Pieces)
  BY <1>1, SignaturesAre
<1>6. tx = [[o.tx EXCEPT !.fee = fee] EXCEPT !.sigs = sigs]
  BY DEF Wallet, Signed, Signatures
<1> HIDE DEF tx, fee, sigs
<1>7. tx = [kind |-> o.tx.kind, timestamp |-> o.tx.timestamp, from |-> o.tx.from, to |-> o.tx.to,
            amount |-> o.tx.amount, fee |-> fee, asset |-> o.tx.asset, sigs |-> sigs]
  BY <1>2, <1>6
<1>8. o.tx.from \in Addresses /\ o.tx.to \in Addresses
  BY <1>2 DEF Addresses
<1>9. tx \in Tx
  BY <1>2, <1>3, <1>4, <1>5, <1>7, <1>8 DEF Tx
<1> QED BY <1>1, <1>2, <1>7, <1>9 DEF tx, sigs

LEMMA BytesOfOne ==
  ASSUME NEW p \in Pieces
  PROVE  <<p>> \in Seq(Pieces) /\ Bytes(<<p>>) = p.len /\ p.len \in Nat
<1> DEFINE s == <<p>>
           l == Lengths(s)
           u == [i \in 0 .. 1 |-> IF i = 0 THEN 0 ELSE p.len]
<1>1. s \in Seq(Pieces) /\ p.len \in Nat
  BY DEF Pieces
<1>2. Len(s) = 1 /\ s[1] = p /\ DOMAIN s = 1 .. 1
  OBVIOUS
<1> HIDE DEF s
<1>3. l \in Seq(Nat) /\ Len(l) = 1 /\ l[1] = p.len
  BY <1>1, <1>2, LengthsType DEF Lengths
<1> HIDE DEF l
<1>4. u \in [0 .. 1 -> Nat] /\ u[0] = 0 /\ u[1] = p.len
  BY <1>1
<1> HIDE DEF u
<1>5. \A n \in 1 .. 1 : n = 1 /\ n - 1 = 0
  OBVIOUS
<1>6. p.len = 0 + p.len
  BY <1>1
<1>7. \A n \in 1 .. 1 : u[n] = u[n - 1] + l[n]
  BY <1>3, <1>4, <1>5, <1>6
<1>8. SumsOf(u, l)
  BY <1>3, <1>4, <1>7 DEF SumsOf
<1>9. Total(l) = u[1]
  BY <1>3, <1>8, TotalIs
<1>10. Bytes(s) = p.len
  BY <1>4, <1>9 DEF Bytes, l, Lengths
<1> QED BY <1>1, <1>10 DEF s

WholeSignatures(n, keys, r) ==
  /\ n \in 1 .. 64 /\ keys \in 1 .. 2 /\ r \in Nat
  /\ 65 + r = (65 * n) + (64 * keys) /\ r % 64 = 0

LEMMA OneKeyIsLeft ==
  \A n, keys, r : WholeSignatures(n, keys, r) => n = 1
<1> TAKE n, keys, r
<1> HAVE WholeSignatures(n, keys, r)
<1> USE DEF WholeSignatures
<1>1. r = (64 * ((n - 1) + keys)) + (n - 1)
  OBVIOUS
<1>2. r % 64 = n - 1 \/ n - 1 = 64
  BY <1>1
<1> QED BY <1>2

LEMMA KeysAndSignatures ==
  ASSUME NEW v \in Seq(Pieces), NEW keys \in 1 .. 2, Len(v) \in 1 .. 64,
         \A i \in 1 .. Len(v) : v[i].len = 65,
         Bytes(After(v \o Signatures(keys), 65)) % 64 = 0
  PROVE  Bytes(v) = 65
<1> DEFINE s == Signatures(keys)
           t == v \o s
           p == t[1]
           rest == Tail(t)
           r == Bytes(rest)
           n == Len(v)
<1>1. s \in Seq(Pieces) /\ Bytes(s) = 64 * keys /\ \A i \in 1 .. Len(s) : s[i].len = 64
  <2>1. s \in Seq(Pieces) /\ Len(s) = keys /\ Bytes(s) = 64 * keys /\ \A i \in 1 .. keys : s[i].len = 64
    BY SignaturesAre
  <2> HIDE DEF s
  <2> QED BY <2>1
<1> HIDE DEF s
<1>2. /\ t \in Seq(Pieces) /\ Len(t) = Len(v) + Len(s) /\ (\A i \in 1 .. Len(v) : t[i] = v[i])
      /\ \A i \in 1 .. Len(s) : t[Len(v) + i] = s[i]
  BY <1>1, ConcatIs
<1>3. Bytes(t) = Bytes(v) + (64 * keys)
  BY <1>1, BytesConcat
<1>4. Bytes(v) = 65 * n
  BY BytesAlike
<1>5. ASSUME NEW i \in 1 .. Len(t) PROVE t[i].len > 0
  <2> DEFINE a == Len(v)
             b == Len(s)
  <2>1. a \in Nat /\ b \in Nat /\ i \in 1 .. (a + b)
    BY <1>1, <1>2
  <2>2. CASE i \in 1 .. a
    <3>1. t[i] = v[i] /\ v[i].len = 65
      BY <2>2, <1>2
    <3> QED BY <3>1
  <2>3. CASE i \notin 1 .. a
    <3>1. PICK j \in 1 .. b : i = a + j
      <4> HIDE DEF a, b
      <4>1. i - a \in 1 .. b /\ i = a + (i - a)
        BY <2>1, <2>3
      <4> QED BY <4>1
    <3>2. t[i] = s[j] /\ s[j].len = 64
      BY <3>1, <1>1, <1>2
    <3> QED BY <3>2
  <2> QED BY <2>2, <2>3
<1>6. p = v[1] /\ p.len = 65 /\ t # <<>>
  <2>1. 1 \in 1 .. Len(v)
    <3> DEFINE a == Len(v)
    <3>1. a \in 1 .. 64
      OBVIOUS
    <3> HIDE DEF a
    <3>2. 1 \in 1 .. a
      BY <3>1
    <3> QED BY <3>2 DEF a
  <2>2. p = v[1] /\ v[1].len = 65
    BY <2>1, <1>2
  <2>3. t # <<>>
    BY <2>1, <1>1
  <2> QED BY <2>2, <2>3
<1> HIDE DEF t
<1>7. /\ rest \in Seq(Pieces) /\ p \in Pieces /\ <<p>> \o rest = t
      /\ \A i \in 1 .. Len(rest) : rest[i] = t[i + 1] /\ i + 1 \in 1 .. Len(t)
  BY <1>2, <1>6, TailIs, HeadThenTail
<1>8. \A i \in 1 .. Len(rest) : rest[i].len > 0
  BY <1>5, <1>7
<1> HIDE DEF rest, p
<1>9. <<p>> \in Seq(Pieces) /\ Bytes(<<p>>) = 65
  BY <1>6, <1>7, BytesOfOne
<1> DEFINE q == <<p>>
<1>16. q \in Seq(Pieces) /\ Bytes(q) = 65 /\ q \o rest = t
  BY <1>7, <1>9
<1> HIDE DEF q
<1>10. After(t, 65) = rest
  <2>1. After(q \o rest, Bytes(q)) = rest
    BY <1>7, <1>8, <1>16, CutBetween
  <2> QED BY <2>1, <1>16
<1>11. Bytes(t) = 65 + r /\ r \in Nat
  <2>1. Bytes(q \o rest) = Bytes(q) + Bytes(rest) /\ Bytes(rest) \in Nat
    BY <1>7, <1>16, BytesConcat, BytesType
  <2> QED BY <2>1, <1>16
<1>12. r % 64 = 0
  BY <1>10 DEF t, s
<1> HIDE DEF r
<1>13. 65 + r = (65 * n) + (64 * keys)
  BY <1>3, <1>4, <1>11
<1>14. n = 1
  <2>1. n \in 1 .. 64 /\ keys \in 1 .. 2
    OBVIOUS
  <2>2. r \in Nat
    BY <1>11
  <2> HIDE DEF n
  <2>3. WholeSignatures(n, keys, r)
    BY <2>1, <2>2, <1>12, <1>13, Zenon DEF WholeSignatures
  <2> QED BY ONLY <2>3, OneKeyIsLeft
<1> QED BY <1>4, <1>14

LEMMA VoteIsOneKey ==
  ASSUME NEW v \in Seq(Pieces), NEW keys \in 1 .. 2, NEW b,
         Len(v) \in 1 .. MaxVotes, \A i \in 1 .. Len(v) : v[i].len = 65,
         v[1].is[1] \in {"+", "-"},
         b.kind = "oldVote", b.tail = v \o Signatures(keys), ~Unreadable(b)
  PROVE  Consumed(b) = Bytes(v)
<1> DEFINE s == Signatures(keys)
           t == v \o s
           n == Len(v)
<1>1. n \in 1 .. 64
  <2>1. MaxVotes \in Nat /\ MaxVotes <= 64 /\ n \in 1 .. MaxVotes
    BY TransactionBytesAssumption
  <2> HIDE DEF n
  <2> QED BY <2>1
<1>2. t[1] = v[1] /\ t # <<>>
  <2>1. s \in Seq(Pieces)
    BY SignaturesAre
  <2> HIDE DEF s
  <2>2. 1 \in 1 .. Len(v)
    BY <1>1
  <2>3. t[1] = v[1] /\ Len(t) >= 1 /\ t \in Seq(Pieces)
    BY <1>1, <2>1, <2>2
  <2> QED BY <2>3
<1> HIDE DEF t
<1>3. KeysRead(t) = 1
  BY <1>2 DEF KeysRead
<1>4. Consumed(b) = 65
  BY <1>3 DEF Consumed, t, s
<1>5. Bytes(After(t, 65)) % 64 = 0
  <2>1. b.kind \in Old /\ b.tail = t
    BY DEF Old, t, s
  <2>2. Bytes(After(b.tail, Consumed(b))) % 64 = 0
    BY <2>1 DEF Unreadable
  <2> QED BY <2>1, <2>2, <1>4
<1>6. Bytes(v) = 65
  BY <1>1, <1>5, KeysAndSignatures DEF t, s
<1> QED BY <1>4, <1>6

LEMMA WalletIsSound ==
  ASSUME NEW o \in Offered, NEW h, Normal(Wallet(o, h)), TypeValid(Wallet(o, h))
  PROVE  Wallet(o, h) \in Sound
<1> DEFINE tx == Wallet(o, h)
           sigs == Signatures(o.keys)
           b == FullBytes(tx)
<1>1. /\ tx \in Tx /\ (tx.kind = "oldSend" => tx.asset = <<>>)
      /\ o.keys \in 1 .. 2 /\ tx.sigs = sigs
  BY WalletIs
<1>2. tx.asset \in Seq(Pieces)
  BY <1>1 DEF Tx
<1>3. /\ sigs \in Seq(Pieces) /\ Len(sigs) = o.keys /\ Bytes(sigs) = 64 * o.keys
      /\ \A i \in 1 .. Len(sigs) : sigs[i].len > 0
  <2>1. /\ sigs \in Seq(Pieces) /\ Len(sigs) = o.keys /\ Bytes(sigs) = 64 * o.keys
        /\ \A i \in 1 .. o.keys : sigs[i].len = 64
    BY <1>1, SignaturesAre
  <2> HIDE DEF sigs
  <2> QED BY <2>1
<1> SUFFICES ASSUME tx.kind \in Old, ~Unreadable(b) PROVE CutAsRead(tx)
  BY <1>1 DEF Sound
<1>4. b.kind = tx.kind /\ b.tail = tx.asset \o sigs
  BY <1>1, OldTail
<1>5. Bytes(tx.asset) \in Nat
  BY <1>2, BytesType
<1>6. Consumed(b) = Bytes(tx.asset)
  <2>1. CASE tx.kind = "oldSend"
    <3>1. tx.asset = <<>> /\ Consumed(b) = 0
      BY <2>1, <1>1, <1>4 DEF Consumed
    <3>2. Bytes(<<>>) = 0
      BY BytesOfNone
    <3> QED BY <1>2, <3>1, <3>2
  <2>2. CASE tx.kind = "oldSecond"
    <3>1. Consumed(b) = 32
      BY <2>2, <1>4 DEF Consumed
    <3>2. Bytes(tx.asset) = 32
      BY <2>2 DEF TypeValid, SecondValid
    <3> QED BY <3>1, <3>2
  <2>3. CASE tx.kind = "oldRegister"
    <3>1. Consumed(b) = Bytes(b.tail) % 64
      BY <2>3, <1>4 DEF Consumed, NameBytes
    <3>2. Bytes(tx.asset) \in 1 .. 20
      BY <2>3 DEF TypeValid, OldRegisterValid
    <3>3. Bytes(b.tail) = Bytes(tx.asset) + (64 * o.keys)
      BY <1>2, <1>3, <1>4, BytesConcat
    <3>4. \A x \in 1 .. 20, keys \in 1 .. 2 : (x + (64 * keys)) % 64 = x
      OBVIOUS
    <3> DEFINE x == Bytes(tx.asset)
    <3>5. (x + (64 * o.keys)) % 64 = x
      <4> HIDE DEF x
      <4> QED BY <1>1, <3>2, <3>4 DEF x
    <3> QED BY <3>1, <3>3, <3>5
  <2>4. CASE tx.kind = "oldVote"
    <3>1. OldVoteNormal(tx)
      BY <2>4 DEF Normal
    <3>2. Len(tx.asset) \in 1 .. MaxVotes /\ DOMAIN tx.asset = 1 .. Len(tx.asset)
      BY <1>2, <3>1 DEF OldVoteNormal
    <3>3. \A i \in 1 .. Len(tx.asset) : tx.asset[i].is[1] \in {"+", "-"} /\ tx.asset[i].len = 65
      BY <3>1, <3>2 DEF OldVoteNormal
    <3>4. 1 \in 1 .. Len(tx.asset)
      BY <3>2, TransactionBytesAssumption
    <3> HIDE DEF b, tx, sigs
    <3>5. b.tail = tx.asset \o Signatures(o.keys) /\ b.kind = "oldVote"
      BY <1>4, <2>4 DEF sigs
    <3> DEFINE v == tx.asset
    <3>6. /\ v \in Seq(Pieces) /\ o.keys \in 1 .. 2 /\ Len(v) \in 1 .. MaxVotes
          /\ (\A i \in 1 .. Len(v) : v[i].len = 65) /\ v[1].is[1] \in {"+", "-"}
      BY <1>1, <1>2, <3>2, <3>3, <3>4
    <3>7. ~Unreadable(b)
      BY DEF b, tx
    <3> HIDE DEF v
    <3>8. Consumed(b) = Bytes(v)
      BY <3>5, <3>6, <3>7, VoteIsOneKey DEF v
    <3> QED BY <3>8 DEF v
  <2> QED BY <2>1, <2>2, <2>3, <2>4 DEF Old
<1>7. Within(b.tail, Consumed(b)) = tx.asset /\ After(b.tail, Consumed(b)) = sigs
  BY <1>2, <1>3, <1>4, <1>6, CutBetween
<1> QED BY <1>1, <1>7 DEF CutAsRead

(* What a block says of its transactions leaves no room for a difference:   *)
(* the bytes, the fee of the height and the schemas give the row.           *)
OldFields(tx, time, to, fee, asset, sigs) ==
  [kind |-> tx.kind, timestamp |-> time, from |-> tx.from, to |-> to,
   amount |-> tx.amount, fee |-> fee, asset |-> asset, sigs |-> sigs]

LEMMA FieldsOf ==
  ASSUME NEW tx \in Tx
  PROVE  tx = OldFields(tx, tx.timestamp, tx.to, tx.fee, tx.asset, tx.sigs)
BY DEF Tx, OldFields

LEMMA SameReceiver ==
  ASSUME NEW o \in Tx, NEW d \in Tx, o.kind \in Old, d.kind = o.kind, d.from = o.from,
         TypeValid(o), TypeValid(d), FullBytes(d) = FullBytes(o)
  PROVE  d.to = o.to
<1> DEFINE Wire(tx) == IF tx.to = NoAddress THEN Zero ELSE tx.to
<1>1. ASSUME NEW tx \in Tx, tx.kind \in Old PROVE FullBytes(tx).to = Wire(tx)
  <2> DEFINE time == tx.timestamp + (IF tx.to \in V2Addresses THEN TimeBit ELSE 0)
             to == Wire(tx)
             tail == tx.asset \o tx.sigs
             b == FullBytes(tx)
  <2>1. b = [kind |-> tx.kind, time |-> time, from |-> tx.from, to |-> to,
             amount |-> tx.amount, tail |-> tail]
    BY <1>1, OldBytes
  <2> HIDE DEF time, to, tail, b
  <2>2. b.to = to
    BY <2>1
  <2> QED BY <2>2 DEF b, to
<1>2. Wire(d) = Wire(o)
  <2>1. FullBytes(d).to = Wire(d) /\ FullBytes(o).to = Wire(o)
    BY <1>1
  <2> QED BY <2>1
<1>3. CASE o.kind = "oldSend"
  BY <1>2, <1>3 DEF TypeValid, SendValid
<1>4. CASE o.kind = "oldSecond"
  BY <1>4 DEF TypeValid, SecondValid
<1>5. CASE o.kind = "oldRegister"
  BY <1>5 DEF TypeValid, OldRegisterValid
<1>6. CASE o.kind = "oldVote"
  BY <1>6 DEF TypeValid, OldVoteValid
<1> QED BY <1>3, <1>4, <1>5, <1>6 DEF Old

LEMMA SameTime ==
  ASSUME NEW o \in Tx, NEW d \in Tx, o.kind \in Old, d.kind \in Old, d.to = o.to,
         FullBytes(d) = FullBytes(o)
  PROVE  d.timestamp = o.timestamp
<1> DEFINE bit == IF o.to \in V2Addresses THEN TimeBit ELSE 0
<1>1. ASSUME NEW tx \in Tx, tx.kind \in Old, tx.to = o.to
      PROVE  FullBytes(tx).time = tx.timestamp + bit
  <2> DEFINE time == tx.timestamp + bit
             to == IF tx.to = NoAddress THEN Zero ELSE tx.to
             tail == tx.asset \o tx.sigs
             b == FullBytes(tx)
  <2>1. b = [kind |-> tx.kind, time |-> time, from |-> tx.from, to |-> to,
             amount |-> tx.amount, tail |-> tail]
    BY <1>1, OldBytes
  <2> HIDE DEF time, to, tail, b
  <2>2. b.time = time
    BY <2>1
  <2> QED BY <2>2 DEF b, time
<1>2. d.timestamp + bit = o.timestamp + bit
  <2>1. FullBytes(d).time = d.timestamp + bit /\ FullBytes(o).time = o.timestamp + bit
    BY <1>1
  <2> QED BY <2>1
<1>3. d.timestamp \in Int /\ o.timestamp \in Int /\ bit \in Int
  BY DEF Tx, TimeBit
<1> DEFINE x == d.timestamp
           y == o.timestamp
<1>4. x + bit = y + bit /\ x \in Int /\ y \in Int /\ bit \in Int
  BY <1>2, <1>3
<1> HIDE DEF bit, x, y
<1>5. x = y
  BY ONLY <1>4
<1> QED BY <1>5 DEF x, y

LEMMA OldIsSame ==
  ASSUME NEW o \in Sound, NEW k, NEW h, NEW last, o.kind \in Old, ~Unreadable(FullBytes(o)),
         Verified(o, h, last), Verified(Decoded(FullBytes(o), k), h, last),
         FullBytes(Decoded(FullBytes(o), k)) = FullBytes(o)
  PROVE  Decoded(FullBytes(o), k) = o
<1> DEFINE d == Decoded(FullBytes(o), k)
           time == LET time == FullBytes(o).time
                   IN IF time >= TimeBit THEN time - TimeBit ELSE time
           to == IF Deletes(FullBytes(o)) THEN NoAddress ELSE FullBytes(o).to
           fee == FeeEntry(k).fee
<1>1. d = [kind |-> o.kind, timestamp |-> time, from |-> o.from, to |-> to,
           amount |-> o.amount, fee |-> fee, asset |-> o.asset, sigs |-> o.sigs]
      /\ d \in Sound
  BY OldIsDecoded
<1>2. o \in Tx /\ d \in Tx
  BY <1>1 DEF Sound
<1>3. TypeValid(o) /\ TypeValid(d) /\ FullBytes(d) = FullBytes(o)
  BY DEF Verified
<1> HIDE DEF time, to, fee, d
<1>4. d.kind = o.kind /\ d.from = o.from /\ d.amount = o.amount /\ d.asset = o.asset
      /\ d.sigs = o.sigs
  BY <1>1
<1>5. d.to = o.to
  BY <1>2, <1>3, <1>4, SameReceiver
<1>6. d.timestamp = o.timestamp
  BY <1>2, <1>3, <1>4, <1>5, SameTime
<1>7. d.fee = o.fee
  <2>1. d.fee = MinFee(d, last) /\ o.fee = MinFee(o, last)
    BY <1>4 DEF Verified, d
  <2>2. MinFee(d, last) = FeeEntry(last).fee /\ MinFee(o, last) = FeeEntry(last).fee
    BY <1>2, <1>4, MinFeeType DEF Tx
  <2> QED BY <2>1, <2>2
<1>8. d = OldFields(o, o.timestamp, o.to, o.fee, o.asset, o.sigs)
  <2>1. d = OldFields(d, d.timestamp, d.to, d.fee, d.asset, d.sigs)
    BY <1>2, FieldsOf
  <2> QED BY <2>1, <1>4, <1>5, <1>6, <1>7 DEF OldFields
<1> QED BY <1>2, <1>8, FieldsOf DEF d

LEMMA SameRow ==
  ASSUME NEW o \in Sound, NEW k, NEW h, NEW last, ~Unreadable(FullBytes(o)), Normal(o),
         Verified(o, h, last), Verified(Decoded(FullBytes(o), k), h, last),
         FullBytes(Decoded(FullBytes(o), k)) = FullBytes(o)
  PROVE  Row(Decoded(FullBytes(o), k)) = Row(o)
<1> DEFINE d == Decoded(FullBytes(o), k)
           asset == IF o.kind = "send" THEN <<>> ELSE Arranged(o).asset
<1>1. CASE o.kind \in Old
  BY <1>1, OldIsSame
<1>2. CASE o.kind \notin Old
  <2>1. TypeValid(o) /\ o \in Tx
    BY DEF Verified, Sound
  <2>2. d = [o EXCEPT !.asset = asset] /\ d \in Sound
    BY <1>2, <2>1, NewIsDecoded
  <2>3. CASE o.kind = "vote"
    <3>1. Arranged(o) = [o EXCEPT !.asset = Added(o.asset) \o Removed(o.asset)]
      BY <2>3 DEF Arranged
    <3> DEFINE q == Added(o.asset) \o Removed(o.asset)
    <3>2. Arranged(o).asset = q
      <4>1. [o EXCEPT !.asset = q].asset = q
        <5> HIDE DEF q
        <5> QED BY <2>1, KeptByRow
      <4> QED BY <3>1, <4>1
    <3>3. d = Arranged(o)
      BY <2>2, <2>3, <3>1, <3>2
    <3> QED BY <2>1, <3>3, ArrangedIsAlike
  <2>4. CASE o.kind = "send"
    <3>1. d.asset = <<>> /\ d.kind = "send"
      BY <2>1, <2>2, <2>4 DEF Tx
    <3>2. Asset(d) = <<>> /\ Asset(o) = o.asset
      BY <2>4, <3>1 DEF Asset, AssetBytes, Plain
    <3>3. Asset(d) = Asset(o)
      <4> DEFINE AssetOf(tx) == FullBytes(tx).asset
      <4>1. ASSUME NEW tx \in Tx, tx.kind = "send" PROVE FullBytes(tx).asset = Asset(tx)
        <5>1. tx.kind \notin Old
          BY <4>1 DEF Old
        <5> DEFINE b == FullBytes(tx)
                   w == Asset(tx)
        <5>2. b = [kind |-> tx.kind, time |-> tx.timestamp, from |-> tx.from, to |-> tx.to,
                   amount |-> tx.amount, fee |-> tx.fee, asset |-> w, tail |-> tx.sigs]
          BY <5>1, NewBytes
        <5> HIDE DEF b, w
        <5>3. b.asset = w
          BY <5>2
        <5> QED BY <5>3 DEF b, w
      <4>2. d \in Tx
        BY <2>2 DEF Sound
      <4>3. FullBytes(d).asset = Asset(d) /\ FullBytes(o).asset = Asset(o)
        BY <2>1, <2>4, <3>1, <4>1, <4>2
      <4> QED BY <4>3
    <3>4. asset = o.asset
      BY <2>4, <3>2, <3>3
    <3> HIDE DEF asset
    <3>5. d = o
      BY <2>1, <2>2, <3>4, KeptByRow
    <3> QED BY <3>5
  <2>5. CASE o.kind # "vote" /\ o.kind # "send"
    <3>1. asset = o.asset
      BY <2>5 DEF Arranged
    <3> HIDE DEF asset
    <3>2. d = o
      BY <2>1, <2>2, <3>1, KeptByRow
    <3> QED BY <3>2
  <2> QED BY <2>3, <2>4, <2>5
<1> QED BY <1>1, <1>2

-----------------------------------------------------------------------------
(* Blocks, and what the database makes of them.                             *)
With(b, txs) == [b EXCEPT !.transactions = txs]
Fields(h, n, l, p, a, f, t) ==
  [height |-> h, number |-> n, length |-> l, payload |-> p, amount |-> a, fee |-> f,
   transactions |-> t]
Shape(b) == b = Fields(b.height, b.number, b.length, b.payload, b.amount, b.fee, b.transactions)

LEMMA FieldsShape ==
  ASSUME NEW h, NEW n, NEW l, NEW p, NEW a, NEW f, NEW t
  PROVE  LET b == Fields(h, n, l, p, a, f, t)
         IN /\ Shape(b) /\ b.height = h /\ b.number = n /\ b.length = l /\ b.payload = p
            /\ b.amount = a /\ b.fee = f /\ b.transactions = t
            /\ \A x : With(b, x) = Fields(h, n, l, p, a, f, x)
BY DEF Shape, Fields, With

LEMMA WithIs ==
  ASSUME NEW b, Shape(b), NEW x
  PROVE  /\ Shape(With(b, x)) /\ With(b, x).transactions = x
         /\ With(b, x).height = b.height /\ With(b, x).number = b.number
         /\ With(b, x).length = b.length /\ With(b, x).payload = b.payload
         /\ With(b, x).amount = b.amount /\ With(b, x).fee = b.fee
         /\ With(b, b.transactions) = b
         /\ \A y : With(With(b, x), y) = With(b, y)
<1> DEFINE h == b.height
           n == b.number
           l == b.length
           p == b.payload
           a == b.amount
           f == b.fee
           t == b.transactions
<1>1. b = Fields(h, n, l, p, a, f, t)
  BY DEF Shape
<1> HIDE DEF h, n, l, p, a, f, t
<1>2. \A y : With(b, y) = Fields(h, n, l, p, a, f, y)
  BY <1>1, FieldsShape
<1>3. \A y, z : With(Fields(h, n, l, p, a, f, y), z) = Fields(h, n, l, p, a, f, z)
  BY FieldsShape
<1>4. \A y : With(With(b, x), y) = With(b, y)
  BY <1>2, <1>3
<1>5. With(b, t) = b
  BY <1>1, <1>2
<1>6. /\ Shape(With(b, x)) /\ With(b, x).transactions = x
      /\ With(b, x).height = h /\ With(b, x).number = n /\ With(b, x).length = l
      /\ With(b, x).payload = p /\ With(b, x).amount = a /\ With(b, x).fee = f
  BY <1>2, FieldsShape
<1> QED BY <1>4, <1>5, <1>6 DEF h, n, l, p, a, f, t

(* Rows that are numbered come back in the order of their numbers.          *)
Numbered(r, n) == n \in Nat /\ DOMAIN r = 1 .. n /\ \A i \in 1 .. n : r[i].rowId = i

LEMMA RowsUpTo ==
  ASSUME NEW r, NEW n, Numbered(r, n), NEW k \in 0 .. n
  PROVE  Cardinality({r[i] : i \in 1 .. k}) = k
<1> DEFINE T == {r[i] : i \in 1 .. k}
           f == [i \in 1 .. k |-> r[i]]
<1>1. k \in Nat /\ \A i \in 1 .. k : i \in 1 .. n /\ r[i].rowId = i
  BY DEF Numbered
<1>2. \A i, j \in 1 .. k : r[i] = r[j] => i = j
  BY <1>1
<1>3. f \in [1 .. k -> T] /\ (\A t \in T : \E i \in 1 .. k : f[i] = t)
      /\ \A i, j \in 1 .. k : f[i] = f[j] => i = j
  BY <1>2
<1> HIDE DEF f, T
<1>4. f \in Bijection(1 .. k, T)
  BY <1>3 DEF Bijection, Injection, Surjection, IsInjective
<1>5. ExistsBijection(1 .. k, T)
  BY <1>4 DEF ExistsBijection
<1>6. IsFiniteSet(1 .. k) /\ Cardinality(1 .. k) = k
  BY <1>1, FS_Interval
<1>7. Cardinality(T) = k
  BY <1>5, <1>6, FS_Bijection
<1> QED BY <1>7 DEF T

LEMMA NumberedInOrder ==
  ASSUME NEW r, NEW n, Numbered(r, n)
  PROVE  LET rows == {r[i] : i \in 1 .. n}
         IN Cardinality(rows) = n /\ InOrder(rows) = [i \in 1 .. n |-> r[i]]
<1> DEFINE rows == {r[i] : i \in 1 .. n}
           Before(x) == {s \in rows : s.rowId < x.rowId}
<1>1. n \in Nat /\ \A i \in 1 .. n : r[i].rowId = i
  BY DEF Numbered
<1>2. Cardinality(rows) = n
  <2>1. n \in 0 .. n
    BY <1>1
  <2> QED BY <2>1, RowsUpTo
<1>3. ASSUME NEW j \in 1 .. n PROVE Cardinality(Before(r[j])) = j - 1
  <2>1. j - 1 \in 0 .. n
    BY <1>1
  <2>2. Before(r[j]) = {r[i] : i \in 1 .. (j - 1)}
    <3>1. ASSUME NEW s \in Before(r[j]) PROVE s \in {r[i] : i \in 1 .. (j - 1)}
      <4>1. PICK i \in 1 .. n : s = r[i]
        BY <3>1
      <4>2. i < j
        BY <4>1, <1>1, <3>1
      <4>3. i \in 1 .. (j - 1)
        BY <1>1, <4>2
      <4> QED BY <4>1, <4>3
    <3>2. ASSUME NEW i \in 1 .. (j - 1) PROVE r[i] \in Before(r[j])
      <4>1. i \in 1 .. n /\ i < j
        BY <1>1
      <4> QED BY <4>1, <1>1
    <3> QED BY <3>1, <3>2
  <2> QED BY <2>1, <2>2, RowsUpTo
<1> HIDE DEF rows
<1>4. ASSUME NEW i \in 1 .. n PROVE (CHOOSE x \in rows : Cardinality(Before(x)) = i - 1) = r[i]
  <2>1. r[i] \in rows /\ Cardinality(Before(r[i])) = i - 1
    BY <1>3 DEF rows
  <2>2. ASSUME NEW x \in rows, Cardinality(Before(x)) = i - 1 PROVE x = r[i]
    <3>1. PICK j \in 1 .. n : x = r[j]
      BY DEF rows
    <3>2. Cardinality(Before(x)) = j - 1
      BY <3>1, <1>3
    <3>3. i = j
      <4> HIDE DEF Before
      <4>1. j - 1 = i - 1
        BY <2>2, <3>2
      <4> QED BY <1>1, <4>1
    <3> QED BY <3>1, <3>3
  <2> HIDE DEF Before
  <2> QED BY <2>1, <2>2
<1>5. InOrder(rows) = [i \in 1 .. n |-> CHOOSE x \in rows : Cardinality(Before(x)) = i - 1]
  BY <1>2 DEF InOrder
<1> HIDE DEF Before
<1> QED BY <1>2, <1>4, <1>5 DEF rows

Rows(v) == {[rowId |-> i, row |-> Row(v[i])] : i \in DOMAIN v}
AllArranged(v) == [i \in 1 .. Len(v) |-> Arranged(v[i])]
AllDecoded(wires, height) == [i \in DOMAIN wires |-> Decoded(wires[i], height)]

LEMMA BlockForms ==
  /\ \A b : Saved(b) = With(b, Rows(b.transactions))
  /\ \A b : Encoded(b) = With(b, Payload(b.transactions))
  /\ \A w, k : BlockDecoded(w, k) = With(w, AllDecoded(w.transactions, k))
  /\ \A s : Read(s) = With(s, [i \in DOMAIN InOrder(s.transactions) |->
                                 Restored(InOrder(s.transactions)[i].row)])
BY DEF Saved, Encoded, BlockDecoded, Read, With, Rows, AllDecoded

LEMMA RowsAreListed ==
  ASSUME NEW S, NEW v \in Seq(S)
  PROVE  /\ Cardinality(Rows(v)) = Len(v)
         /\ InOrder(Rows(v)) = [i \in 1 .. Len(v) |-> [rowId |-> i, row |-> Row(v[i])]]
<1> DEFINE n == Len(v)
           r == [i \in 1 .. n |-> [rowId |-> i, row |-> Row(v[i])]]
<1>1. n \in Nat /\ DOMAIN v = 1 .. n
  OBVIOUS
<1>2. Numbered(r, n)
  BY <1>1 DEF Numbered
<1>3. Rows(v) = {r[i] : i \in 1 .. n}
  BY <1>1 DEF Rows
<1>4. r = [i \in 1 .. n |-> r[i]]
  OBVIOUS
<1> HIDE DEF r
<1>5. Cardinality(Rows(v)) = n /\ InOrder(Rows(v)) = r
  BY <1>2, <1>3, <1>4, NumberedInOrder
<1> QED BY <1>5 DEF r, n

LEMMA ReadRows ==
  ASSUME NEW v \in Seq(Sound), \A i \in 1 .. Len(v) : Normal(v[i]) /\ TypeValid(v[i])
  PROVE  LET rows == InOrder(Rows(v))
         IN [i \in DOMAIN rows |-> Restored(rows[i].row)] = AllArranged(v)
<1> DEFINE rows == InOrder(Rows(v))
           n == Len(v)
<1>1. rows = [i \in 1 .. n |-> [rowId |-> i, row |-> Row(v[i])]]
  BY RowsAreListed
<1>2. DOMAIN rows = 1 .. n /\ \A i \in 1 .. n : rows[i].row = Row(v[i])
  BY <1>1
<1> HIDE DEF rows
<1>3. \A i \in 1 .. n : Restored(Row(v[i])) = Arranged(v[i])
  <2> TAKE i \in 1 .. n
  <2>1. v[i] \in Sound
    OBVIOUS
  <2> QED BY <2>1, RestoredFromRow
<1>4. [i \in DOMAIN rows |-> Restored(rows[i].row)] = [i \in 1 .. n |-> Arranged(v[i])]
  BY <1>2, <1>3
<1> QED BY <1>4 DEF AllArranged, rows, n

(* Votes in another order are the same to those who check a block.          *)
LEMMA ArrangedList ==
  ASSUME NEW v \in Seq(Sound), \A i \in 1 .. Len(v) : Normal(v[i]) /\ TypeValid(v[i])
  PROVE  LET w == AllArranged(v)
         IN /\ w \in Seq(Sound) /\ Len(w) = Len(v) /\ DOMAIN w = 1 .. Len(v)
            /\ \A i \in 1 .. Len(v) :
                 /\ FullBytes(w[i]) = FullBytes(v[i]) /\ Row(w[i]) = Row(v[i])
                 /\ w[i].amount = v[i].amount /\ w[i].fee = v[i].fee
                 /\ Normal(w[i]) /\ TypeValid(w[i]) /\ Arranged(w[i]) = w[i]
                 /\ \A h, last : Verified(v[i], h, last) => Verified(w[i], h, last)
            /\ Rows(w) = Rows(v) /\ Payload(w) = Payload(v)
            /\ Sum(w, "amount") = Sum(v, "amount") /\ Sum(w, "fee") = Sum(v, "fee")
<1> DEFINE n == Len(v)
           w == AllArranged(v)
<1>1. n \in Nat /\ DOMAIN v = 1 .. n /\ \A i \in 1 .. n : v[i] \in Sound
  OBVIOUS
<1>2. ASSUME NEW i \in 1 .. n
      PROVE  /\ Arranged(v[i]) \in Sound /\ Arranged(v[i]).kind = v[i].kind
             /\ Arranged(v[i]).amount = v[i].amount /\ Arranged(v[i]).fee = v[i].fee
             /\ Arranged(v[i]).sigs = v[i].sigs /\ Asset(Arranged(v[i])) = Asset(v[i])
             /\ FullBytes(Arranged(v[i])) = FullBytes(v[i])
             /\ Normal(Arranged(v[i])) /\ TypeValid(Arranged(v[i]))
             /\ Row(Arranged(v[i])) = Row(v[i]) /\ Arranged(Arranged(v[i])) = Arranged(v[i])
  BY <1>1, ArrangedIsAlike
<1>3. w \in [1 .. n -> Sound] /\ (\A i \in 1 .. n : w[i] = Arranged(v[i])) /\ DOMAIN w = 1 .. n
  BY <1>2 DEF AllArranged
<1> HIDE DEF w
<1>4. w \in Seq(Sound) /\ Len(w) = n
  BY <1>1, <1>3
<1>5. ASSUME NEW i \in 1 .. n, NEW h, NEW last, Verified(v[i], h, last)
      PROVE  Verified(w[i], h, last)
  <2> DEFINE a == w[i]
             x == v[i]
  <2>1. a.kind = x.kind /\ a.fee = x.fee /\ a.sigs = x.sigs /\ Asset(a) = Asset(x) /\ TypeValid(a)
    BY <1>2, <1>3
  <2>2. Verified(x, h, last)
    BY <1>5
  <2> HIDE DEF a, x
  <2>3. \A k : MinFee(a, k) = MinFee(x, k)
    BY <2>1 DEF MinFee
  <2>4. Verified(a, h, last)
    BY <2>1, <2>2, <2>3 DEF Verified
  <2> QED BY <2>4 DEF a
<1>6. Rows(w) = Rows(v)
  BY <1>1, <1>2, <1>3 DEF Rows
<1>7. Payload(w) = Payload(v)
  BY <1>1, <1>2, <1>3 DEF Payload
<1>8. Sum(w, "amount") = Sum(v, "amount") /\ Sum(w, "fee") = Sum(v, "fee")
  <2>1. \A i \in 1 .. n : w[i].amount = v[i].amount /\ w[i].fee = v[i].fee
    BY <1>2, <1>3
  <2>2. [i \in DOMAIN w |-> w[i]["amount"]] = [i \in DOMAIN v |-> v[i]["amount"]]
    BY <2>1, <1>1, <1>3
  <2>3. [i \in DOMAIN w |-> w[i]["fee"]] = [i \in DOMAIN v |-> v[i]["fee"]]
    BY <2>1, <1>1, <1>3
  <2> QED BY <2>2, <2>3 DEF Sum
<1>9. \A i \in 1 .. n :
        /\ FullBytes(w[i]) = FullBytes(v[i]) /\ Row(w[i]) = Row(v[i])
        /\ w[i].amount = v[i].amount /\ w[i].fee = v[i].fee
        /\ Normal(w[i]) /\ TypeValid(w[i]) /\ Arranged(w[i]) = w[i]
  BY <1>2, <1>3
<1> QED BY <1>3, <1>4, <1>5, <1>6, <1>7, <1>8, <1>9 DEF w, n

LEMMA AcceptedIs ==
  ASSUME NEW b, NEW blocks, NEW S, b.transactions \in Seq(S), Acceptable(b, blocks)
  PROVE  LET v == b.transactions
         IN /\ b.height = Len(blocks) + 1
            /\ b.length <= MaxPayload /\ b.number <= MaxTxs /\ b.number = Len(v)
            /\ Payload(v) = b.payload
            /\ \A i \in 1 .. Len(v) :
                 Normal(v[i]) /\ TypeValid(v[i]) /\ Verified(v[i], b.height, Len(blocks))
<1> DEFINE v == b.transactions
<1>1. DOMAIN v = 1 .. Len(v)
  OBVIOUS
<1>2. /\ Follows(b, blocks) /\ BlockNormal(b)
      /\ PayloadVerified(b) /\ TransactionsVerified(b, blocks)
  BY DEF Acceptable
<1>3. b.height = Len(blocks) + 1
  BY <1>2 DEF Follows, OnTop
<1>4. /\ b.length <= MaxPayload /\ b.number <= MaxTxs /\ b.number = Len(v)
      /\ Payload(v) = b.payload
  BY <1>2 DEF PayloadVerified
<1>5. \A i \in DOMAIN v : Normal(v[i])
  BY <1>2 DEF BlockNormal
<1>6. \A i \in DOMAIN v : Verified(v[i], b.height, Len(blocks))
  BY <1>2 DEF TransactionsVerified
<1>7. \A i \in DOMAIN v : TypeValid(v[i])
  BY <1>6 DEF Verified
<1> QED BY <1>1, <1>3, <1>4, <1>5, <1>6, <1>7

(* What the database has of a block is what was accepted on top of the      *)
(* blocks before it, and is written the same again.                         *)
Kept(s, blocks) ==
  LET b == Read(s)
  IN /\ Shape(s) /\ Saved(b) = s
     /\ b.transactions \in Seq(Sound)
     /\ \A i \in DOMAIN b.transactions : Arranged(b.transactions[i]) = b.transactions[i]
     /\ Acceptable(b, blocks)

LEMMA SavedIsKept ==
  ASSUME NEW b, NEW blocks, Shape(b), b.transactions \in Seq(Sound), Acceptable(b, blocks)
  PROVE  Kept(Saved(b), blocks)
<1> DEFINE v == b.transactions
           w == AllArranged(v)
           s == Saved(b)
           read == With(b, w)
<1>1. \A i \in 1 .. Len(v) :
        Normal(v[i]) /\ TypeValid(v[i]) /\ Verified(v[i], b.height, Len(blocks))
  BY AcceptedIs
<1>2. /\ w \in Seq(Sound) /\ Len(w) = Len(v) /\ DOMAIN w = 1 .. Len(v)
      /\ \A i \in 1 .. Len(v) :
           /\ FullBytes(w[i]) = FullBytes(v[i]) /\ Row(w[i]) = Row(v[i])
           /\ w[i].amount = v[i].amount /\ w[i].fee = v[i].fee
           /\ Normal(w[i]) /\ TypeValid(w[i]) /\ Arranged(w[i]) = w[i]
           /\ \A h, last : Verified(v[i], h, last) => Verified(w[i], h, last)
      /\ Rows(w) = Rows(v) /\ Payload(w) = Payload(v)
      /\ Sum(w, "amount") = Sum(v, "amount") /\ Sum(w, "fee") = Sum(v, "fee")
  BY <1>1, ArrangedList
<1>3. s = With(b, Rows(v))
  BY BlockForms
<1> HIDE DEF w, s
<1>4. s.transactions = Rows(v) /\ Shape(s) /\ With(s, w) = read
  BY <1>3, WithIs
<1>5. Read(s) = read
  <2>1. Read(s) = With(s, [i \in DOMAIN InOrder(s.transactions) |->
                             Restored(InOrder(s.transactions)[i].row)])
    BY BlockForms
  <2>2. [i \in DOMAIN InOrder(Rows(v)) |-> Restored(InOrder(Rows(v))[i].row)] = w
    BY <1>1, ReadRows DEF w
  <2> QED BY <1>4, <2>1, <2>2
<1>6. /\ Shape(read) /\ read.transactions = w
      /\ read.height = b.height /\ read.number = b.number
      /\ read.length = b.length /\ read.payload = b.payload
      /\ read.amount = b.amount /\ read.fee = b.fee
      /\ \A y : With(read, y) = With(b, y)
  BY WithIs
<1> HIDE DEF read
<1>7. Saved(read) = s
  <2>1. Saved(read) = With(read, Rows(w))
    BY <1>6, BlockForms
  <2> QED BY <1>2, <1>3, <1>6, <2>1
<1>8. Acceptable(read, blocks)
  <2>1. /\ Follows(b, blocks) /\ BlockNormal(b)
        /\ PayloadVerified(b) /\ TransactionsVerified(b, blocks)
    BY DEF Acceptable
  <2>2. Follows(read, blocks)
    BY <2>1, <1>6 DEF Follows, OnTop
  <2>3. BlockNormal(read)
    BY <1>2, <1>6 DEF BlockNormal
  <2>4. PayloadVerified(read)
    BY <2>1, <1>2, <1>6 DEF PayloadVerified
  <2>5. \A i \in 1 .. Len(v) : Verified(w[i], b.height, Len(blocks))
    BY <1>1, <1>2
  <2>6. TransactionsVerified(read, blocks)
    BY <2>1, <2>5, <1>2, <1>6 DEF TransactionsVerified
  <2> QED BY <2>2, <2>3, <2>4, <2>6 DEF Acceptable
<1>9. \A i \in DOMAIN w : Arranged(w[i]) = w[i]
  BY <1>2
<1> QED BY <1>2, <1>4, <1>5, <1>6, <1>7, <1>8, <1>9 DEF Kept, s

(* The form in which such a block travels.                                  *)
OnWire(s) == With(s, s.payload)

LEMMA KeptIs ==
  ASSUME NEW s, NEW blocks, Kept(s, blocks)
  PROVE  LET b == Read(s)
             v == b.transactions
         IN /\ Shape(b) /\ v \in Seq(Sound) /\ s.transactions = Rows(v) /\ With(s, v) = b
            /\ s.height = b.height /\ s.number = b.number /\ s.length = b.length
            /\ s.payload = b.payload /\ Payload(v) = s.payload
            /\ Encoded(b) = OnWire(s)
            /\ s.height = Len(blocks) + 1 /\ s.length <= MaxPayload /\ s.number <= MaxTxs
            /\ s.number = Len(v) /\ s.number = Cardinality(s.transactions)
            /\ \A y : With(b, y) = With(s, y)
<1> DEFINE b == Read(s)
           v == b.transactions
           w == [i \in DOMAIN InOrder(s.transactions) |-> Restored(InOrder(s.transactions)[i].row)]
<1>1. Shape(s) /\ Saved(b) = s /\ v \in Seq(Sound) /\ Acceptable(b, blocks)
  BY DEF Kept
<1>2. b = With(s, w)
  BY BlockForms
<1> HIDE DEF b, w
<1>3. /\ Shape(b) /\ v = w
      /\ b.height = s.height /\ b.number = s.number /\ b.length = s.length
      /\ b.payload = s.payload
      /\ \A y : With(b, y) = With(s, y)
  BY <1>1, <1>2, WithIs
<1>4. s = With(b, Rows(v))
  BY <1>1, BlockForms
<1>5. s.transactions = Rows(v)
  BY <1>3, <1>4, WithIs
<1>6. With(s, v) = b
  BY <1>2, <1>3
<1>7. /\ b.height = Len(blocks) + 1
      /\ b.length <= MaxPayload /\ b.number <= MaxTxs /\ b.number = Len(v)
      /\ Payload(v) = b.payload
  BY <1>1, AcceptedIs
<1>8. Cardinality(Rows(v)) = Len(v)
  BY <1>1, RowsAreListed
<1>9. Encoded(b) = OnWire(s)
  <2>1. Encoded(b) = With(b, Payload(v))
    BY BlockForms
  <2> QED BY <2>1, <1>3, <1>7 DEF OnWire
<1> QED BY <1>1, <1>3, <1>5, <1>6, <1>7, <1>8, <1>9 DEF b

LEMMA WireIs ==
  ASSUME NEW s, NEW blocks, Kept(s, blocks), NEW k
  PROVE  LET v == Read(s).transactions
             x == [i \in 1 .. Len(v) |-> Decoded(FullBytes(v[i]), k)]
         IN /\ OnWire(s).transactions = Payload(v) /\ DOMAIN Payload(v) = 1 .. Len(v)
            /\ \A i \in 1 .. Len(v) : Payload(v)[i] = FullBytes(v[i])
            /\ BlockDecoded(OnWire(s), k) = With(s, x)
<1> DEFINE v == Read(s).transactions
           n == Len(v)
           x == [i \in 1 .. n |-> Decoded(FullBytes(v[i]), k)]
           p == Payload(v)
<1>1. v \in Seq(Sound) /\ Shape(s) /\ s.payload = p
  BY KeptIs DEF Kept
<1>2. DOMAIN v = 1 .. n
  BY <1>1
<1>3. DOMAIN p = 1 .. n /\ \A i \in 1 .. n : p[i] = FullBytes(v[i])
  BY <1>2 DEF Payload
<1> HIDE DEF p
<1>4. OnWire(s) = With(s, p) /\ OnWire(s).transactions = p
  BY <1>1, WithIs DEF OnWire
<1>5. AllDecoded(p, k) = x
  BY <1>3 DEF AllDecoded
<1>6. BlockDecoded(OnWire(s), k) = With(With(s, p), x)
  BY <1>4, <1>5, BlockForms
<1>7. With(With(s, p), x) = With(s, x)
  BY <1>1, WithIs
<1> QED BY <1>3, <1>4, <1>6, <1>7 DEF p

(* A block that was read from the wire and accepted is saved as the sender  *)
(* has it.                                                                  *)
LEMMA AcceptedIsSaved ==
  ASSUME NEW s, NEW blocks, NEW k, Kept(s, blocks), Readable(OnWire(s)),
         Acceptable(BlockDecoded(OnWire(s), k), blocks)
  PROVE  Saved(BlockDecoded(OnWire(s), k)) = s
<1> DEFINE v == Read(s).transactions
           n == Len(v)
           x == [i \in 1 .. n |-> Decoded(FullBytes(v[i]), k)]
           b == BlockDecoded(OnWire(s), k)
<1>1. /\ v \in Seq(Sound) /\ Shape(s) /\ Acceptable(Read(s), blocks) /\ Saved(Read(s)) = s
      /\ s.payload = Payload(v) /\ s.height = Read(s).height
      /\ \A y : With(Read(s), y) = With(s, y)
  BY KeptIs DEF Kept
<1>2. \A i \in 1 .. n :
        Normal(v[i]) /\ TypeValid(v[i]) /\ Verified(v[i], s.height, Len(blocks))
  BY <1>1, AcceptedIs
<1>3. /\ OnWire(s).transactions = Payload(v) /\ DOMAIN Payload(v) = 1 .. n
      /\ (\A i \in 1 .. n : Payload(v)[i] = FullBytes(v[i]))
      /\ b = With(s, x)
  BY WireIs
<1>4. n \in Nat /\ DOMAIN v = 1 .. n /\ \A i \in 1 .. n : v[i] \in Sound
  BY <1>1
<1>5. b.transactions = x /\ b.height = s.height /\ b.payload = Payload(v)
  BY <1>1, <1>3, WithIs
<1> HIDE DEF b
<1>6. DOMAIN x = 1 .. n /\ \A i \in 1 .. n : x[i] = Decoded(FullBytes(v[i]), k)
  OBVIOUS
<1>7. x \in Seq({x[i] : i \in 1 .. n}) /\ Len(x) = n
  BY <1>4, <1>6
<1> HIDE DEF x
<1>8. /\ Payload(x) = Payload(v)
      /\ \A i \in 1 .. n : Normal(x[i]) /\ Verified(x[i], s.height, Len(blocks))
  <2>1. Acceptable(b, blocks)
    BY DEF b
  <2> DEFINE X == {x[i] : i \in 1 .. n}
  <2>2. b.transactions \in Seq(X)
    BY <1>5, <1>7
  <2> HIDE DEF X
  <2>3. /\ Payload(b.transactions) = b.payload
        /\ \A i \in 1 .. Len(b.transactions) :
             Normal(b.transactions[i]) /\ Verified(b.transactions[i], b.height, Len(blocks))
    BY <2>1, <2>2, AcceptedIs
  <2> QED BY <2>3, <1>5, <1>7
<1>9. ASSUME NEW i \in 1 .. n PROVE Row(x[i]) = Row(v[i])
  <2>1. FullBytes(x[i]) = FullBytes(v[i])
    <3>1. Payload(x)[i] = FullBytes(x[i])
      BY <1>6 DEF Payload
    <3> QED BY <3>1, <1>3, <1>8
  <2>2. ~Unreadable(FullBytes(v[i]))
    BY <1>3 DEF Readable
  <2> DEFINE o == v[i]
  <2>3. /\ o \in Sound /\ ~Unreadable(FullBytes(o)) /\ Normal(o)
        /\ Verified(o, s.height, Len(blocks))
        /\ Verified(Decoded(FullBytes(o), k), s.height, Len(blocks))
        /\ FullBytes(Decoded(FullBytes(o), k)) = FullBytes(o)
    BY <2>1, <2>2, <1>2, <1>4, <1>6, <1>8
  <2> HIDE DEF o
  <2>4. Row(Decoded(FullBytes(o), k)) = Row(o)
    BY <2>3, SameRow
  <2> QED BY <2>4, <1>6 DEF o
<1>10. Rows(x) = Rows(v)
  BY <1>4, <1>6, <1>9 DEF Rows
<1>11. Saved(b) = With(s, Rows(v))
  <2>1. Saved(b) = With(b, Rows(x))
    BY <1>5, BlockForms
  <2>2. With(With(s, x), Rows(v)) = With(s, Rows(v))
    BY <1>1, WithIs
  <2> QED BY <2>1, <2>2, <1>3, <1>10
<1>12. s = With(s, Rows(v))
  BY <1>1, BlockForms
<1> QED BY <1>11, <1>12 DEF b

(* And one of transactions that survive the wire, read at a height with the *)
(* fee they were made for, is the block the sender has.                     *)
LEMMA SurvivorIsDecoded ==
  ASSUME NEW o \in Sound, NEW k, NEW h, NEW last, Survives(o), Verified(o, h, last),
         o.kind \in Old => FeeEntry(k) = FeeEntry(last)
  PROVE  Decoded(FullBytes(o), k) = o
<1> DEFINE b == FullBytes(o)
<1>1. ~Unreadable(b) /\ SameButFee(Decoded(b, 0), o) /\ o \in Tx
  BY DEF Survives, Sound
<1>2. CASE o.kind \in Old
  <2> DEFINE time == LET time == b.time IN IF time >= TimeBit THEN time - TimeBit ELSE time
             to == IF Deletes(b) THEN NoAddress ELSE b.to
  <2>1. \A j : Decoded(b, j) = OldFields(o, time, to, FeeEntry(j).fee, o.asset, o.sigs)
    BY <1>1, <1>2, OldIsDecoded DEF OldFields
  <2> HIDE DEF b, time, to
  <2>2. \A f, g : [OldFields(o, time, to, f, o.asset, o.sigs) EXCEPT !.fee = g]
                    = OldFields(o, time, to, g, o.asset, o.sigs)
    BY DEF OldFields
  <2>3. [Decoded(b, 0) EXCEPT !.fee = o.fee] = o
    BY <1>1, <1>2 DEF SameButFee
  <2>4. OldFields(o, time, to, o.fee, o.asset, o.sigs) = o
    BY <2>1, <2>2, <2>3
  <2>5. o.fee = FeeEntry(k).fee
    <3>1. o.fee = MinFee(o, last)
      BY <1>2 DEF Verified
    <3>2. MinFee(o, last) = FeeEntry(last).fee
      BY <1>1, <1>2, MinFeeType DEF Tx
    <3> QED BY <3>1, <3>2, <1>2
  <2> QED BY <2>1, <2>4, <2>5 DEF b
<1>3. CASE o.kind \notin Old
  <2>1. Decoded(b, 0) = o
    BY <1>1, <1>3 DEF SameButFee
  <2>2. TypeValid(o)
    BY DEF Verified
  <2>3. Decoded(b, 0) = Decoded(b, k)
    BY <1>3, <2>2, NewIsDecoded
  <2> QED BY <2>1, <2>3
<1> QED BY <1>2, <1>3

LEMMA SurvivorsAreRead ==
  ASSUME NEW s, NEW blocks, NEW k, Kept(s, blocks), Len(blocks) \in Nat,
         \A tx \in Transactions(s) :
           Survives(tx) /\ (tx.kind \in Old => FeeEntry(k) = FeeEntry(s.height - 1))
  PROVE  BlockDecoded(OnWire(s), k) = Read(s)
<1> DEFINE v == Read(s).transactions
           n == Len(v)
           x == [i \in 1 .. n |-> Decoded(FullBytes(v[i]), k)]
<1>1. /\ v \in Seq(Sound) /\ Shape(s) /\ Acceptable(Read(s), blocks)
      /\ s.transactions = Rows(v) /\ With(s, v) = Read(s)
      /\ s.height = Read(s).height /\ s.height = Len(blocks) + 1
      /\ \A i \in DOMAIN v : Arranged(v[i]) = v[i]
  BY KeptIs DEF Kept
<1>2. \A i \in 1 .. n :
        Normal(v[i]) /\ TypeValid(v[i]) /\ Verified(v[i], s.height, Len(blocks))
  BY <1>1, AcceptedIs
<1>3. n \in Nat /\ DOMAIN v = 1 .. n /\ \A i \in 1 .. n : v[i] \in Sound
  BY <1>1
<1>4. BlockDecoded(OnWire(s), k) = With(s, x)
  BY WireIs
<1>5. ASSUME NEW i \in 1 .. n PROVE Decoded(FullBytes(v[i]), k) = v[i]
  <2> DEFINE o == v[i]
             row == Row(o)
             r == [rowId |-> i, row |-> row]
  <2>1. r \in Rows(v) /\ r.row = row
    BY <1>3 DEF Rows
  <2> HIDE DEF r, row
  <2>2. Restored(row) \in Transactions(s)
    BY <1>1, <2>1 DEF Transactions
  <2>3. o \in Sound /\ Verified(o, s.height, Len(blocks)) /\ Restored(row) = o
    <3>1. Restored(Row(v[i])) = Arranged(v[i])
      BY <1>2, <1>3, RestoredFromRow
    <3> QED BY <3>1, <1>1, <1>2, <1>3 DEF row
  <2>4. s.height - 1 = Len(blocks)
    <3> DEFINE h == s.height
               m == Len(blocks)
    <3>1. h = m + 1 /\ m \in Nat
      BY <1>1
    <3> HIDE DEF h, m
    <3>2. h - 1 = m
      BY ONLY <3>1
    <3> QED BY <3>2 DEF h, m
  <2>5. Survives(o) /\ (o.kind \in Old => FeeEntry(k) = FeeEntry(Len(blocks)))
    BY <2>2, <2>3, <2>4
  <2> HIDE DEF o
  <2>6. Decoded(FullBytes(o), k) = o
    BY <2>3, <2>5, SurvivorIsDecoded
  <2> QED BY <2>6 DEF o
<1>6. x = v
  BY <1>1, <1>3, <1>5
<1> QED BY <1>1, <1>4, <1>6

-----------------------------------------------------------------------------
(* What a request is answered with.                                         *)
LEMMA CountHeaderType ==
  ASSUME NEW c \in Counts
  PROVE  CountHeader[c] \in Counts
<1>1. CountHeader[c] =
        IF c.full THEN c
        ELSE IF c.blocks + Header + c.txs > MaxBytes
             THEN [c EXCEPT !.blocks = @ + Header, !.full = TRUE]
             ELSE [c EXCEPT !.blocks = @ + Header, !.count = @ + 1]
  BY DEF CountHeader
<1>2. c.blocks + Header \in Nat /\ c.count + 1 \in Nat /\ TRUE \in BOOLEAN
  BY DEF Counts, Header
<1> DEFINE blocks == c.blocks + Header
           count == c.count + 1
<1> HIDE DEF blocks, count
<1>3. [c EXCEPT !.blocks = blocks, !.full = TRUE] \in Counts
  BY <1>2 DEF Counts, blocks
<1>4. [c EXCEPT !.blocks = blocks, !.count = count] \in Counts
  BY <1>2 DEF Counts, blocks, count
<1> QED BY <1>1, <1>3, <1>4 DEF blocks, count

LEMMA CountHeadersType ==
  ASSUME NEW c \in Counts, NEW delta \in Int
  PROVE  CountHeaders[<<c, delta>>] \in Counts
<1> DEFINE m == Max({0, delta})
           r == [c EXCEPT !.full = FALSE]
           step == [p \in (1 .. m) \X Counts |-> CountHeader[p[2]]]
           IsUpto(u) == u = [i \in 0 .. m |-> IF i = 0 THEN r ELSE CountHeader[u[i - 1]]]
           From(p) ==
             LET d == Max({0, p[2]})
                 after[i \in 0 .. d] ==
                   IF i = 0 THEN [p[1] EXCEPT !.full = FALSE] ELSE CountHeader[after[i - 1]]
             IN after[d]
<1>1. m \in Nat
  BY MaxOfTwo
<1>2. r \in Counts
  BY DEF Counts
<1>3. CountHeaders[<<c, delta>>] = (CHOOSE u : IsUpto(u))[m]
  <2>1. CountHeaders = [p \in Counts \X Int |-> From(p)]
    BY DEF CountHeaders
  <2>2. From(<<c, delta>>) = (CHOOSE u : IsUpto(u))[m]
    OBVIOUS
  <2> HIDE DEF From, IsUpto, m, r, step
  <2> QED BY <2>1, <2>2
<1> HIDE DEF m, r
<1>4. IsStep(step, m, Counts)
  BY <1>1, CountHeaderType DEF IsStep
<1>5. PICK f : Iterates(f, step, r, m, Counts)
  <2> HIDE DEF step
  <2> QED BY <1>2, <1>4, Iteration
<1>6. /\ f \in [0 .. m -> Counts] /\ f[0] = r
      /\ \A n \in 1 .. m : f[n] = CountHeader[f[n - 1]]
  <2>1. f \in [0 .. m -> Counts] /\ f[0] = r /\ \A n \in 1 .. m : f[n] = step[<<n, f[n - 1]>>]
    <3> HIDE DEF step
    <3> QED BY <1>5 DEF Iterates
  <2>2. \A n \in 1 .. m : f[n - 1] \in Counts
    <3> TAKE n \in 1 .. m
    <3>1. n - 1 \in 0 .. m
      BY <1>1
    <3> QED BY <3>1, <2>1
  <2> QED BY <2>1, <2>2
<1>7. IsUpto(f)
  <2>1. \A i \in 0 .. m : f[i] = IF i = 0 THEN r ELSE CountHeader[f[i - 1]]
    <3> TAKE i \in 0 .. m
    <3>1. i = 0 \/ i \in 1 .. m
      BY <1>1
    <3> QED BY <3>1, <1>6
  <2> QED BY <2>1, <1>6
<1> DEFINE g == CHOOSE u : IsUpto(u)
<1>8. IsUpto(g)
  <2> HIDE DEF IsUpto
  <2> QED BY <1>7
<1> HIDE DEF g
<1>9. f[m] = g[m]
  <2>1. \A n \in 0 .. m : g[n] = IF n = 0 THEN r ELSE CountHeader[g[n - 1]]
    BY <1>8
  <2>2. g[0] = r /\ \A n \in 1 .. m : g[n] = CountHeader[g[n - 1]]
    BY <2>1, <1>1
  <2>3. Alike(f, g, m)
    BY <2>2, <1>6 DEF Alike
  <2> QED BY <2>3, <1>1, SameIteration
<1>10. f[m] \in Counts
  BY <1>1, <1>6
<1> QED BY <1>3, <1>9, <1>10 DEF g

LEMMA CountTxType ==
  ASSUME NEW acc \in Counts, NEW tx \in Heads
  PROVE  CountTx[<<acc, tx>>] \in Counts
<1> DEFINE new == acc.height # tx.height /\ acc.blocks > 0
           over == acc.blocks + acc.txs > MaxBytes
           before == IF new THEN NextBlock(acc) ELSE acc
           after == CountHeaders[<<before, tx.height - acc.height>>]
           done == [acc EXCEPT !.done = TRUE]
           next == [after EXCEPT !.height = tx.height, !.txs = @ + tx.size]
           From(p) ==
             LET a == p[1]
                 t == p[2]
                 n == a.height # t.height /\ a.blocks > 0
                 o == a.blocks + a.txs > MaxBytes
                 b == IF n THEN NextBlock(a) ELSE a
                 c == CountHeaders[<<b, t.height - a.height>>]
             IN IF a.done \/ (n /\ o) THEN [a EXCEPT !.done = TRUE]
                ELSE [c EXCEPT !.height = t.height, !.txs = @ + t.size]
<1>1. CountTx[<<acc, tx>>] = IF acc.done \/ (new /\ over) THEN done ELSE next
  <2>1. CountTx = [p \in Counts \X Heads |-> From(p)]
    BY DEF CountTx
  <2>2. From(<<acc, tx>>) = IF acc.done \/ (new /\ over) THEN done ELSE next
    OBVIOUS
  <2> HIDE DEF From, done, next
  <2>3. CountTx[<<acc, tx>>] = From(<<acc, tx>>)
    BY <2>1
  <2> QED BY <2>2, <2>3
<1>2. before \in Counts
  BY DEF Counts, NextBlock
<1>3. tx.height - acc.height \in Int /\ tx.height \in Nat /\ tx.size \in Nat
  BY DEF Counts, Heads
<1> HIDE DEF before
<1>4. after \in Counts
  BY <1>2, <1>3, CountHeadersType
<1> HIDE DEF after
<1>5. next \in Counts
  <2> DEFINE txs == after.txs + tx.size
             height == tx.height
  <2>1. txs \in Nat /\ height \in Nat
    BY <1>3, <1>4 DEF Counts
  <2>2. next = [after EXCEPT !.height = height, !.txs = txs]
    BY <1>4 DEF Counts
  <2> HIDE DEF txs, height, next
  <2> QED BY <1>4, <2>1, <2>2 DEF Counts
<1>6. done \in Counts
  BY DEF Counts
<1> HIDE DEF done, next
<1> QED BY <1>1, <1>5, <1>6

LEMMA CountTxsType ==
  ASSUME NEW last \in Nat, NEW txs \in Seq(Heads)
  PROVE  CountTxs[<<last, txs>>] \in Counts
<1> DEFINE m == Len(txs)
           r == NoneCounted(last)
           step == [p \in (1 .. m) \X Counts |-> CountTx[<<p[2], txs[p[1]]>>]]
           IsUpto(u) == u = [i \in 0 .. m |-> IF i = 0 THEN r ELSE CountTx[<<u[i - 1], txs[i]>>]]
           From(p) ==
             LET t == p[2]
                 after[i \in 0 .. Len(t)] ==
                   IF i = 0 THEN NoneCounted(p[1]) ELSE CountTx[<<after[i - 1], t[i]>>]
             IN after[Len(t)]
<1>1. m \in Nat /\ \A i \in 1 .. m : txs[i] \in Heads
  OBVIOUS
<1>2. r \in Counts
  BY DEF Counts, NoneCounted
<1>3. CountTxs[<<last, txs>>] = (CHOOSE u : IsUpto(u))[m]
  <2>1. CountTxs = [p \in Nat \X Seq(Heads) |-> From(p)]
    BY DEF CountTxs
  <2>2. From(<<last, txs>>) = (CHOOSE u : IsUpto(u))[m]
    OBVIOUS
  <2> DEFINE D == Nat \X Seq(Heads)
             x == <<last, txs>>
  <2>3. x \in D /\ CountTxs = [p \in D |-> From(p)]
    BY <2>1
  <2> HIDE DEF From, IsUpto, m, r, step, D, x
  <2>4. CountTxs[x] = From(x)
    BY ONLY <2>3
  <2> QED BY ONLY <2>2, <2>4 DEF x
<1> HIDE DEF m, r
<1>4. IsStep(step, m, Counts)
  <2>1. \A p \in (1 .. m) \X Counts : CountTx[<<p[2], txs[p[1]]>>] \in Counts
    BY <1>1, CountTxType
  <2> QED BY <1>1, <2>1 DEF IsStep
<1>5. PICK f : Iterates(f, step, r, m, Counts)
  <2> HIDE DEF step
  <2> QED BY <1>2, <1>4, Iteration
<1>6. /\ f \in [0 .. m -> Counts] /\ f[0] = r
      /\ \A n \in 1 .. m : f[n] = CountTx[<<f[n - 1], txs[n]>>]
  <2>1. f \in [0 .. m -> Counts] /\ f[0] = r /\ \A n \in 1 .. m : f[n] = step[<<n, f[n - 1]>>]
    <3> HIDE DEF step
    <3> QED BY <1>5 DEF Iterates
  <2>2. \A n \in 1 .. m : f[n - 1] \in Counts
    <3> TAKE n \in 1 .. m
    <3>1. n - 1 \in 0 .. m
      BY <1>1
    <3> QED BY <3>1, <2>1
  <2> QED BY <2>1, <2>2
<1>7. IsUpto(f)
  <2>1. \A i \in 0 .. m : f[i] = IF i = 0 THEN r ELSE CountTx[<<f[i - 1], txs[i]>>]
    <3> TAKE i \in 0 .. m
    <3>1. i = 0 \/ i \in 1 .. m
      BY <1>1
    <3> QED BY <3>1, <1>6
  <2> QED BY <2>1, <1>6
<1> DEFINE g == CHOOSE u : IsUpto(u)
<1>8. IsUpto(g)
  <2> HIDE DEF IsUpto
  <2> QED BY <1>7
<1> HIDE DEF g
<1>9. f[m] = g[m]
  <2>1. \A n \in 0 .. m : g[n] = IF n = 0 THEN r ELSE CountTx[<<g[n - 1], txs[n]>>]
    BY <1>8
  <2>2. g[0] = r /\ \A n \in 1 .. m : g[n] = CountTx[<<g[n - 1], txs[n]>>]
    <3>1. 0 \in 0 .. m /\ \A n \in 1 .. m : n \in 0 .. m /\ n # 0
      BY <1>1
    <3> QED BY <3>1, <2>1, Zenon
  <2>3. Alike(f, g, m)
    BY <2>2, <1>6 DEF Alike
  <2> QED BY <2>3, <1>1, SameIteration
<1>10. f[m] \in Counts
  BY <1>1, <1>6
<1> QED BY <1>3, <1>9, <1>10 DEF g

LEMMA FlattenType ==
  ASSUME NEW S, NEW ss \in Seq(Seq(S))
  PROVE  FlattenSeq(ss) \in Seq(S)
<1> DEFINE m == Len(ss)
           R == Seq(S)
           step == [p \in (1 .. m) \X R |-> IF p[1] = 1 THEN ss[1] ELSE p[2] \o ss[p[1]]]
           IsUpto(u) == u = [i \in 1 .. m |-> IF i = 1 THEN ss[i] ELSE u[i - 1] \o ss[i]]
<1>1. m \in Nat /\ \A i \in 1 .. m : ss[i] \in R
  OBVIOUS
<1>2. CASE ss = <<>>
  <2>1. FlattenSeq(ss) = ss
    BY <1>2 DEF FlattenSeq
  <2>2. <<>> \in Seq(S)
    OBVIOUS
  <2> QED BY ONLY <2>1, <2>2, <1>2
<1>4. m # 0 <=> ss # <<>>
  OBVIOUS
<1>3. CASE m # 0
  <2>1. FlattenSeq(ss) = (CHOOSE u : IsUpto(u))[m]
    BY <1>3 DEF FlattenSeq
  <2> HIDE DEF m
  <2>2. IsStep(step, m, R)
    <3>1. ASSUME NEW p \in (1 .. m) \X R
          PROVE  (IF p[1] = 1 THEN ss[1] ELSE p[2] \o ss[p[1]]) \in R
      <4>1. p[1] \in 1 .. m /\ p[2] \in R /\ 1 \in 1 .. m
        BY <1>1, <1>3
      <4> DEFINE a == p[2]
                 b == ss[p[1]]
                 c == ss[1]
      <4>2. a \in Seq(S) /\ b \in Seq(S) /\ c \in Seq(S)
        BY <4>1, <1>1
      <4> HIDE DEF a, b, c
      <4>3. a \o b \in Seq(S)
        BY <4>2
      <4> QED BY <4>2, <4>3 DEF a, b, c
    <3> HIDE DEF R
    <3> QED BY <1>1, <3>1 DEF IsStep
  <2>3. <<>> \in R
    OBVIOUS
  <2> HIDE DEF R
  <2>4. PICK f : Iterates(f, step, <<>>, m, R)
    <3> HIDE DEF step
    <3> QED BY <2>2, <2>3, Iteration
  <2>5. /\ f \in [0 .. m -> R]
        /\ \A n \in 1 .. m : f[n] = IF n = 1 THEN ss[1] ELSE f[n - 1] \o ss[n]
    <3>1. f \in [0 .. m -> R] /\ \A n \in 1 .. m : f[n] = step[<<n, f[n - 1]>>]
      <4> HIDE DEF step
      <4> QED BY <2>4 DEF Iterates
    <3>2. \A n \in 1 .. m : f[n - 1] \in R
      <4> TAKE n \in 1 .. m
      <4>1. n - 1 \in 0 .. m
        BY <1>1
      <4> QED BY <4>1, <3>1
    <3> QED BY <3>1, <3>2
  <2> DEFINE f1 == [i \in 1 .. m |-> f[i]]
  <2>6. IsUpto(f1)
    <3>1. \A i \in 1 .. m : f1[i] = IF i = 1 THEN ss[i] ELSE f1[i - 1] \o ss[i]
      <4> TAKE i \in 1 .. m
      <4>1. i # 1 => i - 1 \in 1 .. m
        BY <1>1
      <4> QED BY <4>1, <2>5
    <3> QED BY <3>1
  <2> DEFINE g == CHOOSE u : IsUpto(u)
  <2>7. IsUpto(g)
    <3> HIDE DEF IsUpto, f1
    <3> QED BY <2>6
  <2> HIDE DEF g
  <2>8. \A n \in 1 .. m : g[n] = IF n = 1 THEN ss[1] ELSE g[n - 1] \o ss[n]
    BY <2>7
  <2> DEFINE T == {n \in Nat : n = 0 \/ g[n] = f[n]}
  <2>9. 0 \in T
    OBVIOUS
  <2>10. ASSUME NEW n \in 1 .. m, n - 1 \in T PROVE n \in T
    <3>1. n \in Nat /\ (n # 1 => n - 1 # 0)
      BY <1>1
    <3>2. n # 1 => g[n - 1] = f[n - 1]
      BY <3>1, <2>10
    <3>3. g[n] = f[n]
      BY <3>2, <2>5, <2>8
    <3> QED BY <3>1, <3>3
  <2>11. 0 .. m \subseteq T
    <3> HIDE DEF T
    <3> QED BY <1>1, <2>9, <2>10, BoundedInduction
  <2>12. g[m] = f[m]
    <3>1. m \in 0 .. m
      BY <1>1
    <3> QED BY <3>1, <2>11, <1>3
  <2>13. f[m] \in R
    <3>1. m \in 0 .. m
      BY <1>1
    <3> QED BY <3>1, <2>5
  <2> QED BY <2>1, <2>12, <2>13 DEF g, R
<1> QED BY <1>2, <1>3, <1>4

LEMMA SubSeqIs ==
  ASSUME NEW S, NEW s \in Seq(S), NEW a \in Nat, NEW b \in Int, b <= Len(s)
  PROVE  LET q == SubSeq(s, a + 1, b)
         IN /\ q \in Seq(S) /\ Len(q) \in Nat /\ DOMAIN q = 1 .. Len(q)
            /\ \A i \in 1 .. Len(q) : q[i] = s[a + i] /\ a + i \in 1 .. Len(s)
<1>1. CASE a + 1 <= b
  BY <1>1
<1>2. CASE ~(a + 1 <= b)
  BY <1>2
<1> QED BY <1>1, <1>2

LEMMA MinSizeType ==
  /\ \A kind : MaxBytesSize(kind) \in Nat /\ MaxBytesSize(kind) >= 159
  /\ MinSize \in Nat /\ MinSize >= 159
<1>1. \A kind : MaxBytesSize(kind) \in Nat /\ MaxBytesSize(kind) >= 159
  <2> TAKE kind
  <2>1. MaxVotes \in Nat
    BY TransactionBytesAssumption
  <2>2. MaxVotes * 65 \in Nat
    BY <2>1
  <2> DEFINE x == MaxVotes * 65
  <2> HIDE DEF x
  <2>3. MaxBytesSize(kind) = 159 + CASE kind \in {"oldVote", "vote"} -> x
                                     [] kind \in {"oldSecond", "second"} -> 32
                                     [] kind = "oldRegister" -> 20
                                     [] kind = "register" -> 52
                                     [] OTHER -> 0
    BY DEF MaxBytesSize, x
  <2> QED BY <2>2, <2>3 DEF x
<1> DEFINE T == {MaxBytesSize(k) : k \in Old \cup {"send"}}
<1>2. T \in SUBSET Nat /\ T # {} /\ \A t \in T : t >= 159
  <2>1. T # {}
    OBVIOUS
  <2> QED BY <1>1, <2>1
<1> HIDE DEF T
<1>3. PICK t \in T : \A y \in T : t <= y
  BY <1>2, LeastNat
<1>4. Min(T) \in T
  BY <1>3 DEF Min
<1> QED BY <1>1, <1>2, <1>4 DEF MinSize, T

LEMMA LimitsType == TxLimit \in Int /\ DeltaLimit \in Int
<1>1. MaxBytes \in Nat /\ MaxTxs \in Nat /\ MinSize \in Nat
  BY TransferAssumption, MinSizeType
<1>2. \A a \in Int, b \in Nat : b > 0 => CeilDiv(a, b) \in Int
  BY DEF CeilDiv
<1>3. MaxBytes * MaxTxs \in Int /\ MinSize * MaxTxs \in Nat
  BY <1>1
<1>4. (MinSize * MaxTxs) + Header \in Nat /\ (MinSize * MaxTxs) + Header > 0
  BY <1>3 DEF Header
<1>5. TxLimit \in Int
  BY <1>2, <1>3, <1>4 DEF TxLimit
<1>6. DeltaLimit \in Int
  BY <1>1, <1>2 DEF DeltaLimit, Header
<1> QED BY <1>5, <1>6

LEMMA LoadableType ==
  ASSUME NEW end \in Counts
  PROVE  Loadable[end] \in Int
<1> DEFINE left == MaxBytes - end.blocks - end.txs
           empty == EmptyAfter(left)
           n == end.count + empty
<1>1. left \in Int
  BY TransferAssumption DEF Counts
<1>2. empty \in Int
  <2> HIDE DEF left
  <2>1. CeilDiv(left, Header) \in Int
    BY <1>1 DEF CeilDiv, Header
  <2> QED BY <2>1 DEF EmptyAfter
<1> HIDE DEF empty
<1>3. n \in Int
  BY <1>2 DEF Counts
<1> HIDE DEF n
<1>4. Loadable[end] = Max({1, n})
  BY DEF Loadable, n, empty
<1> QED BY <1>3, <1>4, MaxOfTwo

-----------------------------------------------------------------------------
(* The inductive invariant: what the server has was accepted on top of what *)
(* it had before, and everything else comes from it.                        *)
Below(h) == SubSeq(chain, 1, h - 1)
ChainInv == IsSeq(chain) /\ Height >= 1 /\ \A h \in 1 .. Height : Kept(chain[h], Below(h))
PoolInv == pool \in Seq(Sound)
CopyInv == Len(copy) \in 1 .. Height /\ copy = SubSeq(chain, 1, Len(copy))

(* The blocks after the client's, as they travel, and as they were read.    *)
NextSent(wires) ==
  IsSeq(wires) /\ \A i \in 1 .. Len(wires) :
    Len(copy) + i \in 1 .. Height /\ wires[i] = OnWire(chain[Len(copy) + i])
NextRead(blocks, k) ==
  IsSeq(blocks) /\ \A i \in 1 .. Len(blocks) :
    /\ Len(copy) + i \in 1 .. Height /\ Readable(OnWire(chain[Len(copy) + i]))
    /\ blocks[i] = BlockDecoded(OnWire(chain[Len(copy) + i]), k)
LinkInv ==
  /\ link = [at |-> link.at, last |-> link.last, blocks |-> link.blocks]
  /\ \/ link = Idle
     \/ link.at \in {"asked", "answered"} /\ link.last = Len(copy) /\ batch = NoBatch
  /\ link.at = "answered" => NextSent(link.blocks)
BatchInv ==
  batch = [blocks |-> batch.blocks, height |-> batch.height] /\ NextRead(batch.blocks, batch.height)
Posted(w) == \E h \in 1 .. Height : w = OnWire(chain[h])
WasPosted(b) ==
  \E h \in 1 .. Height, k \in 1 .. Height :
    Readable(OnWire(chain[h])) /\ b = BlockDecoded(OnWire(chain[h]), k)
PostsInv ==
  /\ \A w \in posts : Posted(w)
  /\ IsSeq(inbox) /\ Len(inbox) <= MaxInbox /\ \A i \in 1 .. Len(inbox) : WasPosted(inbox[i])
Inv ==
  /\ ChainInv /\ PoolInv /\ CopyInv /\ LinkInv /\ BatchInv /\ PostsInv
  /\ peer \in BOOLEAN

LEMMA KeptBelow ==
  ASSUME ChainInv, NEW h \in 1 .. Height
  PROVE  /\ Kept(chain[h], Below(h)) /\ Len(Below(h)) = h - 1 /\ chain[h].height = h
         /\ Encoded(Read(chain[h])) = OnWire(chain[h])
         /\ Cardinality(chain[h].transactions) \in Nat
<1>1. Kept(chain[h], Below(h)) /\ IsSeq(chain)
  BY DEF ChainInv
<1>2. Len(chain) \in Nat
  BY <1>1 DEF IsSeq
<1>3. h - 1 \in 0 .. Len(chain) /\ h \in Nat
  BY <1>2 DEF Height
<1>4. Len(Below(h)) = h - 1
  BY <1>1, <1>3, PrefixIsSeq DEF Below
<1> DEFINE s == chain[h]
           v == Read(s).transactions
           n == Len(Below(h))
           m == Len(v)
           x == s.height
<1>5. /\ v \in Seq(Sound) /\ Encoded(Read(s)) = OnWire(s) /\ x = n + 1
      /\ s.number = m /\ s.number = Cardinality(s.transactions)
  BY <1>1, KeptIs
<1>6. x = h
  <2>1. n = h - 1 /\ x = n + 1
    BY <1>4, <1>5
  <2> HIDE DEF n, x
  <2> QED BY ONLY <2>1, <1>3
<1>7. m \in Nat
  <2>1. v \in Seq(Sound)
    BY <1>5
  <2> HIDE DEF v
  <2> QED BY ONLY <2>1
<1> HIDE DEF m, x
<1> QED BY <1>1, <1>4, <1>5, <1>6, <1>7 DEF x

LEMMA InRangeType ==
  ASSUME ChainInv, NEW last \in Nat
  PROVE  InRange(last) \in Seq(Heads)
<1> DEFINE to == Min({Height, last + DeltaLimit})
           blocks == Between(last, last + DeltaLimit)
           HeadsOf(b) ==
             LET rows == InOrder(b.transactions)
             IN [j \in DOMAIN rows |->
                   [height |-> b.height, size |-> MaxBytesSize(rows[j].row.trs.kind)]]
           ss == [i \in DOMAIN blocks |-> HeadsOf(blocks[i])]
           txs == FlattenSeq(ss)
           n == Len(blocks)
           S == Range(chain)
<1>1. chain \in Seq(S) /\ Height \in Nat /\ Height = Len(chain)
  BY DEF ChainInv, IsSeq, Height
<1> HIDE DEF S
<1>2. to \in Int /\ to <= Height
  BY <1>1, LimitsType, MinOfTwo
<1>3. blocks = SubSeq(chain, last + 1, to)
  BY DEF Between
<1> HIDE DEF to, blocks
<1>4. /\ n \in Nat /\ DOMAIN blocks = 1 .. n
      /\ \A i \in 1 .. n : blocks[i] = chain[last + i] /\ last + i \in 1 .. Height
  BY <1>1, <1>2, <1>3, SubSeqIs
<1>5. ASSUME NEW i \in 1 .. n PROVE HeadsOf(blocks[i]) \in Seq(Heads)
  <2> DEFINE b == blocks[i]
             c == Cardinality(b.transactions)
             rows == InOrder(b.transactions)
             Size1(j) == MaxBytesSize(rows[j].row.trs.kind)
  <2>1. c \in Nat /\ b.height \in Nat
    <3>1. b = chain[last + i] /\ last + i \in 1 .. Height
      BY <1>4
    <3> DEFINE h == last + i
    <3>2. h \in 1 .. Height /\ b = chain[h]
      BY <3>1
    <3> HIDE DEF h, b, c
    <3>3. Cardinality(chain[h].transactions) \in Nat /\ chain[h].height = h
      BY <3>2, KeptBelow
    <3> QED BY <3>2, <3>3, <1>1 DEF c
  <2>2. DOMAIN rows = 1 .. c
    BY DEF InOrder
  <2>3. \A j \in 1 .. c : Size1(j) \in Nat
    BY MinSizeType
  <2>4. HeadsOf(b) = [j \in 1 .. c |-> [height |-> b.height, size |-> Size1(j)]]
    BY <2>2
  <2> HIDE DEF b, c, Size1
  <2>5. [j \in 1 .. c |-> [height |-> b.height, size |-> Size1(j)]] \in [1 .. c -> Heads]
    BY <2>1, <2>3 DEF Heads
  <2> DEFINE f == [j \in 1 .. c |-> [height |-> b.height, size |-> Size1(j)]]
  <2> HIDE DEF f
  <2>6. f \in Seq(Heads)
    BY <2>1, <2>5 DEF f
  <2> QED BY <2>4, <2>6 DEF f, b
<1>6. ss \in Seq(Seq(Heads))
  <2> DEFINE R == Seq(Heads)
  <2> HIDE DEF HeadsOf, R
  <2>1. ss \in [1 .. n -> R]
    BY <1>4, <1>5 DEF R
  <2> HIDE DEF ss, n
  <2>2. ss \in Seq(R)
    BY <2>1, <1>4
  <2> QED BY <2>2 DEF R
<1> HIDE DEF ss
<1>7. txs \in Seq(Heads)
  BY <1>6, FlattenType
<1> DEFINE k == Min({TxLimit, Len(txs)})
<1>8. InRange(last) = SubSeq(txs, 1, k)
  BY DEF InRange, ss, blocks
<1> HIDE DEF txs
<1>9. k \in Int /\ k <= Len(txs)
  BY <1>7, LimitsType, MinOfTwo
<1> HIDE DEF k
<1>10. SubSeq(txs, 1, k) \in Seq(Heads)
  <2>1. SubSeq(txs, 0 + 1, k) \in Seq(Heads)
    BY <1>7, <1>9, SubSeqIs
  <2> QED BY <2>1
<1> QED BY <1>8, <1>10

LEMMA AnswerIs ==
  ASSUME ChainInv, NEW last \in Nat
  PROVE  LET wires == HandleRequest(last)
         IN IsSeq(wires) /\ \A i \in 1 .. Len(wires) :
              last + i \in 1 .. Height /\ wires[i] = OnWire(chain[last + i])
<1> DEFINE limit == BlocksToLoad(last)
           to == Min({Height, last + limit - 1})
           blocks == Loaded[<<last, limit>>]
           wires == HandleRequest(last)
           n == Len(blocks)
           S == Range(chain)
<1>1. chain \in Seq(S) /\ Height \in Nat /\ Height = Len(chain)
  BY DEF ChainInv, IsSeq, Height
<1> HIDE DEF S
<1>2. limit \in Int
  <2>1. InRange(last) \in Seq(Heads)
    BY InRangeType
  <2>2. CountTxs[<<last, InRange(last)>>] \in Counts
    BY <2>1, CountTxsType
  <2> QED BY <2>2, LoadableType, LimitsType DEF BlocksToLoad
<1>3. wires = [i \in DOMAIN blocks |-> Encoded(Read(blocks[i]))]
  BY DEF HandleRequest
<1> HIDE DEF limit, wires
<1>4. blocks = SubSeq(chain, last + 1, to)
  <2>1. Loaded = [from \in Nat \X Int |-> Between(from[1], from[1] + from[2] - 1)]
    BY DEF Loaded
  <2>2. Loaded[<<last, limit>>] = Between(last, last + limit - 1)
    BY <2>1, <1>2
  <2> QED BY <2>2 DEF Between
<1> HIDE DEF blocks
<1>5. to \in Int /\ to <= Height
  <2>1. last + limit - 1 \in Int
    BY <1>2
  <2> QED BY <2>1, <1>1, MinOfTwo
<1> HIDE DEF to
<1>6. /\ n \in Nat /\ DOMAIN blocks = 1 .. n
      /\ \A i \in 1 .. n : blocks[i] = chain[last + i] /\ last + i \in 1 .. Height
  BY <1>1, <1>4, <1>5, SubSeqIs
<1> HIDE DEF n
<1>7. \A i \in 1 .. n : last + i \in 1 .. Height /\ Encoded(Read(blocks[i])) = OnWire(chain[last + i])
  <2> TAKE i \in 1 .. n
  <2> DEFINE h == last + i
  <2>1. h \in 1 .. Height /\ blocks[i] = chain[h]
    BY <1>6
  <2> HIDE DEF h
  <2>2. Encoded(Read(chain[h])) = OnWire(chain[h])
    BY <2>1, KeptBelow
  <2> QED BY <2>1, <2>2 DEF h
<1>8. DOMAIN wires = 1 .. n /\ \A i \in 1 .. n : wires[i] = Encoded(Read(blocks[i]))
  BY <1>3, <1>6
<1>9. wires = [i \in 1 .. n |-> wires[i]]
  BY <1>3, <1>6
<1>10. IsSeq(wires) /\ Len(wires) = n
  <2> DEFINE W == {wires[i] : i \in 1 .. n}
  <2>1. wires \in [1 .. n -> W]
    BY <1>9
  <2> HIDE DEF W
  <2>2. wires \in Seq(W) /\ Len(wires) = n
    BY <2>1, <1>6
  <2> QED BY <2>2, SeqIsSeq
<1> QED BY <1>7, <1>8, <1>10 DEF wires

-----------------------------------------------------------------------------
(* Every step keeps the invariant.                                          *)
LEMMA NoneIsKept == Kept(Genesis, SubSeq(<<Genesis>>, 1, 0)) /\ Genesis.height = 1
<1> DEFINE b == With(Genesis, <<>>)
           none == SubSeq(<<Genesis>>, 1, 0)
<1>1. Genesis = Fields(1, 0, 0, <<>>, 0, 0, {})
  BY DEF Genesis, Fields
<1>2. b = Fields(1, 0, 0, <<>>, 0, 0, <<>>)
  BY <1>1, FieldsShape
<1> HIDE DEF b
<1>3. /\ Shape(b) /\ b.height = 1 /\ b.number = 0 /\ b.length = 0 /\ b.payload = <<>>
      /\ b.amount = 0 /\ b.fee = 0 /\ b.transactions = <<>>
      /\ \A x : With(b, x) = Fields(1, 0, 0, <<>>, 0, 0, x)
  BY <1>2, FieldsShape
<1>4. none = <<>>
  OBVIOUS
<1> HIDE DEF none
<1>5. DOMAIN b.transactions = {} /\ DOMAIN b.payload = {} /\ Range(b.payload) = {}
  BY <1>3 DEF Range
<1>6. Follows(b, none)
  <2>1. 1 = 0 + 1 /\ Len(<<>>) = 0
    OBVIOUS
  <2> QED BY <2>1, <1>3, <1>4 DEF Follows, OnTop
<1>7. BlockNormal(b)
  BY <1>5 DEF BlockNormal
<1>8. PayloadVerified(b)
  <2>1. Payload(<<>>) = <<>>
    BY DEF Payload
  <2>2. Total(<<>>) = 0
    <3>1. Bytes(<<>>) = 0
      BY BytesOfNone
    <3>2. [i \in DOMAIN <<>> |-> <<>>[i].len] = <<>>
      OBVIOUS
    <3> QED BY <3>1, <3>2 DEF Bytes
  <2>3. \A field : Sum(<<>>, field) = 0
    <3> TAKE field
    <3>1. [i \in DOMAIN <<>> |-> <<>>[i][field]] = <<>>
      OBVIOUS
    <3> QED BY <2>2, <3>1 DEF Sum
  <2>4. 0 <= MaxPayload /\ 0 <= MaxTxs /\ Len(<<>>) = 0
    BY TransferAssumption
  <2> QED BY <1>3, <2>1, <2>3, <2>4 DEF PayloadVerified
<1>9. TransactionsVerified(b, none)
  BY <1>5 DEF TransactionsVerified, IsInjective
<1>10. Acceptable(b, none)
  BY <1>6, <1>7, <1>8, <1>9 DEF Acceptable
<1>11. b.transactions \in Seq(Sound)
  BY <1>3
<1>12. Kept(Saved(b), none)
  BY <1>3, <1>10, <1>11, SavedIsKept
<1>13. Saved(b) = Genesis
  <2>1. Rows(<<>>) = {}
    BY DEF Rows
  <2>2. Saved(b) = With(b, Rows(b.transactions))
    BY BlockForms
  <2> QED BY <2>1, <2>2, <1>1, <1>3
<1>14. Genesis.height = 1
  BY DEF Genesis
<1> QED BY <1>12, <1>13, <1>14 DEF none

LEMMA InitInv == Init => Inv
<1> SUFFICES ASSUME Init PROVE Inv
  OBVIOUS
<1> DEFINE one == <<Genesis>>
<1>1. /\ chain = one /\ pool = <<>> /\ copy = one /\ peer = TRUE
      /\ link = Idle /\ batch = NoBatch /\ posts = {} /\ inbox = <<>>
  BY DEF Init
<1>2. one \in Seq({Genesis}) /\ Len(one) = 1 /\ one[1] = Genesis /\ SubSeq(one, 1, 1) = one
  <2> HIDE DEF Genesis
  <2>1. \A g : <<g>> \in Seq({g}) /\ Len(<<g>>) = 1 /\ <<g>>[1] = g
    OBVIOUS
  <2>2. one \in Seq({Genesis}) /\ Len(one) = 1 /\ one[1] = Genesis
    BY <2>1
  <2>3. SubSeq(one, 1, Len(one)) = one
    BY <2>2, PrefixGrows
  <2> QED BY <2>2, <2>3
<1>3. <<>> \in Seq({}) /\ Len(<<>>) = 0 /\ <<>> \in Seq(Sound)
  OBVIOUS
<1>4. IsSeq(one) /\ IsSeq(<<>>)
  BY <1>2, <1>3, SeqIsSeq
<1>5. Kept(Genesis, SubSeq(one, 1, 0))
  BY NoneIsKept
<1> HIDE DEF one
<1>6. \A h \in 1 .. 1 : h = 1 /\ h - 1 = 0
  OBVIOUS
<1>7. ChainInv
  <2>1. \A h \in 1 .. 1 : Kept(one[h], SubSeq(one, 1, h - 1))
    BY <1>2, <1>5, <1>6
  <2> QED BY <2>1, <1>1, <1>2, <1>4 DEF ChainInv, Height, Below
<1>8. CopyInv
  BY <1>1, <1>2 DEF CopyInv, Height
<1>9. LinkInv
  BY <1>1 DEF LinkInv, Idle
<1>10. BatchInv
  <2>1. NextRead(<<>>, 0)
    BY <1>3, <1>4 DEF NextRead
  <2> QED BY <2>1, <1>1 DEF BatchInv, NoBatch
<1>11. PostsInv
  BY <1>1, <1>3, <1>4, TransferAssumption DEF PostsInv
<1> QED BY <1>1, <1>3, <1>7, <1>8, <1>9, <1>10, <1>11 DEF Inv, PoolInv

(* A chain that grows keeps what it had.                                    *)
LEMMA Grown ==
  ASSUME NEW c, NEW s, IsSeq(c)
  PROVE  LET d == Append(c, s)
         IN /\ IsSeq(d) /\ Len(d) = Len(c) + 1 /\ Len(c) \in Nat
            /\ (\A h \in 1 .. Len(c) : d[h] = c[h]) /\ d[Len(c) + 1] = s
            /\ \A n \in 0 .. Len(c) : SubSeq(d, 1, n) = SubSeq(c, 1, n)
            /\ SubSeq(c, 1, Len(c)) = c
<1> DEFINE d == Append(c, s)
           S == Range(c) \cup {s}
           m == Len(c)
<1>1. c \in Seq(S) /\ m \in Nat
  BY DEF IsSeq
<1>2. IsSeq(d) /\ Len(d) = m + 1 /\ (\A i \in 1 .. m : d[i] = c[i]) /\ d[m + 1] = s
  BY AppendIsSeq
<1>3. SubSeq(c, 1, m) = c
  <2> HIDE DEF S
  <2> QED BY <1>1, PrefixGrows
<1> HIDE DEF d, S
<1>4. ASSUME NEW n \in 0 .. m PROVE SubSeq(d, 1, n) = SubSeq(c, 1, n)
  <2> DEFINE a == SubSeq(d, 1, n)
             b == SubSeq(c, 1, n)
  <2>1. n \in 0 .. Len(d) /\ n \in 0 .. Len(c) /\ n <= m
    BY <1>1, <1>2
  <2>2. /\ Len(a) = n /\ Len(b) = n /\ IsSeq(a) /\ IsSeq(b)
        /\ (\A i \in 1 .. n : a[i] = d[i]) /\ \A i \in 1 .. n : b[i] = c[i]
    BY <1>2, <2>1, PrefixIsSeq
  <2>3. \A i \in 1 .. n : i \in 1 .. m
    BY <1>1
  <2> HIDE DEF a, b
  <2> DEFINE T == Range(a) \cup Range(b)
  <2>4. a \in Seq(T) /\ b \in Seq(T)
    BY <2>2 DEF IsSeq
  <2> HIDE DEF T
  <2>5. \A i \in 1 .. Len(a) : a[i] = b[i]
    BY <1>2, <2>2, <2>3
  <2>6. a = b
    BY <2>2, <2>4, <2>5, SameSeq
  <2> QED BY <2>6 DEF a, b
<1> QED BY <1>1, <1>2, <1>3, <1>4 DEF d

LEMMA InvIs ==
  ASSUME Inv
  PROVE  /\ ChainInv /\ PoolInv /\ CopyInv /\ LinkInv /\ BatchInv /\ PostsInv /\ peer \in BOOLEAN
         /\ Height \in Nat /\ Height = Len(chain) /\ IsSeq(chain) /\ Len(copy) \in 1 .. Height
         /\ (link # Idle => batch = NoBatch) /\ (batch.blocks # <<>> => batch # NoBatch)
         /\ Len(copy) \in Nat
<1>1. ChainInv /\ CopyInv /\ LinkInv
  BY DEF Inv
<1>2. IsSeq(chain) /\ Height = Len(chain)
  BY <1>1 DEF ChainInv, Height
<1>3. Height \in Nat
  BY <1>2 DEF IsSeq
<1>4. Len(copy) \in 1 .. Height
  BY <1>1 DEF CopyInv
<1>5. Len(copy) \in Nat
  BY <1>3, <1>4
<1> QED BY <1>1, <1>2, <1>3, <1>4, <1>5 DEF Inv, LinkInv, NoBatch

(* The steps that add to the pool, or take from it.                         *)
LEMMA PoolSteps ==
  ASSUME Inv, PoolInv', UNCHANGED <<chain, client, link, posts>>
  PROVE  Inv'
BY DEF Inv, ChainInv, CopyInv, LinkInv, BatchInv, PostsInv, client, Height, Below, NextSent,
       NextRead, Posted, WasPosted

LEMMA SubmitInv ==
  ASSUME Inv, NEW o \in Offered, Submit(o)
  PROVE  Inv'
<1> DEFINE tx == Wallet(o, Height)
<1>1. /\ Normal(tx) /\ Verified(tx, Height, Height) /\ Pooled(tx)
      /\ UNCHANGED <<chain, client, link, posts>>
  BY DEF Submit
<1>2. TypeValid(tx)
  BY <1>1 DEF Verified
<1>3. tx \in Sound
  BY <1>1, <1>2, WalletIsSound
<1>4. pool \in Seq(Sound) /\ pool' = Append(pool, tx)
  BY <1>1 DEF Inv, PoolInv, Pooled
<1> HIDE DEF tx
<1>5. PoolInv'
  BY <1>3, <1>4 DEF PoolInv
<1> QED BY <1>1, <1>5, PoolSteps

LEMMA SubmitByClientInv ==
  ASSUME Inv, NEW o \in Offered, SubmitByClient(o)
  PROVE  Inv'
<1> DEFINE sent == Wallet(o, Len(copy))
           tx == Decoded(FullBytes(sent), Height)
<1>1. /\ Normal(sent) /\ Verified(sent, Len(copy), Len(copy)) /\ ~Unreadable(FullBytes(sent))
      /\ Pooled(tx) /\ UNCHANGED <<chain, client, link, posts>>
  BY DEF SubmitByClient
<1>2. TypeValid(sent)
  BY <1>1 DEF Verified
<1>3. sent \in Sound
  BY <1>1, <1>2, WalletIsSound
<1> HIDE DEF sent
<1>4. tx \in Sound
  <2>1. CASE sent.kind \in Old
    BY <1>1, <1>3, <2>1, OldIsDecoded
  <2>2. CASE sent.kind \notin Old
    <3> DEFINE asset == IF sent.kind = "send" THEN <<>> ELSE Arranged(sent).asset
               d == [sent EXCEPT !.asset = asset]
    <3>1. tx = d /\ d \in Sound
      BY <1>2, <1>3, <2>2, NewIsDecoded
    <3> HIDE DEF d, tx
    <3> QED BY <3>1
  <2> QED BY <2>1, <2>2
<1>5. pool \in Seq(Sound) /\ pool' = Append(pool, tx)
  BY <1>1 DEF Inv, PoolInv, Pooled
<1> HIDE DEF tx
<1>6. PoolInv'
  BY <1>4, <1>5 DEF PoolInv
<1> QED BY <1>1, <1>6, PoolSteps

LEMMA ExpireInv ==
  ASSUME Inv, NEW i \in DOMAIN pool, Expire(i)
  PROVE  Inv'
<1>1. pool' = RemoveAt(pool, i) /\ UNCHANGED <<chain, client, link, posts>>
  BY DEF Expire
<1>2. pool \in Seq(Sound) /\ i \in 1 .. Len(pool)
  BY DEF Inv, PoolInv
<1> DEFINE a == SubSeq(pool, 1, i - 1)
           b == SubSeq(pool, i + 1, Len(pool))
<1>3. a \in Seq(Sound)
  BY <1>2
<1>4. b \in Seq(Sound)
  BY <1>2
<1>5. pool' = a \o b
  BY <1>1 DEF RemoveAt
<1> HIDE DEF a, b
<1>6. PoolInv'
  BY <1>3, <1>4, <1>5 DEF PoolInv
<1> QED BY <1>1, <1>6, PoolSteps

(* Forging.                                                                 *)
LEMMA CreateIs ==
  ASSUME NEW previous, NEW txs \in Seq(Sound)
  PROVE  Shape(Create(previous, txs)) /\ Create(previous, txs).transactions \in Seq(Sound)
<1> DEFINE taken == Fitting(txs)
           fits == {k \in 0 .. Len(txs) : SizeOf(SubSeq(txs, 1, k)) <= MaxPayload}
           h == previous.height + 1
           n == Len(taken)
           l == SizeOf(taken)
           p == Payload(taken)
           a == Sum(taken, "amount")
           f == Sum(taken, "fee")
<1>1. Create(previous, txs) = Fields(h, n, l, p, a, f, taken)
  BY DEF Create, Fields
<1>2. taken \in Seq(Sound)
  <2>1. Len(txs) \in Nat
    OBVIOUS
  <2>2. SizeOf(<<>>) = 0
    <3>1. Bytes(<<>>) = 0
      BY BytesOfNone
    <3>2. [i \in DOMAIN <<>> |-> <<>>[i].len] = <<>> /\ [i \in DOMAIN <<>> |-> Size(<<>>[i])] = <<>>
      OBVIOUS
    <3> QED BY <3>1, <3>2 DEF Bytes, SizeOf
  <2>3. 0 \in fits
    <3>1. SubSeq(txs, 1, 0) = <<>> /\ 0 \in 0 .. Len(txs)
      BY <2>1
    <3>2. 0 <= MaxPayload
      BY TransferAssumption
    <3> QED BY <2>2, <3>1, <3>2
  <2>4. fits \in SUBSET (0 .. Len(txs)) /\ fits # {}
    BY <2>3
  <2>5. taken = SubSeq(txs, 1, Max(fits))
    BY DEF Fitting
  <2> HIDE DEF fits, taken
  <2>6. Max(fits) \in 0 .. Len(txs)
    BY <2>1, <2>4, MaxUpTo
  <2> DEFINE m == Max(fits)
  <2> HIDE DEF m
  <2>7. m \in Int /\ m <= Len(txs)
    BY <2>1, <2>6 DEF m
  <2>8. SubSeq(txs, 0 + 1, m) \in Seq(Sound)
    BY <2>7, SubSeqIs
  <2> QED BY <2>5, <2>8 DEF m
<1> HIDE DEF taken, h, n, l, p, a, f
<1> QED BY <1>1, <1>2, FieldsShape

LEMMA ForgeInv ==
  ASSUME Inv, Forge
  PROVE  Inv'
<1> DEFINE first == SubSeq(pool, 1, Min({MaxTxs, Len(pool)}))
           ready == Among(first, {tx \in ToSet(first) : Verified(tx, Height, Height)})
           block == Create(chain[Height], ready)
           s == Saved(block)
           left == {tx \in ToSet(pool) : FullBytes(tx) \notin Range(block.payload)}
<1>1. /\ Acceptable(block, chain) /\ chain' = Append(chain, s) /\ pool' = Among(pool, left)
      /\ posts' = {Encoded(block)} /\ UNCHANGED <<client, link, counts>>
  BY DEF Forge
<1>2. pool \in Seq(Sound)
  BY DEF Inv, PoolInv
<1>3. first \in Seq(Sound)
  <2> DEFINE m == Min({MaxTxs, Len(pool)})
  <2>1. m \in Int /\ m <= Len(pool)
    <3>1. MaxTxs \in Nat /\ Len(pool) \in Nat
      BY <1>2, TransferAssumption
    <3> QED BY <3>1, MinOfTwo
  <2> HIDE DEF m
  <2>2. SubSeq(pool, 0 + 1, m) \in Seq(Sound)
    BY <1>2, <2>1, SubSeqIs
  <2> QED BY <2>2 DEF m
<1> HIDE DEF first
<1>4. ready \in Seq(Sound)
  BY <1>3, AmongType
<1> HIDE DEF ready
<1>5. Shape(block) /\ block.transactions \in Seq(Sound)
  BY <1>4, CreateIs
<1> HIDE DEF block, left
<1>6. Kept(s, chain)
  BY <1>1, <1>5, SavedIsKept
<1>7. Encoded(block) = OnWire(s)
  <2>1. Payload(block.transactions) = block.payload
    BY <1>1, <1>5, AcceptedIs
  <2>2. s = With(block, Rows(block.transactions)) /\ Encoded(block) = With(block, block.payload)
    BY <2>1, BlockForms
  <2> HIDE DEF s
  <2>3. s.payload = block.payload /\ With(s, block.payload) = With(block, block.payload)
    BY <1>5, <2>2, WithIs
  <2> QED BY <2>2, <2>3 DEF OnWire
<1> HIDE DEF s
<1>8. Height \in Nat /\ Height = Len(chain) /\ IsSeq(chain) /\ Len(copy) \in 1 .. Height
  BY InvIs
<1>9. /\ IsSeq(chain') /\ Height' = Height + 1 /\ (\A h \in 1 .. Height : chain'[h] = chain[h])
      /\ chain'[Height + 1] = s
      /\ (\A n \in 0 .. Height : SubSeq(chain', 1, n) = SubSeq(chain, 1, n))
      /\ SubSeq(chain, 1, Height) = chain
  BY <1>1, <1>8, Grown DEF Height
<1>10. \A h \in 1 .. Height : h \in 1 .. Height' /\ h - 1 \in 0 .. Height
  BY <1>8, <1>9
<1>11. ChainInv'
  <2>1. ASSUME NEW h \in 1 .. Height' PROVE Kept(chain'[h], SubSeq(chain', 1, h - 1))
    <3>1. CASE h \in 1 .. Height
      <4>1. Kept(chain[h], SubSeq(chain, 1, h - 1))
        BY <3>1 DEF Inv, ChainInv, Below
      <4> QED BY <4>1, <3>1, <1>9, <1>10
    <3>2. CASE h = Height + 1
      <4>1. h - 1 = Height /\ Height \in 0 .. Height
        BY <3>2, <1>8
      <4> QED BY <4>1, <3>2, <1>6, <1>9
    <3>3. h \in 1 .. Height \/ h = Height + 1
      BY <1>8, <1>9
    <3> QED BY <3>1, <3>2, <3>3
  <2>2. Height' >= 1
    BY <1>8, <1>9
  <2> QED BY <2>1, <2>2, <1>9 DEF ChainInv, Below
<1>12. PoolInv'
  BY <1>1, <1>2, AmongType DEF PoolInv
<1>13. CopyInv'
  <2>1. copy' = copy /\ copy = SubSeq(chain, 1, Len(copy))
    BY <1>1 DEF client, Inv, CopyInv
  <2>2. Len(copy) \in 1 .. Height' /\ Len(copy) \in 0 .. Height
    BY <1>8, <1>10
  <2> QED BY <2>1, <2>2, <1>9 DEF CopyInv
<1>14. copy' = copy /\ link' = link /\ batch' = batch /\ inbox' = inbox /\ peer' = peer
  BY <1>1 DEF client
<1>15. LinkInv'
  <2>1. NextSent(link.blocks) => NextSent(link.blocks)'
    BY <1>9, <1>10, <1>14 DEF NextSent
  <2>2. LinkInv
    BY DEF Inv
  <2> QED BY <2>1, <2>2, <1>14 DEF LinkInv
<1>16. BatchInv'
  <2>1. NextRead(batch.blocks, batch.height) => NextRead(batch.blocks, batch.height)'
    BY <1>9, <1>10, <1>14 DEF NextRead
  <2>2. BatchInv
    BY DEF Inv
  <2> QED BY <2>1, <2>2, <1>14 DEF BatchInv
<1>17. PostsInv'
  <2>1. ASSUME NEW w \in posts' PROVE Posted(w)'
    <3>1. w = OnWire(chain'[Height + 1]) /\ Height + 1 \in 1 .. Height'
      BY <1>1, <1>7, <1>8, <1>9
    <3> QED BY <3>1 DEF Posted
  <2>2. PostsInv
    BY DEF Inv
  <2>3. \A i \in 1 .. Len(inbox) : WasPosted(inbox[i]) => WasPosted(inbox[i])'
    BY <1>9, <1>10, <1>14 DEF WasPosted
  <2>4. IsSeq(inbox') /\ Len(inbox') <= MaxInbox /\ \A i \in 1 .. Len(inbox') : WasPosted(inbox[i])'
    BY <2>2, <2>3, <1>14 DEF PostsInv
  <2> QED BY <2>1, <2>4, <1>14 DEF PostsInv
<1>18. peer' \in BOOLEAN
  BY <1>14 DEF Inv
<1> QED BY <1>11, <1>12, <1>13, <1>15, <1>16, <1>17, <1>18 DEF Inv

(* Asking and answering.                                                    *)
LEMMA RequestInv ==
  ASSUME Inv, Request
  PROVE  Inv'
<1>1. /\ link = Idle /\ batch = NoBatch /\ UNCHANGED <<chain, pool, client, posts, counts>>
      /\ link' = [at |-> "asked", last |-> Len(copy), blocks |-> <<>>]
  BY DEF Request, Syncing, Idle
<1>2. LinkInv'
  BY <1>1 DEF LinkInv, client
<1>3. ChainInv' /\ PoolInv' /\ CopyInv' /\ PostsInv' /\ (peer \in BOOLEAN)' /\ BatchInv'
  BY <1>1 DEF Inv, ChainInv, PoolInv, CopyInv, BatchInv, PostsInv, client, Height, Below, NextRead,
              Posted, WasPosted
<1> QED BY <1>2, <1>3 DEF Inv

LEMMA RespondInv ==
  ASSUME Inv, Respond
  PROVE  Inv'
<1> DEFINE wires == HandleRequest(link.last)
<1>1. /\ link.at = "asked" /\ link' = [link EXCEPT !.at = "answered", !.blocks = wires]
      /\ UNCHANGED <<chain, pool, client, posts, counts>>
  BY DEF Respond
<1>2. link # Idle
  BY <1>1 DEF Idle
<1>3. link = [at |-> link.at, last |-> link.last, blocks |-> link.blocks]
      /\ link.last = Len(copy) /\ batch = NoBatch
  BY <1>2 DEF Inv, LinkInv
<1>4. NextSent(wires)
  <2>1. Len(copy) \in Nat /\ ChainInv
    BY InvIs
  <2> DEFINE last == Len(copy)
  <2>2. last \in Nat
    BY <2>1
  <2> HIDE DEF last
  <2>3. IsSeq(HandleRequest(last)) /\ \A i \in 1 .. Len(HandleRequest(last)) :
          last + i \in 1 .. Height /\ HandleRequest(last)[i] = OnWire(chain[last + i])
    BY <2>1, <2>2, AnswerIs
  <2> QED BY <2>3, <1>3 DEF NextSent, last
<1> HIDE DEF wires
<1>5. link' = [at |-> "answered", last |-> link.last, blocks |-> wires]
  BY <1>1, <1>3
<1>6. link'.at = "answered" /\ link'.last = link.last /\ link'.blocks = wires
  BY <1>5
<1>7. LinkInv'
  BY <1>1, <1>3, <1>4, <1>5, <1>6 DEF LinkInv, client, NextSent, Height
<1>8. ChainInv' /\ PoolInv' /\ CopyInv' /\ PostsInv' /\ (peer \in BOOLEAN)' /\ BatchInv'
  BY <1>1 DEF Inv, ChainInv, PoolInv, CopyInv, BatchInv, PostsInv, client, Height, Below, NextRead,
              Posted, WasPosted
<1> QED BY <1>7, <1>8 DEF Inv

LEMMA NoneIsSeq == IsSeq(<<>>) /\ 1 .. Len(<<>>) = {}
<1>1. <<>> \in Seq({})
  OBVIOUS
<1>2. 1 .. Len(<<>>) = {}
  OBVIOUS
<1> QED BY <1>1, <1>2, SeqIsSeq

LEMMA ReceiveInv ==
  ASSUME Inv, Receive
  PROVE  Inv'
<1> DEFINE wires == link.blocks
           k == Len(copy)
           blocks == [i \in DOMAIN wires |-> BlockDecoded(wires[i], k)]
<1>1. /\ link.at = "answered" /\ link' = Idle /\ batch' = HandleResponse(wires, k)
      /\ UNCHANGED <<chain, pool, copy, peer, posts, inbox, counts>>
  BY DEF Receive
<1>2. NextSent(wires)
  BY <1>1 DEF Inv, LinkInv
<1>3. BatchInv'
  <2>1. CASE \A i \in DOMAIN wires : Readable(wires[i])
    <3>1. batch' = [blocks |-> blocks, height |-> k]
      BY <1>1, <2>1 DEF HandleResponse
    <3> DEFINE n == Len(wires)
    <3>2. DOMAIN wires = 1 .. n /\ n \in Nat
      BY <1>2 DEF NextSent, IsSeq
    <3>3. blocks = [i \in 1 .. n |-> BlockDecoded(wires[i], k)]
      BY <3>2
    <3>4. IsSeq(blocks) /\ Len(blocks) = n /\ \A i \in 1 .. n : blocks[i] = BlockDecoded(wires[i], k)
      <4> DEFINE W == {BlockDecoded(wires[i], k) : i \in 1 .. n}
      <4> HIDE DEF n, k
      <4>1. blocks \in [1 .. n -> W] /\ \A i \in 1 .. n : blocks[i] = BlockDecoded(wires[i], k)
        BY <3>3
      <4> HIDE DEF W, blocks
      <4>2. blocks \in Seq(W) /\ Len(blocks) = n
        BY <3>2, <4>1
      <4> QED BY <4>1, <4>2, SeqIsSeq
    <3> HIDE DEF blocks, n
    <3>5. NextRead(blocks, k)
      <4>1. \A i \in 1 .. n : /\ k + i \in 1 .. Height /\ wires[i] = OnWire(chain[k + i])
                              /\ Readable(wires[i])
        BY <1>2, <2>1, <3>2 DEF NextSent, n
      <4> QED BY <3>4, <4>1 DEF NextRead, k
    <3>6. batch'.blocks = blocks /\ batch'.height = k
      BY <3>1
    <3>7. copy' = copy /\ chain' = chain
      BY <1>1
    <3>8. IsSeq(batch'.blocks) /\ \A i \in 1 .. Len(batch'.blocks) :
            /\ Len(copy') + i \in 1 .. Len(chain') /\ Readable(OnWire(chain'[Len(copy') + i]))
            /\ batch'.blocks[i] = BlockDecoded(OnWire(chain'[Len(copy') + i]), batch'.height)
      BY <3>5, <3>6, <3>7 DEF NextRead, Height
    <3> QED BY <3>1, <3>6, <3>8 DEF BatchInv, NextRead, Height
  <2>2. CASE ~(\A i \in DOMAIN wires : Readable(wires[i]))
    <3>1. batch' = NoBatch
      BY <1>1, <2>2 DEF HandleResponse
    <3> QED BY <3>1, NoneIsSeq DEF BatchInv, NextRead, NoBatch
  <2> QED BY <2>1, <2>2
<1>4. LinkInv'
  BY <1>1 DEF LinkInv, Idle
<1>5. ChainInv' /\ PoolInv' /\ CopyInv' /\ PostsInv' /\ (peer \in BOOLEAN)'
  BY <1>1 DEF Inv, ChainInv, PoolInv, CopyInv, PostsInv, Height, Below, Posted, WasPosted
<1> QED BY <1>3, <1>4, <1>5 DEF Inv

(* The steps that leave what there is, or forget it.                        *)
LEMMA ForgetInv ==
  ASSUME Inv, UNCHANGED <<chain, pool, copy, posts, inbox>>, peer' \in BOOLEAN,
         \/ link' = Idle /\ batch' = batch
         \/ link' = link /\ batch' = NoBatch
         \/ link' = link /\ batch' = batch
  PROVE  Inv'
<1>1. ChainInv' /\ PoolInv' /\ CopyInv' /\ PostsInv'
  BY DEF Inv, ChainInv, PoolInv, CopyInv, PostsInv, Height, Below, Posted, WasPosted
<1>2. LinkInv'
  <2>1. CASE link' = Idle
    BY <2>1 DEF LinkInv, Idle
  <2>2. CASE link' = link /\ (batch' = NoBatch \/ batch' = batch)
    BY <2>2 DEF Inv, LinkInv, NextSent, Height
  <2> QED BY <2>1, <2>2
<1>3. BatchInv'
  <2>1. CASE batch' = NoBatch
    <3> QED BY <2>1, NoneIsSeq DEF BatchInv, NextRead, NoBatch
  <2>2. CASE batch' = batch
    BY <2>2 DEF Inv, BatchInv, NextRead, Height
  <2> QED BY <2>1, <2>2
<1> QED BY <1>1, <1>2, <1>3 DEF Inv

LEMMA ForgettingInv ==
  ASSUME Inv, Lose \/ Refuse \/ EndOfBatch \/ Rediscover
  PROVE  Inv'
<1>1. peer \in BOOLEAN
  BY DEF Inv
<1>2. CASE Lose
  BY <1>2, ForgetInv DEF Lose
<1>3. CASE Refuse
  BY <1>3, ForgetInv DEF Refuse
<1>4. CASE EndOfBatch
  BY <1>1, <1>4, ForgetInv DEF EndOfBatch
<1>5. CASE Rediscover
  BY <1>5, ForgetInv DEF Rediscover
<1> QED BY <1>2, <1>3, <1>4, <1>5

(* Taking a block.                                                          *)
LEMMA AcceptedNext ==
  ASSUME Inv, NEW h \in 1 .. Height, NEW k, Readable(OnWire(chain[h])),
         Acceptable(BlockDecoded(OnWire(chain[h]), k), copy)
  PROVE  h = Len(copy) + 1 /\ Saved(BlockDecoded(OnWire(chain[h]), k)) = chain[h]
<1> DEFINE b == BlockDecoded(OnWire(chain[h]), k)
           n == Len(copy)
           s == chain[h]
           x == [i \in 1 .. Len(Read(s).transactions) |->
                   Decoded(FullBytes(Read(s).transactions[i]), k)]
<1>1. Kept(s, Below(h)) /\ s.height = h
  BY InvIs, KeptBelow
<1>2. b = With(s, x)
  BY <1>1, WireIs
<1> HIDE DEF x
<1>3. b.height = h
  BY <1>1, <1>2, WithIs DEF Kept
<1> HIDE DEF b, s
<1>4. Acceptable(b, copy) /\ Readable(OnWire(s))
  BY DEF b, s
<1>5. b.height = n + 1
  BY <1>4 DEF Acceptable, Follows, OnTop
<1>6. Below(h) = copy
  <2>1. n \in Nat /\ copy = SubSeq(chain, 1, n)
    BY InvIs DEF CopyInv
  <2> HIDE DEF n
  <2>2. h - 1 = n
    BY <1>3, <1>5, <2>1
  <2> QED BY <2>1, <2>2 DEF Below
<1>7. Saved(b) = s
  BY <1>1, <1>4, <1>6, AcceptedIsSaved DEF b, s
<1> QED BY <1>3, <1>5, <1>7 DEF b, s

LEMMA CopyGrows ==
  ASSUME Inv, Len(copy) + 1 \in 1 .. Height, chain' = chain,
         copy' = Append(copy, chain[Len(copy) + 1])
  PROVE  CopyInv' /\ Len(copy') = Len(copy) + 1
<1> DEFINE n == Len(copy)
           m == n + 1
           S == Range(chain)
<1>1. IsSeq(chain) /\ Height = Len(chain) /\ Height \in Nat /\ n \in Nat /\ copy = SubSeq(chain, 1, n)
  BY InvIs DEF CopyInv
<1>2. chain \in Seq(S)
  BY <1>1 DEF IsSeq
<1> HIDE DEF S
<1>3. m \in 1 .. Len(chain) /\ m \in 0 .. Len(chain) /\ m - 1 = n
  BY <1>1
<1>4. SubSeq(chain, 1, m) = Append(SubSeq(chain, 1, m - 1), chain[m])
  BY <1>2, <1>3, PrefixGrows
<1>5. copy' = SubSeq(chain, 1, m)
  <2> HIDE DEF m
  <2>1. copy' = Append(SubSeq(chain, 1, m - 1), chain[m])
    BY <1>1, <1>3 DEF m
  <2> QED BY <1>4, <2>1
<1>6. Len(copy') = m
  BY <1>1, <1>3, <1>5, PrefixIsSeq
<1>7. m \in 1 .. Height
  BY <1>1, <1>3
<1> QED BY <1>5, <1>6, <1>7 DEF CopyInv, Height

LEMMA AcceptInv ==
  ASSUME Inv, Accept
  PROVE  Inv'
<1> DEFINE blocks == batch.blocks
           b == Head(blocks)
           n == Len(copy)
           rest == Tail(blocks)
<1>1. /\ blocks # <<>> /\ Acceptable(b, copy) /\ copy' = Append(copy, Saved(b))
      /\ batch' = [batch EXCEPT !.blocks = rest]
      /\ UNCHANGED <<chain, pool, peer, link, posts, inbox, counts>>
  BY DEF Accept, Rest
<1>2. NextRead(blocks, batch.height) /\ batch = [blocks |-> blocks, height |-> batch.height]
  BY DEF Inv, BatchInv
<1>3. link = Idle /\ n \in Nat /\ Height \in Nat
  BY <1>1, InvIs
<1> DEFINE S == Range(blocks)
<1>4. blocks \in Seq(S)
  BY <1>2 DEF NextRead, IsSeq
<1> HIDE DEF S
<1>5. b = blocks[1] /\ 1 \in 1 .. Len(blocks)
  BY <1>1, <1>4
<1>6. /\ n + 1 \in 1 .. Height /\ Readable(OnWire(chain[n + 1]))
      /\ b = BlockDecoded(OnWire(chain[n + 1]), batch.height)
  BY <1>2, <1>5 DEF NextRead
<1> HIDE DEF b
<1>7. Saved(b) = chain[n + 1]
  <2> DEFINE h == n + 1
  <2>1. h \in 1 .. Height /\ Readable(OnWire(chain[h])) /\ b = BlockDecoded(OnWire(chain[h]), batch.height)
    BY <1>6
  <2> HIDE DEF h
  <2>2. Acceptable(BlockDecoded(OnWire(chain[h]), batch.height), copy)
    BY <1>1, <2>1
  <2>3. Saved(BlockDecoded(OnWire(chain[h]), batch.height)) = chain[h]
    BY <2>1, <2>2, AcceptedNext
  <2> QED BY <2>1, <2>3 DEF h
<1>8. CopyInv' /\ Len(copy') = n + 1
  BY <1>1, <1>6, <1>7, CopyGrows
<1>9. /\ IsSeq(rest)
      /\ \A i \in 1 .. Len(rest) : rest[i] = blocks[i + 1] /\ i + 1 \in 1 .. Len(blocks) /\ i \in Nat
  <2>1. /\ IsSeq(rest)
        /\ \A i \in 1 .. Len(rest) : rest[i] = blocks[i + 1] /\ i + 1 \in 1 .. Len(blocks)
    BY <1>1, <1>4, TailIs, SeqIsSeq
  <2> DEFINE l == Len(rest)
  <2>2. l \in Nat
    BY <2>1 DEF IsSeq
  <2> HIDE DEF l
  <2>3. \A i \in 1 .. l : i \in Nat
    BY ONLY <2>2
  <2> QED BY <2>1, <2>3 DEF l
<1> HIDE DEF rest, n
<1>10. batch'.blocks = rest /\ batch'.height = batch.height
       /\ batch' = [blocks |-> rest, height |-> batch.height]
  BY <1>1, <1>2
<1>11. BatchInv'
  <2>1. ASSUME NEW i \in 1 .. Len(rest)
        PROVE  /\ Len(copy') + i \in 1 .. Height /\ Readable(OnWire(chain[Len(copy') + i]))
               /\ rest[i] = BlockDecoded(OnWire(chain[Len(copy') + i]), batch.height)
    <3> DEFINE l == Len(copy')
    <3>1. l = n + 1 /\ i \in Nat /\ rest[i] = blocks[i + 1] /\ i + 1 \in 1 .. Len(blocks)
      BY <1>8, <1>9
    <3> HIDE DEF l
    <3>2. l + i = n + (i + 1)
      BY ONLY <3>1, <1>3
    <3>3. /\ n + (i + 1) \in 1 .. Height /\ Readable(OnWire(chain[n + (i + 1)]))
          /\ blocks[i + 1] = BlockDecoded(OnWire(chain[n + (i + 1)]), batch.height)
      BY <1>2, <3>1 DEF NextRead, n
    <3> QED BY <3>1, <3>2, <3>3 DEF l
  <2>2. chain' = chain
    BY <1>1
  <2> QED BY <1>9, <1>10, <2>1, <2>2 DEF BatchInv, NextRead, Height
<1>12. LinkInv'
  BY <1>1, <1>3 DEF LinkInv, Idle
<1>13. ChainInv' /\ PoolInv' /\ (peer \in BOOLEAN)'
  BY <1>1 DEF Inv, ChainInv, PoolInv, Height, Below
<1>14. PostsInv'
  <2>1. chain' = chain /\ posts' = posts /\ inbox' = inbox
    BY <1>1
  <2> QED BY <2>1 DEF Inv, PostsInv, Posted, WasPosted, Height
<1> QED BY <1>8, <1>11, <1>12, <1>13, <1>14 DEF Inv

LEMMA PostArrivesInv ==
  ASSUME Inv, NEW wire \in posts, PostArrives(wire)
  PROVE  Inv'
<1> DEFINE b == BlockDecoded(wire, Len(copy))
<1>1. /\ Len(inbox) < MaxInbox /\ posts' = posts \ {wire}
      /\ inbox' = IF Readable(wire) /\ BlockNormal(b) THEN Append(inbox, b) ELSE inbox
      /\ UNCHANGED <<chain, pool, copy, peer, batch, link, counts>>
  BY DEF PostArrives
<1>2. /\ (\A w \in posts : Posted(w)) /\ IsSeq(inbox) /\ Len(inbox) <= MaxInbox
      /\ \A i \in 1 .. Len(inbox) : WasPosted(inbox[i])
  BY DEF Inv, PostsInv
<1>3. Len(copy) \in 1 .. Height
  BY InvIs
<1>4. Readable(wire) => WasPosted(b)
  <2>1. PICK h \in 1 .. Height : wire = OnWire(chain[h])
    BY <1>2 DEF Posted
  <2> QED BY <2>1, <1>3 DEF WasPosted
<1> HIDE DEF b
<1>5. IsSeq(inbox') /\ Len(inbox') <= MaxInbox /\ \A i \in 1 .. Len(inbox') : WasPosted(inbox'[i])
  <2>1. CASE inbox' = inbox
    BY <1>2, <2>1
  <2>2. CASE Readable(wire) /\ inbox' = Append(inbox, b)
    <3> DEFINE n == Len(inbox)
    <3>1. /\ IsSeq(inbox') /\ Len(inbox') = n + 1 /\ n \in Nat
          /\ (\A i \in 1 .. n : inbox'[i] = inbox[i]) /\ inbox'[n + 1] = b
      BY <1>2, <2>2, Grown
    <3>2. n < MaxInbox /\ MaxInbox \in Nat
      BY <1>1, TransferAssumption
    <3>3. \A i \in 1 .. n : WasPosted(inbox'[i])
      BY <1>2, <3>1
    <3> DEFINE l == Len(inbox')
    <3>4. l = n + 1 /\ n \in Nat /\ n < MaxInbox /\ MaxInbox \in Nat
      BY <3>1, <3>2
    <3> HIDE DEF n, l
    <3>5. l <= MaxInbox /\ \A i \in 1 .. l : i \in 1 .. n \/ i = n + 1
      BY ONLY <3>4
    <3>6. \A i \in 1 .. l : WasPosted(inbox'[i])
      BY <3>1, <3>3, <3>5, <1>4, <2>2
    <3> QED BY <3>1, <3>5, <3>6 DEF l
  <2> QED BY <1>1, <2>1, <2>2
<1>6. PostsInv'
  <2>1. chain' = chain
    BY <1>1
  <2>2. (\A w \in posts' : Posted(w)) /\ Height' = Height
    BY <1>1, <1>2, <2>1 DEF Height
  <2> QED BY <1>5, <2>1, <2>2 DEF PostsInv, Posted, WasPosted
<1>7. ChainInv' /\ PoolInv' /\ CopyInv' /\ (peer \in BOOLEAN)'
  BY <1>1 DEF Inv, ChainInv, PoolInv, CopyInv, Height, Below
<1>8. LinkInv' /\ BatchInv'
  BY <1>1 DEF Inv, LinkInv, BatchInv, NextSent, NextRead, Height
<1> QED BY <1>6, <1>7, <1>8 DEF Inv

LEMMA PostProcessedInv ==
  ASSUME Inv, PostProcessed
  PROVE  Inv'
<1> DEFINE b == Head(inbox)
           n == Len(copy)
           taken == ~Syncing /\ Acceptable(b, copy)
<1>1. /\ inbox # <<>> /\ inbox' = Tail(inbox)
      /\ copy' = IF taken THEN Append(copy, Saved(b)) ELSE copy
      /\ UNCHANGED <<chain, pool, peer, batch, link, posts, counts>>
  BY DEF PostProcessed
<1>2. /\ (\A w \in posts : Posted(w)) /\ IsSeq(inbox) /\ Len(inbox) <= MaxInbox
      /\ \A i \in 1 .. Len(inbox) : WasPosted(inbox[i])
  BY DEF Inv, PostsInv
<1> DEFINE S == Range(inbox)
<1>3. inbox \in Seq(S)
  BY <1>2 DEF IsSeq
<1> HIDE DEF S
<1>4. b = inbox[1] /\ 1 \in 1 .. Len(inbox)
  BY <1>1, <1>3
<1>5. WasPosted(b)
  BY <1>2, <1>4
<1> HIDE DEF b
<1>6. PICK h \in 1 .. Height, k \in 1 .. Height :
        Readable(OnWire(chain[h])) /\ b = BlockDecoded(OnWire(chain[h]), k)
  BY <1>5 DEF WasPosted
<1>7. taken => h = n + 1 /\ Saved(b) = chain[h]
  BY <1>6, AcceptedNext
<1>8. CopyInv'
  <2>1. CASE taken
    <3>1. n + 1 \in 1 .. Height /\ copy' = Append(copy, chain[n + 1])
      BY <1>1, <1>6, <1>7, <2>1
    <3> QED BY <1>1, <3>1, CopyGrows
  <2>2. CASE ~taken
    <3>1. copy' = copy /\ chain' = chain
      BY <1>1, <2>2
    <3> QED BY <3>1 DEF Inv, CopyInv, Height
  <2> QED BY <2>1, <2>2
<1>9. LinkInv' /\ BatchInv'
  <2>1. CASE taken
    <3>1. link' = Idle /\ batch' = NoBatch
      BY <1>1, <2>1 DEF Syncing
    <3> QED BY <3>1, NoneIsSeq DEF LinkInv, BatchInv, NextRead, Idle, NoBatch
  <2>2. CASE ~taken
    <3>1. copy' = copy
      BY <1>1, <2>2
    <3> QED BY <1>1, <3>1 DEF Inv, LinkInv, BatchInv, NextSent, NextRead, Height
  <2> QED BY <2>1, <2>2
<1>10. PostsInv'
  <2> DEFINE rest == Tail(inbox)
             m == Len(rest)
  <2>1. /\ IsSeq(rest)
        /\ \A i \in 1 .. m : rest[i] = inbox[i + 1] /\ i + 1 \in 1 .. Len(inbox)
    BY <1>1, <1>3, TailIs, SeqIsSeq
  <2>2. m <= MaxInbox
    <3>1. m = Len(inbox) - 1 /\ Len(inbox) \in Nat
      BY <1>1, <1>3
    <3> DEFINE l == Len(inbox)
    <3>2. l <= MaxInbox /\ m = l - 1 /\ l \in Nat /\ MaxInbox \in Nat
      BY <1>2, <3>1, TransferAssumption
    <3> HIDE DEF m, l
    <3> QED BY ONLY <3>2
  <2>3. \A i \in 1 .. m : WasPosted(rest[i])
    BY <1>2, <2>1
  <2> HIDE DEF rest
  <2>4. inbox' = rest /\ posts' = posts /\ chain' = chain
    BY <1>1 DEF rest
  <2> QED BY <1>2, <2>1, <2>2, <2>3, <2>4 DEF PostsInv, Posted, WasPosted, Height
<1>11. ChainInv' /\ PoolInv' /\ (peer \in BOOLEAN)'
  BY <1>1 DEF Inv, ChainInv, PoolInv, Height, Below
<1> QED BY <1>8, <1>9, <1>10, <1>11 DEF Inv

LEMMA StepInv == Inv /\ [Next]_vars => Inv'
<1> SUFFICES ASSUME Inv, [Next]_vars PROVE Inv'
  OBVIOUS
<1>1. CASE \E o \in Offered : Submit(o) \/ SubmitByClient(o)
  BY <1>1, SubmitInv, SubmitByClientInv
<1>2. CASE \E i \in DOMAIN pool : Expire(i)
  BY <1>2, ExpireInv
<1>3. CASE Forge
  BY <1>3, ForgeInv
<1>4. CASE Request \/ Respond \/ Receive
  BY <1>4, RequestInv, RespondInv, ReceiveInv
<1>5. CASE Lose \/ Refuse \/ EndOfBatch \/ Rediscover
  BY <1>5, ForgettingInv
<1>6. CASE Accept
  BY <1>6, AcceptInv
<1>7. CASE \E wire \in posts : PostArrives(wire)
  BY <1>7, PostArrivesInv
<1>8. CASE PostProcessed
  BY <1>8, PostProcessedInv
<1>9. CASE UNCHANGED vars
  <2>1. PoolInv'
    BY <1>9 DEF vars, Inv, PoolInv
  <2> QED BY <1>9, <2>1, PoolSteps DEF vars
<1> QED BY <1>1, <1>2, <1>3, <1>4, <1>5, <1>6, <1>7, <1>8, <1>9 DEF Next

THEOREM SpecInv == Spec => []Inv
BY InitInv, StepInv, PTL DEF Spec

-----------------------------------------------------------------------------
(* The blocks of the server are in the order of their heights and within    *)
(* maxPayloadLength and maxTxsPerBlock, with the transactions they count,   *)
(* and the client never has more blocks than the server (Transfer.TypeOK).  *)
THEOREM TypesAreRight == Spec => []TypeOK
<1>1. ASSUME Inv PROVE TypeOK
  <2>1. ASSUME NEW i \in 1 .. Height
        PROVE  /\ chain[i].height = i
               /\ chain[i].length <= MaxPayload /\ chain[i].number <= MaxTxs
               /\ chain[i].number = Cardinality(chain[i].transactions)
    <3>1. Kept(chain[i], Below(i)) /\ chain[i].height = i
      BY <1>1, InvIs, KeptBelow
    <3> QED BY <3>1, KeptIs
  <2>2. Len(copy) \in 1 .. Height /\ peer \in BOOLEAN
    BY <1>1, InvIs
  <2>3. link.at \in {"idle", "asked", "answered"}
    BY <1>1 DEF Inv, LinkInv, Idle
  <2>4. Len(inbox) <= MaxInbox
    BY <1>1 DEF Inv, PostsInv
  <2> QED BY <2>1, <2>2, <2>3, <2>4 DEF TypeOK
<1> QED BY <1>1, SpecInv, PTL

(* The rows of the client are those of the server, field by field, for any  *)
(* fees, offers and bounds: whether a block was asked for or posted, and at *)
(* whatever height it was decoded, what the client accepts it saves as the  *)
(* server did (Transfer.AcceptedAsSent).                                    *)
THEOREM ClientHasTheRowsOfTheServer == Spec => []AcceptedAsSent
<1>1. ASSUME Inv PROVE AcceptedAsSent
  <2>1. Len(copy) \in 1 .. Height /\ Height = Len(chain) /\ Height \in Nat
        /\ copy = SubSeq(chain, 1, Len(copy)) /\ IsSeq(chain)
    BY <1>1, InvIs DEF CopyInv
  <2> DEFINE n == Len(copy)
  <2>2. IsSeq(copy)
    <3> HIDE DEF n
    <3>1. n \in 0 .. Len(chain)
      BY <2>1 DEF n
    <3>2. IsSeq(SubSeq(chain, 1, n))
      BY <2>1, <3>1, PrefixIsSeq
    <3> QED BY <2>1, <3>2 DEF n
  <2>3. SubSeq(copy, 1, n) = copy
    BY <2>2, Grown
  <2>4. n <= Len(chain)
    BY <2>1
  <2> HIDE DEF n
  <2>5. SubSeq(copy, 1, n) = SubSeq(chain, 1, n)
    BY <2>1, <2>3 DEF n
  <2> QED BY <2>4, <2>5 DEF AcceptedAsSent, IsPrefix, n
<1> QED BY <1>1, SpecInv, PTL

(* A client that is answered drops the server only for a transaction that   *)
(* the wire damages, or one of the old types read at a height whose fees    *)
(* are not those of the block (Transfer.PeerKeptUnlessExcused).             *)
THEOREM PeerIsKept == Spec => PeerKeptUnlessExcused
<1> DEFINE sent == chain[Head(batch.blocks).height]
           Excuse(tx) == \/ ~Survives(tx)
                         \/ tx.kind \in Old /\ FeeEntry(batch.height) # FeeEntry(sent.height - 1)
           Kept1 == (peer /\ ~peer' /\ link = Idle) => \E tx \in Transactions(sent) : Excuse(tx)
<1>1. ASSUME Inv, [Next]_vars PROVE Kept1
  <2> SUFFICES ASSUME peer /\ ~peer' /\ link = Idle, \A tx \in Transactions(sent) : ~Excuse(tx)
               PROVE  FALSE
    OBVIOUS
  <2>1. Refuse
    <3>1. peer' # peer
      OBVIOUS
    <3> QED BY <1>1, <3>1 DEF Next, Submit, SubmitByClient, Expire, Forge, Request, Respond, Receive,
              Lose, Accept, EndOfBatch, Rediscover, PostArrives, PostProcessed, vars, client
  <2> DEFINE blocks == batch.blocks
             b == Head(blocks)
             n == Len(copy)
             h == n + 1
             k == batch.height
             S == Range(blocks)
  <2>2. blocks # <<>> /\ ~Acceptable(b, copy)
    BY <2>1 DEF Refuse
  <2>3. NextRead(blocks, k)
    BY <1>1 DEF Inv, BatchInv
  <2>4. blocks \in Seq(S)
    BY <2>3 DEF NextRead, IsSeq
  <2> HIDE DEF S
  <2>5. b = blocks[1] /\ 1 \in 1 .. Len(blocks)
    BY <2>2, <2>4
  <2>6. h \in 1 .. Height /\ b = BlockDecoded(OnWire(chain[h]), k)
    BY <2>3, <2>5 DEF NextRead
  <2>7. copy = Below(h)
    <3>1. n \in Nat /\ copy = SubSeq(chain, 1, n)
      BY <1>1, InvIs DEF CopyInv
    <3> HIDE DEF n
    <3>2. h - 1 = n
      BY <3>1
    <3> QED BY <3>1, <3>2 DEF Below
  <2> HIDE DEF h
  <2>8. /\ Kept(chain[h], Below(h)) /\ chain[h].height = h /\ Len(Below(h)) = h - 1
        /\ Len(Below(h)) \in Nat
    <3>1. /\ Kept(chain[h], Below(h)) /\ chain[h].height = h /\ Len(Below(h)) = h - 1
      BY <1>1, <2>6, InvIs, KeptBelow
    <3>2. Len(copy) \in Nat
      BY <1>1, InvIs
    <3> QED BY <2>7, <3>1, <3>2
  <2> DEFINE s == chain[h]
  <2>9. b.height = h
    <3> DEFINE x == [i \in 1 .. Len(Read(s).transactions) |->
                       Decoded(FullBytes(Read(s).transactions[i]), k)]
    <3>1. b = With(s, x)
      BY <2>6, <2>8, WireIs
    <3> HIDE DEF x, b
    <3> QED BY <2>8, <3>1, WithIs DEF Kept
  <2>10. sent = s
    BY <2>9
  <2>11. \A tx \in Transactions(s) :
           Survives(tx) /\ (tx.kind \in Old => FeeEntry(k) = FeeEntry(s.height - 1))
    BY <2>10
  <2> HIDE DEF s, b
  <2>12. BlockDecoded(OnWire(s), k) = Read(s)
    BY <2>8, <2>11, SurvivorsAreRead DEF s
  <2>13. Acceptable(Read(s), Below(h))
    BY <2>8 DEF Kept, s
  <2> QED BY <2>2, <2>6, <2>7, <2>12, <2>13 DEF s
<1>2. Inv /\ [Next]_vars => [Kept1]_vars
  BY <1>1
<1> HIDE DEF Kept1
<1>3. Spec => [][Kept1]_vars
  BY <1>2, SpecInv, PTL DEF Spec
<1> QED BY <1>3 DEF PeerKeptUnlessExcused, Kept1

=====
