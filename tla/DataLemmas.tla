----------------------------- MODULE DataLemmas -----------------------------
(***************************************************************************)
(* Lemmas about numbers, sequences and finite sets that proofs about       *)
(* several modules need.                                                   *)
(*                                                                         *)
(* An induction is done without an operator for what is proved: a set of   *)
(* numbers for which it fails has a least element (LeastNumber). That is   *)
(* also how a recursive function whose calls get smaller exists            *)
(* (TailRecursion), and how FlattenSeq joins sequences one by one          *)
(* (JoinedStep).                                                           *)
(***************************************************************************)
EXTENDS Integers, Sequences, FiniteSets, SequencesExt, SequenceTheorems,
        FiniteSetTheorems, TLAPS

(***************************************************************************)
(* Induction.                                                              *)
(***************************************************************************)
\* A set of natural numbers has a least element: with it an induction needs no operator.
LEMMA LeastNumber ==
  ASSUME NEW T, T \subseteq Nat, T # {}
  PROVE  \E x \in T : \A y \in T : x <= y
<1>. SUFFICES ASSUME ~ \E x \in T : \A y \in T : x <= y PROVE FALSE
  OBVIOUS
<1>1. PICK t \in T : TRUE
  OBVIOUS
<1>2. PICK U : U = {x \in 0..t : \E y \in T : y <= x}
  OBVIOUS
<1>3. t \in U /\ U \subseteq 0..t
  BY <1>1, <1>2
<1>4. IsFiniteSet(U)
  <2>1. IsFiniteSet(0..t)
    BY FS_Interval
  <2>2. QED BY <1>3, <2>1, FS_Subset
<1>5. ASSUME NEW x \in U PROVE x - 1 \in U
  <2>1. PICK y \in T : y <= x
    BY <1>2
  <2>2. PICK z \in T : ~(y <= z)
    OBVIOUS
  <2>3. x \in 0..t /\ x \in Nat /\ y \in Nat /\ z \in Nat /\ t \in Nat
    BY <1>2, <1>1
  <2>4. z <= x - 1 /\ x - 1 \in 0..t
    BY <2>1, <2>2, <2>3
  <2>5. QED BY <1>2, <2>4
<1>6. PICK f : f = [x \in U |-> x - 1]
  OBVIOUS
<1>7. f \in [U -> U]
  BY <1>5, <1>6
<1>8. \A x \in U : x \in Int
  BY <1>3, <1>1
<1>9. \A a, b \in U : f[a] = f[b] => a = b
  BY <1>6, <1>8
<1>10. f \in Injection(U, U)
  BY <1>7, <1>9 DEF Injection, IsInjective
<1>11. f \in Surjection(U, U)
  BY <1>4, <1>10, FS_Injection
<1>12. PICK x \in U : f[x] = t
  BY <1>3, <1>11 DEF Surjection
<1>13. x \in 0..t /\ x - 1 = t
  BY <1>3, <1>6, <1>12
<1>14. QED BY <1>13, <1>1

\* A function that calls itself as its last act, or stops.
Recurs(f, S, stop, last, succ) ==
    \A s \in S : f[s] = IF stop[s] THEN last[s] ELSE f[succ[s]]

\* Every call is one with something smaller.
Descends(S, size, stop, succ) == \A s \in S : ~stop[s] => size[succ[s]] < size[s]

\* A function that calls itself with something smaller, as its last act, exists.
LEMMA TailRecursion ==
  ASSUME NEW S, NEW V, NEW size \in [S -> Nat], NEW stop \in [S -> BOOLEAN],
         NEW last \in [S -> V], NEW succ \in [S -> S],
         Descends(S, size, stop, succ)
  PROVE  \E f \in [S -> V] : Recurs(f, S, stop, last, succ)
<1>1. PICK sol : sol = [n \in Nat |->
          {f \in [S -> V] : \A s \in S : size[s] < n =>
              f[s] = IF stop[s] THEN last[s] ELSE f[succ[s]]}]
  OBVIOUS
<1>2. \A n \in Nat : \A f : f \in sol[n] <=>
          /\ f \in [S -> V]
          /\ \A s \in S : size[s] < n => f[s] = IF stop[s] THEN last[s] ELSE f[succ[s]]
  BY <1>1
<1>3. /\ \A s \in S : size[s] \in Nat /\ succ[s] \in S /\ last[s] \in V /\ stop[s] \in BOOLEAN
      /\ \A s \in S : ~stop[s] => size[succ[s]] < size[s]
  BY DEF Descends
<1>4. \A n \in Nat : sol[n] # {}
  <2>1. PICK T : T = {n \in Nat : sol[n] = {}}
    OBVIOUS
  <2>2. ASSUME T # {} PROVE FALSE
    <3>1. PICK n \in T : \A m \in T : n <= m
      BY <2>1, <2>2, LeastNumber
    <3>2. n \in Nat /\ sol[n] = {}
      BY <2>1
    <3>3. last \in sol[0]
      BY <1>2, <1>3
    <3>4. n # 0 /\ n - 1 \in Nat
      BY <3>2, <3>3
    <3>5. n - 1 \notin T
      BY <3>1, <3>2
    <3>6. PICK f : f \in sol[n - 1]
      BY <2>1, <3>4, <3>5
    <3>7. PICK g : g = [s \in S |-> IF stop[s] THEN last[s] ELSE f[succ[s]]]
      OBVIOUS
    <3>8. f \in [S -> V]
      BY <1>2, <3>4, <3>6
    <3>9. g \in [S -> V]
      BY <1>3, <3>7, <3>8
    <3>10. ASSUME NEW s \in S, size[s] < n
           PROVE  g[s] = IF stop[s] THEN last[s] ELSE g[succ[s]]
      <4>1. CASE stop[s]
        BY <3>7, <4>1
      <4>2. CASE ~stop[s]
        <5>1. size[succ[s]] < n - 1
          BY <1>3, <3>2, <3>10, <4>2
        <5>2. f[succ[s]] = IF stop[succ[s]] THEN last[succ[s]] ELSE f[succ[succ[s]]]
          BY <1>2, <1>3, <3>4, <3>6, <5>1
        <5>3. g[succ[s]] = IF stop[succ[s]] THEN last[succ[s]] ELSE f[succ[succ[s]]]
          BY <1>3, <3>7
        <5>4. QED BY <3>7, <4>2, <5>2, <5>3
      <4>3. QED BY <4>1, <4>2
    <3>11. g \in sol[n]
      BY <1>2, <3>2, <3>9, <3>10
    <3>12. QED BY <3>2, <3>11
  <2>3. QED BY <2>1, <2>2
<1>5. ASSUME NEW n \in Nat, NEW f \in sol[n], NEW m \in Nat, NEW g \in sol[m],
             NEW s \in S, size[s] < n, size[s] < m
      PROVE  f[s] = g[s]
  <2>1. PICK T : T = {k \in Nat : \E r \in S : /\ size[r] = k /\ k < n /\ k < m
                                               /\ f[r] # g[r]}
    OBVIOUS
  <2>2. ASSUME T # {} PROVE FALSE
    <3>1. PICK k \in T : \A l \in T : k <= l
      BY <2>1, <2>2, LeastNumber
    <3>2. PICK r \in S : size[r] = k /\ k < n /\ k < m /\ f[r] # g[r]
      BY <2>1
    <3>3. /\ f[r] = IF stop[r] THEN last[r] ELSE f[succ[r]]
          /\ g[r] = IF stop[r] THEN last[r] ELSE g[succ[r]]
      BY <1>2, <1>5, <3>2
    <3>4. ~stop[r] /\ f[succ[r]] # g[succ[r]]
      BY <3>2, <3>3
    <3>5. size[succ[r]] < k /\ size[succ[r]] \in Nat /\ k \in Nat
      BY <1>3, <2>1, <3>2, <3>4
    <3>6. size[succ[r]] \in T
      BY <1>3, <2>1, <3>2, <3>4, <3>5
    <3>7. QED BY <3>1, <3>5, <3>6
  <2>3. size[s] \notin T
    BY <2>2
  <2>4. QED BY <1>3, <1>5, <2>1, <2>3
<1>6. PICK h : h = [n \in Nat |-> CHOOSE f : f \in sol[n]]
  OBVIOUS
<1>7. \A n \in Nat : h[n] \in sol[n]
  BY <1>4, <1>6
<1>8. PICK f : f = [s \in S |-> h[size[s] + 1][s]]
  OBVIOUS
<1>9. ASSUME NEW s \in S
      PROVE  f[s] \in V /\ f[s] = IF stop[s] THEN last[s] ELSE f[succ[s]]
  <2>1. PICK n : n = size[s] + 1
    OBVIOUS
  <2>2. n \in Nat /\ size[s] < n /\ h[n] \in sol[n]
    BY <1>3, <1>7, <2>1
  <2>3. /\ h[n] \in [S -> V] /\ f[s] = h[n][s]
        /\ h[n][s] = IF stop[s] THEN last[s] ELSE h[n][succ[s]]
    BY <1>2, <1>8, <2>1, <2>2
  <2>4. CASE ~stop[s]
    <3>1. PICK m : m = size[succ[s]] + 1
      OBVIOUS
    <3>2. /\ m \in Nat /\ size[succ[s]] < m /\ h[m] \in sol[m]
          /\ size[succ[s]] < n
      BY <1>3, <1>7, <2>1, <2>4, <3>1
    <3>3. h[n][succ[s]] = h[m][succ[s]]
      BY <1>3, <1>5, <2>2, <3>2
    <3>4. f[succ[s]] = h[m][succ[s]]
      BY <1>3, <1>8, <3>1
    <3>5. QED BY <2>3, <2>4, <3>3, <3>4
  <2>5. QED BY <2>3, <2>4
<1>10. f \in [S -> V]
  BY <1>8, <1>9
<1>11. QED BY <1>9, <1>10 DEF Recurs

\* Each value is made from the one before.
Steps(f, n, base, step) == /\ f[0] = base
                           /\ \A i \in 1..n : f[i] = step[<<f[i - 1], i>>]

\* A function defined by such steps exists.
LEMMA Recursion ==
  ASSUME NEW V, NEW n \in Nat, NEW base \in V, NEW step \in [V \X (1..n) -> V]
  PROVE  \E f \in [0..n -> V] : Steps(f, n, base, step)
<1>1. PICK T : T = {k \in 0..n : ~\E f \in [0..k -> V] : Steps(f, k, base, step)}
  OBVIOUS
<1>2. ASSUME T # {} PROVE FALSE
  <2>1. PICK k \in T : \A l \in T : k <= l
    <3>1. T \subseteq Nat
      BY <1>1
    <3>2. QED BY <1>2, <3>1, LeastNumber
  <2>2. k \in 0..n /\ ~\E f \in [0..k -> V] : Steps(f, k, base, step)
    BY <1>1
  <2>3. k # 0
    <3>1. PICK e : e = [i \in 0..0 |-> base]
      OBVIOUS
    <3>2. e \in [0..0 -> V] /\ Steps(e, 0, base, step)
      BY <3>1 DEF Steps
    <3>3. QED BY <2>2, <3>2
  <2>4. k - 1 \in 0..n /\ k - 1 \notin T
    BY <2>1, <2>2, <2>3
  <2>5. PICK f \in [0..(k - 1) -> V] : Steps(f, k - 1, base, step)
    BY <1>1, <2>4
  <2>6. PICK x \in V : x = step[<<f[k - 1], k>>]
    <3>1. f[k - 1] \in V /\ k \in 1..n
      BY <2>2, <2>3, <2>5
    <3>2. QED BY <3>1
  <2>7. PICK h : h = [i \in 0..k |-> IF i = k THEN x ELSE f[i]]
    OBVIOUS
  <2>8. h \in [0..k -> V]
    BY <2>2, <2>7
  <2>9. Steps(h, k, base, step)
    <3>1. h[0] = base
      <4>1. 0 \in 0..k /\ 0 # k
        BY <2>2, <2>3
      <4>2. h[0] = f[0]
        BY <2>7, <4>1
      <4>3. QED BY <2>5, <4>2 DEF Steps
    <3>2. ASSUME NEW i \in 1..k PROVE h[i] = step[<<h[i - 1], i>>]
      <4>1. i - 1 \in 0..(k - 1) /\ h[i - 1] = f[i - 1]
        <5>1. i - 1 \in 0..(k - 1) /\ i - 1 \in 0..k /\ i - 1 # k
          BY <2>2
        <5>2. QED BY <2>7, <5>1
      <4>2. CASE i = k
        <5>1. h[k] = x /\ h[k - 1] = f[k - 1]
          BY <2>2, <2>7, <4>1, <4>2
        <5>2. QED BY <2>6, <4>2, <5>1
      <4>3. CASE i # k
        <5>1. i \in 1..(k - 1) /\ h[i] = f[i]
          BY <2>2, <2>7, <4>3
        <5>2. QED BY <2>5, <4>1, <5>1 DEF Steps
      <4>4. QED BY <4>2, <4>3
    <3>3. QED BY <3>1, <3>2 DEF Steps
  <2>10. QED BY <2>2, <2>8, <2>9
<1>3. n \in 0..n /\ n \notin T
  BY <1>2
<1>4. QED BY <1>1, <1>3

\* The elements of a sequence, by their places.
LEMMA Elements ==
  ASSUME NEW S, NEW q \in Seq(S), NEW x
  PROVE  /\ (x \in ToSet(q)) <=> (\E i \in 1..Len(q) : q[i] = x)
         /\ (x \in ToSet(q)) => (x \in S)
<1>1. DOMAIN q = 1..Len(q)
  OBVIOUS
<1>2. (x \in ToSet(q)) <=> (\E i \in 1..Len(q) : q[i] = x)
  BY <1>1 DEF ToSet
<1>3. QED BY <1>2, ElementOfSeq

\* The elements of a sequence with one more at its end.
LEMMA Appended ==
  ASSUME NEW S, NEW q \in Seq(S), NEW x \in S
  PROVE  /\ Append(q, x) \in Seq(S) /\ Len(Append(q, x)) = Len(q) + 1
         /\ ToSet(Append(q, x)) = ToSet(q) \cup {x}
<1>1. PICK b \in Seq(S) : b = Append(q, x) /\ Len(b) = Len(q) + 1
  <2>1. Append(q, x) \in Seq(S) /\ Len(Append(q, x)) = Len(q) + 1
    OBVIOUS
  <2>2. QED BY <2>1
<1>2. /\ DOMAIN b = 1..(Len(q) + 1) /\ DOMAIN q = 1..Len(q) /\ Len(q) \in Nat
      /\ b[Len(q) + 1] = x /\ \A i \in 1..Len(q) : b[i] = q[i]
  BY <1>1
<1>3. \A i : i \in 1..(Len(q) + 1) <=> (i \in 1..Len(q) \/ i = Len(q) + 1)
  BY <1>2
<1>4. ToSet(b) = ToSet(q) \cup {x}
  <2>1. \A y \in ToSet(b) : y \in ToSet(q) \/ y = x
    BY <1>1, <1>2, <1>3 DEF ToSet
  <2>2. (\A y \in ToSet(q) : y \in ToSet(b)) /\ x \in ToSet(b)
    BY <1>1, <1>2, <1>3 DEF ToSet
  <2>3. QED BY <2>1, <2>2
<1>5. QED BY <1>1, <1>4

\* A finite set can be put in a sequence.
LEMMA SetInSeq ==
  ASSUME NEW S, IsFiniteSet(S)
  PROVE  SetToSeq(S) \in Seq(S)
<1>1. Cardinality(S) \in Nat /\ ExistsBijection(1..Cardinality(S), S)
  BY FS_CardinalityType
<1>2. \E f \in [1..Cardinality(S) -> S] : IsInjective(f)
  BY <1>1 DEF ExistsBijection, Bijection, Injection
<1>3. SetToSeq(S) \in [1..Cardinality(S) -> S]
  BY <1>2 DEF SetToSeq
<1>4. QED BY <1>1, <1>3

(***************************************************************************)
(* Sequences.                                                              *)
(***************************************************************************)
\* What is left of a sequence behind its first n elements.
LEMMA Rest ==
  ASSUME NEW S, NEW q \in Seq(S), NEW n \in 0..Len(q)
  PROVE  /\ SubSeq(q, n + 1, Len(q)) \in Seq(S)
         /\ Len(SubSeq(q, n + 1, Len(q))) = Len(q) - n
         /\ \A i \in 1..(Len(q) - n) : SubSeq(q, n + 1, Len(q))[i] = q[n + i]
<1>1. Len(q) \in Nat /\ n \in Nat /\ \A i \in (n + 1)..Len(q) : q[i] \in S
  OBVIOUS
<1>2. /\ SubSeq(q, n + 1, Len(q)) \in Seq(S)
      /\ Len(SubSeq(q, n + 1, Len(q))) = IF n + 1 <= Len(q) THEN Len(q) - (n + 1) + 1 ELSE 0
      /\ \A i \in 1..(Len(q) - (n + 1) + 1) : SubSeq(q, n + 1, Len(q))[i] = q[n + 1 + i - 1]
  BY <1>1, SubSeqProperties
<1>3. \A i \in 1..(Len(q) - n) : n + 1 + i - 1 = n + i
  BY <1>1
<1>4. QED BY <1>1, <1>2, <1>3

\* The first elements of a sequence.
LEMMA Beginning ==
  ASSUME NEW S, NEW q \in Seq(S), NEW n \in 0..Len(q)
  PROVE  /\ SubSeq(q, 1, n) \in Seq(S)
         /\ Len(SubSeq(q, 1, n)) = n
         /\ \A i \in 1..n : SubSeq(q, 1, n)[i] = q[i]
<1>1. Len(q) \in Nat /\ n \in Nat /\ \A i \in 1..n : q[i] \in S
  OBVIOUS
<1>2. /\ SubSeq(q, 1, n) \in Seq(S)
      /\ Len(SubSeq(q, 1, n)) = IF 1 <= n THEN n - 1 + 1 ELSE 0
      /\ \A i \in 1..(n - 1 + 1) : SubSeq(q, 1, n)[i] = q[1 + i - 1]
  BY <1>1, SubSeqProperties
<1>3. \A i \in 1..n : 1 + i - 1 = i
  BY <1>1
<1>4. QED BY <1>1, <1>2, <1>3

\* A sequence is a prefix of itself, and of itself with more behind it.
LEMMA PrefixOf ==
  ASSUME NEW S, NEW q \in Seq(S), NEW x \in S
  PROVE  IsPrefix(q, q) /\ IsPrefix(q, Append(q, x))
<1>1. Len(q) \in Nat
  OBVIOUS
<1>2. PICK a \in Seq(S) : a = Append(q, x)
  BY AppendProperties
<1>3. Len(a) = Len(q) + 1 /\ \A i \in 1..Len(q) : a[i] = q[i]
  BY <1>2, AppendProperties
<1>4. /\ SubSeq(q, 1, Len(q)) \in Seq(S) /\ Len(SubSeq(q, 1, Len(q))) = Len(q)
      /\ \A i \in 1..Len(q) : SubSeq(q, 1, Len(q))[i] = q[i]
  BY <1>1, Beginning
<1>5. /\ SubSeq(a, 1, Len(q)) \in Seq(S) /\ Len(SubSeq(a, 1, Len(q))) = Len(q)
      /\ \A i \in 1..Len(q) : SubSeq(a, 1, Len(q))[i] = a[i]
  BY <1>1, <1>3, Beginning
<1>6. SubSeq(q, 1, Len(q)) = SubSeq(a, 1, Len(q))
  BY <1>3, <1>4, <1>5, SeqEqual
<1>7. QED BY <1>1, <1>2, <1>3, <1>6 DEF IsPrefix

\* A prefix of a prefix is a prefix.
LEMMA PrefixThrough ==
  ASSUME NEW S, NEW q \in Seq(S), NEW s \in Seq(S), NEW t \in Seq(S),
         IsPrefix(q, s), IsPrefix(s, t)
  PROVE  IsPrefix(q, t)
<1>1. Len(q) \in Nat /\ Len(s) \in Nat /\ Len(t) \in Nat /\ Len(q) <= Len(s) /\ Len(s) <= Len(t)
  BY DEF IsPrefix
<1>2. /\ \A i \in 1..Len(q) : SubSeq(q, 1, Len(q))[i] = q[i]
      /\ \A i \in 1..Len(q) : SubSeq(s, 1, Len(q))[i] = s[i]
      /\ \A i \in 1..Len(s) : SubSeq(s, 1, Len(s))[i] = s[i]
      /\ \A i \in 1..Len(s) : SubSeq(t, 1, Len(s))[i] = t[i]
  BY <1>1, Beginning
<1>3. /\ SubSeq(t, 1, Len(q)) \in Seq(S) /\ Len(SubSeq(t, 1, Len(q))) = Len(q)
      /\ SubSeq(q, 1, Len(q)) \in Seq(S) /\ Len(SubSeq(q, 1, Len(q))) = Len(q)
      /\ \A i \in 1..Len(q) : SubSeq(t, 1, Len(q))[i] = t[i]
  BY <1>1, Beginning
<1>4. \A i \in 1..Len(q) : q[i] = s[i] /\ s[i] = t[i]
  BY <1>1, <1>2 DEF IsPrefix
<1>5. SubSeq(q, 1, Len(q)) = SubSeq(t, 1, Len(q))
  BY <1>2, <1>3, <1>4, SeqEqual
<1>6. QED BY <1>1, <1>5 DEF IsPrefix

\* The minimum of a set of natural numbers.
LEMMA MinIsLeast ==
  ASSUME NEW T, T \subseteq Nat, T # {}
  PROVE  Min(T) \in T /\ \A x \in T : Min(T) <= x
<1>1. PICK y \in T : \A x \in T : y <= x
  BY LeastNumber
<1>2. QED BY <1>1 DEF Min

(***************************************************************************)
(* Numbers.                                                                *)
(***************************************************************************)
\* The smaller of two numbers.
LEMMA MinOfTwo ==
  ASSUME NEW a \in Int, NEW b \in Int
  PROVE  Min({a, b}) = IF a <= b THEN a ELSE b
<1>1. PICK m \in {a, b} : m = IF a <= b THEN a ELSE b
  OBVIOUS
<1>2. m \in {a, b} /\ \A y \in {a, b} : m <= y
  BY <1>1
<1>3. Min({a, b}) \in {a, b} /\ \A y \in {a, b} : Min({a, b}) <= y
  BY <1>2 DEF Min
<1>4. QED BY <1>1, <1>2, <1>3

\* The larger of two numbers.
LEMMA MaxOfTwo ==
  ASSUME NEW a \in Int, NEW b \in Int
  PROVE  Max({a, b}) = IF a >= b THEN a ELSE b
<1>1. PICK m \in {a, b} : m = IF a >= b THEN a ELSE b
  OBVIOUS
<1>2. m \in {a, b} /\ \A y \in {a, b} : m >= y
  BY <1>1
<1>3. Max({a, b}) \in {a, b} /\ \A y \in {a, b} : Max({a, b}) >= y
  BY <1>2 DEF Max
<1>4. QED BY <1>1, <1>2, <1>3

\* What \div and % are.
LEMMA DivMod ==
  ASSUME NEW x \in Int, NEW d \in Nat \ {0}
  PROVE  /\ x \div d \in Int /\ (x % d) \in 0..(d - 1)
         /\ x = (d * (x \div d)) + (x % d)
OBVIOUS

\* There is only one way to divide with a remainder.
LEMMA ModUnique ==
  ASSUME NEW x \in Int, NEW d \in Nat \ {0}, NEW q \in Int, NEW r \in 0..(d - 1),
         x = (d * q) + r
  PROVE  (x % d) = r
<1>1. (x % d) \in 0..(d-1) /\ x \div d \in Int /\ x = (d * (x \div d)) + (x % d)
  BY DivMod
<1>2. PICK s \in 0..(d - 1) : s = (x % d)
  BY <1>1
<1>3. PICK p \in Int : p = x \div d
  BY <1>1
<1>4. d * (q - p) = s - r
  BY <1>1, <1>2, <1>3
<1>5. CASE q > p
  <2>1. d * (q - p) >= d
    BY <1>5
  <2>2. QED BY <1>4, <2>1
<1>6. CASE q < p
  <2>1. d * (q - p) <= -d
    BY <1>6
  <2>2. QED BY <1>4, <2>1
<1>7. CASE q = p
  BY <1>2, <1>4, <1>7
<1>8. QED BY <1>5, <1>6, <1>7

\* There is only one quotient.
LEMMA DivUnique ==
  ASSUME NEW x \in Int, NEW d \in Nat \ {0}, NEW q \in Int, NEW r \in 0..(d - 1),
         x = (d * q) + r
  PROVE  (x \div d) = q
<1>1. (x % d) = r
  BY ModUnique
<1>2. x \div d \in Int /\ x = (d * (x \div d)) + (x % d)
  BY DivMod
<1>3. PICK p \in Int : p = (x \div d)
  BY <1>2
<1>4. d * (q - p) = 0
  BY <1>1, <1>2, <1>3
<1>5. CASE q > p
  <2>1. d * (q - p) >= d
    BY <1>5
  <2>2. QED BY <1>4, <2>1
<1>6. CASE q < p
  <2>1. d * (q - p) <= -d
    BY <1>6
  <2>2. QED BY <1>4, <2>1
<1>7. QED BY <1>3, <1>5, <1>6

\* A remainder may be taken before adding.
LEMMA ModSum ==
  ASSUME NEW a \in Int, NEW b \in Int, NEW d \in Nat \ {0}
  PROVE  ((a % d) + b) % d = (a + b) % d
<1>1. PICK r \in 0..(d - 1), q \in Int : (a % d) = r /\ a = (d * q) + r
  BY DivMod
<1>2. PICK s \in 0..(d - 1), p \in Int : ((r + b) % d) = s /\ r + b = (d * p) + s
  <2>1. r + b \in Int
    OBVIOUS
  <2>2. QED BY <2>1, DivMod
<1>3. a + b = (d * (q + p)) + s
  BY <1>1, <1>2
<1>4. q + p \in Int /\ a + b \in Int
  OBVIOUS
<1>5. (a + b) % d = s
  BY <1>3, <1>4, ModUnique
<1>6. QED BY <1>1, <1>2, <1>5

\* How far two places of a ring are apart.
LEMMA ModBetween ==
  ASSUME NEW a \in Int, NEW m \in Int, NEW n \in Int, NEW d \in Nat \ {0}
  PROVE  (((a + m) % d) - ((a + n) % d)) % d = (m - n) % d
<1>1. PICK r \in 0..(d - 1), q \in Int : ((a + m) % d) = r /\ a + m = (d * q) + r
  <2>1. a + m \in Int
    OBVIOUS
  <2>2. QED BY <2>1, DivMod
<1>2. PICK s \in 0..(d - 1), p \in Int : ((a + n) % d) = s /\ a + n = (d * p) + s
  <2>1. a + n \in Int
    OBVIOUS
  <2>2. QED BY <2>1, DivMod
<1>3. PICK t \in 0..(d - 1), u \in Int : ((r - s) % d) = t /\ r - s = (d * u) + t
  <2>1. r - s \in Int
    OBVIOUS
  <2>2. QED BY <2>1, DivMod
<1>4. m - n = (d * ((q - p) + u)) + t
  BY <1>1, <1>2, <1>3
<1>5. (q - p) + u \in Int /\ m - n \in Int
  OBVIOUS
<1>6. (m - n) % d = t
  BY <1>4, <1>5, ModUnique
<1>7. QED BY <1>1, <1>2, <1>3, <1>6

\* Remainders of numbers near the ring.
LEMMA ModNear ==
  ASSUME NEW x \in Int, NEW d \in Nat \ {0}
  PROVE  /\ x \in 0..(d - 1) => (x % d) = x
         /\ x \in (-d)..(-1) => (x % d) = x + d
         /\ x = d => (x % d) = 0
<1>1. ASSUME x \in 0..(d - 1) PROVE (x % d) = x
  <2>1. x = (d * 0) + x
    OBVIOUS
  <2>2. QED BY <1>1, <2>1, ModUnique
<1>2. ASSUME x \in (-d)..(-1) PROVE (x % d) = x + d
  <2>1. x = (d * (-1)) + (x + d) /\ x + d \in 0..(d - 1) /\ -1 \in Int
    BY <1>2
  <2>2. QED BY <2>1, ModUnique
<1>3. ASSUME x = d PROVE (x % d) = 0
  <2>1. x = (d * 1) + 0
    BY <1>3
  <2>2. QED BY <2>1, ModUnique
<1>4. QED BY <1>1, <1>2, <1>3

(***************************************************************************)
(* Joining sequences.                                                      *)
(***************************************************************************)
\* Each of the sequences f[i] is the one before with g[i] behind it.
Adds(f, g, n) == \A i \in 1..n : f[i] = IF i = 1 THEN g[i] ELSE f[i - 1] \o g[i]

\* Sequences can be joined one by one.
LEMMA Joinable ==
  ASSUME NEW S, NEW n \in Nat, NEW g \in [1..n -> Seq(S)]
  PROVE  \E f \in [1..n -> Seq(S)] : Adds(f, g, n)
<1>1. PICK T : T = {k \in 0..n : ~\E f \in [1..k -> Seq(S)] : Adds(f, g, k)}
  OBVIOUS
<1>2. ASSUME T # {} PROVE FALSE
  <2>1. PICK k \in T : \A l \in T : k <= l
    <3>1. T \subseteq Nat
      BY <1>1
    <3>2. QED BY <1>2, <3>1, LeastNumber
  <2>2. k \in 0..n /\ ~\E f \in [1..k -> Seq(S)] : Adds(f, g, k)
    BY <1>1
  <2>3. k # 0
    <3>1. PICK e : e = [i \in 1..0 |-> g[i]]
      OBVIOUS
    <3>2. e \in [1..0 -> Seq(S)] /\ Adds(e, g, 0)
      BY <3>1 DEF Adds
    <3>3. QED BY <2>2, <3>2
  <2>4. k - 1 \in 0..n /\ k - 1 \notin T
    BY <2>1, <2>2, <2>3
  <2>5. PICK f \in [1..(k - 1) -> Seq(S)] : Adds(f, g, k - 1)
    BY <1>1, <2>4
  <2>6. PICK x : x = IF k = 1 THEN g[k] ELSE f[k - 1] \o g[k]
    OBVIOUS
  <2>7. x \in Seq(S)
    <3>1. g[k] \in Seq(S)
      BY <2>2, <2>3
    <3>2. CASE k = 1
      BY <2>6, <3>1, <3>2
    <3>3. CASE k # 1
      <4>1. f[k - 1] \in Seq(S)
        BY <2>2, <2>3, <2>5, <3>3
      <4>2. f[k - 1] \o g[k] \in Seq(S)
        BY <3>1, <4>1, ConcatProperties
      <4>3. QED BY <2>6, <3>3, <4>2
    <3>4. QED BY <3>2, <3>3
  <2>8. PICK h : h = [i \in 1..k |-> IF i = k THEN x ELSE f[i]]
    OBVIOUS
  <2>9. h \in [1..k -> Seq(S)]
    BY <2>2, <2>7, <2>8
  <2>10. Adds(h, g, k)
    <3>. SUFFICES ASSUME NEW i \in 1..k
                  PROVE  h[i] = IF i = 1 THEN g[i] ELSE h[i - 1] \o g[i]
      BY DEF Adds
    <3>1. CASE i = k
      BY <2>2, <2>6, <2>8, <3>1
    <3>2. CASE i # k
      <4>1. i \in 1..(k - 1) /\ (i # 1 => i - 1 \in 1..k /\ i - 1 # k)
        BY <2>2, <3>2
      <4>2. f[i] = IF i = 1 THEN g[i] ELSE f[i - 1] \o g[i]
        BY <2>5, <4>1 DEF Adds
      <4>3. h[i] = f[i] /\ (i # 1 => h[i - 1] = f[i - 1])
        BY <2>8, <3>2, <4>1
      <4>4. QED BY <4>2, <4>3
    <3>3. QED BY <3>1, <3>2
  <2>11. QED BY <2>2, <2>9, <2>10
<1>3. n \in 0..n /\ n \notin T
  BY <1>2
<1>4. QED BY <1>1, <1>3

\* Two functions agree on the first numbers.
Alike(f, h, m) == \A i \in 1..m : f[i] = h[i]

\* There is only one way to join them.
LEMMA JoinedAlike ==
  ASSUME NEW m \in Nat, NEW n \in m..(m + 1), NEW g, NEW e, NEW f, NEW h,
         Adds(f, e, m), Adds(h, g, n), Alike(e, g, m)
  PROVE  Alike(f, h, m)
<1>1. PICK T : T = {i \in 1..m : f[i] # h[i]}
  OBVIOUS
<1>2. ASSUME T # {} PROVE FALSE
  <2>1. PICK k \in T : \A l \in T : k <= l
    <3>1. T \subseteq Nat
      BY <1>1
    <3>2. QED BY <1>2, <3>1, LeastNumber
  <2>2. k \in 1..m /\ k \in 1..n /\ f[k] # h[k]
    BY <1>1
  <2>3. /\ f[k] = IF k = 1 THEN e[k] ELSE f[k - 1] \o e[k]
        /\ h[k] = IF k = 1 THEN g[k] ELSE h[k - 1] \o g[k]
    BY <2>2 DEF Adds
  <2>. e[k] = g[k]
    BY <2>2 DEF Alike
  <2>4. k # 1 /\ f[k - 1] # h[k - 1]
    BY <2>2, <2>3
  <2>5. k - 1 \in T /\ k - 1 < k
    BY <1>1, <2>2, <2>4
  <2>6. QED BY <2>1, <2>2, <2>5
<1>3. QED BY <1>1, <1>2 DEF Alike

\* FlattenSeq joins sequences one by one.
LEMMA Flattened ==
  ASSUME NEW S, NEW n \in Nat, n > 0, NEW g \in [1..n -> Seq(S)]
  PROVE  \E f \in [1..n -> Seq(S)] : Adds(f, g, n) /\ FlattenSeq(g) = f[n]
<1>1. g \in Seq(Seq(S)) /\ Len(g) = n
  OBVIOUS
<1>2. PICK f \in [1..n -> Seq(S)] : Adds(f, g, n)
  BY Joinable
<1>3. f = [i \in 1..Len(g) |-> IF i = 1 THEN g[i] ELSE f[i - 1] \o g[i]]
  BY <1>1, <1>2 DEF Adds
<1>4. PICK h : /\ h = [i \in 1..Len(g) |-> IF i = 1 THEN g[i] ELSE h[i - 1] \o g[i]]
               /\ FlattenSeq(g) = h[Len(g)]
  <2>1. Len(g) # 0
    BY <1>1
  <2>2. PICK h : h = CHOOSE x : x = [i \in 1..Len(g) |-> IF i = 1 THEN g[i] ELSE x[i - 1] \o g[i]]
    OBVIOUS
  <2>3. h = [i \in 1..Len(g) |-> IF i = 1 THEN g[i] ELSE h[i - 1] \o g[i]]
    BY <1>3, <2>2, Zenon
  <2>4. FlattenSeq(g) = h[Len(g)]
    BY <2>1, <2>2 DEF FlattenSeq
  <2>5. QED BY <2>3, <2>4
<1>5. Adds(h, g, n)
  BY <1>1, <1>4, Zenon DEF Adds
<1>6. Alike(f, h, n)
  <2>1. n \in n..(n + 1) /\ Alike(g, g, n)
    BY DEF Alike
  <2>2. QED BY <1>2, <1>5, <2>1, JoinedAlike
<1>7. n \in 1..n /\ f[n] = h[n]
  BY <1>6 DEF Alike
<1>8. QED BY <1>1, <1>2, <1>4, <1>7

\* The sequences up to the k-th, joined.
JoinedUpto(g, k) == FlattenSeq([i \in 1..k |-> g[i]])

\* Joining one sequence more.
LEMMA JoinedStep ==
  ASSUME NEW S, NEW n \in Nat, NEW g \in [1..n -> Seq(S)], NEW k \in 0..n
  PROVE  /\ JoinedUpto(g, k) \in Seq(S)
         /\ JoinedUpto(g, 0) = <<>>
         /\ k > 0 => JoinedUpto(g, k) = JoinedUpto(g, k - 1) \o g[k]
         /\ JoinedUpto(g, n) = FlattenSeq(g)
<1>1. JoinedUpto(g, 0) = <<>>
  <2>1. PICK e : e = [i \in 1..0 |-> g[i]]
    OBVIOUS
  <2>2. e = <<>>
    BY <2>1
  <2>3. FlattenSeq(e) = <<>>
    BY <2>2 DEF FlattenSeq
  <2>4. QED BY <2>1, <2>3 DEF JoinedUpto
<1>2. ASSUME NEW l \in 1..n
      PROVE  \E f \in [1..l -> Seq(S)] : Adds(f, g, l) /\ JoinedUpto(g, l) = f[l]
  <2>1. PICK e : e = [i \in 1..l |-> g[i]]
    OBVIOUS
  <2>2. e \in [1..l -> Seq(S)] /\ l \in Nat /\ l > 0
    BY <2>1
  <2>3. PICK f \in [1..l -> Seq(S)] : Adds(f, e, l) /\ FlattenSeq(e) = f[l]
    BY <2>2, Flattened
  <2>4. Adds(f, g, l)
    BY <2>1, <2>3 DEF Adds
  <2>5. QED BY <2>1, <2>3, <2>4 DEF JoinedUpto
<1>3. ASSUME k > 0
      PROVE  JoinedUpto(g, k) \in Seq(S) /\ JoinedUpto(g, k) = JoinedUpto(g, k - 1) \o g[k]
  <2>1. PICK f \in [1..k -> Seq(S)] : Adds(f, g, k) /\ JoinedUpto(g, k) = f[k]
    BY <1>2, <1>3
  <2>2. k \in Nat /\ k \in 1..k /\ f[k] = IF k = 1 THEN g[k] ELSE f[k - 1] \o g[k]
    <3>1. k \in Nat /\ k \in 1..k
      BY <1>3
    <3>2. QED BY <2>1, <3>1 DEF Adds
  <2>3. CASE k = 1
    <3>1. g[1] \in Seq(S) /\ JoinedUpto(g, k - 1) = <<>>
      BY <1>1, <1>3, <2>3
    <3>2. <<>> \o g[1] = g[1]
      BY <3>1, ConcatEmptySeq
    <3>3. QED BY <1>3, <2>1, <2>2, <2>3, <3>1, <3>2
  <2>4. CASE k # 1
    <3>1. k - 1 \in 1..n /\ k - 1 \in Nat /\ k \in (k - 1)..(k - 1 + 1)
      BY <1>3, <2>4
    <3>2. PICK h \in [1..(k - 1) -> Seq(S)] :
                 Adds(h, g, k - 1) /\ JoinedUpto(g, k - 1) = h[k - 1]
      BY <1>2, <3>1
    <3>3. h[k - 1] = f[k - 1]
      <4>1. PICK m \in Nat : m = k - 1 /\ k \in m..(m + 1) /\ m \in 1..m
        BY <3>1
      <4>2. Adds(h, g, m) /\ Adds(f, g, k) /\ Alike(g, g, m)
        BY <2>1, <3>2, <4>1 DEF Alike
      <4>3. Alike(h, f, m)
        BY <4>1, <4>2, JoinedAlike
      <4>4. QED BY <4>1, <4>3 DEF Alike
    <3>4. f[k] \in Seq(S)
      BY <2>1, <2>2
    <3>5. QED BY <1>3, <2>1, <2>2, <2>4, <3>2, <3>3, <3>4
  <2>5. QED BY <2>3, <2>4
<1>4. JoinedUpto(g, k) \in Seq(S)
  <2>1. <<>> \in Seq(S)
    OBVIOUS
  <2>2. CASE k = 0
    BY <1>1, <2>1, <2>2
  <2>3. CASE k # 0
    <3>1. k > 0
      BY <2>3
    <3>2. QED BY <1>3, <3>1
  <2>4. QED BY <2>2, <2>3
<1>5. JoinedUpto(g, n) = FlattenSeq(g)
  <2>1. [i \in 1..n |-> g[i]] = g
    OBVIOUS
  <2>2. QED BY <2>1 DEF JoinedUpto
<1>6. QED BY <1>1, <1>3, <1>4, <1>5

\* The next sequence is joined to those before it.
LEMMA JoinedOne ==
  ASSUME NEW S, NEW n \in Nat, NEW g \in [1..n -> Seq(S)], NEW k \in 1..n
  PROVE  JoinedUpto(g, k) = JoinedUpto(g, k - 1) \o g[k]
<1>1. k \in 0..n /\ k > 0
  OBVIOUS
<1>2. k > 0 => JoinedUpto(g, k) = JoinedUpto(g, k - 1) \o g[k]
  BY <1>1, JoinedStep
<1>3. QED BY <1>1, <1>2

\* An image is as large as the set if no two elements have the same.
LEMMA ImageCounted ==
  ASSUME NEW S, NEW T, NEW g, IsFiniteSet(S), T = {g[x] : x \in S},
         \A x, y \in S : g[x] = g[y] => x = y
  PROVE  IsFiniteSet(T) /\ Cardinality(T) = Cardinality(S)
<1>1. PICK h : h = [x \in S |-> g[x]]
  OBVIOUS
<1>2. h \in Surjection(S, T)
  BY <1>1 DEF Surjection
<1>3. h \in Injection(S, T)
  BY <1>1 DEF Injection, IsInjective
<1>4. QED BY <1>2, <1>3, FS_Surjection
=============================================================================
