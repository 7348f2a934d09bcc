---------------------------- MODULE BasicFacts -----------------------------
(***************************************************************************)
(* What several proofs need and the library does not state as they can use *)
(* it: induction over sets of naturals, division and numbers of two digits *)
(* (block indices and addresses), the functions a recursion defines,       *)
(* counting, fractions, and lists without repetition.                      *)
(***************************************************************************)
EXTENDS Integers, Sequences, FiniteSets, NaturalsInduction, WellFoundedInduction,
        FiniteSetTheorems, TLAPS

(***************************************************************************)
(* Induction over the naturals, stated over sets                           *)
(***************************************************************************)

\* A set of naturals has a least element.
LEMMA LeastNatural ==
  ASSUME NEW S \in SUBSET Nat, S # {}
  PROVE  \E m \in S : \A k \in S : m <= k
<1> DEFINE R == {ss \in Nat \X Nat : ss[1] < ss[2]}
<1>1. IsWellFoundedOn(R, Nat)
  BY NatLessThanWellFounded DEF OpToRel
<1>2. PICK m \in S : \A y \in S : ~(<<y, m>> \in R)
  BY <1>1, WFMin
<1>3. ASSUME NEW k \in S PROVE m <= k
  <2>1. m \in Nat /\ k \in Nat
    OBVIOUS
  <2>2. ~(<<k, m>> \in R)
    BY <1>2
  <2>3. k < m => <<k, m>> \in R
    BY <2>1
  <2> QED BY <2>1, <2>2, <2>3
<1> QED BY <1>3

\* A set that holds 0 and with each number its successor holds them all.
LEMMA NaturalInduction ==
  ASSUME NEW S \in SUBSET Nat, 0 \in S, \A n \in S : n + 1 \in S
  PROVE  S = Nat
<1> SUFFICES ASSUME Nat \ S # {} PROVE FALSE
  OBVIOUS
<1>1. PICK m \in Nat \ S : \A k \in Nat \ S : m <= k
  BY LeastNatural
<1>2. m # 0 /\ m - 1 \in Nat
  BY <1>1
<1>3. m - 1 \in S
  BY <1>1, <1>2
<1> QED BY <1>1, <1>2, <1>3

(***************************************************************************)
(* Division                                                                *)
(***************************************************************************)

\* Quotient and remainder of the naturals.
LEMMA DivMod ==
  ASSUME NEW a \in Nat, NEW d \in Nat \ {0}
  PROVE  /\ a \div d \in Nat /\ a % d \in 0..(d - 1)
         /\ a = d * (a \div d) + (a % d)
OBVIOUS

\* Division keeps the order.
LEMMA DivMonotone ==
  ASSUME NEW a \in Nat, NEW b \in Nat, a <= b, NEW d \in Nat \ {0}
  PROVE  a \div d <= b \div d
<1> DEFINE qa == a \div d
           qb == b \div d
<1>1. /\ qa \in Nat /\ qb \in Nat
      /\ d * qa <= a /\ b < d * qb + d
  BY DivMod
<1> HIDE DEF qa, qb
<1>2. d * qa < d * qb + d
  BY <1>1
<1>3. ASSUME qb + 1 <= qa PROVE FALSE
  <2>1. d * (qb + 1) <= d * qa
    BY <1>1, <1>3
  <2>2. d * (qb + 1) = d * qb + d
    BY <1>1
  <2> QED BY <1>1, <1>2, <2>1, <2>2
<1>4. qa <= qb
  BY <1>1, <1>3
<1> QED BY <1>4 DEF qa, qb

\* A number below d * k has a quotient below k.
LEMMA DivBound ==
  ASSUME NEW a \in Nat, NEW d \in Nat \ {0}, NEW k \in Nat, a < d * k
  PROVE  a \div d < k
<1> DEFINE q == a \div d
<1>1. q \in Nat /\ d * q <= a
  BY DivMod
<1> HIDE DEF q
<1>2. ASSUME k <= q PROVE FALSE
  <2>1. d * k <= d * q
    BY <1>1, <1>2
  <2> QED BY <1>1, <2>1
<1>3. q < k
  BY <1>1, <1>2
<1> QED BY <1>3 DEF q

(***************************************************************************)
(* Two digits                                                              *)
(***************************************************************************)

\* A number of two digits, the last below n.
LEMMA TwoDigitsBound ==
  ASSUME NEW A \in Nat, NEW n \in Nat, NEW a \in 0..(A - 1), NEW x \in 0..(n - 1)
  PROVE  a * n + x \in 0..(A * n - 1)
<1>1. a \in Nat /\ x \in Nat /\ a + 1 <= A /\ x + 1 <= n
  OBVIOUS
<1>2. (a + 1) * n <= A * n /\ (a + 1) * n = a * n + n /\ a * n \in Nat /\ A * n \in Nat
  BY <1>1
<1> QED BY <1>1, <1>2

\* Its digits are those of no other number.
LEMMA TwoDigits ==
  ASSUME NEW n \in Nat, NEW a \in Nat, NEW b \in Nat,
         NEW x \in 0..(n - 1), NEW y \in 0..(n - 1), a * n + x = b * n + y
  PROVE  a = b /\ x = y
<1>1. \A c, d \in Nat, v, w \in 0..(n - 1) : c * n + v = d * n + w => ~(c < d)
  <2> SUFFICES ASSUME NEW c \in Nat, NEW d \in Nat, NEW v \in 0..(n - 1), NEW w \in 0..(n - 1),
                       c * n + v = d * n + w, c < d
                PROVE  FALSE
    OBVIOUS
  <2>1. c + 1 <= d /\ v < n /\ w >= 0 /\ v \in Nat /\ w \in Nat
    OBVIOUS
  <2>2. (c + 1) * n <= d * n
    BY <2>1
  <2>3. (c + 1) * n = c * n + n /\ c * n \in Nat /\ d * n \in Nat
    OBVIOUS
  <2> QED BY <2>1, <2>2, <2>3
<1>2. a = b
  BY <1>1
<1>3. a * n \in Nat
  OBVIOUS
<1> QED BY <1>2, <1>3

\* Division undoes multiplication.
LEMMA Multiples ==
  ASSUME NEW n \in Nat \ {0}, NEW a \in Nat
  PROVE  (a * n) % n = 0 /\ (a * n) \div n = a
<1> DEFINE x == a * n
<1>1. x \in Nat
  OBVIOUS
<1> HIDE DEF x
<1>2. /\ x \div n \in Nat /\ x % n \in 0..(n - 1)
      /\ x = n * (x \div n) + (x % n)
  BY <1>1
<1>3. n * (x \div n) = (x \div n) * n
  BY <1>2
<1>4. a * n + 0 = (x \div n) * n + (x % n) /\ 0 \in 0..(n - 1)
  BY <1>2, <1>3 DEF x
<1> DEFINE q == x \div n
            r == x % n
<1>5. q \in Nat /\ r \in 0..(n - 1) /\ a * n + 0 = q * n + r /\ 0 \in 0..(n - 1)
  BY <1>2, <1>4
<1> HIDE DEF q, r
<1>6. a = q /\ 0 = r
  BY <1>5, TwoDigits
<1>7. a = x \div n /\ 0 = x % n
  BY <1>6 DEF q, r
<1> QED BY <1>7 DEF x

\* Distinct multiples of D are D apart.
LEMMA MultiplesApart ==
  ASSUME NEW D \in Nat, NEW x \in Nat, NEW y \in Nat, x # y
  PROVE  x * D + D <= y * D \/ y * D + D <= x * D
<1>1. CASE x < y
  <2>1. (x + 1) * D <= y * D /\ (x + 1) * D = x * D + D
    BY <1>1
  <2> QED BY <2>1
<1>2. CASE y < x
  <2>1. (y + 1) * D <= x * D /\ (y + 1) * D = y * D + D
    BY <1>2
  <2> QED BY <2>1
<1> QED BY <1>1, <1>2

(***************************************************************************)
(* Functions of the naturals                                               *)
(***************************************************************************)

\* f is made over lo..hi, in V: the first value is a, step makes each of the
\* others of its place and the one before.
IsStep(step, lo, hi, V) == step \in [((lo + 1)..hi) \X V -> V]

Iterates(f, lo, hi, V, a, step) ==
  /\ f \in [lo..hi -> V]
  /\ f = [n \in lo..hi |-> IF n = lo THEN a ELSE step[<<n, f[n - 1]>>]]

\* What a recursive function over an interval computes exists.
LEMMA IterateExists ==
  ASSUME NEW lo \in Int, NEW hi \in Int, lo <= hi, NEW V, NEW a \in V,
         NEW step, IsStep(step, lo, hi, V)
  PROVE  \E f : Iterates(f, lo, hi, V, a, step)
<1> USE DEF IsStep
<1> DEFINE Made(k, f) == \A n \in lo..(lo + k) : f[n] = IF n = lo THEN a ELSE step[<<n, f[n - 1]>>]
           S == {k \in Nat : lo + k <= hi => \E f \in [lo..(lo + k) -> V] : Made(k, f)}
<1>1. 0 \in S
  <2> DEFINE f == [n \in lo..lo |-> a]
  <2>1. f \in [lo..(lo + 0) -> V] /\ Made(0, f)
    OBVIOUS
  <2> QED BY <2>1
<1>2. ASSUME NEW k \in S PROVE k + 1 \in S
  <2> SUFFICES ASSUME lo + (k + 1) <= hi
               PROVE  \E g \in [lo..(lo + (k + 1)) -> V] : Made(k + 1, g)
    OBVIOUS
  <2>1. k \in Nat /\ lo + k <= hi
    OBVIOUS
  <2>2. PICK f \in [lo..(lo + k) -> V] : Made(k, f)
    BY <2>1
  <2> DEFINE top == lo + (k + 1)
             g   == [n \in lo..top |-> IF n = top THEN step[<<top, f[top - 1]>>] ELSE f[n]]
  <2>3. top \in (lo + 1)..hi /\ top - 1 \in lo..(lo + k) /\ f[top - 1] \in V
    BY <2>1, <2>2
  <2>4. step[<<top, f[top - 1]>>] \in V
    BY <2>3
  <2>5. \A n \in lo..top : n # top => n \in lo..(lo + k)
    BY <2>1
  <2>6. g \in [lo..top -> V]
    BY <2>2, <2>4, <2>5
  <2>7. ASSUME NEW n \in lo..top
        PROVE  g[n] = IF n = lo THEN a ELSE step[<<n, g[n - 1]>>]
    <3>1. CASE n = top
      <4>1. g[n] = step[<<top, f[top - 1]>>] /\ n # lo /\ n - 1 = top - 1
        BY <2>1, <3>1
      <4>2. g[top - 1] = f[top - 1]
        BY <2>3
      <4> QED BY <4>1, <4>2, <3>1
    <3>2. CASE n # top
      <4>1. n \in lo..(lo + k) /\ g[n] = f[n]
        BY <2>5, <3>2
      <4>2. n # lo => n - 1 \in lo..(lo + k) /\ n - 1 # top /\ n - 1 \in lo..top
        BY <2>1, <4>1
      <4>3. n # lo => g[n - 1] = f[n - 1]
        BY <4>2
      <4> QED BY <2>2, <4>1, <4>3
    <3> QED BY <3>1, <3>2
  <2> HIDE DEF g
  <2> QED BY <2>6, <2>7
<1> HIDE DEF Made
<1>3. S = Nat
  BY <1>1, <1>2, NaturalInduction
<1> DEFINE d == hi - lo
<1>4. d \in Nat /\ lo + d = hi
  OBVIOUS
<1> HIDE DEF d
<1>5. PICK f \in [lo..hi -> V] : Made(d, f)
  <2>1. d \in S
    BY <1>3, <1>4
  <2>2. \E f \in [lo..(lo + d) -> V] : Made(d, f)
    BY <1>4, <2>1
  <2> QED BY <1>4, <2>2
<1>6. \A n \in lo..hi : f[n] = IF n = lo THEN a ELSE step[<<n, f[n - 1]>>]
  BY <1>4, <1>5 DEF Made
<1>7. f = [n \in lo..hi |-> f[n]]
  BY <1>5
<1> QED BY <1>5, <1>6, <1>7 DEF Iterates

(***************************************************************************)
(* Counting                                                                *)
(***************************************************************************)

\* Counting the members of P in a set one adds an element to.
LEMMA CountInsert ==
  ASSUME NEW S, IsFiniteSet(S), NEW x, x \notin S, NEW P
  PROVE  /\ IsFiniteSet(S \cup {x})
         /\ Cardinality((S \cup {x}) \cap P) = Cardinality(S \cap P) + (IF x \in P THEN 1 ELSE 0)
         /\ Cardinality(S \cap P) \in Nat
<1>1. IsFiniteSet(S \cap P) /\ Cardinality(S \cap P) \in Nat
  BY FS_Intersection, FS_CardinalityType
<1>2. IsFiniteSet(S \cup {x})
  BY FS_AddElement
<1>3. CASE x \in P
  <2>1. (S \cup {x}) \cap P = (S \cap P) \cup {x} /\ x \notin S \cap P
    BY <1>3
  <2> QED BY <1>1, <1>2, <1>3, <2>1, FS_AddElement
<1>4. CASE x \notin P
  <2>1. (S \cup {x}) \cap P = S \cap P
    BY <1>4
  <2>2. Cardinality((S \cup {x}) \cap P) = Cardinality(S \cap P)
    BY <2>1
  <2> QED BY <1>1, <1>2, <1>4, <2>2
<1> QED BY <1>3, <1>4

\* The members of P in two sets, counted at once or apart.
AddsUp(S, T, P) ==
  Cardinality((S \cup T) \cap P) = Cardinality(S \cap P) + Cardinality(T \cap P)

\* It is the same for disjoint sets.
LEMMA CountUnion ==
  ASSUME NEW S, IsFiniteSet(S), NEW T, IsFiniteSet(T), S \cap T = {}, NEW P
  PROVE  AddsUp(S, T, P)
<1>1. /\ IsFiniteSet(S \cap P) /\ Cardinality(S \cap P) \in Nat
      /\ IsFiniteSet(T \cap P) /\ Cardinality(T \cap P) \in Nat
  BY FS_Intersection, FS_CardinalityType
<1>2. (S \cup T) \cap P = (S \cap P) \cup (T \cap P) /\ (S \cap P) \cap (T \cap P) = {}
  OBVIOUS
<1>3. Cardinality((S \cap P) \cap (T \cap P)) = 0
  BY <1>2, FS_EmptySet
<1>4. /\ IsFiniteSet((S \cap P) \cup (T \cap P))
      /\ Cardinality((S \cap P) \cup (T \cap P))
           = Cardinality(S \cap P) + Cardinality(T \cap P) - Cardinality((S \cap P) \cap (T \cap P))
  BY <1>1, FS_Union
<1>6. Cardinality((S \cup T) \cap P) = Cardinality((S \cap P) \cup (T \cap P))
  BY <1>2
<1> DEFINE cs == Cardinality(S \cap P)
           ct == Cardinality(T \cap P)
<1>7. Cardinality((S \cup T) \cap P) = cs + ct - 0 /\ cs \in Nat /\ ct \in Nat
  BY <1>1, <1>3, <1>4, <1>6
<1>8. Cardinality((S \cup T) \cap P) = cs + ct
  <2> HIDE DEF cs, ct
  <2> QED BY <1>7
<1> QED BY <1>8 DEF AddsUp

(***************************************************************************)
(* Fractions                                                               *)
(***************************************************************************)

\* Fractions a < b <= c.
LEMMA FractionsChain ==
  ASSUME NEW an \in Nat, NEW ad \in Nat \ {0}, NEW bn \in Nat, NEW bd \in Nat \ {0},
         NEW cn \in Nat, NEW cd \in Nat \ {0}, an * bd < bn * ad, ~(cn * bd < bn * cd)
  PROVE  an * cd < cn * ad
<1> DEFINE p == an * bd
           q == bn * ad
           u == bn * cd
           v == cn * bd
           x == an * cd
           y == cn * ad
<1>1. /\ p \in Nat /\ q \in Nat /\ u \in Nat /\ v \in Nat /\ x \in Nat /\ y \in Nat
      /\ p < q /\ u <= v
  OBVIOUS
<1>2. x * bd = p * cd /\ u * ad = q * cd /\ v * ad = y * bd
  OBVIOUS
<1> HIDE DEF p, q, u, v, x, y
<1>3. p * cd < q * cd
  <2>1. p + 1 <= q
    BY <1>1
  <2>2. (p + 1) * cd <= q * cd /\ (p + 1) * cd = p * cd + cd
    BY <1>1, <2>1
  <2>3. p * cd \in Nat /\ q * cd \in Nat
    BY <1>1
  <2> QED BY <2>2, <2>3
<1>4. u * ad <= v * ad
  BY <1>1
<1>5. x * bd < y * bd
  <2>1. x * bd \in Nat /\ y * bd \in Nat /\ u * ad \in Nat /\ q * cd \in Nat
    BY <1>1
  <2> QED BY <1>2, <1>3, <1>4, <2>1
<1>6. ASSUME y <= x PROVE FALSE
  <2>1. y * bd <= x * bd
    BY <1>1, <1>6
  <2>2. x * bd \in Nat /\ y * bd \in Nat
    BY <1>1
  <2> QED BY <1>5, <2>1, <2>2
<1> QED BY <1>1, <1>6 DEF x, y

(***************************************************************************)
(* Lists                                                                   *)
(***************************************************************************)

\* q holds every element of S once, and nothing else.
IsListOf(q, S) ==
  /\ q \in Seq(S)
  /\ \A x \in S : \E n \in 1..Len(q) : q[n] = x
  /\ \A m, n \in 1..Len(q) : q[m] = q[n] => m = n

\* The empty list.
LEMMA EmptyList == IsListOf(<< >>, {})
BY DEF IsListOf

\* The list of an empty set.
LEMMA ListOfNothing ==
  ASSUME NEW S, IsListOf(<< >>, S)
  PROVE  S = {}
BY DEF IsListOf

\* One list after another.
LEMMA ConcatLists ==
  ASSUME NEW q, NEW S, NEW r, NEW T, IsListOf(q, S), IsListOf(r, T), S \cap T = {}
  PROVE  IsListOf(q \o r, S \cup T)
<1>1. /\ q \in Seq(S) /\ r \in Seq(T) /\ q \in Seq(S \cup T) /\ r \in Seq(S \cup T)
      /\ Len(q) \in Nat /\ Len(r) \in Nat
  BY DEF IsListOf
<1> DEFINE c == q \o r
<1>2. c \in Seq(S \cup T) /\ Len(c) = Len(q) + Len(r)
  BY <1>1
<1>3. /\ \A n \in 1..Len(q) : c[n] = q[n] /\ q[n] \in S
      /\ \A n \in 1..Len(r) : c[Len(q) + n] = r[n] /\ r[n] \in T
  BY <1>1
<1> HIDE DEF c
<1>4. \A n \in 1..Len(c) : n \in 1..Len(q) \/ \E k \in 1..Len(r) : n = Len(q) + k
  <2> SUFFICES ASSUME NEW n \in 1..Len(c), n \notin 1..Len(q) PROVE \E k \in 1..Len(r) : n = Len(q) + k
    OBVIOUS
  <2> DEFINE k == n - Len(q)
  <2>1. k \in 1..Len(r) /\ n = Len(q) + k
    BY <1>1, <1>2
  <2> QED BY <2>1
<1>5. ASSUME NEW x \in S \cup T PROVE \E n \in 1..Len(c) : c[n] = x
  <2>1. CASE x \in S
    <3>1. PICK n \in 1..Len(q) : q[n] = x
      BY <2>1 DEF IsListOf
    <3>2. n \in 1..Len(c)
      BY <1>1, <1>2
    <3> QED BY <1>3, <3>1, <3>2
  <2>2. CASE x \in T
    <3>1. PICK n \in 1..Len(r) : r[n] = x
      BY <2>2 DEF IsListOf
    <3>2. Len(q) + n \in 1..Len(c)
      BY <1>1, <1>2
    <3> QED BY <1>3, <3>1, <3>2
  <2> QED BY <2>1, <2>2
<1>6. ASSUME NEW m \in 1..Len(c), NEW n \in 1..Len(c), c[m] = c[n] PROVE m = n
  <2>1. CASE m \in 1..Len(q) /\ n \in 1..Len(q)
    <3>1. q[m] = q[n]
      BY <1>3, <1>6, <2>1
    <3> QED BY <2>1, <3>1 DEF IsListOf
  <2>2. CASE m \notin 1..Len(q) /\ n \notin 1..Len(q)
    <3>1. PICK e \in 1..Len(r) : m = Len(q) + e
      BY <1>4, <2>2
    <3>2. PICK f \in 1..Len(r) : n = Len(q) + f
      BY <1>4, <2>2
    <3>3. r[e] = r[f]
      BY <1>3, <1>6, <3>1, <3>2
    <3>4. e = f
      BY <3>3 DEF IsListOf
    <3> QED BY <3>1, <3>2, <3>4
  <2>3. CASE m \in 1..Len(q) /\ n \notin 1..Len(q)
    <3>1. c[m] \in S
      BY <1>3, <2>3
    <3>2. c[n] \in T
      BY <1>3, <1>4, <2>3
    <3> QED BY <1>6, <3>1, <3>2
  <2>4. CASE m \notin 1..Len(q) /\ n \in 1..Len(q)
    <3>1. c[n] \in S
      BY <1>3, <2>4
    <3>2. c[m] \in T
      BY <1>3, <1>4, <2>4
    <3> QED BY <1>6, <3>1, <3>2
  <2> QED BY <2>1, <2>2, <2>3, <2>4
<1>7. IsListOf(c, S \cup T)
  BY <1>2, <1>5, <1>6 DEF IsListOf
<1> QED BY <1>7 DEF c

\* A list without its head.
LEMMA TailList ==
  ASSUME NEW q, NEW S, IsListOf(q, S), q # << >>
  PROVE  Head(q) \in S /\ IsListOf(Tail(q), S \ {Head(q)})
<1>1. q \in Seq(S) /\ Len(q) \in Nat \ {0} /\ Head(q) = q[1]
  BY DEF IsListOf
<1> DEFINE t == Tail(q)
           h == Head(q)
<1>2. /\ Len(t) = Len(q) - 1 /\ t \in Seq(S)
      /\ \A n \in 1..Len(t) : t[n] = q[n + 1] /\ n + 1 \in 1..Len(q) /\ n + 1 # 1
  BY <1>1
<1>3. h \in S /\ h = q[1] /\ 1 \in 1..Len(q)
  BY <1>1
<1> HIDE DEF t, h
<1>4. \A n \in 1..Len(t) : t[n] \in S \ {h}
  <2> SUFFICES ASSUME NEW n \in 1..Len(t) PROVE t[n] \in S \ {h}
    OBVIOUS
  <2>1. t[n] = q[n + 1] /\ n + 1 \in 1..Len(q) /\ n + 1 # 1 /\ t[n] \in S
    BY <1>2
  <2>2. q[n + 1] # q[1]
    BY <1>3, <2>1 DEF IsListOf
  <2> QED BY <1>3, <2>1, <2>2
<1>5. t \in Seq(S \ {h})
  BY <1>2, <1>4
<1>6. ASSUME NEW x \in S \ {h} PROVE \E n \in 1..Len(t) : t[n] = x
  <2>1. PICK n \in 1..Len(q) : q[n] = x
    BY DEF IsListOf
  <2>2. n # 1
    BY <1>3, <2>1
  <2>3. n - 1 \in 1..Len(t) /\ (n - 1) + 1 = n
    BY <1>1, <1>2, <2>2
  <2>4. t[n - 1] = x
    BY <1>2, <2>1, <2>3
  <2> QED BY <2>3, <2>4
<1>7. ASSUME NEW m \in 1..Len(t), NEW n \in 1..Len(t), t[m] = t[n] PROVE m = n
  <2>1. q[m + 1] = q[n + 1] /\ m + 1 \in 1..Len(q) /\ n + 1 \in 1..Len(q)
    BY <1>2, <1>7
  <2>2. m + 1 = n + 1
    BY <2>1 DEF IsListOf
  <2>3. m \in Int /\ n \in Int
    OBVIOUS
  <2> QED BY <2>2, <2>3
<1>8. IsListOf(t, S \ {h})
  BY <1>5, <1>6, <1>7 DEF IsListOf
<1> QED BY <1>3, <1>8 DEF t, h
=============================================================================
