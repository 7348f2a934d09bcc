------------------------ MODULE ForwardKernelsProofs ------------------------
(***************************************************************************)
(* Theorems about both implementations of the forward pass, for every      *)
(* launch, every number of resident blocks and every size of the thread    *)
(* blocks: what they store is what AttentionOutput prescribes, where it    *)
(* prescribes it.  They rest on lemmas about the addresses of a launch:    *)
(* distinct rows of a tensor never overlap, in either layout, packed or    *)
(* not.  And, for the fused grid, the causal load balance of kernel.cpp.   *)
(***************************************************************************)
EXTENDS ForwardKernels, BasicFacts, FiniteSetTheorems

(***************************************************************************)
(* The offset table                                                        *)
(***************************************************************************)

\* f holds the sums of the first n elements of s, for n up to N.
SumsOf(f, s, N) == /\ f \in [0..N -> Nat] /\ f[0] = 0
                   /\ \A n \in 1..N : f[n] = f[n - 1] + s[n]

\* Sums of any number of elements exist.
LEMMA SumsExist ==
  ASSUME NEW N \in Nat, NEW s \in [1..N -> Nat]
  PROVE  \A n \in 0..N : \E f : SumsOf(f, s, n)
<1> DEFINE T == {n \in Nat : n <= N => \E f : SumsOf(f, s, n)}
<1>1. 0 \in T
  <2> DEFINE g == [k \in 0..0 |-> 0]
  <2>1. SumsOf(g, s, 0)
    BY DEF SumsOf
  <2> QED BY <2>1
<1>2. ASSUME NEW n \in T PROVE n + 1 \in T
  <2> SUFFICES ASSUME n + 1 <= N PROVE \E f : SumsOf(f, s, n + 1)
    OBVIOUS
  <2>1. PICK f : SumsOf(f, s, n)
    OBVIOUS
  <2>2. n \in Nat /\ s[n + 1] \in Nat /\ f[n] \in Nat
    BY <2>1 DEF SumsOf
  <2> DEFINE g == [k \in 0..(n + 1) |-> IF k = n + 1 THEN f[n] + s[n + 1] ELSE f[k]]
  <2>3. g \in [0..(n + 1) -> Nat] /\ g[0] = 0
    BY <2>1, <2>2 DEF SumsOf
  <2>4. ASSUME NEW k \in 1..(n + 1) PROVE g[k] = g[k - 1] + s[k]
    <3>1. CASE k = n + 1
      BY <2>2, <3>1
    <3>2. CASE k # n + 1
      BY <2>1, <2>2, <3>2 DEF SumsOf
    <3> QED BY <3>1, <3>2
  <2>5. SumsOf(g, s, n + 1)
    BY <2>3, <2>4 DEF SumsOf
  <2> QED BY <2>5
<1> HIDE DEF T
<1>3. T = Nat
  BY <1>1, <1>2, NaturalInduction DEF T
<1>4. ASSUME NEW n \in 0..N PROVE \E f : SumsOf(f, s, n)
  <2>1. n \in T /\ n <= N
    BY <1>3
  <2> QED BY <2>1 DEF T
<1> QED BY <1>4

\* The offset table of packed sequences holds the sums of their lengths.
LEMMA OffsetsAreSums ==
  ASSUME NEW p, p.varlen_seqs \in Seq(Nat)
  PROVE  SumsOf(offsets(p), p.varlen_seqs, Len(p.varlen_seqs))
<1> DEFINE s == p.varlen_seqs
            N == Len(s)
            F(g) == [n \in 0..N |-> IF n = 0 THEN 0 ELSE g[n - 1] + s[n]]
<1>1. N \in Nat /\ s \in [1..N -> Nat]
  OBVIOUS
<1>2. PICK f : SumsOf(f, s, N)
  BY <1>1, SumsExist
<1>3. f = F(f)
  BY <1>1, <1>2 DEF SumsOf
<1>4. offsets(p) = CHOOSE g : g = F(g)
  BY Zenon DEF offsets
<1>5. offsets(p) = F(offsets(p))
  BY <1>3, <1>4, Zenon
<1> DEFINE off == offsets(p)
<1> HIDE DEF s, N
<1>6. off = [n \in 0..N |-> IF n = 0 THEN 0 ELSE off[n - 1] + s[n]]
  BY <1>5
<1> HIDE DEF off, F
<1>7. off[0] = 0 /\ \A n \in 1..N : off[n] = off[n - 1] + s[n]
  <2>1. 0 \in 0..N /\ \A n \in 1..N : n \in 0..N /\ n # 0
    BY <1>1
  <2> QED BY <1>6, <2>1
<1>8. \A n \in 0..N : off[n] \in Nat
  <2> DEFINE T == {n \in Nat : n <= N => off[n] \in Nat}
  <2>1. 0 \in T
    BY <1>7
  <2>2. ASSUME NEW n \in T PROVE n + 1 \in T
    <3> SUFFICES ASSUME n + 1 <= N PROVE off[n + 1] \in Nat
      OBVIOUS
    <3>1. n + 1 \in 1..N /\ (n + 1) - 1 = n /\ s[n + 1] \in Nat /\ off[n] \in Nat
      BY <1>1
    <3> QED BY <1>7, <3>1
  <2> HIDE DEF T
  <2>3. T = Nat
    BY <2>1, <2>2, NaturalInduction DEF T
  <2> QED BY <1>1, <2>3 DEF T
<1>9. DOMAIN off = 0..N /\ off \in [0..N -> Nat]
  BY <1>6, <1>8
<1> QED BY <1>7, <1>9 DEF SumsOf, off, s, N

\* Offsets never decrease.
LEMMA OffsetsMonotone ==
  ASSUME NEW N \in Nat, NEW s \in [1..N -> Nat], NEW f, SumsOf(f, s, N),
         NEW a \in 0..N, NEW b \in 0..N, a <= b
  PROVE  f[a] <= f[b]
<1> DEFINE T == {n \in Nat : a + n <= N => f[a] <= f[a + n]}
<1>1. f \in [0..N -> Nat] /\ a \in Nat /\ b \in Nat
  BY DEF SumsOf
<1>2. 0 \in T
  BY <1>1
<1>3. ASSUME NEW n \in T PROVE n + 1 \in T
  <2> SUFFICES ASSUME a + (n + 1) <= N PROVE f[a] <= f[a + (n + 1)]
    OBVIOUS
  <2> DEFINE k == a + (n + 1)
  <2>1. /\ k \in 1..N /\ k - 1 = a + n /\ k - 1 \in 0..N /\ k \in 0..N
    BY <1>1
  <2>2. f[a] <= f[k - 1]
    BY <2>1
  <2> HIDE DEF k
  <2>3. f[k] = f[k - 1] + s[k] /\ s[k] \in Nat /\ f[k - 1] \in Nat /\ f[a] \in Nat /\ f[k] \in Nat
    BY <1>1, <2>1 DEF SumsOf
  <2>4. f[a] <= f[k]
    BY <2>2, <2>3
  <2> QED BY <2>4 DEF k
<1> HIDE DEF T
<1>4. T = Nat
  BY <1>2, <1>3, NaturalInduction DEF T
<1>5. b - a \in T /\ a + (b - a) = b
  BY <1>1, <1>4
<1> QED BY <1>1, <1>5 DEF T

(***************************************************************************)
(* Tokens                                                                  *)
(***************************************************************************)

\* Tokens of sequence b, and the number of its row i in the order of the tokens.
SeqLen(p, len, b) == IF varlen_mode(p) THEN p.varlen_seqs[b + 1] ELSE len

Token(p, len, b, i) == IF varlen_mode(p) THEN offsets(p)[b] + i ELSE b * len + i

\* What the kernels and the references know about the offset table.
LEMMA Offsets ==
  ASSUME NEW p \in Problems, varlen_mode(p)
  PROVE  /\ p.batch = Len(p.varlen_seqs) /\ p.batch \in Nat
         /\ p.varlen_seqs \in [1..p.batch -> Nat]
         /\ SumsOf(offsets(p), p.varlen_seqs, p.batch)
         /\ total_seqlen(p) = offsets(p)[p.batch] /\ total_seqlen(p) \in Nat
<1>1. p.varlen_seqs \in Seq(Nat) /\ p.batch = Len(p.varlen_seqs)
  BY ProblemsAssumption
<1>2. SumsOf(offsets(p), p.varlen_seqs, p.batch)
  BY <1>1, OffsetsAreSums
<1>3. p.batch \in Nat /\ p.batch \in 0..p.batch
  BY <1>1
<1>4. p.varlen_seqs \in [1..p.batch -> Nat]
  BY <1>1
<1>5. offsets(p)[p.batch] \in Nat
  BY <1>2, <1>3 DEF SumsOf
<1>6. total_seqlen(p) = offsets(p)[p.batch]
  BY <1>1 DEF total_seqlen
<1> QED BY <1>1, <1>2, <1>3, <1>4, <1>5, <1>6

\* The tokens of the sequences follow each other without overlap.
LEMMA TokensOfSequence ==
  ASSUME NEW p \in Problems, NEW len \in Nat, NEW b \in 0..(p.batch - 1),
         NEW i \in Nat, i < SeqLen(p, len, b)
  PROVE  Token(p, len, b, i) \in 0..(Tokens(p, len) - 1)
<1>1. p.batch \in Nat /\ b \in Nat /\ b + 1 <= p.batch
  BY ProblemsAssumption
<1>2. CASE varlen_mode(p)
  <2> DEFINE off == offsets(p)
              s == p.varlen_seqs
              N == p.batch
  <2>1. /\ s \in [1..N -> Nat] /\ SumsOf(off, s, N)
        /\ total_seqlen(p) = off[N] /\ Tokens(p, len) = off[N]
    BY <1>2, Offsets DEF Tokens
  <2>2. Token(p, len, b, i) = off[b] + i /\ i < s[b + 1]
    BY <1>2 DEF Token, SeqLen
  <2> HIDE DEF off, s, N
  <2>3. b + 1 \in 1..N /\ (b + 1) - 1 = b /\ b + 1 \in 0..N /\ N \in 0..N /\ N \in Nat /\ b \in 0..N
    BY <1>1 DEF N
  <2>4. off[b + 1] = off[b] + s[b + 1] /\ off[b] \in Nat /\ off[b + 1] \in Nat /\ s[b + 1] \in Nat /\ off[N] \in Nat
    BY <2>1, <2>3 DEF SumsOf
  <2>5. off[b + 1] <= off[N]
    BY <2>1, <2>3, OffsetsMonotone
  <2> QED BY <2>1, <2>2, <2>4, <2>5, SMTT(30)
<1>3. CASE ~varlen_mode(p)
  <2> DEFINE N == p.batch
  <2>1. Token(p, len, b, i) = b * len + i /\ Tokens(p, len) = N * len /\ i < len
    BY <1>3 DEF Token, Tokens, SeqLen
  <2> HIDE DEF N
  <2>2. N \in Nat /\ b + 1 <= N
    BY <1>1 DEF N
  <2>3. (b + 1) * len <= N * len
    BY <1>1, <2>2
  <2>4. (b + 1) * len = b * len + len /\ b * len \in Nat /\ N * len \in Nat
    BY <1>1, <2>2
  <2> QED BY <2>1, <2>3, <2>4
<1> QED BY <1>2, <1>3

\* No two rows of the sequences are the same token.
LEMMA TokensDistinct ==
  ASSUME NEW p \in Problems, NEW len \in Nat,
         NEW b \in 0..(p.batch - 1), NEW i \in Nat, i < SeqLen(p, len, b),
         NEW c \in 0..(p.batch - 1), NEW j \in Nat, j < SeqLen(p, len, c),
         Token(p, len, b, i) = Token(p, len, c, j)
  PROVE  b = c /\ i = j
<1>1. CASE varlen_mode(p)
  <2> DEFINE off == offsets(p)
              s == p.varlen_seqs
              N == p.batch
  <2>1. s \in [1..N -> Nat] /\ SumsOf(off, s, N) /\ N \in Nat
    BY <1>1, Offsets
  <2>2. off[b] + i = off[c] + j /\ i < s[b + 1] /\ j < s[c + 1]
    BY <1>1 DEF Token, SeqLen
  <2>3. b \in 0..(N - 1) /\ c \in 0..(N - 1)
    OBVIOUS
  <2> HIDE DEF off, s, N
  <2>4. ASSUME NEW d \in 0..(N - 1), NEW e \in 0..(N - 1), NEW k \in Nat, NEW l \in Nat,
               off[d] + k = off[e] + l, k < s[d + 1], d < e
        PROVE  FALSE
    <3>1. /\ d + 1 \in 1..N /\ d + 1 \in 0..N /\ (d + 1) - 1 = d /\ e \in 0..N /\ d \in 0..N
          /\ d + 1 <= e
      BY <2>1, <2>4
    <3>2. off[d + 1] = off[d] + s[d + 1] /\ off[d] \in Nat /\ off[e] \in Nat /\ s[d + 1] \in Nat
      BY <2>1, <3>1 DEF SumsOf
    <3>3. off[d + 1] <= off[e]
      BY <2>1, <3>1, OffsetsMonotone
    <3> QED BY <2>4, <3>2, <3>3
  <2>5. ~(b < c) /\ ~(c < b)
    BY <2>2, <2>3, <2>4
  <2>6. b = c
    BY <2>1, <2>3, <2>5
  <2>7. off[b] \in Nat
    BY <2>1, <2>3 DEF SumsOf
  <2> QED BY <2>2, <2>6, <2>7
<1>2. CASE ~varlen_mode(p)
  <2>1. b * len + i = c * len + j /\ i \in 0..(len - 1) /\ j \in 0..(len - 1)
    BY <1>2 DEF Token, SeqLen
  <2>2. b \in Nat /\ c \in Nat
    BY ProblemsAssumption
  <2> QED BY <2>1, <2>2, TwoDigits
<1> QED BY <1>1, <1>2

(***************************************************************************)
(* Rows of a tensor                                                        *)
(***************************************************************************)

\* The number of a row in the order a tensor keeps its rows in.
RowIndex(p, heads, len, b, h, i) ==
  IF p.layout = "BSHD" THEN Token(p, len, b, i) * heads + h
  ELSE IF varlen_mode(p) THEN h * Tokens(p, len) + Token(p, len, b, i)
  ELSE (b * heads + h) * len + i

\* A row starts at a multiple of the row width.
LEMMA RowOffsetIsIndex ==
  ASSUME NEW p, NEW heads, NEW len, NEW b, NEW h, NEW i
  PROVE  RowOffset(p, heads, len, b, h, i)
         = RowIndex(p, heads, len, b, h, i) * hdim_dispatch(p)
BY DEF RowOffset, RowIndex, Token, Tokens

\* Rows lie within their tensor.
LEMMA RowIndexBound ==
  ASSUME NEW p \in Problems, NEW heads \in Nat, NEW len \in Nat,
         NEW b \in 0..(p.batch - 1), NEW h \in 0..(heads - 1),
         NEW i \in Nat, i < SeqLen(p, len, b)
  PROVE  RowIndex(p, heads, len, b, h, i) \in 0..(heads * Tokens(p, len) - 1)
<1> DEFINE token == Token(p, len, b, i)
            total == Tokens(p, len)
<1>1. token \in 0..(total - 1)
  BY TokensOfSequence
<1>2. p.batch \in Nat
  BY ProblemsAssumption
<1>3. total \in Nat
  BY <1>2, Offsets DEF Tokens
<1> HIDE DEF token, total
<1>4. token * heads + h \in 0..(total * heads - 1)
  BY <1>1, <1>3, TwoDigitsBound
<1>5. h * total + token \in 0..(heads * total - 1)
  BY <1>1, <1>3, TwoDigitsBound
<1>6. heads * total = total * heads
  BY <1>3
<1>7. ASSUME ~varlen_mode(p) PROVE (b * heads + h) * len + i \in 0..(heads * total - 1)
  <2>1. i \in 0..(len - 1) /\ total = p.batch * len
    BY <1>7 DEF SeqLen, total, Tokens
  <2>2. b * heads + h \in 0..(p.batch * heads - 1) /\ p.batch * heads \in Nat
    BY <1>2, TwoDigitsBound
  <2>3. (b * heads + h) * len + i \in 0..((p.batch * heads) * len - 1)
    BY <2>1, <2>2, TwoDigitsBound
  <2>4. (p.batch * heads) * len = heads * (p.batch * len)
    BY <1>2
  <2> QED BY <2>1, <2>3, <2>4
<1> QED BY <1>4, <1>5, <1>6, <1>7 DEF RowIndex, token, total

\* No two rows of a tensor are the same place.
LEMMA RowIndexDistinct ==
  ASSUME NEW p \in Problems, NEW heads \in Nat, NEW len \in Nat,
         NEW b \in 0..(p.batch - 1), NEW h \in 0..(heads - 1),
         NEW i \in Nat, i < SeqLen(p, len, b),
         NEW c \in 0..(p.batch - 1), NEW g \in 0..(heads - 1),
         NEW j \in Nat, j < SeqLen(p, len, c),
         RowIndex(p, heads, len, b, h, i) = RowIndex(p, heads, len, c, g, j)
  PROVE  b = c /\ h = g /\ i = j
<1> DEFINE x == Token(p, len, b, i)
            y == Token(p, len, c, j)
            total == Tokens(p, len)
<1>1. x \in 0..(total - 1) /\ y \in 0..(total - 1)
  BY TokensOfSequence
<1>2. p.batch \in Nat /\ b \in Nat /\ c \in Nat /\ h \in Nat /\ g \in Nat
  BY ProblemsAssumption
<1>3. total \in Nat
  BY <1>2, Offsets DEF Tokens
<1>4. x = y => b = c /\ i = j
  BY TokensDistinct
<1>5. CASE p.layout = "BSHD"
  <2>1. x * heads + h = y * heads + g
    BY <1>5 DEF RowIndex
  <2> HIDE DEF x, y, total
  <2>2. x \in Nat /\ y \in Nat
    BY <1>1
  <2>3. x = y /\ h = g
    BY <2>1, <2>2, TwoDigits
  <2> QED BY <1>4, <2>3
<1>6. CASE p.layout # "BSHD" /\ varlen_mode(p)
  <2>1. h * total + x = g * total + y
    BY <1>6 DEF RowIndex
  <2> HIDE DEF x, y, total
  <2>2. x = y /\ h = g
    BY <1>1, <1>2, <1>3, <2>1, TwoDigits
  <2> QED BY <1>4, <2>2
<1>7. CASE p.layout # "BSHD" /\ ~varlen_mode(p)
  <2>1. (b * heads + h) * len + i = (c * heads + g) * len + j
    BY <1>7 DEF RowIndex
  <2>2. i \in 0..(len - 1) /\ j \in 0..(len - 1)
    BY <1>7 DEF SeqLen
  <2>3. b * heads + h \in Nat /\ c * heads + g \in Nat
    BY <1>2
  <2>4. b * heads + h = c * heads + g /\ i = j
    BY <2>1, <2>2, <2>3, TwoDigits
  <2>5. b = c /\ h = g
    BY <1>2, <2>4, TwoDigits
  <2> QED BY <2>4, <2>5
<1> QED BY <1>5, <1>6, <1>7

(***************************************************************************)
(* The cells of the output                                                 *)
(***************************************************************************)

\* The followed rows, one by one.
LEMMA QueryRowsAre ==
  ASSUME NEW p \in Problems
  PROVE  \A r : r \in QueryRows(p) <=>
           \E b \in 0..(p.batch - 1), h \in 0..(p.q_heads - 1), i \in Nat :
             r = <<b, h, i>> /\ i < SeqLenQ(p, b) /\ i % kM0 \in Rows
<1>1. p.batch \in Nat /\ p.q_heads \in Nat /\ p.seq_len \in Nat
  BY ProblemsAssumption
<1>2. ASSUME NEW b \in 0..(p.batch - 1) PROVE SeqLenQ(p, b) \in Nat /\ SeqLenQ(p, b) <= p.seq_len
  <2>1. CASE varlen_mode(p)
    <3>1. p.varlen_seqs \in [1..p.batch -> Nat] /\ \A n \in 1..p.batch : p.varlen_seqs[n] <= p.seq_len
      BY <2>1, Offsets, ProblemsAssumption
    <3>2. b + 1 \in 1..p.batch
      BY <1>1
    <3> QED BY <2>1, <3>1, <3>2 DEF SeqLenQ
  <2>2. CASE ~varlen_mode(p)
    BY <1>1, <2>2 DEF SeqLenQ
  <2> QED BY <2>1, <2>2
<1>3. ASSUME NEW r \in QueryRows(p)
      PROVE  \E b \in 0..(p.batch - 1), h \in 0..(p.q_heads - 1), i \in Nat :
               r = <<b, h, i>> /\ i < SeqLenQ(p, b) /\ i % kM0 \in Rows
  BY <1>1 DEF QueryRows
<1>4. ASSUME NEW b \in 0..(p.batch - 1), NEW h \in 0..(p.q_heads - 1), NEW i \in Nat,
             i < SeqLenQ(p, b), i % kM0 \in Rows
      PROVE  <<b, h, i>> \in QueryRows(p)
  <2> DEFINE followed == {k \in 0..p.seq_len : k % kM0 \in Rows}
  <2>1. i \in {k \in followed : k < SeqLenQ(p, b)}
    BY <1>1, <1>2, <1>4
  <2>2. <<b, h, i>> \in {b} \X (0..p.q_heads - 1) \X {k \in followed : k < SeqLenQ(p, b)}
    BY <2>1
  <2> QED BY <2>2 DEF QueryRows
<1> QED BY <1>3, <1>4

\* The number of a query row in O, and, as only the runner's own layout comes
\* with LSE, in LSE.
QIndex(p, r) == RowIndex(p, p.q_heads, p.seq_len, r[1], r[2], r[3])

\* Rows of O have numbers of their own, and start at that multiple of the row
\* width; the LSE of a row is at its number.
LEMMA QIndexFacts ==
  ASSUME NEW p \in Problems
  PROVE  /\ \A r \in QueryRows(p) : QIndex(p, r) \in 0..(p.q_heads * Tokens(p, p.seq_len) - 1)
         /\ \A r, t \in QueryRows(p) : QIndex(p, r) = QIndex(p, t) => r = t
         /\ \A r \in QueryRows(p) : QAddress[p][r] = QIndex(p, r) * hdim_dispatch(p)
         /\ p.lse => \A r \in QueryRows(p) : LseOffset(p, r[1], r[2], r[3]) = QIndex(p, r)
<1>1. p.q_heads \in Nat /\ p.seq_len \in Nat
  BY ProblemsAssumption
<1>2. \A b : SeqLenQ(p, b) = SeqLen(p, p.seq_len, b)
  BY DEF SeqLenQ, SeqLen
<1>3. ASSUME NEW r \in QueryRows(p)
      PROVE  QIndex(p, r) \in 0..(p.q_heads * Tokens(p, p.seq_len) - 1)
  <2>1. PICK b \in 0..(p.batch - 1), h \in 0..(p.q_heads - 1), i \in Nat :
          r = <<b, h, i>> /\ i < SeqLenQ(p, b)
    BY QueryRowsAre
  <2>2. RowIndex(p, p.q_heads, p.seq_len, b, h, i) \in 0..(p.q_heads * Tokens(p, p.seq_len) - 1)
    BY <1>1, <1>2, <2>1, RowIndexBound
  <2> QED BY <2>1, <2>2 DEF QIndex
<1>4. ASSUME NEW r \in QueryRows(p), NEW t \in QueryRows(p), QIndex(p, r) = QIndex(p, t)
      PROVE  r = t
  <2>1. PICK b \in 0..(p.batch - 1), h \in 0..(p.q_heads - 1), i \in Nat :
          r = <<b, h, i>> /\ i < SeqLenQ(p, b)
    BY QueryRowsAre
  <2>2. PICK c \in 0..(p.batch - 1), g \in 0..(p.q_heads - 1), j \in Nat :
          t = <<c, g, j>> /\ j < SeqLenQ(p, c)
    BY QueryRowsAre
  <2>3. RowIndex(p, p.q_heads, p.seq_len, b, h, i) = RowIndex(p, p.q_heads, p.seq_len, c, g, j)
    BY <1>4, <2>1, <2>2 DEF QIndex
  <2>4. b = c /\ h = g /\ i = j
    BY <1>1, <1>2, <2>1, <2>2, <2>3, RowIndexDistinct, SMTT(30)
  <2> QED BY <2>1, <2>2, <2>4
<1>5. ASSUME NEW r \in QueryRows(p) PROVE QAddress[p][r] = QIndex(p, r) * hdim_dispatch(p)
  BY RowOffsetIsIndex DEF QAddress, QOffset, QIndex
<1>6. ASSUME p.lse, NEW r \in QueryRows(p) PROVE LseOffset(p, r[1], r[2], r[3]) = QIndex(p, r)
  <2>1. p.layout # "BSHD"
    BY <1>6, ProblemsAssumption
  <2>2. PICK b \in 0..(p.batch - 1), h \in 0..(p.q_heads - 1), i \in Nat : r = <<b, h, i>>
    BY QueryRowsAre
  <2>3. CASE varlen_mode(p)
    <3>1. total_seqlen(p) \in Nat /\ offsets(p)[b] \in Nat
      <4>1. /\ SumsOf(offsets(p), p.varlen_seqs, p.batch) /\ total_seqlen(p) \in Nat
            /\ p.batch \in Nat
        BY <2>3, Offsets
      <4>2. b \in 0..p.batch
        BY <4>1
      <4> QED BY <4>1, <4>2 DEF SumsOf
    <3> QED BY <2>1, <2>2, <2>3, <3>1 DEF LseOffset, QIndex, RowIndex, Token, Tokens
  <2>4. CASE ~varlen_mode(p)
    BY <2>1, <2>4 DEF LseOffset, QIndex, RowIndex
  <2> QED BY <2>3, <2>4
<1> QED BY <1>3, <1>4, <1>5, <1>6

\* A cell of the output is as wide as its row.
CellWidth(p, kind) == IF kind = "O" THEN hdim_dispatch(p) ELSE 1

Kinds(p) == IF p.lse THEN {"O", "LSE"} ELSE {"O"}

\* Cells of a tensor never overlap and lie within it, at multiples of their
\* width.
LEMMA CellsApart ==
  ASSUME NEW p \in Problems, NEW kind \in Kinds(p)
  PROVE  /\ \A r \in QueryRows(p) :
              LET a == CellAddress[p][<<kind, r>>]
              IN  /\ a \in Nat /\ a % CellWidth(p, kind) = 0
                  /\ a < (IF kind = "O" THEN sz_O(p) ELSE sz_LSE(p))
         /\ \A r, t \in QueryRows(p) :
              LET a == CellAddress[p][<<kind, r>>]
                  b == CellAddress[p][<<kind, t>>]
              IN  r # t => a + CellWidth(p, kind) <= b \/ b + CellWidth(p, kind) <= a
         /\ CellWidth(p, kind) \in Nat \ {0}
<1> DEFINE D == CellWidth(p, kind)
            at(r) == CellAddress[p][<<kind, r>>]
            rows == p.q_heads * Tokens(p, p.seq_len)
            size == IF kind = "O" THEN sz_O(p) ELSE sz_LSE(p)
<1>1. D \in Nat \ {0}
  BY ProblemsAssumption DEF CellWidth, hdim_dispatch
<1>2. kind \in {"O", "LSE"} /\ (kind = "LSE" => p.lse)
  BY DEF Kinds
<1>3. \A r \in QueryRows(p) : at(r) = QIndex(p, r) * D
  <2> SUFFICES ASSUME NEW r \in QueryRows(p) PROVE at(r) = QIndex(p, r) * D
    OBVIOUS
  <2>1. <<kind, r>> \in {"O", "LSE"} \X QueryRows(p)
    BY <1>2
  <2>2. QIndex(p, r) \in Int
    BY QIndexFacts
  <2>3. CASE kind = "O"
    BY <2>1, <2>3, QIndexFacts DEF CellAddress, CellWidth
  <2>4. CASE kind = "LSE"
    BY <1>2, <2>1, <2>2, <2>4, QIndexFacts DEF CellAddress, CellWidth
  <2> QED BY <1>2, <2>3, <2>4
<1>4. \A r \in QueryRows(p) : QIndex(p, r) \in Nat /\ QIndex(p, r) + 1 <= rows
  <2>1. rows \in Nat
    BY ProblemsAssumption, Offsets DEF Tokens
  <2> QED BY <2>1, QIndexFacts
<1>5. size = rows * D /\ rows \in Nat
  <2>1. rows \in Nat
    BY ProblemsAssumption, Offsets DEF Tokens
  <2> QED BY <1>2, <2>1 DEF sz_O, sz_Q, sz_LSE, CellWidth
<1> HIDE DEF D, at, rows, size
<1>6. ASSUME NEW r \in QueryRows(p) PROVE at(r) \in Nat /\ at(r) % D = 0 /\ at(r) < size
  <2> DEFINE x == QIndex(p, r)
  <2>1. x \in Nat /\ x + 1 <= rows /\ at(r) = x * D
    BY <1>3, <1>4
  <2> HIDE DEF x
  <2>2. (x * D) % D = 0
    BY <1>1, <2>1, Multiples
  <2>3. (x + 1) * D <= rows * D /\ (x + 1) * D = x * D + D
    BY <1>1, <1>5, <2>1
  <2>4. x * D \in Nat
    BY <1>1, <2>1
  <2> QED BY <1>1, <1>5, <2>1, <2>2, <2>3, <2>4
<1>7. ASSUME NEW r \in QueryRows(p), NEW t \in QueryRows(p), r # t
      PROVE  at(r) + D <= at(t) \/ at(t) + D <= at(r)
  <2>1. QIndex(p, r) # QIndex(p, t)
    BY <1>7, QIndexFacts
  <2> QED BY <1>1, <1>3, <1>4, <2>1, MultiplesApart
<1> QED BY <1>1, <1>6, <1>7 DEF D, at, size

(***************************************************************************)
(* Memory that holds results only                                          *)
(***************************************************************************)

\* Whatever is stored is the result of a followed row, at its own place.
Sound(mem, kind) ==
  \A a \in DOMAIN mem :
    \E r \in QueryRows(problem) : /\ a = CellAddress[problem][<<kind, r>>]
                                  /\ mem[a] = RowResult[problem][r]

SoundMemory ==
  /\ problem \in Problems
  /\ Sound(o_mem, "O")
  /\ problem.lse => Sound(lse_mem, "LSE")
  /\ ~problem.lse => DOMAIN lse_mem = {}

\* Sound memory is nowhere outside the tensors.
LEMMA SoundIsNoStray == SoundMemory => NoStrayStore
<1> SUFFICES ASSUME SoundMemory PROVE NoStrayStore
  OBVIOUS
<1>1. ASSUME NEW a \in DOMAIN o_mem
      PROVE  a % hdim_dispatch(problem) = 0 /\ 0 <= a /\ a < sz_O(problem)
  <2>1. "O" \in Kinds(problem) /\ CellWidth(problem, "O") = hdim_dispatch(problem)
    BY DEF Kinds, CellWidth
  <2>2. PICK r \in QueryRows(problem) : a = CellAddress[problem][<<"O", r>>]
    BY DEF SoundMemory, Sound
  <2> QED BY <2>1, <2>2, CellsApart DEF SoundMemory
<1>2. ASSUME NEW a \in DOMAIN lse_mem PROVE 0 <= a /\ a < sz_LSE(problem)
  <2>1. problem.lse /\ "LSE" \in Kinds(problem)
    BY ProblemsAssumption DEF SoundMemory, Kinds
  <2>2. PICK r \in QueryRows(problem) : a = CellAddress[problem][<<"LSE", r>>]
    BY <2>1 DEF SoundMemory, Sound
  <2> QED BY <2>1, <2>2, CellsApart DEF SoundMemory
<1> QED BY <1>1, <1>2 DEF NoStrayStore

\* Where it is set, a cell has its value.
CellsHaveValues ==
  /\ DOMAIN Memory = DOMAIN Expected
  /\ \A cell \in DOMAIN Expected :
       LET mem  == IF cell[1] = "O" THEN o_mem ELSE lse_mem
           addr == CellAddress[problem][cell]
       IN  Memory[cell] = IF addr \in DOMAIN mem THEN Expected[cell] ELSE Unset

\* In sound memory, whatever is found at the address of a cell is its value.
LEMMA SoundCells == SoundMemory => CellsHaveValues
<1> SUFFICES ASSUME SoundMemory PROVE CellsHaveValues
  OBVIOUS
<1>1. DOMAIN Memory = DOMAIN Expected
  BY DEF Memory
<1>2. ASSUME NEW cell \in DOMAIN Expected
      PROVE  LET mem  == IF cell[1] = "O" THEN o_mem ELSE lse_mem
                 addr == CellAddress[problem][cell]
             IN  Memory[cell] = IF addr \in DOMAIN mem THEN Expected[cell] ELSE Unset
  <2> DEFINE mem  == IF cell[1] = "O" THEN o_mem ELSE lse_mem
              addr == CellAddress[problem][cell]
  <2>1. problem \in Problems /\ problem.lse \in BOOLEAN
    BY ProblemsAssumption DEF SoundMemory
  <2>2. cell \in Cells(problem) /\ Expected[cell] = RowResult[problem][cell[2]]
    BY <2>1 DEF Expected, Results
  <2>3. PICK kind \in Kinds(problem), r \in QueryRows(problem) : cell = <<kind, r>>
    BY <2>2 DEF Cells, Kinds
  <2>4. Memory[cell] = IF addr \in DOMAIN mem THEN mem[addr] ELSE Unset
    BY DEF Memory
  <2>5. ASSUME addr \in DOMAIN mem PROVE mem[addr] = Expected[cell]
    <3>1. PICK t \in QueryRows(problem) : /\ addr = CellAddress[problem][<<kind, t>>]
                                          /\ mem[addr] = RowResult[problem][t]
      <4>1. CASE kind = "O"
        BY <2>3, <2>5, <4>1 DEF SoundMemory, Sound
      <4>2. CASE kind # "O"
        <5>1. kind = "LSE" /\ problem.lse /\ cell[1] = "LSE"
          BY <2>1, <2>3, <4>2 DEF Kinds
        <5> QED BY <2>5, <5>1 DEF SoundMemory, Sound
      <4> QED BY <4>1, <4>2
    <3>2. t = r
      <4> DEFINE D == CellWidth(problem, kind)
      <4>1. /\ D \in Nat \ {0} /\ addr \in Nat
            /\ t # r => addr + D <= addr \/ addr + D <= addr
        BY <2>1, <2>3, <3>1, CellsApart
      <4> QED BY <4>1
    <3> QED BY <2>2, <2>3, <3>1, <3>2
  <2> QED BY <2>4, <2>5
<1> QED BY <1>1, <1>2 DEF CellsHaveValues

\* Memory that stays sound and loses nothing goes on as attention prescribes.
LEMMA SoundStepProduces ==
  ASSUME SoundMemory, SoundMemory', problem' = problem,
         DOMAIN o_mem \subseteq DOMAIN o_mem', DOMAIN lse_mem \subseteq DOMAIN lse_mem'
  PROVE  Output!Produce
<1>. CellsHaveValues
  BY SoundCells
<1>. CellsHaveValues'
  BY SoundCells, PTL
<1>1. Expected' = Expected
  BY DEF Expected
<1>2. DOMAIN Memory = DOMAIN Expected /\ DOMAIN Memory' = DOMAIN Expected
  BY <1>1 DEF Memory
<1>3. ASSUME NEW cell \in DOMAIN Expected
      PROVE  \/ Memory'[cell] = Memory[cell]
             \/ Memory[cell] = Unset /\ Memory'[cell] = Expected[cell]
  <2> DEFINE addr == CellAddress[problem][cell]
              before == addr \in DOMAIN (IF cell[1] = "O" THEN o_mem ELSE lse_mem)
              after  == addr \in DOMAIN (IF cell[1] = "O" THEN o_mem' ELSE lse_mem')
  <2>1. Memory[cell] = IF before THEN Expected[cell] ELSE Unset
    BY DEF CellsHaveValues
  <2>2. Memory'[cell] = IF after THEN Expected[cell] ELSE Unset
    BY <1>1 DEF CellsHaveValues
  <2>3. before => after
    OBVIOUS
  <2> QED BY <2>1, <2>2, <2>3
<1> QED BY <1>1, <1>2, <1>3 DEF Output!Produce

\* Unwritten memory is sound, and all its cells are unset.
LEMMA SoundInit == MemoryInit => SoundMemory /\ Output!Init
<1> SUFFICES ASSUME MemoryInit PROVE SoundMemory /\ Output!Init
  OBVIOUS
<1>1. /\ problem \in Problems /\ DOMAIN o_mem = {} /\ DOMAIN lse_mem = {}
  BY DEF MemoryInit
<1>2. SoundMemory
  BY <1>1 DEF SoundMemory, Sound
<1>3. Memory = [cell \in DOMAIN Expected |-> Unset]
  BY <1>1 DEF Memory
<1> QED BY <1>2, <1>3 DEF Output!Init

(***************************************************************************)
(* Reads and stores                                                        *)
(***************************************************************************)

\* The token a sequence starts at.
FirstToken(p, b) == IF varlen_mode(p) THEN offsets(p)[b] ELSE 0

\* It is a natural number.
LEMMA FirstTokenType ==
  ASSUME NEW p \in Problems, NEW b \in 0..(p.batch - 1)
  PROVE  FirstToken(p, b) \in Nat
<1>1. CASE varlen_mode(p)
  <2>1. SumsOf(offsets(p), p.varlen_seqs, p.batch) /\ p.batch \in Nat
    BY <1>1, Offsets
  <2>2. b \in 0..p.batch
    BY <2>1
  <2> QED BY <1>1, <2>1, <2>2 DEF SumsOf, FirstToken
<1> QED BY <1>1 DEF FirstToken

\* The strides a kernel is given lead to the row the references mean.
LEMMA StridedAddress ==
  ASSUME NEW p \in Problems, NEW heads \in Nat \ {0}, NEW len \in Nat,
         NEW b \in 0..(p.batch - 1), NEW h \in 0..(heads - 1), NEW i \in Nat
  PROVE  LET S == Strides(p, heads, len)
         IN  /\ S.seq \in Nat \ {0} /\ S.head \in Nat /\ S.batch \in Nat
             /\ varlen_mode(p) => S.batch = 0
             /\ b * S.batch + h * S.head + (FirstToken(p, b) + i) * S.seq
                = RowOffset(p, heads, len, b, h, i)
<1> DEFINE D == hdim_dispatch(p)
            f == FirstToken(p, b)
            S == Strides(p, heads, len)
            T == Tokens(p, len)
<1>1. D \in Nat \ {0}
  BY ProblemsAssumption DEF hdim_dispatch
<1>2. f \in Nat /\ b \in Nat /\ h \in Nat /\ p.batch \in Nat
  BY FirstTokenType, ProblemsAssumption
<1>3. T \in Nat
  BY <1>2, Offsets DEF Tokens
<1>4. RowOffset(p, heads, len, b, h, i) = RowIndex(p, heads, len, b, h, i) * D
  BY RowOffsetIsIndex
<1>5. CASE varlen_mode(p)
  <2>1. Token(p, len, b, i) = f + i
    BY <1>5 DEF Token, FirstToken
  <2>2. S.batch = 0 /\ b * 0 = 0
    BY <1>2, <1>5 DEF Strides
  <2>3. CASE p.layout = "BSHD"
    <3>1. S.seq = heads * D /\ S.head = D
      BY <2>3 DEF Strides
    <3>2. RowIndex(p, heads, len, b, h, i) = (f + i) * heads + h
      BY <2>1, <2>3 DEF RowIndex
    <3> HIDE DEF D, f, S
    <3>3. ((f + i) * heads + h) * D = h * D + (f + i) * (heads * D)
      BY <1>1, <1>2
    <3>4. heads * D \in Nat \ {0} /\ h * D \in Nat /\ (f + i) * (heads * D) \in Nat
      BY <1>1, <1>2
    <3> QED BY <1>1, <1>4, <2>2, <3>1, <3>2, <3>3, <3>4 DEF D, S, f
  <2>4. CASE p.layout # "BSHD"
    <3>1. S.seq = D /\ S.head = T * D
      BY <1>5, <2>4, ProblemsAssumption DEF Strides, Tokens
    <3>2. RowIndex(p, heads, len, b, h, i) = h * T + (f + i)
      BY <1>5, <2>1, <2>4 DEF RowIndex
    <3> HIDE DEF D, f, S, T
    <3>3. (h * T + (f + i)) * D = h * (T * D) + (f + i) * D
      BY <1>1, <1>2, <1>3
    <3>4. T * D \in Nat /\ h * (T * D) \in Nat /\ (f + i) * D \in Nat
      BY <1>1, <1>2, <1>3
    <3> QED BY <1>1, <1>4, <2>2, <3>1, <3>2, <3>3, <3>4 DEF D, S, f
  <2> QED BY <2>3, <2>4
<1>6. CASE ~varlen_mode(p)
  <2>1. Token(p, len, b, i) = b * len + i /\ f = 0 /\ S.batch = heads * len * D
    BY <1>6 DEF Token, FirstToken, Strides
  <2>2. CASE p.layout = "BSHD"
    <3>1. S.seq = heads * D /\ S.head = D
      BY <2>2 DEF Strides
    <3>2. RowIndex(p, heads, len, b, h, i) = (b * len + i) * heads + h
      BY <2>1, <2>2 DEF RowIndex
    <3> HIDE DEF D, f, S
    <3>3. ((b * len + i) * heads + h) * D = b * (heads * len * D) + h * D + i * (heads * D)
      BY <1>1, <1>2
    <3>4. /\ heads * D \in Nat \ {0} /\ heads * len * D \in Nat
          /\ 0 + i = i
      BY <1>1, <1>2
    <3> QED BY <1>1, <1>4, <1>6, <2>1, <3>1, <3>2, <3>3, <3>4 DEF D, S, f
  <2>3. CASE p.layout # "BSHD"
    <3>1. S.seq = D /\ S.head = len * D
      BY <1>6, <2>3, ProblemsAssumption DEF Strides
    <3>2. RowIndex(p, heads, len, b, h, i) = (b * heads + h) * len + i
      BY <1>6, <2>3 DEF RowIndex
    <3> HIDE DEF D, f, S
    <3>3. ((b * heads + h) * len + i) * D = b * (heads * len * D) + h * (len * D) + i * D
      BY <1>1, <1>2
    <3>4. /\ len * D \in Nat /\ heads * len * D \in Nat
          /\ 0 + i = i
      BY <1>1, <1>2
    <3> QED BY <1>1, <1>4, <1>6, <2>1, <3>1, <3>2, <3>3, <3>4 DEF D, S, f
  <2> QED BY <2>2, <2>3
<1> QED BY <1>5, <1>6

\* A read at the address of a query row finds that row.
LEMMA QueryRowFound ==
  ASSUME problem \in Problems, NEW r \in QueryRows(problem),
         NEW columns \in problem.head_dim..hdim_dispatch(problem)
  PROVE  QueryRowAt(QAddress[problem][r], columns) = r
<1> DEFINE addr == QAddress[problem][r]
            at   == {t \in DOMAIN QAddress[problem] : QAddress[problem][t] = addr}
<1>1. DOMAIN QAddress[problem] = QueryRows(problem)
  BY DEF QAddress
<1>2. hdim_dispatch(problem) \in Nat \ {0}
  BY ProblemsAssumption DEF hdim_dispatch
<1>3. ASSUME NEW t \in QueryRows(problem), QAddress[problem][t] = addr PROVE t = r
  <2> DEFINE x == QIndex(problem, t)
              y == QIndex(problem, r)
              D == hdim_dispatch(problem)
  <2>1. x * D = y * D
    BY <1>3, QIndexFacts
  <2>2. x \in Int /\ y \in Int /\ x >= 0 /\ y >= 0
    BY QIndexFacts
  <2>3. x = y => t = r
    BY QIndexFacts
  <2> HIDE DEF x, y, D
  <2>4. (x * D) \div D = x /\ (y * D) \div D = y
    BY <1>2, <2>2, Multiples DEF D
  <2> QED BY <2>1, <2>3, <2>4
<1>4. at = {r}
  BY <1>1, <1>3
<1> HIDE DEF at
<1>5. QueryRowAt(addr, columns) = CHOOSE t \in at : TRUE
  BY <1>4 DEF QueryRowAt, at
<1>6. (CHOOSE t \in at : TRUE) = r
  BY <1>4
<1> QED BY <1>5, <1>6

\* Reads of the first keys of a head, a row stride apart, find that head.
LEMMA KVHeadFound ==
  ASSUME problem \in Problems,
         NEW b \in 0..(problem.batch - 1), NEW h \in 0..(problem.kv_heads - 1),
         NEW base, NEW keys \in Nat \ {0}, keys <= SeqLenK(problem, b),
         base = KVOffset(problem, b, h, 0)
  PROVE  KVHeadAt(base, Strides(problem, problem.kv_heads, problem.kv_seq_len).seq, keys)
         = <<b, h>>
<1> DEFINE S  == Strides(problem, problem.kv_heads, problem.kv_seq_len)
            at == {g \in (0..problem.batch - 1) \X (0..problem.kv_heads - 1) :
                     /\ keys <= SeqLenK(problem, g[1])
                     /\ \A j \in {0, keys - 1} : base + j * S.seq = KVOffset(problem, g[1], g[2], j)}
            heads == problem.kv_heads
            len   == problem.kv_seq_len
            D     == hdim_dispatch(problem)
<1>1. heads \in Nat \ {0} /\ len \in Nat /\ D \in Nat \ {0} /\ problem.batch \in Nat
  BY ProblemsAssumption DEF hdim_dispatch
<1>2. ASSUME NEW j \in Nat PROVE base + j * S.seq = KVOffset(problem, b, h, j)
  <2> DEFINE f == FirstToken(problem, b)
              c == b * S.batch + h * S.head
  <2>1. f \in Nat /\ b \in Nat /\ h \in Nat
    BY <1>1, FirstTokenType
  <2>2. /\ S.seq \in Nat /\ S.head \in Nat /\ S.batch \in Nat
        /\ b * S.batch + h * S.head + (f + j) * S.seq = KVOffset(problem, b, h, j)
        /\ b * S.batch + h * S.head + (f + 0) * S.seq = KVOffset(problem, b, h, 0)
    BY <1>1, StridedAddress DEF KVOffset
  <2> HIDE DEF f, S
  <2>3. c \in Nat /\ f * S.seq \in Nat /\ j * S.seq \in Nat
    BY <2>1, <2>2
  <2>4. c + (f + j) * S.seq = KVOffset(problem, b, h, j) /\ c + f * S.seq = base
    BY <2>1, <2>2
  <2> HIDE DEF c
  <2>5. (f + j) * S.seq = f * S.seq + j * S.seq
    BY <2>1, <2>2
  <2> QED BY <2>3, <2>4, <2>5
<1>3. <<b, h>> \in at
  <2>1. \A j \in {0, keys - 1} : j \in Nat
    OBVIOUS
  <2> QED BY <1>2, <2>1
<1>4. ASSUME NEW g \in at PROVE g = <<b, h>>
  <2>1. PICK c \in 0..(problem.batch - 1), e \in 0..(problem.kv_heads - 1) : g = <<c, e>>
    OBVIOUS
  <2>2. keys <= SeqLenK(problem, c) /\ base + 0 * S.seq = KVOffset(problem, c, e, 0)
    BY <2>1
  <2>3. base + 0 * S.seq = KVOffset(problem, b, h, 0)
    BY <1>2
  <2>4. KVOffset(problem, c, e, 0) = KVOffset(problem, b, h, 0)
    BY <2>2, <2>3
  <2> DEFINE x == RowIndex(problem, heads, len, c, e, 0)
              y == RowIndex(problem, heads, len, b, h, 0)
  <2>5. x * D = y * D
    BY <2>4, RowOffsetIsIndex DEF KVOffset
  <2>6. /\ SeqLenK(problem, c) = SeqLen(problem, len, c)
        /\ SeqLenK(problem, b) = SeqLen(problem, len, b)
    BY DEF SeqLenK, SeqLen
  <2>7. SeqLen(problem, len, c) \in Nat /\ SeqLen(problem, len, b) \in Nat
    <3>1. ASSUME NEW d \in 0..(problem.batch - 1) PROVE SeqLen(problem, len, d) \in Nat
      <4>1. CASE varlen_mode(problem)
        <5>1. problem.varlen_seqs \in [1..problem.batch -> Nat]
          BY <4>1, Offsets
        <5>2. d + 1 \in 1..problem.batch
          BY <1>1
        <5> QED BY <4>1, <5>1, <5>2 DEF SeqLen
      <4> QED BY <1>1, <4>1 DEF SeqLen
    <3> QED BY <3>1
  <2>8. 0 < SeqLen(problem, len, c) /\ 0 < SeqLen(problem, len, b)
    BY <2>2, <2>6, <2>7
  <2>. b \in 0..(problem.batch - 1) /\ h \in 0..(heads - 1) /\ e \in 0..(heads - 1)
    OBVIOUS
  <2> HIDE DEF heads, len
  <2>9. x = y => c = b /\ e = h
    <3>1. ASSUME NEW i \in Nat, i < SeqLen(problem, len, c),
                 NEW j \in Nat, j < SeqLen(problem, len, b),
                 RowIndex(problem, heads, len, c, e, i) = RowIndex(problem, heads, len, b, h, j)
          PROVE  c = b /\ e = h
      BY SMTT(60), <1>1, <3>1, RowIndexDistinct
    <3> QED BY <2>8, <3>1
  <2>10. x \in Nat /\ y \in Nat
    <3> DEFINE T == Tokens(problem, len)
    <3>1. T \in Nat
      BY <1>1, Offsets, SMTT(30) DEF Tokens
    <3>2. x \in 0..(heads * T - 1) /\ y \in 0..(heads * T - 1)
      BY <1>1, <2>8, RowIndexBound
    <3> HIDE DEF x, y, T
    <3>3. heads * T \in Nat
      BY <1>1, <3>1
    <3> QED BY <3>2, <3>3
  <2> HIDE DEF x, y, D
  <2>11. (x * D) \div D = x /\ (y * D) \div D = y
    BY <1>1, <2>10, Multiples
  <2>12. c = b /\ e = h
    BY <2>5, <2>9, <2>11
  <2> QED BY <2>1, <2>12
<1>5. at = {<<b, h>>}
  BY <1>3, <1>4
<1> HIDE DEF at
<1>6. KVHeadAt(base, S.seq, keys) = CHOOSE g \in at : TRUE
  BY <1>5 DEF KVHeadAt, at
<1>7. (CHOOSE g \in at : TRUE) = <<b, h>>
  BY <1>5
<1> QED BY <1>6, <1>7

\* A store of a row's result at each of the addresses written, width elements
\* wide, as Stored has it.
StoresResults(kind, mem, new, written, width) ==
  /\ DOMAIN new = {a \in DOMAIN mem : \A b \in written : a + width <= b \/ b + width <= a}
                  \cup written
  /\ \A a \in DOMAIN new \ written : new[a] = mem[a]
  /\ \A a \in written : \E r \in QueryRows(problem) :
        a = CellAddress[problem][<<kind, r>>] /\ new[a] = RowResult[problem][r]

\* A store of results at their places, no wider than a row, leaves every cell
\* that was set as it was.
LEMMA StoreIsSound ==
  ASSUME problem \in Problems, NEW kind \in Kinds(problem), NEW mem, Sound(mem, kind),
         NEW new, NEW written, NEW width \in Nat, width <= CellWidth(problem, kind),
         StoresResults(kind, mem, new, written, width)
  PROVE  Sound(new, kind) /\ DOMAIN mem \subseteq DOMAIN new
<1> USE DEF StoresResults
<1>1. Sound(new, kind)
  <2>1. \A a \in DOMAIN new \ written : a \in DOMAIN mem
    OBVIOUS
  <2> QED BY <2>1 DEF Sound
<1>2. ASSUME NEW a \in DOMAIN mem PROVE a \in DOMAIN new
  <2> DEFINE D == CellWidth(problem, kind)
  <2>1. PICK r \in QueryRows(problem) : a = CellAddress[problem][<<kind, r>>]
    BY DEF Sound
  <2>2. ASSUME NEW b \in written, a # b PROVE a + width <= b \/ b + width <= a
    <3>1. PICK t \in QueryRows(problem) : b = CellAddress[problem][<<kind, t>>]
      OBVIOUS
    <3>2. r # t
      BY <2>1, <2>2, <3>1
    <3>3. /\ a \in Nat /\ b \in Nat /\ D \in Nat
          /\ a + D <= b \/ b + D <= a
      BY <2>1, <3>1, <3>2, CellsApart
    <3> QED BY <3>3
  <2> QED BY <2>2
<1> QED BY <1>1, <1>2

-----------------------------------------------------------------------------
(***************************************************************************)
(* Tiles walked, as a function of the M-tile                               *)
(***************************************************************************)

\* A later M-tile walks at least as many KV tiles as an earlier one.
LEMMA TileCountMonotone ==
  ASSUME NEW mask \in BOOLEAN, NEW sq \in Nat, NEW sk \in Nat,
         NEW m1 \in Nat, NEW m2 \in Nat, m1 <= m2
  PROVE  /\ TileCount(mask, sq, sk, m1) \in Int /\ TileCount(mask, sq, sk, m2) \in Int
         /\ TileCount(mask, sq, sk, m1) <= TileCount(mask, sq, sk, m2)
<1> DEFINE r1 == RawEndOf(sq, sk, m1)
           r2 == RawEndOf(sq, sk, m2)
           e1 == SeqlenKEndOf(mask, sq, sk, m1)
           e2 == SeqlenKEndOf(mask, sq, sk, m2)
<1>1. r1 \in Int /\ r2 \in Int /\ r1 <= r2
  BY DEF RawEndOf, Least, kM0
<1> HIDE DEF r1, r2
<1>2. \A a, b \in Int : a <= b => /\ CDiv(a + kN0 - 1, kN0) \in Int
                                  /\ CDiv(b + kN0 - 1, kN0) \in Int
                                  /\ CDiv(a + kN0 - 1, kN0) <= CDiv(b + kN0 - 1, kN0)
  BY DEF CDiv, kN0
<1>3. e1 \in Int /\ e2 \in Int /\ e1 <= e2
  <2>1. /\ CDiv(r1 + kN0 - 1, kN0) \in Int /\ CDiv(r2 + kN0 - 1, kN0) \in Int
        /\ CDiv(r1 + kN0 - 1, kN0) <= CDiv(r2 + kN0 - 1, kN0)
    BY <1>1, <1>2
  <2>2. /\ e1 = IF mask THEN Least(CDiv(r1 + kN0 - 1, kN0) * kN0, sk) ELSE sk
        /\ e2 = IF mask THEN Least(CDiv(r2 + kN0 - 1, kN0) * kN0, sk) ELSE sk
    BY DEF SeqlenKEndOf, r1, r2
  <2> QED BY <2>1, <2>2 DEF Least, kN0
<1> HIDE DEF e1, e2
<1> QED BY <1>2, <1>3 DEF TileCount, LoopsTo, e1, e2

\* Without the mask every M-tile walks the same tiles.
LEMMA TileCountUniform ==
  ASSUME NEW sq, NEW sk, NEW m1, NEW m2
  PROVE  TileCount(FALSE, sq, sk, m1) = TileCount(FALSE, sq, sk, m2)
BY DEF TileCount, SeqlenKEndOf

(***************************************************************************)
(* The order of the blocks                                                 *)
(***************************************************************************)

GridX == grid.x
GridY == grid.y
GridZ == grid.z

\* The extents of the grid.
LEMMA GridExtents ==
  ASSUME problem \in Problems
  PROVE  GridX \in Nat \ {0} /\ GridY \in Nat /\ GridZ \in Nat
<1>1. /\ GridX = problem.q_heads /\ GridZ = problem.batch
      /\ GridY = CDiv(problem.seq_len + kM0 - 1, kM0)
  BY DEF GridX, GridY, GridZ, grid, Grids, Grid
<1>2. problem.q_heads \in Nat \ {0} /\ problem.batch \in Nat /\ problem.seq_len \in Nat
  BY ProblemsAssumption
<1>3. CDiv(problem.seq_len + kM0 - 1, kM0) \in Nat
  BY <1>2 DEF CDiv, kM0
<1> QED BY <1>1, <1>2, <1>3

\* The coordinates of a block of the grid.
LEMMA BlockInGrid ==
  ASSUME problem \in Problems, NEW n \in 0..(NumBlocks - 1)
  PROVE  /\ GridY \in Nat \ {0}
         /\ n \div GridX \in Nat
         /\ blockIdx(n).y \in 0..(GridY - 1) /\ blockIdx(n).y = (n \div GridX) % GridY
         /\ batch_idx(n) \in 0..(GridZ - 1) /\ batch_idx(n) = (n \div GridX) \div GridY
<1>1. GridX \in Nat \ {0} /\ GridY \in Nat /\ GridZ \in Nat
  BY GridExtents
<1>2. NumBlocks = GridX * GridY * GridZ
  BY DEF NumBlocks, GridX, GridY, GridZ
<1>3. NumBlocks \in Nat
  BY <1>1, <1>2
<1>4. n \in Nat /\ n < NumBlocks
  BY <1>3
<1>5. GridY # 0
  <2>1. ASSUME GridY = 0 PROVE FALSE
    <3>1. GridX * GridY = 0
      BY <1>1, <2>1
    <3>2. NumBlocks = 0
      BY <1>1, <1>2, <3>1
    <3> QED BY <1>4, <3>2
  <2> QED BY <2>1
<1>6. n < GridX * (GridY * GridZ)
  <2>1. GridX * GridY * GridZ = GridX * (GridY * GridZ)
    BY <1>1
  <2> QED BY <1>2, <1>4, <2>1
<1>7. GridY * GridZ \in Nat
  BY <1>1
<1>8. n \div GridX \in Nat /\ n \div GridX < GridY * GridZ
  BY <1>1, <1>4, <1>6, <1>7, DivMod, DivBound
<1>9. (n \div GridX) \div GridY \in Nat /\ (n \div GridX) \div GridY < GridZ
  BY <1>1, <1>5, <1>8, DivMod, DivBound
<1>10. (n \div GridX) % GridY \in 0..(GridY - 1)
  BY <1>1, <1>5, <1>8, DivMod
<1>11. blockIdx(n).y = (n \div GridX) % GridY /\ batch_idx(n) = (n \div GridX) \div GridY
  BY DEF blockIdx, batch_idx, GridX, GridY
<1> QED BY <1>1, <1>5, <1>8, <1>9, <1>10, <1>11

\* Within a batch, blocks come in the order of blockIdx.y.
LEMMA BlockOrder ==
  ASSUME problem \in Problems, NEW n \in 0..(NumBlocks - 1), NEW m \in 0..(NumBlocks - 1),
         n <= m, batch_idx(n) = batch_idx(m)
  PROVE  blockIdx(n).y <= blockIdx(m).y
<1> DEFINE a == n \div GridX
           b == m \div GridX
<1>1. GridX \in Nat \ {0} /\ GridY \in Nat \ {0} /\ n \in Nat /\ m \in Nat
  BY GridExtents, BlockInGrid
<1>2. a \in Nat /\ b \in Nat /\ a <= b
  BY <1>1, BlockInGrid, DivMonotone
<1>3. /\ blockIdx(n).y = a % GridY /\ blockIdx(m).y = b % GridY
      /\ a \div GridY = b \div GridY
  BY BlockInGrid
<1> HIDE DEF a, b
<1>4. /\ a = GridY * (a \div GridY) + (a % GridY) /\ a \div GridY \in Nat
      /\ b = GridY * (b \div GridY) + (b % GridY)
      /\ a % GridY \in Nat /\ b % GridY \in Nat
  BY <1>1, <1>2, DivMod
<1> DEFINE c == GridY * (a \div GridY)
<1>5. c \in Nat /\ a = c + (a % GridY) /\ b = c + (b % GridY)
  BY <1>1, <1>3, <1>4
<1> HIDE DEF c
<1>6. a % GridY <= b % GridY
  BY <1>2, <1>4, <1>5
<1> QED BY <1>3, <1>6

\* A block takes the lengths of its sequence from the offset table, or all
\* sequences are equally long.
LEMMA BlockSequence ==
  ASSUME problem \in Problems, NEW n \in 0..(NumBlocks - 1)
  PROVE  /\ batch_idx(n) \in 0..(problem.batch - 1)
         /\ seqlen_q(n) = SeqLenQ(problem, batch_idx(n)) /\ seqlen_q(n) \in Nat
         /\ seqlen_k(n) = SeqLenK(problem, batch_idx(n)) /\ seqlen_k(n) \in Nat
         /\ offset(n) = FirstToken(problem, batch_idx(n))
<1> DEFINE b == batch_idx(n)
<1>1. b \in 0..(problem.batch - 1) /\ problem.batch \in Nat
  <2>1. GridZ = problem.batch
    BY DEF GridZ, grid, Grids, Grid
  <2> QED BY <2>1, BlockInGrid, ProblemsAssumption
<1>2. /\ params.seqlen_q = problem.seq_len /\ params.seqlen_k = problem.kv_seq_len
      /\ params.seqstart = IF varlen_mode(problem) THEN offsets(problem) ELSE << >>
  BY DEF params, Kernarg, FwdParams
<1>3. offset(n) = FirstToken(problem, b)
  BY <1>2 DEF offset, FirstToken
<1>4. CASE varlen_mode(problem)
  <2> DEFINE off == offsets(problem)
             s   == problem.varlen_seqs
             N   == problem.batch
  <2>1. s \in [1..N -> Nat] /\ SumsOf(off, s, N)
    BY <1>4, Offsets
  <2>2. Packed(n) = off[b + 1] - off[b]
    BY <1>2, <1>4 DEF Packed
  <2>3. /\ SeqLenQ(problem, b) = s[b + 1] /\ SeqLenK(problem, b) = s[b + 1]
        /\ seqlen_q(n) = Packed(n) /\ seqlen_k(n) = Packed(n)
    BY <1>4 DEF SeqLenQ, SeqLenK, seqlen_q, seqlen_k
  <2> HIDE DEF off, s, N, b
  <2>4. N \in Nat /\ b \in 0..(N - 1)
    BY <1>1 DEF N
  <2>5. b + 1 \in 1..N /\ (b + 1) - 1 = b /\ b \in 0..N
    BY <2>4
  <2>6. off[b + 1] = off[b] + s[b + 1] /\ s[b + 1] \in Nat /\ off[b] \in Nat
    BY <2>1, <2>5 DEF SumsOf
  <2>7. Packed(n) = s[b + 1] /\ Packed(n) \in Nat
    BY <2>2, <2>6
  <2> QED BY <1>1, <1>3, <2>3, <2>7 DEF b
<1>5. CASE ~varlen_mode(problem)
  <2>1. problem.seq_len \in Nat /\ problem.kv_seq_len \in Nat
    BY ProblemsAssumption
  <2> QED BY <1>1, <1>2, <1>3, <1>5, <2>1 DEF SeqLenQ, SeqLenK, seqlen_q, seqlen_k
<1> QED BY <1>4, <1>5

\* Blocks of one batch see the same sequence, and the masked entries give the
\* later ones the earlier M-tiles: the later block has no more work, unless the
\* earlier one has none.
LEMMA LaterIsLighter ==
  ASSUME problem \in Problems, NEW n \in 0..(NumBlocks - 1), NEW m \in 0..(NumBlocks - 1),
         n <= m, batch_idx(n) = batch_idx(m), Work(n) > 0
  PROVE  Work(m) <= Work(n)
<1>1. /\ problem.mask \in BOOLEAN /\ GridY \in Nat \ {0}
      /\ blockIdx(n).y \in 0..(GridY - 1) /\ blockIdx(m).y \in 0..(GridY - 1)
      /\ batch_idx(n) \in 0..(problem.batch - 1)
  <2>1. GridZ = problem.batch
    BY DEF GridZ, grid, Grids, Grid
  <2> QED BY <2>1, BlockInGrid, ProblemsAssumption
<1>2. blockIdx(n).y <= blockIdx(m).y
  BY BlockOrder
<1>3. seqlen_q(m) = seqlen_q(n) /\ seqlen_k(m) = seqlen_k(n)
  BY DEF seqlen_q, seqlen_k, Packed
<1>4. seqlen_q(n) \in Nat /\ seqlen_k(n) \in Nat
  BY BlockSequence
<1>5. m_tile_idx(n) \in Nat /\ m_tile_idx(m) \in Nat
  BY <1>1 DEF m_tile_idx, GridY
<1>6. Work(n) = TileCount(problem.mask, seqlen_q(n), seqlen_k(n), m_tile_idx(n))
  BY DEF Work, num_total_loop
<1>7. \/ Work(m) = 0
      \/ Work(m) = TileCount(problem.mask, seqlen_q(n), seqlen_k(n), m_tile_idx(m))
  BY <1>3 DEF Work, num_total_loop
<1>8. TileCount(problem.mask, seqlen_q(n), seqlen_k(n), m_tile_idx(n)) \in Int
  BY <1>1, <1>4, <1>5, TileCountMonotone
<1>9. CASE problem.mask
  <2>1. m_tile_idx(m) <= m_tile_idx(n)
    BY <1>1, <1>2, <1>9 DEF m_tile_idx, GridY
  <2>2. TileCount(problem.mask, seqlen_q(n), seqlen_k(n), m_tile_idx(m))
        <= TileCount(problem.mask, seqlen_q(n), seqlen_k(n), m_tile_idx(n))
    BY <1>1, <1>4, <1>5, <2>1, TileCountMonotone
  <2> QED BY <1>6, <1>7, <1>8, <2>2
<1>10. CASE ~problem.mask
  <2>1. problem.mask = FALSE
    BY <1>1, <1>10
  <2>2. TileCount(problem.mask, seqlen_q(n), seqlen_k(n), m_tile_idx(m))
        = TileCount(problem.mask, seqlen_q(n), seqlen_k(n), m_tile_idx(n))
    BY <2>1, TileCountUniform
  <2> QED BY <1>6, <1>7, <1>8, <2>2
<1> QED BY <1>9, <1>10

(***************************************************************************)
(* The inductive invariant: only blocks already dispatched are resident.   *)
(***************************************************************************)
DispatchInv ==
  /\ TypeOK
  /\ \A s \in 1..Slots : resident[s] # Empty => resident[s].n < next_block

\* No slot holds a block before the first dispatch.
LEMMA InitDispatchInv == Init => DispatchInv
<1> SUFFICES ASSUME Init PROVE DispatchInv
  OBVIOUS
<1>1. NumBlocks \in Nat
  BY GridExtents DEF Init, MemoryInit, NumBlocks, GridX, GridY, GridZ
<1> QED BY <1>1 DEF Init, MemoryInit, DispatchInv, TypeOK

\* A slot holds a block or nothing, never both.
LEMMA EmptyIsNoBlock == Empty \notin Blocks
BY DEF Empty, Blocks

\* A step leaves in the slots only blocks that were dispatched.
LEMMA NextDispatchInv == DispatchInv /\ [Next]_vars => DispatchInv'
<1> SUFFICES ASSUME DispatchInv, [Next]_vars PROVE DispatchInv'
  OBVIOUS
<1> USE DEF DispatchInv
<1>1. NumBlocks \in Nat
  BY GridExtents DEF NumBlocks, GridX, GridY, GridZ, TypeOK
<1>2. ASSUME problem' = problem
      PROVE  NumBlocks' = NumBlocks /\ Blocks' = Blocks
  BY <1>2 DEF NumBlocks, grid, Blocks
<1>3. ASSUME NEW s \in 1..Slots, Dispatch(s) PROVE DispatchInv'
  <2> DEFINE block == [pc |-> "start", n |-> next_block, i_total_loops |-> 0, stored |-> {}]
  <2>1. /\ problem' = problem /\ next_block' = next_block + 1 /\ next_block < NumBlocks
        /\ resident' = [resident EXCEPT ![s] = block]
    BY <1>3 DEF Dispatch, memory
  <2>2. next_block' \in 0..NumBlocks
    BY <1>1, <2>1 DEF TypeOK
  <2>3. block \in Blocks
    BY <1>1, <2>1 DEF Blocks, TypeOK
  <2>4. block.n < next_block'
    BY <2>1 DEF TypeOK
  <2>5. \A t \in 1..Slots : resident'[t] = IF t = s THEN block ELSE resident[t]
    BY <2>1 DEF TypeOK
  <2>6. resident' \in [1..Slots -> Blocks \cup {Empty}]
    BY <2>1, <2>3 DEF TypeOK
  <2> HIDE DEF block
  <2>7. \A t \in 1..Slots : resident[t] # Empty =>
          resident[t].n \in Nat /\ resident[t].n < next_block
    BY <1>1 DEF TypeOK, Blocks
  <2>8. \A t \in 1..Slots : resident'[t] # Empty => resident'[t].n < next_block'
    BY <2>1, <2>4, <2>5, <2>7 DEF TypeOK
  <2> QED BY <1>2, <2>1, <2>2, <2>6, <2>8 DEF TypeOK
<1>4. ASSUME NEW s \in 1..Slots, NEW b \in Blocks \cup {Empty},
             resident' = [resident EXCEPT ![s] = b], b # Empty => b.n < next_block,
             UNCHANGED <<problem, next_block>>
      PROVE  DispatchInv'
  <2>1. \A t \in 1..Slots : resident'[t] = IF t = s THEN b ELSE resident[t]
    BY <1>4 DEF TypeOK
  <2>2. resident' \in [1..Slots -> Blocks \cup {Empty}]
    BY <1>4 DEF TypeOK
  <2> QED BY <1>2, <1>4, <2>1, <2>2 DEF TypeOK
<1>5. ASSUME NEW s \in 1..Slots, ReturnEarly(s) PROVE DispatchInv'
  BY <1>4, <1>5 DEF ReturnEarly, memory
<1>6. ASSUME NEW s \in 1..Slots, resident[s].pc \in {"start", "tile", "epilog"}
      PROVE  resident[s] \in Blocks /\ resident[s].n < next_block
  BY <1>6 DEF TypeOK, Empty
<1>7. ASSUME NEW s \in 1..Slots, Start(s) PROVE DispatchInv'
  <2> DEFINE to == IF num_total_loop(resident[s].n) <= 0 THEN "epilog" ELSE "tile"
             b  == [resident[s] EXCEPT !.pc = to]
  <2>1. resident[s] \in Blocks /\ resident[s].n < next_block
    BY <1>6, <1>7 DEF Start
  <2>2. to \in {"start", "tile", "epilog"}
    OBVIOUS
  <2>3. resident' = [resident EXCEPT ![s] = b] /\ UNCHANGED <<problem, next_block>>
    BY <1>7 DEF Start, memory
  <2> HIDE DEF to
  <2>4. b \in Blocks /\ b.n = resident[s].n
    BY <2>1, <2>2 DEF Blocks
  <2> QED BY <1>4, <2>1, <2>3, <2>4
<1>8. ASSUME NEW s \in 1..Slots, Tile(s) PROVE DispatchInv'
  <2> DEFINE done == resident[s].i_total_loops + 1
             to   == IF done < num_total_loop(resident[s].n) THEN "tile" ELSE "epilog"
             b    == [resident[s] EXCEPT !.i_total_loops = done, !.pc = to]
  <2>1. resident[s] \in Blocks /\ resident[s].n < next_block
    BY <1>6, <1>8 DEF Tile
  <2>2. to \in {"start", "tile", "epilog"} /\ done \in Nat
    BY <2>1 DEF Blocks
  <2>3. resident' = [resident EXCEPT ![s] = b] /\ UNCHANGED <<problem, next_block>>
    BY <1>8 DEF Tile, memory
  <2> HIDE DEF to, done
  <2>4. b \in Blocks /\ b.n = resident[s].n
    BY <2>1, <2>2 DEF Blocks
  <2> QED BY <1>4, <2>1, <2>3, <2>4
<1>9. ASSUME NEW s \in 1..Slots, NEW warp \in Warps, EpilogStore(s, warp)
      PROVE  DispatchInv'
  <2> DEFINE b == IF resident[s].stored \cup {warp} = Warps THEN Empty
                  ELSE [resident[s] EXCEPT !.stored = resident[s].stored \cup {warp}]
  <2>1. resident[s] \in Blocks /\ resident[s].n < next_block
    BY <1>6, <1>9 DEF EpilogStore
  <2>2. resident' = [resident EXCEPT ![s] = b] /\ UNCHANGED <<problem, next_block>>
    BY <1>9 DEF EpilogStore
  <2>3. [resident[s] EXCEPT !.stored = resident[s].stored \cup {warp}] \in Blocks
    BY <2>1 DEF Blocks
  <2>4. b \in Blocks \cup {Empty} /\ (b # Empty => b.n < next_block)
    BY <2>1, <2>3
  <2> QED BY <1>4, <2>2, <2>4
<1>10. CASE UNCHANGED vars
  BY <1>2, <1>10 DEF vars, memory, TypeOK
<1> QED
  BY <1>3, <1>5, <1>7, <1>8, <1>9, <1>10 DEF Next, Step, Finished

\* Only blocks of the grid are ever resident, each after its dispatch.
THEOREM GridTypes == Spec => []TypeOK
<1>1. DispatchInv => TypeOK
  BY DEF DispatchInv
<1> QED BY <1>1, InitDispatchInv, NextDispatchInv, PTL DEF Spec

\* The reversal of the M-tiles does what kernel.cpp wants of it, for every
\* launch and any number of resident blocks: a running block has at least the
\* work of every block of its batch still waiting.
THEOREM HeavyBlocksFirst == Spec => []HeavyFirst
<1>1. DispatchInv => HeavyFirst
  <2> SUFFICES ASSUME DispatchInv, NEW s \in 1..Slots, resident[s] # Empty,
                      Work(resident[s].n) > 0,
                      NEW m \in next_block..(NumBlocks - 1), batch_idx(m) = batch_idx(resident[s].n)
               PROVE  Work(m) <= Work(resident[s].n)
    BY DEF HeavyFirst
  <2>1. NumBlocks \in Nat
    BY GridExtents DEF DispatchInv, TypeOK, NumBlocks, GridX, GridY, GridZ
  <2>2. /\ resident[s].n \in 0..(NumBlocks - 1) /\ resident[s].n < next_block
        /\ next_block \in Nat /\ problem \in Problems
    BY <2>1 DEF DispatchInv, TypeOK, Blocks
  <2>3. m \in 0..(NumBlocks - 1) /\ resident[s].n <= m
    BY <2>1, <2>2
  <2> QED BY <2>2, <2>3, LaterIsLighter
<1> QED BY <1>1, InitDispatchInv, NextDispatchInv, PTL DEF Spec

(***************************************************************************)
(* What a block stores: the results of its rows, at their places           *)
(***************************************************************************)

RowOf(n, i) == <<batch_idx(n), head_idx(n), i>>

\* The rows of a warp are rows of the sequence, within the block's M-tile.
LEMMA BlockRows ==
  ASSUME problem \in Problems, NEW n \in 0..(NumBlocks - 1), NEW warp, NEW i \in RowsOf(n, warp)
  PROVE  /\ head_idx(n) \in 0..(problem.q_heads - 1) /\ m_tile_idx(n) \in Nat
         /\ i \in Nat /\ i < seqlen_q(n)
         /\ i <= m_tile_idx(n) * kM0 + kM0 - 1
         /\ RowOf(n, i) \in QueryRows(problem)
<1>1. /\ GridX = problem.q_heads /\ GridX \in Nat \ {0} /\ GridY \in Nat \ {0}
      /\ n \in Nat /\ problem.mask \in BOOLEAN
      /\ blockIdx(n).y \in 0..(GridY - 1)
  <2>1. GridX = problem.q_heads
    BY DEF GridX, grid, Grids, Grid
  <2> QED BY <2>1, GridExtents, BlockInGrid, ProblemsAssumption
<1>2. head_idx(n) = n % GridX
  BY DEF head_idx, blockIdx, GridX
<1>3. head_idx(n) \in 0..(problem.q_heads - 1)
  BY <1>1, <1>2
<1> DEFINE m == m_tile_idx(n)
<1>4. m \in Nat
  BY <1>1 DEF m_tile_idx, GridY
<1>5. PICK r \in Rows : i = m * kM0 + r
  BY DEF RowsOf
<1>6. r \in 0..(kM0 - 1) /\ i < seqlen_q(n)
  BY RowsAssumption DEF RowsOf
<1> HIDE DEF m
<1>7. i \in Nat /\ i % kM0 = r /\ i <= m * kM0 + kM0 - 1
  BY <1>4, <1>5, <1>6 DEF kM0
<1>8. RowOf(n, i) \in QueryRows(problem)
  BY <1>3, <1>5, <1>6, <1>7, BlockSequence, QueryRowsAre DEF RowOf
<1> QED BY <1>3, <1>4, <1>6, <1>7, <1>8 DEF m

\* Grouped heads: consecutive query heads share a KV head.
LEMMA KVHeadOfBlock ==
  ASSUME problem \in Problems, NEW h \in 0..(problem.q_heads - 1)
  PROVE  h \div Gqa(problem) \in 0..(problem.kv_heads - 1)
<1> DEFINE H == problem.q_heads
           K == problem.kv_heads
           g == H \div K
<1>1. H \in Nat \ {0} /\ K \in Nat \ {0} /\ H % K = 0
  BY ProblemsAssumption
<1>2. g \in Nat /\ H = K * g + (H % K)
  BY <1>1, DivMod
<1>3. H = K * g
  BY <1>1, <1>2
<1>4. h \in Nat /\ h < H
  BY <1>1
<1> HIDE DEF g, H, K
<1>5. g # 0
  <2>1. ASSUME g = 0 PROVE FALSE
    <3>1. K * g = 0
      BY <1>1, <2>1
    <3> QED BY <1>1, <1>3, <3>1
  <2> QED BY <2>1
<1>6. h < g * K
  BY <1>1, <1>2, <1>3, <1>4
<1>7. h \div g \in Nat /\ h \div g < K
  BY <1>1, <1>2, <1>4, <1>5, <1>6, DivMod, DivBound
<1> QED BY <1>1, <1>7 DEF Gqa, g, H, K

\* The addresses of a block's rows of Q and O, of its keys and of its LSE.
LEMMA BlockAddresses ==
  ASSUME problem \in Problems, NEW n \in 0..(NumBlocks - 1), NEW i \in Nat,
         head_idx(n) \in 0..(problem.q_heads - 1)
  PROVE  /\ q_base(n) + i * params.q.seq = QOffset(problem, batch_idx(n), head_idx(n), i)
         /\ o_base(n) + i * params.q.seq = QOffset(problem, batch_idx(n), head_idx(n), i)
         /\ k_base(n) = KVOffset(problem, batch_idx(n), head_idx(n) \div Gqa(problem), 0)
         /\ problem.lse => lse_base(n) + i = LseOffset(problem, batch_idx(n), head_idx(n), i)
<1> DEFINE b == batch_idx(n)
           h == head_idx(n)
           f == FirstToken(problem, b)
           SQ == Strides(problem, problem.q_heads, problem.seq_len)
           SK == Strides(problem, problem.kv_heads, problem.kv_seq_len)
           hk == h \div Gqa(problem)
<1>1. /\ problem.q_heads \in Nat \ {0} /\ problem.kv_heads \in Nat \ {0}
      /\ problem.seq_len \in Nat /\ problem.kv_seq_len \in Nat /\ problem.batch \in Nat
  BY ProblemsAssumption
<1>2. b \in 0..(problem.batch - 1) /\ offset(n) = f /\ f \in Nat
  BY BlockSequence, FirstTokenType
<1>3. params.q = SQ /\ params.k = SK /\ params.nhead_q = problem.q_heads
      /\ params.nhead_k = problem.kv_heads /\ params.seqlen_q = problem.seq_len
  BY DEF params, Kernarg, FwdParams
<1>4. kv_head_idx(n) = hk
  BY <1>3 DEF kv_head_idx, Gqa
<1>5. hk \in 0..(problem.kv_heads - 1)
  BY KVHeadOfBlock
<1>6. ASSUME NEW S, NEW g \in Nat, S.seq \in Nat, S.head \in Nat, S.batch \in Nat,
             varlen_mode(problem) => S.batch = 0, NEW j \in Nat
      PROVE  BasePointer(n, g, S) + j * S.seq
             = b * S.batch + g * S.head + (f + j) * S.seq
  <2>1. b \in Nat
    BY <1>1, <1>2
  <2>2. CASE varlen_mode(problem)
    <3>1. BasePointer(n, g, S) = g * S.head + f * S.seq /\ b * S.batch = 0
      BY <1>2, <1>6, <2>1, <2>2 DEF BasePointer
    <3>2. /\ (f + j) * S.seq = f * S.seq + j * S.seq
          /\ g * S.head \in Nat /\ f * S.seq \in Nat /\ j * S.seq \in Nat
      BY <1>2, <1>6
    <3> QED BY <3>1, <3>2
  <2>3. CASE ~varlen_mode(problem)
    <3>1. BasePointer(n, g, S) = b * S.batch + g * S.head /\ f = 0
      BY <2>3 DEF BasePointer, FirstToken
    <3>2. b * S.batch \in Nat /\ g * S.head \in Nat /\ f + j = j /\ j * S.seq \in Nat
      BY <1>6, <2>1, <3>1
    <3> QED BY <3>1, <3>2
  <2> QED BY <2>2, <2>3
<1>7. h \in Nat /\ hk \in Nat
  BY <1>1, <1>5
<1>8. BasePointer(n, h, SQ) + i * SQ.seq = QOffset(problem, b, h, i)
  <2>1. /\ SQ.seq \in Nat /\ SQ.head \in Nat /\ SQ.batch \in Nat
        /\ varlen_mode(problem) => SQ.batch = 0
        /\ b * SQ.batch + h * SQ.head + (f + i) * SQ.seq
           = RowOffset(problem, problem.q_heads, problem.seq_len, b, h, i)
    <3> h \in 0..(problem.q_heads - 1)
      OBVIOUS
    <3> HIDE DEF h, b
    <3> QED BY SMTT(60), <1>1, <1>2, StridedAddress
  <2> HIDE DEF SQ
  <2> QED BY <1>6, <1>7, <2>1 DEF QOffset
<1>9. BasePointer(n, hk, SK) = KVOffset(problem, b, hk, 0)
  <2>1. /\ SK.seq \in Nat /\ SK.head \in Nat /\ SK.batch \in Nat
        /\ varlen_mode(problem) => SK.batch = 0
        /\ b * SK.batch + hk * SK.head + (f + 0) * SK.seq
           = RowOffset(problem, problem.kv_heads, problem.kv_seq_len, b, hk, 0)
    BY <1>1, <1>2, <1>5, StridedAddress, SMTT(30)
  <2> HIDE DEF SK
  <2>2. BasePointer(n, hk, SK) + 0 * SK.seq = KVOffset(problem, b, hk, 0)
    BY <1>6, <1>7, <2>1 DEF KVOffset
  <2>3. 0 * SK.seq = 0 /\ BasePointer(n, hk, SK) \in Int
    <3>1. offset(n) \in Nat /\ b \in Nat
      BY <1>1, <1>2
    <3> QED BY <1>7, <2>1, <3>1 DEF BasePointer
  <2> QED BY <2>2, <2>3
<1>10. ASSUME problem.lse PROVE lse_base(n) + i = LseOffset(problem, b, h, i)
  <2>1. problem.layout = "BHSD"
    BY <1>10, ProblemsAssumption
  <2>2. b \in Nat
    BY <1>1, <1>2
  <2>3. CASE varlen_mode(problem)
    <3> DEFINE D == hdim_dispatch(problem)
               T == total_seqlen(problem)
    <3>1. D \in Nat \ {0} /\ T \in Nat
      BY <2>3, Offsets, ProblemsAssumption DEF hdim_dispatch
    <3>2. SQ.head = T * D /\ SQ.seq = D
      BY <2>1, <2>3 DEF Strides
    <3>3. (T * D) \div D = T
      BY <3>1, Multiples
    <3>4. lse_base(n) = h * T + f /\ f = offsets(problem)[b]
      BY <1>2, <1>3, <2>3, <3>2, <3>3 DEF lse_base, FirstToken
    <3> QED BY <2>3, <3>4 DEF LseOffset
  <2>4. CASE ~varlen_mode(problem)
    <3> DEFINE H == problem.q_heads
               N == problem.seq_len
    <3>1. lse_base(n) = b * (H * N) + h * N
      BY <1>3, <2>4 DEF lse_base
    <3>2. LseOffset(problem, b, h, i) = (b * H + h) * N + i
      BY <2>4 DEF LseOffset
    <3>3. H \in Nat /\ N \in Nat
      BY <1>1
    <3> HIDE DEF H, N
    <3>4. (b * H + h) * N = b * (H * N) + h * N
      BY <1>7, <2>2, <3>3
    <3> QED BY <3>1, <3>2, <3>4
  <2> QED BY <2>3, <2>4
<1> QED BY <1>3, <1>4, <1>8, <1>9, <1>10 DEF q_base, o_base, k_base

\* The last tile a block walks lies past the last key its rows may attend.
LEMMA TilesReachEveryKey ==
  ASSUME NEW mask \in BOOLEAN, NEW sq \in Nat, NEW sk \in Nat, NEW m \in Nat,
         NEW i \in Nat, i < sq, i <= m * kM0 + kM0 - 1
  PROVE  LET kept == IF mask THEN Least(i + (sk - sq) + 1, sk) ELSE sk
         IN  kept > 0 => kept <= kN0 * TileCount(mask, sq, sk, m)
<1> DEFINE kept == IF mask THEN Least(i + (sk - sq) + 1, sk) ELSE sk
           R == RawEndOf(sq, sk, m)
           E == SeqlenKEndOf(mask, sq, sk, m)
<1>1. R \in Int /\ (mask => kept <= R)
  <2>1. m * kM0 \in Nat
    BY DEF kM0
  <2> QED BY <2>1 DEF RawEndOf, Least, kM0
<1>2. kept \in Int /\ kept <= sk
  BY DEF Least
<1> HIDE DEF R
<1>3. E = IF mask THEN Least(CDiv(R + kN0 - 1, kN0) * kN0, sk) ELSE sk
  BY DEF SeqlenKEndOf, R
<1> HIDE DEF kept, E
<1>4. ASSUME kept > 0 PROVE kept <= E /\ E \in Nat
  BY <1>1, <1>2, <1>3, <1>4 DEF CDiv, Least, kN0, kept
<1>5. ASSUME kept > 0 PROVE kept <= kN0 * LoopsTo(E)
  <2>1. E \in Nat /\ E > 0 /\ kept <= E
    BY <1>2, <1>4, <1>5
  <2>2. E <= 64 * LoopsTo(E) /\ LoopsTo(E) \in Nat
    BY <2>1 DEF LoopsTo, CDiv, kN0
  <2> QED BY <1>2, <2>1, <2>2 DEF kN0
<1>6. TileCount(mask, sq, sk, m) = LoopsTo(E)
  BY DEF TileCount, E
<1> QED BY <1>5, <1>6 DEF kept

\* Once its tiles are walked, a block has seen the keys each row attends.
LEMMA KeysSeenAreAllowed ==
  ASSUME problem \in Problems, NEW n \in 0..(NumBlocks - 1), NEW warp, NEW i \in RowsOf(n, warp),
         NEW tiles \in Nat,
         tiles = IF num_total_loop(n) <= 0 THEN 0 ELSE num_total_loop(n)
  PROVE  /\ KeysSeen(n, i, tiles) = KeysAllowed(problem, batch_idx(n), i)
         /\ KeysSeen(n, i, tiles) \in Nat
         /\ KeysSeen(n, i, tiles) <= SeqLenK(problem, batch_idx(n))
<1> DEFINE sq   == seqlen_q(n)
           sk   == seqlen_k(n)
           mask == problem.mask
           m    == m_tile_idx(n)
           kept == IF mask THEN Least(i + (sk - sq) + 1, sk) ELSE sk
           seen == Least(kN0 * tiles, kept)
           T    == TileCount(mask, sq, sk, m)
<1>1. /\ sq \in Nat /\ sk \in Nat /\ mask \in BOOLEAN /\ m \in Nat
      /\ i \in Nat /\ i < sq /\ i <= m * kM0 + kM0 - 1
  BY BlockSequence, BlockRows, ProblemsAssumption
<1>2. /\ sq = SeqLenQ(problem, batch_idx(n)) /\ sk = SeqLenK(problem, batch_idx(n))
  BY BlockSequence
<1>3. KeysSeen(n, i, tiles) = IF seen < 0 THEN 0 ELSE seen
  BY DEF KeysSeen
<1>4. KeysAllowed(problem, batch_idx(n), i) = IF kept < 0 THEN 0 ELSE kept
  BY <1>2 DEF KeysAllowed
<1>5. T = num_total_loop(n)
  BY DEF num_total_loop
<1>6. kept > 0 => kept <= kN0 * T
  BY <1>1, TilesReachEveryKey
<1>7. T \in Int
  BY <1>1, TileCountMonotone
<1>8. kept \in Int /\ kept <= sk
  BY <1>1 DEF Least
<1> HIDE DEF kept, T
<1>9. kept > 0 => kept <= kN0 * tiles
  <2>1. tiles = IF T <= 0 THEN 0 ELSE T
    BY <1>5
  <2>2. ASSUME T <= 0 PROVE kN0 * T <= 0
    BY <1>7, <2>2 DEF kN0
  <2> QED BY <1>6, <1>7, <1>8, <2>1, <2>2 DEF kN0
<1>10. kN0 * tiles \in Nat
  BY DEF kN0
<1> QED BY <1>1, <1>2, <1>3, <1>4, <1>8, <1>9, <1>10 DEF Least

\* So the value it stores for a row is the one attention prescribes.
LEMMA RowValueIsResult ==
  ASSUME problem \in Problems, NEW n \in 0..(NumBlocks - 1), NEW warp, NEW i \in RowsOf(n, warp),
         NEW tiles \in Nat,
         tiles = IF num_total_loop(n) <= 0 THEN 0 ELSE num_total_loop(n)
  PROVE  RowValue(n, i, tiles) = RowResult[problem][RowOf(n, i)]
<1> DEFINE b == batch_idx(n)
           h == head_idx(n)
           r == RowOf(n, i)
           keys == KeysAllowed(problem, b, i)
<1>1. /\ b \in 0..(problem.batch - 1) /\ h \in 0..(problem.q_heads - 1) /\ i \in Nat
      /\ r \in QueryRows(problem) /\ r[1] = b /\ r[2] = h /\ r[3] = i
  BY BlockSequence, BlockRows DEF RowOf
<1>2. KeysSeen(n, i, tiles) = keys /\ keys \in Nat /\ keys <= SeqLenK(problem, b)
  BY KeysSeenAreAllowed
<1>3. RowResult[problem][r] = IF keys = 0 THEN ZeroRow
                              ELSE [q |-> r, kv |-> <<b, h \div Gqa(problem)>>, keys |-> keys]
  BY <1>1 DEF RowResult
<1>4. /\ q_base(n) + i * params.q.seq = QAddress[problem][r]
      /\ k_base(n) = KVOffset(problem, b, h \div Gqa(problem), 0)
  BY <1>1, BlockAddresses DEF QAddress
<1>5. QueryRowAt(q_base(n) + i * params.q.seq, kHeadDim) = r
  <2>1. kHeadDim \in problem.head_dim..hdim_dispatch(problem)
    BY GridAssumption, ProblemsAssumption DEF kHeadDim, hdim_dispatch
  <2> QED BY <1>1, <1>4, <2>1, QueryRowFound
<1>6. ASSUME keys # 0
      PROVE  KVHeadAt(k_base(n), params.k.seq, keys) = <<b, h \div Gqa(problem)>>
  <2>1. params.k.seq = Strides(problem, problem.kv_heads, problem.kv_seq_len).seq
    BY DEF params, Kernarg, FwdParams
  <2>2. h \div Gqa(problem) \in 0..(problem.kv_heads - 1)
    BY <1>1, KVHeadOfBlock
  <2> QED BY <1>1, <1>2, <1>4, <1>6, <2>1, <2>2, KVHeadFound
<1>7. RowValue(n, i, tiles) = IF keys = 0 THEN ZeroRow
        ELSE [q    |-> QueryRowAt(q_base(n) + i * params.q.seq, kHeadDim),
              kv   |-> KVHeadAt(k_base(n), params.k.seq, keys),
              keys |-> keys]
  BY <1>2 DEF RowValue
<1> QED BY <1>3, <1>5, <1>6, <1>7

(***************************************************************************)
(* The epilogue                                                            *)
(***************************************************************************)

\* Tiles a block walks before its epilogue.
Walked(n) == IF num_total_loop(n) <= 0 THEN 0 ELSE num_total_loop(n)

\* A warp of the epilogue stores results, each at its own place, and destroys
\* nothing stored before.
LEMMA EpilogStoreIsSound ==
  ASSUME SoundMemory, NEW s, NEW warp, EpilogStore(s, warp),
         resident[s].n \in 0..(NumBlocks - 1), resident[s].i_total_loops \in Nat,
         resident[s].i_total_loops = Walked(resident[s].n)
  PROVE  /\ SoundMemory' /\ problem' = problem
         /\ DOMAIN o_mem \subseteq DOMAIN o_mem' /\ DOMAIN lse_mem \subseteq DOMAIN lse_mem'
<1> DEFINE n        == resident[s].n
           tiles    == resident[s].i_total_loops
           rows     == RowsOf(n, warp)
           value(i) == RowValue(n, i, tiles)
           o(i)     == o_base(n) + i * params.q.seq
           lse(i)   == lse_base(n) + i
           D        == hdim_dispatch(problem)
<1>1. /\ problem \in Problems /\ problem' = problem /\ problem.lse \in BOOLEAN
      /\ params.lse = problem.lse
  BY ProblemsAssumption DEF SoundMemory, EpilogStore, params, Kernarg, FwdParams
<1>2. ASSUME NEW i \in rows
      PROVE  /\ RowOf(n, i) \in QueryRows(problem)
             /\ o(i) = CellAddress[problem][<<"O", RowOf(n, i)>>]
             /\ problem.lse => lse(i) = CellAddress[problem][<<"LSE", RowOf(n, i)>>]
             /\ value(i) = RowResult[problem][RowOf(n, i)]
  <2>1. /\ n \in 0..(NumBlocks - 1) /\ tiles \in Nat
        /\ tiles = IF num_total_loop(n) <= 0 THEN 0 ELSE num_total_loop(n)
    BY DEF Walked
  <2> HIDE DEF n, tiles
  <2>2. /\ RowOf(n, i) \in QueryRows(problem) /\ i \in Nat
        /\ head_idx(n) \in 0..(problem.q_heads - 1)
    BY <1>1, <2>1, BlockRows
  <2>3. /\ o(i) = QOffset(problem, batch_idx(n), head_idx(n), i)
        /\ problem.lse => lse(i) = LseOffset(problem, batch_idx(n), head_idx(n), i)
    BY <1>1, <2>1, <2>2, BlockAddresses
  <2>4. value(i) = RowResult[problem][RowOf(n, i)]
    BY <1>1, <2>1, RowValueIsResult
  <2> DEFINE r == RowOf(n, i)
  <2>5. r[1] = batch_idx(n) /\ r[2] = head_idx(n) /\ r[3] = i
    BY DEF RowOf
  <2> HIDE DEF r, o, lse, value
  <2>6. /\ CellAddress[problem][<<"O", r>>] = QOffset(problem, r[1], r[2], r[3])
        /\ CellAddress[problem][<<"LSE", r>>] = LseOffset(problem, r[1], r[2], r[3])
    BY <1>1, <2>2 DEF CellAddress, QAddress, r
  <2> QED BY <2>2, <2>3, <2>4, <2>5, <2>6 DEF r
<1> HIDE DEF value, o, lse
<1>3. ASSUME NEW kind \in Kinds(problem), NEW mem, Sound(mem, kind),
             NEW width \in Nat, width <= CellWidth(problem, kind), NEW new,
             kind = "O" => new = Stored(mem, rows, o, value, width),
             kind = "LSE" => new = Stored(mem, rows, lse, value, width)
      PROVE  Sound(new, kind) /\ DOMAIN mem \subseteq DOMAIN new
  <2> DEFINE at(i)   == IF kind = "O" THEN o(i) ELSE lse(i)
             written == {at(i) : i \in rows}
             kept    == {a \in DOMAIN mem :
                           \A b \in written : a + width <= b \/ b + width <= a}
  <2>1. kind \in {"O", "LSE"} /\ (kind = "LSE" => problem.lse)
    BY <1>1 DEF Kinds
  <2>2. new = [a \in kept \cup written |->
                 IF a \in written THEN value(CHOOSE i \in rows : at(i) = a) ELSE mem[a]]
    <3>1. CASE kind = "O"
      BY <1>3, <3>1 DEF Stored
    <3>2. CASE kind = "LSE"
      BY <1>3, <3>2 DEF Stored
    <3> QED BY <2>1, <3>1, <3>2
  <2> HIDE DEF rows
  <2>3. ASSUME NEW i \in rows
        PROVE  at(i) = CellAddress[problem][<<kind, RowOf(n, i)>>]
    BY <1>2, <2>1, <2>3
  <2>4. ASSUME NEW a \in written
        PROVE  \E r \in QueryRows(problem) :
                 a = CellAddress[problem][<<kind, r>>] /\ new[a] = RowResult[problem][r]
    <3> DEFINE i == CHOOSE i \in rows : at(i) = a
    <3>1. i \in rows /\ at(i) = a
      BY <2>4
    <3>2. new[a] = value(i)
      BY <2>2, <2>4
    <3> HIDE DEF i, at
    <3> QED BY <1>2, <2>3, <3>1, <3>2
  <2> HIDE DEF written, at
  <2>5. /\ DOMAIN new = kept \cup written
        /\ \A a \in DOMAIN new \ written : new[a] = mem[a]
    BY <2>2
  <2>6. DOMAIN new = {a \in DOMAIN mem : \A b \in written : a + width <= b \/ b + width <= a}
                     \cup written
    BY <2>5
  <2>7. problem \in Problems /\ Sound(mem, kind) /\ width \in Nat /\ kind \in Kinds(problem)
        /\ width <= CellWidth(problem, kind)
    BY <1>1, <1>3
  <2>8. \A a \in written : \E r \in QueryRows(problem) :
                 a = CellAddress[problem][<<kind, r>>] /\ new[a] = RowResult[problem][r]
    BY <2>4
  <2>9. StoresResults(kind, mem, new, written, width)
    BY <2>5, <2>6, <2>8 DEF StoresResults
  <2> QED BY <2>7, <2>9, StoreIsSound
<1>4. /\ o_mem' = Stored(o_mem, rows, o, value, kHeadDim)
      /\ lse_mem' = IF params.lse THEN Stored(lse_mem, rows, lse, value, 1) ELSE lse_mem
  BY DEF EpilogStore, o, lse, value
<1> HIDE DEF rows
<1>5. Sound(o_mem', "O") /\ DOMAIN o_mem \subseteq DOMAIN o_mem'
  <2>1. "O" \in Kinds(problem) /\ kHeadDim \in Nat /\ kHeadDim <= CellWidth(problem, "O")
    BY <1>1, GridAssumption DEF Kinds, CellWidth, kHeadDim
  <2> QED BY <1>3, <1>4, <2>1 DEF SoundMemory
<1>6. CASE problem.lse
  <2>1. "LSE" \in Kinds(problem) /\ 1 <= CellWidth(problem, "LSE")
    BY <1>6 DEF Kinds, CellWidth
  <2>2. Sound(lse_mem', "LSE") /\ DOMAIN lse_mem \subseteq DOMAIN lse_mem'
    BY <1>1, <1>3, <1>4, <1>6, <2>1 DEF SoundMemory
  <2> QED BY <1>1, <1>5, <1>6, <2>2 DEF SoundMemory, Sound
<1>7. CASE ~problem.lse
  <2>1. lse_mem' = lse_mem
    BY <1>1, <1>4, <1>7
  <2> QED BY <1>1, <1>5, <1>7, <2>1 DEF SoundMemory, Sound
<1> QED BY <1>6, <1>7

(***************************************************************************)
(* The inductive invariant: a block reaches its epilogue with all of its   *)
(* tiles walked, so memory holds results only.                             *)
(***************************************************************************)
Walking(b) ==
  /\ b.pc = "start" => b.i_total_loops = 0
  /\ b.pc = "tile" => b.i_total_loops < num_total_loop(b.n)
  /\ b.pc = "epilog" => b.i_total_loops = Walked(b.n)

LoopInv == \A s \in 1..Slots : Walking(resident[s])

GridInv == DispatchInv /\ LoopInv /\ SoundMemory

\* How far a block has to go is fixed by the problem.
LEMMA WalkingSame ==
  ASSUME problem' = problem, NEW t, resident'[t].n = resident[t].n
  PROVE  num_total_loop(resident[t].n)' = num_total_loop(resident[t].n)
BY DEF num_total_loop, m_tile_idx, blockIdx, grid, seqlen_q, seqlen_k, Packed, params, batch_idx

\* The number of tiles is an integer.
LEMMA LoopsType ==
  ASSUME problem \in Problems, NEW n \in 0..(NumBlocks - 1)
  PROVE  num_total_loop(n) \in Int
<1>1. /\ seqlen_q(n) \in Nat /\ seqlen_k(n) \in Nat /\ problem.mask \in BOOLEAN
      /\ GridY \in Nat /\ blockIdx(n).y \in 0..(GridY - 1)
  BY BlockSequence, BlockInGrid, ProblemsAssumption
<1>2. m_tile_idx(n) \in Nat
  BY <1>1 DEF m_tile_idx, GridY
<1> QED BY <1>1, <1>2, TileCountMonotone DEF num_total_loop

\* Each block walks all of its tiles before its epilogue.
LEMMA NextLoopInv == DispatchInv /\ LoopInv /\ [Next]_vars => LoopInv'
<1> SUFFICES ASSUME DispatchInv, LoopInv, [Next]_vars PROVE LoopInv'
  OBVIOUS
<1>1. resident \in [1..Slots -> Blocks \cup {Empty}] /\ problem \in Problems
  BY DEF DispatchInv, TypeOK
<1>2. ASSUME problem' = problem, NEW t \in 1..Slots, resident'[t] = resident[t]
      PROVE  Walking(resident[t])'
  <2>1. num_total_loop(resident[t].n)' = num_total_loop(resident[t].n)
    BY <1>2, WalkingSame
  <2>2. Walking(resident[t])
    BY DEF LoopInv
  <2> QED BY <1>2, <2>1, <2>2 DEF Walking, Walked
<1>3. ASSUME NEW s \in 1..Slots, NEW b, resident' = [resident EXCEPT ![s] = b],
             problem' = problem, Walking(resident[s])'
      PROVE  LoopInv'
  <2>1. \A t \in 1..Slots : t # s => resident'[t] = resident[t]
    BY <1>1, <1>3
  <2>2. ASSUME NEW t \in 1..Slots PROVE Walking(resident[t])'
    <3>1. CASE t = s
      BY <1>3, <3>1
    <3>2. CASE t # s
      BY <1>2, <1>3, <2>1, <3>2
    <3> QED BY <3>1, <3>2
  <2> QED BY <2>2 DEF LoopInv
<1>4. ASSUME NEW s \in 1..Slots, Step(s) PROVE LoopInv'
  <2>1. CASE Dispatch(s)
    <3> DEFINE block == [pc |-> "start", n |-> next_block, i_total_loops |-> 0, stored |-> {}]
    <3>1. problem' = problem /\ resident' = [resident EXCEPT ![s] = block]
      BY <2>1 DEF Dispatch, memory
    <3>2. resident'[s] = block
      BY <1>1, <3>1
    <3>3. Walking(resident[s])'
      BY <3>2 DEF Walking
    <3> QED BY <1>3, <3>1, <3>3
  <2>2. CASE ReturnEarly(s)
    <3>1. problem' = problem /\ resident' = [resident EXCEPT ![s] = Empty]
      BY <2>2 DEF ReturnEarly, memory
    <3>2. resident'[s] = Empty
      BY <1>1, <3>1
    <3>3. Walking(resident[s])'
      BY <3>2 DEF Walking, Empty
    <3> QED BY <1>3, <3>1, <3>3
  <2>3. ASSUME resident[s].pc \in {"start", "tile", "epilog"}
        PROVE  resident[s] \in Blocks /\ num_total_loop(resident[s].n) \in Int
    <3>1. resident[s] \in Blocks
      BY <1>1, <2>3 DEF Empty
    <3>2. resident[s].n \in 0..(NumBlocks - 1)
      BY <3>1 DEF Blocks
    <3> QED BY <1>1, <3>1, <3>2, LoopsType
  <2>4. CASE Start(s)
    <3> DEFINE loops == num_total_loop(resident[s].n)
               block == [resident[s] EXCEPT !.pc = IF loops <= 0 THEN "epilog" ELSE "tile"]
    <3>1. problem' = problem /\ resident' = [resident EXCEPT ![s] = block]
      BY <2>4 DEF Start, memory
    <3>2. resident[s].pc = "start" /\ resident[s] \in Blocks /\ loops \in Int
      BY <2>3, <2>4 DEF Start
    <3>3. /\ resident'[s].pc = (IF loops <= 0 THEN "epilog" ELSE "tile")
          /\ resident'[s].n = resident[s].n
          /\ resident'[s].i_total_loops = resident[s].i_total_loops
      BY <1>1, <3>1, <3>2 DEF Blocks
    <3>4. resident[s].i_total_loops = 0
      BY <3>2 DEF LoopInv, Walking
    <3>5. num_total_loop(resident[s].n)' = loops
      BY <3>1, <3>3, WalkingSame
    <3> HIDE DEF loops
    <3>6. Walking(resident[s])'
      BY <3>2, <3>3, <3>4, <3>5 DEF Walking, Walked
    <3> QED BY <1>3, <3>1, <3>6
  <2>5. CASE Tile(s)
    <3> DEFINE loops == num_total_loop(resident[s].n)
               done  == resident[s].i_total_loops + 1
               block == [resident[s] EXCEPT !.i_total_loops = done,
                                            !.pc = IF done < loops THEN "tile" ELSE "epilog"]
    <3>1. problem' = problem /\ resident' = [resident EXCEPT ![s] = block]
      BY <2>5 DEF Tile, memory
    <3>2. resident[s].pc = "tile" /\ resident[s] \in Blocks /\ loops \in Int
      BY <2>3, <2>5 DEF Tile
    <3>3. /\ resident'[s].pc = (IF done < loops THEN "tile" ELSE "epilog")
          /\ resident'[s].n = resident[s].n
          /\ resident'[s].i_total_loops = done
      BY <1>1, <3>1, <3>2 DEF Blocks
    <3>4. resident[s].i_total_loops < loops /\ resident[s].i_total_loops \in Nat
      BY <3>2 DEF LoopInv, Walking, Blocks
    <3>5. num_total_loop(resident[s].n)' = loops
      BY <3>1, <3>3, WalkingSame
    <3> HIDE DEF loops
    <3>6. Walking(resident[s])'
      BY <3>2, <3>3, <3>4, <3>5 DEF Walking, Walked
    <3> QED BY <1>3, <3>1, <3>6
  <2>6. ASSUME NEW warp \in Warps, EpilogStore(s, warp) PROVE LoopInv'
    <3> DEFINE stored == resident[s].stored \cup {warp}
               block  == IF stored = Warps THEN Empty ELSE [resident[s] EXCEPT !.stored = stored]
    <3>1. problem' = problem /\ resident' = [resident EXCEPT ![s] = block]
      BY <2>6 DEF EpilogStore
    <3>2. resident[s].pc = "epilog" /\ resident[s] \in Blocks
      BY <2>3, <2>6 DEF EpilogStore
    <3>3. CASE stored = Warps
      <4>1. resident'[s] = Empty
        BY <1>1, <3>1, <3>3
      <4>2. Walking(resident[s])'
        BY <4>1 DEF Walking, Empty
      <4> QED BY <1>3, <3>1, <4>2
    <3>4. CASE stored # Warps
      <4>1. /\ resident'[s].pc = "epilog" /\ resident'[s].n = resident[s].n
            /\ resident'[s].i_total_loops = resident[s].i_total_loops
        BY <1>1, <3>1, <3>2, <3>4 DEF Blocks
      <4>2. num_total_loop(resident[s].n)' = num_total_loop(resident[s].n)
        BY <3>1, <4>1, WalkingSame
      <4>3. Walking(resident[s])
        BY DEF LoopInv
      <4>4. Walking(resident[s])'
        BY <3>2, <4>1, <4>2, <4>3 DEF Walking, Walked
      <4> QED BY <1>3, <3>1, <4>4
    <3> QED BY <3>3, <3>4
  <2> QED BY <1>4, <2>1, <2>2, <2>4, <2>5, <2>6 DEF Step
<1>5. CASE UNCHANGED vars
  <2>1. problem' = problem /\ \A t \in 1..Slots : resident'[t] = resident[t]
    BY <1>5 DEF vars, memory
  <2>2. ASSUME NEW t \in 1..Slots PROVE Walking(resident[t])'
    BY <1>2, <2>1
  <2> QED BY <2>2 DEF LoopInv
<1> QED BY <1>4, <1>5 DEF Next, Finished

\* A launch starts in the invariant, with all cells unset.
LEMMA InitGridInv == Init => GridInv /\ Output!Init
<1> SUFFICES ASSUME Init PROVE GridInv /\ Output!Init
  OBVIOUS
<1>1. DispatchInv
  BY InitDispatchInv
<1>2. LoopInv
  BY DEF Init, LoopInv, Walking, Empty
<1>3. SoundMemory /\ Output!Init
  BY SoundInit DEF Init
<1> QED BY <1>1, <1>2, <1>3 DEF GridInv

\* Steps that store nothing leave memory as it is.
LEMMA SameMemory ==
  ASSUME SoundMemory, UNCHANGED memory
  PROVE  SoundMemory' /\ UNCHANGED Output!vars
<1>1. problem' = problem /\ o_mem' = o_mem /\ lse_mem' = lse_mem
  BY DEF memory
<1>2. SoundMemory'
  BY <1>1 DEF SoundMemory, Sound
<1>3. Expected' = Expected /\ Memory' = Memory
  BY <1>1 DEF Expected, Memory
<1> QED BY <1>2, <1>3 DEF Output!vars

\* A step keeps the invariant, and sets only cells still unset, to their values.
LEMMA NextGridInv == GridInv /\ [Next]_vars => GridInv' /\ [Output!Produce]_(Output!vars)
<1> SUFFICES ASSUME GridInv, [Next]_vars PROVE GridInv' /\ [Output!Produce]_(Output!vars)
  OBVIOUS
<1> USE DEF GridInv
<1>1. DispatchInv'
  BY NextDispatchInv
<1>2. LoopInv'
  BY NextLoopInv
<1>3. CASE UNCHANGED memory
  BY <1>1, <1>2, <1>3, SameMemory
<1>4. ASSUME NEW s \in 1..Slots, NEW warp \in Warps, EpilogStore(s, warp)
      PROVE  GridInv' /\ Output!Produce
  <2>1. resident[s].pc = "epilog"
    BY <1>4 DEF EpilogStore
  <2>2. resident[s] \in Blocks
    BY <2>1 DEF DispatchInv, TypeOK, Empty
  <2>3. /\ resident[s].n \in 0..(NumBlocks - 1) /\ resident[s].i_total_loops \in Nat
        /\ resident[s].i_total_loops = Walked(resident[s].n)
    BY <2>1, <2>2 DEF Blocks, LoopInv, Walking
  <2>4. /\ SoundMemory' /\ problem' = problem
        /\ DOMAIN o_mem \subseteq DOMAIN o_mem' /\ DOMAIN lse_mem \subseteq DOMAIN lse_mem'
    BY <1>4, <2>3, EpilogStoreIsSound
  <2> QED BY <1>1, <1>2, <2>4, SoundStepProduces
<1>5. \/ UNCHANGED memory
      \/ \E s \in 1..Slots, warp \in Warps : EpilogStore(s, warp)
  BY DEF Next, Step, Finished, vars, Dispatch, ReturnEarly, Start, Tile
<1> QED BY <1>3, <1>4, <1>5

\* No block of a launch stores outside the tensors or between their rows.
THEOREM GridStaysInTensors == Spec => []NoStrayStore
<1>1. GridInv => NoStrayStore
  BY SoundIsNoStray DEF GridInv
<1>2. Init => GridInv
  BY InitGridInv
<1>3. GridInv /\ [Next]_vars => GridInv'
  BY NextGridInv
<1> QED BY <1>1, <1>2, <1>3, PTL DEF Spec

\* The blocks of a launch, however many run at once and in whatever order,
\* together do only what attention prescribes.
THEOREM GridImplementsAttention == Spec => Output!Safety
<1>1. Init => GridInv /\ Output!Init
  BY InitGridInv
<1>2. GridInv /\ [Next]_vars => GridInv' /\ [Output!Produce]_(Output!vars)
  BY NextGridInv
<1> QED BY <1>1, <1>2, PTL DEF Spec, Output!Safety

(***************************************************************************)
(* The reference kernel                                                    *)
(***************************************************************************)

\* The reference kernel reads the same problem and the same memory.
LEMMA SameProblem ==
  /\ \A p : /\ Naive!varlen_mode(p) <=> varlen_mode(p)
            /\ Naive!hdim_dispatch(p) = hdim_dispatch(p)
            /\ Naive!Gqa(p) = Gqa(p) /\ Naive!offsets(p) = offsets(p)
  /\ \A p, heads, len : Naive!Strides(p, heads, len) = Strides(p, heads, len)
  /\ \A p, b : Naive!SeqLenQ(p, b) = SeqLenQ(p, b) /\ Naive!SeqLenK(p, b) = SeqLenK(p, b)
  /\ \A addr, columns : Naive!QueryRowAt(addr, columns) = QueryRowAt(addr, columns)
  /\ \A base, stride, keys : Naive!KVHeadAt(base, stride, keys) = KVHeadAt(base, stride, keys)
  /\ Naive!ZeroRow = ZeroRow /\ Naive!memory = memory /\ (Naive!MemoryInit <=> MemoryInit)
  /\ \A S : Naive!Cardinality(S) = Cardinality(S)
<1>1. \A p : (Naive!varlen_mode(p) <=> varlen_mode(p))
             /\ Naive!hdim_dispatch(p) = hdim_dispatch(p) /\ Naive!Gqa(p) = Gqa(p)
  BY DEF Naive!varlen_mode, varlen_mode, Naive!hdim_dispatch, hdim_dispatch, Naive!Gqa, Gqa
<1>2. \A p : Naive!offsets(p) = offsets(p)
  BY Zenon DEF Naive!offsets, offsets
<1>3. \A p : Naive!total_seqlen(p) = total_seqlen(p)
  BY <1>2 DEF Naive!total_seqlen, total_seqlen
<1>4. \A p, heads, len : Naive!Strides(p, heads, len) = Strides(p, heads, len)
  BY <1>1, <1>3 DEF Naive!Strides, Strides
<1>5. \A p, b : Naive!SeqLenQ(p, b) = SeqLenQ(p, b) /\ Naive!SeqLenK(p, b) = SeqLenK(p, b)
  BY <1>1 DEF Naive!SeqLenQ, SeqLenQ, Naive!SeqLenK, SeqLenK
<1>6. \A p, heads, len, b, h, i :
        Naive!RowOffset(p, heads, len, b, h, i) = RowOffset(p, heads, len, b, h, i)
  BY <1>1, <1>2, <1>3 DEF Naive!RowOffset, RowOffset
<1>7. \A p, b, h, i : /\ Naive!QOffset(p, b, h, i) = QOffset(p, b, h, i)
                      /\ Naive!KVOffset(p, b, h, i) = KVOffset(p, b, h, i)
  BY <1>6 DEF Naive!QOffset, QOffset, Naive!KVOffset, KVOffset
<1>8. \A p : Naive!QueryRows(p) = QueryRows(p)
  BY <1>5 DEF Naive!QueryRows, QueryRows, Naive!kM0, kM0
<1>9. Naive!QAddress = QAddress
  BY <1>7, <1>8 DEF Naive!QAddress, QAddress
<1>10. Naive!NoRow = NoRow /\ Naive!ZeroRow = ZeroRow
  BY DEF Naive!NoRow, NoRow, Naive!ZeroRow, ZeroRow
<1>11. \A addr, columns : Naive!QueryRowAt(addr, columns) = QueryRowAt(addr, columns)
  BY <1>1, <1>9, <1>10 DEF Naive!QueryRowAt, QueryRowAt
<1>12. \A base, stride, keys : Naive!KVHeadAt(base, stride, keys) = KVHeadAt(base, stride, keys)
  <2> SUFFICES ASSUME NEW base, NEW stride, NEW keys
               PROVE  Naive!KVHeadAt(base, stride, keys) = KVHeadAt(base, stride, keys)
    OBVIOUS
  <2> DEFINE heads == (0..problem.batch - 1) \X (0..problem.kv_heads - 1)
             at == {h \in heads : /\ keys <= SeqLenK(problem, h[1])
                                  /\ \A j \in {0, keys - 1} :
                                       base + j * stride = KVOffset(problem, h[1], h[2], j)}
             naive == {h \in heads :
                         /\ keys <= Naive!SeqLenK(problem, h[1])
                         /\ \A j \in {0, keys - 1} :
                              base + j * stride = Naive!KVOffset(problem, h[1], h[2], j)}
  <2>1. naive = at
    BY <1>5, <1>7
  <2>2. KVHeadAt(base, stride, keys) = IF at = {} THEN NoRow ELSE CHOOSE h \in at : TRUE
    BY DEF KVHeadAt
  <2>3. Naive!KVHeadAt(base, stride, keys)
        = IF naive = {} THEN Naive!NoRow ELSE CHOOSE h \in naive : TRUE
    BY DEF Naive!KVHeadAt
  <2> HIDE DEF at, naive
  <2> QED BY <1>10, <2>1, <2>2, <2>3
<1>13. Naive!memory = memory /\ (Naive!MemoryInit <=> MemoryInit)
  BY DEF Naive!memory, memory, Naive!MemoryInit, MemoryInit
<1>14. \A S : Naive!Cardinality(S) = Cardinality(S)
  BY Zenon DEF Naive!Cardinality, Cardinality
<1> QED BY <1>1, <1>2, <1>4, <1>5, <1>10, <1>11, <1>12, <1>13, <1>14

\* The row a thread computes.
ThreadRow(tid) == <<Naive!b_of(tid), Naive!hq_of(tid), Naive!i_of(tid)>>

\* A thread that does not return has a row of its sequence.
LEMMA ThreadHasRow ==
  ASSUME problem \in NaiveProblems, NEW tid \in Nat, ~Naive!Returns(tid)
  PROVE  /\ Naive!b_of(tid) \in 0..(problem.batch - 1)
         /\ Naive!hq_of(tid) \in 0..(problem.q_heads - 1)
         /\ Naive!i_of(tid) \in Nat /\ Naive!i_of(tid) < SeqLenQ(problem, Naive!b_of(tid))
         /\ ThreadRow(tid) \in QueryRows(problem)
<1> DEFINE B == problem.batch
           H == problem.q_heads
           N == problem.seq_len
           b == tid \div (H * N)
           h == (tid \div N) % H
           i == tid % N
<1>1. problem \in Problems /\ B \in Nat /\ H \in Nat \ {0} /\ N \in Nat
  BY NaiveAssumption, ProblemsAssumption
<1>2. Naive!b_of(tid) = b /\ Naive!hq_of(tid) = h /\ Naive!i_of(tid) = i
  BY DEF Naive!b_of, Naive!hq_of, Naive!i_of
<1>3. tid < B * H * N
  BY DEF Naive!Returns, Naive!total_rows
<1> HIDE DEF B, H, N
<1>4. H * N \in Nat \ {0} /\ N # 0 /\ tid < (H * N) * B
  <2>1. N # 0
    <3>1. ASSUME N = 0 PROVE FALSE
      <4>1. B * H \in Nat /\ (B * H) * 0 = 0
        BY <1>1
      <4> QED BY <1>3, <3>1, <4>1
    <3> QED BY <3>1
  <2>2. B * H * N = (H * N) * B
    BY <1>1
  <2> QED BY <1>1, <1>3, <2>1, <2>2
<1>5. b \in Nat /\ b < B
  BY <1>1, <1>4, DivMod, DivBound
<1>6. h \in 0..(H - 1) /\ i \in 0..(N - 1)
  <2>1. tid \div N \in Nat /\ i \in 0..(N - 1)
    BY <1>1, <1>4, DivMod
  <2> QED BY <1>1, <2>1, DivMod
<1> HIDE DEF b, h, i
<1>7. SeqLenQ(problem, b) \in Int /\ i < SeqLenQ(problem, b)
  <2>1. CASE varlen_mode(problem)
    <3>1. ~(i >= SeqLenQ(problem, b))
      BY <1>2, <1>3, <2>1, SameProblem DEF Naive!Returns, Naive!Sq_b, Naive!total_rows, B, H, N
    <3>2. problem.varlen_seqs \in [1..B -> Nat]
      BY <1>1, <2>1, Offsets DEF B
    <3>3. b + 1 \in 1..B
      BY <1>1, <1>5
    <3>4. SeqLenQ(problem, b) \in Nat
      BY <2>1, <3>2, <3>3 DEF SeqLenQ
    <3> QED BY <1>6, <3>1, <3>4
  <2>2. CASE ~varlen_mode(problem)
    <3>1. SeqLenQ(problem, b) = N
      BY <2>2 DEF SeqLenQ, N
    <3> QED BY <1>1, <1>6, <3>1
  <2> QED BY <2>1, <2>2
<1>8. i % kM0 \in Rows
  BY <1>6, NaiveAssumption DEF N
<1>9. b \in 0..(problem.batch - 1) /\ h \in 0..(problem.q_heads - 1) /\ i \in Nat
  BY <1>1, <1>5, <1>6 DEF B, H
<1>10. <<b, h, i>> \in QueryRows(problem)
  BY <1>1, <1>7, <1>8, <1>9, QueryRowsAre
<1> QED BY <1>2, <1>7, <1>9, <1>10 DEF ThreadRow

(***************************************************************************)
(* What a thread stores                                                    *)
(***************************************************************************)

\* The keys a thread scores are those its row attends.
LEMMA KeysScoredAreAllowed ==
  ASSUME problem \in NaiveProblems, NEW tid \in Nat, ~Naive!Returns(tid)
  PROVE  LET keys == Cardinality(Naive!KeysScored(tid))
         IN  /\ keys = KeysAllowed(problem, Naive!b_of(tid), Naive!i_of(tid))
             /\ keys \in Nat /\ keys <= SeqLenK(problem, Naive!b_of(tid))
<1> DEFINE b  == Naive!b_of(tid)
           i  == Naive!i_of(tid)
           sq == SeqLenQ(problem, b)
           sk == SeqLenK(problem, b)
           n  == KeysAllowed(problem, b, i)
<1>1. /\ problem \in Problems /\ b \in 0..(problem.batch - 1) /\ i \in Nat
      /\ problem.batch \in Nat /\ problem.mask \in BOOLEAN
      /\ problem.seq_len \in Nat /\ problem.kv_seq_len \in Nat
  BY ThreadHasRow, NaiveAssumption, ProblemsAssumption
<1>2. sq \in Nat /\ sk \in Nat
  <2>1. CASE varlen_mode(problem)
    <3>1. problem.varlen_seqs \in [1..problem.batch -> Nat]
      BY <1>1, <2>1, Offsets
    <3> HIDE DEF b
    <3>2. b + 1 \in 1..problem.batch
      BY <1>1
    <3> QED BY <2>1, <3>1, <3>2 DEF SeqLenQ, SeqLenK
  <2>2. CASE ~varlen_mode(problem)
    BY <1>1, <2>2 DEF SeqLenQ, SeqLenK
  <2> QED BY <2>1, <2>2
<1>3. Naive!KeysScored(tid) = {j \in 0..(sk - 1) : problem.mask => j <= i + (sk - sq)}
  BY SameProblem DEF Naive!KeysScored, Naive!Skv_b, Naive!Sq_b
<1>4. n = LET m == IF problem.mask THEN Least(i + (sk - sq) + 1, sk) ELSE sk
          IN  IF m < 0 THEN 0 ELSE m
  BY DEF KeysAllowed
<1> HIDE DEF sq, sk, i, n
<1>5. n \in Nat /\ n <= sk
  BY <1>1, <1>2, <1>4 DEF Least
<1>6. {j \in 0..(sk - 1) : problem.mask => j <= i + (sk - sq)} = 0..(n - 1)
  BY <1>1, <1>2, <1>4 DEF Least
<1>7. Cardinality(0..(n - 1)) = n
  <2>1. 0 \in Int /\ n - 1 \in Int
    BY <1>5
  <2>2. Cardinality(0..(n - 1)) = IF 0 > n - 1 THEN 0 ELSE (n - 1) - 0 + 1
    BY <2>1, FS_Interval
  <2> QED BY <1>5, <2>2
<1> QED BY <1>3, <1>5, <1>6, <1>7 DEF n, sk, i

\* The strides of Q lead a thread to the LSE of its row.
LEMMA LseIndex ==
  ASSUME problem \in NaiveProblems, problem.lse, NEW tid \in Nat, ~Naive!Returns(tid)
  PROVE  Naive!lse_idx(tid)
         = LseOffset(problem, Naive!b_of(tid), Naive!hq_of(tid), Naive!i_of(tid))
<1> DEFINE b == Naive!b_of(tid)
           h == Naive!hq_of(tid)
           i == Naive!i_of(tid)
           f == FirstToken(problem, b)
           S == Strides(problem, problem.q_heads, problem.seq_len)
           D == hdim_dispatch(problem)
           H == problem.q_heads
           N == problem.seq_len
           T == total_seqlen(problem)
<1>1. /\ problem \in Problems /\ problem.layout = "BHSD" /\ D \in Nat \ {0}
      /\ H \in Nat \ {0} /\ N \in Nat /\ problem.batch \in Nat
  BY NaiveAssumption, ProblemsAssumption DEF hdim_dispatch
<1>2. b \in Nat /\ h \in Nat /\ i \in Nat /\ f \in Nat
  BY <1>1, ThreadHasRow, FirstTokenType
<1>3. Naive!q_strides = S /\ Naive!seqstart(tid) = f
  BY SameProblem DEF Naive!q_strides, Naive!seqstart, FirstToken
<1>4. Naive!lse_idx(tid) = b * (S.batch \div S.seq) + h * (S.head \div S.seq) + f + i
  BY <1>3 DEF Naive!lse_idx
<1> HIDE DEF b, h, i
<1>5. CASE varlen_mode(problem)
  <2>1. T \in Nat
    BY <1>1, <1>5, Offsets
  <2>2. S.batch = 0 /\ S.head = T * D /\ S.seq = D
    BY <1>1, <1>5 DEF Strides
  <2>3. (T * D) \div D = T /\ 0 \div D = 0
    <3>1. \A a \in Nat : (a * D) \div D = a
      BY <1>1, Multiples
    <3> DEFINE z == 0 * D
    <3>2. z = 0
      BY <1>1
    <3> HIDE DEF z
    <3>3. 0 \in Nat /\ (0 \in Nat => z \div D = 0)
      BY <3>1, Zenon DEF z
    <3> QED BY <2>1, <3>1, <3>2, <3>3
  <2>4. LseOffset(problem, b, h, i) = h * T + f + i
    BY <1>5 DEF LseOffset, FirstToken
  <2> HIDE DEF f, T, D
  <2>5. b * 0 = 0 /\ h * T \in Nat
    BY <1>2, <2>1
  <2> QED BY <1>2, <1>4, <2>2, <2>3, <2>4, <2>5 DEF b, h, i
<1>6. CASE ~varlen_mode(problem)
  <2>1. S.batch = (H * N) * D /\ S.head = N * D /\ S.seq = D /\ f = 0
    BY <1>1, <1>6 DEF Strides, FirstToken
  <2> HIDE DEF f, H, N, D, S
  <2>2. H * N \in Nat
    BY <1>1
  <2>3. ((H * N) * D) \div D = H * N /\ (N * D) \div D = N
    BY <1>1, <2>2, Multiples
  <2>4. LseOffset(problem, b, h, i) = (b * H + h) * N + i
    BY <1>6 DEF LseOffset, H, N
  <2>5. (b * H + h) * N = b * (H * N) + h * N /\ b * (H * N) \in Nat /\ h * N \in Nat
    BY <1>1, <1>2
  <2>6. Naive!lse_idx(tid) = b * (H * N) + h * N + 0 + i
    BY <1>4, <2>1, <2>3
  <2> QED BY <1>2, <2>4, <2>5, <2>6 DEF b, h, i
<1> QED BY <1>5, <1>6 DEF b, h, i

\* A thread finds its row and its keys, and stores the result of the row at the
\* row's place.
LEMMA ThreadResult ==
  ASSUME problem \in NaiveProblems, NEW tid \in Nat, ~Naive!Returns(tid)
  PROVE  /\ ThreadRow(tid) \in QueryRows(problem)
         /\ Naive!Address(Naive!q_strides, Naive!b_of(tid), Naive!hq_of(tid),
                          Naive!seqstart(tid) + Naive!i_of(tid))
            = CellAddress[problem][<<"O", ThreadRow(tid)>>]
         /\ problem.lse =>
              Naive!lse_idx(tid) = CellAddress[problem][<<"LSE", ThreadRow(tid)>>]
         /\ Naive!Value(tid) = RowResult[problem][ThreadRow(tid)]
<1> DEFINE b == Naive!b_of(tid)
           h == Naive!hq_of(tid)
           i == Naive!i_of(tid)
           f == FirstToken(problem, b)
           r == ThreadRow(tid)
           hk == h \div Gqa(problem)
           Q == Strides(problem, problem.q_heads, problem.seq_len)
           K == Strides(problem, problem.kv_heads, problem.kv_seq_len)
           keys  == Cardinality(Naive!KeysScored(tid))
           q_row == Naive!Address(Q, b, h, f + i)
           kbase == Naive!Address(K, b, hk, f)
<1>1. /\ problem \in Problems /\ problem.q_heads \in Nat \ {0} /\ problem.kv_heads \in Nat \ {0}
      /\ problem.seq_len \in Nat /\ problem.kv_seq_len \in Nat
      /\ problem.head_dim \in problem.head_dim..hdim_dispatch(problem)
  BY NaiveAssumption, ProblemsAssumption DEF hdim_dispatch
<1>2. /\ b \in 0..(problem.batch - 1) /\ h \in 0..(problem.q_heads - 1) /\ i \in Nat
      /\ r \in QueryRows(problem) /\ r[1] = b /\ r[2] = h /\ r[3] = i
  BY ThreadHasRow DEF ThreadRow
<1>3. /\ Naive!q_strides = Q /\ Naive!kv_strides = K /\ Naive!seqstart(tid) = f
      /\ Naive!hkv_of(tid) = hk
  BY SameProblem DEF Naive!q_strides, Naive!kv_strides, Naive!seqstart, FirstToken, Naive!hkv_of
<1>4. hk \in 0..(problem.kv_heads - 1) /\ f \in Nat
  BY <1>1, <1>2, KVHeadOfBlock, FirstTokenType
<1>5. keys = KeysAllowed(problem, b, i) /\ keys \in Nat /\ keys <= SeqLenK(problem, b)
  BY KeysScoredAreAllowed
<1> HIDE DEF b, h, i, r, hk, keys
<1>6. q_row = QOffset(problem, b, h, i)
  <2>1. b * Q.batch + h * Q.head + (f + i) * Q.seq = QOffset(problem, b, h, i)
    BY <1>1, <1>2, StridedAddress DEF QOffset
  <2> QED BY <2>1 DEF Naive!Address
<1>7. kbase = KVOffset(problem, b, hk, 0)
  <2>1. b * K.batch + hk * K.head + (f + 0) * K.seq = KVOffset(problem, b, hk, 0)
    BY <1>1, <1>2, <1>4, StridedAddress, SMTT(30) DEF KVOffset
  <2>2. f + 0 = f
    BY <1>4
  <2> QED BY <2>1, <2>2 DEF Naive!Address
<1> HIDE DEF q_row, kbase, Q
<1>8. QAddress[problem][r] = q_row
  BY <1>1, <1>2, <1>6 DEF QAddress
<1>9. CellAddress[problem][<<"O", r>>] = q_row
      /\ CellAddress[problem][<<"LSE", r>>] = LseOffset(problem, b, h, i)
  BY <1>1, <1>2, <1>8 DEF CellAddress
<1>10. QueryRowAt(q_row, problem.head_dim) = r
  BY <1>1, <1>2, <1>8, QueryRowFound
<1>11. ASSUME keys # 0 PROVE KVHeadAt(kbase, K.seq, keys) = <<b, hk>>
  BY <1>1, <1>2, <1>4, <1>5, <1>7, <1>11, KVHeadFound
<1> HIDE DEF K
<1>12. Naive!Value(tid) = IF keys = 0 THEN ZeroRow
         ELSE [q |-> QueryRowAt(q_row, problem.head_dim), kv |-> KVHeadAt(kbase, K.seq, keys),
               keys |-> keys]
  BY <1>3, SameProblem DEF Naive!Value, q_row, kbase, keys, b, h, i
<1>13. RowResult[problem][r] = IF keys = 0 THEN ZeroRow
         ELSE [q |-> r, kv |-> <<b, hk>>, keys |-> keys]
  BY <1>1, <1>2, <1>5 DEF RowResult, hk
<1>14. Naive!Value(tid) = RowResult[problem][r]
  BY <1>10, <1>11, <1>12, <1>13
<1>15. problem.lse => Naive!lse_idx(tid) = LseOffset(problem, b, h, i)
  BY LseIndex DEF b, h, i
<1> QED BY <1>2, <1>3, <1>9, <1>14, <1>15 DEF q_row, b, h, i, r

\* A thread's store sets one cell to its value and destroys no other.
LEMMA ThreadStoreIsSound ==
  ASSUME problem \in NaiveProblems, NEW tid \in Nat, ~Naive!Returns(tid),
         NEW kind \in Kinds(problem), NEW mem, Sound(mem, kind),
         NEW addr, addr = CellAddress[problem][<<kind, ThreadRow(tid)>>],
         NEW width \in Nat, width <= CellWidth(problem, kind),
         NEW new, new = [a \in {a \in DOMAIN mem : a + width <= addr \/ addr + width <= a}
                               \cup {addr} |->
                           IF a = addr THEN Naive!Value(tid) ELSE mem[a]]
  PROVE  Sound(new, kind) /\ DOMAIN mem \subseteq DOMAIN new
<1>1. problem \in Problems
  BY NaiveAssumption
<1>2. ThreadRow(tid) \in QueryRows(problem) /\ Naive!Value(tid) = RowResult[problem][ThreadRow(tid)]
  BY ThreadResult
<1>3. StoresResults(kind, mem, new, {addr}, width)
  BY <1>2 DEF StoresResults
<1> QED BY <1>1, <1>3, StoreIsSound

(***************************************************************************)
(* The inductive invariant of the threads: only threads with a row, of a   *)
(* problem with LSE, are between their two stores.                         *)
(***************************************************************************)
ThreadInv ==
  /\ problem \in NaiveProblems
  /\ pc \in [Naive!Threads -> {"run", "lse", "done"}]
  /\ \A tid \in Naive!Threads : pc[tid] = "lse" => problem.lse /\ ~Naive!Returns(tid)

NaiveInv == ThreadInv /\ SoundMemory

\* The threads and their rows are fixed by the problem.
LEMMA SameThreads ==
  ASSUME problem' = problem
  PROVE  /\ Naive!Threads' = Naive!Threads
         /\ \A tid : Naive!Returns(tid)' <=> Naive!Returns(tid)
BY DEF Naive!Threads, Naive!total_rows, Naive!Returns, Naive!i_of, Naive!Sq_b, Naive!b_of

\* What a thread stores, one cell at a time.
LEMMA ThreadStores ==
  ASSUME NEW tid
  PROVE  /\ Naive!StoreO(tid) =>
              LET addr  == Naive!Address(Naive!q_strides, Naive!b_of(tid), Naive!hq_of(tid),
                                         Naive!seqstart(tid) + Naive!i_of(tid))
                  width == problem.head_dim
              IN  o_mem' = [a \in {a \in DOMAIN o_mem : a + width <= addr \/ addr + width <= a}
                                  \cup {addr} |->
                              IF a = addr THEN Naive!Value(tid) ELSE o_mem[a]]
         /\ Naive!StoreLse(tid) =>
              LET addr == Naive!lse_idx(tid)
              IN  lse_mem' = [a \in {a \in DOMAIN lse_mem : a + 1 <= addr \/ addr + 1 <= a}
                                    \cup {addr} |->
                                IF a = addr THEN Naive!Value(tid) ELSE lse_mem[a]]
<1>1. ASSUME Naive!StoreO(tid)
      PROVE  LET addr  == Naive!Address(Naive!q_strides, Naive!b_of(tid), Naive!hq_of(tid),
                                         Naive!seqstart(tid) + Naive!i_of(tid))
                 width == problem.head_dim
             IN  o_mem' = [a \in {a \in DOMAIN o_mem : a + width <= addr \/ addr + width <= a}
                                  \cup {addr} |->
                              IF a = addr THEN Naive!Value(tid) ELSE o_mem[a]]
  <2> DEFINE at(t) == Naive!Address(Naive!q_strides, Naive!b_of(t), Naive!hq_of(t),
                                    Naive!seqstart(t) + Naive!i_of(t))
             written == {at(i) : i \in {tid}}
             kept == {a \in DOMAIN o_mem : \A b \in written :
                        a + problem.head_dim <= b \/ b + problem.head_dim <= a}
  <2>1. o_mem' = [a \in kept \cup written |->
                    IF a \in written THEN Naive!Value(CHOOSE i \in {tid} : at(i) = a)
                    ELSE o_mem[a]]
    BY <1>1 DEF Naive!StoreO, Naive!Stored
  <2> HIDE DEF at
  <2>2. written = {at(tid)} /\ (CHOOSE i \in {tid} : at(i) = at(tid)) = tid
    OBVIOUS
  <2>3. kept = {a \in DOMAIN o_mem : \/ a + problem.head_dim <= at(tid)
                                     \/ at(tid) + problem.head_dim <= a}
    BY <2>2
  <2> HIDE DEF written, kept
  <2>4. o_mem' = [a \in kept \cup written |->
                    IF a = at(tid) THEN Naive!Value(tid) ELSE o_mem[a]]
    BY <2>1, <2>2
  <2> QED BY <2>2, <2>3, <2>4 DEF at
<1>2. ASSUME Naive!StoreLse(tid)
      PROVE  LET addr == Naive!lse_idx(tid)
             IN  lse_mem' = [a \in {a \in DOMAIN lse_mem : a + 1 <= addr \/ addr + 1 <= a}
                                    \cup {addr} |->
                                IF a = addr THEN Naive!Value(tid) ELSE lse_mem[a]]
  <2> DEFINE at(t) == Naive!lse_idx(t)
             written == {at(i) : i \in {tid}}
             kept == {a \in DOMAIN lse_mem : \A b \in written : a + 1 <= b \/ b + 1 <= a}
  <2>1. lse_mem' = [a \in kept \cup written |->
                    IF a \in written THEN Naive!Value(CHOOSE i \in {tid} : at(i) = a)
                    ELSE lse_mem[a]]
    BY <1>2 DEF Naive!StoreLse, Naive!Stored
  <2> HIDE DEF at
  <2>2. written = {at(tid)} /\ (CHOOSE i \in {tid} : at(i) = at(tid)) = tid
    OBVIOUS
  <2>3. kept = {a \in DOMAIN lse_mem : a + 1 <= at(tid) \/ at(tid) + 1 <= a}
    BY <2>2
  <2> HIDE DEF written, kept
  <2>4. lse_mem' = [a \in kept \cup written |->
                      IF a = at(tid) THEN Naive!Value(tid) ELSE lse_mem[a]]
    BY <2>1, <2>2
  <2> QED BY <2>2, <2>3, <2>4 DEF at
<1> QED BY <1>1, <1>2

\* A launch of the reference kernel starts in the invariant.
LEMMA InitNaiveInv == NaiveInit => NaiveInv /\ Output!Init
<1> SUFFICES ASSUME NaiveInit PROVE NaiveInv /\ Output!Init
  OBVIOUS
<1>1. MemoryInit /\ problem \in NaiveProblems /\ pc = [tid \in Naive!Threads |-> "run"]
  BY SameProblem DEF NaiveInit, Naive!Init
<1>2. ThreadInv
  BY <1>1 DEF ThreadInv
<1> QED BY <1>1, <1>2, SoundInit DEF NaiveInv

\* A step of a thread keeps it, and sets only cells still unset, to their values.
LEMMA NextNaiveInv ==
  NaiveInv /\ (Naive!Next \/ UNCHANGED <<memory, pc>>)
    => NaiveInv' /\ [Output!Produce]_(Output!vars)
<1> SUFFICES ASSUME NaiveInv, Naive!Next \/ UNCHANGED <<memory, pc>>
             PROVE  NaiveInv' /\ [Output!Produce]_(Output!vars)
  OBVIOUS
<1> USE DEF NaiveInv
<1>1. problem \in NaiveProblems /\ problem \in Problems /\ problem.lse \in BOOLEAN
  BY NaiveAssumption, ProblemsAssumption DEF ThreadInv
<1>2. ASSUME NEW tid \in Naive!Threads, NEW to \in {"lse", "done"},
             problem' = problem, pc' = [pc EXCEPT ![tid] = to],
             to = "lse" => problem.lse /\ ~Naive!Returns(tid)
      PROVE  ThreadInv'
  <2>1. /\ Naive!Threads' = Naive!Threads
        /\ \A t : Naive!Returns(t)' <=> Naive!Returns(t)
    BY <1>2, SameThreads
  <2>2. pc' \in [Naive!Threads -> {"run", "lse", "done"}]
    BY <1>2 DEF ThreadInv
  <2>3. ASSUME NEW t \in Naive!Threads, pc'[t] = "lse" PROVE problem.lse /\ ~Naive!Returns(t)
    BY <1>2, <2>3 DEF ThreadInv
  <2> QED BY <1>1, <1>2, <2>1, <2>2, <2>3 DEF ThreadInv
<1>3. ASSUME NEW tid \in Naive!Threads PROVE tid \in Nat
  BY <1>3 DEF Naive!Threads
<1>4. ASSUME NEW tid \in Naive!Threads, Naive!Return(tid)
      PROVE  ThreadInv' /\ UNCHANGED memory
  <2>1. UNCHANGED memory /\ pc' = [pc EXCEPT ![tid] = "done"]
    BY <1>4, SameProblem DEF Naive!Return, Naive!memory, memory
  <2> QED BY <1>2, <2>1 DEF memory
<1>5. ASSUME NEW tid \in Naive!Threads, Naive!StoreO(tid)
      PROVE  /\ ThreadInv' /\ problem' = problem /\ SoundMemory'
             /\ DOMAIN o_mem \subseteq DOMAIN o_mem' /\ DOMAIN lse_mem \subseteq DOMAIN lse_mem'
  <2> DEFINE to    == IF problem.lse THEN "lse" ELSE "done"
             addr  == Naive!Address(Naive!q_strides, Naive!b_of(tid), Naive!hq_of(tid),
                                    Naive!seqstart(tid) + Naive!i_of(tid))
             width == problem.head_dim
  <2>1. /\ problem' = problem /\ lse_mem' = lse_mem /\ ~Naive!Returns(tid)
        /\ pc' = [pc EXCEPT ![tid] = to]
    BY <1>5 DEF Naive!StoreO
  <2>2. ThreadInv'
    BY <1>2, <2>1
  <2>3. o_mem' = [a \in {a \in DOMAIN o_mem : a + width <= addr \/ addr + width <= a}
                        \cup {addr} |-> IF a = addr THEN Naive!Value(tid) ELSE o_mem[a]]
    BY <1>5, ThreadStores
  <2>4. addr = CellAddress[problem][<<"O", ThreadRow(tid)>>]
    BY <1>1, <1>3, <2>1, ThreadResult
  <2>5. /\ width \in Nat /\ width <= CellWidth(problem, "O") /\ "O" \in Kinds(problem)
        /\ Sound(o_mem, "O")
    BY <1>1, ProblemsAssumption DEF CellWidth, Kinds, SoundMemory
  <2> HIDE DEF addr, width
  <2>6. Sound(o_mem', "O") /\ DOMAIN o_mem \subseteq DOMAIN o_mem'
    BY <1>1, <1>3, <2>1, <2>3, <2>4, <2>5, ThreadStoreIsSound
  <2>7. SoundMemory'
    BY <2>1, <2>6 DEF SoundMemory, Sound
  <2> QED BY <2>1, <2>2, <2>6, <2>7
<1>6. ASSUME NEW tid \in Naive!Threads, Naive!StoreLse(tid)
      PROVE  /\ ThreadInv' /\ problem' = problem /\ SoundMemory'
             /\ DOMAIN o_mem \subseteq DOMAIN o_mem' /\ DOMAIN lse_mem \subseteq DOMAIN lse_mem'
  <2> DEFINE addr == Naive!lse_idx(tid)
  <2>1. /\ problem' = problem /\ o_mem' = o_mem /\ pc[tid] = "lse"
        /\ pc' = [pc EXCEPT ![tid] = "done"]
    BY <1>6 DEF Naive!StoreLse
  <2>2. ThreadInv'
    BY <1>2, <2>1
  <2>3. problem.lse /\ ~Naive!Returns(tid)
    BY <2>1 DEF ThreadInv
  <2>4. lse_mem' = [a \in {a \in DOMAIN lse_mem : a + 1 <= addr \/ addr + 1 <= a}
                          \cup {addr} |-> IF a = addr THEN Naive!Value(tid) ELSE lse_mem[a]]
    BY <1>6, ThreadStores
  <2>5. addr = CellAddress[problem][<<"LSE", ThreadRow(tid)>>]
    BY <1>1, <1>3, <2>3, ThreadResult
  <2>6. 1 <= CellWidth(problem, "LSE") /\ "LSE" \in Kinds(problem) /\ Sound(lse_mem, "LSE")
    BY <2>3 DEF CellWidth, Kinds, SoundMemory
  <2> HIDE DEF addr
  <2>7. Sound(lse_mem', "LSE") /\ DOMAIN lse_mem \subseteq DOMAIN lse_mem'
    BY <1>1, <1>3, <2>3, <2>4, <2>5, <2>6, ThreadStoreIsSound
  <2>8. SoundMemory'
    BY <2>1, <2>3, <2>7 DEF SoundMemory, Sound
  <2> QED BY <2>1, <2>2, <2>7, <2>8
<1>7. CASE UNCHANGED <<memory, pc>>
  <2>1. problem' = problem /\ pc' = pc /\ UNCHANGED memory
    BY <1>7 DEF memory
  <2>2. ThreadInv'
    BY <2>1, SameThreads DEF ThreadInv
  <2> QED BY <2>1, <2>2, SameMemory
<1>8. \/ UNCHANGED <<memory, pc>>
      \/ \E tid \in Naive!Threads : Naive!Return(tid) \/ Naive!StoreO(tid) \/ Naive!StoreLse(tid)
  BY SameProblem DEF Naive!Next, Naive!Step, Naive!Finished, Naive!vars, Naive!memory, memory
<1>9. ASSUME NEW tid \in Naive!Threads, Naive!Return(tid)
      PROVE  NaiveInv' /\ [Output!Produce]_(Output!vars)
  BY <1>4, <1>9, SameMemory
<1>10. ASSUME NEW tid \in Naive!Threads, Naive!StoreO(tid) \/ Naive!StoreLse(tid)
       PROVE  NaiveInv' /\ Output!Produce
  BY <1>5, <1>6, <1>10, SoundStepProduces
<1> QED BY <1>7, <1>8, <1>9, <1>10

(***************************************************************************)
(* Both implementations                                                    *)
(***************************************************************************)
KernelsInv ==
  \/ impl = "fused" /\ GridInv
  \/ impl = "naive" /\ NaiveInv

\* Whichever kernel is launched starts in its invariant, with all cells unset.
LEMMA InitKernelsInv == FusedInit \/ NaiveInit => KernelsInv /\ Output!Init
BY InitGridInv, InitNaiveInv DEF FusedInit, NaiveInit, KernelsInv

\* Its steps keep the invariant and set only cells still unset, to their values.
LEMMA NextKernelsInv ==
  KernelsInv /\ [Fused \/ Reference]_all => KernelsInv' /\ [Output!Produce]_(Output!vars)
<1> SUFFICES ASSUME KernelsInv, [Fused \/ Reference]_all
             PROVE  KernelsInv' /\ [Output!Produce]_(Output!vars)
  OBVIOUS
<1>1. impl' = impl
  BY DEF Fused, Reference, all
<1>2. CASE impl = "fused" /\ GridInv
  <2>1. [Next]_vars
    BY <1>2 DEF Fused, Reference, all
  <2> QED BY <1>1, <1>2, <2>1, NextGridInv DEF KernelsInv
<1>3. CASE impl = "naive" /\ NaiveInv
  <2>1. Naive!Next \/ UNCHANGED <<memory, pc>>
    BY <1>3 DEF Fused, Reference, all, vars
  <2> QED BY <1>1, <1>3, <2>1, NextNaiveInv DEF KernelsInv
<1> QED BY <1>2, <1>3 DEF KernelsInv

\* No store of either kernel lands outside its tensor or between its rows, for
\* every launch, dense or packed, in either layout.
THEOREM StoresStayInTensors == KernelsSpec => []NoStrayStore
<1>1. KernelsInv => NoStrayStore
  BY SoundIsNoStray DEF KernelsInv, GridInv, NaiveInv
<1>2. FusedInit \/ NaiveInit => KernelsInv
  BY InitKernelsInv
<1>3. KernelsInv /\ [Fused \/ Reference]_all => KernelsInv'
  BY NextKernelsInv
<1> QED BY <1>1, <1>2, <1>3, PTL DEF KernelsSpec

\* The safety part of the refinement, for every launch and any number of
\* resident blocks or threads: a cell of O or LSE goes from unset to the value
\* attention prescribes for it and never changes again, whichever kernel runs.
THEOREM KernelsProduceAttention == KernelsSpec => Output!Safety
<1>1. FusedInit \/ NaiveInit => KernelsInv /\ Output!Init
  BY InitKernelsInv
<1>2. KernelsInv /\ [Fused \/ Reference]_all => KernelsInv' /\ [Output!Produce]_(Output!vars)
  BY NextKernelsInv
<1> QED BY <1>1, <1>2, PTL DEF KernelsSpec, Output!Safety
=============================================================================
