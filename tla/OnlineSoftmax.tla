--------------------------- MODULE OnlineSoftmax ---------------------------
(***************************************************************************)
(* The online softmax of one query row: running maximum, denominator and   *)
(* numerator carried over the KV tiles by the two lanes (k_sub halves)     *)
(* that hold the row, and the epilogue that divides them.                  *)
(*                                                                         *)
(* A sum of powers of two is kept as its terms, a function from the keys   *)
(* that contribute to the exponent each contributes, so exponents are all  *)
(* the arithmetic there is.  Scores and maxima are in units of the scaled  *)
(* (base 2) score; a power of two below 2^ExpMin is zero in fp32.          *)
(***************************************************************************)
EXTENDS Integers

CONSTANTS
  MaxTiles,  \* bound on the KV tiles of the row
  Regs,      \* score registers per half and tile (32 in the kernel)
  Scores,    \* the scaled scores q.k a key may get
  Seed,      \* the value rmax starts from (-5000 times the scale)
  ExpMin,    \* exp2(x) is zero in fp32 below this x
  NegInf     \* -INFINITY, the score of a masked key

ASSUME BoundsAssumption == MaxTiles \in Nat \ {0}
ASSUME NumbersAssumption == /\ Scores \subseteq Int
                            /\ Seed \in Int
                            /\ ExpMin \in Int /\ ExpMin <= 0
                            /\ NegInf \notin Int

Halves == {0, 1}

VARIABLES
  pc,       \* next operation of the wave, or "done"
  tile,     \* tiles finished
  score,    \* masked score of every key seen
  rmax,     \* rmax[l]: running maximum in half l
  m_new,    \* m_new[l]: maximum including the current tile
  p,        \* probabilities of the current tile, each in its key's half
  rsum,     \* rsum[l]: terms of the denominator in half l
  o_acc,    \* o_acc[l]: terms of the numerator in half l
  lse       \* terms of 2^LSE as the epilogue stores it; none is -INFINITY

vars == <<pc, tile, score, rmax, m_new, p, rsum, o_acc, lse>>

-----------------------------------------------------------------------------
(* Keys and terms                                                          *)

\* A key is named by its tile and the half and register its score lands in.
TileKeys(t) == {t} \X Halves \X Regs
HalfOf(key) == key[2]

NoTerms == [key \in {} |-> 0]

Join(f, g) == [key \in DOMAIN f \cup DOMAIN g |-> IF key \in DOMAIN f THEN f[key] ELSE g[key]]

\* The terms times 2^d; those that fall below the range of fp32 vanish.
Scaled(terms, d) ==
  [key \in {k \in DOMAIN terms : terms[k] + d >= ExpMin} |-> terms[key] + d]

\* Mutant of Partner: the k_sub bit of the lane is not flipped.
PartnerSelf(l) == l

\* The lane that holds the other half of the row: lane ^ 32.
Partner(l) == 1 - l

-----------------------------------------------------------------------------

Init ==
  /\ pc \in {"scores", "epilogue"}  \* at once in the epilogue: no tile to walk
  /\ tile = 0
  /\ score = NoTerms
  /\ rmax = [l \in Halves |-> Seed]
  /\ m_new = rmax
  /\ p = NoTerms
  /\ rsum = [l \in Halves |-> NoTerms]
  /\ o_acc = [l \in Halves |-> NoTerms]
  /\ lse = NoTerms

\* GEMM0 and softmax_mask: the masked scores of the next tile.
ScoreTile ==
  /\ pc = "scores"
  /\ \E s \in [TileKeys(tile) -> Scores \cup {NegInf}] : score' = Join(s, score)
  /\ pc' = "row_max"
  /\ UNCHANGED <<tile, rmax, m_new, p, rsum, o_acc, lse>>

\* Mutant of IsLocalMax: every tile starts again from the seed.
IsTileMax(m, l) ==
  LET mine == {score[k] : k \in {k \in TileKeys(tile) : HalfOf(k) = l}} \ {NegInf}
  IN  m \in {Seed} \cup mine /\ \A s \in {Seed} \cup mine : s <= m

\* m is the fmaxf of rmax and the scores half l holds.
IsLocalMax(m, l) ==
  LET mine == {score[k] : k \in {k \in TileKeys(tile) : HalfOf(k) = l}} \ {NegInf}
  IN  m \in {rmax[l]} \cup mine /\ \A s \in {rmax[l]} \cup mine : s <= m

Fmax(a, b) == IF a <= b THEN b ELSE a

\* softmax_row_max: the maximum of each half, merged with the other half's.
RowMax ==
  /\ pc = "row_max"
  /\ \E local \in [Halves -> {Seed} \cup Scores] :
       /\ \A l \in Halves : IsLocalMax(local[l], l)
       /\ m_new' = [l \in Halves |-> Fmax(local[l], local[Partner(l)])]
  /\ pc' = "exp2"
  /\ UNCHANGED <<tile, score, rmax, p, rsum, o_acc, lse>>

\* softmax_exp2: P = exp2(S - m_new), zero for a masked key.
Exp2 ==
  /\ pc = "exp2"
  /\ p' = [key \in {k \in TileKeys(tile) :
                      score[k] # NegInf /\ score[k] - m_new[HalfOf(k)] >= ExpMin} |->
             score[key] - m_new[HalfOf(key)]]
  /\ pc' = "row_sum"
  /\ UNCHANGED <<tile, score, rmax, m_new, rsum, o_acc, lse>>

OfHalf(l) == [key \in {k \in DOMAIN p : HalfOf(k) = l} |-> p[key]]

\* Mutant of RowSumAndRescale: the numerator is not rescaled.
RowSumWithoutRescale ==
  /\ pc = "row_sum"
  /\ LET l_new(l) == Join(OfHalf(l), OfHalf(Partner(l)))
     IN  rsum' = [l \in Halves |-> Join(Scaled(rsum[l], rmax[l] - m_new[l]), l_new(l))]
  /\ rmax' = m_new
  /\ pc' = "gemm1"
  /\ UNCHANGED <<tile, score, m_new, p, o_acc, lse>>

\* softmax_row_sum, rescale_o_acc and the update of rsum and rmax.
RowSumAndRescale ==
  /\ pc = "row_sum"
  /\ LET l_new(l) == Join(OfHalf(l), OfHalf(Partner(l)))
     IN  rsum' = [l \in Halves |-> Join(Scaled(rsum[l], rmax[l] - m_new[l]), l_new(l))]
  /\ o_acc' = [l \in Halves |-> Scaled(o_acc[l], rmax[l] - m_new[l])]
  /\ rmax' = m_new
  /\ pc' = "gemm1"
  /\ UNCHANGED <<tile, score, m_new, p, lse>>

\* Mutant of Gemm1: the loop condition allows one tile too many.
Gemm1OneTileMore ==
  /\ pc = "gemm1"
  /\ o_acc' = [l \in Halves |-> Join(o_acc[l], p)]
  /\ tile' = tile + 1
  /\ pc' \in IF tile + 1 <= MaxTiles THEN {"scores", "epilogue"} ELSE {"epilogue"}
  /\ UNCHANGED <<score, rmax, m_new, p, rsum, lse>>

\* GEMM1 contracts over the keys of both halves.
Gemm1 ==
  /\ pc = "gemm1"
  /\ o_acc' = [l \in Halves |-> Join(o_acc[l], p)]
  /\ tile' = tile + 1
  /\ pc' \in IF tile + 1 < MaxTiles THEN {"scores", "epilogue"} ELSE {"epilogue"}
  /\ UNCHANGED <<score, rmax, m_new, p, rsum, lse>>

\* Mutant of Epilogue: the running maximum is not added back to the LSE.
EpilogueUnshifted ==
  /\ pc = "epilogue"
  /\ lse' = rsum[0]
  /\ pc' = "done"
  /\ UNCHANGED <<tile, score, rmax, m_new, p, rsum, o_acc>>

\* epilog_store: O is o_acc / rsum, LSE is log2(rsum) + rmax, or zero and
\* -INFINITY if rsum is zero; half 0 stores the LSE.
Epilogue ==
  /\ pc = "epilogue"
  /\ lse' = [key \in DOMAIN rsum[0] |-> rsum[0][key] + rmax[0]]
  /\ pc' = "done"
  /\ UNCHANGED <<tile, score, rmax, m_new, p, rsum, o_acc>>

Finished == pc = "done" /\ UNCHANGED vars

Next == \/ ScoreTile \/ RowMax \/ Exp2 \/ RowSumAndRescale \/ Gemm1
        \/ Epilogue \/ Finished

Spec == Init /\ [][Next]_vars

-----------------------------------------------------------------------------
(* Properties                                                              *)

AllKeys     == (0..MaxTiles) \X Halves \X Regs
IsTerms(f)  == DOMAIN f \subseteq AllKeys /\ \A key \in DOMAIN f : f[key] \in Int

\* Every variable holds a value of its type.
TypeOK ==
  /\ pc \in {"scores", "row_max", "exp2", "row_sum", "gemm1", "epilogue", "done"}
  /\ tile \in 0..MaxTiles
  /\ DOMAIN score \subseteq AllKeys
  /\ \A key \in DOMAIN score : score[key] \in Scores \cup {NegInf}
  /\ rmax \in [Halves -> {Seed} \cup Scores]
  /\ m_new \in [Halves -> {Seed} \cup Scores]
  /\ IsTerms(p)
  /\ \A l \in Halves : IsTerms(rsum[l]) /\ IsTerms(o_acc[l])
  /\ IsTerms(lse)

Attended == {key \in DOMAIN score : score[key] # NegInf}

\* The two lanes of a row never disagree about its maximum, its denominator or
\* its numerator, although each computed them from half of the scores: half 0
\* alone stores the LSE, and each half divides its own columns of O.
HalvesAgree ==
  /\ rmax[0] = rmax[1]
  /\ rsum[0] = rsum[1]
  /\ o_acc[0] = o_acc[1]

\* Between two tiles numerator and denominator hold the same weights, those of
\* a softmax over all keys seen so far as if computed at once: every attended
\* key has exp2(S - max) with max over the seed and all the scores, however
\* often the maximum was raised in between (pipeline.hpp, ONLINE-SOFTMAX).
RunningSoftmax ==
  pc \in {"scores", "epilogue", "done"} =>
    \A l \in Halves :
      /\ rmax[l] = Seed \/ \E key \in Attended : rmax[l] = score[key]
      /\ \A key \in Attended : score[key] <= rmax[l]
      /\ Seed <= rmax[l]
      /\ LET weights == [key \in {k \in Attended : score[k] - rmax[l] >= ExpMin} |->
                            score[key] - rmax[l]]
         IN  rsum[l] = weights /\ o_acc[l] = weights

\* No term of a probability, a denominator or a numerator is ever above 1, at
\* any step: the exponents that exp2 sees are never positive, so fp32 sums of
\* at most seqlen_k terms cannot overflow (op_softmax.hpp, 0 < factor <= 1).
NoTermAboveOne ==
  /\ \A key \in DOMAIN p : p[key] <= 0
  /\ \A l \in Halves : /\ \A key \in DOMAIN rsum[l] : rsum[l][key] <= 0
                       /\ \A key \in DOMAIN o_acc[l] : o_acc[l][key] <= 0

\* Every score is high enough for exp2(S - Seed) not to vanish.
ScoresInReach == \A s \in Scores : s - Seed >= ExpMin

\* The LSE of a row is the log-sum-exp of the keys it attends, -INFINITY only
\* if there are none: each term counts with its own score, and only terms fp32
\* cannot hold beside the greatest one are missing.
LseIsLogSumExp ==
  ScoresInReach /\ pc = "done" =>
    /\ DOMAIN lse = {} => Attended = {}
    /\ \A key \in DOMAIN lse : key \in Attended /\ lse[key] = score[key]
    /\ \A key \in Attended \ DOMAIN lse :
         \E top \in Attended : score[key] - score[top] < ExpMin

\* op_epilog.hpp says "rsum==0 means the whole row was masked": the epilogue
\* stores -INFINITY (and a zero row) for rows that attend no key, and no other.
ZeroSumMeansMasked == pc = "done" => (DOMAIN lse = {} => Attended = {})
=============================================================================
