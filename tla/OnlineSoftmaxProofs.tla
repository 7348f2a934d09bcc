------------------------ MODULE OnlineSoftmaxProofs ------------------------
(***************************************************************************)
(* Proofs about OnlineSoftmax for every number of tiles and registers,     *)
(* every set of scores, every seed and every exponent range.               *)
(*                                                                         *)
(* The argument: numerator and denominator are always the weights of some  *)
(* set of keys relative to some maximum; rescaling changes the maximum     *)
(* (ScaledWeights), a tile changes the set (JoinedWeights).  Inv says, for *)
(* each point of the tile body, which set and which maximum.               *)
(***************************************************************************)
EXTENDS OnlineSoftmax, TLAPS

\* The weights of some keys relative to m, in one step.
Weights(sc, keys, m) ==
  [key \in {k \in keys : sc[k] # NegInf /\ sc[k] - m >= ExpMin} |-> sc[key] - m]

\* m is the greatest of the seed and the attended scores of some keys.
Greatest(sc, keys, m) ==
  /\ m = Seed \/ \E key \in keys : sc[key] # NegInf /\ sc[key] = m
  /\ Seed <= m
  /\ \A key \in keys : sc[key] # NegInf => sc[key] <= m

Seen(t)   == (0..(t - 1)) \X Halves \X Regs
MidTile   == {"row_max", "exp2", "row_sum", "gemm1"}

\* The keys that count in rmax and rsum, and those that count in o_acc.
Accounted   == IF pc \in {"row_max", "exp2", "row_sum"} THEN Seen(tile) ELSE DOMAIN score
InNumerator == IF pc = "gemm1" THEN Seen(tile) ELSE Accounted

ProgressInv ==
  /\ pc \in {"scores", "row_max", "exp2", "row_sum", "gemm1"} => tile < MaxTiles
  /\ DOMAIN score = IF pc \in MidTile THEN Seen(tile + 1) ELSE Seen(tile)

MaximumInv ==
  /\ rmax[0] = rmax[1] /\ m_new[0] = m_new[1]
  /\ Greatest(score, Accounted, rmax[0])
  /\ pc \in {"exp2", "row_sum"} => Greatest(score, DOMAIN score, m_new[0]) /\ rmax[0] <= m_new[0]

TermsInv ==
  /\ pc = "row_sum" => p = Weights(score, TileKeys(tile), m_new[0])
  /\ pc = "gemm1"   => p = Weights(score, TileKeys(tile), rmax[0])
  /\ \A key \in DOMAIN p : p[key] <= 0
  /\ \A l \in Halves : rsum[l] = Weights(score, Accounted, rmax[l])
  /\ \A l \in Halves : o_acc[l] = Weights(score, InNumerator, rmax[l])
  /\ pc = "done" => lse = [key \in DOMAIN rsum[0] |-> rsum[0][key] + rmax[0]]

Inv == TypeOK /\ ProgressInv /\ MaximumInv /\ TermsInv

-----------------------------------------------------------------------------

IsScores(sc, keys) == \A key \in keys : sc[key] \in Scores \cup {NegInf}

\* Rescaling: weights relative to m, times 2^(m - m2), are the weights relative
\* to the greater m2, and what vanishes vanishes in both (rescale_o_acc).
LEMMA ScaledWeights ==
  ASSUME NEW sc, NEW keys, NEW m \in Int, NEW m2 \in Int, m <= m2, IsScores(sc, keys)
  PROVE  Scaled(Weights(sc, keys, m), m - m2) = Weights(sc, keys, m2)
<1> DEFINE dom(x) == {k \in keys : sc[k] # NegInf /\ sc[k] - x >= ExpMin}
           W == Weights(sc, keys, m)
<1>1. \A k \in keys : sc[k] # NegInf => sc[k] \in Int
  BY NumbersAssumption DEF IsScores
<1>2. DOMAIN W = dom(m) /\ \A k \in dom(m) : W[k] = sc[k] - m
  BY DEF Weights
<1>3. {k \in DOMAIN W : W[k] + (m - m2) >= ExpMin} = dom(m2)
  <2>1. ASSUME NEW k \in DOMAIN W, W[k] + (m - m2) >= ExpMin PROVE k \in dom(m2)
    BY <1>1, <1>2, <2>1, NumbersAssumption
  <2>2. ASSUME NEW k \in dom(m2) PROVE k \in DOMAIN W /\ W[k] + (m - m2) >= ExpMin
    BY <1>1, <1>2, NumbersAssumption
  <2> QED BY <2>1, <2>2
<1>4. \A k \in dom(m2) : W[k] + (m - m2) = sc[k] - m2
  <2> TAKE k \in dom(m2)
  <2>1. k \in DOMAIN W
    BY <1>3
  <2> QED BY <2>1, <1>1, <1>2
<1> HIDE DEF W
<1>5. Scaled(W, m - m2) = [k \in dom(m2) |-> sc[k] - m2]
  BY <1>3, <1>4 DEF Scaled
<1> QED BY <1>5 DEF W, Weights

\* Joining the weights of two sets of keys gives those of their union.
LEMMA JoinedWeights ==
  ASSUME NEW sc, NEW A, NEW B, NEW m
  PROVE  Join(Weights(sc, A, m), Weights(sc, B, m)) = Weights(sc, A \cup B, m)
BY DEF Join, Weights

\* The keys of tile t are new to the tiles before it, and complete them.
LEMMA SeenNext ==
  ASSUME NEW t \in Nat
  PROVE  /\ Seen(t + 1) = Seen(t) \cup TileKeys(t)
         /\ Seen(t) \cap TileKeys(t) = {}
         /\ t < MaxTiles => Seen(t + 1) \subseteq AllKeys
<1>1. 0..(t + 1 - 1) = (0..(t - 1)) \cup {t} /\ t \notin 0..(t - 1)
  OBVIOUS
<1>2. t < MaxTiles => 0..(t + 1 - 1) \subseteq 0..MaxTiles
  BY BoundsAssumption
<1> QED BY <1>1, <1>2 DEF Seen, TileKeys, AllKeys

\* Weights depend on the scores of their keys alone.
LEMMA WeightsOfSame ==
  ASSUME NEW sc, NEW sc2, NEW keys, NEW m, \A k \in keys : sc[k] = sc2[k]
  PROVE  /\ Weights(sc, keys, m) = Weights(sc2, keys, m)
         /\ Greatest(sc, keys, m) <=> Greatest(sc2, keys, m)
BY DEF Weights, Greatest

\* Weights are functions from their keys to integers that are not positive.
LEMMA WeightsTypes ==
  ASSUME NEW sc, NEW keys \in SUBSET AllKeys, NEW m \in Int, IsScores(sc, keys)
  PROVE  /\ IsTerms(Weights(sc, keys, m))
         /\ Greatest(sc, keys, m) => \A k \in DOMAIN Weights(sc, keys, m) : Weights(sc, keys, m)[k] <= 0
<1>1. \A k \in keys : sc[k] # NegInf => sc[k] \in Int
  BY NumbersAssumption DEF IsScores
<1> QED BY <1>1, NumbersAssumption DEF Weights, IsTerms, Greatest

-----------------------------------------------------------------------------

\* Before the first tile nothing is accounted for and the maximum is the seed.
LEMMA InitInv == Init => Inv
<1> SUFFICES ASSUME Init PROVE Inv
  OBVIOUS
<1> USE DEF Init, Halves
<1>1. NoTerms = [key \in {} |-> 0] /\ DOMAIN NoTerms = {}
  BY DEF NoTerms
<1>2. Seen(0) = {}
  BY DEF Seen
<1>3. TypeOK
  BY <1>1, BoundsAssumption, NumbersAssumption DEF TypeOK, IsTerms
<1>4. ProgressInv
  BY <1>1, <1>2, BoundsAssumption DEF ProgressInv, MidTile
<1>5. \A sc, m : Weights(sc, {}, m) = NoTerms
  BY <1>1 DEF Weights
<1>6. Accounted = {} /\ InNumerator = {}
  BY <1>1 DEF Accounted, InNumerator
<1>7. MaximumInv
  BY <1>6, NumbersAssumption DEF MaximumInv, Greatest
<1>8. TermsInv
  BY <1>1, <1>5, <1>6 DEF TermsInv
<1> QED BY <1>3, <1>4, <1>7, <1>8 DEF Inv

\* Every step keeps the invariant.
LEMMA NextInv == Inv /\ [Next]_vars => Inv'
<1> SUFFICES ASSUME Inv, [Next]_vars PROVE Inv'
  OBVIOUS
<1> USE DEF Inv
<1>t. tile \in Nat /\ 0 \in Halves /\ 1 \in Halves
  BY BoundsAssumption DEF TypeOK, Halves
<1>s. \A k : IsScores(score, k \cap DOMAIN score) /\ (k \subseteq DOMAIN score => IsScores(score, k))
  BY DEF IsScores, TypeOK
<1>i. /\ \A l \in Halves : rmax[l] \in Int /\ m_new[l] \in Int
      /\ \A l \in Halves : rmax[l] = rmax[0] /\ m_new[l] = m_new[0]
  BY NumbersAssumption DEF TypeOK, MaximumInv, Halves
<1>n. Seen(tile + 1) = Seen(tile) \cup TileKeys(tile) /\ Seen(tile) \cap TileKeys(tile) = {}
      /\ (tile < MaxTiles => Seen(tile + 1) \subseteq AllKeys)
  BY <1>t, SeenNext
<1>1. CASE ScoreTile
  <2> USE <1>1 DEF ScoreTile
  <2>1. PICK s \in [TileKeys(tile) -> Scores \cup {NegInf}] : score' = Join(s, score)
    OBVIOUS
  <2>2. DOMAIN score = Seen(tile) /\ tile < MaxTiles
    BY DEF ProgressInv, MidTile
  <2>3. /\ DOMAIN score' = Seen(tile + 1)
        /\ \A k \in Seen(tile) : score'[k] = score[k]
        /\ \A k \in Seen(tile + 1) : score'[k] \in Scores \cup {NegInf}
    BY <1>n, <2>1, <2>2 DEF Join, TypeOK
  <2>4. TypeOK'
    BY <1>n, <2>2, <2>3 DEF TypeOK, IsTerms
  <2>5. ProgressInv'
    BY <2>2, <2>3 DEF ProgressInv, MidTile
  <2>6. Accounted = Seen(tile) /\ Accounted' = Seen(tile) /\ InNumerator = Seen(tile) /\ InNumerator' = Seen(tile)
    BY <2>2 DEF Accounted, InNumerator, Seen
  <2>7. \A l \in Halves :
          /\ Weights(score, Seen(tile), rmax[l]) = Weights(score', Seen(tile), rmax[l])
          /\ Greatest(score, Seen(tile), rmax[l]) <=> Greatest(score', Seen(tile), rmax[l])
    BY <2>3, WeightsOfSame
  <2>8. MaximumInv'
    <3>1. Greatest(score', Seen(tile), rmax[0])
      BY <1>t, <2>6, <2>7 DEF MaximumInv
    <3> QED BY <2>6, <3>1 DEF MaximumInv
  <2>9. TermsInv'
    <3>1. \A l \in Halves : /\ rsum[l] = Weights(score', Seen(tile), rmax[l])
                            /\ o_acc[l] = Weights(score', Seen(tile), rmax[l])
      BY <2>6, <2>7 DEF TermsInv
    <3> QED BY <2>6, <3>1 DEF TermsInv
  <2> QED BY <2>4, <2>5, <2>8, <2>9
<1>2. CASE RowMax
  <2> USE <1>2 DEF RowMax
  <2>1. PICK local \in [Halves -> {Seed} \cup Scores] :
          /\ \A l \in Halves : IsLocalMax(local[l], l)
          /\ m_new' = [l \in Halves |-> Fmax(local[l], local[Partner(l)])]
    OBVIOUS
  <2>2. DOMAIN score = Seen(tile + 1) /\ tile < MaxTiles
    BY DEF ProgressInv, MidTile
  <2>3. local[0] \in Int /\ local[1] \in Int
    BY <1>t, NumbersAssumption
  <2>4. /\ m_new'[0] = Fmax(local[0], local[1]) /\ m_new'[1] = Fmax(local[1], local[0])
        /\ m_new'[0] = m_new'[1]
        /\ m_new' \in [Halves -> {Seed} \cup Scores]
    BY <1>t, <2>1, <2>3 DEF Halves, Partner, Fmax
  <2>5. \A k \in TileKeys(tile) : HalfOf(k) \in Halves
    BY DEF TileKeys, HalfOf
  <2>6. \A l \in Halves :
          /\ rmax[0] <= local[l]
          /\ local[l] = rmax[0] \/ \E k \in TileKeys(tile) : score[k] # NegInf /\ score[k] = local[l]
          /\ \A k \in TileKeys(tile) : HalfOf(k) = l /\ score[k] # NegInf => score[k] <= local[l]
    BY <1>i, <2>1 DEF IsLocalMax
  <2>7. \A k \in TileKeys(tile) : score[k] # NegInf => score[k] \in Int
    BY <1>n, <2>2, NumbersAssumption DEF TypeOK
  <2>8. /\ rmax[0] <= m_new'[0]
        /\ m_new'[0] = rmax[0] \/ \E k \in TileKeys(tile) : score[k] # NegInf /\ score[k] = m_new'[0]
        /\ \A k \in TileKeys(tile) : score[k] # NegInf => score[k] <= m_new'[0]
    BY <1>i, <1>t, <2>3, <2>4, <2>5, <2>6, <2>7 DEF Fmax, Halves
  <2>9. Greatest(score, Seen(tile), rmax[0])
    BY DEF MaximumInv, Accounted
  <2>10. \A k \in Seen(tile) : score[k] # NegInf => score[k] \in Int
    BY <1>n, <2>2, NumbersAssumption DEF TypeOK
  <2>11. Greatest(score, Seen(tile + 1), m_new'[0])
    BY <1>n, <1>i, <1>t, <2>3, <2>4, <2>8, <2>9, <2>10, NumbersAssumption DEF Greatest, Fmax
  <2>12. TypeOK'
    BY <2>4 DEF TypeOK, IsTerms
  <2>13. ProgressInv'
    BY DEF ProgressInv, MidTile
  <2>14. MaximumInv'
    BY <2>2, <2>4, <2>8, <2>9, <2>11 DEF MaximumInv, Accounted
  <2>15. TermsInv'
    BY DEF TermsInv, Accounted, InNumerator, Seen
  <2> QED BY <2>12, <2>13, <2>14, <2>15
<1>3. CASE Exp2
  <2> USE <1>3 DEF Exp2
  <2>1. \A k \in TileKeys(tile) : HalfOf(k) \in Halves
    BY DEF TileKeys, HalfOf
  <2>2. p' = Weights(score, TileKeys(tile), m_new[0])
    BY <1>i, <2>1 DEF Weights
  <2>3. DOMAIN score = Seen(tile + 1) /\ tile < MaxTiles /\ Greatest(score, Seen(tile + 1), m_new[0])
    BY DEF ProgressInv, MidTile, MaximumInv
  <2>4. TileKeys(tile) \subseteq AllKeys /\ IsScores(score, TileKeys(tile))
    BY <1>n, <1>s, <2>3
  <2>5. Greatest(score, Seen(tile + 1), m_new[0]) => \A k \in TileKeys(tile) : score[k] # NegInf => score[k] <= m_new[0]
    BY <1>n DEF Greatest
  <2>6. IsTerms(p') /\ \A k \in DOMAIN p' : p'[k] <= 0
    <3>1. IsTerms(p')
      BY <1>i, <1>t, <2>2, <2>4, WeightsTypes
    <3>2. \A k \in DOMAIN p' : p'[k] = score[k] - m_new[0] /\ score[k] <= m_new[0] /\ score[k] \in Int
      BY <2>2, <2>3, <2>4, <2>5, NumbersAssumption DEF Weights, IsScores
    <3> QED BY <1>i, <1>t, <3>1, <3>2
  <2>7. TypeOK'
    BY <2>6 DEF TypeOK, IsTerms
  <2>8. ProgressInv' /\ MaximumInv'
    BY DEF ProgressInv, MidTile, MaximumInv, Accounted, Seen
  <2>9. TermsInv'
    BY <2>2, <2>6 DEF TermsInv, Accounted, InNumerator, Seen, TileKeys
  <2> QED BY <2>7, <2>8, <2>9
<1>4. CASE RowSumAndRescale
  <2> USE <1>4 DEF RowSumAndRescale
  <2> DEFINE m == m_new[0]
  <2>1. DOMAIN score = Seen(tile + 1) /\ tile < MaxTiles
    BY DEF ProgressInv, MidTile
  <2>2. p = Weights(score, TileKeys(tile), m) /\ Greatest(score, Seen(tile + 1), m) /\ rmax[0] <= m
    BY <2>1 DEF TermsInv, MaximumInv
  <2>3. IsScores(score, Seen(tile)) /\ IsScores(score, Seen(tile + 1))
    BY <1>n, <1>s, <2>1
  <2>4. \A l \in Halves : Join(OfHalf(l), OfHalf(Partner(l))) = p
    <3>1. \A k \in DOMAIN p : HalfOf(k) \in Halves
      BY <2>2 DEF Weights, TileKeys, HalfOf
    <3>2. p = [k \in DOMAIN p |-> p[k]]
      BY <2>2 DEF Weights
    <3> TAKE l \in Halves
    <3>3. \A k \in DOMAIN p : HalfOf(k) = l \/ HalfOf(k) = Partner(l)
      BY <3>1 DEF Halves, Partner
    <3> QED BY <3>2, <3>3 DEF Join, OfHalf
  <2>5. \A l \in Halves : /\ Scaled(rsum[l], rmax[l] - m_new[l]) = Weights(score, Seen(tile), m)
                          /\ Scaled(o_acc[l], rmax[l] - m_new[l]) = Weights(score, Seen(tile), m)
    <3> TAKE l \in Halves
    <3>1. rsum[l] = Weights(score, Seen(tile), rmax[0]) /\ o_acc[l] = Weights(score, Seen(tile), rmax[0])
      BY <1>i DEF TermsInv, Accounted, InNumerator
    <3>2. Scaled(Weights(score, Seen(tile), rmax[0]), rmax[0] - m) = Weights(score, Seen(tile), m)
      BY <1>i, <1>t, <2>2, <2>3, ScaledWeights
    <3> QED BY <1>i, <3>1, <3>2
  <2>6. \A l \in Halves : /\ rsum'[l] = Weights(score, Seen(tile + 1), m)
                          /\ o_acc'[l] = Weights(score, Seen(tile), m)
    BY <1>n, <2>2, <2>4, <2>5, JoinedWeights
  <2>7. TypeOK'
    <3>1. IsTerms(Weights(score, Seen(tile + 1), m)) /\ IsTerms(Weights(score, Seen(tile), m))
      BY <1>i, <1>n, <1>t, <2>1, <2>3, WeightsTypes
    <3> QED BY <2>6, <3>1 DEF TypeOK, IsTerms
  <2>8. ProgressInv'
    BY DEF ProgressInv, MidTile
  <2>9. Accounted' = Seen(tile + 1) /\ InNumerator' = Seen(tile) /\ rmax' = m_new /\ score' = score /\ p' = p
    BY <2>1 DEF Accounted, InNumerator, Seen
  <2>10. MaximumInv'
    BY <2>2, <2>9 DEF MaximumInv
  <2>11. TermsInv'
    BY <1>i, <2>2, <2>6, <2>9 DEF TermsInv, TileKeys
  <2> QED BY <2>7, <2>8, <2>10, <2>11
<1>5. CASE Gemm1
  <2> USE <1>5 DEF Gemm1
  <2>1. DOMAIN score = Seen(tile + 1) /\ tile < MaxTiles
    BY DEF ProgressInv, MidTile
  <2>2. p = Weights(score, TileKeys(tile), rmax[0])
    BY DEF TermsInv
  <2>3. \A l \in Halves : o_acc'[l] = Weights(score, Seen(tile + 1), rmax[0])
    BY <1>i, <1>n, <2>2, JoinedWeights DEF TermsInv, InNumerator
  <2>4. pc' \in {"scores", "epilogue"} /\ (pc' = "scores" => tile' < MaxTiles) /\ tile' \in 0..MaxTiles
    BY <1>t, <2>1, BoundsAssumption
  <2>5. TypeOK'
    <3>1. IsTerms(Weights(score, Seen(tile + 1), rmax[0]))
      BY <1>i, <1>n, <1>s, <1>t, <2>1, WeightsTypes
    <3> QED BY <2>3, <2>4, <3>1 DEF TypeOK, IsTerms
  <2>6. ProgressInv'
    BY <2>1, <2>4 DEF ProgressInv, MidTile, Seen
  <2>7. Accounted' = Seen(tile + 1) /\ InNumerator' = Seen(tile + 1) /\ Accounted = Seen(tile + 1)
    BY <2>1, <2>4 DEF Accounted, InNumerator
  <2>8. MaximumInv'
    BY <2>4, <2>7 DEF MaximumInv
  <2>9. TermsInv'
    BY <1>i, <2>3, <2>4, <2>7 DEF TermsInv
  <2> QED BY <2>5, <2>6, <2>8, <2>9
<1>6. CASE Epilogue
  <2> USE <1>6 DEF Epilogue
  <2>1. IsTerms(lse')
    BY <1>i, <1>t DEF TypeOK, IsTerms
  <2>2. TypeOK'
    BY <2>1 DEF TypeOK, IsTerms
  <2>3. ProgressInv' /\ MaximumInv'
    BY DEF ProgressInv, MaximumInv, MidTile, Accounted
  <2>4. TermsInv'
    BY DEF TermsInv, Accounted, InNumerator
  <2> QED BY <2>2, <2>3, <2>4
<1>7. CASE Finished \/ UNCHANGED vars
  BY <1>7 DEF Finished, vars, TypeOK, IsTerms, ProgressInv, MaximumInv, TermsInv, Accounted, InNumerator, Seen
<1> QED BY <1>1, <1>2, <1>3, <1>4, <1>5, <1>6, <1>7 DEF Next

\* Every variable of a row keeps its type.
THEOREM SoftmaxTypes == Spec => []TypeOK
<1>1. Inv => TypeOK
  BY DEF Inv
<1> QED BY <1>1, InitInv, NextInv, PTL DEF Spec

\* The two lanes of a row agree about maximum, denominator and numerator.
THEOREM LanesAgree == Spec => []HalvesAgree
<1>1. Inv => HalvesAgree
  BY DEF Inv, MaximumInv, TermsInv, HalvesAgree, Halves
<1> QED BY <1>1, InitInv, NextInv, PTL DEF Spec

\* Between two tiles, numerator and denominator are the softmax weights of all
\* keys seen, whatever the order in which their scores came.
THEOREM OnlineEqualsOffline == Spec => []RunningSoftmax
<1>1. Inv => RunningSoftmax
  <2> SUFFICES ASSUME Inv, pc \in {"scores", "epilogue", "done"} PROVE RunningSoftmax
    BY DEF RunningSoftmax
  <2>1. Accounted = DOMAIN score /\ InNumerator = DOMAIN score
    BY DEF Accounted, InNumerator
  <2>2. \A l \in Halves : rmax[l] = rmax[0]
    BY DEF Inv, MaximumInv, Halves
  <2>3. Greatest(score, DOMAIN score, rmax[0])
    BY <2>1 DEF Inv, MaximumInv
  <2>4. \A m : Weights(score, DOMAIN score, m)
                = [key \in {k \in Attended : score[k] - m >= ExpMin} |-> score[key] - m]
    BY DEF Weights, Attended
  <2>5. \A l \in Halves : /\ rsum[l] = Weights(score, DOMAIN score, rmax[l])
                          /\ o_acc[l] = Weights(score, DOMAIN score, rmax[l])
    BY <2>1 DEF Inv, TermsInv
  <2>6. ASSUME NEW l \in Halves
        PROVE  /\ rmax[l] = Seed \/ \E key \in Attended : rmax[l] = score[key]
               /\ \A key \in Attended : score[key] <= rmax[l]
               /\ Seed <= rmax[l]
    BY <2>2, <2>3 DEF Greatest, Attended
  <2> QED BY <2>4, <2>5, <2>6 DEF RunningSoftmax
<1> QED BY <1>1, InitInv, NextInv, PTL DEF Spec

\* No term is ever above 1: exp2 never sees a positive exponent.
THEOREM ExponentsNeverPositive == Spec => []NoTermAboveOne
<1>1. Inv => NoTermAboveOne
  <2> SUFFICES ASSUME Inv PROVE NoTermAboveOne
    OBVIOUS
  <2>1. DOMAIN score \subseteq AllKeys /\ IsScores(score, DOMAIN score)
    BY DEF Inv, TypeOK, IsScores
  <2>2. \A l \in Halves : rmax[l] \in Int /\ rmax[l] = rmax[0]
    BY NumbersAssumption DEF Inv, TypeOK, MaximumInv, Halves
  <2>3. Greatest(score, Accounted, rmax[0]) /\ Accounted \subseteq DOMAIN score /\ InNumerator \subseteq Accounted
    BY SeenNext, BoundsAssumption DEF Inv, MaximumInv, ProgressInv, TypeOK, Accounted, InNumerator, MidTile
  <2>5. ASSUME NEW keys, keys \subseteq Accounted, NEW l \in Halves
        PROVE  \A key \in DOMAIN Weights(score, keys, rmax[l]) : Weights(score, keys, rmax[l])[key] <= 0
    <3>1. \A k \in keys : score[k] # NegInf => score[k] <= rmax[l] /\ score[k] \in Int
      BY <2>1, <2>2, <2>3, <2>5, NumbersAssumption DEF Greatest, IsScores
    <3> QED BY <2>2, <3>1, NumbersAssumption DEF Weights
  <2> QED BY <2>3, <2>5 DEF Inv, TermsInv, NoTermAboveOne
<1> QED BY <1>1, InitInv, NextInv, PTL DEF Spec

\* The stored LSE is the log-sum-exp of the attended keys of the row.
THEOREM LseCorrect == Spec => []LseIsLogSumExp
<1>1. Inv => LseIsLogSumExp
  <2> SUFFICES ASSUME Inv, ScoresInReach, pc = "done" PROVE LseIsLogSumExp!2
    BY DEF LseIsLogSumExp
  <2>1. /\ lse = [key \in DOMAIN rsum[0] |-> rsum[0][key] + rmax[0]]
        /\ rsum[0] = Weights(score, DOMAIN score, rmax[0])
        /\ Greatest(score, DOMAIN score, rmax[0])
        /\ rmax[0] \in Int
    BY NumbersAssumption DEF Inv, TypeOK, TermsInv, MaximumInv, Accounted, Halves
  <2>2. \A key \in Attended : score[key] \in Int /\ score[key] - Seed >= ExpMin
    BY NumbersAssumption DEF Inv, TypeOK, Attended, ScoresInReach
  <2>3. DOMAIN lse = {k \in Attended : score[k] - rmax[0] >= ExpMin}
    BY <2>1 DEF Weights, Attended
  <2>4. \A key \in DOMAIN lse : lse[key] = score[key]
    BY <2>1, <2>2, <2>3 DEF Weights
  <2>5. rmax[0] = Seed \/ \E top \in Attended : score[top] = rmax[0]
    BY <2>1 DEF Greatest, Attended
  <2>6. CASE rmax[0] = Seed
    BY <2>2, <2>3, <2>4, <2>6
  <2>7. ASSUME NEW top \in Attended, score[top] = rmax[0]
        PROVE  LseIsLogSumExp!2
    <3>1. top \in DOMAIN lse
      BY <2>1, <2>3, <2>7, NumbersAssumption
    <3>2. \A key \in Attended \ DOMAIN lse : score[key] - score[top] < ExpMin
      BY <2>1, <2>2, <2>3, <2>7, NumbersAssumption
    <3> QED BY <2>3, <2>4, <3>1, <3>2
  <2> QED BY <2>5, <2>6, <2>7
<1> QED BY <1>1, InitInv, NextInv, PTL DEF Spec
=============================================================================
