----------------------- MODULE ComponentKernelsProofs -----------------------
(***************************************************************************)
(* Theorems about ComponentKernels: each of the seven component kernels    *)
(* agrees with its oracle, for every case, row and thread.  First the      *)
(* order in which zeros and stores arrive in LDS; then what a tile of K    *)
(* and one of V hold when all has arrived, what the GEMMs read of them,    *)
(* and that the fused kernel stages alike; then the lanes of one row; last *)
(* the invariant of the whole.                                             *)
(***************************************************************************)
EXTENDS ComponentKernels, TLAPS

\* The facts about the images of LDS do not depend on the row TileLayout follows.
Tile == INSTANCE TileLayoutProofs WITH WarpIds <- {}, RowLanes <- {}, warp_id <- 0, row_lane <- 0,
          pc <- "done", s_acc <- << >>, o_acc <- << >>, stored <- << >>

-----------------------------------------------------------------------------
(* The order in which zeros and stores arrive                              *)

\* What a wave sees that reads LDS when all has arrived.
AllArrived == <<Warps, [w \in Warps |-> Warps]>>

Labels == {"zero", "stage", "wait", "compute", "done"}

\* The phases of the waves, and whose zeros and stores have arrived in each.
BlockInv ==
  /\ case \in Cases
  /\ pc \in [Warps -> Labels]
  /\ zeroed = {w \in Warps : pc[w] # "zero"}
  /\ \A w \in inflight : w \in Warps /\ pc[w] = "wait"
  /\ intact \in [Warps -> SUBSET Warps]
  /\ \A w \in Warps : pc[w] \in {"wait", "compute", "done"} /\ w \notin inflight => intact[w] = Warps
  /\ \A w, u \in Warps : pc[w] \in {"wait", "compute", "done"} => pc[u] # "zero"
  /\ \A w, u \in Warps : pc[w] = "done" => pc[u] \in {"compute", "done"}
  /\ DOMAIN seen = Warps
  /\ \A w \in Warps : pc[w] = "done" => seen[w] = AllArrived

\* It holds when a block starts.
LEMMA BlockStart == Init => BlockInv
<1> SUFFICES ASSUME Init PROVE BlockInv
  OBVIOUS
<1>1. case \in Cases /\ zeroed = {} /\ inflight = {} /\ intact = [w \in Warps |-> {}] /\ DOMAIN seen = Warps
  BY DEF Init
<1>2. pc = [w \in Warps |-> "zero"]
  BY DEF Init
<1>3. pc \in [Warps -> Labels] /\ \A w \in Warps : pc[w] = "zero"
  BY <1>2 DEF Labels
<1>4. intact \in [Warps -> SUBSET Warps]
  BY <1>1
<1>5. zeroed = {w \in Warps : pc[w] # "zero"}
  BY <1>1, <1>3
<1> QED BY <1>1, <1>3, <1>4, <1>5 DEF BlockInv

\* Every step of a wave keeps it: a wave's zeros cannot arrive after a store, as
\* no wave stores before all have zeroed, and none reads before all have stored.
LEMMA BlockStep == SyncDrainsStores /\ BlockInv /\ [Next]_vars => BlockInv'
<1> SUFFICES ASSUME SyncDrainsStores, BlockInv, [Next]_vars PROVE BlockInv'
  OBVIOUS
<1> USE DEF BlockInv
<1>1. ASSUME NEW w \in Warps, ZeroShare(w) PROVE BlockInv'
  <2>1. /\ pc[w] = "zero" /\ pc' = [pc EXCEPT ![w] = "stage"] /\ zeroed' = zeroed \cup {w}
        /\ intact' = [u \in Warps |-> intact[u] \ {w}]
        /\ UNCHANGED <<case, inflight, seen>>
    BY <1>1 DEF ZeroShare
  <2>2. pc' \in [Warps -> Labels]
    BY <2>1 DEF Labels
  <2>3. \A u \in Warps : pc[u] \in {"zero", "stage"} /\ pc'[u] \in {"zero", "stage"}
    BY <2>1 DEF Labels
  <2>4. intact' \in [Warps -> SUBSET Warps]
    BY <2>1
  <2>5. zeroed' = {u \in Warps : pc'[u] # "zero"}
    BY <2>1
  <2>6. inflight = {}
    BY <2>3
  <2> QED BY <2>1, <2>2, <2>3, <2>4, <2>5, <2>6
<1>2. ASSUME NEW w \in Warps, Stage(w) PROVE BlockInv'
  <2>1. /\ pc[w] = "stage" /\ \A u \in Warps : pc[u] # "zero"
        /\ pc' = [pc EXCEPT ![w] = "wait"] /\ inflight' = inflight \cup {w}
        /\ UNCHANGED <<case, zeroed, intact, seen>>
    BY <1>2 DEF Stage
  <2>2. pc' \in [Warps -> Labels]
    BY <2>1 DEF Labels
  <2>3. \A u \in Warps : pc'[u] # "zero" /\ (u # w => pc'[u] = pc[u]) /\ pc'[w] = "wait"
    BY <2>1
  <2>4. zeroed' = {u \in Warps : pc'[u] # "zero"}
    BY <2>1, <2>3
  <2>5. \A u \in Warps : pc[u] # "done" /\ pc'[u] # "done"
    BY <2>1, <2>3
  <2>6. \A u \in inflight' : u \in Warps /\ pc'[u] = "wait"
    BY <2>1, <2>3
  <2>7. \A u \in Warps : pc'[u] \in {"wait", "compute", "done"} /\ u \notin inflight' => intact'[u] = Warps
    BY <2>1, <2>3
  <2> QED BY <2>1, <2>2, <2>3, <2>4, <2>5, <2>6, <2>7
<1>3. ASSUME NEW w \in Warps, CopiesArrive(w) \/ StoresArrive(w) PROVE BlockInv'
  <2>1. /\ w \in inflight /\ inflight' = inflight \ {w} /\ intact' = [intact EXCEPT ![w] = Warps]
        /\ UNCHANGED <<case, pc, zeroed, seen>>
    BY <1>3 DEF CopiesArrive, StoresArrive
  <2>2. intact' \in [Warps -> SUBSET Warps]
    BY <2>1
  <2>3. \A u \in Warps : intact'[u] = IF u = w THEN Warps ELSE intact[u]
    BY <2>1
  <2> QED BY <2>1, <2>2, <2>3
<1>4. ASSUME NEW w \in Warps, WaitForCopies(w) \/ SyncStores(w) PROVE BlockInv'
  <2>1. /\ pc[w] = "wait" /\ w \notin inflight /\ pc' = [pc EXCEPT ![w] = "compute"]
        /\ UNCHANGED <<case, zeroed, inflight, intact, seen>>
    BY <1>4 DEF WaitForCopies, SyncStores
  <2>2. pc' \in [Warps -> Labels]
    BY <2>1 DEF Labels
  <2>3. \A u \in Warps : pc[u] # "zero" /\ pc'[u] # "zero" /\ (u # w => pc'[u] = pc[u]) /\ pc'[w] = "compute"
    BY <2>1
  <2>4. zeroed' = {u \in Warps : pc'[u] # "zero"}
    BY <2>1, <2>3
  <2>5. \A u \in Warps : pc[u] # "done" /\ pc'[u] # "done"
    BY <2>1, <2>3
  <2> QED BY <2>1, <2>2, <2>3, <2>4, <2>5
<1>5. ASSUME NEW w \in Warps, Compute(w) PROVE BlockInv'
  <2>1. /\ pc[w] = "compute" /\ \A u \in Warps : pc[u] \in {"compute", "done"}
        /\ pc' = [pc EXCEPT ![w] = "done"] /\ seen' = [seen EXCEPT ![w] = <<zeroed, intact>>]
        /\ UNCHANGED <<case, zeroed, inflight, intact>>
    BY <1>5 DEF Compute
  <2>2. pc' \in [Warps -> Labels]
    BY <2>1 DEF Labels
  <2>3. \A u \in Warps : /\ pc[u] # "zero" /\ pc'[u] # "zero" /\ pc[u] # "wait"
                         /\ pc'[u] \in {"compute", "done"} /\ (u # w => pc'[u] = pc[u])
    BY <2>1
  <2>4. zeroed = Warps /\ zeroed' = {u \in Warps : pc'[u] # "zero"}
    BY <2>1, <2>3
  <2>5. inflight = {}
    BY <2>3
  <2>6. intact = [u \in Warps |-> Warps]
    <3>1. \A u \in Warps : intact[u] = Warps
      BY <2>1, <2>5
    <3> QED BY <3>1
  <2>7. seen'[w] = AllArrived /\ DOMAIN seen' = Warps /\ \A u \in Warps : u # w => seen'[u] = seen[u]
    BY <2>1, <2>4, <2>6 DEF AllArrived
  <2>8. \A u \in Warps : pc'[u] = "done" => seen'[u] = AllArrived
    BY <2>3, <2>7
  <2>9. \A u \in Warps : intact'[u] = Warps
    BY <2>1, <2>6
  <2> QED BY <2>1, <2>2, <2>3, <2>4, <2>5, <2>7, <2>8, <2>9
<1>6. CASE UNCHANGED vars
  BY <1>6 DEF vars
<1> QED BY <1>1, <1>2, <1>3, <1>4, <1>5, <1>6 DEF Next, Finished

-----------------------------------------------------------------------------
(* LDS when all has arrived                                                *)

\* The wave that zeroes element e, and that dumps it.
Warp(e) == (e % 256) \div 64

\* Every dword is some wave's to zero.
LEMMA ZeroedByAWave ==
  ASSUME NEW dword \in Nat
  PROVE  ZeroedBy(dword) \in Warps
BY DEF ZeroedBy, Warps

\* A dword that waves store one value to holds it.
LEMMA HeldElement ==
  ASSUME case \in Cases, NEW e \in Nat, NEW v, NEW w0 \in Warps, <<e \div 2, v>> \in Stores(case, w0),
         \A w \in Warps : \A s \in Stores(case, w) : s[1] = e \div 2 => s[2] = v
  PROVE  ElementIn(AllArrived, e) = v[(e % 2) + 1]
<1> DEFINE dword == e \div 2
           by    == {w \in Warps : dword \in DOMAIN Staged[case][w] /\ ZeroedBy(dword) \in AllArrived[2][w]}
           c     == CHOOSE w \in by : TRUE
<1>1. \A w \in Warps : Staged[case][w] = Image(Stores(case, w))
  BY DEF Staged
<1>2. dword \in Nat /\ ZeroedBy(dword) \in Warps
  BY ZeroedByAWave
<1>3. \A w \in Warps : AllArrived[2][w] = Warps
  BY DEF AllArrived
<1>4. \A w \in Warps : DOMAIN Image(Stores(case, w)) = {s[1] : s \in Stores(case, w)}
  BY DEF Image
<1>5. <<dword, v>>[1] = dword
  OBVIOUS
<1> HIDE DEF dword
<1>6. w0 \in by
  <2>1. dword \in {s[1] : s \in Stores(case, w0)}
    BY <1>5 DEF dword
  <2> QED BY <1>1, <1>2, <1>3, <1>4, <2>1
<1>7. c \in by
  BY <1>6
<1>8. c \in Warps /\ dword \in DOMAIN Image(Stores(case, c))
  BY <1>1, <1>7
<1> HIDE DEF c
<1> DEFINE S == Stores(case, c)
           s0 == CHOOSE s \in S : s[1] = dword
<1>9. s0 \in S /\ s0[1] = dword
  <2>1. \E s \in S : s[1] = dword
    BY <1>4, <1>8
  <2> QED BY <2>1
<1>10. s0[2] = v
  BY <1>8, <1>9 DEF dword
<1>11. Image(S)[dword] = s0[2]
  BY <1>4, <1>8 DEF Image
<1>12. Staged[case][c][dword] = v
  BY <1>1, <1>8, <1>10, <1>11
<1>13. ElementIn(AllArrived, e) = Staged[case][c][dword][(e % 2) + 1]
  <2>1. by # {}
    BY <1>6
  <2> QED BY <2>1 DEF ElementIn, dword, c
<1> QED BY <1>12, <1>13

\* One that none stores to holds the zeros.
LEMMA UnheldElement ==
  ASSUME case \in Cases, NEW e \in Nat,
         \A w \in Warps : \A s \in Stores(case, w) : s[1] # e \div 2
  PROVE  ElementIn(AllArrived, e) = Zero
<1> DEFINE dword == e \div 2
           by    == {w \in Warps : dword \in DOMAIN Staged[case][w] /\ ZeroedBy(dword) \in AllArrived[2][w]}
<1>1. \A w \in Warps : Staged[case][w] = Image(Stores(case, w))
  BY DEF Staged
<1>2. \A w \in Warps : DOMAIN Image(Stores(case, w)) = {s[1] : s \in Stores(case, w)}
  BY DEF Image
<1>3. by = {}
  <2> SUFFICES ASSUME NEW w \in by PROVE FALSE
    OBVIOUS
  <2>1. w \in Warps /\ dword \in DOMAIN Image(Stores(case, w))
    BY <1>1
  <2> HIDE DEF dword
  <2>2. \E s \in Stores(case, w) : s[1] = dword
    BY <1>2, <2>1
  <2> QED BY <2>1, <2>2 DEF dword
<1>4. dword \in Nat /\ ZeroedBy(dword) \in AllArrived[1]
  BY ZeroedByAWave DEF AllArrived
<1>5. ElementIn(AllArrived, e) = IF by # {} THEN Staged[case][CHOOSE w \in by : TRUE][dword][(e % 2) + 1]
                                 ELSE IF ZeroedBy(dword) \in AllArrived[1] THEN Zero ELSE Garbage
  BY DEF ElementIn
<1> HIDE DEF by
<1> QED BY <1>3, <1>4, <1>5

-----------------------------------------------------------------------------
(* K                                                                       *)

\* The dword of elements 2 * x and 2 * x + 1 of row j of a tile of K.
KDword(j, x) == (j % 4) * 68 + ((j \div 4) % 4) * 16 + (j \div 16) * 272 + (x % 16) + (x \div 16) * 1152

\* The dword of a row and a pair of columns given by their digits.
LEMMA KDwordOf ==
  ASSUME NEW z \in 0..3, NEW y \in 0..3, NEW v \in 0..3, NEW u \in 0..1, NEW t \in 0..15
  PROVE  KDword(16 * z + 4 * y + v, 16 * u + t) = v * 68 + y * 16 + z * 272 + t + u * 1152
<1> DEFINE j == 16 * z + 4 * y + v
           x == 16 * u + t
<1>1. j % 4 = v /\ (j \div 4) % 4 = y /\ j \div 16 = z /\ x % 16 = t /\ x \div 16 = u
  OBVIOUS
<1>2. KDword(j, x) = v * 68 + y * 16 + z * 272 + t + u * 1152
  BY <1>1 DEF KDword
<1> QED BY <1>2

\* The digits of a row of K.
LEMMA KRowDigits ==
  ASSUME NEW j \in 0..63
  PROVE  \E z \in 0..3, y \in 0..3, v \in 0..3 :
           j = 16 * z + 4 * y + v /\ j % 4 = v /\ (j \div 4) % 4 = y /\ j \div 16 = z
OBVIOUS

\* The digits of a pair of columns.
LEMMA KColDigits ==
  ASSUME NEW x \in 0..31
  PROVE  \E u \in 0..1, t \in 0..15 : x = 16 * u + t /\ x \div 16 = u /\ x % 16 = t
OBVIOUS

\* Two places of the tile that would share a dword.
SameKDword(j1, x1, j2, x2) ==
  /\ j1 \in 0..63 /\ j2 \in 0..63 /\ x1 \in 0..31 /\ x2 \in 0..31
  /\ KDword(j1, x1) = KDword(j2, x2)

\* No two do.
LEMMA KDwordInjective ==
  ASSUME NEW j1, NEW x1, NEW j2, NEW x2, SameKDword(j1, x1, j2, x2)
  PROVE  j1 = j2 /\ x1 = x2
<1>0. /\ j1 \in 0..63 /\ j2 \in 0..63 /\ x1 \in 0..31 /\ x2 \in 0..31
      /\ KDword(j1, x1) = KDword(j2, x2)
  BY DEF SameKDword
<1>1. PICK z1 \in 0..3, y1 \in 0..3, v1 \in 0..3 : j1 = 16 * z1 + 4 * y1 + v1
  BY <1>0, KRowDigits
<1>2. PICK z2 \in 0..3, y2 \in 0..3, v2 \in 0..3 : j2 = 16 * z2 + 4 * y2 + v2
  BY <1>0, KRowDigits
<1>3. PICK u1 \in 0..1, t1 \in 0..15 : x1 = 16 * u1 + t1
  BY <1>0, KColDigits
<1>4. PICK u2 \in 0..1, t2 \in 0..15 : x2 = 16 * u2 + t2
  BY <1>0, KColDigits
<1> DEFINE sum1 == v1 * 68 + y1 * 16 + z1 * 272 + t1 + u1 * 1152
           sum2 == v2 * 68 + y2 * 16 + z2 * 272 + t2 + u2 * 1152
<1>5. KDword(j1, x1) = sum1 /\ KDword(j2, x2) = sum2
  BY <1>1, <1>2, <1>3, <1>4, KDwordOf
<1>6. sum1 = sum2
  <2> HIDE DEF sum1, sum2
  <2> QED BY <1>0, <1>5
<1>7. u1 = u2
  BY <1>6
<1>8. z1 = z2
  BY <1>6, <1>7
<1>9. v1 = v2
  BY <1>6, <1>7, <1>8
<1>10. y1 = y2 /\ t1 = t2
  BY <1>6, <1>7, <1>8, <1>9
<1> QED BY <1>1, <1>2, <1>3, <1>4, <1>7, <1>8, <1>9, <1>10

\* A copied dword of row j of the tile.
KDwordWrite(c, j, x) ==
  <<KDword(j, x), <<<<c.kv_offset + j, 2 * x>>, <<c.kv_offset + j, 2 * x + 1>>>>>>

\* The copies of a wave, by row and pair of columns: it owns every fourth row.
IsKCopy(c, w, s) ==
  \E j \in 0..63, x \in 0..31 : j % 4 = w /\ c.kv_offset + j < c.seqlen_k /\ s = KDwordWrite(c, j, x)

\* Those are the copies the kernels issue.
LEMMA KCopiesAre ==
  ASSUME NEW c, c.kv_offset \in Nat, c.seqlen_k \in Nat, NEW w \in Warps, NEW s
  PROVE  s \in KCopies(c, w) <=> IsKCopy(c, w, s)
<1> SUFFICES s \in KCopies(c, w) <=>
               \E j \in 0..63, x \in 0..31 : j % 4 = w /\ c.kv_offset + j < c.seqlen_k /\ s = KDwordWrite(c, j, x)
  BY DEF IsKCopy
<1> DEFINE off == c.kv_offset
           row(issue, lane) == off + issue * 16 + n_base(lane, w)
           m0(chunk, issue) == chunk * 4608 + w * 272 + issue * 1088
           col(chunk, lane) == chunk * 32 + (lane % 16) * 2
           W(chunk, issue, lane) ==
             <<(m0(chunk, issue) + lane * 4) \div 4,
               <<<<row(issue, lane), col(chunk, lane)>>, <<row(issue, lane), col(chunk, lane) + 1>>>>>>
           dom == {y \in (0..1) \X (0..3) \X Lanes : row(y[2], y[3]) < c.seqlen_k}
<1>1. KCopies(c, w) = {W(x[1], x[2], x[3]) : x \in dom}
  BY DEF KCopies
<1>2. ASSUME NEW chunk \in 0..1, NEW issue \in 0..3, NEW hi \in 0..3, NEW lo \in 0..15
      PROVE  /\ W(chunk, issue, 16 * hi + lo) = KDwordWrite(c, 16 * issue + 4 * hi + w, 16 * chunk + lo)
             /\ row(issue, 16 * hi + lo) = off + (16 * issue + 4 * hi + w)
             /\ 16 * hi + lo \in Lanes
  <2> DEFINE lane == 16 * hi + lo
             j == 16 * issue + 4 * hi + w
             x == 16 * chunk + lo
  <2>1. lane \div 16 = hi /\ lane % 16 = lo /\ lane \in Lanes
    BY DEF Lanes
  <2>2. w \in 0..3 /\ off \in Nat
    BY DEF Warps
  <2>3. row(issue, lane) = off + j
    BY <2>1, <2>2 DEF n_base
  <2>4. col(chunk, lane) = 2 * x
    BY <2>1
  <2>5. (m0(chunk, issue) + lane * 4) \div 4 = KDword(j, x)
    <3>1. KDword(j, x) = w * 68 + hi * 16 + issue * 272 + lo + chunk * 1152
      BY <2>2, KDwordOf
    <3> DEFINE q == w * 68 + hi * 16 + issue * 272 + lo + chunk * 1152
    <3>2. m0(chunk, issue) + lane * 4 = 4 * q /\ q \in Int
      BY <2>2
    <3> HIDE DEF q
    <3>3. (4 * q) \div 4 = q
      BY <3>2
    <3> QED BY <3>1, <3>2, <3>3 DEF q
  <2> HIDE DEF row, col, m0, j, x, off
  <2>6. W(chunk, issue, lane) = <<KDword(j, x), <<<<off + j, 2 * x>>, <<off + j, 2 * x + 1>>>>>>
    BY <2>3, <2>4, <2>5
  <2>7. W(chunk, issue, lane) = KDwordWrite(c, j, x)
    BY <2>6 DEF KDwordWrite, off
  <2> HIDE DEF lane
  <2> QED BY <2>1, <2>3, <2>7 DEF lane, j, x
<1>3. ASSUME s \in KCopies(c, w)
      PROVE  \E j \in 0..63, x \in 0..31 : j % 4 = w /\ off + j < c.seqlen_k /\ s = KDwordWrite(c, j, x)
  <2>1. PICK y \in dom : s = W(y[1], y[2], y[3])
    <3> HIDE DEF W, dom
    <3> QED BY <1>1, <1>3
  <2>2. y[1] \in 0..1 /\ y[2] \in 0..3 /\ y[3] \in Lanes /\ row(y[2], y[3]) < c.seqlen_k
    <3> HIDE DEF row
    <3> QED OBVIOUS
  <2>3. PICK chunk \in 0..1, issue \in 0..3, lane \in Lanes : chunk = y[1] /\ issue = y[2] /\ lane = y[3]
    BY <2>2
  <2>4. PICK hi \in 0..3, lo \in 0..15 : lane = 16 * hi + lo
    BY DEF Lanes
  <2> DEFINE j == 16 * issue + 4 * hi + w
             x == 16 * chunk + lo
  <2>5. j \in 0..63 /\ x \in 0..31 /\ j % 4 = w
    <3>1. w \in 0..3
      BY DEF Warps
    <3> QED BY <3>1
  <2> HIDE DEF W, row, j, x
  <2>6. /\ W(chunk, issue, 16 * hi + lo) = KDwordWrite(c, j, x)
        /\ row(issue, 16 * hi + lo) = off + j
    BY <1>2 DEF j, x
  <2>7. s = W(chunk, issue, 16 * hi + lo) /\ row(issue, 16 * hi + lo) < c.seqlen_k
    BY <2>1, <2>2, <2>3, <2>4
  <2>8. s = KDwordWrite(c, j, x) /\ off + j < c.seqlen_k
    BY <2>6, <2>7
  <2> QED BY <2>5, <2>8
<1>4. ASSUME NEW j \in 0..63, NEW x \in 0..31, j % 4 = w, off + j < c.seqlen_k, s = KDwordWrite(c, j, x)
      PROVE  s \in KCopies(c, w)
  <2>1. PICK issue \in 0..3, hi \in 0..3, v \in 0..3 : j = 16 * issue + 4 * hi + v /\ j % 4 = v
    BY KRowDigits
  <2>2. PICK chunk \in 0..1, lo \in 0..15 : x = 16 * chunk + lo
    BY KColDigits
  <2> DEFINE lane == 16 * hi + lo
             y == <<chunk, issue, lane>>
  <2> HIDE DEF row, W, lane
  <2>3. v = w
    BY <1>4, <2>1
  <2>4. /\ W(chunk, issue, lane) = s
        /\ row(issue, lane) = off + j
        /\ lane \in Lanes
    BY <1>2, <1>4, <2>1, <2>2, <2>3 DEF lane
  <2>5. y \in (0..1) \X (0..3) \X Lanes /\ y[1] = chunk /\ y[2] = issue /\ y[3] = lane
    BY <2>4
  <2> HIDE DEF y
  <2>6. y \in dom /\ s = W(y[1], y[2], y[3])
    BY <1>4, <2>4, <2>5
  <2> HIDE DEF dom
  <2> QED BY <1>1, <2>6
<1> QED BY <1>3, <1>4

\* The row of K that row 0 of the staged tile is.
KOff == IF case.kernel = "k_lds" THEN case.kv_offset ELSE 0

\* A store of two elements of a row that is in the sequence.
KPair(off, j, x) == <<KDword(j, x), <<<<off + j, 2 * x>>, <<off + j, 2 * x + 1>>>>>>
IsKStore(s, w) ==
  \E j \in 0..63, x \in 0..31 : j % 4 = w /\ KOff + j < case.seqlen_k /\ s = KPair(KOff, j, x)

\* What the cases are.
LEMMA CaseIs ==
  ASSUME case \in Cases
  PROVE  /\ case.kernel \in {"k_lds", "v_lds", "qk_gemm", "pv_gemm"}
         /\ case.kv_offset \in Nat /\ case.seqlen_q \in Nat /\ case.seqlen_k \in Nat
         /\ [case EXCEPT !.kv_offset = 0].kv_offset = 0
         /\ [case EXCEPT !.kv_offset = 0].seqlen_k = case.seqlen_k
         /\ KOff \in Nat
<1>1. case \in [kernel : {"k_lds", "v_lds", "qk_gemm", "pv_gemm"},
                kv_offset : Nat, seqlen_q : Nat, seqlen_k : Nat]
  BY CaseAssumption
<1> QED BY <1>1 DEF KOff

\* What wave w stages of K.
LEMMA KStores ==
  ASSUME case \in Cases, case.kernel \in {"k_lds", "qk_gemm"}, NEW w \in Warps, NEW s
  PROVE  s \in Stores(case, w) <=> IsKStore(s, w)
<1> DEFINE c == IF case.kernel = "k_lds" THEN case ELSE [case EXCEPT !.kv_offset = 0]
<1>1. c.kv_offset = KOff /\ c.seqlen_k = case.seqlen_k /\ KOff \in Nat /\ case.seqlen_k \in Nat
  BY CaseIs DEF KOff
<1>2. Stores(case, w) = KCopies(c, w)
  BY DEF Stores, qk_stage_k
<1> HIDE DEF c
<1>3. s \in KCopies(c, w) <=> IsKCopy(c, w, s)
  <2>1. c.kv_offset \in Nat /\ c.seqlen_k \in Nat
    BY <1>1
  <2> QED BY <2>1, KCopiesAre
<1>4. \A j, x : KDwordWrite(c, j, x) = KPair(KOff, j, x)
  BY <1>1 DEF KDwordWrite, KPair
<1> QED BY <1>1, <1>2, <1>3, <1>4 DEF IsKStore, IsKCopy

\* Both formulas of the padded offset of an element of K, by dword.
LEMMA KOffsetOf ==
  ASSUME NEW j \in 0..63, NEW x \in 0..31, NEW b \in 0..1
  PROVE  /\ k_lds_offset_elems(j, 2 * x + b) = 2 * KDword(j, x) + b
         /\ KDword(j, x) \in Nat
         /\ (2 * KDword(j, x) + b) \div 2 = KDword(j, x)
         /\ (2 * KDword(j, x) + b) % 2 = b
<1>1. PICK z \in 0..3, y \in 0..3, v \in 0..3 :
        j = 16 * z + 4 * y + v /\ j % 4 = v /\ (j \div 4) % 4 = y /\ j \div 16 = z
  BY KRowDigits
<1>2. PICK u \in 0..1, t \in 0..15 : x = 16 * u + t
  BY KColDigits
<1> DEFINE d == 2 * x + b
<1>3. d % 32 = 2 * t + b /\ d \div 32 = u
  BY <1>2
<1>4. k_lds_offset_elems(j, d) = v * 136 + y * 32 + z * 544 + (2 * t + b) + u * 2304
  <2> HIDE DEF d
  <2> QED BY <1>1, <1>3 DEF k_lds_offset_elems
<1>5. KDword(j, x) = v * 68 + y * 16 + z * 272 + t + u * 1152
  BY <1>1, <1>2, KDwordOf
<1>6. KDword(j, x) \in Nat /\ k_lds_offset_elems(j, d) = 2 * KDword(j, x) + b
  BY <1>4, <1>5
<1>7. \A q \in Nat : (2 * q + b) \div 2 = q /\ (2 * q + b) % 2 = b
  OBVIOUS
<1> QED BY <1>6, <1>7

\* Element d of row j is half b of dword x of the row.
IsKHalf(j, d, x, b) ==
  /\ x \in 0..31 /\ b \in 0..1 /\ d = 2 * x + b
  /\ KDword(j, x) \in Nat /\ k_lds_offset_elems(j, d) \in Nat
  /\ k_lds_offset_elems(j, d) = 2 * KDword(j, x) + b
  /\ k_lds_offset_elems(j, d) \div 2 = KDword(j, x)
  /\ k_lds_offset_elems(j, d) % 2 = b

\* Every element is half of a dword.
LEMMA KHalf ==
  ASSUME NEW j \in 0..63, NEW d \in 0..63
  PROVE  \E x \in 0..31, b \in 0..1 : IsKHalf(j, d, x, b)
<1>1. PICK x \in 0..31, b \in 0..1 : d = 2 * x + b
  OBVIOUS
<1>2. /\ k_lds_offset_elems(j, 2 * x + b) = 2 * KDword(j, x) + b
      /\ KDword(j, x) \in Nat
      /\ (2 * KDword(j, x) + b) \div 2 = KDword(j, x)
      /\ (2 * KDword(j, x) + b) % 2 = b
  BY KOffsetOf
<1>3. k_lds_offset_elems(j, d) = 2 * KDword(j, x) + b
  BY <1>1, <1>2
<1>4. 2 * KDword(j, x) + b \in Nat
  BY <1>2
<1> QED BY <1>1, <1>2, <1>3, <1>4 DEF IsKHalf

\* An element of a row of K that is in the sequence is where the formula says.
LEMMA KHeld ==
  ASSUME case \in Cases, case.kernel \in {"k_lds", "qk_gemm"},
         NEW j \in 0..63, NEW d \in 0..63, KOff + j < case.seqlen_k
  PROVE  ElementIn(AllArrived, k_lds_offset_elems(j, d)) = <<KOff + j, d>>
<1>1. PICK x \in 0..31, b \in 0..1 : IsKHalf(j, d, x, b)
  BY KHalf
<1> DEFINE e == k_lds_offset_elems(j, d)
           v == <<<<KOff + j, 2 * x>>, <<KOff + j, 2 * x + 1>>>>
           w0 == j % 4
<1>2. e \in Nat /\ e \div 2 = KDword(j, x) /\ e % 2 = b /\ d = 2 * x + b
  BY <1>1 DEF IsKHalf
<1>3. w0 \in Warps
  BY DEF Warps
<1> HIDE DEF e, v, w0
<1>4. IsKStore(<<e \div 2, v>>, w0)
  BY <1>2 DEF IsKStore, KPair, v, w0
<1>5. <<e \div 2, v>> \in Stores(case, w0)
  BY <1>3, <1>4, KStores
<1>6. ASSUME NEW w \in Warps, NEW s \in Stores(case, w), s[1] = e \div 2
      PROVE  s[2] = v
  <2>1. IsKStore(s, w)
    BY KStores
  <2>2. PICK j2 \in 0..63, x2 \in 0..31 : s = KPair(KOff, j2, x2)
    BY <2>1 DEF IsKStore
  <2>3. s[1] = KDword(j2, x2) /\ s[2] = <<<<KOff + j2, 2 * x2>>, <<KOff + j2, 2 * x2 + 1>>>>
    BY <2>2 DEF KPair
  <2>4. SameKDword(j2, x2, j, x)
    BY <1>2, <1>6, <2>3 DEF SameKDword
  <2>5. j2 = j /\ x2 = x
    BY <2>4, KDwordInjective
  <2> QED BY <2>3, <2>5 DEF v
<1>7. ElementIn(AllArrived, e) = v[(e % 2) + 1]
  BY <1>2, <1>3, <1>5, <1>6, HeldElement
<1>8. v[b + 1] = <<KOff + j, d>>
  BY <1>2 DEF v
<1> QED BY <1>2, <1>7, <1>8 DEF e

\* e is where the formula puts an element of K that is staged.
IsKPlace(e) == \E j \in 0..63, d \in 0..63 : KOff + j < case.seqlen_k /\ e = k_lds_offset_elems(j, d)

\* All else is zero.
LEMMA KUnheld ==
  ASSUME case \in Cases, case.kernel \in {"k_lds", "qk_gemm"}, NEW e \in Nat, ~ IsKPlace(e)
  PROVE  ElementIn(AllArrived, e) = Zero
<1>1. ASSUME NEW w \in Warps, NEW s \in Stores(case, w), s[1] = e \div 2
      PROVE  FALSE
  <2>1. IsKStore(s, w)
    BY KStores
  <2>2. PICK j \in 0..63, x \in 0..31 : s = KPair(KOff, j, x) /\ KOff + j < case.seqlen_k
    BY <2>1 DEF IsKStore
  <2>3. s[1] = KDword(j, x)
    BY <2>2 DEF KPair
  <2>4. PICK b \in 0..1 : e = 2 * (e \div 2) + b
    OBVIOUS
  <2> DEFINE d == 2 * x + b
  <2>5. e = k_lds_offset_elems(j, d)
    <3>1. k_lds_offset_elems(j, d) = 2 * KDword(j, x) + b
      BY KOffsetOf
    <3> HIDE DEF d
    <3> QED BY <1>1, <2>3, <2>4, <3>1
  <2>6. d \in 0..63
    OBVIOUS
  <2> HIDE DEF d
  <2> QED BY <2>2, <2>5, <2>6 DEF IsKPlace
<1> QED BY <1>1, UnheldElement

\* Two places of elements of K are the same only for the same element.
LEMMA KPlacesApart ==
  ASSUME NEW j1 \in 0..63, NEW d1 \in 0..63, NEW j2 \in 0..63, NEW d2 \in 0..63,
         k_lds_offset_elems(j1, d1) = k_lds_offset_elems(j2, d2)
  PROVE  j1 = j2 /\ d1 = d2
<1>1. PICK x1 \in 0..31, b1 \in 0..1 : IsKHalf(j1, d1, x1, b1)
  BY KHalf
<1>2. PICK x2 \in 0..31, b2 \in 0..1 : IsKHalf(j2, d2, x2, b2)
  BY KHalf
<1>3. /\ KDword(j1, x1) = KDword(j2, x2) /\ b1 = b2
      /\ d1 = 2 * x1 + b1 /\ d2 = 2 * x2 + b2
  BY <1>1, <1>2 DEF IsKHalf
<1>4. SameKDword(j1, x1, j2, x2)
  BY <1>3 DEF SameKDword
<1>5. j1 = j2 /\ x1 = x2
  BY <1>4, KDwordInjective
<1> QED BY <1>3, <1>5

\* A row past the sequence is zero.
LEMMA KPadding ==
  ASSUME case \in Cases, case.kernel \in {"k_lds", "qk_gemm"},
         NEW j \in 0..63, NEW d \in 0..63, ~ (KOff + j < case.seqlen_k)
  PROVE  ElementIn(AllArrived, k_lds_offset_elems(j, d)) = Zero
<1> DEFINE e == k_lds_offset_elems(j, d)
<1>1. e \in Nat
  <2>1. PICK x \in 0..31, b \in 0..1 : IsKHalf(j, d, x, b)
    BY KHalf
  <2> QED BY <2>1 DEF IsKHalf
<1>2. ~ IsKPlace(e)
  BY KPlacesApart DEF IsKPlace
<1> HIDE DEF e
<1> QED BY <1>1, <1>2, KUnheld DEF e

-----------------------------------------------------------------------------
(* V                                                                       *)

\* What v_perm with either selector picks of two pairs of bytes.
LEMMA PermBytes ==
  ASSUME NEW a, NEW b
  PROVE  /\ Perm(a, b, kPermSel0)[0] = a[0] /\ Perm(a, b, kPermSel0)[1] = a[1]
         /\ Perm(a, b, kPermSel0)[2] = b[0] /\ Perm(a, b, kPermSel0)[3] = b[1]
         /\ Perm(a, b, kPermSel1)[0] = a[2] /\ Perm(a, b, kPermSel1)[1] = a[3]
         /\ Perm(a, b, kPermSel1)[2] = b[2] /\ Perm(a, b, kPermSel1)[3] = b[3]
<1>1. \A n \in 0..3 : Perm(a, b, kPermSel0)[n] = IF kPermSel0[n + 1] >= 4 THEN a[kPermSel0[n + 1] - 4] ELSE b[kPermSel0[n + 1]]
  BY DEF Perm
<1>2. \A n \in 0..3 : Perm(a, b, kPermSel1)[n] = IF kPermSel1[n + 1] >= 4 THEN a[kPermSel1[n + 1] - 4] ELSE b[kPermSel1[n + 1]]
  BY DEF Perm
<1>3. /\ kPermSel0[0 + 1] = 4 /\ kPermSel0[1 + 1] = 5 /\ kPermSel0[2 + 1] = 0 /\ kPermSel0[3 + 1] = 1
      /\ kPermSel1[0 + 1] = 6 /\ kPermSel1[1 + 1] = 7 /\ kPermSel1[2 + 1] = 2 /\ kPermSel1[3 + 1] = 3
  BY DEF kPermSel0, kPermSel1
<1>4. 0 \in 0..3 /\ 1 \in 0..3 /\ 2 \in 0..3 /\ 3 \in 0..3
  OBVIOUS
<1>5. /\ Perm(a, b, kPermSel0)[0] = a[0] /\ Perm(a, b, kPermSel0)[1] = a[1]
      /\ Perm(a, b, kPermSel0)[2] = b[0] /\ Perm(a, b, kPermSel0)[3] = b[1]
  BY <1>1, <1>3, <1>4
<1>6. /\ Perm(a, b, kPermSel1)[0] = a[2] /\ Perm(a, b, kPermSel1)[1] = a[3]
      /\ Perm(a, b, kPermSel1)[2] = b[2] /\ Perm(a, b, kPermSel1)[3] = b[3]
  BY <1>2, <1>3, <1>4
<1> QED BY <1>5, <1>6

\* Column i0 of the two in dword a is v.
IsColumn(a, i0, v) == a[2 * i0] = <<v, 0>> /\ a[2 * i0 + 1] = <<v, 1>>

\* q is the dword picked of column i0 of two rows.
PicksColumn(q, a, b, i0) == q = Perm(a, b, IF i0 = 0 THEN kPermSel0 ELSE kPermSel1)

\* The dword made of column i0 of two rows is the pair of their elements.
LEMMA ColumnPair ==
  ASSUME NEW a, NEW b, NEW v0, NEW v1, NEW i0 \in 0..1, IsColumn(a, i0, v0), IsColumn(b, i0, v1),
         NEW q, PicksColumn(q, a, b, i0)
  PROVE  Element(q[0], q[1]) = v0 /\ Element(q[2], q[3]) = v1
<1>1. a[2 * i0] = <<v0, 0>> /\ a[2 * i0 + 1] = <<v0, 1>> /\ b[2 * i0] = <<v1, 0>> /\ b[2 * i0 + 1] = <<v1, 1>>
  BY DEF IsColumn
<1>2. q[0] = <<v0, 0>> /\ q[1] = <<v0, 1>> /\ q[2] = <<v1, 0>> /\ q[3] = <<v1, 1>>
  <2>1. CASE i0 = 0
    <3>1. a[0] = <<v0, 0>> /\ a[1] = <<v0, 1>> /\ b[0] = <<v1, 0>> /\ b[1] = <<v1, 1>>
      BY <1>1, <2>1
    <3>2. q = Perm(a, b, kPermSel0)
      BY <2>1 DEF PicksColumn
    <3> QED BY <3>1, <3>2, PermBytes
  <2>2. CASE i0 = 1
    <3>1. a[2] = <<v0, 0>> /\ a[3] = <<v0, 1>> /\ b[2] = <<v1, 0>> /\ b[3] = <<v1, 1>>
      BY <1>1, <2>2
    <3>2. q = Perm(a, b, kPermSel1)
      BY <2>2 DEF PicksColumn
    <3> QED BY <3>1, <3>2, PermBytes
  <2> QED BY <2>1, <2>2
<1> QED BY <1>2 DEF Element

\* The dword of column 8 * y + z of the row pair k of a wave's share of slice u,
\* and the upper row of the pair in the tile.
VDword(u, w, k, y, z) == 1152 * (u + 1) + w * 288 + y * 36 + z * 4 + k
VRow(u, w, k)         == 32 * u + 8 * w + 2 * k

\* What an element of the tile is, past the sequence too.
VValue(c, row, col) == IF c.kv_offset + row < c.seqlen_k THEN <<c.kv_offset + row, col>> ELSE Zero
VPair(c, u, w, k, y, z) ==
  <<VDword(u, w, k, y, z),
    <<VValue(c, VRow(u, w, k), 8 * y + z), VValue(c, VRow(u, w, k) + 1, 8 * y + z)>>>>

\* What a wave stores of one slice.
LEMMA VSlice ==
  ASSUME NEW c, c.kv_offset \in Nat, c.seqlen_k \in Nat, NEW w \in Warps, NEW u \in 0..1,
         NEW first, first = 32 * u, NEW base, base = 2304 * (u + 1), NEW s
  PROVE  s \in VStores(c, w, first, base) <=>
           \E k \in 0..3, y \in 0..7, z \in 0..7 : s = VPair(c, u, w, k, y, z)
<1> DEFINE row(lane, k3) == c.kv_offset + first + w * 8 + (lane % 4) * 2 + k3
           x(lane, k3, dword, n) == <<row(lane, k3), (lane \div 4) * 4 + dword * 2 + n \div 2>>
           load(lane, k3, dword) ==
             [n \in 0..3 |-> <<IF row(lane, k3) < c.seqlen_k THEN x(lane, k3, dword, n) ELSE Zero, n % 2>>]
           out(lane, i) == Perm(load(lane, 0, i \div 2), load(lane, 1, i \div 2),
                                IF i % 2 = 0 THEN kPermSel0 ELSE kPermSel1)
           v86(lane)    == ((lane \div 8) % 8) * 144 + ((lane \div 4) % 2) * 64 + (lane % 4) * 4
           lds_addr(lane) == w * 1152 + v86(lane) + base * 2 - 128 * 4
           offset         == <<128, 132, 136, 140>>
           D(lane, i) == lds_addr(lane) \div 4 + offset[i + 1]
           E0(lane, i) == Element(out(lane, i)[0], out(lane, i)[1])
           E1(lane, i) == Element(out(lane, i)[2], out(lane, i)[3])
           W(lane, i) == <<D(lane, i), <<E0(lane, i), E1(lane, i)>>>>
<1>1. VStores(c, w, first, base) = {W(y[1], y[2]) : y \in Lanes \X (0..3)}
  BY DEF VStores
<1>2. w \in 0..3
  BY DEF Warps
<1>3. ASSUME NEW y \in 0..7, NEW h \in 0..1, NEW k \in 0..3, NEW i1 \in 0..1, NEW i0 \in 0..1
      PROVE  W(8 * y + 4 * h + k, 2 * i1 + i0) = VPair(c, u, w, k, y, 4 * h + 2 * i1 + i0)
  <2> DEFINE lane == 8 * y + 4 * h + k
             i    == 2 * i1 + i0
             z    == 4 * h + 2 * i1 + i0
  <2>1. /\ lane \div 8 = y /\ (lane \div 8) % 8 = y /\ lane \div 4 = 2 * y + h
        /\ (lane \div 4) % 2 = h /\ lane % 4 = k
        /\ i \div 2 = i1 /\ i % 2 = i0 /\ i \in 0..3
    OBVIOUS
  <2>2. D(lane, i) = VDword(u, w, k, y, z)
    <3>1. offset[i + 1] = 128 + 4 * i
      <4> HIDE DEF i
      <4>1. i = 0 \/ i = 1 \/ i = 2 \/ i = 3
        BY <2>1
      <4> QED BY <4>1
    <3> DEFINE q == w * 288 + y * 36 + h * 16 + k + 1152 * (u + 1) - 128
    <3>2. lds_addr(lane) = 4 * q /\ q \in Int
      <4> HIDE DEF lane
      <4>1. lds_addr(lane) = w * 1152 + (y * 144 + h * 64 + k * 4) + base * 2 - 128 * 4
        BY <2>1
      <4> QED BY <1>2, <4>1
    <3> HIDE DEF q, lds_addr
    <3>3. (4 * q) \div 4 = q
      BY <3>2
    <3> HIDE DEF offset, lane
    <3>4. D(lane, i) = q + (128 + 4 * i)
      BY <3>1, <3>2, <3>3
    <3> QED BY <1>2, <3>4 DEF q, VDword
  <2> DEFINE V(k3) == VValue(c, VRow(u, w, k) + k3, 8 * y + z)
  <2>3. ASSUME NEW k3 \in 0..1
        PROVE  IsColumn(load(lane, k3, i1), i0, V(k3))
    <3>1. row(lane, k3) = c.kv_offset + (VRow(u, w, k) + k3) /\ row(lane, k3) \in Nat
      <4> HIDE DEF lane
      <4> QED BY <1>2, <2>1 DEF VRow
    <3>2. ASSUME NEW n0 \in 0..1
          PROVE  load(lane, k3, i1)[2 * i0 + n0] = <<V(k3), n0>>
      <4> DEFINE n == 2 * i0 + n0
      <4>1. n \in 0..3 /\ n \div 2 = i0 /\ n % 2 = n0
        OBVIOUS
      <4>2. (lane \div 4) * 4 + i1 * 2 + n \div 2 = 8 * y + z
        <5>1. lane \div 4 = 2 * y + h
          BY <2>1
        <5> HIDE DEF lane, n
        <5>2. (lane \div 4) * 4 = 8 * y + 4 * h
          BY <5>1
        <5>3. (lane \div 4) * 4 + i1 * 2 + n \div 2 = 8 * y + 4 * h + i1 * 2 + i0
          BY <5>2, <4>1
        <5> QED BY <5>3
      <4> HIDE DEF n, row, lane, z
      <4>3. load(lane, k3, i1)[n] = <<IF row(lane, k3) < c.seqlen_k THEN x(lane, k3, i1, n) ELSE Zero, n % 2>>
        BY <4>1
      <4>4. (IF row(lane, k3) < c.seqlen_k THEN x(lane, k3, i1, n) ELSE Zero) = V(k3)
        BY <3>1, <4>2 DEF VValue
      <4> HIDE DEF x, V, load
      <4> QED BY <4>1, <4>3, <4>4 DEF n
    <3> HIDE DEF V, load, lane
    <3>3. 0 \in 0..1 /\ 1 \in 0..1 /\ 2 * i0 + 0 = 2 * i0
      OBVIOUS
    <3>4. load(lane, k3, i1)[2 * i0 + 0] = <<V(k3), 0>> /\ load(lane, k3, i1)[2 * i0 + 1] = <<V(k3), 1>>
      BY <3>2, <3>3
    <3> QED BY <3>3, <3>4 DEF IsColumn
  <2>4. E0(lane, i) = V(0) /\ E1(lane, i) = V(1)
    <3> DEFINE b == out(lane, i)
    <3>1. PicksColumn(b, load(lane, 0, i1), load(lane, 1, i1), i0)
      <4> HIDE DEF load, i, lane
      <4> QED BY <2>1 DEF PicksColumn
    <3>2. 0 \in 0..1 /\ 1 \in 0..1
      OBVIOUS
    <3>3. IsColumn(load(lane, 0, i1), i0, V(0)) /\ IsColumn(load(lane, 1, i1), i0, V(1))
      BY <2>3, <3>2
    <3> DEFINE a0 == load(lane, 0, i1)
               a1 == load(lane, 1, i1)
               v0 == V(0)
               v1 == V(1)
    <3>4. PicksColumn(b, a0, a1, i0) /\ IsColumn(a0, i0, v0) /\ IsColumn(a1, i0, v1)
      BY <3>1, <3>3
    <3> HIDE DEF b, a0, a1, v0, v1
    <3>5. Element(b[0], b[1]) = v0 /\ Element(b[2], b[3]) = v1
      BY <3>4, ColumnPair
    <3> HIDE DEF V
    <3> QED BY <3>5 DEF b, v0, v1
  <2>5. V(0) = VValue(c, VRow(u, w, k), 8 * y + z) /\ V(1) = VValue(c, VRow(u, w, k) + 1, 8 * y + z)
    <3>1. VRow(u, w, k) + 0 = VRow(u, w, k)
      BY <1>2 DEF VRow
    <3> QED BY <3>1
  <2> HIDE DEF D, E0, E1, V, lane, i, z
  <2>6. W(lane, i) = VPair(c, u, w, k, y, z)
    BY <2>2, <2>4, <2>5 DEF VPair
  <2> HIDE DEF W
  <2> QED BY <2>6 DEF lane, i, z
<1> HIDE DEF W
<1>4. ASSUME s \in VStores(c, w, first, base)
      PROVE  \E k \in 0..3, y \in 0..7, z \in 0..7 : s = VPair(c, u, w, k, y, z)
  <2>1. PICK t \in Lanes \X (0..3) : s = W(t[1], t[2])
    BY <1>1, <1>4
  <2>2. PICK lane \in 0..63, i \in 0..3 : lane = t[1] /\ i = t[2]
    BY DEF Lanes
  <2>3. PICK y \in 0..7, h \in 0..1, k \in 0..3 : lane = 8 * y + 4 * h + k
    OBVIOUS
  <2>4. PICK i1 \in 0..1, i0 \in 0..1 : i = 2 * i1 + i0
    OBVIOUS
  <2>5. W(8 * y + 4 * h + k, 2 * i1 + i0) = VPair(c, u, w, k, y, 4 * h + 2 * i1 + i0)
    BY <1>3
  <2>6. s = VPair(c, u, w, k, y, 4 * h + 2 * i1 + i0)
    BY <2>1, <2>2, <2>3, <2>4, <2>5
  <2> DEFINE z == 4 * h + 2 * i1 + i0
  <2>7. z \in 0..7
    OBVIOUS
  <2> HIDE DEF z
  <2>8. s = VPair(c, u, w, k, y, z)
    BY <2>6 DEF z
  <2> QED BY <2>7, <2>8
<1>5. ASSUME NEW k \in 0..3, NEW y \in 0..7, NEW z \in 0..7, s = VPair(c, u, w, k, y, z)
      PROVE  s \in VStores(c, w, first, base)
  <2>1. PICK h \in 0..1, i1 \in 0..1, i0 \in 0..1 : z = 4 * h + 2 * i1 + i0
    OBVIOUS
  <2> DEFINE lane == 8 * y + 4 * h + k
             i    == 2 * i1 + i0
             t    == <<lane, i>>
  <2>2. W(8 * y + 4 * h + k, 2 * i1 + i0) = VPair(c, u, w, k, y, 4 * h + 2 * i1 + i0)
    BY <1>3
  <2>3. lane \in Lanes /\ i \in 0..3
    BY DEF Lanes
  <2>4. s = W(lane, i)
    BY <1>5, <2>1, <2>2
  <2> HIDE DEF lane, i
  <2>5. t \in Lanes \X (0..3) /\ t[1] = lane /\ t[2] = i
    BY <2>3
  <2> HIDE DEF t
  <2>6. s = W(t[1], t[2])
    BY <2>4, <2>5
  <2> QED BY <1>1, <2>5, <2>6
<1> QED BY <1>4, <1>5

\* The tile that is staged, and its slices of 32 rows.
VTile  == IF case.kernel = "v_lds" THEN case ELSE [case EXCEPT !.kv_offset = 0]
Slices == IF case.kernel = "v_lds" THEN {0} ELSE {0, 1}

IsVStore(s, w) ==
  \E u \in Slices, k \in 0..3, y \in 0..7, z \in 0..7 : s = VPair(VTile, u, w, k, y, z)

\* The tile of a case.
LEMMA VTileIs ==
  ASSUME case \in Cases
  PROVE  /\ VTile.kv_offset = IF case.kernel = "v_lds" THEN case.kv_offset ELSE 0
         /\ VTile.kv_offset \in Nat /\ VTile.seqlen_k = case.seqlen_k /\ VTile.seqlen_k \in Nat
BY CaseIs DEF VTile

\* What wave w stages of V.
LEMMA VStoresAre ==
  ASSUME case \in Cases, case.kernel \in {"v_lds", "pv_gemm"}, NEW w \in Warps, NEW s
  PROVE  s \in Stores(case, w) <=> IsVStore(s, w)
<1> DEFINE Is(u) == \E k \in 0..3, y \in 0..7, z \in 0..7 : s = VPair(VTile, u, w, k, y, z)
<1>1. 0 \in 0..1 /\ 0 = 32 * 0 /\ 2304 = 2304 * (0 + 1) /\ 1 \in 0..1 /\ 32 = 32 * 1 /\ 2304 + 2304 = 2304 * (1 + 1)
  OBVIOUS
<1>2. VTile.kv_offset \in Nat /\ VTile.seqlen_k \in Nat
  BY VTileIs
<1>3. s \in VStores(VTile, w, 0, 2304) <=> Is(0)
  BY <1>1, <1>2, VSlice
<1>4. s \in VStores(VTile, w, 32, 2304 + 2304) <=> Is(1)
  BY <1>1, <1>2, VSlice
<1> HIDE DEF Is
<1>5. CASE case.kernel = "v_lds"
  <2>1. Stores(case, w) = VStores(VTile, w, 0, 2304)
    BY <1>5 DEF Stores, VTile, kVLdsBufBase
  <2>2. IsVStore(s, w) <=> Is(0)
    BY <1>5 DEF IsVStore, Is, Slices
  <2> QED BY <1>3, <2>1, <2>2
<1>6. CASE case.kernel = "pv_gemm"
  <2>1. Stores(case, w) = VStores(VTile, w, 0, 2304) \cup VStores(VTile, w, 32, 2304 + 2304)
    BY <1>6 DEF Stores, VTile, kVLdsBufBase, pv_stage_v
  <2>2. IsVStore(s, w) <=> Is(0) \/ Is(1)
    BY <1>6 DEF IsVStore, Is, Slices
  <2> QED BY <1>3, <1>4, <2>1, <2>2
<1> QED BY <1>5, <1>6

\* Two dwords are the same.
SameVDword(u1, w1, k1, y1, z1, u2, w2, k2, y2, z2) ==
  /\ u1 \in 0..1 /\ w1 \in 0..3 /\ k1 \in 0..3 /\ y1 \in 0..7 /\ z1 \in 0..7
  /\ u2 \in 0..1 /\ w2 \in 0..3 /\ k2 \in 0..3 /\ y2 \in 0..7 /\ z2 \in 0..7
  /\ VDword(u1, w1, k1, y1, z1) = VDword(u2, w2, k2, y2, z2)

\* No two pairs of elements of V have the same dword.
LEMMA VDwordInjective ==
  ASSUME NEW u1, NEW w1, NEW k1, NEW y1, NEW z1, NEW u2, NEW w2, NEW k2, NEW y2, NEW z2,
         SameVDword(u1, w1, k1, y1, z1, u2, w2, k2, y2, z2)
  PROVE  u1 = u2 /\ w1 = w2 /\ k1 = k2 /\ y1 = y2 /\ z1 = z2
<1>1. /\ u1 \in 0..1 /\ w1 \in 0..3 /\ k1 \in 0..3 /\ y1 \in 0..7 /\ z1 \in 0..7
      /\ u2 \in 0..1 /\ w2 \in 0..3 /\ k2 \in 0..3 /\ y2 \in 0..7 /\ z2 \in 0..7
  BY DEF SameVDword
<1>2. 1152 * (u1 + 1) + w1 * 288 + y1 * 36 + z1 * 4 + k1 = 1152 * (u2 + 1) + w2 * 288 + y2 * 36 + z2 * 4 + k2
  BY DEF SameVDword, VDword
<1>3. u1 = u2
  BY <1>1, <1>2
<1>4. w1 = w2
  BY <1>1, <1>2, <1>3
<1>5. y1 = y2
  BY <1>1, <1>2, <1>3, <1>4
<1>6. z1 = z2
  BY <1>1, <1>2, <1>3, <1>4, <1>5
<1> QED BY <1>1, <1>2, <1>3, <1>4, <1>5, <1>6

\* The digits of row n and column d of slice u.
VDigitsAre(u, n, d, w, k, b, y, z) ==
  /\ u \in 0..1 /\ w \in 0..3 /\ k \in 0..3 /\ b \in 0..1 /\ y \in 0..7 /\ z \in 0..7
  /\ n = 8 * w + 2 * k + b /\ d = 8 * y + z

\* Where the oracles put an element of a row pair of V.
LEMMA VOffsetOf ==
  ASSUME NEW u, NEW n, NEW d, NEW w, NEW k, NEW b, NEW y, NEW z, VDigitsAre(u, n, d, w, k, b, y, z)
  PROVE  /\ 2304 * (u + 1) + v_lds_offset_elems(n, d) = 2 * VDword(u, w, k, y, z) + b
         /\ VDword(u, w, k, y, z) \in Nat
         /\ (2 * VDword(u, w, k, y, z) + b) \div 2 = VDword(u, w, k, y, z)
         /\ (2 * VDword(u, w, k, y, z) + b) % 2 = b
<1>0. /\ u \in 0..1 /\ w \in 0..3 /\ k \in 0..3 /\ b \in 0..1 /\ y \in 0..7 /\ z \in 0..7
      /\ n = 8 * w + 2 * k + b /\ d = 8 * y + z
  BY DEF VDigitsAre
<1>1. n % 32 = n /\ n \div 8 = w /\ n % 8 = 2 * k + b /\ d \div 8 = y /\ d % 8 = z
  BY <1>0
<1>2. v_lds_offset_elems(n, d) = w * 576 + y * 72 + z * 8 + (2 * k + b)
  BY <1>0, <1>1 DEF v_lds_offset_elems
<1> DEFINE q == VDword(u, w, k, y, z)
<1>3. q = 1152 * (u + 1) + w * 288 + y * 36 + z * 4 + k /\ q \in Nat
  BY <1>0 DEF VDword
<1> HIDE DEF q
<1>4. 2304 * (u + 1) + v_lds_offset_elems(n, d) = 2 * q + b
  BY <1>0, <1>2, <1>3
<1>5. (2 * q + b) \div 2 = q /\ (2 * q + b) % 2 = b
  BY <1>0, <1>3
<1> QED BY <1>3, <1>4, <1>5 DEF q

\* The element of the tile at row 32 * u + n and column d, by the digits of n and d.
VPlace(u, n, d) == 2304 * (u + 1) + v_lds_offset_elems(n, d)
IsVHalf(u, n, d, w, k, b, y, z) ==
  /\ w \in 0..3 /\ k \in 0..3 /\ b \in 0..1 /\ y \in 0..7 /\ z \in 0..7
  /\ n = 8 * w + 2 * k + b /\ d = 8 * y + z
  /\ VPlace(u, n, d) \in Nat
  /\ VPlace(u, n, d) \div 2 = VDword(u, w, k, y, z)
  /\ VPlace(u, n, d) % 2 = b

\* Every element is half of a dword.
LEMMA VHalf ==
  ASSUME NEW u \in 0..1, NEW n \in 0..31, NEW d \in 0..63
  PROVE  \E w \in 0..3, k \in 0..3, b \in 0..1, y \in 0..7, z \in 0..7 : IsVHalf(u, n, d, w, k, b, y, z)
<1>1. PICK w \in 0..3, k \in 0..3, b \in 0..1 : n = 8 * w + 2 * k + b
  OBVIOUS
<1>2. PICK y \in 0..7, z \in 0..7 : d = 8 * y + z
  OBVIOUS
<1> DEFINE q == VDword(u, w, k, y, z)
<1>3. /\ 2304 * (u + 1) + v_lds_offset_elems(n, d) = 2 * q + b
      /\ q \in Nat /\ (2 * q + b) \div 2 = q /\ (2 * q + b) % 2 = b
  <2>1. VDigitsAre(u, n, d, w, k, b, y, z)
    BY <1>1, <1>2 DEF VDigitsAre
  <2> QED BY <2>1, VOffsetOf
<1> HIDE DEF q
<1>4. VPlace(u, n, d) = 2 * q + b /\ 2 * q + b \in Nat
  BY <1>3 DEF VPlace
<1>5. VPlace(u, n, d) \in Nat /\ VPlace(u, n, d) \div 2 = q /\ VPlace(u, n, d) % 2 = b
  BY <1>3, <1>4
<1> QED BY <1>1, <1>2, <1>5 DEF IsVHalf, q

\* Every element of a slice that is staged is where the formula says, zero past
\* the sequence.
LEMMA VHeld ==
  ASSUME case \in Cases, case.kernel \in {"v_lds", "pv_gemm"},
         NEW u \in Slices, NEW n \in 0..31, NEW d \in 0..63
  PROVE  ElementIn(AllArrived, VPlace(u, n, d)) = VValue(VTile, 32 * u + n, d)
<1>1. u \in 0..1
  BY DEF Slices
<1>2. PICK w \in 0..3, k \in 0..3, b \in 0..1, y \in 0..7, z \in 0..7 : IsVHalf(u, n, d, w, k, b, y, z)
  BY <1>1, VHalf
<1> DEFINE e == VPlace(u, n, d)
           v == <<VValue(VTile, VRow(u, w, k), 8 * y + z), VValue(VTile, VRow(u, w, k) + 1, 8 * y + z)>>
<1>3. e \in Nat /\ e \div 2 = VDword(u, w, k, y, z) /\ e % 2 = b /\ n = 8 * w + 2 * k + b /\ d = 8 * y + z
  BY <1>2 DEF IsVHalf
<1>4. w \in Warps
  BY DEF Warps
<1> HIDE DEF e, v
<1>5. IsVStore(<<e \div 2, v>>, w)
  BY <1>3 DEF IsVStore, VPair, v
<1>6. <<e \div 2, v>> \in Stores(case, w)
  BY <1>4, <1>5, VStoresAre
<1>7. ASSUME NEW w2 \in Warps, NEW s \in Stores(case, w2), s[1] = e \div 2
      PROVE  s[2] = v
  <2>1. IsVStore(s, w2) /\ w2 \in 0..3
    BY VStoresAre DEF Warps
  <2>2. PICK u2 \in Slices, k2 \in 0..3, y2 \in 0..7, z2 \in 0..7 : s = VPair(VTile, u2, w2, k2, y2, z2)
    BY <2>1 DEF IsVStore
  <2>3. s[1] = VDword(u2, w2, k2, y2, z2)
    BY <2>2 DEF VPair
  <2>4. u2 \in 0..1
    BY DEF Slices
  <2>5. SameVDword(u2, w2, k2, y2, z2, u, w, k, y, z)
    BY <1>1, <1>3, <1>7, <2>1, <2>3, <2>4 DEF SameVDword
  <2>6. u2 = u /\ w2 = w /\ k2 = k /\ y2 = y /\ z2 = z
    BY <2>5, VDwordInjective
  <2>7. s = VPair(VTile, u, w, k, y, z)
    BY <2>2, <2>6
  <2> QED BY <2>7 DEF VPair, v
<1>8. ElementIn(AllArrived, e) = v[(e % 2) + 1]
  BY <1>3, <1>4, <1>6, <1>7, HeldElement
<1>9. VRow(u, w, k) + b = 32 * u + n /\ VRow(u, w, k) \in Nat
  BY <1>1, <1>3 DEF VRow
<1>10. v[b + 1] = VValue(VTile, 32 * u + n, d)
  <2>1. CASE b = 0
    BY <1>3, <1>9, <2>1 DEF v
  <2>2. CASE b = 1
    BY <1>3, <1>9, <2>2 DEF v
  <2> QED BY <2>1, <2>2
<1> QED BY <1>3, <1>8, <1>10 DEF e

\* e is the place of an element of the tile.
IsVPlace(e) == \E u \in Slices, n \in 0..31, d \in 0..63 : e = VPlace(u, n, d)

\* All else is zero.
LEMMA VUnheld ==
  ASSUME case \in Cases, case.kernel \in {"v_lds", "pv_gemm"}, NEW e \in Nat, ~ IsVPlace(e)
  PROVE  ElementIn(AllArrived, e) = Zero
<1>1. ASSUME NEW w \in Warps, NEW s \in Stores(case, w), s[1] = e \div 2
      PROVE  FALSE
  <2>1. IsVStore(s, w) /\ w \in 0..3
    BY VStoresAre DEF Warps
  <2>2. PICK u \in Slices, k \in 0..3, y \in 0..7, z \in 0..7 : s = VPair(VTile, u, w, k, y, z)
    BY <2>1 DEF IsVStore
  <2>3. s[1] = VDword(u, w, k, y, z) /\ u \in 0..1
    BY <2>2 DEF VPair, Slices
  <2>4. PICK b \in 0..1 : e = 2 * (e \div 2) + b
    OBVIOUS
  <2> DEFINE n == 8 * w + 2 * k + b
             d == 8 * y + z
  <2>5. n = 8 * w + 2 * k + b /\ d = 8 * y + z /\ n \in 0..31 /\ d \in 0..63
    BY <2>1
  <2> HIDE DEF n, d
  <2>6. 2304 * (u + 1) + v_lds_offset_elems(n, d) = 2 * VDword(u, w, k, y, z) + b
    <3>1. VDigitsAre(u, n, d, w, k, b, y, z)
      BY <2>1, <2>3, <2>5 DEF VDigitsAre
    <3> QED BY <3>1, VOffsetOf
  <2>7. e = VPlace(u, n, d)
    BY <1>1, <2>3, <2>4, <2>6 DEF VPlace
  <2> QED BY <2>5, <2>7 DEF IsVPlace
<1> QED BY <1>1, UnheldElement

-----------------------------------------------------------------------------
(* The dump                                                                *)

\* When all waves are done, what they dumped is LDS with all that arrived.
LEMMA DumpedIs ==
  ASSUME BlockInv, Done, NEW e \in Nat
  PROVE  Dumped(e) = ElementIn(AllArrived, e)
<1>1. (e % 256) \div 64 \in Warps
  BY DEF Warps
<1>2. seen[(e % 256) \div 64] = AllArrived
  BY <1>1 DEF BlockInv, Done
<1> QED BY <1>2 DEF Dumped

\* The places of K and V in the dump.
LEMMA VPlaceOfSlice0 ==
  ASSUME NEW n \in 0..31, NEW d \in 0..63
  PROVE  VPlace(0, n, d) = kVLdsBufBase + v_lds_offset_elems(n, d) /\ VPlace(0, n, d) \in Nat
<1>1. 2304 * (0 + 1) = 2304
  OBVIOUS
<1>2. VPlace(0, n, d) = kVLdsBufBase + v_lds_offset_elems(n, d)
  BY <1>1 DEF VPlace, kVLdsBufBase
<1>3. \E w \in 0..3, k \in 0..3, b \in 0..1, y \in 0..7, z \in 0..7 : IsVHalf(0, n, d, w, k, b, y, z)
  <2>1. 0 \in 0..1
    OBVIOUS
  <2> QED BY <2>1, VHalf
<1> QED BY <1>2, <1>3 DEF IsVHalf

\* The dump of K is the oracle's.
LEMMA KDumpIsOracle ==
  ASSUME BlockInv, Done, case.kernel = "k_lds"
  PROVE  /\ \A x \in ref_k_lds(case) : Dumped(x[1]) = x[2]
         /\ \A e \in Nat : e \notin {x[1] : x \in ref_k_lds(case)} => Dumped(e) = Zero
<1>1. case \in Cases /\ KOff = case.kv_offset
  BY DEF BlockInv, KOff
<1> DEFINE X(j, d) == <<k_lds_offset_elems(j, d), <<KOff + j, d>>>>
<1>2. ref_k_lds(case) = {X(x[1], x[2]) : x \in {y \in (0..63) \X (0..63) : KOff + y[1] < case.seqlen_k}}
  BY <1>1 DEF ref_k_lds
<1>3. ASSUME NEW x \in ref_k_lds(case)
      PROVE  Dumped(x[1]) = x[2]
  <2>1. PICK t \in {y \in (0..63) \X (0..63) : KOff + y[1] < case.seqlen_k} : x = X(t[1], t[2])
    <3> HIDE DEF X
    <3> QED BY <1>2
  <2>2. PICK j \in 0..63, d \in 0..63 : j = t[1] /\ d = t[2] /\ KOff + j < case.seqlen_k
    OBVIOUS
  <2>3. x[1] = k_lds_offset_elems(j, d) /\ x[2] = <<KOff + j, d>>
    BY <2>1, <2>2
  <2>4. PICK i \in 0..31, b \in 0..1 : IsKHalf(j, d, i, b)
    BY KHalf
  <2>5. x[1] \in Nat
    BY <2>3, <2>4 DEF IsKHalf
  <2>6. ElementIn(AllArrived, k_lds_offset_elems(j, d)) = <<KOff + j, d>>
    BY <1>1, <2>2, KHeld
  <2> QED BY <2>3, <2>5, <2>6, DumpedIs
<1>4. ASSUME NEW e \in Nat, e \notin {x[1] : x \in ref_k_lds(case)}
      PROVE  Dumped(e) = Zero
  <2>1. ASSUME NEW j \in 0..63, NEW d \in 0..63, KOff + j < case.seqlen_k, e = k_lds_offset_elems(j, d)
        PROVE  FALSE
    <3> DEFINE t == <<j, d>>
    <3>1. t \in {y \in (0..63) \X (0..63) : KOff + y[1] < case.seqlen_k} /\ t[1] = j /\ t[2] = d
      BY <2>1
    <3>2. X(j, d)[1] = e
      BY <2>1
    <3> HIDE DEF t, X
    <3>3. X(j, d) \in ref_k_lds(case)
      BY <1>2, <3>1
    <3> QED BY <1>4, <3>2, <3>3
  <2>2. ~ IsKPlace(e)
    BY <2>1 DEF IsKPlace
  <2>3. ElementIn(AllArrived, e) = Zero
    BY <1>1, <2>2, KUnheld
  <2> QED BY <2>3, DumpedIs
<1> QED BY <1>3, <1>4

\* The dump of V is the oracle's.
LEMMA VDumpIsOracle ==
  ASSUME BlockInv, Done, case.kernel = "v_lds"
  PROVE  /\ \A x \in ref_v_lds(case) : Dumped(x[1]) = x[2]
         /\ \A e \in Nat : e \notin {x[1] : x \in ref_v_lds(case)} => Dumped(e) = Zero
<1>1. /\ case \in Cases /\ Slices = {0} /\ VTile.kv_offset = case.kv_offset /\ VTile.seqlen_k = case.seqlen_k
      /\ VTile.kv_offset \in Nat
  BY VTileIs DEF BlockInv, Slices
<1> DEFINE off == VTile.kv_offset
           X(n, d) == <<kVLdsBufBase + v_lds_offset_elems(n, d), <<off + n, d>>>>
<1>2. ref_v_lds(case) = {X(x[1], x[2]) : x \in {y \in (0..31) \X (0..63) : off + y[1] < VTile.seqlen_k}}
  BY <1>1 DEF ref_v_lds
<1>3. ASSUME NEW n \in 0..31, NEW d \in 0..63
      PROVE  /\ VPlace(0, n, d) = kVLdsBufBase + v_lds_offset_elems(n, d)
             /\ Dumped(VPlace(0, n, d)) = IF off + n < VTile.seqlen_k THEN <<off + n, d>> ELSE Zero
  <2>1. VPlace(0, n, d) = kVLdsBufBase + v_lds_offset_elems(n, d) /\ VPlace(0, n, d) \in Nat
    BY VPlaceOfSlice0
  <2>2. ElementIn(AllArrived, VPlace(0, n, d)) = VValue(VTile, 32 * 0 + n, d)
    BY <1>1, VHeld
  <2>3. 32 * 0 + n = n
    OBVIOUS
  <2>4. Dumped(VPlace(0, n, d)) = VValue(VTile, n, d)
    BY <2>1, <2>2, <2>3, DumpedIs
  <2> QED BY <2>1, <2>4 DEF VValue
<1>4. ASSUME NEW x \in ref_v_lds(case)
      PROVE  Dumped(x[1]) = x[2]
  <2>1. PICK t \in {y \in (0..31) \X (0..63) : off + y[1] < VTile.seqlen_k} : x = X(t[1], t[2])
    <3> HIDE DEF X
    <3> QED BY <1>2
  <2>2. PICK n \in 0..31, d \in 0..63 : n = t[1] /\ d = t[2] /\ off + n < VTile.seqlen_k
    OBVIOUS
  <2>3. x[1] = kVLdsBufBase + v_lds_offset_elems(n, d) /\ x[2] = <<off + n, d>>
    BY <2>1, <2>2
  <2> HIDE DEF off
  <2>4. x[1] = VPlace(0, n, d) /\ Dumped(VPlace(0, n, d)) = <<off + n, d>>
    BY <1>3, <2>2, <2>3
  <2> QED BY <2>3, <2>4
<1>5. ASSUME NEW e \in Nat, e \notin {x[1] : x \in ref_v_lds(case)}
      PROVE  Dumped(e) = Zero
  <2>1. CASE IsVPlace(e)
    <3>1. PICK n \in 0..31, d \in 0..63 : e = VPlace(0, n, d)
      BY <1>1, <2>1 DEF IsVPlace
    <3>2. CASE off + n < VTile.seqlen_k
      <4> DEFINE t == <<n, d>>
      <4>1. t \in {y \in (0..31) \X (0..63) : off + y[1] < VTile.seqlen_k} /\ t[1] = n /\ t[2] = d
        BY <3>2
      <4>2. X(n, d)[1] = e
        BY <1>3, <3>1
      <4> HIDE DEF t, X, off
      <4>3. X(n, d) \in ref_v_lds(case)
        BY <1>2, <4>1
      <4> QED BY <1>5, <4>2, <4>3
    <3>3. CASE ~ (off + n < VTile.seqlen_k)
      <4> HIDE DEF off
      <4> QED BY <1>3, <3>1, <3>3
    <3> QED BY <3>2, <3>3
  <2>2. CASE ~ IsVPlace(e)
    <3>1. ElementIn(AllArrived, e) = Zero
      BY <1>1, <2>2, VUnheld
    <3> QED BY <3>1, DumpedIs
  <2> QED BY <2>1, <2>2
<1> QED BY <1>4, <1>5

\* The invariant of the block implies the first property.
LEMMA DumpFollows == BlockInv => DumpIsOracle
<1> SUFFICES ASSUME BlockInv, Done, case.kernel \in {"k_lds", "v_lds"}
             PROVE  LET expected == IF case.kernel = "k_lds" THEN ref_k_lds(case) ELSE ref_v_lds(case)
                        held     == {x[1] : x \in expected}
                    IN  /\ \A x \in expected : Dumped(x[1]) = x[2]
                        /\ \A e \in 0..(kLdsRegionElems - 1) : e \notin held => Dumped(e) = Zero
  BY DEF DumpIsOracle
<1>1. \A e \in 0..(kLdsRegionElems - 1) : e \in Nat
  BY DEF kLdsRegionElems
<1>2. CASE case.kernel = "k_lds"
  BY <1>1, <1>2, KDumpIsOracle
<1>3. CASE case.kernel = "v_lds"
  BY <1>1, <1>3, VDumpIsOracle
<1> QED BY <1>2, <1>3

-----------------------------------------------------------------------------
(* The GEMMs                                                               *)

\* The row of A, and so of C, that an MFMA computes in register r of a lane.
FreeRow(lane, r) == 8 * (r \div 4) + 4 * (lane \div 32) + (r % 4)

\* The swizzle, by digits.
LEMMA SwzDigits ==
  ASSUME NEW n \in 0..1, NEW a \in 0..1, NEW b \in 0..1, NEW h \in 0..1, NEW c \in 0..3
  PROVE  component_swz(32 * n + 16 * a + 8 * b + 4 * h + c) = 32 * n + 16 * a + 8 * h + 4 * b + c
<1> DEFINE x == 32 * n + 16 * a + 8 * b + 4 * h + c
<1>1. (x \div 4) % 2 = h /\ (x \div 8) % 2 = b /\ x \in Int
  OBVIOUS
<1>2. component_swz(x) = x + 4 * h - 4 * b
  <2> HIDE DEF x
  <2> QED BY <1>1 DEF component_swz
<1> QED BY <1>2

\* Which row, key or column a thread's register is about, as the kernels and as
\* the oracles compute it.
LEMMA RegisterDigits ==
  ASSUME NEW tid \in 0..255, NEW register \in 0..31
  PROVE  /\ tid \div 64 \in 0..3 /\ tid % 64 \in 0..63
         /\ (tid % 64) \div 32 \in 0..1 /\ (tid % 64) % 32 \in 0..31
         /\ register \div 16 \in 0..1 /\ FreeRow(tid % 64, register % 16) \in 0..31
         /\ ref_n_col(tid, register) \in 0..63
         /\ ref_n_col(tid, register)
            = (register \div 16) * 32 + component_swz(FreeRow(tid % 64, register % 16))
         /\ component_swz(ref_n_col(tid, register))
            = FreeRow(tid % 64, register % 16) + 32 * (register \div 16)
<1> DEFINE lane == tid % 64
<1>1. tid \div 64 \in 0..3 /\ lane \in 0..63
  OBVIOUS
<1>2. PICK half \in 0..1 : lane \div 32 = half /\ lane % 32 \in 0..31
  BY <1>1
<1>3. PICK n \in 0..1, a \in 0..1, b \in 0..1, c \in 0..3 : register = 16 * n + 8 * a + 4 * b + c
  OBVIOUS
<1> DEFINE r == register % 16
<1>4. r = 8 * a + 4 * b + c /\ register \div 16 = n /\ register \div 8 = 2 * n + a /\ register % 8 = 4 * b + c
  BY <1>3
<1> HIDE DEF r, lane
<1>5. r \div 4 = 2 * a + b /\ r % 4 = c
  BY <1>4
<1>6. FreeRow(lane, r) = 16 * a + 8 * b + 4 * half + c
  BY <1>2, <1>5 DEF FreeRow
<1>7. ref_n_col(tid, register) = 32 * n + 16 * a + 8 * half + 4 * b + c
  BY <1>2, <1>4 DEF ref_n_col, lane
<1>8. component_swz(32 * n + 16 * a + 8 * half + 4 * b + c) = 32 * n + 16 * a + 8 * b + 4 * half + c
  BY SwzDigits
<1>9. component_swz(FreeRow(lane, r)) = 16 * a + 8 * half + 4 * b + c
  <2>1. component_swz(32 * 0 + 16 * a + 8 * b + 4 * half + c) = 32 * 0 + 16 * a + 8 * half + 4 * b + c
    BY SwzDigits
  <2>2. FreeRow(lane, r) = 32 * 0 + 16 * a + 8 * b + 4 * half + c
    BY <1>6
  <2> QED BY <2>1, <2>2
<1>10. FreeRow(lane, r) \in 0..31 /\ ref_n_col(tid, register) \in 0..63
  BY <1>6, <1>7
<1>11. ref_n_col(tid, register) = (register \div 16) * 32 + component_swz(FreeRow(lane, r))
  BY <1>4, <1>7, <1>9
<1>12. component_swz(ref_n_col(tid, register)) = FreeRow(lane, r) + 32 * (register \div 16)
  BY <1>4, <1>6, <1>7, <1>8
<1> QED BY <1>1, <1>2, <1>4, <1>10, <1>11, <1>12 DEF lane, r

\* The row of A, the row of C and the key or column of a thread's register.
RegisterIs(tid, register, w, j, i, n, key) ==
  /\ w = tid \div 64 /\ j = (tid % 64) % 32 /\ i = FreeRow(tid % 64, register % 16)
  /\ n = register \div 16 /\ key = ref_n_col(tid, register)
  /\ w \in 0..3 /\ tid % 64 \in 0..63 /\ (tid % 64) \div 32 \in 0..1 /\ j \in 0..31 /\ i \in 0..31 /\ n \in 0..1
  /\ key \in 0..63 /\ key = n * 32 + component_swz(i) /\ component_swz(key) = i + 32 * n
  /\ ref_m_row(tid) = j + 32 * w

\* They exist.
LEMMA RegisterFacts ==
  ASSUME NEW tid \in 0..255, NEW register \in 0..31
  PROVE  RegisterIs(tid, register, tid \div 64, (tid % 64) % 32, FreeRow(tid % 64, register % 16),
                    register \div 16, ref_n_col(tid, register))
<1>1. ref_m_row(tid) = ((tid % 64) % 32) + 32 * (tid \div 64)
  BY DEF ref_m_row
<1>2. /\ tid \div 64 \in 0..3 /\ tid % 64 \in 0..63
      /\ (tid % 64) \div 32 \in 0..1 /\ (tid % 64) % 32 \in 0..31 /\ register \div 16 \in 0..1
  OBVIOUS
<1>3. FreeRow(tid % 64, register % 16) \in 0..31
  BY RegisterDigits
<1>4. ref_n_col(tid, register) \in 0..63
  BY RegisterDigits
<1>5. ref_n_col(tid, register) = (register \div 16) * 32 + component_swz(FreeRow(tid % 64, register % 16))
  BY RegisterDigits
<1>6. component_swz(ref_n_col(tid, register)) = FreeRow(tid % 64, register % 16) + 32 * (register \div 16)
  BY RegisterDigits
<1> QED BY <1>1, <1>2, <1>3, <1>4, <1>5, <1>6, Zenon DEF RegisterIs

\* The two MFMAs of all four steps go through 64 terms.
Term(kstep, pass, h, e) == kstep * 16 + h * 8 + 4 * pass + e

\* Each term once.
LEMMA TermDigits ==
  /\ \A kstep \in 0..3, pass \in 0..1, h \in 0..1, e \in 0..3 : Term(kstep, pass, h, e) \in 0..63
  /\ \A x \in 0..63 : \E kstep \in 0..3, pass \in 0..1, h \in 0..1, e \in 0..3 : x = Term(kstep, pass, h, e)
<1>1. \A x \in 0..63 : \E kstep \in 0..3, h \in 0..1, pass \in 0..1, e \in 0..3 : x = 16 * kstep + 8 * h + 4 * pass + e
  OBVIOUS
<1>2. \A kstep \in 0..3, pass \in 0..1, h \in 0..1, e \in 0..3 :
        Term(kstep, pass, h, e) = 16 * kstep + 8 * h + 4 * pass + e
  BY DEF Term
<1>3. \A kstep \in 0..3, pass \in 0..1, h \in 0..1, e \in 0..3 : 16 * kstep + 8 * h + 4 * pass + e \in 0..63
  OBVIOUS
<1> QED BY <1>1, <1>2, <1>3

\* The lanes whose operands an MFMA multiplies.
LEMMA LaneDigits ==
  ASSUME NEW i \in 0..31, NEW h \in 0..1
  PROVE  i + 32 * h \in Lanes /\ (i + 32 * h) % 32 = i /\ (i + 32 * h) \div 32 = h
BY DEF Lanes

\* A step along a row of K, as the fragments of a GEMM take it.
LEMMA KFragment ==
  ASSUME NEW j \in 0..63, NEW kstep \in 0..3, NEW pass \in 0..1, NEW h \in 0..1, NEW e \in 0..3
  PROVE  qk_k_lds_offset(j, kstep * 16 + h * 8) + (4 * pass + e) = k_lds_offset_elems(j, Term(kstep, pass, h, e))
<1>1. PICK u \in 0..1, v \in 0..1 : kstep = 2 * u + v
  OBVIOUS
<1> DEFINE d == kstep * 16 + h * 8
           t == Term(kstep, pass, h, e)
<1>2. d % 32 = 16 * v + 8 * h /\ d \div 32 = u
  BY <1>1
<1>3. t % 32 = 16 * v + 8 * h + 4 * pass + e /\ t \div 32 = u
  <2>1. t = 32 * u + (16 * v + 8 * h + 4 * pass + e)
    BY <1>1 DEF Term
  <2>2. 16 * v + 8 * h + 4 * pass + e \in 0..31
    OBVIOUS
  <2> HIDE DEF t
  <2> QED BY <2>1, <2>2
<1> HIDE DEF d, t
<1> DEFINE row == (j % 4) * 136 + ((j \div 4) % 4) * 32 + (j \div 16) * 544
<1>4. row \in Int
  OBVIOUS
<1>5. qk_k_lds_offset(j, d) = row + (d % 32) + (d \div 32) * 2304
  BY DEF qk_k_lds_offset
<1>6. k_lds_offset_elems(j, t) = row + (t % 32) + (t \div 32) * 2304
  BY DEF k_lds_offset_elems
<1> HIDE DEF row
<1>7. qk_k_lds_offset(j, d) + (4 * pass + e) = k_lds_offset_elems(j, t)
  BY <1>2, <1>3, <1>4, <1>5, <1>6
<1> QED BY <1>7 DEF d, t

\* What a row of K or Q counts as, past the sequence too.
QValue(m, d) == IF m < case.seqlen_q THEN <<m, d>> ELSE Zero
KValue(j, d) == IF j < case.seqlen_k THEN <<j, d>> ELSE Zero

\* Every element of K that a GEMM reads is that of its row, or zero.
LEMMA KRead ==
  ASSUME case \in Cases, case.kernel = "qk_gemm", NEW j \in 0..63, NEW d \in 0..63
  PROVE  ElementIn(AllArrived, k_lds_offset_elems(j, d)) = KValue(j, d)
<1>1. KOff = 0 /\ KOff + j = j
  BY DEF KOff
<1>2. CASE j < case.seqlen_k
  BY <1>1, <1>2, KHeld DEF KValue
<1>3. CASE ~ (j < case.seqlen_k)
  BY <1>1, <1>3, KPadding DEF KValue
<1> QED BY <1>2, <1>3

\* Sums of products that are all the same terms, less those with a zero.
LEMMA QkSum ==
  ASSUME NEW m, NEW j, NEW sum, \A p0 : p0 \in sum <=> \E d \in 0..63 : p0 = <<QValue(m, d), KValue(j, d)>>
  PROVE  NonZero(sum) = {<<<<m, d>>, <<j, d>>>> : d \in {x \in 0..63 : m < case.seqlen_q /\ j < case.seqlen_k}}
<1>1. \A d : <<m, d>> # Zero /\ <<j, d>> # Zero
  BY DEF Zero
<1>2. ASSUME NEW d \in 0..63
      PROVE  /\ m < case.seqlen_q /\ j < case.seqlen_k =>
                  <<QValue(m, d), KValue(j, d)>> = <<<<m, d>>, <<j, d>>>> /\ Zero \notin {QValue(m, d), KValue(j, d)}
             /\ ~ (m < case.seqlen_q /\ j < case.seqlen_k) => Zero \in {QValue(m, d), KValue(j, d)}
  BY <1>1 DEF QValue, KValue
<1> DEFINE X(d) == <<QValue(m, d), KValue(j, d)>>
<1>3. \A d : X(d)[1] = QValue(m, d) /\ X(d)[2] = KValue(j, d)
  OBVIOUS
<1>4. NonZero(sum) = {p0 \in sum : Zero \notin {p0[1], p0[2]}}
  BY DEF NonZero
<1>5. CASE m < case.seqlen_q /\ j < case.seqlen_k
  <2>1. \A d \in 0..63 : X(d) = <<<<m, d>>, <<j, d>>>> /\ Zero \notin {X(d)[1], X(d)[2]}
    BY <1>2, <1>3, <1>5
  <2>2. {x \in 0..63 : m < case.seqlen_q /\ j < case.seqlen_k} = 0..63
    BY <1>5
  <2> HIDE DEF X
  <2>3. NonZero(sum) = {X(d) : d \in 0..63}
    BY <1>4, <2>1 DEF X
  <2>4. {X(d) : d \in 0..63} = {<<<<m, d>>, <<j, d>>>> : d \in 0..63}
    <3> DEFINE Y(d) == <<<<m, d>>, <<j, d>>>>
    <3>1. \A d \in 0..63 : X(d) = Y(d)
      BY <2>1
    <3> HIDE DEF Y
    <3>2. {X(d) : d \in 0..63} = {Y(d) : d \in 0..63}
      BY <3>1
    <3> QED BY <3>2 DEF Y
  <2> QED BY <2>2, <2>3, <2>4
<1>6. CASE ~ (m < case.seqlen_q /\ j < case.seqlen_k)
  <2>1. \A d \in 0..63 : Zero \in {X(d)[1], X(d)[2]}
    BY <1>2, <1>3, <1>6
  <2> HIDE DEF X
  <2>2. NonZero(sum) = {}
    BY <1>4, <2>1 DEF X
  <2> QED BY <1>6, <2>2
<1> QED BY <1>5, <1>6

\* The registers of the QK kernel are the oracle's.
LEMMA QkIsOracle ==
  ASSUME BlockInv, Done, case.kernel = "qk_gemm", NEW tid \in 0..255, NEW register \in 0..31
  PROVE  QkRegister(tid, register) = ref_qk_gemm(case, tid, register)
<1> DEFINE w == tid \div 64
           n == register \div 16
           lane == tid % 64
           r == register % 16
           q(kstep, l, e) ==
             LET m_row == (l % 32) + 32 * w
             IN  IF m_row < case.seqlen_q THEN <<m_row, kstep * 16 + (l \div 32) * 8 + e>> ELSE Zero
           k(kstep, l, e) ==
             ElementIn(seen[w], qk_k_lds_offset(n * 32 + component_swz(l % 32),
                                                kstep * 16 + (l \div 32) * 8) + e)
           A(kstep, pass) == [l \in Lanes |-> [e \in 0..3 |-> k(kstep, l, 4 * pass + e)]]
           B(kstep, pass) == [l \in Lanes |-> [e \in 0..3 |-> q(kstep, l, 4 * pass + e)]]
           i == FreeRow(lane, r)
           j == lane % 32
           m == ref_m_row(tid)
           key == ref_n_col(tid, register)
           sum == UNION {Mfma(A(kstep, pass), B(kstep, pass), lane, r) : kstep \in 0..3, pass \in 0..1}
<1>1. QkRegister(tid, register) = NonZero(sum)
  BY DEF QkRegister
<1>2. /\ w \in 0..3 /\ lane \in 0..63 /\ j \in 0..31 /\ i \in 0..31 /\ n \in 0..1
      /\ key \in 0..63 /\ key = n * 32 + component_swz(i)
  <2>1. RegisterIs(tid, register, w, j, i, n, key)
    BY RegisterFacts
  <2> HIDE DEF w, n, j, i, key
  <2> QED BY <2>1 DEF RegisterIs, lane
<1>3. m = j + 32 * w
  BY DEF ref_m_row
<1>4. case \in Cases /\ seen[w] = AllArrived
  BY <1>2 DEF BlockInv, Done, Warps
<1> HIDE DEF w, n, lane, i, j, m, key, r
<1>5. ASSUME NEW kstep \in 0..3, NEW pass \in 0..1, NEW h \in 0..1, NEW e \in 0..3
      PROVE  A(kstep, pass)[i + 32 * h][e] = KValue(key, Term(kstep, pass, h, e))
  <2> DEFINE l == i + 32 * h
  <2>1. l \in Lanes /\ l % 32 = i /\ l \div 32 = h
    BY <1>2, LaneDigits
  <2> HIDE DEF l
  <2>2. A(kstep, pass)[l][e] = k(kstep, l, 4 * pass + e)
    BY <2>1
  <2>3. k(kstep, l, 4 * pass + e) = ElementIn(AllArrived, qk_k_lds_offset(key, kstep * 16 + h * 8) + (4 * pass + e))
    BY <1>2, <1>4, <2>1
  <2> HIDE DEF A, k
  <2>4. qk_k_lds_offset(key, kstep * 16 + h * 8) + (4 * pass + e) = k_lds_offset_elems(key, Term(kstep, pass, h, e))
    BY <1>2, KFragment
  <2>5. ElementIn(AllArrived, k_lds_offset_elems(key, Term(kstep, pass, h, e))) = KValue(key, Term(kstep, pass, h, e))
    BY <1>2, <1>4, TermDigits, KRead
  <2> QED BY <2>2, <2>3, <2>4, <2>5 DEF l
<1>6. ASSUME NEW kstep \in 0..3, NEW pass \in 0..1, NEW h \in 0..1, NEW e \in 0..3
      PROVE  B(kstep, pass)[j + 32 * h][e] = QValue(m, Term(kstep, pass, h, e))
  <2> DEFINE l == j + 32 * h
  <2>1. l \in Lanes /\ l % 32 = j /\ l \div 32 = h
    BY <1>2, LaneDigits
  <2> HIDE DEF l
  <2>2. B(kstep, pass)[l][e] = q(kstep, l, 4 * pass + e)
    BY <2>1
  <2>3. q(kstep, l, 4 * pass + e) = IF m < case.seqlen_q THEN <<m, kstep * 16 + h * 8 + (4 * pass + e)>> ELSE Zero
    BY <1>3, <2>1
  <2>4. kstep * 16 + h * 8 + (4 * pass + e) = Term(kstep, pass, h, e)
    BY DEF Term
  <2> HIDE DEF B, q
  <2> QED BY <2>2, <2>3, <2>4 DEF l, QValue
<1> HIDE DEF A, B, q, k
<1>7. ASSUME NEW kstep \in 0..3, NEW pass \in 0..1
      PROVE  Mfma(A(kstep, pass), B(kstep, pass), lane, r)
             = {<<QValue(m, Term(kstep, pass, h, e)), KValue(key, Term(kstep, pass, h, e))>> : h \in 0..1, e \in 0..3}
  <2>1. Mfma(A(kstep, pass), B(kstep, pass), lane, r)
        = {<<B(kstep, pass)[j + 32 * h][e], A(kstep, pass)[i + 32 * h][e]>> : h \in 0..1, e \in 0..3}
    BY DEF Mfma, Halves, FreeRow, i, j
  <2> DEFINE X(h, e) == <<B(kstep, pass)[j + 32 * h][e], A(kstep, pass)[i + 32 * h][e]>>
             Y(h, e) == <<QValue(m, Term(kstep, pass, h, e)), KValue(key, Term(kstep, pass, h, e))>>
  <2>2. \A h \in 0..1, e \in 0..3 : X(h, e) = Y(h, e)
    BY <1>5, <1>6
  <2> HIDE DEF X, Y
  <2>3. {X(h, e) : h \in 0..1, e \in 0..3} = {Y(h, e) : h \in 0..1, e \in 0..3}
    BY <2>2
  <2> QED BY <2>1, <2>3 DEF X, Y
<1>8. ASSUME NEW p0
      PROVE  p0 \in sum <=> \E d \in 0..63 : p0 = <<QValue(m, d), KValue(key, d)>>
  <2>1. p0 \in sum <=> \E kstep \in 0..3, pass \in 0..1 : p0 \in Mfma(A(kstep, pass), B(kstep, pass), lane, r)
    OBVIOUS
  <2> DEFINE Y(d) == <<QValue(m, d), KValue(key, d)>>
  <2> HIDE DEF Y, sum
  <2>2. \A kstep \in 0..3, pass \in 0..1 :
          p0 \in Mfma(A(kstep, pass), B(kstep, pass), lane, r)
            <=> \E h \in 0..1, e \in 0..3 : p0 = Y(Term(kstep, pass, h, e))
    BY <1>7 DEF Y
  <2>3. p0 \in sum <=> \E kstep \in 0..3, pass \in 0..1, h \in 0..1, e \in 0..3 : p0 = Y(Term(kstep, pass, h, e))
    BY <2>1, <2>2
  <2>4. p0 \in sum <=> \E d \in 0..63 : p0 = Y(d)
    <3>1. ASSUME NEW d \in 0..63, p0 = Y(d)
          PROVE  p0 \in sum
      <4>1. PICK kstep \in 0..3, pass \in 0..1, h \in 0..1, e \in 0..3 : d = Term(kstep, pass, h, e)
        BY TermDigits
      <4> QED BY <2>3, <3>1, <4>1
    <3>2. ASSUME p0 \in sum
          PROVE  \E d \in 0..63 : p0 = Y(d)
      <4>1. PICK kstep \in 0..3, pass \in 0..1, h \in 0..1, e \in 0..3 : p0 = Y(Term(kstep, pass, h, e))
        BY <2>3, <3>2
      <4>2. Term(kstep, pass, h, e) \in 0..63
        BY TermDigits
      <4> QED BY <4>1, <4>2
    <3> QED BY <3>1, <3>2
  <2> QED BY <2>4 DEF Y
<1> HIDE DEF sum
<1>9. NonZero(sum) = {<<<<m, d>>, <<key, d>>>> : d \in {x \in 0..63 : m < case.seqlen_q /\ key < case.seqlen_k}}
  BY <1>8, QkSum
<1> QED BY <1>1, <1>9 DEF ref_qk_gemm, m, key

\* A step down the keys, as the fragments of a GEMM take it, is in slice u.
LEMMA VFragment ==
  ASSUME NEW d \in 0..63, NEW u \in 0..1, NEW v \in 0..1, NEW pass \in 0..1, NEW h \in 0..1, NEW e \in 0..3
  PROVE  2304 * (u + 1) + pv_v_lds_offset(16 * v + 8 * h, d) + (4 * pass + e)
         = VPlace(u, 16 * v + 8 * h + 4 * pass + e, d)
<1> DEFINE n0 == 16 * v + 8 * h
           n1 == 16 * v + 8 * h + 4 * pass + e
           col == (d \div 8) * 72 + (d % 8) * 8
<1>1. n0 % 32 = n0 /\ n0 \div 8 = 2 * v + h /\ n0 % 8 = 0
  OBVIOUS
<1>2. n1 % 32 = n1 /\ n1 \div 8 = 2 * v + h /\ n1 % 8 = 4 * pass + e
  OBVIOUS
<1>3. col \in Int
  OBVIOUS
<1> HIDE DEF n0, n1
<1>4. pv_v_lds_offset(n0, d) = (2 * v + h) * 576 + col + 0
  BY <1>1 DEF pv_v_lds_offset
<1>5. v_lds_offset_elems(n1, d) = (2 * v + h) * 576 + col + (4 * pass + e)
  BY <1>2 DEF v_lds_offset_elems
<1> HIDE DEF col
<1>6. 2304 * (u + 1) + pv_v_lds_offset(n0, d) + (4 * pass + e) = VPlace(u, n1, d)
  BY <1>3, <1>4, <1>5 DEF VPlace
<1> QED BY <1>6 DEF n0, n1

\* What a key's element of V counts as, past the sequence too.
VKey(x, d) == IF x < case.seqlen_k THEN <<x, d>> ELSE Zero

\* What the PV kernel reads of V for a term of its sums.
LEMMA VRead ==
  ASSUME case \in Cases, case.kernel = "pv_gemm", NEW d \in 0..63,
         NEW kstep \in 0..3, NEW pass \in 0..1, NEW h \in 0..1, NEW e \in 0..3
  PROVE  LET seqk_abs == kstep * 16 + h * 8
             v_buf    == IF seqk_abs < 32 THEN kVLdsBufBase ELSE kVLdsBufBase + 2304
         IN  ElementIn(AllArrived, v_buf + pv_v_lds_offset(seqk_abs % 32, d) + (4 * pass + e))
             = VKey(Term(kstep, pass, h, e), d)
<1> DEFINE seqk_abs == kstep * 16 + h * 8
           v_buf    == IF seqk_abs < 32 THEN kVLdsBufBase ELSE kVLdsBufBase + 2304
<1>1. PICK u \in 0..1, v \in 0..1 : kstep = 2 * u + v
  OBVIOUS
<1> DEFINE n == 16 * v + 8 * h + 4 * pass + e
<1>2. seqk_abs % 32 = 16 * v + 8 * h /\ v_buf = 2304 * (u + 1)
  <2>1. seqk_abs = 32 * u + (16 * v + 8 * h) /\ 16 * v + 8 * h \in 0..31
    BY <1>1
  <2> HIDE DEF seqk_abs
  <2>2. seqk_abs % 32 = 16 * v + 8 * h
    BY <2>1
  <2>3. seqk_abs < 32 <=> u = 0
    BY <2>1
  <2> QED BY <2>2, <2>3 DEF kVLdsBufBase
<1>3. 32 * u + n = Term(kstep, pass, h, e) /\ n \in 0..31
  BY <1>1 DEF Term
<1> HIDE DEF seqk_abs, v_buf
<1>4. v_buf + pv_v_lds_offset(seqk_abs % 32, d) + (4 * pass + e) = VPlace(u, n, d)
  <2>1. 2304 * (u + 1) + pv_v_lds_offset(16 * v + 8 * h, d) + (4 * pass + e) = VPlace(u, 16 * v + 8 * h + 4 * pass + e, d)
    BY VFragment
  <2> QED BY <1>2, <2>1
<1>5. u \in Slices
  BY DEF Slices
<1> HIDE DEF n
<1>6. ElementIn(AllArrived, VPlace(u, n, d)) = VValue(VTile, 32 * u + n, d)
  BY <1>3, <1>5, VHeld
<1>7. VTile.kv_offset = 0 /\ VTile.seqlen_k = case.seqlen_k
  BY VTileIs
<1>8. Term(kstep, pass, h, e) \in 0..63
  BY TermDigits
<1>9. VValue(VTile, 32 * u + n, d) = VKey(Term(kstep, pass, h, e), d)
  BY <1>3, <1>7, <1>8 DEF VValue, VKey
<1>10. ElementIn(AllArrived, v_buf + pv_v_lds_offset(seqk_abs % 32, d) + (4 * pass + e)) = VKey(Term(kstep, pass, h, e), d)
  BY <1>4, <1>6, <1>9
<1> QED BY <1>10 DEF seqk_abs, v_buf

\* A term of the sums of row j of wave w.
IsTerm(w, j, kstep, pass, h, e) ==
  w \in 0..3 /\ j \in 0..31 /\ kstep \in 0..3 /\ pass \in 0..1 /\ h \in 0..1 /\ e \in 0..3

\* Where the oracle finds the probability of a term is where the kernel has it.
SameProbability(w, j, kstep, pass, h, e) ==
  get_p(j + 32 * w, Term(kstep, pass, h, e))
  = <<w * 64 + (j + 32 * h), 2 * (kstep * 4 + (4 * pass + e) \div 2) + ((4 * pass + e) % 2)>>

\* It is so for every term.
LEMMA ProbabilityOfTerm ==
  ASSUME NEW w, NEW j, NEW kstep, NEW pass, NEW h, NEW e, IsTerm(w, j, kstep, pass, h, e)
  PROVE  SameProbability(w, j, kstep, pass, h, e)
<1>0. w \in 0..3 /\ j \in 0..31 /\ kstep \in 0..3 /\ pass \in 0..1 /\ h \in 0..1 /\ e \in 0..3
  BY DEF IsTerm
<1> DEFINE m == j + 32 * w
           x == Term(kstep, pass, h, e)
           f == 4 * pass + e
<1>1. m \div 32 = w /\ m % 32 = j
  BY <1>0
<1>2. f \in 0..7 /\ 2 * (f \div 2) + (f % 2) = f
  BY <1>0
<1> HIDE DEF f, m
<1>3. x = 16 * kstep + (8 * h + f)
  BY <1>0 DEF Term, f
<1> HIDE DEF x
<1>4. x % 16 = 8 * h + f /\ x \div 16 = kstep
  BY <1>0, <1>2, <1>3
<1>5. (x % 16 < 8) <=> h = 0
  BY <1>0, <1>2, <1>4
<1>6. (x - 8 * h) % 8 = f
  BY <1>0, <1>2, <1>3
<1> DEFINE k_sub == IF x % 16 < 8 THEN 0 ELSE 1
<1>7. k_sub = h
  BY <1>0, <1>5
<1>8. get_p(m, x) = <<(m \div 32) * 64 + k_sub * 32 + (m % 32), (x \div 16) * 8 + ((x - 8 * k_sub) % 8)>>
  BY DEF get_p
<1> HIDE DEF k_sub
<1>9. get_p(m, x) = <<w * 64 + h * 32 + j, kstep * 8 + f>>
  BY <1>0, <1>1, <1>4, <1>6, <1>7, <1>8
<1>10. 2 * (kstep * 4 + f \div 2) + (f % 2) = kstep * 8 + f
  BY <1>0, <1>2
<1>11. w * 64 + h * 32 + j = w * 64 + (j + 32 * h)
  BY <1>0
<1>12. get_p(m, x) = <<w * 64 + (j + 32 * h), 2 * (kstep * 4 + f \div 2) + (f % 2)>>
  BY <1>9, <1>10, <1>11
<1> QED BY <1>12 DEF m, x, f, SameProbability

\* Sums of products that are all the same terms, less those with a zero.
LEMMA PvSum ==
  ASSUME NEW m, NEW col, NEW sum, \A p0 : p0 \in sum <=> \E x \in 0..63 : p0 = <<get_p(m, x), VKey(x, col)>>
  PROVE  NonZero(sum) = {<<get_p(m, n), <<n, col>>>> : n \in {x \in 0..63 : x < case.seqlen_k}}
<1>1. \A x : get_p(m, x) # Zero /\ <<x, col>> # Zero
  BY DEF Zero, get_p
<1> DEFINE X(x) == <<get_p(m, x), VKey(x, col)>>
           Y(x) == <<get_p(m, x), <<x, col>>>>
           short == {x \in 0..63 : x < case.seqlen_k}
<1>2. ASSUME NEW x \in 0..63
      PROVE  /\ x < case.seqlen_k => X(x) = Y(x) /\ Zero \notin {X(x)[1], X(x)[2]}
             /\ ~ (x < case.seqlen_k) => Zero \in {X(x)[1], X(x)[2]}
  <2>1. X(x)[1] = get_p(m, x) /\ X(x)[2] = VKey(x, col)
    OBVIOUS
  <2> QED BY <1>1, <2>1 DEF VKey
<1> HIDE DEF X, Y
<1>3. NonZero(sum) = {p0 \in sum : Zero \notin {p0[1], p0[2]}}
  BY DEF NonZero
<1>4. \A p0 : p0 \in sum <=> \E x \in 0..63 : p0 = X(x)
  BY DEF X
<1>5. NonZero(sum) = {Y(x) : x \in short}
  <2>1. ASSUME NEW p0 \in NonZero(sum) PROVE p0 \in {Y(x) : x \in short}
    <3>1. PICK x \in 0..63 : p0 = X(x) /\ Zero \notin {X(x)[1], X(x)[2]}
      BY <1>3, <1>4
    <3>2. x < case.seqlen_k
      BY <1>2, <3>1
    <3>3. p0 = Y(x) /\ x \in short
      BY <1>2, <3>1, <3>2
    <3> QED BY <3>3
  <2>2. ASSUME NEW x \in short PROVE Y(x) \in NonZero(sum)
    <3>1. x \in 0..63 /\ x < case.seqlen_k
      OBVIOUS
    <3>2. X(x) = Y(x) /\ Zero \notin {X(x)[1], X(x)[2]}
      BY <1>2, <3>1
    <3>3. X(x) \in sum
      BY <1>4, <3>1
    <3> QED BY <1>3, <3>2, <3>3
  <2> QED BY <2>1, <2>2
<1> QED BY <1>5 DEF Y

\* The registers of the PV kernel are the oracle's.
LEMMA PvIsOracle ==
  ASSUME BlockInv, Done, case.kernel = "pv_gemm", NEW tid \in 0..255, NEW register \in 0..31
  PROVE  PvRegister(tid, register) = ref_pv_gemm(case, tid, register)
<1> DEFINE w == tid \div 64
           d == register \div 16
           lane == tid % 64
           r == register % 16
           prob(kstep, l, e) == <<w * 64 + l, 2 * (kstep * 4 + e \div 2) + (e % 2)>>
           v(kstep, l, e) ==
             LET seqk_abs == kstep * 16 + (l \div 32) * 8
                 v_buf    == IF seqk_abs < 32 THEN kVLdsBufBase ELSE kVLdsBufBase + 2304
             IN  ElementIn(seen[w], v_buf + pv_v_lds_offset(seqk_abs % 32, (l % 32) + 32 * d) + e)
           A(kstep, pass) == [l \in Lanes |-> [e \in 0..3 |-> v(kstep, l, 4 * pass + e)]]
           B(kstep, pass) == [l \in Lanes |-> [e \in 0..3 |-> prob(kstep, l, 4 * pass + e)]]
           i == FreeRow(lane, r)
           j == lane % 32
           m == ref_m_row(tid)
           n_col == ref_n_col(tid, register)
           col == component_swz(n_col)
           sum == UNION {Mfma(A(kstep, pass), B(kstep, pass), lane, r) : kstep \in 0..3, pass \in 0..1}
<1>1. PvRegister(tid, register) = NonZero(sum)
  BY DEF PvRegister
<1>2. /\ w \in 0..3 /\ lane \in 0..63 /\ j \in 0..31 /\ i \in 0..31 /\ d \in 0..1
      /\ col = i + 32 * d
  <2>1. RegisterIs(tid, register, w, j, i, d, n_col)
    BY RegisterFacts
  <2> HIDE DEF w, d, j, i, n_col
  <2> QED BY <2>1 DEF RegisterIs, lane
<1>3. m = j + 32 * w
  BY DEF ref_m_row
<1>4. case \in Cases /\ seen[w] = AllArrived
  BY <1>2 DEF BlockInv, Done, Warps
<1> HIDE DEF w, d, lane, i, j, m, col, r, n_col
<1>5. ASSUME NEW kstep \in 0..3, NEW pass \in 0..1, NEW h \in 0..1, NEW e \in 0..3
      PROVE  A(kstep, pass)[i + 32 * h][e] = VKey(Term(kstep, pass, h, e), col)
  <2> DEFINE l == i + 32 * h
  <2>1. l \in Lanes /\ l % 32 = i /\ l \div 32 = h
    BY <1>2, LaneDigits
  <2> HIDE DEF l
  <2>2. A(kstep, pass)[l][e] = v(kstep, l, 4 * pass + e)
    BY <2>1
  <2>3. v(kstep, l, 4 * pass + e)
        = LET seqk_abs == kstep * 16 + h * 8
              v_buf    == IF seqk_abs < 32 THEN kVLdsBufBase ELSE kVLdsBufBase + 2304
          IN  ElementIn(AllArrived, v_buf + pv_v_lds_offset(seqk_abs % 32, col) + (4 * pass + e))
    <3> DEFINE f == 4 * pass + e
               read(seqk_abs, c) ==
                 LET v_buf == IF seqk_abs < 32 THEN kVLdsBufBase ELSE kVLdsBufBase + 2304
                 IN  ElementIn(seen[w], v_buf + pv_v_lds_offset(seqk_abs % 32, c) + f)
    <3> HIDE DEF f
    <3>1. v(kstep, l, f) = read(kstep * 16 + (l \div 32) * 8, (l % 32) + 32 * d)
      OBVIOUS
    <3>2. kstep * 16 + (l \div 32) * 8 = kstep * 16 + h * 8 /\ (l % 32) + 32 * d = col
      BY <1>2, <2>1
    <3> HIDE DEF read, v
    <3>3. v(kstep, l, f) = read(kstep * 16 + h * 8, col)
      BY <3>1, <3>2
    <3> QED BY <1>4, <3>3 DEF read, f
  <2> HIDE DEF A, v
  <2>4. col \in 0..63
    BY <1>2
  <2>5. LET seqk_abs == kstep * 16 + h * 8
            v_buf    == IF seqk_abs < 32 THEN kVLdsBufBase ELSE kVLdsBufBase + 2304
        IN  ElementIn(AllArrived, v_buf + pv_v_lds_offset(seqk_abs % 32, col) + (4 * pass + e))
            = VKey(Term(kstep, pass, h, e), col)
    BY <1>4, <2>4, VRead
  <2> QED BY <2>2, <2>3, <2>5 DEF l
<1>6. ASSUME NEW kstep \in 0..3, NEW pass \in 0..1, NEW h \in 0..1, NEW e \in 0..3
      PROVE  B(kstep, pass)[j + 32 * h][e] = get_p(m, Term(kstep, pass, h, e))
  <2> DEFINE l == j + 32 * h
  <2>1. l \in Lanes
    BY <1>2, LaneDigits
  <2> HIDE DEF l
  <2>2. B(kstep, pass)[l][e] = prob(kstep, l, 4 * pass + e)
    BY <2>1
  <2>3. get_p(j + 32 * w, Term(kstep, pass, h, e))
        = <<w * 64 + (j + 32 * h), 2 * (kstep * 4 + (4 * pass + e) \div 2) + ((4 * pass + e) % 2)>>
    <3>1. IsTerm(w, j, kstep, pass, h, e)
      BY <1>2 DEF IsTerm
    <3>2. SameProbability(w, j, kstep, pass, h, e)
      BY <3>1, ProbabilityOfTerm
    <3> QED BY <3>2 DEF SameProbability
  <2>4. prob(kstep, l, 4 * pass + e)
        = <<w * 64 + (j + 32 * h), 2 * (kstep * 4 + (4 * pass + e) \div 2) + ((4 * pass + e) % 2)>>
    BY DEF l
  <2> HIDE DEF B, prob
  <2> QED BY <1>3, <2>2, <2>3, <2>4 DEF l
<1> HIDE DEF A, B, prob, v
<1>7. ASSUME NEW kstep \in 0..3, NEW pass \in 0..1
      PROVE  Mfma(A(kstep, pass), B(kstep, pass), lane, r)
             = {<<get_p(m, Term(kstep, pass, h, e)), VKey(Term(kstep, pass, h, e), col)>> : h \in 0..1, e \in 0..3}
  <2>1. Mfma(A(kstep, pass), B(kstep, pass), lane, r)
        = {<<B(kstep, pass)[j + 32 * h][e], A(kstep, pass)[i + 32 * h][e]>> : h \in 0..1, e \in 0..3}
    BY DEF Mfma, Halves, FreeRow, i, j
  <2> DEFINE X(h, e) == <<B(kstep, pass)[j + 32 * h][e], A(kstep, pass)[i + 32 * h][e]>>
             Y(h, e) == <<get_p(m, Term(kstep, pass, h, e)), VKey(Term(kstep, pass, h, e), col)>>
  <2>2. \A h \in 0..1, e \in 0..3 : X(h, e) = Y(h, e)
    BY <1>5, <1>6
  <2> HIDE DEF X, Y
  <2>3. {X(h, e) : h \in 0..1, e \in 0..3} = {Y(h, e) : h \in 0..1, e \in 0..3}
    BY <2>2
  <2> QED BY <2>1, <2>3 DEF X, Y
<1>8. ASSUME NEW p0
      PROVE  p0 \in sum <=> \E x \in 0..63 : p0 = <<get_p(m, x), VKey(x, col)>>
  <2>1. p0 \in sum <=> \E kstep \in 0..3, pass \in 0..1 : p0 \in Mfma(A(kstep, pass), B(kstep, pass), lane, r)
    OBVIOUS
  <2> DEFINE Y(x) == <<get_p(m, x), VKey(x, col)>>
  <2> HIDE DEF Y, sum
  <2>2. \A kstep \in 0..3, pass \in 0..1 :
          p0 \in Mfma(A(kstep, pass), B(kstep, pass), lane, r)
            <=> \E h \in 0..1, e \in 0..3 : p0 = Y(Term(kstep, pass, h, e))
    BY <1>7 DEF Y
  <2>3. p0 \in sum <=> \E kstep \in 0..3, pass \in 0..1, h \in 0..1, e \in 0..3 : p0 = Y(Term(kstep, pass, h, e))
    BY <2>1, <2>2
  <2>4. p0 \in sum <=> \E x \in 0..63 : p0 = Y(x)
    <3>1. ASSUME NEW x \in 0..63, p0 = Y(x)
          PROVE  p0 \in sum
      <4>1. PICK kstep \in 0..3, pass \in 0..1, h \in 0..1, e \in 0..3 : x = Term(kstep, pass, h, e)
        BY TermDigits
      <4> QED BY <2>3, <3>1, <4>1
    <3>2. ASSUME p0 \in sum
          PROVE  \E x \in 0..63 : p0 = Y(x)
      <4>1. PICK kstep \in 0..3, pass \in 0..1, h \in 0..1, e \in 0..3 : p0 = Y(Term(kstep, pass, h, e))
        BY <2>3, <3>2
      <4>2. Term(kstep, pass, h, e) \in 0..63
        BY TermDigits
      <4> QED BY <4>1, <4>2
    <3> QED BY <3>1, <3>2
  <2> QED BY <2>4 DEF Y
<1> HIDE DEF sum
<1>9. NonZero(sum) = {<<get_p(m, n), <<n, col>>>> : n \in {x \in 0..63 : x < case.seqlen_k}}
  BY <1>8, PvSum
<1> QED BY <1>1, <1>9 DEF ref_pv_gemm, m, col, n_col

\* The invariant of the block implies the second property.
LEMMA GemmFollows == BlockInv => GemmIsOracle
<1> SUFFICES ASSUME BlockInv, Done, NEW tid \in Tids, NEW r \in 0..31
             PROVE  /\ case.kernel = "qk_gemm" => QkRegister(tid, r) = ref_qk_gemm(case, tid, r)
                    /\ case.kernel = "pv_gemm" => PvRegister(tid, r) = ref_pv_gemm(case, tid, r)
  BY DEF GemmIsOracle
<1>1. tid \in 0..255
  BY CaseAssumption
<1> QED BY <1>1, QkIsOracle, PvIsOracle

-----------------------------------------------------------------------------
(* The fused kernel                                                        *)

\* The images of a half of K and of V are those TileLayout is about.
LEMMA SameImages == KImage = Tile!KImage /\ VImage = Tile!VImage
  BY DEF KImage, Tile!KImage, VImage, Tile!VImage, Image, Tile!Image, KCopyBytes, Tile!KCopyBytes,
         VStoreBytes, Tile!VStoreBytes, VLoad, Tile!VLoad, Perm, Tile!Perm, kPermSel0, Tile!kPermSel0,
         kPermSel1, Tile!kPermSel1, lds_offset, Tile!lds_offset, Warps, Tile!Warps, Lanes, Tile!Lanes

\* The elements of a staged half, seen from here.
LEMMA KElementAt ==
  ASSUME NEW a \in DOMAIN KImage, a % 2 = 0
  PROVE  \E row \in 0..63, col \in 0..31 :
           /\ lds_elem_offset(row, col) \in Nat /\ a = 2 * lds_elem_offset(row, col)
           /\ ElementAt(KImage, a) = <<row, col>>
<1>1. \A x : ElementAt(KImage, x) = Tile!ElementAt(Tile!KImage, x)
  BY SameImages DEF ElementAt, Tile!ElementAt
<1>2. \A x, y : lds_elem_offset(x, y) = Tile!lds_elem_offset(x, y)
  BY DEF lds_elem_offset, Tile!lds_elem_offset
<1>3. a \in DOMAIN Tile!KImage
  BY SameImages
<1>4. PICK row \in 0..63, col \in 0..31 : Tile!IsKElement(a, row, col)
  BY <1>3, Tile!KImageIs
<1> QED BY <1>1, <1>2, <1>4 DEF Tile!IsKElement

\* Likewise of V.
LEMMA VElementAt ==
  ASSUME NEW a \in DOMAIN VImage, a % 2 = 0
  PROVE  \E row \in 0..31, col \in 0..63 :
           /\ v_lds_elem_offset(row, col) \in Nat /\ a = 2 * v_lds_elem_offset(row, col)
           /\ ElementAt(VImage, a) = <<row, col>>
<1>1. \A x : ElementAt(VImage, x) = Tile!ElementAt(Tile!VImage, x)
  BY SameImages DEF ElementAt, Tile!ElementAt
<1>2. \A x, y : v_lds_elem_offset(x, y) = Tile!v_lds_elem_offset(x, y)
  BY DEF v_lds_elem_offset, Tile!v_lds_elem_offset
<1>3. a \in DOMAIN Tile!VImage
  BY SameImages
<1>4. PICK row \in 0..31, col \in 0..63 : Tile!IsVElement(a, row, col)
  BY <1>3, Tile!VImageIs
<1> QED BY <1>1, <1>2, <1>4 DEF Tile!IsVElement

\* Both halves of K lie in one buffer after the other.
LEMMA HalvesOfK ==
  ASSUME NEW row \in 0..63, NEW col \in 0..31, NEW chunk \in 0..1
  PROVE  chunk * 2304 + lds_elem_offset(row, col) = k_lds_offset_elems(row, col + chunk * 32)
<1> DEFINE at == (row % 4) * 136 + ((row \div 4) % 4) * 32 + (row \div 16) * 544
           d  == col + chunk * 32
<1>1. at \in Int /\ col % 32 = col /\ col \div 32 = 0 /\ d % 32 = col /\ d \div 32 = chunk
  OBVIOUS
<1> HIDE DEF d
<1>2. lds_elem_offset(row, col) = at + (col % 32) + (col \div 32) * 2304
  BY DEF lds_elem_offset
<1>3. k_lds_offset_elems(row, d) = at + (d % 32) + (d \div 32) * 2304
  BY DEF k_lds_offset_elems
<1> HIDE DEF at
<1>4. chunk * 2304 + lds_elem_offset(row, col) = k_lds_offset_elems(row, d)
  BY <1>1, <1>2, <1>3
<1> QED BY <1>4 DEF d

\* A full tile of K lies where the fused kernel puts it.
LEMMA KLiesAsFused ==
  ASSUME BlockInv, Done, case.kernel = "k_lds", case.kv_offset + 64 <= case.seqlen_k,
         NEW chunk \in 0..1, NEW a \in DOMAIN KImage, a % 2 = 0
  PROVE  Dumped(chunk * 2304 + a \div 2)
         = <<case.kv_offset + ElementAt(KImage, a)[1], ElementAt(KImage, a)[2] + chunk * 32>>
<1>1. case \in Cases /\ KOff = case.kv_offset
  BY DEF BlockInv, KOff
<1>2. KOff \in Nat /\ case.seqlen_k \in Nat
  BY <1>1, CaseIs
<1>3. PICK row \in 0..63, col \in 0..31 :
        /\ lds_elem_offset(row, col) \in Nat /\ a = 2 * lds_elem_offset(row, col)
        /\ ElementAt(KImage, a) = <<row, col>>
  BY KElementAt
<1> DEFINE d == col + chunk * 32
           e == k_lds_offset_elems(row, d)
<1>4. d \in 0..63 /\ KOff + row < case.seqlen_k
  BY <1>1, <1>2
<1>5. chunk * 2304 + a \div 2 = e
  <2>1. a \div 2 = lds_elem_offset(row, col)
    BY <1>3
  <2> QED BY <2>1, HalvesOfK
<1> HIDE DEF d
<1>6. ElementIn(AllArrived, e) = <<KOff + row, d>>
  BY <1>1, <1>4, KHeld
<1>7. e \in Nat
  <2>1. PICK x \in 0..31, b \in 0..1 : IsKHalf(row, d, x, b)
    BY <1>4, KHalf
  <2> QED BY <2>1 DEF IsKHalf
<1> HIDE DEF e
<1>8. Dumped(e) = <<KOff + row, d>>
  BY <1>6, <1>7, DumpedIs
<1>9. ElementAt(KImage, a)[1] = row /\ ElementAt(KImage, a)[2] = col
  BY <1>3
<1> QED BY <1>1, <1>5, <1>8, <1>9 DEF d

\* A full slice of V lies where the fused kernel puts it.
LEMMA VLiesAsFused ==
  ASSUME BlockInv, Done, case.kernel = "v_lds", case.kv_offset + 64 <= case.seqlen_k,
         NEW a \in DOMAIN VImage, a % 2 = 0
  PROVE  Dumped(kVLdsBufBase + a \div 2)
         = <<case.kv_offset + ElementAt(VImage, a)[1], ElementAt(VImage, a)[2]>>
<1>1. /\ case \in Cases /\ Slices = {0} /\ VTile.kv_offset = case.kv_offset /\ VTile.seqlen_k = case.seqlen_k
      /\ VTile.kv_offset \in Nat /\ VTile.seqlen_k \in Nat
  BY VTileIs DEF BlockInv, Slices
<1>2. PICK row \in 0..31, col \in 0..63 :
        /\ v_lds_elem_offset(row, col) \in Nat /\ a = 2 * v_lds_elem_offset(row, col)
        /\ ElementAt(VImage, a) = <<row, col>>
  BY VElementAt
<1>3. v_lds_elem_offset(row, col) = v_lds_offset_elems(row, col)
  BY DEF v_lds_elem_offset, v_lds_offset_elems
<1>4. kVLdsBufBase + a \div 2 = VPlace(0, row, col) /\ VPlace(0, row, col) \in Nat
  <2>1. a \div 2 = v_lds_elem_offset(row, col)
    BY <1>2
  <2> QED BY <1>3, <2>1, VPlaceOfSlice0
<1>5. ElementIn(AllArrived, VPlace(0, row, col)) = VValue(VTile, 32 * 0 + row, col)
  BY <1>1, VHeld
<1>6. 32 * 0 + row = row /\ VTile.kv_offset + row < VTile.seqlen_k
  BY <1>1
<1>7. Dumped(VPlace(0, row, col)) = <<case.kv_offset + row, col>>
  BY <1>1, <1>4, <1>5, <1>6, DumpedIs DEF VValue
<1>8. ElementAt(VImage, a)[1] = row /\ ElementAt(VImage, a)[2] = col
  BY <1>2
<1> QED BY <1>4, <1>7, <1>8

\* One element of a buffer lies where it should.
LiesAt(image, a, first, col0, base) ==
  Dumped(base + a \div 2) = <<first + ElementAt(image, a)[1], ElementAt(image, a)[2] + col0>>

\* The invariant of the block implies the third property.
LEMMA StagingFollows == BlockInv => StagesLikeFusedKernel
<1>1. ASSUME BlockInv, Done, case.kv_offset + 64 <= case.seqlen_k, case.kernel = "v_lds",
             NEW a \in DOMAIN VImage, a % 2 = 0
      PROVE  LiesAt(VImage, a, case.kv_offset, 0, kVLdsBufBase)
  <2>1. PICK row \in 0..31, col \in 0..63 : ElementAt(VImage, a) = <<row, col>>
    BY <1>1, VElementAt
  <2>2. ElementAt(VImage, a)[2] + 0 = ElementAt(VImage, a)[2]
    BY <2>1
  <2> QED BY <1>1, <2>2, VLiesAsFused DEF LiesAt
<1>2. ASSUME BlockInv, Done, case.kv_offset + 64 <= case.seqlen_k, case.kernel = "k_lds",
             NEW chunk \in 0..1, NEW a \in DOMAIN KImage, a % 2 = 0
      PROVE  LiesAt(KImage, a, case.kv_offset, chunk * 32, chunk * 2304)
  BY <1>2, KLiesAsFused DEF LiesAt
<1>3. StagesLikeFusedKernel <=>
        LET full == Done /\ case.kv_offset + 64 <= case.seqlen_k
        IN  /\ full /\ case.kernel = "k_lds" =>
                 \A chunk \in 0..1 : \A a \in {x \in DOMAIN KImage : x % 2 = 0} :
                   LiesAt(KImage, a, case.kv_offset, chunk * 32, chunk * 2304)
            /\ full /\ case.kernel = "v_lds" =>
                 \A a \in {x \in DOMAIN VImage : x % 2 = 0} :
                   LiesAt(VImage, a, case.kv_offset, 0, kVLdsBufBase)
  BY Zenon DEF StagesLikeFusedKernel, LiesAt
<1> QED BY <1>1, <1>2, <1>3

-----------------------------------------------------------------------------
(* The lanes of a row                                                      *)

\* The row that is followed is that of lane l of wave w.
IsRowThread(w, l) == tid0 = 64 * w + l
IsRowPlace(h, w, l) ==
  /\ Row!TidOf(h) = 64 * w + 32 * h + l /\ Row!TidOf(h) \in 0..255
  /\ Row!TidOf(h) % 64 = 32 * h + l /\ Row!TidOf(h) \div 64 = w
  /\ (Row!TidOf(h) % 64) \div 32 = h /\ (Row!TidOf(h) % 64) % 32 = l

\* A thread of a lower half that may be followed.
LEMMA RowThread ==
  ASSUME tid0 \in RowTids
  PROVE  \E w \in 0..3, l \in 0..31 : IsRowThread(w, l)
<1>1. tid0 \in 0..255 /\ tid0 % 64 < 32
  BY RowAssumption
<1> QED BY <1>1 DEF IsRowThread

\* The digits of the two threads of the row.
LEMMA RowPlaces ==
  ASSUME NEW w \in 0..3, NEW l \in 0..31, IsRowThread(w, l), NEW h \in 0..1
  PROVE  IsRowPlace(h, w, l)
<1>1. Row!TidOf(h) = 64 * w + 32 * h + l
  BY DEF IsRowThread, Row!TidOf
<1> DEFINE t == Row!TidOf(h)
<1> HIDE DEF t
<1>2. t = 64 * w + (32 * h + l) /\ 32 * h + l \in 0..63
  BY <1>1 DEF t
<1>3. t % 64 = 32 * h + l /\ t \div 64 = w /\ t \in 0..255
  BY <1>2
<1>4. (32 * h + l) \div 32 = h /\ (32 * h + l) % 32 = l
  OBVIOUS
<1> QED BY <1>1, <1>3, <1>4 DEF t, IsRowPlace

\* The other half of the row's lanes is the partner the exchange reads: the
\* rotation by 32 lanes stays within the wave and the byte index does not wrap
\* past it.
LEMMA ExchangeReadsOtherHalf ==
  ASSUME NEW w \in 0..3, NEW l \in 0..31, IsRowThread(w, l), NEW h \in 0..1, NEW values
  PROVE  Row!bpermute(Row!partner(h), values) = values[1 - h]
<1> DEFINE t == Row!TidOf(h)
           s == Row!partner(h)
           lane == ((s * 4) % 256) \div 4
<1>1. t = 64 * w + 32 * h + l /\ t % 64 = 32 * h + l
  <2>1. IsRowPlace(h, w, l)
    BY RowPlaces
  <2> QED BY <2>1 DEF IsRowPlace
<1>2. s = (t - (t % 64)) + (((t % 64) + 32) % 64)
  BY DEF Row!partner
<1>3. (32 * h + l + 32) % 64 = 32 * (1 - h) + l
  <2>1. CASE h = 0
    BY <2>1
  <2>2. CASE h = 1
    BY <2>2
  <2> QED BY <2>1, <2>2
<1> HIDE DEF t
<1>4. s = 64 * w + 32 * (1 - h) + l
  BY <1>1, <1>2, <1>3
<1> HIDE DEF s
<1>5. (s * 4) % 256 = 4 * (32 * (1 - h) + l)
  BY <1>4
<1>6. lane = 32 * (1 - h) + l
  BY <1>5
<1>7. lane % 32 = l /\ lane \div 32 = 1 - h
  <2> HIDE DEF lane
  <2>1. CASE h = 0
    BY <1>6, <2>1
  <2>2. CASE h = 1
    BY <1>6, <2>2
  <2> QED BY <2>1, <2>2
<1>8. tid0 % 32 = l
  BY DEF IsRowThread
<1> QED BY <1>7, <1>8, Zenon DEF Row!bpermute, lane, s

\* The threads that own the row are those two.
LEMMA RowOwners ==
  ASSUME NEW w \in 0..3, NEW l \in 0..31, IsRowThread(w, l), NEW t \in 0..255
  PROVE  Row!RowOfTid(t) = l + 32 * w <=> \E h \in 0..1 : t = Row!TidOf(h)
<1>1. PICK v \in 0..3, g \in 0..1, k \in 0..31 : t = 64 * v + 32 * g + k
  <2>1. PICK v \in 0..3, x \in 0..63 : t = 64 * v + x
    <3>1. t \div 64 \in 0..3 /\ t % 64 \in 0..63
      OBVIOUS
    <3>2. t = 64 * (t \div 64) + (t % 64)
      OBVIOUS
    <3> QED BY <3>1, <3>2
  <2>2. PICK g \in 0..1, k \in 0..31 : x = 32 * g + k
    <3>1. x \div 32 \in 0..1 /\ x % 32 \in 0..31
      OBVIOUS
    <3>2. x = 32 * (x \div 32) + (x % 32)
      OBVIOUS
    <3> QED BY <3>1, <3>2
  <2>3. t = 64 * v + 32 * g + k
    BY <2>1, <2>2
  <2> QED BY <2>3
<1>2. t % 64 = 32 * g + k /\ t \div 64 = v /\ (32 * g + k) % 32 = k
  BY <1>1
<1>3. Row!RowOfTid(t) = k + 32 * v
  BY <1>2 DEF Row!RowOfTid
<1>4. k + 32 * v = l + 32 * w <=> k = l /\ v = w
  OBVIOUS
<1>5. \A h \in 0..1 : Row!TidOf(h) = 64 * w + 32 * h + l
  <2>1. \A h \in 0..1 : IsRowPlace(h, w, l)
    BY RowPlaces
  <2> QED BY <2>1 DEF IsRowPlace
<1>6. \A h \in 0..1 : t = Row!TidOf(h) <=> k = l /\ v = w /\ g = h
  BY <1>1, <1>5
<1> QED BY <1>3, <1>4, <1>6

-----------------------------------------------------------------------------
(* The invariant of the row kernels                                        *)

RowLabels == {"load", "exchange_max", "exp", "exchange_sum", "normalize", "store", "done"}

\* What each variable holds from the step on that sets it.
RowLocal   == [h \in Row!Halves |-> {<<Row!TidOf(h), r>> : r \in Row!Kept(h)}]
RowMaximum == [h \in Row!Halves |-> RowLocal[h] \cup RowLocal[1 - h]]
RowP       == [h \in Row!Halves |-> [r \in Row!Regs32 |->
                 IF r \in Row!Kept(h) THEN <<<<Row!TidOf(h), r>>, RowMaximum[h]>> ELSE Row!Nothing]]
RowTerms   == [h \in Row!Halves |-> {RowP[h][r] : r \in Row!Regs32} \ {Row!Nothing}]
RowSum     == [h \in Row!Halves |-> RowTerms[h] \cup RowTerms[1 - h]]
RowOutput  == [h \in Row!Halves |-> [r \in Row!Regs32 |->
                 IF row_case.rsum_is_zero THEN Row!Nothing ELSE <<Row!TidOf(h), r>>]]
RowDump    == [x \in {Row!TidOf(h) : h \in Row!Halves} \X Row!Regs32 |->
                 RowOutput[(x[1] % 64) \div 32][x[2]]]
RowStores  == {<<<<Row!m_row, Row!d_col(x[1], x[2]) + x[3]>>, RowOutput[x[1]][x[2] * 4 + x[3]]>> :
                 x \in Row!Halves \X (0..7) \X (0..3)}

\* Which kernels reach which step, and what has been computed by then.
RowInv ==
  /\ row_case \in RowCases /\ tid0 \in RowTids /\ step \in RowLabels
  /\ step \in {"normalize", "store"} => row_case.kernel = "epilog"
  /\ step \in {"load", "exchange_max", "exp", "exchange_sum"} => row_case.kernel # "epilog"
  /\ step \in {"exp", "exchange_sum"} => row_case.kernel = "softmax"
  /\ step \in {"exchange_max", "exp", "exchange_sum"} => local_max = RowLocal
  /\ step \in {"exp", "exchange_sum", "done"} /\ row_case.kernel # "epilog" => rmax = RowMaximum
  /\ step \in {"exchange_sum", "done"} /\ row_case.kernel = "softmax" => p = RowP
  /\ step = "done" /\ row_case.kernel = "softmax" => rsum = RowSum
  /\ step = "normalize" => o_dram = << >>
  /\ step = "store" => o_norm = RowOutput /\ Row!m_row < row_case.seqlen_q
  /\ step \in {"store", "done"} /\ row_case.kernel = "epilog" /\ row_case.dump => o_final = RowDump
  /\ step = "done" /\ row_case.kernel = "epilog" =>
       o_dram = IF Row!m_row < row_case.seqlen_q THEN Row!Image(RowStores) ELSE << >>

\* The kernel of a case is one of three.
LEMMA RowCaseIs ==
  ASSUME row_case \in RowCases
  PROVE  /\ row_case.kernel \in {"row_max", "softmax", "epilog"}
         /\ row_case.seqlen_q \in Nat /\ row_case.seqlen_k \in Nat /\ row_case.kv_offset \in Nat
         /\ row_case.dump \in BOOLEAN
  BY RowAssumption

\* The invariant holds when a block starts.
LEMMA RowStart == Row!Init => RowInv
<1> SUFFICES ASSUME Row!Init PROVE RowInv
  OBVIOUS
<1>1. /\ row_case \in RowCases /\ tid0 \in RowTids /\ o_dram = << >>
      /\ step = IF row_case.kernel = "epilog" THEN "normalize" ELSE "load"
  BY DEF Row!Init
<1> QED BY <1>1 DEF RowInv, RowLabels

\* The row is in the sequence or it is padding.
LEMMA RowIsNat ==
  ASSUME tid0 \in RowTids
  PROVE  Row!m_row \in Nat
<1>1. PICK w \in 0..3, l \in 0..31 : IsRowThread(w, l)
  BY RowThread
<1>2. tid0 % 64 = l /\ tid0 \div 64 = w
  BY <1>1 DEF IsRowThread
<1> QED BY <1>2 DEF Row!m_row

\* What the exchanges of maxima and of sums compute.
LEMMA ExchangeIs ==
  ASSUME tid0 \in RowTids, NEW values
  PROVE  [h \in Row!Halves |-> values[h] \cup Row!bpermute(Row!partner(h), values)]
         = [h \in Row!Halves |-> values[h] \cup values[1 - h]]
<1>1. PICK w \in 0..3, l \in 0..31 : IsRowThread(w, l)
  BY RowThread
<1>2. \A h \in 0..1 : Row!bpermute(Row!partner(h), values) = values[1 - h]
  BY <1>1, ExchangeReadsOtherHalf
<1> QED BY <1>2 DEF Row!Halves

\* A step that keeps the case and the thread keeps what is derived from them.
LEMMA RowFixed ==
  ASSUME row_case' = row_case, tid0' = tid0
  PROVE  /\ RowLocal' = RowLocal /\ RowMaximum' = RowMaximum /\ RowP' = RowP /\ RowSum' = RowSum
         /\ RowOutput' = RowOutput /\ RowDump' = RowDump /\ RowStores' = RowStores
         /\ Row!m_row' = Row!m_row
<1>1. \A h : Row!TidOf(h)' = Row!TidOf(h) /\ Row!Kept(h)' = Row!Kept(h)
  BY DEF Row!TidOf, Row!Kept
<1>2. RowLocal' = RowLocal
  BY <1>1 DEF RowLocal
<1>3. RowMaximum' = RowMaximum
  BY <1>2 DEF RowMaximum
<1>4. RowP' = RowP
  BY <1>1, <1>3 DEF RowP
<1>5. RowSum' = RowSum
  BY <1>4 DEF RowSum, RowTerms
<1>6. RowOutput' = RowOutput
  BY <1>1 DEF RowOutput
<1>7. RowDump' = RowDump
  BY <1>1, <1>6 DEF RowDump
<1>8. Row!m_row' = Row!m_row
  BY DEF Row!m_row
<1>9. RowStores' = RowStores
  BY <1>6, <1>8 DEF RowStores
<1> QED BY <1>2, <1>3, <1>4, <1>5, <1>6, <1>7, <1>8, <1>9

\* So does a step that leaves the row alone keep the invariant.
LEMMA RowKept == RowInv /\ UNCHANGED row_vars => RowInv'
<1> SUFFICES ASSUME RowInv, UNCHANGED row_vars PROVE RowInv'
  OBVIOUS
<1>1. /\ row_case' = row_case /\ tid0' = tid0 /\ step' = step /\ local_max' = local_max
      /\ rmax' = rmax /\ p' = p /\ rsum' = rsum
      /\ o_norm' = o_norm /\ o_final' = o_final /\ o_dram' = o_dram
  BY DEF row_vars
<1>2. /\ RowLocal' = RowLocal /\ RowMaximum' = RowMaximum /\ RowP' = RowP /\ RowSum' = RowSum
      /\ RowOutput' = RowOutput /\ RowDump' = RowDump /\ RowStores' = RowStores
      /\ Row!m_row' = Row!m_row
  BY <1>1, RowFixed
<1>3. Row!Image(RowStores)' = Row!Image(RowStores)
  BY <1>2 DEF Row!Image
<1> QED BY <1>1, <1>2, <1>3 DEF RowInv, RowLabels

\* Every step keeps the invariant.
LEMMA RowInvStep == RowInv /\ Row!Next => RowInv'
<1> SUFFICES ASSUME RowInv, Row!Next PROVE RowInv'
  OBVIOUS
<1>0. /\ row_case \in RowCases /\ tid0 \in RowTids
      /\ row_case.kernel \in {"row_max", "softmax", "epilog"}
  BY RowCaseIs DEF RowInv
<1> DEFINE Keeps == row_case' = row_case /\ tid0' = tid0
<1>1. CASE Row!LocalMax
  <2>1. Keeps /\ step = "load" /\ step' = "exchange_max" /\ local_max' = RowLocal
    BY <1>1, Zenon DEF Row!LocalMax, RowLocal
  <2>2. RowLocal' = RowLocal /\ row_case.kernel # "epilog"
    BY <2>1, RowFixed DEF RowInv
  <2> QED BY <1>0, <2>1, <2>2 DEF RowInv, RowLabels
<1>2. CASE Row!ExchangeMax
  <2>1. /\ Keeps /\ step = "exchange_max" /\ local_max' = local_max
        /\ step' = IF row_case.kernel = "row_max" THEN "done" ELSE "exp"
        /\ rmax' = [h \in Row!Halves |-> local_max[h] \cup Row!bpermute(Row!partner(h), local_max)]
    BY <1>2, Zenon DEF Row!ExchangeMax
  <2>2. local_max = RowLocal /\ row_case.kernel # "epilog"
    BY <2>1 DEF RowInv
  <2>3. rmax' = [h \in Row!Halves |-> local_max[h] \cup local_max[1 - h]]
    BY <1>0, <2>1, ExchangeIs
  <2>4. rmax' = RowMaximum
    BY <2>2, <2>3 DEF RowMaximum
  <2>5. RowLocal' = RowLocal /\ RowMaximum' = RowMaximum
    BY <2>1, RowFixed
  <2> QED BY <1>0, <2>1, <2>2, <2>4, <2>5 DEF RowInv, RowLabels
<1>3. CASE Row!Exp
  <2>1. /\ Keeps /\ step = "exp" /\ step' = "exchange_sum" /\ local_max' = local_max /\ rmax' = rmax
        /\ p' = [h \in Row!Halves |-> [r \in Row!Regs32 |->
             IF r \in Row!Kept(h) THEN <<<<Row!TidOf(h), r>>, rmax[h]>> ELSE Row!Nothing]]
    BY <1>3, Zenon DEF Row!Exp
  <2>2. row_case.kernel = "softmax" /\ local_max = RowLocal /\ rmax = RowMaximum
    BY <2>1 DEF RowInv
  <2>3. p' = RowP
    BY <2>1, <2>2, Zenon DEF RowP
  <2>4. RowLocal' = RowLocal /\ RowMaximum' = RowMaximum /\ RowP' = RowP
    BY <2>1, RowFixed
  <2> QED BY <1>0, <2>1, <2>2, <2>3, <2>4 DEF RowInv, RowLabels
<1>4. CASE Row!ExchangeSum
  <2>1. /\ Keeps /\ step = "exchange_sum" /\ step' = "done" /\ rmax' = rmax /\ p' = p
        /\ rsum' = [h \in Row!Halves |->
                      Row!local_sum[h] \cup Row!bpermute(Row!partner(h), Row!local_sum)]
    BY <1>4, Zenon DEF Row!ExchangeSum
  <2>2. row_case.kernel = "softmax" /\ rmax = RowMaximum /\ p = RowP
    BY <2>1 DEF RowInv
  <2>3. Row!local_sum = RowTerms
    BY <2>2, Zenon DEF Row!local_sum, RowTerms
  <2>4. rsum' = [h \in Row!Halves |-> Row!local_sum[h] \cup Row!local_sum[1 - h]]
    BY <1>0, <2>1, ExchangeIs
  <2>5. rsum' = RowSum
    BY <2>3, <2>4 DEF RowSum
  <2>6. RowMaximum' = RowMaximum /\ RowP' = RowP /\ RowSum' = RowSum
    BY <2>1, RowFixed
  <2> QED BY <1>0, <2>1, <2>2, <2>5, <2>6 DEF RowInv, RowLabels
<1>5. CASE Row!Normalize
  <2>1. /\ Keeps /\ step = "normalize" /\ o_dram' = o_dram
        /\ step' = IF Row!m_row >= row_case.seqlen_q THEN "done" ELSE "store"
        /\ o_norm' = RowOutput
    BY <1>5, Zenon DEF Row!Normalize, RowOutput
  <2>2. row_case.dump => o_final' = RowDump
    <3>1. row_case.dump => o_final' = [x \in {Row!TidOf(h) : h \in Row!Halves} \X Row!Regs32 |->
                                         o_norm'[(x[1] % 64) \div 32][x[2]]]
      BY <1>5, Zenon DEF Row!Normalize
    <3> QED BY <2>1, <3>1, Zenon DEF RowDump
  <2>3. row_case.kernel = "epilog" /\ o_dram = << >>
    BY <2>1 DEF RowInv
  <2>4. /\ RowOutput' = RowOutput /\ RowDump' = RowDump /\ RowStores' = RowStores
        /\ Row!m_row' = Row!m_row
    BY <2>1, RowFixed
  <2>5. Row!m_row >= row_case.seqlen_q <=> ~(Row!m_row < row_case.seqlen_q)
    BY <1>0, RowIsNat, RowCaseIs
  <2>6. CASE Row!m_row < row_case.seqlen_q
    <3>1. step' = "store"
      BY <2>1, <2>5, <2>6
    <3> QED BY <1>0, <2>1, <2>2, <2>3, <2>4, <2>6, <3>1 DEF RowInv, RowLabels
  <2>7. CASE ~(Row!m_row < row_case.seqlen_q)
    <3>1. step' = "done"
      BY <2>1, <2>5, <2>7
    <3> QED BY <1>0, <2>1, <2>2, <2>3, <2>4, <2>7, <3>1 DEF RowInv, RowLabels
  <2> QED BY <2>6, <2>7
<1>6. CASE Row!Store
  <2>1. /\ Keeps /\ step = "store" /\ step' = "done" /\ o_final' = o_final
        /\ o_dram' = Row!Image({<<<<Row!m_row, Row!d_col(x[1], x[2]) + x[3]>>,
                                   o_norm[x[1]][x[2] * 4 + x[3]]>> :
                                  x \in Row!Halves \X (0..7) \X (0..3)})
    BY <1>6, Zenon DEF Row!Store
  <2>2. /\ row_case.kernel = "epilog" /\ o_norm = RowOutput /\ Row!m_row < row_case.seqlen_q
        /\ row_case.dump => o_final = RowDump
    BY <2>1 DEF RowInv
  <2>3. o_dram' = Row!Image(RowStores)
    BY <2>1, <2>2, Zenon DEF RowStores
  <2>4. /\ RowDump' = RowDump /\ RowStores' = RowStores /\ Row!m_row' = Row!m_row
        /\ Row!Image(RowStores)' = Row!Image(RowStores)
    <3>1. RowDump' = RowDump /\ RowStores' = RowStores /\ Row!m_row' = Row!m_row
      BY <2>1, RowFixed
    <3>2. Row!Image(RowStores)' = Row!Image(RowStores)
      BY <3>1 DEF Row!Image
    <3> QED BY <3>1, <3>2
  <2> QED BY <1>0, <2>1, <2>2, <2>3, <2>4 DEF RowInv, RowLabels
<1>7. CASE Row!Finished
  BY <1>7, RowKept, Zenon DEF Row!Finished, Row!vars, row_vars
<1> QED BY <1>1, <1>2, <1>3, <1>4, <1>5, <1>6, <1>7 DEF Row!Next

-----------------------------------------------------------------------------
(* The reductions of a row agree with their oracles                        *)

\* A register's column does not depend on whether the kernel or the oracle
\* computes it.
LEMMA RowColumn ==
  ASSUME NEW w \in 0..3, NEW l \in 0..31, IsRowThread(w, l), NEW h \in 0..1, NEW r
  PROVE  Row!softmax_n_col(Row!TidOf(h), r) = Row!NominalColumn(h, r)
<1>1. (Row!TidOf(h) % 64) \div 32 = h
  BY RowPlaces DEF IsRowPlace
<1> QED BY <1>1 DEF Row!softmax_n_col, Row!NominalColumn

\* The thread the softmax oracle combines with is the other half.
LEMMA OracleReadsOtherHalf ==
  ASSUME NEW w \in 0..3, NEW l \in 0..31, IsRowThread(w, l), NEW h \in 0..1
  PROVE  (Row!TidOf(h) - (Row!TidOf(h) % 64)) + (((Row!TidOf(h) % 64) + 32) % 64) = Row!TidOf(1 - h)
<1>1. h = 0 \/ h = 1
  OBVIOUS
<1>2. /\ Row!TidOf(h) = 64 * w + 32 * h + l /\ Row!TidOf(h) % 64 = 32 * h + l
      /\ Row!TidOf(1 - h) = 64 * w + 32 * (1 - h) + l
  <2>1. 1 - h \in 0..1
    BY <1>1
  <2>2. IsRowPlace(h, w, l) /\ IsRowPlace(1 - h, w, l)
    BY <2>1, RowPlaces
  <2> QED BY <2>2 DEF IsRowPlace
<1>3. CASE h = 0
  <2>1. (32 * h + l + 32) % 64 = 32 + l
    BY <1>3
  <2> QED BY <1>2, <1>3, <2>1
<1>4. CASE h = 1
  <2>1. (32 * h + l + 32) % 64 = l
    BY <1>4
  <2> QED BY <1>2, <1>4, <2>1
<1> QED BY <1>1, <1>3, <1>4

\* row_max: the maximum is over all the registers of all the row's threads.
LEMMA RowMaxIsOracle ==
  ASSUME RowInv, step = "done", row_case.kernel = "row_max", NEW h \in 0..1
  PROVE  rmax[h] = Row!ref_row_max(Row!TidOf(h))
<1>1. PICK w \in 0..3, l \in 0..31 : IsRowThread(w, l)
  BY RowThread DEF RowInv
<1>2. \A g \in 0..1 : Row!TidOf(g) \in 0..255 /\ Row!RowOfTid(Row!TidOf(g)) = l + 32 * w
  <2>1. \A g \in 0..1 : Row!TidOf(g) \in 0..255
    BY <1>1, RowPlaces DEF IsRowPlace
  <2> QED BY <1>1, <2>1, RowOwners
<1>3. {t \in 0..255 : Row!RowOfTid(t) = Row!RowOfTid(Row!TidOf(h))} = {Row!TidOf(h), Row!TidOf(1 - h)}
  <2>1. \A t \in 0..255 : Row!RowOfTid(t) = Row!RowOfTid(Row!TidOf(h)) <=> \E g \in 0..1 : t = Row!TidOf(g)
    <3>1. \A t \in 0..255 : Row!RowOfTid(t) = l + 32 * w <=> \E g \in 0..1 : t = Row!TidOf(g)
      BY <1>1, RowOwners
    <3> QED BY <1>2, <3>1
  <2>2. \A g \in 0..1 : g = h \/ g = 1 - h
    OBVIOUS
  <2>3. 1 - h \in 0..1
    OBVIOUS
  <2> QED BY <1>2, <2>1, <2>2, <2>3
<1>4. \A g : Row!Kept(g) = Row!Regs32
  BY DEF Row!Kept
<1>5. /\ rmax = RowMaximum /\ 1 - h \in Row!Halves /\ h \in Row!Halves
  BY DEF RowInv, Row!Halves
<1>6. rmax[h] = {<<Row!TidOf(h), r>> : r \in Row!Regs32} \cup {<<Row!TidOf(1 - h), r>> : r \in Row!Regs32}
  BY <1>4, <1>5 DEF RowMaximum, RowLocal
<1>7. Row!ref_row_max(Row!TidOf(h)) = {Row!TidOf(h), Row!TidOf(1 - h)} \X Row!Regs32
  BY <1>3, Zenon DEF Row!ref_row_max
<1> QED BY <1>6, <1>7

\* softmax: maximum, probabilities and sum.
LEMMA SoftmaxIsOracle ==
  ASSUME RowInv, step = "done", row_case.kernel = "softmax", NEW h \in 0..1
  PROVE  [rmax |-> rmax[h], p |-> p[h], rsum |-> rsum[h]] = Row!ref_softmax(Row!TidOf(h))
<1>1. PICK w \in 0..3, l \in 0..31 : IsRowThread(w, l)
  BY RowThread DEF RowInv
<1> DEFINE tid   == Row!TidOf(h)
           other == (tid - (tid % 64)) + (((tid % 64) + 32) % 64)
           unmasked(t) == {r \in Row!Regs32 :
                             ~(Row!softmax_n_col(t, r) >= row_case.seqlen_k - row_case.kv_offset)}
           max == {<<t, r>> : t \in {tid, other}, r \in Row!Regs32} \cap
                    (({tid} \X unmasked(tid)) \cup ({other} \X unmasked(other)))
           p_of(t, r) == IF r \in unmasked(t) THEN <<<<t, r>>, max>> ELSE Row!Nothing
           sum == {p_of(t, r) : t \in {tid, other}, r \in Row!Regs32} \ {Row!Nothing}
<1>2. Row!ref_softmax(tid) = [rmax |-> max, p |-> [r \in Row!Regs32 |-> p_of(tid, r)], rsum |-> sum]
  BY SMTT(30) DEF Row!ref_softmax
<1>3. other = Row!TidOf(1 - h)
  BY <1>1, OracleReadsOtherHalf
<1> HIDE DEF other
<1>4. h \in Row!Halves /\ 1 - h \in Row!Halves /\ 1 - (1 - h) = h
  BY DEF Row!Halves
<1>5. \A g \in 0..1 : unmasked(Row!TidOf(g)) = Row!Kept(g)
  <2>1. row_case.seqlen_k - row_case.kv_offset \in Int
    BY RowCaseIs DEF RowInv
  <2>2. \A g \in 0..1, r \in Row!Regs32 :
          /\ Row!softmax_n_col(Row!TidOf(g), r) = Row!NominalColumn(g, r)
          /\ Row!NominalColumn(g, r) \in Int
    <3>1. \A g \in 0..1, r \in Row!Regs32 : Row!NominalColumn(g, r) \in Int
      BY DEF Row!NominalColumn, Row!Regs32
    <3> QED BY <1>1, <3>1, RowColumn
  <2> QED BY <2>1, <2>2 DEF Row!Kept
<1>6. unmasked(tid) = Row!Kept(h) /\ unmasked(other) = Row!Kept(1 - h)
  BY <1>4, <1>5, <1>3 DEF Row!Halves
<1>7. max = RowLocal[h] \cup RowLocal[1 - h]
  <2>1. /\ RowLocal[h] = {<<tid, r>> : r \in Row!Kept(h)}
        /\ RowLocal[1 - h] = {<<other, r>> : r \in Row!Kept(1 - h)}
    BY <1>4, <1>3 DEF RowLocal
  <2>2. Row!Kept(h) \subseteq Row!Regs32 /\ Row!Kept(1 - h) \subseteq Row!Regs32
    BY DEF Row!Kept
  <2> HIDE DEF tid, other, unmasked
  <2> QED BY <1>6, <2>1, <2>2
<1>8. max = RowMaximum[h] /\ max = RowMaximum[1 - h]
  BY <1>4, <1>7 DEF RowMaximum
<1> HIDE DEF max, unmasked
<1>9. rmax = RowMaximum /\ p = RowP /\ rsum = RowSum
  BY DEF RowInv
<1>10. /\ RowP[h] = [r \in Row!Regs32 |-> p_of(tid, r)]
      /\ RowP[1 - h] = [r \in Row!Regs32 |-> p_of(other, r)]
  BY <1>4, <1>6, <1>8, <1>3 DEF RowP
<1>11. RowSum[h] = sum
  <2>1. /\ RowTerms[h] = {p_of(tid, r) : r \in Row!Regs32} \ {Row!Nothing}
        /\ RowTerms[1 - h] = {p_of(other, r) : r \in Row!Regs32} \ {Row!Nothing}
    BY <1>4, <1>10 DEF RowTerms
  <2>2. RowSum[h] = RowTerms[h] \cup RowTerms[1 - h]
    BY <1>4 DEF RowSum
  <2>3. {p_of(t, r) : t \in {tid, other}, r \in Row!Regs32}
        = {p_of(tid, r) : r \in Row!Regs32} \cup {p_of(other, r) : r \in Row!Regs32}
    <3> HIDE DEF p_of, tid, other
    <3> QED OBVIOUS
  <2> HIDE DEF p_of, tid, other
  <2> QED BY <2>1, <2>2, <2>3
<1> HIDE DEF sum, p_of
<1>12. rmax[h] = max /\ p[h] = [r \in Row!Regs32 |-> p_of(tid, r)] /\ rsum[h] = sum
  BY <1>8, <1>9, <1>10, <1>11
<1> QED BY <1>2, <1>12

\* The invariant of the row implies the fourth property.
LEMMA ReductionsFollow == RowInv => RowReductionsAreOracle
<1>1. ASSUME RowInv, step = "done", NEW h \in 0..1
      PROVE  /\ row_case.kernel = "row_max" => rmax[h] = Row!ref_row_max(Row!TidOf(h))
             /\ row_case.kernel = "softmax" =>
                  [rmax |-> rmax[h], p |-> p[h], rsum |-> rsum[h]] = Row!ref_softmax(Row!TidOf(h))
  BY <1>1, RowMaxIsOracle, SoftmaxIsOracle
<1> QED BY <1>1, Zenon DEF RowReductionsAreOracle, Row!RowReductionsAreOracle, Row!Halves

-----------------------------------------------------------------------------
(* The epilogue agrees with its oracle                                     *)

\* The column of half h's register r: the groups of four of the two halves
\* alternate.
RowCol(h, r) == 16 * (r \div 8) + 8 * ((r \div 4) % 2) + 4 * h + (r % 4)

\* Register 8 * a + 4 * b + e is element e of group 2 * a + b.
IsGroupElement(r, a, b, e) ==
  /\ r = (2 * a + b) * 4 + e
  /\ r \div 8 = a /\ (r \div 4) % 2 = b /\ r % 4 = e /\ r % 8 = 4 * b + e

\* The digits of a register.
LEMMA RegisterOfGroup ==
  ASSUME NEW a \in 0..3, NEW b \in 0..1, NEW e \in 0..3, NEW r, r = (2 * a + b) * 4 + e
  PROVE  r \in 0..31 /\ IsGroupElement(r, a, b, e)
<1>1. r = 8 * a + 4 * b + e /\ r \in 0..31
  OBVIOUS
<1>2. r \div 8 = a /\ r % 8 = 4 * b + e
  BY <1>1
<1>3. r \div 4 = 2 * a + b /\ r % 4 = e /\ (2 * a + b) % 2 = b
  BY <1>1
<1> QED BY <1>1, <1>2, <1>3 DEF IsGroupElement

\* Every register has such digits.
LEMMA GroupOfRegister ==
  ASSUME NEW r \in 0..31
  PROVE  \E a \in 0..3, b \in 0..1, e \in 0..3 : IsGroupElement(r, a, b, e)
<1>1. PICK g \in 0..7, e \in 0..3 : r = g * 4 + e
  <2>1. r \div 4 \in 0..7 /\ r % 4 \in 0..3
    OBVIOUS
  <2>2. r = (r \div 4) * 4 + (r % 4)
    OBVIOUS
  <2> QED BY <2>1, <2>2
<1>2. PICK a \in 0..3, b \in 0..1 : g = 2 * a + b
  <2>1. g \div 2 \in 0..3 /\ g % 2 \in 0..1
    OBVIOUS
  <2>2. g = 2 * (g \div 2) + (g % 2)
    OBVIOUS
  <2> QED BY <2>1, <2>2
<1>3. r = (2 * a + b) * 4 + e
  BY <1>1, <1>2
<1> QED BY <1>3, RegisterOfGroup

\* The oracle swizzles each column, the kernel the first of each four: both come
\* to RowCol.
LEMMA ColumnsAgree ==
  ASSUME NEW h \in 0..1, NEW a \in 0..3, NEW b \in 0..1, NEW e \in 0..3, NEW r,
         IsGroupElement(r, a, b, e)
  PROVE  /\ Row!epilog_swz(Row!NominalColumn(h, r)) = RowCol(h, r)
         /\ Row!d_col(h, 2 * a + b) + e = RowCol(h, r)
<1>1. RowCol(h, r) = 16 * a + 8 * b + 4 * h + e
  BY DEF RowCol, IsGroupElement
<1>2. Row!epilog_swz(Row!NominalColumn(h, r)) = 16 * a + 8 * b + 4 * h + e
  <2> DEFINE x == 16 * a + 8 * h + 4 * b + e
  <2>1. Row!NominalColumn(h, r) = x
    BY DEF Row!NominalColumn, IsGroupElement
  <2>2. x \div 4 = 2 * (2 * a + h) + b /\ x \div 8 = 2 * a + h /\ x \in Int
    OBVIOUS
  <2>3. (2 * (2 * a + h) + b) % 2 = b /\ (2 * a + h) % 2 = h
    OBVIOUS
  <2> HIDE DEF x
  <2>4. Row!epilog_swz(x) = x + 4 * b - 4 * h
    BY <2>2, <2>3 DEF Row!epilog_swz
  <2> QED BY <2>1, <2>4 DEF x
<1>3. Row!d_col(h, 2 * a + b) = 16 * a + 8 * b + 4 * h
  <2> DEFINE x == 16 * a + 8 * h + 4 * b
             y == (2 * a + b) * 4
  <2>1. Row!NominalColumn(h, y) = x
    <3>1. y = 8 * a + 4 * b
      OBVIOUS
    <3>2. y \div 8 = a /\ y % 8 = 4 * b
      BY <3>1
    <3> HIDE DEF y
    <3> QED BY <3>2 DEF Row!NominalColumn
  <2>2. x \div 4 = 2 * (2 * a + h) + b /\ x \div 8 = 2 * a + h /\ x \in Int
    OBVIOUS
  <2>3. (2 * (2 * a + h) + b) % 2 = b /\ (2 * a + h) % 2 = h
    OBVIOUS
  <2>4. x % 16 = 8 * h + 4 * b /\ x % 4 = 0
    OBVIOUS
  <2> HIDE DEF x
  <2>5. Row!swz(x) = (x - (8 * h + 4 * b)) + b * 8 + h * 4
    BY <2>2, <2>3, <2>4 DEF Row!swz
  <2>6. Row!d_col(h, 2 * a + b) = Row!swz(x)
    BY <2>1 DEF Row!d_col
  <2> QED BY <2>5, <2>6 DEF x
<1> QED BY <1>1, <1>2, <1>3

\* No two registers of the row share a column.
LEMMA RowColInjective ==
  ASSUME NEW h1 \in 0..1, NEW r1 \in 0..31, NEW h2 \in 0..1, NEW r2 \in 0..31,
         RowCol(h1, r1) = RowCol(h2, r2)
  PROVE  h1 = h2 /\ r1 = r2
<1>1. PICK a1 \in 0..3, b1 \in 0..1, e1 \in 0..3 : IsGroupElement(r1, a1, b1, e1)
  BY GroupOfRegister
<1>2. PICK a2 \in 0..3, b2 \in 0..1, e2 \in 0..3 : IsGroupElement(r2, a2, b2, e2)
  BY GroupOfRegister
<1>3. 16 * a1 + 8 * b1 + 4 * h1 + e1 = 16 * a2 + 8 * b2 + 4 * h2 + e2
  BY <1>1, <1>2 DEF RowCol, IsGroupElement
<1>4. a1 = a2 /\ b1 = b2 /\ h1 = h2 /\ e1 = e2
  BY <1>3
<1> QED BY <1>1, <1>2, <1>4 DEF IsGroupElement

\* Element e of group g as half h stores it, and the register it comes from.
StoreOf(h, g, e) == <<<<Row!m_row, Row!d_col(h, g) + e>>, RowOutput[h][g * 4 + e]>>
StoreAt(h, r)    == <<<<Row!m_row, RowCol(h, r)>>, RowOutput[h][r]>>

\* Each store is that of one register.
LEMMA StoreOfGroup ==
  ASSUME NEW h \in 0..1, NEW g \in 0..7, NEW e \in 0..3
  PROVE  \E r \in 0..31 : StoreOf(h, g, e) = StoreAt(h, r)
<1>1. PICK a \in 0..3, b \in 0..1 : g = 2 * a + b
  <2>1. g \div 2 \in 0..3 /\ g % 2 \in 0..1
    OBVIOUS
  <2>2. g = 2 * (g \div 2) + (g % 2)
    OBVIOUS
  <2> QED BY <2>1, <2>2
<1> DEFINE r == (2 * a + b) * 4 + e
<1>2. r \in 0..31 /\ IsGroupElement(r, a, b, e) /\ r = g * 4 + e
  BY <1>1, RegisterOfGroup
<1> HIDE DEF r
<1>3. Row!d_col(h, g) + e = RowCol(h, r)
  BY <1>1, <1>2, ColumnsAgree
<1>4. StoreOf(h, g, e) = StoreAt(h, r)
  BY <1>2, <1>3 DEF StoreOf, StoreAt
<1> QED BY <1>2, <1>4

\* Each register is stored.
LEMMA StoreOfRegister ==
  ASSUME NEW h \in 0..1, NEW r \in 0..31
  PROVE  \E g \in 0..7, e \in 0..3 : StoreOf(h, g, e) = StoreAt(h, r)
<1>1. PICK a \in 0..3, b \in 0..1, e \in 0..3 : IsGroupElement(r, a, b, e)
  BY GroupOfRegister
<1> DEFINE g == 2 * a + b
<1>2. Row!d_col(h, g) + e = RowCol(h, r)
  BY <1>1, ColumnsAgree
<1>3. g \in 0..7 /\ r = g * 4 + e
  BY <1>1 DEF IsGroupElement
<1> HIDE DEF g
<1>4. StoreOf(h, g, e) = StoreAt(h, r)
  BY <1>2, <1>3 DEF StoreOf, StoreAt
<1> QED BY <1>3, <1>4

\* What the stores of the two lanes are: one for every register.
LEMMA RowStoresAre == \A s : s \in RowStores <=> \E h \in 0..1, r \in 0..31 : s = StoreAt(h, r)
<1>1. RowStores = {StoreOf(x[1], x[2], x[3]) : x \in (0..1) \X (0..7) \X (0..3)}
  BY Zenon DEF RowStores, StoreOf, Row!Halves
<1>2. \A s : s \in RowStores <=> \E h \in 0..1, g \in 0..7, e \in 0..3 : s = StoreOf(h, g, e)
  <2>1. ASSUME NEW s \in RowStores
        PROVE  \E h \in 0..1, g \in 0..7, e \in 0..3 : s = StoreOf(h, g, e)
    <3>1. PICK x \in (0..1) \X (0..7) \X (0..3) : s = StoreOf(x[1], x[2], x[3])
      BY <1>1, <2>1
    <3>2. x[1] \in 0..1 /\ x[2] \in 0..7 /\ x[3] \in 0..3
      OBVIOUS
    <3> QED BY <3>1, <3>2
  <2>2. ASSUME NEW h \in 0..1, NEW g \in 0..7, NEW e \in 0..3
        PROVE  StoreOf(h, g, e) \in RowStores
    <3>1. PICK x \in (0..1) \X (0..7) \X (0..3) : x = <<h, g, e>>
      BY <2>2
    <3>2. StoreOf(x[1], x[2], x[3]) = StoreOf(h, g, e)
      BY <3>1
    <3>3. StoreOf(x[1], x[2], x[3]) \in RowStores
      BY <1>1
    <3> QED BY <3>2, <3>3
  <2> QED BY <2>1, <2>2
<1>3. ASSUME NEW s, s \in RowStores PROVE \E h \in 0..1, r \in 0..31 : s = StoreAt(h, r)
  BY <1>2, <1>3, StoreOfGroup
<1>4. ASSUME NEW h \in 0..1, NEW r \in 0..31 PROVE StoreAt(h, r) \in RowStores
  BY <1>2, StoreOfRegister
<1> QED BY <1>3, <1>4

\* What DRAM holds after them.
LEMMA RowImage ==
  /\ DOMAIN Row!Image(RowStores) = {<<Row!m_row, RowCol(x[1], x[2])>> : x \in (0..1) \X (0..31)}
  /\ \A h \in 0..1, r \in 0..31 : Row!Image(RowStores)[<<Row!m_row, RowCol(h, r)>>] = RowOutput[h][r]
<1>1. Row!Image(RowStores) = [c \in {s[1] : s \in RowStores} |->
                                (CHOOSE s \in RowStores : s[1] = c)[2]]
  BY DEF Row!Image
<1>2. \A h, r : StoreAt(h, r)[1] = <<Row!m_row, RowCol(h, r)>> /\ StoreAt(h, r)[2] = RowOutput[h][r]
  BY DEF StoreAt
<1> DEFINE C(x) == <<Row!m_row, RowCol(x[1], x[2])>>
<1>3. {s[1] : s \in RowStores} = {C(x) : x \in (0..1) \X (0..31)}
  <2>1. ASSUME NEW s \in RowStores PROVE \E x \in (0..1) \X (0..31) : s[1] = C(x)
    <3>1. PICK h \in 0..1, r \in 0..31 : s = StoreAt(h, r)
      BY <2>1, RowStoresAre
    <3>2. s[1] = C(<<h, r>>)
      BY <1>2, <3>1
    <3> QED BY <3>2
  <2>2. ASSUME NEW x \in (0..1) \X (0..31) PROVE \E s \in RowStores : s[1] = C(x)
    <3>1. StoreAt(x[1], x[2]) \in RowStores
      BY <2>2, RowStoresAre
    <3> QED BY <1>2, <3>1
  <2> HIDE DEF C
  <2> QED BY <2>1, <2>2
<1>4. ASSUME NEW h \in 0..1, NEW r \in 0..31
      PROVE  Row!Image(RowStores)[<<Row!m_row, RowCol(h, r)>>] = RowOutput[h][r]
  <2> DEFINE c == <<Row!m_row, RowCol(h, r)>>
  <2>1. StoreAt(h, r) \in RowStores /\ StoreAt(h, r)[1] = c
    BY <1>2, <1>4, RowStoresAre
  <2>2. ASSUME NEW s \in RowStores, s[1] = c PROVE s = StoreAt(h, r)
    <3>1. PICK g \in 0..1, q \in 0..31 : s = StoreAt(g, q)
      BY <2>2, RowStoresAre
    <3>2. RowCol(g, q) = RowCol(h, r)
      BY <1>2, <2>2, <3>1
    <3>3. g = h /\ q = r
      BY <1>4, <3>2, RowColInjective
    <3> QED BY <3>1, <3>3
  <2> HIDE DEF c
  <2>3. (CHOOSE s \in RowStores : s[1] = c) = StoreAt(h, r)
    BY <2>1, <2>2
  <2>4. Row!Image(RowStores)[c] = StoreAt(h, r)[2]
    BY <1>1, <2>1, <2>3
  <2> QED BY <1>2, <2>4 DEF c
<1> QED BY <1>1, <1>3, <1>4

\* What the oracle scatters into a row of the sequence.
LEMMA OracleImage ==
  ASSUME tid0 \in RowTids, Row!m_row < row_case.seqlen_q
  PROVE  /\ DOMAIN Row!ref_epilog(Row!m_row)
              = {<<Row!m_row, RowCol(x[1], x[2])>> : x \in (0..1) \X (0..31)}
         /\ \A h \in 0..1, r \in 0..31 :
              Row!ref_epilog(Row!m_row)[<<Row!m_row, RowCol(h, r)>>]
              = IF row_case.rsum_is_zero THEN Row!Nothing ELSE <<Row!TidOf(h), r>>
<1>1. PICK w \in 0..3, l \in 0..31 : IsRowThread(w, l)
  BY RowThread
<1> DEFINE owned == {x \in (0..255) \X Row!Regs32 :
                       Row!RowOfTid(x[1]) = Row!m_row /\ Row!m_row < row_case.seqlen_q}
           column(x) == Row!epilog_swz(Row!softmax_n_col(x[1], x[2]))
<1>2. Row!ref_epilog(Row!m_row)
      = [c \in {<<Row!m_row, column(x)>> : x \in owned} |->
           IF row_case.rsum_is_zero THEN Row!Nothing ELSE CHOOSE x \in owned : column(x) = c[2]]
  BY Zenon DEF Row!ref_epilog
<1>3. Row!m_row = l + 32 * w
  <2>1. tid0 % 64 = l /\ tid0 \div 64 = w
    BY <1>1 DEF IsRowThread
  <2> QED BY <2>1 DEF Row!m_row
<1>4. \A x : x \in owned <=> \E h \in 0..1, r \in 0..31 : x = <<Row!TidOf(h), r>>
  <2>1. \A t \in 0..255 : Row!RowOfTid(t) = Row!m_row <=> \E h \in 0..1 : t = Row!TidOf(h)
    <3>1. \A t \in 0..255 : Row!RowOfTid(t) = l + 32 * w <=> \E h \in 0..1 : t = Row!TidOf(h)
      BY <1>1, RowOwners
    <3> QED BY <1>3, <3>1
  <2>2. \A h \in 0..1 : Row!TidOf(h) \in 0..255
    BY <1>1, RowPlaces DEF IsRowPlace
  <2> QED BY <2>1, <2>2 DEF Row!Regs32
<1>5. \A h \in 0..1, r \in 0..31 : column(<<Row!TidOf(h), r>>) = RowCol(h, r)
  <2> SUFFICES ASSUME NEW h \in 0..1, NEW r \in 0..31
               PROVE  column(<<Row!TidOf(h), r>>) = RowCol(h, r)
    OBVIOUS
  <2>1. PICK a \in 0..3, b \in 0..1, e \in 0..3 : IsGroupElement(r, a, b, e)
    BY GroupOfRegister
  <2>2. Row!epilog_swz(Row!NominalColumn(h, r)) = RowCol(h, r)
    BY <2>1, ColumnsAgree
  <2>3. Row!softmax_n_col(Row!TidOf(h), r) = Row!NominalColumn(h, r)
    BY <1>1, RowColumn
  <2> QED BY <2>2, <2>3
<1> HIDE DEF owned, column
<1> DEFINE C(x) == <<Row!m_row, RowCol(x[1], x[2])>>
           D(x) == <<Row!m_row, column(x)>>
<1>6. {D(x) : x \in owned} = {C(x) : x \in (0..1) \X (0..31)}
  <2>1. ASSUME NEW y \in owned PROVE \E x \in (0..1) \X (0..31) : D(y) = C(x)
    <3>1. PICK h \in 0..1, r \in 0..31 : y = <<Row!TidOf(h), r>>
      BY <1>4, <2>1
    <3>2. D(y) = C(<<h, r>>)
      BY <1>5, <3>1
    <3> QED BY <3>2
  <2>2. ASSUME NEW x \in (0..1) \X (0..31) PROVE \E y \in owned : D(y) = C(x)
    <3>1. <<Row!TidOf(x[1]), x[2]>> \in owned
      BY <1>4, <2>2
    <3>2. D(<<Row!TidOf(x[1]), x[2]>>) = C(x)
      BY <1>5, <2>2
    <3> QED BY <3>1, <3>2
  <2> HIDE DEF C, D
  <2> QED BY <2>1, <2>2
<1>7. ASSUME NEW h \in 0..1, NEW r \in 0..31
      PROVE  Row!ref_epilog(Row!m_row)[<<Row!m_row, RowCol(h, r)>>]
             = IF row_case.rsum_is_zero THEN Row!Nothing ELSE <<Row!TidOf(h), r>>
  <2> DEFINE c == <<Row!m_row, RowCol(h, r)>>
             x0 == <<Row!TidOf(h), r>>
  <2>1. x0 \in owned /\ column(x0) = c[2] /\ D(x0) = c
    BY <1>4, <1>5, <1>7
  <2>2. ASSUME NEW x \in owned, column(x) = c[2] PROVE x = x0
    <3>1. PICK g \in 0..1, q \in 0..31 : x = <<Row!TidOf(g), q>>
      BY <1>4, <2>2
    <3>2. RowCol(g, q) = RowCol(h, r)
      BY <1>5, <2>2, <3>1
    <3>3. g = h /\ q = r
      BY <1>7, <3>2, RowColInjective
    <3> QED BY <3>1, <3>3
  <2>3. c \in {D(x) : x \in owned}
    BY <2>1
  <2> HIDE DEF c, x0, D
  <2>4. (CHOOSE x \in owned : column(x) = c[2]) = x0
    BY <2>1, <2>2
  <2>5. Row!ref_epilog(Row!m_row)[c] = IF row_case.rsum_is_zero THEN Row!Nothing ELSE x0
    BY <1>2, <2>3, <2>4 DEF D
  <2> QED BY <2>5 DEF c, x0
<1> QED BY <1>2, <1>6, <1>7

\* A padding row gets nothing.
LEMMA OracleOfPadding ==
  ASSUME ~(Row!m_row < row_case.seqlen_q)
  PROVE  Row!ref_epilog(Row!m_row) = << >>
<1> DEFINE owned == {x \in (0..255) \X Row!Regs32 :
                       Row!RowOfTid(x[1]) = Row!m_row /\ Row!m_row < row_case.seqlen_q}
           column(x) == Row!epilog_swz(Row!softmax_n_col(x[1], x[2]))
           value(c) == IF row_case.rsum_is_zero THEN Row!Nothing ELSE CHOOSE x \in owned : column(x) = c[2]
<1>1. Row!ref_epilog(Row!m_row) = [c \in {<<Row!m_row, column(x)>> : x \in owned} |-> value(c)]
  BY Zenon DEF Row!ref_epilog
<1>2. owned = {}
  OBVIOUS
<1> HIDE DEF owned, column, value
<1>3. {<<Row!m_row, column(x)>> : x \in owned} = {}
  BY <1>2
<1> QED BY <1>1, <1>3

\* The optional dump holds every register of both lanes.
LEMMA RowDumpIs ==
  ASSUME tid0 \in RowTids, NEW h \in Row!Halves, NEW r \in Row!Regs32
  PROVE  RowDump[<<Row!TidOf(h), r>>] = IF row_case.rsum_is_zero THEN Row!Nothing ELSE <<Row!TidOf(h), r>>
<1>1. PICK w \in 0..3, l \in 0..31 : IsRowThread(w, l)
  BY RowThread
<1>2. (Row!TidOf(h) % 64) \div 32 = h
  BY <1>1, RowPlaces DEF IsRowPlace, Row!Halves
<1>3. RowDump[<<Row!TidOf(h), r>>] = RowOutput[(Row!TidOf(h) % 64) \div 32][r]
  BY DEF RowDump
<1> QED BY <1>2, <1>3 DEF RowOutput

\* The invariant of the row implies the fifth property.
LEMMA EpilogFollows == RowInv => EpilogIsOracle
<1> SUFFICES ASSUME RowInv, step = "done", row_case.kernel = "epilog"
             PROVE  /\ o_dram = Row!ref_epilog(Row!m_row)
                    /\ row_case.dump => \A h \in Row!Halves, r \in Row!Regs32 :
                         o_final[<<Row!TidOf(h), r>>]
                         = IF row_case.rsum_is_zero THEN Row!Nothing ELSE <<Row!TidOf(h), r>>
  BY Zenon DEF EpilogIsOracle, Row!EpilogIsOracle
<1>1. /\ tid0 \in RowTids
      /\ row_case.dump => o_final = RowDump
      /\ o_dram = IF Row!m_row < row_case.seqlen_q THEN Row!Image(RowStores) ELSE << >>
  BY DEF RowInv
<1>2. row_case.dump => \A h \in Row!Halves, r \in Row!Regs32 :
        o_final[<<Row!TidOf(h), r>>]
        = IF row_case.rsum_is_zero THEN Row!Nothing ELSE <<Row!TidOf(h), r>>
  BY <1>1, RowDumpIs
<1>3. CASE Row!m_row < row_case.seqlen_q
  <2> DEFINE f == Row!Image(RowStores)
             g == Row!ref_epilog(Row!m_row)
             C(x) == <<Row!m_row, RowCol(x[1], x[2])>>
  <2>1. DOMAIN f = {C(x) : x \in (0..1) \X (0..31)} /\ DOMAIN g = {C(x) : x \in (0..1) \X (0..31)}
    BY <1>1, <1>3, RowImage, OracleImage
  <2>2. \A h \in 0..1, r \in 0..31 : f[C(<<h, r>>)] = g[C(<<h, r>>)]
    <3>1. \A h \in 0..1, r \in 0..31 :
            RowOutput[h][r] = IF row_case.rsum_is_zero THEN Row!Nothing ELSE <<Row!TidOf(h), r>>
      BY DEF RowOutput, Row!Halves, Row!Regs32
    <3>2. \A h \in 0..1, r \in 0..31 : f[<<Row!m_row, RowCol(h, r)>>] = RowOutput[h][r]
      BY RowImage
    <3>3. \A h \in 0..1, r \in 0..31 :
            g[<<Row!m_row, RowCol(h, r)>>]
            = IF row_case.rsum_is_zero THEN Row!Nothing ELSE <<Row!TidOf(h), r>>
      BY <1>1, <1>3, OracleImage
    <3> SUFFICES ASSUME NEW h \in 0..1, NEW r \in 0..31
                 PROVE  f[<<Row!m_row, RowCol(h, r)>>] = g[<<Row!m_row, RowCol(h, r)>>]
      OBVIOUS
    <3> DEFINE c == <<Row!m_row, RowCol(h, r)>>
    <3> HIDE DEF f, g, c
    <3>4. f[c] = RowOutput[h][r]
      BY <3>2 DEF c
    <3>5. g[c] = RowOutput[h][r]
      BY <3>1, <3>3 DEF c
    <3> QED BY <3>4, <3>5 DEF c
  <2>3. f = [c \in DOMAIN f |-> f[c]]
    <3>1. \E S, V : f = [c \in S |-> V[c]]
      <4> DEFINE S == {s[1] : s \in RowStores}
                 V == [c \in S |-> (CHOOSE s \in RowStores : s[1] = c)[2]]
      <4>1. f = V
        BY Zenon DEF Row!Image
      <4>2. V = [c \in S |-> V[c]]
        OBVIOUS
      <4> HIDE DEF V, S, f
      <4> QED BY <4>1, <4>2
    <3> HIDE DEF f
    <3> QED BY <3>1
  <2>4. g = [c \in DOMAIN g |-> g[c]]
    <3> DEFINE owned == {x \in (0..255) \X Row!Regs32 :
                           Row!RowOfTid(x[1]) = Row!m_row /\ Row!m_row < row_case.seqlen_q}
               column(x) == Row!epilog_swz(Row!softmax_n_col(x[1], x[2]))
               value(c) == IF row_case.rsum_is_zero THEN Row!Nothing
                           ELSE CHOOSE x \in owned : column(x) = c[2]
    <3>1. g = [c \in {<<Row!m_row, column(x)>> : x \in owned} |-> value(c)]
      BY Zenon DEF Row!ref_epilog
    <3> HIDE DEF g, owned, column, value
    <3> QED BY <3>1
  <2> HIDE DEF f, g
  <2>5. \A c \in DOMAIN f : f[c] = g[c]
    <3> SUFFICES ASSUME NEW c \in DOMAIN f PROVE f[c] = g[c]
      OBVIOUS
    <3>1. PICK x \in (0..1) \X (0..31) : c = C(x)
      BY <2>1
    <3>2. x[1] \in 0..1 /\ x[2] \in 0..31 /\ C(x) = C(<<x[1], x[2]>>)
      OBVIOUS
    <3> HIDE DEF C
    <3> QED BY <2>2, <3>1, <3>2
  <2> HIDE DEF C
  <2>6. f = g
    BY <2>1, <2>3, <2>5, <2>4
  <2> QED BY <1>1, <1>2, <1>3, <2>6 DEF f, g
<1>4. CASE ~(Row!m_row < row_case.seqlen_q)
  BY <1>1, <1>2, <1>4, OracleOfPadding
<1> QED BY <1>3, <1>4

-----------------------------------------------------------------------------
(* The component kernels                                                   *)

\* The family that is not followed stays at the state it starts in, where none of
\* its properties applies; that of a block is kept if its barriers drain stores.
ComponentInv ==
  \/ family = "lds" /\ (SyncDrainsStores => BlockInv) /\ step = "unused"
  \/ family = "row" /\ RowInv /\ pc = [w \in Warps |-> "zero"]

\* It is an invariant of the components' specification.
THEOREM ComponentInvariant == ComponentSpec => []ComponentInv
<1>1. LdsInit \/ RowInit => ComponentInv
  <2>1. LdsInit => ComponentInv
    BY BlockStart DEF LdsInit, ComponentInv
  <2>2. RowInit => ComponentInv
    BY RowStart DEF RowInit, ComponentInv
  <2> QED BY <2>1, <2>2
<1>2. ComponentInv /\ [LdsStep \/ RowStep]_<<family, vars, row_vars>> => ComponentInv'
  <2> SUFFICES ASSUME ComponentInv, [LdsStep \/ RowStep]_<<family, vars, row_vars>>
               PROVE  ComponentInv'
    OBVIOUS
  <2>1. CASE LdsStep
    <3>1. family = "lds" /\ [Next]_vars /\ family' = family /\ UNCHANGED row_vars
      BY <2>1 DEF LdsStep
    <3>2. (SyncDrainsStores => BlockInv) /\ step = "unused" /\ step' = step
      BY <3>1 DEF ComponentInv, row_vars
    <3> QED BY <3>1, <3>2, BlockStep DEF ComponentInv
  <2>2. CASE RowStep
    <3>1. family = "row" /\ Row!Next /\ family' = family /\ UNCHANGED vars
      BY <2>2 DEF RowStep
    <3>2. RowInv /\ pc = [w \in Warps |-> "zero"] /\ pc' = pc
      BY <3>1 DEF ComponentInv, vars
    <3> QED BY <3>1, <3>2, RowInvStep DEF ComponentInv
  <2>3. CASE UNCHANGED <<family, vars, row_vars>>
    <3>1. family' = family /\ UNCHANGED vars /\ UNCHANGED row_vars /\ step' = step /\ pc' = pc
      BY <2>3 DEF vars, row_vars
    <3>2. [Next]_vars
      BY <3>1
    <3> QED BY <3>1, <3>2, BlockStep, RowKept DEF ComponentInv
  <2> QED BY <2>1, <2>2, <2>3
<1> QED BY <1>1, <1>2, PTL DEF ComponentSpec

\* No wave of a block that is not followed is done.
LEMMA IdleBlock ==
  ASSUME pc = [w \in Warps |-> "zero"]
  PROVE  ~Done
<1>1. 0 \in Warps
  BY DEF Warps
<1> QED BY <1>1 DEF Done

\* What the LDS kernels dump is the oracle's image, of full and partial tiles and
\* whatever the order in which the waves zero, stage and dump (k_lds.hpp,
\* v_lds.hpp).
THEOREM DumpedLdsIsOracle ==
  ASSUME SyncDrainsStores
  PROVE  ComponentSpec => []DumpIsOracle
<1>1. ComponentInv => DumpIsOracle
  <2>1. ~Done => DumpIsOracle
    BY DEF DumpIsOracle
  <2> QED BY <2>1, DumpFollows, IdleBlock DEF ComponentInv
<1> QED BY <1>1, ComponentInvariant, PTL

\* Every register of the GEMM kernels is the sum of exactly the oracle's products
\* (qk_gemm.hpp, pv_gemm.hpp).
THEOREM GemmRegistersAreOracle ==
  ASSUME SyncDrainsStores
  PROVE  ComponentSpec => []GemmIsOracle
<1>1. ComponentInv => GemmIsOracle
  <2>1. ~Done => GemmIsOracle
    BY DEF GemmIsOracle
  <2> QED BY <2>1, GemmFollows, IdleBlock DEF ComponentInv
<1> QED BY <1>1, ComponentInvariant, PTL

\* A full tile staged by a component kernel lies where the fused kernel puts it,
\* K and V, in every buffer (k_lds.hpp, v_lds.hpp, op_lds.hpp).
THEOREM ComponentsStageLikeFused ==
  ASSUME SyncDrainsStores
  PROVE  ComponentSpec => []StagesLikeFusedKernel
<1>1. ComponentInv => StagesLikeFusedKernel
  <2>1. ~Done => StagesLikeFusedKernel
    BY Zenon DEF StagesLikeFusedKernel
  <2> QED BY <2>1, StagingFollows, IdleBlock DEF ComponentInv
<1> QED BY <1>1, ComponentInvariant, PTL

\* Both lanes of a row end with the oracle's maximum, probabilities and sum, for
\* every row and however many keys a partial tile masks (row_max.hpp,
\* softmax.hpp).
THEOREM RowReductionsCorrect == ComponentSpec => []RowReductionsAreOracle
<1>1. ComponentInv => RowReductionsAreOracle
  <2>1. step = "unused" => RowReductionsAreOracle
    BY DEF RowReductionsAreOracle, Row!RowReductionsAreOracle
  <2> QED BY <2>1, ReductionsFollow DEF ComponentInv
<1> QED BY <1>1, ComponentInvariant, PTL

\* The epilogue leaves in DRAM, and in the optional dump, what the oracle
\* scatters element by element, and nothing for a padding row (epilog.hpp).
THEOREM EpilogCorrect == ComponentSpec => []EpilogIsOracle
<1>1. ComponentInv => EpilogIsOracle
  <2>1. step = "unused" => EpilogIsOracle
    BY DEF EpilogIsOracle, Row!EpilogIsOracle
  <2> QED BY <2>1, EpilogFollows DEF ComponentInv
<1> QED BY <1>1, ComponentInvariant, PTL
=============================================================================
