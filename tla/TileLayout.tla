---------------------------- MODULE TileLayout -----------------------------
(***************************************************************************)
(* Where every element of a tile is: the lane, register and byte           *)
(* arithmetic by which one KV tile travels DRAM -> LDS -> MFMA operands -> *)
(* scores -> probabilities -> O registers -> O columns, with the kernel's  *)
(* own constants.  Numbers are symbols: an operand element is the tuple    *)
(* <<row, column>>, an accumulator the set of products summed in it.       *)
(*                                                                         *)
(* A behaviour follows one query row: the lanes r and r + 32 of one wave.  *)
(***************************************************************************)
EXTENDS LaneLayout

CONSTANTS WarpIds, RowLanes  \* waves and rows of a wave to follow (all: 0..3, 0..31)

ASSUME ScopeAssumption == WarpIds \subseteq 0..3 /\ RowLanes \subseteq 0..31

VARIABLES
  warp_id, row_lane,  \* the row followed
  pc,                 \* next statement
  s_acc,              \* s_acc[k_sub][n][r]: products of Q and K in a score
  o_acc,              \* o_acc[k_sub][d][r]: products of P and V
  stored              \* what was stored to each column of the O row

vars == <<warp_id, row_lane, pc, s_acc, o_acc, stored>>

Regs == 0..15

-----------------------------------------------------------------------------
(* The two GEMMs                                                           *)

RowOf(lane) == (lane % 32) + 32 * warp_id

\* q_regs[kstep] of a lane: element e of the 8 it loaded.
QReg(lane, kstep, e) == <<RowOf(lane), kstep * 16 + (lane \div 32) * 8 + e>>

\* gemm0_subtile on headdim half sub: what it adds to s_acc_n<n>[r] of a lane.
Gemm0Products(sub, lane, n, r) ==
  LET K(kstep, pass, l, e) ==
        LET seqk == n * 32 + swz(l % 32)
            d    == kstep * 16 + (l \div 32) * 8
            x    == ElementAt(KImage, (lds_elem_offset(seqk, d) + 4 * pass + e) * 2)
        IN  <<x[1], x[2] + 32 * sub>>
  IN  UNION {LET A == [l \in Lanes |-> [e \in 0..3 |-> K(kstep, pass, l, e)]]
                 B == [l \in Lanes |-> [e \in 0..3 |-> QReg(l, sub * 2 + kstep, 4 * pass + e)]]
             IN  Mfma(A, B, lane, r) : kstep \in 0..1, pass \in 0..1}

\* The probability in a register that held a score: its row and its key.
Probability(cell) == [rows |-> {x[1][1] : x \in cell}, keys |-> {x[2][1] : x \in cell}]

\* gemm1_subtile on rows half sub of V: what it adds to o_acc_d<d>[r] of a lane.
Gemm1Products(sub, lane, d, r) ==
  LET P(l, s, e) == LET u(x) == Probability(s_acc[l \div 32][sub][x])
                        pair == [x \in 0..1 |-> PackTrunc(u(4 * s + 2 * x), u(4 * s + 2 * x + 1))]
                    IN  Unpacked(pair, e)
      V(kstep, pass, l, e) ==
        LET seqk == kstep * 16 + (l \div 32) * 8
            x    == ElementAt(VImage, (v_lds_elem_offset(seqk, (l % 32) + 32 * d) + 4 * pass + e) * 2)
        IN  <<x[1] + 32 * sub, x[2]>>
  IN  UNION {LET A == [l \in Lanes |-> [e \in 0..3 |-> V(kstep, pass, l, e)]]
                 B == [l \in Lanes |-> [e \in 0..3 |-> P(l, kstep * 2 + pass, e)]]
             IN  Mfma(A, B, lane, r) : kstep \in 0..1, pass \in 0..1}

-----------------------------------------------------------------------------

LaneOf(k_sub) == row_lane + 32 * k_sub
Empty == [k_sub \in Halves |-> [h \in Halves |-> [r \in Regs |-> {}]]]

Init ==
  /\ warp_id \in WarpIds /\ row_lane \in RowLanes
  /\ pc = "gemm0_0"
  /\ s_acc = Empty /\ o_acc = Empty
  /\ stored = [col \in {} |-> {}]

Gemm0(sub, from, to) ==
  /\ pc = from /\ pc' = to
  /\ s_acc' = [k_sub \in Halves |-> [n \in Halves |-> [r \in Regs |->
                s_acc[k_sub][n][r] \cup Gemm0Products(sub, LaneOf(k_sub), n, r)]]]
  /\ UNCHANGED <<warp_id, row_lane, o_acc, stored>>

Gemm1(sub, from, to) ==
  /\ pc = from /\ pc' = to
  /\ o_acc' = [k_sub \in Halves |-> [d \in Halves |-> [r \in Regs |->
                o_acc[k_sub][d][r] \cup Gemm1Products(sub, LaneOf(k_sub), d, r)]]]
  /\ UNCHANGED <<warp_id, row_lane, s_acc, stored>>

\* bf16_packed[i] of a lane, and the eight stores of two dwords each.
bf16_packed(k_sub, i) ==
  LET v == o_acc[k_sub][i \div 8]
  IN  PackTrunc(v[2 * (i % 8)], v[2 * (i % 8) + 1])

\* Mutant of StoredBy: the column base is not run through swz.
StoredByUnswizzled(k_sub) ==
  {LET pair == [x \in 0..1 |-> bf16_packed(k_sub, store_idx * 2 + x)]
   IN  <<k_sub * 8 + (store_idx * 16) \div 2 + e, Unpacked(pair, e)>> :
     store_idx \in 0..7, e \in 0..3}

StoredBy(k_sub) ==
  {LET pair == [x \in 0..1 |-> bf16_packed(k_sub, store_idx * 2 + x)]
   IN  <<swz(k_sub * 8) + (store_idx * 16) \div 2 + e, Unpacked(pair, e)>> :
     store_idx \in 0..7, e \in 0..3}

EpilogStore ==
  /\ pc = "epilogue" /\ pc' = "done"
  /\ LET all == StoredBy(0) \cup StoredBy(1)
     IN  stored' = [col \in {x[1] : x \in all} |-> {x[2] : x \in {y \in all : y[1] = col}}]
  /\ UNCHANGED <<warp_id, row_lane, s_acc, o_acc>>

Finished == pc = "done" /\ UNCHANGED vars

Next ==
  \/ Gemm0(0, "gemm0_0", "gemm0_1") \/ Gemm0(1, "gemm0_1", "gemm1_0")
  \/ Gemm1(0, "gemm1_0", "gemm1_1") \/ Gemm1(1, "gemm1_1", "epilogue")
  \/ EpilogStore \/ Finished

Spec == Init /\ [][Next]_vars

-----------------------------------------------------------------------------
(* Properties                                                              *)

m_row == row_lane + 32 * warp_id

\* The column softmax_mask compares with its limit for register i of a lane.
MaskColumn(k_sub, n, i) == k_sub * 8 + (i \div 8) * 16 + (i % 8) + 32 * n

\* When softmax_mask runs, every register holds the whole dot product of the
\* lane's query row with the key whose column the mask tests there: swizzled K
\* reads, padded LDS offsets and the lane mapping of the copies agree.
ScoresAreDotProducts ==
  pc = "gemm1_0" =>
    \A k_sub \in Halves, n \in Halves, i \in Regs :
      s_acc[k_sub][n][i] =
        {<<<<m_row, hd>>, <<MaskColumn(k_sub, n, i), hd>>>> : hd \in 0..63}

\* At the end every column of the O row was stored exactly once, and what was
\* stored is the sum over all 64 keys of the row's probability of the key times
\* the V element of that key and that column: transposition of V, packing of P
\* and O, and the column arithmetic of the stores agree.
OutputIsPTimesV ==
  pc = "done" =>
    stored = [col \in 0..63 |->
                {{<<[rows |-> {m_row}, keys |-> {key}], <<key, col>>>> : key \in 0..63}}]

\* No lane stages or reads a byte outside the buffer it was given, and the
\* three buffers fill the block's LDS.
StaysInItsBuffer ==
  LET inside(addrs) == addrs \subseteq 0..(kSmemBytes - 1)
      reads(k_sub) ==
        LET l == LaneOf(k_sub) IN
        UNION {{(lds_elem_offset(32 * n + swz(l % 32), kstep * 16 + k_sub * 8) + e) * 2 + 1,
                (v_lds_elem_offset(kstep * 16 + k_sub * 8, (l % 32) + 32 * n) + e) * 2 + 1} :
                  n \in Halves, kstep \in 0..1, e \in 0..7}
  IN  /\ \A k_sub \in Halves :
           /\ inside(UNION {{w[1] : w \in KCopyBytes(warp_id, LaneOf(k_sub), issue)} : issue \in 0..3})
           /\ inside({w[1] : w \in VStoreBytes(warp_id, LaneOf(k_sub))})
           /\ inside(reads(k_sub))
      /\ buf_base_bytes(2) + kSmemBytes = kLdsBytes

\* op_gemm.hpp calls this the universal layout of both accumulators: register r
\* of a lane holds element (r/8)*16 + (lane/32)*8 + (r%8) of the free dimension.
UniversalTransposedC ==
  LET free(k_sub, r) == (r \div 8) * 16 + k_sub * 8 + (r % 8)
  IN  pc = "done" =>
        \A k_sub \in Halves, h \in Halves, r \in Regs :
          /\ \A x \in s_acc[k_sub][h][r] : x[2][1] = 32 * h + free(k_sub, r)
          /\ \A x \in o_acc[k_sub][h][r] : x[2][2] = 32 * h + free(k_sub, r)
=============================================================================
