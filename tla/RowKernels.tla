----------------------------- MODULE RowKernels -----------------------------
(***************************************************************************)
(* The component kernels that work on the registers of one query row       *)
(* (row_max.hpp, softmax.hpp, epilog.hpp) and their CPU oracles.  A        *)
(* behaviour follows the two lanes of a row, r and r + 32 of a wave, in    *)
(* lockstep.                                                               *)
(*                                                                         *)
(* Numbers are symbols: the score or O_acc element in register r of thread *)
(* tid is <<tid, r>>, a maximum the set of scores it is taken over (none:  *)
(* -INFINITY), a probability its score and maximum, a sum its terms.       *)
(***************************************************************************)
EXTENDS LaneLayout

CONSTANTS
  RowCases,  \* [kernel, seqlen_q, seqlen_k, kv_offset, rsum_is_zero, dump]
  RowTids    \* threads of the lower halves to follow

VARIABLES
  row_case, tid0,     \* what is run, on which row
  step,               \* next statement of both lanes
  local_max, rmax,    \* of lane half h
  p, rsum,
  o_norm,
  o_final, o_dram     \* memory, by <<tid, r>> and by <<row, column>>

vars == <<row_case, tid0, step, local_max, rmax, p, rsum, o_norm, o_final, o_dram>>

Nothing == << >>
Regs32  == 0..31

TidOf(h) == tid0 + 32 * h
m_row    == (tid0 % 64) + 32 * (tid0 \div 64)

-----------------------------------------------------------------------------
(* Lanes and registers                                                     *)

\* Column of register r, before any swizzle.
NominalColumn(h, r) == (r \div 8) * 16 + h * 8 + (r % 8)

\* Mutant of partner: the other half of the next lane.
partnerNext(h) == (TidOf(h) - (TidOf(h) % 64)) + (((TidOf(h) % 64) + 33) % 64)

\* The thread whose lane is the other half, (tid & ~63) | (lane ^ 32).
partner(h) == (TidOf(h) - (TidOf(h) % 64)) + (((TidOf(h) % 64) + 32) % 64)

\* ds_bpermute: the byte index wraps at the 64 lanes of the wave.
bpermute(src, values) ==
  LET lane == ((src * 4) % 256) \div 4
  IN  IF lane % 32 = tid0 % 32 THEN values[lane \div 32] ELSE {Nothing}

\* Registers that keep their score: all of them in row_max.
Kept(h) ==
  {r \in Regs32 : row_case.kernel = "softmax" =>
                    NominalColumn(h, r) < row_case.seqlen_k - row_case.kv_offset}

-----------------------------------------------------------------------------
(* Steps                                                                   *)

None == [h \in Halves |-> {}]

Init ==
  /\ row_case \in RowCases /\ tid0 \in RowTids
  /\ step = IF row_case.kernel = "epilog" THEN "normalize" ELSE "load"
  /\ local_max = None /\ rmax = None /\ rsum = None
  /\ p = [h \in Halves |-> Nothing] /\ o_norm = [h \in Halves |-> Nothing]
  /\ o_final = << >> /\ o_dram = << >>

\* Load, mask and reduce within the lane.
LocalMax ==
  /\ step = "load" /\ step' = "exchange_max"
  /\ local_max' = [h \in Halves |-> {<<TidOf(h), r>> : r \in Kept(h)}]
  /\ UNCHANGED <<row_case, tid0, rmax, p, rsum, o_norm, o_final, o_dram>>

ExchangeMax ==
  /\ step = "exchange_max"
  /\ step' = IF row_case.kernel = "row_max" THEN "done" ELSE "exp"
  /\ rmax' = [h \in Halves |-> local_max[h] \cup bpermute(partner(h), local_max)]
  /\ UNCHANGED <<row_case, tid0, local_max, p, rsum, o_norm, o_final, o_dram>>

\* P of every register, 0 where masked; the sum is taken before truncation.
Exp ==
  /\ step = "exp" /\ step' = "exchange_sum"
  /\ p' = [h \in Halves |-> [r \in Regs32 |->
             IF r \in Kept(h) THEN <<<<TidOf(h), r>>, rmax[h]>> ELSE Nothing]]
  /\ UNCHANGED <<row_case, tid0, local_max, rmax, rsum, o_norm, o_final, o_dram>>

local_sum == [h \in Halves |-> {p[h][r] : r \in Regs32} \ {Nothing}]

ExchangeSum ==
  /\ step = "exchange_sum" /\ step' = "done"
  /\ rsum' = [h \in Halves |-> local_sum[h] \cup bpermute(partner(h), local_sum)]
  /\ UNCHANGED <<row_case, tid0, local_max, rmax, p, o_norm, o_final, o_dram>>

\* O_acc times 1 / RSUM, or times 0; dumped for padding rows too, which then
\* leave.
Normalize ==
  /\ step = "normalize"
  /\ step' = IF m_row >= row_case.seqlen_q THEN "done" ELSE "store"
  /\ o_norm' = [h \in Halves |-> [r \in Regs32 |->
                  IF row_case.rsum_is_zero THEN Nothing ELSE <<TidOf(h), r>>]]
  /\ o_final' = IF row_case.dump
                THEN [x \in {TidOf(h) : h \in Halves} \X Regs32 |->
                        o_norm'[(x[1] % 64) \div 32][x[2]]]
                ELSE o_final
  /\ UNCHANGED <<row_case, tid0, local_max, rmax, p, rsum, o_dram>>

\* Mutant of d_col: the groups of four are not swizzled.
d_colNominal(h, g) == NominalColumn(h, g * 4)

\* Group g of four registers goes to four columns from here on.
d_col(h, g) == swz(NominalColumn(h, g * 4))

Store ==
  /\ step = "store" /\ step' = "done"
  /\ LET stores == {<<<<m_row, d_col(x[1], x[2]) + x[3]>>, o_norm[x[1]][x[2] * 4 + x[3]]>> :
                      x \in Halves \X (0..7) \X (0..3)}
     IN  o_dram' = Image(stores)
  /\ UNCHANGED <<row_case, tid0, local_max, rmax, p, rsum, o_norm, o_final>>

Finished == step = "done" /\ UNCHANGED vars

Next == LocalMax \/ ExchangeMax \/ Exp \/ ExchangeSum \/ Normalize \/ Store \/ Finished

-----------------------------------------------------------------------------
(* The oracles                                                             *)

RowOfTid(tid) == ((tid % 64) % 32) + 32 * (tid \div 64)

\* Scores of all threads that own the row.
ref_row_max(tid) ==
  {t \in 0..255 : RowOfTid(t) = RowOfTid(tid)} \X Regs32

softmax_n_col(tid, r) == (r \div 8) * 16 + ((tid % 64) \div 32) * 8 + (r % 8)

\* rmax, p and rsum of a thread; the partner is read directly.
ref_softmax(tid) ==
  LET other       == (tid - (tid % 64)) + (((tid % 64) + 32) % 64)
      unmasked(t) == {r \in Regs32 :
                        ~(softmax_n_col(t, r) >= row_case.seqlen_k - row_case.kv_offset)}
      max         == {<<t, r>> : t \in {tid, other}, r \in Regs32} \cap
                       (({tid} \X unmasked(tid)) \cup ({other} \X unmasked(other)))
      p_of(t, r)  == IF r \in unmasked(t) THEN <<<<t, r>>, max>> ELSE Nothing
  IN  [rmax |-> max, p |-> [r \in Regs32 |-> p_of(tid, r)],
       rsum |-> {p_of(t, r) : t \in {tid, other}, r \in Regs32} \ {Nothing}]

\* The column of the element in one register, each swizzled by itself, and what
\* the row holds in DRAM.
epilog_swz(x) == x + 4 * ((x \div 4) % 2) - 4 * ((x \div 8) % 2)
ref_epilog(row) ==
  LET owned == {x \in (0..255) \X Regs32 : RowOfTid(x[1]) = row /\ row < row_case.seqlen_q}
      column(x) == epilog_swz(softmax_n_col(x[1], x[2]))
  IN  [c \in {<<row, column(x)>> : x \in owned} |->
         IF row_case.rsum_is_zero THEN Nothing
         ELSE CHOOSE x \in owned : column(x) = c[2]]

-----------------------------------------------------------------------------
(* Properties                                                              *)

\* Both lanes of a row end with the oracle's maximum, probabilities and sum over
\* all 64 keys, however many of them a partial tile masks (row_max.hpp,
\* softmax.hpp).
RowReductionsAreOracle ==
  step = "done" => \A h \in Halves :
    /\ row_case.kernel = "row_max" => rmax[h] = ref_row_max(TidOf(h))
    /\ row_case.kernel = "softmax" =>
         [rmax |-> rmax[h], p |-> p[h], rsum |-> rsum[h]] = ref_softmax(TidOf(h))

\* The epilogue leaves in DRAM what the oracle scatters element by element, once
\* for every column of a row of the sequence and nothing for a padding row; the
\* optional dump is complete in either case (epilog.hpp).
EpilogIsOracle ==
  step = "done" /\ row_case.kernel = "epilog" =>
    /\ o_dram = ref_epilog(m_row)
    /\ row_case.dump => \A h \in Halves, r \in Regs32 :
         o_final[<<TidOf(h), r>>] = IF row_case.rsum_is_zero THEN Nothing ELSE <<TidOf(h), r>>
=============================================================================
