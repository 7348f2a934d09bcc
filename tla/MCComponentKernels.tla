------------------------- MODULE MCComponentKernels -------------------------
(***************************************************************************)
(* Full tiles, partial ones and tiles of a single key or without any; two  *)
(* or more threads of every wave.                                          *)
(***************************************************************************)
EXTENDS ComponentKernels

Case(kernel, kv_offset, seqlen_q, seqlen_k) ==
  [kernel |-> kernel, kv_offset |-> kv_offset, seqlen_q |-> seqlen_q, seqlen_k |-> seqlen_k]

MCCases ==
  {Case("k_lds", s[1], 0, s[2]) : s \in {<<0, 64>>, <<0, 33>>, <<0, 1>>, <<32, 33>>, <<32, 97>>}}
  \cup {Case("v_lds", s[1], 0, s[2]) : s \in {<<0, 64>>, <<0, 1>>, <<32, 33>>, <<32, 97>>}}
  \cup {Case("qk_gemm", 0, s[1], s[2]) : s \in {<<128, 64>>, <<40, 21>>, <<1, 1>>}}
  \cup {Case("pv_gemm", 0, 0, s) : s \in {64, 37}}

MCTids == {32 * n + ((11 * n) % 32) : n \in 0..7} \cup {0, 127, 255}

RowCase(kernel, seqlen_q, seqlen_k, kv_offset, rsum_is_zero, dump) ==
  [kernel |-> kernel, seqlen_q |-> seqlen_q, seqlen_k |-> seqlen_k, kv_offset |-> kv_offset,
   rsum_is_zero |-> rsum_is_zero, dump |-> dump]

MCRowCases ==
  {RowCase("row_max", 0, 0, 0, FALSE, FALSE)}
  \cup {RowCase("softmax", 0, s[1], s[2], FALSE, FALSE) :
          s \in {<<64, 0>>, <<33, 0>>, <<1, 0>>, <<100, 64>>, <<64, 64>>}}
  \cup {RowCase("epilog", sq, 0, 0, zero, dump) :
          sq \in {17, 128}, zero \in BOOLEAN, dump \in BOOLEAN}

MCRowTids == {64 * w + l : w \in 0..3, l \in {0, 5, 16, 17, 31}}
=============================================================================
