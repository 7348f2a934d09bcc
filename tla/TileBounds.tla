---------------------------- MODULE TileBounds -----------------------------
(***************************************************************************)
(* How many KV tiles the block of M-tile m walks (pipeline.hpp): the       *)
(* arithmetic shared by the block's own loop (KvTiling), by the grid of    *)
(* blocks (FwdGrid) and by their proofs.                                   *)
(***************************************************************************)
EXTENDS Integers

kM0 == 128   \* query rows per M-tile
kN0 == 64    \* keys per KV tile

\* C division of ints truncates towards zero.
CDiv(a, b) == IF a >= 0 THEN a \div b ELSE -((-a) \div b)
Least(a, b) == IF a <= b THEN a ELSE b

\* One past the last key the last row of M-tile m may attend.
RawEndOf(seqlen_q, seqlen_k, m) ==
  LET last_q_row == Least(m * kM0 + kM0 - 1, seqlen_q - 1)
  IN  Least(last_q_row + (seqlen_k - seqlen_q) + 1, seqlen_k)

SeqlenKEndOf(has_mask, seqlen_q, seqlen_k, m) ==
  IF has_mask
  THEN Least(CDiv(RawEndOf(seqlen_q, seqlen_k, m) + kN0 - 1, kN0) * kN0, seqlen_k)
  ELSE seqlen_k

\* Tiles walked to reach seqlen_k_end.
LoopsTo(seqlen_k_end) == CDiv(seqlen_k_end + kN0 - 1, kN0)

TileCount(has_mask, seqlen_q, seqlen_k, m) ==
  LoopsTo(SeqlenKEndOf(has_mask, seqlen_q, seqlen_k, m))
=============================================================================
