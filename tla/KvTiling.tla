----------------------------- MODULE KvTiling ------------------------------
(***************************************************************************)
(* Which keys one query row attends: the KV loop bounds of an M-tile       *)
(* (pipeline.hpp) and the boundary and causal masking of each 64-key tile  *)
(* (softmax_mask), for one row of one block.  The row's 64 scores of a     *)
(* tile are spread over two lanes (k_sub) and two N-tiles.                 *)
(***************************************************************************)
EXTENDS TileBounds

CONSTANTS
  SeqLensQ, SeqLensK,  \* sequence lengths to choose from
  MTiles,              \* M-tile indices a block may have
  Rows                 \* rows of the M-tile to follow

ASSUME InputAssumption == /\ SeqLensQ \subseteq Nat
                          /\ SeqLensK \subseteq Nat
                          /\ MTiles \subseteq Nat
                          /\ Rows \subseteq 0..127

VARIABLES
  has_mask, is_varlen,             \* which of the four kernel entries runs
  seqlen_q, seqlen_k, m_tile_idx,
  abs_m_row,                       \* the row followed
  num_total_loop, i_total_loops,
  kv_offset,                       \* first key of the current tile
  attended,                        \* keys whose score survived the mask so far
  pc                               \* "start", "tile", "done", "returned"

inputs == <<has_mask, is_varlen, seqlen_q, seqlen_k, m_tile_idx, abs_m_row>>
vars   == <<inputs, num_total_loop, i_total_loops, kv_offset, attended, pc>>

-----------------------------------------------------------------------------
(* Loop bounds                                                             *)

mask_shift == seqlen_k - seqlen_q

\* Mutant of SeqlenKEnd: the causal bound is forgotten.
SeqlenKEndOfSequence == seqlen_k

SeqlenKEnd   == SeqlenKEndOf(has_mask, seqlen_q, seqlen_k, m_tile_idx)
NumTotalLoop == LoopsTo(SeqlenKEnd)

-----------------------------------------------------------------------------
(* Masking of one tile                                                     *)

\* The register offsets of one lane: {0..7, 16..23}, and 32 on for N-tile 1.
LaneOffsets ==
  LET n0 == {(i \div 8) * 16 + (i % 8) : i \in 0..15}
  IN  n0 \cup {off + 32 : off \in n0}

\* The tile needs no masking (wave-uniform guard).
FastPath ==
  /\ kv_offset + kN0 <= seqlen_k
  /\ has_mask => kv_offset + kN0 <= m_tile_idx * kM0 + mask_shift + 1

\* Mutant of Limit: the diagonal itself is masked.
LimitBelowDiagonal(col_base) ==
  IF has_mask THEN Least(abs_m_row + mask_shift - col_base, seqlen_k - col_base)
  ELSE seqlen_k - col_base

Limit(col_base) ==
  IF has_mask THEN Least(abs_m_row + mask_shift - col_base + 1, seqlen_k - col_base)
  ELSE seqlen_k - col_base

\* Keys of lane half k_sub that keep their score.
LaneKeys(k_sub) ==
  LET col_base == kv_offset + k_sub * 8
  IN  {col_base + off : off \in {o \in LaneOffsets : FastPath \/ o < Limit(col_base)}}

-----------------------------------------------------------------------------

\* A dense grid has no M-tile past the end; a varlen grid is sized for the
\* longest sequence.
Init ==
  /\ has_mask \in BOOLEAN /\ is_varlen \in BOOLEAN
  /\ seqlen_q \in SeqLensQ /\ seqlen_k \in SeqLensK
  /\ m_tile_idx \in MTiles
  /\ ~is_varlen => m_tile_idx * kM0 < seqlen_q
  /\ abs_m_row \in {m_tile_idx * kM0 + r : r \in Rows}
  /\ num_total_loop = 0 /\ i_total_loops = 0 /\ kv_offset = 0
  /\ attended = {}
  /\ pc = "start"

PastEndOfSequence == is_varlen /\ m_tile_idx * kM0 >= seqlen_q

ReturnEarly ==
  /\ pc = "start"
  /\ PastEndOfSequence
  /\ pc' = "returned"
  /\ UNCHANGED <<inputs, num_total_loop, i_total_loops, kv_offset, attended>>

\* Zeroed O rows and LSE = -inf when there is no tile to walk.
Start ==
  /\ pc = "start"
  /\ ~PastEndOfSequence
  /\ num_total_loop' = NumTotalLoop
  /\ pc' = IF NumTotalLoop <= 0 THEN "done" ELSE "tile"
  /\ UNCHANGED <<inputs, i_total_loops, kv_offset, attended>>

\* Mutant of Tile: the walk goes backwards.
TileBackwards ==
  /\ pc = "tile"
  /\ attended' = attended \cup LaneKeys(0) \cup LaneKeys(1)
  /\ i_total_loops' = i_total_loops + 1
  /\ IF i_total_loops + 1 < num_total_loop
     THEN kv_offset' = kv_offset - kN0 /\ pc' = "tile"
     ELSE kv_offset' = kv_offset /\ pc' = "done"
  /\ UNCHANGED <<inputs, num_total_loop>>

Tile ==
  /\ pc = "tile"
  /\ attended' = attended \cup LaneKeys(0) \cup LaneKeys(1)
  /\ i_total_loops' = i_total_loops + 1
  /\ IF i_total_loops + 1 < num_total_loop
     THEN kv_offset' = kv_offset + kN0 /\ pc' = "tile"
     ELSE kv_offset' = kv_offset /\ pc' = "done"
  /\ UNCHANGED <<inputs, num_total_loop>>

Finished == pc \in {"done", "returned"} /\ UNCHANGED vars

Next == ReturnEarly \/ Start \/ Tile \/ Finished
Spec == Init /\ [][Next]_vars

-----------------------------------------------------------------------------
(* Properties                                                              *)

TypeOK ==
  /\ has_mask \in BOOLEAN /\ is_varlen \in BOOLEAN
  /\ seqlen_q \in Nat /\ seqlen_k \in Nat /\ m_tile_idx \in Nat
  /\ abs_m_row \in m_tile_idx * kM0 .. m_tile_idx * kM0 + kM0 - 1
  /\ num_total_loop \in Int /\ i_total_loops \in Nat /\ kv_offset \in Nat
  /\ attended \subseteq Int
  /\ pc \in {"start", "tile", "done", "returned"}

\* Attention as the tests' oracles define it: keys inside the sequence and,
\* with the causal mask, not past the diagonal aligned to the last key.
MayAttend(row, key) ==
  0 <= key /\ key < seqlen_k /\ (has_mask => key <= row + mask_shift)

\* A row of the sequence has attended exactly the keys it may attend when its
\* block ends, whatever mix of skipped tiles, fast-path tiles and masked tiles
\* its M-tile had.
AttendsExactly ==
  pc = "done" /\ abs_m_row < seqlen_q =>
    attended = {key \in 0..(seqlen_k - 1) : MayAttend(abs_m_row, key)}

\* No block walks a tile none of whose keys any of its rows may attend: the
\* causal bound skips every tile past the diagonal (pipeline.hpp).
NoTileInVain ==
  pc = "tile" =>
    LET last_row == Least(m_tile_idx * kM0 + kM0, seqlen_q) - 1
    IN  \E key \in kv_offset..(kv_offset + kN0 - 1) : MayAttend(last_row, key)

\* pipeline.hpp says of the unbounded K and V descriptors that the per-access
\* bounds come from the offsets the callers compute: every row of K and V that
\* a tile stages is a row of the sequence.
StagedRowsInSequence ==
  pc = "tile" => \A row \in kv_offset..(kv_offset + kN0 - 1) : row < seqlen_k
=============================================================================
