------------------------------ MODULE FwdGrid ------------------------------
(***************************************************************************)
(* A launch of one of the four fused kernels (kernel.cpp): the grid of     *)
(* blocks dispatched a few at a time, each decoding its block index,       *)
(* walking its KV tiles and storing its rows of O and LSE by the           *)
(* address arithmetic of fmha_fwd_d64_device and epilog_store.             *)
(***************************************************************************)
EXTENDS OutputMemory

CONSTANT Slots   \* blocks that can be resident at once

\* Rows are as wide as the kernels were written for, or padded to it.
ASSUME GridAssumption ==
  /\ Slots \in Nat \ {0}
  /\ \A p \in Problems : p.head_dim <= kHeadDim /\ kHeadDim <= hdim_dispatch(p)

VARIABLES
  next_block,  \* linear index of the next block to dispatch
  resident     \* resident[s]: the block in slot s, or Empty

vars == <<memory, next_block, resident>>

\* The kernel argument block and the grid of each launch.
Kernarg == [p \in Problems |-> FwdParams(p)]
Grids   == [p \in Problems |-> Grid(p)]
params  == Kernarg[problem]
grid    == Grids[problem]

NumBlocks == grid.x * grid.y * grid.z
Warps     == {r \div 32 : r \in Rows}   \* the warps of a block that own followed rows
Empty     == [pc |-> "empty"]

-----------------------------------------------------------------------------
(* The block with linear index n; x varies fastest.                        *)

blockIdx(n) == [x |-> n % grid.x, y |-> (n \div grid.x) % grid.y,
                z |-> (n \div grid.x) \div grid.y]

head_idx(n)  == blockIdx(n).x
batch_idx(n) == blockIdx(n).z

\* Mutant of m_tile_idx: the masked entries launch in natural order.
m_tile_idxNatural(n) == blockIdx(n).y

m_tile_idx(n) == IF problem.mask THEN grid.y - 1 - blockIdx(n).y ELSE blockIdx(n).y

\* Mutant of kv_head_idx: query heads dealt to the KV heads in turn.
kv_head_idxRoundRobin(n) == head_idx(n) % params.nhead_k

kv_head_idx(n) ==
  LET nhead_ratio == params.nhead_q \div params.nhead_k
  IN  head_idx(n) \div nhead_ratio

offset(n)  == IF varlen_mode(problem) THEN params.seqstart[batch_idx(n)] ELSE 0
Packed(n)  == params.seqstart[batch_idx(n) + 1] - params.seqstart[batch_idx(n)]
seqlen_q(n) == IF varlen_mode(problem) THEN Packed(n) ELSE params.seqlen_q
seqlen_k(n) == IF varlen_mode(problem) THEN Packed(n) ELSE params.seqlen_k

PastEndOfSequence(n) ==
  varlen_mode(problem) /\ m_tile_idx(n) * kM0 >= seqlen_q(n)

num_total_loop(n) == TileCount(problem.mask, seqlen_q(n), seqlen_k(n), m_tile_idx(n))

-----------------------------------------------------------------------------
(* Addresses, in elements                                                  *)

BasePointer(n, head, stride) ==
  IF varlen_mode(problem) THEN head * stride.head + offset(n) * stride.seq
  ELSE batch_idx(n) * stride.batch + head * stride.head

q_base(n) == BasePointer(n, head_idx(n), params.q)
k_base(n) == BasePointer(n, kv_head_idx(n), params.k)
o_base(n) == BasePointer(n, head_idx(n), params.q)

lse_base(n) ==
  IF varlen_mode(problem)
  THEN head_idx(n) * (params.q.head \div params.q.seq) + offset(n)
  ELSE batch_idx(n) * (params.nhead_q * params.seqlen_q)
       + head_idx(n) * params.seqlen_q

-----------------------------------------------------------------------------
(* What a row is computed from                                             *)

\* Keys below the end of the last tile that row i keeps through the mask.
KeysSeen(n, i, tiles) ==
  LET diagonal == i + (seqlen_k(n) - seqlen_q(n)) + 1
      kept     == IF problem.mask THEN Least(diagonal, seqlen_k(n)) ELSE seqlen_k(n)
      seen     == Least(kN0 * tiles, kept)
  IN  IF seen < 0 THEN 0 ELSE seen

RowValue(n, i, tiles) ==
  LET keys == KeysSeen(n, i, tiles)
  IN  IF keys = 0 THEN ZeroRow
      ELSE [q    |-> QueryRowAt(q_base(n) + i * params.q.seq, kHeadDim),
            kv   |-> KVHeadAt(k_base(n), params.k.seq, keys),
            keys |-> keys]

-----------------------------------------------------------------------------
(* Actions                                                                 *)

Init ==
  /\ MemoryInit
  /\ next_block = 0
  /\ resident = [s \in 1..Slots |-> Empty]

\* Mutant of Dispatch: blocks beyond the grid are launched.
DispatchBeyondGrid(s) ==
  /\ resident[s] = Empty /\ next_block <= NumBlocks
  /\ resident' = [resident EXCEPT ![s] =
       [pc |-> "start", n |-> next_block, i_total_loops |-> 0, stored |-> {}]]
  /\ next_block' = next_block + 1
  /\ UNCHANGED memory

\* The next block in linear order takes a free slot.
Dispatch(s) ==
  /\ resident[s] = Empty /\ next_block < NumBlocks
  /\ resident' = [resident EXCEPT ![s] =
       [pc |-> "start", n |-> next_block, i_total_loops |-> 0, stored |-> {}]]
  /\ next_block' = next_block + 1
  /\ UNCHANGED memory

\* An M-tile past the end of a short sequence has nothing to do.
ReturnEarly(s) ==
  /\ resident[s].pc = "start"
  /\ PastEndOfSequence(resident[s].n)
  /\ resident' = [resident EXCEPT ![s] = Empty]
  /\ UNCHANGED <<memory, next_block>>

\* A block without tiles goes straight to the epilogue.
Start(s) ==
  /\ resident[s].pc = "start"
  /\ ~PastEndOfSequence(resident[s].n)
  /\ resident' = [resident EXCEPT ![s].pc =
       IF num_total_loop(resident[s].n) <= 0 THEN "epilog" ELSE "tile"]
  /\ UNCHANGED <<memory, next_block>>

Tile(s) ==
  /\ resident[s].pc = "tile"
  /\ LET done == resident[s].i_total_loops + 1
     IN  resident' = [resident EXCEPT
           ![s].i_total_loops = done,
           ![s].pc = IF done < num_total_loop(resident[s].n) THEN "tile" ELSE "epilog"]
  /\ UNCHANGED <<memory, next_block>>

\* Mutant of RowsOf: padding rows are stored too.
RowsOfAll(n, warp) ==
  {i \in {m_tile_idx(n) * kM0 + r : r \in Rows} : (i % kM0) \div 32 = warp}

\* Rows of the sequence that the lanes of a warp own.
RowsOf(n, warp) ==
  {i \in {m_tile_idx(n) * kM0 + r : r \in Rows} :
     (i % kM0) \div 32 = warp /\ i < seqlen_q(n)}

\* epilog_store of one warp; the block leaves with its last warp.
EpilogStore(s, warp) ==
  LET block    == resident[s]
      n        == block.n
      value(i) == RowValue(n, i, block.i_total_loops)
      o(i)     == o_base(n) + i * params.q.seq
      lse(i)   == lse_base(n) + i
  IN  /\ block.pc = "epilog" /\ warp \notin block.stored
      /\ o_mem' = Stored(o_mem, RowsOf(n, warp), o, value, kHeadDim)
      /\ lse_mem' = IF params.lse THEN Stored(lse_mem, RowsOf(n, warp), lse, value, 1)
                    ELSE lse_mem
      /\ resident' = [resident EXCEPT ![s] =
           IF block.stored \cup {warp} = Warps THEN Empty
           ELSE [block EXCEPT !.stored = block.stored \cup {warp}]]
      /\ UNCHANGED <<problem, next_block>>

Finished ==
  /\ next_block = NumBlocks /\ \A s \in 1..Slots : resident[s] = Empty
  /\ UNCHANGED vars

Step(s) == \/ Dispatch(s) \/ ReturnEarly(s) \/ Start(s) \/ Tile(s)
           \/ \E warp \in Warps : EpilogStore(s, warp)

Next == (\E s \in 1..Slots : Step(s)) \/ Finished

Spec == Init /\ [][Next]_vars

-----------------------------------------------------------------------------
(* Properties                                                              *)

Blocks == [pc : {"start", "tile", "epilog"}, n : 0..(NumBlocks - 1),
           i_total_loops : Nat, stored : SUBSET Warps]

TypeOK ==
  /\ problem \in Problems
  /\ next_block \in 0..NumBlocks
  /\ resident \in [1..Slots -> Blocks \cup {Empty}]

\* Tiles a block really walks.
Work(n) == IF PastEndOfSequence(n) THEN 0 ELSE num_total_loop(n)

\* kernel.cpp reverses the M-tiles of the masked entries to launch the heavy
\* ones first: a block running, unless it has nothing to do, walks at least as
\* many tiles as every block of its batch still waiting.
HeavyFirst ==
  \A s \in 1..Slots :
    resident[s] # Empty =>
      LET n == resident[s].n
      IN  Work(n) > 0 =>
            \A m \in next_block..(NumBlocks - 1) :
              batch_idx(m) = batch_idx(n) => Work(m) <= Work(n)
=============================================================================
