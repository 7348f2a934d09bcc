---------------------------- MODULE ByteOffsets ----------------------------
(***************************************************************************)
(* The byte offsets by which one block reads Q, K and V and stores O: int  *)
(* arithmetic in a word of Modulus values (2^32 in the source), which the  *)
(* buffer instructions take as unsigned and compare with num_records.      *)
(* Signed overflow wraps, as the 32-bit instructions the build emits do.   *)
(* Everything is relative to the base of the block's sequence and head.    *)
(***************************************************************************)
EXTENDS TileBounds

CONSTANTS
  Modulus,    \* values of an int
  Strides,    \* row strides to choose from, in bf16 elements
  ChunkRows   \* rows of an M-tile, and of a KV tile, that are followed

VARIABLES
  seqlen_q, seqlen_k, m_tile_idx,
  num_total_loop, i_total_loops, kv_offset,  \* of the block's loop (KvTiling)
  stride,
  kv_k_byte, kv_v_byte,  \* byte base of the tile, an int
  fetched,               \* <<tensor, row, column, byte>> of the reads so far
  o_bytes,               \* o_bytes[a]: <<row, column>> stored at byte a
  stage                  \* "q", "tile", "epilog", "done"

-----------------------------------------------------------------------------
(* Words                                                                   *)

INT32_MAX == Modulus \div 2 - 1

\* The int a result wraps to, and the unsigned word of an int.
Wrap(x)      == ((x + Modulus \div 2) % Modulus) - Modulus \div 2
Unsigned(x) == x % Modulus

stride_bytes == Wrap(stride * 2)
QueryRows    == {m_tile_idx * kM0 + r : r \in ChunkRows}
TileRows     == ChunkRows \cap 0..(kN0 - 1)
Columns      == {0, 28, 32, 60}   \* first element of some 8-byte chunks

-----------------------------------------------------------------------------
(* Addresses                                                               *)

QVoffset(row, col) == Wrap(Wrap(row * stride_bytes) + col * 2)

\* Row r of the tile is copied by issue r / 16: a running sum, seeded from the
\* tile's base.
KVoffset(r, col) ==
  LET voffset[issue \in 0..3] ==
        IF issue = 0 THEN Wrap(Wrap(kv_k_byte + Wrap((r % 16) * stride_bytes)) + col * 2)
        ELSE Wrap(voffset[issue - 1] + Wrap(16 * stride_bytes))
  IN  voffset[r \div 16]

\* Row r of the tile is row k3 of a pair, in half r / 32.
VVoffset(r, col) ==
  LET base   == Wrap(kv_v_byte + Wrap((r \div 32) * 32 * stride_bytes))
      voff_0 == Wrap(Wrap(base + Wrap(((r % 32) - (r % 2)) * stride_bytes)) + col * 2)
  IN  IF r % 2 = 0 THEN voff_0 ELSE Wrap(voff_0 + stride_bytes)

\* A lane's first column is 0 or 4; the rest is the offset of the instruction.
OVoffset(row, col) == Unsigned(Wrap(Wrap(Wrap(row * stride) + (col % 8)) * 2))
soffset(col)       == (col \div 8) * 16

\* Mutant of num_records: elements for bytes.
num_recordsElements == Least(seqlen_q * stride, INT32_MAX)

num_records == Least(seqlen_q * stride * 2, INT32_MAX)

-----------------------------------------------------------------------------
(* Actions                                                                 *)

Init ==
  /\ stride \in Strides
  /\ kv_k_byte = 0 /\ kv_v_byte = 0
  /\ fetched = {} /\ o_bytes = << >>
  /\ stage = "q"

\* Rows past the end of the sequence are zeros; a block without tiles reads none.
LoadQ(loops) ==
  /\ stage = "q" /\ stage' = IF loops > 0 THEN "tile" ELSE "epilog"
  /\ fetched' = IF loops > 0
                THEN {<<"q", row, col, Unsigned(QVoffset(row, col))>> :
                        row \in {i \in QueryRows : i < seqlen_q}, col \in Columns}
                ELSE {}
  /\ UNCHANGED <<stride, kv_k_byte, kv_v_byte, o_bytes>>

\* Mutant of Tile: V advances by one half.
TileHalfV ==
  /\ stage = "tile"
  /\ fetched' = fetched \cup
       {<<"k", kv_offset + r, col, Unsigned(KVoffset(r, col))>> : r \in TileRows, col \in Columns} \cup
       {<<"v", kv_offset + r, col, Unsigned(VVoffset(r, col))>> : r \in TileRows, col \in Columns}
  /\ IF i_total_loops + 1 < num_total_loop
     THEN /\ kv_k_byte' = Wrap(kv_k_byte + Wrap(kN0 * stride_bytes))
          /\ kv_v_byte' = Wrap(kv_v_byte + Wrap(32 * stride_bytes))
          /\ stage' = stage
     ELSE stage' = "epilog" /\ UNCHANGED <<kv_k_byte, kv_v_byte>>
  /\ UNCHANGED <<stride, o_bytes>>

\* The reads of one KV tile, past the end of the sequence too; then the bases
\* advance, unless this was the last tile.
Tile ==
  /\ stage = "tile"
  /\ fetched' = fetched \cup
       {<<"k", kv_offset + r, col, Unsigned(KVoffset(r, col))>> : r \in TileRows, col \in Columns} \cup
       {<<"v", kv_offset + r, col, Unsigned(VVoffset(r, col))>> : r \in TileRows, col \in Columns}
  /\ IF i_total_loops + 1 < num_total_loop
     THEN /\ kv_k_byte' = Wrap(kv_k_byte + Wrap(kN0 * stride_bytes))
          /\ kv_v_byte' = Wrap(kv_v_byte + Wrap(kN0 * stride_bytes))
          /\ stage' = stage
     ELSE stage' = "epilog" /\ UNCHANGED <<kv_k_byte, kv_v_byte>>
  /\ UNCHANGED <<stride, o_bytes>>

\* The stores of O; the hardware drops those that do not lie below num_records,
\* and may leave the instruction's own offset out of that comparison.
EpilogStore ==
  LET chunks == {i \in QueryRows : i < seqlen_q} \X Columns
      at(c)  == OVoffset(c[1], c[2]) + soffset(c[2])
  IN  /\ stage = "epilog" /\ stage' = "done"
      /\ \E counted \in BOOLEAN :
           LET landed == {c \in chunks : 8 + (IF counted THEN at(c) ELSE OVoffset(c[1], c[2])) <= num_records}
           IN  o_bytes' = [a \in {at(c) : c \in landed} |-> CHOOSE c \in landed : at(c) = a]
      /\ UNCHANGED <<stride, kv_k_byte, kv_v_byte, fetched>>

-----------------------------------------------------------------------------
(* Properties                                                              *)

\* Where a chunk really lies, and the bytes a sequence of one head spans.
Place(row, col) == (row * stride + col) * 2
Extent(len)     == len * stride * 2

\* Although the ints overflow from half the address range on, the reads of a
\* row of the sequence find it as long as the sequence spans no more than the
\* word can address (pipeline.hpp, op_lds.hpp).
ReadsFindTheirRow ==
  \A f \in fetched :
    LET len == IF f[1] = "q" THEN seqlen_q ELSE seqlen_k
    IN  f[2] < len /\ Extent(len) <= Modulus => f[4] = Place(f[2], f[3])

\* The stores of O reach every column of every row of a sequence that spans no
\* more than INT32_MAX bytes; beyond, up to the range of a word, a store may be
\* dropped but never lands on another row (op_epilog.hpp).
StoresFindTheirRow ==
  /\ Extent(seqlen_q) <= Modulus =>
       \A a \in DOMAIN o_bytes : a = Place(o_bytes[a][1], o_bytes[a][2])
  /\ stage = "done" /\ Extent(seqlen_q) <= INT32_MAX =>
       \A row \in QueryRows, col \in Columns :
         row < seqlen_q => Place(row, col) \in DOMAIN o_bytes
=============================================================================
