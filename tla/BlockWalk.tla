----------------------------- MODULE BlockWalk ------------------------------
(***************************************************************************)
(* One block walks its KV tiles: the loop and its masks (KvTiling) and, in *)
(* lockstep, the byte offsets of what it reads and stores (ByteOffsets).   *)
(***************************************************************************)
EXTENDS KvTiling

CONSTANTS Modulus, Strides, ChunkRows

ASSUME WordAssumption ==
  /\ Modulus \in Nat \ {0} /\ Modulus % 2 = 0
  /\ Strides \subseteq Nat /\ \A s \in Strides : s >= 64  \* a row holds a head
  /\ ChunkRows \subseteq 0..(kM0 - 1)

VARIABLES stride, kv_k_byte, kv_v_byte, fetched, o_bytes, stage

bytes == <<stride, kv_k_byte, kv_v_byte, fetched, o_bytes, stage>>

Bytes == INSTANCE ByteOffsets

StartBlock == Start /\ Bytes!LoadQ(NumTotalLoop)
WalkTile   == Tile /\ Bytes!Tile
Epilogue   == pc = "done" /\ Bytes!EpilogStore /\ UNCHANGED vars
Leave      == pc = "done" /\ stage = "done" /\ UNCHANGED <<vars, bytes>>
Skip       == (ReturnEarly \/ (pc = "returned" /\ UNCHANGED vars)) /\ UNCHANGED bytes

WalkInit == Init /\ Bytes!Init

WalkSpec ==
  /\ WalkInit
  /\ [][StartBlock \/ WalkTile \/ Epilogue \/ Leave \/ Skip]_<<vars, bytes>>

-----------------------------------------------------------------------------
(* Properties                                                              *)

\* Although the ints overflow from half the address range on, the reads of a
\* row of Q, K or V find it as long as the sequence spans no more than the word
\* can address (pipeline.hpp, op_lds.hpp).
ReadsFindTheirRow == Bytes!ReadsFindTheirRow

\* The stores of O reach every column of every row of a sequence that spans no
\* more than INT32_MAX bytes; beyond, up to the range of a word, a store may be
\* dropped but never lands on another row (op_epilog.hpp).
StoresFindTheirRow == Bytes!StoresFindTheirRow
=============================================================================
