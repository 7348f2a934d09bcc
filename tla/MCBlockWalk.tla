---------------------------- MODULE MCBlockWalk -----------------------------
(***************************************************************************)
(* BlockWalk on lengths around the tile sizes (64 keys, 128 rows), rows    *)
(* around the wave and tile boundaries, and a word of 2^18 values: with    *)
(* 4 KiB rows it addresses 64 rows, with 1280-byte rows 204.               *)
(***************************************************************************)
EXTENDS BlockWalk

MCSeqLensQ == {0, 1, 63, 65, 127, 128, 129, 200}
MCSeqLensK == {0, 1, 63, 64, 65, 128, 130, 200}
MCRows     == {0, 1, 63, 64, 71, 127}
MCStrides  == {64, 640, 2048}
MCModulus  == 262144
=============================================================================
