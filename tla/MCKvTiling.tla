---------------------------- MODULE MCKvTiling -----------------------------
(***************************************************************************)
(* KvTiling on lengths around the tile sizes (64 keys, 128 rows) and rows  *)
(* around the wave and tile boundaries of an M-tile.                       *)
(***************************************************************************)
EXTENDS KvTiling

MCSeqLensQ == {0, 1, 63, 65, 127, 128, 129, 200}
MCSeqLensK == {0, 1, 63, 64, 65, 128, 130, 200}
MCRows     == {0, 1, 63, 64, 71, 127}
=============================================================================
