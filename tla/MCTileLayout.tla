--------------------------- MODULE MCTileLayout ----------------------------
(***************************************************************************)
(* TileLayout for all 32 rows of a wave.                                   *)
(***************************************************************************)
EXTENDS TileLayout

MCRowLanes == 0..31
=============================================================================
