--------------------------- MODULE MCLdsPipeline ---------------------------
(***************************************************************************)
(* LdsPipeline on small instances: the number of waves, tiles and issues   *)
(* are given by the .cfg files.                                            *)
(***************************************************************************)
EXTENDS LdsPipeline, TLC

\* Waves are interchangeable: nothing in the block-uniform loop tells them
\* apart.  Used by runs without temporal properties only.
WaveSymmetry == Permutations(Waves)
=============================================================================
