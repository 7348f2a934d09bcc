-------------------------- MODULE MCOnlineSoftmax --------------------------
(***************************************************************************)
(* OnlineSoftmax with small numbers in place of -5000 and of the exponents *)
(* of fp32: scores above the seed, at it, below it but within the range of *)
(* exp2, and (deep) below that range.                                      *)
(***************************************************************************)
EXTENDS OnlineSoftmax

MCSeed       == -3
MCExpMin     == -4
MCScores     == {-6, -3, 0, 5}
MCDeepScores == {-8, -3, 0}
=============================================================================
