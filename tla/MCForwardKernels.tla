-------------------------- MODULE MCForwardKernels --------------------------
(***************************************************************************)
(* Fused launches of several heads and sequences with one or two M-tiles;  *)
(* launches of at most eight rows, some without a key, for both kernels.   *)
(***************************************************************************)
EXTENDS ForwardKernels

\* Options with the parser's defaults.
Options(q, kv, mask) ==
  [batch |-> 2, q_heads |-> q, kv_heads |-> kv, seq_len |-> 130, kv_seq_len |-> 0,
   head_dim |-> 64, hdim_padded |-> 0, mask |-> mask, lse |-> TRUE,
   varlen_seqs |-> << >>, layout |-> "BHSD"]

Dense(q, kv, mask, sq, sk) ==
  [Options(q, kv, mask) EXCEPT !.seq_len = sq, !.kv_seq_len = sk]
Varlen(q, kv, mask, seqs) == [Options(q, kv, mask) EXCEPT !.varlen_seqs = seqs]
Padded(options)           == [options EXCEPT !.head_dim = 40, !.hdim_padded = 64]
NoLse(options)            == [options EXCEPT !.lse = FALSE]
Bshd(options)             == NoLse([options EXCEPT !.layout = "BSHD"])

OneBatch(options)         == [options EXCEPT !.batch = 1]

Launches(set) == {Parsed(options) : options \in {o \in set : Accepted(o)}}

SmallOptions ==
  {Dense(2, 1, FALSE, 1, 2), Dense(1, 1, TRUE, 2, 1), Padded(Dense(1, 1, TRUE, 2, 3)),
   Padded(Varlen(1, 1, FALSE, <<1, 2>>)), NoLse(Varlen(2, 1, TRUE, <<2, 1>>)),
   Varlen(2, 2, TRUE, <<0, 1>>), NoLse(Dense(2, 1, TRUE, 2, 2))}

LargeOptions ==
  {Dense(2, 1, TRUE, 130, 70), Dense(2, 1, FALSE, 65, 70), OneBatch(Dense(2, 1, TRUE, 129, 0)),
   OneBatch(Dense(2, 1, TRUE, 130, 200)), OneBatch(Dense(4, 2, FALSE, 64, 64)),
   OneBatch(Dense(2, 3, FALSE, 64, 64)), OneBatch(Dense(3, 2, FALSE, 64, 64)),
   Varlen(1, 1, TRUE, <<129, 0, 65>>), Varlen(2, 1, FALSE, <<64, 130>>),
   OneBatch(Bshd(Dense(2, 1, TRUE, 130, 65))), Padded(Dense(1, 0, FALSE, 65, 64))}

MCNaiveProblems == Launches(SmallOptions)
MCProblems      == Launches(SmallOptions \cup LargeOptions)

MCRows == {0, 1, 127}
=============================================================================
