--------------------------- MODULE LaunchParams ----------------------------
(***************************************************************************)
(* From the options of a launch to what the kernels are given: the derived *)
(* problem (bench_fmha_fwd.cpp), the buffers (buffers.cpp), the kernel     *)
(* arguments of the fused and of the reference kernel, and the addresses   *)
(* at which the CPU reference looks for the rows of each tensor.           *)
(*                                                                         *)
(* Options are records with the fields batch, q_heads, kv_heads, seq_len,  *)
(* kv_seq_len, head_dim, hdim_padded, mask, lse, varlen_seqs and layout;   *)
(* 0 means "derive".  Layout "BHSD" is the runner's own packing, "BSHD"    *)
(* that of the smoke tests (heads adjacent within a token).                *)
(***************************************************************************)
EXTENDS TileBounds, Sequences

kHeadDim == 64   \* columns the kernel loads and stores of every row

-----------------------------------------------------------------------------
(* The problem                                                             *)

Longest(seqs) == CHOOSE s \in {0} \cup {seqs[n] : n \in 1..Len(seqs)} :
                   \A n \in 1..Len(seqs) : seqs[n] <= s

varlen_mode(p) == p.varlen_seqs # <<>>

KvHeads(options) == IF options.kv_heads = 0 THEN options.q_heads ELSE options.kv_heads

\* parse_args gives up when the query heads cannot share the KV heads evenly.
Accepted(options) == options.q_heads % KvHeads(options) = 0

\* The defaults of parse_args.
Parsed(options) ==
  LET seq_len == IF varlen_mode(options) THEN Longest(options.varlen_seqs)
                 ELSE options.seq_len
  IN  [options EXCEPT
         !.kv_heads   = KvHeads(options),
         !.batch      = IF varlen_mode(options) THEN Len(options.varlen_seqs) ELSE @,
         !.seq_len    = seq_len,
         !.kv_seq_len = IF @ = 0 THEN seq_len ELSE @]

Gqa(p) == p.q_heads \div p.kv_heads

\* The width of a row in memory.
hdim_dispatch(p) == IF p.hdim_padded > 0 THEN p.hdim_padded ELSE p.head_dim

-----------------------------------------------------------------------------
(* Buffers                                                                 *)

\* Cumulative token offsets: sequence b (from 0) spans offsets[b]..offsets[b+1]-1.
offsets(p) ==
  LET off[n \in 0..Len(p.varlen_seqs)] ==
        IF n = 0 THEN 0 ELSE off[n - 1] + p.varlen_seqs[n]
  IN  off

total_seqlen(p) == offsets(p)[Len(p.varlen_seqs)]

Tokens(p, len) == IF varlen_mode(p) THEN total_seqlen(p) ELSE p.batch * len

\* Elements of the tensors.
sz_Q(p)   == p.q_heads * Tokens(p, p.seq_len) * hdim_dispatch(p)
sz_O(p)   == sz_Q(p)
sz_K(p)   == p.kv_heads * Tokens(p, p.kv_seq_len) * hdim_dispatch(p)
sz_LSE(p) == p.q_heads * Tokens(p, p.seq_len)

-----------------------------------------------------------------------------
(* Kernel arguments                                                        *)

\* Row, head and batch stride, in elements, of a tensor of `heads` heads and
\* `len` tokens per sequence.
Strides(p, heads, len) ==
  LET D    == hdim_dispatch(p)
      rows == IF varlen_mode(p) THEN total_seqlen(p) ELSE len
      s    == IF p.layout = "BHSD" THEN [seq |-> D, head |-> rows * D]
              ELSE [seq |-> heads * D, head |-> D]
  IN  [seq |-> s.seq, head |-> s.head,
       batch |-> IF varlen_mode(p) THEN 0 ELSE heads * len * D]

\* FmhaFwdParams.  O has the strides of Q, V those of K; seqstart is the table
\* both seqstart pointers hold, empty in batch mode.
FwdParams(p) ==
  [q |-> Strides(p, p.q_heads, p.seq_len), k |-> Strides(p, p.kv_heads, p.kv_seq_len),
   seqlen_q |-> p.seq_len, seqlen_k |-> p.kv_seq_len,
   nhead_q |-> p.q_heads, nhead_k |-> p.kv_heads, lse |-> p.lse,
   seqstart |-> IF varlen_mode(p) THEN offsets(p) ELSE << >>]

\* dim3 grid(q_heads, m_tiles, batch)
Grid(p) == [x |-> p.q_heads, y |-> CDiv(p.seq_len + kM0 - 1, kM0), z |-> p.batch]

-----------------------------------------------------------------------------
(* Where the reference keeps row i of head h of sequence b, of a tensor    *)
(* with `heads` heads and `len` tokens per sequence.                       *)

SeqLenQ(p, b) == IF varlen_mode(p) THEN p.varlen_seqs[b + 1] ELSE p.seq_len
SeqLenK(p, b) == IF varlen_mode(p) THEN p.varlen_seqs[b + 1] ELSE p.kv_seq_len

RowOffset(p, heads, len, b, h, i) ==
  LET D     == hdim_dispatch(p)
      token == IF varlen_mode(p) THEN offsets(p)[b] + i ELSE b * len + i
  IN  IF p.layout = "BSHD" THEN (token * heads + h) * D
      ELSE IF varlen_mode(p) THEN (h * total_seqlen(p) + token) * D
      ELSE ((b * heads + h) * len + i) * D

QOffset(p, b, h, i)  == RowOffset(p, p.q_heads, p.seq_len, b, h, i)
KVOffset(p, b, h, j) == RowOffset(p, p.kv_heads, p.kv_seq_len, b, h, j)

\* One float per query row, packed [batch][head][row] or, in varlen mode,
\* [head][token].
LseOffset(p, b, h, i) ==
  IF varlen_mode(p) THEN h * total_seqlen(p) + offsets(p)[b] + i
  ELSE (b * p.q_heads + h) * p.seq_len + i

\* How many keys, from the first, row i attends: right-aligned causal mask.
KeysAllowed(p, b, i) ==
  LET len == SeqLenK(p, b)
      n   == IF p.mask THEN Least(i + (len - SeqLenQ(p, b)) + 1, len) ELSE len
  IN  IF n < 0 THEN 0 ELSE n
=============================================================================
