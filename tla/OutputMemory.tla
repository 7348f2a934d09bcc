--------------------------- MODULE OutputMemory ----------------------------
(***************************************************************************)
(* The tensors of a launch as memory, and what a forward pass must do to   *)
(* it.  Memory is kept by address, a whole row at a time.  What a row is   *)
(* computed from is abstracted to the query row, the KV head and the       *)
(* number of keys, found by looking up the addresses a kernel reads in     *)
(* the layout the tensors really have (LaunchParams): a wrong stride,      *)
(* offset or head shows as a wrong value.                                  *)
(***************************************************************************)
EXTENDS LaunchParams, FiniteSets

CONSTANTS
  Problems,  \* launches to choose from, as LaunchParams!Parsed returns them
  Rows       \* rows of an M-tile that are followed

ASSUME RowsAssumption == Rows \subseteq 0..(kM0 - 1)

\* What parse_args makes of options it accepts, and tests give: lengths and
\* counts of heads are not negative, rows are not narrower than their data, and
\* launches of packed sequences are as wide as the longest.  Only the smoke
\* tests interleave heads, without LSE.
ASSUME ProblemsAssumption ==
  \A p \in Problems :
    /\ p.mask \in BOOLEAN /\ p.lse \in BOOLEAN
    /\ p.layout \in {"BHSD", "BSHD"} /\ (p.lse => p.layout = "BHSD")
    /\ p.q_heads \in Nat \ {0} /\ p.kv_heads \in Nat \ {0}
    /\ p.q_heads % p.kv_heads = 0
    /\ p.batch \in Nat /\ p.seq_len \in Nat /\ p.kv_seq_len \in Nat
    /\ p.head_dim \in Nat \ {0} /\ p.hdim_padded \in Nat
    /\ p.head_dim <= hdim_dispatch(p)
    /\ varlen_mode(p) => /\ p.varlen_seqs \in Seq(Nat) /\ p.batch = Len(p.varlen_seqs)
                         /\ \A n \in 1..p.batch : p.varlen_seqs[n] <= p.seq_len

VARIABLES
  problem,
  o_mem,     \* O by address of the first column of the stored row
  lse_mem    \* LSE by address

memory == <<problem, o_mem, lse_mem>>

ZeroRow == [keys |-> 0]     \* O = 0, LSE = -inf
NoRow   == << >>
Unset   == [keys |-> -1]

MemoryInit == problem \in Problems /\ o_mem = << >> /\ lse_mem = << >>

-----------------------------------------------------------------------------
(* Reads and stores                                                        *)

\* The followed rows of the problem p as <<batch, head, row>>.
QueryRows(p) ==
  LET followed == {i \in 0..p.seq_len : i % kM0 \in Rows}
  IN  UNION {{b} \X (0..p.q_heads - 1) \X {i \in followed : i < SeqLenQ(p, b)} :
               b \in 0..p.batch - 1}

\* Where each followed row of Q, and of O, starts.
QAddress ==
  [p \in Problems |-> [r \in QueryRows(p) |-> QOffset(p, r[1], r[2], r[3])]]

\* The query row that a read of so many columns from addr on finds.
QueryRowAt(addr, columns) ==
  LET at == {r \in DOMAIN QAddress[problem] : QAddress[problem][r] = addr}
  IN  IF at = {} \/ columns \notin problem.head_dim..hdim_dispatch(problem) THEN NoRow
      ELSE CHOOSE r \in at : TRUE

\* The KV head whose rows 0..keys-1 are found from base on, stride apart: both
\* sides are affine in the row, so the first and the last row decide.
KVHeadAt(base, stride, keys) ==
  LET at == {h \in (0..problem.batch - 1) \X (0..problem.kv_heads - 1) :
               /\ keys <= SeqLenK(problem, h[1])
               /\ \A j \in {0, keys - 1} : base + j * stride = KVOffset(problem, h[1], h[2], j)}
  IN  IF at = {} THEN NoRow ELSE CHOOSE h \in at : TRUE

\* Memory after storing value(i) at addr(i) for the rows i of one warp; a store
\* of width elements destroys the rows it overlaps.
Stored(mem, rows, addr(_), value(_), width) ==
  LET written == {addr(i) : i \in rows}
      kept    == {a \in DOMAIN mem :
                    \A b \in written : a + width <= b \/ b + width <= a}
  IN  [a \in kept \cup written |->
         IF a \in written THEN value(CHOOSE i \in rows : addr(i) = a) ELSE mem[a]]

-----------------------------------------------------------------------------
(* The contract                                                            *)

\* Every cell of the output, a row of O or an LSE, with its place in memory.
CellAddress ==
  [p \in Problems |->
     [cell \in {"O", "LSE"} \X QueryRows(p) |->
        LET r == cell[2]
        IN  IF cell[1] = "O" THEN QAddress[p][r] ELSE LseOffset(p, r[1], r[2], r[3])]]

\* The value attention gives the cells of a row.
RowResult ==
  [p \in Problems |->
     [r \in QueryRows(p) |->
        LET keys == KeysAllowed(p, r[1], r[3])
        IN  IF keys = 0 THEN ZeroRow
            ELSE [q |-> r, kv |-> <<r[1], r[2] \div Gqa(p)>>, keys |-> keys]]]

Cells(p) == (IF p.lse THEN {"O", "LSE"} ELSE {"O"}) \X QueryRows(p)
Results  == [p \in Problems |-> [cell \in Cells(p) |-> RowResult[p][cell[2]]]]
Expected == Results[problem]

Memory ==
  [cell \in DOMAIN Expected |->
     LET mem  == IF cell[1] = "O" THEN o_mem ELSE lse_mem
         addr == CellAddress[problem][cell]
     IN  IF addr \in DOMAIN mem THEN mem[addr] ELSE Unset]

Output == INSTANCE AttentionOutput WITH
            Unset <- Unset, expected <- Expected, out <- Memory

\* The blocks or threads of a launch together do what attention prescribes,
\* whatever the launch (dense or packed sequences, masked or not, grouped heads,
\* both layouts): a row of O or LSE only ever goes from unset to its own value,
\* at the address the references read, no block disturbs a row already written,
\* and every row is written in the end (kernel.cpp, pipeline.hpp, gpu_ref.cpp).
ImplementsAttention == Output!Spec

\* No store of O or LSE lands outside its tensor or between its rows.
NoStrayStore ==
  /\ \A a \in DOMAIN o_mem :
       a % hdim_dispatch(problem) = 0 /\ 0 <= a /\ a < sz_O(problem)
  /\ \A a \in DOMAIN lse_mem : 0 <= a /\ a < sz_LSE(problem)
=============================================================================
