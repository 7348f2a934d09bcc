------------------------------- MODULE GpuRef -------------------------------
(***************************************************************************)
(* The naive reference kernel (gpu_ref.cpp): one thread per query row in a *)
(* flat grid, with the strides test_fmha_gpu_ref gives it.  A thread reads *)
(* its row and all keys in three passes over unchanging memory, which is   *)
(* one step here, then stores its row of O and, if asked, its LSE.         *)
(***************************************************************************)
EXTENDS OutputMemory

CONSTANT BlockDim   \* threads per block (256 in the source)

VARIABLE pc   \* pc[tid]: "run", "lse", "done"

vars == <<memory, pc>>

\* Strides the reference is given, in elements.
q_strides  == Strides(problem, problem.q_heads, problem.seq_len)
kv_strides == Strides(problem, problem.kv_heads, problem.kv_seq_len)

total_rows == problem.batch * problem.q_heads * problem.seq_len
Threads    == 0..(CDiv(total_rows + BlockDim - 1, BlockDim) * BlockDim - 1)

-----------------------------------------------------------------------------
(* The row of a thread                                                     *)

b_of(tid)  == tid \div (problem.q_heads * problem.seq_len)
hq_of(tid) == (tid \div problem.seq_len) % problem.q_heads
i_of(tid)  == tid % problem.seq_len

\* Mutant of hkv_of: every query head has a KV head of its own.
hkv_ofOwn(tid) == hq_of(tid)

hkv_of(tid) == hq_of(tid) \div Gqa(problem)

seqstart(tid) == IF varlen_mode(problem) THEN offsets(problem)[b_of(tid)] ELSE 0
Sq_b(tid)     == SeqLenQ(problem, b_of(tid))
Skv_b(tid)    == SeqLenK(problem, b_of(tid))

\* Threads without a row: past the last one, or past the end of a short
\* sequence.
Returns(tid) ==
  tid < total_rows => varlen_mode(problem) /\ i_of(tid) >= Sq_b(tid)

Address(strides, b, h, token) ==
  b * strides.batch + h * strides.head + token * strides.seq

\* Keys with a score above -inf.
KeysScored(tid) ==
  {j \in 0..(Skv_b(tid) - 1) :
     problem.mask => j <= i_of(tid) + (Skv_b(tid) - Sq_b(tid))}

\* A row without keys has sum_exp = 0: zeros, and LSE = -inf.
Value(tid) ==
  LET keys  == Cardinality(KeysScored(tid))
      i_q   == seqstart(tid) + i_of(tid)
      q_row == Address(q_strides, b_of(tid), hq_of(tid), i_q)
      kbase == Address(kv_strides, b_of(tid), hkv_of(tid), seqstart(tid))
  IN  IF keys = 0 THEN ZeroRow
      ELSE [q    |-> QueryRowAt(q_row, problem.head_dim),
            kv   |-> KVHeadAt(kbase, kv_strides.seq, keys),
            keys |-> keys]

\* One float per row: the strides of Q over its row stride.
lse_idx(tid) ==
  b_of(tid) * (q_strides.batch \div q_strides.seq)
  + hq_of(tid) * (q_strides.head \div q_strides.seq)
  + seqstart(tid) + i_of(tid)

-----------------------------------------------------------------------------

Init == MemoryInit /\ pc = [tid \in Threads |-> "run"]

Return(tid) ==
  /\ pc[tid] = "run" /\ Returns(tid)
  /\ pc' = [pc EXCEPT ![tid] = "done"]
  /\ UNCHANGED memory

StoreO(tid) ==
  LET o_row(t) == Address(q_strides, b_of(t), hq_of(t), seqstart(t) + i_of(t))
  IN  /\ pc[tid] = "run" /\ ~Returns(tid)
      /\ o_mem' = Stored(o_mem, {tid}, o_row, Value, problem.head_dim)
      /\ pc' = [pc EXCEPT ![tid] = IF problem.lse THEN "lse" ELSE "done"]
      /\ UNCHANGED <<problem, lse_mem>>

StoreLse(tid) ==
  /\ pc[tid] = "lse"
  /\ lse_mem' = Stored(lse_mem, {tid}, lse_idx, Value, 1)
  /\ pc' = [pc EXCEPT ![tid] = "done"]
  /\ UNCHANGED <<problem, o_mem>>

Step(tid) == Return(tid) \/ StoreO(tid) \/ StoreLse(tid)

Finished == (\A tid \in Threads : pc[tid] = "done") /\ UNCHANGED vars

Next == (\E tid \in Threads : Step(tid)) \/ Finished
=============================================================================
