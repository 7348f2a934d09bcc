--------------------------- MODULE ForwardKernels ---------------------------
(***************************************************************************)
(* The two implementations of the forward pass over the same memory: the   *)
(* grid of fused blocks (FwdGrid) and the naive reference kernel (GpuRef)  *)
(* the tests compare it with.  Both must implement AttentionOutput.        *)
(***************************************************************************)
EXTENDS FwdGrid

CONSTANTS
  NaiveProblems,  \* launches the reference kernel is tried on as well
  BlockDim        \* threads per block of the reference kernel (256 in the source)

\* The reference kernel stores every row, so every row is followed.
ASSUME NaiveAssumption ==
  /\ NaiveProblems \subseteq Problems /\ BlockDim \in Nat \ {0}
  /\ \A p \in NaiveProblems : \A i \in 0..(p.seq_len - 1) : i % kM0 \in Rows

VARIABLES
  impl,  \* which kernel was launched
  pc     \* the threads of the reference kernel

Naive == INSTANCE GpuRef

all == <<vars, impl, pc>>

FusedInit == impl = "fused" /\ Init /\ pc = << >>

NaiveInit ==
  /\ impl = "naive" /\ Naive!Init /\ problem \in NaiveProblems
  /\ next_block = 0 /\ resident = [s \in 1..Slots |-> Empty]

Fused == impl = "fused" /\ Next /\ UNCHANGED <<impl, pc>>

Reference == impl = "naive" /\ Naive!Next /\ UNCHANGED <<impl, next_block, resident>>

\* The device does not stop while a block or a thread can go on.  No block and
\* no thread waits for another, so this much brings each of them to its end.
KernelsSpec ==
  /\ FusedInit \/ NaiveInit
  /\ [][Fused \/ Reference]_all
  /\ WF_all(Fused \/ Reference)
=============================================================================
