--------------------------- MODULE BlockDataflow ---------------------------
(***************************************************************************)
(* What the tile loop of fmha_fwd_d64_device promises, with the machinery  *)
(* (LDS buffers, counters, barriers) hidden: the matrix operands every     *)
(* wave of a block feeds to its two GEMMs, tile after tile.                *)
(*                                                                         *)
(* GEMM0 consumes the two headdim halves of K, GEMM1 the two row halves of *)
(* V, so the n-th operand (from 0) of a wave is NthOperand(n) whatever the *)
(* other waves do.  Waves of one block never drift more than two operands  *)
(* apart, and all of them reach the end.                                   *)
(***************************************************************************)
EXTENDS Naturals, Sequences

CONSTANTS
  Waves,     \* the waves of one block (kNumWarps of them in the kernel)
  MaxTiles   \* bound on the number of KV tiles a block walks

VARIABLES
  num_total_loop,  \* how many KV tiles this block walks
  fed              \* fed[w]: the operands wave w has consumed so far

vars == <<num_total_loop, fed>>

\* A half of one K or V tile, as staged in one LDS buffer.
Operands == [kind: {"K", "V"}, tile: Nat, half: {0, 1}]

\* The operand order of the loop body: K half 0, K half 1, V half 0, V half 1.
NthOperand(n) ==
  [kind |-> IF n % 4 < 2 THEN "K" ELSE "V", tile |-> n \div 4, half |-> n % 2]

OperandsPerTile == 4

Init ==
  /\ num_total_loop \in 0..MaxTiles
  /\ fed = [w \in Waves |-> <<>>]

\* A wave consumes its next operand, at most two ahead of the slowest wave.
Feed(w) ==
  /\ Len(fed[w]) < OperandsPerTile * num_total_loop
  /\ \A v \in Waves : Len(fed[w]) <= Len(fed[v]) + 1
  /\ fed' = [fed EXCEPT ![w] = Append(@, NthOperand(Len(@)))]
  /\ UNCHANGED num_total_loop

Next == \E w \in Waves : Feed(w)

Safety == Init /\ [][Next]_vars
Spec   == Safety /\ \A w \in Waves : WF_vars(Feed(w))
=============================================================================
