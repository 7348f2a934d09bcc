---------------------------- MODULE LdsPipeline ----------------------------
(***************************************************************************)
(* The KV-tile loop of fmha_fwd_d64_device as the waves of one block       *)
(* execute it: asynchronous K copies DRAM -> LDS, V staged through         *)
(* registers, three LDS buffers rotated by LdsSeq, and the waitcnt fences  *)
(* and barriers that are all that orders one wave against another.         *)
(*                                                                         *)
(* A wave has two in-order queues of operations in flight: vm (counted by  *)
(* vmcnt: K copies and register loads) and lg (counted by lgkmcnt: LDS     *)
(* reads and writes).  An operation takes effect when it leaves its queue. *)
(***************************************************************************)
EXTENDS Naturals, Sequences, FiniteSets

CONSTANTS
  Waves,         \* the waves of the block (kNumWarps = 4 in the kernel)
  MaxTiles,      \* bound on num_total_loop
  CopyIssues,    \* buffer_load...lds issues per wave and K half (4)
  StoreIssues,   \* loads, and ds_write2 stores, per wave and V half (2)
  QLoads,        \* Q register loads of a wave with rows in range (4)
  WaitsSinkPast
    \* A plain s_barrier drains no counter.  These are the plain barriers (named
    \* by their labels) past which the compiled code may defer the wait for the
    \* LDS reads of an earlier GEMM; at the others the reads have returned.

PlainBarriers == {"fence_half0", "fence_half1", "advance"}

ASSUME WavesAssumption  == Waves # {}
ASSUME BoundsAssumption == /\ MaxTiles \in Nat
                           /\ CopyIssues \in Nat \ {0}
                           /\ StoreIssues \in Nat \ {0}
                           /\ QLoads \in Nat
                           /\ WaitsSinkPast \subseteq PlainBarriers

VARIABLES
  num_total_loop,  \* KV tiles this block walks, the same in every wave
  pc,              \* pc[w]: next statement of wave w
  i_total_loops,   \* tiles wave w has finished, its loop counter
  kv_tile,         \* the tile kv_k_byte and kv_v_byte of wave w point at
  k_col,           \* k_col_offset of wave w, in halves of the headdim
  v_regs,          \* v_regs[w][h]: what the registers of V half h hold
  vm, lg,          \* operations in flight, oldest first
  lds,             \* the three buffers
  arrived,         \* waves waiting at the barrier
  fed              \* fed[w]: operands wave w has read out of LDS so far

waveVars == <<i_total_loops, kv_tile, k_col>>
vars == <<num_total_loop, pc, waveVars, v_regs, vm, lg, lds, arrived, fed>>

-----------------------------------------------------------------------------
(* Buffers and what they hold                                              *)

Buffers == 0..2
LdsSeq  == [slot \in 0..3 |-> <<1, 2, 1, 0>>[slot + 1]]

\* An operand is one half of one K or V tile; Nothing is anything else.
Operand(k, t, h) == [kind |-> k, tile |-> t, half |-> h]
Nothing  == Operand("none", 0, 0)
QSlice   == Operand("Q", 0, 0)

Issues(kind) == IF kind = "K" THEN CopyIssues ELSE StoreIssues

\* A buffer holds pieces of the last operand written to it; a piece is named
\* by the wave that wrote it and the number of the issue.
Whole(d) == [operand |-> d, pieces |-> Waves \X (1..Issues(d.kind))]

Deposit(op, w) ==
  lds' = [lds EXCEPT ![op.buf] =
            [operand |-> op.operand,
             pieces  |-> {<<w, op.issue>>} \cup
                         IF @.operand = op.operand THEN @.pieces ELSE {}]]

-----------------------------------------------------------------------------
(* Operations in flight                                                    *)

\* async_copy_k_subtile: the half of K at k_col of the current tile into b
KCopies(w, b) ==
  [n \in 1..CopyIssues |->
     [op |-> "copy", buf |-> b, issue |-> n,
      operand |-> Operand("K", kv_tile[w], k_col[w])]]

\* load_v_from_dram: half h of the current V tile into the registers of h
VLoads(w, h) ==
  [n \in 1..StoreIssues |->
     [op |-> "load", buf |-> 0, issue |-> n,
      operand |-> Operand("V", kv_tile[w], h)]]

\* store_v_to_lds: what the registers of half h hold now, into buffer b
VStores(w, h, b) ==
  [n \in 1..StoreIssues |->
     [op |-> "write", buf |-> b, issue |-> n, operand |-> v_regs[w][h]]]

QLoadOps == [n \in 1..QLoads |->
               [op |-> "load", buf |-> 0, issue |-> n, operand |-> QSlice]]

Read(b) == [op |-> "read", buf |-> b, issue |-> 1, operand |-> Nothing]

IssueVm(w, ops) == vm' = [vm EXCEPT ![w] = @ \o ops]
IssueLg(w, ops) == lg' = [lg EXCEPT ![w] = @ \o ops]

\* Mutant of VmFence: one operation too many may stay in flight.
VmFenceOneMore(w, n) == Len(vm[w]) <= n + 1

\* s_waitcnt vmcnt(n) and s_waitcnt lgkmcnt(0)
VmFence(w, n) == Len(vm[w]) <= n
LgFence(w)    == lg[w] = <<>>

\* The GEMMs issued so far have received every LDS read they consume.
ReadsReturned(w) == \A n \in 1..Len(lg[w]) : lg[w][n].op # "read"

-----------------------------------------------------------------------------
(* The barrier: the last running wave to arrive releases all of them, and  *)
(* a wave that ends no longer counts.                                      *)

Running == {w \in Waves : pc[w] # "done"}

ReleaseIfAll(waiting, running) == IF running \subseteq waiting THEN {} ELSE waiting

Arrive(w)  == arrived' = ReleaseIfAll(arrived \cup {w}, Running)
PlainBarrier(w) == (pc[w] \in WaitsSinkPast \/ ReadsReturned(w)) /\ Arrive(w)
BlockSyncLds(w) == LgFence(w) /\ Arrive(w)
Passed(w)  == w \notin arrived

Goto(w, from, to) == pc[w] = from /\ pc' = [pc EXCEPT ![w] = to]

-----------------------------------------------------------------------------
(* The statements of a wave, in program order                              *)

Init ==
  /\ num_total_loop \in 0..MaxTiles
  /\ pc = [w \in Waves |-> "prologue"]
  /\ i_total_loops = [w \in Waves |-> 0]
  /\ kv_tile = [w \in Waves |-> 0]
  /\ k_col = [w \in Waves |-> 0]
  /\ v_regs = [w \in Waves |-> [h \in 0..1 |-> Nothing]]
  /\ vm = [w \in Waves |-> <<>>]
  /\ lg = [w \in Waves |-> <<>>]
  /\ lds = [b \in Buffers |-> [operand |-> Nothing, pieces |-> {}]]
  /\ arrived = {}
  /\ fed = [w \in Waves |-> <<>>]

\* No KV tile to walk: straight to the (zeroing) epilogue.
DegenerateExit(w) ==
  /\ num_total_loop <= 0
  /\ Goto(w, "prologue", "epilogue")
  /\ UNCHANGED <<num_total_loop, waveVars, v_regs, vm, lg, lds, arrived, fed>>

\* Q is loaded by the waves that have rows in range, then K half 0 of tile 0.
Prologue(w) ==
  /\ num_total_loop > 0
  /\ Goto(w, "prologue", "k_half1")
  /\ \E q \in {QLoadOps, <<>>} : IssueVm(w, q \o KCopies(w, LdsSeq[0]))
  /\ k_col' = [k_col EXCEPT ![w] = @ + 1]
  /\ UNCHANGED <<num_total_loop, i_total_loops, kv_tile, v_regs, lg, lds, arrived, fed>>

CopyKHalf1(w) ==
  /\ Goto(w, "k_half1", "fence_half0")
  /\ IssueVm(w, KCopies(w, LdsSeq[1]))
  /\ k_col' = [k_col EXCEPT ![w] = @ + 1]
  /\ UNCHANGED <<num_total_loop, i_total_loops, kv_tile, v_regs, lg, lds, arrived, fed>>

\* Mutant of FenceHalf0: a wave whose copies have all landed saves the barrier.
FenceHalf0IfBusy(w) ==
  /\ Goto(w, "fence_half0", "gemm0_0")
  /\ VmFence(w, CopyIssues)
  /\ IF vm[w] = <<>> THEN UNCHANGED arrived ELSE PlainBarrier(w)
  /\ UNCHANGED <<num_total_loop, waveVars, v_regs, vm, lg, lds, fed>>

\* async_load_fence(4): the copies of half 1 may stay in flight.
FenceHalf0(w) ==
  /\ Goto(w, "fence_half0", "gemm0_0")
  /\ VmFence(w, CopyIssues)
  /\ PlainBarrier(w)
  /\ UNCHANGED <<num_total_loop, waveVars, v_regs, vm, lg, lds, fed>>

Gemm0Sub0(w) ==
  /\ Goto(w, "gemm0_0", "fence_half1")
  /\ Passed(w)
  /\ IssueLg(w, <<Read(LdsSeq[0])>>)
  /\ UNCHANGED <<num_total_loop, waveVars, v_regs, vm, lds, arrived, fed>>

\* Mutant of FenceHalf1: the fence without its barrier.
FenceHalf1Alone(w) ==
  /\ Goto(w, "fence_half1", "load_v0")
  /\ VmFence(w, 0)
  /\ UNCHANGED <<num_total_loop, waveVars, v_regs, vm, lg, lds, arrived, fed>>

FenceHalf1(w) ==
  /\ Goto(w, "fence_half1", "load_v0")
  /\ VmFence(w, 0)
  /\ PlainBarrier(w)
  /\ UNCHANGED <<num_total_loop, waveVars, v_regs, vm, lg, lds, fed>>

\* The sched_barrier(0) after the barrier keeps the MFMAs of GEMM0 sub-tile 0,
\* and so the wait for their reads, above this point.
LoadVHalf0(w) ==
  /\ Goto(w, "load_v0", "gemm0_1")
  /\ Passed(w)
  /\ ReadsReturned(w)
  /\ IssueVm(w, VLoads(w, 0))
  /\ UNCHANGED <<num_total_loop, waveVars, v_regs, lg, lds, arrived, fed>>

Gemm0Sub1(w) ==
  /\ Goto(w, "gemm0_1", "row_max")
  /\ IssueLg(w, <<Read(LdsSeq[1])>>)
  /\ UNCHANGED <<num_total_loop, waveVars, v_regs, vm, lds, arrived, fed>>

\* softmax_mask and softmax_row_max: the scores are complete, and the bpermute
\* waits for lgkmcnt(0).
RowMax(w) ==
  /\ Goto(w, "row_max", "store_v0")
  /\ LgFence(w)
  /\ UNCHANGED <<num_total_loop, waveVars, v_regs, vm, lg, lds, arrived, fed>>

StoreVHalf0(w) ==
  /\ Goto(w, "store_v0", "row_sum")
  /\ VmFence(w, 0)
  /\ IssueLg(w, VStores(w, 0, LdsSeq[2]))
  /\ IssueVm(w, VLoads(w, 1))
  /\ UNCHANGED <<num_total_loop, waveVars, v_regs, lds, arrived, fed>>

\* softmax_exp2, softmax_row_sum (again a bpermute) and the rescaling.
RowSum(w) ==
  /\ Goto(w, "row_sum", "sync_v0")
  /\ LgFence(w)
  /\ UNCHANGED <<num_total_loop, waveVars, v_regs, vm, lg, lds, arrived, fed>>

SyncV0(w) ==
  /\ Goto(w, "sync_v0", "gemm1_0")
  /\ BlockSyncLds(w)
  /\ UNCHANGED <<num_total_loop, waveVars, v_regs, vm, lg, lds, fed>>

Gemm1Sub0(w) ==
  /\ Goto(w, "gemm1_0", "store_v1")
  /\ Passed(w)
  /\ IssueLg(w, <<Read(LdsSeq[2])>>)
  /\ UNCHANGED <<num_total_loop, waveVars, v_regs, vm, lds, arrived, fed>>

StoreVHalf1(w) ==
  /\ Goto(w, "store_v1", "advance")
  /\ VmFence(w, 0)
  /\ IssueLg(w, VStores(w, 1, LdsSeq[3]))
  /\ UNCHANGED <<num_total_loop, waveVars, v_regs, vm, lds, arrived, fed>>

\* Mutant of AnotherTile: i_total_loops <= num_total_loop, a tile too far.
AnotherTileOrOneMore(w) == i_total_loops[w] + 1 <= num_total_loop

\* i_total_loops++, and then the condition of the prefetch.
AnotherTile(w) == i_total_loops[w] + 1 < num_total_loop

\* Mutants of AdvanceToNextTile: k_col_offset is not reset; the byte bases of
\* K and V are not advanced.
AdvanceKeepingKCol(w) ==
  /\ AnotherTile(w)
  /\ Goto(w, "advance", "k_prefetch")
  /\ i_total_loops' = [i_total_loops EXCEPT ![w] = @ + 1]
  /\ kv_tile' = [kv_tile EXCEPT ![w] = @ + 1]
  /\ PlainBarrier(w)
  /\ UNCHANGED <<num_total_loop, k_col, v_regs, vm, lg, lds, fed>>

AdvanceOnTheSpot(w) ==
  /\ AnotherTile(w)
  /\ Goto(w, "advance", "k_prefetch")
  /\ i_total_loops' = [i_total_loops EXCEPT ![w] = @ + 1]
  /\ k_col' = [k_col EXCEPT ![w] = 0]
  /\ PlainBarrier(w)
  /\ UNCHANGED <<num_total_loop, kv_tile, v_regs, vm, lg, lds, fed>>

AdvanceToNextTile(w) ==
  /\ AnotherTile(w)
  /\ Goto(w, "advance", "k_prefetch")
  /\ i_total_loops' = [i_total_loops EXCEPT ![w] = @ + 1]
  /\ kv_tile' = [kv_tile EXCEPT ![w] = @ + 1]
  /\ k_col' = [k_col EXCEPT ![w] = 0]
  /\ PlainBarrier(w)
  /\ UNCHANGED <<num_total_loop, v_regs, vm, lg, lds, fed>>

AdvancePastLastTile(w) ==
  /\ ~AnotherTile(w)
  /\ Goto(w, "advance", "sync_v1")
  /\ i_total_loops' = [i_total_loops EXCEPT ![w] = @ + 1]
  /\ UNCHANGED <<num_total_loop, kv_tile, k_col, v_regs, vm, lg, lds, arrived, fed>>

PrefetchKHalf0(w) ==
  /\ Goto(w, "k_prefetch", "sync_v1")
  /\ Passed(w)
  /\ IssueVm(w, KCopies(w, LdsSeq[0]))
  /\ k_col' = [k_col EXCEPT ![w] = @ + 1]
  /\ UNCHANGED <<num_total_loop, i_total_loops, kv_tile, v_regs, lg, lds, arrived, fed>>

SyncV1(w) ==
  /\ Goto(w, "sync_v1", "gemm1_1")
  /\ BlockSyncLds(w)
  /\ UNCHANGED <<num_total_loop, waveVars, v_regs, vm, lg, lds, fed>>

\* GEMM1 sub-tile 1 and the loop condition.
Gemm1Sub1(w) ==
  /\ Goto(w, "gemm1_1",
          IF i_total_loops[w] < num_total_loop THEN "k_half1" ELSE "epilogue")
  /\ Passed(w)
  /\ IssueLg(w, <<Read(LdsSeq[3])>>)
  /\ UNCHANGED <<num_total_loop, waveVars, v_regs, vm, lds, arrived, fed>>

\* The accumulators are complete; O is stored and the stores drained.
Epilogue(w) ==
  /\ Goto(w, "epilogue", "done")
  /\ LgFence(w)
  /\ VmFence(w, 0)
  /\ arrived' = ReleaseIfAll(arrived, Running \ {w})
  /\ UNCHANGED <<num_total_loop, waveVars, v_regs, vm, lg, lds, fed>>

-----------------------------------------------------------------------------
(* The memory system: the oldest operation of a queue completes            *)

CopyLands(w) ==
  /\ vm[w] # <<>>
  /\ Head(vm[w]).op = "copy"
  /\ Deposit(Head(vm[w]), w)
  /\ vm' = [vm EXCEPT ![w] = Tail(@)]
  /\ UNCHANGED <<num_total_loop, pc, waveVars, v_regs, lg, arrived, fed>>

\* The registers of a V half are complete when its last load returns.
LoadReturns(w) ==
  /\ vm[w] # <<>>
  /\ Head(vm[w]).op = "load"
  /\ LET op == Head(vm[w]) IN
       v_regs' = IF op.operand.kind = "V" /\ op.issue = StoreIssues
                 THEN [v_regs EXCEPT ![w][op.operand.half] = op.operand]
                 ELSE v_regs
  /\ vm' = [vm EXCEPT ![w] = Tail(@)]
  /\ UNCHANGED <<num_total_loop, pc, waveVars, lg, lds, arrived, fed>>

StoreLands(w) ==
  /\ lg[w] # <<>>
  /\ Head(lg[w]).op = "write"
  /\ Deposit(Head(lg[w]), w)
  /\ lg' = [lg EXCEPT ![w] = Tail(@)]
  /\ UNCHANGED <<num_total_loop, pc, waveVars, v_regs, vm, arrived, fed>>

\* A GEMM gets the operand the buffer holds, or Nothing of use if it is mixed.
ReadReturns(w) ==
  /\ lg[w] # <<>>
  /\ Head(lg[w]).op = "read"
  /\ LET content == lds[Head(lg[w]).buf] IN
       fed' = [fed EXCEPT ![w] = Append(@,
                 IF content = Whole(content.operand) THEN content.operand ELSE Nothing)]
  /\ lg' = [lg EXCEPT ![w] = Tail(@)]
  /\ UNCHANGED <<num_total_loop, pc, waveVars, v_regs, vm, lds, arrived>>

-----------------------------------------------------------------------------

WaveStep(w) ==
  \/ DegenerateExit(w) \/ Prologue(w)
  \/ CopyKHalf1(w) \/ FenceHalf0(w) \/ Gemm0Sub0(w)
  \/ FenceHalf1(w) \/ LoadVHalf0(w) \/ Gemm0Sub1(w)
  \/ RowMax(w) \/ StoreVHalf0(w) \/ RowSum(w)
  \/ SyncV0(w) \/ Gemm1Sub0(w) \/ StoreVHalf1(w)
  \/ AdvanceToNextTile(w) \/ AdvancePastLastTile(w) \/ PrefetchKHalf0(w)
  \/ SyncV1(w) \/ Gemm1Sub1(w) \/ Epilogue(w)

VmStep(w) == CopyLands(w) \/ LoadReturns(w)
LgStep(w) == StoreLands(w) \/ ReadReturns(w)

Terminated == (\A w \in Waves : pc[w] = "done") /\ UNCHANGED vars

Next ==
  \/ \E w \in Waves : WaveStep(w) \/ VmStep(w) \/ LgStep(w)
  \/ Terminated

\* A resident wave is scheduled, and memory answers, eventually.
Fairness == \A w \in Waves : /\ WF_vars(WaveStep(w))
                             /\ WF_vars(VmStep(w))
                             /\ WF_vars(LgStep(w))

Spec     == Init /\ [][Next]_vars
FairSpec == Spec /\ Fairness

-----------------------------------------------------------------------------
(* Properties                                                              *)

Labels ==
  {"prologue", "k_half1", "fence_half0", "gemm0_0", "fence_half1", "load_v0",
   "gemm0_1", "row_max", "store_v0", "row_sum", "sync_v0", "gemm1_0",
   "store_v1", "advance", "k_prefetch", "sync_v1", "gemm1_1", "epilogue", "done"}

Operands == [kind: {"none", "Q", "K", "V"}, tile: 0..MaxTiles, half: 0..1]
Ops      == [op: {"copy", "load", "write", "read"}, buf: Buffers,
             issue: Nat, operand: Operands]

\* Every variable holds a value of its type; the byte bases never point past
\* the last tile and a copy never asks for a third half of K.
TypeOK ==
  /\ num_total_loop \in 0..MaxTiles
  /\ pc \in [Waves -> Labels]
  /\ i_total_loops \in [Waves -> 0..MaxTiles]
  /\ kv_tile \in [Waves -> 0..MaxTiles]
  /\ k_col \in [Waves -> 0..2]
  /\ v_regs \in [Waves -> [0..1 -> Operands]]
  /\ vm \in [Waves -> Seq(Ops)]
  /\ lg \in [Waves -> Seq(Ops)]
  /\ lds \in [Buffers -> [operand: Operands, pieces: SUBSET (Waves \X Nat)]]
  /\ arrived \subseteq Waves
  /\ fed \in [Waves -> Seq(Operands)]

Block == INSTANCE BlockDataflow WITH Waves <- Waves, MaxTiles <- MaxTiles,
                                     num_total_loop <- num_total_loop, fed <- fed

InFlight(q)     == {q[n] : n \in 1..Len(q)}
ReadsOf(w)      == {op \in InFlight(lg[w]) : op.op = "read"}
LdsWritesOf(w)  == {op \in InFlight(vm[w]) \cup InFlight(lg[w]) :
                      op.op \in {"copy", "write"}}

\* While any wave has a read of a buffer in flight, no wave has a copy or a
\* store to that buffer in flight: a GEMM and the staging of the next operand
\* into the same LDS buffer never overlap (op_lds.hpp, LDS BUFFER LAYOUT).
NoWriteUnderRead ==
  \A r, w \in Waves : \A rd \in ReadsOf(r), wr \in LdsWritesOf(w) : rd.buf # wr.buf

\* The waves waiting at the hardware barrier all wait at the same s_barrier of
\* the same tile: the block never mixes two barriers of the loop, although
\* the fourth one is skipped on the last tile.
BarrierMatched ==
  \A v, w \in arrived : pc[v] = pc[w] /\ i_total_loops[v] = i_total_loops[w]

\* The reads of a wave see whole operands of the right tile and half for as
\* long as they are in flight, in the order the two GEMMs consume them.
ReadsSeeTheirOperand ==
  \A w \in Waves : \A n \in 1..Len(lg[w]) : lg[w][n].op = "read" =>
    LET before == {m \in 1..(n - 1) : lg[w][m].op = "read"}
    IN  lds[lg[w][n].buf] = Whole(Block!NthOperand(Len(fed[w]) + Cardinality(before)))

\* The loop feeds every wave exactly the operands BlockDataflow promises, in
\* its order and within its drift, and every wave reaches the end.
ImplementsBlockDataflow == Block!Spec

\* Every wave of every block runs to its end, and then the two counts of tiles
\* agree: the loop was left after num_total_loop of them, and the bases, which
\* the prefetch condition advances, stand at the last, so no tile beyond it was
\* fetched (pipeline.hpp, the prefetch and the do/while).
EveryWaveEnds ==
  <>[](\A w \in Waves :
         /\ pc[w] = "done" /\ i_total_loops[w] = num_total_loop
         /\ num_total_loop > 0 => kv_tile[w] = num_total_loop - 1)
=============================================================================
