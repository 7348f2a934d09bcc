------------------------- MODULE LdsPipelineProofs -------------------------
(***************************************************************************)
(* Theorems about LdsPipeline for any set of waves, any number of tiles    *)
(* and any number of issues: types, barriers and the queues of each wave;  *)
(* then what is in the buffers - none is written under a read, every read  *)
(* sees its whole operand - and that the loop takes the steps of           *)
(* BlockDataflow.                                                          *)
(***************************************************************************)
EXTENDS LdsPipeline, TLAPS, SequenceTheorems, FiniteSetTheorems

(***************************************************************************)
(* The control part of the inductive invariant: where a wave is determines *)
(* its loop counter, the tile its byte bases point at and the half of K it *)
(* copies next.                                                            *)
(***************************************************************************)

\* Labels between the top of the loop body and the loop counter's increment.
InBody == {"k_half1", "fence_half0", "gemm0_0", "fence_half1", "load_v0",
           "gemm0_1", "row_max", "store_v0", "row_sum", "sync_v0", "gemm1_0",
           "store_v1", "advance"}

LoopControl(w) ==
  /\ pc[w] = "prologue" =>
       i_total_loops[w] = 0 /\ kv_tile[w] = 0 /\ k_col[w] = 0
  /\ pc[w] \in InBody =>
       /\ i_total_loops[w] < num_total_loop
       /\ kv_tile[w] = i_total_loops[w]
       /\ k_col[w] = IF pc[w] = "k_half1" THEN 1 ELSE 2
  /\ pc[w] = "k_prefetch" =>
       /\ i_total_loops[w] > 0
       /\ i_total_loops[w] < num_total_loop
       /\ kv_tile[w] = i_total_loops[w]
       /\ k_col[w] = 0
  /\ pc[w] \in {"sync_v1", "gemm1_1"} =>
       /\ i_total_loops[w] > 0
       /\ i_total_loops[w] <= num_total_loop
       /\ i_total_loops[w] < num_total_loop =>
            kv_tile[w] = i_total_loops[w] /\ k_col[w] = 1
  /\ pc[w] \in {"epilogue", "done"} => i_total_loops[w] = num_total_loop

TypeInv == TypeOK /\ \A w \in Waves : LoopControl(w)

\* Naming a half of a K or V tile gives an operand.
LEMMA OperandTypes ==
  ASSUME NEW k \in {"none", "Q", "K", "V"}, NEW t \in 0..MaxTiles, NEW h \in 0..1
  PROVE  Operand(k, t, h) \in Operands
BY DEF Operand, Operands

\* The waves start with the types of TypeInv.
LEMMA InitTypeInv == Init => TypeInv
<1> SUFFICES ASSUME Init PROVE TypeInv
  OBVIOUS
<1>1. Nothing \in Operands
  BY BoundsAssumption, OperandTypes DEF Nothing
<1>2. TypeOK
  BY <1>1, BoundsAssumption DEF Init, TypeOK, Labels, Buffers
<1>3. \A w \in Waves : LoopControl(w)
  BY DEF Init, LoopControl, InBody
<1> QED
  BY <1>2, <1>3 DEF TypeInv

(***************************************************************************)
(* What the program issues, and what leaves a queue, is well typed.        *)
(***************************************************************************)
LEMMA IssuedOpsTypes ==
  ASSUME TypeOK, NEW w \in Waves, NEW h \in 0..1, NEW b \in Buffers
  PROVE  /\ k_col[w] \in 0..1 => KCopies(w, b) \in Seq(Ops)
         /\ VLoads(w, h) \in Seq(Ops)
         /\ VStores(w, h, b) \in Seq(Ops)
         /\ QLoadOps \in Seq(Ops)
         /\ <<Read(b)>> \in Seq(Ops)
<1>1. /\ Nothing \in Operands
      /\ QSlice \in Operands
      /\ Operand("V", kv_tile[w], h) \in Operands
      /\ k_col[w] \in 0..1 => Operand("K", kv_tile[w], k_col[w]) \in Operands
      /\ v_regs[w][h] \in Operands
  BY BoundsAssumption, OperandTypes DEF TypeOK, Nothing, QSlice
<1>3. ASSUME k_col[w] \in 0..1 PROVE KCopies(w, b) \in Seq(Ops)
  <2>1. \A k \in 1..CopyIssues : KCopies(w, b)[k] \in Ops
    BY <1>1, <1>3, BoundsAssumption DEF KCopies, Ops
  <2> QED BY <2>1, BoundsAssumption DEF KCopies
<1>4. VLoads(w, h) \in Seq(Ops)
  <2>1. \A k \in 1..StoreIssues : VLoads(w, h)[k] \in Ops
    BY <1>1, BoundsAssumption DEF VLoads, Ops, Buffers
  <2> QED BY <2>1, BoundsAssumption DEF VLoads
<1>5. VStores(w, h, b) \in Seq(Ops)
  <2>1. \A k \in 1..StoreIssues : VStores(w, h, b)[k] \in Ops
    BY <1>1, BoundsAssumption DEF VStores, Ops, Buffers
  <2> QED BY <2>1, BoundsAssumption DEF VStores
<1>6. QLoadOps \in Seq(Ops)
  <2>1. \A k \in 1..QLoads : QLoadOps[k] \in Ops
    BY <1>1, BoundsAssumption DEF QLoadOps, Ops, Buffers
  <2> QED BY <2>1, BoundsAssumption DEF QLoadOps
<1>7. <<Read(b)>> \in Seq(Ops)
  <2>1. Read(b) \in Ops
    BY <1>1 DEF Read, Ops
  <2> QED BY <2>1
<1> QED
  BY <1>3, <1>4, <1>5, <1>6, <1>7

(***************************************************************************)
(* What each helper of the actions does to the type of its variable.       *)
(***************************************************************************)
LEMMA HelperTypes ==
  ASSUME TypeOK, NEW w \in Waves
  PROVE  /\ \A ops \in Seq(Ops) : IssueVm(w, ops) => vm' \in [Waves -> Seq(Ops)]
         /\ \A ops \in Seq(Ops) : IssueLg(w, ops) => lg' \in [Waves -> Seq(Ops)]
         /\ \A from, to \in Labels : Goto(w, from, to) => pc' \in [Waves -> Labels]
         /\ Arrive(w) => arrived' \subseteq Waves
         /\ \A op \in Ops : Deposit(op, w) =>
              lds' \in [Buffers -> [operand: Operands, pieces: SUBSET (Waves \X Nat)]]
<1>1. ASSUME NEW ops \in Seq(Ops), IssueVm(w, ops) PROVE vm' \in [Waves -> Seq(Ops)]
  BY <1>1 DEF TypeOK, IssueVm
<1>2. ASSUME NEW ops \in Seq(Ops), IssueLg(w, ops) PROVE lg' \in [Waves -> Seq(Ops)]
  BY <1>2 DEF TypeOK, IssueLg
<1>3. ASSUME NEW from \in Labels, NEW to \in Labels, Goto(w, from, to)
      PROVE  pc' \in [Waves -> Labels]
  BY <1>3 DEF TypeOK, Goto
<1>4. ASSUME Arrive(w) PROVE arrived' \subseteq Waves
  BY <1>4 DEF TypeOK, Arrive, ReleaseIfAll
<1>5. ASSUME NEW op \in Ops, Deposit(op, w)
      PROVE  lds' \in [Buffers -> [operand: Operands, pieces: SUBSET (Waves \X Nat)]]
  <2>1. op.buf \in Buffers /\ op.operand \in Operands /\ op.issue \in Nat
    BY DEF Ops
  <2> DEFINE old    == lds[op.buf]
             pieces == {<<w, op.issue>>} \cup
                       IF old.operand = op.operand THEN old.pieces ELSE {}
  <2>2. old.pieces \in SUBSET (Waves \X Nat)
    BY <2>1 DEF TypeOK
  <2>3. pieces \in SUBSET (Waves \X Nat)
    BY <2>1, <2>2
  <2>4. lds' = [lds EXCEPT ![op.buf] = [operand |-> op.operand, pieces |-> pieces]]
    BY <1>5 DEF Deposit
  <2> QED
    BY <2>1, <2>3, <2>4 DEF TypeOK
<1> QED
  BY <1>1, <1>2, <1>3, <1>4, <1>5

\* Every statement of a wave and every answer of memory keeps the types.
LEMMA NextTypeInv == TypeInv /\ [Next]_vars => TypeInv'
<1> SUFFICES ASSUME TypeInv, [Next]_vars PROVE TypeInv'
  OBVIOUS
<1> USE BoundsAssumption DEF TypeInv
<1>0. 0 \in 0..1 /\ 1 \in 0..1 /\ \A s \in 0..3 : LdsSeq[s] \in Buffers
  BY DEF LdsSeq, Buffers
<1>1. ASSUME NEW w \in Waves, DegenerateExit(w) PROVE TypeInv'
  <2>1. TypeOK'
    BY <1>1, HelperTypes
       DEF DegenerateExit, TypeOK, Labels, waveVars, PlainBarrier, BlockSyncLds
  <2>2. \A v \in Waves : LoopControl(v)'
    BY <1>1 DEF DegenerateExit, TypeOK, LoopControl, InBody, Goto, waveVars
  <2> QED BY <2>1, <2>2
<1>2. ASSUME NEW w \in Waves, Prologue(w) PROVE TypeInv'
  <2>1. TypeOK'
    <3>1. pc' \in [Waves -> Labels]
      BY <1>2, HelperTypes DEF Prologue, Labels
    <3>2. k_col[w] \in 0..1 /\ k_col' \in [Waves -> 0..2]
      BY <1>2 DEF Prologue, TypeOK, LoopControl, InBody, Goto
    <3>3. KCopies(w, LdsSeq[0]) \in Seq(Ops) /\ QLoadOps \in Seq(Ops) /\ <<>> \in Seq(Ops)
      BY <3>2, <1>0, IssuedOpsTypes
    <3>4. \A q \in {QLoadOps, <<>>} : q \o KCopies(w, LdsSeq[0]) \in Seq(Ops)
      BY <3>3, ConcatProperties, Zenon
    <3>5. vm' \in [Waves -> Seq(Ops)]
      BY <1>2, <3>4, HelperTypes DEF Prologue
    <3> QED BY <1>2, <3>1, <3>2, <3>3, <3>4, <3>5 DEF Prologue, TypeOK, waveVars
  <2>2. \A v \in Waves : LoopControl(v)'
    BY <1>2 DEF Prologue, TypeOK, LoopControl, InBody, Goto, waveVars
  <2> QED BY <2>1, <2>2
<1>3. ASSUME NEW w \in Waves, CopyKHalf1(w) PROVE TypeInv'
  <2>1. TypeOK'
    <3>1. pc' \in [Waves -> Labels]
      BY <1>3, HelperTypes DEF CopyKHalf1, Labels
    <3>2. k_col[w] \in 0..1 /\ k_col' \in [Waves -> 0..2]
      BY <1>3 DEF CopyKHalf1, TypeOK, LoopControl, InBody, Goto
    <3>3. KCopies(w, LdsSeq[1]) \in Seq(Ops)
      BY <3>2, <1>0, IssuedOpsTypes
    <3>4. vm' \in [Waves -> Seq(Ops)]
      BY <1>3, <3>3, HelperTypes DEF CopyKHalf1
    <3> QED BY <1>3, <3>1, <3>2, <3>3, <3>4 DEF CopyKHalf1, TypeOK, waveVars
  <2>2. \A v \in Waves : LoopControl(v)'
    BY <1>3 DEF CopyKHalf1, TypeOK, LoopControl, InBody, Goto, waveVars
  <2> QED BY <2>1, <2>2
<1>4. ASSUME NEW w \in Waves, FenceHalf0(w) PROVE TypeInv'
  <2>1. TypeOK'
    BY <1>4, HelperTypes
       DEF FenceHalf0, TypeOK, Labels, waveVars, PlainBarrier, BlockSyncLds
  <2>2. \A v \in Waves : LoopControl(v)'
    BY <1>4 DEF FenceHalf0, TypeOK, LoopControl, InBody, Goto, waveVars
  <2> QED BY <2>1, <2>2
<1>5. ASSUME NEW w \in Waves, Gemm0Sub0(w) PROVE TypeInv'
  <2>1. TypeOK'
    <3>1. pc' \in [Waves -> Labels]
      BY <1>5, HelperTypes DEF Gemm0Sub0, Labels
    <3>2. <<Read(LdsSeq[0])>> \in Seq(Ops)
      BY <1>0, IssuedOpsTypes
    <3>3. lg' \in [Waves -> Seq(Ops)]
      BY <1>5, <3>2, HelperTypes DEF Gemm0Sub0
    <3> QED BY <1>5, <3>1, <3>2, <3>3 DEF Gemm0Sub0, TypeOK, waveVars
  <2>2. \A v \in Waves : LoopControl(v)'
    BY <1>5 DEF Gemm0Sub0, TypeOK, LoopControl, InBody, Goto, waveVars
  <2> QED BY <2>1, <2>2
<1>6. ASSUME NEW w \in Waves, FenceHalf1(w) PROVE TypeInv'
  <2>1. TypeOK'
    BY <1>6, HelperTypes
       DEF FenceHalf1, TypeOK, Labels, waveVars, PlainBarrier, BlockSyncLds
  <2>2. \A v \in Waves : LoopControl(v)'
    BY <1>6 DEF FenceHalf1, TypeOK, LoopControl, InBody, Goto, waveVars
  <2> QED BY <2>1, <2>2
<1>7. ASSUME NEW w \in Waves, LoadVHalf0(w) PROVE TypeInv'
  <2>1. TypeOK'
    <3>1. pc' \in [Waves -> Labels]
      BY <1>7, HelperTypes DEF LoadVHalf0, Labels
    <3>2. VLoads(w, 0) \in Seq(Ops)
      BY <1>0, IssuedOpsTypes
    <3>3. vm' \in [Waves -> Seq(Ops)]
      BY <1>7, <3>2, HelperTypes DEF LoadVHalf0
    <3> QED BY <1>7, <3>1, <3>2, <3>3 DEF LoadVHalf0, TypeOK, waveVars
  <2>2. \A v \in Waves : LoopControl(v)'
    BY <1>7 DEF LoadVHalf0, TypeOK, LoopControl, InBody, Goto, waveVars
  <2> QED BY <2>1, <2>2
<1>8. ASSUME NEW w \in Waves, Gemm0Sub1(w) PROVE TypeInv'
  <2>1. TypeOK'
    <3>1. pc' \in [Waves -> Labels]
      BY <1>8, HelperTypes DEF Gemm0Sub1, Labels
    <3>2. <<Read(LdsSeq[1])>> \in Seq(Ops)
      BY <1>0, IssuedOpsTypes
    <3>3. lg' \in [Waves -> Seq(Ops)]
      BY <1>8, <3>2, HelperTypes DEF Gemm0Sub1
    <3> QED BY <1>8, <3>1, <3>2, <3>3 DEF Gemm0Sub1, TypeOK, waveVars
  <2>2. \A v \in Waves : LoopControl(v)'
    BY <1>8 DEF Gemm0Sub1, TypeOK, LoopControl, InBody, Goto, waveVars
  <2> QED BY <2>1, <2>2
<1>9. ASSUME NEW w \in Waves, RowMax(w) PROVE TypeInv'
  <2>1. TypeOK'
    BY <1>9, HelperTypes
       DEF RowMax, TypeOK, Labels, waveVars, PlainBarrier, BlockSyncLds
  <2>2. \A v \in Waves : LoopControl(v)'
    BY <1>9 DEF RowMax, TypeOK, LoopControl, InBody, Goto, waveVars
  <2> QED BY <2>1, <2>2
<1>10. ASSUME NEW w \in Waves, StoreVHalf0(w) PROVE TypeInv'
  <2>1. TypeOK'
    <3>1. pc' \in [Waves -> Labels]
      BY <1>10, HelperTypes DEF StoreVHalf0, Labels
    <3>2. VLoads(w, 1) \in Seq(Ops)
      BY <1>0, IssuedOpsTypes
    <3>3. vm' \in [Waves -> Seq(Ops)]
      BY <1>10, <3>2, HelperTypes DEF StoreVHalf0
    <3>4. VStores(w, 0, LdsSeq[2]) \in Seq(Ops)
      BY <1>0, IssuedOpsTypes
    <3>5. lg' \in [Waves -> Seq(Ops)]
      BY <1>10, <3>4, HelperTypes DEF StoreVHalf0
    <3> QED BY <1>10, <3>1, <3>2, <3>3, <3>4, <3>5 DEF StoreVHalf0, TypeOK, waveVars
  <2>2. \A v \in Waves : LoopControl(v)'
    BY <1>10 DEF StoreVHalf0, TypeOK, LoopControl, InBody, Goto, waveVars
  <2> QED BY <2>1, <2>2
<1>11. ASSUME NEW w \in Waves, RowSum(w) PROVE TypeInv'
  <2>1. TypeOK'
    BY <1>11, HelperTypes
       DEF RowSum, TypeOK, Labels, waveVars, PlainBarrier, BlockSyncLds
  <2>2. \A v \in Waves : LoopControl(v)'
    BY <1>11 DEF RowSum, TypeOK, LoopControl, InBody, Goto, waveVars
  <2> QED BY <2>1, <2>2
<1>12. ASSUME NEW w \in Waves, SyncV0(w) PROVE TypeInv'
  <2>1. TypeOK'
    BY <1>12, HelperTypes
       DEF SyncV0, TypeOK, Labels, waveVars, PlainBarrier, BlockSyncLds
  <2>2. \A v \in Waves : LoopControl(v)'
    BY <1>12 DEF SyncV0, TypeOK, LoopControl, InBody, Goto, waveVars
  <2> QED BY <2>1, <2>2
<1>13. ASSUME NEW w \in Waves, Gemm1Sub0(w) PROVE TypeInv'
  <2>1. TypeOK'
    <3>1. pc' \in [Waves -> Labels]
      BY <1>13, HelperTypes DEF Gemm1Sub0, Labels
    <3>2. <<Read(LdsSeq[2])>> \in Seq(Ops)
      BY <1>0, IssuedOpsTypes
    <3>3. lg' \in [Waves -> Seq(Ops)]
      BY <1>13, <3>2, HelperTypes DEF Gemm1Sub0
    <3> QED BY <1>13, <3>1, <3>2, <3>3 DEF Gemm1Sub0, TypeOK, waveVars
  <2>2. \A v \in Waves : LoopControl(v)'
    BY <1>13 DEF Gemm1Sub0, TypeOK, LoopControl, InBody, Goto, waveVars
  <2> QED BY <2>1, <2>2
<1>14. ASSUME NEW w \in Waves, StoreVHalf1(w) PROVE TypeInv'
  <2>1. TypeOK'
    <3>1. pc' \in [Waves -> Labels]
      BY <1>14, HelperTypes DEF StoreVHalf1, Labels
    <3>2. VStores(w, 1, LdsSeq[3]) \in Seq(Ops)
      BY <1>0, IssuedOpsTypes
    <3>3. lg' \in [Waves -> Seq(Ops)]
      BY <1>14, <3>2, HelperTypes DEF StoreVHalf1
    <3> QED BY <1>14, <3>1, <3>2, <3>3 DEF StoreVHalf1, TypeOK, waveVars
  <2>2. \A v \in Waves : LoopControl(v)'
    BY <1>14 DEF StoreVHalf1, TypeOK, LoopControl, InBody, Goto, waveVars
  <2> QED BY <2>1, <2>2
<1>15. ASSUME NEW w \in Waves, AdvanceToNextTile(w) PROVE TypeInv'
  <2>1. TypeOK'
    <3>1. pc' \in [Waves -> Labels]
      BY <1>15, HelperTypes DEF AdvanceToNextTile, AnotherTile, Labels
    <3>2. arrived' \subseteq Waves
      BY <1>15, HelperTypes DEF AdvanceToNextTile, AnotherTile, PlainBarrier
    <3>3. /\ i_total_loops' \in [Waves -> 0..MaxTiles]
          /\ kv_tile' \in [Waves -> 0..MaxTiles]
          /\ k_col' \in [Waves -> 0..2]
      BY <1>15 DEF AdvanceToNextTile, AnotherTile, TypeOK, LoopControl, InBody, Goto
    <3> QED BY <1>15, <3>1, <3>2, <3>3 DEF AdvanceToNextTile, AnotherTile, TypeOK, waveVars
  <2>2. \A v \in Waves : LoopControl(v)'
    BY <1>15 DEF AdvanceToNextTile, AnotherTile, TypeOK, LoopControl, InBody, Goto, waveVars
  <2> QED BY <2>1, <2>2
<1>16. ASSUME NEW w \in Waves, AdvancePastLastTile(w) PROVE TypeInv'
  <2>1. TypeOK'
    <3>1. pc' \in [Waves -> Labels]
      BY <1>16, HelperTypes DEF AdvancePastLastTile, AnotherTile, Labels
    <3>2. /\ i_total_loops' \in [Waves -> 0..MaxTiles]
          /\ kv_tile' \in [Waves -> 0..MaxTiles]
          /\ k_col' \in [Waves -> 0..2]
      BY <1>16 DEF AdvancePastLastTile, AnotherTile, TypeOK, LoopControl, InBody, Goto
    <3> QED BY <1>16, <3>1, <3>2 DEF AdvancePastLastTile, AnotherTile, TypeOK, waveVars
  <2>2. \A v \in Waves : LoopControl(v)'
    BY <1>16 DEF AdvancePastLastTile, AnotherTile, TypeOK, LoopControl, InBody, Goto, waveVars
  <2> QED BY <2>1, <2>2
<1>17. ASSUME NEW w \in Waves, PrefetchKHalf0(w) PROVE TypeInv'
  <2>1. TypeOK'
    <3>1. pc' \in [Waves -> Labels]
      BY <1>17, HelperTypes DEF PrefetchKHalf0, Labels
    <3>2. k_col[w] \in 0..1 /\ k_col' \in [Waves -> 0..2]
      BY <1>17 DEF PrefetchKHalf0, TypeOK, LoopControl, InBody, Goto
    <3>3. KCopies(w, LdsSeq[0]) \in Seq(Ops)
      BY <3>2, <1>0, IssuedOpsTypes, SMTT(30)
    <3>4. vm' \in [Waves -> Seq(Ops)]
      BY <1>17, <3>3, HelperTypes DEF PrefetchKHalf0
    <3> QED BY <1>17, <3>1, <3>2, <3>3, <3>4 DEF PrefetchKHalf0, TypeOK, waveVars
  <2>2. \A v \in Waves : LoopControl(v)'
    BY <1>17 DEF PrefetchKHalf0, TypeOK, LoopControl, InBody, Goto, waveVars
  <2> QED BY <2>1, <2>2
<1>18. ASSUME NEW w \in Waves, SyncV1(w) PROVE TypeInv'
  <2>1. TypeOK'
    BY <1>18, HelperTypes
       DEF SyncV1, TypeOK, Labels, waveVars, PlainBarrier, BlockSyncLds
  <2>2. \A v \in Waves : LoopControl(v)'
    BY <1>18 DEF SyncV1, TypeOK, LoopControl, InBody, Goto, waveVars
  <2> QED BY <2>1, <2>2
<1>19. ASSUME NEW w \in Waves, Gemm1Sub1(w) PROVE TypeInv'
  <2>1. TypeOK'
    <3>1. pc' \in [Waves -> Labels]
      BY <1>19, HelperTypes DEF Gemm1Sub1, Labels
    <3>2. <<Read(LdsSeq[3])>> \in Seq(Ops)
      BY <1>0, IssuedOpsTypes
    <3>3. lg' \in [Waves -> Seq(Ops)]
      BY <1>19, <3>2, HelperTypes DEF Gemm1Sub1
    <3> QED BY <1>19, <3>1, <3>2, <3>3 DEF Gemm1Sub1, TypeOK, waveVars
  <2>2. \A v \in Waves : LoopControl(v)'
    BY <1>19 DEF Gemm1Sub1, TypeOK, LoopControl, InBody, Goto, waveVars
  <2> QED BY <2>1, <2>2
<1>20. ASSUME NEW w \in Waves, Epilogue(w) PROVE TypeInv'
  <2>1. TypeOK'
    <3>1. pc' \in [Waves -> Labels]
      BY <1>20, HelperTypes DEF Epilogue, Labels
    <3>2. arrived' \subseteq Waves
      BY <1>20 DEF Epilogue, TypeOK, ReleaseIfAll
    <3> QED BY <1>20, <3>1, <3>2 DEF Epilogue, TypeOK, waveVars
  <2>2. \A v \in Waves : LoopControl(v)'
    BY <1>20 DEF Epilogue, TypeOK, LoopControl, InBody, Goto, waveVars
  <2> QED BY <2>1, <2>2
<1>21. ASSUME NEW w \in Waves, CopyLands(w) PROVE TypeInv'
  <2>1. TypeOK'
    BY <1>21, HelperTypes DEF CopyLands, TypeOK, waveVars
  <2>2. \A v \in Waves : LoopControl(v)'
    BY <1>21 DEF CopyLands, LoopControl, waveVars
  <2> QED BY <2>1, <2>2
<1>22. ASSUME NEW w \in Waves, LoadReturns(w) PROVE TypeInv'
  <2>1. TypeOK'
    <3>1. Head(vm[w]) \in Ops /\ Tail(vm[w]) \in Seq(Ops)
      BY <1>22, HeadTailProperties DEF LoadReturns, TypeOK
    <3>2. vm' \in [Waves -> Seq(Ops)]
      BY <1>22, <3>1 DEF LoadReturns, TypeOK
    <3>3. Head(vm[w]).operand \in Operands /\ Head(vm[w]).operand.half \in 0..1
      BY <3>1 DEF Ops, Operands
    <3>4. v_regs' \in [Waves -> [0..1 -> Operands]]
      BY <1>22, <3>3 DEF LoadReturns, TypeOK
    <3> QED BY <1>22, <3>2, <3>4 DEF LoadReturns, TypeOK, waveVars
  <2>2. \A v \in Waves : LoopControl(v)'
    BY <1>22 DEF LoadReturns, LoopControl, waveVars
  <2> QED BY <2>1, <2>2
<1>23. ASSUME NEW w \in Waves, StoreLands(w) PROVE TypeInv'
  <2>1. TypeOK'
    BY <1>23, HelperTypes DEF StoreLands, TypeOK, waveVars
  <2>2. \A v \in Waves : LoopControl(v)'
    BY <1>23 DEF StoreLands, LoopControl, waveVars
  <2> QED BY <2>1, <2>2
<1>24. ASSUME NEW w \in Waves, ReadReturns(w) PROVE TypeInv'
  <2>1. TypeOK'
    <3>1. Head(lg[w]) \in Ops /\ Tail(lg[w]) \in Seq(Ops)
      BY <1>24, HeadTailProperties DEF ReadReturns, TypeOK
    <3>2. lg' \in [Waves -> Seq(Ops)]
      BY <1>24, <3>1 DEF ReadReturns, TypeOK
    <3> DEFINE content == lds[Head(lg[w]).buf]
               got     == IF content = Whole(content.operand)
                          THEN content.operand ELSE Nothing
    <3>3. got \in Operands
      BY <3>1, OperandTypes DEF Ops, TypeOK, Nothing
    <3>4. fed' = [fed EXCEPT ![w] = Append(@, got)]
      BY <1>24 DEF ReadReturns
    <3>5. fed' \in [Waves -> Seq(Operands)]
      BY <3>3, <3>4 DEF TypeOK
    <3> QED BY <1>24, <3>2, <3>5 DEF ReadReturns, TypeOK, waveVars
  <2>2. \A v \in Waves : LoopControl(v)'
    BY <1>24 DEF ReadReturns, LoopControl, waveVars
  <2> QED BY <2>1, <2>2
<1>25. CASE UNCHANGED vars
  BY <1>25 DEF vars, waveVars, TypeOK, LoopControl
<1> QED
  BY <1>1, <1>2, <1>3, <1>4, <1>5, <1>6, <1>7, <1>8, <1>9, <1>10, <1>11, <1>12, <1>13, <1>14, <1>15, <1>16, <1>17, <1>18, <1>19, <1>20, <1>21, <1>22, <1>23, <1>24, <1>25
     DEF Next, WaveStep, VmStep, LgStep, Terminated

\* Every variable keeps its type for any waves, tiles and issue counts; in
\* particular no byte base passes the last tile and no copy is for a third
\* half of K.
THEOREM TypeCorrect == Spec => []TypeOK
<1>1. TypeInv => TypeOK
  BY DEF TypeInv
<1> QED
  BY <1>1, InitTypeInv, NextTypeInv, PTL DEF Spec

-----------------------------------------------------------------------------
(* Barriers.  Between the program counters of two waves there is at most   *)
(* one barrier: count the barriers each wave has arrived at.               *)

\* Labels right after the arrival at a barrier: where a wave waits.
AfterArrival == {"gemm0_0", "load_v0", "gemm1_0", "k_prefetch", "gemm1_1"}

\* Barriers arrived at since the loop counter last was a multiple of five;
\* the counter advances before the fourth barrier of a tile.
Stage(l) ==
  CASE l \in {"gemm0_0", "fence_half1"} -> 1
    [] l \in {"load_v0", "gemm0_1", "row_max", "store_v0", "row_sum", "sync_v0"} -> 2
    [] l \in {"gemm1_0", "store_v1", "advance"} -> 3
    [] l \in {"k_prefetch", "sync_v1"} -> -1
    [] OTHER -> 0

\* The last tile skips one barrier.
Arrivals(w) == 5 * i_total_loops[w] + Stage(pc[w])
               - (IF i_total_loops[w] = num_total_loop THEN 1 ELSE 0)

Released(w) == Arrivals(w) - (IF w \in arrived THEN 1 ELSE 0)

BarrierInv ==
  /\ \A w \in arrived : pc[w] \in AfterArrival
  /\ \A v, w \in Waves : Released(v) = Released(w)

\* Until its last arrival a wave has arrived at fewer barriers than the block
\* has in all, and no wave ever arrives at more.
LEMMA ArrivalBounds ==
  ASSUME TypeInv, NEW w \in Waves
  PROVE  /\ Arrivals(w) \in Int
         /\ Arrivals(w) <= 5 * num_total_loop - 1
         /\ pc[w] \in {"fence_half0", "fence_half1", "sync_v0", "advance", "sync_v1"}
              => Arrivals(w) < 5 * num_total_loop - 1
         /\ pc[w] = "epilogue" \/ pc[w] = "done" => Arrivals(w) = 5 * num_total_loop - 1
<1>1. /\ num_total_loop \in Nat
      /\ i_total_loops[w] \in Nat
      /\ pc[w] \in Labels
      /\ LoopControl(w)
  BY BoundsAssumption DEF TypeInv, TypeOK
<1> QED
  BY <1>1 DEF Arrivals, Stage, LoopControl, InBody, Labels

\* A wave that arrives keeps the counts of released barriers equal, whether it
\* waits or is the last one and releases the others.
LEMMA ArriveStep ==
  ASSUME TypeInv, BarrierInv, NEW w \in Waves, w \notin arrived, Arrive(w),
         Arrivals(w) < 5 * num_total_loop - 1,
         Arrivals(w)' = Arrivals(w) + 1,
         \A v \in Waves \ {w} : Arrivals(v)' = Arrivals(v)
  PROVE  \A u, v \in Waves : Released(u)' = Released(v)'
<1>1. \A v \in Waves : Arrivals(v) \in Int
  BY ArrivalBounds
<1>2. \A v \in Waves : Arrivals(v) = Arrivals(w) + IF v \in arrived THEN 1 ELSE 0
  BY <1>1 DEF BarrierInv, Released
<1>3. CASE ~(Running \subseteq arrived \cup {w})
  <2>1. arrived' = arrived \cup {w}
    BY <1>3 DEF Arrive, ReleaseIfAll
  <2> QED BY <1>1, <1>2, <2>1 DEF Released
<1>4. CASE Running \subseteq arrived \cup {w}
  <2>1. arrived' = {}
    BY <1>4 DEF Arrive, ReleaseIfAll
  <2>2. Waves \subseteq arrived \cup {w}
    <3> SUFFICES ASSUME NEW v \in Waves, v \notin arrived \cup {w} PROVE FALSE
      OBVIOUS
    <3>1. pc[v] = "done"
      BY <1>4 DEF Running
    <3>2. Arrivals(v) = 5 * num_total_loop - 1
      BY <3>1, ArrivalBounds
    <3> QED BY <1>1, <1>2, <3>2
  <2> QED BY <1>1, <1>2, <2>1, <2>2 DEF Released
<1> QED BY <1>3, <1>4

\* Every statement keeps the waves within one barrier of each other.
LEMMA NextBarrierInv == TypeInv /\ BarrierInv /\ [Next]_vars => BarrierInv'
<1> SUFFICES ASSUME TypeInv, BarrierInv, [Next]_vars PROVE BarrierInv'
  OBVIOUS
<1> USE DEF TypeInv
<1>1. ASSUME NEW w \in Waves, DegenerateExit(w) PROVE BarrierInv'
  <2>1. \A v \in Waves : Arrivals(v)' = Arrivals(v)
    BY <1>1, BoundsAssumption
       DEF DegenerateExit, Goto, waveVars, TypeOK, LoopControl, InBody, Arrivals, Stage
  <2>2. \A v \in arrived' : v \in arrived /\ pc'[v] \in AfterArrival
    BY <1>1 DEF DegenerateExit, Goto, Passed, TypeOK, BarrierInv, AfterArrival
  <2> QED
    BY <1>1, <2>1, <2>2 DEF DegenerateExit, BarrierInv, Released
<1>2. ASSUME NEW w \in Waves, Prologue(w) PROVE BarrierInv'
  <2>1. \A v \in Waves : Arrivals(v)' = Arrivals(v)
    BY <1>2, BoundsAssumption
       DEF Prologue, Goto, waveVars, TypeOK, LoopControl, InBody, Arrivals, Stage
  <2>2. \A v \in arrived' : v \in arrived /\ pc'[v] \in AfterArrival
    BY <1>2 DEF Prologue, Goto, Passed, TypeOK, BarrierInv, AfterArrival
  <2> QED
    BY <1>2, <2>1, <2>2 DEF Prologue, BarrierInv, Released
<1>3. ASSUME NEW w \in Waves, CopyKHalf1(w) PROVE BarrierInv'
  <2>1. \A v \in Waves : Arrivals(v)' = Arrivals(v)
    BY <1>3, BoundsAssumption
       DEF CopyKHalf1, Goto, waveVars, TypeOK, LoopControl, InBody, Arrivals, Stage
  <2>2. \A v \in arrived' : v \in arrived /\ pc'[v] \in AfterArrival
    BY <1>3 DEF CopyKHalf1, Goto, Passed, TypeOK, BarrierInv, AfterArrival
  <2> QED
    BY <1>3, <2>1, <2>2 DEF CopyKHalf1, BarrierInv, Released
<1>4. ASSUME NEW w \in Waves, FenceHalf0(w) PROVE BarrierInv'
  <2>1. w \notin arrived
    BY <1>4 DEF FenceHalf0, Goto, BarrierInv, AfterArrival
  <2>2. Arrivals(w) < 5 * num_total_loop - 1
    BY <1>4, ArrivalBounds DEF FenceHalf0, Goto
  <2>3. /\ Arrivals(w)' = Arrivals(w) + 1
        /\ \A v \in Waves \ {w} : Arrivals(v)' = Arrivals(v)
    BY <1>4, BoundsAssumption
       DEF FenceHalf0, Goto, waveVars, TypeOK, LoopControl, InBody, Arrivals, Stage
  <2>4. Arrive(w)
    BY <1>4 DEF FenceHalf0, PlainBarrier, BlockSyncLds
  <2>5. \A v \in arrived' : pc'[v] \in AfterArrival
    BY <1>4, <2>4 DEF FenceHalf0, Goto, Arrive, ReleaseIfAll, TypeOK, BarrierInv, AfterArrival
  <2> QED
    BY <2>1, <2>2, <2>3, <2>4, <2>5, ArriveStep DEF BarrierInv
<1>5. ASSUME NEW w \in Waves, Gemm0Sub0(w) PROVE BarrierInv'
  <2>1. \A v \in Waves : Arrivals(v)' = Arrivals(v)
    BY <1>5, BoundsAssumption
       DEF Gemm0Sub0, Goto, waveVars, TypeOK, LoopControl, InBody, Arrivals, Stage
  <2>2. \A v \in arrived' : v \in arrived /\ pc'[v] \in AfterArrival
    BY <1>5 DEF Gemm0Sub0, Goto, Passed, TypeOK, BarrierInv, AfterArrival
  <2> QED
    BY <1>5, <2>1, <2>2 DEF Gemm0Sub0, BarrierInv, Released
<1>6. ASSUME NEW w \in Waves, FenceHalf1(w) PROVE BarrierInv'
  <2>1. w \notin arrived
    BY <1>6 DEF FenceHalf1, Goto, BarrierInv, AfterArrival
  <2>2. Arrivals(w) < 5 * num_total_loop - 1
    BY <1>6, ArrivalBounds DEF FenceHalf1, Goto
  <2>3. /\ Arrivals(w)' = Arrivals(w) + 1
        /\ \A v \in Waves \ {w} : Arrivals(v)' = Arrivals(v)
    BY <1>6, BoundsAssumption
       DEF FenceHalf1, Goto, waveVars, TypeOK, LoopControl, InBody, Arrivals, Stage
  <2>4. Arrive(w)
    BY <1>6 DEF FenceHalf1, PlainBarrier, BlockSyncLds
  <2>5. \A v \in arrived' : pc'[v] \in AfterArrival
    BY <1>6, <2>4 DEF FenceHalf1, Goto, Arrive, ReleaseIfAll, TypeOK, BarrierInv, AfterArrival
  <2> QED
    BY <2>1, <2>2, <2>3, <2>4, <2>5, ArriveStep DEF BarrierInv
<1>7. ASSUME NEW w \in Waves, LoadVHalf0(w) PROVE BarrierInv'
  <2>1. \A v \in Waves : Arrivals(v)' = Arrivals(v)
    BY <1>7, BoundsAssumption
       DEF LoadVHalf0, Goto, waveVars, TypeOK, LoopControl, InBody, Arrivals, Stage
  <2>2. \A v \in arrived' : v \in arrived /\ pc'[v] \in AfterArrival
    BY <1>7 DEF LoadVHalf0, Goto, Passed, TypeOK, BarrierInv, AfterArrival
  <2> QED
    BY <1>7, <2>1, <2>2 DEF LoadVHalf0, BarrierInv, Released
<1>8. ASSUME NEW w \in Waves, Gemm0Sub1(w) PROVE BarrierInv'
  <2>1. \A v \in Waves : Arrivals(v)' = Arrivals(v)
    BY <1>8, BoundsAssumption
       DEF Gemm0Sub1, Goto, waveVars, TypeOK, LoopControl, InBody, Arrivals, Stage
  <2>2. \A v \in arrived' : v \in arrived /\ pc'[v] \in AfterArrival
    BY <1>8 DEF Gemm0Sub1, Goto, Passed, TypeOK, BarrierInv, AfterArrival
  <2> QED
    BY <1>8, <2>1, <2>2 DEF Gemm0Sub1, BarrierInv, Released
<1>9. ASSUME NEW w \in Waves, RowMax(w) PROVE BarrierInv'
  <2>1. \A v \in Waves : Arrivals(v)' = Arrivals(v)
    BY <1>9, BoundsAssumption
       DEF RowMax, Goto, waveVars, TypeOK, LoopControl, InBody, Arrivals, Stage
  <2>2. \A v \in arrived' : v \in arrived /\ pc'[v] \in AfterArrival
    BY <1>9 DEF RowMax, Goto, Passed, TypeOK, BarrierInv, AfterArrival
  <2> QED
    BY <1>9, <2>1, <2>2 DEF RowMax, BarrierInv, Released
<1>10. ASSUME NEW w \in Waves, StoreVHalf0(w) PROVE BarrierInv'
  <2>1. \A v \in Waves : Arrivals(v)' = Arrivals(v)
    BY <1>10, BoundsAssumption
       DEF StoreVHalf0, Goto, waveVars, TypeOK, LoopControl, InBody, Arrivals, Stage
  <2>2. \A v \in arrived' : v \in arrived /\ pc'[v] \in AfterArrival
    BY <1>10 DEF StoreVHalf0, Goto, Passed, TypeOK, BarrierInv, AfterArrival
  <2> QED
    BY <1>10, <2>1, <2>2 DEF StoreVHalf0, BarrierInv, Released
<1>11. ASSUME NEW w \in Waves, RowSum(w) PROVE BarrierInv'
  <2>1. \A v \in Waves : Arrivals(v)' = Arrivals(v)
    BY <1>11, BoundsAssumption
       DEF RowSum, Goto, waveVars, TypeOK, LoopControl, InBody, Arrivals, Stage
  <2>2. \A v \in arrived' : v \in arrived /\ pc'[v] \in AfterArrival
    BY <1>11 DEF RowSum, Goto, Passed, TypeOK, BarrierInv, AfterArrival
  <2> QED
    BY <1>11, <2>1, <2>2 DEF RowSum, BarrierInv, Released
<1>12. ASSUME NEW w \in Waves, SyncV0(w) PROVE BarrierInv'
  <2>1. w \notin arrived
    BY <1>12 DEF SyncV0, Goto, BarrierInv, AfterArrival
  <2>2. Arrivals(w) < 5 * num_total_loop - 1
    BY <1>12, ArrivalBounds DEF SyncV0, Goto
  <2>3. /\ Arrivals(w)' = Arrivals(w) + 1
        /\ \A v \in Waves \ {w} : Arrivals(v)' = Arrivals(v)
    BY <1>12, BoundsAssumption
       DEF SyncV0, Goto, waveVars, TypeOK, LoopControl, InBody, Arrivals, Stage
  <2>4. Arrive(w)
    BY <1>12 DEF SyncV0, PlainBarrier, BlockSyncLds
  <2>5. \A v \in arrived' : pc'[v] \in AfterArrival
    BY <1>12, <2>4 DEF SyncV0, Goto, Arrive, ReleaseIfAll, TypeOK, BarrierInv, AfterArrival
  <2> QED
    BY <2>1, <2>2, <2>3, <2>4, <2>5, ArriveStep DEF BarrierInv
<1>13. ASSUME NEW w \in Waves, Gemm1Sub0(w) PROVE BarrierInv'
  <2>1. \A v \in Waves : Arrivals(v)' = Arrivals(v)
    BY <1>13, BoundsAssumption
       DEF Gemm1Sub0, Goto, waveVars, TypeOK, LoopControl, InBody, Arrivals, Stage
  <2>2. \A v \in arrived' : v \in arrived /\ pc'[v] \in AfterArrival
    BY <1>13 DEF Gemm1Sub0, Goto, Passed, TypeOK, BarrierInv, AfterArrival
  <2> QED
    BY <1>13, <2>1, <2>2 DEF Gemm1Sub0, BarrierInv, Released
<1>14. ASSUME NEW w \in Waves, StoreVHalf1(w) PROVE BarrierInv'
  <2>1. \A v \in Waves : Arrivals(v)' = Arrivals(v)
    BY <1>14, BoundsAssumption
       DEF StoreVHalf1, Goto, waveVars, TypeOK, LoopControl, InBody, Arrivals, Stage
  <2>2. \A v \in arrived' : v \in arrived /\ pc'[v] \in AfterArrival
    BY <1>14 DEF StoreVHalf1, Goto, Passed, TypeOK, BarrierInv, AfterArrival
  <2> QED
    BY <1>14, <2>1, <2>2 DEF StoreVHalf1, BarrierInv, Released
<1>15. ASSUME NEW w \in Waves, AdvanceToNextTile(w) PROVE BarrierInv'
  <2>1. w \notin arrived
    BY <1>15 DEF AdvanceToNextTile, AnotherTile, Goto, BarrierInv, AfterArrival
  <2>2. Arrivals(w) < 5 * num_total_loop - 1
    BY <1>15, ArrivalBounds DEF AdvanceToNextTile, AnotherTile, Goto
  <2>3. /\ Arrivals(w)' = Arrivals(w) + 1
        /\ \A v \in Waves \ {w} : Arrivals(v)' = Arrivals(v)
    BY <1>15, BoundsAssumption, SMTT(30)
       DEF AdvanceToNextTile, AnotherTile, Goto, waveVars, TypeOK, LoopControl, InBody, Arrivals, Stage
  <2>4. Arrive(w)
    BY <1>15 DEF AdvanceToNextTile, AnotherTile, PlainBarrier, BlockSyncLds
  <2>5. \A v \in arrived' : pc'[v] \in AfterArrival
    BY <1>15, <2>4 DEF AdvanceToNextTile, AnotherTile, Goto, Arrive, ReleaseIfAll, TypeOK, BarrierInv, AfterArrival
  <2> QED
    BY <2>1, <2>2, <2>3, <2>4, <2>5, ArriveStep DEF BarrierInv
<1>16. ASSUME NEW w \in Waves, AdvancePastLastTile(w) PROVE BarrierInv'
  <2>1. \A v \in Waves : Arrivals(v)' = Arrivals(v)
    <3>1. /\ pc[w] = "advance" /\ i_total_loops[w] \in Nat /\ num_total_loop \in Nat
          /\ i_total_loops[w] + 1 = num_total_loop
      BY <1>16, BoundsAssumption DEF AdvancePastLastTile, AnotherTile, Goto, TypeOK, LoopControl, InBody
    <3>2. /\ num_total_loop' = num_total_loop
          /\ pc' = [pc EXCEPT ![w] = "sync_v1"]
          /\ i_total_loops' = [i_total_loops EXCEPT ![w] = @ + 1]
          /\ pc \in [Waves -> Labels] /\ i_total_loops \in [Waves -> 0..MaxTiles]
      BY <1>16 DEF AdvancePastLastTile, AnotherTile, Goto, TypeOK
    <3>3. Arrivals(w)' = Arrivals(w)
      BY <3>1, <3>2 DEF Arrivals, Stage
    <3>4. ASSUME NEW v \in Waves, v # w PROVE Arrivals(v)' = Arrivals(v)
      BY <3>2, <3>4 DEF Arrivals
    <3> QED BY <3>3, <3>4
  <2>2. \A v \in arrived' : v \in arrived /\ pc'[v] \in AfterArrival
    BY <1>16 DEF AdvancePastLastTile, AnotherTile, Goto, Passed, TypeOK, BarrierInv, AfterArrival
  <2> QED
    BY <1>16, <2>1, <2>2 DEF AdvancePastLastTile, AnotherTile, BarrierInv, Released
<1>17. ASSUME NEW w \in Waves, PrefetchKHalf0(w) PROVE BarrierInv'
  <2>1. \A v \in Waves : Arrivals(v)' = Arrivals(v)
    BY <1>17, BoundsAssumption
       DEF PrefetchKHalf0, Goto, waveVars, TypeOK, LoopControl, InBody, Arrivals, Stage
  <2>2. \A v \in arrived' : v \in arrived /\ pc'[v] \in AfterArrival
    BY <1>17 DEF PrefetchKHalf0, Goto, Passed, TypeOK, BarrierInv, AfterArrival
  <2> QED
    BY <1>17, <2>1, <2>2 DEF PrefetchKHalf0, BarrierInv, Released
<1>18. ASSUME NEW w \in Waves, SyncV1(w) PROVE BarrierInv'
  <2>1. w \notin arrived
    BY <1>18 DEF SyncV1, Goto, BarrierInv, AfterArrival
  <2>2. Arrivals(w) < 5 * num_total_loop - 1
    BY <1>18, ArrivalBounds DEF SyncV1, Goto
  <2>3. /\ Arrivals(w)' = Arrivals(w) + 1
        /\ \A v \in Waves \ {w} : Arrivals(v)' = Arrivals(v)
    BY <1>18, BoundsAssumption
       DEF SyncV1, Goto, waveVars, TypeOK, LoopControl, InBody, Arrivals, Stage
  <2>4. Arrive(w)
    BY <1>18 DEF SyncV1, PlainBarrier, BlockSyncLds
  <2>5. \A v \in arrived' : pc'[v] \in AfterArrival
    BY <1>18, <2>4 DEF SyncV1, Goto, Arrive, ReleaseIfAll, TypeOK, BarrierInv, AfterArrival
  <2> QED
    BY <2>1, <2>2, <2>3, <2>4, <2>5, ArriveStep DEF BarrierInv
<1>19. ASSUME NEW w \in Waves, Gemm1Sub1(w) PROVE BarrierInv'
  <2>1. \A v \in Waves : Arrivals(v)' = Arrivals(v)
    BY <1>19, BoundsAssumption
       DEF Gemm1Sub1, Goto, waveVars, TypeOK, LoopControl, InBody, Arrivals, Stage
  <2>2. \A v \in arrived' : v \in arrived /\ pc'[v] \in AfterArrival
    BY <1>19 DEF Gemm1Sub1, Goto, Passed, TypeOK, BarrierInv, AfterArrival
  <2> QED
    BY <1>19, <2>1, <2>2 DEF Gemm1Sub1, BarrierInv, Released
<1>20. ASSUME NEW w \in Waves, Epilogue(w) PROVE BarrierInv'
  <2>1. \A v \in Waves : Arrivals(v) \in Int /\ Arrivals(v) <= 5 * num_total_loop - 1
    BY ArrivalBounds
  <2>2. w \notin arrived /\ Arrivals(w) = 5 * num_total_loop - 1
    BY <1>20, ArrivalBounds DEF Epilogue, Goto, BarrierInv, AfterArrival
  <2>3. arrived = {}
    <3> SUFFICES ASSUME NEW v \in arrived PROVE FALSE
      OBVIOUS
    <3>1. v \in Waves
      BY DEF TypeOK
    <3>2. Arrivals(v) - 1 = Arrivals(w)
      BY <2>2, <3>1, <2>1 DEF BarrierInv, Released
    <3> QED BY <2>1, <2>2, <3>1, <3>2
  <2>4. arrived' = {}
    BY <1>20, <2>3 DEF Epilogue, ReleaseIfAll
  <2>5. \A v \in Waves : Arrivals(v)' = Arrivals(v)
    BY <1>20 DEF Epilogue, Goto, waveVars, TypeOK, Arrivals, Stage
  <2> QED
    BY <2>3, <2>4, <2>5 DEF BarrierInv, Released
<1>21. ASSUME UNCHANGED <<num_total_loop, pc, waveVars, arrived>> PROVE BarrierInv'
  BY <1>21 DEF waveVars, BarrierInv, Released, Arrivals
<1>22. ASSUME NEW w \in Waves, VmStep(w) \/ LgStep(w)
      PROVE  UNCHANGED <<num_total_loop, pc, waveVars, arrived>>
  BY <1>22 DEF VmStep, LgStep, CopyLands, LoadReturns, StoreLands, ReadReturns
<1>23. CASE UNCHANGED vars
  BY <1>21, <1>23 DEF vars
<1> QED
  BY <1>1, <1>2, <1>3, <1>4, <1>5, <1>6, <1>7, <1>8, <1>9, <1>10, <1>11, <1>12, <1>13, <1>14, <1>15, <1>16, <1>17, <1>18, <1>19, <1>20, <1>21, <1>22, <1>23
     DEF Next, WaveStep, Terminated

\* Waves within one barrier of each other wait at the same one.
LEMMA BarrierInvMatches == TypeInv /\ BarrierInv => BarrierMatched
<1> SUFFICES ASSUME TypeInv, BarrierInv, NEW v \in arrived, NEW w \in arrived
             PROVE  pc[v] = pc[w] /\ i_total_loops[v] = i_total_loops[w]
  BY DEF BarrierMatched
<1>1. v \in Waves /\ w \in Waves
  BY DEF TypeInv, TypeOK
<1>2. /\ num_total_loop \in Nat
      /\ i_total_loops[v] \in Nat /\ i_total_loops[w] \in Nat
      /\ LoopControl(v) /\ LoopControl(w)
  BY <1>1, BoundsAssumption DEF TypeInv, TypeOK
<1>3. pc[v] \in AfterArrival /\ pc[w] \in AfterArrival
  BY DEF BarrierInv
<1>4. Arrivals(v) = Arrivals(w)
  BY <1>1, ArrivalBounds DEF BarrierInv, Released
<1> QED
  BY <1>2, <1>3, <1>4 DEF Arrivals, Stage, AfterArrival, LoopControl, InBody

\* The barriers of the loop never mix: waves waiting at the hardware barrier
\* wait at the same s_barrier of the same tile, for any number of waves and
\* tiles, although a block skips one barrier of its last tile.
THEOREM BarriersNeverMix == Spec => []BarrierMatched
<1>1. Init => BarrierInv
  BY DEF Init, BarrierInv, Released, Arrivals, Stage
<1> QED
  BY <1>1, InitTypeInv, NextTypeInv, NextBarrierInv, BarrierInvMatches, PTL DEF Spec

-----------------------------------------------------------------------------
(***************************************************************************)
(* What a wave has in flight at every statement: the wave's own part of    *)
(* the invariant of the data flow, further down.                           *)
(***************************************************************************)
\* What the compiled code has to guarantee at the barriers the source leaves
\* open: past the first plain barrier of the body the wait for the reads of the
\* last GEMM may sink, past the two others it may not.
ReadsDrainInTime == WaitsSinkPast \subseteq {"fence_half0"}

-----------------------------------------------------------------------------
(***************************************************************************)
(* What is in flight.  A queue is the tail of what the wave has issued since *)
(* it was last known to be empty, and where the wave is says what that was. *)
(***************************************************************************)

Suffix(q, p) ==
  /\ Len(q) <= Len(p)
  /\ \A n \in 1..Len(q) : q[n] = p[Len(p) - Len(q) + n]

\* The copies of half h of K tile t into buffer b, in issue order.
KHalf(t, h, b) ==
  [n \in 1..CopyIssues |->
     [op |-> "copy", buf |-> b, issue |-> n, operand |-> Operand("K", t, h)]]

\* The register loads of half h of V tile t.
VHalfLoads(t, h) ==
  [n \in 1..StoreIssues |->
     [op |-> "load", buf |-> 0, issue |-> n, operand |-> Operand("V", t, h)]]

\* The stores of half h of V tile t into buffer b.
VHalfStores(t, h, b) ==
  [n \in 1..StoreIssues |->
     [op |-> "write", buf |-> b, issue |-> n, operand |-> Operand("V", t, h)]]

\* The loads and copies issued since the queue last was known to be empty.
VmIssued(w) ==
  LET t == kv_tile[w] IN
  CASE pc[w] = "k_half1" -> QLoadOps \o KHalf(t, 0, 1)
    [] pc[w] = "fence_half0" -> (QLoadOps \o KHalf(t, 0, 1)) \o KHalf(t, 1, 2)
    [] pc[w] \in {"gemm0_0", "fence_half1"} -> KHalf(t, 1, 2)
    [] pc[w] \in {"gemm0_1", "row_max", "store_v0"} -> VHalfLoads(t, 0)
    [] pc[w] \in {"row_sum", "sync_v0", "gemm1_0", "store_v1"} -> VHalfLoads(t, 1)
    [] pc[w] \in {"sync_v1", "gemm1_1"} /\ i_total_loops[w] < num_total_loop -> KHalf(t, 0, 1)
    [] OTHER -> <<>>

\* The read of V half 1 of the previous tile.
LastRead(w) == IF i_total_loops[w] = 0 THEN <<>> ELSE <<Read(0)>>

\* The same for LDS: reads of the GEMMs and stores of V.
LgIssued(w) ==
  LET i == i_total_loops[w] IN
  CASE pc[w] \in {"k_half1", "fence_half0", "gemm0_0", "epilogue"} -> LastRead(w)
    [] pc[w] = "fence_half1" -> LastRead(w) \o <<Read(1)>>
    [] pc[w] = "row_max" -> <<Read(2)>>
    [] pc[w] = "row_sum" -> VHalfStores(i, 0, 1)
    [] pc[w] = "store_v1" -> <<Read(1)>>
    [] pc[w] = "advance" -> <<Read(1)>> \o VHalfStores(i, 1, 0)
    [] pc[w] = "k_prefetch" -> VHalfStores(i - 1, 1, 0)
    [] pc[w] = "sync_v1" ->
         IF i < num_total_loop THEN VHalfStores(i - 1, 1, 0)
         ELSE <<Read(1)>> \o VHalfStores(i - 1, 1, 0)
    [] OTHER -> <<>>

\* What is in flight is the tail of what was issued.
QueueInv(w) ==
  /\ Suffix(vm[w], VmIssued(w))
  /\ Suffix(lg[w], LgIssued(w))

\* Once its loads have returned, a V half is in the registers.
RegsInv(w) ==
  vm[w] = <<>> =>
    /\ pc[w] \in {"gemm0_1", "row_max", "store_v0"} =>
         v_regs[w][0] = Operand("V", kv_tile[w], 0)
    /\ pc[w] \in {"row_sum", "sync_v0", "gemm1_0", "store_v1"} =>
         v_regs[w][1] = Operand("V", kv_tile[w], 1)

-----------------------------------------------------------------------------
(***************************************************************************)
(* How many reads a wave has issued, and how many of them have returned.   *)
(***************************************************************************)

\* The reads a wave has issued by where it is.
ReadsIssued(w) ==
  LET i == i_total_loops[w] IN
  CASE pc[w] \in {"prologue", "k_half1", "fence_half0", "gemm0_0"} -> 4 * i
    [] pc[w] \in {"fence_half1", "load_v0", "gemm0_1"} -> 4 * i + 1
    [] pc[w] \in {"row_max", "store_v0", "row_sum", "sync_v0", "gemm1_0"} -> 4 * i + 2
    [] pc[w] \in {"store_v1", "advance"} -> 4 * i + 3
    [] pc[w] \in {"k_prefetch", "sync_v1", "gemm1_1"} -> 4 * i - 1
    [] OTHER -> 4 * i

\* The reads of them that have not returned.
ReadsInFlight(w) ==
  CASE pc[w] \in {"advance", "sync_v1"} -> IF Len(lg[w]) > StoreIssues THEN 1 ELSE 0
    [] pc[w] \in {"row_sum", "k_prefetch"} -> 0
    [] OTHER -> Len(lg[w])

\* Every read issued has fed a GEMM or is in flight.
CountInv(w) == Len(fed[w]) + ReadsInFlight(w) = ReadsIssued(w)

\* The part of the invariant that concerns one wave.
LocalInv(w) == QueueInv(w) /\ RegsInv(w) /\ CountInv(w)

-----------------------------------------------------------------------------
(***************************************************************************)
(* What a wave has delivered to LDS: pieces of an operand count as delivered *)
(* from their landing on, and for ever.                                    *)
(***************************************************************************)

\* Wave w has delivered piece k of operand d.
Delivered(w, d, k) ==
  LET i == i_total_loops[w]
      here == i = d.tile /\ i < num_total_loop
  IN
  \/ d.kind = "K" /\ d.half = 0 /\
       \/ i > d.tile
       \/ here /\ pc[w] \in {"sync_v1", "gemm1_1", "k_half1"} /\ k + Len(vm[w]) <= CopyIssues
       \/ here /\ pc[w] = "fence_half0" /\ k + Len(vm[w]) <= 2 * CopyIssues
       \/ here /\ pc[w] \notin {"prologue", "k_prefetch", "sync_v1", "gemm1_1", "k_half1", "fence_half0"}
  \/ d.kind = "K" /\ d.half = 1 /\
       \/ i > d.tile
       \/ here /\ pc[w] \in {"fence_half0", "gemm0_0", "fence_half1"} /\ k + Len(vm[w]) <= CopyIssues
       \/ here /\ pc[w] \notin {"prologue", "k_prefetch", "sync_v1", "gemm1_1", "k_half1",
                                "fence_half0", "gemm0_0", "fence_half1"}
  \/ d.kind = "V" /\ d.half = 0 /\
       \/ i > d.tile
       \/ here /\ pc[w] = "row_sum" /\ k + Len(lg[w]) <= StoreIssues
       \/ here /\ pc[w] \in {"sync_v0", "gemm1_0", "store_v1", "advance"}
  \/ d.kind = "V" /\ d.half = 1 /\
       \/ i > d.tile + 1
       \/ i = d.tile /\ pc[w] = "advance" /\ k + Len(lg[w]) <= StoreIssues
       \/ i = d.tile + 1 /\ pc[w] \in {"k_prefetch", "sync_v1"} /\ k + Len(lg[w]) <= StoreIssues
       \/ i = d.tile + 1 /\ pc[w] \notin {"k_prefetch", "sync_v1"}

\* The step delivers nothing of this wave's.
Quiet(w) ==
  \A d \in Block!Operands : \A k \in 1..Issues(d.kind) :
    Delivered(w, d, k)' <=> Delivered(w, d, k)

\* The wave stays in its phase or passes one barrier.
PhaseMoves(w) == Released(w)' \in {Released(w), Released(w) + 1}

-----------------------------------------------------------------------------
(***************************************************************************)
(* Suffixes, and the groups of issues as sequences.                        *)
(***************************************************************************)

\* The head of a suffix is where the suffix starts, its tail is a suffix.
LEMMA SuffixTail ==
  ASSUME NEW q \in Seq(Ops), NEW p \in Seq(Ops), q # <<>>, Suffix(q, p)
  PROVE  /\ Suffix(Tail(q), p)
         /\ Len(Tail(q)) = Len(q) - 1
         /\ Head(q) = q[1]
         /\ Head(q) = p[Len(p) - Len(q) + 1]
BY HeadTailProperties, EmptySeq DEF Suffix

\* Issuing more keeps what is in flight a suffix of what was issued.
LEMMA SuffixAppend ==
  ASSUME NEW q \in Seq(Ops), NEW p \in Seq(Ops), NEW r \in Seq(Ops), Suffix(q, p)
  PROVE  Suffix(q \o r, p \o r)
BY DEF Suffix

\* A suffix of a sequence is a suffix of a longer one.
LEMMA SuffixExtend ==
  ASSUME NEW q \in Seq(Ops), NEW p \in Seq(Ops), NEW r \in Seq(Ops), Suffix(q, p)
  PROVE  Suffix(q, r \o p)
BY DEF Suffix

\* A wait that leaves no more than the last issue in flight leaves a suffix of it.
LEMMA SuffixShort ==
  ASSUME NEW q \in Seq(Ops), NEW p \in Seq(Ops), NEW r \in Seq(Ops),
         Suffix(q, r \o p), Len(q) <= Len(p)
  PROVE  Suffix(q, p)
<1> SUFFICES ASSUME NEW n \in 1..Len(q)
             PROVE  q[n] = p[Len(p) - Len(q) + n]
  BY DEF Suffix
<1>1. Len(r \o p) = Len(r) + Len(p)
  OBVIOUS
<1>2. q[n] = (r \o p)[Len(r) + (Len(p) - Len(q) + n)]
  BY <1>1 DEF Suffix
<1>3. Len(p) - Len(q) + n \in 1..Len(p)
  OBVIOUS
<1> QED BY <1>2, <1>3

\* The empty queue is a suffix of everything, and alone of nothing.
LEMMA SuffixEmpty ==
  ASSUME NEW q \in Seq(Ops), NEW p \in Seq(Ops)
  PROVE  /\ Suffix(p, p)
         /\ Suffix(<<>>, p)
         /\ Suffix(q, <<>>) => q = <<>>
         /\ q = <<>> <=> Len(q) = 0
         /\ <<>> \o p = p
BY EmptySeq DEF Suffix

\* An entry of a suffix, counted from the end.
LEMMA SuffixAt ==
  ASSUME NEW q \in Seq(Ops), NEW p \in Seq(Ops), Suffix(q, p), NEW n \in 1..Len(q)
  PROVE  /\ Len(p) - (Len(q) - n) \in 1..Len(p)
         /\ q[n] = p[Len(p) - (Len(q) - n)]
<1>1. Len(p) - (Len(q) - n) = Len(p) - Len(q) + n
  OBVIOUS
<1> QED BY <1>1 DEF Suffix

\* The same in what two groups of issues left in flight.
EntryOf(q, a, b, n) ==
  /\ Len(q) - n < Len(b) =>
       /\ Len(b) - (Len(q) - n) \in 1..Len(b)
       /\ q[n] = b[Len(b) - (Len(q) - n)]
  /\ Len(q) - n >= Len(b) =>
       /\ Len(a) - (Len(q) - n - Len(b)) \in 1..Len(a)
       /\ q[n] = a[Len(a) - (Len(q) - n - Len(b))]

\* EntryOf holds of every queue that is a suffix of two groups.
LEMMA SuffixAtConcat ==
  ASSUME NEW q \in Seq(Ops), NEW a \in Seq(Ops), NEW b \in Seq(Ops),
         Suffix(q, a \o b), NEW n \in 1..Len(q)
  PROVE  EntryOf(q, a, b, n)
<1>1. a \o b \in Seq(Ops) /\ Len(a \o b) = Len(a) + Len(b)
  OBVIOUS
<1>2. /\ Len(a) + Len(b) - (Len(q) - n) \in 1..(Len(a) + Len(b))
      /\ q[n] = (a \o b)[Len(a) + Len(b) - (Len(q) - n)]
  <2> DEFINE p == a \o b
  <2>1. p \in Seq(Ops) /\ Suffix(q, p) /\ Len(p) = Len(a) + Len(b)
    BY <1>1
  <2> HIDE DEF p
  <2>2. Len(p) - (Len(q) - n) \in 1..Len(p) /\ q[n] = p[Len(p) - (Len(q) - n)]
    BY <2>1, SuffixAt
  <2> QED BY <2>1, <2>2 DEF p
<1>3. CASE Len(q) - n < Len(b)
  <2>1. Len(b) - (Len(q) - n) \in 1..Len(b)
    BY <1>3
  <2>2. Len(a) + Len(b) - (Len(q) - n) = Len(a) + (Len(b) - (Len(q) - n))
    OBVIOUS
  <2> QED BY <1>2, <1>3, <2>1, <2>2 DEF EntryOf
<1>4. CASE Len(q) - n >= Len(b)
  <2>1. Len(a) - (Len(q) - n - Len(b)) \in 1..Len(a)
    BY <1>2, <1>4
  <2>2. Len(a) + Len(b) - (Len(q) - n) = Len(a) - (Len(q) - n - Len(b))
    OBVIOUS
  <2> QED BY <1>2, <1>4, <2>1, <2>2 DEF EntryOf
<1> QED BY <1>3, <1>4

\* The length of two groups of issues.
LEMMA ConcatLen ==
  ASSUME NEW a \in Seq(Ops), NEW b \in Seq(Ops)
  PROVE  Len(a \o b) = Len(a) + Len(b)
OBVIOUS

\* The groups of issues are sequences of operations of known length.
LEMMA PieceLists ==
  ASSUME NEW t \in 0..MaxTiles, NEW h \in 0..1, NEW b \in Buffers
  PROVE  /\ KHalf(t, h, b) \in Seq(Ops) /\ Len(KHalf(t, h, b)) = CopyIssues
         /\ VHalfLoads(t, h) \in Seq(Ops) /\ Len(VHalfLoads(t, h)) = StoreIssues
         /\ VHalfStores(t, h, b) \in Seq(Ops) /\ Len(VHalfStores(t, h, b)) = StoreIssues
         /\ QLoadOps \in Seq(Ops) /\ Len(QLoadOps) = QLoads
         /\ <<Read(b)>> \in Seq(Ops) /\ Len(<<Read(b)>>) = 1
<1> USE BoundsAssumption
<1>1. /\ Nothing \in Operands
      /\ QSlice \in Operands
      /\ Operand("V", t, h) \in Operands
      /\ Operand("K", t, h) \in Operands
  BY OperandTypes DEF Nothing, QSlice
<1>2. /\ \A n \in 1..CopyIssues : KHalf(t, h, b)[n] \in Ops
      /\ \A n \in 1..StoreIssues : VHalfLoads(t, h)[n] \in Ops
      /\ \A n \in 1..StoreIssues : VHalfStores(t, h, b)[n] \in Ops
      /\ \A n \in 1..QLoads : QLoadOps[n] \in Ops
      /\ Read(b) \in Ops
  BY <1>1 DEF KHalf, VHalfLoads, VHalfStores, QLoadOps, Read, Ops, Buffers
<1>3. KHalf(t, h, b) \in Seq(Ops) /\ Len(KHalf(t, h, b)) = CopyIssues
  BY <1>2 DEF KHalf
<1>4. VHalfLoads(t, h) \in Seq(Ops) /\ Len(VHalfLoads(t, h)) = StoreIssues
  BY <1>2 DEF VHalfLoads
<1>5. VHalfStores(t, h, b) \in Seq(Ops) /\ Len(VHalfStores(t, h, b)) = StoreIssues
  BY <1>2 DEF VHalfStores
<1>6. QLoadOps \in Seq(Ops) /\ Len(QLoadOps) = QLoads
  BY <1>2 DEF QLoadOps
<1> QED BY <1>2, <1>3, <1>4, <1>5, <1>6

\* What all statements but the loop counter's and the loads' leave alone.
Stays(w) ==
  /\ num_total_loop' = num_total_loop
  /\ i_total_loops'[w] = i_total_loops[w]
  /\ kv_tile'[w] = kv_tile[w]
  /\ v_regs'[w] = v_regs[w]
  /\ fed'[w] = fed[w]

\* The buffers of the four LDS sequence positions.
LEMMA Seqs ==
  LdsSeq[0] = 1 /\ LdsSeq[1] = 2 /\ LdsSeq[2] = 1 /\ LdsSeq[3] = 0
BY DEF LdsSeq

\* The types of a wave's state that the queue lemmas need.
LEMMA LocalTypes ==
  ASSUME TypeInv, NEW w \in Waves
  PROVE  /\ vm[w] \in Seq(Ops) /\ lg[w] \in Seq(Ops)
         /\ Len(vm[w]) \in Nat /\ Len(lg[w]) \in Nat /\ Len(fed[w]) \in Nat
         /\ kv_tile[w] \in 0..MaxTiles /\ i_total_loops[w] \in 0..MaxTiles
         /\ num_total_loop \in 0..MaxTiles
         /\ MaxTiles \in Nat
BY BoundsAssumption DEF TypeInv, TypeOK

\* The fields of an operand of the loop.
LEMMA OperandTile ==
  ASSUME NEW d \in Block!Operands
  PROVE  d.tile \in Nat /\ d.kind \in {"K", "V"} /\ d.half \in 0..1
BY DEF Block!Operands

\* One read as a group of issues.
LEMMA ReadPiece ==
  ASSUME NEW b \in Buffers
  PROVE  /\ <<Read(b)>> \in Seq(Ops) /\ Len(<<Read(b)>>) = 1
         /\ <<Read(b)>>[1] = Read(b)
         /\ <<>> \o <<Read(b)>> = <<Read(b)>>
<1>1. <<Read(b)>> \in Seq(Ops)
  BY PieceLists, BoundsAssumption
<1> QED BY <1>1, SuffixEmpty

\* A fence to zero, and a queue of length zero, mean an empty queue.
LEMMA NothingLeft ==
  ASSUME TypeInv, NEW w \in Waves
  PROVE  /\ VmFence(w, 0) => vm[w] = <<>>
         /\ Len(vm[w]) = 0 <=> vm[w] = <<>>
         /\ Len(lg[w]) = 0 <=> lg[w] = <<>>
BY LocalTypes, EmptySeq DEF VmFence

\* Draining the reads drains a queue of nothing but reads.
LEMMA AllReads ==
  ASSUME NEW q \in Seq(Ops), NEW p \in Seq(Ops), Suffix(q, p),
         \A n \in 1..Len(p) : p[n].op = "read",
         \A n \in 1..Len(q) : q[n].op # "read"
  PROVE  q = <<>>
<1>1. Len(q) = 0
  <2> SUFFICES ASSUME Len(q) > 0 PROVE FALSE
    OBVIOUS
  <2>1. q[1] = p[Len(p) - Len(q) + 1] /\ Len(p) - Len(q) + 1 \in 1..Len(p)
    BY DEF Suffix
  <2> QED BY <2>1
<1> QED BY <1>1, SuffixEmpty

-----------------------------------------------------------------------------
(***************************************************************************)
(* The statements of the program.                                          *)
(***************************************************************************)

\* Every statement of the program keeps the wave's part of the invariant,
\* delivers nothing by itself and passes at most one barrier.
LEMMA WaveLocal ==
  ASSUME ReadsDrainInTime, TypeInv, TypeInv', BarrierInv, BarrierInv',
         NEW w \in Waves, LocalInv(w), WaveStep(w)
  PROVE  LocalInv(w)' /\ Quiet(w) /\ PhaseMoves(w)
<1>1. ASSUME DegenerateExit(w) PROVE LocalInv(w)' /\ Quiet(w) /\ PhaseMoves(w)
  <2>1. /\ pc[w] = "prologue" /\ pc'[w] = "epilogue"
        /\ Stays(w)
        /\ vm'[w] = vm[w]
        /\ lg'[w] = lg[w]
        /\ arrived' = arrived
        /\ i_total_loops[w] = 0 /\ num_total_loop = 0
    BY <1>1, Seqs, LocalTypes, NothingLeft DEF DegenerateExit, Goto, Stays, waveVars,
       TypeInv, TypeOK, LoopControl, InBody
  <2>2. /\ VmIssued(w) = <<>> /\ VmIssued(w)' = <<>>
        /\ LgIssued(w) = <<>> /\ LgIssued(w)' = <<>>
    BY <2>1 DEF VmIssued, LgIssued, Stays, LastRead
  <2>3. QueueInv(w)'
    BY <2>1, <2>2, LocalTypes, SuffixEmpty DEF QueueInv, LocalInv
  <2>4. RegsInv(w)'
    BY <2>1 DEF RegsInv, Stays, LocalInv
  <2>5. CountInv(w)'
    BY <2>1, LocalTypes DEF CountInv, ReadsInFlight, ReadsIssued, Stays, LocalInv
  <2>6. Quiet(w)
    BY <2>1, LocalTypes, OperandTile, BoundsAssumption DEF Quiet, Delivered, Stays, Issues
  <2>7. PhaseMoves(w)
    BY <2>1, LocalTypes DEF PhaseMoves, Released, Arrivals, Stage, Stays
  <2> QED BY <2>3, <2>4, <2>5, <2>6, <2>7 DEF LocalInv
<1>2. ASSUME Prologue(w) PROVE LocalInv(w)' /\ Quiet(w) /\ PhaseMoves(w)
  <2>1. /\ pc[w] = "prologue" /\ pc'[w] = "k_half1"
        /\ k_col[w] = 0
        /\ Stays(w)
        /\ lg'[w] = lg[w]
        /\ arrived' = arrived
        /\ i_total_loops[w] = 0 /\ num_total_loop > 0 /\ kv_tile[w] = 0
    BY <1>2, Seqs, LocalTypes, NothingLeft DEF Prologue, Goto, Stays, waveVars, TypeInv,
       TypeOK, LoopControl, InBody
  <2>2. KCopies(w, 1) = KHalf(kv_tile[w], 0, 1)
    BY <2>1 DEF KCopies, KHalf
  <2>3. PICK q \in {QLoadOps, <<>>} : vm'[w] = vm[w] \o (q \o KHalf(kv_tile[w], 0, 1))
    <3>1. PICK q \in {QLoadOps, <<>>} : IssueVm(w, q \o KCopies(w, LdsSeq[0]))
      BY <1>2 DEF Prologue
    <3> QED BY <3>1, <2>2, Seqs DEF IssueVm, TypeInv, TypeOK
  <2>4. /\ vm[w] = <<>> /\ lg[w] = <<>>
        /\ vm'[w] \in Seq(Ops)
        /\ Len(vm'[w]) >= CopyIssues
        /\ Suffix(vm'[w], QLoadOps \o KHalf(kv_tile[w], 0, 1))
    <3>1. vm[w] = <<>> /\ lg[w] = <<>>
      BY <2>1, LocalTypes, SuffixEmpty DEF QueueInv, LocalInv, VmIssued, LgIssued
    <3>2. /\ QLoadOps \in Seq(Ops) /\ Len(QLoadOps) = QLoads
          /\ KHalf(kv_tile[w], 0, 1) \in Seq(Ops) /\ Len(KHalf(kv_tile[w], 0, 1)) = CopyIssues
      BY LocalTypes, PieceLists DEF Buffers
    <3>3. CASE q = QLoadOps
      <4>1. QLoadOps \o KHalf(kv_tile[w], 0, 1) \in Seq(Ops)
        BY <3>2
      <4>2. vm'[w] = QLoadOps \o KHalf(kv_tile[w], 0, 1)
        BY <2>3, <3>1, <3>3, <4>1, SuffixEmpty
      <4>3. Len(QLoadOps \o KHalf(kv_tile[w], 0, 1)) = QLoads + CopyIssues
        BY <3>2, ConcatProperties
      <4>4. Len(vm'[w]) >= CopyIssues
        BY <4>2, <4>3, BoundsAssumption
      <4>5. Suffix(vm'[w], QLoadOps \o KHalf(kv_tile[w], 0, 1))
        BY <4>1, <4>2, SuffixEmpty
      <4> QED BY <3>1, <4>1, <4>2, <4>4, <4>5
    <3>4. CASE q = <<>>
      <4>1. vm'[w] = KHalf(kv_tile[w], 0, 1)
        BY <2>3, <3>1, <3>2, <3>4, SuffixEmpty
      <4> QED BY <3>1, <3>2, <4>1, SuffixEmpty, SuffixExtend, BoundsAssumption
    <3> QED BY <2>3, <3>3, <3>4
  <2>5. /\ VmIssued(w)' = QLoadOps \o KHalf(kv_tile[w], 0, 1)
        /\ LgIssued(w) = <<>> /\ LgIssued(w)' = <<>>
    BY <2>1 DEF VmIssued, LgIssued, Stays, LastRead
  <2>6. QueueInv(w)'
    BY <2>1, <2>5, LocalTypes, <2>4, SuffixEmpty DEF QueueInv, LocalInv
  <2>7. RegsInv(w)'
    BY <2>1 DEF RegsInv, Stays, LocalInv
  <2>8. CountInv(w)'
    <3>1. ReadsIssued(w) \in Int /\ ReadsIssued(w)' = ReadsIssued(w)
      BY <2>1, LocalTypes DEF ReadsIssued, Stays
    <3>2. ReadsInFlight(w) \in Int /\ ReadsInFlight(w)' = ReadsInFlight(w)
      BY <2>1, <2>4, LocalTypes DEF ReadsInFlight, Stays
    <3>3. fed'[w] = fed[w] /\ Len(fed[w]) \in Nat
      BY <2>1, LocalTypes DEF Stays
    <3> QED BY <3>1, <3>2, <3>3 DEF CountInv, LocalInv
  <2>9. Quiet(w)
    BY <2>1, <2>4, LocalTypes, OperandTile, BoundsAssumption DEF Quiet, Delivered, Stays,
       Issues
  <2>10. PhaseMoves(w)
    BY <2>1, LocalTypes DEF PhaseMoves, Released, Arrivals, Stage, Stays
  <2> QED BY <2>6, <2>7, <2>8, <2>9, <2>10 DEF LocalInv
<1>3. ASSUME CopyKHalf1(w) PROVE LocalInv(w)' /\ Quiet(w) /\ PhaseMoves(w)
  <2>1. /\ pc[w] = "k_half1" /\ pc'[w] = "fence_half0"
        /\ k_col[w] = 1
        /\ Stays(w)
        /\ vm'[w] = vm[w] \o KCopies(w, 2)
        /\ lg'[w] = lg[w]
        /\ arrived' = arrived
        /\ i_total_loops[w] < num_total_loop
        /\ kv_tile[w] = i_total_loops[w]
    BY <1>3, Seqs, LocalTypes, NothingLeft DEF CopyKHalf1, Goto, Stays, waveVars, TypeInv,
       TypeOK, LoopControl, InBody, IssueVm
  <2>2. KCopies(w, 2) = KHalf(kv_tile[w], 1, 2)
    BY <2>1 DEF KCopies, KHalf
  <2>3. /\ QLoadOps \in Seq(Ops) /\ KHalf(kv_tile[w], 0, 1) \in Seq(Ops)
        /\ KHalf(kv_tile[w], 1, 2) \in Seq(Ops) /\ Len(KHalf(kv_tile[w], 1, 2)) = CopyIssues
        /\ QLoadOps \o KHalf(kv_tile[w], 0, 1) \in Seq(Ops)
    BY <2>1, LocalTypes, PieceLists, BoundsAssumption DEF Buffers, LastRead
  <2>4. /\ VmIssued(w) = QLoadOps \o KHalf(kv_tile[w], 0, 1)
        /\ VmIssued(w)' = (QLoadOps \o KHalf(kv_tile[w], 0, 1)) \o KHalf(kv_tile[w], 1, 2)
        /\ LgIssued(w) = LastRead(w) /\ LgIssued(w)' = LastRead(w)
    BY <2>1 DEF VmIssued, LgIssued, Stays, LastRead
  <2>5. QueueInv(w)'
    BY <2>1, <2>4, LocalTypes, <2>2, <2>3, SuffixAppend DEF QueueInv, LocalInv
  <2>6. RegsInv(w)'
    BY <2>1 DEF RegsInv, Stays, LocalInv
  <2>7. CountInv(w)'
    BY <2>1, LocalTypes DEF CountInv, ReadsInFlight, ReadsIssued, Stays, LocalInv
  <2>8. Quiet(w)
    BY <2>1, <2>2, <2>3, LocalTypes, OperandTile, BoundsAssumption, SMTT(30) DEF Quiet, Delivered,
       Stays, Issues
  <2>9. PhaseMoves(w)
    BY <2>1, LocalTypes DEF PhaseMoves, Released, Arrivals, Stage, Stays
  <2> QED BY <2>5, <2>6, <2>7, <2>8, <2>9 DEF LocalInv
<1>4. ASSUME FenceHalf0(w) PROVE LocalInv(w)' /\ Quiet(w) /\ PhaseMoves(w)
  <2>1. /\ pc[w] = "fence_half0" /\ pc'[w] = "gemm0_0"
        /\ Stays(w)
        /\ vm'[w] = vm[w]
        /\ lg'[w] = lg[w]
        /\ Len(vm[w]) <= CopyIssues
        /\ w \notin arrived
        /\ i_total_loops[w] < num_total_loop
        /\ kv_tile[w] = i_total_loops[w]
    BY <1>4, Seqs, LocalTypes, NothingLeft DEF FenceHalf0, Goto, Stays, waveVars, TypeInv,
       TypeOK, LoopControl, InBody, VmFence, BarrierInv, AfterArrival
  <2>2. /\ QLoadOps \in Seq(Ops) /\ KHalf(kv_tile[w], 0, 1) \in Seq(Ops)
        /\ KHalf(kv_tile[w], 1, 2) \in Seq(Ops) /\ Len(KHalf(kv_tile[w], 1, 2)) = CopyIssues
        /\ QLoadOps \o KHalf(kv_tile[w], 0, 1) \in Seq(Ops)
    BY <2>1, LocalTypes, PieceLists, BoundsAssumption DEF Buffers, LastRead
  <2>3. /\ VmIssued(w) = (QLoadOps \o KHalf(kv_tile[w], 0, 1)) \o KHalf(kv_tile[w], 1, 2)
        /\ VmIssued(w)' = KHalf(kv_tile[w], 1, 2)
        /\ LgIssued(w) = LastRead(w) /\ LgIssued(w)' = LastRead(w)
    BY <2>1 DEF VmIssued, LgIssued, Stays, LastRead
  <2>4. QueueInv(w)'
    BY <2>1, <2>3, LocalTypes, <2>2, SuffixShort DEF QueueInv, LocalInv
  <2>5. RegsInv(w)'
    BY <2>1 DEF RegsInv, Stays, LocalInv
  <2>6. CountInv(w)'
    BY <2>1, LocalTypes DEF CountInv, ReadsInFlight, ReadsIssued, Stays, LocalInv
  <2>7. Quiet(w)
    BY <2>1, LocalTypes, OperandTile, BoundsAssumption DEF Quiet, Delivered, Stays, Issues
  <2>8. PhaseMoves(w)
    BY <2>1, LocalTypes DEF PhaseMoves, Released, Arrivals, Stage, Stays
  <2> QED BY <2>4, <2>5, <2>6, <2>7, <2>8 DEF LocalInv
<1>5. ASSUME Gemm0Sub0(w) PROVE LocalInv(w)' /\ Quiet(w) /\ PhaseMoves(w)
  <2>1. /\ pc[w] = "gemm0_0" /\ pc'[w] = "fence_half1"
        /\ Stays(w)
        /\ vm'[w] = vm[w]
        /\ lg'[w] = lg[w] \o <<Read(1)>>
        /\ arrived' = arrived
        /\ i_total_loops[w] < num_total_loop
        /\ kv_tile[w] = i_total_loops[w]
    BY <1>5, Seqs, LocalTypes, NothingLeft DEF Gemm0Sub0, Goto, Stays, waveVars, TypeInv,
       TypeOK, LoopControl, InBody, IssueLg
  <2>2. /\ <<Read(1)>> \in Seq(Ops) /\ Len(<<Read(1)>>) = 1
        /\ LastRead(w) \in Seq(Ops)
        /\ Len(lg'[w]) = Len(lg[w]) + 1
    BY <2>1, LocalTypes, PieceLists, BoundsAssumption DEF Buffers, LastRead
  <2>3. /\ VmIssued(w) = KHalf(kv_tile[w], 1, 2) /\ VmIssued(w)' = KHalf(kv_tile[w], 1, 2)
        /\ LgIssued(w) = LastRead(w) /\ LgIssued(w)' = LastRead(w) \o <<Read(1)>>
    BY <2>1 DEF VmIssued, LgIssued, Stays, LastRead
  <2>4. QueueInv(w)'
    BY <2>1, <2>3, LocalTypes, <2>2, SuffixAppend DEF QueueInv, LocalInv
  <2>5. RegsInv(w)'
    BY <2>1 DEF RegsInv, Stays, LocalInv
  <2>6. CountInv(w)'
    <3>1. ReadsIssued(w) \in Int /\ ReadsIssued(w)' = ReadsIssued(w) + 1
      BY <2>1, LocalTypes DEF ReadsIssued, Stays
    <3>2. ReadsInFlight(w) \in Int /\ ReadsInFlight(w)' = ReadsInFlight(w) + 1
      BY <2>1, <2>2, LocalTypes DEF ReadsInFlight, Stays
    <3>3. fed'[w] = fed[w] /\ Len(fed[w]) \in Nat
      BY <2>1, LocalTypes DEF Stays
    <3> QED BY <3>1, <3>2, <3>3 DEF CountInv, LocalInv
  <2>7. Quiet(w)
    BY <2>1, LocalTypes, OperandTile, BoundsAssumption DEF Quiet, Delivered, Stays, Issues
  <2>8. PhaseMoves(w)
    BY <2>1, LocalTypes DEF PhaseMoves, Released, Arrivals, Stage, Stays
  <2> QED BY <2>4, <2>5, <2>6, <2>7, <2>8 DEF LocalInv
<1>6. ASSUME FenceHalf1(w) PROVE LocalInv(w)' /\ Quiet(w) /\ PhaseMoves(w)
  <2>1. /\ pc[w] = "fence_half1" /\ pc'[w] = "load_v0"
        /\ Stays(w)
        /\ vm'[w] = vm[w]
        /\ lg'[w] = lg[w]
        /\ vm[w] = <<>>
        /\ w \notin arrived
        /\ i_total_loops[w] < num_total_loop
        /\ kv_tile[w] = i_total_loops[w]
    BY <1>6, Seqs, LocalTypes, NothingLeft DEF FenceHalf1, Goto, Stays, waveVars, TypeInv,
       TypeOK, LoopControl, InBody, VmFence, BarrierInv, AfterArrival
  <2>2. lg[w] = <<>>
    <3>1. ReadsReturned(w)
      BY <1>6 DEF FenceHalf1, Goto, PlainBarrier, ReadsDrainInTime
    <3>2. Suffix(lg[w], LastRead(w) \o <<Read(1)>>)
      BY <2>1 DEF LocalInv, QueueInv, LgIssued
    <3>3. \A n \in 1..Len(LastRead(w) \o <<Read(1)>>) :
            (LastRead(w) \o <<Read(1)>>)[n].op = "read"
      BY DEF LastRead, Read
    <3>4. LastRead(w) \o <<Read(1)>> \in Seq(Ops)
      BY PieceLists, BoundsAssumption DEF LastRead, Buffers
    <3> QED BY <3>1, <3>2, <3>3, <3>4, LocalTypes, AllReads DEF ReadsReturned
  <2>3. /\ VmIssued(w)' = <<>> /\ LgIssued(w)' = <<>>
    BY <2>1 DEF VmIssued, LgIssued, Stays, LastRead
  <2>4. QueueInv(w)'
    BY <2>1, <2>3, LocalTypes, <2>2, SuffixEmpty DEF QueueInv, LocalInv
  <2>5. RegsInv(w)'
    BY <2>1 DEF RegsInv, Stays, LocalInv
  <2>6. CountInv(w)'
    <3>1. ReadsIssued(w) \in Int /\ ReadsIssued(w)' = ReadsIssued(w)
      BY <2>1, LocalTypes DEF ReadsIssued, Stays
    <3>2. ReadsInFlight(w) \in Int /\ ReadsInFlight(w)' = ReadsInFlight(w)
      BY <2>1, <2>2, LocalTypes DEF ReadsInFlight, Stays
    <3>3. fed'[w] = fed[w] /\ Len(fed[w]) \in Nat
      BY <2>1, LocalTypes DEF Stays
    <3> QED BY <3>1, <3>2, <3>3 DEF CountInv, LocalInv
  <2>7. Quiet(w)
    BY <2>1, LocalTypes, OperandTile, BoundsAssumption DEF Quiet, Delivered, Stays, Issues
  <2>8. PhaseMoves(w)
    BY <2>1, LocalTypes DEF PhaseMoves, Released, Arrivals, Stage, Stays
  <2> QED BY <2>4, <2>5, <2>6, <2>7, <2>8 DEF LocalInv
<1>7. ASSUME LoadVHalf0(w) PROVE LocalInv(w)' /\ Quiet(w) /\ PhaseMoves(w)
  <2>1. /\ pc[w] = "load_v0" /\ pc'[w] = "gemm0_1"
        /\ Stays(w)
        /\ vm'[w] = vm[w] \o VLoads(w, 0)
        /\ lg'[w] = lg[w]
        /\ arrived' = arrived
        /\ i_total_loops[w] < num_total_loop
        /\ kv_tile[w] = i_total_loops[w]
    BY <1>7, Seqs, LocalTypes, NothingLeft DEF LoadVHalf0, Goto, Stays, waveVars, TypeInv,
       TypeOK, LoopControl, InBody, IssueVm
  <2>2. VLoads(w, 0) = VHalfLoads(kv_tile[w], 0)
    BY DEF VLoads, VHalfLoads
  <2>3. /\ vm[w] = <<>>
        /\ VHalfLoads(kv_tile[w], 0) \in Seq(Ops)
        /\ Len(VHalfLoads(kv_tile[w], 0)) = StoreIssues
    BY <2>1, LocalTypes, PieceLists, SuffixEmpty DEF Buffers, LocalInv, QueueInv, VmIssued
  <2>4. /\ VmIssued(w) = <<>> /\ VmIssued(w)' = VHalfLoads(kv_tile[w], 0)
        /\ LgIssued(w) = <<>> /\ LgIssued(w)' = <<>>
    BY <2>1 DEF VmIssued, LgIssued, Stays, LastRead
  <2>5. QueueInv(w)'
    BY <2>1, <2>4, LocalTypes, <2>3, <2>2, SuffixEmpty DEF QueueInv, LocalInv
  <2>6. RegsInv(w)'
    BY <2>1, <2>2, <2>3, SuffixEmpty, BoundsAssumption DEF RegsInv
  <2>7. CountInv(w)'
    BY <2>1, LocalTypes DEF CountInv, ReadsInFlight, ReadsIssued, Stays, LocalInv
  <2>8. Quiet(w)
    BY <2>1, LocalTypes, OperandTile, BoundsAssumption DEF Quiet, Delivered, Stays, Issues
  <2>9. PhaseMoves(w)
    BY <2>1, LocalTypes DEF PhaseMoves, Released, Arrivals, Stage, Stays
  <2> QED BY <2>5, <2>6, <2>7, <2>8, <2>9 DEF LocalInv
<1>8. ASSUME Gemm0Sub1(w) PROVE LocalInv(w)' /\ Quiet(w) /\ PhaseMoves(w)
  <2>1. /\ pc[w] = "gemm0_1" /\ pc'[w] = "row_max"
        /\ Stays(w)
        /\ vm'[w] = vm[w]
        /\ lg'[w] = lg[w] \o <<Read(2)>>
        /\ arrived' = arrived
        /\ i_total_loops[w] < num_total_loop
        /\ kv_tile[w] = i_total_loops[w]
    BY <1>8, Seqs, LocalTypes, NothingLeft DEF Gemm0Sub1, Goto, Stays, waveVars, TypeInv,
       TypeOK, LoopControl, InBody, IssueLg
  <2>2. lg[w] = <<>>
    BY <2>1, LocalTypes, SuffixEmpty DEF LocalInv, QueueInv, LgIssued
  <2>3. /\ <<Read(2)>> \in Seq(Ops) /\ Len(<<Read(2)>>) = 1
        /\ lg'[w] = <<Read(2)>>
    BY <2>1, <2>2, ReadPiece DEF Buffers
  <2>4. /\ VmIssued(w) = VHalfLoads(kv_tile[w], 0) /\ VmIssued(w)' = VHalfLoads(kv_tile[w], 0)
        /\ LgIssued(w) = <<>> /\ LgIssued(w)' = <<Read(2)>>
    BY <2>1 DEF VmIssued, LgIssued, Stays, LastRead
  <2>5. QueueInv(w)'
    BY <2>1, <2>4, LocalTypes, <2>2, <2>3, SuffixEmpty DEF QueueInv, LocalInv
  <2>6. RegsInv(w)'
    BY <2>1 DEF RegsInv, Stays, LocalInv
  <2>7. CountInv(w)'
    <3>1. ReadsIssued(w) \in Int /\ ReadsIssued(w)' = ReadsIssued(w) + 1
      BY <2>1, LocalTypes DEF ReadsIssued, Stays
    <3>2. ReadsInFlight(w) \in Int /\ ReadsInFlight(w)' = ReadsInFlight(w) + 1
      BY <2>1, <2>2, <2>3, LocalTypes DEF ReadsInFlight, Stays
    <3>3. fed'[w] = fed[w] /\ Len(fed[w]) \in Nat
      BY <2>1, LocalTypes DEF Stays
    <3> QED BY <3>1, <3>2, <3>3 DEF CountInv, LocalInv
  <2>8. Quiet(w)
    BY <2>1, LocalTypes, OperandTile, BoundsAssumption DEF Quiet, Delivered, Stays, Issues
  <2>9. PhaseMoves(w)
    BY <2>1, LocalTypes DEF PhaseMoves, Released, Arrivals, Stage, Stays
  <2> QED BY <2>5, <2>6, <2>7, <2>8, <2>9 DEF LocalInv
<1>9. ASSUME RowMax(w) PROVE LocalInv(w)' /\ Quiet(w) /\ PhaseMoves(w)
  <2>1. /\ pc[w] = "row_max" /\ pc'[w] = "store_v0"
        /\ Stays(w)
        /\ vm'[w] = vm[w]
        /\ lg'[w] = lg[w]
        /\ lg[w] = <<>>
        /\ arrived' = arrived
        /\ i_total_loops[w] < num_total_loop
        /\ kv_tile[w] = i_total_loops[w]
    BY <1>9, Seqs, LocalTypes, NothingLeft DEF RowMax, Goto, Stays, waveVars, TypeInv,
       TypeOK, LoopControl, InBody, LgFence
  <2>2. /\ VmIssued(w) = VHalfLoads(kv_tile[w], 0) /\ VmIssued(w)' = VHalfLoads(kv_tile[w], 0)
        /\ LgIssued(w)' = <<>>
    BY <2>1 DEF VmIssued, LgIssued, Stays, LastRead
  <2>3. QueueInv(w)'
    BY <2>1, <2>2, LocalTypes, SuffixEmpty DEF QueueInv, LocalInv
  <2>4. RegsInv(w)'
    BY <2>1 DEF RegsInv, Stays, LocalInv
  <2>5. CountInv(w)'
    BY <2>1, LocalTypes DEF CountInv, ReadsInFlight, ReadsIssued, Stays, LocalInv
  <2>6. Quiet(w)
    BY <2>1, LocalTypes, OperandTile, BoundsAssumption DEF Quiet, Delivered, Stays, Issues
  <2>7. PhaseMoves(w)
    BY <2>1, LocalTypes DEF PhaseMoves, Released, Arrivals, Stage, Stays
  <2> QED BY <2>3, <2>4, <2>5, <2>6, <2>7 DEF LocalInv
<1>10. ASSUME StoreVHalf0(w) PROVE LocalInv(w)' /\ Quiet(w) /\ PhaseMoves(w)
  <2>1. /\ pc[w] = "store_v0" /\ pc'[w] = "row_sum"
        /\ Stays(w)
        /\ vm[w] = <<>> /\ vm'[w] = vm[w] \o VLoads(w, 1)
        /\ lg'[w] = lg[w] \o VStores(w, 0, 1)
        /\ arrived' = arrived
        /\ i_total_loops[w] < num_total_loop
        /\ kv_tile[w] = i_total_loops[w]
    BY <1>10, Seqs, LocalTypes, NothingLeft DEF StoreVHalf0, Goto, Stays, waveVars,
       TypeInv, TypeOK, LoopControl, InBody, IssueVm, IssueLg, VmFence
  <2>2. /\ VLoads(w, 1) = VHalfLoads(kv_tile[w], 1)
        /\ VStores(w, 0, 1) = VHalfStores(i_total_loops[w], 0, 1)
    BY <2>1 DEF VLoads, VHalfLoads, VStores, VHalfStores, LocalInv, RegsInv
  <2>3. /\ lg[w] = <<>>
        /\ VHalfLoads(kv_tile[w], 1) \in Seq(Ops) /\ Len(VHalfLoads(kv_tile[w], 1)) = StoreIssues
        /\ VHalfStores(i_total_loops[w], 0, 1) \in Seq(Ops)
        /\ Len(VHalfStores(i_total_loops[w], 0, 1)) = StoreIssues
    BY <2>1, LocalTypes, PieceLists, SuffixEmpty DEF Buffers, LocalInv, QueueInv, LgIssued
  <2>4. vm'[w] = VHalfLoads(kv_tile[w], 1) /\ lg'[w] = VHalfStores(i_total_loops[w], 0, 1)
    BY <2>1, <2>2, <2>3, SuffixEmpty
  <2>5. /\ VmIssued(w)' = VHalfLoads(kv_tile[w], 1)
        /\ LgIssued(w)' = VHalfStores(i_total_loops[w], 0, 1)
    BY <2>1 DEF VmIssued, LgIssued, Stays, LastRead
  <2>6. QueueInv(w)'
    BY <2>1, <2>5, LocalTypes, <2>3, <2>4, SuffixEmpty DEF QueueInv, LocalInv
  <2>7. RegsInv(w)'
    BY <2>1, <2>4, <2>3, SuffixEmpty, BoundsAssumption DEF RegsInv
  <2>8. CountInv(w)'
    <3>1. ReadsIssued(w) \in Int /\ ReadsIssued(w)' = ReadsIssued(w)
      BY <2>1, LocalTypes DEF ReadsIssued, Stays
    <3>2. ReadsInFlight(w) \in Int /\ ReadsInFlight(w)' = ReadsInFlight(w)
      BY <2>1, <2>3, LocalTypes DEF ReadsInFlight, Stays
    <3>3. fed'[w] = fed[w] /\ Len(fed[w]) \in Nat
      BY <2>1, LocalTypes DEF Stays
    <3> QED BY <3>1, <3>2, <3>3 DEF CountInv, LocalInv
  <2>9. Quiet(w)
    BY <2>1, <2>3, <2>4, LocalTypes, OperandTile, BoundsAssumption DEF Quiet, Delivered,
       Stays, Issues
  <2>10. PhaseMoves(w)
    BY <2>1, LocalTypes DEF PhaseMoves, Released, Arrivals, Stage, Stays
  <2> QED BY <2>6, <2>7, <2>8, <2>9, <2>10 DEF LocalInv
<1>11. ASSUME RowSum(w) PROVE LocalInv(w)' /\ Quiet(w) /\ PhaseMoves(w)
  <2>1. /\ pc[w] = "row_sum" /\ pc'[w] = "sync_v0"
        /\ Stays(w)
        /\ vm'[w] = vm[w]
        /\ lg'[w] = lg[w]
        /\ lg[w] = <<>>
        /\ arrived' = arrived
        /\ i_total_loops[w] < num_total_loop
        /\ kv_tile[w] = i_total_loops[w]
    BY <1>11, Seqs, LocalTypes, NothingLeft DEF RowSum, Goto, Stays, waveVars, TypeInv,
       TypeOK, LoopControl, InBody, LgFence
  <2>2. /\ VmIssued(w) = VHalfLoads(kv_tile[w], 1) /\ VmIssued(w)' = VHalfLoads(kv_tile[w], 1)
        /\ LgIssued(w)' = <<>>
    BY <2>1 DEF VmIssued, LgIssued, Stays, LastRead
  <2>3. QueueInv(w)'
    BY <2>1, <2>2, LocalTypes, SuffixEmpty DEF QueueInv, LocalInv
  <2>4. RegsInv(w)'
    BY <2>1 DEF RegsInv, Stays, LocalInv
  <2>5. CountInv(w)'
    BY <2>1, LocalTypes DEF CountInv, ReadsInFlight, ReadsIssued, Stays, LocalInv
  <2>6. Quiet(w)
    BY <2>1, LocalTypes, OperandTile, BoundsAssumption DEF Quiet, Delivered, Stays, Issues
  <2>7. PhaseMoves(w)
    BY <2>1, LocalTypes DEF PhaseMoves, Released, Arrivals, Stage, Stays
  <2> QED BY <2>3, <2>4, <2>5, <2>6, <2>7 DEF LocalInv
<1>12. ASSUME SyncV0(w) PROVE LocalInv(w)' /\ Quiet(w) /\ PhaseMoves(w)
  <2>1. /\ pc[w] = "sync_v0" /\ pc'[w] = "gemm1_0"
        /\ Stays(w)
        /\ vm'[w] = vm[w]
        /\ lg'[w] = lg[w]
        /\ w \notin arrived
        /\ i_total_loops[w] < num_total_loop
        /\ kv_tile[w] = i_total_loops[w]
    BY <1>12, Seqs, LocalTypes, NothingLeft DEF SyncV0, Goto, Stays, waveVars, TypeInv,
       TypeOK, LoopControl, InBody, BlockSyncLds, BarrierInv, AfterArrival
  <2>2. /\ VmIssued(w) = VHalfLoads(kv_tile[w], 1) /\ VmIssued(w)' = VHalfLoads(kv_tile[w], 1)
        /\ LgIssued(w) = <<>> /\ LgIssued(w)' = <<>>
    BY <2>1 DEF VmIssued, LgIssued, Stays, LastRead
  <2>3. QueueInv(w)'
    BY <2>1, <2>2, LocalTypes, SuffixEmpty DEF QueueInv, LocalInv
  <2>4. RegsInv(w)'
    BY <2>1 DEF RegsInv, Stays, LocalInv
  <2>5. CountInv(w)'
    BY <2>1, LocalTypes DEF CountInv, ReadsInFlight, ReadsIssued, Stays, LocalInv
  <2>6. Quiet(w)
    BY <2>1, LocalTypes, OperandTile, BoundsAssumption DEF Quiet, Delivered, Stays, Issues
  <2>7. PhaseMoves(w)
    BY <2>1, LocalTypes DEF PhaseMoves, Released, Arrivals, Stage, Stays
  <2> QED BY <2>3, <2>4, <2>5, <2>6, <2>7 DEF LocalInv
<1>13. ASSUME Gemm1Sub0(w) PROVE LocalInv(w)' /\ Quiet(w) /\ PhaseMoves(w)
  <2>1. /\ pc[w] = "gemm1_0" /\ pc'[w] = "store_v1"
        /\ Stays(w)
        /\ vm'[w] = vm[w]
        /\ lg'[w] = lg[w] \o <<Read(1)>>
        /\ arrived' = arrived
        /\ i_total_loops[w] < num_total_loop
        /\ kv_tile[w] = i_total_loops[w]
    BY <1>13, Seqs, LocalTypes, NothingLeft DEF Gemm1Sub0, Goto, Stays, waveVars, TypeInv,
       TypeOK, LoopControl, InBody, IssueLg
  <2>2. lg[w] = <<>>
    BY <2>1, LocalTypes, SuffixEmpty DEF LocalInv, QueueInv, LgIssued
  <2>3. /\ <<Read(1)>> \in Seq(Ops) /\ Len(<<Read(1)>>) = 1
        /\ lg'[w] = <<Read(1)>>
    BY <2>1, <2>2, ReadPiece DEF Buffers
  <2>4. /\ VmIssued(w) = VHalfLoads(kv_tile[w], 1) /\ VmIssued(w)' = VHalfLoads(kv_tile[w], 1)
        /\ LgIssued(w) = <<>> /\ LgIssued(w)' = <<Read(1)>>
    BY <2>1 DEF VmIssued, LgIssued, Stays, LastRead
  <2>5. QueueInv(w)'
    BY <2>1, <2>4, LocalTypes, <2>2, <2>3, SuffixEmpty DEF QueueInv, LocalInv
  <2>6. RegsInv(w)'
    BY <2>1 DEF RegsInv, Stays, LocalInv
  <2>7. CountInv(w)'
    <3>1. ReadsIssued(w) \in Int /\ ReadsIssued(w)' = ReadsIssued(w) + 1
      BY <2>1, LocalTypes DEF ReadsIssued, Stays
    <3>2. ReadsInFlight(w) \in Int /\ ReadsInFlight(w)' = ReadsInFlight(w) + 1
      BY <2>1, <2>2, <2>3, LocalTypes DEF ReadsInFlight, Stays
    <3>3. fed'[w] = fed[w] /\ Len(fed[w]) \in Nat
      BY <2>1, LocalTypes DEF Stays
    <3> QED BY <3>1, <3>2, <3>3 DEF CountInv, LocalInv
  <2>8. Quiet(w)
    BY <2>1, LocalTypes, OperandTile, BoundsAssumption DEF Quiet, Delivered, Stays, Issues
  <2>9. PhaseMoves(w)
    BY <2>1, LocalTypes DEF PhaseMoves, Released, Arrivals, Stage, Stays
  <2> QED BY <2>5, <2>6, <2>7, <2>8, <2>9 DEF LocalInv
<1>14. ASSUME StoreVHalf1(w) PROVE LocalInv(w)' /\ Quiet(w) /\ PhaseMoves(w)
  <2>1. /\ pc[w] = "store_v1" /\ pc'[w] = "advance"
        /\ Stays(w)
        /\ vm'[w] = vm[w]
        /\ vm[w] = <<>>
        /\ lg'[w] = lg[w] \o VStores(w, 1, 0)
        /\ arrived' = arrived
        /\ i_total_loops[w] < num_total_loop
        /\ kv_tile[w] = i_total_loops[w]
    BY <1>14, Seqs, LocalTypes, NothingLeft DEF StoreVHalf1, Goto, Stays, waveVars,
       TypeInv, TypeOK, LoopControl, InBody, IssueLg
  <2>2. VStores(w, 1, 0) = VHalfStores(i_total_loops[w], 1, 0)
    BY <2>1 DEF VStores, VHalfStores, LocalInv, RegsInv
  <2>3. /\ Suffix(lg[w], <<Read(1)>>)
        /\ <<Read(1)>> \in Seq(Ops)
        /\ VHalfStores(i_total_loops[w], 1, 0) \in Seq(Ops)
        /\ Len(VHalfStores(i_total_loops[w], 1, 0)) = StoreIssues
    BY <2>1, LocalTypes, PieceLists DEF Buffers, LocalInv, QueueInv, LgIssued
  <2>4. Len(lg[w]) \in 0..1
    BY <2>3, LocalTypes, ReadPiece DEF Suffix, Buffers
  <2>5. Len(lg'[w]) = Len(lg[w]) + StoreIssues
    BY <2>1, <2>2, <2>3, LocalTypes
  <2>6. /\ VmIssued(w)' = <<>> /\ LgIssued(w)' = <<Read(1)>> \o VHalfStores(i_total_loops[w], 1, 0)
    BY <2>1 DEF VmIssued, LgIssued, Stays, LastRead
  <2>7. QueueInv(w)'
    <3>1. Suffix(lg'[w], LgIssued(w)')
      BY <2>1, <2>6, <2>3, <2>2, LocalTypes, SuffixAppend
    <3>2. Suffix(vm'[w], VmIssued(w)')
      BY <2>1, <2>6, SuffixEmpty DEF Suffix
    <3> QED BY <3>1, <3>2 DEF QueueInv
  <2>8. RegsInv(w)'
    BY <2>1 DEF RegsInv, Stays, LocalInv
  <2>9. CountInv(w)'
    <3>1. ReadsIssued(w) \in Int /\ ReadsIssued(w)' = ReadsIssued(w)
      BY <2>1, LocalTypes DEF ReadsIssued, Stays
    <3>2. ReadsInFlight(w) \in Int /\ ReadsInFlight(w)' = ReadsInFlight(w)
      <4>1. ReadsInFlight(w) = Len(lg[w])
        BY <2>1 DEF ReadsInFlight
      <4>2. ReadsInFlight(w)' = IF Len(lg'[w]) > StoreIssues THEN 1 ELSE 0
        BY <2>1 DEF ReadsInFlight, Stays
      <4>3. StoreIssues \in Nat
        BY BoundsAssumption
      <4> QED BY <2>4, <2>5, <4>1, <4>2, <4>3
    <3>3. fed'[w] = fed[w] /\ Len(fed[w]) \in Nat
      BY <2>1, LocalTypes DEF Stays
    <3> QED BY <3>1, <3>2, <3>3 DEF CountInv, LocalInv
  <2>10. Quiet(w)
    BY <2>1, <2>3, <2>4, <2>5, LocalTypes, OperandTile, BoundsAssumption DEF Quiet,
       Delivered, Stays, Issues
  <2>11. PhaseMoves(w)
    BY <2>1, LocalTypes DEF PhaseMoves, Released, Arrivals, Stage, Stays
  <2> QED BY <2>7, <2>8, <2>9, <2>10, <2>11 DEF LocalInv
<1>15. ASSUME AdvanceToNextTile(w) PROVE LocalInv(w)' /\ Quiet(w) /\ PhaseMoves(w)
  <2>1. /\ pc[w] = "advance" /\ pc'[w] = "k_prefetch"
        /\ i_total_loops'[w] = i_total_loops[w] + 1
        /\ kv_tile'[w] = kv_tile[w] + 1
        /\ i_total_loops[w] + 1 < num_total_loop
        /\ num_total_loop' = num_total_loop
        /\ vm'[w] = vm[w]
        /\ lg'[w] = lg[w]
        /\ fed'[w] = fed[w]
        /\ w \notin arrived
    <3>1. /\ pc[w] = "advance" /\ pc' = [pc EXCEPT ![w] = "k_prefetch"]
          /\ i_total_loops' = [i_total_loops EXCEPT ![w] = @ + 1]
          /\ kv_tile' = [kv_tile EXCEPT ![w] = @ + 1]
          /\ i_total_loops[w] + 1 < num_total_loop
          /\ num_total_loop' = num_total_loop
          /\ vm' = vm /\ lg' = lg /\ fed' = fed
      BY <1>15 DEF AdvanceToNextTile, AnotherTile, Goto, waveVars
    <3>2. w \notin arrived
      BY <3>1 DEF BarrierInv, AfterArrival
    <3> QED BY <3>1, <3>2 DEF TypeInv, TypeOK
  <2>2. /\ <<Read(1)>> \in Seq(Ops)
        /\ VHalfStores(i_total_loops[w], 1, 0) \in Seq(Ops)
        /\ Len(VHalfStores(i_total_loops[w], 1, 0)) = StoreIssues
        /\ Suffix(lg[w], <<Read(1)>> \o VHalfStores(i_total_loops[w], 1, 0))
    BY <2>1, LocalTypes, PieceLists, BoundsAssumption DEF Buffers, LocalInv, QueueInv,
       LgIssued
  <2>3. Len(lg[w]) <= StoreIssues
    <3> SUFFICES ASSUME Len(lg[w]) > StoreIssues PROVE FALSE
      BY LocalTypes, BoundsAssumption
    <3>1. ReadsReturned(w)
      BY <1>15 DEF AdvanceToNextTile, AnotherTile, Goto, PlainBarrier, ReadsDrainInTime
    <3> DEFINE p == <<Read(1)>> \o VHalfStores(i_total_loops[w], 1, 0)
    <3>2. lg[w][1] = Read(1)
      <4>1. Len(p) = StoreIssues + 1 /\ p[1] = Read(1)
        BY <2>2, PieceLists, BoundsAssumption
      <4>2. Len(lg[w]) = Len(p)
        BY <2>2, <4>1, LocalTypes, BoundsAssumption DEF Suffix
      <4> QED BY <2>2, <4>1, <4>2, LocalTypes, BoundsAssumption DEF Suffix
    <3> QED BY <3>1, <3>2, LocalTypes, BoundsAssumption DEF ReadsReturned, Read
  <2>4. /\ i_total_loops'[w] - 1 = i_total_loops[w]
        /\ VmIssued(w) = <<>>
    BY <2>1, LocalTypes DEF VmIssued
  <2>5. /\ VmIssued(w)' = <<>> /\ LgIssued(w)' = VHalfStores(i_total_loops[w], 1, 0)
    BY <2>1, <2>4, LocalTypes DEF VmIssued, LgIssued, Stays, LastRead
  <2>6. QueueInv(w)'
    BY <2>1, <2>5, LocalTypes, <2>2, <2>3, <2>4, SuffixShort DEF QueueInv, LocalInv
  <2>7. RegsInv(w)'
    BY <2>1 DEF RegsInv
  <2>8. CountInv(w)'
    <3>1. ReadsIssued(w) \in Int /\ ReadsIssued(w)' = ReadsIssued(w)
      <4>1. ReadsIssued(w) = 4 * i_total_loops[w] + 3 /\ ReadsIssued(w)' = 4 * i_total_loops'[w] - 1
        BY <2>1 DEF ReadsIssued
      <4> QED BY <4>1, <2>1, LocalTypes
    <3>2. ReadsInFlight(w) \in Int /\ ReadsInFlight(w)' = ReadsInFlight(w)
      BY <2>1, <2>3, LocalTypes, BoundsAssumption DEF ReadsInFlight, Stays
    <3>3. fed'[w] = fed[w] /\ Len(fed[w]) \in Nat
      BY <2>1, LocalTypes DEF Stays
    <3> QED BY <3>1, <3>2, <3>3 DEF CountInv, LocalInv
  <2>9. Quiet(w)
    BY <2>1, LocalTypes, OperandTile, BoundsAssumption, SMTT(30) DEF Quiet, Delivered, Issues
  <2>10. PhaseMoves(w)
    BY <2>1, LocalTypes, SMTT(30) DEF PhaseMoves, Released, Arrivals, Stage
  <2> QED BY <2>6, <2>7, <2>8, <2>9, <2>10 DEF LocalInv
<1>16. ASSUME AdvancePastLastTile(w) PROVE LocalInv(w)' /\ Quiet(w) /\ PhaseMoves(w)
  <2>1. /\ pc[w] = "advance" /\ pc'[w] = "sync_v1"
        /\ i_total_loops'[w] = i_total_loops[w] + 1
        /\ i_total_loops[w] + 1 = num_total_loop
        /\ num_total_loop' = num_total_loop
        /\ vm'[w] = vm[w]
        /\ lg'[w] = lg[w]
        /\ arrived' = arrived
        /\ fed'[w] = fed[w]
        /\ w \notin arrived
    BY <1>16, Seqs, LocalTypes, NothingLeft DEF AdvancePastLastTile, AnotherTile, Goto, Stays, waveVars,
       TypeInv, TypeOK, LoopControl, InBody, BarrierInv, AfterArrival
  <2>2. i_total_loops'[w] - 1 = i_total_loops[w] /\ ~(i_total_loops'[w] < num_total_loop)
    BY <2>1, LocalTypes
  <2>3. /\ VmIssued(w) = <<>> /\ VmIssued(w)' = <<>>
        /\ LgIssued(w) = <<Read(1)>> \o VHalfStores(i_total_loops[w], 1, 0)
        /\ LgIssued(w)' = <<Read(1)>> \o VHalfStores(i_total_loops[w], 1, 0)
    BY <2>1, <2>2, LocalTypes DEF VmIssued, LgIssued, Stays, LastRead
  <2>4. QueueInv(w)'
    BY <2>1, <2>3, LocalTypes, SuffixEmpty DEF QueueInv, LocalInv
  <2>5. RegsInv(w)'
    BY <2>1 DEF RegsInv
  <2>6. CountInv(w)'
    <3>1. ReadsIssued(w) \in Int /\ ReadsIssued(w)' = ReadsIssued(w)
      <4>1. ReadsIssued(w) = 4 * i_total_loops[w] + 3 /\ ReadsIssued(w)' = 4 * i_total_loops'[w] - 1
        BY <2>1 DEF ReadsIssued
      <4> QED BY <4>1, <2>1, LocalTypes
    <3>2. ReadsInFlight(w) \in Int /\ ReadsInFlight(w)' = ReadsInFlight(w)
      BY <2>1, LocalTypes, BoundsAssumption DEF ReadsInFlight, Stays
    <3>3. fed'[w] = fed[w] /\ Len(fed[w]) \in Nat
      BY <2>1, LocalTypes DEF Stays
    <3> QED BY <3>1, <3>2, <3>3 DEF CountInv, LocalInv
  <2>7. Quiet(w)
    BY <2>1, LocalTypes, OperandTile, BoundsAssumption DEF Quiet, Delivered, Issues
  <2>8. PhaseMoves(w)
    BY <2>1, LocalTypes DEF PhaseMoves, Released, Arrivals, Stage
  <2> QED BY <2>4, <2>5, <2>6, <2>7, <2>8 DEF LocalInv
<1>17. ASSUME PrefetchKHalf0(w) PROVE LocalInv(w)' /\ Quiet(w) /\ PhaseMoves(w)
  <2>1. /\ pc[w] = "k_prefetch" /\ pc'[w] = "sync_v1"
        /\ k_col[w] = 0
        /\ Stays(w)
        /\ vm'[w] = vm[w] \o KCopies(w, 1)
        /\ lg'[w] = lg[w]
        /\ arrived' = arrived
        /\ i_total_loops[w] < num_total_loop /\ i_total_loops[w] > 0
        /\ kv_tile[w] = i_total_loops[w]
    BY <1>17, Seqs, LocalTypes, NothingLeft DEF PrefetchKHalf0, Goto, Stays, waveVars,
       TypeInv, TypeOK, LoopControl, InBody, IssueVm
  <2>2. KCopies(w, 1) = KHalf(kv_tile[w], 0, 1)
    BY <2>1 DEF KCopies, KHalf
  <2>3. vm[w] = <<>> /\ i_total_loops[w] - 1 \in 0..MaxTiles
    BY <2>1, LocalTypes, SuffixEmpty DEF LocalInv, QueueInv, VmIssued
  <2>4. /\ KHalf(kv_tile[w], 0, 1) \in Seq(Ops)
        /\ Len(KHalf(kv_tile[w], 0, 1)) = CopyIssues
        /\ VHalfStores(i_total_loops[w] - 1, 1, 0) \in Seq(Ops)
        /\ Len(VHalfStores(i_total_loops[w] - 1, 1, 0)) = StoreIssues
    BY <2>3, LocalTypes, PieceLists DEF Buffers
  <2>5. Len(vm'[w]) = CopyIssues /\ Len(lg[w]) <= StoreIssues
    BY <2>1, <2>3, <2>2, <2>4, LocalTypes, SuffixEmpty DEF LocalInv, QueueInv, LgIssued,
       Suffix
  <2>6. /\ VmIssued(w) = <<>> /\ VmIssued(w)' = KHalf(kv_tile[w], 0, 1)
        /\ LgIssued(w) = VHalfStores(i_total_loops[w] - 1, 1, 0)
        /\ LgIssued(w)' = VHalfStores(i_total_loops[w] - 1, 1, 0)
    BY <2>1 DEF VmIssued, LgIssued, Stays, LastRead
  <2>7. QueueInv(w)'
    BY <2>1, <2>6, LocalTypes, <2>3, <2>2, <2>4, SuffixEmpty DEF QueueInv, LocalInv
  <2>8. RegsInv(w)'
    BY <2>1 DEF RegsInv, Stays, LocalInv
  <2>9. CountInv(w)'
    <3>1. ReadsIssued(w) \in Int /\ ReadsIssued(w)' = ReadsIssued(w)
      BY <2>1, LocalTypes DEF ReadsIssued, Stays
    <3>2. ReadsInFlight(w) \in Int /\ ReadsInFlight(w)' = ReadsInFlight(w)
      BY <2>1, <2>5, LocalTypes, BoundsAssumption DEF ReadsInFlight, Stays
    <3>3. fed'[w] = fed[w] /\ Len(fed[w]) \in Nat
      BY <2>1, LocalTypes DEF Stays
    <3> QED BY <3>1, <3>2, <3>3 DEF CountInv, LocalInv
  <2>10. Quiet(w)
    BY <2>1, <2>5, LocalTypes, OperandTile, BoundsAssumption DEF Quiet, Delivered, Stays,
       Issues
  <2>11. PhaseMoves(w)
    BY <2>1, LocalTypes DEF PhaseMoves, Released, Arrivals, Stage, Stays
  <2> QED BY <2>7, <2>8, <2>9, <2>10, <2>11 DEF LocalInv
<1>18. ASSUME SyncV1(w) PROVE LocalInv(w)' /\ Quiet(w) /\ PhaseMoves(w)
  <2>1. /\ pc[w] = "sync_v1" /\ pc'[w] = "gemm1_1"
        /\ Stays(w)
        /\ vm'[w] = vm[w]
        /\ lg'[w] = lg[w]
        /\ lg[w] = <<>>
        /\ w \notin arrived
        /\ i_total_loops[w] <= num_total_loop /\ i_total_loops[w] > 0
    BY <1>18, Seqs, LocalTypes, NothingLeft DEF SyncV1, Goto, Stays, waveVars, TypeInv,
       TypeOK, LoopControl, InBody, BlockSyncLds, LgFence, BarrierInv, AfterArrival
  <2>2. /\ VmIssued(w)' = VmIssued(w) /\ LgIssued(w)' = <<>>
    BY <2>1 DEF VmIssued, LgIssued, Stays, LastRead
  <2>3. QueueInv(w)'
    BY <2>1, <2>2, LocalTypes, SuffixEmpty DEF QueueInv, LocalInv
  <2>4. RegsInv(w)'
    BY <2>1 DEF RegsInv, Stays, LocalInv
  <2>5. CountInv(w)'
    <3>1. ReadsIssued(w) \in Int /\ ReadsIssued(w)' = ReadsIssued(w)
      BY <2>1, LocalTypes DEF ReadsIssued, Stays
    <3>2. ReadsInFlight(w) \in Int /\ ReadsInFlight(w)' = ReadsInFlight(w)
      BY <2>1, LocalTypes, BoundsAssumption DEF ReadsInFlight, Stays
    <3>3. fed'[w] = fed[w] /\ Len(fed[w]) \in Nat
      BY <2>1, LocalTypes DEF Stays
    <3> QED BY <3>1, <3>2, <3>3 DEF CountInv, LocalInv
  <2>6. Quiet(w)
    BY <2>1, LocalTypes, OperandTile, BoundsAssumption DEF Quiet, Delivered, Stays, Issues
  <2>7. PhaseMoves(w)
    BY <2>1, LocalTypes DEF PhaseMoves, Released, Arrivals, Stage, Stays
  <2> QED BY <2>3, <2>4, <2>5, <2>6, <2>7 DEF LocalInv
<1>19. ASSUME Gemm1Sub1(w) PROVE LocalInv(w)' /\ Quiet(w) /\ PhaseMoves(w)
  <2>1. /\ pc[w] = "gemm1_1"
        /\ pc'[w] = IF i_total_loops[w] < num_total_loop THEN "k_half1" ELSE "epilogue"
        /\ Stays(w)
        /\ vm'[w] = vm[w]
        /\ lg'[w] = lg[w] \o <<Read(0)>>
        /\ arrived' = arrived
        /\ i_total_loops[w] <= num_total_loop /\ i_total_loops[w] > 0
    BY <1>19, Seqs, LocalTypes, NothingLeft DEF Gemm1Sub1, Goto, Stays, waveVars, TypeInv,
       TypeOK, LoopControl, InBody, IssueLg
  <2>2. lg[w] = <<>>
    BY <2>1, LocalTypes, SuffixEmpty DEF LocalInv, QueueInv, LgIssued
  <2>3. /\ <<Read(0)>> \in Seq(Ops) /\ Len(<<Read(0)>>) = 1
        /\ lg'[w] = <<Read(0)>>
    BY <2>1, <2>2, ReadPiece DEF Buffers
  <2>4. LgIssued(w)' = <<Read(0)>>
    BY <2>1, LocalTypes DEF LgIssued, LastRead, Stays
  <2>5. /\ KHalf(kv_tile[w], 0, 1) \in Seq(Ops)
        /\ QLoadOps \in Seq(Ops)
    BY LocalTypes, PieceLists DEF Buffers
  <2>6. /\ VmIssued(w) = IF i_total_loops[w] < num_total_loop THEN KHalf(kv_tile[w], 0, 1) ELSE <<>>
        /\ VmIssued(w)' = IF i_total_loops[w] < num_total_loop THEN QLoadOps \o KHalf(kv_tile[w], 0, 1) ELSE <<>>
    BY <2>1 DEF VmIssued, LgIssued, Stays, LastRead
  <2>7. QueueInv(w)'
    <3>1. Suffix(lg'[w], LgIssued(w)')
      BY <2>3, <2>4, SuffixEmpty
    <3>2. Suffix(vm[w], VmIssued(w))
      BY DEF LocalInv, QueueInv
    <3>3. CASE i_total_loops[w] < num_total_loop
      BY <2>1, <2>6, <2>5, <3>1, <3>2, <3>3, LocalTypes, SuffixExtend DEF QueueInv
    <3>4. CASE ~(i_total_loops[w] < num_total_loop)
      BY <2>1, <2>6, <3>1, <3>2, <3>4 DEF QueueInv
    <3> QED BY <3>3, <3>4
  <2>8. RegsInv(w)'
    BY <2>1 DEF RegsInv, Stays, LocalInv
  <2>9. CountInv(w)'
    <3>1. ReadsIssued(w) \in Int /\ ReadsIssued(w)' = ReadsIssued(w) + 1
      BY <2>1, LocalTypes DEF ReadsIssued, Stays
    <3>2. ReadsInFlight(w) \in Int /\ ReadsInFlight(w)' = ReadsInFlight(w) + 1
      BY <2>1, <2>2, <2>3, LocalTypes, BoundsAssumption DEF ReadsInFlight, Stays
    <3>3. fed'[w] = fed[w] /\ Len(fed[w]) \in Nat
      BY <2>1, LocalTypes DEF Stays
    <3> QED BY <3>1, <3>2, <3>3 DEF CountInv, LocalInv
  <2>10. Quiet(w)
    BY <2>1, LocalTypes, OperandTile, BoundsAssumption DEF Quiet, Delivered, Stays, Issues
  <2>11. PhaseMoves(w)
    BY <2>1, LocalTypes DEF PhaseMoves, Released, Arrivals, Stage, Stays
  <2> QED BY <2>7, <2>8, <2>9, <2>10, <2>11 DEF LocalInv
<1>20. ASSUME Epilogue(w) PROVE LocalInv(w)' /\ Quiet(w) /\ PhaseMoves(w)
  <2>1. /\ pc[w] = "epilogue" /\ pc'[w] = "done"
        /\ Stays(w)
        /\ vm'[w] = vm[w]
        /\ lg'[w] = lg[w]
        /\ vm[w] = <<>> /\ lg[w] = <<>>
        /\ w \notin arrived /\ w \notin arrived'
        /\ i_total_loops[w] = num_total_loop
    BY <1>20, Seqs, LocalTypes, NothingLeft DEF Epilogue, Goto, Stays, waveVars, TypeInv,
       TypeOK, LoopControl, InBody, LgFence, VmFence, BarrierInv, AfterArrival, ReleaseIfAll
  <2>2. /\ VmIssued(w)' = <<>> /\ LgIssued(w)' = <<>>
    BY <2>1 DEF VmIssued, LgIssued, Stays, LastRead
  <2>3. QueueInv(w)'
    BY <2>1, <2>2, LocalTypes, SuffixEmpty DEF QueueInv, LocalInv
  <2>4. RegsInv(w)'
    BY <2>1 DEF RegsInv, Stays, LocalInv
  <2>5. CountInv(w)'
    BY <2>1, LocalTypes DEF CountInv, ReadsInFlight, ReadsIssued, Stays, LocalInv
  <2>6. Quiet(w)
    BY <2>1, LocalTypes, OperandTile, BoundsAssumption DEF Quiet, Delivered, Stays, Issues
  <2>7. PhaseMoves(w)
    BY <2>1, LocalTypes DEF PhaseMoves, Released, Arrivals, Stage, Stays
  <2> QED BY <2>3, <2>4, <2>5, <2>6, <2>7 DEF LocalInv
<1> QED
  BY <1>1, <1>2, <1>3, <1>4, <1>5, <1>6, <1>7, <1>8, <1>9, <1>10, <1>11, <1>12, <1>13,
     <1>14, <1>15, <1>16, <1>17, <1>18, <1>19, <1>20
     DEF WaveStep

-----------------------------------------------------------------------------
(***************************************************************************)
(* Which piece an entry of a queue is.                                     *)
(***************************************************************************)

\* Piece n of a half of K on its way into buffer b.
Copy(t, h, b, n)  == [op |-> "copy", buf |-> b, issue |-> n, operand |-> Operand("K", t, h)]

\* Piece n of a half of V on its way into registers.
Load(t, h, n)     == [op |-> "load", buf |-> 0, issue |-> n, operand |-> Operand("V", t, h)]

\* Piece n of a half of V on its way into buffer b.
Store(t, h, b, n) == [op |-> "write", buf |-> b, issue |-> n, operand |-> Operand("V", t, h)]

\* The entries of the groups of issues.
LEMMA PieceOps ==
  ASSUME NEW t, NEW h, NEW b
  PROVE  /\ \A n \in 1..CopyIssues : KHalf(t, h, b)[n] = Copy(t, h, b, n)
         /\ \A n \in 1..StoreIssues : VHalfLoads(t, h)[n] = Load(t, h, n)
         /\ \A n \in 1..StoreIssues : VHalfStores(t, h, b)[n] = Store(t, h, b, n)
         /\ \A n \in 1..QLoads : QLoadOps[n].op = "load"
BY DEF KHalf, VHalfLoads, VHalfStores, QLoadOps, Copy, Load, Store

\* The entry of a queue that ends in a K half, left entries before its end.
LEMMA CopyAt ==
  ASSUME NEW t \in 0..MaxTiles, NEW h \in 0..1, NEW b \in Buffers,
         NEW q \in Seq(Ops), NEW n \in 1..Len(q), NEW left, left = Len(q) - n
  PROVE  /\ left \in Nat
         /\ Suffix(q, KHalf(t, h, b)) =>
              left < CopyIssues /\ q[n] = Copy(t, h, b, CopyIssues - left)
         /\ \A a \in Seq(Ops) : Suffix(q, a \o KHalf(t, h, b)) =>
              /\ left < CopyIssues => q[n] = Copy(t, h, b, CopyIssues - left)
              /\ left >= CopyIssues =>
                   /\ Len(a) - (left - CopyIssues) \in 1..Len(a)
                   /\ q[n] = a[Len(a) - (left - CopyIssues)]
<1> DEFINE p == KHalf(t, h, b)
<1>1. p \in Seq(Ops) /\ Len(p) = CopyIssues
  BY PieceLists
<1>2. \A k \in 1..CopyIssues : p[k] = Copy(t, h, b, k)
  BY PieceOps
<1>3. left \in Nat
  OBVIOUS
<1> HIDE DEF p
<1>4. ASSUME Suffix(q, p) PROVE left < CopyIssues /\ q[n] = Copy(t, h, b, CopyIssues - left)
  <2>1. CopyIssues - left \in 1..CopyIssues /\ q[n] = p[CopyIssues - left]
    BY <1>1, <1>4, SuffixAt
  <2> QED BY <1>2, <1>3, <2>1, BoundsAssumption
<1>5. ASSUME NEW a \in Seq(Ops), Suffix(q, a \o p)
      PROVE  /\ left < CopyIssues => q[n] = Copy(t, h, b, CopyIssues - left)
             /\ left >= CopyIssues =>
                  /\ Len(a) - (left - CopyIssues) \in 1..Len(a)
                  /\ q[n] = a[Len(a) - (left - CopyIssues)]
  <2>1. /\ left < CopyIssues =>
             CopyIssues - left \in 1..CopyIssues /\ q[n] = p[CopyIssues - left]
        /\ left >= CopyIssues =>
             /\ Len(a) - (left - CopyIssues) \in 1..Len(a)
             /\ q[n] = a[Len(a) - (left - CopyIssues)]
    <3>1. EntryOf(q, a, p, n)
      BY <1>1, <1>5, SuffixAtConcat
    <3> QED BY <1>1, <3>1 DEF EntryOf
  <2> QED BY <1>2, <2>1
<1> QED BY <1>3, <1>4, <1>5 DEF p

\* The same for a queue of V loads.
LEMMA LoadAt ==
  ASSUME NEW t \in 0..MaxTiles, NEW h \in 0..1,
         NEW q \in Seq(Ops), NEW n \in 1..Len(q), NEW left, left = Len(q) - n,
         Suffix(q, VHalfLoads(t, h))
  PROVE  left < StoreIssues /\ q[n] = Load(t, h, StoreIssues - left)
<1> DEFINE p == VHalfLoads(t, h)
<1>1. p \in Seq(Ops) /\ Len(p) = StoreIssues
  BY PieceLists DEF Buffers
<1>2. \A k \in 1..StoreIssues : p[k] = Load(t, h, k)
  BY PieceOps
<1> HIDE DEF p
<1>3. StoreIssues - left \in 1..StoreIssues /\ q[n] = p[StoreIssues - left]
  BY <1>1, SuffixAt DEF p
<1> QED BY <1>2, <1>3, BoundsAssumption

\* The same for a queue of V stores.
LEMMA StoreAt ==
  ASSUME NEW t \in 0..MaxTiles, NEW h \in 0..1, NEW b \in Buffers,
         NEW q \in Seq(Ops), NEW n \in 1..Len(q), NEW left, left = Len(q) - n,
         Suffix(q, VHalfStores(t, h, b))
  PROVE  left < StoreIssues /\ q[n] = Store(t, h, b, StoreIssues - left)
<1> DEFINE p == VHalfStores(t, h, b)
<1>1. p \in Seq(Ops) /\ Len(p) = StoreIssues
  BY PieceLists DEF Buffers
<1>2. \A k \in 1..StoreIssues : p[k] = Store(t, h, b, k)
  BY PieceOps
<1> HIDE DEF p
<1>3. StoreIssues - left \in 1..StoreIssues /\ q[n] = p[StoreIssues - left]
  BY <1>1, SuffixAt DEF p
<1> QED BY <1>2, <1>3, BoundsAssumption

\* The same for a queue that starts with reads.
LEMMA ReadAt ==
  ASSUME NEW b \in Buffers, NEW q \in Seq(Ops), NEW n \in 1..Len(q), NEW left, left = Len(q) - n
  PROVE  /\ Suffix(q, <<Read(b)>>) => left = 0 /\ n = 1 /\ q[n] = Read(b)
         /\ \A c \in Buffers : Suffix(q, <<Read(c)>> \o <<Read(b)>>) =>
              \/ left = 0 /\ n \in {1, 2} /\ q[n] = Read(b)
              \/ left = 1 /\ n = 1 /\ q[n] = Read(c)
         /\ \A t \in 0..MaxTiles : Suffix(q, <<Read(b)>> \o VHalfStores(t, 1, 0)) =>
              \/ left < StoreIssues /\ q[n] = Store(t, 1, 0, StoreIssues - left)
              \/ left = StoreIssues /\ n = 1 /\ q[n] = Read(b)
<1>1. \A c \in Buffers : <<Read(c)>> \in Seq(Ops) /\ Len(<<Read(c)>>) = 1 /\ <<Read(c)>>[1] = Read(c)
  BY ReadPiece
<1>2. left \in Nat /\ n \in Nat /\ Len(q) \in Nat /\ n >= 1
  OBVIOUS
<1>3. ASSUME Suffix(q, <<Read(b)>>) PROVE left = 0 /\ n = 1 /\ q[n] = Read(b)
  <2> DEFINE p == <<Read(b)>>
  <2>1. p \in Seq(Ops) /\ Len(p) = 1 /\ p[1] = Read(b)
    BY <1>1
  <2>2. Suffix(q, p)
    BY <1>3
  <2> HIDE DEF p
  <2>3. 1 - left \in 1..1 /\ q[n] = p[1 - left] /\ Len(q) <= 1
    BY <2>1, <2>2, SuffixAt DEF Suffix
  <2> QED BY <1>2, <2>1, <2>3
<1>4. ASSUME NEW c \in Buffers, Suffix(q, <<Read(c)>> \o <<Read(b)>>)
      PROVE  \/ left = 0 /\ n \in {1, 2} /\ q[n] = Read(b)
             \/ left = 1 /\ n = 1 /\ q[n] = Read(c)
  <2> DEFINE p == <<Read(c)>> \o <<Read(b)>>
  <2>1. p \in Seq(Ops) /\ Len(p) = 2 /\ p[1] = Read(c) /\ p[2] = Read(b)
    BY <1>1
  <2>2. Suffix(q, p)
    BY <1>4
  <2> HIDE DEF p
  <2>3. 2 - left \in 1..2 /\ q[n] = p[2 - left] /\ Len(q) <= 2
    BY <2>1, <2>2, SuffixAt DEF Suffix
  <2> QED BY <1>2, <2>1, <2>3
<1>5. ASSUME NEW t \in 0..MaxTiles, Suffix(q, <<Read(b)>> \o VHalfStores(t, 1, 0))
      PROVE  \/ left < StoreIssues /\ q[n] = Store(t, 1, 0, StoreIssues - left)
             \/ left = StoreIssues /\ n = 1 /\ q[n] = Read(b)
  <2> DEFINE a == <<Read(b)>>
             p == VHalfStores(t, 1, 0)
  <2>1. a \in Seq(Ops) /\ Len(a) = 1 /\ a[1] = Read(b)
    BY <1>1
  <2>2. p \in Seq(Ops) /\ Len(p) = StoreIssues
    BY PieceLists DEF Buffers
  <2>3. \A k \in 1..StoreIssues : p[k] = Store(t, 1, 0, k)
    BY PieceOps
  <2>4. Suffix(q, a \o p)
    BY <1>5
  <2> HIDE DEF a, p
  <2>5. Len(q) <= 1 + StoreIssues
    <3>1. Len(a \o p) = Len(a) + Len(p)
      BY <2>1, <2>2, ConcatLen
    <3> QED BY <2>1, <2>2, <2>4, <3>1 DEF Suffix
  <2>6. /\ left < StoreIssues =>
             StoreIssues - left \in 1..StoreIssues /\ q[n] = p[StoreIssues - left]
        /\ left >= StoreIssues =>
             1 - (left - StoreIssues) \in 1..1 /\ q[n] = a[1 - (left - StoreIssues)]
    <3>1. EntryOf(q, a, p, n)
      BY <2>1, <2>2, <2>4, SuffixAtConcat
    <3> QED BY <2>1, <2>2, <3>1 DEF EntryOf
  <2>7. CASE left < StoreIssues
    BY <2>3, <2>6, <2>7
  <2>8. CASE left >= StoreIssues
    <3>1. left = StoreIssues
      BY <1>2, <2>6, <2>8, BoundsAssumption
    <3>2. n = 1
      BY <1>2, <2>5, <3>1, BoundsAssumption
    <3> QED BY <2>1, <2>6, <3>1, <3>2, BoundsAssumption
  <2> QED BY <1>2, <2>7, <2>8, BoundsAssumption
<1> QED BY <1>3, <1>4, <1>5

\* Entry n of the memory queue by where the wave is.
VmOp(w, n) ==
  LET t    == kv_tile[w]
      left == Len(vm[w]) - n
  IN
  \/ /\ pc[w] \in {"k_half1", "sync_v1", "gemm1_1"}
     /\ i_total_loops[w] < num_total_loop
     /\ left < CopyIssues
     /\ vm[w][n] = Copy(t, 0, 1, CopyIssues - left)
  \/ /\ pc[w] = "fence_half0"
     /\ left < 2 * CopyIssues /\ left >= CopyIssues
     /\ vm[w][n] = Copy(t, 0, 1, 2 * CopyIssues - left)
  \/ /\ pc[w] \in {"fence_half0", "gemm0_0", "fence_half1"}
     /\ left < CopyIssues
     /\ vm[w][n] = Copy(t, 1, 2, CopyIssues - left)
  \/ /\ pc[w] \in {"k_half1", "fence_half0"}
     /\ pc[w] = "k_half1" => left >= CopyIssues
     /\ pc[w] = "fence_half0" => left >= 2 * CopyIssues
     /\ vm[w][n].op = "load"
  \/ /\ pc[w] \in {"gemm0_1", "row_max", "store_v0"}
     /\ left < StoreIssues
     /\ vm[w][n] = Load(t, 0, StoreIssues - left)
  \/ /\ pc[w] \in {"row_sum", "sync_v0", "gemm1_0", "store_v1"}
     /\ left < StoreIssues
     /\ vm[w][n] = Load(t, 1, StoreIssues - left)

\* The memory queue holds what VmOp says.
LEMMA VmOps ==
  ASSUME TypeInv, NEW w \in Waves, QueueInv(w), NEW n \in 1..Len(vm[w])
  PROVE  VmOp(w, n)
<1> DEFINE t    == kv_tile[w]
           q    == vm[w]
           left == Len(q) - n
<1>1. /\ q \in Seq(Ops) /\ left = Len(q) - n /\ left \in Nat
      /\ n \in 1..Len(q)
      /\ Suffix(q, VmIssued(w))
      /\ t \in 0..MaxTiles
  BY LocalTypes DEF QueueInv
<1>2. /\ pc[w] \in Labels /\ LoopControl(w)
      /\ 0 \in 0..1 /\ 1 \in 0..1 /\ 1 \in Buffers /\ 2 \in Buffers
  BY DEF TypeInv, TypeOK, Buffers
<1>3. QLoadOps \in Seq(Ops) /\ Len(QLoadOps) = QLoads
  BY <1>1, <1>2, PieceLists
<1>4. CASE pc[w] = "k_half1"
  <2>1. Suffix(q, QLoadOps \o KHalf(t, 0, 1))
    BY <1>1, <1>4 DEF VmIssued
  <2>2. i_total_loops[w] < num_total_loop
    BY <1>2, <1>4 DEF LoopControl, InBody
  <2> HIDE DEF t, q, left
  <2>3. CASE left < CopyIssues
    <3>1. q[n] = Copy(t, 0, 1, CopyIssues - left)
      BY <1>1, <1>2, <1>3, <2>1, <2>3, CopyAt, SMTT(30)
    <3> QED BY <1>4, <2>2, <2>3, <3>1 DEF VmOp, t, q, left
  <2>4. CASE left >= CopyIssues
    <3> DEFINE j == Len(QLoadOps) - (left - CopyIssues)
    <3>1. q[n].op = "load"
      <4>1. j \in 1..Len(QLoadOps) /\ q[n] = QLoadOps[j]
        BY <1>1, <1>2, <1>3, <2>1, <2>4, CopyAt, SMTT(30)
      <4> HIDE DEF j
      <4> QED BY <1>3, <4>1, PieceOps
    <3> QED BY <1>4, <2>4, <3>1 DEF VmOp, t, q, left
  <2> QED BY <2>3, <2>4, <1>1, BoundsAssumption
<1>5. CASE pc[w] = "fence_half0"
  <2> DEFINE a == QLoadOps \o KHalf(t, 0, 1)
  <2>1. Suffix(q, a \o KHalf(t, 1, 2))
    BY <1>1, <1>5 DEF VmIssued
  <2> HIDE DEF t, q, left
  <2>2. KHalf(t, 0, 1) \in Seq(Ops) /\ Len(KHalf(t, 0, 1)) = CopyIssues
    BY <1>1, <1>2, PieceLists
  <2>3. a \in Seq(Ops) /\ Len(a) = QLoads + CopyIssues
    BY <1>3, <2>2, ConcatProperties
  <2>4. CASE left < CopyIssues
    <3>1. q[n] = Copy(t, 1, 2, CopyIssues - left)
      <4> HIDE DEF a
      <4> QED BY <1>1, <1>2, <2>1, <2>3, <2>4, CopyAt
    <3> QED BY <1>5, <2>4, <3>1 DEF VmOp, t, q, left
  <2>5. CASE left >= CopyIssues
    <3> DEFINE j == QLoads + CopyIssues - (left - CopyIssues)
    <3>1. j \in 1..(QLoads + CopyIssues) /\ q[n] = a[j]
      <4> HIDE DEF a
      <4>1. /\ Len(a) - (left - CopyIssues) \in 1..Len(a)
            /\ q[n] = a[Len(a) - (left - CopyIssues)]
        BY <1>1, <1>2, <2>1, <2>3, <2>5, CopyAt, SMTT(30)
      <4> QED BY <1>1, <2>3, <4>1, BoundsAssumption
    <3>2. j = QLoads + 2 * CopyIssues - left /\ j \in Nat
      BY <1>1, <3>1, BoundsAssumption
    <3> HIDE DEF j
    <3>3. CASE left < 2 * CopyIssues
      <4>1. j - QLoads = 2 * CopyIssues - left /\ j - QLoads \in 1..CopyIssues
        BY <1>1, <3>2, <2>5, <3>3, BoundsAssumption
      <4>2. a[j] = KHalf(t, 0, 1)[j - QLoads]
        BY <1>3, <2>2, <3>1, <4>1, BoundsAssumption
      <4>3. q[n] = Copy(t, 0, 1, 2 * CopyIssues - left)
        BY <3>1, <4>1, <4>2, PieceOps
      <4> QED BY <1>5, <2>5, <3>3, <4>3 DEF VmOp, t, q, left
    <3>4. CASE left >= 2 * CopyIssues
      <4>1. j \in 1..QLoads
        BY <1>1, <3>1, <3>2, <3>4, BoundsAssumption
      <4>2. a[j] = QLoadOps[j]
        BY <1>3, <2>2, <4>1, BoundsAssumption
      <4> QED BY <1>5, <3>1, <3>4, <4>1, <4>2, PieceOps DEF VmOp, t, q, left
    <3> QED BY <3>3, <3>4, <1>1, BoundsAssumption
  <2> QED BY <2>4, <2>5, <1>1, BoundsAssumption
<1>6. CASE pc[w] \in {"gemm0_0", "fence_half1"}
  <2>1. Suffix(q, KHalf(t, 1, 2))
    BY <1>1, <1>6 DEF VmIssued
  <2> HIDE DEF t, q, left
  <2>2. left < CopyIssues /\ q[n] = Copy(t, 1, 2, CopyIssues - left)
    BY <1>1, <1>2, <2>1, CopyAt
  <2> QED BY <1>6, <2>2 DEF VmOp, t, q, left
<1>7. CASE pc[w] \in {"gemm0_1", "row_max", "store_v0"}
  <2>1. Suffix(q, VHalfLoads(t, 0))
    BY <1>1, <1>7 DEF VmIssued
  <2> HIDE DEF t, q, left
  <2>2. left < StoreIssues /\ q[n] = Load(t, 0, StoreIssues - left)
    BY <1>1, <1>2, <2>1, LoadAt
  <2> QED BY <1>7, <2>2 DEF VmOp, t, q, left
<1>8. CASE pc[w] \in {"row_sum", "sync_v0", "gemm1_0", "store_v1"}
  <2>1. Suffix(q, VHalfLoads(t, 1))
    BY <1>1, <1>8 DEF VmIssued
  <2> HIDE DEF t, q, left
  <2>2. left < StoreIssues /\ q[n] = Load(t, 1, StoreIssues - left)
    BY <1>1, <1>2, <2>1, LoadAt
  <2> QED BY <1>8, <2>2 DEF VmOp, t, q, left
<1>9. CASE pc[w] \in {"sync_v1", "gemm1_1"} /\ i_total_loops[w] < num_total_loop
  <2>1. Suffix(q, KHalf(t, 0, 1))
    BY <1>1, <1>9 DEF VmIssued
  <2> HIDE DEF t, q, left
  <2>2. left < CopyIssues /\ q[n] = Copy(t, 0, 1, CopyIssues - left)
    BY <1>1, <1>2, <2>1, CopyAt
  <2> QED BY <1>9, <2>2 DEF VmOp, t, q, left
<1>10. CASE /\ pc[w] \notin {"k_half1", "fence_half0", "gemm0_0", "fence_half1", "gemm0_1", "row_max",
                             "store_v0", "row_sum", "sync_v0", "gemm1_0", "store_v1"}
            /\ ~(pc[w] \in {"sync_v1", "gemm1_1"} /\ i_total_loops[w] < num_total_loop)
  <2>1. Suffix(q, <<>>)
    BY <1>1, <1>10 DEF VmIssued
  <2>2. q = <<>>
    BY <1>1, <2>1, SuffixEmpty
  <2> QED BY <1>1, <2>2
<1> QED BY <1>4, <1>5, <1>6, <1>7, <1>8, <1>9, <1>10

\* Entry n of the LDS queue by where the wave is.
LgOp(w, n) ==
  LET i    == i_total_loops[w]
      left == Len(lg[w]) - n
  IN
  \/ /\ pc[w] = "row_sum"
     /\ left < StoreIssues
     /\ lg[w][n] = Store(i, 0, 1, StoreIssues - left)
  \/ /\ pc[w] = "advance"
     /\ left < StoreIssues
     /\ lg[w][n] = Store(i, 1, 0, StoreIssues - left)
  \/ /\ pc[w] \in {"k_prefetch", "sync_v1"}
     /\ left < StoreIssues
     /\ lg[w][n] = Store(i - 1, 1, 0, StoreIssues - left)
  \/ /\ pc[w] \in {"k_half1", "fence_half0", "gemm0_0", "epilogue"}
     /\ i > 0 /\ n = 1 /\ left = 0
     /\ lg[w][n] = Read(0)
  \/ /\ pc[w] = "fence_half1"
     /\ n \in {1, 2} /\ left = 0
     /\ lg[w][n] = Read(1)
  \/ /\ pc[w] = "fence_half1"
     /\ i > 0 /\ n = 1 /\ left = 1
     /\ lg[w][n] = Read(0)
  \/ /\ pc[w] = "row_max"
     /\ n = 1 /\ left = 0
     /\ lg[w][n] = Read(2)
  \/ /\ pc[w] = "store_v1"
     /\ n = 1 /\ left = 0
     /\ lg[w][n] = Read(1)
  \/ /\ pc[w] = "advance" \/ (pc[w] = "sync_v1" /\ i = num_total_loop)
     /\ n = 1 /\ left = StoreIssues
     /\ lg[w][n] = Read(1)

\* The LDS queue holds what LgOp says.
LEMMA LgOps ==
  ASSUME TypeInv, NEW w \in Waves, QueueInv(w), NEW n \in 1..Len(lg[w])
  PROVE  LgOp(w, n)
<1> DEFINE i    == i_total_loops[w]
           q    == lg[w]
           left == Len(q) - n
<1>1. /\ q \in Seq(Ops) /\ left = Len(q) - n /\ left \in Nat
      /\ n \in 1..Len(q)
      /\ Suffix(q, LgIssued(w))
  BY LocalTypes DEF QueueInv
<1>2. /\ pc[w] \in Labels /\ LoopControl(w)
      /\ i \in Nat /\ i \in 0..MaxTiles /\ num_total_loop \in Nat /\ MaxTiles \in Nat
      /\ 0 \in 0..1 /\ 1 \in 0..1 /\ 0 \in Buffers /\ 1 \in Buffers /\ 2 \in Buffers
  <2>1. i \in Nat /\ i \in 0..MaxTiles /\ num_total_loop \in Nat /\ MaxTiles \in Nat
    BY LocalTypes
  <2>2. pc[w] \in Labels /\ LoopControl(w)
    BY DEF TypeInv, TypeOK
  <2> QED BY <2>1, <2>2 DEF Buffers
<1>3. CASE pc[w] = "row_sum"
  <2>1. Suffix(q, VHalfStores(i, 0, 1))
    BY <1>1, <1>3 DEF LgIssued
  <2> HIDE DEF i, q, left
  <2>2. left < StoreIssues /\ q[n] = Store(i, 0, 1, StoreIssues - left)
    BY <1>1, <1>2, <2>1, StoreAt
  <2> QED BY <1>3, <2>2 DEF LgOp, i, q, left
<1>4. CASE pc[w] = "k_prefetch" \/ (pc[w] = "sync_v1" /\ i < num_total_loop)
  <2> DEFINE t == i - 1
  <2>1. t \in 0..MaxTiles
    BY <1>2, <1>4 DEF LoopControl
  <2>2. Suffix(q, VHalfStores(t, 1, 0))
    BY <1>1, <1>4 DEF LgIssued
  <2> HIDE DEF i, t, q, left
  <2>3. left < StoreIssues /\ q[n] = Store(t, 1, 0, StoreIssues - left)
    BY <1>1, <1>2, <2>1, <2>2, StoreAt
  <2> QED BY <1>4, <2>3 DEF LgOp, i, t, q, left
<1>5. CASE pc[w] = "advance"
  <2>1. Suffix(q, <<Read(1)>> \o VHalfStores(i, 1, 0))
    BY <1>1, <1>5 DEF LgIssued
  <2> HIDE DEF i, q, left
  <2>2. \/ left < StoreIssues /\ q[n] = Store(i, 1, 0, StoreIssues - left)
        \/ left = StoreIssues /\ n = 1 /\ q[n] = Read(1)
    BY <1>1, <1>2, <2>1, ReadAt
  <2>3. CASE left < StoreIssues /\ q[n] = Store(i, 1, 0, StoreIssues - left)
    BY <1>5, <2>3 DEF LgOp, i, q, left
  <2>4. CASE left = StoreIssues /\ n = 1 /\ q[n] = Read(1)
    <3>1. lg[w][n] = Read(1) /\ Len(lg[w]) - n = StoreIssues
      BY <2>4 DEF q, left
    <3> QED BY <1>5, <2>4, <3>1 DEF LgOp
  <2> QED BY <2>2, <2>3, <2>4
<1>6. CASE pc[w] = "sync_v1" /\ ~(i < num_total_loop)
  <2> DEFINE t == i - 1
  <2>1. t \in 0..MaxTiles /\ i = num_total_loop
    BY <1>2, <1>6 DEF LoopControl
  <2>2. Suffix(q, <<Read(1)>> \o VHalfStores(t, 1, 0))
    BY <1>1, <1>6 DEF LgIssued
  <2> HIDE DEF i, t, q, left
  <2>3. \/ left < StoreIssues /\ q[n] = Store(t, 1, 0, StoreIssues - left)
        \/ left = StoreIssues /\ n = 1 /\ q[n] = Read(1)
    <3>1. \A s \in 0..MaxTiles : Suffix(q, <<Read(1)>> \o VHalfStores(s, 1, 0)) =>
             \/ left < StoreIssues /\ q[n] = Store(s, 1, 0, StoreIssues - left)
             \/ left = StoreIssues /\ n = 1 /\ q[n] = Read(1)
      BY <1>1, <1>2, ReadAt
    <3> QED BY <2>1, <2>2, <3>1
  <2> QED BY <1>6, <2>1, <2>3 DEF LgOp, i, t, q, left
<1>7. CASE pc[w] \in {"k_half1", "fence_half0", "gemm0_0", "epilogue"}
  <2>1. Suffix(q, LastRead(w))
    BY <1>1, <1>7 DEF LgIssued
  <2>2. i # 0
    <3> SUFFICES ASSUME i = 0 PROVE FALSE
      OBVIOUS
    <3>1. Suffix(q, <<>>)
      BY <2>1 DEF LastRead
    <3> QED BY <1>1, <3>1, SuffixEmpty
  <2>3. i > 0 /\ Suffix(q, <<Read(0)>>)
    BY <1>2, <2>1, <2>2 DEF LastRead
  <2> HIDE DEF i, q, left
  <2>4. left = 0 /\ n = 1 /\ q[n] = Read(0)
    BY <1>1, <1>2, <2>3, ReadAt
  <2> QED BY <1>7, <2>3, <2>4 DEF LgOp, i, q, left
<1>8. CASE pc[w] = "fence_half1"
  <2>1. Suffix(q, LastRead(w) \o <<Read(1)>>)
    BY <1>1, <1>8 DEF LgIssued
  <2>2. CASE i = 0
    <3>1. Suffix(q, <<Read(1)>>)
      BY <1>2, <2>1, <2>2, ReadPiece DEF LastRead
    <3> HIDE DEF i, q, left
    <3>2. left = 0 /\ n = 1 /\ q[n] = Read(1)
      BY <1>1, <1>2, <3>1, ReadAt
    <3> QED BY <1>8, <3>2 DEF LgOp, q, left
  <2>3. CASE i # 0
    <3>1. i > 0 /\ Suffix(q, <<Read(0)>> \o <<Read(1)>>)
      BY <1>2, <2>1, <2>3 DEF LastRead
    <3> HIDE DEF i, q, left
    <3>2. \/ left = 0 /\ n \in {1, 2} /\ q[n] = Read(1)
          \/ left = 1 /\ n = 1 /\ q[n] = Read(0)
      BY <1>1, <1>2, <3>1, ReadAt
    <3> QED BY <1>8, <3>1, <3>2 DEF LgOp, i, q, left
  <2> QED BY <2>2, <2>3
<1>9. CASE pc[w] = "row_max"
  <2>1. Suffix(q, <<Read(2)>>)
    BY <1>1, <1>9 DEF LgIssued
  <2> HIDE DEF i, q, left
  <2>2. left = 0 /\ n = 1 /\ q[n] = Read(2)
    BY <1>1, <1>2, <2>1, ReadAt
  <2> QED BY <1>9, <2>2 DEF LgOp, q, left
<1>10. CASE pc[w] = "store_v1"
  <2>1. Suffix(q, <<Read(1)>>)
    BY <1>1, <1>10 DEF LgIssued
  <2> HIDE DEF i, q, left
  <2>2. left = 0 /\ n = 1 /\ q[n] = Read(1)
    BY <1>1, <1>2, <2>1, ReadAt
  <2> QED BY <1>10, <2>2 DEF LgOp, q, left
<1>11. CASE pc[w] \notin {"row_sum", "k_prefetch", "sync_v1", "advance", "k_half1", "fence_half0",
                         "gemm0_0", "epilogue", "fence_half1", "row_max", "store_v1"}
  <2>1. Suffix(q, <<>>)
    BY <1>1, <1>11 DEF LgIssued
  <2>2. q = <<>>
    BY <1>1, <2>1, SuffixEmpty
  <2> QED BY <1>1, <2>2
<1>12. CASE pc[w] = "sync_v1"
  BY <1>4, <1>6, <1>12
<1>13. CASE pc[w] = "k_prefetch"
  BY <1>4, <1>13
<1> HIDE DEF i
<1> QED BY <1>3, <1>13, <1>5, <1>7, <1>8, <1>9, <1>10, <1>11, <1>12

-----------------------------------------------------------------------------
(***************************************************************************)
(* The steps of memory.                                                    *)
(***************************************************************************)

\* What was issued is a sequence of operations.
LEMMA IssuedSeqs ==
  ASSUME TypeInv, NEW w \in Waves
  PROVE  VmIssued(w) \in Seq(Ops) /\ LgIssued(w) \in Seq(Ops)
<1>1. /\ i_total_loops[w] \in 0..MaxTiles /\ kv_tile[w] \in 0..MaxTiles
      /\ i_total_loops[w] \in Nat /\ MaxTiles \in Nat
      /\ LoopControl(w)
  BY BoundsAssumption DEF TypeInv, TypeOK
<1>2. \A t \in 0..MaxTiles : /\ KHalf(t, 0, 1) \in Seq(Ops) /\ KHalf(t, 1, 2) \in Seq(Ops)
                             /\ VHalfLoads(t, 0) \in Seq(Ops) /\ VHalfLoads(t, 1) \in Seq(Ops)
                             /\ VHalfStores(t, 0, 1) \in Seq(Ops)
                             /\ VHalfStores(t, 1, 0) \in Seq(Ops)
                             /\ QLoadOps \in Seq(Ops)
  BY PieceLists DEF Buffers
<1>3. /\ <<Read(0)>> \in Seq(Ops) /\ <<Read(1)>> \in Seq(Ops) /\ <<Read(2)>> \in Seq(Ops)
      /\ <<>> \in Seq(Ops)
  BY ReadPiece DEF Buffers
<1>4. \A a, b \in Seq(Ops) : a \o b \in Seq(Ops)
  OBVIOUS
<1>5. VmIssued(w) \in Seq(Ops)
  BY <1>1, <1>2, <1>3, <1>4, Zenon DEF VmIssued
<1>6. LastRead(w) \in Seq(Ops)
  BY <1>3 DEF LastRead
<1>7. pc[w] \in {"k_prefetch", "sync_v1"} => i_total_loops[w] - 1 \in 0..MaxTiles
  BY <1>1 DEF LoopControl
<1>8. LgIssued(w) \in Seq(Ops)
  <2>1. CASE pc[w] \in {"k_prefetch", "sync_v1"}
    BY <1>2, <1>3, <1>4, <1>7, <2>1, Zenon DEF LgIssued
  <2>2. CASE pc[w] \notin {"k_prefetch", "sync_v1"}
    BY <1>1, <1>2, <1>3, <1>4, <1>6, <2>2, Zenon DEF LgIssued
  <2> QED BY <2>1, <2>2
<1> QED BY <1>5, <1>8

\* The wave's program does not move: a piece of its lands or returns.
Idle(w) ==
  /\ num_total_loop' = num_total_loop
  /\ pc'[w] = pc[w]
  /\ i_total_loops'[w] = i_total_loops[w]
  /\ kv_tile'[w] = kv_tile[w]
  /\ arrived' = arrived

\* A memory step changes nothing of what was issued.
LEMMA IdleIssues ==
  ASSUME NEW w \in Waves, Idle(w)
  PROVE  /\ VmIssued(w)' = VmIssued(w)
         /\ LgIssued(w)' = LgIssued(w)
         /\ ReadsIssued(w)' = ReadsIssued(w)
         /\ Released(w)' = Released(w)
<1>1. VmIssued(w)' = VmIssued(w)
  BY DEF Idle, VmIssued
<1>2. LgIssued(w)' = LgIssued(w)
  BY DEF Idle, LgIssued, LastRead
<1>3. ReadsIssued(w)' = ReadsIssued(w)
  BY DEF Idle, ReadsIssued
<1>4. Released(w)' = Released(w)
  BY DEF Idle, Released, Arrivals
<1> QED BY <1>1, <1>2, <1>3, <1>4

\* A memory step takes the head of the memory queue.
LEMMA VmTail ==
  ASSUME TypeInv, NEW w \in Waves, VmStep(w)
  PROVE  /\ Idle(w)
         /\ vm[w] # <<>> /\ vm'[w] = Tail(vm[w])
         /\ Head(vm[w]) = vm[w][1] /\ 1 \in 1..Len(vm[w])
         /\ vm'[w] \in Seq(Ops)
         /\ Len(vm'[w]) = Len(vm[w]) - 1
         /\ lg' = lg /\ fed' = fed
<1>1. Idle(w) /\ lg' = lg /\ fed' = fed
  BY DEF VmStep, CopyLands, LoadReturns, Idle, waveVars
<1>2. vm[w] # <<>> /\ vm' = [vm EXCEPT ![w] = Tail(@)]
  BY DEF VmStep, CopyLands, LoadReturns
<1>3. vm'[w] = Tail(vm[w]) /\ vm[w] \in Seq(Ops)
  BY <1>2 DEF TypeInv, TypeOK
<1>4. /\ Head(vm[w]) = vm[w][1] /\ Len(Tail(vm[w])) = Len(vm[w]) - 1
      /\ Tail(vm[w]) \in Seq(Ops) /\ Len(vm[w]) \in Nat /\ Len(vm[w]) # 0
  BY <1>2, <1>3, HeadTailProperties, EmptySeq
<1>5. 1 \in 1..Len(vm[w])
  BY <1>4
<1>6. vm'[w] \in Seq(Ops) /\ Len(vm'[w]) = Len(vm[w]) - 1
  BY <1>3, <1>4, Zenon
<1> QED BY <1>1, <1>2, <1>3, <1>4, <1>5, <1>6, Zenon

\* An LDS step takes the head of the LDS queue.
LEMMA LgTail ==
  ASSUME TypeInv, NEW w \in Waves, LgStep(w)
  PROVE  /\ Idle(w)
         /\ lg[w] # <<>> /\ lg'[w] = Tail(lg[w])
         /\ Head(lg[w]) = lg[w][1] /\ 1 \in 1..Len(lg[w])
         /\ lg'[w] \in Seq(Ops)
         /\ Len(lg'[w]) = Len(lg[w]) - 1
         /\ vm' = vm /\ v_regs' = v_regs
<1>1. Idle(w) /\ vm' = vm /\ v_regs' = v_regs
  BY DEF LgStep, StoreLands, ReadReturns, Idle, waveVars
<1>2. lg[w] # <<>> /\ lg' = [lg EXCEPT ![w] = Tail(@)]
  BY DEF LgStep, StoreLands, ReadReturns
<1>3. lg'[w] = Tail(lg[w]) /\ lg[w] \in Seq(Ops)
  BY <1>2 DEF TypeInv, TypeOK
<1>4. /\ Head(lg[w]) = lg[w][1] /\ Len(Tail(lg[w])) = Len(lg[w]) - 1
      /\ Tail(lg[w]) \in Seq(Ops) /\ Len(lg[w]) \in Nat /\ Len(lg[w]) # 0
  BY <1>2, <1>3, HeadTailProperties, EmptySeq
<1>5. 1 \in 1..Len(lg[w])
  BY <1>4
<1>6. lg'[w] \in Seq(Ops) /\ Len(lg'[w]) = Len(lg[w]) - 1
  BY <1>3, <1>4, Zenon
<1> QED BY <1>1, <1>2, <1>3, <1>4, <1>5, <1>6, Zenon

\* A copy that lands or a load that returns keeps the wave's part.
LEMMA VmLocal ==
  ASSUME TypeInv, NEW w \in Waves, LocalInv(w), VmStep(w)
  PROVE  LocalInv(w)'
<1>1. QueueInv(w) /\ RegsInv(w) /\ CountInv(w)
  BY DEF LocalInv
<1>2. /\ Idle(w)
      /\ vm[w] # <<>> /\ vm'[w] = Tail(vm[w])
      /\ Head(vm[w]) = vm[w][1] /\ 1 \in 1..Len(vm[w])
      /\ vm'[w] \in Seq(Ops) /\ Len(vm'[w]) = Len(vm[w]) - 1
      /\ lg' = lg /\ fed' = fed
  BY VmTail
<1>3. /\ vm[w] \in Seq(Ops) /\ Len(vm[w]) \in Nat
      /\ VmIssued(w) \in Seq(Ops)
      /\ VmIssued(w)' = VmIssued(w) /\ LgIssued(w)' = LgIssued(w)
      /\ ReadsIssued(w)' = ReadsIssued(w)
  BY <1>2, LocalTypes, IssuedSeqs, IdleIssues
<1>4. QueueInv(w)'
  <2>1. Suffix(Tail(vm[w]), VmIssued(w))
    BY <1>1, <1>2, <1>3, SuffixTail DEF QueueInv
  <2>2. Suffix(lg[w], LgIssued(w))
    BY <1>1 DEF QueueInv
  <2> QED BY <1>2, <1>3, <2>1, <2>2 DEF QueueInv
<1>5. RegsInv(w)'
  <2> SUFFICES ASSUME vm'[w] = <<>>
               PROVE  /\ pc[w] \in {"gemm0_1", "row_max", "store_v0"} =>
                           v_regs'[w][0] = Operand("V", kv_tile[w], 0)
                      /\ pc[w] \in {"row_sum", "sync_v0", "gemm1_0", "store_v1"} =>
                           v_regs'[w][1] = Operand("V", kv_tile[w], 1)
    BY <1>2 DEF RegsInv, Idle
  <2>1. Len(vm[w]) = 1
    BY <1>2, <1>3, EmptySeq
  <2>2. VmOp(w, 1)
    BY <1>1, <1>2, VmOps
  <2>3. ASSUME NEW h \in 0..1, vm[w][1] = Load(kv_tile[w], h, StoreIssues)
        PROVE  v_regs'[w][h] = Operand("V", kv_tile[w], h)
    <3>1. /\ vm[w][1].op = "load" /\ vm[w][1].issue = StoreIssues
          /\ vm[w][1].operand = Operand("V", kv_tile[w], h)
      BY <2>3 DEF Load
    <3>2. Operand("V", kv_tile[w], h).kind = "V" /\ Operand("V", kv_tile[w], h).half = h
      BY DEF Operand
    <3>3. LoadReturns(w)
      BY <1>2, <3>1 DEF VmStep, CopyLands
    <3>4. v_regs' = [v_regs EXCEPT ![w][h] = Operand("V", kv_tile[w], h)]
      BY <1>2, <3>1, <3>2, <3>3 DEF LoadReturns
    <3>5. v_regs \in [Waves -> [0..1 -> Operands]]
      BY DEF TypeInv, TypeOK
    <3> QED BY <3>4, <3>5
  <2>4. StoreIssues - (Len(vm[w]) - 1) = StoreIssues
    BY <2>1, BoundsAssumption
  <2> QED BY <2>2, <2>3, <2>4 DEF VmOp
<1>6. CountInv(w)'
  BY <1>1, <1>2, <1>3 DEF CountInv, ReadsInFlight, Idle
<1> QED BY <1>4, <1>5, <1>6 DEF LocalInv

\* A store that lands or a read that returns keeps the wave's part.
LEMMA LgLocal ==
  ASSUME TypeInv, NEW w \in Waves, LocalInv(w), LgStep(w)
  PROVE  LocalInv(w)'
<1>1. QueueInv(w) /\ RegsInv(w) /\ CountInv(w)
  BY DEF LocalInv
<1>2. /\ Idle(w)
      /\ lg[w] # <<>> /\ lg'[w] = Tail(lg[w])
      /\ Head(lg[w]) = lg[w][1] /\ 1 \in 1..Len(lg[w])
      /\ lg'[w] \in Seq(Ops) /\ Len(lg'[w]) = Len(lg[w]) - 1
      /\ vm' = vm /\ v_regs' = v_regs
  BY LgTail
<1>3. /\ lg[w] \in Seq(Ops) /\ Len(lg[w]) \in Nat
      /\ LgIssued(w) \in Seq(Ops)
      /\ VmIssued(w)' = VmIssued(w) /\ LgIssued(w)' = LgIssued(w)
      /\ ReadsIssued(w)' = ReadsIssued(w)
  BY <1>2, LocalTypes, IssuedSeqs, IdleIssues
<1>4. QueueInv(w)'
  <2>1. Suffix(Tail(lg[w]), LgIssued(w))
    BY <1>1, <1>2, <1>3, SuffixTail DEF QueueInv
  <2>2. Suffix(vm[w], VmIssued(w))
    BY <1>1 DEF QueueInv
  <2> QED BY <1>2, <1>3, <2>1, <2>2 DEF QueueInv
<1>5. RegsInv(w)'
  BY <1>1, <1>2 DEF RegsInv, Idle
<1>6. CountInv(w)'
  <2>1. LgOp(w, 1)
    BY <1>1, <1>2, LgOps
  <2>2. StoreIssues \in Nat /\ StoreIssues > 0
    BY BoundsAssumption
  <2>3. CASE StoreLands(w)
    <3>1. fed' = fed
      BY <2>3 DEF StoreLands
    <3>2. lg[w][1] \notin {Read(0), Read(1), Read(2)}
      BY <1>2, <2>3 DEF StoreLands, Read
    <3>3. \/ pc[w] \in {"row_sum", "k_prefetch"}
          \/ pc[w] \in {"advance", "sync_v1"} /\ Len(lg[w]) <= StoreIssues
      <4>1. Len(lg[w]) - 1 < StoreIssues => Len(lg[w]) <= StoreIssues
        BY <1>3, <2>2
      <4>2. /\ Len(lg[w]) - 1 < StoreIssues
            /\ pc[w] \in {"row_sum", "advance", "k_prefetch", "sync_v1"}
        BY <2>1, <3>2 DEF LgOp
      <4> QED BY <4>1, <4>2, Zenon
    <3>4. ReadsInFlight(w)' = ReadsInFlight(w)
      BY <1>2, <1>3, <2>2, <3>3 DEF ReadsInFlight, Idle
    <3> QED BY <1>1, <1>3, <3>1, <3>4 DEF CountInv
  <2>4. CASE ReadReturns(w)
    <3>1. Len(fed'[w]) = Len(fed[w]) + 1 /\ Len(fed[w]) \in Nat
      BY <2>4 DEF ReadReturns, TypeInv, TypeOK
    <3>2. lg[w][1].op = "read"
      BY <1>2, <2>4 DEF ReadReturns
    <3>3. \A t, h, b, n : Store(t, h, b, n).op # "read"
      BY DEF Store
    <3>4. \/ pc[w] \notin {"row_sum", "k_prefetch", "advance", "sync_v1"}
          \/ pc[w] \in {"advance", "sync_v1"} /\ Len(lg[w]) = StoreIssues + 1
      BY <1>3, <2>1, <2>2, <3>2, <3>3, SMTT(30) DEF LgOp
    <3>5. ReadsInFlight(w)' = ReadsInFlight(w) - 1 /\ ReadsInFlight(w) \in Nat
      BY <1>2, <1>3, <2>2, <3>4 DEF ReadsInFlight, Idle
    <3> QED BY <1>1, <1>3, <3>1, <3>5 DEF CountInv
  <2> QED BY <2>3, <2>4 DEF LgStep
<1> QED BY <1>4, <1>5, <1>6 DEF LocalInv

-----------------------------------------------------------------------------
(***************************************************************************)
(* The invariant: the part of every wave, what the GEMMs were fed, and what *)
(* the buffers hold.  A buffer is for one operand in each phase, the number of *)
(* barriers behind a wave, and the waves are all in the same phase; so the *)
(* buffer's contents can be stated by the phase of any of them.            *)
(***************************************************************************)

\* The GEMMs of the wave were fed the operands in the order of the loop.
FedInv(w) == \A n \in 1..Len(fed[w]) : fed[w][n] = Block!NthOperand(n - 1)

\* The operand that buffer b is for once r barriers are behind all waves.
Current(b, r) ==
  LET t == r \div 5
      s == r % 5
  IN  CASE b = 1 /\ s \in {0, 1} -> Operand("K", t, 0)
        [] b = 1 /\ s \in {2, 3} -> Operand("V", t, 0)
        [] b = 1 /\ s = 4 -> Operand("K", t + 1, 0)
        [] b = 2 -> Operand("K", t, 1)
        [] b = 0 /\ (s \in {3, 4} \/ t = 0) -> Operand("V", t, 1)
        [] OTHER -> Operand("V", t - 1, 1)

\* The pieces of operand d that buffer b holds.
PiecesOf(b, d) == IF lds[b].operand = d THEN lds[b].pieces ELSE {}

\* Buffer b holds the pieces of d that were delivered and no other.
Holds(b, d) ==
  PiecesOf(b, d) = {p \in Waves \X (1..Issues(d.kind)) : Delivered(p[1], d, p[2])}

\* Buffer b holds what was delivered of the operand it is for now.
BufferInv(b) == \A w \in Waves : \A d \in {Current(b, Released(w))} : Holds(b, d)

\* The invariant of the data flow.
FlowInv ==
  /\ \A w \in Waves : LocalInv(w) /\ FedInv(w)
  /\ num_total_loop > 0 => \A b \in Buffers : BufferInv(b)

-----------------------------------------------------------------------------
(***************************************************************************)
(* Phases and operands.                                                    *)
(***************************************************************************)

\* Phases count five barriers a tile.
LEMMA DivMod5 ==
  ASSUME NEW t \in Int
  PROVE  \A s \in 0..4 : (5 * t + s) \div 5 = t /\ (5 * t + s) % 5 = s
OBVIOUS

\* The operand of each buffer in phase s of tile t.
CurrentAt(t, s, r) ==
  /\ Current(0, r) = IF s \in {3, 4} \/ t = 0 THEN Operand("V", t, 1) ELSE Operand("V", t - 1, 1)
  /\ Current(1, r) = IF s \in {0, 1} THEN Operand("K", t, 0)
                     ELSE IF s \in {2, 3} THEN Operand("V", t, 0) ELSE Operand("K", t + 1, 0)
  /\ Current(2, r) = Operand("K", t, 1)

\* Buffer 1 passes from K half 0 to V half 0 within a tile, the two others keep
\* theirs for a tile.
LEMMA CurrentWhen ==
  ASSUME NEW t \in Nat, NEW s \in 0..4, NEW r, r = 5 * t + s
  PROVE  CurrentAt(t, s, r)
<1>1. r \div 5 = t /\ r % 5 = s
  BY DivMod5
<1>2. s \in {0, 1, 2, 3, 4}
  OBVIOUS
<1>3. Current(0, r) = IF s \in {3, 4} \/ t = 0 THEN Operand("V", t, 1) ELSE Operand("V", t - 1, 1)
  BY <1>1, <1>2 DEF Current
<1>4. Current(1, r) = IF s \in {0, 1} THEN Operand("K", t, 0)
                      ELSE IF s \in {2, 3} THEN Operand("V", t, 0) ELSE Operand("K", t + 1, 0)
  BY <1>1, <1>2 DEF Current
<1>5. Current(2, r) = Operand("K", t, 1)
  BY <1>1, <1>2 DEF Current
<1> QED BY <1>3, <1>4, <1>5 DEF CurrentAt

\* An operand of the loop is known by its three fields.
LEMMA OperandIs ==
  ASSUME NEW k \in {"K", "V"}, NEW t \in Nat, NEW h \in 0..1
  PROVE  /\ Operand(k, t, h) \in Block!Operands
         /\ Operand(k, t, h).kind = k /\ Operand(k, t, h).tile = t /\ Operand(k, t, h).half = h
         /\ \A d \in Block!Operands :
              d = Operand(k, t, h) <=> d.kind = k /\ d.tile = t /\ d.half = h
BY DEF Operand, Block!Operands

\* The barriers behind a wave by where it is.
LEMMA PhaseOf ==
  ASSUME TypeInv, BarrierInv, NEW w \in Waves
  PROVE  LET i == i_total_loops[w]
             R == Released(w)
         IN  /\ pc[w] \in {"k_half1", "fence_half0"} => R = 5 * i
             /\ pc[w] = "gemm0_0" => R \in {5 * i, 5 * i + 1}
             /\ pc[w] = "fence_half1" => R = 5 * i + 1
             /\ pc[w] = "load_v0" => R \in {5 * i + 1, 5 * i + 2}
             /\ pc[w] \in {"gemm0_1", "row_max", "store_v0", "row_sum", "sync_v0"} => R = 5 * i + 2
             /\ pc[w] = "gemm1_0" => R \in {5 * i + 2, 5 * i + 3}
             /\ pc[w] \in {"store_v1", "advance"} => R = 5 * i + 3
             /\ pc[w] = "k_prefetch" => R \in {5 * i - 2, 5 * i - 1}
             /\ pc[w] = "sync_v1" => R = IF i < num_total_loop THEN 5 * i - 1 ELSE 5 * i - 2
             /\ pc[w] = "gemm1_1" =>
                  R \in IF i < num_total_loop THEN {5 * i - 1, 5 * i} ELSE {5 * i - 2, 5 * i - 1}
             /\ pc[w] \in {"epilogue", "done"} => i = num_total_loop /\ R = 5 * i - 1
             /\ pc[w] = "prologue" => i = 0 /\ (num_total_loop > 0 => R = 0)
<1>1. /\ i_total_loops[w] \in Nat /\ num_total_loop \in Nat
      /\ LoopControl(w)
  BY LocalTypes DEF TypeInv
<1>2. w \in arrived => pc[w] \in AfterArrival
  BY DEF BarrierInv
<1> QED BY <1>1, <1>2 DEF Released, Arrivals, Stage, LoopControl, InBody, AfterArrival

-----------------------------------------------------------------------------
(***************************************************************************)
(* Pieces in flight are pieces still to be delivered.                      *)
(***************************************************************************)

\* The operation brings a piece that its buffer is for now and that has not been
\* delivered.
Pending(w, op) ==
  /\ op.buf \in Buffers
  /\ op.operand \in Block!Operands
  /\ op.issue \in 1..Issues(op.operand.kind)
  /\ op.operand = Current(op.buf, Released(w))
  /\ ~Delivered(w, op.operand, op.issue)

\* Delivered, for each of the four halves of a tile.
LEMMA DeliveredIs ==
  ASSUME TypeInv, NEW w \in Waves, NEW t \in Nat, NEW k \in Nat
  PROVE  LET i == i_total_loops[w]
             here == i = t /\ i < num_total_loop
         IN
         /\ Delivered(w, Operand("K", t, 0), k) <=>
              \/ i > t
              \/ here /\ pc[w] \in {"sync_v1", "gemm1_1", "k_half1"} /\ k + Len(vm[w]) <= CopyIssues
              \/ here /\ pc[w] = "fence_half0" /\ k + Len(vm[w]) <= 2 * CopyIssues
              \/ here /\ pc[w] \notin {"prologue", "k_prefetch", "sync_v1", "gemm1_1", "k_half1",
                                       "fence_half0"}
         /\ Delivered(w, Operand("K", t, 1), k) <=>
              \/ i > t
              \/ here /\ pc[w] \in {"fence_half0", "gemm0_0", "fence_half1"} /\ k + Len(vm[w]) <= CopyIssues
              \/ here /\ pc[w] \notin {"prologue", "k_prefetch", "sync_v1", "gemm1_1", "k_half1",
                                       "fence_half0", "gemm0_0", "fence_half1"}
         /\ Delivered(w, Operand("V", t, 0), k) <=>
              \/ i > t
              \/ here /\ pc[w] = "row_sum" /\ k + Len(lg[w]) <= StoreIssues
              \/ here /\ pc[w] \in {"sync_v0", "gemm1_0", "store_v1", "advance"}
         /\ Delivered(w, Operand("V", t, 1), k) <=>
              \/ i > t + 1
              \/ i = t /\ pc[w] = "advance" /\ k + Len(lg[w]) <= StoreIssues
              \/ i = t + 1 /\ pc[w] \in {"k_prefetch", "sync_v1"} /\ k + Len(lg[w]) <= StoreIssues
              \/ i = t + 1 /\ pc[w] \notin {"k_prefetch", "sync_v1"}
<1>1. Operand("K", t, 0).kind = "K" /\ Operand("K", t, 0).tile = t /\ Operand("K", t, 0).half = 0
  BY DEF Operand
<1>2. Operand("K", t, 1).kind = "K" /\ Operand("K", t, 1).tile = t /\ Operand("K", t, 1).half = 1
  BY DEF Operand
<1>3. Operand("V", t, 0).kind = "V" /\ Operand("V", t, 0).tile = t /\ Operand("V", t, 0).half = 0
  BY DEF Operand
<1>4. Operand("V", t, 1).kind = "V" /\ Operand("V", t, 1).tile = t /\ Operand("V", t, 1).half = 1
  BY DEF Operand
<1> QED BY <1>1, <1>2, <1>3, <1>4 DEF Delivered

\* A piece still in flight has not been delivered.
LEMMA NotYet ==
  ASSUME TypeInv, NEW w \in Waves, NEW t \in Nat, NEW j \in Nat
  PROVE  LET i == i_total_loops[w] IN
         /\ /\ i = t
            /\ \/ pc[w] \in {"k_half1", "sync_v1", "gemm1_1"} /\ j + Len(vm[w]) > CopyIssues
               \/ pc[w] = "fence_half0" /\ j + Len(vm[w]) > 2 * CopyIssues
            => ~Delivered(w, Operand("K", t, 0), j)
         /\ /\ i = t
            /\ pc[w] \in {"fence_half0", "gemm0_0", "fence_half1"}
            /\ j + Len(vm[w]) > CopyIssues
            => ~Delivered(w, Operand("K", t, 1), j)
         /\ /\ i = t /\ pc[w] = "row_sum" /\ j + Len(lg[w]) > StoreIssues
            => ~Delivered(w, Operand("V", t, 0), j)
         /\ /\ \/ i = t /\ pc[w] = "advance"
               \/ i = t + 1 /\ pc[w] \in {"k_prefetch", "sync_v1"}
            /\ j + Len(lg[w]) > StoreIssues
            => ~Delivered(w, Operand("V", t, 1), j)
<1>1. /\ Len(vm[w]) \in Nat /\ Len(lg[w]) \in Nat
      /\ i_total_loops[w] \in Nat /\ num_total_loop \in Nat
  BY LocalTypes
<1>2. CopyIssues \in Nat /\ StoreIssues \in Nat
  BY BoundsAssumption
<1>3. ASSUME i_total_loops[w] = t,
             \/ pc[w] \in {"k_half1", "sync_v1", "gemm1_1"} /\ j + Len(vm[w]) > CopyIssues
             \/ pc[w] = "fence_half0" /\ j + Len(vm[w]) > 2 * CopyIssues
      PROVE  ~Delivered(w, Operand("K", t, 0), j)
  BY <1>1, <1>2, <1>3, DeliveredIs
<1>4. ASSUME i_total_loops[w] = t,
             pc[w] \in {"fence_half0", "gemm0_0", "fence_half1"},
             j + Len(vm[w]) > CopyIssues
      PROVE  ~Delivered(w, Operand("K", t, 1), j)
  BY <1>1, <1>2, <1>4, DeliveredIs
<1>5. ASSUME i_total_loops[w] = t, pc[w] = "row_sum", j + Len(lg[w]) > StoreIssues
      PROVE  ~Delivered(w, Operand("V", t, 0), j)
  BY <1>1, <1>2, <1>5, DeliveredIs
<1>6. ASSUME \/ i_total_loops[w] = t /\ pc[w] = "advance"
             \/ i_total_loops[w] = t + 1 /\ pc[w] \in {"k_prefetch", "sync_v1"},
             j + Len(lg[w]) > StoreIssues
      PROVE  ~Delivered(w, Operand("V", t, 1), j)
  BY <1>1, <1>2, <1>6, DeliveredIs
<1> QED BY <1>3, <1>4, <1>5, <1>6

\* A copy in flight is for the operand its buffer holds now.
LEMMA CopyPends ==
  ASSUME TypeInv, BarrierInv, NEW w \in Waves, QueueInv(w),
         NEW n \in 1..Len(vm[w]), vm[w][n].op = "copy"
  PROVE  Pending(w, vm[w][n])
<1> DEFINE t    == kv_tile[w]
           left == Len(vm[w]) - n
<1>1. /\ t \in Nat /\ left \in Nat /\ n \in Nat /\ n >= 1
      /\ i_total_loops[w] \in Nat /\ num_total_loop \in Nat
      /\ Len(vm[w]) \in Nat /\ left = Len(vm[w]) - n
  BY LocalTypes
<1>2. LoopControl(w)
  BY DEF TypeInv
<1>3. VmOp(w, n)
  BY VmOps
<1>4. ASSUME NEW h \in 0..1, NEW b \in 1..2, NEW j \in 1..CopyIssues,
             vm[w][n] = Copy(t, h, b, j),
             Current(b, Released(w)) = Operand("K", t, h),
             ~Delivered(w, Operand("K", t, h), j)
      PROVE  Pending(w, vm[w][n])
  BY <1>1, <1>4, OperandIs DEF Pending, Copy, Buffers, Issues
<1>5. CASE /\ pc[w] \in {"k_half1", "sync_v1", "gemm1_1"}
           /\ i_total_loops[w] < num_total_loop
           /\ left < CopyIssues
           /\ vm[w][n] = Copy(t, 0, 1, CopyIssues - left)
  <2>1. t = i_total_loops[w]
    BY <1>2, <1>5 DEF LoopControl, InBody
  <2>2. Released(w) = 5 * t \/ (t > 0 /\ Released(w) = 5 * (t - 1) + 4)
    BY <1>1, <1>2, <1>5, <2>1, PhaseOf DEF LoopControl
  <2>3. Current(1, Released(w)) = Operand("K", t, 0)
    <3>1. CASE Released(w) = 5 * t
      <4>1. t \in Nat /\ 0 \in 0..4 /\ Released(w) = 5 * t + 0
        BY <1>1, <3>1
      <4>2. CurrentAt(t, 0, Released(w))
        BY <4>1, CurrentWhen
      <4> QED BY <4>2 DEF CurrentAt
    <3>2. CASE t > 0 /\ Released(w) = 5 * (t - 1) + 4
      <4> DEFINE u == t - 1
      <4>1. u \in Nat /\ u + 1 = t /\ 4 \in 0..4 /\ Released(w) = 5 * u + 4
        BY <1>1, <3>2
      <4> HIDE DEF u
      <4>2. CurrentAt(u, 4, Released(w))
        BY <4>1, CurrentWhen
      <4> QED BY <4>1, <4>2 DEF CurrentAt
    <3> QED BY <2>2, <3>1, <3>2
  <2>4. CopyIssues - left \in 1..CopyIssues
    BY <1>1, <1>5, BoundsAssumption
  <2>5. ~Delivered(w, Operand("K", t, 0), CopyIssues - left)
    <3>1. CopyIssues - left \in Nat /\ (CopyIssues - left) + Len(vm[w]) > CopyIssues /\ t \in Nat
      BY <1>1, <1>5, <2>1, BoundsAssumption, SMTT(30)
    <3>2. t = i_total_loops[w]
      BY <2>1
    <3> QED BY <1>1, <1>5, <2>1, <3>1, <3>2, NotYet
  <2> QED BY <1>4, <1>5, <2>3, <2>4, <2>5
<1>6. CASE /\ pc[w] = "fence_half0"
           /\ left < 2 * CopyIssues /\ left >= CopyIssues
           /\ vm[w][n] = Copy(t, 0, 1, 2 * CopyIssues - left)
  <2>1. t = i_total_loops[w] /\ i_total_loops[w] < num_total_loop
    BY <1>2, <1>6 DEF LoopControl, InBody
  <2>2. Current(1, Released(w)) = Operand("K", t, 0)
    <3>1. t \in Nat /\ 0 \in 0..4 /\ Released(w) = 5 * t + 0
      BY <1>1, <1>6, <2>1, PhaseOf
    <3>2. CurrentAt(t, 0, Released(w))
      BY <3>1, CurrentWhen
    <3> QED BY <3>2 DEF CurrentAt
  <2>3. 2 * CopyIssues - left \in 1..CopyIssues
    <3>1. CopyIssues \in Nat /\ left \in Nat /\ left < 2 * CopyIssues /\ left >= CopyIssues
      BY <1>1, <1>6, BoundsAssumption
    <3> HIDE DEF left
    <3> QED BY <3>1
  <2>4. ~Delivered(w, Operand("K", t, 0), 2 * CopyIssues - left)
    <3>1. 2 * CopyIssues - left \in Nat /\ (2 * CopyIssues - left) + Len(vm[w]) > 2 * CopyIssues /\ t \in Nat
      BY <1>1, <1>6, <2>1, BoundsAssumption, SMTT(30)
    <3>2. t = i_total_loops[w]
      BY <2>1
    <3> QED BY <1>1, <1>6, <2>1, <3>1, <3>2, NotYet
  <2> QED BY <1>4, <1>6, <2>2, <2>3, <2>4
<1>7. CASE /\ pc[w] \in {"fence_half0", "gemm0_0", "fence_half1"}
           /\ left < CopyIssues
           /\ vm[w][n] = Copy(t, 1, 2, CopyIssues - left)
  <2>1. t = i_total_loops[w] /\ i_total_loops[w] < num_total_loop
    BY <1>2, <1>7 DEF LoopControl, InBody
  <2>2. \E s \in 0..4 : Released(w) = 5 * t + s
    BY <1>1, <1>7, <2>1, PhaseOf
  <2>3. Current(2, Released(w)) = Operand("K", t, 1)
    <3>1. PICK s \in 0..4 : Released(w) = 5 * t + s
      BY <2>2
    <3>2. CurrentAt(t, s, Released(w))
      BY <1>1, <3>1, CurrentWhen
    <3> QED BY <3>2 DEF CurrentAt
  <2>4. CopyIssues - left \in 1..CopyIssues
    BY <1>1, <1>7, BoundsAssumption
  <2>5. ~Delivered(w, Operand("K", t, 1), CopyIssues - left)
    <3>1. CopyIssues - left \in Nat /\ (CopyIssues - left) + Len(vm[w]) > CopyIssues /\ t \in Nat
      BY <1>1, <1>7, <2>1, BoundsAssumption, SMTT(30)
    <3>2. t = i_total_loops[w]
      BY <2>1
    <3> QED BY <1>1, <1>7, <2>1, <3>1, <3>2, NotYet
  <2> QED BY <1>4, <1>7, <2>3, <2>4, <2>5
<1>8. Load(t, 0, StoreIssues - left).op # "copy" /\ Load(t, 1, StoreIssues - left).op # "copy"
  BY DEF Load
<1> QED BY <1>3, <1>5, <1>6, <1>7, <1>8 DEF VmOp

\* A store in flight is for the operand its buffer holds now.
LEMMA StorePends ==
  ASSUME TypeInv, BarrierInv, NEW w \in Waves, QueueInv(w),
         NEW n \in 1..Len(lg[w]), lg[w][n].op = "write"
  PROVE  Pending(w, lg[w][n])
<1> DEFINE i    == i_total_loops[w]
           left == Len(lg[w]) - n
<1>1. /\ i \in Nat /\ left \in Nat /\ n \in Nat /\ n >= 1
      /\ num_total_loop \in Nat
      /\ Len(lg[w]) \in Nat /\ left = Len(lg[w]) - n
  BY LocalTypes
<1>2. LoopControl(w)
  BY DEF TypeInv
<1>3. LgOp(w, n)
  BY LgOps
<1>4. ASSUME NEW t \in Nat, NEW h \in 0..1, NEW b \in 0..1, NEW j \in 1..StoreIssues,
             lg[w][n] = Store(t, h, b, j),
             Current(b, Released(w)) = Operand("V", t, h),
             ~Delivered(w, Operand("V", t, h), j)
      PROVE  Pending(w, lg[w][n])
  BY <1>4, OperandIs DEF Pending, Store, Buffers, Issues
<1>5. left < StoreIssues =>
        /\ StoreIssues - left \in 1..StoreIssues
        /\ StoreIssues - left \in Nat
        /\ (StoreIssues - left) + Len(lg[w]) > StoreIssues
  BY <1>1, BoundsAssumption
<1>6. CASE /\ pc[w] = "row_sum"
           /\ left < StoreIssues
           /\ lg[w][n] = Store(i, 0, 1, StoreIssues - left)
  <2>1. i < num_total_loop
    BY <1>2, <1>6 DEF LoopControl, InBody
  <2>2. Current(1, Released(w)) = Operand("V", i, 0)
    <3>1. i \in Nat /\ 2 \in 0..4 /\ Released(w) = 5 * i + 2
      BY <1>1, <1>6, PhaseOf
    <3>2. CurrentAt(i, 2, Released(w))
      BY <3>1, CurrentWhen
    <3> QED BY <3>2 DEF CurrentAt
  <2>3. ~Delivered(w, Operand("V", i, 0), StoreIssues - left)
    <3>1. StoreIssues - left \in Nat /\ (StoreIssues - left) + Len(lg[w]) > StoreIssues /\ i \in Nat
      BY <1>1, <1>5, <1>6
    <3>2. i = i_total_loops[w]
      BY <2>1
    <3> QED BY <1>1, <1>6, <2>1, <3>1, <3>2, NotYet
  <2> QED BY <1>1, <1>4, <1>5, <1>6, <2>2, <2>3
<1>7. CASE /\ pc[w] = "advance"
           /\ left < StoreIssues
           /\ lg[w][n] = Store(i, 1, 0, StoreIssues - left)
  <2>1. Released(w) = 5 * i + 3
    BY <1>1, <1>7, PhaseOf
  <2>2. Current(0, Released(w)) = Operand("V", i, 1)
    <3>1. i \in Nat /\ 3 \in 0..4
      BY <1>1
    <3>2. CurrentAt(i, 3, Released(w))
      BY <2>1, <3>1, CurrentWhen
    <3> QED BY <3>2 DEF CurrentAt
  <2>3. ~Delivered(w, Operand("V", i, 1), StoreIssues - left)
    <3>1. StoreIssues - left \in Nat /\ (StoreIssues - left) + Len(lg[w]) > StoreIssues /\ i \in Nat
      BY <1>1, <1>5, <1>7
    <3>2. i = i_total_loops[w]
      BY <2>1
    <3> QED BY <1>1, <1>7, <2>1, <3>1, <3>2, NotYet
  <2> QED BY <1>1, <1>4, <1>5, <1>7, <2>2, <2>3
<1>8. CASE /\ pc[w] \in {"k_prefetch", "sync_v1"}
           /\ left < StoreIssues
           /\ lg[w][n] = Store(i - 1, 1, 0, StoreIssues - left)
  <2>1. i - 1 \in Nat
    BY <1>1, <1>2, <1>8 DEF LoopControl
  <2>2. \E s \in 3..4 : Released(w) = 5 * (i - 1) + s
    <3>1. Released(w) \in {5 * i - 2, 5 * i - 1}
      BY <1>1, <1>8, PhaseOf
    <3>2. 5 * i - 2 = 5 * (i - 1) + 3 /\ 5 * i - 1 = 5 * (i - 1) + 4
      BY <1>1
    <3> QED BY <3>1, <3>2
  <2>3. Current(0, Released(w)) = Operand("V", i - 1, 1)
    <3> DEFINE u == i - 1
    <3>1. PICK s \in 3..4 : Released(w) = 5 * u + s
      BY <2>2
    <3>2. u \in Nat /\ s \in 0..4
      BY <2>1
    <3> HIDE DEF u
    <3>3. CurrentAt(u, s, Released(w))
      BY <3>1, <3>2, CurrentWhen
    <3>4. Current(0, Released(w)) = Operand("V", u, 1)
      BY <3>1, <3>3 DEF CurrentAt
    <3> QED BY <3>4 DEF u
  <2>4. ~Delivered(w, Operand("V", i - 1, 1), StoreIssues - left)
    <3>1. StoreIssues - left \in Nat /\ (StoreIssues - left) + Len(lg[w]) > StoreIssues /\ i - 1 \in Nat
      BY <1>1, <1>5, <1>8, <2>1
    <3>2. i - 1 = i_total_loops[w] - 1
      BY <2>1
    <3> QED BY <1>1, <1>8, <2>1, <3>1, <3>2, NotYet
  <2> QED BY <1>4, <1>5, <1>8, <2>1, <2>3, <2>4
<1>9. \A b \in Buffers : Read(b).op # "write"
  BY DEF Read
<1> QED BY <1>3, <1>6, <1>7, <1>8, <1>9 DEF LgOp, Buffers

-----------------------------------------------------------------------------
(***************************************************************************)
(* What a step of memory delivers.                                         *)
(***************************************************************************)

\* What a landing piece changes for the buffers.
Lands(w, op) ==
  \A d \in Block!Operands : \A k \in 1..Issues(d.kind) :
    Delivered(w, d, k)' <=> Delivered(w, d, k) \/ (d = op.operand /\ k = op.issue)

\* What the memory queue's getting shorter delivers of piece k of d.
VmDeliveryAt(w, d, k) ==
  LET i == i_total_loops[w]
        here == i = d.tile /\ i < num_total_loop
        L == Len(vm[w])
    IN  /\ d.kind = "K" /\ d.half = 0 /\ here /\ pc[w] \in {"sync_v1", "gemm1_1", "k_half1"} =>
             /\ Delivered(w, d, k) <=> k + L <= CopyIssues
             /\ Delivered(w, d, k)' <=> k + L - 1 <= CopyIssues
        /\ d.kind = "K" /\ d.half = 0 /\ here /\ pc[w] = "fence_half0" =>
             /\ Delivered(w, d, k) <=> k + L <= 2 * CopyIssues
             /\ Delivered(w, d, k)' <=> k + L - 1 <= 2 * CopyIssues
        /\ d.kind = "K" /\ d.half = 1 /\ here /\ pc[w] \in {"fence_half0", "gemm0_0", "fence_half1"} =>
             /\ Delivered(w, d, k) <=> k + L <= CopyIssues
             /\ Delivered(w, d, k)' <=> k + L - 1 <= CopyIssues
        /\ \/ d.kind = "V"
           \/ ~here
           \/ d.kind = "K" /\ d.half = 0 /\ pc[w] \notin {"sync_v1", "gemm1_1", "k_half1", "fence_half0"}
           \/ d.kind = "K" /\ d.half = 1 /\ pc[w] \notin {"fence_half0", "gemm0_0", "fence_half1"}
           => Delivered(w, d, k)' <=> Delivered(w, d, k)

\* A memory step delivers what VmDeliveryAt says.
LEMMA VmDelivery ==
  ASSUME NEW w \in Waves, TypeInv, Idle(w), lg'[w] = lg[w], Len(vm'[w]) = Len(vm[w]) - 1,
         NEW d \in Block!Operands, NEW k \in Nat
  PROVE  VmDeliveryAt(w, d, k)
<1>1. /\ i_total_loops[w] \in Nat /\ num_total_loop \in Nat
      /\ Len(vm[w]) \in Nat
  BY LocalTypes
<1>2. d.kind \in {"K", "V"} /\ d.tile \in Nat /\ d.half \in 0..1
  BY OperandTile
<1>3. CopyIssues \in Nat
  BY BoundsAssumption
<1>4. /\ num_total_loop' = num_total_loop /\ pc'[w] = pc[w] /\ i_total_loops'[w] = i_total_loops[w]
  BY DEF Idle
<1>5. CASE d.kind = "V"
  BY <1>4, <1>5 DEF Delivered, VmDeliveryAt
<1>6. CASE d.kind = "K" /\ d.half = 0
  BY <1>1, <1>2, <1>3, <1>4, <1>6 DEF Delivered, VmDeliveryAt
<1>7. CASE d.kind = "K" /\ d.half = 1
  BY <1>1, <1>2, <1>3, <1>4, <1>7 DEF Delivered, VmDeliveryAt
<1> QED BY <1>2, <1>5, <1>6, <1>7

\* A copy that lands delivers its piece and nothing else.
LEMMA CopyDelivers ==
  ASSUME TypeInv, NEW w \in Waves, LocalInv(w), CopyLands(w)
  PROVE  Lands(w, vm[w][1])
<1> DEFINE t    == kv_tile[w]
           L    == Len(vm[w])
<1>1. /\ VmStep(w) /\ QueueInv(w)
  BY DEF VmStep, LocalInv
<1>2. /\ Idle(w) /\ lg'[w] = lg[w] /\ Len(vm'[w]) = L - 1
      /\ Head(vm[w]) = vm[w][1] /\ 1 \in 1..L
  BY <1>1, VmTail
<1>3. /\ t \in Nat /\ L \in Nat /\ L = Len(vm[w]) /\ t = kv_tile[w]
      /\ i_total_loops[w] \in Nat /\ num_total_loop \in Nat
      /\ LoopControl(w) /\ CopyIssues \in Nat
  BY LocalTypes, BoundsAssumption DEF TypeInv
<1>4. VmOp(w, 1)
  BY <1>1, <1>2, VmOps
<1>5. vm[w][1].op = "copy"
  BY <1>2 DEF CopyLands
<1>6. \A h \in 0..1, b \in Buffers, n \in Nat :
         Copy(t, h, b, n).operand = Operand("K", t, h) /\ Copy(t, h, b, n).issue = n
  BY DEF Copy
<1>7. \A h \in 0..1, n \in Nat : Load(t, h, n).op # "copy"
  BY DEF Load
<1>8. \A d \in Block!Operands, h \in 0..1 :
        d = Operand("K", t, h) <=> d.kind = "K" /\ d.tile = t /\ d.half = h
  BY <1>3, OperandIs
<1>9. CASE /\ pc[w] \in {"k_half1", "sync_v1", "gemm1_1"}
           /\ i_total_loops[w] < num_total_loop
           /\ L - 1 < CopyIssues
           /\ vm[w][1] = Copy(t, 0, 1, CopyIssues - (L - 1))
  <2>1. t = i_total_loops[w]
    BY <1>3, <1>9 DEF LoopControl, InBody
  <2>2. vm[w][1].operand = Operand("K", t, 0) /\ vm[w][1].issue = CopyIssues - (L - 1)
    <3>1. 1 \in Buffers /\ 0 \in 0..1 /\ CopyIssues - (L - 1) \in Nat
      BY <1>2, <1>3, <1>9 DEF Buffers
    <3>2. Copy(t, 0, 1, CopyIssues - (L - 1)).operand = Operand("K", t, 0)
      BY <1>6, <3>1
    <3>3. Copy(t, 0, 1, CopyIssues - (L - 1)).issue = CopyIssues - (L - 1)
      BY <1>6, <3>1
    <3> QED BY <1>9, <3>2, <3>3
  <2> SUFFICES ASSUME NEW d \in Block!Operands, NEW k \in 1..Issues(d.kind)
               PROVE  Delivered(w, d, k)' <=> \/ Delivered(w, d, k)
                                              \/ d = Operand("K", t, 0) /\ k = CopyIssues - (L - 1)
    BY <2>2 DEF Lands
  <2>3. k \in Nat
    OBVIOUS
  <2>4. d.kind \in {"K", "V"} /\ d.half \in 0..1
    BY OperandTile
  <2>5. VmDeliveryAt(w, d, k)
    BY <1>2, <2>3, VmDelivery
  <2>6. CASE d.kind = "K" /\ d.half = 0 /\ d.tile = t
    BY <1>2, <1>3, <1>8, <1>9, <2>1, <2>3, <2>6, <2>5 DEF VmDeliveryAt
  <2>7. CASE ~(d.kind = "K" /\ d.half = 0 /\ d.tile = t)
    <3>1. d # Operand("K", t, 0)
      BY <1>8, <2>7
    <3>2. Delivered(w, d, k)' <=> Delivered(w, d, k)
      BY <1>2, <1>9, <2>1, <2>3, <2>4, <2>7, <2>5 DEF VmDeliveryAt
    <3> QED BY <3>1, <3>2
  <2> QED BY <2>6, <2>7
<1>10. CASE /\ pc[w] = "fence_half0"
           /\ L - 1 < 2 * CopyIssues /\ L - 1 >= CopyIssues
           /\ vm[w][1] = Copy(t, 0, 1, 2 * CopyIssues - (L - 1))
  <2>1. t = i_total_loops[w] /\ i_total_loops[w] < num_total_loop
    BY <1>3, <1>10 DEF LoopControl, InBody
  <2>2. vm[w][1].operand = Operand("K", t, 0) /\ vm[w][1].issue = 2 * CopyIssues - (L - 1)
    <3>1. 2 * CopyIssues - (L - 1) \in Nat /\ 1 \in Buffers
      BY <1>2, <1>3, <1>10 DEF Buffers
    <3> QED BY <1>6, <1>10, <3>1
  <2> SUFFICES ASSUME NEW d \in Block!Operands, NEW k \in 1..Issues(d.kind)
               PROVE  Delivered(w, d, k)' <=> \/ Delivered(w, d, k)
                                              \/ d = Operand("K", t, 0) /\ k = 2 * CopyIssues - (L - 1)
    BY <2>2 DEF Lands
  <2>3. k \in Nat /\ k >= 1
    BY BoundsAssumption DEF Issues
  <2>4. d.kind \in {"K", "V"} /\ d.half \in 0..1 /\ (d.kind = "K" => k <= CopyIssues)
    BY OperandTile, BoundsAssumption DEF Issues
  <2>5. VmDeliveryAt(w, d, k)
    BY <1>2, <2>3, VmDelivery
  <2>6. CASE d.kind = "K" /\ d.half = 0 /\ d.tile = t
    <3>1. d = Operand("K", t, 0)
      BY <1>3, <1>8, <2>1, <2>6
    <3>2. /\ Delivered(w, d, k) <=> k + L <= 2 * CopyIssues
          /\ Delivered(w, d, k)' <=> k + L - 1 <= 2 * CopyIssues
      BY <1>2, <1>3, <1>10, <2>1, <2>3, <2>6, <2>5 DEF VmDeliveryAt
    <3>3. k + L - 1 <= 2 * CopyIssues <=> k + L <= 2 * CopyIssues \/ k = 2 * CopyIssues - (L - 1)
      <4>1. k \in Nat /\ L \in Nat /\ CopyIssues \in Nat
        BY <1>3, <2>3
      <4> HIDE DEF L
      <4> QED BY <4>1
    <3> QED BY <3>1, <3>2, <3>3, Zenon
  <2>7. CASE ~(d.kind = "K" /\ d.half = 0 /\ d.tile = t)
    <3>1. d # Operand("K", t, 0)
      BY <1>8, <2>7
    <3>2. Delivered(w, d, k)' <=> Delivered(w, d, k)
      BY <1>3, <1>2, <1>10, <2>1, <2>3, <2>4, <2>7, <2>5 DEF VmDeliveryAt
    <3> QED BY <3>1, <3>2
  <2> QED BY <2>6, <2>7
<1>11. CASE /\ pc[w] \in {"fence_half0", "gemm0_0", "fence_half1"}
           /\ L - 1 < CopyIssues
           /\ vm[w][1] = Copy(t, 1, 2, CopyIssues - (L - 1))
  <2>1. t = i_total_loops[w] /\ i_total_loops[w] < num_total_loop
    BY <1>3, <1>11 DEF LoopControl, InBody
  <2>2. vm[w][1].operand = Operand("K", t, 1) /\ vm[w][1].issue = CopyIssues - (L - 1)
    <3>1. CopyIssues - (L - 1) \in Nat /\ 2 \in Buffers
      BY <1>2, <1>3, <1>11 DEF Buffers
    <3> QED BY <1>6, <1>11, <3>1
  <2> SUFFICES ASSUME NEW d \in Block!Operands, NEW k \in 1..Issues(d.kind)
               PROVE  Delivered(w, d, k)' <=> \/ Delivered(w, d, k)
                                              \/ d = Operand("K", t, 1) /\ k = CopyIssues - (L - 1)
    BY <2>2 DEF Lands
  <2>3. k \in Nat /\ k >= 1
    BY BoundsAssumption DEF Issues
  <2>4. d.kind \in {"K", "V"} /\ d.half \in 0..1 /\ (d.kind = "K" => k <= CopyIssues)
    BY OperandTile, BoundsAssumption DEF Issues
  <2>5. VmDeliveryAt(w, d, k)
    BY <1>2, <2>3, VmDelivery
  <2>6. CASE d.kind = "K" /\ d.half = 1 /\ d.tile = t
    <3>1. d = Operand("K", t, 1)
      BY <1>3, <1>8, <2>1, <2>6
    <3>2. /\ Delivered(w, d, k) <=> k + L <= CopyIssues
          /\ Delivered(w, d, k)' <=> k + L - 1 <= CopyIssues
      BY <1>2, <1>3, <1>11, <2>1, <2>3, <2>6, <2>5 DEF VmDeliveryAt
    <3>3. k + L - 1 <= CopyIssues <=> k + L <= CopyIssues \/ k = CopyIssues - (L - 1)
      <4>1. k \in Nat /\ L \in Nat /\ CopyIssues \in Nat
        BY <1>3, <2>3
      <4> HIDE DEF L
      <4> QED BY <4>1
    <3> QED BY <3>1, <3>2, <3>3, Zenon
  <2>7. CASE ~(d.kind = "K" /\ d.half = 1 /\ d.tile = t)
    <3>1. d # Operand("K", t, 1)
      BY <1>8, <2>7
    <3>2. Delivered(w, d, k)' <=> Delivered(w, d, k)
      BY <1>3, <1>2, <1>11, <2>1, <2>3, <2>4, <2>7, <2>5 DEF VmDeliveryAt
    <3> QED BY <3>1, <3>2
  <2> QED BY <2>6, <2>7
<1>12. \A h, n : vm[w][1] # Load(t, h, n)
  BY <1>5 DEF Load
<1> QED BY <1>4, <1>5, <1>9, <1>10, <1>11, <1>12, Zenon DEF VmOp

\* A load that returns delivers nothing to LDS.
LEMMA LoadIsQuiet ==
  ASSUME TypeInv, NEW w \in Waves, LocalInv(w), LoadReturns(w)
  PROVE  Quiet(w)
<1> DEFINE t    == kv_tile[w]
           L    == Len(vm[w])
<1>1. /\ VmStep(w) /\ QueueInv(w)
  BY DEF VmStep, LocalInv
<1>2. /\ Idle(w) /\ lg'[w] = lg[w] /\ Len(vm'[w]) = L - 1
      /\ Head(vm[w]) = vm[w][1] /\ 1 \in 1..L
  BY <1>1, VmTail
<1>3. L \in Nat /\ L = Len(vm[w]) /\ t = kv_tile[w] /\ CopyIssues \in Nat
  BY LocalTypes, BoundsAssumption
<1>4. VmOp(w, 1)
  BY <1>1, <1>2, VmOps
<1>5. vm[w][1].op = "load"
  BY <1>2 DEF LoadReturns
<1>6. \A h, b, n : Copy(t, h, b, n).op # "load"
  BY DEF Copy
<1>7. \/ pc[w] = "k_half1" /\ L - 1 >= CopyIssues
      \/ pc[w] = "fence_half0" /\ L - 1 >= 2 * CopyIssues
      \/ pc[w] \in {"gemm0_1", "row_max", "store_v0", "row_sum", "sync_v0", "gemm1_0", "store_v1"}
  BY <1>4, <1>5, <1>6 DEF VmOp
<1> SUFFICES ASSUME NEW d \in Block!Operands, NEW k \in 1..Issues(d.kind)
             PROVE  Delivered(w, d, k)' <=> Delivered(w, d, k)
  BY DEF Quiet
<1>8. k \in Nat /\ k >= 1
  BY BoundsAssumption DEF Issues
<1>9. d.kind \in {"K", "V"} /\ d.half \in 0..1 /\ (d.kind = "K" => k <= CopyIssues)
  BY OperandTile, BoundsAssumption DEF Issues
<1>10. VmDeliveryAt(w, d, k)
  BY <1>2, <1>8, VmDelivery
<1>11. CASE d.kind = "K" /\ d.half = 0
  BY <1>2, <1>3, <1>7, <1>8, <1>9, <1>11, <1>10 DEF VmDeliveryAt
<1>12. CASE d.kind = "K" /\ d.half = 1
  BY <1>2, <1>3, <1>7, <1>8, <1>9, <1>12, <1>10 DEF VmDeliveryAt
<1>13. CASE d.kind = "V"
  BY <1>2, <1>8, <1>13, <1>10 DEF VmDeliveryAt
<1> QED BY <1>9, <1>11, <1>12, <1>13

\* What the LDS queue's getting shorter delivers of piece k of d.
LgDeliveryAt(w, d, k) ==
  LET i == i_total_loops[w]
        here == i = d.tile /\ i < num_total_loop
        L == Len(lg[w])
        last == \/ i = d.tile /\ pc[w] = "advance"
                \/ i = d.tile + 1 /\ pc[w] \in {"k_prefetch", "sync_v1"}
    IN  /\ d.kind = "V" /\ d.half = 0 /\ here /\ pc[w] = "row_sum" =>
             /\ Delivered(w, d, k) <=> k + L <= StoreIssues
             /\ Delivered(w, d, k)' <=> k + L - 1 <= StoreIssues
        /\ d.kind = "V" /\ d.half = 1 /\ last =>
             /\ Delivered(w, d, k) <=> k + L <= StoreIssues
             /\ Delivered(w, d, k)' <=> k + L - 1 <= StoreIssues
        /\ \/ d.kind = "K"
           \/ d.kind = "V" /\ d.half = 0 /\ ~(here /\ pc[w] = "row_sum")
           \/ d.kind = "V" /\ d.half = 1 /\ ~last
           => Delivered(w, d, k)' <=> Delivered(w, d, k)

\* An LDS step delivers what LgDeliveryAt says.
LEMMA LgDelivery ==
  ASSUME NEW w \in Waves, TypeInv, Idle(w), vm'[w] = vm[w], Len(lg'[w]) = Len(lg[w]) - 1,
         NEW d \in Block!Operands, NEW k \in Nat
  PROVE  LgDeliveryAt(w, d, k)
<1>1. /\ i_total_loops[w] \in Nat /\ num_total_loop \in Nat
      /\ Len(lg[w]) \in Nat
  BY LocalTypes
<1>2. d.kind \in {"K", "V"} /\ d.tile \in Nat /\ d.half \in 0..1
  BY OperandTile
<1>3. StoreIssues \in Nat
  BY BoundsAssumption
<1>4. /\ num_total_loop' = num_total_loop /\ pc'[w] = pc[w] /\ i_total_loops'[w] = i_total_loops[w]
  BY DEF Idle
<1>5. CASE d.kind = "K"
  BY <1>4, <1>5 DEF Delivered, LgDeliveryAt
<1>6. CASE d.kind = "V" /\ d.half = 0
  BY <1>1, <1>2, <1>3, <1>4, <1>6 DEF Delivered, LgDeliveryAt
<1>7. CASE d.kind = "V" /\ d.half = 1
  BY <1>1, <1>2, <1>3, <1>4, <1>7 DEF Delivered, LgDeliveryAt
<1> QED BY <1>2, <1>5, <1>6, <1>7

\* A store that lands delivers its piece and nothing else.
LEMMA StoreDelivers ==
  ASSUME TypeInv, NEW w \in Waves, LocalInv(w), StoreLands(w)
  PROVE  Lands(w, lg[w][1])
<1> DEFINE i    == i_total_loops[w]
           L    == Len(lg[w])
<1>1. /\ LgStep(w) /\ QueueInv(w)
  BY DEF LgStep, LocalInv
<1>2. /\ Idle(w) /\ vm'[w] = vm[w] /\ Len(lg'[w]) = L - 1
      /\ Head(lg[w]) = lg[w][1] /\ 1 \in 1..L
  BY <1>1, LgTail
<1>3. /\ L \in Nat /\ L = Len(lg[w])
      /\ i \in Nat /\ i = i_total_loops[w] /\ num_total_loop \in Nat
      /\ LoopControl(w) /\ StoreIssues \in Nat
  BY LocalTypes, BoundsAssumption DEF TypeInv
<1>4. LgOp(w, 1)
  BY <1>1, <1>2, LgOps
<1>5. lg[w][1] \notin {Read(0), Read(1), Read(2)}
  BY <1>2 DEF StoreLands, Read
<1>6. \A t \in Nat, h \in 0..1, b \in Buffers, n \in Nat :
         Store(t, h, b, n).operand = Operand("V", t, h) /\ Store(t, h, b, n).issue = n
  BY DEF Store
<1>7. \A t \in Nat : \A d \in Block!Operands, h \in 0..1 :
        d = Operand("V", t, h) <=> d.kind = "V" /\ d.tile = t /\ d.half = h
  BY <1>3, OperandIs
<1>8. CASE /\ pc[w] = "row_sum"
           /\ L - 1 < StoreIssues
           /\ lg[w][1] = Store(i, 0, 1, StoreIssues - (L - 1))
  <2>1. i \in Nat /\ i < num_total_loop
    BY <1>3, <1>8 DEF LoopControl, InBody
  <2>2. lg[w][1].operand = Operand("V", i, 0) /\ lg[w][1].issue = StoreIssues - (L - 1)
    <3>1. StoreIssues - (L - 1) \in Nat /\ 1 \in Buffers /\ i \in Nat
      BY <1>2, <1>3, <1>8, <2>1 DEF Buffers
    <3> QED BY <1>6, <1>8, <3>1
  <2> SUFFICES ASSUME NEW d \in Block!Operands, NEW k \in 1..Issues(d.kind)
               PROVE  Delivered(w, d, k)' <=> \/ Delivered(w, d, k)
                                              \/ d = Operand("V", i, 0) /\ k = StoreIssues - (L - 1)
    BY <2>2 DEF Lands
  <2>3. k \in Nat /\ k >= 1
    BY BoundsAssumption DEF Issues
  <2>4. d.kind \in {"K", "V"} /\ d.half \in 0..1 /\ d.tile \in Nat
    BY OperandTile
  <2>5. LgDeliveryAt(w, d, k)
    BY <1>2, <2>3, LgDelivery
  <2>6. CASE d.kind = "V" /\ d.half = 0 /\ d.tile = i
    <3>1. d = Operand("V", i, 0)
      BY <1>3, <1>7, <2>1, <2>6
    <3>2. /\ Delivered(w, d, k) <=> k + L <= StoreIssues
          /\ Delivered(w, d, k)' <=> k + L - 1 <= StoreIssues
      BY <1>2, <1>3, <1>8, <2>1, <2>3, <2>6, <2>5 DEF LgDeliveryAt
    <3>3. k + L - 1 <= StoreIssues <=> k + L <= StoreIssues \/ k = StoreIssues - (L - 1)
      <4>1. k \in Nat /\ L \in Nat /\ StoreIssues \in Nat
        BY <1>3, <2>3
      <4> HIDE DEF L
      <4> QED BY <4>1
    <3> QED BY <3>1, <3>2, <3>3, Zenon
  <2>7. CASE ~(d.kind = "V" /\ d.half = 0 /\ d.tile = i)
    <3>1. d # Operand("V", i, 0)
      BY <1>3, <1>7, <2>1, <2>7
    <3>2. i - 1 = d.tile <=> i = d.tile + 1
      BY <1>3, <2>4
    <3>3. Delivered(w, d, k)' <=> Delivered(w, d, k)
      BY <1>2, <1>3, <1>8, <2>1, <2>3, <2>4, <2>7, <2>5, <3>2 DEF LgDeliveryAt
    <3> QED BY <3>1, <3>3
  <2> QED BY <2>6, <2>7
<1>9. CASE /\ pc[w] = "advance"
          /\ L - 1 < StoreIssues
          /\ lg[w][1] = Store(i, 1, 0, StoreIssues - (L - 1))
  <2>1. i \in Nat
    BY <1>3, <1>9 DEF LoopControl, InBody
  <2>2. lg[w][1].operand = Operand("V", i, 1) /\ lg[w][1].issue = StoreIssues - (L - 1)
    <3>1. StoreIssues - (L - 1) \in Nat /\ 0 \in Buffers /\ i \in Nat
      BY <1>2, <1>3, <1>9, <2>1 DEF Buffers
    <3> QED BY <1>6, <1>9, <3>1
  <2> SUFFICES ASSUME NEW d \in Block!Operands, NEW k \in 1..Issues(d.kind)
               PROVE  Delivered(w, d, k)' <=> \/ Delivered(w, d, k)
                                              \/ d = Operand("V", i, 1) /\ k = StoreIssues - (L - 1)
    BY <2>2 DEF Lands
  <2>3. k \in Nat /\ k >= 1
    BY BoundsAssumption DEF Issues
  <2>4. d.kind \in {"K", "V"} /\ d.half \in 0..1 /\ d.tile \in Nat
    BY OperandTile
  <2>5. LgDeliveryAt(w, d, k)
    BY <1>2, <2>3, LgDelivery
  <2>6. CASE d.kind = "V" /\ d.half = 1 /\ d.tile = i
    <3>1. d = Operand("V", i, 1)
      BY <1>3, <1>7, <2>1, <2>6
    <3>2. /\ Delivered(w, d, k) <=> k + L <= StoreIssues
          /\ Delivered(w, d, k)' <=> k + L - 1 <= StoreIssues
      BY <1>2, <1>3, <1>9, <2>1, <2>3, <2>6, <2>5 DEF LgDeliveryAt
    <3>3. k + L - 1 <= StoreIssues <=> k + L <= StoreIssues \/ k = StoreIssues - (L - 1)
      <4>1. k \in Nat /\ L \in Nat /\ StoreIssues \in Nat
        BY <1>3, <2>3
      <4> HIDE DEF L
      <4> QED BY <4>1
    <3> QED BY <3>1, <3>2, <3>3, Zenon
  <2>7. CASE ~(d.kind = "V" /\ d.half = 1 /\ d.tile = i)
    <3>1. d # Operand("V", i, 1)
      BY <1>3, <1>7, <2>1, <2>7
    <3>2. i - 1 = d.tile <=> i = d.tile + 1
      BY <1>3, <2>4
    <3>3. Delivered(w, d, k)' <=> Delivered(w, d, k)
      BY <1>2, <1>3, <1>9, <2>1, <2>3, <2>4, <2>7, <2>5, <3>2 DEF LgDeliveryAt
    <3> QED BY <3>1, <3>3
  <2> QED BY <2>6, <2>7
<1>10. CASE /\ pc[w] \in {"k_prefetch", "sync_v1"}
           /\ L - 1 < StoreIssues
           /\ lg[w][1] = Store(i - 1, 1, 0, StoreIssues - (L - 1))
  <2>1. i - 1 \in Nat
    BY <1>3, <1>10 DEF LoopControl, InBody
  <2>2. lg[w][1].operand = Operand("V", i - 1, 1) /\ lg[w][1].issue = StoreIssues - (L - 1)
    <3>1. StoreIssues - (L - 1) \in Nat /\ 0 \in Buffers /\ i - 1 \in Nat
      BY <1>2, <1>3, <1>10, <2>1 DEF Buffers
    <3> QED BY <1>6, <1>10, <3>1
  <2> SUFFICES ASSUME NEW d \in Block!Operands, NEW k \in 1..Issues(d.kind)
               PROVE  Delivered(w, d, k)' <=> \/ Delivered(w, d, k)
                                              \/ d = Operand("V", i - 1, 1) /\ k = StoreIssues - (L - 1)
    BY <2>2 DEF Lands
  <2>3. k \in Nat /\ k >= 1
    BY BoundsAssumption DEF Issues
  <2>4. d.kind \in {"K", "V"} /\ d.half \in 0..1 /\ d.tile \in Nat
    BY OperandTile
  <2>5. LgDeliveryAt(w, d, k)
    BY <1>2, <2>3, LgDelivery
  <2>6. CASE d.kind = "V" /\ d.half = 1 /\ d.tile = i - 1
    <3>1. d = Operand("V", i - 1, 1)
      BY <1>3, <1>7, <2>1, <2>6
    <3>2. /\ Delivered(w, d, k) <=> k + L <= StoreIssues
          /\ Delivered(w, d, k)' <=> k + L - 1 <= StoreIssues
      BY <1>2, <1>3, <1>10, <2>1, <2>3, <2>6, <2>5 DEF LgDeliveryAt
    <3>3. k + L - 1 <= StoreIssues <=> k + L <= StoreIssues \/ k = StoreIssues - (L - 1)
      <4>1. k \in Nat /\ L \in Nat /\ StoreIssues \in Nat
        BY <1>3, <2>3
      <4> HIDE DEF L
      <4> QED BY <4>1
    <3> QED BY <3>1, <3>2, <3>3, Zenon
  <2>7. CASE ~(d.kind = "V" /\ d.half = 1 /\ d.tile = i - 1)
    <3>1. d # Operand("V", i - 1, 1)
      BY <1>3, <1>7, <2>1, <2>7
    <3>2. i - 1 = d.tile <=> i = d.tile + 1
      BY <1>3, <2>4
    <3>3. Delivered(w, d, k)' <=> Delivered(w, d, k)
      BY <1>2, <1>3, <1>10, <2>1, <2>3, <2>4, <2>7, <2>5, <3>2, SMTT(30) DEF LgDeliveryAt
    <3> QED BY <3>1, <3>3
  <2> QED BY <2>6, <2>7
<1> HIDE DEF i
<1> QED BY <1>4, <1>5, <1>8, <1>9, <1>10 DEF LgOp, i

\* A read that returns delivers nothing.
LEMMA ReadIsQuiet ==
  ASSUME TypeInv, NEW w \in Waves, LocalInv(w), ReadReturns(w)
  PROVE  Quiet(w)
<1> DEFINE L    == Len(lg[w])
<1>1. /\ LgStep(w) /\ QueueInv(w)
  BY DEF LgStep, LocalInv
<1>2. /\ Idle(w) /\ vm'[w] = vm[w] /\ Len(lg'[w]) = L - 1
      /\ Head(lg[w]) = lg[w][1] /\ 1 \in 1..L
  BY <1>1, LgTail
<1>3. L \in Nat /\ L = Len(lg[w]) /\ StoreIssues \in Nat
  BY LocalTypes, BoundsAssumption
<1>4. LgOp(w, 1)
  BY <1>1, <1>2, LgOps
<1>5. \A t, h, b, n : lg[w][1] # Store(t, h, b, n)
  BY <1>2 DEF ReadReturns, Store
<1>6. /\ pc[w] \notin {"row_sum", "k_prefetch"}
      /\ pc[w] \in {"advance", "sync_v1"} => L - 1 = StoreIssues
  BY <1>4, <1>5 DEF LgOp
<1> SUFFICES ASSUME NEW d \in Block!Operands, NEW k \in 1..Issues(d.kind)
             PROVE  Delivered(w, d, k)' <=> Delivered(w, d, k)
  BY DEF Quiet
<1>7. k \in Nat /\ k >= 1
  BY BoundsAssumption DEF Issues
<1>8. d.kind \in {"K", "V"} /\ d.half \in 0..1
  BY OperandTile
<1>9. LgDeliveryAt(w, d, k)
  BY <1>2, <1>7, LgDelivery
<1>10. CASE d.kind = "V" /\ d.half = 0
  BY <1>2, <1>6, <1>7, <1>10, <1>9 DEF LgDeliveryAt
<1>11. CASE d.kind = "V" /\ d.half = 1
  BY <1>2, <1>3, <1>6, <1>7, <1>11, <1>9 DEF LgDeliveryAt
<1>12. CASE d.kind = "K"
  BY <1>2, <1>7, <1>12, <1>9 DEF LgDeliveryAt
<1> QED BY <1>8, <1>10, <1>11, <1>12

-----------------------------------------------------------------------------
(***************************************************************************)
(* What a step leaves alone.                                               *)
(***************************************************************************)

\* What a step of another wave does not touch.
Undisturbed(v) ==
  /\ num_total_loop' = num_total_loop
  /\ pc'[v] = pc[v]
  /\ i_total_loops'[v] = i_total_loops[v]
  /\ kv_tile'[v] = kv_tile[v]
  /\ v_regs'[v] = v_regs[v]
  /\ vm'[v] = vm[v]
  /\ lg'[v] = lg[v]
  /\ fed'[v] = fed[v]

\* A statement of one wave leaves every other wave and LDS alone.
LEMMA WaveStepFrame ==
  ASSUME TypeInv, NEW w \in Waves, WaveStep(w), NEW v \in Waves \ {w}
  PROVE  Undisturbed(v) /\ lds' = lds /\ fed' = fed
<1> USE DEF TypeInv, TypeOK, Goto, waveVars, IssueVm, IssueLg, Undisturbed
<1>1. CASE DegenerateExit(w)
  BY <1>1 DEF DegenerateExit
<1>2. CASE Prologue(w)
  BY <1>2 DEF Prologue
<1>3. CASE CopyKHalf1(w)
  BY <1>3 DEF CopyKHalf1
<1>4. CASE FenceHalf0(w)
  BY <1>4 DEF FenceHalf0
<1>5. CASE Gemm0Sub0(w)
  BY <1>5 DEF Gemm0Sub0
<1>6. CASE FenceHalf1(w)
  BY <1>6 DEF FenceHalf1
<1>7. CASE LoadVHalf0(w)
  BY <1>7 DEF LoadVHalf0
<1>8. CASE Gemm0Sub1(w)
  BY <1>8 DEF Gemm0Sub1
<1>9. CASE RowMax(w)
  BY <1>9 DEF RowMax
<1>10. CASE StoreVHalf0(w)
  BY <1>10 DEF StoreVHalf0
<1>11. CASE RowSum(w)
  BY <1>11 DEF RowSum
<1>12. CASE SyncV0(w)
  BY <1>12 DEF SyncV0
<1>13. CASE Gemm1Sub0(w)
  BY <1>13 DEF Gemm1Sub0
<1>14. CASE StoreVHalf1(w)
  BY <1>14 DEF StoreVHalf1
<1>15. CASE AdvanceToNextTile(w)
  BY <1>15 DEF AdvanceToNextTile
<1>16. CASE AdvancePastLastTile(w)
  BY <1>16 DEF AdvancePastLastTile
<1>17. CASE PrefetchKHalf0(w)
  BY <1>17 DEF PrefetchKHalf0
<1>18. CASE SyncV1(w)
  BY <1>18 DEF SyncV1
<1>19. CASE Gemm1Sub1(w)
  BY <1>19 DEF Gemm1Sub1
<1>20. CASE Epilogue(w)
  BY <1>20 DEF Epilogue
<1> QED
  BY <1>1, <1>2, <1>3, <1>4, <1>5, <1>6, <1>7, <1>8, <1>9, <1>10, <1>11, <1>12,
     <1>13, <1>14, <1>15, <1>16, <1>17, <1>18, <1>19, <1>20 DEF WaveStep

\* A memory step of one wave leaves every other wave alone.
LEMMA MemoryStepFrame ==
  ASSUME TypeInv, NEW w \in Waves, VmStep(w) \/ LgStep(w), NEW v \in Waves \ {w}
  PROVE  Undisturbed(v)
<1> USE DEF TypeInv, TypeOK, waveVars, Undisturbed
<1>1. CASE CopyLands(w)
  BY <1>1 DEF CopyLands
<1>2. CASE LoadReturns(w)
  BY <1>2 DEF LoadReturns
<1>3. CASE StoreLands(w)
  BY <1>3 DEF StoreLands
<1>4. CASE ReadReturns(w)
  BY <1>4 DEF ReadReturns
<1> QED BY <1>1, <1>2, <1>3, <1>4 DEF VmStep, LgStep

\* An undisturbed wave keeps its part of the invariant.
LEMMA UndisturbedKeeps ==
  ASSUME NEW v \in Waves, Undisturbed(v)
  PROVE  /\ LocalInv(v) => LocalInv(v)'
         /\ FedInv(v) => FedInv(v)'
         /\ Quiet(v)
<1> USE DEF Undisturbed
<1>1. VmIssued(v)' = VmIssued(v)
  BY DEF VmIssued
<1>2. LgIssued(v)' = LgIssued(v)
  BY DEF LgIssued, LastRead
<1>3. QueueInv(v) => QueueInv(v)'
  BY <1>1, <1>2 DEF QueueInv
<1>4. RegsInv(v) => RegsInv(v)'
  BY DEF RegsInv
<1>5. CountInv(v) => CountInv(v)'
  BY DEF CountInv, ReadsInFlight, ReadsIssued
<1>6. FedInv(v) => FedInv(v)'
  BY DEF FedInv
<1>7. Quiet(v)
  BY DEF Quiet, Delivered
<1> QED BY <1>3, <1>4, <1>5, <1>6, <1>7 DEF LocalInv

-----------------------------------------------------------------------------
(***************************************************************************)
(* Phases against deliveries: a buffer passes to its next operand when the *)
(* old one is whole and before any piece of the new one lands.             *)
(***************************************************************************)

\* Where a wave can be once r barriers are behind it: i tiles and a label.
LEMMA ReleasedRange ==
  ASSUME TypeInv, BarrierInv, NEW w \in Waves, num_total_loop > 0
  PROVE  LET i == i_total_loops[w]
             R == Released(w)
         IN  /\ R \in Nat
             /\ R <= 5 * num_total_loop - 1
             /\ R >= 5 * i - 2 /\ R <= 5 * i + 3
             /\ pc[w] \in {"prologue", "k_half1", "fence_half0"} => R = 5 * i
             /\ pc[w] \in {"gemm0_0", "fence_half1"} => R \in {5 * i, 5 * i + 1}
             /\ pc[w] = "fence_half1" => R = 5 * i + 1
             /\ pc[w] = "load_v0" => R \in {5 * i + 1, 5 * i + 2}
             /\ pc[w] \in {"gemm0_1", "row_max", "store_v0", "row_sum", "sync_v0"} => R = 5 * i + 2
             /\ pc[w] = "gemm1_0" => R \in {5 * i + 2, 5 * i + 3}
             /\ pc[w] \in {"store_v1", "advance"} => R = 5 * i + 3
             /\ pc[w] = "k_prefetch" => R \in {5 * i - 2, 5 * i - 1}
             /\ pc[w] = "sync_v1" /\ i < num_total_loop => R = 5 * i - 1
             /\ pc[w] = "sync_v1" /\ i = num_total_loop => R = 5 * i - 2
             /\ pc[w] = "gemm1_1" /\ i < num_total_loop => R \in {5 * i - 1, 5 * i}
             /\ pc[w] = "gemm1_1" /\ i = num_total_loop => R \in {5 * i - 2, 5 * i - 1}
             /\ pc[w] \in {"epilogue", "done"} => i = num_total_loop /\ R = 5 * i - 1
<1>1. /\ i_total_loops[w] \in Nat /\ num_total_loop \in Nat
      /\ LoopControl(w) /\ pc[w] \in Labels
  BY LocalTypes DEF TypeInv, TypeOK
<1>2. w \in arrived => pc[w] \in AfterArrival
  BY DEF BarrierInv
<1> QED BY <1>1, <1>2 DEF Released, Arrivals, Stage, LoopControl, InBody, AfterArrival,
           Labels

\* From which phase on a wave has delivered all of tile t's halves.
WholeAfter(w, t, k) ==
  LET R == Released(w) IN
  /\ R >= 5 * t + 1 => Delivered(w, Operand("K", t, 0), k)
  /\ R >= 5 * t + 2 => Delivered(w, Operand("K", t, 1), k)
  /\ R >= 5 * t + 3 => Delivered(w, Operand("V", t, 0), k)
  /\ R >= 5 * t + 5 \/ (t + 1 = num_total_loop /\ R = 5 * t + 4) => Delivered(w, Operand("V", t, 1), k)

\* Before which phase a wave has delivered none of them.
NoneBefore(w, t, k) ==
  LET R == Released(w) IN
  /\ R <= 5 * t - 2 => ~Delivered(w, Operand("K", t, 0), k)
  /\ R <= 5 * t - 1 => ~Delivered(w, Operand("K", t, 1), k)
  /\ R <= 5 * t + 1 => ~Delivered(w, Operand("V", t, 0), k)
  /\ R <= 5 * t + 2 => ~Delivered(w, Operand("V", t, 1), k)

\* Both hold wherever a wave is.
LEMMA PhasesOfOperands ==
  ASSUME TypeInv, BarrierInv, NEW w \in Waves, num_total_loop > 0,
         NEW t \in Nat, NEW k \in Nat
  PROVE  WholeAfter(w, t, k) /\ NoneBefore(w, t, k)
<1> DEFINE i == i_total_loops[w]
           n == num_total_loop
           R == Released(w)
<1>1. /\ i \in Nat /\ n \in Nat /\ n > 0
      /\ LoopControl(w) /\ pc[w] \in Labels
      /\ i <= n
  <2>1. /\ i \in Nat /\ n \in Nat /\ LoopControl(w) /\ pc[w] \in Labels
    BY LocalTypes DEF TypeInv, TypeOK
  <2> QED BY <2>1 DEF LoopControl, InBody, Labels
<1>2. /\ R \in Nat
      /\ R >= 5 * i - 2 /\ R <= 5 * i + 3 /\ R <= 5 * n - 1
  BY ReleasedRange
<1>3. (t >= n => R <= 5 * t - 1) /\ (i > t => R >= 5 * t + 3) /\ (i < t => R <= 5 * t - 2)
  BY <1>1, <1>2
<1>4. ASSUME R >= 5 * t + 1
     PROVE  Delivered(w, Operand("K", t, 0), k)
  <2>1. i > t \/ (i = t /\ i < n)
    BY <1>1, <1>2, <1>3, <1>4
  <2>2. CASE i > t
    BY <1>1, <2>2, DeliveredIs
  <2>3. CASE i = t /\ i < n
    <3>1. pc[w] \notin {"prologue", "k_prefetch", "sync_v1", "gemm1_1", "k_half1", "fence_half0"}
      BY <1>1, <1>2, <1>4, <2>3, ReleasedRange DEF Labels, LoopControl
    <3> QED BY <1>1, <2>3, <3>1, DeliveredIs
  <2> QED BY <2>1, <2>2, <2>3
<1>5. ASSUME R >= 5 * t + 2
     PROVE  Delivered(w, Operand("K", t, 1), k)
  <2>1. i > t \/ (i = t /\ i < n)
    BY <1>1, <1>2, <1>3, <1>5
  <2>2. CASE i > t
    BY <1>1, <2>2, DeliveredIs
  <2>3. CASE i = t /\ i < n
    <3>1. pc[w] \notin {"prologue", "k_prefetch", "sync_v1", "gemm1_1", "k_half1",
                        "fence_half0", "gemm0_0", "fence_half1"}
      BY <1>1, <1>2, <1>5, <2>3, ReleasedRange DEF Labels, LoopControl
    <3> QED BY <1>1, <2>3, <3>1, DeliveredIs
  <2> QED BY <2>1, <2>2, <2>3
<1>6. ASSUME R >= 5 * t + 3
     PROVE  Delivered(w, Operand("V", t, 0), k)
  <2>1. i > t \/ (i = t /\ i < n)
    BY <1>1, <1>2, <1>3, <1>6
  <2>2. CASE i > t
    BY <1>1, <2>2, DeliveredIs
  <2>3. CASE i = t /\ i < n
    <3>1. pc[w] \in {"gemm1_0", "store_v1", "advance"}
      BY <1>1, <1>2, <1>6, <2>3, ReleasedRange DEF Labels, LoopControl
    <3> QED BY <1>1, <2>3, <3>1, DeliveredIs
  <2> QED BY <2>1, <2>2, <2>3
<1>7. ASSUME R >= 5 * t + 5 \/ (t + 1 = num_total_loop /\ R = 5 * t + 4)
     PROVE  Delivered(w, Operand("V", t, 1), k)
  <2>1. i > t
    BY <1>1, <1>2, <1>3, <1>7
  <2>2. i = t + 1 => pc[w] \notin {"k_prefetch", "sync_v1"}
    BY <1>1, <1>2, <1>7, <2>1, ReleasedRange DEF LoopControl
  <2> QED BY <1>1, <2>1, <2>2, DeliveredIs
<1>8. ASSUME R <= 5 * t - 2
     PROVE  ~Delivered(w, Operand("K", t, 0), k)
  <2>1. i < t \/ i = t
    BY <1>1, <1>2, <1>3, <1>8
  <2>2. CASE i < t
    BY <1>1, <2>2, DeliveredIs
  <2>3. CASE i = t
    <3>1. i < n => pc[w] \in {"k_prefetch"}
      BY <1>1, <1>2, <1>8, <2>3, ReleasedRange DEF Labels, LoopControl
    <3> QED BY <1>1, <2>3, <3>1, DeliveredIs
  <2> QED BY <2>1, <2>2, <2>3
<1>9. ASSUME R <= 5 * t - 1
     PROVE  ~Delivered(w, Operand("K", t, 1), k)
  <2>1. i < t \/ i = t
    BY <1>1, <1>2, <1>3, <1>9
  <2>2. CASE i < t
    BY <1>1, <2>2, DeliveredIs
  <2>3. CASE i = t
    <3>1. i < n => pc[w] \in {"k_prefetch", "sync_v1", "gemm1_1"}
      BY <1>1, <1>2, <1>9, <2>3, ReleasedRange DEF Labels, LoopControl
    <3> QED BY <1>1, <2>3, <3>1, DeliveredIs
  <2> QED BY <2>1, <2>2, <2>3
<1>10. ASSUME R <= 5 * t + 1
     PROVE  ~Delivered(w, Operand("V", t, 0), k)
  <2>1. i < t \/ i = t
    BY <1>1, <1>2, <1>3, <1>10
  <2>2. CASE i < t
    BY <1>1, <2>2, DeliveredIs
  <2>3. CASE i = t
    <3>1. i < n => pc[w] \notin {"row_sum", "sync_v0", "gemm1_0", "store_v1", "advance"}
      BY <1>1, <1>2, <1>10, <2>3, ReleasedRange DEF Labels, LoopControl
    <3> QED BY <1>1, <2>3, <3>1, DeliveredIs
  <2> QED BY <2>1, <2>2, <2>3
<1>11. ASSUME R <= 5 * t + 2
     PROVE  ~Delivered(w, Operand("V", t, 1), k)
  <2>1. i <= t
    BY <1>1, <1>2, <1>3, <1>11
  <2>2. i = t => pc[w] # "advance"
    BY <1>1, <1>2, <1>11, ReleasedRange
  <2> QED BY <1>1, <2>1, <2>2, DeliveredIs
<1> QED BY <1>4, <1>5, <1>6, <1>7, <1>8, <1>9, <1>10, <1>11 DEF WholeAfter, NoneBefore

\* Every phase is one of a tile's five.
LEMMA Phases ==
  ASSUME NEW r \in Nat
  PROVE  \E t \in Nat : \E s \in 0..4 : r = 5 * t + s
<1>1. r \div 5 \in Nat
  OBVIOUS
<1>2. \E s \in 0..4 : r = 5 * (r \div 5) + s
  OBVIOUS
<1> QED BY <1>1, <1>2

\* A buffer is for halves of one kind or two, always of the same number.
LEMMA CurrentKinds ==
  ASSUME NEW r \in Nat, NEW b \in Buffers
  PROVE  /\ Current(b, r) \in Block!Operands
         /\ b = 0 => Current(b, r).kind = "V" /\ Current(b, r).half = 1
         /\ b = 1 => Current(b, r).half = 0
         /\ b = 2 => Current(b, r).kind = "K" /\ Current(b, r).half = 1
<1>1. PICK t \in Nat : \E s \in 0..4 : r = 5 * t + s
  BY Phases
<1>2. PICK s \in 0..4 : r = 5 * t + s
  BY <1>1
<1>3. t + 1 \in Nat /\ (IF t = 0 THEN 0 ELSE t - 1) \in Nat
  OBVIOUS
<1>4. CurrentAt(t, s, r)
  BY <1>2, CurrentWhen
<1>5. b \in {0, 1, 2}
  BY DEF Buffers
<1>6. CASE b = 0
  <2>1. \E u \in Nat : Current(b, r) = Operand("V", u, 1)
    BY <1>3, <1>6, <1>4 DEF CurrentAt
  <2> QED BY <1>6, <2>1, OperandIs
<1>7. CASE b = 1
  <2>1. \E u \in Nat, k \in {"K", "V"} : Current(b, r) = Operand(k, u, 0)
    BY <1>3, <1>7, <1>4 DEF CurrentAt
  <2> QED BY <1>7, <2>1, OperandIs
<1>8. CASE b = 2
  <2>1. Current(b, r) = Operand("K", t, 1)
    BY <1>8, <1>4 DEF CurrentAt
  <2> QED BY <1>8, <2>1, OperandIs
<1> QED BY <1>5, <1>6, <1>7, <1>8

\* When a buffer changes its operand, the old one is whole and nothing of the
\* new one has been delivered.
LEMMA HandOver ==
  ASSUME TypeInv, BarrierInv, num_total_loop > 0, NEW v \in Waves, NEW b \in Buffers, NEW k \in Nat,
         Current(b, Released(v) + 1) # Current(b, Released(v))
  PROVE  /\ Delivered(v, Current(b, Released(v)), k)
         /\ ~Delivered(v, Current(b, Released(v) + 1), k)
<1> DEFINE r == Released(v)
<1>1. r \in Nat
  BY ReleasedRange
<1>2. PICK t \in Nat : \E s \in 0..4 : r = 5 * t + s
  BY <1>1, Phases
<1>3. PICK s \in 0..4 : r = 5 * t + s
  BY <1>2
<1>4. /\ WholeAfter(v, t, k) /\ NoneBefore(v, t, k)
      /\ WholeAfter(v, t + 1, k) /\ NoneBefore(v, t + 1, k)
      /\ t > 0 => t - 1 \in Nat /\ WholeAfter(v, t - 1, k)
  BY PhasesOfOperands
<1>5. b \in {0, 1, 2}
  BY DEF Buffers
<1>6. r = 5 * t + s /\ (s = 4 => r + 1 = 5 * (t + 1) + 0) /\ (s # 4 => r + 1 = 5 * t + (s + 1))
  BY <1>3
<1>7. s # 4 => s + 1 \in 0..4
  BY <1>3
<1>8. /\ CurrentAt(t, s, r)
      /\ s # 4 => CurrentAt(t, s + 1, r + 1)
      /\ s = 4 => CurrentAt(t + 1, 0, r + 1)
  <2>1. CurrentAt(t, s, r)
    BY <1>6, CurrentWhen
  <2>2. s # 4 => CurrentAt(t, s + 1, r + 1)
    BY <1>6, <1>7, CurrentWhen
  <2>3. ASSUME s = 4 PROVE CurrentAt(t + 1, 0, r + 1)
    <3>1. t + 1 \in Nat /\ 0 \in 0..4 /\ r + 1 = 5 * (t + 1) + 0
      BY <1>6, <2>3
    <3> QED BY <3>1, CurrentWhen
  <2> QED BY <2>1, <2>2, <2>3
<1> HIDE DEF r
<1>9. CASE b = 0
  <2>1. Current(0, r) = IF s \in {3, 4} \/ t = 0 THEN Operand("V", t, 1) ELSE Operand("V", t - 1, 1)
    BY <1>8 DEF CurrentAt
  <2>2. s = 4 => Current(0, r + 1) = Operand("V", t, 1)
    <3>1. t + 1 \in Nat /\ t + 1 # 0 /\ (t + 1) - 1 = t /\ 0 \in 0..4
      OBVIOUS
    <3> QED BY <1>8, <3>1 DEF CurrentAt
  <2>3. s # 4 => Current(0, r + 1) = IF s + 1 \in {3, 4} \/ t = 0 THEN Operand("V", t, 1)
                                     ELSE Operand("V", t - 1, 1)
    BY <1>8 DEF CurrentAt
  <2>4. s = 2 /\ t > 0
    BY <1>9, <2>1, <2>2, <2>3 DEF r
  <2>5. Current(0, r) = Operand("V", t - 1, 1) /\ Current(0, r + 1) = Operand("V", t, 1)
    BY <2>1, <2>3, <2>4
  <2>6. r >= 5 * (t - 1) + 5 /\ r <= 5 * t + 2
    BY <1>6, <2>4
  <2> QED BY <1>4, <1>9, <2>4, <2>5, <2>6 DEF WholeAfter, NoneBefore, r
<1>10. CASE b = 1
  <2>1. Current(1, r) = IF s \in {0, 1} THEN Operand("K", t, 0)
                        ELSE IF s \in {2, 3} THEN Operand("V", t, 0) ELSE Operand("K", t + 1, 0)
    BY <1>8 DEF CurrentAt
  <2>2. s = 4 => Current(1, r + 1) = Operand("K", t + 1, 0)
    <3>1. t + 1 \in Nat /\ 0 \in 0..4
      OBVIOUS
    <3> QED BY <1>8, <3>1 DEF CurrentAt
  <2>3. s # 4 => Current(1, r + 1) = IF s + 1 \in {0, 1} THEN Operand("K", t, 0)
                                     ELSE IF s + 1 \in {2, 3} THEN Operand("V", t, 0)
                                     ELSE Operand("K", t + 1, 0)
    BY <1>8 DEF CurrentAt
  <2>4. s \in {1, 3}
    BY <1>10, <2>1, <2>2, <2>3 DEF r
  <2>5. CASE s = 1
    <3>1. Current(1, r) = Operand("K", t, 0) /\ Current(1, r + 1) = Operand("V", t, 0)
      BY <2>1, <2>3, <2>5
    <3>2. r >= 5 * t + 1 /\ r <= 5 * t + 1
      BY <1>6, <2>5
    <3> QED BY <1>4, <1>10, <3>1, <3>2 DEF WholeAfter, NoneBefore, r
  <2>6. CASE s = 3
    <3>1. Current(1, r) = Operand("V", t, 0) /\ Current(1, r + 1) = Operand("K", t + 1, 0)
      BY <2>1, <2>3, <2>6
    <3>2. r >= 5 * t + 3 /\ r <= 5 * (t + 1) - 2
      BY <1>6, <2>6
    <3> QED BY <1>4, <1>10, <3>1, <3>2 DEF WholeAfter, NoneBefore, r
  <2> QED BY <2>4, <2>5, <2>6
<1>11. CASE b = 2
  <2>1. Current(2, r) = Operand("K", t, 1)
    BY <1>8 DEF CurrentAt
  <2>2. s = 4
    BY <1>11, <1>8 DEF CurrentAt, r
  <2>3. Current(2, r + 1) = Operand("K", t + 1, 1)
    <3>1. t + 1 \in Nat /\ 0 \in 0..4
      OBVIOUS
    <3> QED BY <1>8, <2>2, <3>1 DEF CurrentAt
  <2>4. r >= 5 * t + 2 /\ r <= 5 * (t + 1) - 1
    BY <1>6, <2>2
  <2> QED BY <1>4, <1>11, <2>1, <2>3, <2>4 DEF WholeAfter, NoneBefore, r
<1> QED BY <1>5, <1>9, <1>10, <1>11

-----------------------------------------------------------------------------
(***************************************************************************)
(* The buffers through a step.                                             *)
(***************************************************************************)

\* While the waves only move on, the buffers keep holding what was delivered.
LEMMA BuffersThroughWaveStep ==
  ASSUME TypeInv, BarrierInv, num_total_loop > 0, NEW b \in Buffers, BufferInv(b),
         lds' = lds, BarrierInv', NEW w \in Waves, PhaseMoves(w),
         \A v \in Waves : Quiet(v)
  PROVE  BufferInv(b)'
<1> SUFFICES ASSUME NEW v \in Waves, NEW d \in {Current(b, Released(v)')}
             PROVE  Holds(b, d)'
  BY DEF BufferInv
<1> DEFINE r == Released(v)
           c == Current(b, r)
<1>1. /\ \A u \in Waves : Released(u) = r
      /\ Released(v)' \in {r, r + 1}
  BY DEF BarrierInv, PhaseMoves
<1>2. r \in Nat /\ r + 1 \in Nat /\ c \in Block!Operands /\ d \in Block!Operands
  <2>1. r \in Nat
    BY ReleasedRange
  <2>2. r + 1 \in Nat /\ Released(v)' \in Nat
    BY <1>1, <2>1
  <2> QED BY <2>1, <2>2, CurrentKinds
<1>3. PiecesOf(b, c) = {p \in Waves \X (1..Issues(c.kind)) : Delivered(p[1], c, p[2])}
  BY DEF BufferInv, Holds
<1>4. PiecesOf(b, d)' = PiecesOf(b, d)
  BY DEF PiecesOf
<1>5. \A u \in Waves : \A k \in 1..Issues(d.kind) : Delivered(u, d, k)' <=> Delivered(u, d, k)
  BY <1>2 DEF Quiet
<1>6. {p \in Waves \X (1..Issues(d.kind)) : Delivered(p[1], d, p[2])'} =
      {p \in Waves \X (1..Issues(d.kind)) : Delivered(p[1], d, p[2])}
  BY <1>5
<1>7. CASE d = c
  BY <1>3, <1>4, <1>6, <1>7 DEF Holds
<1>8. CASE d # c
  <2>1. d = Current(b, r + 1) /\ c # Current(b, r + 1)
    BY <1>1, <1>8
  <2>2. \A u \in Waves : \A k \in Nat : Delivered(u, c, k) /\ ~Delivered(u, d, k)
    <3> SUFFICES ASSUME NEW u \in Waves, NEW k \in Nat
                 PROVE  Delivered(u, c, k) /\ ~Delivered(u, d, k)
      OBVIOUS
    <3>1. Released(u) = r
      BY <1>1
    <3>2. Current(b, Released(u) + 1) # Current(b, Released(u))
      BY <2>1, <3>1
    <3>3. /\ Delivered(u, Current(b, Released(u)), k)
          /\ ~Delivered(u, Current(b, Released(u) + 1), k)
      BY <3>2, HandOver
    <3> QED BY <2>1, <3>1, <3>3
  <2>3. Issues(c.kind) \in Nat /\ Issues(c.kind) > 0 /\ Issues(d.kind) \in Nat
    BY BoundsAssumption DEF Issues
  <2>4. <<w, 1>> \in PiecesOf(b, c)
    BY <1>3, <2>2, <2>3
  <2>5. lds[b].operand = c
    BY <2>4 DEF PiecesOf
  <2>6. PiecesOf(b, d) = {}
    BY <1>8, <2>5 DEF PiecesOf
  <2>7. {p \in Waves \X (1..Issues(d.kind)) : Delivered(p[1], d, p[2])} = {}
    BY <2>2, <2>3
  <2> QED BY <1>4, <1>6, <2>6, <2>7 DEF Holds
<1> QED BY <1>7, <1>8

\* A piece that lands is the next of the operand its buffer is for.
LEMMA BuffersThroughLanding ==
  ASSUME TypeInv, BarrierInv, num_total_loop > 0, NEW w \in Waves, NEW op \in Ops,
         Pending(w, op), Lands(w, op), Deposit(op, w), Idle(w),
         \A v \in Waves : Released(v)' = Released(v),
         \A v \in Waves \ {w} : Quiet(v),
         NEW b \in Buffers, BufferInv(b)
  PROVE  BufferInv(b)'
<1> SUFFICES ASSUME NEW v \in Waves, NEW d \in {Current(b, Released(v)')}
             PROVE  Holds(b, d)'
  BY DEF BufferInv
<1> DEFINE r == Released(v)
<1>1. Released(v)' = r /\ Released(w) = r /\ d = Current(b, r)
  BY DEF BarrierInv
<1>2. r \in Nat /\ d \in Block!Operands
  <2>1. r \in Nat
    BY ReleasedRange
  <2> QED BY <1>1, <2>1, CurrentKinds
<1>3. PiecesOf(b, d) = {p \in Waves \X (1..Issues(d.kind)) : Delivered(p[1], d, p[2])}
  BY <1>1 DEF BufferInv, Holds
<1>4. /\ op.buf \in Buffers /\ op.operand \in Block!Operands
      /\ op.issue \in 1..Issues(op.operand.kind)
      /\ op.operand = Current(op.buf, r)
  BY <1>1 DEF Pending
<1>5. \A u \in Waves : \A k \in 1..Issues(d.kind) :
        Delivered(u, d, k)' <=> \/ Delivered(u, d, k)
                                \/ u = w /\ d = op.operand /\ k = op.issue
  <2> SUFFICES ASSUME NEW u \in Waves, NEW k \in 1..Issues(d.kind)
               PROVE  Delivered(u, d, k)' <=> \/ Delivered(u, d, k)
                                              \/ u = w /\ d = op.operand /\ k = op.issue
    OBVIOUS
  <2>1. CASE u = w
    BY <1>2, <2>1 DEF Lands
  <2>2. CASE u # w
    BY <1>2, <2>2 DEF Quiet
  <2> QED BY <2>1, <2>2
<1>6. lds \in [Buffers -> [operand: Operands, pieces: SUBSET (Waves \X Nat)]]
  BY DEF TypeInv, TypeOK
<1>7. lds' = [lds EXCEPT ![op.buf] =
                [operand |-> op.operand,
                 pieces  |-> {<<w, op.issue>>} \cup
                             IF lds[op.buf].operand = op.operand THEN lds[op.buf].pieces ELSE {}]]
  BY DEF Deposit
<1> HIDE DEF r
<1>8. CASE op.buf = b
  <2>1. op.operand = d
    BY <1>1, <1>4, <1>8
  <2>2. PiecesOf(b, d)' = {<<w, op.issue>>} \cup PiecesOf(b, d)
    BY <1>6, <1>7, <1>8, <2>1 DEF PiecesOf
  <2>3. {p \in Waves \X (1..Issues(d.kind)) : Delivered(p[1], d, p[2])'} =
          {<<w, op.issue>>} \cup {p \in Waves \X (1..Issues(d.kind)) : Delivered(p[1], d, p[2])}
    BY <1>4, <1>5, <2>1
  <2> QED BY <1>3, <2>2, <2>3 DEF Holds
<1>9. CASE op.buf # b
  <2>1. op.operand # d
    <3>1. /\ b \in {0, 1, 2} /\ op.buf \in {0, 1, 2}
          /\ b = 0 => d.kind = "V" /\ d.half = 1
          /\ b = 1 => d.half = 0
          /\ b = 2 => d.kind = "K" /\ d.half = 1
          /\ op.buf = 0 => op.operand.kind = "V" /\ op.operand.half = 1
          /\ op.buf = 1 => op.operand.half = 0
          /\ op.buf = 2 => op.operand.kind = "K" /\ op.operand.half = 1
      BY <1>1, <1>2, <1>4, CurrentKinds DEF Buffers
    <3> QED BY <1>9, <3>1
  <2>2. PiecesOf(b, d)' = PiecesOf(b, d)
    BY <1>6, <1>7, <1>9 DEF PiecesOf
  <2>3. {p \in Waves \X (1..Issues(d.kind)) : Delivered(p[1], d, p[2])'} =
          {p \in Waves \X (1..Issues(d.kind)) : Delivered(p[1], d, p[2])}
    BY <1>5, <2>1
  <2> QED BY <1>3, <2>2, <2>3 DEF Holds
<1> QED BY <1>8, <1>9

-----------------------------------------------------------------------------
(***************************************************************************)
(* What a read sees.                                                       *)
(***************************************************************************)

\* The operands of a tile in the order the GEMMs consume them.
NthAt(t, n) ==
  /\ n = 4 * t     => Block!NthOperand(n) = Operand("K", t, 0)
  /\ n = 4 * t + 1 => Block!NthOperand(n) = Operand("K", t, 1)
  /\ n = 4 * t + 2 => Block!NthOperand(n) = Operand("V", t, 0)
  /\ n = 4 * t + 3 => Block!NthOperand(n) = Operand("V", t, 1)

\* The order of the operands counts four a tile.
LEMMA NthOfTile ==
  ASSUME NEW t \in Nat, NEW n \in Int
  PROVE  NthAt(t, n)
<1>1. ASSUME NEW s \in 0..3, n = 4 * t + s
      PROVE  n % 4 = s /\ n \div 4 = t /\ n % 2 = s % 2
  BY <1>1
<1>2. 0 % 2 = 0 /\ 1 % 2 = 1 /\ 2 % 2 = 0 /\ 3 % 2 = 1
  OBVIOUS
<1>3. ASSUME n = 4 * t PROVE Block!NthOperand(n) = Operand("K", t, 0)
  <2>1. n = 4 * t + 0
    BY <1>3
  <2>2. n % 4 = 0 /\ n \div 4 = t /\ n % 2 = 0
    BY <1>1, <1>2, <2>1
  <2> QED BY <2>2 DEF Block!NthOperand, Operand
<1>4. ASSUME n = 4 * t + 1 PROVE Block!NthOperand(n) = Operand("K", t, 1)
  BY <1>1, <1>2, <1>4 DEF Block!NthOperand, Operand
<1>5. ASSUME n = 4 * t + 2 PROVE Block!NthOperand(n) = Operand("V", t, 0)
  BY <1>1, <1>2, <1>5 DEF Block!NthOperand, Operand
<1>6. ASSUME n = 4 * t + 3 PROVE Block!NthOperand(n) = Operand("V", t, 1)
  BY <1>1, <1>2, <1>6 DEF Block!NthOperand, Operand
<1> QED BY <1>3, <1>4, <1>5, <1>6 DEF NthAt

\* The reads in flight before entry n.
ReadsBefore(w, n) == {m \in 1..(n - 1) : lg[w][m].op = "read"}

\* A read is the first or the second entry of its queue.
LEMMA ReadCount ==
  ASSUME TypeInv, NEW w \in Waves, QueueInv(w), NEW n \in 1..Len(lg[w]), lg[w][n].op = "read"
  PROVE  /\ n = 1 => Cardinality(ReadsBefore(w, n)) = 0
         /\ n = 2 => Cardinality(ReadsBefore(w, n)) = 1
         /\ n \in {1, 2}
<1>1. Len(lg[w]) \in Nat
  BY LocalTypes
<1>2. \A t, h, b, k : Store(t, h, b, k).op = "write"
  BY DEF Store
<1>3. n \in {1, 2} /\ (n = 2 => pc[w] = "fence_half1" /\ Len(lg[w]) - n = 0)
  <2>1. LgOp(w, n)
    BY LgOps
  <2> QED BY <1>2, <2>1 DEF LgOp
<1>4. ASSUME n = 1 PROVE Cardinality(ReadsBefore(w, n)) = 0
  <2>1. ReadsBefore(w, n) = {}
    BY <1>4 DEF ReadsBefore
  <2> QED BY <2>1, FS_EmptySet
<1>5. ASSUME n = 2 PROVE Cardinality(ReadsBefore(w, n)) = 1
  <2>1. Len(lg[w]) = 2 /\ 1 \in 1..Len(lg[w])
    BY <1>1, <1>3, <1>5
  <2>2. LgOp(w, 1)
    BY <2>1, LgOps
  <2>3. pc[w] = "fence_half1"
    BY <1>3, <1>5
  <2>4. lg[w][1] = Read(1) \/ lg[w][1] = Read(0)
    BY <2>2, <2>3 DEF LgOp
  <2>5. lg[w][1].op = "read"
    BY <2>4 DEF Read
  <2>6. ReadsBefore(w, n) = {1}
    BY <1>5, <2>5 DEF ReadsBefore
  <2> QED BY <2>6, FS_Singleton
<1> QED BY <1>3, <1>4, <1>5

\* All waves have delivered all of what buffer b is for in phase r.
WholeFor(b, r) ==
  \A v \in Waves : \A k \in Nat : Delivered(v, Current(b, r), k)

\* The buffer a read is on is whole, and holds the operand next in the loop's order.
LEMMA ReadIsWhole ==
  ASSUME TypeInv, BarrierInv, NEW w \in Waves, LocalInv(w),
         NEW n \in 1..Len(lg[w]), lg[w][n].op = "read"
  PROVE  LET b == lg[w][n].buf
             r == Released(w)
         IN  /\ num_total_loop > 0
             /\ b \in Buffers
             /\ WholeFor(b, r)
             /\ Current(b, r) = Block!NthOperand(Len(fed[w]) + Cardinality(ReadsBefore(w, n)))
<1> DEFINE i == i_total_loops[w]
           r == Released(w)
           m == Len(fed[w]) + Cardinality(ReadsBefore(w, n))
<1>1. /\ i \in Nat /\ num_total_loop \in Nat /\ LoopControl(w)
      /\ Len(lg[w]) \in Nat /\ Len(fed[w]) \in Nat /\ StoreIssues \in Nat /\ StoreIssues > 0
  <2>1. Len(fed[w]) \in Nat
    BY DEF TypeInv, TypeOK
  <2> QED BY <2>1, LocalTypes, BoundsAssumption DEF TypeInv
<1>2. QueueInv(w) /\ CountInv(w)
  BY DEF LocalInv
<1>3. /\ n = 1 => Cardinality(ReadsBefore(w, n)) = 0
      /\ n = 2 => Cardinality(ReadsBefore(w, n)) = 1
  BY <1>2, ReadCount
<1>4. Len(fed[w]) + ReadsInFlight(w) = ReadsIssued(w)
  BY <1>2 DEF CountInv
<1>5. LgOp(w, n)
  BY <1>2, LgOps
<1>6. \A t, h, b, k : lg[w][n] # Store(t, h, b, k)
  BY DEF Store
<1>7. \A b : Read(b).buf = b
  BY DEF Read
<1>8. ASSUME num_total_loop > 0, NEW t \in Nat, NEW s \in 0..4, r = 5 * t + s
      PROVE  /\ \A v \in Waves : \A k \in Nat :
                  /\ s >= 1 => Delivered(v, Operand("K", t, 0), k)
                  /\ s >= 2 => Delivered(v, Operand("K", t, 1), k)
                  /\ s >= 3 => Delivered(v, Operand("V", t, 0), k)
                  /\ s = 4 /\ t + 1 = num_total_loop => Delivered(v, Operand("V", t, 1), k)
                  /\ t > 0 => Delivered(v, Operand("V", t - 1, 1), k)
             /\ CurrentAt(t, s, r)
  <2>1. ASSUME NEW v \in Waves, NEW k \in Nat
        PROVE  /\ s >= 1 => Delivered(v, Operand("K", t, 0), k)
               /\ s >= 2 => Delivered(v, Operand("K", t, 1), k)
               /\ s >= 3 => Delivered(v, Operand("V", t, 0), k)
               /\ s = 4 /\ t + 1 = num_total_loop => Delivered(v, Operand("V", t, 1), k)
               /\ t > 0 => Delivered(v, Operand("V", t - 1, 1), k)
    <3>1. Released(v) = 5 * t + s
      BY <1>8 DEF BarrierInv
    <3>2. WholeAfter(v, t, k) /\ (t > 0 => t - 1 \in Nat /\ WholeAfter(v, t - 1, k))
      BY <1>8, PhasesOfOperands
    <3>3. t > 0 => 5 * t + s >= 5 * (t - 1) + 5
      OBVIOUS
    <3> QED BY <3>1, <3>2, <3>3 DEF WholeAfter
  <2> QED BY <1>8, <2>1, CurrentWhen
<1>9. 0 \in Buffers /\ 1 \in Buffers /\ 2 \in Buffers
  BY DEF Buffers
<1>10. CASE /\ pc[w] \in {"k_half1", "fence_half0", "gemm0_0", "epilogue"}
            /\ i > 0 /\ n = 1 /\ Len(lg[w]) - n = 0
            /\ lg[w][n] = Read(0)
  <2>1. num_total_loop > 0 /\ (pc[w] = "epilogue" => i = num_total_loop)
    BY <1>1, <1>10 DEF LoopControl, InBody
  <2>2. m = 4 * (i - 1) + 3 /\ i - 1 \in Nat
    <3>1. ReadsIssued(w) = 4 * i
      BY <1>10 DEF ReadsIssued
    <3>2. ReadsInFlight(w) = 1
      BY <1>1, <1>10 DEF ReadsInFlight
    <3>3. Len(fed[w]) = 4 * i - 1
      <4>1. Len(fed[w]) + ReadsInFlight(w) = ReadsIssued(w)
        BY <1>4
      <4>2. Len(fed[w]) \in Nat /\ i \in Nat
        BY <1>1
      <4> HIDE DEF i
      <4> QED BY <3>1, <3>2, <4>1, <4>2
    <3>4. Cardinality(ReadsBefore(w, n)) = 0
      BY <1>3, <1>10
    <3>5. m = 4 * i - 1
      BY <1>1, <3>3, <3>4
    <3>6. i \in Nat /\ i > 0
      BY <1>1, <1>10 DEF LoopControl
    <3> HIDE DEF i, m
    <3> QED BY <3>5, <3>6
  <2>3. Block!NthOperand(m) = Operand("V", i - 1, 1)
    <3>1. i - 1 \in Nat /\ m \in Int
      BY <1>1, <2>2
    <3>2. NthAt(i - 1, m)
      BY <3>1, NthOfTile
    <3> QED BY <2>2, <3>2 DEF NthAt
  <2>4. r \in {5 * i, 5 * i + 1} \/ (i = num_total_loop /\ r = 5 * (i - 1) + 4)
    BY <1>1, <1>10, <2>1, PhaseOf
  <2>5. CASE r \in {5 * i, 5 * i + 1}
    <3>1. PICK s \in 0..1 : r = 5 * i + s
      BY <1>1, <2>5
    <3>2. /\ \A v \in Waves : \A k \in Nat : Delivered(v, Operand("V", i - 1, 1), k)
          /\ CurrentAt(i, s, r)
      BY <1>1, <1>8, <1>10, <2>1, <3>1
    <3>3. Current(0, r) = Operand("V", i - 1, 1)
      BY <1>10, <3>1, <3>2 DEF CurrentAt
    <3> QED BY <1>7, <1>9, <1>10, <2>1, <2>3, <3>2, <3>3 DEF WholeFor
  <2>6. CASE i = num_total_loop /\ r = 5 * (i - 1) + 4
    <3> DEFINE t == i - 1
    <3>1. t \in Nat /\ t + 1 = num_total_loop /\ 4 \in 0..4 /\ r = 5 * t + 4
      BY <1>1, <2>2, <2>6
    <3> HIDE DEF t
    <3>2. /\ \A v \in Waves : \A k \in Nat : Delivered(v, Operand("V", t, 1), k)
          /\ CurrentAt(t, 4, r)
      BY <1>8, <2>1, <3>1
    <3>3. Current(0, r) = Operand("V", t, 1)
      BY <3>2 DEF CurrentAt
    <3> QED BY <1>7, <1>9, <1>10, <2>1, <2>3, <3>2, <3>3 DEF WholeFor, t
  <2> QED BY <2>4, <2>5, <2>6
<1>11. CASE /\ pc[w] = "fence_half1"
            /\ n \in {1, 2} /\ Len(lg[w]) - n = 0
            /\ lg[w][n] = Read(1)
  <2>1. num_total_loop > 0
    BY <1>1, <1>11 DEF LoopControl, InBody
  <2>2. m = 4 * i
    <3>1. ReadsIssued(w) = 4 * i + 1
      BY <1>11 DEF ReadsIssued
    <3>2. ReadsInFlight(w) = n
      BY <1>1, <1>11 DEF ReadsInFlight
    <3>3. Len(fed[w]) + n = 4 * i + 1 /\ Len(fed[w]) \in Nat /\ i \in Nat
      BY <1>1, <1>4, <3>1, <3>2
    <3> HIDE DEF i
    <3>4. CASE n = 1
      <4>1. Cardinality(ReadsBefore(w, n)) = 0
        BY <1>3, <3>4
      <4> QED BY <3>3, <3>4, <4>1
    <3>5. CASE n = 2
      <4>1. Cardinality(ReadsBefore(w, n)) = 1
        BY <1>3, <3>5
      <4> QED BY <3>3, <3>5, <4>1
    <3> QED BY <1>11, <3>4, <3>5
  <2>3. Block!NthOperand(m) = Operand("K", i, 0)
    <3>1. i \in Nat /\ m \in Int
      BY <1>1, <2>2
    <3>2. NthAt(i, m)
      BY <3>1, NthOfTile
    <3> QED BY <2>2, <3>2 DEF NthAt
  <2>4. r = 5 * i + 1 /\ 1 \in 0..4
    BY <1>1, <1>11, PhaseOf
  <2>5. /\ \A v \in Waves : \A k \in Nat : Delivered(v, Operand("K", i, 0), k)
        /\ CurrentAt(i, 1, r)
    BY <1>1, <1>8, <2>1, <2>4, SMTT(30)
  <2>6. Current(1, r) = Operand("K", i, 0)
    BY <2>5 DEF CurrentAt
  <2> QED BY <1>7, <1>9, <1>11, <2>1, <2>3, <2>5, <2>6 DEF WholeFor
<1>12. CASE /\ pc[w] = "fence_half1"
            /\ i > 0 /\ n = 1 /\ Len(lg[w]) - n = 1
            /\ lg[w][n] = Read(0)
  <2>1. num_total_loop > 0
    BY <1>1, <1>12 DEF LoopControl, InBody
  <2>2. m = 4 * (i - 1) + 3 /\ i - 1 \in Nat
    <3>1. ReadsIssued(w) = 4 * i + 1
      BY <1>12 DEF ReadsIssued
    <3>2. ReadsInFlight(w) = 2
      BY <1>1, <1>12 DEF ReadsInFlight
    <3>3. Len(fed[w]) = 4 * i - 1
      <4>1. Len(fed[w]) + ReadsInFlight(w) = ReadsIssued(w)
        BY <1>4
      <4>2. Len(fed[w]) \in Nat /\ i \in Nat
        BY <1>1
      <4> HIDE DEF i
      <4> QED BY <3>1, <3>2, <4>1, <4>2
    <3>4. Cardinality(ReadsBefore(w, n)) = 0
      BY <1>3, <1>12
    <3>5. m = 4 * i - 1
      BY <1>1, <3>3, <3>4
    <3>6. i \in Nat /\ i > 0
      BY <1>1, <1>12 DEF LoopControl
    <3> HIDE DEF i, m
    <3> QED BY <3>5, <3>6
  <2>3. Block!NthOperand(m) = Operand("V", i - 1, 1)
    <3>1. i - 1 \in Nat /\ m \in Int
      BY <1>1, <2>2
    <3>2. NthAt(i - 1, m)
      BY <3>1, NthOfTile
    <3> QED BY <2>2, <3>2 DEF NthAt
  <2>4. r = 5 * i + 1 /\ 1 \in 0..4
    BY <1>1, <1>12, PhaseOf
  <2>5. /\ \A v \in Waves : \A k \in Nat : Delivered(v, Operand("V", i - 1, 1), k)
        /\ CurrentAt(i, 1, r)
    BY <1>1, <1>8, <1>12, <2>1, <2>4
  <2>6. Current(0, r) = Operand("V", i - 1, 1)
    BY <1>12, <2>5 DEF CurrentAt
  <2> QED BY <1>7, <1>9, <1>12, <2>1, <2>3, <2>5, <2>6 DEF WholeFor
<1>13. CASE /\ pc[w] = "row_max"
            /\ n = 1 /\ Len(lg[w]) - n = 0
            /\ lg[w][n] = Read(2)
  <2>1. num_total_loop > 0
    BY <1>1, <1>13 DEF LoopControl, InBody
  <2>2. m = 4 * i + 1
    <3>1. ReadsIssued(w) = 4 * i + 2
      BY <1>13 DEF ReadsIssued
    <3>2. ReadsInFlight(w) = 1
      BY <1>1, <1>13 DEF ReadsInFlight
    <3>3. Len(fed[w]) + 1 = 4 * i + 2 /\ Len(fed[w]) \in Nat /\ i \in Nat
      BY <1>1, <1>4, <3>1, <3>2
    <3>4. Cardinality(ReadsBefore(w, n)) = 0 /\ n \in 1..2
      BY <1>3, <1>13
    <3> HIDE DEF i
    <3> QED BY <3>3, <3>4
  <2>3. Block!NthOperand(m) = Operand("K", i, 1)
    <3>1. i \in Nat /\ m \in Int
      BY <1>1, <2>2
    <3>2. NthAt(i, m)
      BY <3>1, NthOfTile
    <3> QED BY <2>2, <3>2 DEF NthAt
  <2>4. r = 5 * i + 2 /\ 2 \in 0..4
    BY <1>1, <1>13, PhaseOf
  <2>5. /\ \A v \in Waves : \A k \in Nat : Delivered(v, Operand("K", i, 1), k)
        /\ CurrentAt(i, 2, r)
    <3>1. 2 >= 2
      OBVIOUS
    <3> QED BY <1>1, <1>8, <2>1, <2>4, <3>1
  <2>6. Current(2, r) = Operand("K", i, 1)
    BY <2>5 DEF CurrentAt
  <2> QED BY <1>7, <1>9, <1>13, <2>1, <2>3, <2>5, <2>6 DEF WholeFor
<1>14. CASE /\ \/ pc[w] = "store_v1" /\ Len(lg[w]) - n = 0
               \/ pc[w] = "advance" /\ Len(lg[w]) - n = StoreIssues
            /\ n = 1
            /\ lg[w][n] = Read(1)
  <2>1. num_total_loop > 0
    BY <1>1, <1>14 DEF LoopControl, InBody
  <2>2. m = 4 * i + 2
    <3>1. ReadsIssued(w) = 4 * i + 3
      BY <1>14 DEF ReadsIssued
    <3>2. ReadsInFlight(w) = 1
      BY <1>1, <1>14 DEF ReadsInFlight
    <3>3. Len(fed[w]) = 4 * i + 2
      <4>1. Len(fed[w]) + 1 = 4 * i + 3
        BY <1>4, <3>1, <3>2
      <4>2. Len(fed[w]) \in Nat /\ i \in Nat
        BY <1>1
      <4> HIDE DEF i
      <4> QED BY <4>1, <4>2
    <3>4. Cardinality(ReadsBefore(w, n)) = 0
      BY <1>3, <1>14
    <3>5. m = 4 * i + 2
      BY <1>1, <3>3, <3>4
    <3> QED BY <1>1, <1>14, <3>5
  <2>3. Block!NthOperand(m) = Operand("V", i, 0)
    <3>1. i \in Nat /\ m \in Int
      BY <1>1, <2>2
    <3>2. NthAt(i, m)
      BY <3>1, NthOfTile
    <3> QED BY <2>2, <3>2 DEF NthAt
  <2>4. r = 5 * i + 3 /\ 3 \in 0..4
    BY <1>1, <1>14, PhaseOf
  <2>5. /\ \A v \in Waves : \A k \in Nat : Delivered(v, Operand("V", i, 0), k)
        /\ CurrentAt(i, 3, r)
    <3>1. 3 >= 3
      OBVIOUS
    <3> QED BY <1>1, <1>8, <2>1, <2>4, <3>1
  <2>6. Current(1, r) = Operand("V", i, 0)
    BY <2>5 DEF CurrentAt
  <2> QED BY <1>7, <1>9, <1>14, <2>1, <2>3, <2>5, <2>6 DEF WholeFor
<1>15. CASE /\ pc[w] = "sync_v1" /\ i = num_total_loop
            /\ n = 1 /\ Len(lg[w]) - n = StoreIssues
            /\ lg[w][n] = Read(1)
  <2> DEFINE t == i - 1
  <2>1. num_total_loop > 0 /\ t \in Nat
    BY <1>1, <1>15 DEF LoopControl
  <2>2. m = 4 * t + 2
    <3>1. ReadsIssued(w) = 4 * i - 1
      BY <1>15 DEF ReadsIssued
    <3>2. ReadsInFlight(w) = 1
      BY <1>1, <1>15 DEF ReadsInFlight
    <3>3. Len(fed[w]) + 1 = 4 * i - 1 /\ Len(fed[w]) \in Nat /\ i \in Nat
      BY <1>1, <1>4, <3>1, <3>2
    <3>4. Cardinality(ReadsBefore(w, n)) = 0 /\ n \in 1..2
      BY <1>3, <1>15
    <3> HIDE DEF i
    <3> QED BY <3>3, <3>4 DEF t
  <2>3. Block!NthOperand(m) = Operand("V", t, 0)
    <3>1. t \in Nat /\ m \in Int
      BY <2>1, <2>2
    <3>2. NthAt(t, m)
      BY <3>1, NthOfTile
    <3> QED BY <2>2, <3>2 DEF NthAt
  <2>4. r = 5 * t + 3 /\ 3 \in 0..4
    BY <1>1, <1>15, PhaseOf
  <2> HIDE DEF t
  <2>5. /\ \A v \in Waves : \A k \in Nat : Delivered(v, Operand("V", t, 0), k)
        /\ CurrentAt(t, 3, r)
    BY <1>8, <2>1, <2>4, SMTT(30)
  <2>6. Current(1, r) = Operand("V", t, 0)
    BY <2>5 DEF CurrentAt
  <2> QED BY <1>7, <1>9, <1>15, <2>1, <2>3, <2>5, <2>6 DEF WholeFor
<1> QED BY <1>5, <1>6, <1>10, <1>11, <1>12, <1>13, <1>14, <1>15 DEF LgOp

\* A buffer that is whole holds all pieces of its operand and nothing else.
LEMMA WholeBuffer ==
  ASSUME TypeInv, NEW w \in Waves, NEW b \in Buffers, BufferInv(b), WholeFor(b, Released(w))
  PROVE  lds[b] = Whole(Current(b, Released(w)))
<1> DEFINE d == Current(b, Released(w))
<1>1. PiecesOf(b, d) = {p \in Waves \X (1..Issues(d.kind)) : Delivered(p[1], d, p[2])}
  BY DEF BufferInv, Holds
<1>2. Issues(d.kind) \in Nat /\ Issues(d.kind) > 0
  BY BoundsAssumption DEF Issues
<1>3. \A v \in Waves : \A k \in Nat : Delivered(v, d, k)
  BY DEF WholeFor
<1> HIDE DEF d
<1>4. PiecesOf(b, d) = Waves \X (1..Issues(d.kind))
  BY <1>1, <1>2, <1>3
<1>5. PiecesOf(b, d) # {}
  <2>1. 1 \in 1..Issues(d.kind)
    BY <1>2
  <2>2. <<w, 1>> \in Waves \X (1..Issues(d.kind))
    BY <2>1
  <2> QED BY <1>4, <2>2
<1>6. lds[b].operand = d /\ lds[b].pieces = Waves \X (1..Issues(d.kind))
  BY <1>4, <1>5 DEF PiecesOf
<1>7. lds[b] \in [operand: Operands, pieces: SUBSET (Waves \X Nat)]
  BY DEF TypeInv, TypeOK
<1> QED BY <1>6, <1>7 DEF Whole, d

-----------------------------------------------------------------------------
(***************************************************************************)
(* The invariant holds initially and through every step.                   *)
(***************************************************************************)

\* A wave that does not move stays in its phase.
LEMMA SamePhase ==
  ASSUME NEW v \in Waves, num_total_loop' = num_total_loop, pc'[v] = pc[v],
         i_total_loops'[v] = i_total_loops[v], arrived' = arrived
  PROVE  Released(v)' = Released(v)
BY DEF Released, Arrivals

\* No statement of the program writes LDS or feeds a GEMM by itself.
LEMMA WaveKeepsLds ==
  ASSUME NEW w \in Waves, WaveStep(w)
  PROVE  lds' = lds /\ fed' = fed /\ num_total_loop' = num_total_loop
<1> USE DEF WaveStep
<1>1. CASE DegenerateExit(w)
  BY <1>1 DEF DegenerateExit
<1>2. CASE Prologue(w)
  BY <1>2 DEF Prologue
<1>3. CASE CopyKHalf1(w)
  BY <1>3 DEF CopyKHalf1
<1>4. CASE FenceHalf0(w)
  BY <1>4 DEF FenceHalf0
<1>5. CASE Gemm0Sub0(w)
  BY <1>5 DEF Gemm0Sub0
<1>6. CASE FenceHalf1(w)
  BY <1>6 DEF FenceHalf1
<1>7. CASE LoadVHalf0(w)
  BY <1>7 DEF LoadVHalf0
<1>8. CASE Gemm0Sub1(w)
  BY <1>8 DEF Gemm0Sub1
<1>9. CASE RowMax(w)
  BY <1>9 DEF RowMax
<1>10. CASE StoreVHalf0(w)
  BY <1>10 DEF StoreVHalf0
<1>11. CASE RowSum(w)
  BY <1>11 DEF RowSum
<1>12. CASE SyncV0(w)
  BY <1>12 DEF SyncV0
<1>13. CASE Gemm1Sub0(w)
  BY <1>13 DEF Gemm1Sub0
<1>14. CASE StoreVHalf1(w)
  BY <1>14 DEF StoreVHalf1
<1>15. CASE AdvanceToNextTile(w)
  BY <1>15 DEF AdvanceToNextTile
<1>16. CASE AdvancePastLastTile(w)
  BY <1>16 DEF AdvancePastLastTile
<1>17. CASE PrefetchKHalf0(w)
  BY <1>17 DEF PrefetchKHalf0
<1>18. CASE SyncV1(w)
  BY <1>18 DEF SyncV1
<1>19. CASE Gemm1Sub1(w)
  BY <1>19 DEF Gemm1Sub1
<1>20. CASE Epilogue(w)
  BY <1>20 DEF Epilogue
<1> QED
  BY <1>1, <1>2, <1>3, <1>4, <1>5, <1>6, <1>7, <1>8, <1>9, <1>10, <1>11, <1>12,
     <1>13, <1>14, <1>15, <1>16, <1>17, <1>18, <1>19, <1>20

\* Nothing is in flight, delivered or fed at the start.
LEMMA InitFlow == Init => FlowInv
<1> SUFFICES ASSUME Init PROVE FlowInv
  OBVIOUS
<1>1. TypeInv
  BY InitTypeInv
<1>2. ASSUME NEW w \in Waves PROVE LocalInv(w) /\ FedInv(w)
  <2>1. pc[w] = "prologue" /\ vm[w] = <<>> /\ lg[w] = <<>> /\ fed[w] = <<>> /\ i_total_loops[w] = 0
    BY DEF Init
  <2>2. VmIssued(w) = <<>> /\ LgIssued(w) = <<>>
    BY <2>1 DEF VmIssued, LgIssued
  <2>3. <<>> \in Seq(Ops) /\ Len(<<>>) = 0
    OBVIOUS
  <2>4. QueueInv(w)
    BY <2>1, <2>2, <2>3, SuffixEmpty DEF QueueInv
  <2>5. RegsInv(w)
    BY <2>1 DEF RegsInv
  <2>6. CountInv(w)
    BY <2>1, <2>3 DEF CountInv, ReadsInFlight, ReadsIssued
  <2>7. FedInv(w)
    BY <2>1, <2>3 DEF FedInv
  <2> QED BY <2>4, <2>5, <2>6, <2>7 DEF LocalInv
<1>3. ASSUME num_total_loop > 0, NEW b \in Buffers PROVE BufferInv(b)
  <2> SUFFICES ASSUME NEW w \in Waves, NEW d \in {Current(b, Released(w))}
               PROVE  Holds(b, d)
    BY DEF BufferInv
  <2>1. \A v \in Waves : Released(v) = 0
    BY <1>3, BoundsAssumption DEF Init, Released, Arrivals, Stage
  <2>2. d \in Block!Operands
    BY <2>1, CurrentKinds
  <2>3. d.tile = 0
    <3>1. CurrentAt(0, 0, 0)
      BY CurrentWhen
    <3>2. d = Operand("V", 0, 1) \/ d = Operand("K", 0, 0) \/ d = Operand("K", 0, 1)
      BY <2>1, <3>1 DEF CurrentAt, Buffers
    <3> QED BY <3>2 DEF Operand
  <2>4. d.kind \in {"K", "V"}
    BY <2>2, OperandTile
  <2>5. PiecesOf(b, d) = {}
    <3>1. lds[b].operand.kind = "none"
      BY DEF Init, Nothing, Operand
    <3> QED BY <2>4, <3>1 DEF PiecesOf
  <2>6. \A v \in Waves : \A k : ~Delivered(v, d, k)
    <3>1. \A v \in Waves : pc[v] = "prologue" /\ i_total_loops[v] = 0
      BY DEF Init
    <3> QED BY <2>3, <3>1 DEF Delivered
  <2> QED BY <2>5, <2>6 DEF Holds
<1> QED BY <1>2, <1>3 DEF FlowInv

\* A GEMM is fed the operand that is next in the order of the two GEMMs.
LEMMA ReadFeeds ==
  ASSUME TypeInv, BarrierInv, FlowInv, NEW w \in Waves, ReadReturns(w)
  PROVE  /\ fed' = [fed EXCEPT ![w] = Append(@, Block!NthOperand(Len(@)))]
         /\ FedInv(w)'
<1>1. LocalInv(w) /\ FedInv(w) /\ QueueInv(w)
  BY DEF FlowInv, LocalInv
<1>2. LgStep(w)
  BY DEF LgStep
<1>3. /\ Head(lg[w]) = lg[w][1] /\ 1 \in 1..Len(lg[w])
  BY <1>2, LgTail
<1>4. lg[w][1].op = "read"
  BY <1>3 DEF ReadReturns
<1> DEFINE b == lg[w][1].buf
           d == Current(b, Released(w))
<1>5. /\ num_total_loop > 0
      /\ b \in Buffers
      /\ WholeFor(b, Released(w))
      /\ d = Block!NthOperand(Len(fed[w]) + Cardinality(ReadsBefore(w, 1)))
  BY <1>1, <1>3, <1>4, ReadIsWhole
<1>6. Cardinality(ReadsBefore(w, 1)) = 0
  BY <1>1, <1>3, <1>4, ReadCount
<1>7. fed \in [Waves -> Seq(Operands)] /\ Len(fed[w]) \in Nat
  BY DEF TypeInv, TypeOK
<1>8. d = Block!NthOperand(Len(fed[w]))
  BY <1>5, <1>6, <1>7
<1>9. lds[b] = Whole(d)
  BY <1>5, WholeBuffer DEF FlowInv
<1>10. lds[b].operand = d
  BY <1>9 DEF Whole
<1>11. fed' = [fed EXCEPT ![w] = Append(@, d)]
  BY <1>3, <1>9, <1>10 DEF ReadReturns
<1>12. fed' = [fed EXCEPT ![w] = Append(@, Block!NthOperand(Len(@)))]
  BY <1>8, <1>11
<1>13. FedInv(w)'
  <2>1. fed'[w] = Append(fed[w], d) /\ fed[w] \in Seq(Operands)
    BY <1>7, <1>11
  <2> SUFFICES ASSUME NEW n \in 1..Len(fed'[w]) PROVE fed'[w][n] = Block!NthOperand(n - 1)
    BY DEF FedInv
  <2> HIDE DEF d
  <2>2. Len(fed'[w]) = Len(fed[w]) + 1
    BY <2>1
  <2>3. CASE n = Len(fed[w]) + 1
    <3>1. fed'[w][n] = d /\ n - 1 = Len(fed[w])
      BY <2>1, <2>3, <1>7
    <3> QED BY <1>8, <3>1
  <2>4. CASE n \in 1..Len(fed[w])
    <3>1. fed'[w][n] = fed[w][n]
      BY <2>1, <2>4
    <3> QED BY <1>1, <2>4, <3>1 DEF FedInv
  <2> QED BY <1>7, <2>2, <2>3, <2>4
<1> QED BY <1>12, <1>13

\* A step that writes no buffer: the waves move on, a register load or a read
\* returns.
LEMMA QuietStepFlow ==
  ASSUME TypeInv, BarrierInv, BarrierInv', FlowInv, NEW w \in Waves,
         num_total_loop' = num_total_loop, lds' = lds,
         LocalInv(w)', Quiet(w), PhaseMoves(w), FedInv(w)',
         \A v \in Waves \ {w} : Undisturbed(v)
  PROVE  FlowInv'
<1>1. \A v \in Waves : LocalInv(v)' /\ FedInv(v)' /\ Quiet(v)
  BY UndisturbedKeeps DEF FlowInv
<1>2. ASSUME num_total_loop > 0, NEW b \in Buffers PROVE BufferInv(b)'
  BY <1>1, <1>2, BuffersThroughWaveStep DEF FlowInv
<1> QED BY <1>1, <1>2 DEF FlowInv

\* A piece of an operand lands in its buffer.
LEMMA LandingFlow ==
  ASSUME TypeInv, BarrierInv, FlowInv, NEW w \in Waves, NEW op \in Ops,
         Idle(w), Pending(w, op), Lands(w, op), Deposit(op, w),
         LocalInv(w)', FedInv(w)',
         \A v \in Waves \ {w} : Undisturbed(v)
  PROVE  FlowInv'
<1>1. \A v \in Waves : LocalInv(v)' /\ FedInv(v)'
  BY UndisturbedKeeps DEF FlowInv
<1>2. \A v \in Waves \ {w} : Quiet(v)
  BY UndisturbedKeeps
<1>3. \A v \in Waves : Released(v)' = Released(v)
  BY SamePhase DEF Idle, Undisturbed
<1>4. ASSUME num_total_loop > 0, NEW b \in Buffers PROVE BufferInv(b)'
  BY <1>2, <1>3, <1>4, BuffersThroughLanding DEF FlowInv
<1> QED BY <1>1, <1>4 DEF FlowInv, Idle

\* Every step keeps the invariant of the data flow.
LEMMA NextFlow ==
  ASSUME ReadsDrainInTime, TypeInv, TypeInv', BarrierInv, BarrierInv', FlowInv, [Next]_vars
  PROVE  FlowInv'
<1>1. ASSUME NEW w \in Waves, WaveStep(w) PROVE FlowInv'
  <2>1. LocalInv(w)' /\ Quiet(w) /\ PhaseMoves(w)
    BY <1>1, WaveLocal DEF FlowInv
  <2>2. lds' = lds /\ fed' = fed /\ num_total_loop' = num_total_loop
    BY <1>1, WaveKeepsLds
  <2>3. FedInv(w)'
    BY <2>2 DEF FlowInv, FedInv
  <2>4. \A v \in Waves \ {w} : Undisturbed(v)
    BY <1>1, WaveStepFrame
  <2> QED BY <2>1, <2>2, <2>3, <2>4, QuietStepFlow
<1>2. ASSUME NEW w \in Waves, VmStep(w) \/ LgStep(w)
      PROVE  /\ Idle(w)
             /\ LocalInv(w) /\ LocalInv(w)' /\ QueueInv(w)
             /\ \A v \in Waves \ {w} : Undisturbed(v)
             /\ num_total_loop' = num_total_loop
             /\ PhaseMoves(w)
  <2>1. LocalInv(w) /\ QueueInv(w)
    BY DEF FlowInv, LocalInv
  <2>2. LocalInv(w)' /\ Idle(w)
    BY <1>2, <2>1, VmLocal, LgLocal, VmTail, LgTail
  <2>3. \A v \in Waves \ {w} : Undisturbed(v)
    BY <1>2, MemoryStepFrame
  <2>4. PhaseMoves(w) /\ num_total_loop' = num_total_loop
    BY <2>2, SamePhase DEF Idle, PhaseMoves
  <2> QED BY <2>1, <2>2, <2>3, <2>4
<1>3. ASSUME NEW w \in Waves, CopyLands(w) PROVE FlowInv'
  <2>1. VmStep(w)
    BY <1>3 DEF VmStep
  <2>2. /\ Head(vm[w]) = vm[w][1] /\ 1 \in 1..Len(vm[w]) /\ vm[w][1] \in Ops
        /\ fed' = fed
    <3>1. Head(vm[w]) = vm[w][1] /\ 1 \in 1..Len(vm[w]) /\ fed' = fed
      BY <2>1, VmTail
    <3>2. vm[w] \in Seq(Ops)
      BY LocalTypes
    <3> QED BY <3>1, <3>2
  <2>3. vm[w][1].op = "copy" /\ Deposit(vm[w][1], w)
    BY <1>3, <2>2 DEF CopyLands
  <2>4. Pending(w, vm[w][1]) /\ Lands(w, vm[w][1])
    BY <1>2, <1>3, <2>1, <2>2, <2>3, CopyPends, CopyDelivers
  <2>5. FedInv(w)'
    BY <2>2 DEF FlowInv, FedInv
  <2> QED BY <1>2, <2>1, <2>2, <2>3, <2>4, <2>5, LandingFlow
<1>4. ASSUME NEW w \in Waves, LoadReturns(w) PROVE FlowInv'
  <2>1. VmStep(w) /\ lds' = lds /\ fed' = fed
    BY <1>4 DEF VmStep, LoadReturns
  <2>2. Quiet(w)
    BY <1>2, <1>4, <2>1, LoadIsQuiet
  <2>3. FedInv(w)'
    BY <2>1 DEF FlowInv, FedInv
  <2> QED BY <1>2, <2>1, <2>2, <2>3, QuietStepFlow
<1>5. ASSUME NEW w \in Waves, StoreLands(w) PROVE FlowInv'
  <2>1. LgStep(w) /\ fed' = fed
    BY <1>5 DEF LgStep, StoreLands
  <2>2. /\ Head(lg[w]) = lg[w][1] /\ 1 \in 1..Len(lg[w]) /\ lg[w][1] \in Ops
    <3>1. Head(lg[w]) = lg[w][1] /\ 1 \in 1..Len(lg[w])
      BY <2>1, LgTail
    <3>2. lg[w] \in Seq(Ops)
      BY LocalTypes
    <3> QED BY <3>1, <3>2
  <2>3. lg[w][1].op = "write" /\ Deposit(lg[w][1], w)
    BY <1>5, <2>2 DEF StoreLands
  <2>4. Pending(w, lg[w][1]) /\ Lands(w, lg[w][1])
    BY <1>2, <1>5, <2>1, <2>2, <2>3, StorePends, StoreDelivers
  <2>5. FedInv(w)'
    BY <2>1 DEF FlowInv, FedInv
  <2> QED BY <1>2, <2>1, <2>2, <2>3, <2>4, <2>5, LandingFlow
<1>6. ASSUME NEW w \in Waves, ReadReturns(w) PROVE FlowInv'
  <2>1. LgStep(w) /\ lds' = lds
    BY <1>6 DEF LgStep, ReadReturns
  <2>2. Quiet(w)
    BY <1>2, <1>6, <2>1, ReadIsQuiet
  <2>3. FedInv(w)'
    BY <1>6, ReadFeeds
  <2> QED BY <1>2, <2>1, <2>2, <2>3, QuietStepFlow
<1>7. ASSUME UNCHANGED vars PROVE FlowInv'
  <2>1. PICK w \in Waves : TRUE
    BY WavesAssumption
  <2>2. \A v \in Waves : Undisturbed(v)
    BY <1>7 DEF vars, waveVars, Undisturbed
  <2>3. /\ num_total_loop' = num_total_loop /\ lds' = lds /\ pc'[w] = pc[w]
        /\ i_total_loops'[w] = i_total_loops[w] /\ arrived' = arrived
    BY <1>7 DEF vars, waveVars
  <2>4. LocalInv(w)' /\ FedInv(w)' /\ Quiet(w)
    BY <2>2, UndisturbedKeeps DEF FlowInv
  <2>5. PhaseMoves(w)
    BY <2>3, SamePhase DEF PhaseMoves
  <2> QED BY <2>2, <2>3, <2>4, <2>5, QuietStepFlow
<1> QED
  BY <1>1, <1>3, <1>4, <1>5, <1>6, <1>7 DEF Next, VmStep, LgStep, Terminated

\* A piece in flight into a buffer has not been delivered, a buffer under a read
\* is whole: no buffer is both.
LEMMA FlowInvExcludes == TypeInv /\ BarrierInv /\ FlowInv => NoWriteUnderRead
<1> SUFFICES ASSUME TypeInv, BarrierInv, FlowInv, NEW r \in Waves, NEW w \in Waves,
                    NEW rd \in ReadsOf(r), NEW wr \in LdsWritesOf(w)
             PROVE  rd.buf # wr.buf
  BY DEF NoWriteUnderRead
<1>1. PICK n \in 1..Len(lg[r]) : rd = lg[r][n] /\ lg[r][n].op = "read"
  BY DEF ReadsOf, InFlight
<1>2. LocalInv(r) /\ QueueInv(w)
  BY DEF FlowInv, LocalInv
<1>3. /\ num_total_loop > 0 /\ WholeFor(rd.buf, Released(r))
  BY <1>1, <1>2, ReadIsWhole
<1>4. /\ \A m \in 1..Len(vm[w]) : vm[w][m].op = "copy" => Pending(w, vm[w][m])
      /\ \A m \in 1..Len(lg[w]) : lg[w][m].op = "write" => Pending(w, lg[w][m])
  BY <1>2, CopyPends, StorePends
<1>5. Pending(w, wr)
  <2>1. CASE wr \in InFlight(vm[w])
    <3>1. PICK m \in 1..Len(vm[w]) : wr = vm[w][m]
      BY <2>1 DEF InFlight
    <3>2. VmOp(w, m)
      BY <1>2, VmOps
    <3>3. wr.op # "write"
      BY <3>1, <3>2 DEF VmOp, Copy, Load
    <3> QED BY <1>4, <3>1, <3>3 DEF LdsWritesOf
  <2>2. CASE wr \in InFlight(lg[w])
    <3>1. PICK m \in 1..Len(lg[w]) : wr = lg[w][m]
      BY <2>2 DEF InFlight
    <3>2. LgOp(w, m)
      BY <1>2, LgOps
    <3>3. wr.op # "copy"
      BY <3>1, <3>2 DEF LgOp, Store, Read
    <3> QED BY <1>4, <3>1, <3>3 DEF LdsWritesOf
  <2> QED BY <2>1, <2>2 DEF LdsWritesOf
<1>6. Released(w) = Released(r)
  BY DEF BarrierInv
<1>7. wr.issue \in Nat
  BY <1>5, BoundsAssumption DEF Pending, Issues
<1> QED BY <1>3, <1>5, <1>6, <1>7 DEF WholeFor, Pending

\* A buffer under a read is whole, and what it holds is next in the order.
LEMMA FlowInvShows == TypeInv /\ BarrierInv /\ FlowInv => ReadsSeeTheirOperand
<1> SUFFICES ASSUME TypeInv, BarrierInv, FlowInv, NEW w \in Waves,
                    NEW n \in 1..Len(lg[w]), lg[w][n].op = "read"
             PROVE  lds[lg[w][n].buf] =
                      Whole(Block!NthOperand(Len(fed[w]) + Cardinality(ReadsBefore(w, n))))
  BY DEF ReadsSeeTheirOperand, ReadsBefore
<1>1. LocalInv(w)
  BY DEF FlowInv
<1> DEFINE b == lg[w][n].buf
<1>2. /\ num_total_loop > 0 /\ b \in Buffers /\ WholeFor(b, Released(w))
      /\ Current(b, Released(w)) = Block!NthOperand(Len(fed[w]) + Cardinality(ReadsBefore(w, n)))
  BY <1>1, ReadIsWhole
<1>3. lds[b] = Whole(Current(b, Released(w)))
  BY <1>2, WholeBuffer DEF FlowInv
<1> QED BY <1>2, <1>3

\* All waves start in the same phase.
LEMMA InitBarrier == Init => BarrierInv
BY DEF Init, BarrierInv, Released, Arrivals, Stage

\* The invariant of the data flow holds of every behaviour.
LEMMA FlowInvHolds ==
  ASSUME ReadsDrainInTime
  PROVE  Spec => [](TypeInv /\ BarrierInv /\ FlowInv)
<1>1. Init => TypeInv /\ BarrierInv /\ FlowInv
  BY InitTypeInv, InitBarrier, InitFlow
<1>2. (TypeInv /\ BarrierInv /\ FlowInv) /\ [Next]_vars => (TypeInv /\ BarrierInv /\ FlowInv)'
  <2> SUFFICES ASSUME TypeInv, BarrierInv, FlowInv, [Next]_vars
               PROVE  TypeInv' /\ BarrierInv' /\ FlowInv'
    OBVIOUS
  <2>1. TypeInv' /\ BarrierInv'
    BY NextTypeInv, NextBarrierInv
  <2> QED BY <2>1, NextFlow
<1> QED BY <1>1, <1>2, PTL DEF Spec

\* If no read outlives the barriers past which other waves write its buffer, no copy
\* or store is ever in flight into a buffer that a read still in flight is on: the
\* pipeline's three buffers need no more than its five barriers a tile
\* (pipeline.hpp's fences, lds_barrier and lds_seq), for any number of waves, tiles
\* and issues.
THEOREM WritesNeverUnderReads ==
  ASSUME ReadsDrainInTime
  PROVE  Spec => []NoWriteUnderRead
BY FlowInvHolds, FlowInvExcludes, PTL

\* Under the same condition each read sees the whole of the operand its GEMM is to
\* multiply, from all waves, and nothing of another tile.
THEOREM ReadsAlwaysSeeTheirOperand ==
  ASSUME ReadsDrainInTime
  PROVE  Spec => []ReadsSeeTheirOperand
BY FlowInvHolds, FlowInvShows, PTL

-----------------------------------------------------------------------------
(***************************************************************************)
(* The refinement of BlockDataflow: a GEMM is fed at most two operands ahead *)
(* of the slowest wave, and never more than the tiles have.                *)
(***************************************************************************)

\* How many reads a wave can have in flight where it is.
LEMMA ReadsInFlightBounds ==
  ASSUME TypeInv, NEW w \in Waves, QueueInv(w)
  PROVE  /\ ReadsInFlight(w) \in 0..2
         /\ ReadsInFlight(w) = 2 => pc[w] = "fence_half1"
         /\ ReadsInFlight(w) = 1 =>
              \/ pc[w] \in {"k_half1", "fence_half0", "gemm0_0", "epilogue", "fence_half1",
                            "row_max", "store_v1", "advance"}
              \/ pc[w] = "sync_v1" /\ i_total_loops[w] = num_total_loop
<1>1. Len(lg[w]) \in Nat /\ StoreIssues \in Nat /\ StoreIssues > 0
  BY LocalTypes, BoundsAssumption
<1>2. CASE Len(lg[w]) = 0
  BY <1>1, <1>2 DEF ReadsInFlight
<1>3. CASE Len(lg[w]) > 0
  <2>1. LgOp(w, 1)
    BY <1>1, <1>3, LgOps
  <2>2. CASE /\ pc[w] \in {"row_sum", "advance", "k_prefetch", "sync_v1"}
             /\ Len(lg[w]) - 1 < StoreIssues
    BY <1>1, <2>2 DEF ReadsInFlight
  <2>3. CASE /\ pc[w] \in {"k_half1", "fence_half0", "gemm0_0", "epilogue", "fence_half1",
                           "row_max", "store_v1"}
             /\ Len(lg[w]) - 1 = 0
    BY <1>1, <2>3 DEF ReadsInFlight
  <2>4. CASE pc[w] = "fence_half1" /\ Len(lg[w]) - 1 = 1
    BY <1>1, <2>4 DEF ReadsInFlight
  <2>5. CASE pc[w] = "advance" \/ (pc[w] = "sync_v1" /\ i_total_loops[w] = num_total_loop)
    BY <1>1, <2>5 DEF ReadsInFlight
  <2> QED BY <2>1, <2>2, <2>3, <2>4, <2>5 DEF LgOp
<1> QED BY <1>1, <1>2, <1>3

\* What every wave has been fed by phase r.
LEMMA FedByPhase ==
  ASSUME TypeInv, BarrierInv, NEW w \in Waves, LocalInv(w), num_total_loop > 0, NEW t \in Nat
  PROVE  LET r == Released(w)
             fedSoFar == Len(fed[w])
         IN  /\ r \in {5 * t, 5 * t + 1} => fedSoFar >= 4 * t - 1
             /\ r = 5 * t + 2 => fedSoFar >= 4 * t + 1
             /\ r = 5 * t + 3 => fedSoFar >= 4 * t + 2
             /\ t + 1 = num_total_loop /\ r = 5 * t + 4 => fedSoFar >= 4 * t + 3
<1> DEFINE i == i_total_loops[w]
           r == Released(w)
           n == num_total_loop
           f == Len(fed[w])
           u == ReadsInFlight(w)
<1>1. /\ i \in Nat /\ n \in Nat /\ n > 0 /\ f \in Nat
      /\ LoopControl(w) /\ pc[w] \in Labels
      /\ i <= n
  <2>1. /\ i \in Nat /\ n \in Nat /\ LoopControl(w) /\ pc[w] \in Labels /\ f \in Nat
    BY LocalTypes DEF TypeInv, TypeOK
  <2> QED BY <2>1 DEF LoopControl, InBody, Labels
<1>2. /\ u \in 0..2
      /\ u = 2 => pc[w] = "fence_half1"
      /\ u = 1 =>
              \/ pc[w] \in {"k_half1", "fence_half0", "gemm0_0", "epilogue", "fence_half1",
                            "row_max", "store_v1", "advance"}
              \/ pc[w] = "sync_v1" /\ i = n
  BY ReadsInFlightBounds DEF LocalInv
<1>3. f + u = ReadsIssued(w)
  BY DEF LocalInv, CountInv
<1> HIDE DEF u, f
<1>4. CASE pc[w] \in {"prologue", "k_half1", "fence_half0", "gemm0_0"}
  <2>1. f + u = 4 * i
    BY <1>3, <1>4 DEF ReadsIssued
  <2>2. r \in {5 * i, 5 * i + 1} /\ f >= 4 * i - 1
    BY <1>1, <1>2, <1>4, <2>1, ReleasedRange
  <2> HIDE DEF r, i, n
  <2> QED BY <1>1, <2>2 DEF f, r
<1>5. CASE pc[w] \in {"fence_half1", "load_v0", "gemm0_1"}
  <2>1. f + u = 4 * i + 1
    BY <1>3, <1>5 DEF ReadsIssued
  <2>2. \/ r = 5 * i + 1 /\ f >= 4 * i - 1
        \/ r = 5 * i + 2 /\ f >= 4 * i + 1
    BY <1>1, <1>2, <1>5, <2>1, ReleasedRange
  <2> HIDE DEF r, i, n
  <2> QED BY <1>1, <2>2 DEF f, r
<1>6. CASE pc[w] \in {"row_max", "store_v0", "row_sum", "sync_v0", "gemm1_0"}
  <2>1. f + u = 4 * i + 2
    BY <1>3, <1>6 DEF ReadsIssued
  <2>2. \/ r = 5 * i + 2 /\ f >= 4 * i + 1
        \/ r = 5 * i + 3 /\ f >= 4 * i + 2
    BY <1>1, <1>2, <1>6, <2>1, ReleasedRange
  <2> HIDE DEF r, i, n
  <2> QED BY <1>1, <2>2 DEF f, r
<1>7. CASE pc[w] \in {"store_v1", "advance"}
  <2>1. f + u = 4 * i + 3
    BY <1>3, <1>7 DEF ReadsIssued
  <2>2. r = 5 * i + 3 /\ f >= 4 * i + 2
    BY <1>1, <1>2, <1>7, <2>1, ReleasedRange
  <2> HIDE DEF r, i, n
  <2> QED BY <1>1, <2>2 DEF f, r
<1>8. CASE pc[w] \in {"k_prefetch", "sync_v1", "gemm1_1"}
  <2>1. f + u = 4 * i - 1
    BY <1>3, <1>8 DEF ReadsIssued
  <2>2. /\ i > 0
        /\ \/ r = 5 * i - 2 /\ f >= 4 * i - 2
           \/ r = 5 * i - 1 /\ f >= 4 * i - 1
           \/ r = 5 * i /\ f >= 4 * i - 1
    BY <1>1, <1>2, <1>8, <2>1, ReleasedRange DEF LoopControl
  <2> HIDE DEF r, i, n
  <2> QED BY <1>1, <2>2, SMTT(30) DEF f, r
<1>9. CASE pc[w] \in {"epilogue", "done"}
  <2>1. f + u = 4 * i
    BY <1>3, <1>9 DEF ReadsIssued
  <2>2. i = n /\ r = 5 * i - 1 /\ f >= 4 * i - 1
    BY <1>1, <1>2, <1>9, <2>1, ReleasedRange
  <2> HIDE DEF r, i
  <2> QED BY <1>1, <2>2 DEF f, r
<1> QED BY <1>1, <1>4, <1>5, <1>6, <1>7, <1>8, <1>9 DEF Labels

\* Where a wave is when a read returns, and which operand it is.
LEMMA ReaderAt ==
  ASSUME TypeInv, BarrierInv, NEW w \in Waves, LocalInv(w), ReadReturns(w)
  PROVE  /\ num_total_loop > 0
         /\ \E t \in Nat :
              LET r == Released(w) IN
              /\ t < num_total_loop
              /\ \/ Len(fed[w]) = 4 * t /\ r = 5 * t + 1
                 \/ Len(fed[w]) = 4 * t + 1 /\ r = 5 * t + 2
                 \/ Len(fed[w]) = 4 * t + 2 /\ r = 5 * t + 3
                 \/ /\ Len(fed[w]) = 4 * t + 3
                    /\ r \in {5 * (t + 1), 5 * (t + 1) + 1} \/ (t + 1 = num_total_loop /\ r = 5 * t + 4)
<1> DEFINE i == i_total_loops[w]
           r == Released(w)
           n == num_total_loop
           f == Len(fed[w])
           L == Len(lg[w])
<1>1. /\ i \in Nat /\ n \in Nat /\ f \in Nat /\ L \in Nat
      /\ LoopControl(w) /\ StoreIssues \in Nat /\ StoreIssues > 0
  <2>1. f \in Nat
    BY DEF TypeInv, TypeOK
  <2> QED BY <2>1, LocalTypes, BoundsAssumption DEF TypeInv
<1>2. /\ LgStep(w) /\ QueueInv(w) /\ f + ReadsInFlight(w) = ReadsIssued(w)
  BY DEF LgStep, LocalInv, CountInv
<1>3. Head(lg[w]) = lg[w][1] /\ 1 \in 1..L
  BY <1>2, LgTail
<1>4. LgOp(w, 1)
  BY <1>2, <1>3, LgOps
<1>5. \A t, h, b, k : lg[w][1] # Store(t, h, b, k)
  BY <1>3 DEF ReadReturns, Store
<1>6. CASE pc[w] \in {"k_half1", "fence_half0", "gemm0_0", "epilogue"} /\ i > 0 /\ L - 1 = 0
  <2>1. f + 1 = 4 * i /\ i <= n /\ (pc[w] = "epilogue" => i = n)
    <3>1. ReadsIssued(w) = 4 * i
      BY <1>6 DEF ReadsIssued
    <3>2. ReadsInFlight(w) = 1
      BY <1>1, <1>6 DEF ReadsInFlight
    <3>3. i <= n /\ (pc[w] = "epilogue" => i = n)
      BY <1>1, <1>6 DEF LoopControl, InBody
    <3>4. f \in Nat /\ i \in Nat /\ f + 1 = 4 * i
      BY <1>1, <1>2, <3>1, <3>2
    <3>5. f + 1 = 4 * i
      <4> HIDE DEF f, i
      <4> QED BY <3>4
    <3> QED BY <3>3, <3>5
  <2>2. r \in {5 * i, 5 * i + 1} \/ (i = n /\ r = 5 * i - 1)
    BY <1>1, <1>6, <2>1, PhaseOf
  <2> DEFINE t == i - 1
  <2>3. t \in Nat /\ i = t + 1 /\ t < n
    BY <1>1, <1>6, <2>1
  <2> HIDE DEF i, t, r
  <2>4. /\ f = 4 * t + 3
        /\ r \in {5 * (t + 1), 5 * (t + 1) + 1} \/ (t + 1 = n /\ r = 5 * t + 4)
    BY <1>1, <2>1, <2>2, <2>3
  <2> QED BY <1>1, <2>3, <2>4 DEF r
<1>7. CASE pc[w] = "fence_half1" /\ L - 1 = 0
  <2>1. f = 4 * i /\ i < n
    <3>1. ReadsIssued(w) = 4 * i + 1
      BY <1>7 DEF ReadsIssued
    <3>2. ReadsInFlight(w) = 1
      BY <1>1, <1>7 DEF ReadsInFlight
    <3>3. i < n
      BY <1>1, <1>7 DEF LoopControl, InBody
    <3>4. f \in Nat /\ i \in Nat /\ f + 1 = 4 * i + 1
      BY <1>1, <1>2, <3>1, <3>2
    <3>5. f = 4 * i
      <4> HIDE DEF f, i
      <4> QED BY <3>4
    <3> QED BY <3>3, <3>5
  <2>2. r = 5 * i + 1
    BY <1>7, PhaseOf
  <2> QED BY <1>1, <2>1, <2>2
<1>8. CASE pc[w] = "fence_half1" /\ i > 0 /\ L - 1 = 1
  <2>1. f + 1 = 4 * i /\ i < n
    <3>1. ReadsIssued(w) = 4 * i + 1
      BY <1>8 DEF ReadsIssued
    <3>2. ReadsInFlight(w) = 2
      BY <1>1, <1>8 DEF ReadsInFlight
    <3>3. i < n
      BY <1>1, <1>8 DEF LoopControl, InBody
    <3>4. f \in Nat /\ i \in Nat /\ f + 2 = 4 * i + 1
      BY <1>1, <1>2, <3>1, <3>2
    <3>5. f + 1 = 4 * i
      <4> HIDE DEF f, i
      <4> QED BY <3>4
    <3> QED BY <3>3, <3>5
  <2>2. r = 5 * i + 1
    BY <1>8, PhaseOf
  <2> DEFINE t == i - 1
  <2>3. t \in Nat /\ i = t + 1 /\ t < n
    BY <1>1, <1>8, <2>1
  <2> HIDE DEF i, t, r
  <2>4. f = 4 * t + 3 /\ r = 5 * (t + 1) + 1
    BY <1>1, <2>1, <2>2, <2>3
  <2> QED BY <1>1, <2>3, <2>4 DEF r
<1>9. CASE pc[w] = "row_max" /\ L - 1 = 0
  <2>1. f = 4 * i + 1 /\ i < n
    <3>1. ReadsIssued(w) = 4 * i + 2
      BY <1>9 DEF ReadsIssued
    <3>2. ReadsInFlight(w) = 1
      BY <1>1, <1>9 DEF ReadsInFlight
    <3>3. i < n
      BY <1>1, <1>9 DEF LoopControl, InBody
    <3>4. f \in Nat /\ i \in Nat /\ f + 1 = 4 * i + 2
      BY <1>1, <1>2, <3>1, <3>2
    <3>5. f = 4 * i + 1
      <4> HIDE DEF f, i
      <4> QED BY <3>4
    <3> QED BY <3>3, <3>5
  <2>2. r = 5 * i + 2
    BY <1>9, PhaseOf
  <2> QED BY <1>1, <2>1, <2>2
<1>10. CASE (pc[w] = "store_v1" /\ L - 1 = 0) \/ (pc[w] = "advance" /\ L - 1 = StoreIssues)
  <2>1. f = 4 * i + 2 /\ i < n
    <3>1. ReadsIssued(w) = 4 * i + 3
      BY <1>10 DEF ReadsIssued
    <3>2. ReadsInFlight(w) = 1
      BY <1>1, <1>10 DEF ReadsInFlight
    <3>3. i < n
      BY <1>1, <1>10 DEF LoopControl, InBody
    <3>4. f \in Nat /\ i \in Nat /\ f + 1 = 4 * i + 3
      BY <1>1, <1>2, <3>1, <3>2
    <3>5. f = 4 * i + 2
      <4> HIDE DEF f, i
      <4> QED BY <3>4
    <3> QED BY <3>3, <3>5
  <2>2. r = 5 * i + 3
    BY <1>10, PhaseOf
  <2> QED BY <1>1, <2>1, <2>2
<1>11. CASE pc[w] = "sync_v1" /\ i = n /\ L - 1 = StoreIssues
  <2>1. f + 2 = 4 * i /\ i > 0
    <3>1. ReadsIssued(w) = 4 * i - 1
      BY <1>11 DEF ReadsIssued
    <3>2. ReadsInFlight(w) = 1
      BY <1>1, <1>11 DEF ReadsInFlight
    <3>3. i > 0
      BY <1>1, <1>11 DEF LoopControl
    <3>4. f \in Nat /\ i \in Nat /\ f + 1 = 4 * i - 1
      BY <1>1, <1>2, <3>1, <3>2
    <3>5. f + 2 = 4 * i
      <4> HIDE DEF f, i
      <4> QED BY <3>4
    <3> QED BY <3>3, <3>5
  <2>2. r = 5 * i - 2
    BY <1>1, <1>11, PhaseOf
  <2> DEFINE t == i - 1
  <2>3. t \in Nat /\ i = t + 1 /\ t < n
    BY <1>1, <1>11, <2>1
  <2> HIDE DEF i, t, r
  <2>4. f = 4 * t + 2 /\ r = 5 * t + 3
    BY <1>1, <2>1, <2>2, <2>3
  <2> QED BY <1>1, <2>3, <2>4 DEF r
<1> QED BY <1>4, <1>5, <1>6, <1>7, <1>8, <1>9, <1>10, <1>11 DEF LgOp

\* Every step feeds one GEMM its next operand, as BlockDataflow does, or stutters.
LEMMA StepRefines ==
  ASSUME TypeInv, BarrierInv, FlowInv, [Next]_vars
  PROVE  [Block!Next]_(Block!vars)
<1>1. ASSUME NEW w \in Waves, ReadReturns(w) PROVE Block!Feed(w)
  <2>1. fed' = [fed EXCEPT ![w] = Append(@, Block!NthOperand(Len(@)))]
    BY <1>1, ReadFeeds
  <2>2. num_total_loop' = num_total_loop
    BY <1>1 DEF ReadReturns
  <2>3. /\ num_total_loop > 0
        /\ \E t \in Nat :
              LET r == Released(w) IN
              /\ t < num_total_loop
              /\ \/ Len(fed[w]) = 4 * t /\ r = 5 * t + 1
                 \/ Len(fed[w]) = 4 * t + 1 /\ r = 5 * t + 2
                 \/ Len(fed[w]) = 4 * t + 2 /\ r = 5 * t + 3
                 \/ /\ Len(fed[w]) = 4 * t + 3
                    /\ r \in {5 * (t + 1), 5 * (t + 1) + 1} \/ (t + 1 = num_total_loop /\ r = 5 * t + 4)
    BY <1>1, ReaderAt DEF FlowInv
  <2>4. PICK t \in Nat :
              LET r == Released(w) IN
              /\ t < num_total_loop
              /\ \/ Len(fed[w]) = 4 * t /\ r = 5 * t + 1
                 \/ Len(fed[w]) = 4 * t + 1 /\ r = 5 * t + 2
                 \/ Len(fed[w]) = 4 * t + 2 /\ r = 5 * t + 3
                 \/ /\ Len(fed[w]) = 4 * t + 3
                    /\ r \in {5 * (t + 1), 5 * (t + 1) + 1} \/ (t + 1 = num_total_loop /\ r = 5 * t + 4)
    BY <2>3
  <2>5. num_total_loop \in Nat /\ \A v \in Waves : Len(fed[v]) \in Nat
    BY LocalTypes DEF TypeInv, TypeOK
  <2>6. Len(fed[w]) < 4 * num_total_loop
    BY <2>4, <2>5
  <2>7. ASSUME NEW v \in Waves PROVE Len(fed[w]) <= Len(fed[v]) + 1
    <3>1. Released(v) = Released(w)
      BY DEF BarrierInv
    <3>2. LocalInv(v)
      BY DEF FlowInv
    <3>3. t + 1 \in Nat
      OBVIOUS
    <3>4. /\ Released(v) \in {5 * t, 5 * t + 1} => Len(fed[v]) >= 4 * t - 1
          /\ Released(v) = 5 * t + 2 => Len(fed[v]) >= 4 * t + 1
          /\ Released(v) = 5 * t + 3 => Len(fed[v]) >= 4 * t + 2
          /\ t + 1 = num_total_loop /\ Released(v) = 5 * t + 4 => Len(fed[v]) >= 4 * t + 3
      BY <2>3, <3>2, FedByPhase
    <3>5. Released(v) \in {5 * (t + 1), 5 * (t + 1) + 1} => Len(fed[v]) >= 4 * (t + 1) - 1
      BY <2>3, <3>2, <3>3, FedByPhase
    <3> QED BY <2>4, <2>5, <3>1, <3>4, <3>5
  <2> QED BY <2>1, <2>2, <2>6, <2>7 DEF Block!Feed, Block!OperandsPerTile
<1>2. ASSUME NEW w \in Waves, WaveStep(w) PROVE UNCHANGED Block!vars
  BY <1>2, WaveKeepsLds DEF Block!vars
<1>3. ASSUME NEW w \in Waves, VmStep(w) \/ StoreLands(w) PROVE UNCHANGED Block!vars
  BY <1>3 DEF VmStep, CopyLands, LoadReturns, StoreLands, Block!vars
<1>4. ASSUME UNCHANGED vars PROVE UNCHANGED Block!vars
  BY <1>4 DEF vars, Block!vars
<1> QED BY <1>1, <1>2, <1>3, <1>4 DEF Next, LgStep, Terminated, Block!Next

\* Under the same condition the loop implements BlockDataflow's steps: every wave's
\* GEMMs consume K and V halves in order, none skipped, none twice, and no wave gets
\* ahead of a half that is not yet whole.
THEOREM FeedsLikeBlockDataflow ==
  ASSUME ReadsDrainInTime
  PROVE  Spec => Block!Safety
<1>1. Init => Block!Init
  BY DEF Init, Block!Init
<1>2. TypeInv /\ BarrierInv /\ FlowInv /\ [Next]_vars => [Block!Next]_(Block!vars)
  BY StepRefines
<1> QED BY <1>1, <1>2, FlowInvHolds, PTL DEF Spec, Block!Safety
=============================================================================
