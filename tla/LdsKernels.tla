----------------------------- MODULE LdsKernels -----------------------------
(***************************************************************************)
(* The component kernels that stage a tile in LDS (k_lds.hpp, v_lds.hpp,   *)
(* qk_gemm.hpp, pv_gemm.hpp): the four waves of a block zero LDS, meet,    *)
(* stage K or V, meet, and dump the LDS or multiply from it.  Their CPU    *)
(* oracles (components_ref/) are stated beside them.                       *)
(*                                                                         *)
(* Numbers are symbols: an element of Q, K or V is <<row, column>>, P of a *)
(* thread's register <<tid, register>>, an accumulator a set of products.  *)
(* LDS is kept by dword, as a pair of elements.  Which dwords hold what is *)
(* fixed by the case; the state is whose zeros and stores have arrived.    *)
(***************************************************************************)
EXTENDS LaneLayout

CONSTANTS
  Cases,  \* [kernel, kv_offset, seqlen_q, seqlen_k] to choose from
  Tids,   \* threads whose registers are followed
  SyncDrainsStores  \* whether __syncthreads waits for the stores of inline
                    \* assembly, which the compiler has not counted

ASSUME CaseAssumption ==
  /\ SyncDrainsStores \in BOOLEAN
  /\ Tids \subseteq 0..255
  /\ Cases \subseteq [kernel : {"k_lds", "v_lds", "qk_gemm", "pv_gemm"},
                      kv_offset : Nat, seqlen_q : Nat, seqlen_k : Nat]

VARIABLES
  case,
  pc,        \* pc[w]: "zero", "stage", "wait", "compute", "done"
  zeroed,    \* waves whose zeros have arrived
  inflight,  \* waves whose copies or stores have not
  intact,    \* intact[w]: shares of the zeroing that have not hit w's data
  seen       \* seen[w]: zeroed and intact when wave w read LDS

vars == <<case, pc, zeroed, inflight, intact, seen>>

Zero    == << >>
Garbage == <<"garbage">>
Mixed   == <<"mixed">>

kLdsRegionElems == 8192

-----------------------------------------------------------------------------
(* Staging: the dwords a wave stores                                       *)

n_base(lane, w) == (lane \div 16) * 4 + w

\* Asynchronous copies, one dword a lane; lanes past the sequence are off.
KCopies(c, w) ==
  LET row(issue, lane) == c.kv_offset + issue * 16 + n_base(lane, w)
      m0(chunk, issue) == chunk * 4608 + w * 272 + issue * 1088
      col(chunk, lane) == chunk * 32 + (lane % 16) * 2
  IN  {<<(m0(x[1], x[2]) + x[3] * 4) \div 4,
         <<<<row(x[2], x[3]), col(x[1], x[3])>>, <<row(x[2], x[3]), col(x[1], x[3]) + 1>>>>>> :
         x \in {y \in (0..1) \X (0..3) \X Lanes : row(y[2], y[3]) < c.seqlen_k}}

qk_stage_k(c, w) == KCopies([c EXCEPT !.kv_offset = 0], w)

\* An element of two bytes that lie together.
Element(lo, hi) == IF lo[1] = hi[1] /\ lo[2] = 0 /\ hi[2] = 1 THEN lo[1] ELSE Mixed

\* One 32-row slice of V from row `first` of the tile on, each lane transposing
\* four columns of two rows, into the buffer at element `base`.
VStores(c, w, first, base) ==
  LET load(lane, k3, dword) ==
        LET row  == c.kv_offset + first + w * 8 + (lane % 4) * 2 + k3
            x(n) == <<row, (lane \div 4) * 4 + dword * 2 + n \div 2>>
        IN  [n \in 0..3 |-> <<IF row < c.seqlen_k THEN x(n) ELSE Zero, n % 2>>]
      out(lane, i) == Perm(load(lane, 0, i \div 2), load(lane, 1, i \div 2),
                           IF i % 2 = 0 THEN kPermSel0 ELSE kPermSel1)
      v86(lane)    == ((lane \div 8) % 8) * 144 + ((lane \div 4) % 2) * 64 + (lane % 4) * 4
      lds_addr(lane) == w * 1152 + v86(lane) + base * 2 - 128 * 4
      offset         == <<128, 132, 136, 140>>
  IN  {LET b == out(x[1], x[2])
       IN  <<lds_addr(x[1]) \div 4 + offset[x[2] + 1], <<Element(b[0], b[1]), Element(b[2], b[3])>>>> :
         x \in Lanes \X (0..3)}

kVLdsBufBase == 2304

\* Both slices, one buffer each.
pv_stage_v(c, w) ==
  LET tile == [c EXCEPT !.kv_offset = 0]
  IN  VStores(tile, w, 0, kVLdsBufBase) \cup VStores(tile, w, 32, kVLdsBufBase + 2304)

Stores(c, w) == CASE c.kernel = "k_lds"   -> KCopies(c, w)
                  [] c.kernel = "v_lds"   -> VStores(c, w, 0, kVLdsBufBase)
                  [] c.kernel = "qk_gemm" -> qk_stage_k(c, w)
                  [] c.kernel = "pv_gemm" -> pv_stage_v(c, w)

\* What each wave stores, as a function of the dword.
Staged == [c \in Cases |-> [w \in Warps |-> Image(Stores(c, w))]]

\* smem[e] = 0 for e = tid, tid + 256, ...
ZeroedBy(dword) == ((2 * dword) % 256) \div 64

\* Element e as the state s = <<zeroed, intact>> of LDS has it.
ElementIn(s, e) ==
  LET dword == e \div 2
      by    == {w \in Warps : dword \in DOMAIN Staged[case][w] /\ ZeroedBy(dword) \in s[2][w]}
  IN  IF by # {} THEN Staged[case][CHOOSE w \in by : TRUE][dword][(e % 2) + 1]
      ELSE IF ZeroedBy(dword) \in s[1] THEN Zero ELSE Garbage

-----------------------------------------------------------------------------
(* The GEMMs from LDS                                                      *)

\* The copies of swz in the components and the oracles: bits 2 and 3 change
\* places.
component_swz(x) == x + 4 * ((x \div 4) % 2) - 4 * ((x \div 8) % 2)

qk_k_lds_offset(j, d) ==
  (j % 4) * 136 + ((j \div 4) % 4) * 32 + (j \div 16) * 544 + (d % 32) + (d \div 32) * 2304

pv_v_lds_offset(n, d) ==
  LET k == n % 32 IN (k \div 8) * 576 + (d \div 8) * 72 + (d % 8) * 8 + (k % 8)

\* A product with a zero operand adds nothing.
NonZero(products) == {p \in products : Zero \notin {p[1], p[2]}}

\* s_n<n>[r] of a thread: register n * 16 + r of S_acc.
QkRegister(tid, register) ==
  LET w == tid \div 64
      n == register \div 16
      q(kstep, l, e) ==
        LET m_row == (l % 32) + 32 * w
        IN  IF m_row < case.seqlen_q THEN <<m_row, kstep * 16 + (l \div 32) * 8 + e>> ELSE Zero
      k(kstep, l, e) ==
        ElementIn(seen[w], qk_k_lds_offset(n * 32 + component_swz(l % 32),
                                           kstep * 16 + (l \div 32) * 8) + e)
  IN  NonZero(UNION {LET A == [l \in Lanes |-> [e \in 0..3 |-> k(kstep, l, 4 * pass + e)]]
                         B == [l \in Lanes |-> [e \in 0..3 |-> q(kstep, l, 4 * pass + e)]]
                     IN  Mfma(A, B, tid % 64, register % 16) : kstep \in 0..3, pass \in 0..1})

\* Mutant of PvRegister: K's swizzle on the V reads too.
PvRegisterSwizzled(tid, register) ==
  LET w == tid \div 64
      d == register \div 16
      p(kstep, l, e) == <<w * 64 + l, 2 * (kstep * 4 + e \div 2) + (e % 2)>>
      v(kstep, l, e) ==
        LET seqk_abs == kstep * 16 + (l \div 32) * 8
            v_buf    == IF seqk_abs < 32 THEN kVLdsBufBase ELSE kVLdsBufBase + 2304
        IN  ElementIn(seen[w], v_buf + pv_v_lds_offset(seqk_abs % 32, component_swz(l % 32) + 32 * d) + e)
  IN  NonZero(UNION {LET A == [l \in Lanes |-> [e \in 0..3 |-> v(kstep, l, 4 * pass + e)]]
                         B == [l \in Lanes |-> [e \in 0..3 |-> p(kstep, l, 4 * pass + e)]]
                     IN  Mfma(A, B, tid % 64, register % 16) : kstep \in 0..3, pass \in 0..1})

\* o_d<d>[r] of a thread.  P is packed in pairs of registers; being bf16 values,
\* the halves are whole.
PvRegister(tid, register) ==
  LET w == tid \div 64
      d == register \div 16
      p(kstep, l, e) == <<w * 64 + l, 2 * (kstep * 4 + e \div 2) + (e % 2)>>
      v(kstep, l, e) ==
        LET seqk_abs == kstep * 16 + (l \div 32) * 8
            v_buf    == IF seqk_abs < 32 THEN kVLdsBufBase ELSE kVLdsBufBase + 2304
        IN  ElementIn(seen[w], v_buf + pv_v_lds_offset(seqk_abs % 32, (l % 32) + 32 * d) + e)
  IN  NonZero(UNION {LET A == [l \in Lanes |-> [e \in 0..3 |-> v(kstep, l, 4 * pass + e)]]
                         B == [l \in Lanes |-> [e \in 0..3 |-> p(kstep, l, 4 * pass + e)]]
                     IN  Mfma(A, B, tid % 64, register % 16) : kstep \in 0..3, pass \in 0..1})

-----------------------------------------------------------------------------
(* The oracles                                                             *)

ref_n_col(tid, r) == (r \div 8) * 16 + ((tid % 64) \div 32) * 8 + (r % 8)
ref_m_row(tid)    == ((tid % 64) % 32) + 32 * (tid \div 64)

k_lds_offset_elems(j, d) ==
  (j % 4) * 136 + ((j \div 4) % 4) * 32 + (j \div 16) * 544 + (d % 32) + (d \div 32) * 2304

v_lds_offset_elems(n, d) ==
  LET k == n % 32 IN (k \div 8) * 576 + (d \div 8) * 72 + (d % 8) * 8 + (k % 8)

\* Pairs of an element and what it is expected to hold; the others hold zero.
ref_k_lds(c) ==
  {<<k_lds_offset_elems(x[1], x[2]), <<c.kv_offset + x[1], x[2]>>>> :
     x \in {y \in (0..63) \X (0..63) : c.kv_offset + y[1] < c.seqlen_k}}

ref_v_lds(c) ==
  {<<kVLdsBufBase + v_lds_offset_elems(x[1], x[2]), <<c.kv_offset + x[1], x[2]>>>> :
     x \in {y \in (0..31) \X (0..63) : c.kv_offset + y[1] < c.seqlen_k}}

ref_qk_gemm(c, tid, r) ==
  LET m == ref_m_row(tid)  n == ref_n_col(tid, r)
  IN  {<<<<m, d>>, <<n, d>>>> : d \in {x \in 0..63 : m < c.seqlen_q /\ n < c.seqlen_k}}

\* Where P of row m and column n is.
get_p(m, n) ==
  LET k_sub == IF n % 16 < 8 THEN 0 ELSE 1
  IN  <<(m \div 32) * 64 + k_sub * 32 + (m % 32), (n \div 16) * 8 + ((n - 8 * k_sub) % 8)>>

ref_pv_gemm(c, tid, r) ==
  LET d == component_swz(ref_n_col(tid, r))
  IN  {<<get_p(ref_m_row(tid), n), <<n, d>>>> : n \in {x \in 0..63 : x < c.seqlen_k}}

-----------------------------------------------------------------------------
(* The block                                                               *)

Init ==
  /\ case \in Cases
  /\ pc = [w \in Warps |-> "zero"]
  /\ zeroed = {} /\ inflight = {}
  /\ intact = [w \in Warps |-> {}]
  /\ seen = [w \in Warps |-> << >>]

\* A wave's share of the zeroing, which wipes what is there.
ZeroShare(w) ==
  /\ pc[w] = "zero" /\ pc' = [pc EXCEPT ![w] = "stage"]
  /\ zeroed' = zeroed \cup {w}
  /\ intact' = [u \in Warps |-> intact[u] \ {w}]
  /\ UNCHANGED <<case, inflight, seen>>

\* After the first __syncthreads, copies or stores are issued.
Stage(w) ==
  /\ pc[w] = "stage" /\ \A u \in Warps : pc[u] # "zero"
  /\ pc' = [pc EXCEPT ![w] = "wait"]
  /\ inflight' = inflight \cup {w}
  /\ UNCHANGED <<case, zeroed, intact, seen>>

\* K comes by asynchronous copies, V by ds_write2 of inline assembly.
Copies == case.kernel \in {"k_lds", "qk_gemm"}

\* The copies of a wave arrive some time later.
CopiesArrive(w) ==
  /\ Copies /\ w \in inflight /\ inflight' = inflight \ {w}
  /\ intact' = [intact EXCEPT ![w] = Warps]
  /\ UNCHANGED <<case, pc, zeroed, seen>>

\* And so do the stores.
StoresArrive(w) ==
  /\ ~Copies /\ w \in inflight /\ inflight' = inflight \ {w}
  /\ intact' = [intact EXCEPT ![w] = Warps]
  /\ UNCHANGED <<case, pc, zeroed, seen>>

\* Mutant of WaitForCopies: no s_waitcnt before the second barrier.
WaitForNothing(w) ==
  /\ pc[w] = "wait" /\ Copies
  /\ pc' = [pc EXCEPT ![w] = "compute"]
  /\ UNCHANGED <<case, zeroed, inflight, intact, seen>>

\* s_waitcnt vmcnt(0), and the wave is at the second barrier.
WaitForCopies(w) ==
  /\ pc[w] = "wait" /\ Copies /\ w \notin inflight
  /\ pc' = [pc EXCEPT ![w] = "compute"]
  /\ UNCHANGED <<case, zeroed, inflight, intact, seen>>

\* After the stores there is the second __syncthreads and nothing else.
SyncStores(w) ==
  /\ pc[w] = "wait" /\ ~Copies /\ (SyncDrainsStores => w \notin inflight)
  /\ pc' = [pc EXCEPT ![w] = "compute"]
  /\ UNCHANGED <<case, zeroed, inflight, intact, seen>>

\* All waves are there: the dump of LDS, or the GEMM.
Compute(w) ==
  /\ pc[w] = "compute" /\ \A u \in Warps : pc[u] \in {"compute", "done"}
  /\ pc' = [pc EXCEPT ![w] = "done"]
  /\ seen' = [seen EXCEPT ![w] = <<zeroed, intact>>]
  /\ UNCHANGED <<case, zeroed, inflight, intact>>

Done     == \A w \in Warps : pc[w] = "done"
Finished == Done /\ UNCHANGED vars

Next ==
  \/ \E w \in Warps :
       \/ ZeroShare(w) \/ Stage(w) \/ CopiesArrive(w) \/ StoresArrive(w)
       \/ WaitForCopies(w) \/ SyncStores(w) \/ Compute(w)
  \/ Finished

Spec == Init /\ [][Next]_vars

-----------------------------------------------------------------------------
(* Properties                                                              *)

\* out[e] of the kernels that dump LDS: thread e % 256 wrote it.
Dumped(e) == ElementIn(seen[(e % 256) \div 64], e)

\* The dumped LDS is the oracle's image, of full and partial tiles, whatever the
\* order in which the waves zero, stage and dump (k_lds.hpp, v_lds.hpp).
DumpIsOracle ==
  Done /\ case.kernel \in {"k_lds", "v_lds"} =>
    LET expected == IF case.kernel = "k_lds" THEN ref_k_lds(case) ELSE ref_v_lds(case)
        held     == {x[1] : x \in expected}
    IN  /\ \A x \in expected : Dumped(x[1]) = x[2]
        /\ \A e \in 0..(kLdsRegionElems - 1) : e \notin held => Dumped(e) = Zero

\* The registers the GEMM kernels dump are the oracle's, each the sum of exactly
\* its products, padding rows of Q and K or V adding none (qk_gemm.hpp,
\* pv_gemm.hpp).
GemmIsOracle ==
  Done => \A tid \in Tids, r \in 0..31 :
    /\ case.kernel = "qk_gemm" => QkRegister(tid, r) = ref_qk_gemm(case, tid, r)
    /\ case.kernel = "pv_gemm" => PvRegister(tid, r) = ref_pv_gemm(case, tid, r)

\* The comment of k_lds.hpp says of the fused kernel that it "now uses the same
\* correct formula": a full tile staged by the component kernel lies where
\* op_lds.hpp puts it, one of the fused kernel's buffers per half.
StagesLikeFusedKernel ==
  LET full      == Done /\ case.kv_offset + 64 <= case.seqlen_k
      lies(image, first, col0, base) ==
        \A a \in {x \in DOMAIN image : x % 2 = 0} :
          LET x == ElementAt(image, a)
          IN  Dumped(base + a \div 2) = <<first + x[1], x[2] + col0>>
  IN  /\ full /\ case.kernel = "k_lds" =>
           \A chunk \in 0..1 : lies(KImage, case.kv_offset, chunk * 32, chunk * 2304)
      /\ full /\ case.kernel = "v_lds" => lies(VImage, case.kv_offset, 0, kVLdsBufBase)
=============================================================================
