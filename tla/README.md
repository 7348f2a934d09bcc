# A TLA+ development of fmha_native

`fmha_native` is a hand-written HIP kernel for the forward pass of fused multi-head
attention (head dimension 64, bf16, CDNA matrix cores), with a small host runner,
reference implementations and a component test for every stage of the kernel. This
directory holds TLA+ models of the kernel's logic, TLC runs that check them on small
instances, and TLAPS proofs of the results that should hold for every instance.

## 1. The system

### 1.1 Components

| component | source | state it keeps | operations |
|---|---|---|---|
| tile pipeline | `src/src/fused/pipeline.hpp`, `op_lds.hpp` | per wave: loop counter, K/V byte bases, headdim half to copy next, V registers, two queues of operations in flight (vmcnt, lgkmcnt); per block: three LDS buffers, the hardware barrier | copy K, load V, store V, fences, barriers, GEMM0/GEMM1 operand reads |
| KV loop bounds and masking | `pipeline.hpp`, `op_softmax.hpp` | per block: number of KV tiles, current tile | early return, tile count, full-tile fast path, boundary and causal mask |
| online softmax | `op_softmax.hpp`, `pipeline.hpp`, `op_epilog.hpp` | per row, in two lanes: `rmax`, `rsum`, `o_acc` | row maximum, exp2, row sum, rescale, normalise, LSE |
| layout of a tile | `op_lds.hpp`, `op_gemm.hpp`, `op_epilog.hpp` | none (index arithmetic) | where each element is in DRAM, LDS, registers and O |
| kernel entries and grid | `kernel.cpp`, `runner/params.hpp` | the blocks resident and those still to dispatch | four entries (mask, varlen), block index to (batch, head, M-tile), causal reversal |
| addressing and descriptors | `pipeline.hpp`, `op_epilog.hpp`, `runner/params.hpp` | byte bases of K and V | batch, head, GQA and varlen offsets, 32-bit byte offsets, clamped O descriptor |
| host buffers and launch | `runner/buffers.*`, `fmha_params.hpp`, `bench_fmha_fwd.cpp` | host and device buffers, the device's queue, two events, times | defaults, allocation, copies, launch, timing |
| references | `runner/cpu_ref.cpp`, `gpu_ref.cpp` | statistics per thread and merged ones; O and LSE of the reference kernel | three-pass softmax attention, comparison, verdict |
| component test kernels | `src/src/components/*`, `components_ref/*` | LDS of a block; registers of a row | one stage of the kernel at a time, and its oracle |
| bf16 helpers, scripts | `runner/bf16_utils.hpp`, `src/scripts/*` | none | conversions; build, gates, profiler |

### 1.2 How they interact

One block of 256 threads (four waves of 64 lanes) computes 128 query rows (an M-tile) of
one head. It walks the keys in tiles of 64. For each tile the waves together stage K and
V in three LDS buffers that are used in rotation (`LdsSeq = {1, 2, 1, 0}` for K half 0, K
half 1, V half 0, V half 1); every wave then reads all of what the four staged. The only
interaction between waves is through these buffers and `s_barrier`; the only interaction
with memory is asynchronous: K copies and V loads are counted by `vmcnt`, LDS reads and
writes by `lgkmcnt`, and a wave waits for a count, never for a named operation. A query
row lives in two lanes of one wave, `l` and `l ^ 32`, which exchange maxima and sums with
`ds_bpermute`. Blocks do not wait for one another; they share the output tensors, of which
each must write its own rows only. The host fills `FmhaFwdParams`, chooses one of four
entry points and shares with the device an in-order queue: launches, memsets and event
records return at once, copies and synchronisation wait. The tests compare O with the
rows a second kernel (`gpu_ref.cpp`, one thread per row) or the host
(`cpu_ref.cpp`, a team of OpenMP threads) computes.

### 1.3 What is hard to get right

* **Four waves, two kinds of queue, five barriers, three buffers.** What keeps a copy
  into a buffer from overtaking a read out of it is the position of the barriers and the
  counts of the fences, argued about in comments and untestable on one machine: a wrong
  order shows only when waves drift.
* **A conditional barrier** (the K prefetch is skipped on the last tile).
* **The wait that is not in the source**: `s_barrier()` waits for no counter; whether the
  LDS reads of the GEMM before it have returned is the compiler's decision.
* **Boundaries**: C division of a negative causal bound, a diagonal that cuts tiles of 64
  keys and M-tiles of 128 rows at any offset, a fast path guarded for the whole block.
* **Numerics**: numerator, denominator and maximum rescaled by separate statements; a
  finite seed instead of minus infinity; exponents that underflow.
* **Five index formulas in four files** that have to agree for all 256 lanes.
* **Widths**: 32-bit byte offsets, descriptor clamps, strides derived by division.
* **A grid made for the longest sequence**: blocks and reference threads past the end of a short
  one must leave without a store; the causal entries reverse the order of the M-tiles.
* **An asynchronous device**: a time read too early or a memset after the kernel gives a
  plausible wrong answer.
* **Statistics merged in any order** by the threads of the CPU reference.
* **Seven copies of the stages** in the component kernels, with their own barriers and waits.

No component persists anything, and the kernel neither receives messages nor times out:
there is no crash recovery or retry to model.

### 1.4 What makes each component correct

* pipeline: no write to a buffer under a read; every GEMM reads the whole operand of the
  right tile and half; waves meet at the same barrier; every wave ends.
* bounds and masking: a row attends exactly the keys the references define; no tile is
  walked in vain.
* online softmax: the carried sums are those of one softmax over all keys seen; the two
  lanes agree; the LSE is the log-sum-exp of the attended keys.
* layout: each score is the dot product of the right row and key, each O column the sum
  over all keys of P times V of that column.
* grid and addressing: every row of O and LSE is written once, with the value attention gives
  it, from the right K/V head and inside the tensor; reads and stores find their row although the
  offsets overflow; masked launches start with the heavy M-tiles.
* references: the same promise for the reference kernel; the verdict of the CPU comparison is that
  of a sequential one.
* host: a reported time spans one kernel; kernels and copies see initialised, live buffers.
* component kernels: each agrees with its oracle, and stages as the fused kernel does.

`PROJECT.json` lists the components with their status and the hazards line by line.

## 2. The modules and the code

| module | models | role |
|---|---|---|
| `BlockDataflow` | what the tile loop promises | abstract specification |
| `LdsPipeline` | the tile loop, per wave, with its asynchronous operations | implements `BlockDataflow` |
| `LdsPipelineProofs` | | types, barriers, queues and buffers of `LdsPipeline`; it implements `BlockDataflow` |
| `TileBounds` | tile sizes and the number of KV tiles of an M-tile | shared operators |
| `KvTiling` | tile count and masking, followed for one row | |
| `ByteOffsets` | int byte offsets of Q, K, V and O | |
| `BlockWalk`, `BlockWalkProofs` | one block: `KvTiling` and `ByteOffsets` in lockstep; theorems about all three | composition |
| `OnlineSoftmax`, `OnlineSoftmaxProofs` | the running softmax of one row | |
| `LaneLayout`, `TileLayout` | lane, register and byte arithmetic of one tile, real constants | |
| `TileLayoutProofs` | | the arithmetic by digits: images of LDS, GEMMs, one row of a tile |
| `AttentionOutput` | what a forward pass promises of its output | abstract specification |
| `LaunchParams` | from the options of a launch to kernel arguments and tensor layouts | shared operators |
| `OutputMemory` | the tensors as memory, and the mapping to `AttentionOutput` | shared state |
| `FwdGrid` | a launch of a fused kernel: grid, blocks, warps | implements `AttentionOutput` |
| `GpuRef` | a launch of the reference kernel: one thread per row | implements `AttentionOutput` |
| `ForwardKernels`, `ForwardKernelsProofs` | either of the two over the same memory; theorems about both and about the addresses they use | composition |
| `HostRun` | benchmark and test flow, device queue, events, buffers | |
| `CpuVerify` | the team of threads of `cpu_ref_verify` | |
| `HostPrograms`, `HostProgramsProofs` | `HostRun`, with `CpuVerify` where the host calls it; theorems about both | composition |
| `LdsKernels` | the four component kernels that stage in LDS, and their oracles | |
| `RowKernels` | the three that work on the registers of a row, and theirs | |
| `ComponentKernels`, `ComponentKernelsProofs` | any of the seven; theorems about all of them | composition |
| `BasicFacts` | induction over sets of naturals, division, counting, fractions, lists | lemmas of several proofs |
| `MC*` | values for TLC | |

`LdsPipeline`, `TileLayout`, `KvTiling` and `OnlineSoftmax` are four cuts through the same loop, joined at what they hand over.
`LdsPipeline` says *which* half of which tile a GEMM reads and takes it as a whole;
`TileLayout` says that such a half, staged and read as the code does it, puts the right
elements in the right registers; `KvTiling` says which of the resulting scores survive;
`OnlineSoftmax` takes any masked scores and says what is accumulated and stored. The
product of the four state spaces would show nothing that the cuts do not, as the data of
one does not steer the control of another: no wait, barrier or branch of the loop depends
on a score. `FwdGrid` takes a block's loop as so many tiles (`TileCount`, the definition
`KvTiling` walks by) and says what all blocks of a launch leave in memory.

### 2.1 LdsPipeline

A wave has a program counter; an action is the code between two points where another
wave, or memory, can be noticed. The labels follow the statements of the loop body:

| label | code (`pipeline.hpp`) |
|---|---|
| `prologue` | Q loads, first `async_copy_k_subtile` (or the exit for no tile) |
| `k_half1` | copy of K half 1 |
| `fence_half0` | `async_load_fence(4); s_barrier()` |
| `gemm0_0` | GEMM0 on half 0 |
| `fence_half1` | `async_load_fence(0); s_barrier()` |
| `load_v0` | `load_v_from_dram` of half 0 |
| `gemm0_1` | GEMM0 on half 1 |
| `row_max` | mask and row maximum (its bpermute waits for `lgkmcnt(0)`) |
| `store_v0` | `vmcnt(0)`, store of V half 0, load of half 1 |
| `row_sum` | exp2, row sum, rescaling |
| `sync_v0`, `gemm1_0` | `block_sync_lds`, GEMM1 on V half 0 |
| `store_v1` | `vmcnt(0)`, store of V half 1 |
| `advance`, `k_prefetch` | loop counter; `s_barrier` and copy of the next K half 0 |
| `sync_v1`, `gemm1_1` | `block_sync_lds`, GEMM1 on V half 1, loop condition |
| `epilogue`, `done` | stores of O and end of the wave |

`vm[w]` and `lg[w]` are the operations in flight, one element per instruction, as the
fences count instructions. `CopyLands`, `LoadReturns`, `StoreLands` and `ReadReturns` let
memory complete the oldest one of a queue at any moment; the two queues of a wave, and the
queues of different waves, are unordered. Both counters of the hardware are decremented
in order for these classes, so a queue is a sequence. A buffer holds the set of pieces
(wave, issue) of the last operand written to it; a read returns `Nothing` unless the
operand is complete. A barrier is the set of waves waiting; a wave that has ended no
longer counts. The bpermutes of `row_max` and `row_sum` are not queued: they are waited
for at once.

`WaitsSinkPast` is the one thing the source leaves open. The wait for an LDS read is
inserted by the compiler before the matrix instruction that uses it, and such
instructions may be scheduled past a plain `s_barrier()`. The constant names the plain
barriers at which this happens in a build; at the others the reads have returned. At
`fence_half1` the `sched_barrier(0)` after it bounds the delay (`LoadVHalf0` waits for the
reads). With `{"fence_half0"}`, the choice of the passing runs, the delay is harmless:
GEMM1 of V half 1 reads buffer 0, which nobody writes before two more barriers. With
`{"advance"}` it is not: see finding 1 in section 4.

`BlockDataflow` is what the loop promises once all this is hidden: wave `w` consumes the
operands `K0 K1 V0 V1` of tile 0, 1, ... in this order; no wave is more than two operands
ahead of another; every wave gets to the end. `ImplementsBlockDataflow` is
`Block!Spec` under the identity mapping on `num_total_loop` and `fed` (`fed` is the
history the model keeps for this purpose; no action reads it). `BlockDataflow` and `AttentionOutput` keep
their fairness apart (`Spec == Safety /\ ...`), so that the safety of the implementations can be proved.

### 2.2 KvTiling

One block and one of its rows: `Start` computes `num_total_loop` as the code does, with
`CDiv` for C division, `Tile` adds the keys that survive `softmax_mask` in both lanes of
the row and advances. `LaneOffsets` is the register-to-column map of a lane, `Limit` the
folded boundary and diagonal, `FastPath` the guard of the whole block. All four entries
(mask, varlen) are initial states. Blocks past the end of a short varlen sequence return
early; in dense mode such blocks do not exist and are not initial states. `MayAttend` is
the mask of the references (`cpu_ref.cpp`, `gpu_ref.cpp`).

`BlockWalk` lets `ByteOffsets` take each step with it: the reads of Q before the loop, of K and V
for each tile, and the stores of O after it, for some rows and columns of each. Every
operation of the source on an `int` is wrapped to `Modulus` values (`Wrap`), the buffer
instruction takes the result as unsigned, and the hardware drops a store that does not lie below
`num_records`; whether the instruction's own offset (`soffset`) counts in that comparison is a choice at each
store. `KVoffset` keeps the running sum over the four issues of a K copy, `VVoffset` the two
halves and row pairs of V. Signed overflow wraps, as the instructions of the build do.

### 2.3 OnlineSoftmax

Real numbers are replaced by what the properties need: a sum of powers of two is the
function from the keys that contribute to their exponents, so multiplying by
`exp2(d)` adds `d` to every exponent, and a term below `2^ExpMin` is zero. This keeps
underflow and cancellation of exponents and drops the rounding of fp32 sums, the
truncation of P to bf16 and the V factor of the numerator (a term of `o_acc` is the weight
of a key's V row). Scores are in scaled units; the code keeps unscaled maxima and applies
the scale in the exponent, which is the same for a positive scale. Masked scores are
`NegInf`. The number of tiles is chosen as the walk goes on, zero included.

### 2.4 TileLayout

Only index arithmetic, with the constants of the code, and symbols for numbers. `KImage`
and `VImage` are the bytes all 256 lanes stage (asynchronous K copies with their hardware
lane stride; V loads, `v_perm` transposition and `ds_write2` offsets); the GEMMs read
them at the padded offsets, with the swizzled row for K, and pass them through the operand
layout of `v_mfma_f32_32x32x8` (external: taken from how `op_gemm.hpp` uses it);
`EpilogStore` packs and stores. A behaviour follows one row; all 128 rows are initial
states. The functions of `op_lds.hpp` the pipeline does not call are left out.
`LaneLayout` holds the part of this arithmetic that `LdsKernels` needs too.

### 2.5 FwdGrid, GpuRef and what both implement

Memory (`OutputMemory`) is kept by address, O a row at a time. A value is what attention makes of
its inputs, abstracted to the query row, the KV head and the number of keys: the kernels *look
up* which query row and which KV head start at the addresses they compute, in the layout the tensors
really have, so a wrong base, stride or head is a wrong value. A store destroys the rows it overlaps.
`LaunchParams` derives kernel arguments, buffer sizes and strides as `bench_fmha_fwd.cpp` and
`buffers.cpp` do, for the packed `[head][token]` layout of the runner and the `[token][head]` one
of the smoke tests; `Accepted` is the check of the head counts that `parse_args` makes.

`FwdGrid` dispatches blocks in linear order to `Slots` places; a block decodes its index,
leaves at once if it is past the end of its sequence, walks its tiles and stores warp by warp.
Blocks progress in any order. `GpuRef` has one step per thread for the three passes over
memory nobody writes, and separate steps for the stores of O and LSE. `AttentionOutput` is the
promise: every cell goes once from unset to the value of the problem, and in the end all are
set. The mapping (`Memory`, `Expected`) reads the cells at the addresses the *CPU reference* uses.

### 2.6 HostRun, CpuVerify, HostPrograms

`HostRun` has one action per statement of the host that touches the device. The queue holds memsets,
kernels and event records; `Execute` runs the oldest command. A record sets its event to
`Pending` and, when executed, to the number of kernels executed so far, so a "time" is the number
of kernels between two records. Any checked HIP call may fail: the program exits with the queue as it is.
`CpuVerify` hands out chunks of (batch, head) pairs dynamically, compares rows into private
statistics, meets at the barrier of the loop and merges in a critical section. Elements are small
integers; the cosine is compared by its square. `HostPrograms` runs this team inside the host's call.

### 2.7 The component kernels

`LdsKernels`: each of four waves zeroes its share of LDS, meets, issues its copies or stores, waits,
meets, and reads. Copies of K are waited for by `s_waitcnt vmcnt(0)` (`WaitForCopies`). For the stores of V the source has
`__syncthreads()` only: whether that waits for them is the constant `SyncDrainsStores` (`SyncStores`; section 6). What is stored where is a function of the case (`Staged`); the state is whose zeros
and stores have arrived, in which order (`intact`), and what a wave found when it read
(`seen`). `ElementIn` gives the content of an element in such a state, `QkRegister` and `PvRegister`
the products in a register. `RowKernels` follows the two lanes of a row through row maximum, softmax and
epilogue. The oracles are translated from `components_ref/`, not from the kernels.

## 3. The runs

| run | instance | shows |
|---|---|---|
| `lds_pipeline` | 4 waves (symmetric), up to 2 tiles, 4 copies, 2 stores, 4 Q loads | `TypeOK`, `NoWriteUnderRead`, `BarrierMatched`, `ReadsSeeTheirOperand`; no deadlock |
| `lds_live` | 2 waves, up to 3 tiles, same issue counts, fairness | `ImplementsBlockDataflow`, `EveryWaveEnds` |
| `lds_plain_barrier` | 3 waves, 3 tiles, waits sink past `advance` | violates `NoWriteUnderRead` |
| `kv_tiling` | 8 x 8 lengths, 2 M-tiles, 6 rows, all entries; 3 row strides in a word of 2^18 values | `TypeOK`, `AttendsExactly`, `NoTileInVain`, `ReadsFindTheirRow`, `StoresFindTheirRow` |
| `kv_tail` | same | violates `StagedRowsInSequence` |
| `online_softmax` | 3 tiles, one register per half, scores {-6, -3, 0, 5} and masked, seed -3 | `TypeOK`, `HalvesAgree`, `RunningSoftmax`, `NoTermAboveOne`, `LseIsLogSumExp` |
| `softmax_seed` | scores {-8, -3, 0} | violates `ZeroSumMeansMasked` |
| `tile_layout` | 128 rows, 256 lanes, all constants real | `ScoresAreDotProducts`, `OutputIsPTimesV`, `StaysInItsBuffer` |
| `tile_universal` | 4 rows | violates `UniversalTransposedC` |
| `kernels` | 18 launches of up to 4 heads, 3 sequences and 2 M-tiles, 2 blocks resident; the 7 small ones also by the reference kernel; fairness | `TypeOK`, `NoStrayStore`, `HeavyFirst`, `ImplementsAttention` |
| `components` | 14 LDS cases, full and partial, 11 threads; 14 row cases, 20 rows | `DumpIsOracle`, `GemmIsOracle`, `StagesLikeFusedKernel`, `RowReductionsAreOracle`, `EpilogIsOracle` |
| `host_programs` | 0, 1 or 3 warmups, 1 or 3 iterations, failing calls; 2 threads, chunks of 2 pairs, two shapes of 2 and 3 rows, 7 kinds of row | `TimesOneKernel`, `KernelsHaveTheirBuffers`, `VerifiesResults`, `VerdictIsSequential`, `WorstIsWhereItSays` |

**Why the bounds are enough.** *Pipeline*: the kernel has four waves and these issue counts, so
`lds_pipeline` takes them as they are; the loop body depends on the tile only through
"first", "last" and "another one follows", and two tiles have a first, a last, a prefetch
across the back edge and a body entered from it; `lds_live` adds a tile that is neither
first nor last. A read is one element of `lg` per GEMM sub-tile: reads of one sub-tile
have no fence between them, and splitting one only adds returns before the last one.
*Tiling*: lengths lie at, one below and one above the multiples of 64 and 128, with both
orders of query and key length and empty sequences; rows lie at the edges of waves and
tiles; the proof then covers every length. *Softmax*: scores lie above, at and below the
seed, and pairs of them are more than the exponent range apart, so every tile can raise
the maximum, keep it, or make earlier terms vanish; a second register per half only
repeats the first, and the proof is for any set of registers. *Layout*: nothing is
bounded. *Offsets*: the word is small instead of the tensors large: with 4 KiB rows it addresses
64 rows and with 1280-byte rows 204, so lengths up to 200 reach from no overflow through
signed overflow to unsigned overflow and to the clamp of the descriptor. *Kernels*: launches have
one or two M-tiles, the second partial, equal and unequal query and key lengths in both orders, one
to four query heads per launch with one or two KV heads, padded head dimensions, both layouts,
packed sequences that are empty, short or long, and head counts the parser refuses; two resident blocks are
enough for any pair of blocks to overlap, and two blocks at a time are what a collision takes.
*Components*: full tiles, tiles that end inside a wave's share, of one row and past the
sequence. *Host*: three iterations use each event again twice; three warmups make a queue of several commands.
*Verification*: two threads with chunks of two pairs meet a chunk that is cut short; each kind of row fails
one test of the verdict and passes the others.

**Deadlock** is checked in all runs; the end of a behaviour is the explicit `Terminated`
or `Finished` step.

**Symmetry** is used in runs without temporal properties only. Waves are interchangeable
there: which wave stages which piece of a buffer is recorded by the wave's name only.

**Fairness** is weak fairness of the program steps of each wave and of each memory queue. The
waves of a block are resident until it ends, and the scheduler of a compute unit issues
from every wave that is ready; a memory operation that was issued completes. Nothing is
assumed of the order in which waves or queues get their turn. Weak fairness is enough: a
fence, a barrier or a read that has become possible stays possible until it is taken.
`kernels` assumes only that a launch does not stop while some block or thread can go on
(`WF_all(Fused \/ Reference)`): none waits for another, each takes finitely many steps.
`host_programs` has no liveness property and assumes no fairness.

**`EveryWaveEnds`** asks for more than an end: every wave gets to one with its loop counter at `num_total_loop` and its
byte bases at the last tile. A prefetch that is made once too often, or not for the last tile, leaves them elsewhere.

**Mutants.** For each property of a passing run `PROJECT.json` names a variant of one
definition, a mistake one could make in that code: the fence without its barrier, a fence
that lets one more operation stay in flight, `k_col_offset` not reset, a prefetch condition that is one tile off, the diagonal itself
masked, the causal bound forgotten, the numerator not rescaled, the lane bit not flipped, the maximum not carried from
tile to tile, the swizzle left out, query heads dealt to the KV heads in turn, natural order of the
M-tiles, a record on the host's clock, overlapping chunks, a merge that overwrites the worst location, a
copy nobody waits for, a copy of the result that returns at once. With the variant in place TLC finds the property
violated. The variants stand next to the definitions they vary, marked "Mutant".

## 4. Where the code and its comments differ

1. **The barrier before the K prefetch is plain** (`lds_plain_barrier`). `op_lds.hpp:107-109`
   says `block_sync_lds` is the one to use before a region is overwritten that another
   wave may still be reading. The prefetch overwrites buffer 1, from which GEMM1 has just read V half 0,
   after an `s_barrier()` that waits for no counter. The code is right in every build
   that waits for those reads before the barrier; nothing in the source asks for it. This is a
   statement about the source, not about a particular compiler's output.
2. **Rows past the end of the sequence are staged** (`kv_tail`). The comment at `pipeline.hpp:66-70`
   says bounds come from the offsets; the offsets of the last tile cover all 64 rows. The
   scores are masked, so only their *values* matter: zero times a V that is infinite or
   NaN is NaN.
3. **A zero sum does not imply a masked row** (`softmax_seed`). With `rmax` starting at -5000 a
   row whose scores all lie more than the exponent range below the seed is stored as zero
   with LSE minus infinity, which `op_epilog.hpp:75-76` says means "masked".
   `LseIsLogSumExp` holds whenever no score is that low (`ScoresInReach`).
4. **O_acc is not in the universal layout** (`tile_universal`). `op_gemm.hpp:20-25` and
   `ARCHITECTURE.md:85-87` give one layout for both accumulators; GEMM1 reads V without the
   swizzle, so `O_acc` runs in groups of four. The epilogue stores it where it is
   (`OutputIsPTimesV` holds).

Met on the way, without a run of their own:

* `pipeline.hpp:84-87` says of `LdsSeq` that K and V never share a buffer within an iteration and that
  both K halves share buffer 1. With `{1, 2, 1, 0}` K half 0 and *V half 0* share buffer 1, and the K
  halves do not share. The reuse is safe for another reason: the barrier at `fence_half1` comes between the
  last read of K half 0 and the first store of V half 0 (`NoWriteUnderRead` holds, and fails without it).
* The varlen LSE head stride is `nhead_stride_q / stride_q` (`pipeline.hpp:411`, likewise
  `gpu_ref.cpp:121`), although `params.hpp:20-25` admits any strides: with `[token][head]` tensors the
  quotient is 0 and all heads of a token share one LSE. No caller passes such strides together with LSE.
* `op_epilog.hpp:67-69` says the clamp of `num_records` makes the bounds check cover the whole tensor;
  stores beyond 2^31 - 1 bytes of one head, which the voffset still reaches, are dropped
  (`StoresFindTheirRow` says exactly this much).
* `tol_cos` is 0.99995 (`cpu_ref.cpp:28`), the header says 0.99998 (`cpu_ref.hpp:37`); rows whose norm
  is zero are not compared by cosine, the other two tests of the verdict decide alone.
* The benchmark does not ask whether a launch succeeded (`bench_fmha_fwd.cpp:179-191`): with
  `LaunchMayFail` the times of `HostRun` no longer span a kernel each. The run sets it to FALSE, and no property covers a launch that failed. With zero iterations it reads
  `times[0]` of an empty vector (line 215).
* `PROBE_ZERO_TILE` addresses V as `[batch][head][row]` for packed sequences too (`buffers.cpp:172`).
* M-tile `i` of a causal square problem walks `2(i+1)` KV tiles, not `i+1` (`kernel.cpp:70`; an M-tile has
  128 rows, a KV tile 64 keys); the row guard of the epilogue is per lane, not uniform in the wave;
  the running maximum is that of unscaled scores.
* `test_row_max_kernel` passes a thread index to `ds_bpermute` where a lane is meant; the byte index
  wraps at 64 lanes, so it is right in every wave (`RowReductionsAreOracle`).

## 5. What is proved

All theorems hold for every value of the constants under the modules' named assumptions, which
TLC evaluates in each run:

| assumption | says |
|---|---|
| `WavesAssumption`, `BoundsAssumption` (LdsPipeline) | there is a wave; each half is staged by at least one issue; waits sink past plain barriers only |
| `InputAssumption` (KvTiling) | lengths and M-tiles are naturals, the row is one of 0..127 |
| `WordAssumption` (BlockWalk) | a word has an even, positive number of values; a row of a tensor is as wide as a head |
| `BoundsAssumption`, `NumbersAssumption` (OnlineSoftmax) | a row may have a tile; scores are integers, `ExpMin <= 0`, the masked score is no number |
| `RowsAssumption`, `ProblemsAssumption` (OutputMemory) | rows of an M-tile; what `parse_args` makes of options it accepts: lengths not negative, query heads a multiple of the KV heads, rows no narrower than their data, a packed launch as wide as its longest sequence; interleaved heads without LSE, as in the smoke tests |
| `GridAssumption` (FwdGrid) | a block can be resident; rows are as wide as the kernels were written for, or padded to it |
| `NaiveAssumption` (ForwardKernels) | the reference kernel gets such launches too, in blocks that are not empty, and all of its rows are followed |
| `ScopeAssumption` (TileLayout) | the rows followed are rows of a wave |
| `CaseAssumption` (LdsKernels), `RowAssumption` (ComponentKernels) | a case names one of the kernels, and lengths and offsets are naturals; threads are those of a block, a row is followed from its lane in the lower half; `SyncDrainsStores` is a Boolean |
| `HostAssumption` (HostRun) | one timed iteration at least |
| `VerifyAssumption` (HostPrograms) | there is a thread, chunks are not empty, a row has a dimension and its reference and kernel values are equally many; reference values are numbers, kernel values numbers, NaN or infinite; tolerances are not negative, `ref_floor` is positive |

**The pipeline** (`LdsPipelineProofs`), for any number of waves, tiles and issues per half.

* **`TypeCorrect`** (`[]TypeOK`). `TypeOK` bounds the byte bases and `k_col`, and
  is not inductive: the bound of `k_col` depends on where the wave is. `LoopControl` adds,
  for every label, the loop counter, the tile the byte bases point at and the half to be
  copied next; one step per action keeps it.
* **`BarriersNeverMix`** (`[]BarrierMatched`). Let
  `Arrivals(w)` be the number of barriers wave `w` has come to, a function of its label and
  loop counter, and `Released(w)` that number less one if it is waiting. The invariant `BarrierInv` is that
  `Released` is the same for all waves and that a waiting wave stands just behind a
  barrier. A wave that arrives changes neither, unless it is the last: then all waiting waves are
  released at once. A wave can end only after all its `5n - 1` barriers, so
  the release that discounts it changes nothing. Two waiting waves have the same count of arrivals, and
  the count determines label and tile.
* **`WritesNeverUnderReads`** (`[]NoWriteUnderRead`) and **`ReadsAlwaysSeeTheirOperand`**
  (`[]ReadsSeeTheirOperand`), under the hypothesis `ReadsDrainInTime`, that is
  `WaitsSinkPast \subseteq {"fence_half0"}`. The hypothesis is exactly what finding 1 is about: with a wait that
  sinks past `advance` the conclusion is false, and the run `lds_plain_barrier` shows it.
  The invariant `FlowInv` has three parts. `LocalInv` says for every label what can still be in the two queues
  of the wave and in which order; the fences are counts, and this is where a count becomes a
  named operation. `BufferInv` says that buffer `b` holds what has been *delivered* of the
  operand `Current(b, r)`, a function of the number `r` of barriers all waves have behind them (`BarrierInv`
  makes it one number). `FedInv` is the history. The heart is the lemma `HandOver`: at the barrier where the
  operand of a buffer changes, every wave has delivered all of the old one and nothing of the new, so the buffer is whole
  while it is read and the next operand starts from nothing. That no read is in flight into
  a buffer with writes in flight then follows from `LocalInv` of two waves with the same `Released`.
* **`FeedsLikeBlockDataflow`** (`Spec => Block!Safety`), under the same hypothesis: each step maps to a step of
  `BlockDataflow` or to a stutter. The operand fed is the next of the wave by `LocalInv`, and the drift is bounded
  because two waves between the same two barriers are at most two operands apart.

**One block** (`BlockWalkProofs`), for all lengths, M-tiles, rows, strides and widths of the word.

* **`RowAttendsExactly`**, **`TilingTypes`**. The lanes
  of a row cover the tile (`LanesCoverTile`), so a tile adds exactly its attendable keys, on the
  fast path or not (`TileKeys`); the loop reaches the last attendable key although the
  causal bound is rounded with a truncating division and clamped (`LoopReachesEveryKey`);
  `WalkInv` says the keys attended are those attendable below `kv_offset`.
* **`WalkNeverInVain`** (`[]NoTileInVain`), from the same invariant and the bounds of the loop: the last tile
  walked still has a key for the last row of the M-tile.
* **`ReadsAlwaysFindTheirRow`**, **`StoresAlwaysFindTheirRow`**. An offset that overflowed is not the offset of
  its row, but it is congruent to it modulo the word (`Cong`, kept by sums and products), and the
  hardware reads it as unsigned; so `PlacesInv` says that every read is at its place *modulo the word*.
  The running sum of `KVoffset` over the issues of a copy is a recursion; the proof gives its values as an explicit
  function and shows that this is the function the recursion defines. A row whose place is below the
  size of the word is then found exactly. A store lies below `num_records` if its row does, with or without
  the instruction's offset, and the clamp only drops the others.
* **`BlockWalksItsTiles`** (`WalkSpec => Spec`): the composed block is a walk of `KvTiling`, so the theorems above hold
  of it.

**The online softmax** (`OnlineSoftmaxProofs`): **`OnlineEqualsOffline`** (`[]RunningSoftmax`), **`LanesAgree`**,
**`ExponentsNeverPositive`**, **`LseCorrect`**, **`SoftmaxTypes`**, for all scores, tiles, registers and exponent
ranges. One invariant serves all five: both lanes hold the greatest of the seed and the
scores seen, and the sums are the weights of exactly the keys accounted for at
each statement. `ScaledWeights` is the heart of it: rescaling weights that already lost their
small terms gives the same as computing them from the new maximum, as an exponent
that was out of range only falls further.

**The layout of a tile** (`TileLayoutProofs`), for every row of every wave, with the constants of the code.

* **`MaskMeetsItsScore`** (`[]ScoresAreDotProducts`), **`OutputRowComplete`** (`[]OutputIsPTimesV`),
  **`BuffersContainTheirTiles`** (`[]StaysInItsBuffer`). Every index formula of the source is a number in mixed
  digits, of a lane, a register or an address, that another formula reads in another order. `KImageIs` and `VImageIs` give the element at each
  address of a staged buffer, by the digits of the two lanes or dwords that could have written it and the fact that no two do
  (an `Image` then holds what was written, `ImageAt`). A GEMM's fragment is a row of that image (`swz` exchanges the same two digits as the MFMA layout
  does), and the products of the two passes and two halves of an MFMA are those of eight consecutive columns. The invariant
  `TileInv` says after which GEMM the accumulators hold half and all of their products; the stores of the
  epilogue are then distinct columns, so each is stored once.

**The component kernels** (`ComponentKernelsProofs`), for all lengths, offsets, rows and threads, under every
interleaving of the four waves.

* **`ComponentInvariant`** is the invariant of the whole: `BlockInv` for the kernels in LDS, `RowInv` for those of a row.
  `BlockInv` says no wave stores before all have zeroed and none reads before all copies and stores have arrived, so every
  wave reads the same state (`AllArrived`) and the rest is arithmetic. The part of `BlockInv`, and with it the three theorems about LDS below
  (`DumpedLdsIsOracle`, `GemmRegistersAreOracle`, `ComponentsStageLikeFused`), has the hypothesis `SyncDrainsStores`; the
  two about rows do not. `HeldElement` and `UnheldElement` say what an
  element holds in that state: what waves stored in its dword, if they agree, and else zero.
* **`DumpedLdsIsOracle`** (`[]DumpIsOracle`), **`GemmRegistersAreOracle`** (`[]GemmIsOracle`). Places of K and V are
  injective in row and column and leave the padding alone (`KPlacesApart`, `KPadding`, `VDwordInjective`); a row past the end
  of the sequence is stored by nobody in K and as zero in V, and reads as zero either way. The products of a
  register that have a zero operand vanish, which leaves those of the keys and rows in the sequence.
* **`ComponentsStageLikeFused`** (`[]StagesLikeFusedKernel`) compares that with `KImage` and `VImage`, as `TileLayoutProofs` knows them.
* **`RowReductionsCorrect`** (`[]RowReductionsAreOracle`), **`EpilogCorrect`** (`[]EpilogIsOracle`).
  `ExchangeReadsOtherHalf` is the step both reductions take: a byte index made of a thread number wraps to the
  lane of the other half in every wave. `RowOwners` says that the threads an oracle takes for a row
  are those two. For the epilogue, `ColumnsAgree` shows that swizzling the first of four columns
  and counting on is swizzling each, and `RowColInjective` that no two registers of a row share a column.

**A launch** (`ForwardKernelsProofs`), for every accepted problem (dense or packed, either
layout, grouped heads, padded rows) and any number of resident blocks or threads.

* **`GridTypes`**, **`HeavyBlocksFirst`** (`[]TypeOK`, `[]HeavyFirst`).
  `TileCountMonotone`: the truncating divisions and the clamp keep the tile count
  monotone in the M-tile. `LaterIsLighter`: x varies fastest in the linear index, so a later block of the same
  batch has an equal or later y and, reversed, an equal or earlier M-tile; among blocks that are not past
  their sequence's end it has no more tiles. The invariant `DispatchInv` says a resident block
  was dispatched before `next_block`, and bounds it by the grid.
* **`StoresStayInTensors`** (`[]NoStrayStore`) and **`KernelsProduceAttention`** (`KernelsSpec => Output!Safety`).
  The offsets of packed sequences are a table of prefix sums: by induction a sequence's rows lie between its entry and the
  next. An address is then a number of two or three digits (token, head or head, token, and column), which lies inside the
  tensor and determines its digits (`TwoDigits`), so the cells of distinct rows are apart (`CellsApart`) and
  a store changes the row it is meant for and no other. `SoundMemory` says every row of memory is unset or
  holds the value attention prescribes, and that nothing stray was stored; `LoopInv` that a block walks all of its tiles
  before its epilogue, which makes the number of keys right; `ThreadInv` the same of the threads of the
  reference kernel, which store LSE only where it was asked for. `KernelsInv` is either.

**The host** (`HostProgramsProofs`).

* **`EveryTimeSpansOneKernel`**, **`KernelsKeepTheirBuffers`**, **`OnlyResultsAreVerified`**, for any numbers of warmups and
  iterations. A program that exits on a failed call is covered too: the kernels it leaves in the queue still have their
  initialised buffers. `HostInv` describes the queue by the statement the host is at: the memset is
  before any kernel, at most one start and one stop record are enqueued, and between them the one kernel that was
  launched; the value of an event that is not pending and the kernels still queued before the other make up its
  time. The first and the third assume `~LaunchMayFail`: after a launch that failed unnoticed there is no kernel
  between the records and no result to verify (section 4).
* **`VerdictAsIfSequential`** (`[]VerdictIsSequential`) and **`WorstWhereItSays`** (`[]WorstIsWhereItSays`), for
  any team, chunk size, shape and rows. `Summary(s, R)` says that statistics `s` are those of the rows `R`: every count is
  the cardinality of a set of elements, the maxima bound all of them and are attained. One more row
  keeps it (`RowAdded`, from an induction over the row's elements) and so does merging the statistics of disjoint sets
  (`MergedAdded`); fractions are compared by products, so that a chain of comparisons needs `FractionsChain`.
  The invariant `TeamInv` is that the rows can be shared out: each thread has rows it
  compared (`done`), of which its statistics are the summary, and rows it has still to compare (`left`), which `todo` lists
  once each; no row is with two threads, and the rows shared out are those of the pairs below `next`. The total is the
  summary of the rows of the threads that have merged. Since nobody merges before all have left the loop, the
  verdict is given on the summary of all rows.

**Only model-checked.** Every safety property of the passing runs is a theorem. What stays with TLC is liveness under
fairness, which the prover does not reach: `EveryWaveEnds` and the liveness parts of `ImplementsBlockDataflow`
and `ImplementsAttention` (their safety parts are `FeedsLikeBlockDataflow` and `KernelsProduceAttention`); and the absence of deadlock, which is a statement about `ENABLED`. The cosine of `CpuVerify` is a fold; the proofs need only that it is a function of
the row, and its value on given rows is only evaluated.

## 6. What is not modelled

* **Rounding**: sums in fp32, P and O truncated to bf16. The tests compare with tolerances;
  the models compare exactly and speak of exponents, terms or products only.
* **Speed**: `sched_barrier` hints are modelled only where they bound the delay of a wait;
  occupancy and bank conflicts are not.
* **Input data and printing**: `fill_random` and the `PROBE_*` switches choose contents of the inputs;
  `WORST_ROWS`, `PROBE_DUMP_ROWS` and the reports print. No control depends on them.
* **Other head dimensions**: the kernels are written for 64 columns; smaller ones are padded.
* **Undrained LDS stores in the component kernels**: the V stores are `ds_write2` in inline assembly
  (`v_lds.hpp:126-131`, `pv_gemm.hpp:196-202`), followed by `__syncthreads()` and no `s_waitcnt lgkmcnt`, and the compiler does not
  count what inline assembly issues. `SyncDrainsStores` says that the barrier waits for them all the same. The run sets it to TRUE and the
  theorems assume it; with FALSE TLC finds `DumpIsOracle` violated. Which of the two a build does is not in the source.
* **Interleaved tensors with LSE**: `[token][head]` launches that ask for LSE (section 4) are excluded by
  `ProblemsAssumption`; nobody makes such a launch.
* **The legacy staging functions of `op_lds.hpp`** that no kernel calls (`copy_k_to_lds_2x_guarded` and
  its like).
* **bf16 helpers and scripts**: conversions of one word; shell glue without state.

## 7. Plan

Done, in this order: `BlockDataflow`, `LdsPipeline`, `KvTiling`, `OnlineSoftmax`,
`TileLayout`; `FwdGrid` and `GpuRef` with `AttentionOutput`; `ByteOffsets` and `BlockWalk`; `HostRun`,
`CpuVerify` and `HostPrograms`; the component kernels. Proofs of every safety property of these, and of the safety
parts of the two refinements.

Worth doing next:

1. The component kernels for any number of waves; the four of the code are built into their index formulas.
