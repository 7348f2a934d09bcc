----------------------------- MODULE LaneLayout -----------------------------
(***************************************************************************)
(* The lane, register and byte arithmetic of the fused kernel's staging    *)
(* copies and of its MFMA operands, without state.                         *)
(***************************************************************************)
EXTENDS Integers

Halves == 0..1
Lanes  == 0..63
Warps  == 0..3

-----------------------------------------------------------------------------
(* Index arithmetic                                                        *)

\* Mutant of swz: no swizzle.
swzIdentity(x) == x

\* Swap bits 2 and 3 of x.
swz(x) == (x - (x % 16)) + (x % 4) + ((x \div 4) % 2) * 8 + ((x \div 8) % 2) * 4

buf_base_bytes(buf_idx) == buf_idx * 4608
kSmemBytes == 4608
kLdsBytes  == 13824

\* Element offsets by which the GEMMs find K and V in a buffer.
lds_elem_offset(j, d) ==
  (j % 4) * 136 + ((j \div 4) % 4) * 32 + (j \div 16) * 544 + (d % 32) + (d \div 32) * 2304

v_lds_elem_offset(n, d) ==
  LET k == n % 32 IN (k \div 8) * 576 + (d \div 8) * 72 + (d % 8) * 8 + (k % 8)

\* v_perm_b32: selectors 4..7 name bytes of the first source, 0..3 of the
\* second; sel lists them from the lowest byte of the result.
Perm(a, b, sel) == [n \in 0..3 |-> IF sel[n + 1] >= 4 THEN a[sel[n + 1] - 4] ELSE b[sel[n + 1]]]

\* Byte n of value x is the symbol <<x, n>>.
Bytes(x) == [n \in 0..3 |-> <<x, n>>]

-----------------------------------------------------------------------------
(* Staging: which byte of DRAM every byte of a staged buffer holds         *)

\* Mutant of KCopyBytes: the rows in the order of an earlier draft.
KCopyBytesDraft(warp, lane, issue) ==
  LET m0  == warp * 272 + issue * 1088
      row == warp * 4 + lane \div 16 + issue * 16
      col == (lane % 16) * 2
  IN  {<<m0 + lane * 4 + n, <<<<row, col + n \div 2>>, n % 2>>>> : n \in 0..3}

\* async_copy_k_subtile, one issue of one lane: a dword of the K half.
KCopyBytes(warp, lane, issue) ==
  LET m0  == warp * 272 + issue * 1088
      row == (lane \div 16) * 4 + warp + issue * 16
      col == (lane % 16) * 2
  IN  {<<m0 + lane * 4 + n, <<<<row, col + n \div 2>>, n % 2>>>> : n \in 0..3}

\* load_v_from_dram: the two rows k3 of a lane, each as two dwords.
VLoad(warp, lane, k3, dword) ==
  LET row == warp * 8 + (lane % 4) * 2 + k3
      col == (lane \div 4) * 4
  IN  [n \in 0..3 |-> <<<<row, col + dword * 2 + n \div 2>>, n % 2>>]

kPermSel0 == <<4, 5, 0, 1>>
kPermSel1 == <<6, 7, 2, 3>>

\* The offsets of ds_write2_b32 start at 128 dwords, so the base is lowered by
\* as much.  Mutant: it is not.
lds_offset_unadjusted == 0
lds_offset == 0 - 128 * 4

\* store_v_to_lds: four dwords, each of two rows of one column.
VStoreBytes(warp, lane) ==
  LET out  == [i \in 0..3 |-> Perm(VLoad(warp, lane, 0, i \div 2), VLoad(warp, lane, 1, i \div 2),
                                   IF i % 2 = 0 THEN kPermSel0 ELSE kPermSel1)]
      v86  == ((lane \div 8) % 8) * 144 + ((lane \div 4) % 2) * 64 + (lane % 4) * 4
      addr == warp * 1152 + v86 + lds_offset
      offset == <<128, 132, 136, 140>>
  IN  {<<addr + offset[i + 1] * 4 + n, out[i][n]>> : i \in 0..3, n \in 0..3}

\* A buffer as a function from its bytes, given the writes of all lanes.
Image(writes) ==
  [a \in {w[1] : w \in writes} |-> (CHOOSE w \in writes : w[1] = a)[2]]

KImage == Image(UNION {KCopyBytes(warp, lane, issue) : warp \in Warps, lane \in Lanes, issue \in 0..3})
VImage == Image(UNION {VStoreBytes(warp, lane) : warp \in Warps, lane \in Lanes})

\* The bf16 element at a byte address: its two bytes, if they belong together.
ElementAt(image, addr) ==
  LET lo == image[addr]  hi == image[addr + 1]
  IN  IF lo[1] = hi[1] /\ lo[2] = 0 /\ hi[2] = 1 THEN lo[1] ELSE <<"mixed", addr>>

-----------------------------------------------------------------------------
(* The MFMA 32x32x8: lane l supplies 4 elements of row l % 32 of A and of  *)
(* column l % 32 of B, and holds 16 elements of column l % 32 of C.        *)

Mfma(A, B, lane, r) ==
  LET i == 8 * (r \div 4) + 4 * (lane \div 32) + (r % 4)
      j == lane % 32
  IN  {<<B[j + 32 * h][e], A[i + 32 * h][e]>> : h \in Halves, e \in 0..3}

\* The bf16 pair that v_perm with selector 0x07060302 makes of two floats.
kBf16TruncSel == <<2, 3, 6, 7>>
PackTrunc(v0, v1) == Perm(Bytes(v1), Bytes(v0), kBf16TruncSel)

\* Float e of four that were packed in pairs: the high half of one float.
Unpacked(pair, e) ==
  LET d == pair[e \div 2]  lo == d[2 * (e % 2)]  hi == d[2 * (e % 2) + 1]
  IN  IF lo[1] = hi[1] /\ lo[2] = 2 /\ hi[2] = 3 THEN lo[1] ELSE <<"mixed", e>>
=============================================================================
