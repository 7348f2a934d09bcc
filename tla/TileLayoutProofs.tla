-------------------------- MODULE TileLayoutProofs --------------------------
(***************************************************************************)
(* Theorems about TileLayout, for every row of every wave: the index       *)
(* formulas of staging, GEMMs and epilogue agree.  First, where each       *)
(* element of K and V lies in LDS; then what the two GEMMs make of it;     *)
(* then the invariant of a tile; last, that nothing leaves its buffer.     *)
(***************************************************************************)
EXTENDS TileLayout, TLAPS

\* At an address that is written once, an image holds what was written.
LEMMA ImageAt ==
  ASSUME NEW writes, NEW a, NEW v, <<a, v>> \in writes,
         \A w \in writes : w[1] = a => w[2] = v
  PROVE  a \in DOMAIN Image(writes) /\ Image(writes)[a] = v
<1>1. \E w \in writes : w[1] = a
  <2>1. <<a, v>>[1] = a OBVIOUS
  <2> QED BY <2>1
<1>2. a \in {w[1] : w \in writes}
  BY <1>1
<1> DEFINE c == CHOOSE w \in writes : w[1] = a
<1>3. c \in writes /\ c[1] = a
  BY <1>1
<1>4. c[2] = v
  BY <1>3
<1> QED
  BY <1>2, <1>4 DEF Image

\* Bytes b of element (row, col) of a staged half of K.
KByte(row, col, b) == 2 * lds_elem_offset(row, col) + b

\* A write of a byte to its place.
IsKWrite(w) ==
  \E row \in 0..63, col \in 0..31, b \in 0..1 : w = <<KByte(row, col, b), <<<<row, col>>, b>>>>

\* Two bytes have the same place.
SameKByte(row1, col1, b1, row2, col2, b2) ==
  /\ row1 \in 0..63 /\ col1 \in 0..31 /\ b1 \in 0..1
  /\ row2 \in 0..63 /\ col2 \in 0..31 /\ b2 \in 0..1
  /\ KByte(row1, col1, b1) = KByte(row2, col2, b2)

\* All writes of a staging copy of K.
KWrites == UNION {KCopyBytes(warp, lane, issue) : warp \in Warps, lane \in Lanes, issue \in 0..3}

\* The digits of a row.
LEMMA RowDigits ==
  ASSUME NEW row \in 0..63
  PROVE  \E z \in 0..3, y \in 0..3, x \in 0..3 :
           /\ row = 16 * z + 4 * y + x
           /\ row % 4 = x /\ (row \div 4) % 4 = y /\ row \div 16 = z
OBVIOUS

\* The offset of an element of K, by the digits of its row.
LEMMA KOffset ==
  ASSUME NEW x \in 0..3, NEW y \in 0..3, NEW z \in 0..3, NEW col \in 0..31
  PROVE  lds_elem_offset(16 * z + 4 * y + x, col) = x * 136 + y * 32 + z * 544 + col
<1> DEFINE row == 16 * z + 4 * y + x
<1>1. row % 4 = x /\ (row \div 4) % 4 = y /\ row \div 16 = z
  OBVIOUS
<1>2. col % 32 = col /\ col \div 32 = 0
  OBVIOUS
<1>3. lds_elem_offset(row, col) = x * 136 + y * 32 + z * 544 + col + 0 * 2304
  BY <1>1, <1>2 DEF lds_elem_offset
<1> QED BY <1>3

\* No two bytes of a half of K have the same place.
LEMMA KByteInjective ==
  ASSUME NEW row1, NEW col1, NEW b1, NEW row2, NEW col2, NEW b2,
         SameKByte(row1, col1, b1, row2, col2, b2)
  PROVE  row1 = row2 /\ col1 = col2 /\ b1 = b2
<1>0. /\ row1 \in 0..63 /\ col1 \in 0..31 /\ b1 \in 0..1
      /\ row2 \in 0..63 /\ col2 \in 0..31 /\ b2 \in 0..1
      /\ KByte(row1, col1, b1) = KByte(row2, col2, b2)
  BY DEF SameKByte
<1>1. PICK z1 \in 0..3, y1 \in 0..3, x1 \in 0..3 : row1 = 16 * z1 + 4 * y1 + x1
  BY <1>0, RowDigits
<1>2. PICK z2 \in 0..3, y2 \in 0..3, x2 \in 0..3 : row2 = 16 * z2 + 4 * y2 + x2
  BY <1>0, RowDigits
<1>3. 2 * (x1 * 136 + y1 * 32 + z1 * 544 + col1) + b1
      = 2 * (x2 * 136 + y2 * 32 + z2 * 544 + col2) + b2
  <2>1. /\ lds_elem_offset(row1, col1) = x1 * 136 + y1 * 32 + z1 * 544 + col1
        /\ lds_elem_offset(row2, col2) = x2 * 136 + y2 * 32 + z2 * 544 + col2
    BY <1>0, <1>1, <1>2, KOffset
  <2> DEFINE o1 == x1 * 136 + y1 * 32 + z1 * 544 + col1
             o2 == x2 * 136 + y2 * 32 + z2 * 544 + col2
  <2>2. KByte(row1, col1, b1) = 2 * o1 + b1 /\ KByte(row2, col2, b2) = 2 * o2 + b2
    <3> HIDE DEF o1, o2
    <3> QED BY <2>1 DEF KByte, o1, o2
  <2> QED BY <1>0, <2>2
<1>4. z1 = z2
  BY <1>0, <1>3
<1>5. x1 = x2
  BY <1>0, <1>3, <1>4
<1>6. y1 = y2 /\ col1 = col2 /\ b1 = b2
  BY <1>0, <1>3, <1>4, <1>5
<1> QED BY <1>1, <1>2, <1>4, <1>5, <1>6

\* A lane of a staging copy of K copies two elements.
LEMMA KCopyIs ==
  ASSUME NEW w, NEW warp \in Warps, NEW lane \in Lanes, NEW issue \in 0..3,
         w \in KCopyBytes(warp, lane, issue)
  PROVE  IsKWrite(w)
<1>1. PICK n \in 0..3 : w = <<warp * 272 + issue * 1088 + lane * 4 + n,
                              <<<<(lane \div 16) * 4 + warp + issue * 16, (lane % 16) * 2 + n \div 2>>, n % 2>>>>
  BY DEF KCopyBytes
<1>2. PICK hi \in 0..3, lo \in 0..15 : lane = 16 * hi + lo /\ lane \div 16 = hi /\ lane % 16 = lo
  BY DEF Lanes
<1>3. PICK n1 \in 0..1, n0 \in 0..1 : n = 2 * n1 + n0 /\ n \div 2 = n1 /\ n % 2 = n0
  OBVIOUS
<1> DEFINE row == 16 * issue + 4 * hi + warp
           col == lo * 2 + n1
<1>4. row \in 0..63 /\ col \in 0..31 /\ warp \in 0..3
  <2>1. warp \in 0..3
    BY DEF Warps
  <2> QED BY <2>1
<1>5. KByte(row, col, n0) = warp * 272 + issue * 1088 + lane * 4 + n
  <2>1. lds_elem_offset(row, col) = warp * 136 + hi * 32 + issue * 544 + col
    BY <1>4, KOffset
  <2> QED BY <1>2, <1>3, <1>4, <2>1 DEF KByte
<1>6. hi * 4 + warp + issue * 16 = row
  BY <1>4
<1>7. w = <<KByte(row, col, n0), <<<<row, col>>, n0>>>>
  BY <1>1, <1>2, <1>3, <1>5, <1>6
<1> QED BY <1>4, <1>7 DEF IsKWrite

\* Every byte of every element is copied.
LEMMA KCopied ==
  ASSUME NEW row \in 0..63, NEW col \in 0..31, NEW b \in 0..1
  PROVE  <<KByte(row, col, b), <<<<row, col>>, b>>>> \in KWrites
<1>1. PICK z \in 0..3, y \in 0..3, x \in 0..3 : row = 16 * z + 4 * y + x
  BY RowDigits
<1>2. PICK lo \in 0..15, n1 \in 0..1 : col = 2 * lo + n1
  OBVIOUS
<1> DEFINE lane == 16 * y + lo
           n    == 2 * n1 + b
<1>3. lane \in Lanes /\ x \in Warps /\ n \in 0..3
  BY DEF Lanes, Warps
<1>4. lane \div 16 = y /\ lane % 16 = lo /\ n \div 2 = n1 /\ n % 2 = b
  OBVIOUS
<1>5. KByte(row, col, b) = x * 272 + z * 1088 + lane * 4 + n
  <2>1. lds_elem_offset(row, col) = x * 136 + y * 32 + z * 544 + col
    BY <1>1, KOffset
  <2>2. KByte(row, col, b) = 2 * (x * 136 + y * 32 + z * 544 + col) + b
    BY <2>1 DEF KByte
  <2>3. col = 2 * lo + n1
    BY <1>2
  <2> QED BY <2>2, <2>3
<1>6. row = y * 4 + x + z * 16 /\ col = lo * 2 + n1
  BY <1>1, <1>2
<1> HIDE DEF lane, n
<1>7. <<KByte(row, col, b), <<<<row, col>>, b>>>>
      = <<x * 272 + z * 1088 + lane * 4 + n,
          <<<<(lane \div 16) * 4 + x + z * 16, (lane % 16) * 2 + n \div 2>>, n % 2>>>>
  BY <1>4, <1>5, <1>6
<1>8. <<KByte(row, col, b), <<<<row, col>>, b>>>> \in KCopyBytes(x, lane, z)
  BY <1>3, <1>7 DEF KCopyBytes
<1> QED BY <1>3, <1>8 DEF KWrites

\* A staged half of K holds every element where the GEMM looks for it.
LEMMA KElement ==
  ASSUME NEW row \in 0..63, NEW col \in 0..31
  PROVE  ElementAt(KImage, lds_elem_offset(row, col) * 2) = <<row, col>>
<1>1. ASSUME NEW b \in 0..1
      PROVE  KImage[KByte(row, col, b)] = <<<<row, col>>, b>>
  <2> DEFINE a == KByte(row, col, b)
             v == <<<<row, col>>, b>>
  <2>1. <<a, v>> \in KWrites
    BY KCopied
  <2>2. ASSUME NEW w \in KWrites, w[1] = a
        PROVE  w[2] = v
    <3>1. PICK row2 \in 0..63, col2 \in 0..31, b2 \in 0..1 :
             w = <<KByte(row2, col2, b2), <<<<row2, col2>>, b2>>>>
      <4>1. PICK warp \in Warps, lane \in Lanes, issue \in 0..3 : w \in KCopyBytes(warp, lane, issue)
        BY DEF KWrites
      <4>2. IsKWrite(w)
        BY <4>1, KCopyIs
      <4> QED BY <4>2 DEF IsKWrite
    <3>2. KByte(row2, col2, b2) = KByte(row, col, b)
      BY <2>2, <3>1
    <3>3. row2 = row /\ col2 = col /\ b2 = b
      <4>1. SameKByte(row2, col2, b2, row, col, b)
        BY <3>2 DEF SameKByte
      <4> QED BY <4>1, KByteInjective
    <3> QED BY <3>1, <3>3
  <2> HIDE DEF a, v
  <2>3. Image(KWrites)[a] = v
    BY <2>1, <2>2, ImageAt
  <2>4. KImage = Image(KWrites)
    BY DEF KImage, KWrites
  <2> QED BY <2>3, <2>4 DEF a, v
<1>2. PICK z \in 0..3, y \in 0..3, x \in 0..3 : row = 16 * z + 4 * y + x
  BY RowDigits
<1>3. lds_elem_offset(row, col) \in Int
  BY <1>2, KOffset
<1>4. /\ KByte(row, col, 0) = lds_elem_offset(row, col) * 2
      /\ KByte(row, col, 1) = lds_elem_offset(row, col) * 2 + 1
  BY <1>3 DEF KByte
<1>5. /\ KImage[lds_elem_offset(row, col) * 2] = <<<<row, col>>, 0>>
      /\ KImage[lds_elem_offset(row, col) * 2 + 1] = <<<<row, col>>, 1>>
  BY <1>1, <1>4
<1> QED BY <1>5 DEF ElementAt

-----------------------------------------------------------------------------

\* Bytes b of element (row, col) of a staged half of V.
VByte(row, col, b) == 2 * v_lds_elem_offset(row, col) + b

\* A write of a byte to its place.
IsVWrite(w) ==
  \E row \in 0..31, col \in 0..63, b \in 0..1 : w = <<VByte(row, col, b), <<<<row, col>>, b>>>>

\* Two bytes have the same place.
SameVByte(row1, col1, b1, row2, col2, b2) ==
  /\ row1 \in 0..31 /\ col1 \in 0..63 /\ b1 \in 0..1
  /\ row2 \in 0..31 /\ col2 \in 0..63 /\ b2 \in 0..1
  /\ VByte(row1, col1, b1) = VByte(row2, col2, b2)

\* All writes of a staging copy of V.
VWrites == UNION {VStoreBytes(warp, lane) : warp \in Warps, lane \in Lanes}

\* The offset of an element of V, by the digits of its row and column.
LEMMA VOffset ==
  ASSUME NEW x \in 0..3, NEW k \in 0..7, NEW y \in 0..7, NEW z \in 0..7
  PROVE  v_lds_elem_offset(8 * x + k, 8 * y + z) = x * 576 + y * 72 + z * 8 + k
<1> DEFINE row == 8 * x + k
           col == 8 * y + z
<1>1. row % 32 = row /\ row \div 8 = x /\ row % 8 = k /\ col \div 8 = y /\ col % 8 = z
  OBVIOUS
<1>2. v_lds_elem_offset(row, col) = x * 576 + y * 72 + z * 8 + k
  BY <1>1 DEF v_lds_elem_offset
<1> QED BY <1>2

\* The digits of a row and of a column.
LEMMA VDigits ==
  /\ \A row \in 0..31 : \E x \in 0..3, k \in 0..7 : row = 8 * x + k
  /\ \A col \in 0..63 : \E y \in 0..7, z \in 0..7 : col = 8 * y + z
OBVIOUS

\* No two bytes of a half of V have the same place.
LEMMA VByteInjective ==
  ASSUME NEW row1, NEW col1, NEW b1, NEW row2, NEW col2, NEW b2,
         SameVByte(row1, col1, b1, row2, col2, b2)
  PROVE  row1 = row2 /\ col1 = col2 /\ b1 = b2
<1>0. /\ row1 \in 0..31 /\ col1 \in 0..63 /\ b1 \in 0..1
      /\ row2 \in 0..31 /\ col2 \in 0..63 /\ b2 \in 0..1
      /\ VByte(row1, col1, b1) = VByte(row2, col2, b2)
  BY DEF SameVByte
<1>1. PICK x1 \in 0..3, k1 \in 0..7, y1 \in 0..7, z1 \in 0..7 :
        row1 = 8 * x1 + k1 /\ col1 = 8 * y1 + z1
  BY <1>0, VDigits
<1>2. PICK x2 \in 0..3, k2 \in 0..7, y2 \in 0..7, z2 \in 0..7 :
        row2 = 8 * x2 + k2 /\ col2 = 8 * y2 + z2
  BY <1>0, VDigits
<1>3. 2 * (x1 * 576 + y1 * 72 + z1 * 8 + k1) + b1
      = 2 * (x2 * 576 + y2 * 72 + z2 * 8 + k2) + b2
  <2>1. /\ v_lds_elem_offset(row1, col1) = x1 * 576 + y1 * 72 + z1 * 8 + k1
        /\ v_lds_elem_offset(row2, col2) = x2 * 576 + y2 * 72 + z2 * 8 + k2
    BY <1>1, <1>2, VOffset
  <2> QED BY <1>0, <2>1 DEF VByte
<1>4. x1 = x2
  BY <1>0, <1>3
<1>5. y1 = y2
  BY <1>0, <1>3, <1>4
<1>6. z1 = z2
  BY <1>0, <1>3, <1>4, <1>5
<1>7. k1 = k2 /\ b1 = b2
  BY <1>0, <1>3, <1>4, <1>5, <1>6
<1> QED BY <1>1, <1>2, <1>4, <1>5, <1>6, <1>7

\* The selectors of the transposition take two bytes of either source: the low
\* ones for an even column, the high ones for an odd one.
LEMMA PermPicks ==
  ASSUME NEW a, NEW b, NEW i0 \in 0..1, NEW sel, sel = IF i0 = 0 THEN kPermSel0 ELSE kPermSel1,
         NEW n1 \in 0..1, NEW n0 \in 0..1
  PROVE  Perm(a, b, sel)[2 * n1 + n0] = IF n1 = 0 THEN a[2 * i0 + n0] ELSE b[2 * i0 + n0]
<1> DEFINE n == 2 * n1 + n0
<1>1. sel[n + 1] = IF n1 = 0 THEN 4 + 2 * i0 + n0 ELSE 2 * i0 + n0
  <2>1. CASE i0 = 0
    <3>1. sel = <<4, 5, 0, 1>>
      BY <2>1 DEF kPermSel0
    <3>2. CASE n1 = 0 /\ n0 = 0
      BY <2>1, <3>1, <3>2
    <3>3. CASE n1 = 0 /\ n0 = 1
      BY <2>1, <3>1, <3>3
    <3>4. CASE n1 = 1 /\ n0 = 0
      BY <2>1, <3>1, <3>4
    <3>5. CASE n1 = 1 /\ n0 = 1
      BY <2>1, <3>1, <3>5
    <3> QED BY <3>2, <3>3, <3>4, <3>5
  <2>2. CASE i0 = 1
    <3>1. sel = <<6, 7, 2, 3>>
      BY <2>2 DEF kPermSel1
    <3>2. CASE n1 = 0 /\ n0 = 0
      BY <2>2, <3>1, <3>2
    <3>3. CASE n1 = 0 /\ n0 = 1
      BY <2>2, <3>1, <3>3
    <3>4. CASE n1 = 1 /\ n0 = 0
      BY <2>2, <3>1, <3>4
    <3>5. CASE n1 = 1 /\ n0 = 1
      BY <2>2, <3>1, <3>5
    <3> QED BY <3>2, <3>3, <3>4, <3>5
  <2> QED BY <2>1, <2>2
<1>2. Perm(a, b, sel)[n] = IF n1 = 0 THEN a[2 * i0 + n0] ELSE b[2 * i0 + n0]
  <2>1. n \in 0..3
    OBVIOUS
  <2>2. Perm(a, b, sel)[n] = IF sel[n + 1] >= 4 THEN a[sel[n + 1] - 4] ELSE b[sel[n + 1]]
    <3> HIDE DEF n
    <3> QED BY <2>1 DEF Perm
  <2> HIDE DEF n
  <2> QED BY <1>1, <2>2
<1> QED BY <1>2

\* What v_perm makes of the four dwords a lane loaded: byte n of dword i is a
\* byte of column i, of the lane's first row for the low half and its second
\* row for the high half.
LEMMA VTransposed ==
  ASSUME NEW warp \in Warps, NEW lane \in Lanes, NEW i \in 0..3, NEW n1 \in 0..1, NEW n0 \in 0..1
  PROVE  Perm(VLoad(warp, lane, 0, i \div 2), VLoad(warp, lane, 1, i \div 2),
              IF i % 2 = 0 THEN kPermSel0 ELSE kPermSel1)[2 * n1 + n0]
         = <<<<warp * 8 + (lane % 4) * 2 + n1, (lane \div 4) * 4 + i>>, n0>>
<1>1. PICK i1 \in 0..1, i0 \in 0..1 : i = 2 * i1 + i0 /\ i \div 2 = i1 /\ i % 2 = i0
  OBVIOUS
<1> DEFINE sel == IF i % 2 = 0 THEN kPermSel0 ELSE kPermSel1
           a   == VLoad(warp, lane, 0, i1)
           b   == VLoad(warp, lane, 1, i1)
           n   == 2 * n1 + n0
<1>2. sel = IF i0 = 0 THEN kPermSel0 ELSE kPermSel1
  BY <1>1
<1> HIDE DEF sel, a, b
<1>3. Perm(a, b, sel)[n] = IF n1 = 0 THEN a[2 * i0 + n0] ELSE b[2 * i0 + n0]
  BY <1>2, PermPicks
<1> USE DEF a, b
<1>4. ASSUME NEW k3 \in 0..1
      PROVE  VLoad(warp, lane, k3, i1)[2 * i0 + n0]
             = <<<<warp * 8 + (lane % 4) * 2 + k3, (lane \div 4) * 4 + i>>, n0>>
  <2> DEFINE m   == 2 * i0 + n0
             row == warp * 8 + (lane % 4) * 2 + k3
             col == (lane \div 4) * 4
  <2>1. m \in 0..3 /\ m \div 2 = i0 /\ m % 2 = n0
    OBVIOUS
  <2>2. col \in Int
    BY DEF Lanes
  <2> HIDE DEF m, row, col
  <2>3. VLoad(warp, lane, k3, i1)[m] = <<<<row, col + i1 * 2 + m \div 2>>, m % 2>>
    BY <2>1 DEF VLoad, row, col
  <2>4. col + i1 * 2 + i0 = col + i
    BY <1>1, <2>2
  <2>5. VLoad(warp, lane, k3, i1)[m] = <<<<row, col + i>>, n0>>
    BY <2>1, <2>3, <2>4
  <2> QED BY <2>5 DEF m, row, col
<1>5. Perm(a, b, sel)[n] = <<<<warp * 8 + (lane % 4) * 2 + n1, (lane \div 4) * 4 + i>>, n0>>
  <2>1. CASE n1 = 0
    BY <1>3, <1>4, <2>1
  <2>2. CASE n1 = 1
    BY <1>3, <1>4, <2>2
  <2> QED BY <2>1, <2>2
<1> QED BY <1>1, <1>5 DEF sel

\* The bytes a lane stores of V, and where.
LEMMA VStoreByte ==
  ASSUME NEW warp \in Warps, NEW lane \in Lanes
  PROVE  VStoreBytes(warp, lane) =
           {<<VByte(warp * 8 + (lane % 4) * 2 + x[2], (lane \div 4) * 4 + x[1], x[3]),
              <<<<warp * 8 + (lane % 4) * 2 + x[2], (lane \div 4) * 4 + x[1]>>, x[3]>>>> :
                x \in (0..3) \X (0..1) \X (0..1)}
<1> DEFINE out  == [i \in 0..3 |-> Perm(VLoad(warp, lane, 0, i \div 2), VLoad(warp, lane, 1, i \div 2),
                                        IF i % 2 = 0 THEN kPermSel0 ELSE kPermSel1)]
           addr == warp * 1152 + (((lane \div 8) % 8) * 144 + ((lane \div 4) % 2) * 64 + (lane % 4) * 4)
                   + lds_offset
           offset == <<128, 132, 136, 140>>
           Row(n1) == warp * 8 + (lane % 4) * 2 + n1
           Col(i)  == (lane \div 4) * 4 + i
           W(i, n1, n0) == <<VByte(Row(n1), Col(i), n0), <<<<Row(n1), Col(i)>>, n0>>>>
<1>1. VStoreBytes(warp, lane) = {<<addr + offset[i + 1] * 4 + n, out[i][n]>> : i \in 0..3, n \in 0..3}
  BY DEF VStoreBytes
<1>2. ASSUME NEW i \in 0..3, NEW n1 \in 0..1, NEW n0 \in 0..1
      PROVE  out[i][2 * n1 + n0] = <<<<Row(n1), Col(i)>>, n0>>
  BY VTransposed
<1>3. ASSUME NEW i \in 0..3, NEW n1 \in 0..1, NEW n0 \in 0..1
      PROVE  addr + offset[i + 1] * 4 + (2 * n1 + n0) = VByte(Row(n1), Col(i), n0)
  <2>1. PICK p \in 0..7, q \in 0..1, k \in 0..3 : lane = 8 * p + 4 * q + k
    BY DEF Lanes
  <2>2. /\ lane \div 8 = p /\ p % 8 = p /\ lane \div 4 = 2 * p + q /\ (2 * p + q) % 2 = q /\ lane % 4 = k
    BY <2>1
  <2>3. offset[i + 1] = 128 + 4 * i
    <3>1. i = 0 \/ i = 1 \/ i = 2 \/ i = 3
      OBVIOUS
    <3> QED BY <3>1
  <2>4. addr = warp * 1152 + (p * 144 + q * 64 + k * 4) - 512
    BY <2>2 DEF lds_offset, Warps
  <2>5. v_lds_elem_offset(Row(n1), Col(i)) = warp * 576 + p * 72 + (4 * q + i) * 8 + (2 * k + n1)
    <3> DEFINE kk == 2 * k + n1
               z  == 4 * q + i
    <3>1. warp \in 0..3 /\ kk \in 0..7 /\ z \in 0..7
      BY DEF Warps
    <3>2. Row(n1) = 8 * warp + kk /\ Col(i) = 8 * p + z
      BY <2>2, <3>1
    <3> HIDE DEF Row, Col, kk, z
    <3>3. v_lds_elem_offset(8 * warp + kk, 8 * p + z) = warp * 576 + p * 72 + z * 8 + kk
      BY <3>1, VOffset
    <3> QED BY <3>2, <3>3 DEF kk, z
  <2> HIDE DEF addr, offset, Row, Col
  <2> QED BY <2>3, <2>4, <2>5 DEF VByte, Warps
<1> HIDE DEF out, addr, offset, Row, Col
<1>4. ASSUME NEW i \in 0..3, NEW n1 \in 0..1, NEW n0 \in 0..1
      PROVE  <<addr + offset[i + 1] * 4 + (2 * n1 + n0), out[i][2 * n1 + n0]>> = W(i, n1, n0)
  BY <1>2, <1>3
<1>5. \A n \in 0..3 : \E n1 \in 0..1, n0 \in 0..1 : n = 2 * n1 + n0
  OBVIOUS
<1>6. \A n1 \in 0..1, n0 \in 0..1 : 2 * n1 + n0 \in 0..3
  OBVIOUS
<1> DEFINE V(i, n) == <<addr + offset[i + 1] * 4 + n, out[i][n]>>
<1>7. ASSUME NEW i \in 0..3, NEW n1 \in 0..1, NEW n0 \in 0..1 PROVE V(i, 2 * n1 + n0) = W(i, n1, n0)
  BY <1>4
<1>8. VStoreBytes(warp, lane) = {V(i, n) : i \in 0..3, n \in 0..3}
  BY <1>1
<1> HIDE DEF V, W
<1>9. {V(i, n) : i \in 0..3, n \in 0..3} = {W(x[1], x[2], x[3]) : x \in (0..3) \X (0..1) \X (0..1)}
  <2>1. ASSUME NEW v \in {V(i, n) : i \in 0..3, n \in 0..3}
        PROVE  v \in {W(x[1], x[2], x[3]) : x \in (0..3) \X (0..1) \X (0..1)}
    <3>1. PICK i \in 0..3, n \in 0..3 : v = V(i, n)
      OBVIOUS
    <3>2. PICK n1 \in 0..1, n0 \in 0..1 : n = 2 * n1 + n0
      BY <1>5
    <3>3. v = W(i, n1, n0)
      BY <1>7, <3>1, <3>2
    <3> DEFINE x == <<i, n1, n0>>
    <3>4. x \in (0..3) \X (0..1) \X (0..1) /\ x[1] = i /\ x[2] = n1 /\ x[3] = n0
      OBVIOUS
    <3> HIDE DEF x
    <3> QED BY <3>3, <3>4
  <2>2. ASSUME NEW x \in (0..3) \X (0..1) \X (0..1)
        PROVE  W(x[1], x[2], x[3]) \in {V(i, n) : i \in 0..3, n \in 0..3}
    <3>1. x[1] \in 0..3 /\ x[2] \in 0..1 /\ x[3] \in 0..1
      OBVIOUS
    <3>2. V(x[1], 2 * x[2] + x[3]) = W(x[1], x[2], x[3])
      BY <1>7, <3>1
    <3>3. 2 * x[2] + x[3] \in 0..3
      BY <1>6, <3>1
    <3> HIDE DEF V
    <3> QED BY <3>1, <3>2, <3>3
  <2> QED BY <2>1, <2>2
<1> QED BY <1>8, <1>9 DEF W, Row, Col

\* Every write of a lane is that of a byte to its place.
LEMMA VStoreIs ==
  ASSUME NEW w, NEW warp \in Warps, NEW lane \in Lanes, w \in VStoreBytes(warp, lane)
  PROVE  IsVWrite(w)
<1>1. PICK x \in (0..3) \X (0..1) \X (0..1) :
        w = <<VByte(warp * 8 + (lane % 4) * 2 + x[2], (lane \div 4) * 4 + x[1], x[3]),
              <<<<warp * 8 + (lane % 4) * 2 + x[2], (lane \div 4) * 4 + x[1]>>, x[3]>>>>
  BY VStoreByte
<1>2. PICK c \in 0..15, k \in 0..3 : lane = 4 * c + k /\ lane \div 4 = c /\ lane % 4 = k
  BY DEF Lanes
<1>3. x[1] \in 0..3 /\ x[2] \in 0..1 /\ x[3] \in 0..1
  OBVIOUS
<1> DEFINE row == warp * 8 + (lane % 4) * 2 + x[2]
           col == (lane \div 4) * 4 + x[1]
<1>4. row \in 0..31 /\ col \in 0..63
  BY <1>2, <1>3 DEF Warps
<1> HIDE DEF row, col
<1>5. w = <<VByte(row, col, x[3]), <<<<row, col>>, x[3]>>>>
  BY <1>1 DEF row, col
<1> QED BY <1>3, <1>4, <1>5 DEF IsVWrite

\* Every byte of every element is stored.
LEMMA VStored ==
  ASSUME NEW row \in 0..31, NEW col \in 0..63, NEW b \in 0..1
  PROVE  <<VByte(row, col, b), <<<<row, col>>, b>>>> \in VWrites
<1>1. PICK warp \in 0..3, k \in 0..3, n1 \in 0..1 : row = 8 * warp + 2 * k + n1
  OBVIOUS
<1>2. PICK c \in 0..15, i \in 0..3 : col = 4 * c + i
  OBVIOUS
<1> DEFINE lane == 4 * c + k
           x    == <<i, n1, b>>
<1>3. lane \in Lanes /\ warp \in Warps
  BY DEF Lanes, Warps
<1>4. lane \div 4 = c /\ lane % 4 = k
  OBVIOUS
<1>5. x \in (0..3) \X (0..1) \X (0..1) /\ x[1] = i /\ x[2] = n1 /\ x[3] = b
  OBVIOUS
<1>6. row = warp * 8 + k * 2 + n1 /\ col = c * 4 + i
  BY <1>1, <1>2
<1> HIDE DEF lane, x
<1>7. row = warp * 8 + (lane % 4) * 2 + x[2] /\ col = (lane \div 4) * 4 + x[1] /\ b = x[3]
  BY <1>4, <1>5, <1>6
<1>8. <<VByte(row, col, b), <<<<row, col>>, b>>>> \in VStoreBytes(warp, lane)
  BY <1>3, <1>5, <1>7, VStoreByte
<1> QED BY <1>3, <1>8 DEF VWrites

\* A staged half of V holds every element where the GEMM looks for it.
LEMMA VElement ==
  ASSUME NEW row \in 0..31, NEW col \in 0..63
  PROVE  ElementAt(VImage, v_lds_elem_offset(row, col) * 2) = <<row, col>>
<1>1. ASSUME NEW b \in 0..1
      PROVE  VImage[VByte(row, col, b)] = <<<<row, col>>, b>>
  <2> DEFINE a == VByte(row, col, b)
             v == <<<<row, col>>, b>>
  <2>1. <<a, v>> \in VWrites
    BY VStored
  <2>2. ASSUME NEW w \in VWrites, w[1] = a
        PROVE  w[2] = v
    <3>1. PICK row2 \in 0..31, col2 \in 0..63, b2 \in 0..1 :
             w = <<VByte(row2, col2, b2), <<<<row2, col2>>, b2>>>>
      <4>1. PICK warp \in Warps, lane \in Lanes : w \in VStoreBytes(warp, lane)
        BY DEF VWrites
      <4>2. IsVWrite(w)
        BY <4>1, VStoreIs
      <4> QED BY <4>2 DEF IsVWrite
    <3>2. VByte(row2, col2, b2) = VByte(row, col, b)
      BY <2>2, <3>1
    <3>3. row2 = row /\ col2 = col /\ b2 = b
      <4>1. SameVByte(row2, col2, b2, row, col, b)
        BY <3>2 DEF SameVByte
      <4> QED BY <4>1, VByteInjective
    <3> QED BY <3>1, <3>3
  <2> HIDE DEF a, v
  <2>3. Image(VWrites)[a] = v
    BY <2>1, <2>2, ImageAt
  <2>4. VImage = Image(VWrites)
    BY DEF VImage, VWrites
  <2> QED BY <2>3, <2>4 DEF a, v
<1>2. v_lds_elem_offset(row, col) \in Int
  <2>1. PICK x \in 0..3, k \in 0..7, y \in 0..7, z \in 0..7 : row = 8 * x + k /\ col = 8 * y + z
    BY VDigits
  <2> QED BY <2>1, VOffset
<1>4. /\ VByte(row, col, 0) = v_lds_elem_offset(row, col) * 2
      /\ VByte(row, col, 1) = v_lds_elem_offset(row, col) * 2 + 1
  BY <1>2 DEF VByte
<1>5. /\ VImage[v_lds_elem_offset(row, col) * 2] = <<<<row, col>>, 0>>
      /\ VImage[v_lds_elem_offset(row, col) * 2 + 1] = <<<<row, col>>, 1>>
  BY <1>1, <1>4
<1> QED BY <1>5 DEF ElementAt

\* The element that begins at byte a of a staged half of K.
IsKElement(a, row, col) ==
  /\ row \in 0..63 /\ col \in 0..31
  /\ lds_elem_offset(row, col) \in Nat /\ a = 2 * lds_elem_offset(row, col)
  /\ ElementAt(KImage, a) = <<row, col>>

\* Every even byte that is staged begins an element.
LEMMA KImageIs ==
  ASSUME NEW a \in DOMAIN KImage, a % 2 = 0
  PROVE  \E row \in 0..63, col \in 0..31 : IsKElement(a, row, col)
<1>1. DOMAIN KImage = {w[1] : w \in KWrites}
  BY DEF KImage, KWrites, Image
<1>2. PICK w \in KWrites : a = w[1]
  BY <1>1
<1>3. PICK row \in 0..63, col \in 0..31, b \in 0..1 : w = <<KByte(row, col, b), <<<<row, col>>, b>>>>
  <2>1. PICK warp \in Warps, lane \in Lanes, issue \in 0..3 : w \in KCopyBytes(warp, lane, issue)
    BY DEF KWrites
  <2>2. IsKWrite(w)
    BY <2>1, KCopyIs
  <2> QED BY <2>2 DEF IsKWrite
<1> DEFINE o == lds_elem_offset(row, col)
<1>4. o \in Nat
  <2>1. PICK z \in 0..3, y \in 0..3, x \in 0..3 : row = 16 * z + 4 * y + x
    BY RowDigits
  <2>2. lds_elem_offset(row, col) = x * 136 + y * 32 + z * 544 + col
    BY <2>1, KOffset
  <2> QED BY <2>2
<1>5. a = 2 * o + b
  BY <1>2, <1>3 DEF KByte
<1>6. ElementAt(KImage, o * 2) = <<row, col>>
  BY KElement
<1> HIDE DEF o
<1>7. a = 2 * o /\ a = o * 2
  BY <1>4, <1>5
<1>8. IsKElement(a, row, col)
  BY <1>4, <1>6, <1>7 DEF IsKElement, o
<1> QED BY <1>8

\* The element that begins at byte a of a staged half of V.
IsVElement(a, row, col) ==
  /\ row \in 0..31 /\ col \in 0..63
  /\ v_lds_elem_offset(row, col) \in Nat /\ a = 2 * v_lds_elem_offset(row, col)
  /\ ElementAt(VImage, a) = <<row, col>>

\* Every even byte that is staged begins an element.
LEMMA VImageIs ==
  ASSUME NEW a \in DOMAIN VImage, a % 2 = 0
  PROVE  \E row \in 0..31, col \in 0..63 : IsVElement(a, row, col)
<1>1. DOMAIN VImage = {w[1] : w \in VWrites}
  BY DEF VImage, VWrites, Image
<1>2. PICK w \in VWrites : a = w[1]
  BY <1>1
<1>3. PICK row \in 0..31, col \in 0..63, b \in 0..1 : w = <<VByte(row, col, b), <<<<row, col>>, b>>>>
  <2>1. PICK warp \in Warps, lane \in Lanes : w \in VStoreBytes(warp, lane)
    BY DEF VWrites
  <2>2. IsVWrite(w)
    BY <2>1, VStoreIs
  <2> QED BY <2>2 DEF IsVWrite
<1> DEFINE o == v_lds_elem_offset(row, col)
<1>4. o \in Nat
  <2>1. PICK x \in 0..3, k \in 0..7, y \in 0..7, z \in 0..7 : row = 8 * x + k /\ col = 8 * y + z
    BY VDigits
  <2>2. v_lds_elem_offset(row, col) = x * 576 + y * 72 + z * 8 + k
    BY <2>1, VOffset
  <2> QED BY <2>2
<1>5. a = 2 * o + b
  BY <1>2, <1>3 DEF VByte
<1>6. ElementAt(VImage, o * 2) = <<row, col>>
  BY VElement
<1> HIDE DEF o
<1>7. a = 2 * o /\ a = o * 2
  BY <1>4, <1>5
<1>8. IsVElement(a, row, col)
  BY <1>4, <1>6, <1>7 DEF IsVElement, o
<1> QED BY <1>8

-----------------------------------------------------------------------------
(* The two GEMMs                                                           *)

\* The row of A, and so of C, that an MFMA computes in register r of a lane.
FreeRow(lane, r) == 8 * (r \div 4) + 4 * (lane \div 32) + (r % 4)

\* The digits of a lane and of a register, and their row.
LEMMA MfmaDigits ==
  ASSUME NEW lane \in Lanes, NEW r \in 0..15
  PROVE  /\ lane \div 32 \in 0..1 /\ lane % 32 \in 0..31
         /\ FreeRow(lane, r) \in 0..31
         /\ swz(FreeRow(lane, r)) = (r \div 8) * 16 + (lane \div 32) * 8 + (r % 8)
<1>1. PICK half \in 0..1, j \in 0..31 : lane = 32 * half + j /\ lane \div 32 = half /\ lane % 32 = j
  BY DEF Lanes
<1>2. PICK a \in 0..1, b \in 0..1, c \in 0..3 : r = 8 * a + 4 * b + c
  OBVIOUS
<1>3. r \div 4 = 2 * a + b /\ r % 4 = c /\ r \div 8 = a /\ r % 8 = 4 * b + c
  BY <1>2
<1> DEFINE x == 16 * a + 8 * b + 4 * half + c
<1>4. FreeRow(lane, r) = x
  BY <1>1, <1>3 DEF FreeRow
<1>5. x \in 0..31 /\ x % 16 = 8 * b + 4 * half + c /\ x % 4 = c /\ x \div 4 = 4 * a + 2 * b + half /\ x \div 8 = 2 * a + b
  OBVIOUS
<1>6. (4 * a + 2 * b + half) % 2 = half /\ (2 * a + b) % 2 = b
  OBVIOUS
<1>7. swz(x) = (x - (8 * b + 4 * half + c)) + c + half * 8 + b * 4
  BY <1>5, <1>6 DEF swz
<1>8. swz(x) = 16 * a + 8 * half + 4 * b + c
  BY <1>7
<1> HIDE DEF x
<1> QED BY <1>1, <1>3, <1>4, <1>5, <1>8

\* The lanes whose operands an MFMA multiplies.
LEMMA MfmaLane ==
  ASSUME NEW i \in 0..31, NEW h \in 0..1
  PROVE  i + 32 * h \in Lanes /\ (i + 32 * h) % 32 = i /\ (i + 32 * h) \div 32 = h
BY DEF Lanes

\* The two MFMAs of both steps of a subtile go through all of a half: digits.
LEMMA SubtileDigits ==
  ASSUME NEW sub \in 0..1
  PROVE  /\ \A kstep \in 0..1, pass \in 0..1, h \in 0..1, e \in 0..3 :
              kstep * 16 + h * 8 + 4 * pass + e + 32 * sub \in (32 * sub)..(32 * sub + 31)
         /\ \A hd \in (32 * sub)..(32 * sub + 31) :
              \E kstep \in 0..1, pass \in 0..1, h \in 0..1, e \in 0..3 :
                hd = kstep * 16 + h * 8 + 4 * pass + e + 32 * sub
<1>1. ASSUME NEW hd \in (32 * sub)..(32 * sub + 31)
      PROVE  \E kstep \in 0..1, pass \in 0..1, h \in 0..1, e \in 0..3 :
                hd = kstep * 16 + h * 8 + 4 * pass + e + 32 * sub
  <2>1. hd - 32 * sub \in 0..31
    OBVIOUS
  <2>2. \A y \in 0..31 : \E kstep \in 0..1, h \in 0..1, pass \in 0..1, e \in 0..3 : y = 16 * kstep + 8 * h + 4 * pass + e
    OBVIOUS
  <2>3. PICK kstep \in 0..1, h \in 0..1, pass \in 0..1, e \in 0..3 : hd - 32 * sub = 16 * kstep + 8 * h + 4 * pass + e
    BY <2>1, <2>2
  <2>4. hd = kstep * 16 + h * 8 + 4 * pass + e + 32 * sub
    BY <2>3
  <2> QED BY <2>4
<1> QED BY <1>1

\* The products gemm0_subtile adds on a half of the head dimension.
ScoreProducts(row, key, sub) ==
  {<<<<row, hd>>, <<key, hd>>>> : hd \in (32 * sub)..(32 * sub + 31)}

\* GEMM0 on one half of the head dimension adds to a register the products of the
\* lane's query row with the key that the mask tests there (op_gemm.hpp).
LEMMA Gemm0IsDotProduct ==
  ASSUME NEW sub \in Halves, NEW lane \in Lanes, NEW n \in Halves, NEW r \in Regs
  PROVE  Gemm0Products(sub, lane, n, r)
         = ScoreProducts(RowOf(lane), MaskColumn(lane \div 32, n, r), sub)
<1> DEFINE K(kstep, pass, l, e) ==
             LET seqk == n * 32 + swz(l % 32)
                 d    == kstep * 16 + (l \div 32) * 8
                 x    == ElementAt(KImage, (lds_elem_offset(seqk, d) + 4 * pass + e) * 2)
             IN  <<x[1], x[2] + 32 * sub>>
           A(kstep, pass) == [l \in Lanes |-> [e \in 0..3 |-> K(kstep, pass, l, e)]]
           B(kstep, pass) == [l \in Lanes |-> [e \in 0..3 |-> QReg(l, sub * 2 + kstep, 4 * pass + e)]]
           i == FreeRow(lane, r)
           j == lane % 32
           key == MaskColumn(lane \div 32, n, r)
           hd(kstep, pass, h, e) == kstep * 16 + h * 8 + 4 * pass + e + 32 * sub
<1>1. Gemm0Products(sub, lane, n, r)
      = UNION {Mfma(A(kstep, pass), B(kstep, pass), lane, r) : kstep \in 0..1, pass \in 0..1}
  BY DEF Gemm0Products
<1>2. /\ sub \in 0..1 /\ n \in 0..1 /\ r \in 0..15
      /\ lane \div 32 \in 0..1 /\ j \in 0..31 /\ i \in 0..31
  BY MfmaDigits DEF Halves, Regs
<1>3. key = n * 32 + swz(i) /\ key \in 0..63
  <2> DEFINE half == lane \div 32
  <2>1. swz(i) = (r \div 8) * 16 + half * 8 + (r % 8)
    BY <1>2, MfmaDigits
  <2>2. r \div 8 \in 0..1 /\ r % 8 \in 0..7 /\ half \in 0..1
    BY <1>2
  <2>3. key = half * 8 + (r \div 8) * 16 + (r % 8) + 32 * n
    BY DEF MaskColumn
  <2> HIDE DEF key, half, i
  <2> QED BY <1>2, <2>1, <2>2, <2>3
<1> HIDE DEF i, j, key
<1>4. ASSUME NEW kstep \in 0..1, NEW pass \in 0..1, NEW h \in 0..1, NEW e \in 0..3
      PROVE  A(kstep, pass)[i + 32 * h][e] = <<key, hd(kstep, pass, h, e)>>
  <2> DEFINE l == i + 32 * h
             d == kstep * 16 + h * 8
             col == kstep * 16 + h * 8 + 4 * pass + e
  <2>1. l \in Lanes /\ l % 32 = i /\ l \div 32 = h
    BY <1>2, MfmaLane
  <2>2. A(kstep, pass)[l][e] = K(kstep, pass, l, e)
    BY <2>1
  <2>3. n * 32 + swz(l % 32) = key /\ kstep * 16 + (l \div 32) * 8 = d
    BY <1>3, <2>1
  <2>4. d \in 0..31 /\ col \in 0..31 /\ col = d + 4 * pass + e /\ d \in 0..24
    OBVIOUS
  <2>5. lds_elem_offset(key, d) + 4 * pass + e = lds_elem_offset(key, col)
    <3>1. PICK z \in 0..3, y \in 0..3, x \in 0..3 : key = 16 * z + 4 * y + x
      BY <1>3, RowDigits
    <3> HIDE DEF d, col
    <3>2. /\ lds_elem_offset(key, d) = x * 136 + y * 32 + z * 544 + d
          /\ lds_elem_offset(key, col) = x * 136 + y * 32 + z * 544 + col
      BY <2>4, <3>1, KOffset
    <3> QED BY <2>4, <3>2
  <2>6. ElementAt(KImage, lds_elem_offset(key, col) * 2) = <<key, col>>
    BY <1>3, <2>4, KElement
  <2>7. K(kstep, pass, l, e) = <<key, col + 32 * sub>>
    <3> DEFINE off == lds_elem_offset(n * 32 + swz(l % 32), kstep * 16 + (l \div 32) * 8) + 4 * pass + e
               x   == ElementAt(KImage, off * 2)
    <3>1. off = lds_elem_offset(key, col)
      BY <2>3, <2>5
    <3> HIDE DEF off
    <3>2. x = <<key, col>>
      BY <2>6, <3>1
    <3>3. K(kstep, pass, l, e) = <<x[1], x[2] + 32 * sub>>
      BY DEF off
    <3> HIDE DEF x, K
    <3> QED BY <3>2, <3>3
  <2> HIDE DEF A, K
  <2> QED BY <2>2, <2>7
<1>5. ASSUME NEW kstep \in 0..1, NEW pass \in 0..1, NEW h \in 0..1, NEW e \in 0..3
      PROVE  B(kstep, pass)[j + 32 * h][e] = <<RowOf(lane), hd(kstep, pass, h, e)>>
  <2> DEFINE l == j + 32 * h
  <2>1. l \in Lanes /\ l % 32 = j /\ l \div 32 = h
    BY <1>2, MfmaLane
  <2>2. B(kstep, pass)[l][e] = QReg(l, sub * 2 + kstep, 4 * pass + e)
    BY <2>1
  <2>3. RowOf(l) = RowOf(lane)
    BY <2>1 DEF RowOf, j
  <2>4. (sub * 2 + kstep) * 16 + h * 8 + (4 * pass + e) = hd(kstep, pass, h, e)
    BY <1>2
  <2>5. QReg(l, sub * 2 + kstep, 4 * pass + e) = <<RowOf(l), (sub * 2 + kstep) * 16 + (l \div 32) * 8 + (4 * pass + e)>>
    BY DEF QReg
  <2> HIDE DEF B, hd
  <2> QED BY <2>1, <2>2, <2>3, <2>4, <2>5
<1> HIDE DEF A, B, K
<1> DEFINE X(kstep, pass, h, e) == <<<<RowOf(lane), hd(kstep, pass, h, e)>>, <<key, hd(kstep, pass, h, e)>>>>
<1>6. ASSUME NEW kstep \in 0..1, NEW pass \in 0..1
      PROVE  Mfma(A(kstep, pass), B(kstep, pass), lane, r) = {X(kstep, pass, h, e) : h \in 0..1, e \in 0..3}
  <2>1. Mfma(A(kstep, pass), B(kstep, pass), lane, r)
        = {<<B(kstep, pass)[j + 32 * h][e], A(kstep, pass)[i + 32 * h][e]>> : h \in 0..1, e \in 0..3}
    BY DEF Mfma, Halves, FreeRow, i, j
  <2>2. ASSUME NEW h \in 0..1, NEW e \in 0..3
        PROVE  <<B(kstep, pass)[j + 32 * h][e], A(kstep, pass)[i + 32 * h][e]>> = X(kstep, pass, h, e)
    <3>1. A(kstep, pass)[i + 32 * h][e] = <<key, hd(kstep, pass, h, e)>>
      BY <1>4
    <3>2. B(kstep, pass)[j + 32 * h][e] = <<RowOf(lane), hd(kstep, pass, h, e)>>
      BY <1>5
    <3> HIDE DEF hd
    <3> QED BY <3>1, <3>2
  <2> HIDE DEF X
  <2> QED BY <2>1, <2>2
<1>7. ASSUME NEW p \in Gemm0Products(sub, lane, n, r)
      PROVE  p \in ScoreProducts(RowOf(lane), key, sub)
  <2>1. PICK kstep \in 0..1, pass \in 0..1 : p \in Mfma(A(kstep, pass), B(kstep, pass), lane, r)
    BY <1>1
  <2>2. PICK h \in 0..1, e \in 0..3 : p = X(kstep, pass, h, e)
    BY <1>6, <2>1
  <2>3. hd(kstep, pass, h, e) \in (32 * sub)..(32 * sub + 31)
    BY <1>2, SubtileDigits
  <2> HIDE DEF hd
  <2> QED BY <2>2, <2>3 DEF ScoreProducts
<1>8. ASSUME NEW p \in ScoreProducts(RowOf(lane), key, sub)
      PROVE  p \in Gemm0Products(sub, lane, n, r)
  <2>1. PICK y \in (32 * sub)..(32 * sub + 31) : p = <<<<RowOf(lane), y>>, <<key, y>>>>
    BY DEF ScoreProducts
  <2>2. PICK kstep \in 0..1, pass \in 0..1, h \in 0..1, e \in 0..3 : y = hd(kstep, pass, h, e)
    BY <1>2, SubtileDigits
  <2>3. p = X(kstep, pass, h, e)
    BY <2>1, <2>2
  <2> HIDE DEF X
  <2>4. p \in Mfma(A(kstep, pass), B(kstep, pass), lane, r)
    BY <1>6, <2>3
  <2> QED BY <1>1, <2>4
<1> QED BY <1>7, <1>8 DEF key

\* What is packed in pairs comes out again.
LEMMA PackedPair ==
  ASSUME NEW v0, NEW v1
  PROVE  /\ PackTrunc(v0, v1)[0] = <<v0, 2>> /\ PackTrunc(v0, v1)[1] = <<v0, 3>>
         /\ PackTrunc(v0, v1)[2] = <<v1, 2>> /\ PackTrunc(v0, v1)[3] = <<v1, 3>>
<1> DEFINE sel == <<2, 3, 6, 7>>
           a   == Bytes(v1)
           b   == Bytes(v0)
           q   == PackTrunc(v0, v1)
<1>1. /\ a[2] = <<v1, 2>> /\ a[3] = <<v1, 3>> /\ b[2] = <<v0, 2>> /\ b[3] = <<v0, 3>>
  BY DEF Bytes
<1>2. q = Perm(a, b, sel)
  BY DEF PackTrunc, kBf16TruncSel
<1>3. sel[1] = 2 /\ sel[2] = 3 /\ sel[3] = 6 /\ sel[4] = 7
  OBVIOUS
<1> HIDE DEF a, b, sel, q
<1>4. ASSUME NEW n \in 0..3
      PROVE  q[n] = IF sel[n + 1] >= 4 THEN a[sel[n + 1] - 4] ELSE b[sel[n + 1]]
  BY <1>2 DEF Perm
<1>5. q[0] = b[2] /\ q[1] = b[3]
  BY <1>3, <1>4
<1>6. q[2] = a[2] /\ q[3] = a[3]
  BY <1>3, <1>4
<1>7. q[0] = <<v0, 2>> /\ q[1] = <<v0, 3>> /\ q[2] = <<v1, 2>> /\ q[3] = <<v1, 3>>
  BY <1>1, <1>5, <1>6
<1> QED BY <1>7 DEF q

\* Two packed pairs give back their four numbers.
LEMMA UnpackedIsPacked ==
  ASSUME NEW pair, NEW v0, NEW v1, NEW v2, NEW v3,
         pair[0] = PackTrunc(v0, v1), pair[1] = PackTrunc(v2, v3)
  PROVE  Unpacked(pair, 0) = v0 /\ Unpacked(pair, 1) = v1 /\ Unpacked(pair, 2) = v2 /\ Unpacked(pair, 3) = v3
<1>1. /\ pair[0][0] = <<v0, 2>> /\ pair[0][1] = <<v0, 3>> /\ pair[0][2] = <<v1, 2>> /\ pair[0][3] = <<v1, 3>>
      /\ pair[1][0] = <<v2, 2>> /\ pair[1][1] = <<v2, 3>> /\ pair[1][2] = <<v3, 2>> /\ pair[1][3] = <<v3, 3>>
  BY PackedPair
<1>2. ASSUME NEW e, NEW v, pair[e \div 2][2 * (e % 2)] = <<v, 2>>, pair[e \div 2][2 * (e % 2) + 1] = <<v, 3>>
      PROVE  Unpacked(pair, e) = v
  BY <1>2 DEF Unpacked
<1>3. 0 \div 2 = 0 /\ 0 % 2 = 0 /\ 1 \div 2 = 0 /\ 1 % 2 = 1 /\ 2 \div 2 = 1 /\ 2 % 2 = 0 /\ 3 \div 2 = 1 /\ 3 % 2 = 1
  OBVIOUS
<1>4. Unpacked(pair, 0) = v0
  <2>1. pair[0 \div 2][2 * (0 % 2)] = <<v0, 2>> /\ pair[0 \div 2][2 * (0 % 2) + 1] = <<v0, 3>>
    BY <1>1, <1>3
  <2> QED BY <1>2, <2>1
<1>5. Unpacked(pair, 1) = v1
  <2>1. pair[1 \div 2][2 * (1 % 2)] = <<v1, 2>> /\ pair[1 \div 2][2 * (1 % 2) + 1] = <<v1, 3>>
    BY <1>1, <1>3
  <2> QED BY <1>2, <2>1
<1>6. Unpacked(pair, 2) = v2
  <2>1. pair[2 \div 2][2 * (2 % 2)] = <<v2, 2>> /\ pair[2 \div 2][2 * (2 % 2) + 1] = <<v2, 3>>
    BY <1>1, <1>3
  <2> QED BY <1>2, <2>1
<1>7. Unpacked(pair, 3) = v3
  <2>1. pair[3 \div 2][2 * (3 % 2)] = <<v3, 2>> /\ pair[3 \div 2][2 * (3 % 2) + 1] = <<v3, 3>>
    BY <1>1, <1>3
  <2> QED BY <1>2, <2>1
<1> QED BY <1>4, <1>5, <1>6, <1>7

\* Every register holds the whole dot product the mask takes it for.
ScoresWhole ==
  \A k_sub \in Halves, n \in Halves, i \in Regs :
    s_acc[k_sub][n][i] = {<<<<m_row, hd>>, <<MaskColumn(k_sub, n, i), hd>>>> : hd \in 0..63}

\* The row's probability of a key, and its product with V in a column.
WeightOf(key) == [rows |-> {m_row}, keys |-> {key}]
Share(key, col) == <<WeightOf(key), <<key, col>>>>

OutputProducts(sub, col) == {Share(key, col) : key \in (32 * sub)..(32 * sub + 31)}

\* The probability a register holds once its score is whole.
LEMMA ProbabilityIs ==
  ASSUME ScoresWhole, NEW h \in 0..1, NEW n \in 0..1, NEW i \in 0..15
  PROVE  Probability(s_acc[h][n][i]) = WeightOf(MaskColumn(h, n, i))
<1> DEFINE key  == MaskColumn(h, n, i)
           cell == {<<<<m_row, hd>>, <<key, hd>>>> : hd \in 0..63}
<1>1. s_acc[h][n][i] = cell
  <2>1. h \in Halves /\ n \in Halves /\ i \in Regs
    BY DEF Halves, Regs
  <2> QED BY <2>1 DEF ScoresWhole
<1> HIDE DEF key
<1>2. \A x \in cell : x[1][1] = m_row /\ x[2][1] = key
  OBVIOUS
<1>3. <<<<m_row, 0>>, <<key, 0>>>> \in cell
  OBVIOUS
<1> HIDE DEF cell
<1>4. {x[1][1] : x \in cell} = {m_row} /\ {x[2][1] : x \in cell} = {key}
  BY <1>2, <1>3
<1> QED BY <1>1, <1>4 DEF Probability, WeightOf, key

\* The products gemm1_subtile adds for a half of the keys.
LEMMA Gemm1IsPTimesV ==
  ASSUME ScoresWhole, NEW sub \in Halves, NEW lane \in Lanes, NEW d \in Halves, NEW r \in Regs
  PROVE  Gemm1Products(sub, lane, d, r) = OutputProducts(sub, 32 * d + FreeRow(lane, r))
<1> DEFINE P(l, s, e) == LET u(x) == Probability(s_acc[l \div 32][sub][x])
                             pair == [x \in 0..1 |-> PackTrunc(u(4 * s + 2 * x), u(4 * s + 2 * x + 1))]
                         IN  Unpacked(pair, e)
           V(kstep, pass, l, e) ==
             LET seqk == kstep * 16 + (l \div 32) * 8
                 x    == ElementAt(VImage, (v_lds_elem_offset(seqk, (l % 32) + 32 * d) + 4 * pass + e) * 2)
             IN  <<x[1] + 32 * sub, x[2]>>
           A(kstep, pass) == [l \in Lanes |-> [e \in 0..3 |-> V(kstep, pass, l, e)]]
           B(kstep, pass) == [l \in Lanes |-> [e \in 0..3 |-> P(l, kstep * 2 + pass, e)]]
           i == FreeRow(lane, r)
           j == lane % 32
           col == 32 * d + FreeRow(lane, r)
           key(kstep, pass, h, e) == kstep * 16 + h * 8 + 4 * pass + e + 32 * sub
<1>1. Gemm1Products(sub, lane, d, r)
      = UNION {Mfma(A(kstep, pass), B(kstep, pass), lane, r) : kstep \in 0..1, pass \in 0..1}
  BY DEF Gemm1Products
<1>2. /\ sub \in 0..1 /\ d \in 0..1 /\ r \in 0..15
      /\ lane \div 32 \in 0..1 /\ j \in 0..31 /\ i \in 0..31
  BY MfmaDigits DEF Halves, Regs
<1>3. col = i + 32 * d /\ col \in 0..63
  BY <1>2
<1> HIDE DEF i, j, col
<1>4. ASSUME NEW kstep \in 0..1, NEW pass \in 0..1, NEW h \in 0..1, NEW e \in 0..3
      PROVE  A(kstep, pass)[i + 32 * h][e] = <<key(kstep, pass, h, e), col>>
  <2> DEFINE l == i + 32 * h
             first == kstep * 16 + h * 8
             row == kstep * 16 + h * 8 + 4 * pass + e
  <2>1. l \in Lanes /\ l % 32 = i /\ l \div 32 = h
    BY <1>2, MfmaLane
  <2>2. A(kstep, pass)[l][e] = V(kstep, pass, l, e)
    BY <2>1
  <2>3. (l % 32) + 32 * d = col /\ kstep * 16 + (l \div 32) * 8 = first
    BY <1>3, <2>1
  <2>4. row \in 0..31
    OBVIOUS
  <2>5. v_lds_elem_offset(first, col) + 4 * pass + e = v_lds_elem_offset(row, col)
    <3>1. PICK y \in 0..7, z \in 0..7 : col = 8 * y + z
      BY <1>3, VDigits
    <3> DEFINE x == 2 * kstep + h
               k == 4 * pass + e
    <3>2. x \in 0..3 /\ k \in 0..7 /\ 0 \in 0..7 /\ first = 8 * x + 0 /\ row = 8 * x + k /\ k = 4 * pass + e
      OBVIOUS
    <3> HIDE DEF x, k, first, row
    <3>3. /\ v_lds_elem_offset(8 * x + 0, 8 * y + z) = x * 576 + y * 72 + z * 8 + 0
          /\ v_lds_elem_offset(8 * x + k, 8 * y + z) = x * 576 + y * 72 + z * 8 + k
      BY <3>2, VOffset
    <3> QED BY <3>1, <3>2, <3>3
  <2>6. ElementAt(VImage, v_lds_elem_offset(row, col) * 2) = <<row, col>>
    BY <1>3, <2>4, VElement
  <2>7. V(kstep, pass, l, e) = <<row + 32 * sub, col>>
    <3> DEFINE off == v_lds_elem_offset(kstep * 16 + (l \div 32) * 8, (l % 32) + 32 * d) + 4 * pass + e
               x   == ElementAt(VImage, off * 2)
    <3>1. off = v_lds_elem_offset(row, col)
      BY <2>3, <2>5
    <3> HIDE DEF off
    <3>2. x = <<row, col>>
      BY <2>6, <3>1
    <3>3. V(kstep, pass, l, e) = <<x[1] + 32 * sub, x[2]>>
      BY DEF off
    <3> HIDE DEF x, V, row
    <3> QED BY <3>2, <3>3
  <2> HIDE DEF A, V
  <2> QED BY <2>2, <2>7
<1>5. ASSUME NEW kstep \in 0..1, NEW pass \in 0..1, NEW h \in 0..1, NEW e \in 0..3
      PROVE  B(kstep, pass)[j + 32 * h][e] = WeightOf(key(kstep, pass, h, e))
  <2> DEFINE l == j + 32 * h
             s == kstep * 2 + pass
             u(x) == Probability(s_acc[l \div 32][sub][x])
             pair == [x \in 0..1 |-> PackTrunc(u(4 * s + 2 * x), u(4 * s + 2 * x + 1))]
  <2>1. l \in Lanes /\ l % 32 = j /\ l \div 32 = h
    BY <1>2, MfmaLane
  <2>2. B(kstep, pass)[l][e] = Unpacked(pair, e)
    BY <2>1
  <2>3. Unpacked(pair, e) = u(4 * s + e)
    <3>1. pair[0] = PackTrunc(u(4 * s), u(4 * s + 1)) /\ pair[1] = PackTrunc(u(4 * s + 2), u(4 * s + 3))
      <4>1. 4 * s + 2 * 0 = 4 * s /\ 4 * s + 2 * 0 + 1 = 4 * s + 1 /\ 4 * s + 2 * 1 = 4 * s + 2 /\ 4 * s + 2 * 1 + 1 = 4 * s + 3
        OBVIOUS
      <4> HIDE DEF s, u
      <4> QED BY <4>1
    <3>2. 4 * s + 0 = 4 * s
      OBVIOUS
    <3>3. e = 0 \/ e = 1 \/ e = 2 \/ e = 3
      OBVIOUS
    <3> HIDE DEF pair, u, s
    <3>4. /\ Unpacked(pair, 0) = u(4 * s) /\ Unpacked(pair, 1) = u(4 * s + 1)
          /\ Unpacked(pair, 2) = u(4 * s + 2) /\ Unpacked(pair, 3) = u(4 * s + 3)
      BY <3>1, UnpackedIsPacked
    <3> QED BY <3>2, <3>3, <3>4
  <2>4. 4 * s + e \in 0..15
    OBVIOUS
  <2>5. u(4 * s + e) = WeightOf(MaskColumn(h, sub, 4 * s + e))
    <3> DEFINE x == 4 * s + e
    <3>1. x \in 0..15
      BY <2>4
    <3> HIDE DEF x
    <3>2. Probability(s_acc[h][sub][x]) = WeightOf(MaskColumn(h, sub, x))
      BY <1>2, <3>1, ProbabilityIs
    <3> QED BY <2>1, <3>2 DEF x
  <2>6. MaskColumn(h, sub, 4 * s + e) = key(kstep, pass, h, e)
    <3>1. /\ 4 * s + e = 8 * kstep + (4 * pass + e) /\ 4 * pass + e \in 0..7
      OBVIOUS
    <3> DEFINE x == 4 * s + e
               k == 4 * pass + e
    <3>2. x \div 8 = kstep /\ x % 8 = k
      BY <3>1
    <3> HIDE DEF x
    <3>3. MaskColumn(h, sub, x) = h * 8 + kstep * 16 + k + 32 * sub
      BY <3>2 DEF MaskColumn
    <3>4. h * 8 + kstep * 16 + k + 32 * sub = key(kstep, pass, h, e)
      BY <1>2
    <3> QED BY <3>3, <3>4 DEF x
  <2> HIDE DEF B, key, u, pair
  <2> QED BY <2>2, <2>3, <2>5, <2>6
<1> HIDE DEF A, B, P, V
<1> DEFINE X(kstep, pass, h, e) == Share(key(kstep, pass, h, e), col)
<1>6. ASSUME NEW kstep \in 0..1, NEW pass \in 0..1
      PROVE  Mfma(A(kstep, pass), B(kstep, pass), lane, r) = {X(kstep, pass, h, e) : h \in 0..1, e \in 0..3}
  <2>1. Mfma(A(kstep, pass), B(kstep, pass), lane, r)
        = {<<B(kstep, pass)[j + 32 * h][e], A(kstep, pass)[i + 32 * h][e]>> : h \in 0..1, e \in 0..3}
    BY DEF Mfma, Halves, FreeRow, i, j
  <2>2. \A h \in 0..1, e \in 0..3 :
          <<B(kstep, pass)[j + 32 * h][e], A(kstep, pass)[i + 32 * h][e]>> = X(kstep, pass, h, e)
    BY <1>4, <1>5 DEF Share
  <2> HIDE DEF X
  <2> QED BY <2>1, <2>2
<1>7. ASSUME NEW p \in Gemm1Products(sub, lane, d, r)
      PROVE  p \in OutputProducts(sub, col)
  <2>1. PICK kstep \in 0..1, pass \in 0..1 : p \in Mfma(A(kstep, pass), B(kstep, pass), lane, r)
    BY <1>1
  <2>2. PICK h \in 0..1, e \in 0..3 : p = X(kstep, pass, h, e)
    BY <1>6, <2>1
  <2>3. key(kstep, pass, h, e) \in (32 * sub)..(32 * sub + 31)
    BY <1>2, SubtileDigits
  <2> HIDE DEF key
  <2> QED BY <2>2, <2>3 DEF OutputProducts
<1>8. ASSUME NEW p \in OutputProducts(sub, col)
      PROVE  p \in Gemm1Products(sub, lane, d, r)
  <2>1. PICK y \in (32 * sub)..(32 * sub + 31) : p = Share(y, col)
    BY DEF OutputProducts
  <2>2. PICK kstep \in 0..1, pass \in 0..1, h \in 0..1, e \in 0..3 : y = key(kstep, pass, h, e)
    BY <1>2, SubtileDigits
  <2>3. p = X(kstep, pass, h, e)
    BY <2>1, <2>2
  <2> HIDE DEF X
  <2>4. p \in Mfma(A(kstep, pass), B(kstep, pass), lane, r)
    BY <1>6, <2>3
  <2> QED BY <1>1, <2>4
<1> QED BY <1>7, <1>8 DEF col

-----------------------------------------------------------------------------
(* The behaviour of a row                                                  *)

\* Registers of both lanes when a GEMM has done its first half, or all.
ScoresHalf ==
  \A k_sub \in Halves, n \in Halves, i \in Regs :
    s_acc[k_sub][n][i] = ScoreProducts(m_row, MaskColumn(k_sub, n, i), 0)

ColumnOf(k_sub, d, r) == 32 * d + FreeRow(LaneOf(k_sub), r)

OutputHalf ==
  \A k_sub \in Halves, d \in Halves, r \in Regs :
    o_acc[k_sub][d][r] = OutputProducts(0, ColumnOf(k_sub, d, r))

OutputSum(col) == {Share(key, col) : key \in 0..63}

OutputWhole ==
  \A k_sub \in Halves, d \in Halves, r \in Regs :
    o_acc[k_sub][d][r] = OutputSum(ColumnOf(k_sub, d, r))

ScoresNone == \A k_sub \in Halves, n \in Halves, i \in Regs : s_acc[k_sub][n][i] = {}
OutputNone == \A k_sub \in Halves, d \in Halves, r \in Regs : o_acc[k_sub][d][r] = {}

TileInv ==
  /\ warp_id \in 0..3 /\ row_lane \in 0..31
  /\ pc \in {"gemm0_0", "gemm0_1", "gemm1_0", "gemm1_1", "epilogue", "done"}
  /\ pc = "gemm0_0" => ScoresNone
  /\ pc = "gemm0_1" => ScoresHalf
  /\ pc \notin {"gemm0_0", "gemm0_1"} => ScoresWhole
  /\ pc \in {"gemm0_0", "gemm0_1", "gemm1_0"} => OutputNone
  /\ pc = "gemm1_1" => OutputHalf
  /\ pc \in {"epilogue", "done"} => OutputWhole
  /\ OutputIsPTimesV

\* The two lanes of the row.
LEMMA LanesOfRow ==
  ASSUME row_lane \in 0..31, warp_id \in 0..3, NEW k_sub \in Halves
  PROVE  /\ LaneOf(k_sub) \in Lanes /\ LaneOf(k_sub) % 32 = row_lane /\ LaneOf(k_sub) \div 32 = k_sub
         /\ RowOf(LaneOf(k_sub)) = m_row
<1>1. k_sub \in 0..1
  BY DEF Halves
<1>2. LaneOf(k_sub) \in Lanes /\ LaneOf(k_sub) % 32 = row_lane /\ LaneOf(k_sub) \div 32 = k_sub
  BY <1>1, MfmaLane DEF LaneOf
<1> QED BY <1>2 DEF RowOf, m_row

\* The two halves make the whole.
LEMMA TwoHalves ==
  /\ \A row, key : ScoreProducts(row, key, 0) \cup ScoreProducts(row, key, 1)
                   = {<<<<row, hd>>, <<key, hd>>>> : hd \in 0..63}
  /\ \A col : OutputProducts(0, col) \cup OutputProducts(1, col) = OutputSum(col)
<1>1. \A x : x \in 0..63 <=> x \in (32 * 0)..(32 * 0 + 31) \/ x \in (32 * 1)..(32 * 1 + 31)
  OBVIOUS
<1> DEFINE L == (32 * 0)..(32 * 0 + 31)
           H == (32 * 1)..(32 * 1 + 31)
           W == 0..63
<1>2. \A x : x \in W <=> x \in L \/ x \in H
  BY <1>1
<1> HIDE DEF L, H, W
<1>3. ASSUME NEW row, NEW key
      PROVE  ScoreProducts(row, key, 0) \cup ScoreProducts(row, key, 1)
             = {<<<<row, hd>>, <<key, hd>>>> : hd \in W}
  <2>1. /\ ScoreProducts(row, key, 0) = {<<<<row, hd>>, <<key, hd>>>> : hd \in L}
        /\ ScoreProducts(row, key, 1) = {<<<<row, hd>>, <<key, hd>>>> : hd \in H}
    BY DEF ScoreProducts, L, H
  <2> QED BY <1>2, <2>1
<1>4. ASSUME NEW col
      PROVE  OutputProducts(0, col) \cup OutputProducts(1, col) = OutputSum(col)
  <2>1. /\ OutputProducts(0, col) = {Share(key, col) : key \in L}
        /\ OutputProducts(1, col) = {Share(key, col) : key \in H}
        /\ OutputSum(col) = {Share(key, col) : key \in W}
    BY DEF OutputProducts, OutputSum, L, H, W
  <2> QED BY <1>2, <2>1
<1> QED BY <1>3, <1>4 DEF W

\* What a lane stores: four columns for each of its eight stores.
LEMMA StoredByIs ==
  ASSUME OutputWhole, row_lane \in 0..31, warp_id \in 0..3, NEW k_sub \in Halves
  PROVE  StoredBy(k_sub) =
           {<<4 * k_sub + 8 * x[1] + x[2], OutputSum(4 * k_sub + 8 * x[1] + x[2])>> : x \in (0..7) \X (0..3)}
<1> DEFINE Pair(s) == [x \in 0..1 |-> bf16_packed(k_sub, s * 2 + x)]
           V(s, e) == <<swz(k_sub * 8) + (s * 16) \div 2 + e, Unpacked(Pair(s), e)>>
           col(s, e) == 4 * k_sub + 8 * s + e
           W(s, e) == <<col(s, e), OutputSum(col(s, e))>>
<1>0. k_sub \in 0..1
  BY DEF Halves
<1>1. StoredBy(k_sub) = {V(s, e) : s \in 0..7, e \in 0..3}
  BY DEF StoredBy
<1>2. ASSUME NEW s \in 0..7, NEW e \in 0..3
      PROVE  swz(k_sub * 8) + (s * 16) \div 2 + e = col(s, e)
  <2>1. swz(k_sub * 8) = 4 * k_sub
    <3>1. CASE k_sub = 0
      BY <3>1 DEF swz
    <3>2. CASE k_sub = 1
      BY <3>2 DEF swz
    <3> QED BY <1>0, <3>1, <3>2
  <2>2. (s * 16) \div 2 = 8 * s
    OBVIOUS
  <2> QED BY <1>0, <2>1, <2>2
<1>3. ASSUME NEW s \in 0..7, NEW e \in 0..3
      PROVE  Unpacked(Pair(s), e) = OutputSum(col(s, e))
  <2>1. PICK d \in 0..1, q \in 0..3 : s = 4 * d + q
    OBVIOUS
  <2> DEFINE v == o_acc[k_sub][d]
  <2>2. ASSUME NEW x \in 0..1
        PROVE  Pair(s)[x] = PackTrunc(v[4 * q + 2 * x], v[4 * q + 2 * x + 1])
    <3> DEFINE i == s * 2 + x
    <3>1. i = 8 * d + (2 * q + x) /\ 2 * q + x \in 0..7
      BY <2>1
    <3>2. i \div 8 = d /\ i % 8 = 2 * q + x
      BY <3>1
    <3> HIDE DEF i
    <3>3. bf16_packed(k_sub, i) = PackTrunc(v[2 * (i % 8)], v[2 * (i % 8) + 1])
      BY <3>2 DEF bf16_packed
    <3>4. 2 * (2 * q + x) = 4 * q + 2 * x
      OBVIOUS
    <3>5. Pair(s)[x] = bf16_packed(k_sub, i)
      BY DEF i
    <3> QED BY <3>2, <3>3, <3>4, <3>5
  <2>3. Pair(s)[0] = PackTrunc(v[4 * q + 0], v[4 * q + 1]) /\ Pair(s)[1] = PackTrunc(v[4 * q + 2], v[4 * q + 3])
    <3>1. 4 * q + 2 * 0 = 4 * q + 0 /\ 4 * q + 2 * 0 + 1 = 4 * q + 1 /\ 4 * q + 2 * 1 = 4 * q + 2 /\ 4 * q + 2 * 1 + 1 = 4 * q + 3
      OBVIOUS
    <3> HIDE DEF Pair, v
    <3> QED BY <2>2, <3>1
  <2> HIDE DEF Pair, v
  <2>4. Unpacked(Pair(s), e) = v[4 * q + e]
    <3>1. e = 0 \/ e = 1 \/ e = 2 \/ e = 3
      OBVIOUS
    <3>2. /\ Unpacked(Pair(s), 0) = v[4 * q + 0] /\ Unpacked(Pair(s), 1) = v[4 * q + 1]
          /\ Unpacked(Pair(s), 2) = v[4 * q + 2] /\ Unpacked(Pair(s), 3) = v[4 * q + 3]
      BY <2>3, UnpackedIsPacked
    <3> QED BY <3>1, <3>2
  <2> DEFINE r == 4 * q + e
  <2>5. r \in 0..15 /\ r \div 4 = q /\ r % 4 = e
    OBVIOUS
  <2> HIDE DEF r
  <2>6. v[r] = OutputSum(ColumnOf(k_sub, d, r))
    BY <2>5 DEF OutputWhole, Halves, Regs, v
  <2>7. ColumnOf(k_sub, d, r) = col(s, e)
    <3>1. LaneOf(k_sub) \div 32 = k_sub
      BY LanesOfRow
    <3>2. ColumnOf(k_sub, d, r) = 32 * d + (8 * q + 4 * k_sub + e)
      BY <2>5, <3>1 DEF ColumnOf, FreeRow
    <3> QED BY <1>0, <2>1, <3>2
  <2> HIDE DEF col
  <2> QED BY <2>4, <2>6, <2>7 DEF r
<1>4. ASSUME NEW s \in 0..7, NEW e \in 0..3 PROVE V(s, e) = W(s, e)
  <2> HIDE DEF col, Pair
  <2> QED BY <1>2, <1>3
<1> HIDE DEF V, W
<1>5. {V(s, e) : s \in 0..7, e \in 0..3} = {W(x[1], x[2]) : x \in (0..7) \X (0..3)}
  <2>1. ASSUME NEW z \in {V(s, e) : s \in 0..7, e \in 0..3}
        PROVE  z \in {W(x[1], x[2]) : x \in (0..7) \X (0..3)}
    <3>1. PICK s \in 0..7, e \in 0..3 : z = V(s, e)
      OBVIOUS
    <3>2. z = W(<<s, e>>[1], <<s, e>>[2]) /\ <<s, e>> \in (0..7) \X (0..3)
      BY <1>4, <3>1
    <3> QED BY <3>2
  <2>2. ASSUME NEW x \in (0..7) \X (0..3)
        PROVE  W(x[1], x[2]) \in {V(s, e) : s \in 0..7, e \in 0..3}
    <3>1. x[1] \in 0..7 /\ x[2] \in 0..3
      OBVIOUS
    <3>2. V(x[1], x[2]) = W(x[1], x[2])
      BY <1>4, <3>1
    <3> QED BY <3>1, <3>2
  <2> QED BY <2>1, <2>2
<1> QED BY <1>1, <1>5 DEF W

\* The stores of both lanes fill the row, each column once.
LEMMA RowIsStored ==
  ASSUME OutputWhole, row_lane \in 0..31, warp_id \in 0..3
  PROVE  StoredBy(0) \cup StoredBy(1) = {<<col, OutputSum(col)>> : col \in 0..63}
<1>1. 0 \in Halves /\ 1 \in Halves
  BY DEF Halves
<1> DEFINE W(k, x) == <<4 * k + 8 * x[1] + x[2], OutputSum(4 * k + 8 * x[1] + x[2])>>
           X(col) == <<col, OutputSum(col)>>
<1>2. StoredBy(0) = {W(0, x) : x \in (0..7) \X (0..3)} /\ StoredBy(1) = {W(1, x) : x \in (0..7) \X (0..3)}
  BY <1>1, StoredByIs
<1>3. ASSUME NEW k \in 0..1, NEW x \in (0..7) \X (0..3)
      PROVE  \E col \in 0..63 : W(k, x) = X(col)
  <2>1. 4 * k + 8 * x[1] + x[2] \in 0..63
    <3>1. x[1] \in 0..7 /\ x[2] \in 0..3
      OBVIOUS
    <3> QED BY <3>1
  <2> QED BY <2>1
<1>4. ASSUME NEW col \in 0..63
      PROVE  \E k \in 0..1, x \in (0..7) \X (0..3) : W(k, x) = X(col)
  <2>1. PICK k \in 0..1, s \in 0..7, e \in 0..3 : col = 4 * k + 8 * s + e
    OBVIOUS
  <2> DEFINE x == <<s, e>>
  <2>2. x \in (0..7) \X (0..3) /\ x[1] = s /\ x[2] = e
    OBVIOUS
  <2> HIDE DEF x
  <2>3. W(k, x) = X(col)
    BY <2>1, <2>2
  <2> QED BY <2>2, <2>3
<1> HIDE DEF W, X
<1>5. \A z : z \in StoredBy(0) \cup StoredBy(1) <=> \E k \in 0..1, x \in (0..7) \X (0..3) : z = W(k, x)
  <2>1. \A k : k \in 0..1 <=> k = 0 \/ k = 1
    OBVIOUS
  <2> QED BY <1>2, <2>1
<1> DEFINE all == StoredBy(0) \cup StoredBy(1)
<1> HIDE DEF all
<1>6. ASSUME NEW z \in all PROVE z \in {X(col) : col \in 0..63}
  <2>1. PICK k \in 0..1, x \in (0..7) \X (0..3) : z = W(k, x)
    BY <1>5 DEF all
  <2>2. PICK col \in 0..63 : W(k, x) = X(col)
    BY <1>3
  <2> QED BY <2>1, <2>2
<1>7. ASSUME NEW col \in 0..63 PROVE X(col) \in all
  <2>1. PICK k \in 0..1, x \in (0..7) \X (0..3) : W(k, x) = X(col)
    BY <1>4
  <2> QED BY <1>5, <2>1 DEF all
<1>8. all = {X(col) : col \in 0..63}
  BY <1>6, <1>7
<1> QED BY <1>8 DEF X, all

\* The statements about O depend on the accumulator and on the row.
LEMMA OutputKept ==
  ASSUME UNCHANGED <<warp_id, row_lane, o_acc>>
  PROVE  (OutputWhole' <=> OutputWhole) /\ (OutputHalf' <=> OutputHalf)
<1>1. m_row' = m_row
  BY DEF m_row
<1>2. \A key : WeightOf(key)' = WeightOf(key)
  BY <1>1 DEF WeightOf
<1>3. \A col : OutputSum(col)' = OutputSum(col) /\ \A sub : OutputProducts(sub, col)' = OutputProducts(sub, col)
  BY <1>2 DEF OutputSum, OutputProducts, Share
<1>4. \A k_sub, d, r : ColumnOf(k_sub, d, r)' = ColumnOf(k_sub, d, r)
  BY DEF ColumnOf, LaneOf, FreeRow
<1>5. OutputWhole' <=> OutputWhole
  BY <1>3, <1>4 DEF OutputWhole
<1>6. OutputHalf' <=> OutputHalf
  BY <1>3, <1>4 DEF OutputHalf
<1> QED BY <1>5, <1>6

\* Every step keeps the invariant.
LEMMA TileStep == TileInv /\ [Next]_vars => TileInv'
<1> SUFFICES ASSUME TileInv, [Next]_vars PROVE TileInv'
  OBVIOUS
<1>0. warp_id \in 0..3 /\ row_lane \in 0..31
  BY DEF TileInv
<1>1. ASSUME NEW sub \in Halves, NEW from, NEW to, Gemm0(sub, from, to),
             NEW k_sub \in Halves, NEW n \in Halves, NEW i \in Regs
      PROVE  s_acc'[k_sub][n][i] = s_acc[k_sub][n][i] \cup ScoreProducts(m_row, MaskColumn(k_sub, n, i), sub)
  <2>1. s_acc'[k_sub][n][i] = s_acc[k_sub][n][i] \cup Gemm0Products(sub, LaneOf(k_sub), n, i)
    BY <1>1 DEF Gemm0
  <2>2. /\ LaneOf(k_sub) \in Lanes /\ LaneOf(k_sub) \div 32 = k_sub
        /\ RowOf(LaneOf(k_sub)) = m_row
    BY <1>0, LanesOfRow
  <2>3. Gemm0Products(sub, LaneOf(k_sub), n, i) = ScoreProducts(m_row, MaskColumn(k_sub, n, i), sub)
    BY <2>2, Gemm0IsDotProduct
  <2> QED BY <2>1, <2>3
<1>2. ASSUME ScoresWhole, NEW sub \in Halves, NEW from, NEW to, Gemm1(sub, from, to),
             NEW k_sub \in Halves, NEW d \in Halves, NEW r \in Regs
      PROVE  o_acc'[k_sub][d][r] = o_acc[k_sub][d][r] \cup OutputProducts(sub, ColumnOf(k_sub, d, r))
  <2>1. o_acc'[k_sub][d][r] = o_acc[k_sub][d][r] \cup Gemm1Products(sub, LaneOf(k_sub), d, r)
    BY <1>2 DEF Gemm1
  <2>2. LaneOf(k_sub) \in Lanes
    BY <1>0, LanesOfRow
  <2>3. Gemm1Products(sub, LaneOf(k_sub), d, r) = OutputProducts(sub, ColumnOf(k_sub, d, r))
    BY <1>2, <2>2, Gemm1IsPTimesV DEF ColumnOf
  <2> QED BY <2>1, <2>3
<1>3. 0 \in Halves /\ 1 \in Halves
  BY DEF Halves
<1>4. CASE Gemm0(0, "gemm0_0", "gemm0_1")
  <2>1. pc' = "gemm0_1" /\ UNCHANGED <<warp_id, row_lane, o_acc, stored>> /\ ScoresNone /\ OutputNone
    BY <1>4 DEF Gemm0, TileInv
  <2>2. ScoresHalf'
    <3>1. \A k_sub \in Halves, n \in Halves, i \in Regs :
            s_acc'[k_sub][n][i] = ScoreProducts(m_row, MaskColumn(k_sub, n, i), 0)
      <4> SUFFICES ASSUME NEW k_sub \in Halves, NEW n \in Halves, NEW i \in Regs
                   PROVE  s_acc'[k_sub][n][i] = ScoreProducts(m_row, MaskColumn(k_sub, n, i), 0)
        OBVIOUS
      <4>1. s_acc'[k_sub][n][i] = s_acc[k_sub][n][i] \cup ScoreProducts(m_row, MaskColumn(k_sub, n, i), 0)
        BY <1>1, <1>3, <1>4
      <4>2. s_acc[k_sub][n][i] = {}
        BY <2>1 DEF ScoresNone
      <4> QED BY <4>1, <4>2
    <3>2. \A k_sub, n, i : MaskColumn(k_sub, n, i)' = MaskColumn(k_sub, n, i)
      BY DEF MaskColumn
    <3> QED BY <2>1, <3>1, <3>2 DEF ScoresHalf, ScoreProducts, m_row
  <2> QED BY <1>0, <2>1, <2>2 DEF TileInv, OutputNone, OutputIsPTimesV
<1>5. CASE Gemm0(1, "gemm0_1", "gemm1_0")
  <2>1. pc' = "gemm1_0" /\ UNCHANGED <<warp_id, row_lane, o_acc, stored>> /\ ScoresHalf /\ OutputNone
    BY <1>5 DEF Gemm0, TileInv
  <2>2. ScoresWhole'
    <3>1. \A k_sub \in Halves, n \in Halves, i \in Regs :
            s_acc'[k_sub][n][i] = ScoreProducts(m_row, MaskColumn(k_sub, n, i), 0)
                                  \cup ScoreProducts(m_row, MaskColumn(k_sub, n, i), 1)
      BY <1>1, <1>3, <1>5, <2>1 DEF ScoresHalf
    <3>2. \A k_sub \in Halves, n \in Halves, i \in Regs :
            s_acc'[k_sub][n][i] = {<<<<m_row, hd>>, <<MaskColumn(k_sub, n, i), hd>>>> : hd \in 0..63}
      BY <3>1, TwoHalves
    <3> QED BY <2>1, <3>2 DEF ScoresWhole, m_row, MaskColumn
  <2> QED BY <1>0, <2>1, <2>2 DEF TileInv, OutputNone, OutputIsPTimesV
<1>6. CASE Gemm1(0, "gemm1_0", "gemm1_1")
  <2>1. pc' = "gemm1_1" /\ UNCHANGED <<warp_id, row_lane, s_acc, stored>> /\ ScoresWhole /\ OutputNone
    BY <1>6 DEF Gemm1, TileInv
  <2>2. OutputHalf'
    <3>1. \A k_sub \in Halves, d \in Halves, r \in Regs :
            o_acc'[k_sub][d][r] = OutputProducts(0, ColumnOf(k_sub, d, r))
      <4> SUFFICES ASSUME NEW k_sub \in Halves, NEW d \in Halves, NEW r \in Regs
                   PROVE  o_acc'[k_sub][d][r] = OutputProducts(0, ColumnOf(k_sub, d, r))
        OBVIOUS
      <4>1. o_acc'[k_sub][d][r] = o_acc[k_sub][d][r] \cup OutputProducts(0, ColumnOf(k_sub, d, r))
        BY <1>2, <1>3, <1>6, <2>1
      <4>2. o_acc[k_sub][d][r] = {}
        BY <2>1 DEF OutputNone
      <4> QED BY <4>1, <4>2
    <3> QED BY <2>1, <3>1 DEF OutputHalf, OutputProducts, Share, WeightOf, ColumnOf, LaneOf, FreeRow, m_row
  <2>3. ScoresWhole'
    BY <2>1 DEF ScoresWhole, m_row, MaskColumn
  <2> QED BY <1>0, <2>1, <2>2, <2>3 DEF TileInv, OutputIsPTimesV
<1>7. CASE Gemm1(1, "gemm1_1", "epilogue")
  <2>1. pc' = "epilogue" /\ UNCHANGED <<warp_id, row_lane, s_acc, stored>> /\ ScoresWhole /\ OutputHalf
    BY <1>7 DEF Gemm1, TileInv
  <2>2. OutputWhole'
    <3>1. \A k_sub \in Halves, d \in Halves, r \in Regs :
            o_acc'[k_sub][d][r] = OutputProducts(0, ColumnOf(k_sub, d, r)) \cup OutputProducts(1, ColumnOf(k_sub, d, r))
      BY <1>2, <1>3, <1>7, <2>1 DEF OutputHalf
    <3>2. \A k_sub \in Halves, d \in Halves, r \in Regs : o_acc'[k_sub][d][r] = OutputSum(ColumnOf(k_sub, d, r))
      BY <3>1, TwoHalves
    <3>3. \A col : OutputSum(col)' = OutputSum(col)
      BY <2>1 DEF OutputSum, Share, WeightOf, m_row
    <3>4. \A k_sub, d, r : ColumnOf(k_sub, d, r)' = ColumnOf(k_sub, d, r)
      BY <2>1 DEF ColumnOf, LaneOf, FreeRow
    <3> QED BY <2>1, <3>2, <3>3, <3>4 DEF OutputWhole
  <2>3. ScoresWhole'
    BY <2>1 DEF ScoresWhole, m_row, MaskColumn
  <2> QED BY <1>0, <2>1, <2>2, <2>3 DEF TileInv, OutputIsPTimesV
<1>8. CASE EpilogStore
  <2>1. pc' = "done" /\ UNCHANGED <<warp_id, row_lane, s_acc, o_acc>> /\ ScoresWhole /\ OutputWhole
    BY <1>8 DEF EpilogStore, TileInv
  <2> DEFINE all == StoredBy(0) \cup StoredBy(1)
             X(col) == <<col, OutputSum(col)>>
  <2>2. stored' = [col \in {x[1] : x \in all} |-> {x[2] : x \in {y \in all : y[1] = col}}]
    BY <1>8 DEF EpilogStore
  <2>3. all = {X(col) : col \in 0..63}
    BY <1>0, <2>1, RowIsStored
  <2> HIDE DEF all
  <2>4. {x[1] : x \in all} = 0..63
    <3>1. \A col : X(col)[1] = col
      OBVIOUS
    <3> HIDE DEF X
    <3> QED BY <2>3, <3>1
  <2>5. ASSUME NEW col \in 0..63
        PROVE  {x[2] : x \in {y \in all : y[1] = col}} = {OutputSum(col)}
    <3>1. \A c : X(c)[1] = c /\ X(c)[2] = OutputSum(c)
      OBVIOUS
    <3> HIDE DEF X
    <3>2. \A y \in all : y[1] = col => y = X(col)
      BY <2>3, <3>1
    <3>3. X(col) \in all
      BY <2>3
    <3> QED BY <3>1, <3>2, <3>3
  <2>6. stored' = [col \in 0..63 |-> {OutputSum(col)}]
    BY <2>2, <2>4, <2>5
  <2>7. OutputIsPTimesV'
    BY <2>1, <2>6 DEF OutputIsPTimesV, OutputSum, Share, WeightOf, m_row
  <2>8. ScoresWhole'
    BY <2>1 DEF ScoresWhole, m_row, MaskColumn
  <2>9. OutputWhole'
    BY <2>1, OutputKept
  <2> QED BY <1>0, <2>1, <2>7, <2>8, <2>9 DEF TileInv
<1>9. CASE UNCHANGED vars
  <2>1. UNCHANGED <<warp_id, row_lane, pc, s_acc, o_acc, stored>>
    BY <1>9 DEF vars
  <2>2. ScoresHalf' <=> ScoresHalf
    BY <2>1 DEF ScoresHalf, ScoreProducts, m_row, MaskColumn
  <2>3. ScoresWhole' <=> ScoresWhole
    BY <2>1 DEF ScoresWhole, m_row, MaskColumn
  <2>4. OutputHalf' <=> OutputHalf
    BY <2>1, OutputKept
  <2>5. OutputWhole' <=> OutputWhole
    BY <2>1, OutputKept
  <2>6. (ScoresNone' <=> ScoresNone) /\ (OutputNone' <=> OutputNone) /\ (OutputIsPTimesV' <=> OutputIsPTimesV)
    BY <2>1 DEF ScoresNone, OutputNone, OutputIsPTimesV, m_row
  <2> QED BY <2>1, <2>2, <2>3, <2>4, <2>5, <2>6 DEF TileInv
<1> QED BY <1>4, <1>5, <1>6, <1>7, <1>8, <1>9 DEF Next, Finished

\* The invariant at the start.
LEMMA TileStart == Init => TileInv
<1> SUFFICES ASSUME Init PROVE TileInv
  OBVIOUS
<1>1. warp_id \in 0..3 /\ row_lane \in 0..31
  BY ScopeAssumption DEF Init
<1>2. \A k \in Halves, n \in Halves, r \in Regs : Empty[k][n][r] = {}
  BY DEF Empty
<1>3. pc = "gemm0_0" /\ ScoresNone /\ OutputNone
  BY <1>2 DEF Init, ScoresNone, OutputNone
<1> QED BY <1>1, <1>3 DEF TileInv, OutputIsPTimesV

\* Whatever row is followed, the masked scores are those of the keys the mask
\* takes them for (op_gemm.hpp, op_softmax.hpp).
THEOREM MaskMeetsItsScore == Spec => []ScoresAreDotProducts
<1>1. TileInv => ScoresAreDotProducts
  BY DEF TileInv, ScoresAreDotProducts, ScoresWhole
<1> QED BY <1>1, TileStart, TileStep, PTL DEF Spec

\* Whatever row is followed, its O row holds P times V, every column once
\* (op_gemm.hpp, op_epilog.hpp).
THEOREM OutputRowComplete == Spec => []OutputIsPTimesV
<1>1. TileInv => OutputIsPTimesV
  BY DEF TileInv
<1> QED BY <1>1, TileStart, TileStep, PTL DEF Spec

-----------------------------------------------------------------------------
(* The buffers                                                             *)

InBuffer(a) == a \in 0..4607

\* A byte of an element is inside its buffer.
LEMMA KByteInBuffer ==
  ASSUME NEW row \in 0..63, NEW col \in 0..31, NEW b \in 0..1
  PROVE  InBuffer(KByte(row, col, b))
<1>1. PICK z \in 0..3, y \in 0..3, x \in 0..3 : row = 16 * z + 4 * y + x
  BY RowDigits
<1>2. lds_elem_offset(row, col) = x * 136 + y * 32 + z * 544 + col
  BY <1>1, KOffset
<1> QED BY <1>2 DEF KByte, InBuffer

\* Likewise a byte of V.
LEMMA VByteInBuffer ==
  ASSUME NEW row \in 0..31, NEW col \in 0..63, NEW b \in 0..1
  PROVE  InBuffer(VByte(row, col, b))
<1>1. PICK x \in 0..3, k \in 0..7, y \in 0..7, z \in 0..7 : row = 8 * x + k /\ col = 8 * y + z
  BY VDigits
<1>2. v_lds_elem_offset(row, col) = x * 576 + y * 72 + z * 8 + k
  BY <1>1, VOffset
<1> QED BY <1>2 DEF VByte, InBuffer

\* The swizzle permutes the rows of a half.
LEMMA SwzRow ==
  ASSUME NEW x \in 0..31
  PROVE  swz(x) \in 0..31
<1>1. PICK a \in 0..1, b \in 0..1, c \in 0..1, d \in 0..3 : x = 16 * a + 8 * b + 4 * c + d
  OBVIOUS
<1>2. x % 16 = 8 * b + 4 * c + d /\ x % 4 = d /\ x \div 4 = 4 * a + 2 * b + c /\ x \div 8 = 2 * a + b
  BY <1>1
<1>3. (4 * a + 2 * b + c) % 2 = c /\ (2 * a + b) % 2 = b
  OBVIOUS
<1>4. swz(x) = (x - (8 * b + 4 * c + d)) + d + c * 8 + b * 4
  BY <1>2, <1>3 DEF swz
<1> QED BY <1>1, <1>4

\* The bytes a lane reads are those of elements.
LEMMA ReadsAreOfElements ==
  ASSUME NEW k_sub \in 0..1, NEW n \in 0..1, NEW kstep \in 0..1, NEW e \in 0..7, NEW l \in 0..31
  PROVE  /\ InBuffer((lds_elem_offset(32 * n + swz(l), kstep * 16 + k_sub * 8) + e) * 2 + 1)
         /\ InBuffer((v_lds_elem_offset(kstep * 16 + k_sub * 8, l + 32 * n) + e) * 2 + 1)
<1> DEFINE key == 32 * n + swz(l)
           d   == kstep * 16 + k_sub * 8
           col == l + 32 * n
           x   == 2 * kstep + k_sub
<1>1. key \in 0..63
  BY SwzRow
<1>2. d \in 0..31 /\ d + e \in 0..31 /\ col \in 0..63 /\ x \in 0..3 /\ 0 \in 0..7 /\ d = 8 * x + 0 /\ d + e = 8 * x + e
  OBVIOUS
<1> HIDE DEF key, d, col, x
<1>3. lds_elem_offset(key, d) + e = lds_elem_offset(key, d + e) /\ lds_elem_offset(key, d + e) \in Int
  <2>1. PICK z \in 0..3, y \in 0..3, v \in 0..3 : key = 16 * z + 4 * y + v
    BY <1>1, RowDigits
  <2>2. /\ lds_elem_offset(key, d) = v * 136 + y * 32 + z * 544 + d
        /\ lds_elem_offset(key, d + e) = v * 136 + y * 32 + z * 544 + (d + e)
    BY <1>2, <2>1, KOffset
  <2>3. d \in Int
    BY <1>2
  <2> QED BY <2>2, <2>3
<1>4. InBuffer((lds_elem_offset(key, d) + e) * 2 + 1)
  <2> DEFINE c == d + e
  <2>1. c \in 0..31 /\ 1 \in 0..1
    BY <1>2
  <2> HIDE DEF c
  <2>2. InBuffer(KByte(key, c, 1))
    BY <1>1, <2>1, KByteInBuffer
  <2>3. KByte(key, c, 1) = (lds_elem_offset(key, d) + e) * 2 + 1
    BY <1>3 DEF KByte, c
  <2> QED BY <2>2, <2>3
<1>5. v_lds_elem_offset(d, col) + e = v_lds_elem_offset(d + e, col) /\ v_lds_elem_offset(d + e, col) \in Int
  <2>1. PICK y \in 0..7, z \in 0..7 : col = 8 * y + z
    BY <1>2, VDigits
  <2>2. /\ v_lds_elem_offset(8 * x + 0, 8 * y + z) = x * 576 + y * 72 + z * 8 + 0
        /\ v_lds_elem_offset(8 * x + e, 8 * y + z) = x * 576 + y * 72 + z * 8 + e
    BY <1>2, VOffset
  <2>3. x \in Int
    BY <1>2
  <2> QED BY <1>2, <2>1, <2>2, <2>3
<1>6. InBuffer((v_lds_elem_offset(d, col) + e) * 2 + 1)
  <2> DEFINE c == d + e
  <2>1. c \in 0..31 /\ 1 \in 0..1
    BY <1>2
  <2> HIDE DEF c
  <2>2. InBuffer(VByte(c, col, 1))
    BY <1>2, <2>1, VByteInBuffer
  <2>3. VByte(c, col, 1) = (v_lds_elem_offset(d, col) + e) * 2 + 1
    BY <1>5 DEF VByte, c
  <2> QED BY <2>2, <2>3
<1> QED BY <1>4, <1>6, Zenon DEF key, d, col

\* Every byte staged or read by the lanes of a row is inside its buffer.
LEMMA RowStaysInside ==
  ASSUME warp_id \in 0..3, row_lane \in 0..31
  PROVE  StaysInItsBuffer
<1> DEFINE inside(addrs) == addrs \subseteq 0..(kSmemBytes - 1)
           reads(k_sub) ==
             LET l == LaneOf(k_sub) IN
             UNION {{(lds_elem_offset(32 * n + swz(l % 32), kstep * 16 + k_sub * 8) + e) * 2 + 1,
                     (v_lds_elem_offset(kstep * 16 + k_sub * 8, (l % 32) + 32 * n) + e) * 2 + 1} :
                       n \in Halves, kstep \in 0..1, e \in 0..7}
<1>1. 0..(kSmemBytes - 1) = 0..4607
  BY DEF kSmemBytes
<1>2. warp_id \in Warps
  BY DEF Warps
<1>3. ASSUME NEW k_sub \in Halves
      PROVE  inside(UNION {{w[1] : w \in KCopyBytes(warp_id, LaneOf(k_sub), issue)} : issue \in 0..3})
  <2> SUFFICES ASSUME NEW issue \in 0..3, NEW w \in KCopyBytes(warp_id, LaneOf(k_sub), issue)
               PROVE  InBuffer(w[1])
    BY <1>1, SMTT(30) DEF InBuffer
  <2>1. IsKWrite(w)
    BY <1>2, LanesOfRow, KCopyIs
  <2>2. PICK row \in 0..63, col \in 0..31, b \in 0..1 : w = <<KByte(row, col, b), <<<<row, col>>, b>>>>
    BY <2>1 DEF IsKWrite
  <2>3. w[1] = KByte(row, col, b)
    BY <2>2
  <2> QED BY <2>3, KByteInBuffer
<1>4. ASSUME NEW k_sub \in Halves
      PROVE  inside({w[1] : w \in VStoreBytes(warp_id, LaneOf(k_sub))})
  <2> SUFFICES ASSUME NEW w \in VStoreBytes(warp_id, LaneOf(k_sub))
               PROVE  InBuffer(w[1])
    BY <1>1, SMTT(30) DEF InBuffer
  <2>1. IsVWrite(w)
    BY <1>2, LanesOfRow, VStoreIs
  <2>2. PICK row \in 0..31, col \in 0..63, b \in 0..1 : w = <<VByte(row, col, b), <<<<row, col>>, b>>>>
    BY <2>1 DEF IsVWrite
  <2>3. w[1] = VByte(row, col, b)
    BY <2>2
  <2> QED BY <2>3, VByteInBuffer
<1>5. ASSUME NEW k_sub \in Halves
      PROVE  inside(reads(k_sub))
  <2> DEFINE l == LaneOf(k_sub)
             k(n, kstep, e) == (lds_elem_offset(32 * n + swz(l % 32), kstep * 16 + k_sub * 8) + e) * 2 + 1
             v(n, kstep, e) == (v_lds_elem_offset(kstep * 16 + k_sub * 8, (l % 32) + 32 * n) + e) * 2 + 1
  <2>1. l % 32 \in 0..31 /\ k_sub \in 0..1
    BY LanesOfRow DEF Halves
  <2>2. ASSUME NEW n \in 0..1, NEW kstep \in 0..1, NEW e \in 0..7
        PROVE  InBuffer(k(n, kstep, e)) /\ InBuffer(v(n, kstep, e))
    BY <2>1, ReadsAreOfElements, Zenon
  <2>3. reads(k_sub) = UNION {{k(n, kstep, e), v(n, kstep, e)} : n \in 0..1, kstep \in 0..1, e \in 0..7}
    BY DEF Halves
  <2> HIDE DEF k, v, l, reads
  <2>4. reads(k_sub) \subseteq 0..4607
    <3> SUFFICES ASSUME NEW a \in reads(k_sub) PROVE InBuffer(a)
      BY DEF InBuffer
    <3>1. PICK n \in 0..1, kstep \in 0..1, e \in 0..7 : a = k(n, kstep, e) \/ a = v(n, kstep, e)
      BY <2>3
    <3> QED BY <2>2, <3>1
  <2> QED BY <1>1, <2>4
<1>6. buf_base_bytes(2) + kSmemBytes = kLdsBytes
  BY DEF buf_base_bytes, kSmemBytes, kLdsBytes
<1> QED BY <1>3, <1>4, <1>5, <1>6 DEF StaysInItsBuffer

\* Whatever row is followed, its lanes stage and read inside the buffer they were
\* given (op_lds.hpp, op_gemm.hpp).
THEOREM BuffersContainTheirTiles == Spec => []StaysInItsBuffer
<1>1. TileInv => StaysInItsBuffer
  BY RowStaysInside DEF TileInv
<1> QED BY <1>1, TileStart, TileStep, PTL DEF Spec
=============================================================================
