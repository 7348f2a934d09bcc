-------------------------- MODULE BlockWalkProofs --------------------------
(***************************************************************************)
(* Theorems about BlockWalk for all sequence lengths, M-tiles and rows,    *)
(* row strides and words: which keys a row attends, and where the reads    *)
(* and stores of its block go.                                             *)
(***************************************************************************)
EXTENDS BlockWalk, BasicFacts

(***************************************************************************)
(* The loop and its masks                                                  *)
(***************************************************************************)

Allowed(from, to) == {key \in from..to : MayAttend(abs_m_row, key)}

\* The 32 positions of each of a row's two lanes are the 64 keys of a tile.
LEMMA LanesCoverTile ==
  ASSUME NEW x \in 0..63
  PROVE  \E k_sub \in {0, 1}, off \in LaneOffsets : x = k_sub * 8 + off
<1> DEFINE k_sub == (x \div 8) % 2
           i     == ((x % 32) \div 16) * 8 + (x % 8)
           off   == (i \div 8) * 16 + (i % 8)
<1>1. k_sub \in {0, 1} /\ i \in 0..15
  OBVIOUS
<1>2. i \div 8 = (x % 32) \div 16 /\ i % 8 = x % 8
  OBVIOUS
<1>3. x = k_sub * 8 + off \/ x = k_sub * 8 + (off + 32)
  BY <1>2
<1>4. off \in LaneOffsets /\ off + 32 \in LaneOffsets
  BY <1>1 DEF LaneOffsets
<1> QED
  BY <1>1, <1>3, <1>4

\* The register offsets of a lane lie within the tile.
LEMMA LaneOffsetRange ==
  ASSUME NEW off \in LaneOffsets
  PROVE  off \in 0..55
BY DEF LaneOffsets

\* Masked or not, the two lanes of a row keep exactly the allowed keys of the
\* tile.
LEMMA TileKeys ==
  ASSUME TypeOK
  PROVE  LaneKeys(0) \cup LaneKeys(1) = Allowed(kv_offset, kv_offset + 63)
<1>1. ASSUME NEW k_sub \in {0, 1}, NEW off \in LaneOffsets
      PROVE  (FastPath \/ off < Limit(kv_offset + k_sub * 8))
             <=> MayAttend(abs_m_row, kv_offset + k_sub * 8 + off)
  BY LaneOffsetRange
     DEF FastPath, Limit, MayAttend, TypeOK, Least, mask_shift, kM0, kN0
<1>2. ASSUME NEW k_sub \in {0, 1}, NEW key \in LaneKeys(k_sub)
      PROVE  key \in Allowed(kv_offset, kv_offset + 63)
  <2>1. PICK off \in LaneOffsets :
          /\ key = kv_offset + k_sub * 8 + off
          /\ FastPath \/ off < Limit(kv_offset + k_sub * 8)
    BY DEF LaneKeys
  <2>2. key \in kv_offset..(kv_offset + 63)
    BY <2>1, LaneOffsetRange DEF TypeOK
  <2> QED BY <1>1, <2>1, <2>2 DEF Allowed
<1>3. ASSUME NEW key \in Allowed(kv_offset, kv_offset + 63)
      PROVE  key \in LaneKeys(0) \cup LaneKeys(1)
  <2>1. key \in Int /\ key - kv_offset \in 0..63 /\ MayAttend(abs_m_row, key)
    BY DEF Allowed, TypeOK
  <2>2. PICK k_sub \in {0, 1}, off \in LaneOffsets : key - kv_offset = k_sub * 8 + off
    BY <2>1, LanesCoverTile
  <2>3. key = kv_offset + k_sub * 8 + off
    BY <2>1, <2>2, LaneOffsetRange DEF TypeOK
  <2>4. FastPath \/ off < Limit(kv_offset + k_sub * 8)
    BY <1>1, <2>1, <2>3
  <2>5. key \in LaneKeys(k_sub)
    BY <2>3, <2>4 DEF LaneKeys
  <2> QED BY <2>5
<1> QED
  BY <1>2, <1>3

\* The loop walks far enough: no allowed key of a row of the sequence lies past
\* the last tile, although the causal bound skips the tiles past the diagonal.
LEMMA LoopReachesEveryKey ==
  ASSUME NEW key \in Int, TypeOK, abs_m_row < seqlen_q, MayAttend(abs_m_row, key)
  PROVE  key < kN0 * NumTotalLoop
<1>1. /\ key >= 0 /\ key < seqlen_k
      /\ has_mask => key < RawEndOf(seqlen_q, seqlen_k, m_tile_idx)
  BY DEF MayAttend, RawEndOf, Least, TypeOK, mask_shift, kM0
<1>2. RawEndOf(seqlen_q, seqlen_k, m_tile_idx) \in Int /\ SeqlenKEnd \in Int
  BY DEF RawEndOf, SeqlenKEndOf, SeqlenKEnd, CDiv, Least, TypeOK, mask_shift, kM0, kN0
<1>3. key < SeqlenKEnd
  BY <1>1, <1>2 DEF SeqlenKEnd, SeqlenKEndOf, CDiv, Least, TypeOK, kN0
<1> QED
  BY <1>1, <1>2, <1>3 DEF NumTotalLoop, LoopsTo, CDiv, kN0

(***************************************************************************)
(* The inductive invariant: the row has attended the allowed keys below    *)
(* the current tile.                                                       *)
(***************************************************************************)
WalkInv ==
  /\ TypeOK
  /\ pc = "start" => i_total_loops = 0 /\ kv_offset = 0 /\ attended = {}
  /\ pc \in {"tile", "done"} => num_total_loop = NumTotalLoop
  /\ pc = "tile" => /\ i_total_loops < num_total_loop
                    /\ kv_offset = kN0 * i_total_loops
                    /\ attended = Allowed(0, kv_offset - 1)
  /\ pc = "done" => attended = Allowed(0, kN0 * num_total_loop - 1)

\* Before the first tile nothing is attended.
LEMMA InitWalkInv == Init => WalkInv
BY InputAssumption DEF Init, WalkInv, TypeOK, kM0

\* Every tile adds exactly its attendable keys to those of the tiles before.
LEMMA NextWalkInv == WalkInv /\ [Next]_vars => WalkInv'
<1> SUFFICES ASSUME WalkInv, [Next]_vars PROVE WalkInv'
  OBVIOUS
<1>0. NumTotalLoop \in Int
  BY DEF WalkInv, TypeOK, NumTotalLoop, LoopsTo, SeqlenKEnd, SeqlenKEndOf, RawEndOf, CDiv, Least, mask_shift, kM0, kN0
<1>1. ASSUME UNCHANGED inputs
      PROVE  NumTotalLoop' = NumTotalLoop /\ \A a, b \in Int : Allowed(a, b)' = Allowed(a, b)
  BY <1>1 DEF inputs, NumTotalLoop, LoopsTo, SeqlenKEnd, SeqlenKEndOf, RawEndOf, CDiv, Least, mask_shift,
              Allowed, MayAttend
<1>2. CASE ReturnEarly
  BY <1>2 DEF ReturnEarly, WalkInv, TypeOK, inputs
<1>3. CASE Start
  <2>1. NumTotalLoop' = NumTotalLoop /\ \A a, b \in Int : Allowed(a, b)' = Allowed(a, b)
    BY <1>1, <1>3 DEF Start
  <2>2. \A b \in Int : b < 0 => Allowed(0, b) = {}
    BY DEF Allowed
  <2>3. TypeOK'
    BY <1>0, <1>3 DEF Start, WalkInv, TypeOK, inputs
  <2>4. /\ i_total_loops' = 0 /\ kv_offset' = 0 /\ attended' = {}
        /\ num_total_loop' = NumTotalLoop
    BY <1>3 DEF Start, WalkInv
  <2>5. CASE NumTotalLoop <= 0
    <3>1. pc' = "done" /\ kN0 * num_total_loop' - 1 \in Int /\ kN0 * num_total_loop' - 1 < 0
      BY <1>0, <1>3, <2>4, <2>5 DEF Start, kN0
    <3>2. Allowed(0, kN0 * num_total_loop - 1)' = {}
      BY <2>1, <2>2, <3>1
    <3> QED BY <2>1, <2>3, <2>4, <3>1, <3>2 DEF WalkInv
  <2>6. CASE ~(NumTotalLoop <= 0)
    <3>1. pc' = "tile" /\ kv_offset' - 1 = -1 /\ kv_offset' = kN0 * i_total_loops'
          /\ i_total_loops' < num_total_loop'
      BY <1>0, <1>3, <2>4, <2>6 DEF Start, kN0
    <3>2. Allowed(0, kv_offset - 1)' = {}
      BY <2>1, <2>2, <3>1
    <3> QED BY <2>1, <2>3, <2>4, <3>1, <3>2 DEF WalkInv
  <2> QED BY <2>5, <2>6
<1>4. CASE Tile
  <2>1. NumTotalLoop' = NumTotalLoop /\ \A a, b \in Int : Allowed(a, b)' = Allowed(a, b)
    BY <1>1, <1>4 DEF Tile
  <2>2. /\ i_total_loops < num_total_loop /\ kv_offset = kN0 * i_total_loops
        /\ attended = Allowed(0, kv_offset - 1) /\ num_total_loop = NumTotalLoop
        /\ kv_offset \in Nat /\ i_total_loops \in Nat /\ num_total_loop \in Int
    BY <1>4 DEF Tile, WalkInv, TypeOK
  <2>3. attended' = Allowed(0, kv_offset + 63)
    <3>1. attended' = Allowed(0, kv_offset - 1) \cup Allowed(kv_offset, kv_offset + 63)
      BY <1>4, <2>2, TileKeys DEF Tile, WalkInv
    <3> QED BY <2>2, <3>1 DEF Allowed
  <2>4. TypeOK'
    <3>1. attended' \subseteq Int
      BY <2>2, <2>3 DEF Allowed
    <3> QED BY <1>4, <2>2, <3>1 DEF Tile, WalkInv, TypeOK, inputs, kN0
  <2>5. CASE i_total_loops + 1 < num_total_loop
    <3>1. kv_offset' - 1 = kv_offset + 63 /\ kv_offset' = kN0 * i_total_loops' /\ pc' = "tile"
      BY <1>4, <2>2, <2>5 DEF Tile, kN0
    <3> QED BY <1>4, <2>1, <2>2, <2>3, <2>4, <2>5, <3>1 DEF Tile, WalkInv
  <2>6. CASE ~(i_total_loops + 1 < num_total_loop)
    <3>1. kN0 * num_total_loop - 1 = kv_offset + 63 /\ pc' = "done"
      BY <1>4, <2>2, <2>6 DEF Tile, kN0
    <3> QED BY <1>4, <2>1, <2>2, <2>3, <2>4, <3>1 DEF Tile, WalkInv
  <2> QED BY <2>5, <2>6
<1>5. CASE UNCHANGED vars
  BY <1>1, <1>5 DEF vars, inputs, WalkInv, TypeOK, kN0
<1> QED
  BY <1>2, <1>3, <1>4, <1>5 DEF Next, Finished

\* At the last tile the keys walked are all the row may attend.
LEMMA WalkInvAttends == WalkInv => AttendsExactly
<1> SUFFICES ASSUME WalkInv, pc = "done", abs_m_row < seqlen_q
             PROVE  attended = {key \in 0..(seqlen_k - 1) : MayAttend(abs_m_row, key)}
  BY DEF AttendsExactly
<1>1. attended = Allowed(0, kN0 * NumTotalLoop - 1) /\ TypeOK /\ NumTotalLoop \in Int
  BY DEF WalkInv, TypeOK
<1>2. \A key \in Int : MayAttend(abs_m_row, key) => key < kN0 * NumTotalLoop
  BY <1>1, LoopReachesEveryKey
<1>3. \A key \in Int : MayAttend(abs_m_row, key) => key \in 0..(seqlen_k - 1)
  BY <1>1 DEF MayAttend, TypeOK
<1> QED
  BY <1>1, <1>2, <1>3 DEF Allowed, kN0

\* Every row of a sequence attends exactly the keys it may attend: for all
\* sequence lengths, M-tiles and rows, with and without the causal mask.
THEOREM RowAttendsExactly == Spec => []AttendsExactly
BY InitWalkInv, NextWalkInv, WalkInvAttends, PTL DEF Spec

\* A tile the loop reaches starts below the bound it was counted from.
LEMMA TileBelowBound ==
  ASSUME NEW bound \in Int, NEW i \in Nat, i < CDiv(bound + kN0 - 1, kN0)
  PROVE  kN0 * i < bound
BY DEF CDiv, kN0

\* The walk stops at the diagonal: the first key of the current tile is one the
\* last row of the M-tile may attend.
LEMMA WalkInvNotInVain == WalkInv => NoTileInVain
<1> SUFFICES ASSUME WalkInv, pc = "tile"
             PROVE  LET last_row == Least(m_tile_idx * kM0 + kM0, seqlen_q) - 1
                    IN  \E key \in kv_offset..(kv_offset + kN0 - 1) : MayAttend(last_row, key)
  BY DEF NoTileInVain
<1> DEFINE last_row == Least(m_tile_idx * kM0 + kM0, seqlen_q) - 1
           raw_end  == RawEndOf(seqlen_q, seqlen_k, m_tile_idx)
<1>1. /\ TypeOK /\ i_total_loops \in Nat
      /\ kv_offset = kN0 * i_total_loops
      /\ i_total_loops < CDiv(SeqlenKEnd + kN0 - 1, kN0)
  BY DEF WalkInv, TypeOK, NumTotalLoop, LoopsTo
<1>2. raw_end \in Int /\ SeqlenKEnd \in Int /\ CDiv(raw_end + kN0 - 1, kN0) \in Int
  BY <1>1 DEF RawEndOf, SeqlenKEnd, SeqlenKEndOf, CDiv, Least, TypeOK, kM0, kN0
<1>3. kv_offset < SeqlenKEnd /\ kv_offset \in Nat
  BY <1>1, <1>2, TileBelowBound DEF TypeOK
<1>4. SeqlenKEnd <= seqlen_k
  BY <1>1, <1>2 DEF SeqlenKEnd, SeqlenKEndOf, Least, TypeOK
<1>5. ASSUME has_mask PROVE kv_offset <= last_row + mask_shift
  <2>1. SeqlenKEnd <= CDiv(raw_end + kN0 - 1, kN0) * kN0
    BY <1>1, <1>2, <1>5 DEF SeqlenKEnd, SeqlenKEndOf, Least, TypeOK, kN0
  <2>2. i_total_loops < CDiv(raw_end + kN0 - 1, kN0)
    BY <1>1, <1>2, <1>3, <2>1 DEF kN0
  <2>3. kv_offset < raw_end
    BY <1>1, <1>2, <2>2, TileBelowBound
  <2>4. raw_end <= last_row + mask_shift + 1
    BY <1>1 DEF RawEndOf, Least, TypeOK, mask_shift, kM0
  <2>5. last_row + mask_shift \in Int
    BY <1>1 DEF Least, TypeOK, mask_shift, kM0
  <2> QED BY <1>2, <1>3, <2>3, <2>4, <2>5
<1>6. MayAttend(last_row, kv_offset)
  BY <1>1, <1>2, <1>3, <1>4, <1>5 DEF MayAttend, TypeOK
<1>7. kv_offset \in kv_offset..(kv_offset + kN0 - 1)
  BY <1>3 DEF kN0
<1> HIDE DEF last_row
<1>8. \E key \in kv_offset..(kv_offset + kN0 - 1) : MayAttend(last_row, key)
  BY <1>6, <1>7
<1> QED BY <1>8 DEF last_row

\* No block stages or multiplies a tile that none of its rows may attend: for
\* all sequence lengths and M-tiles.
THEOREM WalkNeverInVain == Spec => []NoTileInVain
BY InitWalkInv, NextWalkInv, WalkInvNotInVain, PTL DEF Spec

\* Types, for all inputs.
THEOREM TilingTypes == Spec => []TypeOK
<1>1. WalkInv => TypeOK
  BY DEF WalkInv
<1> QED
  BY <1>1, InitWalkInv, NextWalkInv, PTL DEF Spec

(***************************************************************************)
(* Words: what is computed modulo Modulus                                  *)
(***************************************************************************)

\* x and y are the same word.
Cong(x, y) == \E k \in Int : x = y + k * Modulus

\* Quotient and remainder of an int.
LEMMA IntDivMod ==
  ASSUME NEW a \in Int, NEW d \in Nat \ {0}
  PROVE  /\ a \div d \in Int /\ a % d \in 0..(d - 1)
         /\ a = d * (a \div d) + (a % d)
OBVIOUS

\* The same number is the same word.
LEMMA CongSelf == ASSUME NEW x \in Int PROVE Cong(x, x)
<1>1. x = x + 0 * Modulus
  BY WordAssumption
<1> QED BY <1>1 DEF Cong

\* Words of equal words.
LEMMA CongTrans ==
  ASSUME NEW x \in Int, NEW y \in Int, NEW z \in Int, Cong(x, y), Cong(y, z)
  PROVE  Cong(x, z)
<1>1. PICK k \in Int : x = y + k * Modulus
  BY DEF Cong
<1>2. PICK l \in Int : y = z + l * Modulus
  BY DEF Cong
<1>3. (k + l) * Modulus = k * Modulus + l * Modulus /\ k * Modulus \in Int /\ l * Modulus \in Int
  BY WordAssumption
<1>4. x = z + (k + l) * Modulus /\ k + l \in Int
  BY <1>1, <1>2, <1>3
<1> QED BY <1>4 DEF Cong

\* Sums of equal words.
LEMMA CongSum ==
  ASSUME NEW x \in Int, NEW y \in Int, NEW u \in Int, NEW v \in Int, Cong(x, u), Cong(y, v)
  PROVE  Cong(x + y, u + v)
<1>1. PICK k \in Int : x = u + k * Modulus
  BY DEF Cong
<1>2. PICK l \in Int : y = v + l * Modulus
  BY DEF Cong
<1>3. (k + l) * Modulus = k * Modulus + l * Modulus /\ k * Modulus \in Int /\ l * Modulus \in Int
  BY WordAssumption
<1>4. x + y = (u + v) + (k + l) * Modulus /\ k + l \in Int
  BY <1>1, <1>2, <1>3
<1> QED BY <1>4 DEF Cong

\* Multiples of equal words.
LEMMA CongTimes ==
  ASSUME NEW n \in Int, NEW x \in Int, NEW u \in Int, Cong(x, u)
  PROVE  Cong(n * x, n * u)
<1>1. PICK k \in Int : x = u + k * Modulus
  BY DEF Cong
<1> DEFINE km == k * Modulus
<1>2. km \in Int /\ x = u + km
  BY <1>1, WordAssumption
<1>3. n * km = (n * k) * Modulus /\ n * k \in Int
  BY WordAssumption
<1> HIDE DEF km
<1>4. n * x = n * u + n * km
  BY <1>2
<1> QED BY <1>3, <1>4 DEF Cong

\* An int is the word it wraps.
LEMMA WrapIsWord ==
  ASSUME NEW x \in Int
  PROVE  Bytes!Wrap(x) \in Int /\ Cong(Bytes!Wrap(x), x)
<1> DEFINE h == Modulus \div 2
           q == (x + h) \div Modulus
           r == (x + h) % Modulus
<1>1. h \in Int /\ Modulus \in Nat \ {0}
  BY WordAssumption
<1>2. Bytes!Wrap(x) = r - h
  BY DEF Bytes!Wrap
<1> HIDE DEF h
<1>3. q \in Int /\ r \in Int /\ x + h = Modulus * q + r
  BY <1>1, IntDivMod
<1> HIDE DEF q, r
<1>4. r - h = x + (-q) * Modulus
  BY <1>1, <1>3
<1>5. r - h \in Int /\ -q \in Int
  BY <1>1, <1>3
<1> QED BY <1>2, <1>4, <1>5 DEF Cong

\* Equal words are the same unsigned number.
LEMMA CongUnsigned ==
  ASSUME NEW x \in Int, NEW y \in Int, Cong(x, y)
  PROVE  Bytes!Unsigned(x) = y % Modulus
<1>1. PICK k \in Int : x = y + k * Modulus
  BY DEF Cong
<1> DEFINE qx == x \div Modulus
           rx == x % Modulus
           qy == y \div Modulus
           ry == y % Modulus
<1>2. Modulus \in Nat \ {0}
  BY WordAssumption
<1>3. /\ qx \in Int /\ rx \in 0..(Modulus - 1) /\ x = Modulus * qx + rx
      /\ qy \in Int /\ ry \in 0..(Modulus - 1) /\ y = Modulus * qy + ry
  BY <1>2, IntDivMod
<1> HIDE DEF qx, rx, qy, ry
<1> DEFINE d == qx - qy - k
<1>4. Modulus * d = Modulus * qx - Modulus * qy - Modulus * k /\ d \in Int
  BY <1>2, <1>3
<1>5. Modulus * d = ry - rx
  BY <1>1, <1>2, <1>3, <1>4
<1> HIDE DEF d
<1>6. ~(d >= 1)
  <2>1. d >= 1 => Modulus * d >= Modulus
    BY <1>2, <1>4
  <2> QED BY <1>2, <1>3, <1>5, <2>1
<1>7. ~(d <= -1)
  <2>1. d <= -1 => Modulus * d <= -Modulus
    BY <1>2, <1>4
  <2> QED BY <1>2, <1>3, <1>5, <2>1
<1>8. d = 0
  BY <1>4, <1>6, <1>7
<1>9. rx = ry
  BY <1>2, <1>3, <1>5, <1>8
<1> QED BY <1>9 DEF rx, ry, Bytes!Unsigned

\* A number within the word is its own remainder.
LEMMA WordItself ==
  ASSUME NEW x \in 0..(Modulus - 1)
  PROVE  x % Modulus = x
BY WordAssumption

\* A sum of words, computed as ints are.
LEMMA WrapSum ==
  ASSUME NEW x \in Int, NEW y \in Int, NEW u \in Int, NEW v \in Int, Cong(x, u), Cong(y, v)
  PROVE  Bytes!Wrap(x + y) \in Int /\ Cong(Bytes!Wrap(x + y), u + v)
<1>1. Bytes!Wrap(x + y) \in Int /\ Cong(Bytes!Wrap(x + y), x + y)
  BY WrapIsWord
<1>2. Cong(x + y, u + v) /\ x + y \in Int /\ u + v \in Int
  BY CongSum
<1> QED BY <1>1, <1>2, CongTrans

(***************************************************************************)
(* Addresses                                                               *)
(***************************************************************************)

\* The first byte of row n.
RowByte(n) == n * (stride * 2)

\* Rows follow one another; a chunk lies in its row.
LEMMA RowByteSum ==
  ASSUME stride \in Nat
  PROVE  /\ \A a \in Int : RowByte(a) \in Int
         /\ \A a, b \in Int : RowByte(a) + RowByte(b) = RowByte(a + b)
         /\ \A a, col \in Int : RowByte(a) + col * 2 = Bytes!Place(a, col)
<1> DEFINE s2 == stride * 2
<1>1. s2 \in Nat
  OBVIOUS
<1>2. \A a \in Int : RowByte(a) = a * s2
  BY DEF RowByte
<1>3. \A a, col \in Int : RowByte(a) + col * 2 = Bytes!Place(a, col)
  BY DEF RowByte, Bytes!Place
<1> HIDE DEF s2
<1>4. \A a \in Int : a * s2 \in Int
  BY <1>1
<1>5. \A a, b \in Int : a * s2 + b * s2 = (a + b) * s2
  BY <1>1
<1> QED BY <1>2, <1>3, <1>4, <1>5

\* A number of rows, as the code computes its bytes.
LEMMA RowsInBytes ==
  ASSUME stride \in Nat, NEW n \in Int
  PROVE  /\ Bytes!Wrap(n * Bytes!stride_bytes) \in Int
         /\ Cong(Bytes!Wrap(n * Bytes!stride_bytes), RowByte(n))
<1> DEFINE sb == Bytes!stride_bytes
           s2 == stride * 2
<1>1. s2 \in Int
  OBVIOUS
<1>2. sb = Bytes!Wrap(s2)
  BY DEF Bytes!stride_bytes
<1>3. RowByte(n) = n * s2
  BY DEF RowByte
<1> HIDE DEF s2
<1>4. sb \in Int /\ Cong(sb, s2)
  BY <1>1, <1>2, WrapIsWord
<1> HIDE DEF sb
<1>5. Cong(n * sb, n * s2)
  BY <1>1, <1>4, CongTimes
<1>6. n * sb \in Int /\ n * s2 \in Int
  BY <1>1, <1>4
<1>7. Bytes!Wrap(n * sb) \in Int /\ Cong(Bytes!Wrap(n * sb), n * sb)
  BY <1>6, WrapIsWord
<1>8. Bytes!Wrap(n * sb) \in Int /\ Cong(Bytes!Wrap(n * sb), RowByte(n))
  BY <1>3, <1>5, <1>6, <1>7, CongTrans
<1> QED BY <1>8 DEF sb

\* Some bytes further.
LEMMA WrapAdvance ==
  ASSUME NEW x \in Int, NEW u \in Int, NEW d \in Int, Cong(x, u)
  PROVE  Bytes!Wrap(x + d) \in Int /\ Cong(Bytes!Wrap(x + d), u + d)
BY WrapSum, CongSelf

\* Some rows further.
LEMMA WrapRows ==
  ASSUME stride \in Nat, NEW x \in Int, NEW a \in Int, NEW n \in Int, Cong(x, RowByte(a))
  PROVE  LET y == Bytes!Wrap(x + Bytes!Wrap(n * Bytes!stride_bytes))
         IN  y \in Int /\ Cong(y, RowByte(a + n))
<1> DEFINE w == Bytes!Wrap(n * Bytes!stride_bytes)
<1>1. w \in Int /\ Cong(w, RowByte(n))
  BY RowsInBytes
<1> HIDE DEF w
<1>2. RowByte(a) \in Int /\ RowByte(n) \in Int /\ RowByte(a) + RowByte(n) = RowByte(a + n)
  BY RowByteSum
<1>3. Bytes!Wrap(x + w) \in Int /\ Cong(Bytes!Wrap(x + w), RowByte(a) + RowByte(n))
  BY <1>1, <1>2, WrapSum
<1>4. Bytes!Wrap(x + w) \in Int /\ Cong(Bytes!Wrap(x + w), RowByte(a + n))
  BY <1>2, <1>3
<1> QED BY <1>4 DEF w

\* The offset of a row of Q.
LEMMA QAddress ==
  ASSUME stride \in Nat, NEW row \in Nat, NEW col \in Bytes!Columns
  PROVE  /\ Bytes!QVoffset(row, col) \in Int
         /\ Cong(Bytes!QVoffset(row, col), Bytes!Place(row, col))
<1> DEFINE w == Bytes!Wrap(row * Bytes!stride_bytes)
<1>1. w \in Int /\ Cong(w, RowByte(row)) /\ RowByte(row) \in Int
  BY RowsInBytes, RowByteSum
<1>2. Bytes!QVoffset(row, col) = Bytes!Wrap(w + col * 2) /\ col \in Int /\ col * 2 \in Int
  BY DEF Bytes!QVoffset, Bytes!Columns
<1> HIDE DEF w
<1>3. RowByte(row) + col * 2 = Bytes!Place(row, col)
  BY <1>2, RowByteSum
<1>4. Bytes!Wrap(w + col * 2) \in Int /\ Cong(Bytes!Wrap(w + col * 2), RowByte(row) + col * 2)
  BY <1>1, <1>2, WrapAdvance
<1> QED BY <1>2, <1>3, <1>4

\* The running sum of K's offsets: voffset is a fixed point of Issues.
Issues(voffset, r, col) ==
  [issue \in 0..3 |->
     IF issue = 0
     THEN Bytes!Wrap(Bytes!Wrap(kv_k_byte + Bytes!Wrap((r % 16) * Bytes!stride_bytes)) + col * 2)
     ELSE Bytes!Wrap(voffset[issue - 1] + Bytes!Wrap(16 * Bytes!stride_bytes))]

\* One exists: what issue 0 starts, each of the next three continues.
LEMMA IssuesExist ==
  ASSUME NEW r, NEW col
  PROVE  \E f : f = Issues(f, r, col)
<1> DEFINE d  == Bytes!Wrap(16 * Bytes!stride_bytes)
           v0 == Bytes!Wrap(Bytes!Wrap(kv_k_byte + Bytes!Wrap((r % 16) * Bytes!stride_bytes)) + col * 2)
           v1 == Bytes!Wrap(v0 + d)
           v2 == Bytes!Wrap(v1 + d)
           v3 == Bytes!Wrap(v2 + d)
           f  == [issue \in 0..3 |-> IF issue = 0 THEN v0 ELSE IF issue = 1 THEN v1
                                     ELSE IF issue = 2 THEN v2 ELSE v3]
           g  == [issue \in 0..3 |-> IF issue = 0 THEN v0 ELSE Bytes!Wrap(f[issue - 1] + d)]
<1>1. g = Issues(f, r, col)
  BY Zenon DEF Issues
<1> HIDE DEF v0, d
<1>2. f[0] = v0 /\ f[1] = v1 /\ f[2] = v2
  OBVIOUS
<1> HIDE DEF f
<1>3. \A issue \in 0..3 : g[issue] = IF issue = 0 THEN v0 ELSE IF issue = 1 THEN v1
                                     ELSE IF issue = 2 THEN v2 ELSE v3
  <2>1. g[0] = v0
    OBVIOUS
  <2>2. g[1] = Bytes!Wrap(f[0] + d) /\ g[2] = Bytes!Wrap(f[1] + d) /\ g[3] = Bytes!Wrap(f[2] + d)
    OBVIOUS
  <2>3. g[1] = v1 /\ g[2] = v2 /\ g[3] = v3
    BY <1>2, <2>2
  <2>4. \A issue \in 0..3 : issue = 0 \/ issue = 1 \/ issue = 2 \/ issue = 3
    OBVIOUS
  <2> HIDE DEF g, v1, v2, v3
  <2> QED BY <2>1, <2>3, <2>4
<1> HIDE DEF v1, v2, v3
<1>4. g = [issue \in 0..3 |-> g[issue]]
  OBVIOUS
<1> HIDE DEF g
<1>5. f = g
  BY <1>3, <1>4 DEF f
<1> QED BY <1>1, <1>5

\* The offset of a row of K, whichever of the four issues copies it.
LEMMA KAddress ==
  ASSUME stride \in Nat, kv_k_byte \in Int, kv_offset \in Nat, Cong(kv_k_byte, RowByte(kv_offset)),
         NEW r \in 0..63, NEW col \in Bytes!Columns
  PROVE  /\ Bytes!KVoffset(r, col) \in Int
         /\ Cong(Bytes!KVoffset(r, col), Bytes!Place(kv_offset + r, col))
<1> DEFINE f == CHOOSE g : g = Issues(g, r, col)
<1>1. Bytes!KVoffset(r, col) = f[r \div 16]
  BY Zenon DEF Bytes!KVoffset, Issues
<1>2. f = Issues(f, r, col)
  BY IssuesExist
<1> HIDE DEF f
<1> DEFINE At(i) == /\ f[i] \in Int
                    /\ Cong(f[i], Bytes!Place(kv_offset + (r % 16) + 16 * i, col))
           d     == Bytes!Wrap(16 * Bytes!stride_bytes)
<1>3. d \in Int /\ Cong(d, RowByte(16))
  BY RowsInBytes
<1>4. /\ f[0] = Bytes!Wrap(Bytes!Wrap(kv_k_byte + Bytes!Wrap((r % 16) * Bytes!stride_bytes)) + col * 2)
      /\ \A i \in 1..3 : f[i] = Bytes!Wrap(f[i - 1] + d)
  BY <1>2 DEF Issues
<1> HIDE DEF d
<1>5. col \in Int /\ col * 2 \in Int /\ r % 16 \in Int
  BY DEF Bytes!Columns
<1>6. At(0)
  <2> DEFINE w == Bytes!Wrap(kv_k_byte + Bytes!Wrap((r % 16) * Bytes!stride_bytes))
  <2>1. w \in Int /\ Cong(w, RowByte(kv_offset + (r % 16))) /\ kv_offset + (r % 16) \in Int
    BY <1>5, WrapRows
  <2>2. f[0] = Bytes!Wrap(w + col * 2)
    BY <1>4
  <2> HIDE DEF w
  <2>3. /\ RowByte(kv_offset + (r % 16)) \in Int
        /\ RowByte(kv_offset + (r % 16)) + col * 2 = Bytes!Place(kv_offset + (r % 16), col)
    BY <1>5, <2>1, RowByteSum
  <2>4. f[0] \in Int /\ Cong(f[0], Bytes!Place(kv_offset + (r % 16), col))
    BY <1>5, <2>1, <2>2, <2>3, WrapAdvance
  <2>5. kv_offset + (r % 16) = kv_offset + (r % 16) + 16 * 0
    BY <1>5
  <2> QED BY <2>4, <2>5
<1>7. ASSUME NEW i \in 1..3, At(i - 1)
      PROVE  At(i)
  <2> DEFINE a == kv_offset + (r % 16) + 16 * (i - 1)
             b == kv_offset + (r % 16) + 16 * i
  <2>1. a \in Int /\ b \in Int /\ b = a + 16
    BY <1>5
  <2>2. f[i - 1] \in Int /\ Cong(f[i - 1], Bytes!Place(a, col))
    BY <1>7
  <2> HIDE DEF a, b
  <2>3. /\ RowByte(a) + RowByte(16) = RowByte(b)
        /\ RowByte(a) \in Int /\ RowByte(16) \in Int /\ RowByte(b) \in Int
    <3>1. RowByte(a) + RowByte(16) = RowByte(a + 16) /\ a + 16 \in Int /\ 16 \in Int
      BY <2>1, RowByteSum
    <3>2. RowByte(a) \in Int /\ RowByte(16) \in Int /\ RowByte(a + 16) \in Int
      BY <2>1, <3>1, RowByteSum
    <3> QED BY <2>1, <3>1, <3>2
  <2>4. /\ RowByte(a) + col * 2 = Bytes!Place(a, col)
        /\ RowByte(b) + col * 2 = Bytes!Place(b, col)
    BY <1>5, <2>1, RowByteSum
  <2>5. Bytes!Place(a, col) \in Int /\ Bytes!Place(a, col) + RowByte(16) = Bytes!Place(b, col)
    BY <1>5, <2>3, <2>4
  <2>6. f[i] \in Int /\ Cong(f[i], Bytes!Place(a, col) + RowByte(16))
    <3> DEFINE x == f[i - 1]
               u == Bytes!Place(a, col)
    <3>1. f[i] = Bytes!Wrap(x + d)
      BY <1>4
    <3>2. x \in Int /\ u \in Int /\ Cong(x, u) /\ d \in Int /\ RowByte(16) \in Int /\ Cong(d, RowByte(16))
      BY <1>3, <2>2, <2>3, <2>5
    <3> HIDE DEF x, u
    <3>3. Bytes!Wrap(x + d) \in Int /\ Cong(Bytes!Wrap(x + d), u + RowByte(16))
      BY <3>2, WrapSum
    <3> QED BY <3>1, <3>3 DEF u
  <2>7. f[i] \in Int /\ Cong(f[i], Bytes!Place(b, col))
    BY <2>5, <2>6
  <2> QED BY <2>7 DEF b
<1> HIDE DEF At
<1>8. At(1)
  BY <1>6, <1>7
<1>9. At(2)
  BY <1>8, <1>7
<1>10. At(3)
  BY <1>9, <1>7
<1>11. r \div 16 \in 0..3 /\ kv_offset + (r % 16) + 16 * (r \div 16) = kv_offset + r
  OBVIOUS
<1>12. At(r \div 16)
  BY <1>6, <1>8, <1>9, <1>10, <1>11
<1> QED BY <1>1, <1>11, <1>12 DEF At

\* The offset of a row of V, in either half and either place of its pair.
LEMMA VAddress ==
  ASSUME stride \in Nat, kv_v_byte \in Int, kv_offset \in Nat, Cong(kv_v_byte, RowByte(kv_offset)),
         NEW r \in 0..63, NEW col \in Bytes!Columns
  PROVE  /\ Bytes!VVoffset(r, col) \in Int
         /\ Cong(Bytes!VVoffset(r, col), Bytes!Place(kv_offset + r, col))
<1> DEFINE n0   == (r \div 32) * 32
           n1   == (r % 32) - (r % 2)
           base == Bytes!Wrap(kv_v_byte + Bytes!Wrap(n0 * Bytes!stride_bytes))
           pair == Bytes!Wrap(base + Bytes!Wrap(n1 * Bytes!stride_bytes))
           voff_0 == Bytes!Wrap(pair + col * 2)
           voff_1 == Bytes!Wrap(voff_0 + Bytes!stride_bytes)
<1>1. Bytes!VVoffset(r, col) = IF r % 2 = 0 THEN voff_0 ELSE voff_1
  BY DEF Bytes!VVoffset
<1>2. /\ n0 \in Int /\ n1 \in Int /\ col \in Int /\ col * 2 \in Int
      /\ n0 + n1 = r - (r % 2) /\ (r % 2 = 0 \/ r % 2 = 1)
  BY DEF Bytes!Columns
<1> HIDE DEF n0, n1
<1>3. base \in Int /\ Cong(base, RowByte(kv_offset + n0)) /\ kv_offset + n0 \in Int
  BY <1>2, WrapRows
<1> HIDE DEF base
<1>4. pair \in Int /\ Cong(pair, RowByte(kv_offset + n0 + n1)) /\ kv_offset + n0 + n1 \in Int
  BY <1>2, <1>3, WrapRows
<1> HIDE DEF pair
<1>5. /\ RowByte(kv_offset + n0 + n1) \in Int
      /\ RowByte(kv_offset + n0 + n1) + col * 2 = Bytes!Place(kv_offset + n0 + n1, col)
  BY <1>2, <1>4, RowByteSum
<1>6. voff_0 \in Int /\ Cong(voff_0, Bytes!Place(kv_offset + n0 + n1, col))
  <2> DEFINE u == RowByte(kv_offset + n0 + n1)
             d == col * 2
  <2>1. pair \in Int /\ u \in Int /\ d \in Int /\ Cong(pair, u)
    BY <1>2, <1>4, <1>5
  <2>2. u + d = Bytes!Place(kv_offset + n0 + n1, col)
    BY <1>5
  <2> HIDE DEF u, d
  <2>3. Bytes!Wrap(pair + d) \in Int /\ Cong(Bytes!Wrap(pair + d), u + d)
    BY <2>1, WrapAdvance
  <2> QED BY <2>2, <2>3 DEF d
<1> HIDE DEF voff_0
<1>7. CASE r % 2 = 0
  <2>1. kv_offset + n0 + n1 = kv_offset + r
    BY <1>2, <1>7
  <2> QED BY <1>1, <1>6, <1>7, <2>1
<1>8. CASE r % 2 = 1
  <2>1. kv_offset + n0 + n1 + 1 = kv_offset + r
    BY <1>2, <1>8
  <2>2. Bytes!stride_bytes \in Int /\ Cong(Bytes!stride_bytes, stride * 2) /\ stride * 2 \in Int
    BY WrapIsWord DEF Bytes!stride_bytes
  <2>3. Bytes!Place(kv_offset + n0 + n1, col) + stride * 2 = Bytes!Place(kv_offset + r, col)
    <3> DEFINE m == kv_offset + n0 + n1
    <3>1. m \in Int /\ m + 1 = kv_offset + r
      BY <1>4, <2>1
    <3> HIDE DEF m
    <3>2. RowByte(m) + RowByte(1) = RowByte(m + 1) /\ RowByte(m) \in Int /\ RowByte(1) = stride * 2
      BY <3>1, RowByteSum DEF RowByte
    <3>3. /\ RowByte(m) + col * 2 = Bytes!Place(m, col)
          /\ RowByte(m + 1) + col * 2 = Bytes!Place(m + 1, col)
      <4>1. \A a \in Int : RowByte(a) + col * 2 = Bytes!Place(a, col)
        BY <1>2, RowByteSum
      <4> QED BY <3>1, <4>1
    <3>4. Bytes!Place(m, col) + stride * 2 = Bytes!Place(m + 1, col)
      BY <1>2, <3>2, <3>3
    <3> QED BY <3>1, <3>4 DEF m
  <2>4. Bytes!Place(kv_offset + n0 + n1, col) \in Int
    BY <1>2, <1>5
  <2>5. voff_1 \in Int /\ Cong(voff_1, Bytes!Place(kv_offset + r, col))
    BY <1>6, <2>2, <2>3, <2>4, WrapSum
  <2> QED BY <1>1, <1>8, <2>5
<1> QED BY <1>2, <1>7, <1>8

\* A chunk of a row of the sequence ends within the sequence.
LEMMA ChunkInExtent ==
  ASSUME stride \in Nat, stride >= 64, NEW len \in Nat, NEW row \in Nat, row < len,
         NEW col \in 0..60
  PROVE  Bytes!Place(row, col) \in Nat /\ Bytes!Place(row, col) + 8 <= Bytes!Extent(len)
<1> DEFINE rs == row * stride
           ls == len * stride
<1>1. rs \in Nat /\ ls \in Nat
  OBVIOUS
<1>2. rs + stride <= ls
  <2>1. row + 1 <= len /\ row + 1 \in Nat
    OBVIOUS
  <2>2. (row + 1) * stride <= len * stride
    BY <2>1
  <2>3. (row + 1) * stride = rs + stride
    OBVIOUS
  <2> QED BY <2>2, <2>3
<1>3. Bytes!Place(row, col) = (rs + col) * 2 /\ Bytes!Extent(len) = ls * 2
  BY DEF Bytes!Place, Bytes!Extent
<1> HIDE DEF rs, ls
<1> QED BY <1>1, <1>2, <1>3

\* The offsets of a store, where the word addresses the sequence.
LEMMA OAddress ==
  ASSUME stride \in Nat, stride >= 64, NEW len \in Nat, Bytes!Extent(len) <= Modulus,
         NEW row \in Nat, row < len, NEW col \in Bytes!Columns
  PROVE  /\ Bytes!OVoffset(row, col) + Bytes!soffset(col) = Bytes!Place(row, col)
         /\ Bytes!OVoffset(row, col) \in Int /\ Bytes!soffset(col) \in Nat
<1> DEFINE lane == col % 8
           w1   == Bytes!Wrap(row * stride)
           w2   == Bytes!Wrap(w1 + lane)
           w3   == Bytes!Wrap(w2 * 2)
<1>1. /\ lane \in 0..60 /\ col \in 0..60
      /\ lane * 2 + (col \div 8) * 16 = col * 2
  BY DEF Bytes!Columns
<1>2. Bytes!OVoffset(row, col) = Bytes!Unsigned(w3) /\ Bytes!soffset(col) = (col \div 8) * 16
  BY DEF Bytes!OVoffset, Bytes!soffset
<1> HIDE DEF lane
<1> DEFINE rs == row * stride
<1>3. rs \in Int
  OBVIOUS
<1>4. w1 = Bytes!Wrap(rs)
  OBVIOUS
<1>5. Bytes!Place(row, lane) = (rs + lane) * 2 /\ Bytes!Place(row, col) = (rs + col) * 2
  BY DEF Bytes!Place
<1> HIDE DEF rs, w1
<1>6. w1 \in Int /\ Cong(w1, rs)
  BY <1>3, <1>4, WrapIsWord
<1>7. lane \in Int
  BY <1>1
<1>8. w2 \in Int /\ Cong(w2, rs + lane)
  BY <1>3, <1>6, <1>7, WrapAdvance
<1> HIDE DEF w2
<1>9. Cong(2 * w2, 2 * (rs + lane))
  <2> DEFINE u == rs + lane
             n == 2
  <2>1. n \in Int /\ u \in Int /\ w2 \in Int /\ Cong(w2, u)
    BY <1>3, <1>7, <1>8
  <2> HIDE DEF n, u
  <2>2. Cong(n * w2, n * u)
    BY <2>1, CongTimes
  <2> QED BY <2>2 DEF n, u
<1>10. w2 * 2 = 2 * w2 /\ 2 * (rs + lane) = (rs + lane) * 2
  BY <1>3, <1>7, <1>8
<1> DEFINE twice == w2 * 2
           place == Bytes!Place(row, lane)
<1>11. twice \in Int /\ place \in Int /\ Cong(twice, place)
  BY <1>3, <1>5, <1>7, <1>8, <1>9, <1>10
<1>12. w3 = Bytes!Wrap(twice)
  OBVIOUS
<1>13. place \in 0..(Modulus - 1)
  <2>1. place \in Nat /\ place + 8 <= Bytes!Extent(len)
    BY <1>1, ChunkInExtent
  <2>2. Bytes!Extent(len) \in Nat
    BY DEF Bytes!Extent
  <2> HIDE DEF place
  <2> QED BY <2>1, <2>2, WordAssumption
<1> HIDE DEF twice, place, w3
<1>14. w3 \in Int /\ Cong(w3, place)
  BY <1>11, <1>12, WrapIsWord, CongTrans
<1>15. Bytes!Unsigned(w3) = place % Modulus
  BY <1>11, <1>14, CongUnsigned
<1>16. Bytes!Unsigned(w3) = place
  BY <1>13, <1>15, WordItself
<1>17. place = (rs + lane) * 2
  BY <1>5 DEF place
<1>18. (col \div 8) * 16 \in Nat
  BY <1>1
<1> DEFINE c16 == (col \div 8) * 16
<1>19. /\ Bytes!OVoffset(row, col) = (rs + lane) * 2 /\ Bytes!soffset(col) = c16
       /\ lane * 2 + c16 = col * 2 /\ c16 \in Nat
  BY <1>1, <1>2, <1>16, <1>17, <1>18
<1> HIDE DEF c16
<1>20. (rs + lane) * 2 + c16 = (rs + col) * 2
  BY <1>1, <1>3, <1>7, <1>19
<1>21. (rs + lane) * 2 \in Int
  BY <1>3, <1>7
<1> QED BY <1>5, <1>19, <1>20, <1>21

(***************************************************************************)
(* The inductive invariant: the bases of the tile and every read so far    *)
(* are in their place modulo the word.                                     *)
(***************************************************************************)
BasesInPlace ==
  /\ kv_k_byte \in Int /\ kv_v_byte \in Int
  /\ stage \in {"q", "tile"} => /\ Cong(kv_k_byte, RowByte(kv_offset))
                               /\ Cong(kv_v_byte, RowByte(kv_offset))

InPlace(f) ==
  f[2] \in Nat /\ f[3] \in Bytes!Columns /\ f[4] = Bytes!Place(f[2], f[3]) % Modulus

PlacesInv ==
  /\ stride \in Strides
  /\ BasesInPlace
  /\ \A f \in fetched : InPlace(f)
  /\ stage # "done" => o_bytes = << >>
  /\ StoresFindTheirRow

BlockInv == WalkInv /\ PlacesInv

WalkNext == StartBlock \/ WalkTile \/ Epilogue \/ Leave \/ Skip

\* A stride is one.
LEMMA StrideType == PlacesInv => stride \in Nat /\ stride >= 64
BY WordAssumption DEF PlacesInv

\* A read at a word that is a place is in place.
LEMMA ReadInPlace ==
  ASSUME NEW tensor, NEW row \in Nat, NEW col \in Bytes!Columns, NEW v \in Int,
         stride \in Nat, Cong(v, Bytes!Place(row, col))
  PROVE  InPlace(<<tensor, row, col, Bytes!Unsigned(v)>>)
<1>1. Bytes!Place(row, col) \in Int
  BY DEF Bytes!Place, Bytes!Columns
<1>2. Bytes!Unsigned(v) = Bytes!Place(row, col) % Modulus
  BY <1>1, CongUnsigned
<1> QED BY <1>2 DEF InPlace

\* A read in place finds its row.
LEMMA InPlaceFinds == BlockInv => ReadsFindTheirRow
<1> SUFFICES ASSUME BlockInv, NEW f \in fetched,
                    NEW len \in {seqlen_q, seqlen_k}, f[2] < len, Bytes!Extent(len) <= Modulus
             PROVE  f[4] = Bytes!Place(f[2], f[3])
  BY DEF ReadsFindTheirRow, Bytes!ReadsFindTheirRow
<1>1. InPlace(f) /\ stride \in Nat /\ stride >= 64
  BY StrideType DEF BlockInv, PlacesInv
<1>2. len \in Nat
  BY DEF BlockInv, WalkInv, TypeOK
<1>3. f[2] \in Nat /\ f[3] \in 0..60
  BY <1>1 DEF InPlace, Bytes!Columns
<1>4. Bytes!Place(f[2], f[3]) \in Nat /\ Bytes!Place(f[2], f[3]) + 8 <= Bytes!Extent(len)
  BY <1>1, <1>2, <1>3, ChunkInExtent
<1>5. Bytes!Extent(len) \in Nat
  BY <1>1, <1>2 DEF Bytes!Extent
<1>6. Bytes!Place(f[2], f[3]) \in 0..(Modulus - 1)
  BY <1>4, <1>5, WordAssumption
<1>7. f[4] = Bytes!Place(f[2], f[3]) % Modulus
  BY <1>1 DEF InPlace
<1> QED BY <1>6, <1>7, WordItself

\* Before the block starts nothing is read or stored.
LEMMA InitBlockInv == WalkInit => BlockInv
<1> SUFFICES ASSUME WalkInit PROVE BlockInv
  OBVIOUS
<1>1. WalkInv
  BY InitWalkInv DEF WalkInit
<1>2. /\ stride \in Strides /\ kv_k_byte = 0 /\ kv_v_byte = 0 /\ fetched = {}
      /\ o_bytes = << >> /\ stage = "q" /\ kv_offset = 0
  BY DEF WalkInit, Bytes!Init, Init
<1>3. RowByte(kv_offset) = 0
  BY <1>2, WordAssumption DEF RowByte
<1>4. BasesInPlace
  BY <1>2, <1>3, CongSelf DEF BasesInPlace
<1>5. StoresFindTheirRow
  BY <1>2 DEF StoresFindTheirRow, Bytes!StoresFindTheirRow
<1> QED BY <1>1, <1>2, <1>4, <1>5 DEF BlockInv, PlacesInv

\* Q is read where its rows are.
LEMMA LoadKeepsPlaces == BlockInv /\ StartBlock => PlacesInv'
<1> SUFFICES ASSUME BlockInv, StartBlock PROVE PlacesInv'
  OBVIOUS
<1>1. stride \in Nat /\ stride >= 64
  BY StrideType DEF BlockInv
<1>2. /\ UNCHANGED <<inputs, kv_offset, stride, kv_k_byte, kv_v_byte, o_bytes>>
      /\ stage = "q" /\ stage' \in {"tile", "epilog"}
  BY DEF StartBlock, Start, Bytes!LoadQ
<1>3. \A f \in fetched' : InPlace(f)'
  <2> SUFFICES ASSUME NEW f \in fetched' PROVE InPlace(f)'
    OBVIOUS
  <2>1. PICK row \in Bytes!QueryRows, col \in Bytes!Columns :
          f = <<"q", row, col, Bytes!Unsigned(Bytes!QVoffset(row, col))>>
    BY DEF StartBlock, Bytes!LoadQ
  <2>2. row \in Nat
    BY WordAssumption DEF Bytes!QueryRows, Bytes!kM0, BlockInv, WalkInv, TypeOK, kM0
  <2>3. InPlace(f)
    BY <1>1, <2>1, <2>2, QAddress, ReadInPlace
  <2> QED BY <1>2, <2>3 DEF InPlace, Bytes!Place, Bytes!Columns
<1>4. BasesInPlace'
  BY <1>2 DEF BlockInv, PlacesInv, BasesInPlace, Cong, RowByte
<1>5. o_bytes' = << >> /\ stride' \in Strides
  BY <1>2 DEF BlockInv, PlacesInv
<1>6. StoresFindTheirRow'
  BY <1>2, <1>5 DEF StoresFindTheirRow, Bytes!StoresFindTheirRow
<1> QED BY <1>3, <1>4, <1>5, <1>6 DEF PlacesInv

\* K and V are read where the rows of the tile are, and the bases advance by
\* what the tile does.
LEMMA TileKeepsPlaces == BlockInv /\ WalkTile => PlacesInv'
<1> SUFFICES ASSUME BlockInv, WalkTile PROVE PlacesInv'
  OBVIOUS
<1>1. stride \in Nat /\ stride >= 64 /\ kv_offset \in Nat
  BY StrideType DEF BlockInv, WalkInv, TypeOK
<1>2. /\ UNCHANGED <<inputs, stride, o_bytes>>
      /\ stage = "tile" /\ stage' \in {"tile", "epilog"}
  BY DEF WalkTile, Tile, Bytes!Tile
<1>3. /\ kv_k_byte \in Int /\ Cong(kv_k_byte, RowByte(kv_offset))
      /\ kv_v_byte \in Int /\ Cong(kv_v_byte, RowByte(kv_offset))
  BY <1>2 DEF BlockInv, PlacesInv, BasesInPlace
<1>4. \A f \in fetched' : InPlace(f)'
  <2> SUFFICES ASSUME NEW f \in fetched' PROVE InPlace(f)'
    OBVIOUS
  <2>1. CASE f \in fetched
    BY <1>2, <2>1 DEF BlockInv, PlacesInv, InPlace, Bytes!Place, Bytes!Columns
  <2>2. CASE \E r \in Bytes!TileRows, col \in Bytes!Columns :
               f = <<"k", kv_offset + r, col, Bytes!Unsigned(Bytes!KVoffset(r, col))>>
    <3>1. PICK r \in Bytes!TileRows, col \in Bytes!Columns :
            f = <<"k", kv_offset + r, col, Bytes!Unsigned(Bytes!KVoffset(r, col))>>
      BY <2>2
    <3>2. r \in 0..63 /\ kv_offset + r \in Nat
      BY <1>1 DEF Bytes!TileRows, Bytes!kN0
    <3>3. InPlace(f)
      BY <1>1, <1>3, <3>1, <3>2, KAddress, ReadInPlace
    <3> QED BY <1>2, <3>3 DEF InPlace, Bytes!Place, Bytes!Columns
  <2>3. CASE \E r \in Bytes!TileRows, col \in Bytes!Columns :
               f = <<"v", kv_offset + r, col, Bytes!Unsigned(Bytes!VVoffset(r, col))>>
    <3>1. PICK r \in Bytes!TileRows, col \in Bytes!Columns :
            f = <<"v", kv_offset + r, col, Bytes!Unsigned(Bytes!VVoffset(r, col))>>
      BY <2>3
    <3>2. r \in 0..63 /\ kv_offset + r \in Nat
      BY <1>1 DEF Bytes!TileRows, Bytes!kN0
    <3>3. InPlace(f)
      BY <1>1, <1>3, <3>1, <3>2, VAddress, ReadInPlace
    <3> QED BY <1>2, <3>3 DEF InPlace, Bytes!Place, Bytes!Columns
  <2> QED BY <2>1, <2>2, <2>3 DEF WalkTile, Bytes!Tile
<1>5. BasesInPlace'
  <2>1. CASE i_total_loops + 1 < num_total_loop
    <3>1. /\ kv_offset' = kv_offset + 64
          /\ kv_k_byte' = Bytes!Wrap(kv_k_byte + Bytes!Wrap(64 * Bytes!stride_bytes))
          /\ kv_v_byte' = Bytes!Wrap(kv_v_byte + Bytes!Wrap(64 * Bytes!stride_bytes))
      BY <2>1 DEF WalkTile, Tile, Bytes!Tile, kN0, Bytes!kN0
    <3>2. /\ kv_k_byte' \in Int /\ Cong(kv_k_byte', RowByte(kv_offset + 64))
          /\ kv_v_byte' \in Int /\ Cong(kv_v_byte', RowByte(kv_offset + 64))
      BY <1>1, <1>3, <3>1, WrapRows
    <3> QED BY <1>2, <3>1, <3>2 DEF BasesInPlace, Cong, RowByte
  <2>2. CASE ~(i_total_loops + 1 < num_total_loop)
    <3>1. stage' = "epilog" /\ UNCHANGED <<kv_k_byte, kv_v_byte>>
      BY <2>2 DEF WalkTile, Bytes!Tile
    <3> QED BY <1>3, <3>1 DEF BasesInPlace
  <2> QED BY <2>1, <2>2
<1>6. o_bytes' = << >> /\ stride' \in Strides
  BY <1>2 DEF BlockInv, PlacesInv
<1>7. StoresFindTheirRow'
  BY <1>2, <1>6 DEF StoresFindTheirRow, Bytes!StoresFindTheirRow
<1> QED BY <1>4, <1>5, <1>6, <1>7 DEF PlacesInv

\* O is stored where its rows are, and all of it where the descriptor spans it.
LEMMA EpilogueKeepsPlaces == BlockInv /\ Epilogue => PlacesInv'
<1> SUFFICES ASSUME BlockInv, Epilogue PROVE PlacesInv'
  OBVIOUS
<1> DEFINE chunks == {i \in Bytes!QueryRows : i < seqlen_q} \X Bytes!Columns
           at(c)  == Bytes!OVoffset(c[1], c[2]) + Bytes!soffset(c[2])
           checked(c, counted) == IF counted THEN at(c) ELSE Bytes!OVoffset(c[1], c[2])
<1>1. stride \in Nat /\ stride >= 64 /\ seqlen_q \in Nat /\ Bytes!QueryRows \subseteq Nat
  BY StrideType, WordAssumption DEF BlockInv, WalkInv, TypeOK, Bytes!QueryRows, Bytes!kM0, kM0
<1>2. /\ UNCHANGED <<vars, stride, kv_k_byte, kv_v_byte, fetched>> /\ stage' = "done"
      /\ \E counted \in BOOLEAN :
           LET into == {c \in chunks : 8 + checked(c, counted) <= Bytes!num_records}
           IN  o_bytes' = [a \in {at(c) : c \in into} |-> CHOOSE c \in into : at(c) = a]
  BY DEF Epilogue, Bytes!EpilogStore
<1>2a. PICK counted \in BOOLEAN :
         LET into == {c \in chunks : 8 + checked(c, counted) <= Bytes!num_records}
         IN  o_bytes' = [a \in {at(c) : c \in into} |-> CHOOSE c \in into : at(c) = a]
  BY <1>2
<1> DEFINE landed == {c \in chunks : 8 + checked(c, counted) <= Bytes!num_records}
<1>2b. o_bytes' = [a \in {at(c) : c \in landed} |-> CHOOSE c \in landed : at(c) = a]
  BY <1>2a
<1>3. ASSUME Bytes!Extent(seqlen_q) <= Modulus, NEW c \in chunks
      PROVE  /\ at(c) = Bytes!Place(c[1], c[2]) /\ c[1] \in Nat /\ c[1] < seqlen_q
             /\ c[2] \in Bytes!Columns /\ checked(c, counted) <= at(c) /\ checked(c, counted) \in Int
  <2>1. c[1] \in Nat /\ c[1] < seqlen_q /\ c[2] \in Bytes!Columns
    BY <1>1
  <2> QED BY <1>1, <1>3, <2>1, OAddress
<1>4. ASSUME Bytes!Extent(seqlen_q) <= Modulus, NEW a \in DOMAIN o_bytes'
      PROVE  a = Bytes!Place(o_bytes'[a][1], o_bytes'[a][2])
  <2>1. \E c \in landed : at(c) = a
    BY <1>2b
  <2>2. o_bytes'[a] = CHOOSE c \in landed : at(c) = a
    BY <1>2b
  <2>3. o_bytes'[a] \in landed /\ at(o_bytes'[a]) = a
    BY <2>1, <2>2
  <2>4. o_bytes'[a] \in chunks
    BY <2>3
  <2> QED BY <1>3, <1>4, <2>3, <2>4
<1>5. ASSUME Bytes!Extent(seqlen_q) <= Bytes!INT32_MAX,
             NEW row \in Bytes!QueryRows, NEW col \in Bytes!Columns, row < seqlen_q
      PROVE  Bytes!Place(row, col) \in DOMAIN o_bytes'
  <2>1. Bytes!num_records = Bytes!Extent(seqlen_q)
    BY <1>5 DEF Bytes!num_records, Bytes!Least, Bytes!Extent
  <2>2. Bytes!Extent(seqlen_q) \in Nat
    BY <1>1 DEF Bytes!Extent
  <2>3. Bytes!Extent(seqlen_q) <= Modulus
    BY <1>5, <2>2, WordAssumption DEF Bytes!INT32_MAX
  <2> DEFINE c == <<row, col>>
  <2>4. c \in chunks
    BY <1>5
  <2>5. at(c) = Bytes!Place(row, col) /\ checked(c, counted) <= at(c) /\ checked(c, counted) \in Int
    BY <1>3, <2>3, <2>4
  <2>6. row \in Nat /\ col \in 0..60
    BY <1>1 DEF Bytes!Columns
  <2>7. at(c) + 8 <= Bytes!num_records /\ at(c) \in Int
    <3>1. Bytes!Place(row, col) + 8 <= Bytes!num_records /\ Bytes!Place(row, col) \in Nat
      BY <1>1, <1>5, <2>1, <2>6, ChunkInExtent
    <3> HIDE DEF at
    <3> QED BY <2>5, <3>1
  <2>8. c \in landed
    <3>1. 8 + checked(c, counted) <= Bytes!num_records
      <4> DEFINE x == checked(c, counted)
                 y == at(c)
                 z == Bytes!num_records
      <4>1. x \in Int /\ y \in Int /\ z \in Nat /\ x <= y /\ y + 8 <= z
        BY <2>1, <2>2, <2>5, <2>7
      <4> HIDE DEF x, y, z
      <4>2. 8 + x <= z
        BY <4>1
      <4> QED BY <4>2 DEF x, z
    <3> QED BY <2>4, <3>1
  <2>9. DOMAIN o_bytes' = {at(e) : e \in landed}
    BY <1>2b
  <2> QED BY <2>5, <2>8, <2>9
<1>6. StoresFindTheirRow'
  <2>1. /\ Bytes!Extent(seqlen_q)' = Bytes!Extent(seqlen_q) /\ Bytes!INT32_MAX' = Bytes!INT32_MAX
        /\ Bytes!QueryRows' = Bytes!QueryRows /\ Bytes!Columns' = Bytes!Columns
        /\ \A row, col : Bytes!Place(row, col)' = Bytes!Place(row, col)
        /\ seqlen_q' = seqlen_q
    BY <1>2 DEF Bytes!Extent, Bytes!INT32_MAX, Bytes!QueryRows, Bytes!Columns, Bytes!Place, vars, inputs
  <2> QED BY <1>4, <1>5, <2>1 DEF StoresFindTheirRow, Bytes!StoresFindTheirRow
<1>7. BasesInPlace'
  BY <1>2 DEF BasesInPlace, BlockInv, PlacesInv
<1>8. \A f \in fetched' : InPlace(f)'
  BY <1>2 DEF BlockInv, PlacesInv, InPlace, Bytes!Place, Bytes!Columns
<1> QED BY <1>2, <1>6, <1>7, <1>8 DEF PlacesInv, BlockInv

\* What a step without reads and stores leaves.
LEMMA StillKeepsPlaces ==
  PlacesInv /\ UNCHANGED <<inputs, kv_offset, bytes>> => PlacesInv'
<1> SUFFICES ASSUME PlacesInv, UNCHANGED <<inputs, kv_offset, bytes>> PROVE PlacesInv'
  OBVIOUS
<1>1. UNCHANGED <<stride, kv_k_byte, kv_v_byte, fetched, o_bytes, stage, kv_offset, seqlen_q, m_tile_idx>>
  BY DEF bytes, inputs
<1>2. BasesInPlace'
  BY <1>1 DEF PlacesInv, BasesInPlace, Cong, RowByte
<1>3. \A f \in fetched' : InPlace(f)'
  BY <1>1 DEF PlacesInv, InPlace, Bytes!Place, Bytes!Columns
<1>4. StoresFindTheirRow'
  BY <1>1 DEF PlacesInv, StoresFindTheirRow, Bytes!StoresFindTheirRow, Bytes!Extent, Bytes!INT32_MAX,
              Bytes!QueryRows, Bytes!Columns, Bytes!Place
<1> QED BY <1>1, <1>2, <1>3, <1>4 DEF PlacesInv

\* A step of the block is a step of its loop.
LEMMA BlockStepIsLoopStep == [WalkNext]_<<vars, bytes>> => [Next]_vars
BY DEF WalkNext, StartBlock, WalkTile, Epilogue, Leave, Skip, Next, Finished, Bytes!EpilogStore

\* Every step keeps the invariant.
LEMMA NextBlockInv == BlockInv /\ [WalkNext]_<<vars, bytes>> => BlockInv'
<1> SUFFICES ASSUME BlockInv, [WalkNext]_<<vars, bytes>> PROVE BlockInv'
  OBVIOUS
<1>1. WalkInv'
  BY BlockStepIsLoopStep, NextWalkInv DEF BlockInv
<1>2. CASE StartBlock
  BY <1>1, <1>2, LoadKeepsPlaces DEF BlockInv
<1>3. CASE WalkTile
  BY <1>1, <1>3, TileKeepsPlaces DEF BlockInv
<1>4. CASE Epilogue
  BY <1>1, <1>4, EpilogueKeepsPlaces DEF BlockInv
<1>5. CASE Leave \/ Skip \/ UNCHANGED <<vars, bytes>>
  <2>1. UNCHANGED <<inputs, kv_offset, bytes>>
    BY <1>5 DEF Leave, Skip, ReturnEarly, vars
  <2> QED BY <1>1, <2>1, StillKeepsPlaces DEF BlockInv
<1> QED BY <1>2, <1>3, <1>4, <1>5 DEF WalkNext

\* The block's loop is KvTiling's: what is proved of it holds of the block.
THEOREM BlockWalksItsTiles == WalkSpec => Spec
<1>1. WalkInit => Init
  BY DEF WalkInit
<1> QED BY <1>1, BlockStepIsLoopStep, PTL DEF WalkSpec, Spec, WalkNext

\* The reads of every row of Q, K and V find it, for all strides and words,
\* although the offsets overflow.
THEOREM ReadsAlwaysFindTheirRow == WalkSpec => []ReadsFindTheirRow
BY InitBlockInv, NextBlockInv, InPlaceFinds, PTL DEF WalkSpec, WalkNext

\* The stores reach every chunk of every row the descriptor can span, and never
\* another row's.
THEOREM StoresAlwaysFindTheirRow == WalkSpec => []StoresFindTheirRow
<1>1. BlockInv => StoresFindTheirRow
  BY DEF BlockInv, PlacesInv
<1> QED BY <1>1, InitBlockInv, NextBlockInv, PTL DEF WalkSpec, WalkNext
=============================================================================
