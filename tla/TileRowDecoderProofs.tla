------------------------ MODULE TileRowDecoderProofs ------------------------
(***************************************************************************)
(* Proofs about TileRowDecoder, for every set of well-formed images and    *)
(* every way their bytes come in: the state stays well-typed, and a        *)
(* complete file whose tile rows of one macroblock row are not stored      *)
(* behind the next tile row comes out whole, in time, and without a byte   *)
(* being discarded that is still needed.                                   *)
(***************************************************************************)
EXTENDS TileRowDecoder, FiniteSetTheorems, TLAPS

-----------------------------------------------------------------------------
(* The least and the greatest of a set of numbers.                         *)

(* A set of natural numbers has a least element: of the intervals 0 .. k,  *)
(* k in the set, below one of its elements one is smallest.                *)
LEMMA LeastNat ==
  ASSUME NEW S \in SUBSET Nat, S # {}
  PROVE  \E x \in S : \A y \in S : x <= y
<1>1. PICK n \in S : TRUE
  OBVIOUS
<1> DEFINE F == 0 .. n
           R == StrictSubsetOrdering(F)
           T == {0 .. k : k \in S \cap F}
<1>2. IsFiniteSet(F)
  BY <1>1, FS_Interval
<1>3. IsWellFoundedOn(R, SUBSET F)
  <2> HIDE DEF F
  <2> QED BY <1>2, FS_FiniteSubsetsOfFinite, FS_StrictSubsetOrderingWellFounded
<1>4. T \subseteq SUBSET F /\ T # {}
  BY <1>1
<1> HIDE DEF R
<1>5. PICK t \in T : \A u \in T : ~ (<< u, t >> \in R)
  BY <1>3, <1>4, WFMin
<1>6. PICK x \in S \cap F : t = 0 .. x
  BY <1>5
<1>7. ASSUME NEW y \in S PROVE x <= y
  <2> SUFFICES ASSUME y < x PROVE FALSE
    BY <1>6
  <2>1. (0 .. y) \in T
    BY <1>6, <1>1
  <2>2. x \in 0 .. x /\ x \notin 0 .. y
    BY <1>6
  <2>3. << 0 .. y, t >> \in R
    BY <1>4, <1>5, <1>6, <2>1, <2>2 DEF R, StrictSubsetOrdering
  <2> QED BY <1>5, <2>1, <2>3
<1> QED BY <1>6, <1>7

LEMMA MinOfNats ==
  ASSUME NEW S \in SUBSET Nat, S # {}
  PROVE  Min(S) \in S /\ \A y \in S : Min(S) <= y
BY LeastNat DEF Min

LEMMA MaxOfNats ==
  ASSUME NEW S \in SUBSET Nat, S # {}, NEW n \in Nat, \A x \in S : x <= n
  PROVE  Max(S) \in S /\ \A y \in S : y <= Max(S)
<1> DEFINE T == {n - x : x \in S}
<1>1. T \in SUBSET Nat /\ T # {}
  <2>1. \A x \in S : n - x \in Nat
    OBVIOUS
  <2> QED BY <2>1
<1>2. PICK d \in T : \A y \in T : d <= y
  BY <1>1, LeastNat
<1>3. PICK x \in S : d = n - x
  BY <1>2
<1>4. ASSUME NEW y \in S PROVE x >= y
  <2>1. n - y \in T /\ y \in Nat /\ x \in Nat
    OBVIOUS
  <2>2. d <= n - y
    BY <2>1, <1>2
  <2> QED BY <2>1, <2>2, <1>3
<1> QED BY <1>3, <1>4 DEF Max

LEMMA MaxOfTwo ==
  ASSUME NEW a \in Nat, NEW b \in Nat
  PROVE  Max({a, b}) = IF a <= b THEN b ELSE a
<1>1. Max({a, b}) \in {a, b} /\ \A y \in {a, b} : y <= Max({a, b})
  <2> DEFINE n == a + b
  <2>1. {a, b} \in SUBSET Nat /\ {a, b} # {} /\ n \in Nat /\ \A x \in {a, b} : x <= n
    OBVIOUS
  <2> QED BY <2>1, MaxOfNats
<1> QED BY <1>1

LEMMA MinOfTwo ==
  ASSUME NEW a \in Nat, NEW b \in Nat
  PROVE  Min({a, b}) = IF a <= b THEN a ELSE b
<1>1. Min({a, b}) \in {a, b} /\ \A y \in {a, b} : Min({a, b}) <= y
  BY MinOfNats
<1> QED BY <1>1

-----------------------------------------------------------------------------
(* The limits of a well-formed image.                                      *)

LEMMA ImageFacts ==
  ASSUME NEW i, WellFormed(i)
  PROVE  /\ Len(i.tops) \in Nat /\ Len(i.tops) >= 1 /\ i.rows \in Nat /\ i.head \in Nat
         /\ i.upper \in Nat /\ i.content \in Nat /\ i.content <= i.upper
         /\ \A r \in TileRows(i) : i.tops[r] \in Nat
         /\ \A r \in TileRows(i), c \in TileCols(i), b \in Bands(i) :
              i.table[r][c][b] \in Nat /\ Start(i, r, c, b) \in Nat
<1>1. Len(i.tops) \in Nat /\ Len(i.tops) >= 1 /\ \A r \in TileRows(i) : i.tops[r] \in Nat
  <2>1. i.tops \in Seq(Nat) /\ i.tops # << >>
    BY DEF WellFormed, RowsWellFormed
  <2> QED BY <2>1 DEF TileRows
<1>2. ASSUME NEW r \in TileRows(i), NEW c \in TileCols(i), NEW b \in Bands(i)
      PROVE  i.table[r][c][b] \in Nat
  <2>1. i.table \in Seq(Seq(Seq(Nat))) /\ r \in 1 .. Len(i.table)
    BY <1>1 DEF WellFormed, TableWellFormed, TileRows
  <2>2. i.table[r] \in Seq(Seq(Nat)) /\ c \in 1 .. Len(i.table[r])
    BY <2>1 DEF WellFormed, TableWellFormed, TileCols
  <2>3. i.table[r][c] \in Seq(Nat)
    BY <2>2
  <2>4. b \in 1 .. Len(i.table[r][c])
    BY DEF WellFormed, TableWellFormed, Bands
  <2> QED BY <2>3, <2>4
<1> QED BY <1>1, <1>2 DEF WellFormed, RowsWellFormed, Start

LEMMA TopsIncrease ==
  ASSUME NEW i, WellFormed(i), NEW r \in TileRows(i), NEW s \in TileRows(i), r < s
  PROVE  i.tops[r] < i.tops[s]
<1> DEFINE Wrong == {d \in Nat : d >= 1 /\ \E q \in TileRows(i) :
                                   q + d \in TileRows(i) /\ ~ i.tops[q] < i.tops[q + d]}
<1>1. Len(i.tops) \in Nat /\ \A q \in TileRows(i) : i.tops[q] \in Nat
  BY ImageFacts
<1>2. Wrong = {}
  <2> SUFFICES ASSUME Wrong # {} PROVE FALSE
    OBVIOUS
  <2>1. PICK d \in Wrong : \A e \in Wrong : d <= e
    BY LeastNat
  <2>2. PICK q \in TileRows(i) : q + d \in TileRows(i) /\ ~ i.tops[q] < i.tops[q + d]
    OBVIOUS
  <2>3. q + (d - 1) \in TileRows(i) /\ q + (d - 1) < Len(i.tops) /\ (q + (d - 1)) + 1 = q + d
    <3> DEFINE n == Len(i.tops)
    <3>1. n \in Nat /\ q \in 1 .. n /\ q + d \in 1 .. n
      BY <1>1, <2>2 DEF TileRows
    <3>2. d \in Nat /\ d >= 1
      OBVIOUS
    <3> HIDE DEF n, Wrong
    <3>3. q + (d - 1) \in 1 .. n /\ q + (d - 1) < n /\ (q + (d - 1)) + 1 = q + d
      BY <3>1, <3>2
    <3> QED BY <3>3 DEF TileRows, n
  <2>4. i.tops[q + (d - 1)] < i.tops[q + d]
    BY <2>3 DEF WellFormed, RowsWellFormed
  <2>5. CASE d = 1
    <3>1. q + (d - 1) = q
      BY <2>5, <2>2 DEF TileRows
    <3> QED BY <3>1, <2>4, <2>2
  <2>6. CASE d # 1
    <3>1. d - 1 \in Nat /\ d - 1 >= 1 /\ ~ (d <= d - 1)
      BY <2>6
    <3>2. d - 1 \notin Wrong
      BY <3>1, <2>1
    <3>3. i.tops[q] < i.tops[q + (d - 1)]
      BY <3>1, <3>2, <2>2, <2>3
    <3>4. i.tops[q] \in Nat /\ i.tops[q + (d - 1)] \in Nat /\ i.tops[q + d] \in Nat
      BY <1>1, <2>2, <2>3
    <3> QED BY <2>2, <2>4, <3>3, <3>4
  <2> QED BY <2>5, <2>6
<1>3. s - r \in Nat /\ s - r >= 1 /\ r + (s - r) = s
  BY <1>1 DEF TileRows
<1> QED BY <1>2, <1>3

LEMMA PacketFacts ==
  ASSUME NEW i, WellFormed(i), NEW r \in TileRows(i), NEW p \in RowPackets(i, r)
  PROVE  /\ p[1] \in TileCols(i) /\ p[2] \in Bands(i)
         /\ Start(i, r, p[1], p[2]) \in Nat /\ Start(i, r, p[1], p[2]) < i.content
         /\ Start(i, r, p[1], p[2]) \in RowStarts(i, r)
<1>1. p[1] \in TileCols(i) /\ p[2] \in Bands(i)
  BY DEF RowPackets
<1>2. Start(i, r, p[1], p[2]) < i.content
  BY DEF WellFormed, PacketsWellFormed
<1> QED BY <1>1, <1>2, ImageFacts DEF RowStarts

(* Every start of a tile row, that of an empty packet too, lies before the *)
(* end of the image.                                                       *)
LEMMA RowStartsFacts ==
  ASSUME NEW i, WellFormed(i), NEW r \in TileRows(i)
  PROVE  /\ RowStarts(i, r) \in SUBSET Nat /\ RowStarts(i, r) # {}
         /\ \A off \in RowStarts(i, r) : off < i.content
<1>1. RowStarts(i, r) \in SUBSET Nat
  BY ImageFacts DEF RowStarts
<1>2. RowStarts(i, r) # {}
  BY PacketFacts DEF WellFormed, PacketsWellFormed
<1>3. i.head < i.content
  <2>1. PICK p \in RowPackets(i, r) : TRUE
    BY DEF WellFormed, PacketsWellFormed
  <2>2. p[1] \in TileCols(i) /\ p[2] \in Bands(i) /\ Start(i, r, p[1], p[2]) < i.content
    BY PacketFacts
  <2> QED BY <2>2, ImageFacts DEF Start
<1>4. ASSUME NEW c \in TileCols(i), NEW b \in Bands(i)
      PROVE  Start(i, r, c, b) < i.content
  <2>1. CASE Empty(i, r, c, b)
    BY <2>1, <1>3, ImageFacts DEF Empty, Start
  <2>2. CASE ~ Empty(i, r, c, b)
    <3>1. << c, b >> \in RowPackets(i, r)
      BY <2>2 DEF RowPackets
    <3> QED BY <3>1, PacketFacts
  <2> QED BY <2>1, <2>2
<1>5. \A off \in RowStarts(i, r) : off < i.content
  BY <1>4 DEF RowStarts
<1> QED BY <1>1, <1>2, <1>5

LEMMA NextEntryFacts ==
  ASSUME NEW i, WellFormed(i), NEW off \in Nat, off < i.upper
  PROVE  /\ NextEntry(i, off) \in EntryLimits(i) /\ NextEntry(i, off) \in Nat
         /\ off < NextEntry(i, off) /\ NextEntry(i, off) <= i.upper
         /\ \A e \in EntryLimits(i) : off < e => NextEntry(i, off) <= e
<1> DEFINE S == {e \in EntryLimits(i) : e > off}
<1>1. EntryLimits(i) \in SUBSET Nat
  BY ImageFacts DEF EntryLimits
<1>2. i.upper \in EntryLimits(i)
  BY DEF EntryLimits
<1>3. S \in SUBSET Nat /\ i.upper \in S
  BY <1>1, <1>2, ImageFacts
<1>4. Min(S) \in S /\ \A y \in S : Min(S) <= y
  BY <1>3, MinOfNats
<1>5. NextEntry(i, off) = Min(S)
  BY DEF NextEntry
<1> QED BY <1>1, <1>3, <1>4, <1>5

(* The limits of tile row r.  They are worked out from where the index     *)
(* table and the size tag say packets end, and cover where they do.        *)
LEMMA RowLimits ==
  ASSUME NEW i, WellFormed(i), NEW r \in TileRows(i)
  PROVE  /\ RowUpperLimit(i, r) \in Nat /\ RowUpperLimit(i, r) <= i.upper
         /\ \A off \in RowStarts(i, r) : NextEntry(i, off) <= RowUpperLimit(i, r)
<1> DEFINE S == {NextEntry(i, off) : off \in RowStarts(i, r)}
<1>1. \A off \in RowStarts(i, r) : NextEntry(i, off) \in Nat /\ NextEntry(i, off) <= i.upper
  BY RowStartsFacts, NextEntryFacts, ImageFacts
<1>2. S \in SUBSET Nat /\ S # {} /\ \A x \in S : x <= i.upper
  BY <1>1, RowStartsFacts
<1>3. Max(S) \in S /\ \A y \in S : y <= Max(S)
  <2> HIDE DEF S
  <2> QED BY <1>2, MaxOfNats, ImageFacts
<1>4. RowUpperLimit(i, r) = Max(S)
  BY DEF RowUpperLimit
<1> QED BY <1>2, <1>3, <1>4

LEMMA LowerLimits ==
  ASSUME NEW i, WellFormed(i), NEW r \in TileRows(i)
  PROVE  /\ NextLowerLimit(i, r) \in Nat
         /\ \A t \in TileRows(i) : r < t => \A p \in RowPackets(i, t) :
              NextLowerLimit(i, r) <= Start(i, t, p[1], p[2])
<1> DEFINE S == {i.upper} \cup UNION {RowStarts(i, t) : t \in r + 1 .. Len(i.tops)}
<1>1. \A t \in TileRows(i) : r < t => t \in r + 1 .. Len(i.tops)
  BY ImageFacts DEF TileRows
<1>2. \A t \in r + 1 .. Len(i.tops) : t \in TileRows(i)
  BY ImageFacts DEF TileRows
<1>3. S \in SUBSET Nat /\ S # {}
  BY <1>2, RowStartsFacts, ImageFacts
<1>4. Min(S) \in S /\ \A y \in S : Min(S) <= y
  <2> HIDE DEF S
  <2> QED BY <1>3, MinOfNats
<1>5. NextLowerLimit(i, r) = Min(S)
  BY DEF NextLowerLimit
<1>6. ASSUME NEW t \in TileRows(i), r < t, NEW p \in RowPackets(i, t)
      PROVE  Start(i, t, p[1], p[2]) \in S
  BY <1>1, <1>6, PacketFacts
<1> QED BY <1>3, <1>4, <1>5, <1>6

(* The image as the file holds it is well-formed too.                      *)
LEMMA RealImage ==
  ASSUME WellFormed(img)
  PROVE  /\ WellFormed(Real) /\ Real.upper = img.content /\ Real.content = img.content
         /\ TileRows(Real) = TileRows(img)
         /\ \A r \in TileRows(img) : RowPackets(Real, r) = RowPackets(img, r)
         /\ \A r, c, b : Start(Real, r, c, b) = Start(img, r, c, b)
         /\ \A r, c, b : Empty(Real, r, c, b) = Empty(img, r, c, b)
         /\ TileCols(Real) = TileCols(img) /\ Bands(Real) = Bands(img)
<1>1. /\ DOMAIN Real = ImageFields /\ Real.tops = img.tops /\ Real.rows = img.rows /\ Real.table = img.table
      /\ Real.spatial = img.spatial /\ Real.head = img.head /\ Real.size = img.size
      /\ Real.upper = img.content /\ Real.content = img.content
  BY DEF WellFormed, ImageFields, Real
<1>2. TileRows(Real) = TileRows(img) /\ TileCols(Real) = TileCols(img) /\ Bands(Real) = Bands(img)
  BY <1>1 DEF TileRows, TileCols, Bands
<1>3. /\ \A r, c, b : Start(Real, r, c, b) = Start(img, r, c, b)
      /\ \A r, c, b : Empty(Real, r, c, b) = Empty(img, r, c, b)
  BY <1>1 DEF Start, Empty
<1>4. \A r \in TileRows(img) : RowPackets(Real, r) = RowPackets(img, r)
  BY <1>2, <1>3 DEF RowPackets
<1>5. RowsWellFormed(Real)
  BY <1>1, <1>2 DEF WellFormed, RowsWellFormed
<1>6. TableWellFormed(Real)
  BY <1>1, <1>2 DEF WellFormed, TableWellFormed
<1>7. PacketsWellFormed(Real)
  BY <1>1, <1>2, <1>3, <1>4 DEF WellFormed, PacketsWellFormed
<1>8. WellFormed(Real)
  BY <1>1, <1>5, <1>6, <1>7 DEF WellFormed
<1> QED BY <1>1, <1>2, <1>3, <1>4, <1>8

LEMMA TrueEnds ==
  ASSUME WellFormed(img), NEW r \in TileRows(img)
  PROVE  /\ TrueEnd(r) \in Nat /\ TrueEnd(r) <= img.content /\ TrueEnd(r) <= RowUpperLimit(img, r)
         /\ \A p \in RowPackets(img, r) : Start(img, r, p[1], p[2]) < TrueEnd(r)
<1> DEFINE End(p) == PacketEnd(Real, r, p[1], p[2])
           S == {End(p) : p \in RowPackets(img, r)}
<1>1. ASSUME NEW p \in RowPackets(img, r)
      PROVE  /\ End(p) \in Nat /\ End(p) <= img.content
             /\ Start(img, r, p[1], p[2]) < End(p) /\ End(p) <= RowUpperLimit(img, r)
  <2> DEFINE off == Start(img, r, p[1], p[2])
  <2>1. off \in Nat /\ off < img.content /\ off < img.upper /\ off \in RowStarts(img, r)
    BY PacketFacts, ImageFacts
  <2>2. End(p) = NextEntry(Real, off)
    BY RealImage DEF PacketEnd
  <2>3. /\ NextEntry(Real, off) \in Nat /\ off < NextEntry(Real, off) /\ NextEntry(Real, off) <= img.content
        /\ \A e \in EntryLimits(Real) : off < e => NextEntry(Real, off) <= e
    <3> HIDE DEF off
    <3> QED BY <2>1, RealImage, NextEntryFacts
  <2>4. /\ NextEntry(img, off) \in EntryLimits(img) /\ NextEntry(img, off) \in Nat /\ off < NextEntry(img, off)
    <3> HIDE DEF off
    <3> QED BY <2>1, NextEntryFacts
  <2>5. NextEntry(Real, off) <= NextEntry(img, off)
    <3>1. NextEntry(img, off) = img.upper \/ NextEntry(img, off) \in EntryLimits(Real)
      BY <2>4, RealImage DEF EntryLimits
    <3> QED BY <3>1, <2>3, <2>4, ImageFacts
  <2>6. NextEntry(img, off) <= RowUpperLimit(img, r) /\ RowUpperLimit(img, r) \in Nat
    BY <2>1, RowLimits
  <2> QED BY <2>2, <2>3, <2>4, <2>5, <2>6
<1>2. S \in SUBSET Nat /\ \A x \in S : x <= img.content
  BY <1>1
<1>3. S # {}
  BY DEF WellFormed, PacketsWellFormed
<1>4. Max(S) \in S /\ \A y \in S : y <= Max(S)
  <2> HIDE DEF S
  <2> QED BY <1>2, <1>3, MaxOfNats, ImageFacts
<1>5. TrueEnd(r) = Max(S)
  BY DEF TrueEnd
<1>6. \A p \in RowPackets(img, r) : Start(img, r, p[1], p[2]) \in Nat
  BY PacketFacts
<1>7. RowUpperLimit(img, r) \in Nat
  BY RowLimits
<1>8. PICK q \in RowPackets(img, r) : TrueEnd(r) = End(q)
  BY <1>4, <1>5
<1>9. \A p \in RowPackets(img, r) : End(p) <= TrueEnd(r)
  BY <1>4, <1>5
<1> HIDE DEF End
<1> QED BY <1>1, <1>6, <1>7, <1>8, <1>9

-----------------------------------------------------------------------------
(* Types.  They need to know that the rows of the library and of the       *)
(* picture are one apart, and that a tile row being decoded is one.        *)
Turns ==
  /\ \/ mbRow = 0 /\ line = 0
     \/ mbRow > 1 /\ mbRow = line + 1
  /\ pc = "rows" => tileRow \in 1 .. NumTileRows

Typed == TypeOK /\ Turns

LEMMA TypedImage ==
  ASSUME img \in Images
  PROVE  /\ WellFormed(img) /\ NumTileRows \in Nat /\ NumTileRows >= 1 /\ TileRows(img) = 1 .. NumTileRows
         /\ img.rows \in Nat /\ img.rows >= 1
         /\ \A r \in 1 .. NumTileRows : img.tops[r] \in Nat /\ img.tops[r] < img.rows
<1>1. WellFormed(img)
  BY ImagesAssumption
<1>2. NumTileRows \in Nat /\ NumTileRows >= 1 /\ TileRows(img) = 1 .. NumTileRows
  BY <1>1, ImageFacts DEF NumTileRows, TileRows
<1>3. img.rows \in Nat /\ \A r \in 1 .. NumTileRows : img.tops[r] \in Nat
  BY <1>1, <1>2, ImageFacts
<1>4. img.tops[NumTileRows] < img.rows
  BY <1>1 DEF WellFormed, RowsWellFormed, NumTileRows
<1>5. ASSUME NEW r \in 1 .. NumTileRows PROVE img.tops[r] < img.rows
  <2>1. CASE r = NumTileRows
    BY <2>1, <1>4
  <2>2. CASE r < NumTileRows
    <3>1. NumTileRows \in TileRows(img) /\ r \in TileRows(img)
      BY <1>2
    <3>2. img.tops[r] < img.tops[NumTileRows]
      BY <3>1, <2>2, <1>1, TopsIncrease
    <3> QED BY <3>2, <1>2, <1>3, <1>4
  <2> QED BY <2>1, <2>2, <1>2
<1>6. img.rows >= 1
  BY <1>2, <1>3, <1>4
<1> QED BY <1>1, <1>2, <1>3, <1>5, <1>6

LEMMA TopsApart ==
  ASSUME img \in Images
  PROVE  \A r, s \in 1 .. NumTileRows : r < s => img.tops[r] < img.tops[s]
BY TypedImage, TopsIncrease

LibraryType == [tile : 1 .. NumTileRows, lost : BOOLEAN]

ReadType == {"good", "bad", "fail"}

LEMMA ReadRowType ==
  ASSUME img \in Images, NEW s \in LibraryType, NEW m \in 0 .. img.rows, NEW r \in ReadRow(s, m)
  PROVE  r = << r[1], r[2] >> /\ r[1] \in LibraryType /\ r[2] \in ReadType /\ (m = img.rows => r[2] = "good")
<1>1. TilePos(s.tile, m) \in 1 .. NumTileRows
  BY TypedImage DEF TilePos, LibraryType
<1>2. CASE m = img.rows
  <2>1. r = << s, "good" >>
    BY <1>2 DEF ReadRow
  <2> QED BY <2>1 DEF ReadType
<1>3. CASE m # img.rows
  <2>1. \E o \in ReadType : r = << [tile |-> TilePos(s.tile, m), lost |-> o # "good"], o >>
    <3>1. \A t : Outcomes(s, t, m) \subseteq ReadType
      BY DEF Outcomes, ReadType
    <3> QED BY <1>3, <3>1 DEF ReadRow
  <2>2. PICK o \in ReadType : r = << [tile |-> TilePos(s.tile, m), lost |-> o # "good"], o >>
    BY <2>1
  <2>3. r[1] = [tile |-> TilePos(s.tile, m), lost |-> o # "good"] /\ r[2] = o
    BY <2>2
  <2>4. r[1] \in LibraryType
    BY <2>3, <1>1 DEF LibraryType
  <2> QED BY <2>2, <2>3, <2>4, <1>3
<1> QED BY <1>2, <1>3

(* What one call of JXR_DecodeNextMBRow can do: one row is read, or two by *)
(* the first call, of which only the last one can have failed.             *)
LEMMA DecodingsType ==
  ASSUME Typed, line < img.rows, NEW d \in Decodings
  PROVE  /\ \/ Len(d) = 1 /\ (mbRow = 0 => d[1][2] = "fail")
            \/ Len(d) = 2 /\ mbRow = 0 /\ d[1][2] # "fail"
         /\ \A k \in 1 .. Len(d) : d[k][1] \in LibraryType /\ d[k][2] \in ReadType
         /\ mbRow + Len(d) <= img.rows + 1
<1>1. img \in Images /\ sc \in LibraryType /\ mbRow \in Nat /\ img.rows \in Nat /\ img.rows >= 1
  BY TypedImage DEF Typed, TypeOK, LibraryType
<1>2. mbRow \in 0 .. img.rows
  BY <1>1 DEF Typed, TypeOK, Turns
<1>3. CASE mbRow # 0
  <2>1. PICK r \in ReadRow(sc, mbRow) : d = << r >>
    BY <1>3 DEF Decodings
  <2>2. r[1] \in LibraryType /\ r[2] \in ReadType
    BY <1>1, <1>2, ReadRowType
  <2>3. Len(d) = 1 /\ d[1] = r
    BY <2>1
  <2> QED BY <1>1, <1>2, <1>3, <2>2, <2>3
<1>4. CASE mbRow = 0
  <2> DEFINE then(r) == IF r[2] = "fail" THEN {<< r >>} ELSE {<< r, q >> : q \in ReadRow(r[1], 1)}
  <2>1. PICK r \in ReadRow(sc, 0) : d \in then(r)
    BY <1>4 DEF Decodings
  <2>2. r[1] \in LibraryType /\ r[2] \in ReadType
    BY <1>1, <1>2, <1>4, ReadRowType
  <2>3. CASE r[2] = "fail"
    <3>1. Len(d) = 1 /\ d[1] = r
      BY <2>1, <2>3
    <3> QED BY <1>1, <1>4, <2>2, <2>3, <3>1
  <2>4. CASE r[2] # "fail"
    <3>1. PICK q \in ReadRow(r[1], 1) : d = << r, q >>
      BY <2>1, <2>4
    <3>2. q[1] \in LibraryType /\ q[2] \in ReadType
      BY <1>1, <2>2, ReadRowType
    <3>3. Len(d) = 2 /\ d[1] = r /\ d[2] = q
      BY <3>1
    <3> QED BY <1>1, <1>4, <2>2, <2>4, <3>2, <3>3
  <2> QED BY <2>3, <2>4
<1> QED BY <1>3, <1>4

PictureType == [MBRows -> {"none", "good", "bad"}]

LEMMA DecodeTyped ==
  ASSUME Typed, line < img.rows, NEW d \in Decodings, DecodeNextMBRow(d)
  PROVE  /\ sc' \in LibraryType /\ row' \in PictureType /\ out' \in PictureType
         /\ mbRow' \in 0 .. img.rows + 1 /\ line' \in 0 .. img.rows
         /\ \/ mbRow' = 0 /\ line' = 0
            \/ mbRow' > 1 /\ mbRow' = line' + 1
<1>1. /\ img.rows \in Nat /\ mbRow \in 0 .. img.rows + 1 /\ line \in 0 .. img.rows
      /\ row \in PictureType /\ out \in PictureType /\ sc \in LibraryType
      /\ \/ mbRow = 0 /\ line = 0
         \/ mbRow > 1 /\ mbRow = line + 1
  BY TypedImage DEF Typed, TypeOK, Turns, PictureType, LibraryType
<1>2. /\ \/ Len(d) = 1 /\ (mbRow = 0 => d[1][2] = "fail")
         \/ Len(d) = 2 /\ mbRow = 0 /\ d[1][2] # "fail"
      /\ \A k \in 1 .. Len(d) : d[k][1] \in LibraryType /\ d[k][2] \in ReadType
      /\ mbRow + Len(d) <= img.rows + 1
  BY DecodingsType
<1>3. sc' \in LibraryType
  BY <1>2 DEF DecodeNextMBRow
<1>4. row' \in PictureType
  <2>1. \A m \in MBRows : m \in mbRow .. mbRow + Len(d) - 1 => m - mbRow + 1 \in 1 .. Len(d)
    BY <1>1, <1>2 DEF MBRows
  <2>2. \A m \in MBRows : (IF m \in mbRow .. mbRow + Len(d) - 1 /\ d[m - mbRow + 1][2] # "fail"
                           THEN d[m - mbRow + 1][2] ELSE row[m]) \in {"none", "good", "bad"}
    BY <1>1, <1>2, <2>1 DEF ReadType, PictureType
  <2> QED BY <2>2 DEF DecodeNextMBRow, SetRows, PictureType
<1>5. out' \in PictureType
  BY <1>1 DEF DecodeNextMBRow, PictureType
<1>6. CASE d[Len(d)][2] # "fail"
  <2>1. mbRow' = mbRow + Len(d) /\ line' = line + 1
    BY <1>6 DEF DecodeNextMBRow
  <2>2. CASE Len(d) = 1
    <3>1. mbRow # 0
      BY <1>2, <1>6, <2>2
    <3> QED BY <1>1, <1>2, <1>3, <1>4, <1>5, <2>1, <2>2, <3>1
  <2>3. CASE Len(d) = 2
    BY <1>1, <1>2, <1>3, <1>4, <1>5, <2>1, <2>3
  <2> QED BY <1>2, <2>2, <2>3
<1>7. CASE d[Len(d)][2] = "fail"
  <2>1. mbRow' = mbRow /\ line' = line
    BY <1>7 DEF DecodeNextMBRow
  <2> QED BY <1>1, <1>3, <1>4, <1>5, <2>1
<1> QED BY <1>6, <1>7

LEMMA InfosType ==
  ASSUME Typed, tileRow \in 1 .. NumTileRows
  PROVE  TileRowUpperLimit \in Nat /\ infos[tileRow].nextLowerLimit \in Nat
<1>1. infos \in [1 .. NumTileRows -> [upperLimit : Nat, nextLowerLimit : Nat]]
  BY DEF Typed, TypeOK
<1>2. NumMBRows(img, tileRow) = 1 => tileRow + 1 \in 1 .. NumTileRows
  BY TypedImage DEF Typed, TypeOK, NumMBRows, NumTileRows
<1> QED BY <1>1, <1>2 DEF TileRowUpperLimit

LEMMA FixTyped ==
  ASSUME Typed, FixWrongImageSizeTag
  PROVE  /\ tag' \in Nat /\ limit' \in Nat
         /\ infos' \in [1 .. NumTileRows -> [upperLimit : Nat, nextLowerLimit : Nat]]
<1>1. /\ total \in Nat /\ limit \in Nat /\ infos \in [1 .. NumTileRows -> [upperLimit : Nat, nextLowerLimit : Nat]]
  BY TypedImage DEF Typed, TypeOK, WellFormed
<1> DEFINE least(a) == IF a > total THEN total ELSE a
<1>2. infos' = [r \in DOMAIN infos |-> [upperLimit     |-> least(infos[r].upperLimit),
                                       nextLowerLimit |-> least(infos[r].nextLowerLimit)]]
  BY DEF FixWrongImageSizeTag
<1>3. \A r \in 1 .. NumTileRows : least(infos[r].upperLimit) \in Nat /\ least(infos[r].nextLowerLimit) \in Nat
  BY <1>1
<1> HIDE DEF least
<1>4. infos' \in [1 .. NumTileRows -> [upperLimit : Nat, nextLowerLimit : Nat]]
  BY <1>1, <1>2, <1>3
<1> QED BY <1>1, <1>4 DEF FixWrongImageSizeTag

LEMMA TypedInit == Init => Typed
<1> SUFFICES ASSUME Init PROVE Typed
  OBVIOUS
<1>1. img \in Images
  BY DEF Init
<1>2. /\ WellFormed(img) /\ NumTileRows \in Nat /\ NumTileRows >= 1 /\ TileRows(img) = 1 .. NumTileRows
      /\ img.rows \in Nat /\ img.rows >= 1 /\ img.upper \in Nat /\ img.size \in Nat
  BY <1>1, TypedImage, ImageFacts DEF WellFormed
<1>3. infos \in [1 .. NumTileRows -> [upperLimit : Nat, nextLowerLimit : Nat]]
  <2>1. \A r \in 1 .. NumTileRows : RowUpperLimit(img, r) \in Nat /\ NextLowerLimit(img, r) \in Nat
    BY <1>2, RowLimits, LowerLimits
  <2> QED BY <1>2, <2>1 DEF Init, FillTileRowInfo
<1>4. row \in PictureType /\ out \in PictureType
  BY DEF Init, PictureType
<1>5. sc \in [tile : 1 .. NumTileRows, lost : BOOLEAN]
  BY <1>2 DEF Init
<1>6. TypeOK
  <2>1. /\ phase = "receiving" /\ pc = "idle" /\ total = 0 /\ tag = img.upper /\ atEnd = FALSE /\ finished = FALSE
        /\ tileRow = 1 /\ limit = 0 /\ mbRow = 0 /\ line = 0 /\ floor = 0
    BY DEF Init
  <2>2. /\ total \in 0 .. img.size /\ tag \in Nat /\ limit \in Nat /\ floor \in Nat
        /\ tileRow \in 1 .. NumTileRows + 1 /\ mbRow \in 0 .. img.rows + 1 /\ line \in 0 .. img.rows
    BY <1>2, <2>1
  <2> QED BY <1>1, <1>3, <1>4, <1>5, <2>1, <2>2 DEF TypeOK, PictureType
<1>7. Turns
  BY DEF Init, Turns
<1> QED BY <1>6, <1>7 DEF Typed

(* No step changes the image.                                              *)
LEMMA SameImage == [Next]_vars => img' = img /\ NumTileRows' = NumTileRows /\ MBRows' = MBRows
BY DEF Next, vars, WriteInternal, WriteEnd, FinishInternal, EndDecodingMBRows, Loop, DecodeRow, DecodeAll,
       Terminating, NumTileRows, MBRows

LEMMA TypedNext == Typed /\ [Next]_vars => Typed'
<1> SUFFICES ASSUME Typed, [Next]_vars PROVE Typed'
  OBVIOUS
<1>i. img' = img /\ NumTileRows' = NumTileRows /\ MBRows' = MBRows
  BY SameImage
<1>t. /\ img \in Images /\ img.rows \in Nat /\ img.size \in Nat /\ NumTileRows \in Nat /\ NumTileRows >= 1
      /\ sc \in LibraryType /\ row \in PictureType /\ out \in PictureType
  BY TypedImage DEF Typed, TypeOK, WellFormed, LibraryType, PictureType
<1> USE <1>i
<1>1. ASSUME NEW n \in 1 .. MaxWrite, WriteInternal(n) PROVE Typed'
  <2>1. n \in Nat
    BY ImagesAssumption
  <2>2. total' \in 0 .. img.size
    BY <1>1, <1>t, <2>1 DEF WriteInternal, Typed, TypeOK
  <2>3. atEnd' \in BOOLEAN
    <3>1. CASE total < img.head /\ total' >= img.head
      <4>1. atEnd' = (total' >= tag)
        BY <1>1, <3>1 DEF WriteInternal
      <4> QED BY <4>1
    <3>2. CASE ~ (total < img.head /\ total' >= img.head)
      BY <1>1, <3>2 DEF WriteInternal, Typed, TypeOK
    <3> QED BY <3>1, <3>2
  <2>4. pc' \in {"idle", "loop"}
    BY <1>1 DEF WriteInternal
  <2> QED BY <1>1, <2>2, <2>3, <2>4 DEF WriteInternal, Typed, TypeOK, Turns
<1>2. CASE WriteEnd
  <2>1. FixWrongImageSizeTag /\ pc' = "loop"
    BY <1>2 DEF WriteEnd
  <2>2. /\ tag' \in Nat /\ limit' \in Nat
        /\ infos' \in [1 .. NumTileRows -> [upperLimit : Nat, nextLowerLimit : Nat]]
    BY <2>1, FixTyped
  <2> QED BY <1>2, <2>1, <2>2 DEF WriteEnd, Typed, TypeOK, Turns
<1>3. CASE FinishInternal
  <2>1. /\ tag' \in Nat /\ limit' \in Nat
        /\ infos' \in [1 .. NumTileRows -> [upperLimit : Nat, nextLowerLimit : Nat]]
        /\ pc' \in {"idle", "loop", "all"}
    <3>1. CASE FixWrongImageSizeTag
      BY <1>3, <3>1, FixTyped DEF FinishInternal
    <3>2. CASE UNCHANGED << tag, infos, limit >>
      BY <1>3, <3>2 DEF FinishInternal, Typed, TypeOK
    <3> QED BY <1>3, <3>1, <3>2 DEF FinishInternal
  <2> QED BY <1>3, <2>1 DEF FinishInternal, Typed, TypeOK, Turns
<1>4. CASE EndDecodingMBRows
  BY <1>4 DEF EndDecodingMBRows, decoder, Typed, TypeOK, Turns
<1>5. CASE Loop
  <2>1. \/ tileRow \in 1 .. NumTileRows /\ pc' = "rows" /\ limit' = TileRowUpperLimit
        \/ pc' = "idle" /\ limit' = limit
    BY <1>5 DEF Loop, Typed, TypeOK
  <2>2. limit' \in Nat
    BY <2>1, InfosType DEF Typed, TypeOK
  <2> QED BY <1>5, <2>1, <2>2 DEF Loop, Typed, TypeOK, Turns
<1>6. CASE DecodeRow
  <2>1. PICK d \in Decodings :
          /\ DecodeNextMBRow(d)
          /\ IF RowsDone(d[Len(d)][2] # "fail") THEN RowsLeave ELSE UNCHANGED << tileRow, floor, finished, pc >>
    BY <1>6 DEF DecodeRow
  <2>2. /\ sc' \in LibraryType /\ row' \in PictureType /\ out' \in PictureType
        /\ mbRow' \in 0 .. img.rows + 1 /\ line' \in 0 .. img.rows
        /\ \/ mbRow' = 0 /\ line' = 0
           \/ mbRow' > 1 /\ mbRow' = line' + 1
    BY <1>6, <2>1, DecodeTyped DEF DecodeRow
  <2>3. tileRow \in 1 .. NumTileRows /\ pc = "rows"
    BY <1>6 DEF DecodeRow, Typed, Turns
  <2>4. /\ tileRow' \in 1 .. NumTileRows + 1 /\ floor' \in Nat /\ finished' \in BOOLEAN
        /\ pc' \in {"idle", "loop", "rows"} /\ (pc' = "rows" => tileRow' \in 1 .. NumTileRows)
    <3>1. CASE RowsLeave
      <4>1. floor \in Nat /\ infos[tileRow].nextLowerLimit \in Nat
        BY <2>3, InfosType DEF Typed, TypeOK
      <4>2. floor' \in Nat
        BY <3>1, <4>1, MaxOfTwo DEF RowsLeave
      <4>3. pc' \in {"idle", "loop"} /\ tileRow' = tileRow + 1 /\ finished' \in BOOLEAN
        BY <3>1 DEF RowsLeave
      <4> QED BY <1>t, <2>3, <4>2, <4>3
    <3>2. CASE UNCHANGED << tileRow, floor, finished, pc >>
      BY <2>3, <3>2 DEF Typed, TypeOK
    <3> QED BY <2>1, <3>1, <3>2
  <2>5. UNCHANGED << img, phase, total, tag, infos, atEnd, limit >>
    BY <1>6 DEF DecodeRow
  <2>6. TypeOK'
    BY <2>2, <2>4, <2>5, <1>t DEF Typed, TypeOK, LibraryType, PictureType
  <2>7. Turns'
    BY <2>2, <2>4 DEF Turns
  <2> QED BY <2>6, <2>7 DEF Typed
<1>7. CASE DecodeAll
  <2>1. PICK d \in Decodings :
          /\ DecodeNextMBRow(d)
          /\ pc' = IF d[Len(d)][2] = "fail" \/ line' >= img.rows THEN "idle" ELSE "all"
    BY <1>7 DEF DecodeAll
  <2>2. /\ sc' \in LibraryType /\ row' \in PictureType /\ out' \in PictureType
        /\ mbRow' \in 0 .. img.rows + 1 /\ line' \in 0 .. img.rows
        /\ \/ mbRow' = 0 /\ line' = 0
           \/ mbRow' > 1 /\ mbRow' = line' + 1
    BY <1>7, <2>1, DecodeTyped DEF DecodeAll
  <2>3. UNCHANGED << img, phase, total, tag, infos, atEnd, finished, tileRow, limit, floor >> /\ pc' \in {"idle", "all"}
    BY <1>7, <2>1 DEF DecodeAll
  <2>4. TypeOK'
    BY <2>2, <2>3, <1>t DEF Typed, TypeOK, LibraryType, PictureType
  <2>5. Turns'
    BY <2>2, <2>3 DEF Turns
  <2> QED BY <2>4, <2>5 DEF Typed
<1>8. CASE UNCHANGED vars
  BY <1>8 DEF vars, decoder, Typed, TypeOK, Turns
<1> QED BY <1>1, <1>2, <1>3, <1>4, <1>5, <1>6, <1>7, <1>8 DEF Next, Terminating

(* The state stays well-typed, whatever the file holds and however it      *)
(* comes in: no row, tile row or limit outside the image is ever used.     *)
THEOREM TypeCorrect == Spec => []TypeOK
<1>1. Spec => []Typed
  BY TypedInit, TypedNext, PTL DEF Spec
<1>2. Typed => TypeOK
  BY DEF Typed
<1> QED BY <1>1, <1>2, PTL

-----------------------------------------------------------------------------
(* A complete file.  Its tile rows may be stored in any order, with one    *)
(* exception: where a tile row is one macroblock row the code waits for    *)
(* the next tile row and decodes below that one's limit, so that it must   *)
(* not itself end behind it (nsJPEGXRDecoder.cpp:2176).                    *)
OneRowInOrder(i) ==
  \A r \in 1 .. Len(i.tops) - 1 :
     NumMBRows(i, r) = 1 => RowUpperLimit(i, r) <= RowUpperLimit(i, r + 1)

(* What has been read and shown is good, and nothing was left out.         *)
RowsInStep ==
  /\ \A m \in MBRows : row[m] = IF m < mbRow THEN "good" ELSE "none"
  /\ \A m \in MBRows : out[m] = IF m < line THEN "good" ELSE "none"

(* The library s is about to read macroblock row m: it is still in the     *)
(* tile row of the row above.                                              *)
AtRow(s, m) ==
  /\ s.lost = FALSE
  /\ m = 0 => s.tile = 1
  /\ m > 0 => img.tops[s.tile] < m
  /\ s.tile < NumTileRows => m <= img.tops[s.tile + 1]

(* No limit, as corrected, lies before the end of what it is the limit of. *)
LimitsSafe ==
  /\ img.content <= tag
  /\ \A t \in 1 .. NumTileRows :
       /\ TrueEnd(t) <= infos[t].upperLimit /\ infos[t].upperLimit <= tag
       /\ infos[t].nextLowerLimit <= NextLowerLimit(img, t)
       /\ NumMBRows(img, t) = 1 => infos[t].upperLimit <= infos[t + 1].upperLimit

(* Nothing that the tile rows from this one on begin with is discarded.    *)
FloorSafe ==
  \A r \in 1 .. NumTileRows : tileRow <= r =>
     \A p \in RowPackets(img, r) : floor <= Start(img, r, p[1], p[2])

(* The rows read in the turn of tile row k: its own, and if it is a single *)
(* one the first of the next tile row.                                     *)
Reads(k, m) ==
  /\ img.tops[k] <= m
  /\ k < NumTileRows =>
       \/ m < img.tops[k + 1]
       \/ m = img.tops[k + 1] /\ NumMBRows(img, k) = 1

(* Between the turns of two tile rows the next one's first row may have    *)
(* been read.                                                              *)
AtEntry ==
  /\ tileRow > NumTileRows => line = img.rows
  /\ tileRow <= NumTileRows => mbRow \in {img.tops[tileRow], img.tops[tileRow] + 1}
  /\ tileRow = 1 => mbRow = 0

InTurn ==
  /\ tileRow <= NumTileRows /\ line < img.rows
  /\ limit = TileRowUpperLimit /\ Reads(tileRow, mbRow)

(* Decoding one tile row after the other.                                  *)
Sequential ==
  /\ pc # "all"
  /\ pc = "rows" => InTurn
  /\ pc # "rows" => AtEntry
  /\ finished => tileRow > NumTileRows
  /\ phase # "receiving" => tag <= total
  /\ pc = "idle" /\ img.head <= total => tileRow > NumTileRows \/ total < TileRowUpperLimit
  /\ phase # "receiving" => img.head <= total
  /\ phase = "done" => pc = "idle"
  /\ total < img.head => pc = "idle" /\ limit = 0 /\ floor = 0 /\ tileRow = 1

(* Decoding everything when the file has ended.                            *)
AtOnce ==
  /\ pc \in {"idle", "all"}
  /\ limit = 0 /\ floor = 0 /\ tileRow = 1 /\ img.head <= total /\ tag <= total
  /\ phase = "receiving" => pc = "idle" /\ line = 0
  /\ pc = "all" => phase = "finishing" /\ line < img.rows
  /\ pc = "idle" /\ phase # "receiving" => line = img.rows

Healthy ==
  /\ RowsInStep /\ AtRow(sc, mbRow) /\ LimitsSafe /\ FloorSafe
  /\ atEnd => AtOnce
  /\ ~ atEnd => Sequential

(* The inductive invariant.                                                *)
IInv == Typed /\ (Complete /\ OneRowInOrder(img) => Healthy)

-----------------------------------------------------------------------------
(* Reading rows below limits that are safe.                                *)

InTile(t, m) == img.tops[t] <= m /\ (t < NumTileRows => m < img.tops[t + 1])

(* The packets row m is read from are there, up to their end.              *)
Covered(m) ==
  \A t \in 1 .. NumTileRows : InTile(t, m) =>
     TrueEnd(t) <= ReadLimit /\ \A p \in RowPackets(img, t) : floor <= Start(img, t, p[1], p[2])

LEMMA TileOfRow ==
  ASSUME img \in Images, NEW s \in LibraryType, NEW m \in Nat, m < img.rows, AtRow(s, m)
  PROVE  TilePos(s.tile, m) \in 1 .. NumTileRows /\ InTile(TilePos(s.tile, m), m)
<1> DEFINE t == TilePos(s.tile, m)
<1>1. /\ NumTileRows \in Nat /\ NumTileRows >= 1 /\ s.tile \in 1 .. NumTileRows
      /\ \A r \in 1 .. NumTileRows : img.tops[r] \in Nat /\ img.tops[r] < img.rows
      /\ WellFormed(img) /\ TileRows(img) = 1 .. NumTileRows
  BY TypedImage DEF LibraryType
<1>2. img.tops[1] = 0 /\ \A r \in 1 .. NumTileRows : r < NumTileRows => img.tops[r] < img.tops[r + 1]
  BY <1>1 DEF WellFormed, RowsWellFormed, NumTileRows
<1>3. CASE m = 0
  <2>1. t = 1
    BY <1>3 DEF TilePos
  <2>2. 1 < NumTileRows => img.tops[1] < img.tops[2]
    BY <1>1, <1>2
  <2> QED BY <1>1, <1>2, <1>3, <2>1, <2>2 DEF InTile
<1>4. CASE m > 0 /\ s.tile < NumTileRows /\ m = img.tops[s.tile + 1]
  <2>1. t = s.tile + 1 /\ t \in 1 .. NumTileRows
    BY <1>1, <1>4 DEF TilePos
  <2>2. t < NumTileRows => img.tops[t] < img.tops[t + 1]
    BY <1>2, <2>1
  <2> QED BY <1>1, <1>4, <2>1, <2>2 DEF InTile
<1>5. CASE m > 0 /\ ~ (s.tile < NumTileRows /\ m = img.tops[s.tile + 1])
  <2>1. t = s.tile
    BY <1>5 DEF TilePos
  <2>2. img.tops[s.tile] < m /\ (s.tile < NumTileRows => m <= img.tops[s.tile + 1])
    BY <1>5 DEF AtRow
  <2>3. s.tile < NumTileRows => img.tops[s.tile + 1] \in Nat
    BY <1>1
  <2> QED BY <1>1, <1>5, <2>1, <2>2, <2>3 DEF InTile
<1> QED BY <1>3, <1>4, <1>5

LEMMA ReadGood ==
  ASSUME img \in Images, tag \in Nat, limit \in Nat, floor \in Nat,
         NEW s \in LibraryType, NEW m \in 0 .. img.rows, AtRow(s, m), Covered(m),
         NEW r \in ReadRow(s, m)
  PROVE  r[1] \in LibraryType /\ r[2] = "good" /\ AtRow(r[1], m + 1)
<1>1. /\ NumTileRows \in Nat /\ NumTileRows >= 1 /\ img.rows \in Nat /\ s.tile \in 1 .. NumTileRows
      /\ \A q \in 1 .. NumTileRows : img.tops[q] \in Nat /\ img.tops[q] < img.rows
      /\ WellFormed(img) /\ TileRows(img) = 1 .. NumTileRows
  BY TypedImage DEF LibraryType
<1>2. ReadLimit \in Nat
  BY MinOfTwo DEF ReadLimit
<1>3. CASE m = img.rows
  <2>1. r = << s, "good" >>
    BY <1>3 DEF ReadRow
  <2>2. r[1] = s /\ r[2] = "good"
    BY <2>1
  <2>3. ~ s.tile < NumTileRows
    <3>1. s.tile < NumTileRows => img.tops[s.tile + 1] \in Nat /\ img.tops[s.tile + 1] < img.rows
      BY <1>1
    <3> QED BY <1>1, <1>3, <3>1 DEF AtRow
  <2>4. AtRow(s, m + 1)
    BY <1>1, <1>3, <2>3 DEF AtRow
  <2> QED BY <2>2, <2>4
<1>4. CASE m # img.rows
  <2> DEFINE t == TilePos(s.tile, m)
  <2>1. t \in 1 .. NumTileRows /\ InTile(t, m) /\ m \in Nat
    BY <1>1, <1>4, TileOfRow
  <2> HIDE DEF t
  <2>2. TrueEnd(t) <= ReadLimit /\ TrueEnd(t) \in Nat
    BY <1>1, <2>1, TrueEnds DEF Covered
  <2>3. CanAttach(t)
    <3>1. ASSUME NEW p \in RowPackets(img, t)
          PROVE  Start(img, t, p[1], p[2]) \in floor .. ReadLimit - 1
      <4>1. Start(img, t, p[1], p[2]) \in Nat /\ Start(img, t, p[1], p[2]) < TrueEnd(t)
        BY <1>1, <2>1, PacketFacts, TrueEnds
      <4>2. floor <= Start(img, t, p[1], p[2])
        BY <2>1 DEF Covered
      <4> QED BY <1>2, <2>2, <4>1, <4>2
    <3> QED BY <3>1 DEF CanAttach
  <2>4. s.lost = FALSE
    BY DEF AtRow
  <2>5. r = << [tile |-> t, lost |-> FALSE], "good" >>
    <3>1. Outcomes(s, t, m) = {"good"}
      BY <2>2, <2>3, <2>4 DEF Outcomes
    <3>2. PICK o \in Outcomes(s, t, m) : r = << [tile |-> t, lost |-> o # "good"], o >>
      BY <1>4 DEF ReadRow, t
    <3> QED BY <3>1, <3>2
  <2>6. r[1] = [tile |-> t, lost |-> FALSE] /\ r[2] = "good"
    BY <2>5
  <2>7. img.tops[t] < m + 1 /\ (t < NumTileRows => m + 1 <= img.tops[t + 1])
    <3>1. t < NumTileRows => img.tops[t + 1] \in Nat
      BY <1>1, <2>1
    <3> QED BY <1>1, <2>1, <3>1 DEF InTile
  <2>8. r[1].tile = t /\ r[1].lost = FALSE /\ r[1] \in LibraryType
    BY <2>1, <2>6 DEF LibraryType
  <2>9. AtRow(r[1], m + 1)
    BY <2>1, <2>7, <2>8 DEF AtRow
  <2> QED BY <2>6, <2>8, <2>9
<1> QED BY <1>3, <1>4

(* One call of JXR_DecodeNextMBRow moves on by one line, and all is good.  *)
LEMMA DecodeGood ==
  ASSUME Typed, line < img.rows, RowsInStep, AtRow(sc, mbRow), Covered(mbRow), mbRow = 0 => Covered(1),
         NEW d \in Decodings, DecodeNextMBRow(d)
  PROVE  /\ d[Len(d)][2] = "good" /\ line' = line + 1 /\ mbRow' = line + 2
         /\ AtRow(sc', mbRow')
         /\ \A m \in MBRows : row'[m] = IF m < mbRow' THEN "good" ELSE "none"
         /\ \A m \in MBRows : out'[m] = IF m < line' THEN "good" ELSE "none"
<1>1. /\ img \in Images /\ sc \in LibraryType /\ mbRow \in 0 .. img.rows + 1 /\ line \in 0 .. img.rows
      /\ tag \in Nat /\ limit \in Nat /\ floor \in Nat /\ img.rows \in Nat /\ img.rows >= 1
      /\ row \in PictureType /\ out \in PictureType
      /\ \/ mbRow = 0 /\ line = 0
         \/ mbRow > 1 /\ mbRow = line + 1
  BY TypedImage DEF Typed, TypeOK, Turns, LibraryType, PictureType
<1>2. mbRow \in 0 .. img.rows
  BY <1>1
<1>3. /\ \A k \in 1 .. Len(d) : d[k][2] = "good"
      /\ Len(d) \in 1 .. 2 /\ mbRow + Len(d) = line + 2 /\ AtRow(d[Len(d)][1], mbRow + Len(d))
  <2>1. CASE mbRow # 0
    <3>1. PICK r \in ReadRow(sc, mbRow) : d = << r >>
      BY <2>1 DEF Decodings
    <3>2. r[2] = "good" /\ AtRow(r[1], mbRow + 1)
      BY <1>1, <1>2, ReadGood
    <3>3. Len(d) = 1 /\ d[1] = r
      BY <3>1
    <3> QED BY <1>1, <2>1, <3>2, <3>3
  <2>2. CASE mbRow = 0
    <3>1. PICK r \in ReadRow(sc, 0) : d \in IF r[2] = "fail" THEN {<< r >>} ELSE {<< r, q >> : q \in ReadRow(r[1], 1)}
      BY <2>2 DEF Decodings
    <3>2. r[1] \in LibraryType /\ r[2] = "good" /\ AtRow(r[1], 1)
      <4>1. r[1] \in LibraryType /\ r[2] = "good" /\ AtRow(r[1], 0 + 1)
        BY <1>1, <2>2, ReadGood
      <4> QED BY <4>1
    <3>3. PICK q \in ReadRow(r[1], 1) : d = << r, q >>
      BY <3>1, <3>2
    <3>4. q[2] = "good" /\ AtRow(q[1], 2)
      <4>1. 1 \in 0 .. img.rows
        BY <1>1
      <4>2. q[2] = "good" /\ AtRow(q[1], 1 + 1)
        BY <1>1, <2>2, <3>2, <4>1, ReadGood
      <4> QED BY <4>2
    <3>5. Len(d) = 2 /\ d[1] = r /\ d[2] = q
      BY <3>3
    <3> QED BY <1>1, <2>2, <3>2, <3>4, <3>5
  <2> QED BY <2>1, <2>2
<1>4. d[Len(d)][2] = "good"
  BY <1>3
<1>5. sc' = d[Len(d)][1] /\ mbRow' = mbRow + Len(d) /\ line' = line + 1
  BY <1>4 DEF DecodeNextMBRow
<1>6. ASSUME NEW m \in MBRows
      PROVE  row'[m] = IF m < mbRow' THEN "good" ELSE "none"
  <2>1. m \in 0 .. img.rows - 1
    BY DEF MBRows
  <2>2. row'[m] = IF m \in mbRow .. mbRow + Len(d) - 1 /\ d[m - mbRow + 1][2] # "fail"
                  THEN d[m - mbRow + 1][2] ELSE row[m]
    BY DEF DecodeNextMBRow, SetRows
  <2>3. CASE m \in mbRow .. mbRow + Len(d) - 1
    <3>1. m - mbRow + 1 \in 1 .. Len(d) /\ m < mbRow + Len(d)
      BY <1>1, <1>3, <2>1, <2>3
    <3> QED BY <1>3, <1>5, <2>2, <2>3, <3>1
  <2>4. CASE m \notin mbRow .. mbRow + Len(d) - 1
    <3>1. m < mbRow <=> m < mbRow + Len(d)
      BY <1>1, <1>3, <2>1, <2>4
    <3> QED BY <1>5, <2>2, <2>4, <3>1 DEF RowsInStep
  <2> QED BY <2>3, <2>4
<1>7. out' = [out EXCEPT ![line] = "good"]
  <2> DEFINE shown == {line, line + 1} \cap MBRows
  <2>1. line = (mbRow + Len(d)) - 2
    BY <1>1, <1>3
  <2>2. \A m \in shown : row'[m] = "good"
    <3>1. \A m \in shown : m \in MBRows /\ m < mbRow'
      BY <1>1, <1>3, <1>5
    <3> QED BY <1>6, <3>1
  <2>3. out' = [out EXCEPT ![line] =
                  IF line = (mbRow + Len(d)) - 2 /\ \A m \in shown : row'[m] = "good" THEN "good" ELSE "bad"]
    BY <1>4 DEF DecodeNextMBRow
  <2> QED BY <2>1, <2>2, <2>3
<1>8. ASSUME NEW m \in MBRows
      PROVE  out'[m] = IF m < line' THEN "good" ELSE "none"
  <2>1. m \in Nat /\ line \in Nat /\ out \in [MBRows -> {"none", "good", "bad"}]
    BY <1>1 DEF MBRows, PictureType
  <2>2. out[m] = IF m < line THEN "good" ELSE "none"
    BY DEF RowsInStep
  <2>3. CASE m = line
    BY <1>5, <1>7, <2>1, <2>3
  <2>4. CASE m # line
    <3>1. m < line <=> m < line + 1
      BY <2>1, <2>4
    <3> QED BY <1>5, <1>7, <2>1, <2>2, <2>4, <3>1
  <2> QED BY <2>3, <2>4
<1> QED BY <1>3, <1>4, <1>5, <1>6, <1>8

(* In the turn of a tile row the limit covers the rows it reads.           *)
LEMMA LimitEnough ==
  ASSUME Typed, LimitsSafe, FloorSafe, tileRow \in 1 .. NumTileRows, limit = TileRowUpperLimit,
         NEW m \in Nat, Reads(tileRow, m)
  PROVE  Covered(m)
<1>1. /\ img \in Images /\ WellFormed(img) /\ NumTileRows \in Nat /\ TileRows(img) = 1 .. NumTileRows
      /\ \A r \in 1 .. NumTileRows : img.tops[r] \in Nat
      /\ tag \in Nat /\ infos \in [1 .. NumTileRows -> [upperLimit : Nat, nextLowerLimit : Nat]]
      /\ \A r, s \in 1 .. NumTileRows : r < s => img.tops[r] < img.tops[s]
  BY TypedImage, TopsApart DEF Typed, TypeOK
<1>2. ASSUME NEW t \in 1 .. NumTileRows, InTile(t, m)
      PROVE  tileRow <= t /\ TrueEnd(t) <= limit /\ limit <= tag
  <2>1. tileRow <= t
    <3> SUFFICES ASSUME t < tileRow PROVE FALSE
      BY <1>1
    <3>1. t + 1 \in 1 .. NumTileRows /\ m < img.tops[t + 1]
      BY <1>1, <1>2 DEF InTile
    <3>2. t + 1 = tileRow \/ img.tops[t + 1] < img.tops[tileRow]
      <4>1. t + 1 = tileRow \/ t + 1 < tileRow
        BY <1>1
      <4> QED BY <1>1, <3>1, <4>1
    <3>3. img.tops[tileRow] <= m
      BY DEF Reads
    <3> QED BY <1>1, <3>1, <3>2, <3>3
  <2>2. infos[t].upperLimit \in Nat /\ TrueEnd(t) <= infos[t].upperLimit /\ infos[t].upperLimit <= tag /\ TrueEnd(t) \in Nat
    BY <1>1, TrueEnds DEF LimitsSafe
  <2>3. CASE t = tileRow
    <3>1. CASE NumMBRows(img, t) # 1
      <4>1. limit = infos[t].upperLimit
        BY <2>3, <3>1 DEF TileRowUpperLimit
      <4> QED BY <2>1, <2>2, <4>1
    <3>2. CASE NumMBRows(img, t) = 1
      <4>1. limit = infos[t + 1].upperLimit
        BY <2>3, <3>2 DEF TileRowUpperLimit
      <4>2. t + 1 \in 1 .. NumTileRows
        BY <1>1, <3>2 DEF NumMBRows, NumTileRows
      <4>3. infos[t + 1].upperLimit \in Nat /\ infos[t].upperLimit <= infos[t + 1].upperLimit /\ infos[t + 1].upperLimit <= tag
        BY <1>1, <3>2, <4>2 DEF LimitsSafe
      <4> QED BY <2>1, <2>2, <4>1, <4>3
    <3> QED BY <3>1, <3>2
  <2>4. CASE tileRow < t
    <3>1. img.tops[t] <= m /\ tileRow < NumTileRows /\ tileRow + 1 \in 1 .. NumTileRows
      BY <1>1, <1>2, <2>4 DEF InTile
    <3>2. tileRow + 1 = t \/ img.tops[tileRow + 1] < img.tops[t]
      <4>1. tileRow + 1 = t \/ tileRow + 1 < t
        BY <1>1, <2>4
      <4> QED BY <1>1, <3>1, <4>1
    <3>3. m < img.tops[tileRow + 1] \/ (m = img.tops[tileRow + 1] /\ NumMBRows(img, tileRow) = 1)
      BY <3>1 DEF Reads
    <3>4. tileRow + 1 = t /\ NumMBRows(img, tileRow) = 1
      <4>1. img.tops[tileRow + 1] \in Nat /\ img.tops[t] \in Nat
        BY <1>1, <3>1
      <4> QED BY <3>1, <3>2, <3>3, <4>1
    <3>5. limit = infos[t].upperLimit
      BY <3>4 DEF TileRowUpperLimit
    <3> QED BY <2>1, <2>2, <3>5
  <2> QED BY <1>1, <2>1, <2>3, <2>4
<1>3. ASSUME NEW t \in 1 .. NumTileRows, InTile(t, m)
      PROVE  TrueEnd(t) <= ReadLimit
  <2>1. TrueEnd(t) <= limit /\ limit <= tag /\ TrueEnd(t) \in Nat /\ limit \in Nat
    BY <1>1, <1>2, <1>3, TrueEnds DEF Typed, TypeOK
  <2>2. Min({tag, limit}) = IF tag <= limit THEN tag ELSE limit
    BY <1>1, <2>1, MinOfTwo
  <2> QED BY <1>1, <2>1, <2>2 DEF ReadLimit
<1>4. ASSUME NEW t \in 1 .. NumTileRows, InTile(t, m), NEW p \in RowPackets(img, t)
      PROVE  floor <= Start(img, t, p[1], p[2])
  BY <1>2, <1>4 DEF FloorSafe
<1> QED BY <1>3, <1>4 DEF Covered

LEMMA NoLimitEnough ==
  ASSUME Typed, LimitsSafe, limit = 0, floor = 0, NEW m \in Nat
  PROVE  Covered(m)
<1>1. WellFormed(img) /\ TileRows(img) = 1 .. NumTileRows /\ tag \in Nat /\ img.content \in Nat
  BY TypedImage, ImageFacts DEF Typed, TypeOK
<1>2. ASSUME NEW t \in 1 .. NumTileRows
      PROVE  TrueEnd(t) <= ReadLimit /\ \A p \in RowPackets(img, t) : floor <= Start(img, t, p[1], p[2])
  <2>1. TrueEnd(t) \in Nat /\ TrueEnd(t) <= img.content /\ ReadLimit = tag
    BY <1>1, TrueEnds DEF ReadLimit
  <2>2. \A p \in RowPackets(img, t) : Start(img, t, p[1], p[2]) \in Nat
    BY <1>1, PacketFacts
  <2> QED BY <1>1, <2>1, <2>2 DEF LimitsSafe
<1> QED BY <1>2 DEF Covered

-----------------------------------------------------------------------------
(* The invariant is inductive.                                             *)

LEMMA SameLimits ==
  ASSUME img' = img
  PROVE  /\ Complete' = Complete /\ \A t : TrueEnd(t)' = TrueEnd(t)
BY DEF Complete, TrueEnd, Real

LEMMA ReadingKept ==
  ASSUME RowsInStep, AtRow(sc, mbRow), img' = img, UNCHANGED << sc, row, out, mbRow, line >>
  PROVE  RowsInStep' /\ AtRow(sc, mbRow)'
BY DEF RowsInStep, AtRow, MBRows, NumTileRows

LEMMA LimitsKept ==
  ASSUME LimitsSafe, img' = img, UNCHANGED << tag, infos >>
  PROVE  LimitsSafe'
BY SameLimits DEF LimitsSafe, NumTileRows

LEMMA FloorKept ==
  ASSUME FloorSafe, img' = img, UNCHANGED << floor, tileRow >>
  PROVE  FloorSafe'
BY DEF FloorSafe, NumTileRows

(* FixWrongImageSizeTag lowers limits to the end of the file, not further. *)
LEMMA LimitsFixed ==
  ASSUME Typed, LimitsSafe, Complete, total = img.size, FixWrongImageSizeTag, img' = img
  PROVE  LimitsSafe'
<1>1. /\ total \in Nat /\ img.content \in Nat /\ img.content <= total /\ WellFormed(img)
      /\ infos \in [1 .. NumTileRows -> [upperLimit : Nat, nextLowerLimit : Nat]] /\ tag \in Nat
      /\ TileRows(img) = 1 .. NumTileRows /\ NumTileRows \in Nat
  BY TypedImage DEF Typed, TypeOK, WellFormed, Complete
<1> DEFINE least(a) == IF a > total THEN total ELSE a
<1>2. tag' = total /\ infos' = [r \in DOMAIN infos |-> [upperLimit     |-> least(infos[r].upperLimit),
                                                     nextLowerLimit |-> least(infos[r].nextLowerLimit)]]
  BY DEF FixWrongImageSizeTag
<1>3. ASSUME NEW t \in 1 .. NumTileRows
      PROVE  /\ infos'[t].upperLimit = least(infos[t].upperLimit)
             /\ infos'[t].nextLowerLimit = least(infos[t].nextLowerLimit)
             /\ infos[t].upperLimit \in Nat /\ infos[t].nextLowerLimit \in Nat
  BY <1>1, <1>2
<1>4. ASSUME NEW t \in 1 .. NumTileRows
      PROVE  /\ TrueEnd(t) <= infos'[t].upperLimit /\ infos'[t].upperLimit <= tag'
             /\ infos'[t].nextLowerLimit <= NextLowerLimit(img, t)
  <2>1. TrueEnd(t) \in Nat /\ TrueEnd(t) <= total /\ NextLowerLimit(img, t) \in Nat
    <3>1. TrueEnd(t) \in Nat /\ TrueEnd(t) <= img.content
      BY <1>1, TrueEnds
    <3>2. NextLowerLimit(img, t) \in Nat
      BY <1>1, LowerLimits
    <3> QED BY <1>1, <3>1, <3>2
  <2>2. TrueEnd(t) <= infos[t].upperLimit /\ infos[t].nextLowerLimit <= NextLowerLimit(img, t)
    BY DEF LimitsSafe
  <2> QED BY <1>1, <1>2, <1>3, <2>1, <2>2
<1>5. ASSUME NEW t \in 1 .. NumTileRows, NumMBRows(img, t) = 1
      PROVE  infos'[t].upperLimit <= infos'[t + 1].upperLimit
  <2>1. t + 1 \in 1 .. NumTileRows
    BY <1>1, <1>5 DEF NumMBRows, NumTileRows
  <2>2. infos[t].upperLimit <= infos[t + 1].upperLimit
    BY <1>5 DEF LimitsSafe
  <2>3. /\ infos'[t].upperLimit = least(infos[t].upperLimit) /\ infos[t].upperLimit \in Nat
        /\ infos'[t + 1].upperLimit = least(infos[t + 1].upperLimit) /\ infos[t + 1].upperLimit \in Nat
    BY <1>3, <2>1
  <2> QED BY <1>1, <2>2, <2>3
<1>6. img.content <= tag'
  BY <1>1, <1>2
<1> HIDE DEF least
<1> QED BY <1>4, <1>5, <1>6, SameLimits DEF LimitsSafe, NumTileRows

(* A tile row can be decoded when its turn comes.                          *)
LEMMA EntryReads ==
  ASSUME Typed, AtEntry, tileRow \in 1 .. NumTileRows
  PROVE  Reads(tileRow, mbRow) /\ line < img.rows
<1>1. /\ NumTileRows \in Nat /\ img.rows \in Nat
      /\ \A r \in 1 .. NumTileRows : img.tops[r] \in Nat /\ img.tops[r] < img.rows
      /\ \A r, s \in 1 .. NumTileRows : r < s => img.tops[r] < img.tops[s]
      /\ mbRow \in Nat /\ line \in Nat
      /\ \/ mbRow = 0 /\ line = 0
         \/ mbRow > 1 /\ mbRow = line + 1
  <2>1. img \in Images /\ mbRow \in 0 .. img.rows + 1 /\ line \in 0 .. img.rows /\ Turns
    BY DEF Typed, TypeOK
  <2>2. img.rows \in Nat
    BY <2>1, TypedImage
  <2>3. mbRow \in Nat /\ line \in Nat
    BY <2>1, <2>2
  <2> QED BY <2>1, <2>3, TypedImage, TopsApart DEF Turns
<1>2. mbRow \in {img.tops[tileRow], img.tops[tileRow] + 1}
  BY <1>1 DEF AtEntry
<1>3. line < img.rows
  <2>1. img.tops[tileRow] \in Nat /\ img.tops[tileRow] < img.rows
    BY <1>1
  <2>2. CASE mbRow = 0 /\ line = 0
    BY <2>1, <2>2, <1>1
  <2>3. CASE mbRow > 1 /\ mbRow = line + 1
    BY <2>1, <2>3, <1>1, <1>2
  <2> QED BY <1>1, <2>2, <2>3
<1>4. ASSUME tileRow < NumTileRows, ~ mbRow < img.tops[tileRow + 1]
      PROVE  mbRow = img.tops[tileRow + 1] /\ NumMBRows(img, tileRow) = 1
  <2>1. tileRow + 1 \in 1 .. NumTileRows /\ img.tops[tileRow] < img.tops[tileRow + 1] /\ img.tops[tileRow + 1] \in Nat
    BY <1>1, <1>4
  <2>2. img.tops[tileRow + 1] = img.tops[tileRow] + 1
    BY <1>1, <1>2, <1>4, <2>1
  <2> QED BY <1>1, <1>2, <1>4, <2>1, <2>2 DEF NumMBRows, NumTileRows
<1>5. img.tops[tileRow] <= mbRow
  BY <1>1, <1>2
<1> QED BY <1>3, <1>4, <1>5 DEF Reads

(* Where the rows of a tile row end in the picture.                        *)
LEMMA RowEnd ==
  ASSUME img \in Images, NEW k \in 1 .. NumTileRows
  PROVE  RowTop(img, k) + RowHeight(img, k) =
           IF k = NumTileRows THEN img.rows ELSE img.tops[k + 1] - 1
<1>1. /\ NumTileRows \in Nat /\ img.rows \in Nat
      /\ \A r \in 1 .. NumTileRows : img.tops[r] \in Nat
  BY TypedImage
<1>2. RowTop(img, k) \in Int
  BY <1>1 DEF RowTop
<1>3. CASE k = NumTileRows
  BY <1>1, <1>2, <1>3 DEF RowHeight, NumTileRows
<1>4. CASE k # NumTileRows
  <2>1. k + 1 \in 1 .. NumTileRows /\ k + 1 # 1
    BY <1>1, <1>4
  <2>2. RowTop(img, k + 1) = img.tops[k + 1] - 1 /\ img.tops[k + 1] \in Nat
    BY <1>1, <2>1 DEF RowTop
  <2>3. RowHeight(img, k) = RowTop(img, k + 1) - RowTop(img, k)
    BY <1>4 DEF RowHeight, NumTileRows
  <2> QED BY <1>2, <1>4, <2>2, <2>3
<1> QED BY <1>3, <1>4

LEMMA HealthyInit ==
  ASSUME Init, Complete, OneRowInOrder(img)
  PROVE  Healthy
<1>1. /\ img \in Images /\ WellFormed(img) /\ NumTileRows \in Nat /\ NumTileRows >= 1 /\ TileRows(img) = 1 .. NumTileRows
      /\ img.rows \in Nat /\ img.rows >= 1 /\ img.tops[1] = 0
      /\ img.upper \in Nat /\ img.content \in Nat /\ img.content <= img.upper
  BY TypedImage, ImageFacts DEF Init, WellFormed, RowsWellFormed
<1>2. /\ phase = "receiving" /\ pc = "idle" /\ total = 0 /\ tag = img.upper /\ infos = FillTileRowInfo(img)
      /\ atEnd = FALSE /\ finished = FALSE /\ tileRow = 1 /\ limit = 0 /\ mbRow = 0 /\ line = 0 /\ floor = 0
      /\ sc = [tile |-> 1, lost |-> FALSE]
  BY DEF Init
<1>3. RowsInStep
  BY DEF Init, RowsInStep, MBRows
<1>4. AtRow(sc, mbRow)
  <2>1. 1 < NumTileRows => img.tops[1 + 1] \in Nat
    BY <1>1, TypedImage
  <2> QED BY <1>2, <2>1 DEF AtRow
<1>5. LimitsSafe
  <2>1. ASSUME NEW t \in 1 .. NumTileRows
        PROVE  /\ infos[t].upperLimit = RowUpperLimit(img, t) /\ infos[t].nextLowerLimit = NextLowerLimit(img, t)
               /\ RowUpperLimit(img, t) \in Nat /\ RowUpperLimit(img, t) <= img.upper
               /\ TrueEnd(t) <= RowUpperLimit(img, t) /\ NextLowerLimit(img, t) \in Nat
    BY <1>1, <1>2, RowLimits, TrueEnds, LowerLimits DEF FillTileRowInfo
  <2>2. ASSUME NEW t \in 1 .. NumTileRows, NumMBRows(img, t) = 1
        PROVE  t \in 1 .. Len(img.tops) - 1 /\ t + 1 \in 1 .. NumTileRows
    BY <1>1, <2>2 DEF NumMBRows, NumTileRows
  <2>3. ASSUME NEW t \in 1 .. NumTileRows, NumMBRows(img, t) = 1
        PROVE  infos[t].upperLimit <= infos[t + 1].upperLimit
    <3>1. RowUpperLimit(img, t) <= RowUpperLimit(img, t + 1)
      BY <2>2, <2>3 DEF OneRowInOrder
    <3> QED BY <2>1, <2>2, <2>3, <3>1
  <2>4. ASSUME NEW t \in 1 .. NumTileRows
        PROVE  infos[t].nextLowerLimit <= NextLowerLimit(img, t)
    BY <2>1
  <2> QED BY <1>1, <1>2, <2>1, <2>3, <2>4 DEF LimitsSafe
<1>6. FloorSafe
  <2>1. ASSUME NEW r \in 1 .. NumTileRows, NEW p \in RowPackets(img, r) PROVE 0 <= Start(img, r, p[1], p[2])
    <3>1. Start(img, r, p[1], p[2]) \in Nat
      BY <1>1, PacketFacts
    <3> QED BY <3>1
  <2> QED BY <1>2, <2>1 DEF FloorSafe
<1>7. Sequential
  <2>1. AtEntry
    BY <1>1, <1>2 DEF AtEntry
  <2>2. img.head <= total => total < TileRowUpperLimit
    <3>1. TileRowUpperLimit = IF NumMBRows(img, 1) = 1 THEN infos[2].upperLimit ELSE infos[1].upperLimit
      BY <1>2 DEF TileRowUpperLimit
    <3>2. NumMBRows(img, 1) = 1 => 2 \in 1 .. NumTileRows
      <4>1. NumMBRows(img, 1) = 1 => NumTileRows # 1
        BY DEF NumMBRows, NumTileRows
      <4> QED BY <1>1, <4>1
    <3>3. ASSUME NEW t \in 1 .. NumTileRows PROVE 0 < infos[t].upperLimit
      <4>1. PICK p \in RowPackets(img, t) : TRUE
        BY <1>1 DEF WellFormed, PacketsWellFormed
      <4>2. Start(img, t, p[1], p[2]) \in Nat /\ Start(img, t, p[1], p[2]) < TrueEnd(t) /\ TrueEnd(t) \in Nat
        BY <1>1, PacketFacts, TrueEnds
      <4>3. TrueEnd(t) <= infos[t].upperLimit /\ infos[t].upperLimit = RowUpperLimit(img, t) /\ RowUpperLimit(img, t) \in Nat
        BY <1>1, <1>2, <1>5, RowLimits DEF LimitsSafe, FillTileRowInfo
      <4> QED BY <4>2, <4>3
    <3>4. 1 \in 1 .. NumTileRows
      BY <1>1
    <3> QED BY <1>2, <3>1, <3>2, <3>3, <3>4
  <2> QED BY <1>1, <1>2, <2>1, <2>2 DEF Sequential
<1> QED BY <1>2, <1>3, <1>4, <1>5, <1>6, <1>7 DEF Healthy

(* One turn of the loop of DecodeNextTileRow.                              *)
LEMMA HealthyDecodeRow ==
  ASSUME Typed, Typed', Healthy, DecodeRow
  PROVE  Healthy'
<1> SUFFICES ASSUME NEW k, k = tileRow
             PROVE  Healthy'
  OBVIOUS
<1>0. pc = "rows" /\ line < img.rows /\ UNCHANGED << img, phase, total, tag, infos, atEnd, limit >>
  BY DEF DecodeRow
<1>1. /\ img \in Images /\ NumTileRows \in Nat /\ img.rows \in Nat /\ line \in Nat /\ mbRow \in Nat /\ k \in 1 .. NumTileRows
      /\ \A r \in 1 .. NumTileRows : img.tops[r] \in Nat /\ img.tops[r] < img.rows
      /\ \A r, s \in 1 .. NumTileRows : r < s => img.tops[r] < img.tops[s]
      /\ \/ mbRow = 0 /\ line = 0
         \/ mbRow > 1 /\ mbRow = line + 1
      /\ floor \in Nat /\ TileRows(img) = 1 .. NumTileRows /\ WellFormed(img) /\ img.tops[1] = 0
      /\ infos \in [1 .. NumTileRows -> [upperLimit : Nat, nextLowerLimit : Nat]]
  BY <1>0, TypedImage, TopsApart DEF Typed, TypeOK, Turns, WellFormed, RowsWellFormed
<1>n. /\ NumTileRows \in Nat /\ img.rows \in Nat /\ line \in Nat /\ mbRow \in Nat /\ k \in 1 .. NumTileRows
      /\ \/ mbRow = 0 /\ line = 0
         \/ mbRow > 1 /\ mbRow = line + 1
      /\ img.tops[k] \in Nat
  BY <1>1
<1>2. /\ atEnd = FALSE /\ InTurn /\ RowsInStep /\ AtRow(sc, mbRow) /\ LimitsSafe /\ FloorSafe
      /\ ~ total < img.head /\ (phase # "receiving" => tag <= total /\ img.head <= total) /\ phase # "done"
      /\ (finished => tileRow > NumTileRows)
  BY <1>0 DEF Healthy, AtOnce, Sequential, Typed, TypeOK
<1>3. Reads(k, mbRow) /\ limit = TileRowUpperLimit
  BY <1>2 DEF InTurn
<1>4. Covered(mbRow)
  BY <1>1, <1>2, <1>3, LimitEnough
<1>5. ASSUME mbRow = 0 PROVE Covered(1) /\ k = 1
  <2>1. k = 1
    <3> SUFFICES ASSUME 1 < k PROVE FALSE
      BY <1>1
    <3>1. img.tops[1] < img.tops[k] /\ img.tops[k] <= 0
      BY <1>1, <1>3, <1>5 DEF Reads
    <3> QED BY <1>1, <3>1
  <2>2. Reads(k, 1)
    <3>1. 1 < NumTileRows => img.tops[1] < img.tops[2] /\ img.tops[2] \in Nat
      BY <1>1
    <3>2. 1 < NumTileRows => NumMBRows(img, 1) = img.tops[2] - img.tops[1]
      BY DEF NumMBRows, NumTileRows
    <3> QED BY <1>1, <2>1, <3>1, <3>2 DEF Reads
  <2> QED BY <1>1, <1>2, <1>3, <2>1, <2>2, LimitEnough
<1>6. PICK d \in Decodings :
        /\ DecodeNextMBRow(d)
        /\ IF RowsDone(d[Len(d)][2] # "fail") THEN RowsLeave ELSE UNCHANGED << tileRow, floor, finished, pc >>
  BY DEF DecodeRow
<1>7. /\ d[Len(d)][2] = "good" /\ line' = line + 1 /\ mbRow' = line + 2 /\ AtRow(sc', mbRow')
      /\ \A m \in MBRows : row'[m] = IF m < mbRow' THEN "good" ELSE "none"
      /\ \A m \in MBRows : out'[m] = IF m < line' THEN "good" ELSE "none"
  BY <1>0, <1>2, <1>4, <1>5, <1>6, DecodeGood
<1>8. RowsInStep' /\ AtRow(sc, mbRow)' /\ LimitsSafe'
  BY <1>0, <1>2, <1>7, LimitsKept DEF RowsInStep, AtRow, MBRows, NumTileRows
<1>9. RowTop(img, k) + RowHeight(img, k) = IF k = NumTileRows THEN img.rows ELSE img.tops[k + 1] - 1
  BY <1>1, RowEnd
<1>10. /\ line' = line + 1 /\ mbRow' = line + 2 /\ mbRow' = line' + 1 /\ line' <= img.rows
       /\ mbRow <= mbRow' /\ line' \in Nat
  BY <1>0, <1>n, <1>7
<1>11. CASE line' >= RowTop(img, k) + RowHeight(img, k)
  <2>1. /\ tileRow' = k + 1 /\ floor' = Max({floor, infos[k].nextLowerLimit})
        /\ finished' = (tileRow' > NumTileRows) /\ pc' = IF finished' THEN "idle" ELSE "loop"
    BY <1>6, <1>11 DEF RowsDone, RowsLeave
  <2>2. FloorSafe'
    <3>1. ASSUME NEW r \in 1 .. NumTileRows, k + 1 <= r, NEW p \in RowPackets(img, r)
          PROVE  floor' <= Start(img, r, p[1], p[2])
      <4>1. Start(img, r, p[1], p[2]) \in Nat /\ floor <= Start(img, r, p[1], p[2])
        BY <1>1, <1>2, <3>1, PacketFacts DEF FloorSafe
      <4>2. NextLowerLimit(img, k) \in Nat /\ NextLowerLimit(img, k) <= Start(img, r, p[1], p[2])
        <5>1. k < r
          BY <1>n, <3>1
        <5> QED BY <1>1, <3>1, <5>1, LowerLimits
      <4>3. infos[k].nextLowerLimit \in Nat /\ infos[k].nextLowerLimit <= NextLowerLimit(img, k)
        BY <1>1, <1>2 DEF LimitsSafe
      <4>4. floor' = IF floor <= infos[k].nextLowerLimit THEN infos[k].nextLowerLimit ELSE floor
        BY <1>1, <2>1, <4>3, MaxOfTwo
      <4> QED BY <1>1, <4>1, <4>2, <4>3, <4>4
    <3> QED BY <1>0, <2>1, <3>1 DEF FloorSafe, NumTileRows
  <2>3. CASE k = NumTileRows
    <3>1. line' = img.rows
      BY <1>1, <1>9, <1>10, <1>11, <2>3, <1>7
    <3>2. tileRow' > NumTileRows /\ pc' = "idle"
      <4>1. tileRow' > NumTileRows
        BY <1>n, <2>1, <2>3
      <4>2. finished' = TRUE
        BY <2>1, <4>1
      <4> QED BY <2>1, <4>1, <4>2
    <3>3. Sequential'
      BY <1>0, <1>1, <1>2, <2>1, <3>1, <3>2 DEF Sequential, AtEntry, NumTileRows
    <3> QED BY <1>0, <1>2, <1>8, <2>2, <3>3 DEF Healthy
  <2>4. CASE k # NumTileRows
    <3>1. k + 1 \in 1 .. NumTileRows /\ img.tops[k + 1] \in Nat /\ k < NumTileRows
      BY <1>1, <2>4
    <3>2. line' >= img.tops[k + 1] - 1
      BY <1>9, <1>11, <2>4
    <3>3. mbRow <= img.tops[k + 1]
      BY <1>1, <1>3, <3>1 DEF Reads
    <3>4. mbRow = 0 => img.tops[k + 1] >= 1
      BY <1>1, <3>1
    <3>5. mbRow' \in {img.tops[k + 1], img.tops[k + 1] + 1}
      BY <1>n, <1>10, <3>1, <3>2, <3>3, <3>4
    <3>6. pc' = "loop" /\ tileRow' # 1 /\ ~ (tileRow' > NumTileRows) /\ ~ finished'
      <4>1. tileRow' # 1 /\ ~ (tileRow' > NumTileRows)
        BY <1>n, <2>1, <3>1
      <4>2. ~ finished'
        BY <2>1, <4>1
      <4> QED BY <2>1, <4>1, <4>2
    <3>7. AtEntry'
      BY <1>0, <2>1, <3>5, <3>6 DEF AtEntry, NumTileRows
    <3>8. Sequential'
      BY <1>0, <1>2, <3>6, <3>7 DEF Sequential
    <3> QED BY <1>0, <1>2, <1>8, <2>2, <3>8 DEF Healthy
  <2> QED BY <2>3, <2>4
<1>12. CASE ~ (line' >= RowTop(img, k) + RowHeight(img, k))
  <2>1. UNCHANGED << tileRow, floor, finished, pc >>
    BY <1>6, <1>7, <1>12 DEF RowsDone
  <2>2. FloorSafe'
    BY <1>0, <1>2, <2>1, FloorKept
  <2>3. line' < img.rows /\ (k < NumTileRows => mbRow' < img.tops[k + 1])
    <3>1. CASE k = NumTileRows
      <4>1. ~ line' >= img.rows
        BY <1>9, <1>12, <3>1
      <4> QED BY <1>n, <1>10, <3>1, <4>1
    <3>2. CASE k # NumTileRows
      <4>1. k + 1 \in 1 .. NumTileRows /\ img.tops[k + 1] \in Nat /\ img.tops[k + 1] < img.rows
        BY <1>1, <3>2
      <4>2. ~ line' >= img.tops[k + 1] - 1
        BY <1>9, <1>12, <3>2
      <4> QED BY <1>n, <1>10, <4>1, <4>2
    <3> QED BY <3>1, <3>2
  <2>4. img.tops[k] <= mbRow'
    <3>1. img.tops[k] <= mbRow
      BY <1>3 DEF Reads
    <3> QED BY <1>n, <1>10, <3>1
  <2>5. InTurn'
    BY <1>0, <1>1, <1>3, <2>1, <2>3, <2>4 DEF InTurn, Reads, NumTileRows, TileRowUpperLimit
  <2>6. Sequential'
    BY <1>0, <1>2, <2>1, <2>5 DEF Sequential, NumTileRows
  <2> QED BY <1>0, <1>2, <1>8, <2>2, <2>6 DEF Healthy
<1> QED BY <1>11, <1>12

LEMMA HealthyWrite ==
  ASSUME Typed, Healthy, NEW n \in Nat, WriteInternal(n)
  PROVE  Healthy'
<1>1. /\ phase = "receiving" /\ pc = "idle" /\ total' = total + n
      /\ atEnd' = IF total < img.head /\ total' >= img.head THEN total' >= tag ELSE atEnd
      /\ pc' = IF total' < img.head \/ atEnd' \/ finished THEN "idle" ELSE "loop"
      /\ UNCHANGED << img, phase, tag, infos, finished, tileRow, limit, mbRow, line, floor, sc, row, out >>
  BY DEF WriteInternal
<1>2. /\ img \in Images /\ img.head \in Nat /\ total \in Nat /\ total' \in Nat /\ tag \in Nat /\ total <= total'
      /\ tileRow \in Nat /\ NumTileRows \in Nat /\ atEnd \in BOOLEAN
      /\ (mbRow = 0 => line = 0)
  BY <1>1, TypedImage DEF Typed, TypeOK, Turns, WellFormed
<1>3. RowsInStep' /\ AtRow(sc, mbRow)' /\ LimitsSafe' /\ FloorSafe'
  BY <1>1, ReadingKept, LimitsKept, FloorKept DEF Healthy
<1>4. CASE atEnd
  <2>1. AtOnce
    BY <1>4 DEF Healthy
  <2>2. atEnd' /\ pc' = "idle"
    BY <1>1, <1>2, <1>4, <2>1 DEF AtOnce
  <2>3. AtOnce'
    BY <1>1, <1>2, <2>1, <2>2 DEF AtOnce
  <2> QED BY <1>3, <2>2, <2>3 DEF Healthy
<1>5. CASE ~ atEnd /\ total < img.head /\ total' >= img.head /\ total' >= tag
  <2>1. Sequential
    BY <1>5 DEF Healthy
  <2>2. atEnd' /\ pc' = "idle"
    BY <1>1, <1>5
  <2>3. limit = 0 /\ floor = 0 /\ tileRow = 1 /\ line = 0
    BY <1>1, <1>2, <1>5, <2>1 DEF Sequential, AtEntry
  <2>4. AtOnce'
    BY <1>1, <1>2, <1>5, <2>2, <2>3 DEF AtOnce
  <2> QED BY <1>3, <2>2, <2>4 DEF Healthy
<1>6. CASE ~ atEnd /\ ~ (total < img.head /\ total' >= img.head /\ total' >= tag)
  <2>1. Sequential
    BY <1>6 DEF Healthy
  <2>2. ~ atEnd'
    BY <1>1, <1>6
  <2>3. AtEntry'
    BY <1>1, <2>1 DEF Sequential, AtEntry, NumTileRows
  <2>4. pc' \in {"idle", "loop"} /\ (pc' = "idle" /\ img.head <= total' => finished)
    BY <1>1, <1>2, <2>2
  <2>5. total' < img.head => pc' = "idle" /\ total < img.head
    BY <1>1, <1>2
  <2>6. Sequential'
    BY <1>1, <1>2, <2>1, <2>3, <2>4, <2>5 DEF Sequential, NumTileRows
  <2> QED BY <1>3, <2>2, <2>6 DEF Healthy
<1> QED BY <1>4, <1>5, <1>6

LEMMA HealthyWriteEnd ==
  ASSUME Typed, Complete, Healthy, WriteEnd
  PROVE  Healthy'
<1>1. /\ phase = "receiving" /\ pc = "idle" /\ total = img.size /\ total >= img.head /\ ~ finished /\ total < tag
      /\ FixWrongImageSizeTag /\ pc' = "loop"
      /\ UNCHANGED << img, phase, total, atEnd, finished, tileRow, mbRow, line, floor, sc, row, out >>
  BY DEF WriteEnd
<1>2. total \in Nat /\ tag \in Nat /\ img.head \in Nat
  BY TypedImage DEF Typed, TypeOK, WellFormed
<1>3. RowsInStep' /\ AtRow(sc, mbRow)' /\ LimitsSafe' /\ FloorSafe'
  BY <1>1, ReadingKept, LimitsFixed, FloorKept DEF Healthy
<1>4. ~ atEnd
  BY <1>1, <1>2 DEF Healthy, AtOnce
<1>5. AtEntry'
  BY <1>1, <1>4 DEF Healthy, Sequential, AtEntry, NumTileRows
<1>6. Sequential'
  BY <1>1, <1>2, <1>5 DEF Sequential
<1> QED BY <1>1, <1>3, <1>4, <1>6 DEF Healthy

LEMMA HealthyFinish ==
  ASSUME Typed, Complete, Healthy, FinishInternal
  PROVE  Healthy'
<1>1. /\ phase = "receiving" /\ pc = "idle" /\ total = img.size /\ total >= img.head /\ phase' = "finishing"
      /\ UNCHANGED << img, total, atEnd, finished, tileRow, mbRow, line, floor, sc, row, out >>
  BY DEF FinishInternal
<1>2. total \in Nat /\ tag \in Nat /\ img.head \in Nat /\ img.rows \in Nat /\ img.rows >= 1
  BY TypedImage DEF Typed, TypeOK, WellFormed
<1>3. RowsInStep' /\ AtRow(sc, mbRow)' /\ FloorSafe'
  BY <1>1, ReadingKept, FloorKept DEF Healthy
<1>4. CASE atEnd
  <2>1. pc' = "all" /\ UNCHANGED << tag, infos, limit >>
    BY <1>4 DEF FinishInternal
  <2>2. LimitsSafe'
    BY <1>1, <2>1, LimitsKept DEF Healthy
  <2>3. AtOnce'
    BY <1>1, <1>2, <1>4, <2>1 DEF Healthy, AtOnce
  <2> QED BY <1>1, <1>3, <1>4, <2>2, <2>3 DEF Healthy
<1>5. CASE ~ atEnd /\ total < tag
  <2>1. pc' = "loop" /\ FixWrongImageSizeTag
    BY <1>5 DEF FinishInternal
  <2>2. LimitsSafe' /\ tag' = total
    BY <1>1, <2>1, LimitsFixed DEF Healthy, FixWrongImageSizeTag
  <2>3. AtEntry'
    BY <1>1, <1>5 DEF Healthy, Sequential, AtEntry, NumTileRows
  <2>4. finished' => tileRow' > NumTileRows'
    BY <1>1, <1>5 DEF Healthy, Sequential, NumTileRows
  <2>5. Sequential'
    BY <1>1, <1>2, <2>1, <2>2, <2>3, <2>4 DEF Sequential
  <2> QED BY <1>1, <1>3, <1>5, <2>2, <2>5 DEF Healthy
<1>6. CASE ~ atEnd /\ ~ total < tag
  <2>1. pc' = "idle" /\ UNCHANGED << tag, infos, limit >>
    BY <1>6 DEF FinishInternal
  <2>2. LimitsSafe'
    BY <1>1, <2>1, LimitsKept DEF Healthy
  <2>3. AtEntry' /\ TileRowUpperLimit' = TileRowUpperLimit /\ NumTileRows' = NumTileRows
    BY <1>1, <1>6, <2>1 DEF Healthy, Sequential, AtEntry, NumTileRows, TileRowUpperLimit
  <2>4. Sequential'
    BY <1>1, <1>2, <1>6, <2>1, <2>3 DEF Healthy, Sequential
  <2> QED BY <1>1, <1>3, <1>6, <2>2, <2>4 DEF Healthy
<1> QED BY <1>4, <1>5, <1>6

LEMMA HealthyEnd ==
  ASSUME Healthy, EndDecodingMBRows
  PROVE  Healthy'
<1>1. phase = "finishing" /\ pc = "idle" /\ phase' = "done" /\ UNCHANGED << img, pc, total, tag, decoder >>
  BY DEF EndDecodingMBRows
<1>2. UNCHANGED << infos, atEnd, finished, tileRow, limit, mbRow, line, floor, sc, row, out >>
  BY <1>1 DEF decoder
<1>3. RowsInStep' /\ AtRow(sc, mbRow)' /\ LimitsSafe' /\ FloorSafe'
  BY <1>1, <1>2, ReadingKept, LimitsKept, FloorKept DEF Healthy
<1>4. atEnd => AtOnce'
  BY <1>1, <1>2 DEF Healthy, AtOnce
<1>5. ~ atEnd => Sequential'
  BY <1>1, <1>2 DEF Healthy, Sequential, AtEntry, NumTileRows, TileRowUpperLimit
<1> QED BY <1>2, <1>3, <1>4, <1>5 DEF Healthy

LEMMA HealthyLoop ==
  ASSUME Typed, Healthy, Loop
  PROVE  Healthy'
<1>1. /\ pc = "loop"
      /\ UNCHANGED << img, phase, total, tag, infos, atEnd, finished, tileRow, mbRow, line, floor, sc, row, out >>
  BY DEF Loop
<1>2. RowsInStep' /\ AtRow(sc, mbRow)' /\ LimitsSafe' /\ FloorSafe'
  BY <1>1, ReadingKept, LimitsKept, FloorKept DEF Healthy
<1>3. ~ atEnd /\ AtEntry /\ Sequential
  BY <1>1 DEF Healthy, AtOnce, Sequential
<1>4. /\ total \in Nat /\ img.head \in Nat /\ tileRow \in 1 .. NumTileRows + 1 /\ NumTileRows \in Nat
      /\ DOMAIN infos = 1 .. NumTileRows /\ ~ total < img.head
  BY <1>1, <1>3, TypedImage DEF Typed, TypeOK, WellFormed, Sequential
<1>5. TileRowUpperLimit' = TileRowUpperLimit /\ NumTileRows' = NumTileRows
  BY <1>1 DEF TileRowUpperLimit, NumTileRows
<1>6. CASE tileRow \in DOMAIN infos /\ Arrived
  <2>1. pc' = "rows" /\ limit' = TileRowUpperLimit
    BY <1>6 DEF Loop
  <2>2. Reads(tileRow, mbRow) /\ line < img.rows
    BY <1>3, <1>4, <1>6, EntryReads
  <2>3. InTurn'
    BY <1>1, <1>4, <1>5, <1>6, <2>1, <2>2 DEF InTurn, Reads
  <2>4. Sequential'
    BY <1>1, <1>3, <1>4, <1>5, <2>1, <2>3 DEF Sequential
  <2> QED BY <1>1, <1>2, <1>3, <2>4 DEF Healthy
<1>7. CASE ~ (tileRow \in DOMAIN infos /\ Arrived)
  <2>1. pc' = "idle" /\ limit' = limit
    BY <1>7 DEF Loop
  <2>2. tileRow > NumTileRows \/ total < TileRowUpperLimit
    <3>1. CASE tileRow \in 1 .. NumTileRows
      <4>1. TileRowUpperLimit \in Nat /\ ~ total >= TileRowUpperLimit
        BY <1>4, <1>7, <3>1, InfosType DEF Arrived
      <4> QED BY <1>4, <4>1
    <3>2. CASE tileRow \notin 1 .. NumTileRows
      BY <1>4, <3>2
    <3> QED BY <3>1, <3>2
  <2>3. AtEntry'
    BY <1>1, <1>3, <1>5 DEF AtEntry
  <2>4. Sequential'
    BY <1>1, <1>3, <1>4, <1>5, <2>1, <2>2, <2>3 DEF Sequential
  <2> QED BY <1>1, <1>2, <1>3, <2>4 DEF Healthy
<1> QED BY <1>6, <1>7

LEMMA HealthyDecodeAll ==
  ASSUME Typed, Typed', Healthy, DecodeAll
  PROVE  Healthy'
<1>1. /\ pc = "all" /\ line < img.rows
      /\ UNCHANGED << img, phase, total, tag, infos, atEnd, finished, tileRow, limit, floor >>
  BY DEF DecodeAll
<1>2. atEnd /\ AtOnce /\ RowsInStep /\ AtRow(sc, mbRow) /\ LimitsSafe /\ FloorSafe /\ limit = 0 /\ floor = 0
  BY <1>1 DEF Healthy, Sequential, AtOnce
<1>3. mbRow \in Nat /\ line \in Nat /\ img.rows \in Nat /\ line' \in 0 .. img.rows
  BY <1>1, TypedImage DEF Typed, TypeOK
<1>4. Covered(mbRow) /\ Covered(1)
  BY <1>2, <1>3, NoLimitEnough
<1>5. PICK d \in Decodings :
        /\ DecodeNextMBRow(d)
        /\ pc' = IF d[Len(d)][2] = "fail" \/ line' >= img.rows THEN "idle" ELSE "all"
  BY DEF DecodeAll
<1>6. /\ d[Len(d)][2] = "good" /\ line' = line + 1 /\ mbRow' = line + 2 /\ AtRow(sc', mbRow')
      /\ \A m \in MBRows : row'[m] = IF m < mbRow' THEN "good" ELSE "none"
      /\ \A m \in MBRows : out'[m] = IF m < line' THEN "good" ELSE "none"
  BY <1>1, <1>2, <1>4, <1>5, DecodeGood
<1>7. RowsInStep' /\ AtRow(sc, mbRow)' /\ LimitsSafe' /\ FloorSafe'
  BY <1>1, <1>2, <1>6, LimitsKept, FloorKept DEF RowsInStep, AtRow, MBRows, NumTileRows
<1>8. pc' = IF line' >= img.rows THEN "idle" ELSE "all"
  BY <1>5, <1>6
<1>9. phase = "finishing"
  BY <1>1, <1>2 DEF AtOnce
<1>10. AtOnce'
  <2>1. CASE line' >= img.rows
    <3>1. pc' = "idle" /\ line' = img.rows
      BY <1>3, <1>8, <2>1
    <3> QED BY <1>1, <1>2, <1>9, <3>1 DEF AtOnce
  <2>2. CASE ~ line' >= img.rows
    <3>1. pc' = "all" /\ line' < img.rows
      BY <1>3, <1>8, <2>2
    <3> QED BY <1>1, <1>2, <1>9, <3>1 DEF AtOnce
  <2> QED BY <2>1, <2>2
<1> QED BY <1>1, <1>2, <1>7, <1>10 DEF Healthy

LEMMA InvInit == Init => IInv
BY TypedInit, HealthyInit DEF IInv

LEMMA InvNext == IInv /\ [Next]_vars => IInv'
<1> SUFFICES ASSUME IInv, [Next]_vars
             PROVE  IInv'
  OBVIOUS
<1>1. Typed /\ Typed'
  BY TypedNext DEF IInv
<1>2. img' = img
  BY <1>1, SameImage
<1>3. Complete' = Complete /\ OneRowInOrder(img') = OneRowInOrder(img)
  BY <1>2, SameLimits
<1>4. ASSUME Complete, OneRowInOrder(img)
      PROVE  Healthy'
  <2>0. Healthy
    BY <1>4 DEF IInv
  <2>1. CASE \E n \in 1 .. MaxWrite : WriteInternal(n)
    <3>1. \A n \in 1 .. MaxWrite : n \in Nat
      BY ImagesAssumption
    <3> QED BY <1>1, <2>0, <2>1, <3>1, HealthyWrite
  <2>2. CASE WriteEnd
    BY <1>1, <1>4, <2>0, <2>2, HealthyWriteEnd
  <2>3. CASE FinishInternal
    BY <1>1, <1>4, <2>0, <2>3, HealthyFinish
  <2>4. CASE EndDecodingMBRows
    BY <2>0, <2>4, HealthyEnd
  <2>5. CASE Loop
    BY <1>1, <2>0, <2>5, HealthyLoop
  <2>6. CASE DecodeRow
    BY <1>1, <2>0, <2>6, HealthyDecodeRow
  <2>7. CASE DecodeAll
    BY <1>1, <2>0, <2>7, HealthyDecodeAll
  <2>8. CASE UNCHANGED vars
    <3>1. UNCHANGED << img, phase, pc, total, tag, infos, atEnd, finished, tileRow, limit, mbRow, line, floor, sc, row, out >>
      BY <2>8 DEF vars, decoder
    <3>2. RowsInStep' /\ AtRow(sc, mbRow)' /\ LimitsSafe' /\ FloorSafe'
      BY <2>0, <3>1, ReadingKept, LimitsKept, FloorKept DEF Healthy
    <3>3. (atEnd => AtOnce') /\ (~ atEnd => Sequential')
      BY <2>0, <3>1 DEF Healthy, AtOnce, Sequential, AtEntry, InTurn, Reads, NumTileRows, TileRowUpperLimit
    <3> QED BY <3>1, <3>2, <3>3 DEF Healthy
  <2> QED BY <2>1, <2>2, <2>3, <2>4, <2>5, <2>6, <2>7, <2>8 DEF Next, Terminating
<1> QED BY <1>1, <1>3, <1>4 DEF IInv

LEMMA InvAlways == Spec => []IInv
BY InvInit, InvNext, PTL DEF Spec

-----------------------------------------------------------------------------
(* What the images of a sender that keeps tile rows of one macroblock row  *)
(* in order (any file whose tiles are stored from top to bottom) make true *)
(* in every state.                                                         *)

LEMMA InOrder ==
  ASSUME IInv, \A i \in Images : OneRowInOrder(i)
  PROVE  Typed /\ (Complete => Healthy)
BY DEF IInv, Typed, TypeOK

LEMMA GoodLines ==
  ASSUME IInv, \A i \in Images : OneRowInOrder(i)
  PROVE  LinesGood
<1>1. ASSUME Complete, NEW m \in MBRows PROVE out[m] # "bad"
  BY <1>1, InOrder DEF Healthy, RowsInStep
<1> QED BY <1>1 DEF LinesGood

LEMMA LinesOut ==
  ASSUME IInv, \A i \in Images : OneRowInOrder(i)
  PROVE  AllLines
<1> SUFFICES ASSUME phase = "done", Complete
             PROVE  \A m \in MBRows : out[m] = "good"
  BY DEF AllLines
<1>1. Typed /\ Healthy
  BY InOrder
<1>2. /\ img.rows \in Nat /\ NumTileRows \in Nat /\ tileRow \in 1 .. NumTileRows + 1 /\ tag \in Nat /\ total \in Nat
      /\ infos \in [1 .. NumTileRows -> [upperLimit : Nat, nextLowerLimit : Nat]]
  BY <1>1, TypedImage DEF Typed, TypeOK
<1>3. line = img.rows
  <2>1. CASE atEnd
    BY <1>1, <2>1 DEF Healthy, AtOnce, Typed, TypeOK
  <2>2. CASE ~ atEnd
    <3>1. Sequential /\ LimitsSafe
      BY <1>1, <2>2 DEF Healthy
    <3>2. pc = "idle" /\ img.head <= total /\ tag <= total /\ AtEntry
      BY <3>1 DEF Sequential
    <3>3. tileRow > NumTileRows
      <4> SUFFICES ASSUME tileRow \in 1 .. NumTileRows PROVE FALSE
        BY <1>2
      <4>1. total < TileRowUpperLimit
        BY <1>2, <3>1, <3>2 DEF Sequential
      <4>2. NumMBRows(img, tileRow) = 1 => tileRow + 1 \in 1 .. NumTileRows
        <5>1. NumMBRows(img, tileRow) = 1 => tileRow # NumTileRows
          BY DEF NumMBRows, NumTileRows
        <5> QED BY <1>2, <5>1
      <4>3. TileRowUpperLimit \in Nat /\ TileRowUpperLimit <= tag
        BY <1>2, <3>1, <4>2 DEF TileRowUpperLimit, LimitsSafe
      <4> QED BY <1>2, <3>2, <4>1, <4>3
    <3> QED BY <3>2, <3>3 DEF AtEntry
  <2> QED BY <2>1, <2>2
<1>4. \A m \in MBRows : m < line
  BY <1>2, <1>3 DEF MBRows
<1> QED BY <1>1, <1>4 DEF Healthy, RowsInStep

LEMMA RowsInTime ==
  ASSUME IInv, \A i \in Images : OneRowInOrder(i)
  PROVE  RowsShownInTime
<1> SUFFICES ASSUME pc = "idle", total >= img.head, ~ atEnd, Complete, NEW r \in 1 .. NumTileRows,
                    \A t \in 1 .. r + 1 : t \in DOMAIN infos => total >= infos[t].upperLimit
             PROVE  line >= LastRow(img, r) - (IF r = NumTileRows THEN 0 ELSE 1)
  BY DEF RowsShownInTime
<1>1. Typed /\ Sequential /\ AtEntry
  BY InOrder DEF Healthy, Sequential
<1>2. /\ img.rows \in Nat /\ NumTileRows \in Nat /\ tileRow \in 1 .. NumTileRows + 1 /\ total \in Nat /\ img.head \in Nat
      /\ infos \in [1 .. NumTileRows -> [upperLimit : Nat, nextLowerLimit : Nat]] /\ line \in Nat
      /\ \/ mbRow = 0 /\ line = 0
         \/ mbRow > 1 /\ mbRow = line + 1
  BY <1>1, TypedImage DEF Typed, TypeOK, Turns, WellFormed
<1>t. \A t \in 1 .. NumTileRows : img.tops[t] \in Nat /\ img.tops[t] < img.rows
  BY <1>1, TypedImage DEF Typed, TypeOK
<1>s. \A s, t \in 1 .. NumTileRows : s < t => img.tops[s] < img.tops[t]
  BY <1>1, TopsApart DEF Typed, TypeOK
<1>3. tileRow > r
  <2> SUFFICES ASSUME tileRow <= r PROVE FALSE
    BY <1>2
  <2>1. tileRow \in 1 .. NumTileRows /\ tileRow \in 1 .. r + 1 /\ tileRow + 1 \in 1 .. r + 1
    BY <1>2
  <2>2. total < TileRowUpperLimit
    <3>1. ~ tileRow > NumTileRows /\ img.head <= total
      BY <1>2, <2>1
    <3> QED BY <1>1, <3>1 DEF Sequential
  <2>3. NumMBRows(img, tileRow) = 1 => tileRow + 1 \in 1 .. NumTileRows
    <3>1. NumMBRows(img, tileRow) = 1 => tileRow # NumTileRows
      BY DEF NumMBRows, NumTileRows
    <3> QED BY <1>2, <2>1, <3>1
  <2>4. TileRowUpperLimit \in Nat /\ total >= TileRowUpperLimit
    <3>1. \A t \in 1 .. NumTileRows : t \in DOMAIN infos /\ infos[t].upperLimit \in Nat
      BY <1>2
    <3> QED BY <2>1, <2>3, <3>1 DEF TileRowUpperLimit
  <2> QED BY <1>2, <2>2, <2>4
<1>4. CASE tileRow > NumTileRows
  <2>1. line = img.rows
    BY <1>1, <1>4 DEF AtEntry
  <2>2. LastRow(img, r) \in Nat /\ LastRow(img, r) <= img.rows
    <3>1. r # NumTileRows => r + 1 \in 1 .. NumTileRows
      BY <1>2
    <3> QED BY <1>2, <1>t, <3>1 DEF LastRow, NumTileRows
  <2> QED BY <1>2, <2>1, <2>2
<1>5. CASE ~ tileRow > NumTileRows
  <2>1. r + 1 \in 1 .. NumTileRows /\ tileRow \in 1 .. NumTileRows /\ r # NumTileRows /\ r + 1 <= tileRow
    BY <1>2, <1>3, <1>5
  <2>2. img.tops[r + 1] <= img.tops[tileRow] /\ img.tops[r + 1] \in Nat /\ img.tops[tileRow] \in Nat
    <3>1. r + 1 = tileRow \/ r + 1 < tileRow
      BY <1>2, <2>1
    <3>2. img.tops[r + 1] \in Nat /\ img.tops[tileRow] \in Nat
      BY <1>t, <2>1
    <3>3. r + 1 < tileRow => img.tops[r + 1] < img.tops[tileRow]
      BY <1>s, <2>1
    <3> QED BY <3>1, <3>2, <3>3
  <2>3. mbRow \in {img.tops[tileRow], img.tops[tileRow] + 1}
    BY <1>1, <1>2, <2>1 DEF AtEntry
  <2>4. line >= img.tops[tileRow] - 1
    <3>1. img.tops[tileRow] <= mbRow /\ img.tops[tileRow] \in Nat
      BY <2>2, <2>3
    <3>2. line >= mbRow - 1 /\ line \in Nat /\ mbRow \in Nat
      BY <1>2
    <3> QED BY <3>1, <3>2
  <2>5. LastRow(img, r) = img.tops[r + 1]
    BY <2>1 DEF LastRow, NumTileRows
  <2> QED BY <1>2, <2>1, <2>2, <2>4, <2>5
<1> QED BY <1>4, <1>5

LEMMA KeptForLater ==
  ASSUME IInv, \A i \in Images : OneRowInOrder(i)
  PROVE  NothingNeededDiscarded
<1> SUFFICES ASSUME Complete, NEW r \in 1 .. NumTileRows, img.tops[r] >= mbRow, NEW p \in RowPackets(img, r)
             PROVE  floor <= Start(img, r, p[1], p[2])
  BY DEF NothingNeededDiscarded
<1>1. Typed /\ Healthy /\ FloorSafe
  BY InOrder DEF Healthy
<1>2. /\ NumTileRows \in Nat /\ tileRow \in 1 .. NumTileRows + 1 /\ mbRow \in Nat /\ img.rows \in Nat /\ line \in Nat
      /\ \A t \in 1 .. NumTileRows : img.tops[t] \in Nat /\ img.tops[t] < img.rows
      /\ \A s, t \in 1 .. NumTileRows : s < t => img.tops[s] < img.tops[t]
      /\ \/ mbRow = 0 /\ line = 0
         \/ mbRow > 1 /\ mbRow = line + 1
  BY <1>1, TypedImage, TopsApart DEF Typed, TypeOK, Turns
<1>3. tileRow <= r
  <2>1. CASE atEnd
    BY <1>1, <1>2, <2>1 DEF Healthy, AtOnce
  <2>2. CASE ~ atEnd
    <3>1. Sequential
      BY <1>1, <2>2 DEF Healthy
    <3>2. tileRow \in 1 .. NumTileRows /\ img.tops[tileRow] <= mbRow
      <4>1. CASE pc = "rows"
        BY <1>2, <3>1, <4>1 DEF Sequential, InTurn, Reads
      <4>2. CASE pc # "rows"
        <5>1. AtEntry
          BY <3>1, <4>2 DEF Sequential
        <5>2. tileRow \in 1 .. NumTileRows
          BY <1>2, <5>1 DEF AtEntry
        <5> QED BY <1>2, <5>1, <5>2 DEF AtEntry
      <4> QED BY <4>1, <4>2
    <3>3. SUFFICES ASSUME r < tileRow PROVE FALSE
      BY <1>2
    <3>4. img.tops[r] < img.tops[tileRow]
      BY <1>2, <3>2, <3>3
    <3> QED BY <1>2, <3>2, <3>4
  <2> QED BY <2>1, <2>2
<1> QED BY <1>1, <1>3 DEF FloorSafe

(* No row of a complete file is ever made from bytes behind the limit its  *)
(* tile row is decoded below, in whatever order its tile rows are stored,  *)
(* however their packets overlap and whatever its size tag says            *)
(* (nsJPEGXRDecoder::DoTheDecoding, SetCurrentSubbandUpperLimit).          *)
THEOREM RowsWithinLimits ==
  ASSUME \A i \in Images : OneRowInOrder(i)
  PROVE  Spec => []LinesGood
<1>1. IInv => LinesGood
  BY GoodLines
<1> QED BY <1>1, InvAlways, PTL

(* A complete file ends as a complete picture: no tile row is tried before *)
(* its packets have arrived, and none is left over when the file has ended *)
(* (nsJPEGXRDecoder::FinishInternal).                                      *)
THEOREM WholePicture ==
  ASSUME \A i \in Images : OneRowInOrder(i)
  PROVE  Spec => []AllLines
<1>1. IInv => AllLines
  BY LinesOut
<1> QED BY <1>1, InvAlways, PTL

(* Whenever WriteInternal returns, every tile row whose packets and whose  *)
(* successor's have arrived is in the picture.                             *)
THEOREM Responsive ==
  ASSUME \A i \in Images : OneRowInOrder(i)
  PROVE  Spec => []RowsShownInTime
<1>1. IInv => RowsShownInTime
  BY RowsInTime
<1> QED BY <1>1, InvAlways, PTL

(* DiscardHead never drops a byte that a later tile row begins with.       *)
THEOREM NothingNeededLost ==
  ASSUME \A i \in Images : OneRowInOrder(i)
  PROVE  Spec => []NothingNeededDiscarded
<1>1. IInv => NothingNeededDiscarded
  BY KeptForLater
<1> QED BY <1>1, InvAlways, PTL

=============================================================================
