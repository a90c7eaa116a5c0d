---------------------- MODULE ProgressiveDecoderProofs ----------------------
(***************************************************************************)
(* Proofs about ProgressiveDecoder, for every set of well-formed images    *)
(* and every way their bytes come in: the state stays well-typed, and of a *)
(* complete file no row is ever shown wrongly or with fewer bands than     *)
(* before, every row is refined as soon as its packets are there, and in   *)
(* the end with all bands.  Where that takes more than a well-formed       *)
(* image, the theorem says what.                                           *)
(***************************************************************************)
EXTENDS ProgressiveDecoder, FiniteSetTheorems, TLAPS

-----------------------------------------------------------------------------
(* The least and the greatest of a set of numbers.                         *)

(* A set of natural numbers has a least element: of the intervals 0 .. k,  *)
(* k in the set, below one of its elements one is smallest.                *)
LEMMA LeastNat ==
  ASSUME NEW S \in SUBSET Nat, S # {}
  PROVE  \E x \in S : \A y \in S : x <= y
<1>1. PICK n \in S : TRUE
  OBVIOUS
<1> DEFINE F == 0 .. n
           R == StrictSubsetOrdering(F)
           T == {0 .. k : k \in S \cap F}
<1>2. IsFiniteSet(F)
  BY <1>1, FS_Interval
<1>3. IsWellFoundedOn(R, SUBSET F)
  <2> HIDE DEF F
  <2> QED BY <1>2, FS_FiniteSubsetsOfFinite, FS_StrictSubsetOrderingWellFounded
<1>4. T \subseteq SUBSET F /\ T # {}
  BY <1>1
<1> HIDE DEF R
<1>5. PICK t \in T : \A u \in T : ~ (<< u, t >> \in R)
  BY <1>3, <1>4, WFMin
<1>6. PICK x \in S \cap F : t = 0 .. x
  BY <1>5
<1>7. ASSUME NEW y \in S PROVE x <= y
  <2> SUFFICES ASSUME y < x PROVE FALSE
    BY <1>6
  <2>1. (0 .. y) \in T
    BY <1>6, <1>1
  <2>2. x \in 0 .. x /\ x \notin 0 .. y
    BY <1>6
  <2>3. << 0 .. y, t >> \in R
    BY <1>4, <1>5, <1>6, <2>1, <2>2 DEF R, StrictSubsetOrdering
  <2> QED BY <1>5, <2>1, <2>3
<1> QED BY <1>6, <1>7

LEMMA MinOfNats ==
  ASSUME NEW S \in SUBSET Nat, S # {}
  PROVE  Min(S) \in S /\ \A y \in S : Min(S) <= y
BY LeastNat DEF Min

LEMMA MaxOfNats ==
  ASSUME NEW S \in SUBSET Nat, S # {}, NEW n \in Nat, \A x \in S : x <= n
  PROVE  Max(S) \in S /\ \A y \in S : y <= Max(S)
<1> DEFINE T == {n - x : x \in S}
<1>1. T \in SUBSET Nat /\ T # {}
  <2>1. \A x \in S : n - x \in Nat
    OBVIOUS
  <2> QED BY <2>1
<1>2. PICK d \in T : \A y \in T : d <= y
  BY <1>1, LeastNat
<1>3. PICK x \in S : d = n - x
  BY <1>2
<1>4. ASSUME NEW y \in S PROVE x >= y
  <2>1. n - y \in T /\ y \in Nat /\ x \in Nat
    OBVIOUS
  <2>2. d <= n - y
    BY <2>1, <1>2
  <2> QED BY <2>1, <2>2, <1>3
<1> QED BY <1>3, <1>4 DEF Max

LEMMA MaxOfTwo ==
  ASSUME NEW a \in Nat, NEW b \in Nat
  PROVE  Max({a, b}) = IF a <= b THEN b ELSE a
<1>1. Max({a, b}) \in {a, b} /\ \A y \in {a, b} : y <= Max({a, b})
  <2> DEFINE n == a + b
  <2>1. {a, b} \in SUBSET Nat /\ {a, b} # {} /\ n \in Nat /\ \A x \in {a, b} : x <= n
    OBVIOUS
  <2> QED BY <2>1, MaxOfNats
<1> QED BY <1>1

LEMMA MinOfTwo ==
  ASSUME NEW a \in Nat, NEW b \in Nat
  PROVE  Min({a, b}) = IF a <= b THEN a ELSE b
<1>1. Min({a, b}) \in {a, b} /\ \A y \in {a, b} : Min({a, b}) <= y
  BY MinOfNats
<1> QED BY <1>1

-----------------------------------------------------------------------------
(* The limits of a well-formed image.                                      *)

LEMMA ImageFacts ==
  ASSUME NEW i, WellFormed(i)
  PROVE  /\ Len(i.tops) \in Nat /\ Len(i.tops) >= 1 /\ i.rows \in Nat /\ i.head \in Nat /\ i.head >= 1
         /\ i.upper \in Nat /\ i.content \in Nat /\ i.content <= i.upper
         /\ \A r \in TileRows(i) : i.tops[r] \in Nat
         /\ \A r \in TileRows(i), c \in TileCols(i), b \in Bands(i) :
              i.table[r][c][b] \in Nat /\ Start(i, r, c, b) \in Nat
<1>1. Len(i.tops) \in Nat /\ Len(i.tops) >= 1 /\ \A r \in TileRows(i) : i.tops[r] \in Nat
  <2>1. i.tops \in Seq(Nat) /\ i.tops # << >>
    BY DEF WellFormed, RowsWellFormed
  <2> QED BY <2>1 DEF TileRows
<1>2. ASSUME NEW r \in TileRows(i), NEW c \in TileCols(i), NEW b \in Bands(i)
      PROVE  i.table[r][c][b] \in Nat
  <2>1. i.table \in Seq(Seq(Seq(Nat))) /\ r \in 1 .. Len(i.table)
    BY <1>1 DEF WellFormed, TableWellFormed, TileRows
  <2>2. i.table[r] \in Seq(Seq(Nat)) /\ c \in 1 .. Len(i.table[r])
    BY SMTT(30), <2>1 DEF WellFormed, TableWellFormed, TileCols
  <2>3. i.table[r][c] \in Seq(Nat)
    BY <2>2
  <2>4. b \in 1 .. Len(i.table[r][c])
    BY DEF WellFormed, TableWellFormed, Bands
  <2> QED BY <2>3, <2>4
<1>3. /\ i.rows \in Nat /\ i.head \in Nat /\ i.head >= 1
      /\ i.upper \in Nat /\ i.content \in Nat /\ i.content <= i.upper
  <2>1. i.head \in Nat \ {0} /\ i.upper \in Nat /\ i.content \in Nat /\ i.content <= i.upper
    BY DEF WellFormed
  <2>2. i.rows \in Nat
    BY DEF WellFormed, RowsWellFormed
  <2> QED BY <2>1, <2>2
<1>4. \A r \in TileRows(i), c \in TileCols(i), b \in Bands(i) : Start(i, r, c, b) \in Nat
  BY <1>2, <1>3 DEF Start
<1> QED BY <1>1, <1>2, <1>3, <1>4

LEMMA TopsIncrease ==
  ASSUME NEW i, WellFormed(i), NEW r \in TileRows(i), NEW s \in TileRows(i), r < s
  PROVE  i.tops[r] < i.tops[s]
<1> DEFINE Wrong == {d \in Nat : d >= 1 /\ \E q \in TileRows(i) :
                                   q + d \in TileRows(i) /\ ~ i.tops[q] < i.tops[q + d]}
<1>1. Len(i.tops) \in Nat /\ \A q \in TileRows(i) : i.tops[q] \in Nat
  BY ImageFacts
<1>2. Wrong = {}
  <2> SUFFICES ASSUME Wrong # {} PROVE FALSE
    OBVIOUS
  <2>1. PICK d \in Wrong : \A e \in Wrong : d <= e
    BY LeastNat
  <2>2. PICK q \in TileRows(i) : q + d \in TileRows(i) /\ ~ i.tops[q] < i.tops[q + d]
    OBVIOUS
  <2>3. q + (d - 1) \in TileRows(i) /\ q + (d - 1) < Len(i.tops) /\ (q + (d - 1)) + 1 = q + d
    <3> DEFINE n == Len(i.tops)
    <3>1. n \in Nat /\ q \in 1 .. n /\ q + d \in 1 .. n
      BY <1>1, <2>2 DEF TileRows
    <3>2. d \in Nat /\ d >= 1
      OBVIOUS
    <3> HIDE DEF n, Wrong
    <3>3. q + (d - 1) \in 1 .. n /\ q + (d - 1) < n /\ (q + (d - 1)) + 1 = q + d
      BY <3>1, <3>2
    <3> QED BY <3>3 DEF TileRows, n
  <2>4. i.tops[q + (d - 1)] < i.tops[q + d]
    BY <2>3 DEF WellFormed, RowsWellFormed
  <2>5. CASE d = 1
    <3>1. q + (d - 1) = q
      BY <2>5, <2>2 DEF TileRows
    <3> QED BY <3>1, <2>4, <2>2
  <2>6. CASE d # 1
    <3>1. d - 1 \in Nat /\ d - 1 >= 1 /\ ~ (d <= d - 1)
      BY <2>6
    <3>2. d - 1 \notin Wrong
      BY <3>1, <2>1
    <3>3. i.tops[q] < i.tops[q + (d - 1)]
      BY <3>1, <3>2, <2>2, <2>3
    <3>4. i.tops[q] \in Nat /\ i.tops[q + (d - 1)] \in Nat /\ i.tops[q + d] \in Nat
      BY <1>1, <2>2, <2>3
    <3> QED BY <2>2, <2>4, <3>3, <3>4
  <2> QED BY <2>5, <2>6
<1>3. s - r \in Nat /\ s - r >= 1 /\ r + (s - r) = s
  BY <1>1 DEF TileRows
<1> QED BY <1>2, <1>3

LEMMA PacketFacts ==
  ASSUME NEW i, WellFormed(i), NEW r \in TileRows(i), NEW p \in RowPackets(i, r)
  PROVE  /\ p[1] \in TileCols(i) /\ p[2] \in Bands(i)
         /\ Start(i, r, p[1], p[2]) \in Nat /\ Start(i, r, p[1], p[2]) < i.content
         /\ Start(i, r, p[1], p[2]) \in RowStarts(i, r)
<1>1. p[1] \in TileCols(i) /\ p[2] \in Bands(i)
  BY DEF RowPackets
<1>2. Start(i, r, p[1], p[2]) < i.content
  BY DEF WellFormed, PacketsWellFormed
<1> QED BY <1>1, <1>2, ImageFacts DEF RowStarts

LEMMA NextEntryFacts ==
  ASSUME NEW i, WellFormed(i), NEW off \in Nat, off < i.upper
  PROVE  /\ NextEntry(i, off) \in EntryLimits(i) /\ NextEntry(i, off) \in Nat
         /\ off < NextEntry(i, off) /\ NextEntry(i, off) <= i.upper
         /\ \A e \in EntryLimits(i) : off < e => NextEntry(i, off) <= e
<1> DEFINE S == {e \in EntryLimits(i) : e > off}
<1>1. EntryLimits(i) \in SUBSET Nat
  BY ImageFacts DEF EntryLimits
<1>2. i.upper \in EntryLimits(i)
  BY DEF EntryLimits
<1>3. S \in SUBSET Nat /\ i.upper \in S
  BY <1>1, <1>2, ImageFacts
<1>4. Min(S) \in S /\ \A y \in S : Min(S) <= y
  BY <1>3, MinOfNats
<1>5. NextEntry(i, off) = Min(S)
  BY DEF NextEntry
<1> QED BY <1>1, <1>3, <1>4, <1>5

-----------------------------------------------------------------------------
(* The bands of a tile row and where their packets end.                    *)

LEMMA ShapeFacts ==
  ASSUME NEW i, WellFormed(i)
  PROVE  /\ TileRows(i) = 1 .. Len(i.tops) /\ 1 \in TileRows(i) /\ Len(i.tops) \in TileRows(i)
         /\ Len(i.table[1]) \in Nat /\ Len(i.table[1][1]) \in Nat
         /\ Bands(i) = 1 .. Len(i.table[1][1]) /\ 1 \in Bands(i) /\ Len(i.table[1][1]) \in Bands(i)
         /\ \A r \in TileRows(i), c \in TileCols(i), b \in Bands(i) :
              << c, b >> \in RowPackets(i, r) <=> ~ Empty(i, r, c, b)
<1>1. TileRows(i) = 1 .. Len(i.tops) /\ Len(i.tops) \in Nat /\ Len(i.tops) >= 1
  BY ImageFacts DEF TileRows
<1>2. 1 \in TileRows(i) /\ Len(i.tops) \in TileRows(i)
  BY <1>1
<1>3. PICK p \in RowPackets(i, 1) : TRUE
  BY <1>2 DEF WellFormed, PacketsWellFormed
<1>4. p[1] \in TileCols(i) /\ p[2] \in Bands(i)
  BY <1>2, PacketFacts
<1>5. i.table \in Seq(Seq(Seq(Nat))) /\ 1 \in 1 .. Len(i.table)
  BY <1>1, <1>2 DEF WellFormed, TableWellFormed
<1>6. i.table[1] \in Seq(Seq(Nat)) /\ Len(i.table[1]) \in Nat
  BY <1>5
<1>7. 1 \in 1 .. Len(i.table[1])
  BY <1>4, <1>6 DEF TileCols
<1>8. i.table[1][1] \in Seq(Nat) /\ Len(i.table[1][1]) \in Nat
  BY <1>6, <1>7
<1>9. 1 \in Bands(i) /\ Len(i.table[1][1]) \in Bands(i)
  BY <1>4, <1>8 DEF Bands
<1>10. \A r \in TileRows(i), c \in TileCols(i), b \in Bands(i) :
         << c, b >> \in RowPackets(i, r) <=> ~ Empty(i, r, c, b)
  BY DEF RowPackets
<1> QED BY <1>1, <1>2, <1>6, <1>8, <1>9, <1>10 DEF Bands

LEMMA LowerFacts ==
  ASSUME NEW i, WellFormed(i), NEW r \in TileRows(i), NEW b \in Bands(i)
  PROVE  /\ LowerLimit(i, r, b) \in Nat
         /\ \A p \in RowPackets(i, r) : p[2] = b => HasBand(i, r, b)
         /\ HasBand(i, r, b) => \E p \in RowPackets(i, r) :
                                   p[2] = b /\ LowerLimit(i, r, b) = Start(i, r, p[1], p[2])
<1> DEFINE has == {c \in TileCols(i) : ~ Empty(i, r, c, b)}
<1>1. LowerLimit(i, r, b) = IF has = {} THEN 0 ELSE Start(i, r, Min(has), b)
  BY DEF LowerLimit
<1>2. has \in SUBSET Nat
  <2>1. TileCols(i) \in SUBSET Nat
    BY ShapeFacts DEF TileCols
  <2> QED BY <2>1
<1>3. CASE has = {}
  <2>1. \A p \in RowPackets(i, r) : p[2] # b
    BY <1>3 DEF RowPackets
  <2> QED BY <1>1, <1>3, <2>1 DEF HasBand
<1>4. CASE has # {}
  <2>1. Min(has) \in has
    <3> HIDE DEF has
    <3> QED BY <1>2, <1>4, MinOfNats
  <2>2. PICK c \in has : c = Min(has)
    BY <2>1
  <2> DEFINE p == << c, b >>
  <2>3. p \in RowPackets(i, r) /\ p[1] = c /\ p[2] = b
    BY <2>2, ShapeFacts
  <2>4. LowerLimit(i, r, b) = Start(i, r, c, b)
    BY <1>1, <1>4, <2>2
  <2>5. Start(i, r, c, b) \in Nat /\ Start(i, r, c, b) >= 1
    <3>1. i.table[r][c][b] \in Nat /\ i.head \in Nat /\ i.head >= 1
      BY <2>2, ImageFacts
    <3> QED BY <3>1 DEF Start
  <2>6. LowerLimit(i, r, b) # 0
    BY <2>4, <2>5
  <2> QED BY <2>3, <2>4, <2>5, <2>6 DEF HasBand
<1> QED BY <1>3, <1>4

LEMMA FirstFacts ==
  ASSUME NEW i, WellFormed(i), NEW b \in Bands(i), NEW rs \in SUBSET TileRows(i)
  PROVE  \/ /\ FirstPresent(i, rs, b) = 0
            /\ \A r \in rs : ~ HasBand(i, r, b)
         \/ \E s \in rs : /\ FirstPresent(i, rs, b) = LowerLimit(i, s, b)
                          /\ HasBand(i, s, b)
                          /\ \A r \in rs : HasBand(i, r, b) => s <= r
<1> DEFINE has == {r \in rs : LowerLimit(i, r, b) # 0}
<1>1. FirstPresent(i, rs, b) = IF has = {} THEN 0 ELSE LowerLimit(i, Min(has), b)
  BY DEF FirstPresent
<1>2. has \in SUBSET Nat
  BY ShapeFacts
<1>3. CASE has = {}
  BY <1>1, <1>3 DEF HasBand
<1>4. CASE has # {}
  <2>1. Min(has) \in has /\ \A r \in has : Min(has) <= r
    <3> HIDE DEF has
    <3> QED BY <1>2, <1>4, MinOfNats
  <2>2. PICK s \in has : s = Min(has)
    BY <2>1
  <2> QED BY <1>1, <1>4, <2>1, <2>2 DEF HasBand
<1> QED BY <1>3, <1>4

(* A packet that is stored after everything tile row r has up to band b.   *)
StoredAfter(i, r, b, s, q) == q[2] = b + 1 \/ (q[2] = b /\ r < s)

(* Where a band of a tile row ends.                                        *)
LEMMA UpperFacts ==
  ASSUME NEW i, WellFormed(i), NEW r \in TileRows(i), NEW b \in Bands(i)
  PROVE  /\ ~ HasBand(i, r, b) => BandUpperLimit(i, r, b) = 0
         /\ HasBand(i, r, b) =>
              \/ BandUpperLimit(i, r, b) = i.upper
              \/ \E s \in TileRows(i) : \E q \in RowPackets(i, s) :
                   StoredAfter(i, r, b, s, q) /\ BandUpperLimit(i, r, b) = Start(i, s, q[1], q[2])
         /\ HasBand(i, r, b) /\ r + 1 \in TileRows(i) /\ HasBand(i, r + 1, b) =>
              BandUpperLimit(i, r, b) = LowerLimit(i, r + 1, b)
         /\ HasBand(i, r, b) /\ (\A s \in TileRows(i) : r < s => ~ HasBand(i, s, b))
              /\ (\A s \in TileRows(i) : b + 1 \in Bands(i) => ~ HasBand(i, s, b + 1)) =>
              BandUpperLimit(i, r, b) = i.upper
<1> DEFINE last  == Len(i.tops)
           nextB == b + 1 \in Bands(i)
           after == FirstPresent(i, r + 1 .. last, b)
           below == IF nextB THEN FirstPresent(i, TileRows(i), b + 1) ELSE 0
           most  == CASE r = last /\ ~ nextB -> i.upper
                      [] r = last /\ nextB   -> LowerLimit(i, 1, b + 1)
                      [] r < last            -> after
<1>1. BandUpperLimit(i, r, b) = CASE LowerLimit(i, r, b) = 0 -> 0
                                  [] LowerLimit(i, r, b) # 0 /\ most # 0 -> most
                                  [] OTHER -> IF below # 0 THEN below ELSE i.upper
  BY DEF BandUpperLimit
<1>2. last \in Nat /\ r \in 1 .. last /\ TileRows(i) = 1 .. last
  BY ShapeFacts, ImageFacts
<1>3. r + 1 .. last \in SUBSET TileRows(i)
  BY <1>2
<1>4. \/ after = 0 /\ \A s \in r + 1 .. last : ~ HasBand(i, s, b)
      \/ \E s \in r + 1 .. last : /\ after = LowerLimit(i, s, b) /\ HasBand(i, s, b)
                                  /\ \A t \in r + 1 .. last : HasBand(i, t, b) => s <= t
  BY <1>3, FirstFacts
<1>5. nextB => \/ below = 0 /\ \A s \in TileRows(i) : ~ HasBand(i, s, b + 1)
               \/ \E s \in TileRows(i) : below = LowerLimit(i, s, b + 1) /\ HasBand(i, s, b + 1)
  <2> HAVE nextB
  <2>1. below = FirstPresent(i, TileRows(i), b + 1)
    OBVIOUS
  <2>2. \/ /\ FirstPresent(i, TileRows(i), b + 1) = 0
           /\ \A s \in TileRows(i) : ~ HasBand(i, s, b + 1)
        \/ \E s \in TileRows(i) : /\ FirstPresent(i, TileRows(i), b + 1) = LowerLimit(i, s, b + 1)
                                  /\ HasBand(i, s, b + 1)
                                  /\ \A t \in TileRows(i) : HasBand(i, t, b + 1) => s <= t
    BY FirstFacts
  <2> QED BY <2>1, <2>2
<1>6. ~ nextB => below = 0
  OBVIOUS
<1>7. CASE ~ HasBand(i, r, b)
  BY <1>1, <1>7 DEF HasBand
<1>8. CASE HasBand(i, r, b) /\ most # 0
  <2>1. BandUpperLimit(i, r, b) = most
    BY <1>1, <1>8 DEF HasBand
  <2>2. CASE r = last /\ ~ nextB
    <3>1. most = i.upper
      BY <2>2
    <3>2. r + 1 \notin TileRows(i)
      BY <1>2, <2>2
    <3> HIDE DEF most
    <3> QED BY <1>8, <2>1, <3>1, <3>2
  <2>3. CASE r = last /\ nextB
    <3>1. most = LowerLimit(i, 1, b + 1)
      BY <2>3
    <3>2. 1 \in TileRows(i) /\ HasBand(i, 1, b + 1)
      BY <1>8, <3>1, ShapeFacts DEF HasBand
    <3>3. PICK q \in RowPackets(i, 1) : q[2] = b + 1 /\ LowerLimit(i, 1, b + 1) = Start(i, 1, q[1], q[2])
      BY <2>3, <3>2, LowerFacts
    <3>4. StoredAfter(i, r, b, 1, q)
      BY <3>3 DEF StoredAfter
    <3>5. r + 1 \notin TileRows(i)
      BY <1>2, <2>3
    <3> HIDE DEF most
    <3> QED BY <1>8, <2>1, <2>3, <3>1, <3>2, <3>3, <3>4, <3>5
  <2>4. CASE r < last
    <3>1. most = after
      BY <1>2, <2>4
    <3>2. after # 0
      BY <1>8, <3>1
    <3>3. PICK s \in r + 1 .. last : /\ after = LowerLimit(i, s, b) /\ HasBand(i, s, b)
                                     /\ \A t \in r + 1 .. last : HasBand(i, t, b) => s <= t
      BY <1>4, <3>2
    <3>4. s \in TileRows(i) /\ r < s
      BY <1>2, <3>3
    <3>5. PICK q \in RowPackets(i, s) : q[2] = b /\ LowerLimit(i, s, b) = Start(i, s, q[1], q[2])
      BY <3>3, <3>4, LowerFacts
    <3>6. StoredAfter(i, r, b, s, q)
      BY <3>4, <3>5 DEF StoredAfter
    <3>7. HasBand(i, r + 1, b) => s = r + 1
      <4>1. r + 1 \in r + 1 .. last
        BY <1>2, <2>4
      <4> QED BY <1>2, <3>3, <4>1
    <3> HIDE DEF most, after
    <3> QED BY <1>8, <2>1, <3>1, <3>3, <3>4, <3>5, <3>6, <3>7
  <2> QED BY <1>2, <2>2, <2>3, <2>4
<1>9. CASE HasBand(i, r, b) /\ most = 0
  <2>1. BandUpperLimit(i, r, b) = IF below # 0 THEN below ELSE i.upper
    BY <1>1, <1>9 DEF HasBand
  <2>2. HasBand(i, r + 1, b) => r + 1 \notin TileRows(i)
    <3> SUFFICES ASSUME HasBand(i, r + 1, b), r + 1 \in TileRows(i) PROVE FALSE
      OBVIOUS
    <3>1. r < last /\ r + 1 \in r + 1 .. last
      BY <1>2
    <3>2. most = after
      BY <1>2, <3>1
    <3> HIDE DEF most, after
    <3>3. after = 0 /\ \A s \in r + 1 .. last : ~ HasBand(i, s, b)
      BY <1>4, <1>9, <3>2 DEF HasBand
    <3> QED BY <3>1, <3>3
  <2>3. CASE below # 0
    <3>1. nextB
      BY <1>6, <2>3
    <3>2. PICK s \in TileRows(i) : below = LowerLimit(i, s, b + 1) /\ HasBand(i, s, b + 1)
      BY <1>5, <2>3, <3>1
    <3>3. PICK q \in RowPackets(i, s) : q[2] = b + 1 /\ LowerLimit(i, s, b + 1) = Start(i, s, q[1], q[2])
      BY <3>1, <3>2, LowerFacts
    <3>4. StoredAfter(i, r, b, s, q)
      BY <3>3 DEF StoredAfter
    <3> HIDE DEF below, most
    <3> QED BY <1>9, <2>1, <2>2, <2>3, <3>1, <3>2, <3>3, <3>4
  <2>4. CASE below = 0
    BY <1>9, <2>1, <2>2, <2>4
  <2> QED BY <2>3, <2>4
<1> QED BY <1>7, <1>8, <1>9

(* The image as the file holds it is well-formed too.                      *)
RealOf(i) == [i EXCEPT !.upper = i.content]

LEMMA RealImage ==
  ASSUME NEW i, WellFormed(i)
  PROVE  /\ WellFormed(RealOf(i)) /\ RealOf(i).upper = i.content
         /\ TileRows(RealOf(i)) = TileRows(i) /\ Bands(RealOf(i)) = Bands(i)
         /\ TileCols(RealOf(i)) = TileCols(i)
         /\ \A r, c, b : Start(RealOf(i), r, c, b) = Start(i, r, c, b)
         /\ \A r, c, b : Empty(RealOf(i), r, c, b) = Empty(i, r, c, b)
<1> DEFINE j == RealOf(i)
<1>1. /\ DOMAIN j = ImageFields /\ j.tops = i.tops /\ j.rows = i.rows /\ j.table = i.table
      /\ j.lefts = i.lefts /\ j.spatial = i.spatial /\ j.overlap = i.overlap /\ j.hard = i.hard
      /\ j.head = i.head /\ j.size = i.size
      /\ j.upper = i.content /\ j.content = i.content
  BY DEF WellFormed, ImageFields, RealOf
<1> HIDE DEF j
<1>2. TileRows(j) = TileRows(i) /\ TileCols(j) = TileCols(i) /\ Bands(j) = Bands(i)
  BY <1>1 DEF TileRows, TileCols, Bands
<1>3. /\ \A r, c, b : Start(j, r, c, b) = Start(i, r, c, b)
      /\ \A r, c, b : Empty(j, r, c, b) = Empty(i, r, c, b)
  BY <1>1 DEF Start, Empty
<1>4. \A r : RowPackets(j, r) = RowPackets(i, r)
  BY <1>2, <1>3 DEF RowPackets
<1>5. RowsWellFormed(j)
  BY <1>1, <1>2 DEF WellFormed, RowsWellFormed
<1>6. TableWellFormed(j)
  BY <1>1, <1>2 DEF WellFormed, TableWellFormed
<1>7. PacketsWellFormed(j)
  BY <1>1, <1>2, <1>3, <1>4 DEF WellFormed, PacketsWellFormed
<1>8. BandByBand(j)
  BY <1>2, <1>3, <1>4 DEF WellFormed, BandByBand
<1>9. \A r \in TileRows(j) : \E p \in RowPackets(j, r) : p[2] = 1
  BY <1>2, <1>4 DEF WellFormed
<1>10. /\ j.head \in Nat \ {0} /\ j.upper \in Nat /\ j.content \in Nat /\ j.size \in Nat
       /\ j.spatial = FALSE /\ j.overlap \in BOOLEAN /\ j.hard \in BOOLEAN /\ j.content <= j.upper
  BY <1>1 DEF WellFormed
<1>11. ColumnsWellFormed(j)
  BY <1>1, <1>2, <1>4 DEF WellFormed, ColumnsWellFormed
<1>12. WellFormed(j)
  BY <1>1, <1>5, <1>6, <1>7, <1>8, <1>9, <1>10, <1>11 DEF WellFormed
<1> QED BY <1>1, <1>2, <1>3, <1>12 DEF j

(* A packet really ends within the file, and before any packet begins that *)
(* is stored after it.                                                     *)
LEMMA EndFacts ==
  ASSUME NEW i, WellFormed(i), NEW s \in TileRows(i), NEW p \in RowPackets(i, s)
  PROVE  /\ PacketEnd(RealOf(i), s, p[1], p[2]) \in Nat
         /\ Start(i, s, p[1], p[2]) < PacketEnd(RealOf(i), s, p[1], p[2])
         /\ PacketEnd(RealOf(i), s, p[1], p[2]) <= i.content
         /\ \A t \in TileRows(i) : \A q \in RowPackets(i, t) :
              StoredBefore(s, p, t, q) => PacketEnd(RealOf(i), s, p[1], p[2]) <= Start(i, t, q[1], q[2])
<1> DEFINE off == Start(i, s, p[1], p[2])
           j   == RealOf(i)
<1>1. off \in Nat /\ off < i.content
  BY PacketFacts
<1>2. PacketEnd(j, s, p[1], p[2]) = NextEntry(j, off)
  BY RealImage DEF PacketEnd
<1>3. WellFormed(j) /\ j.upper = i.content
  BY RealImage
<1>4. /\ NextEntry(j, off) \in Nat /\ off < NextEntry(j, off) /\ NextEntry(j, off) <= i.content
      /\ \A e \in EntryLimits(j) : off < e => NextEntry(j, off) <= e
  <2> HIDE DEF off, j
  <2> QED BY <1>1, <1>3, NextEntryFacts
<1>5. ASSUME NEW t \in TileRows(i), NEW q \in RowPackets(i, t), StoredBefore(s, p, t, q)
      PROVE  NextEntry(j, off) <= Start(i, t, q[1], q[2])
  <2>1. off < Start(i, t, q[1], q[2])
    BY <1>5 DEF WellFormed, BandByBand
  <2>2. q[1] \in TileCols(i) /\ q[2] \in Bands(i) /\ ~ Empty(i, t, q[1], q[2])
    BY DEF RowPackets
  <2>3. Start(i, t, q[1], q[2]) \in EntryLimits(j)
    <3> DEFINE f == << t, q[1], q[2] >>
    <3>1. f \in TileRows(j) \X TileCols(j) \X Bands(j) /\ ~ Empty(j, f[1], f[2], f[3])
      BY <2>2, RealImage
    <3>2. Start(i, t, q[1], q[2]) = Start(j, f[1], f[2], f[3])
      BY RealImage
    <3> QED BY <3>1, <3>2 DEF EntryLimits
  <2> QED BY <1>4, <2>1, <2>3
<1> HIDE DEF j
<1> QED BY <1>1, <1>2, <1>4, <1>5 DEF j

(* The packets of tile row r up to band b, and of the rows above it, end   *)
(* before the limit; the limit lies within the image.                      *)
LEMMA BandLimits ==
  ASSUME NEW i, WellFormed(i), NEW r \in TileRows(i), NEW b \in Bands(i), HasBand(i, r, b)
  PROVE  /\ BandUpperLimit(i, r, b) \in Nat /\ BandUpperLimit(i, r, b) >= 1
         /\ BandUpperLimit(i, r, b) <= i.upper
         /\ \A s \in TileRows(i) : \A p \in RowPackets(i, s) :
              p[2] < b \/ (p[2] = b /\ s <= r) =>
                PacketEnd(RealOf(i), s, p[1], p[2]) <= BandUpperLimit(i, r, b)
<1> DEFINE U == BandUpperLimit(i, r, b)
<1>1. \/ U = i.upper
      \/ \E s \in TileRows(i) : \E q \in RowPackets(i, s) :
           StoredAfter(i, r, b, s, q) /\ U = Start(i, s, q[1], q[2])
  BY UpperFacts
<1>2. i.upper \in Nat /\ i.content \in Nat /\ i.content <= i.upper
  BY ImageFacts
<1>3. \A s \in TileRows(i) : \A q \in RowPackets(i, s) :
        Start(i, s, q[1], q[2]) \in Nat /\ Start(i, s, q[1], q[2]) < i.content
  BY PacketFacts
<1>4. U \in Nat /\ U <= i.upper
  BY <1>1, <1>2, <1>3
<1>5. ASSUME NEW s \in TileRows(i), NEW p \in RowPackets(i, s), p[2] < b \/ (p[2] = b /\ s <= r)
      PROVE  PacketEnd(RealOf(i), s, p[1], p[2]) \in Nat /\ PacketEnd(RealOf(i), s, p[1], p[2]) <= U
  <2>1. PacketEnd(RealOf(i), s, p[1], p[2]) \in Nat /\ PacketEnd(RealOf(i), s, p[1], p[2]) <= i.content
    BY EndFacts
  <2>2. CASE U = i.upper
    BY <1>2, <2>1, <2>2
  <2>3. ASSUME NEW t \in TileRows(i), NEW q \in RowPackets(i, t),
               StoredAfter(i, r, b, t, q), U = Start(i, t, q[1], q[2])
        PROVE  PacketEnd(RealOf(i), s, p[1], p[2]) <= U
    <3>1. b \in Nat /\ p[2] \in Nat /\ q[2] \in Nat /\ r \in Nat /\ s \in Nat /\ t \in Nat
      <4>1. \A n \in Bands(i) : n \in Nat
        BY ShapeFacts
      <4>2. \A n \in TileRows(i) : n \in Nat
        BY ShapeFacts
      <4> QED BY <4>1, <4>2, PacketFacts
    <3>2. StoredBefore(s, p, t, q)
      BY <1>5, <2>3, <3>1 DEF StoredAfter, StoredBefore
    <3> QED BY <2>3, <3>2, EndFacts
  <2> QED BY <1>1, <2>1, <2>2, <2>3
<1>6. U >= 1
  <2>1. PICK p \in RowPackets(i, r) : p[2] = b
    BY LowerFacts
  <2>2. PacketEnd(RealOf(i), r, p[1], p[2]) \in Nat /\ PacketEnd(RealOf(i), r, p[1], p[2]) <= U
    <3>1. r \in Nat
      BY ShapeFacts
    <3> QED BY <1>5, <2>1, <3>1
  <2>3. PacketEnd(RealOf(i), r, p[1], p[2]) >= 1
    <3>1. Start(i, r, p[1], p[2]) \in Nat /\ Start(i, r, p[1], p[2]) < PacketEnd(RealOf(i), r, p[1], p[2])
      BY <1>3, EndFacts
    <3> QED BY <2>2, <3>1
  <2> QED BY <1>4, <2>2, <2>3
<1> QED BY <1>4, <1>5, <1>6

(* The limit of a band is that of the last tile row that has it.           *)
LEMMA BandEnds ==
  ASSUME NEW i, WellFormed(i), NEW b \in Bands(i)
  PROVE  /\ (\A r \in TileRows(i) : ~ HasBand(i, r, b)) => SubbandUpperLimit(i, b) = 0
         /\ (\E r \in TileRows(i) : HasBand(i, r, b)) =>
              \E s \in TileRows(i) : /\ HasBand(i, s, b) /\ SubbandUpperLimit(i, b) = BandUpperLimit(i, s, b)
                                     /\ \A r \in TileRows(i) : HasBand(i, r, b) => r <= s
<1> DEFINE has == {r \in TileRows(i) : BandUpperLimit(i, r, b) # 0}
<1>1. \A r \in TileRows(i) : r \in has <=> HasBand(i, r, b)
  <2> TAKE r \in TileRows(i)
  <2>1. CASE HasBand(i, r, b)
    <3>1. BandUpperLimit(i, r, b) \in Nat /\ BandUpperLimit(i, r, b) >= 1
      BY <2>1, BandLimits
    <3>2. BandUpperLimit(i, r, b) # 0
      BY <3>1
    <3> QED BY <2>1, <3>2
  <2>2. CASE ~ HasBand(i, r, b)
    BY <2>2, UpperFacts
  <2> QED BY <2>1, <2>2
<1>2. SubbandUpperLimit(i, b) = IF has = {} THEN 0 ELSE BandUpperLimit(i, Max(has), b)
  BY DEF SubbandUpperLimit
<1>3. has \in SUBSET Nat /\ Len(i.tops) \in Nat /\ \A r \in has : r <= Len(i.tops)
  BY ShapeFacts, ImageFacts
<1>4. CASE has = {}
  <2>1. \A r \in TileRows(i) : ~ HasBand(i, r, b)
    BY <1>1, <1>4
  <2>2. SubbandUpperLimit(i, b) = 0
    BY <1>2, <1>4
  <2> QED BY <2>1, <2>2
<1>5. CASE has # {}
  <2>1. Max(has) \in has /\ \A r \in has : r <= Max(has)
    <3> HIDE DEF has
    <3> QED BY <1>3, <1>5, MaxOfNats
  <2>2. Max(has) \in TileRows(i) /\ SubbandUpperLimit(i, b) = BandUpperLimit(i, Max(has), b)
    BY <1>2, <1>5, <2>1
  <2>3. HasBand(i, Max(has), b) /\ \A r \in TileRows(i) : HasBand(i, r, b) => r <= Max(has)
    BY <1>1, <2>1, <2>2
  <2> HIDE DEF has
  <2> QED BY <2>2, <2>3
<1> QED BY <1>4, <1>5

(* The bands the image has, the first of which every tile row has.         *)
LEMMA Available ==
  ASSUME NEW i, WellFormed(i)
  PROVE  /\ NumAvailableBands(i) \in Bands(i)
         /\ \A r \in TileRows(i) : HasBand(i, r, 1)
         /\ \A r \in TileRows(i), b \in Bands(i) : HasBand(i, r, b) => b <= NumAvailableBands(i)
         /\ \E s \in TileRows(i) : /\ HasBand(i, s, NumAvailableBands(i))
                                   /\ BandUpperLimit(i, s, NumAvailableBands(i)) = i.upper
         /\ SubbandUpperLimit(i, NumAvailableBands(i)) = i.upper
<1> DEFINE has == {b \in Bands(i) : SubbandUpperLimit(i, b) # 0}
           A   == NumAvailableBands(i)
<1>1. A = Max(has)
  BY DEF NumAvailableBands
<1>2. Bands(i) \in SUBSET Nat /\ Len(i.table[1][1]) \in Nat /\ 1 \in Bands(i)
      /\ \A b \in Bands(i) : b <= Len(i.table[1][1])
  BY ShapeFacts
<1>3. ASSUME NEW r \in TileRows(i) PROVE HasBand(i, r, 1)
  <2>1. PICK p \in RowPackets(i, r) : p[2] = 1
    BY DEF WellFormed
  <2> QED BY <1>2, <2>1, LowerFacts
<1>4. ASSUME NEW r \in TileRows(i), NEW b \in Bands(i), HasBand(i, r, b) PROVE b \in has
  <2>1. PICK s \in TileRows(i) : HasBand(i, s, b) /\ SubbandUpperLimit(i, b) = BandUpperLimit(i, s, b)
    BY <1>4, BandEnds
  <2>2. BandUpperLimit(i, s, b) \in Nat /\ BandUpperLimit(i, s, b) >= 1
    BY <2>1, BandLimits
  <2>3. SubbandUpperLimit(i, b) # 0
    BY <2>1, <2>2
  <2> QED BY <2>3
<1>5. 1 \in has
  BY <1>2, <1>3, <1>4, ShapeFacts
<1>6. A \in has /\ \A b \in has : b <= A
  <2>1. has \in SUBSET Nat /\ has # {} /\ \A b \in has : b <= Len(i.table[1][1])
    BY <1>2, <1>5
  <2> HIDE DEF has, A
  <2> QED BY <1>1, <1>2, <2>1, MaxOfNats
<1>7. PICK s \in TileRows(i) : /\ HasBand(i, s, A) /\ SubbandUpperLimit(i, A) = BandUpperLimit(i, s, A)
                               /\ \A r \in TileRows(i) : HasBand(i, r, A) => r <= s
  BY <1>6, BandEnds
<1>8. BandUpperLimit(i, s, A) = i.upper
  <2>1. \A r \in TileRows(i) : s < r => ~ HasBand(i, r, A)
    BY <1>7, ShapeFacts
  <2>2. \A r \in TileRows(i) : A + 1 \in Bands(i) => ~ HasBand(i, r, A + 1)
    <3> SUFFICES ASSUME NEW r \in TileRows(i), A + 1 \in Bands(i), HasBand(i, r, A + 1) PROVE FALSE
      OBVIOUS
    <3>1. A + 1 \in has /\ A \in Nat
      BY <1>2, <1>4, <1>6
    <3> HIDE DEF has, A
    <3> QED BY <1>6, <3>1
  <2>3. A \in Bands(i)
    BY <1>6
  <2> HIDE DEF A
  <2> QED BY <1>7, <2>1, <2>2, <2>3, UpperFacts
<1> QED BY <1>3, <1>4, <1>6, <1>7, <1>8

-----------------------------------------------------------------------------
(* Types.  They need to know what the control of the decoder keeps in      *)
(* step: the rows of the library and of the picture, the bands and tile    *)
(* rows and what has arrived of them.                                      *)
NumBands == Len(img.table[1][1])

Turns ==
  /\ \/ mbRow = 0 /\ line = 0
     \/ mbRow > 0 /\ mbRow = line + 1
  /\ pc \in {"tiles", "rows"} => NumTileRows > 1 /\ tileRow <= NumTileRows
  /\ pc \in {"tiles", "rows", "all"} => started
  /\ pc \in {"band", "tiles", "rows"} => ~ finished /\ ~ atEnd
  /\ pc = "all" => ~ finished /\ (atEnd => phase = "finishing" /\ band = NumBands)
  /\ ~ finished /\ (atEnd => phase = "receiving") =>
       band <= NumAvailable /\ (started => tileRow <= NumTileRows)
  /\ finished => total >= tag /\ band = NumAvailable + 1
  /\ atEnd => total >= tag /\ limit = 0
  /\ phase # "receiving" => total >= tag
  /\ phase = "done" => pc = "idle"
  /\ phase = "receiving" /\ (total < img.head \/ atEnd) =>
       pc = "idle" /\ started /\ ~ finished /\ ~ skipped /\ band = 1 /\ tileRow = 1 /\ mbRow = 0 /\ limit = 0

Limits ==
  /\ \/ tag = img.upper
     \/ tag = total /\ img.head <= tag /\ tag < img.upper /\ tag = img.size
  /\ \A r \in 1 .. NumTileRows, b \in Bands(img) :
       infos[r][b] = IF BandUpperLimit(img, r, b) <= tag THEN BandUpperLimit(img, r, b) ELSE tag
  /\ \A b \in Bands(img) : bandEnds[b] = SubbandUpperLimit(img, b)

(* A pass over a band goes on tile row by tile row.                        *)
Passing == ~ finished /\ started /\ pc # "all" /\ (atEnd => phase = "receiving")

Arrived ==
  /\ Passing => \A r \in 1 .. NumTileRows : r < tileRow => total >= infos[r][band]
  /\ pc = "rows" => total >= infos[tileRow][band] /\ limit = infos[tileRow][band]
  /\ pc = "all" /\ ~ atEnd =>
       bandEnds[band] # 0 /\ total >= bandEnds[band] /\ limit = bandEnds[band]

Typed == TypeOK /\ Turns /\ Limits /\ Arrived

LEMMA ImageType ==
  ASSUME img \in Images
  PROVE  /\ WellFormed(img) /\ NumTileRows \in Nat /\ NumTileRows >= 1 /\ TileRows(img) = 1 .. NumTileRows
         /\ NumBands \in Nat /\ NumBands >= 1 /\ Bands(img) = 1 .. NumBands
         /\ NumAvailable \in 1 .. NumBands
         /\ img.rows \in Nat /\ img.rows >= 1 /\ img.size \in Nat /\ img.upper \in Nat /\ img.head \in Nat
         /\ img.head >= 1 /\ img.content \in Nat /\ img.content <= img.upper
         /\ \A r \in 1 .. NumTileRows : img.tops[r] \in Nat /\ img.tops[r] < img.rows
<1>1. WellFormed(img)
  BY ImagesAssumption
<1>2. NumTileRows \in Nat /\ NumTileRows >= 1 /\ TileRows(img) = 1 .. NumTileRows
  BY <1>1, ImageFacts DEF NumTileRows, TileRows
<1>3. img.rows \in Nat /\ \A r \in 1 .. NumTileRows : img.tops[r] \in Nat
  BY <1>1, <1>2, ImageFacts
<1>4. img.tops[NumTileRows] < img.rows
  BY <1>1 DEF WellFormed, RowsWellFormed, NumTileRows
<1>5. ASSUME NEW r \in 1 .. NumTileRows PROVE img.tops[r] < img.rows
  <2>1. CASE r = NumTileRows
    BY <2>1, <1>4
  <2>2. CASE r < NumTileRows
    <3>1. NumTileRows \in TileRows(img) /\ r \in TileRows(img)
      BY <1>2
    <3>2. img.tops[r] < img.tops[NumTileRows]
      BY <3>1, <2>2, <1>1, TopsIncrease
    <3>3. img.tops[r] \in Nat /\ img.tops[NumTileRows] \in Nat
      BY <1>2, <1>3
    <3> QED BY <3>2, <3>3, <1>3, <1>4
  <2> QED BY <2>1, <2>2, <1>2
<1>6. img.rows >= 1
  <2>1. img.tops[NumTileRows] \in Nat
    BY <1>2, <1>3
  <2> QED BY <2>1, <1>3, <1>4
<1>7. NumBands \in Nat /\ NumBands >= 1 /\ Bands(img) = 1 .. NumBands
  BY <1>1, ShapeFacts DEF NumBands
<1>8. NumAvailable \in 1 .. NumBands
  BY <1>1, <1>7, Available DEF NumAvailable
<1>9. img.size \in Nat
  BY <1>1 DEF WellFormed
<1>10. img.upper \in Nat /\ img.head \in Nat /\ img.head >= 1 /\ img.content \in Nat /\ img.content <= img.upper
  BY <1>1, ImageFacts
<1> QED BY <1>1, <1>2, <1>3, <1>5, <1>6, <1>7, <1>8, <1>9, <1>10

LEMMA TopsApart ==
  ASSUME img \in Images
  PROVE  \A r, s \in 1 .. NumTileRows : r < s => img.tops[r] < img.tops[s]
BY ImageType, TopsIncrease

LEMMA TopOfPicture ==
  ASSUME img \in Images
  PROVE  img.tops[1] = 0
BY ImageType DEF WellFormed, RowsWellFormed

LibraryType == [tile : 1 .. NumTileRows, att : 0 .. NumTileRows, stuck : Nat]

ReadType == {"good", "bad", "fail"}

PictureType == [MBRows -> {"none", "good", "bad"}]

ShownType == [MBRows -> -1 .. NumBands]

(* The type of the state, with the number of bands for the length of the   *)
(* table of their ends.                                                    *)
LEMMA StateType ==
  ASSUME TypeOK
  PROVE  /\ img \in Images /\ total \in Nat /\ total <= img.size /\ tag \in Nat /\ limit \in Nat
         /\ infos \in [1 .. NumTileRows -> [Bands(img) -> Nat]]
         /\ bandEnds \in [1 .. NumBands -> Nat] /\ Len(bandEnds) = NumBands
         /\ band \in 1 .. NumBands + 1 /\ tileRow \in 1 .. NumTileRows + 1
         /\ mbRow \in 0 .. img.rows + 1 /\ line \in 0 .. img.rows
         /\ sc \in LibraryType /\ row \in PictureType /\ shown \in ShownType
<1>1. img \in Images
  BY DEF TypeOK
<1>2. bandEnds \in [1 .. NumBands -> Nat] /\ NumBands \in Nat
  BY <1>1, ImageType DEF TypeOK
<1>3. Len(bandEnds) = NumBands
  BY <1>2
<1>4. total \in Nat /\ total <= img.size
  BY <1>1, ImageType DEF TypeOK
<1> QED BY <1>1, <1>2, <1>3, <1>4 DEF TypeOK, LibraryType, PictureType, ShownType

LEMMA TypeOKAfter ==
  ASSUME TypeOK, img' = img,
         phase' \in {"receiving", "finishing", "done"},
         pc' \in {"idle", "band", "tiles", "rows", "all"},
         total' \in Nat, total' <= img.size, tag' \in Nat, limit' \in Nat,
         infos' \in [1 .. NumTileRows -> [Bands(img) -> Nat]], bandEnds' = bandEnds,
         atEnd' \in BOOLEAN, finished' \in BOOLEAN, started' \in BOOLEAN, skipped' \in BOOLEAN,
         band' \in 1 .. NumBands + 1, tileRow' \in 1 .. NumTileRows + 1,
         mbRow' \in 0 .. img.rows + 1, line' \in 0 .. img.rows,
         sc' \in LibraryType, row' \in PictureType, shown' \in ShownType
  PROVE  TypeOK'
<1>1. Len(bandEnds) = NumBands
  BY StateType
<1>2. total' \in 0 .. img.size
  BY ImageType DEF TypeOK
<1>3. NumTileRows' = NumTileRows /\ MBRows' = MBRows
  BY DEF NumTileRows, MBRows
<1>4. /\ sc' \in [tile : 1 .. NumTileRows', att : 0 .. NumTileRows', stuck : Nat]
      /\ row' \in [MBRows' -> {"none", "good", "bad"}] /\ shown' \in [MBRows' -> -1 .. Len(bandEnds')]
  BY <1>1, <1>3 DEF LibraryType, PictureType, ShownType
<1>5. img' \in Images /\ bandEnds' \in [Bands(img') -> Nat] /\ infos' \in [1 .. NumTileRows' -> [Bands(img') -> Nat]]
  BY <1>3 DEF TypeOK
<1>6. /\ band' \in 1 .. Len(bandEnds') + 1 /\ tileRow' \in 1 .. NumTileRows' + 1
      /\ mbRow' \in 0 .. img'.rows + 1 /\ line' \in 0 .. img'.rows /\ total' \in 0 .. img'.size
  BY <1>1, <1>2, <1>3
<1> QED BY <1>4, <1>5, <1>6 DEF TypeOK

LEMMA LimitsAfter ==
  ASSUME Limits, UNCHANGED << img, total, tag, infos, bandEnds >>
  PROVE  Limits'
BY DEF Limits, NumTileRows

(* What a tile row and a band have to wait for.                            *)
LEMMA InfosFacts ==
  ASSUME TypeOK, Limits, NEW r \in 1 .. NumTileRows, NEW b \in 1 .. NumBands
  PROVE  /\ infos[r][b] \in Nat /\ infos[r][b] <= tag /\ tag <= img.upper /\ tag >= 1
         /\ infos[r][b] = 0 <=> ~ HasBand(img, r, b)
         /\ HasBand(img, r, b) => infos[r][b] = BandUpperLimit(img, r, b) \/ infos[r][b] = tag
         /\ BandUpperLimit(img, r, b) \in Nat /\ infos[r][b] <= BandUpperLimit(img, r, b)
         /\ BandUpperLimit(img, r, b) <= img.upper
<1>1. img \in Images /\ tag \in Nat
  BY DEF TypeOK
<1>2. /\ WellFormed(img) /\ r \in TileRows(img) /\ b \in Bands(img) /\ img.upper \in Nat
      /\ img.head \in Nat /\ img.head >= 1
  BY <1>1, ImageType
<1>3. tag <= img.upper /\ tag >= 1
  <2>1. img.upper >= 1
    <3>1. PICK p \in RowPackets(img, r) : TRUE
      BY <1>2 DEF WellFormed, PacketsWellFormed
    <3>2. Start(img, r, p[1], p[2]) \in Nat /\ Start(img, r, p[1], p[2]) < img.content
      BY <1>2, PacketFacts
    <3> QED BY <3>2, <1>2, <1>1, ImageType
  <2> QED BY <1>1, <1>2, <2>1 DEF Limits
<1>4. infos[r][b] = IF BandUpperLimit(img, r, b) <= tag THEN BandUpperLimit(img, r, b) ELSE tag
  BY <1>2 DEF Limits
<1>5. CASE HasBand(img, r, b)
  <2>1. /\ BandUpperLimit(img, r, b) \in Nat /\ BandUpperLimit(img, r, b) >= 1
        /\ BandUpperLimit(img, r, b) <= img.upper
    BY <1>2, <1>5, BandLimits
  <2> QED BY <1>1, <1>3, <1>4, <1>5, <2>1
<1>6. CASE ~ HasBand(img, r, b)
  <2>1. BandUpperLimit(img, r, b) = 0
    BY <1>2, <1>6, UpperFacts
  <2> QED BY <1>1, <1>2, <1>3, <1>4, <1>6, <2>1
<1> QED BY <1>5, <1>6

(* Once every tile row of the last band can be decoded the image has       *)
(* arrived.                                                                *)
LEMMA AllArrived ==
  ASSUME TypeOK, Limits, \A r \in 1 .. NumTileRows : total >= infos[r][NumAvailable]
  PROVE  total >= tag
<1>1. /\ img \in Images /\ WellFormed(img) /\ TileRows(img) = 1 .. NumTileRows
      /\ NumAvailable \in 1 .. NumBands
  BY ImageType DEF TypeOK
<1>2. PICK s \in TileRows(img) : /\ HasBand(img, s, NumAvailable)
                                 /\ BandUpperLimit(img, s, NumAvailable) = img.upper
  BY <1>1, Available DEF NumAvailable
<1>3. infos[s][NumAvailable] = tag
  <2>1. s \in 1 .. NumTileRows /\ tag \in Nat /\ img.upper \in Nat
    BY <1>1, ImageType DEF TypeOK
  <2>2. /\ infos[s][NumAvailable] = BandUpperLimit(img, s, NumAvailable) \/ infos[s][NumAvailable] = tag
        /\ infos[s][NumAvailable] <= tag /\ tag <= img.upper
    BY <1>1, <1>2, <2>1, InfosFacts
  <2> QED BY <1>2, <2>1, <2>2
<1> QED BY <1>1, <1>2, <1>3

LEMMA NumCoveredFacts ==
  ASSUME TypeOK
  PROVE  /\ NumCovered \in 0 .. NumAvailable
         /\ NumCovered > 0 => /\ NumCovered \in 1 .. NumAvailable /\ bandEnds[NumCovered] # 0
                              /\ \A a \in 1 .. NumCovered : total >= bandEnds[a]
         /\ \A b \in 1 .. NumAvailable :
              bandEnds[b] # 0 /\ (\A a \in 1 .. b : total >= bandEnds[a]) => b <= NumCovered
<1> DEFINE S == {b \in 1 .. NumAvailable : bandEnds[b] # 0 /\ \A a \in 1 .. b : total >= bandEnds[a]}
<1>1. NumAvailable \in Nat /\ NumAvailable \in 1 .. NumBands
  BY ImageType DEF TypeOK
<1>2. NumCovered = Max({0} \cup S)
  BY DEF NumCovered
<1>3. {0} \cup S \in SUBSET Nat /\ {0} \cup S # {} /\ \A x \in {0} \cup S : x <= NumAvailable
  BY <1>1
<1>4. NumCovered \in {0} \cup S /\ \A x \in {0} \cup S : x <= NumCovered
  <2> HIDE DEF S
  <2> QED BY <1>1, <1>2, <1>3, MaxOfNats
<1> QED BY <1>1, <1>3, <1>4

LEMMA ReadableType ==
  ASSUME TypeOK
  PROVE  /\ ReadLimit \in Nat /\ ReadLimit <= tag /\ Readable \in Nat
         /\ ReadLimit = IF limit = 0 THEN tag ELSE IF tag <= limit THEN tag ELSE limit
         /\ Readable = IF ReadLimit <= total THEN ReadLimit ELSE total
<1>1. tag \in Nat /\ limit \in Nat /\ total \in Nat
  BY StateType
<1>2. ReadLimit = IF limit = 0 THEN tag ELSE IF tag <= limit THEN tag ELSE limit
  BY <1>1, MinOfTwo DEF ReadLimit
<1>3. ReadLimit \in Nat
  BY <1>1, <1>2
<1>4. Readable = IF ReadLimit <= total THEN ReadLimit ELSE total
  BY <1>1, <1>3, MinOfTwo DEF Readable
<1> QED BY <1>1, <1>2, <1>3, <1>4

LEMMA ReadRowType ==
  ASSUME TypeOK, NEW s \in LibraryType, NEW m \in 0 .. img.rows, NEW r \in ReadRow(s, m)
  PROVE  /\ r[1] \in LibraryType /\ r[2] \in ReadType
         /\ m = img.rows => r[1] = s /\ r[2] = "good"
         /\ r = << r[1], r[2] >>
<1>1. NumTileRows \in Nat /\ NumTileRows >= 1
  BY ImageType DEF TypeOK
<1> DEFINE t == TilePos(s.tile, m)
           a == Attached(s, t, m)
<1>2. t \in 1 .. NumTileRows
  BY <1>1 DEF TilePos, LibraryType
<1>3. a \in LibraryType
  <2>1. CASE m = img.tops[t]
    <3> HIDE DEF t
    <3> QED BY <1>1, <1>2, <2>1 DEF Attached, LibraryType
  <2>2. CASE m # img.tops[t]
    <3> HIDE DEF t
    <3> QED BY <1>2, <2>2 DEF Attached, LibraryType
  <2> QED BY <2>1, <2>2
<1>4. Outcomes(a, t, m) \subseteq ReadType
  <2> HIDE DEF a, t
  <2> QED BY DEF Outcomes, ReadType
<1>5. Readable \in Nat
  BY ReadableType
<1>6. CASE m = img.rows
  BY <1>6 DEF ReadRow, ReadType
<1>7. CASE m # img.rows
  <2>1. PICK o \in Outcomes(a, t, m) : r = << IF o = "good" THEN a ELSE [a EXCEPT !.stuck = Readable], o >>
    BY <1>7 DEF ReadRow
  <2>2. [a EXCEPT !.stuck = Readable] \in LibraryType
    <3> HIDE DEF a
    <3> QED BY <1>3, <1>5 DEF LibraryType
  <2> HIDE DEF a, t
  <2> QED BY <1>3, <1>4, <1>7, <2>1, <2>2
<1> QED BY <1>6, <1>7

(* What one call of JXR_DecodeNextMBRow can do: one row is read, or two by *)
(* the first call, of which only the last one can have failed.             *)
LEMMA DecodingsType ==
  ASSUME TypeOK, Turns, line < img.rows, NEW d \in Decodings
  PROVE  /\ \/ Len(d) = 1 /\ d[1] \in ReadRow(sc, mbRow) /\ (mbRow = 0 => d[1][2] = "fail")
            \/ /\ Len(d) = 2 /\ mbRow = 0
               /\ d[1] \in ReadRow(sc, 0) /\ d[1][2] # "fail" /\ d[2] \in ReadRow(d[1][1], 1)
         /\ \A k \in 1 .. Len(d) : d[k][1] \in LibraryType /\ d[k][2] \in ReadType
         /\ mbRow \in 0 .. img.rows /\ mbRow + Len(d) <= img.rows + 1
<1>1. img \in Images /\ sc \in LibraryType /\ mbRow \in Nat /\ img.rows \in Nat /\ img.rows >= 1
  BY ImageType, StateType
<1>2. mbRow \in 0 .. img.rows
  BY <1>1, StateType DEF Turns
<1>3. CASE mbRow # 0
  <2>1. PICK r \in ReadRow(sc, mbRow) : d = << r >>
    BY <1>3 DEF Decodings
  <2>2. r[1] \in LibraryType /\ r[2] \in ReadType
    BY <1>1, <1>2, ReadRowType
  <2>3. Len(d) = 1 /\ d[1] = r
    BY <2>1
  <2> QED BY <1>1, <1>2, <1>3, <2>2, <2>3
<1>4. CASE mbRow = 0
  <2> DEFINE then(r) == IF r[2] = "fail" THEN {<< r >>} ELSE {<< r, q >> : q \in ReadRow(r[1], 1)}
  <2>1. PICK r \in ReadRow(sc, 0) : d \in then(r)
    BY <1>4 DEF Decodings
  <2>2. r[1] \in LibraryType /\ r[2] \in ReadType
    BY <1>1, <1>2, <1>4, ReadRowType
  <2>3. CASE r[2] = "fail"
    <3>1. Len(d) = 1 /\ d[1] = r
      BY <2>1, <2>3
    <3> QED BY <1>1, <1>4, <2>2, <2>3, <3>1
  <2>4. CASE r[2] # "fail"
    <3>1. PICK q \in ReadRow(r[1], 1) : d = << r, q >>
      BY <2>1, <2>4
    <3>2. q[1] \in LibraryType /\ q[2] \in ReadType
      BY <1>1, <2>2, ReadRowType
    <3>3. Len(d) = 2 /\ d[1] = r /\ d[2] = q
      BY <3>1
    <3> QED BY <1>1, <1>4, <2>2, <2>4, <3>1, <3>2, <3>3
  <2> QED BY <2>3, <2>4
<1> QED BY <1>3, <1>4

LEMMA DecodeType ==
  ASSUME TypeOK, Turns, line < img.rows, band \in 1 .. NumBands,
         NEW d \in Decodings, NEW o \in BOOLEAN, DecodeNextMBRow(d, o)
  PROVE  /\ sc' \in LibraryType /\ row' \in PictureType /\ shown' \in ShownType
         /\ mbRow' \in 0 .. img.rows + 1 /\ line' \in 0 .. img.rows
         /\ \/ mbRow' = 0 /\ line' = 0
            \/ mbRow' > 0 /\ mbRow' = line' + 1
<1>1. /\ img.rows \in Nat /\ mbRow \in 0 .. img.rows + 1 /\ line \in 0 .. img.rows
      /\ row \in PictureType /\ shown \in ShownType /\ sc \in LibraryType /\ NumBands \in Nat
      /\ \/ mbRow = 0 /\ line = 0
         \/ mbRow > 0 /\ mbRow = line + 1
  BY StateType, ImageType DEF Turns
<1>2. /\ \/ Len(d) = 1 /\ (mbRow = 0 => d[1][2] = "fail")
         \/ Len(d) = 2 /\ mbRow = 0 /\ d[1][2] # "fail"
      /\ \A k \in 1 .. Len(d) : d[k][1] \in LibraryType /\ d[k][2] \in ReadType
      /\ mbRow + Len(d) <= img.rows + 1
  BY DecodingsType
<1>3. sc' \in LibraryType
  BY <1>2 DEF DecodeNextMBRow
<1>4. row' \in PictureType
  <2>1. \A m \in MBRows : m \in mbRow .. (mbRow + Len(d)) - 1 => m - mbRow + 1 \in 1 .. Len(d)
    BY <1>1, <1>2 DEF MBRows
  <2>2. \A m \in MBRows : (IF m \in mbRow .. (mbRow + Len(d)) - 1 /\ d[m - mbRow + 1][2] # "fail"
                           THEN d[m - mbRow + 1][2] ELSE row[m]) \in {"none", "good", "bad"}
    BY <1>1, <1>2, <2>1 DEF ReadType, PictureType
  <2>3. row' = [m \in MBRows |-> IF m \in mbRow .. (mbRow + Len(d)) - 1 /\ d[m - mbRow + 1][2] # "fail"
                                  THEN d[m - mbRow + 1][2] ELSE row[m]]
    BY DEF DecodeNextMBRow
  <2> QED BY <2>2, <2>3 DEF PictureType
<1>5. shown' \in ShownType
  <2>1. \A x \in -1 .. NumBands : [shown EXCEPT ![line] = x] \in ShownType
    BY <1>1 DEF ShownType
  <2>2. band \in -1 .. NumBands /\ -1 \in -1 .. NumBands
    BY <1>1
  <2>3. shown' = shown \/ \E x \in -1 .. NumBands : shown' = [shown EXCEPT ![line] = x]
    BY <2>2 DEF DecodeNextMBRow
  <2> QED BY <1>1, <2>1, <2>3
<1>6. CASE d[Len(d)][2] # "fail"
  <2>1. mbRow' = mbRow + Len(d) /\ line' = line + 1
    BY <1>6 DEF DecodeNextMBRow
  <2>2. CASE Len(d) = 1
    <3>1. mbRow # 0
      BY <1>2, <1>6, <2>2
    <3> QED BY <1>1, <1>2, <1>3, <1>4, <1>5, <2>1, <2>2, <3>1
  <2>3. CASE Len(d) = 2
    BY <1>1, <1>2, <1>3, <1>4, <1>5, <2>1, <2>3
  <2> QED BY <1>2, <2>2, <2>3
<1>7. CASE d[Len(d)][2] = "fail"
  <2>1. mbRow' = mbRow /\ line' = line
    BY <1>7 DEF DecodeNextMBRow
  <2> QED BY <1>1, <1>3, <1>4, <1>5, <2>1
<1> QED BY <1>6, <1>7

LEMMA TypedInit == Init => Typed
<1> SUFFICES ASSUME Init PROVE Typed
  OBVIOUS
<1>1. img \in Images
  BY DEF Init
<1>2. /\ WellFormed(img) /\ NumTileRows \in Nat /\ NumTileRows >= 1 /\ TileRows(img) = 1 .. NumTileRows
      /\ img.rows \in Nat /\ img.rows >= 1 /\ img.upper \in Nat /\ img.size \in Nat
      /\ NumBands \in Nat /\ NumBands >= 1 /\ Bands(img) = 1 .. NumBands
      /\ NumAvailable \in 1 .. NumBands /\ img.head >= 1 /\ img.head \in Nat
  BY <1>1, ImageType
<1>3. \A r \in 1 .. NumTileRows, b \in 1 .. NumBands :
        BandUpperLimit(img, r, b) \in Nat /\ BandUpperLimit(img, r, b) <= img.upper
  <2> TAKE r \in 1 .. NumTileRows, b \in 1 .. NumBands
  <2>1. CASE HasBand(img, r, b)
    BY <1>2, <2>1, BandLimits
  <2>2. CASE ~ HasBand(img, r, b)
    <3>1. BandUpperLimit(img, r, b) = 0
      BY <1>2, <2>2, UpperFacts
    <3> QED BY <1>2, <3>1
  <2> QED BY <2>1, <2>2
<1>4. infos \in [1 .. NumTileRows -> [Bands(img) -> Nat]]
      /\ \A r \in 1 .. NumTileRows, b \in 1 .. NumBands : infos[r][b] = BandUpperLimit(img, r, b)
  BY <1>2, <1>3 DEF Init, FillTileRowBandInfo
<1>5. bandEnds \in [Bands(img) -> Nat] /\ \A b \in 1 .. NumBands : bandEnds[b] = SubbandUpperLimit(img, b)
  <2>1. ASSUME NEW b \in 1 .. NumBands PROVE SubbandUpperLimit(img, b) \in Nat
    <3>1. \/ SubbandUpperLimit(img, b) = 0
          \/ \E s \in TileRows(img) : SubbandUpperLimit(img, b) = BandUpperLimit(img, s, b)
      BY <1>2, BandEnds
    <3> QED BY <1>2, <1>3, <3>1
  <2> QED BY <1>2, <2>1 DEF Init
<1>6. Len(bandEnds) = NumBands
  BY <1>2, <1>5
<1>7. TypeOK
  <2>1. /\ phase = "receiving" /\ pc = "idle" /\ total = 0 /\ tag = img.upper /\ atEnd = FALSE /\ finished = FALSE
        /\ band = 1 /\ started = TRUE /\ skipped = FALSE
        /\ tileRow = 1 /\ limit = 0 /\ mbRow = 0 /\ line = 0
    BY DEF Init
  <2>2. /\ total \in 0 .. img.size /\ tag \in Nat /\ limit \in Nat /\ band \in 1 .. Len(bandEnds) + 1
        /\ tileRow \in 1 .. NumTileRows + 1 /\ mbRow \in 0 .. img.rows + 1 /\ line \in 0 .. img.rows
    BY <1>2, <1>6, <2>1
  <2>3. sc \in [tile : 1 .. NumTileRows, att : 0 .. NumTileRows, stuck : Nat]
    BY <1>2 DEF Init
  <2>4. row \in [MBRows -> {"none", "good", "bad"}]
    BY DEF Init
  <2>5. shown \in [MBRows -> -1 .. Len(bandEnds)]
    BY <1>2, <1>6 DEF Init
  <2> QED BY <1>1, <1>4, <1>5, <2>1, <2>2, <2>3, <2>4, <2>5 DEF TypeOK
<1>8. Turns
  BY <1>2 DEF Init, Turns
<1>9. Limits
  BY <1>2, <1>3, <1>4, <1>5 DEF Init, Limits
<1>10. Arrived
  BY DEF Init, Arrived
<1> QED BY <1>7, <1>8, <1>9, <1>10 DEF Typed

(* No step changes the image.                                              *)
LEMMA SameImage ==
  ASSUME [Next]_vars
  PROVE  /\ img' = img /\ NumTileRows' = NumTileRows /\ MBRows' = MBRows /\ NumBands' = NumBands
         /\ NumAvailable' = NumAvailable /\ bandEnds' = bandEnds
<1>1. img' = img /\ bandEnds' = bandEnds
  BY DEF Next, vars, WriteInternal, FinishInternal, EndDecodingMBRows, StartBand, Tiles, DecodeRow, DecodeAll,
         Terminating
<1> QED BY <1>1 DEF NumTileRows, MBRows, NumBands, NumAvailable

LEMMA WriteTyped ==
  ASSUME Typed, NEW n \in 1 .. MaxWrite, WriteInternal(n)
  PROVE  Typed'
<1>1. n \in Nat /\ n >= 1
  BY ImagesAssumption
<1>2. /\ UNCHANGED << img, phase, tag, infos, bandEnds, finished, band, started, skipped, position, shown >>
      /\ phase = "receiving" /\ pc = "idle" /\ total + n <= img.size /\ total' = total + n
  BY DEF WriteInternal
<1>3. /\ total \in Nat /\ tag \in Nat /\ img.size \in Nat /\ img.head \in Nat /\ total <= img.size
      /\ atEnd \in BOOLEAN
  BY ImageType, StateType DEF Typed, TypeOK
<1>4. total' \in Nat /\ total' <= img.size /\ total < total'
  BY <1>1, <1>2, <1>3
<1>5. atEnd' \in BOOLEAN /\ (atEnd' => atEnd \/ (total < img.head /\ total' >= tag))
      /\ (atEnd => atEnd' \/ total < img.head)
  <2>1. CASE total < img.head /\ total' >= img.head
    <3>1. atEnd' = (total' >= tag)
      BY <2>1 DEF WriteInternal
    <3>2. atEnd' \in BOOLEAN
      BY <3>1
    <3>3. atEnd' => total' >= tag
      BY <3>1
    <3> QED BY <2>1, <3>2, <3>3
  <2>2. CASE ~ (total < img.head /\ total' >= img.head)
    <3>1. atEnd' = atEnd
      BY <2>2 DEF WriteInternal
    <3> QED BY <1>3, <3>1
  <2> QED BY <2>1, <2>2
<1>6. /\ pc' \in {"idle", "band"}
      /\ pc' = "band" => total' >= img.head /\ ~ atEnd' /\ ~ finished
      /\ total' < img.head \/ atEnd' => pc' = "idle"
  <2>1. pc' = IF total' < img.head \/ atEnd' \/ finished THEN "idle" ELSE "band"
    BY DEF WriteInternal
  <2> QED BY <1>3, <1>4, <2>1
<1>7. TypeOK'
  <2>1. /\ limit \in Nat /\ infos \in [1 .. NumTileRows -> [Bands(img) -> Nat]]
        /\ band \in 1 .. NumBands + 1 /\ tileRow \in 1 .. NumTileRows + 1
        /\ mbRow \in 0 .. img.rows + 1 /\ line \in 0 .. img.rows
        /\ sc \in LibraryType /\ row \in PictureType /\ shown \in ShownType
    BY StateType DEF Typed
  <2>2. finished \in BOOLEAN /\ started \in BOOLEAN /\ skipped \in BOOLEAN /\ phase \in {"receiving", "finishing", "done"}
    BY DEF Typed, TypeOK
  <2> QED BY <1>2, <1>3, <1>4, <1>5, <1>6, <2>1, <2>2, TypeOKAfter DEF Typed, position
<1>8. Turns'
  <2>1. NumTileRows' = NumTileRows /\ NumBands' = NumBands /\ NumAvailable' = NumAvailable
    BY <1>2 DEF NumTileRows, NumBands, NumAvailable
  <2>2. /\ limit' = limit /\ mbRow' = mbRow /\ line' = line /\ tileRow' = tileRow
    BY <1>2 DEF position
  <2> QED BY <1>2, <1>3, <1>4, <1>5, <1>6, <2>1, <2>2 DEF Typed, Turns
<1>9. Limits'
  <2>1. tag = img.upper
    BY <1>1, <1>2, <1>3 DEF Typed, Limits
  <2> QED BY <1>2, <2>1 DEF Typed, Limits, NumTileRows
<1>10. Arrived'
  <2>1. /\ infos' = infos /\ band' = band /\ tileRow' = tileRow /\ started' = started /\ finished' = finished
        /\ NumTileRows' = NumTileRows /\ phase' = "receiving" /\ pc' # "rows" /\ pc' # "all"
    BY <1>2, <1>6 DEF position, NumTileRows
  <2>2. Passing' => Passing
    BY <1>2, <2>1 DEF Passing
  <2>3. infos \in [1 .. NumTileRows -> [Bands(img) -> Nat]]
    BY DEF Typed, TypeOK
  <2>4. ASSUME Passing, NEW r \in 1 .. NumTileRows, r < tileRow PROVE total' >= infos[r][band]
    <3>1. total >= infos[r][band]
      BY <2>4 DEF Typed, Arrived
    <3>2. band \in 1 .. NumBands
      <4>1. band <= NumAvailable
        BY <2>4, <1>2 DEF Passing, Typed, Turns
      <4>2. NumAvailable \in 1 .. NumBands /\ band \in 1 .. NumBands + 1 /\ NumBands \in Nat
        BY StateType, ImageType DEF Typed
      <4> QED BY <4>1, <4>2
    <3>3. infos[r][band] \in Nat
      BY <2>4, <3>2, InfosFacts DEF Typed
    <3> QED BY <1>3, <1>4, <3>1, <3>3
  <2> QED BY <2>1, <2>2, <2>4 DEF Arrived
<1> QED BY <1>7, <1>8, <1>9, <1>10 DEF Typed

LEMMA PassRange ==
  ASSUME Typed, ~ finished, atEnd => phase = "receiving"
  PROVE  /\ band \in 1 .. NumAvailable /\ band \in 1 .. NumBands /\ band + 1 \in 1 .. NumBands + 1
         /\ started => tileRow \in 1 .. NumTileRows
<1>1. band <= NumAvailable /\ (started => tileRow <= NumTileRows)
  BY DEF Typed, Turns
<1>2. /\ NumAvailable \in 1 .. NumBands /\ NumBands \in Nat /\ NumTileRows \in Nat
      /\ band \in 1 .. NumBands + 1 /\ tileRow \in 1 .. NumTileRows + 1
  BY StateType, ImageType DEF Typed
<1> QED BY <1>1, <1>2

LEMMA FinishTyped ==
  ASSUME Typed, FinishInternal
  PROVE  Typed'
<1>1. /\ phase = "receiving" /\ pc = "idle" /\ total = img.size /\ total >= img.head /\ phase' = "finishing"
      /\ UNCHANGED << img, total, bandEnds, atEnd, finished, started, skipped, tileRow, mbRow, line, sc,
                      row, shown >>
  BY DEF FinishInternal
<1>2. /\ img \in Images /\ total \in Nat /\ tag \in Nat /\ limit \in Nat /\ img.upper \in Nat
      /\ NumBands \in Nat /\ NumBands >= 1 /\ NumTileRows \in Nat
      /\ infos \in [1 .. NumTileRows -> [Bands(img) -> Nat]] /\ Len(bandEnds) = NumBands
      /\ band \in 1 .. NumBands + 1 /\ Bands(img) = 1 .. NumBands
  BY StateType, ImageType DEF Typed
<1>3. NumTileRows' = NumTileRows /\ NumBands' = NumBands /\ NumAvailable' = NumAvailable
  BY <1>1 DEF NumTileRows, NumBands, NumAvailable
<1>4. ASSUME tag' \in Nat, limit' \in Nat, infos' \in [1 .. NumTileRows -> [Bands(img) -> Nat]],
             band' \in 1 .. NumBands + 1, pc' \in {"idle", "band", "all"}
      PROVE  TypeOK'
  <2>1. /\ tileRow \in 1 .. NumTileRows + 1 /\ mbRow \in 0 .. img.rows + 1 /\ line \in 0 .. img.rows
        /\ sc \in LibraryType /\ row \in PictureType /\ shown \in ShownType /\ total <= img.size
    BY StateType DEF Typed
  <2>2. atEnd \in BOOLEAN /\ finished \in BOOLEAN /\ started \in BOOLEAN /\ skipped \in BOOLEAN
    BY DEF Typed, TypeOK
  <2> QED BY <1>1, <1>2, <1>4, <2>1, <2>2, TypeOKAfter DEF Typed
<1>5. CASE atEnd
  <2>1. pc' = "all" /\ band' = NumBands /\ tag' = tag /\ infos' = infos /\ limit' = limit
    BY <1>2, <1>5 DEF FinishInternal
  <2>2. TypeOK'
    BY <1>2, <1>4, <2>1
  <2>3. Turns'
    BY <1>1, <1>3, <1>5, <2>1 DEF Typed, Turns
  <2>4. Limits'
    BY <1>1, <2>1, LimitsAfter DEF Typed
  <2>5. Arrived'
    BY <1>1, <1>5, <2>1 DEF Arrived, Passing
  <2> QED BY <2>2, <2>3, <2>4, <2>5 DEF Typed
<1>6. CASE ~ atEnd /\ total >= tag
  <2>1. pc' = "idle" /\ band' = band /\ tag' = tag /\ infos' = infos /\ limit' = limit
    BY <1>2, <1>6 DEF FinishInternal
  <2>2. TypeOK'
    BY <1>2, <1>4, <2>1
  <2>3. Turns'
    BY <1>1, <1>3, <1>6, <2>1 DEF Typed, Turns
  <2>4. Limits'
    BY <1>1, <2>1, LimitsAfter DEF Typed
  <2>5. Arrived'
    <3>1. Passing' => Passing
      BY <1>1, <1>6, <2>1 DEF Passing
    <3> QED BY <1>1, <1>3, <2>1, <3>1 DEF Typed, Arrived
  <2> QED BY <2>2, <2>3, <2>4, <2>5 DEF Typed
<1>7. CASE ~ atEnd /\ ~ (total >= tag)
  <2>1. pc' = "band" /\ band' = band /\ FixWrongImageSizeTag /\ ~ finished
    BY <1>2, <1>7 DEF FinishInternal, Typed, Turns
  <2>2. tag' = total /\ limit' = total /\ tag = img.upper
    BY <1>2, <1>7, <2>1 DEF FixWrongImageSizeTag, Typed, Limits
  <2>3. \A r \in 1 .. NumTileRows, b \in 1 .. NumBands :
          infos'[r][b] = IF infos[r][b] > total THEN total ELSE infos[r][b]
    BY <1>2, <2>1 DEF FixWrongImageSizeTag
  <2>4. infos' \in [1 .. NumTileRows -> [Bands(img) -> Nat]]
    <3>1. \A r \in 1 .. NumTileRows : \A b \in Bands(img) :
            (IF infos[r][b] > total THEN total ELSE infos[r][b]) \in Nat
      BY <1>2
    <3>2. DOMAIN infos = 1 .. NumTileRows
      BY <1>2
    <3>3. infos' = [r \in 1 .. NumTileRows |->
                      [b \in Bands(img) |-> IF infos[r][b] > total THEN total ELSE infos[r][b]]]
      BY <2>1, <3>2 DEF FixWrongImageSizeTag
    <3> QED BY <3>1, <3>3
  <2>5. TypeOK'
    BY <1>2, <1>4, <2>1, <2>2, <2>4
  <2>6. Turns'
    BY <1>1, <1>2, <1>3, <1>7, <2>1, <2>2 DEF Typed, Turns
  <2>7. Limits'
    <3>1. tag' = total' /\ img'.head <= tag' /\ tag' < img'.upper /\ tag' = img'.size
      BY <1>1, <1>2, <1>7, <2>2
    <3>2. ASSUME NEW r \in 1 .. NumTileRows, NEW b \in 1 .. NumBands
          PROVE  infos'[r][b] = IF BandUpperLimit(img, r, b) <= tag' THEN BandUpperLimit(img, r, b) ELSE tag'
      <4>1. infos[r][b] = IF BandUpperLimit(img, r, b) <= tag THEN BandUpperLimit(img, r, b) ELSE tag
        BY <1>2 DEF Typed, Limits
      <4>2. BandUpperLimit(img, r, b) \in Nat /\ BandUpperLimit(img, r, b) <= img.upper
        BY InfosFacts DEF Typed
      <4>3. infos'[r][b] = IF infos[r][b] > total THEN total ELSE infos[r][b]
        BY <2>3
      <4>4. infos[r][b] = BandUpperLimit(img, r, b)
        BY <2>2, <4>1, <4>2
      <4>5. total \in Nat
        BY <1>2
      <4> QED BY <2>2, <4>2, <4>3, <4>4, <4>5
    <3>3. \A b \in Bands(img) : bandEnds[b] = SubbandUpperLimit(img, b)
      BY DEF Typed, Limits
    <3>4. /\ \A r \in 1 .. NumTileRows, b \in Bands(img) :
               infos'[r][b] = IF BandUpperLimit(img, r, b) <= tag' THEN BandUpperLimit(img, r, b) ELSE tag'
      BY <1>2, <3>2
    <3> QED BY <1>1, <1>3, <3>1, <3>3, <3>4 DEF Limits
  <2>8. Arrived'
    <3>1. Passing' => Passing
      BY <1>1, <1>7, <2>1 DEF Passing
    <3>2. ASSUME Passing, NEW r \in 1 .. NumTileRows, r < tileRow PROVE total >= infos'[r][band]
      <4>1. band \in 1 .. NumBands
        BY <1>1, <2>1, PassRange
      <4>2. infos'[r][band] = IF infos[r][band] > total THEN total ELSE infos[r][band]
        BY <2>3, <4>1
      <4>3. infos[r][band] \in Nat
        BY <4>1, InfosFacts DEF Typed
      <4> QED BY SMTT(30), <1>2, <4>2, <4>3
    <3> QED BY <1>1, <1>3, <2>1, <3>1, <3>2 DEF Arrived
  <2> QED BY <2>5, <2>6, <2>7, <2>8 DEF Typed
<1> QED BY <1>5, <1>6, <1>7

LEMMA EndTyped ==
  ASSUME Typed, EndDecodingMBRows
  PROVE  Typed'
<1>1. /\ phase = "finishing" /\ pc = "idle" /\ phase' = "done"
      /\ UNCHANGED << img, pc, total, tag, infos, bandEnds, atEnd, finished, band, started, skipped, shown >>
      /\ UNCHANGED << tileRow, limit, mbRow, line, sc, row >>
  BY DEF EndDecodingMBRows, position
<1>2. TypeOK'
  BY <1>1, StateType, TypeOKAfter DEF Typed, TypeOK
<1>3. NumTileRows' = NumTileRows /\ NumBands' = NumBands /\ NumAvailable' = NumAvailable
  BY <1>1 DEF NumTileRows, NumBands, NumAvailable
<1>4. Turns'
  BY <1>1, <1>3 DEF Typed, Turns
<1>5. Limits'
  BY <1>1, LimitsAfter DEF Typed
<1>6. Arrived'
  BY <1>1, <1>3 DEF Typed, Arrived, Passing
<1> QED BY <1>2, <1>4, <1>5, <1>6 DEF Typed

LEMMA StartTyped ==
  ASSUME Typed, StartBand
  PROVE  Typed'
<1>1. /\ pc = "band" /\ started' = TRUE
      /\ UNCHANGED << img, phase, total, tag, infos, bandEnds, atEnd, finished, skipped, shown >>
  BY DEF StartBand
<1>2. ~ finished /\ ~ atEnd
  BY <1>1 DEF Typed, Turns
<1>3. /\ band \in 1 .. NumAvailable /\ band \in 1 .. NumBands
      /\ started => tileRow \in 1 .. NumTileRows
  BY <1>2, PassRange
<1>4. /\ NumBands \in Nat /\ NumTileRows \in Nat /\ NumTileRows >= 1 /\ NumAvailable \in 1 .. NumBands
      /\ bandEnds \in [1 .. NumBands -> Nat] /\ sc \in LibraryType /\ limit \in Nat /\ img.rows \in Nat
      /\ mbRow \in 0 .. img.rows + 1 /\ line \in 0 .. img.rows /\ tileRow \in 1 .. NumTileRows + 1
      /\ row \in PictureType
  BY StateType, ImageType DEF Typed
<1>5. /\ tileRow' \in 1 .. NumTileRows /\ mbRow' \in 0 .. img.rows + 1 /\ line' \in 0 .. img.rows
      /\ sc' \in LibraryType /\ row' \in PictureType
      /\ \/ mbRow' = 0 /\ line' = 0
         \/ mbRow' > 0 /\ mbRow' = line' + 1
      /\ tileRow' = 1 \/ (started /\ tileRow' = tileRow)
  <2>1. CASE StartDecodingNextSubband
    <3>1. tileRow' = 1 /\ mbRow' = 0 /\ line' = 0 /\ sc' = [sc EXCEPT !.att = 0, !.stuck = 0]
          /\ row' = [m \in MBRows |-> "none"]
      BY <2>1 DEF StartDecodingNextSubband
    <3>2. sc' \in LibraryType
      <4>1. sc.tile \in 1 .. NumTileRows /\ sc = [tile |-> sc.tile, att |-> sc.att, stuck |-> sc.stuck]
        BY <1>4 DEF LibraryType
      <4>2. sc' = [tile |-> sc.tile, att |-> 0, stuck |-> 0]
        BY <3>1, <4>1
      <4>3. 0 \in 0 .. NumTileRows
        BY <1>4
      <4> QED BY <4>1, <4>2, <4>3 DEF LibraryType
    <3>3. row' \in PictureType
      BY <3>1 DEF PictureType
    <3> QED BY <1>4, <3>1, <3>2, <3>3
  <2>2. CASE started /\ UNCHANGED << tileRow, mbRow, line, sc, row >>
    BY <1>3, <1>4, <2>2 DEF Typed, Turns
  <2> QED BY <2>1, <2>2 DEF StartBand
<1>6. \/ /\ band' = NumCovered /\ pc' = "all" /\ NumCovered >= band /\ limit' = bandEnds[NumCovered]
      \/ /\ band' = band /\ limit' = limit
         /\ \/ NumTileRows > 1 /\ pc' = "tiles"
            \/ pc' = "idle"
  BY DEF StartBand, WholeBand
<1>7. band' \in 1 .. NumAvailable /\ band' \in 1 .. NumBands + 1 /\ limit' \in Nat
  <2>1. NumCovered >= band => NumCovered \in 1 .. NumAvailable
    BY <1>3, <1>4, NumCoveredFacts DEF Typed
  <2> QED BY <1>3, <1>4, <1>6, <2>1
<1>8. TypeOK'
  <2>1. /\ shown \in ShownType /\ total \in Nat /\ total <= img.size /\ tag \in Nat
        /\ infos \in [1 .. NumTileRows -> [Bands(img) -> Nat]]
    BY StateType DEF Typed
  <2>2. /\ skipped \in BOOLEAN /\ atEnd \in BOOLEAN /\ finished \in BOOLEAN
        /\ phase \in {"receiving", "finishing", "done"}
    BY DEF Typed, TypeOK
  <2>3. tileRow' \in 1 .. NumTileRows + 1 /\ pc' \in {"all", "tiles", "idle"}
    BY <1>4, <1>5, <1>6
  <2> QED BY <1>1, <1>5, <1>7, <2>1, <2>2, <2>3, TypeOKAfter DEF Typed
<1>9. NumTileRows' = NumTileRows /\ NumBands' = NumBands /\ NumAvailable' = NumAvailable
  BY <1>1 DEF NumTileRows, NumBands, NumAvailable
<1>10. Turns'
  <2>1. pc' \in {"tiles", "idle", "all"} /\ (pc' = "tiles" => NumTileRows > 1)
    BY <1>6
  <2>2. band' <= NumAvailable /\ tileRow' <= NumTileRows
    BY <1>4, <1>5, <1>7
  <2>3. phase # "receiving" => total >= tag
    BY DEF Typed, Turns
  <2>4. phase # "done" /\ ~ (phase = "receiving" /\ total < img.head)
    BY <1>1 DEF Typed, Turns
  <2> QED BY <1>1, <1>2, <1>5, <1>9, <2>1, <2>2, <2>3, <2>4 DEF Turns
<1>11. Limits'
  BY <1>1, LimitsAfter DEF Typed
<1>12. Arrived'
  <2>1. CASE band' = NumCovered /\ pc' = "all" /\ NumCovered >= band /\ limit' = bandEnds[NumCovered]
    <3>1. NumCovered > 0
      BY <1>3, <1>4, <2>1, NumCoveredFacts DEF Typed
    <3>2. NumCovered \in 1 .. NumAvailable /\ bandEnds[NumCovered] # 0 /\ \A a \in 1 .. NumCovered : total >= bandEnds[a]
      BY <3>1, NumCoveredFacts DEF Typed
    <3>3. total >= bandEnds[NumCovered]
      BY <1>4, <3>2
    <3> QED BY <1>1, <2>1, <3>2, <3>3 DEF Arrived, Passing
  <2>2. CASE band' = band /\ limit' = limit /\ pc' \in {"tiles", "idle"}
    <3>1. ASSUME NEW r \in 1 .. NumTileRows, r < tileRow' PROVE total >= infos[r][band]
      <4>1. started /\ tileRow' = tileRow
        BY <1>5, <3>1
      <4>2. Passing
        BY <1>1, <1>2, <4>1 DEF Passing
      <4> QED BY <3>1, <4>1, <4>2 DEF Typed, Arrived
    <3> QED BY <1>1, <1>9, <2>2, <3>1 DEF Arrived
  <2> QED BY <1>6, <2>1, <2>2
<1> QED BY <1>8, <1>10, <1>11, <1>12 DEF Typed

(* A tile row is left when it can be decoded: then the next ones follow,   *)
(* or the next band, or the image has arrived.                             *)
LEMMA LeaveTyped ==
  ASSUME Typed, pc \in {"tiles", "rows"}, total >= infos[tileRow][band], LeaveTileRow,
         UNCHANGED << img, phase, total, tag, infos, bandEnds, atEnd >>,
         \/ mbRow' = 0 /\ line' = 0
         \/ mbRow' > 0 /\ mbRow' = line' + 1
  PROVE  /\ tileRow' \in 1 .. NumTileRows + 1 /\ band' \in 1 .. NumBands + 1
         /\ finished' \in BOOLEAN /\ started' \in BOOLEAN /\ pc' \in {"idle", "band", "tiles"}
         /\ Turns' /\ Arrived'
<1>1. /\ NumTileRows > 1 /\ tileRow <= NumTileRows /\ started /\ ~ finished /\ ~ atEnd /\ pc # "all"
      /\ phase # "done" /\ ~ (phase = "receiving" /\ total < img.head)
      /\ phase # "receiving" => total >= tag
  BY DEF Typed, Turns
<1>2. band \in 1 .. NumAvailable /\ band \in 1 .. NumBands /\ tileRow \in 1 .. NumTileRows
  BY <1>1, PassRange
<1>3. NumTileRows \in Nat /\ NumBands \in Nat /\ NumAvailable \in 1 .. NumBands
  BY ImageType DEF Typed, TypeOK
<1>4. NumTileRows' = NumTileRows /\ NumBands' = NumBands /\ NumAvailable' = NumAvailable
  BY DEF NumTileRows, NumBands, NumAvailable
<1>5. Passing
  BY <1>1 DEF Passing
<1>6. \A r \in 1 .. NumTileRows : r < tileRow + 1 => total >= infos[r][band]
  <2> TAKE r \in 1 .. NumTileRows
  <2>1. CASE r < tileRow
    BY <1>5, <2>1 DEF Typed, Arrived
  <2>2. CASE r = tileRow
    BY <2>2
  <2> QED BY <1>2, <1>3, <2>1, <2>2
<1>7. tileRow' = tileRow + 1
  BY DEF LeaveTileRow
<1>8. CASE tileRow' <= NumTileRows
  <2>1. pc' = "tiles" /\ UNCHANGED << band, finished, started >>
    BY <1>2, <1>3, <1>7, <1>8 DEF LeaveTileRow
  <2>2. Turns'
    BY <1>1, <1>2, <1>3, <1>4, <1>7, <1>8, <2>1 DEF Turns
  <2>3. Arrived'
    BY <1>1, <1>4, <1>6, <1>7, <2>1 DEF Arrived
  <2>4. finished' \in BOOLEAN /\ started' \in BOOLEAN
    BY <2>1 DEF Typed, TypeOK
  <2>5. band' \in 1 .. NumBands + 1 /\ tileRow' \in 1 .. NumTileRows + 1
    BY <1>2, <1>3, <1>7, <2>1
  <2> QED BY <2>1, <2>2, <2>3, <2>4, <2>5
<1>9. CASE ~ (tileRow' <= NumTileRows)
  <2>1. band' = band + 1 /\ BandDecoded
    BY <1>2, <1>3, <1>7, <1>9 DEF LeaveTileRow
  <2>2. band' \in 1 .. NumBands + 1 /\ tileRow' \in 1 .. NumTileRows + 1
    BY <1>2, <1>3, <1>7, <2>1
  <2>3. CASE band' > NumAvailable
    <3>1. finished' = TRUE /\ pc' = "idle" /\ started' = started
      BY <2>1, <2>3 DEF BandDecoded
    <3>2. band = NumAvailable /\ tileRow = NumTileRows
      BY <1>2, <1>3, <1>7, <1>9, <2>1, <2>3
    <3>3. \A r \in 1 .. NumTileRows : total >= infos[r][NumAvailable]
      BY <1>3, <1>6, <3>2
    <3>4. total >= tag
      BY <3>3, AllArrived DEF Typed
    <3>5. Turns'
      BY <1>1, <1>4, <2>1, <3>1, <3>2, <3>4 DEF Turns
    <3>6. Arrived'
      BY <3>1 DEF Arrived, Passing
    <3>7. started \in BOOLEAN
      BY DEF Typed, TypeOK
    <3> QED BY <2>2, <3>1, <3>5, <3>6, <3>7
  <2>4. CASE ~ (band' > NumAvailable)
    <3>1. finished' = finished /\ pc' = "band" /\ started' = FALSE
      BY <2>1, <2>4 DEF BandDecoded
    <3>2. band' <= NumAvailable
      BY <1>2, <1>3, <2>1, <2>4
    <3>3. Turns'
      BY <1>1, <1>4, <3>1, <3>2 DEF Turns
    <3>4. Arrived'
      BY <3>1 DEF Arrived, Passing
    <3>5. finished' \in BOOLEAN
      BY <3>1 DEF Typed, TypeOK
    <3>6. started' \in BOOLEAN
      BY <3>1
    <3> QED BY <2>2, <3>1, <3>3, <3>4, <3>5, <3>6
  <2> QED BY <2>3, <2>4
<1> QED BY <1>8, <1>9

LEMMA TilesTyped ==
  ASSUME Typed, Tiles
  PROVE  Typed'
<1> DEFINE upper == infos[tileRow][band]
<1>1. /\ pc = "tiles" /\ UNCHANGED << img, phase, total, tag, infos, bandEnds, atEnd, shown >>
  BY DEF Tiles
<1>2. ~ finished /\ ~ atEnd /\ started /\ NumTileRows > 1
  BY <1>1 DEF Typed, Turns
<1>3. band \in 1 .. NumBands /\ tileRow \in 1 .. NumTileRows
  BY <1>2, PassRange
<1>4. /\ upper \in Nat /\ total \in Nat /\ total <= img.size /\ tag \in Nat /\ limit \in Nat /\ img.rows \in Nat
      /\ infos \in [1 .. NumTileRows -> [Bands(img) -> Nat]] /\ NumBands \in Nat /\ NumTileRows \in Nat
      /\ mbRow \in 0 .. img.rows + 1 /\ line \in 0 .. img.rows /\ sc \in LibraryType /\ row \in PictureType
      /\ shown \in ShownType /\ band \in 1 .. NumBands + 1 /\ tileRow \in 1 .. NumTileRows + 1
  BY <1>3, InfosFacts, StateType, ImageType DEF Typed
<1>5. /\ skipped \in BOOLEAN /\ started \in BOOLEAN /\ finished \in BOOLEAN /\ atEnd \in BOOLEAN
      /\ phase \in {"receiving", "finishing", "done"}
  BY DEF Typed, TypeOK
<1>6. NumTileRows' = NumTileRows /\ NumBands' = NumBands /\ NumAvailable' = NumAvailable
  BY <1>1 DEF NumTileRows, NumBands, NumAvailable
<1>7. Limits'
  BY <1>1, LimitsAfter DEF Typed
<1>8. CASE upper # 0 /\ total < upper
  <2>1. pc' = "idle" /\ UNCHANGED << tileRow, limit, mbRow, line, sc, row, band, finished, started, skipped >>
    BY <1>8 DEF Tiles, position
  <2>2. TypeOK'
    BY <1>1, <1>4, <1>5, <2>1, TypeOKAfter DEF Typed
  <2>3. Turns'
    BY <1>1, <1>2, <1>6, <2>1 DEF Typed, Turns
  <2>4. Arrived'
    BY <1>1, <1>2, <1>6, <2>1 DEF Typed, Arrived, Passing
  <2> QED BY <1>7, <2>2, <2>3, <2>4 DEF Typed
<1>9. CASE ~ (upper # 0 /\ total < upper) /\ CanSkip
  <2>1. /\ IF tileRow < NumTileRows
           THEN /\ mbRow' = img.tops[tileRow + 1]
                /\ sc' = SetCurrentTileRow(tileRow + 1)
                /\ line' = RowTop(img, tileRow + 1)
                /\ skipped' = TRUE
           ELSE UNCHANGED << mbRow, sc, line, skipped >>
        /\ LeaveTileRow /\ UNCHANGED << limit, row >>
    BY <1>9 DEF Tiles
  <2>2. /\ mbRow' \in 0 .. img.rows + 1 /\ line' \in 0 .. img.rows /\ sc' \in LibraryType /\ skipped' \in BOOLEAN
        /\ \/ mbRow' = 0 /\ line' = 0
           \/ mbRow' > 0 /\ mbRow' = line' + 1
    <3>1. CASE tileRow < NumTileRows
      <4>1. img.tops[tileRow + 1] \in Nat /\ img.tops[tileRow + 1] < img.rows
        <5>1. tileRow + 1 \in 1 .. NumTileRows
          BY <1>3, <1>4, <3>1
        <5> QED BY <5>1, ImageType DEF Typed, TypeOK
      <4>2. img.tops[tileRow + 1] > 0
        <5>1. 1 \in 1 .. NumTileRows /\ tileRow + 1 \in 1 .. NumTileRows /\ 1 < tileRow + 1
          BY <1>3, <1>4, <3>1
        <5> QED BY <5>1, TopsApart, TopOfPicture DEF Typed, TypeOK
      <4>3. mbRow' = img.tops[tileRow + 1] /\ line' = img.tops[tileRow + 1] - 1 /\ skipped' = TRUE
        BY <1>3, <1>4, <2>1, <3>1 DEF RowTop
      <4>4. sc' \in LibraryType
        <5>1. sc' = sc \/ sc' = [sc EXCEPT !.tile = tileRow + 1]
          BY <2>1, <3>1 DEF SetCurrentTileRow
        <5>2. tileRow + 1 \in 1 .. NumTileRows
          BY <1>3, <1>4, <3>1
        <5> QED BY <1>4, <5>1, <5>2 DEF LibraryType
      <4>5. skipped' \in BOOLEAN
        BY <4>3
      <4>6. /\ mbRow' \in 0 .. img.rows + 1 /\ line' \in 0 .. img.rows
            /\ mbRow' > 0 /\ mbRow' = line' + 1
        <5>1. PICK x \in Nat : x = img.tops[tileRow + 1]
          BY <4>1
        <5>2. mbRow' = x /\ line' = x - 1 /\ x < img.rows /\ x > 0 /\ img.rows \in Nat
          BY <1>4, <4>1, <4>2, <4>3, <5>1
        <5> QED BY <5>2
      <4> QED BY <4>4, <4>5, <4>6
    <3>2. CASE ~ (tileRow < NumTileRows)
      <4>1. UNCHANGED << mbRow, sc, line, skipped >>
        BY <2>1, <3>2
      <4>2. \/ mbRow = 0 /\ line = 0
            \/ mbRow > 0 /\ mbRow = line + 1
        BY DEF Typed, Turns
      <4> QED BY <1>4, <1>5, <4>1, <4>2
    <3> QED BY <3>1, <3>2
  <2>3. total >= infos[tileRow][band]
    BY <1>4, <1>9
  <2>4. /\ tileRow' \in 1 .. NumTileRows + 1 /\ band' \in 1 .. NumBands + 1
        /\ finished' \in BOOLEAN /\ started' \in BOOLEAN /\ pc' \in {"idle", "band", "tiles"}
        /\ Turns' /\ Arrived'
    BY <1>1, <2>1, <2>2, <2>3, LeaveTyped
  <2>5. TypeOK'
    BY <1>1, <1>4, <1>5, <2>1, <2>2, <2>4, TypeOKAfter DEF Typed
  <2> QED BY <1>7, <2>4, <2>5 DEF Typed
<1>10. CASE ~ (upper # 0 /\ total < upper) /\ ~ CanSkip
  <2>1. /\ pc' = "rows" /\ limit' = upper
        /\ UNCHANGED << tileRow, mbRow, line, sc, row, band, finished, started, skipped >>
    BY <1>10 DEF Tiles
  <2>2. TypeOK'
    BY <1>1, <1>4, <1>5, <2>1, TypeOKAfter DEF Typed
  <2>3. Turns'
    BY <1>1, <1>2, <1>6, <2>1 DEF Typed, Turns
  <2>4. Arrived'
    <3>1. Passing
      BY <1>1, <1>2 DEF Passing
    <3>2. total >= upper
      BY <1>4, <1>10
    <3> QED BY <1>1, <1>6, <2>1, <3>1, <3>2 DEF Typed, Arrived
  <2> QED BY <1>7, <2>2, <2>3, <2>4 DEF Typed
<1> QED BY <1>8, <1>9, <1>10

LEMMA RowTyped ==
  ASSUME Typed, DecodeRow
  PROVE  Typed'
<1>1. /\ pc = "rows" /\ line < img.rows /\ skipped' = FALSE
      /\ UNCHANGED << img, phase, total, tag, infos, bandEnds, atEnd, limit >>
  BY DEF DecodeRow
<1>2. PICK d \in Decodings :
        /\ DecodeNextMBRow(d, Output)
        /\ IF RowsDone(d[Len(d)][2] # "fail")
           THEN LeaveTileRow
           ELSE UNCHANGED << tileRow, band, pc, finished, started >>
  BY DEF DecodeRow
<1>3. ~ finished /\ ~ atEnd /\ started
  BY <1>1 DEF Typed, Turns
<1>4. band \in 1 .. NumBands /\ tileRow \in 1 .. NumTileRows
  BY <1>3, PassRange
<1>5. /\ sc' \in LibraryType /\ row' \in PictureType /\ shown' \in ShownType
      /\ mbRow' \in 0 .. img.rows + 1 /\ line' \in 0 .. img.rows
      /\ \/ mbRow' = 0 /\ line' = 0
         \/ mbRow' > 0 /\ mbRow' = line' + 1
  <2>1. Output \in BOOLEAN
    BY DEF Output
  <2> QED BY <1>1, <1>2, <1>4, <2>1, DecodeType DEF Typed
<1>6. /\ total \in Nat /\ total <= img.size /\ tag \in Nat /\ limit \in Nat
      /\ infos \in [1 .. NumTileRows -> [Bands(img) -> Nat]]
      /\ band \in 1 .. NumBands + 1 /\ tileRow \in 1 .. NumTileRows + 1
  BY StateType DEF Typed
<1>7. /\ started \in BOOLEAN /\ finished \in BOOLEAN /\ atEnd \in BOOLEAN
      /\ phase \in {"receiving", "finishing", "done"}
  BY DEF Typed, TypeOK
<1>8. /\ tileRow' \in 1 .. NumTileRows + 1 /\ band' \in 1 .. NumBands + 1
      /\ finished' \in BOOLEAN /\ started' \in BOOLEAN /\ pc' \in {"idle", "band", "tiles", "rows"}
      /\ Turns' /\ Arrived'
  <2>1. CASE LeaveTileRow
    <3>1. total >= infos[tileRow][band]
      BY <1>1 DEF Typed, Arrived
    <3> QED BY <1>1, <1>5, <2>1, <3>1, LeaveTyped
  <2>2. CASE UNCHANGED << tileRow, band, pc, finished, started >>
    <3>1. NumTileRows' = NumTileRows /\ NumBands' = NumBands /\ NumAvailable' = NumAvailable
      BY <1>1 DEF NumTileRows, NumBands, NumAvailable
    <3>2. Turns'
      BY <1>1, <1>3, <1>5, <2>2, <3>1 DEF Typed, Turns
    <3>3. Arrived'
      BY <1>1, <2>2, <3>1 DEF Typed, Arrived, Passing
    <3> QED BY <1>1, <1>6, <1>7, <2>2, <3>2, <3>3
  <2> QED BY <1>2, <2>1, <2>2
<1>9. TypeOK'
  BY <1>1, <1>5, <1>6, <1>7, <1>8, TypeOKAfter DEF Typed
<1>10. Limits'
  BY <1>1, LimitsAfter DEF Typed
<1> QED BY <1>8, <1>9, <1>10 DEF Typed

LEMMA AllTyped ==
  ASSUME Typed, DecodeAll
  PROVE  Typed'
<1>1. /\ pc = "all" /\ line < img.rows
      /\ UNCHANGED << img, phase, total, tag, infos, bandEnds, atEnd, skipped, tileRow, limit >>
  BY DEF DecodeAll
<1>2. PICK d \in Decodings :
        /\ DecodeNextMBRow(d, TRUE)
        /\ IF d[Len(d)][2] = "fail" \/ line' >= img.rows
           THEN band' = band + 1 /\ IF atEnd THEN pc' = "idle" /\ UNCHANGED << finished, started >>
                                    ELSE BandDecoded
           ELSE UNCHANGED << band, pc, finished, started >>
  BY DEF DecodeAll
<1>3. /\ ~ finished /\ started /\ (atEnd => phase = "finishing" /\ band = NumBands)
      /\ (phase # "receiving" => total >= tag) /\ (atEnd => total >= tag /\ limit = 0)
      /\ phase # "done" /\ ~ (phase = "receiving" /\ total < img.head)
  BY <1>1 DEF Typed, Turns
<1>4. /\ NumBands \in Nat /\ NumBands >= 1 /\ NumAvailable \in 1 .. NumBands
      /\ band \in 1 .. NumBands + 1 /\ tileRow \in 1 .. NumTileRows + 1
      /\ total \in Nat /\ total <= img.size /\ tag \in Nat /\ limit \in Nat
      /\ infos \in [1 .. NumTileRows -> [Bands(img) -> Nat]] /\ bandEnds \in [1 .. NumBands -> Nat]
  BY StateType, ImageType DEF Typed
<1>5. band \in 1 .. NumBands /\ (~ atEnd => band \in 1 .. NumAvailable)
  <2>1. CASE atEnd
    BY <1>3, <1>4, <2>1
  <2>2. CASE ~ atEnd
    BY <1>3, <2>2, PassRange
  <2> QED BY <2>1, <2>2
<1>6. /\ sc' \in LibraryType /\ row' \in PictureType /\ shown' \in ShownType
      /\ mbRow' \in 0 .. img.rows + 1 /\ line' \in 0 .. img.rows
      /\ \/ mbRow' = 0 /\ line' = 0
         \/ mbRow' > 0 /\ mbRow' = line' + 1
  BY <1>1, <1>2, <1>5, DecodeType DEF Typed
<1>7. /\ started \in BOOLEAN /\ finished \in BOOLEAN /\ atEnd \in BOOLEAN /\ skipped \in BOOLEAN
      /\ phase \in {"receiving", "finishing", "done"}
  BY DEF Typed, TypeOK
<1>8. NumTileRows' = NumTileRows /\ NumBands' = NumBands /\ NumAvailable' = NumAvailable
  BY <1>1 DEF NumTileRows, NumBands, NumAvailable
<1>9. /\ band' \in 1 .. NumBands + 1 /\ pc' \in {"idle", "band", "all"}
      /\ finished' \in BOOLEAN /\ started' \in BOOLEAN /\ Turns' /\ Arrived'
  <2>1. CASE UNCHANGED << band, pc, finished, started >>
    <3>1. tileRow' = tileRow
      BY <1>1
    <3>2. Turns'
      BY <1>1, <1>3, <1>6, <1>8, <2>1, <3>1 DEF Typed, Turns
    <3>3. Arrived'
      BY <1>1, <1>8, <2>1 DEF Typed, Arrived, Passing
    <3> QED BY <1>1, <1>4, <1>7, <2>1, <3>2, <3>3
  <2>2. CASE band' = band + 1 /\ atEnd /\ pc' = "idle" /\ UNCHANGED << finished, started >>
    <3>1. Turns'
      BY <1>1, <1>3, <1>6, <1>8, <2>2 DEF Turns
    <3>2. Arrived'
      BY <1>1, <1>3, <2>2 DEF Arrived, Passing
    <3> QED BY <1>4, <1>5, <1>7, <2>2, <3>1, <3>2
  <2>3. CASE band' = band + 1 /\ ~ atEnd /\ BandDecoded
    <3>1. CASE band' > NumAvailable
      <4>1. finished' = TRUE /\ pc' = "idle" /\ started' = started
        BY <2>3, <3>1 DEF BandDecoded
      <4>2. band = NumAvailable
        BY <1>4, <1>5, <2>3, <3>1
      <4>3. total >= bandEnds[NumAvailable]
        BY <1>1, <2>3, <4>2 DEF Typed, Arrived
      <4>4. bandEnds[NumAvailable] = img.upper
        <5>1. WellFormed(img) /\ NumAvailable \in Bands(img)
          BY <1>4, ImageType DEF Typed, TypeOK
        <5>2. bandEnds[NumAvailable] = SubbandUpperLimit(img, NumAvailable)
          BY <5>1 DEF Typed, Limits
        <5> QED BY <5>1, <5>2, Available DEF NumAvailable
      <4>5. tag <= img.upper /\ img.upper \in Nat
        <5>1. 1 \in 1 .. NumTileRows
          BY ImageType DEF Typed, TypeOK
        <5> QED BY <1>5, <5>1, InfosFacts, ImageType DEF Typed, TypeOK
      <4>6. total >= tag
        BY <1>4, <4>3, <4>4, <4>5
      <4>7. Turns'
        BY <1>1, <1>3, <1>6, <1>8, <2>3, <4>1, <4>2, <4>6 DEF Turns
      <4>8. Arrived'
        BY <4>1 DEF Arrived, Passing
      <4> QED BY <1>4, <1>5, <1>7, <2>3, <4>1, <4>7, <4>8
    <3>2. CASE ~ (band' > NumAvailable)
      <4>1. finished' = finished /\ pc' = "band" /\ started' = FALSE
        BY <2>3, <3>2 DEF BandDecoded
      <4>2. band' <= NumAvailable
        BY <1>4, <1>5, <2>3, <3>2
      <4>3. Turns'
        BY <1>1, <1>3, <1>6, <1>8, <2>3, <4>1, <4>2 DEF Turns
      <4>4. Arrived'
        BY <4>1 DEF Arrived, Passing
      <4>5. finished' \in BOOLEAN
        BY <1>7, <4>1
      <4>6. started' \in BOOLEAN
        BY <4>1
      <4>7. band' \in 1 .. NumBands + 1
        BY <1>4, <1>5, <2>3
      <4> QED BY <4>1, <4>3, <4>4, <4>5, <4>6, <4>7
    <3> QED BY <3>1, <3>2
  <2> QED BY <1>2, <2>1, <2>2, <2>3
<1>10. TypeOK'
  BY <1>1, <1>4, <1>6, <1>7, <1>9, TypeOKAfter DEF Typed
<1>11. Limits'
  BY <1>1, LimitsAfter DEF Typed
<1> QED BY <1>9, <1>10, <1>11 DEF Typed

LEMMA TypedNext == Typed /\ [Next]_vars => Typed'
<1> SUFFICES ASSUME Typed, [Next]_vars PROVE Typed'
  OBVIOUS
<1>1. CASE UNCHANGED vars
  <2>1. /\ UNCHANGED << img, phase, pc, total, tag, infos, bandEnds, atEnd, finished, band, started, skipped >>
        /\ UNCHANGED << tileRow, limit, mbRow, line, sc, row, shown >>
    BY <1>1 DEF vars, position
  <2>2. NumTileRows' = NumTileRows /\ NumBands' = NumBands /\ NumAvailable' = NumAvailable /\ MBRows' = MBRows
    BY <2>1 DEF NumTileRows, NumBands, NumAvailable, MBRows
  <2>3. TypeOK'
    BY <2>1, <2>2 DEF Typed, TypeOK
  <2>4. Turns'
    BY <2>1, <2>2 DEF Typed, Turns
  <2>5. Limits'
    BY <2>1, LimitsAfter DEF Typed
  <2>6. Arrived'
    BY <2>1, <2>2 DEF Typed, Arrived, Passing
  <2> QED BY <2>3, <2>4, <2>5, <2>6 DEF Typed
<1> QED BY <1>1, WriteTyped, FinishTyped, EndTyped, StartTyped, TilesTyped, RowTyped, AllTyped DEF Next, Terminating

(* The state stays well-typed, whatever the file holds and however it      *)
(* comes in: no row, tile row, band or limit outside the image is used.    *)
THEOREM TypeCorrect == Spec => []TypeOK
<1>1. Spec => []Typed
  BY TypedInit, TypedNext, PTL DEF Spec
<1>2. Typed => TypeOK
  BY DEF Typed
<1> QED BY <1>1, <1>2, PTL

-----------------------------------------------------------------------------
(* Macroblock rows and tile rows.                                          *)
LEMMA LastRows ==
  ASSUME img \in Images, NEW t \in 1 .. NumTileRows
  PROVE  /\ LastRow(img, t) \in Nat /\ img.tops[t] \in Nat /\ img.tops[t] < LastRow(img, t)
         /\ LastRow(img, t) <= img.rows
         /\ t < NumTileRows => t + 1 \in 1 .. NumTileRows /\ LastRow(img, t) = img.tops[t + 1]
                               /\ LastRow(img, t) < img.rows
         /\ t = NumTileRows => LastRow(img, t) = img.rows
<1>1. /\ NumTileRows \in Nat /\ img.rows \in Nat
      /\ \A r \in 1 .. NumTileRows : img.tops[r] \in Nat /\ img.tops[r] < img.rows
  BY ImageType
<1>2. CASE t = NumTileRows
  BY <1>1, <1>2 DEF LastRow, NumTileRows
<1>3. CASE t # NumTileRows
  <2>1. t + 1 \in 1 .. NumTileRows /\ t < t + 1
    BY <1>1, <1>3
  <2>2. img.tops[t] < img.tops[t + 1]
    BY <2>1, TopsApart
  <2>3. LastRow(img, t) = img.tops[t + 1]
    BY <1>3 DEF LastRow, NumTileRows
  <2>4. img.tops[t] \in Nat /\ img.tops[t + 1] \in Nat /\ img.tops[t + 1] < img.rows
    BY <1>1, <2>1
  <2> QED BY <1>1, <1>3, <2>1, <2>2, <2>3, <2>4
<1> QED BY <1>2, <1>3

LEMMA RowOf ==
  ASSUME img \in Images, NEW m \in MBRows
  PROVE  /\ m \in Nat /\ m < img.rows
         /\ TileRowOf(m) \in 1 .. NumTileRows
         /\ img.tops[TileRowOf(m)] <= m /\ m < LastRow(img, TileRowOf(m))
<1> DEFINE S == {r \in 1 .. NumTileRows : img.tops[r] <= m}
<1>1. m \in Nat /\ m < img.rows
  BY ImageType DEF MBRows
<1>2. /\ NumTileRows \in Nat /\ 1 \in 1 .. NumTileRows /\ img.tops[1] = 0
  BY ImageType, TopOfPicture
<1>3. 1 \in S /\ S \in SUBSET Nat /\ \A r \in S : r <= NumTileRows
  BY <1>1, <1>2
<1>4. Max(S) \in S /\ \A r \in S : r <= Max(S)
  <2> HIDE DEF S
  <2> QED BY <1>2, <1>3, MaxOfNats
<1>5. TileRowOf(m) = Max(S)
  BY DEF TileRowOf
<1>6. PICK t \in 1 .. NumTileRows : t = TileRowOf(m) /\ img.tops[t] <= m /\ \A r \in S : r <= t
  BY <1>4, <1>5
<1>7. m < LastRow(img, t)
  <2>1. CASE t = NumTileRows
    BY <1>1, <2>1, LastRows
  <2>2. CASE t < NumTileRows
    <3>1. t + 1 \in 1 .. NumTileRows /\ LastRow(img, t) = img.tops[t + 1] /\ LastRow(img, t) \in Nat
      BY <2>2, LastRows
    <3>2. t + 1 \notin S
      BY <1>6, <3>1
    <3> QED BY <1>1, <3>1, <3>2
  <2> QED BY <1>2, <2>1, <2>2
<1> QED BY <1>1, <1>6, <1>7

LEMMA RowIn ==
  ASSUME img \in Images, NEW m \in MBRows, NEW t \in 1 .. NumTileRows,
         img.tops[t] <= m, m < LastRow(img, t)
  PROVE  TileRowOf(m) = t
<1>1. PICK s \in 1 .. NumTileRows : s = TileRowOf(m) /\ img.tops[s] <= m /\ m < LastRow(img, s)
  BY RowOf
<1>2. m \in Nat /\ NumTileRows \in Nat
  BY RowOf, ImageType
<1>3. ASSUME NEW u \in 1 .. NumTileRows, NEW v \in 1 .. NumTileRows, u < v,
             m < LastRow(img, u), img.tops[v] <= m
      PROVE  FALSE
  <2>1. u + 1 \in 1 .. NumTileRows /\ LastRow(img, u) = img.tops[u + 1] /\ LastRow(img, u) \in Nat
    BY <1>2, <1>3, LastRows
  <2>2. img.tops[u + 1] <= img.tops[v] /\ img.tops[v] \in Nat
    <3>1. CASE u + 1 = v
      BY <2>1, <3>1
    <3>2. CASE u + 1 < v
      <4>1. img.tops[u + 1] < img.tops[v]
        BY <2>1, <3>2, TopsApart
      <4>2. img.tops[u + 1] \in Nat /\ img.tops[v] \in Nat
        BY <2>1, LastRows
      <4> QED BY <4>1, <4>2
    <3> QED BY <1>2, <1>3, <2>1, <3>1, <3>2
  <2> QED BY <1>2, <1>3, <2>1, <2>2
<1>4. ~ (s < t) /\ ~ (t < s)
  BY <1>1, <1>3
<1> QED BY <1>1, <1>2, <1>4

LEMMA FirstRow ==
  ASSUME img \in Images
  PROVE  /\ 0 \in MBRows /\ TileRowOf(0) = 1 /\ img.tops[1] = 0 /\ 1 \in 1 .. NumTileRows
         /\ \A t \in 1 .. NumTileRows : img.tops[t] \in MBRows /\ TileRowOf(img.tops[t]) = t
         /\ \A t \in 1 .. NumTileRows : t > 1 => img.tops[t] >= 1
<1>1. /\ img.tops[1] = 0 /\ 1 \in 1 .. NumTileRows /\ img.rows \in Nat
      /\ \A r \in 1 .. NumTileRows : img.tops[r] \in Nat /\ img.tops[r] < img.rows
  BY ImageType, TopOfPicture
<1>2. ASSUME NEW t \in 1 .. NumTileRows PROVE img.tops[t] \in MBRows /\ TileRowOf(img.tops[t]) = t
  <2>1. img.tops[t] \in MBRows
    BY <1>1 DEF MBRows
  <2>2. img.tops[t] <= img.tops[t] /\ img.tops[t] < LastRow(img, t)
    BY <1>1, LastRows
  <2> QED BY <2>1, <2>2, RowIn
<1>3. ASSUME NEW t \in 1 .. NumTileRows, t > 1 PROVE img.tops[t] >= 1
  <2>1. img.tops[1] < img.tops[t]
    BY <1>1, <1>3, TopsApart
  <2> QED BY <1>1, <2>1
<1>4. 0 \in MBRows /\ TileRowOf(0) = 1
  BY <1>1, <1>2
<1> QED BY <1>1, <1>2, <1>3, <1>4

-----------------------------------------------------------------------------
(* The library is about to read row m with nothing lost on the way.        *)
Ready(s, m) ==
  \/ m = 0
  \/ /\ TilePos(s.tile, m) = TileRowOf(m)
     /\ m # img.tops[TileRowOf(m)] => s.att = TileRowOf(m) /\ s.stuck = 0

LEMMA ReadyNext ==
  ASSUME img \in Images, NEW s \in LibraryType, NEW m \in MBRows, m + 1 < img.rows,
         s.tile = TileRowOf(m), s.att = TileRowOf(m), s.stuck = 0
  PROVE  Ready(s, m + 1)
<1>1. PICK t \in 1 .. NumTileRows : t = TileRowOf(m) /\ img.tops[t] <= m /\ m < LastRow(img, t)
  BY RowOf
<1>2. m \in Nat /\ img.rows \in Nat /\ NumTileRows \in Nat /\ m + 1 \in MBRows
  BY RowOf, ImageType DEF MBRows
<1>3. /\ LastRow(img, t) \in Nat /\ img.tops[t] \in Nat
      /\ t < NumTileRows => t + 1 \in 1 .. NumTileRows /\ LastRow(img, t) = img.tops[t + 1]
      /\ t = NumTileRows => LastRow(img, t) = img.rows
  BY LastRows
<1>4. CASE m + 1 < LastRow(img, t)
  <2>1. TileRowOf(m + 1) = t
    BY <1>1, <1>2, <1>3, <1>4, RowIn
  <2>2. TilePos(t, m + 1) = t
    <3>1. m + 1 # 0 /\ m + 1 > 0 /\ ~ (t < NumTileRows /\ m + 1 = img.tops[t + 1])
      BY <1>2, <1>3, <1>4
    <3> QED BY <3>1 DEF TilePos
  <2> QED BY <1>1, <2>1, <2>2 DEF Ready
<1>5. CASE ~ (m + 1 < LastRow(img, t))
  <2>1. m + 1 = LastRow(img, t) /\ t < NumTileRows
    BY <1>1, <1>2, <1>3, <1>5
  <2>2. t + 1 \in 1 .. NumTileRows /\ m + 1 = img.tops[t + 1]
    BY <1>3, <2>1
  <2>3. TileRowOf(m + 1) = t + 1
    BY <2>2, FirstRow
  <2>4. TilePos(t, m + 1) = t + 1
    <3>1. m + 1 # 0 /\ m + 1 > 0
      BY <1>2
    <3> QED BY <2>1, <2>2, <3>1 DEF TilePos
  <2> QED BY <1>1, <2>2, <2>3, <2>4 DEF Ready
<1> QED BY <1>4, <1>5

(* The packets of tile row t end where the library may still read, or one  *)
(* of them begins behind it.                                               *)
Fits(t) == \A p \in PassPackets(t) : PacketEnd(Real, t, p[1], p[2]) <= ReadLimit

Blocked(t) == \E p \in PassPackets(t) : Start(img, t, p[1], p[2]) >= Readable

LEMMA PassFacts ==
  ASSUME TypeOK, NEW t \in 1 .. NumTileRows
  PROVE  /\ PassPackets(t) # {} /\ PassPackets(t) \subseteq RowPackets(img, t)
         /\ \A p \in PassPackets(t) :
              /\ PacketEnd(Real, t, p[1], p[2]) \in Nat
              /\ PacketEnd(Real, t, p[1], p[2]) <= img.content
              /\ Start(img, t, p[1], p[2]) \in Nat
              /\ Start(img, t, p[1], p[2]) < PacketEnd(Real, t, p[1], p[2])
         /\ TrueEnd(t) \in Nat
         /\ Fits(t) => TrueEnd(t) <= ReadLimit
<1>1. WellFormed(img) /\ t \in TileRows(img) /\ img.content \in Nat
  BY ImageType DEF TypeOK
<1>2. PassPackets(t) \subseteq RowPackets(img, t)
  BY DEF PassPackets
<1>3. PassPackets(t) # {}
  <2>1. PICK p \in RowPackets(img, t) : p[2] = 1
    BY <1>1 DEF WellFormed
  <2>2. 1 <= band
    BY StateType, ImageType
  <2> QED BY <2>1, <2>2 DEF PassPackets
<1> DEFINE End(p) == PacketEnd(Real, t, p[1], p[2])
           S == {End(p) : p \in PassPackets(t)}
<1>4. ASSUME NEW p \in PassPackets(t)
      PROVE  /\ End(p) \in Nat /\ End(p) <= img.content /\ Start(img, t, p[1], p[2]) \in Nat
             /\ Start(img, t, p[1], p[2]) < End(p)
  <2>1. p \in RowPackets(img, t)
    BY <1>2
  <2>2. Real = RealOf(img)
    BY DEF Real, RealOf
  <2> QED BY <1>1, <2>1, <2>2, EndFacts, PacketFacts
<1>5. S \in SUBSET Nat /\ S # {} /\ \A x \in S : x <= img.content
  BY <1>3, <1>4
<1>6. Max(S) \in S
  <2> HIDE DEF S
  <2> QED BY <1>1, <1>5, MaxOfNats
<1>7. TrueEnd(t) = Max(S)
  BY DEF TrueEnd
<1>8. TrueEnd(t) \in S
  BY <1>6, <1>7
<1>9. Fits(t) => TrueEnd(t) <= ReadLimit
  BY <1>8 DEF Fits
<1>10. TrueEnd(t) \in Nat
  BY <1>5, <1>8
<1> QED BY <1>2, <1>3, <1>4, <1>9, <1>10

LEMMA GoodRead ==
  ASSUME TypeOK, total >= ReadLimit, NEW s \in LibraryType, NEW m \in MBRows, Ready(s, m),
         Fits(TileRowOf(m)), NEW r \in ReadRow(s, m)
  PROVE  r[2] = "good" /\ r[1].tile = TileRowOf(m) /\ r[1].att = TileRowOf(m) /\ r[1].stuck = 0
<1>0. img \in Images
  BY DEF TypeOK
<1>1. PICK t \in 1 .. NumTileRows : t = TileRowOf(m)
  BY <1>0, RowOf
<1>2. TilePos(s.tile, m) = t /\ (m # img.tops[t] => s.att = t /\ s.stuck = 0)
  <2>1. CASE m = 0
    <3>1. t = 1 /\ img.tops[1] = 0
      BY <1>0, <1>1, <2>1, FirstRow
    <3> QED BY <2>1, <3>1 DEF TilePos
  <2>2. CASE m # 0
    BY <1>1, <2>2 DEF Ready
  <2> QED BY <2>1, <2>2
<1>3. Readable = ReadLimit /\ ReadLimit \in Nat /\ total \in Nat
  BY ReadableType, StateType
<1>4. TrueEnd(t) <= Readable
  BY <1>1, <1>3, PassFacts
<1>5. CanAttach(t)
  <2>1. ASSUME NEW p \in PassPackets(t) PROVE Start(img, t, p[1], p[2]) < Readable
    <3>1. PacketEnd(Real, t, p[1], p[2]) <= ReadLimit
      BY <1>1 DEF Fits
    <3>2. /\ PacketEnd(Real, t, p[1], p[2]) \in Nat /\ Start(img, t, p[1], p[2]) \in Nat
          /\ Start(img, t, p[1], p[2]) < PacketEnd(Real, t, p[1], p[2])
      BY PassFacts
    <3> QED BY <1>3, <3>1, <3>2
  <2> QED BY <2>1 DEF CanAttach
<1> DEFINE a == Attached(s, t, m)
<1>6. a.tile = t /\ a.att = t /\ a.stuck = 0
  <2>1. CASE m = img.tops[t]
    BY <2>1 DEF Attached
  <2>2. CASE m # img.tops[t]
    BY <1>2, <2>2 DEF Attached, LibraryType
  <2> QED BY <2>1, <2>2
<1> HIDE DEF a
<1>7. Outcomes(a, t, m) = {"good"}
  BY <1>1, <1>4, <1>5, <1>6 DEF Outcomes
<1>8. m # img.rows
  BY <1>0, RowOf, ImageType
<1>9. r = << a, "good" >>
  BY <1>2, <1>7, <1>8 DEF ReadRow, a
<1> QED BY <1>1, <1>6, <1>9

LEMMA FailRead ==
  ASSUME TypeOK, NEW s \in LibraryType, NEW m \in MBRows, Ready(s, m),
         m = img.tops[TileRowOf(m)], Blocked(TileRowOf(m)), NEW r \in ReadRow(s, m)
  PROVE  r[2] = "fail" /\ r[1].tile = TileRowOf(m)
<1>0. img \in Images
  BY DEF TypeOK
<1>1. PICK t \in 1 .. NumTileRows : t = TileRowOf(m)
  BY <1>0, RowOf
<1>2. TilePos(s.tile, m) = t
  <2>1. CASE m = 0
    <3>1. t = 1
      BY <1>0, <1>1, <2>1, FirstRow
    <3> QED BY <2>1, <3>1 DEF TilePos
  <2>2. CASE m # 0
    BY <1>1, <2>2 DEF Ready
  <2> QED BY <2>1, <2>2
<1>3. ~ CanAttach(t)
  <2>1. PICK p \in PassPackets(t) : Start(img, t, p[1], p[2]) >= Readable
    BY <1>1 DEF Blocked
  <2>2. Start(img, t, p[1], p[2]) \in Nat /\ Readable \in Nat
    BY PassFacts, ReadableType
  <2>3. ~ (Start(img, t, p[1], p[2]) < Readable)
    BY <2>1, <2>2
  <2> QED BY <2>3 DEF CanAttach
<1> DEFINE a == Attached(s, t, m)
<1>4. a = [tile |-> t, att |-> t, stuck |-> 0]
  BY <1>1 DEF Attached
<1> HIDE DEF a
<1>5. Outcomes(a, t, m) = {"fail"}
  BY <1>1, <1>3 DEF Outcomes
<1>6. m # img.rows
  BY <1>0, RowOf, ImageType
<1>7. r = << [a EXCEPT !.stuck = Readable], "fail" >>
  BY <1>2, <1>5, <1>6 DEF ReadRow, a
<1> QED BY <1>1, <1>4, <1>7

(* The rows the next call of JXR_DecodeNextMBRow reads.                    *)
Coming == {m \in MBRows : m = mbRow \/ (mbRow = 0 /\ m = 1)}

(* They are read well, and the row above the last one comes out if o.      *)
Comes(o) ==
  /\ line' = line + 1 /\ mbRow' = line + 2
  /\ \A m \in MBRows : row'[m] = IF m \in Coming THEN "good" ELSE row[m]
  /\ \A m \in MBRows : m < mbRow' <=> m < mbRow \/ m \in Coming
  /\ shown' = IF o THEN [shown EXCEPT ![line] =
                           IF \A m \in Neighbours(line) : row'[m] = "good" THEN band ELSE -1]
              ELSE shown
  /\ mbRow' < img.rows => Ready(sc', mbRow')
  /\ line + 1 < img.rows => sc'.tile = TileRowOf(line + 1)

(* They do if their packets can be read.                                   *)
LEMMA GoodDecode ==
  ASSUME TypeOK, Turns, line < img.rows, total >= ReadLimit, band \in 1 .. NumBands,
         mbRow < img.rows => Ready(sc, mbRow), \A m \in Coming : Fits(TileRowOf(m)),
         NEW d \in Decodings, NEW o \in BOOLEAN, DecodeNextMBRow(d, o)
  PROVE  d[Len(d)][2] # "fail" /\ Comes(o)
<1>0. /\ img \in Images /\ sc \in LibraryType /\ img.rows \in Nat /\ img.rows >= 1 /\ line \in Nat
      /\ \/ mbRow = 0 /\ line = 0
         \/ mbRow > 0 /\ mbRow = line + 1
      /\ MBRows = 0 .. img.rows - 1
  BY SMTT(30), StateType, ImageType DEF Turns, MBRows
<1>1. /\ \/ Len(d) = 1 /\ d[1] \in ReadRow(sc, mbRow) /\ (mbRow = 0 => d[1][2] = "fail")
         \/ /\ Len(d) = 2 /\ mbRow = 0
            /\ d[1] \in ReadRow(sc, 0) /\ d[1][2] # "fail" /\ d[2] \in ReadRow(d[1][1], 1)
      /\ \A k \in 1 .. Len(d) : d[k][1] \in LibraryType /\ d[k][2] \in ReadType
      /\ mbRow \in 0 .. img.rows /\ mbRow + Len(d) <= img.rows + 1
  BY DecodingsType
<1>2. /\ sc' = d[Len(d)][1]
      /\ row' = [m \in MBRows |-> IF m \in mbRow .. (mbRow + Len(d)) - 1 /\ d[m - mbRow + 1][2] # "fail"
                                  THEN d[m - mbRow + 1][2] ELSE row[m]]
      /\ mbRow' = IF d[Len(d)][2] # "fail" THEN mbRow + Len(d) ELSE mbRow
      /\ line' = IF d[Len(d)][2] # "fail" THEN line + 1 ELSE line
      /\ shown' = IF d[Len(d)][2] # "fail" /\ o
                  THEN [shown EXCEPT ![line] =
                          IF line = (mbRow + Len(d)) - 2 /\ \A m \in Neighbours(line) : row'[m] = "good"
                          THEN band ELSE -1]
                  ELSE shown
  BY DEF DecodeNextMBRow
<1>3. CASE mbRow = 0
  <2>1. 0 \in Coming /\ 0 \in MBRows
    BY <1>0, <1>3 DEF Coming
  <2>2. d[1] \in ReadRow(sc, 0)
    BY <1>1, <1>3
  <2>3. d[1][2] = "good" /\ d[1][1].tile = TileRowOf(0) /\ d[1][1].att = TileRowOf(0) /\ d[1][1].stuck = 0
    <3>1. Ready(sc, 0)
      BY DEF Ready
    <3> QED BY <1>0, <2>1, <2>2, <3>1, GoodRead
  <2>4. Len(d) = 2 /\ d[2] \in ReadRow(d[1][1], 1) /\ d[1][1] \in LibraryType
    <3>1. ~ (Len(d) = 1 /\ d[1] \in ReadRow(sc, mbRow) /\ (mbRow = 0 => d[1][2] = "fail"))
      BY <1>3, <2>3
    <3>2. Len(d) = 2 /\ d[2] \in ReadRow(d[1][1], 1)
      BY <1>1, <3>1
    <3>3. 1 \in 1 .. Len(d)
      BY <3>2
    <3> QED BY <1>1, <3>2, <3>3
  <2>5. d[2][2] = "good" /\ (1 < img.rows => d[2][1].tile = TileRowOf(1) /\ d[2][1].att = TileRowOf(1) /\ d[2][1].stuck = 0)
    <3>1. CASE 1 < img.rows
      <4>1. 1 \in Coming /\ 1 \in MBRows
        BY <1>0, <1>3, <3>1 DEF Coming
      <4>2. Ready(d[1][1], 0 + 1)
        BY <1>0, <2>1, <2>3, <2>4, <3>1, ReadyNext
      <4>3. Ready(d[1][1], 1)
        BY <4>2
      <4> QED BY <2>4, <3>1, <4>1, <4>3, GoodRead
    <3>2. CASE ~ (1 < img.rows)
      <4>1. 1 = img.rows /\ 1 \in 0 .. img.rows
        BY <1>0, <3>2
      <4>2. d[2][2] = "good"
        BY <2>4, <4>1, ReadRowType
      <4> QED BY <3>2, <4>2
    <3> QED BY <3>1, <3>2
  <2>6. d[Len(d)][2] # "fail" /\ line = 0 /\ line' = 1 /\ mbRow' = 2 /\ sc' = d[2][1] /\ line = (mbRow + Len(d)) - 2
    BY <1>0, <1>2, <1>3, <2>4, <2>5
  <2>7. \A m \in MBRows : m \in Coming <=> m \in 0 .. 1
    BY <1>0, <1>3 DEF Coming
  <2>8. \A m \in MBRows : row'[m] = IF m \in Coming THEN "good" ELSE row[m]
    <3> TAKE m \in MBRows
    <3>1. row'[m] = IF m \in 0 .. 1 /\ d[m + 1][2] # "fail" THEN d[m + 1][2] ELSE row[m]
      <4>1. m - mbRow + 1 = m + 1 /\ mbRow .. (mbRow + Len(d)) - 1 = 0 .. 1
        BY <1>0, <1>3, <2>4
      <4> QED BY <1>2, <4>1
    <3>2. m \in 0 .. 1 => m + 1 = 1 \/ m + 1 = 2
      BY <1>0
    <3>3. m \in 0 .. 1 => d[m + 1][2] = "good"
      BY <2>3, <2>5, <3>2
    <3> QED BY <2>7, <3>1, <3>3
  <2>9. \A m \in MBRows : m < mbRow' <=> m < mbRow \/ m \in Coming
    BY <1>0, <1>3, <2>6, <2>7
  <2>10. mbRow' < img.rows => Ready(sc', mbRow')
    <3> SUFFICES ASSUME 2 < img.rows PROVE Ready(sc', 2)
      BY <2>6
    <3>1. 1 \in MBRows /\ 1 + 1 < img.rows /\ 1 < img.rows /\ d[2][1] \in LibraryType
      BY <1>0, <1>1, <2>4
    <3>2. Ready(d[2][1], 1 + 1)
      BY <1>0, <2>5, <3>1, ReadyNext
    <3>3. 1 + 1 = 2
      OBVIOUS
    <3> QED BY <2>6, <3>2, <3>3
  <2>11. shown' = IF o THEN [shown EXCEPT ![line] =
                              IF \A m \in Neighbours(line) : row'[m] = "good" THEN band ELSE -1]
                  ELSE shown
    BY <1>2, <2>6
  <2>12. line + 1 < img.rows => sc'.tile = TileRowOf(line + 1)
    BY <2>5, <2>6
  <2>13. line' = line + 1 /\ mbRow' = line + 2
    BY <2>6
  <2> QED BY <2>6, <2>8, <2>9, <2>10, <2>11, <2>12, <2>13 DEF Comes
<1>4. CASE mbRow # 0
  <2>1. Len(d) = 1 /\ d[1] \in ReadRow(sc, mbRow) /\ mbRow = line + 1
    BY <1>0, <1>1, <1>4
  <2>2. /\ d[1][2] = "good"
        /\ mbRow < img.rows => d[1][1].tile = TileRowOf(mbRow) /\ d[1][1].att = TileRowOf(mbRow) /\ d[1][1].stuck = 0
    <3>1. CASE mbRow < img.rows
      <4>1. mbRow \in Coming /\ mbRow \in MBRows
        BY <1>0, <1>1, <3>1 DEF Coming
      <4> QED BY <1>0, <2>1, <3>1, <4>1, GoodRead
    <3>2. CASE ~ (mbRow < img.rows)
      <4>1. mbRow = img.rows
        BY <1>0, <1>1, <3>2
      <4>2. d[1][2] = "good"
        BY <1>0, <1>1, <2>1, <4>1, ReadRowType
      <4> QED BY <3>2, <4>2
    <3> QED BY <3>1, <3>2
  <2>3. /\ d[Len(d)][2] # "fail" /\ line' = line + 1 /\ mbRow' = line + 2 /\ sc' = d[1][1]
        /\ line = (mbRow + Len(d)) - 2
    BY <1>0, <1>2, <2>1, <2>2
  <2>4. \A m \in MBRows : m \in Coming <=> m = mbRow
    BY <1>4 DEF Coming
  <2>5. \A m \in MBRows : row'[m] = IF m \in Coming THEN "good" ELSE row[m]
    <3> TAKE m \in MBRows
    <3>1. m \in mbRow .. (mbRow + Len(d)) - 1 <=> m = mbRow
      BY <1>0, <2>1
    <3>2. m = mbRow => m - mbRow + 1 = 1
      BY <1>0
    <3> QED BY <1>2, <2>2, <2>4, <3>1, <3>2
  <2>6. \A m \in MBRows : m < mbRow' <=> m < mbRow \/ m \in Coming
    BY <1>0, <2>1, <2>3, <2>4
  <2>7. mbRow' < img.rows => Ready(sc', mbRow')
    <3> SUFFICES ASSUME line + 2 < img.rows PROVE Ready(sc', line + 2)
      BY <2>3
    <3>1. mbRow \in MBRows /\ mbRow + 1 < img.rows /\ mbRow < img.rows /\ d[1][1] \in LibraryType /\ mbRow + 1 = line + 2
      BY <1>0, <1>1, <2>1
    <3>2. Ready(d[1][1], mbRow + 1)
      BY <1>0, <2>2, <3>1, ReadyNext
    <3> QED BY <2>3, <3>1, <3>2
  <2>8. shown' = IF o THEN [shown EXCEPT ![line] =
                             IF \A m \in Neighbours(line) : row'[m] = "good" THEN band ELSE -1]
                 ELSE shown
    BY <1>2, <2>3
  <2>9. line + 1 < img.rows => sc'.tile = TileRowOf(line + 1)
    BY <2>1, <2>2, <2>3
  <2> QED BY <2>3, <2>5, <2>6, <2>7, <2>8, <2>9 DEF Comes
<1> QED BY <1>3, <1>4

(* If a tile row that begins there has a packet behind the limit, nothing  *)
(* comes out.                                                              *)
LEMMA FailDecode ==
  ASSUME TypeOK, Turns, line < img.rows, total >= ReadLimit,
         mbRow < img.rows => Ready(sc, mbRow),
         NEW m \in Coming, m # 0, m = img.tops[TileRowOf(m)], Blocked(TileRowOf(m)),
         \A k \in Coming : k < m => Fits(TileRowOf(k)),
         NEW d \in Decodings, NEW o \in BOOLEAN, DecodeNextMBRow(d, o)
  PROVE  /\ d[Len(d)][2] = "fail" /\ line' = line /\ mbRow' = mbRow /\ shown' = shown
         /\ \A k \in MBRows : k < mbRow => row'[k] = row[k]
         /\ Ready(sc', mbRow) /\ sc'.tile = TileRowOf(m)
<1>0. /\ img \in Images /\ sc \in LibraryType /\ img.rows \in Nat /\ img.rows >= 1 /\ mbRow \in Nat
      /\ m \in MBRows /\ m \in Nat /\ m < img.rows /\ MBRows = 0 .. img.rows - 1
  BY SMTT(30), StateType, ImageType, RowOf DEF Coming, MBRows
<1>1. /\ \/ Len(d) = 1 /\ d[1] \in ReadRow(sc, mbRow) /\ (mbRow = 0 => d[1][2] = "fail")
         \/ /\ Len(d) = 2 /\ mbRow = 0
            /\ d[1] \in ReadRow(sc, 0) /\ d[1][2] # "fail" /\ d[2] \in ReadRow(d[1][1], 1)
      /\ \A k \in 1 .. Len(d) : d[k][1] \in LibraryType /\ d[k][2] \in ReadType
  BY DecodingsType
<1>2. /\ sc' = d[Len(d)][1]
      /\ row' = [k \in MBRows |-> IF k \in mbRow .. (mbRow + Len(d)) - 1 /\ d[k - mbRow + 1][2] # "fail"
                                  THEN d[k - mbRow + 1][2] ELSE row[k]]
      /\ d[Len(d)][2] = "fail" => mbRow' = mbRow /\ line' = line /\ shown' = shown
  BY DEF DecodeNextMBRow
<1>3. d[Len(d)][2] = "fail" /\ d[Len(d)][1].tile = TileRowOf(m)
  <2>1. CASE mbRow = 0
    <3>1. m = 1 /\ 0 \in Coming /\ 0 \in MBRows /\ 0 < m
      BY <1>0, <2>1 DEF Coming
    <3>2. d[1] \in ReadRow(sc, 0) /\ Ready(sc, 0)
      BY <1>1, <2>1 DEF Ready
    <3>3. d[1][2] = "good" /\ d[1][1].tile = TileRowOf(0) /\ d[1][1].att = TileRowOf(0) /\ d[1][1].stuck = 0
      BY <1>0, <3>1, <3>2, GoodRead
    <3>4. Len(d) = 2 /\ d[2] \in ReadRow(d[1][1], 1) /\ d[1][1] \in LibraryType
      <4>1. ~ (Len(d) = 1 /\ d[1] \in ReadRow(sc, mbRow) /\ (mbRow = 0 => d[1][2] = "fail"))
        BY <2>1, <3>3
      <4>2. Len(d) = 2 /\ d[2] \in ReadRow(d[1][1], 1)
        BY <1>1, <4>1
      <4>3. 1 \in 1 .. Len(d)
        BY <4>2
      <4> QED BY <1>1, <4>2, <4>3
    <3>5. Ready(d[1][1], 0 + 1)
      BY <1>0, <3>1, <3>3, <3>4, ReadyNext
    <3>6. Ready(d[1][1], 1)
      BY <3>5
    <3>7. d[2][2] = "fail" /\ d[2][1].tile = TileRowOf(m)
      BY <1>0, <3>1, <3>4, <3>6, FailRead
    <3> QED BY <3>4, <3>7
  <2>2. CASE mbRow # 0
    <3>1. m = mbRow /\ Ready(sc, m)
      BY <1>0, <2>2 DEF Coming
    <3>2. Len(d) = 1 /\ d[1] \in ReadRow(sc, m)
      BY <1>1, <2>2, <3>1
    <3>3. d[1][2] = "fail" /\ d[1][1].tile = TileRowOf(m)
      BY <1>0, <3>1, <3>2, FailRead
    <3> QED BY <3>2, <3>3
  <2> QED BY <2>1, <2>2
<1>4. \A k \in MBRows : k < mbRow => row'[k] = row[k]
  <2> TAKE k \in MBRows
  <2>1. k < mbRow => k \notin mbRow .. (mbRow + Len(d)) - 1
    BY <1>0
  <2> QED BY <1>2, <2>1
<1>5. Ready(sc', mbRow)
  <2>1. CASE mbRow = 0
    BY <2>1 DEF Ready
  <2>2. CASE mbRow # 0
    <3>1. m = mbRow
      BY <2>2 DEF Coming
    <3>2. PICK t \in 1 .. NumTileRows : t = TileRowOf(m) /\ m = img.tops[t]
      BY <1>0, RowOf
    <3>3. ~ (t < NumTileRows /\ m = img.tops[t + 1])
      <4> SUFFICES ASSUME t < NumTileRows PROVE m # img.tops[t + 1]
        OBVIOUS
      <4>1. img.tops[t] < LastRow(img, t) /\ LastRow(img, t) = img.tops[t + 1] /\ LastRow(img, t) \in Nat
        BY <1>0, LastRows
      <4> QED BY <1>0, <3>2, <4>1
    <3>4. TilePos(t, m) = t
      BY <1>0, <3>3 DEF TilePos
    <3> QED BY <1>2, <1>3, <3>1, <3>2, <3>4 DEF Ready
  <2> QED BY <2>1, <2>2
<1> QED BY <1>2, <1>3, <1>4, <1>5

-----------------------------------------------------------------------------
(* A complete file.                                                        *)

(* The pass has nothing to add to tile row t.                              *)
Skips(t) == ~ img.overlap /\ ~ HasBand(img, t, band)

LEMMA TagCovers ==
  ASSUME TypeOK, Limits, Complete
  PROVE  img.content <= tag
BY ImageType DEF Limits, Complete, TypeOK

(* Of a tile row that is being decoded everything can be read, and of the  *)
(* next one unless it has the band itself.                                 *)
LEMMA RowsFit ==
  ASSUME Typed, Complete, Seamless(img), pc = "rows", ~ Skips(tileRow)
  PROVE  /\ total >= ReadLimit
         /\ \A t \in 1 .. tileRow : Fits(t)
         /\ tileRow < NumTileRows /\ ~ HasBand(img, tileRow + 1, band) => Fits(tileRow + 1)
         /\ tileRow < NumTileRows /\ HasBand(img, tileRow + 1, band) => Blocked(tileRow + 1)
<1>1. ~ finished /\ ~ atEnd /\ started
  BY DEF Typed, Turns
<1>2. /\ band \in 1 .. NumAvailable /\ band \in 1 .. NumBands /\ tileRow \in 1 .. NumTileRows
  BY <1>1, PassRange
<1>3. /\ WellFormed(img) /\ TileRows(img) = 1 .. NumTileRows /\ NumTileRows \in Nat
      /\ Bands(img) = 1 .. NumBands /\ total \in Nat /\ tag \in Nat /\ limit \in Nat /\ img.content \in Nat
      /\ NumAvailable \in 1 .. NumBands /\ NumBands \in Nat
  BY StateType, ImageType DEF Typed
<1>4. img.content <= tag
  BY TagCovers DEF Typed
<1>5. limit = infos[tileRow][band] /\ total >= infos[tileRow][band]
  BY DEF Typed, Arrived
<1>6. /\ infos[tileRow][band] \in Nat /\ infos[tileRow][band] <= tag
      /\ infos[tileRow][band] = 0 <=> ~ HasBand(img, tileRow, band)
      /\ HasBand(img, tileRow, band) =>
           infos[tileRow][band] = BandUpperLimit(img, tileRow, band) \/ infos[tileRow][band] = tag
      /\ infos[tileRow][band] <= BandUpperLimit(img, tileRow, band)
      /\ BandUpperLimit(img, tileRow, band) \in Nat
  BY <1>2, InfosFacts DEF Typed
<1>7. /\ ReadLimit = IF limit = 0 THEN tag ELSE IF tag <= limit THEN tag ELSE limit
      /\ Readable = IF ReadLimit <= total THEN ReadLimit ELSE total
      /\ ReadLimit \in Nat
  BY ReadableType DEF Typed
<1>8. \A t \in 1 .. NumTileRows : \A p : p \in PassPackets(t) =>
        /\ p \in RowPackets(img, t) /\ p[2] <= band /\ p[2] \in Nat
        /\ PacketEnd(Real, t, p[1], p[2]) \in Nat /\ PacketEnd(Real, t, p[1], p[2]) <= img.content
  <2> TAKE t \in 1 .. NumTileRows
  <2> TAKE p
  <2> HAVE p \in PassPackets(t)
  <2>1. p \in RowPackets(img, t) /\ p[2] <= band
    BY DEF PassPackets
  <2>2. p[2] \in Bands(img)
    BY <1>3, <2>1, PacketFacts
  <2> QED BY SMTT(30), <1>3, <2>1, <2>2, PassFacts DEF Typed
<1>9. CASE HasBand(img, tileRow, band)
  <2>1. ReadLimit = limit /\ limit <= total /\ Readable = limit
    BY <1>3, <1>5, <1>6, <1>7, <1>9
  <2>2. \A t \in 1 .. NumTileRows : \A p : p \in PassPackets(t) /\ (p[2] < band \/ t <= tileRow) =>
          PacketEnd(Real, t, p[1], p[2]) <= limit
    <3> TAKE t \in 1 .. NumTileRows
    <3> TAKE p
    <3> HAVE p \in PassPackets(t) /\ (p[2] < band \/ t <= tileRow)
    <3>1. p \in RowPackets(img, t) /\ (p[2] < band \/ (p[2] = band /\ t <= tileRow))
      BY <1>2, <1>8
    <3>2. PacketEnd(RealOf(img), t, p[1], p[2]) <= BandUpperLimit(img, tileRow, band)
      BY <1>2, <1>3, <1>9, <3>1, BandLimits
    <3>3. PacketEnd(Real, t, p[1], p[2]) <= BandUpperLimit(img, tileRow, band)
      BY <3>2 DEF Real, RealOf
    <3>4. PacketEnd(Real, t, p[1], p[2]) \in Nat /\ PacketEnd(Real, t, p[1], p[2]) <= img.content
      BY <1>8
    <3> QED BY <1>3, <1>4, <1>5, <1>6, <1>9, <3>3, <3>4
  <2>3. \A t \in 1 .. tileRow : Fits(t)
    <3> TAKE t \in 1 .. tileRow
    <3>1. t \in 1 .. NumTileRows /\ t <= tileRow
      BY <1>2, <1>3
    <3> QED BY <2>1, <2>2, <3>1 DEF Fits
  <2>4. ASSUME tileRow < NumTileRows, ~ HasBand(img, tileRow + 1, band) PROVE Fits(tileRow + 1)
    <3>1. tileRow + 1 \in 1 .. NumTileRows
      BY <1>2, <1>3, <2>4
    <3>2. \A p \in PassPackets(tileRow + 1) : p[2] < band
      <4> TAKE p \in PassPackets(tileRow + 1)
      <4>1. p \in RowPackets(img, tileRow + 1) /\ p[2] <= band /\ p[2] \in Nat
        BY <1>8, <3>1
      <4>2. p[2] # band
        BY <1>2, <1>3, <2>4, <3>1, <4>1, LowerFacts
      <4> QED BY <1>2, <4>1, <4>2
    <3> QED BY <2>1, <2>2, <3>1, <3>2 DEF Fits
  <2>5. ASSUME tileRow < NumTileRows, HasBand(img, tileRow + 1, band) PROVE Blocked(tileRow + 1)
    <3>1. tileRow + 1 \in TileRows(img) /\ tileRow \in TileRows(img) /\ band \in Bands(img)
      BY <1>2, <1>3, <2>5
    <3>2. BandUpperLimit(img, tileRow, band) = LowerLimit(img, tileRow + 1, band)
      BY <1>3, <1>9, <2>5, <3>1, UpperFacts
    <3>3. PICK p \in RowPackets(img, tileRow + 1) :
            p[2] = band /\ LowerLimit(img, tileRow + 1, band) = Start(img, tileRow + 1, p[1], p[2])
      BY <1>3, <2>5, <3>1, LowerFacts
    <3>4. p \in PassPackets(tileRow + 1)
      BY <1>2, <3>3 DEF PassPackets
    <3>5. Start(img, tileRow + 1, p[1], p[2]) >= Readable
      BY <1>5, <1>6, <2>1, <3>2, <3>3
    <3> QED BY <3>4, <3>5 DEF Blocked
  <2> QED BY <2>1, <2>3, <2>4, <2>5
<1>10. CASE ~ HasBand(img, tileRow, band)
  <2>1. tileRow = NumTileRows /\ band = NumAvailable
    BY <1>2, <1>3, <1>10 DEF Skips, Seamless, NumTileRows, NumAvailable
  <2>2. \A r \in 1 .. NumTileRows : total >= infos[r][NumAvailable]
    <3> TAKE r \in 1 .. NumTileRows
    <3>1. Passing
      BY <1>1 DEF Passing
    <3>2. CASE r < tileRow
      BY <2>1, <3>1, <3>2 DEF Typed, Arrived
    <3>3. CASE ~ (r < tileRow)
      <4>1. r = tileRow
        BY <1>3, <2>1, <3>3
      <4> QED BY <1>5, <2>1, <4>1
    <3> QED BY <3>2, <3>3
  <2>3. total >= tag
    BY <2>2, AllArrived DEF Typed
  <2>4. ReadLimit = tag
    BY <1>5, <1>6, <1>7, <1>10
  <2>5. \A t \in 1 .. tileRow : Fits(t)
    <3> TAKE t \in 1 .. tileRow
    <3>1. ASSUME NEW p \in PassPackets(t) PROVE PacketEnd(Real, t, p[1], p[2]) <= ReadLimit
      <4>1. PacketEnd(Real, t, p[1], p[2]) \in Nat /\ PacketEnd(Real, t, p[1], p[2]) <= img.content
        BY <1>8, <2>1
      <4> QED BY <1>3, <1>4, <2>4, <4>1
    <3> QED BY <3>1 DEF Fits
  <2>6. ~ (tileRow < NumTileRows)
    BY <1>3, <2>1
  <2> QED BY <2>3, <2>4, <2>5, <2>6
<1> QED BY <1>9, <1>10

(* A band that is decoded at one go can be read as a whole.                *)
LEMMA AllFit ==
  ASSUME Typed, Complete, pc = "all"
  PROVE  total >= ReadLimit /\ \A t \in 1 .. NumTileRows : Fits(t)
<1>1. /\ WellFormed(img) /\ TileRows(img) = 1 .. NumTileRows /\ NumTileRows \in Nat
      /\ Bands(img) = 1 .. NumBands /\ total \in Nat /\ tag \in Nat /\ limit \in Nat /\ img.content \in Nat
      /\ NumAvailable \in 1 .. NumBands /\ NumBands \in Nat /\ bandEnds \in [1 .. NumBands -> Nat]
  BY StateType, ImageType DEF Typed
<1>2. img.content <= tag
  BY TagCovers DEF Typed
<1>3. ReadLimit = IF limit = 0 THEN tag ELSE IF tag <= limit THEN tag ELSE limit
  BY ReadableType DEF Typed
<1>4. \A t \in 1 .. NumTileRows : \A p : p \in PassPackets(t) =>
        /\ p \in RowPackets(img, t) /\ p[2] <= band /\ p[2] \in Nat
        /\ PacketEnd(Real, t, p[1], p[2]) \in Nat /\ PacketEnd(Real, t, p[1], p[2]) <= img.content
  <2> TAKE t \in 1 .. NumTileRows
  <2> TAKE p
  <2> HAVE p \in PassPackets(t)
  <2>1. p \in RowPackets(img, t) /\ p[2] <= band
    BY DEF PassPackets
  <2>2. p[2] \in Bands(img)
    BY <1>1, <2>1, PacketFacts
  <2> QED BY SMTT(30), <1>1, <2>1, <2>2, PassFacts DEF Typed
<1>5. CASE atEnd
  <2>1. total >= tag /\ limit = 0
    BY <1>5 DEF Typed, Turns
  <2>2. ReadLimit = tag
    BY <1>3, <2>1
  <2>3. ASSUME NEW t \in 1 .. NumTileRows, NEW p \in PassPackets(t)
        PROVE  PacketEnd(Real, t, p[1], p[2]) <= ReadLimit
    <3>1. PacketEnd(Real, t, p[1], p[2]) \in Nat /\ PacketEnd(Real, t, p[1], p[2]) <= img.content
      BY <1>4
    <3> QED BY <1>1, <1>2, <2>2, <3>1
  <2> QED BY <2>1, <2>2, <2>3 DEF Fits
<1>6. CASE ~ atEnd
  <2>1. bandEnds[band] # 0 /\ total >= bandEnds[band] /\ limit = bandEnds[band]
    BY <1>6 DEF Typed, Arrived
  <2>2. band \in 1 .. NumBands
    <3>1. ~ finished
      BY DEF Typed, Turns
    <3> QED BY <1>6, <3>1, PassRange
  <2>3. bandEnds[band] = SubbandUpperLimit(img, band) /\ band \in Bands(img)
    BY <1>1, <2>2 DEF Typed, Limits
  <2>4. PICK s \in TileRows(img) : /\ HasBand(img, s, band) /\ limit = BandUpperLimit(img, s, band)
                                   /\ \A r \in TileRows(img) : HasBand(img, r, band) => r <= s
    BY <1>1, <2>1, <2>3, BandEnds
  <2>5. total >= ReadLimit
    BY <1>1, <1>3, <2>1
  <2>6. ASSUME NEW t \in 1 .. NumTileRows, NEW p \in PassPackets(t)
        PROVE  PacketEnd(Real, t, p[1], p[2]) <= ReadLimit
    <3>1. /\ p \in RowPackets(img, t) /\ p[2] <= band /\ p[2] \in Nat
          /\ PacketEnd(Real, t, p[1], p[2]) \in Nat /\ PacketEnd(Real, t, p[1], p[2]) <= img.content
      BY <1>4
    <3>2. p[2] < band \/ (p[2] = band /\ t <= s)
      <4>1. CASE p[2] = band
        BY <1>1, <2>3, <2>4, <3>1, <4>1, LowerFacts
      <4>2. CASE p[2] # band
        BY <2>2, <3>1, <4>2
      <4> QED BY <4>1, <4>2
    <3>3. PacketEnd(RealOf(img), t, p[1], p[2]) <= BandUpperLimit(img, s, band)
      BY <1>1, <2>3, <2>4, <3>1, <3>2, BandLimits
    <3>4. PacketEnd(Real, t, p[1], p[2]) <= limit
      BY <2>4, <3>3 DEF Real, RealOf
    <3> QED BY <1>1, <1>2, <1>3, <3>1, <3>4
  <2> QED BY <2>5, <2>6 DEF Fits
<1> QED BY <1>5, <1>6

-----------------------------------------------------------------------------
(* What a pass keeps between the library, the picture and the tile rows.   *)

(* The row that ends what DecodeNextTileRow puts out for tile row t.       *)
PassEnd(t) == RowTop(img, t) + BandRowHeight(img, t)

AtTop(t, m) ==
  /\ m = 0
  /\ \/ t = 1
     \/ t = 2 /\ img.tops[2] = 1 /\ ~ Skips(1) /\ HasBand(img, 2, band)

(* The one tile row without the band whose top is reached by decoding.     *)
Reached(t) == t = 2 /\ HasBand(img, 1, band) /\ img.tops[2] > 1

(* Where the library may be when tile row t comes next: at the top of the  *)
(* picture, at the top of the tile row, or behind its first row if that    *)
(* was read with the tile row above.                                       *)
Enters(t, m) ==
  \/ AtTop(t, m)
  \/ t > 1 /\ m = img.tops[t] /\ (Skips(t) => Skips(t - 1) \/ Reached(t))
  \/ t > 1 /\ m = img.tops[t] + 1 /\ ~ HasBand(img, t, band)

Between == Passing /\ pc # "rows" => Enters(tileRow, mbRow)

Within ==
  pc = "rows" =>
    /\ ~ Skips(tileRow)
    /\ \/ AtTop(tileRow, mbRow)
       \/ mbRow > 0 /\ img.tops[tileRow] <= mbRow /\ line < PassEnd(tileRow)

Library ==
  /\ pc \in {"rows", "all"} \/ (Passing /\ ~ Skips(tileRow)) => (mbRow < img.rows => Ready(sc, mbRow))
  /\ Passing /\ pc # "rows" /\ 1 < tileRow /\ tileRow < NumTileRows /\ Skips(tileRow) =>
       sc.tile = tileRow \/ Reached(tileRow)

(* Rows of a tile row that is skipped are not read.                        *)
RowsRead ==
  /\ Passing => \A k \in MBRows : k < mbRow => row[k] = "good" \/ Skips(TileRowOf(k))
  /\ pc = "all" => \A k \in MBRows : k < mbRow => row[k] = "good"

(* The last row of one is not put out.                                     *)
Unread == Passing /\ tileRow > 1 /\ Skips(tileRow - 1) /\ line = img.tops[tileRow] - 1 => skipped

LinesShown == \A m \in MBRows : shown[m] \in 0 .. band

Steady == Between /\ Within /\ Library /\ RowsRead /\ Unread /\ LinesShown

LEMMA SameRows ==
  ASSUME img' = img
  PROVE  /\ NumTileRows' = NumTileRows /\ MBRows' = MBRows
         /\ \A k : TileRowOf(k)' = TileRowOf(k)
         /\ Ready(sc, mbRow)' <=> Ready(sc', mbRow')
<1>1. NumTileRows' = NumTileRows /\ MBRows' = MBRows
  BY DEF NumTileRows, MBRows
<1>2. \A k : TileRowOf(k)' = TileRowOf(k)
  BY DEF TileRowOf, NumTileRows
<1>3. Ready(sc, mbRow)' <=> Ready(sc', mbRow')
  BY DEF Ready, TilePos, TileRowOf, NumTileRows
<1> QED BY <1>1, <1>2, <1>3

LEMMA SteadyAfter ==
  ASSUME img' = img, Passing' \/ pc' = "rows" => band' = band,
         Passing' /\ pc' # "rows" => Enters(tileRow', mbRow'),
         pc' = "rows" =>
           /\ ~ Skips(tileRow')
           /\ \/ AtTop(tileRow', mbRow')
              \/ mbRow' > 0 /\ img.tops[tileRow'] <= mbRow' /\ line' < PassEnd(tileRow'),
         pc' \in {"rows", "all"} \/ (Passing' /\ ~ Skips(tileRow')) => (mbRow' < img.rows => Ready(sc', mbRow')),
         Passing' /\ pc' # "rows" /\ 1 < tileRow' /\ tileRow' < NumTileRows /\ Skips(tileRow') =>
           sc'.tile = tileRow' \/ Reached(tileRow'),
         Passing' => \A k \in MBRows : k < mbRow' => row'[k] = "good" \/ Skips(TileRowOf(k)),
         pc' = "all" => \A k \in MBRows : k < mbRow' => row'[k] = "good",
         Passing' /\ tileRow' > 1 /\ Skips(tileRow' - 1) /\ line' = img.tops[tileRow'] - 1 => skipped',
         \A m \in MBRows : shown'[m] \in 0 .. band'
  PROVE  Steady'
<1>1. /\ NumTileRows' = NumTileRows /\ MBRows' = MBRows
      /\ \A k : TileRowOf(k)' = TileRowOf(k)
      /\ Ready(sc, mbRow)' <=> Ready(sc', mbRow')
  BY SameRows
<1>2. Between'
  BY DEF Between, Enters, AtTop, Reached, Skips
<1>3. Within'
  BY DEF Within, AtTop, Skips, PassEnd
<1>4. Library'
  BY <1>1 DEF Library, Reached, Skips, Passing
<1>5. RowsRead'
  BY <1>1 DEF RowsRead, Skips
<1>6. Unread'
  BY DEF Unread, Skips
<1>7. LinesShown'
  BY <1>1 DEF LinesShown
<1> QED BY <1>2, <1>3, <1>4, <1>5, <1>6, <1>7 DEF Steady

LEMMA PassEnds ==
  ASSUME img \in Images, NEW t \in 1 .. NumTileRows, NumTileRows > 1
  PROVE  /\ PassEnd(t) \in Nat
         /\ t = 1 => PassEnd(t) = LastRow(img, t) - 1 /\ LastRow(img, t) = img.tops[2] /\ 2 \in 1 .. NumTileRows
         /\ t > 1 => PassEnd(t) = LastRow(img, t)
<1>1. /\ LastRow(img, t) \in Nat /\ img.tops[t] \in Nat /\ img.tops[t] < LastRow(img, t)
      /\ t < NumTileRows => t + 1 \in 1 .. NumTileRows /\ LastRow(img, t) = img.tops[t + 1]
  BY LastRows
<1>2. NumTileRows \in Nat
  BY ImageType
<1>3. RowTop(img, t) = IF t = 1 THEN 0 ELSE img.tops[t] - 1
  BY DEF RowTop
<1>4. BandRowHeight(img, t) = LastRow(img, t) - RowTop(img, t) - (IF t = 1 THEN 1 ELSE 0)
  BY DEF BandRowHeight
<1>5. PICK x, y \in Nat : x = LastRow(img, t) /\ y = img.tops[t] /\ y < x
  BY <1>1
<1>6. CASE t = 1
  <2>1. PassEnd(t) = x - 1
    BY <1>3, <1>4, <1>5, <1>6 DEF PassEnd
  <2>2. x = img.tops[2] /\ 2 \in 1 .. NumTileRows
    BY <1>1, <1>2, <1>5, <1>6
  <2> QED BY <1>5, <1>6, <2>1, <2>2
<1>7. CASE t > 1
  <2>1. RowTop(img, t) = y - 1 /\ BandRowHeight(img, t) = x - (y - 1) - 0
    BY <1>2, <1>3, <1>4, <1>5, <1>7
  <2>2. PassEnd(t) = x
    BY <1>5, <2>1 DEF PassEnd
  <2> QED BY <1>2, <1>5, <1>7, <2>2
<1> QED BY <1>2, <1>6, <1>7

(* What one turn of the loop of DecodeNextTileRow can do: a row comes out  *)
(* and the pass stays in the tile row; or it is the last one, and the pass *)
(* goes on in the next, of which it may have read the first row if that    *)
(* has nothing of the band; or the first row of the next tile row would    *)
(* have to be read and the limit forbids it.                               *)
RowStays ==
  /\ Comes(Output) /\ UNCHANGED << tileRow, band, pc, finished, started >>
  /\ line' < PassEnd(tileRow) /\ img.tops[tileRow] <= line'

RowLeaves ==
  /\ Comes(Output) /\ LeaveTileRow
  /\ tileRow = NumTileRows => line' = img.rows
  /\ tileRow < NumTileRows =>
       \/ tileRow = 1 /\ line' = img.tops[2] - 1 /\ img.tops[2] > 1
       \/ line' = img.tops[tileRow + 1] /\ ~ HasBand(img, tileRow + 1, band)

RowBlocked ==
  /\ LeaveTileRow /\ tileRow < NumTileRows /\ HasBand(img, tileRow + 1, band)
  /\ line' = line /\ mbRow' = mbRow /\ shown' = shown
  /\ \A k \in MBRows : k < mbRow => row'[k] = row[k]
  /\ Ready(sc', mbRow') /\ sc'.tile = tileRow + 1
  /\ \/ mbRow = img.tops[tileRow + 1]
     \/ mbRow = 0 /\ tileRow = 1 /\ img.tops[2] = 1

LEMMA RowOutcome ==
  ASSUME Typed, Within, Library, Complete, Seamless(img), DecodeRow
  PROVE  RowStays \/ RowLeaves \/ RowBlocked
<1>1. /\ pc = "rows" /\ line < img.rows
      /\ UNCHANGED << img, phase, total, tag, infos, bandEnds, atEnd, limit >>
  BY DEF DecodeRow
<1>2. PICK d \in Decodings :
        /\ DecodeNextMBRow(d, Output)
        /\ IF RowsDone(d[Len(d)][2] # "fail")
           THEN LeaveTileRow
           ELSE UNCHANGED << tileRow, band, pc, finished, started >>
  BY DEF DecodeRow
<1>3. ~ finished /\ ~ atEnd /\ started /\ NumTileRows > 1
  BY <1>1 DEF Typed, Turns
<1>4. band \in 1 .. NumBands /\ tileRow \in 1 .. NumTileRows
  BY <1>3, PassRange
<1>5. /\ ~ Skips(tileRow)
      /\ \/ AtTop(tileRow, mbRow)
         \/ mbRow > 0 /\ img.tops[tileRow] <= mbRow /\ line < PassEnd(tileRow)
  BY <1>1 DEF Within
<1>6. /\ total >= ReadLimit
      /\ \A t \in 1 .. tileRow : Fits(t)
      /\ tileRow < NumTileRows /\ ~ HasBand(img, tileRow + 1, band) => Fits(tileRow + 1)
      /\ tileRow < NumTileRows /\ HasBand(img, tileRow + 1, band) => Blocked(tileRow + 1)
  BY <1>1, <1>5, RowsFit
<1>7. mbRow < img.rows => Ready(sc, mbRow)
  BY <1>1 DEF Library
<1>8. TypeOK /\ Turns /\ Output \in BOOLEAN /\ img \in Images
  BY DEF Typed, TypeOK, Output
<1>9. /\ NumTileRows \in Nat /\ img.rows \in Nat /\ line \in Nat /\ mbRow \in Nat
      /\ \/ mbRow = 0 /\ line = 0
         \/ mbRow > 0 /\ mbRow = line + 1
  BY <1>8, ImageType, StateType DEF Turns
<1>10. /\ PassEnd(tileRow) \in Nat
       /\ tileRow = 1 => /\ PassEnd(tileRow) = LastRow(img, tileRow) - 1
                         /\ LastRow(img, tileRow) = img.tops[2] /\ 2 \in 1 .. NumTileRows
       /\ tileRow > 1 => PassEnd(tileRow) = LastRow(img, tileRow)
  BY <1>3, <1>4, <1>8, PassEnds
<1>11. /\ LastRow(img, tileRow) \in Nat /\ img.tops[tileRow] \in Nat /\ img.tops[tileRow] < LastRow(img, tileRow)
       /\ LastRow(img, tileRow) <= img.rows
       /\ tileRow < NumTileRows => /\ tileRow + 1 \in 1 .. NumTileRows
                                   /\ LastRow(img, tileRow) = img.tops[tileRow + 1]
                                   /\ LastRow(img, tileRow) < img.rows
       /\ tileRow = NumTileRows => LastRow(img, tileRow) = img.rows
  BY <1>4, <1>8, LastRows
<1>12. \A ok : RowsDone(ok) <=> ~ ok \/ line' >= PassEnd(tileRow)
  BY DEF RowsDone, PassEnd
(* All that is read can be.                                                *)
<1>13. ASSUME \A m \in Coming : Fits(TileRowOf(m))
       PROVE  /\ Comes(Output) /\ line' = line + 1
              /\ IF line' >= PassEnd(tileRow) THEN LeaveTileRow
                 ELSE UNCHANGED << tileRow, band, pc, finished, started >>
  <2>1. d[Len(d)][2] # "fail" /\ Comes(Output)
    BY <1>1, <1>2, <1>4, <1>6, <1>7, <1>8, <1>13, GoodDecode
  <2>2. line' = line + 1
    BY <2>1 DEF Comes
  <2> QED BY <1>2, <1>12, <2>1, <2>2
(* The next tile row comes and is behind the limit.                        *)
<1>14. ASSUME tileRow < NumTileRows, HasBand(img, tileRow + 1, band), img.tops[tileRow + 1] \in Coming,
              \A k \in Coming : k < img.tops[tileRow + 1] => Fits(TileRowOf(k)),
              mbRow = img.tops[tileRow + 1] \/ (mbRow = 0 /\ tileRow = 1 /\ img.tops[2] = 1)
       PROVE  RowBlocked
  <2>1. PICK m \in Coming : m = img.tops[tileRow + 1]
    BY <1>14
  <2>2. TileRowOf(m) = tileRow + 1 /\ m # 0
    <3>1. tileRow + 1 \in 1 .. NumTileRows /\ tileRow + 1 > 1
      BY <1>4, <1>9, <1>11, <1>14
    <3>2. img.tops[tileRow + 1] >= 1
      BY <1>8, <3>1, FirstRow
    <3> QED BY <1>8, <2>1, <3>1, <3>2, FirstRow
  <2>3. Blocked(TileRowOf(m)) /\ m = img.tops[TileRowOf(m)]
    BY <1>6, <1>14, <2>1, <2>2
  <2>4. \A k \in Coming : k < m => Fits(TileRowOf(k))
    BY <1>14, <2>1
  <2>5. /\ d[Len(d)][2] = "fail" /\ line' = line /\ mbRow' = mbRow /\ shown' = shown
        /\ \A k \in MBRows : k < mbRow => row'[k] = row[k]
        /\ Ready(sc', mbRow) /\ sc'.tile = TileRowOf(m)
    BY <1>1, <1>2, <1>6, <1>7, <1>8, <2>2, <2>3, <2>4, FailDecode
  <2>6. LeaveTileRow
    BY <1>2, <1>12, <2>5
  <2> QED BY <1>14, <2>2, <2>5, <2>6 DEF RowBlocked
<1>15. CASE AtTop(tileRow, mbRow) /\ tileRow = 1
  <2>1. mbRow = 0 /\ line = 0 /\ PassEnd(tileRow) = img.tops[2] - 1 /\ img.tops[2] \in Nat /\ img.tops[2] >= 1
        /\ tileRow < NumTileRows /\ 2 \in 1 .. NumTileRows /\ img.tops[2] < img.rows /\ tileRow + 1 = 2
    BY <1>3, <1>9, <1>10, <1>11, <1>15 DEF AtTop
  <2>2. \A k \in Coming : k = 0 \/ (k = 1 /\ 1 < img.rows)
    BY <1>9, <2>1 DEF Coming, MBRows
  <2>3. TileRowOf(0) = 1 /\ Fits(1) /\ 1 \in 1 .. NumTileRows
    BY <1>4, <1>6, <1>8, <1>15, FirstRow
  <2>4. CASE img.tops[2] = 1 /\ HasBand(img, 2, band)
    <3>1. 1 \in Coming
      BY <1>9, <2>1, <2>4 DEF Coming, MBRows
    <3>2. \A k \in Coming : k < 1 => Fits(TileRowOf(k))
      BY <2>2, <2>3
    <3> QED BY <1>14, <1>15, <2>1, <2>4, <3>1, <3>2
  <2>5. CASE ~ (img.tops[2] = 1 /\ HasBand(img, 2, band))
    <3>1. \A m \in Coming : Fits(TileRowOf(m))
      <4> TAKE m \in Coming
      <4>1. CASE m = 0
        BY <2>3, <4>1
      <4>2. CASE m = 1 /\ img.tops[2] = 1
        <5>1. TileRowOf(1) = 2
          BY <1>8, <2>1, <4>2, FirstRow
        <5> QED BY <1>6, <2>1, <2>5, <4>2, <5>1
      <4>3. CASE m = 1 /\ img.tops[2] # 1
        <5>1. 1 \in MBRows /\ img.tops[1] <= 1 /\ 1 < LastRow(img, 1)
          <6>1. 1 < LastRow(img, 1)
            BY <1>10, <1>15, <2>1, <4>3
          <6>2. img.tops[1] = 0
            BY <1>8, FirstRow
          <6> QED BY <1>9, <2>1, <4>3, <6>1, <6>2 DEF MBRows
        <5>2. TileRowOf(1) = 1
          BY <1>8, <2>3, <5>1, RowIn
        <5> QED BY <2>3, <4>3, <5>2
      <4> QED BY <2>2, <4>1, <4>2, <4>3
    <3>2. /\ Comes(Output) /\ line' = 1
          /\ IF line' >= PassEnd(tileRow) THEN LeaveTileRow
             ELSE UNCHANGED << tileRow, band, pc, finished, started >>
      BY <1>13, <2>1, <3>1
    <3>3. CASE img.tops[2] > 2
      <4>1. line' < PassEnd(tileRow) /\ img.tops[tileRow] <= line'
        <5>1. img.tops[tileRow] = 0
          BY <1>8, <1>15, FirstRow
        <5> QED BY <2>1, <3>2, <3>3, <5>1
      <4> QED BY <1>10, <3>2, <4>1 DEF RowStays
    <3>4. CASE ~ (img.tops[2] > 2)
      <4>1. line' >= PassEnd(tileRow)
        BY <2>1, <3>2, <3>4
      <4>2. LeaveTileRow
        BY <3>2, <4>1
      <4>3. img.tops[2] = 2 \/ img.tops[2] = 1
        BY <2>1, <3>4
      <4>4. \/ tileRow = 1 /\ line' = img.tops[2] - 1 /\ img.tops[2] > 1
            \/ line' = img.tops[tileRow + 1] /\ ~ HasBand(img, tileRow + 1, band)
        BY <1>15, <2>1, <2>5, <3>2, <4>3
      <4> QED BY <1>9, <2>1, <3>2, <4>2, <4>4 DEF RowLeaves
    <3> QED BY <3>3, <3>4
  <2> QED BY <2>4, <2>5
<1>16. CASE AtTop(tileRow, mbRow) /\ tileRow = 2
  <2>1. mbRow = 0 /\ line = 0 /\ img.tops[2] = 1 /\ PassEnd(tileRow) > 1
    BY <1>3, <1>9, <1>10, <1>11, <1>16 DEF AtTop
  <2>2. \A k \in Coming : k = 0 \/ k = 1
    BY <1>9, <2>1 DEF Coming, MBRows
  <2>3. TileRowOf(0) = 1 /\ TileRowOf(1) = 2 /\ Fits(1) /\ Fits(2)
    BY <1>4, <1>6, <1>8, <1>16, <2>1, FirstRow
  <2>4. \A k \in Coming : Fits(TileRowOf(k))
    BY <2>2, <2>3
  <2>5. /\ Comes(Output) /\ line' = 1
        /\ IF line' >= PassEnd(tileRow) THEN LeaveTileRow
           ELSE UNCHANGED << tileRow, band, pc, finished, started >>
    BY <1>13, <2>1, <2>4
  <2>6. line' < PassEnd(tileRow) /\ img.tops[tileRow] <= line'
    BY <1>10, <1>16, <2>1, <2>5
  <2> QED BY <1>10, <2>5, <2>6 DEF RowStays
<1>17. CASE mbRow > 0 /\ img.tops[tileRow] <= mbRow /\ line < PassEnd(tileRow)
  <2>1. mbRow = line + 1 /\ mbRow <= LastRow(img, tileRow) /\ (tileRow = 1 => mbRow < LastRow(img, tileRow))
    BY <1>4, <1>9, <1>10, <1>11, <1>17
  <2>2. \A k \in Coming : k = mbRow /\ k \in MBRows
    BY <1>17 DEF Coming
  <2>3. CASE mbRow < LastRow(img, tileRow)
    <3>1. \A k \in Coming : Fits(TileRowOf(k))
      <4> TAKE k \in Coming
      <4>1. TileRowOf(k) = tileRow
        BY <1>4, <1>8, <1>17, <2>2, <2>3, RowIn
      <4> QED BY <1>4, <1>6, <4>1
    <3>2. /\ Comes(Output) /\ line' = mbRow
          /\ IF line' >= PassEnd(tileRow) THEN LeaveTileRow
             ELSE UNCHANGED << tileRow, band, pc, finished, started >>
      BY <1>13, <2>1, <3>1
    <3>3. CASE line' < PassEnd(tileRow)
      BY <1>9, <1>10, <1>17, <3>2, <3>3 DEF RowStays
    <3>4. CASE ~ (line' < PassEnd(tileRow))
      <4>1. tileRow = 1 /\ line' = img.tops[2] - 1
        BY <1>4, <1>9, <1>10, <1>11, <2>1, <2>3, <3>2, <3>4
      <4>2. LeaveTileRow
        BY <1>9, <1>10, <3>2, <3>4
      <4>3. img.tops[2] > 1 /\ tileRow < NumTileRows
        <5>1. PICK x \in Nat : x = img.tops[2]
          BY <1>10, <1>11, <4>1
        <5>2. mbRow = x - 1 /\ tileRow = 1
          BY <3>2, <4>1, <5>1
        <5> QED BY <1>3, <1>9, <1>17, <5>1, <5>2
      <4> QED BY <1>9, <3>2, <4>1, <4>2, <4>3 DEF RowLeaves
    <3> QED BY <3>3, <3>4
  <2>4. CASE ~ (mbRow < LastRow(img, tileRow))
    <3>1. mbRow = LastRow(img, tileRow) /\ tileRow > 1 /\ PassEnd(tileRow) = mbRow
      BY <1>4, <1>9, <1>10, <1>11, <2>1, <2>4
    <3>2. CASE tileRow < NumTileRows /\ HasBand(img, tileRow + 1, band)
      <4>1. mbRow = img.tops[tileRow + 1] /\ mbRow < img.rows /\ mbRow \in Coming
        BY <1>9, <1>11, <3>1, <3>2 DEF Coming, MBRows
      <4>2. \A k \in Coming : k < mbRow => Fits(TileRowOf(k))
        BY <1>9, <2>2
      <4> QED BY <1>14, <3>2, <4>1, <4>2
    <3>3. CASE ~ (tileRow < NumTileRows /\ HasBand(img, tileRow + 1, band))
      <4>1. \A k \in Coming : Fits(TileRowOf(k))
        <5> TAKE k \in Coming
        <5>1. k = mbRow /\ k \in MBRows /\ k < img.rows
          BY <1>8, <2>2, RowOf
        <5>2. tileRow < NumTileRows
          BY <1>4, <1>9, <1>11, <3>1, <5>1
        <5>3. TileRowOf(k) = tileRow + 1
          BY <1>8, <1>11, <3>1, <5>1, <5>2, FirstRow
        <5> QED BY <1>6, <3>3, <5>2, <5>3
      <4>2. /\ Comes(Output) /\ line' = mbRow /\ LeaveTileRow
        BY <1>9, <1>10, <1>13, <2>1, <3>1, <4>1
      <4>3. tileRow = NumTileRows => line' = img.rows
        BY <1>11, <3>1, <4>2
      <4>4. tileRow < NumTileRows => line' = img.tops[tileRow + 1] /\ ~ HasBand(img, tileRow + 1, band)
        BY <1>11, <3>1, <3>3, <4>2
      <4> QED BY <4>2, <4>3, <4>4 DEF RowLeaves
    <3> QED BY <3>2, <3>3
  <2> QED BY <2>3, <2>4
<1> QED BY <1>5, <1>15, <1>16, <1>17 DEF AtTop

(* What a row that comes out was smoothed against has been read, so it is  *)
(* put out with the band of the pass.                                      *)
LEMMA RowShown ==
  ASSUME Typed, Steady, pc = "rows", line < img.rows, Comes(Output)
  PROVE  /\ line \in MBRows
         /\ shown' = IF Output THEN [shown EXCEPT ![line] = band] ELSE shown
<1>1. ~ finished /\ ~ atEnd /\ started /\ NumTileRows > 1
  BY DEF Typed, Turns
<1>2. tileRow \in 1 .. NumTileRows
  BY <1>1, PassRange
<1>3. Passing
  BY <1>1 DEF Passing
<1>4. /\ img \in Images /\ NumTileRows \in Nat /\ img.rows \in Nat /\ line \in Nat /\ mbRow \in Nat
      /\ \/ mbRow = 0 /\ line = 0
         \/ mbRow > 0 /\ mbRow = line + 1
      /\ MBRows = 0 .. img.rows - 1
  BY ImageType, StateType DEF Typed, Turns, MBRows
<1>5. line \in MBRows
  BY <1>4
<1>6. ASSUME Output, NEW k \in Neighbours(line) PROVE row'[k] = "good"
  <2>1. k \in MBRows /\ k <= line + 1 /\ (~ img.overlap => TileRowOf(k) = TileRowOf(line))
    BY <1>4 DEF Neighbours, Smoothed
  <2>2. k < mbRow \/ k \in Coming
    BY <1>4, <2>1 DEF Comes
  <2>3. CASE k \in Coming
    BY <2>1, <2>3 DEF Comes
  <2>4. CASE k \notin Coming
    <3>1. row'[k] = row[k] /\ k < mbRow
      BY <2>1, <2>2, <2>4 DEF Comes
    <3>2. row[k] = "good" \/ Skips(TileRowOf(k))
      BY <1>3, <2>1, <3>1 DEF Steady, RowsRead
    <3>3. CASE Skips(TileRowOf(k))
      <4>1. Skips(TileRowOf(line))
        BY <2>1, <3>3 DEF Skips
      <4>2. ~ Skips(tileRow) /\ mbRow = line + 1 /\ img.tops[tileRow] <= mbRow /\ line < PassEnd(tileRow)
        <5>1. mbRow # 0
          BY <1>4, <2>1, <3>1
        <5> QED BY <1>4, <5>1 DEF Steady, Within, AtTop
      <4>3. /\ PassEnd(tileRow) \in Nat
            /\ tileRow = 1 => PassEnd(tileRow) = LastRow(img, tileRow) - 1
            /\ tileRow > 1 => PassEnd(tileRow) = LastRow(img, tileRow)
        BY <1>1, <1>2, <1>4, PassEnds
      <4>4. LastRow(img, tileRow) \in Nat /\ img.tops[tileRow] \in Nat
        BY <1>2, <1>4, LastRows
      <4>5. CASE img.tops[tileRow] <= line
        <5>1. line < LastRow(img, tileRow)
          BY <1>2, <1>4, <4>2, <4>3, <4>4
        <5>2. TileRowOf(line) = tileRow
          BY <1>2, <1>4, <1>5, <4>5, <5>1, RowIn
        <5> QED BY <4>1, <4>2, <5>2
      <4>6. CASE ~ (img.tops[tileRow] <= line)
        <5>1. line = img.tops[tileRow] - 1 /\ line + 1 = img.tops[tileRow]
          BY <1>4, <4>2, <4>4, <4>6
        <5>2. tileRow > 1
          <6>1. img.tops[1] = 0
            BY <1>4, FirstRow
          <6> QED BY <1>2, <1>4, <4>6, <6>1
        <5>3. TileRowOf(line) = tileRow - 1
          <6>1. tileRow - 1 \in 1 .. NumTileRows /\ tileRow - 1 < NumTileRows /\ (tileRow - 1) + 1 = tileRow
            BY <1>2, <1>4, <5>2
          <6>2. LastRow(img, tileRow - 1) = img.tops[tileRow] /\ img.tops[tileRow - 1] \in Nat
                /\ img.tops[tileRow - 1] < LastRow(img, tileRow - 1)
            BY <1>4, <6>1, LastRows
          <6>3. img.tops[tileRow - 1] <= line /\ line < LastRow(img, tileRow - 1)
            BY <1>4, <4>4, <5>1, <6>2
          <6> QED BY <1>4, <1>5, <6>1, <6>3, RowIn
        <5>4. skipped
          BY <1>3, <4>1, <5>1, <5>2, <5>3 DEF Steady, Unread
        <5> QED BY <1>6, <5>4 DEF Output
      <4> QED BY <4>5, <4>6
    <3> QED BY <3>1, <3>2, <3>3
  <2> QED BY <2>3, <2>4
<1>7. shown' = IF Output THEN [shown EXCEPT ![line] =
                           IF \A m \in Neighbours(line) : row'[m] = "good" THEN band ELSE -1]
               ELSE shown
  BY DEF Comes
<1>8. shown' = IF Output THEN [shown EXCEPT ![line] = band] ELSE shown
  BY <1>6, <1>7
<1> QED BY <1>5, <1>8

(* After a tile row comes the next one, or another pass.                   *)
LEMMA AfterLeaving ==
  ASSUME Typed, LeaveTileRow, pc \in {"tiles", "rows"}, UNCHANGED << img, phase, atEnd >>
  PROVE  \/ /\ tileRow < NumTileRows /\ tileRow' = tileRow + 1 /\ tileRow + 1 \in 1 .. NumTileRows
            /\ pc' = "tiles" /\ UNCHANGED << band, finished, started >> /\ Passing' /\ Passing
         \/ /\ tileRow = NumTileRows /\ tileRow' = tileRow + 1 /\ band' = band + 1
            /\ ~ Passing' /\ pc' \in {"idle", "band"} /\ BandDecoded
<1>1. ~ finished /\ ~ atEnd /\ started /\ NumTileRows > 1
  BY DEF Typed, Turns
<1>2. tileRow \in 1 .. NumTileRows
  BY <1>1, PassRange
<1>3. NumTileRows \in Nat /\ tileRow' = tileRow + 1 /\ NumTileRows' = NumTileRows
  BY ImageType DEF Typed, TypeOK, LeaveTileRow, NumTileRows
<1>4. CASE tileRow < NumTileRows
  <2>1. ~ (tileRow' > NumTileRows) /\ tileRow + 1 \in 1 .. NumTileRows
    BY <1>2, <1>3, <1>4
  <2>2. pc' = "tiles" /\ UNCHANGED << band, finished, started >>
    BY <2>1 DEF LeaveTileRow
  <2> QED BY <1>1, <1>3, <1>4, <2>1, <2>2 DEF Passing
<1>5. CASE ~ (tileRow < NumTileRows)
  <2>1. tileRow' > NumTileRows /\ tileRow = NumTileRows
    BY <1>2, <1>3, <1>5
  <2>2. band' = band + 1 /\ BandDecoded
    BY <2>1 DEF LeaveTileRow
  <2> QED BY <1>3, <2>1, <2>2 DEF BandDecoded, Passing
<1> QED BY <1>4, <1>5

LEMMA RowSteady ==
  ASSUME Typed, Steady, Complete, Seamless(img), DecodeRow
  PROVE  Steady'
<1>1. /\ pc = "rows" /\ line < img.rows /\ skipped' = FALSE
      /\ UNCHANGED << img, phase, total, tag, infos, bandEnds, atEnd, limit >>
  BY DEF DecodeRow
<1>2. RowStays \/ RowLeaves \/ RowBlocked
  BY RowOutcome DEF Steady
<1>3. ~ finished /\ ~ atEnd /\ started /\ NumTileRows > 1 /\ Passing
  BY <1>1 DEF Typed, Turns, Passing
<1>4. tileRow \in 1 .. NumTileRows /\ band \in 1 .. NumBands
  BY <1>3, PassRange
<1>5. /\ img \in Images /\ NumTileRows \in Nat /\ img.rows \in Nat /\ line \in Nat /\ mbRow \in Nat
      /\ NumBands \in Nat /\ shown \in ShownType /\ MBRows = 0 .. img.rows - 1
      /\ \A t \in 1 .. NumTileRows : img.tops[t] \in Nat
      /\ \A m \in MBRows : shown[m] \in 0 .. band
  BY ImageType, StateType DEF Typed, Steady, LinesShown, MBRows
<1>6. ~ Skips(tileRow)
  BY <1>1 DEF Steady, Within
<1>7. \A k \in MBRows : k < mbRow => row[k] = "good" \/ Skips(TileRowOf(k))
  BY <1>3 DEF Steady, RowsRead
<1>8. ASSUME Comes(Output)
      PROVE  /\ \A m \in MBRows : shown'[m] \in 0 .. band
             /\ \A k \in MBRows : k < mbRow' => row'[k] = "good" \/ Skips(TileRowOf(k))
             /\ mbRow' < img.rows => Ready(sc', mbRow')
             /\ line' \in Nat /\ mbRow' = line' + 1 /\ mbRow' > 0
  <2>1. line \in MBRows /\ shown' = IF Output THEN [shown EXCEPT ![line] = band] ELSE shown
    BY <1>1, <1>8, RowShown
  <2>2. \A m \in MBRows : shown'[m] \in 0 .. band
    BY <1>4, <1>5, <2>1 DEF ShownType
  <2>3. \A k \in MBRows : k < mbRow' => row'[k] = "good" \/ Skips(TileRowOf(k))
    BY <1>7, <1>8 DEF Comes
  <2>4. line' \in Nat /\ mbRow' = line' + 1 /\ mbRow' > 0
    BY <1>5, <1>8 DEF Comes
  <2> QED BY <1>8, <2>2, <2>3, <2>4 DEF Comes
<1>9. CASE RowStays
  <2>1. /\ Comes(Output) /\ UNCHANGED << tileRow, band, pc, finished, started >>
        /\ line' < PassEnd(tileRow) /\ img.tops[tileRow] <= line'
    BY <1>9 DEF RowStays
  <2>2. img.tops[tileRow] <= mbRow' /\ line' # img.tops[tileRow] - 1
    BY <1>4, <1>5, <1>8, <2>1
  <2> QED BY <1>1, <1>6, <1>8, <2>1, <2>2, SteadyAfter
<1>10. ASSUME LeaveTileRow, tileRow = NumTileRows, \A m \in MBRows : shown'[m] \in 0 .. band
       PROVE  Steady'
  <2>1. tileRow' = tileRow + 1 /\ band' = band + 1 /\ ~ Passing' /\ pc' \in {"idle", "band"}
    BY <1>1, <1>5, <1>10, AfterLeaving
  <2>2. \A m \in MBRows : shown'[m] \in 0 .. band'
    BY <1>4, <1>5, <1>10, <2>1
  <2> QED BY <1>1, <2>1, <2>2, SteadyAfter
<1>11. CASE RowLeaves
  <2>1. /\ Comes(Output) /\ LeaveTileRow
        /\ tileRow < NumTileRows =>
             \/ tileRow = 1 /\ line' = img.tops[2] - 1 /\ img.tops[2] > 1
             \/ line' = img.tops[tileRow + 1] /\ ~ HasBand(img, tileRow + 1, band)
    BY <1>11 DEF RowLeaves
  <2>2. CASE tileRow = NumTileRows
    BY <1>8, <1>10, <2>1, <2>2
  <2>3. CASE tileRow < NumTileRows
    <3>1. /\ tileRow' = tileRow + 1 /\ tileRow + 1 \in 1 .. NumTileRows /\ pc' = "tiles"
          /\ band' = band /\ Passing'
      BY <1>1, <1>5, <2>1, <2>3, AfterLeaving
    <3>2. tileRow' > 1 /\ tileRow' - 1 = tileRow
      BY <1>4, <1>5, <3>1
    <3>3. CASE tileRow = 1 /\ line' = img.tops[2] - 1 /\ img.tops[2] > 1
      <4>1. mbRow' = img.tops[2] /\ tileRow' = 2
        <5>1. PICK x \in Nat : x = img.tops[2]
          BY <1>5, <3>1, <3>3
        <5>2. line' = x - 1 /\ mbRow' = line' + 1 /\ tileRow' = 2
          BY <1>8, <2>1, <3>1, <3>3, <5>1
        <5> QED BY <5>1, <5>2
      <4>2. Skips(2) => Reached(2)
        BY <1>6, <3>3 DEF Skips, Reached
      <4>3. Enters(tileRow', mbRow')
        BY <3>2, <4>1, <4>2 DEF Enters
      <4>4. /\ ~ Skips(tileRow' - 1)
            /\ Skips(tileRow') => Reached(tileRow')
        BY <1>6, <3>2, <4>1, <4>2
      <4>5. \A k \in MBRows : k < mbRow' => row'[k] = "good" \/ Skips(TileRowOf(k))
        BY <1>8, <2>1
      <4>6. (mbRow' < img.rows => Ready(sc', mbRow')) /\ \A m \in MBRows : shown'[m] \in 0 .. band'
        BY <1>8, <2>1, <3>1
      <4> QED BY <1>1, <3>1, <4>3, <4>4, <4>5, <4>6, SteadyAfter
    <3>4. CASE line' = img.tops[tileRow + 1] /\ ~ HasBand(img, tileRow + 1, band)
      <4>1. mbRow' = img.tops[tileRow'] + 1
        BY <1>8, <2>1, <3>1, <3>4
      <4>2. Enters(tileRow', mbRow')
        BY <3>1, <3>2, <3>4, <4>1 DEF Enters
      <4>3. sc'.tile = tileRow'
        <5>1. PICK x \in Nat : x = img.tops[tileRow + 1]
          BY <1>5, <3>1
        <5>2. line + 1 = x
          BY <1>5, <2>1, <3>4, <5>1 DEF Comes
        <5>3. x \in MBRows /\ TileRowOf(x) = tileRow + 1
          BY <1>5, <3>1, <5>1, FirstRow
        <5>4. x < img.rows
          BY <1>5, <5>3
        <5> QED BY <2>1, <3>1, <5>2, <5>3, <5>4 DEF Comes
      <4>4. ~ Skips(tileRow' - 1)
        BY <1>6, <3>2
      <4>5. \A k \in MBRows : k < mbRow' => row'[k] = "good" \/ Skips(TileRowOf(k))
        BY <1>8, <2>1
      <4>6. (mbRow' < img.rows => Ready(sc', mbRow')) /\ \A m \in MBRows : shown'[m] \in 0 .. band'
        BY <1>8, <2>1, <3>1
      <4> QED BY <1>1, <3>1, <4>2, <4>3, <4>4, <4>5, <4>6, SteadyAfter
    <3> QED BY <2>1, <2>3, <3>3, <3>4
  <2> QED BY <1>4, <1>5, <2>2, <2>3
<1>12. CASE RowBlocked
  <2>1. /\ LeaveTileRow /\ tileRow < NumTileRows /\ HasBand(img, tileRow + 1, band)
        /\ line' = line /\ mbRow' = mbRow /\ shown' = shown
        /\ \A k \in MBRows : k < mbRow => row'[k] = row[k]
        /\ Ready(sc', mbRow') /\ sc'.tile = tileRow + 1
        /\ \/ mbRow = img.tops[tileRow + 1]
           \/ mbRow = 0 /\ tileRow = 1 /\ img.tops[2] = 1
    BY <1>12 DEF RowBlocked
  <2>2. /\ tileRow' = tileRow + 1 /\ tileRow + 1 \in 1 .. NumTileRows /\ pc' = "tiles"
        /\ band' = band /\ Passing'
    BY <1>1, <1>5, <2>1, AfterLeaving
  <2>3. tileRow' > 1 /\ tileRow' - 1 = tileRow
    BY <1>4, <1>5, <2>2
  <2>4. Enters(tileRow', mbRow')
    <3>1. ~ Skips(tileRow')
      BY <2>1, <2>2 DEF Skips
    <3> QED BY <1>6, <2>1, <2>2, <2>3, <3>1 DEF Enters, AtTop
  <2>5. \A k \in MBRows : k < mbRow' => row'[k] = "good" \/ Skips(TileRowOf(k))
    BY <1>7, <2>1
  <2> QED BY <1>1, <1>5, <1>6, <2>1, <2>2, <2>3, <2>4, <2>5, SteadyAfter
<1> QED BY <1>2, <1>9, <1>11, <1>12

LEMMA TilesSteady ==
  ASSUME Typed, Steady, Seamless(img), Tiles
  PROVE  Steady'
<1>1. /\ pc = "tiles" /\ UNCHANGED << img, phase, total, tag, infos, bandEnds, atEnd, shown >>
  BY DEF Tiles
<1>2. ~ finished /\ ~ atEnd /\ started /\ NumTileRows > 1 /\ Passing
  BY <1>1 DEF Typed, Turns, Passing
<1>3. tileRow \in 1 .. NumTileRows /\ band \in 1 .. NumBands /\ band \in 1 .. NumAvailable
  BY <1>2, PassRange
<1>4. /\ img \in Images /\ NumTileRows \in Nat /\ img.rows \in Nat /\ line \in Nat /\ mbRow \in Nat
      /\ NumBands \in Nat /\ MBRows = 0 .. img.rows - 1 /\ sc.tile \in 1 .. NumTileRows
      /\ \/ mbRow = 0 /\ line = 0
         \/ mbRow > 0 /\ mbRow = line + 1
      /\ \A t \in 1 .. NumTileRows : img.tops[t] \in Nat
      /\ TileRows(img) = 1 .. NumTileRows
  BY ImageType, StateType DEF Typed, Turns, MBRows, LibraryType
<1>5. \A r \in 1 .. NumTileRows : infos[r][band] = 0 <=> ~ HasBand(img, r, band)
  BY <1>3, InfosFacts DEF Typed
<1>6. /\ Enters(tileRow, mbRow)
      /\ ~ Skips(tileRow) => (mbRow < img.rows => Ready(sc, mbRow))
      /\ 1 < tileRow /\ tileRow < NumTileRows /\ Skips(tileRow) => sc.tile = tileRow \/ Reached(tileRow)
      /\ \A k \in MBRows : k < mbRow => row[k] = "good" \/ Skips(TileRowOf(k))
      /\ tileRow > 1 /\ Skips(tileRow - 1) /\ line = img.tops[tileRow] - 1 => skipped
      /\ \A m \in MBRows : shown[m] \in 0 .. band
  BY <1>1, <1>2 DEF Steady, Between, Library, RowsRead, Unread, LinesShown
<1>7. CanSkip <=> Skips(tileRow)
  <2>1. CASE HasBand(img, tileRow, band)
    BY <1>3, <1>5, <2>1 DEF CanSkip, Skips
  <2>2. CASE ~ HasBand(img, tileRow, band)
    <3>1. img.overlap => ~ img.hard /\ tileRow = NumTileRows
      BY <1>3, <1>4, <2>2 DEF Seamless, NumTileRows, NumAvailable
    <3>2. img.overlap => ~ img.hard /\ ~ (tileRow < NumTileRows)
      BY <1>4, <3>1
    <3> QED BY <1>3, <1>5, <2>2, <3>2 DEF CanSkip, Skips
  <2> QED BY <2>1, <2>2
<1>8. CASE infos[tileRow][band] # 0 /\ total < infos[tileRow][band]
  <2>1. pc' = "idle" /\ UNCHANGED << tileRow, limit, mbRow, line, sc, row, band, finished, started, skipped >>
    BY <1>8 DEF Tiles, position
  <2> QED BY <1>1, <1>2, <1>6, <2>1, SteadyAfter
<1>9. CASE ~ (infos[tileRow][band] # 0 /\ total < infos[tileRow][band]) /\ ~ CanSkip
  <2>1. /\ pc' = "rows"
        /\ UNCHANGED << tileRow, mbRow, line, sc, row, band, finished, started, skipped >>
    BY <1>9 DEF Tiles
  <2>2. ~ Skips(tileRow)
    BY <1>7, <1>9
  <2>3. \/ AtTop(tileRow, mbRow)
        \/ mbRow > 0 /\ img.tops[tileRow] <= mbRow /\ line < PassEnd(tileRow)
    <3>1. CASE AtTop(tileRow, mbRow)
      BY <3>1
    <3>2. CASE tileRow > 1 /\ (mbRow = img.tops[tileRow] \/ mbRow = img.tops[tileRow] + 1)
      <4>1. PICK x, y \in Nat : x = img.tops[tileRow] /\ y = LastRow(img, tileRow) /\ x < y
        BY <1>3, <1>4, LastRows
      <4>2. x >= 1
        BY <1>3, <1>4, <3>2, <4>1, FirstRow
      <4>3. PassEnd(tileRow) = y
        BY <1>2, <1>3, <1>4, <3>2, <4>1, PassEnds
      <4>4. mbRow > 0 /\ x <= mbRow /\ line < y
        BY <1>4, <3>2, <4>1, <4>2
      <4> QED BY <4>1, <4>3, <4>4
    <3> QED BY <1>6, <3>1, <3>2 DEF Enters
  <2> QED BY <1>1, <1>2, <1>6, <2>1, <2>2, <2>3, SteadyAfter
<1>10. CASE ~ (infos[tileRow][band] # 0 /\ total < infos[tileRow][band]) /\ CanSkip
  <2>1. /\ IF tileRow < NumTileRows
           THEN /\ mbRow' = img.tops[tileRow + 1]
                /\ sc' = SetCurrentTileRow(tileRow + 1)
                /\ line' = RowTop(img, tileRow + 1)
                /\ skipped' = TRUE
           ELSE UNCHANGED << mbRow, sc, line, skipped >>
        /\ LeaveTileRow /\ UNCHANGED << limit, row >>
    BY <1>10 DEF Tiles
  <2>2. Skips(tileRow)
    BY <1>7, <1>10
  <2>3. CASE tileRow < NumTileRows
    <3>1. /\ tileRow' = tileRow + 1 /\ tileRow + 1 \in 1 .. NumTileRows /\ pc' = "tiles"
          /\ band' = band /\ Passing' /\ tileRow' > 1 /\ tileRow' - 1 = tileRow
      BY SMTT(30), <1>1, <1>3, <1>4, <2>1, <2>3, AfterLeaving
    <3>2. mbRow' = img.tops[tileRow'] /\ skipped' = TRUE
      BY <2>1, <2>3, <3>1
    <3>3. Enters(tileRow', mbRow')
      BY <2>2, <3>1, <3>2 DEF Enters
    <3>4. tileRow' < NumTileRows => sc'.tile = tileRow'
      BY <1>4, <2>1, <2>3, <3>1, StateType DEF SetCurrentTileRow, Typed, LibraryType
    <3>5. ASSUME ~ Skips(tileRow') PROVE Ready(sc', mbRow')
      <4>1. mbRow' >= 1 /\ TileRowOf(mbRow') = tileRow' /\ mbRow' \in Nat
        BY <1>4, <3>1, <3>2, FirstRow
      <4>2. TilePos(tileRow + 1, mbRow') = tileRow + 1
        <5>1. ~ (tileRow + 1 < NumTileRows /\ mbRow' = img.tops[(tileRow + 1) + 1])
          <6> SUFFICES ASSUME tileRow + 1 < NumTileRows PROVE mbRow' # img.tops[(tileRow + 1) + 1]
            OBVIOUS
          <6>1. /\ img.tops[tileRow + 1] < LastRow(img, tileRow + 1) /\ LastRow(img, tileRow + 1) \in Nat
                /\ LastRow(img, tileRow + 1) = img.tops[(tileRow + 1) + 1]
            BY <1>4, <3>1, LastRows
          <6> QED BY <3>1, <3>2, <4>1, <6>1
        <5> QED BY <4>1, <5>1 DEF TilePos
      <4>3. TilePos(tileRow, mbRow') = tileRow + 1
        BY <2>3, <3>1, <3>2, <4>1 DEF TilePos
      <4>4. sc'.tile = tileRow \/ sc'.tile = tileRow + 1
        <5>1. CASE tileRow' < NumTileRows
          BY <3>1, <3>4, <5>1
        <5>2. CASE ~ (tileRow' < NumTileRows)
          <6>1. sc' = sc /\ NumTileRows = tileRow + 1
            BY <1>4, <2>1, <2>3, <3>1, <5>2 DEF SetCurrentTileRow
          <6>2. CASE tileRow = 1
            BY <1>4, <6>1, <6>2
          <6>3. CASE tileRow > 1 /\ sc.tile = tileRow
            BY <6>1, <6>3
          <6>4. CASE tileRow > 1 /\ Reached(tileRow)
            <7>1. /\ tileRow = 2 /\ HasBand(img, 1, band) /\ img.tops[2] > 1
                  /\ ~ img.overlap /\ ~ HasBand(img, 2, band) /\ Len(img.tops) = 3
              BY <2>2, <6>1, <6>4 DEF Reached, Skips, NumTileRows
            <7>2. HasBand(img, 3, band)
              BY <3>1, <3>5, <7>1 DEF Skips
            <7>3. HasBand(img, 2, band)
              BY <1>3, <7>1, <7>2 DEF Seamless, NumAvailable
            <7> QED BY <7>1, <7>3
          <6> QED BY <1>3, <1>6, <2>2, <2>3, <6>2, <6>3, <6>4
        <5> QED BY <5>1, <5>2
      <4>5. TilePos(sc'.tile, mbRow') = TileRowOf(mbRow')
        BY <3>1, <4>1, <4>2, <4>3, <4>4
      <4> QED BY <3>2, <4>1, <4>5 DEF Ready
    <3>6. ASSUME NEW k \in MBRows, k < mbRow' PROVE row'[k] = "good" \/ Skips(TileRowOf(k))
      <4>1. row' = row
        BY <2>1
      <4>2. CASE k < mbRow
        BY <1>6, <4>1, <4>2
      <4>3. CASE ~ (k < mbRow)
        <5>1. img.tops[tileRow] <= mbRow
          <6>1. CASE AtTop(tileRow, mbRow)
            <7>1. tileRow = 1
              BY <2>2, <6>1 DEF AtTop, Skips
            <7>2. img.tops[tileRow] = 0
              BY <1>4, <7>1, FirstRow
            <7> QED BY <1>4, <7>2
          <6>2. CASE mbRow = img.tops[tileRow] \/ mbRow = img.tops[tileRow] + 1
            BY <1>3, <1>4, <6>2
          <6> QED BY <1>6, <6>1, <6>2 DEF Enters
        <5>2. PICK x \in Nat : x = img.tops[tileRow]
          BY <1>3, <1>4
        <5>3. img.tops[tileRow] <= k
          BY <1>4, <4>3, <5>1, <5>2
        <5>4. k < LastRow(img, tileRow)
          BY <1>3, <1>4, <2>3, <3>1, <3>2, <3>6, LastRows
        <5>5. TileRowOf(k) = tileRow
          BY <1>3, <1>4, <5>3, <5>4, RowIn
        <5> QED BY <2>2, <5>5
      <4> QED BY <4>2, <4>3
    <3>7. \A m \in MBRows : shown'[m] \in 0 .. band'
      BY <1>1, <1>6, <3>1
    <3> QED BY <1>1, <3>1, <3>2, <3>3, <3>4, <3>5, <3>6, <3>7, SteadyAfter
  <2>4. CASE ~ (tileRow < NumTileRows)
    <3>1. band' = band + 1 /\ ~ Passing' /\ pc' \in {"idle", "band"}
      BY <1>1, <2>1, <2>4, AfterLeaving
    <3>2. \A m \in MBRows : shown'[m] \in 0 .. band'
      BY <1>1, <1>3, <1>4, <1>6, <3>1
    <3> QED BY <1>1, <3>1, <3>2, SteadyAfter
  <2> QED BY <2>3, <2>4
<1> QED BY <1>8, <1>9, <1>10

LEMMA StartSteady ==
  ASSUME Typed, Steady, StartBand
  PROVE  Steady'
<1>1. /\ pc = "band" /\ started' = TRUE
      /\ UNCHANGED << img, phase, total, tag, infos, bandEnds, atEnd, finished, skipped, shown >>
  BY DEF StartBand
<1>2. ~ finished /\ ~ atEnd
  BY <1>1 DEF Typed, Turns
<1>3. /\ img \in Images /\ NumBands \in Nat /\ MBRows = 0 .. img.rows - 1 /\ img.rows \in Nat
      /\ band \in 1 .. NumBands /\ NumTileRows \in Nat /\ mbRow \in Nat /\ tileRow \in Nat
      /\ started => tileRow \in 1 .. NumTileRows
      /\ NumCovered \in Nat
      /\ \A m \in MBRows : shown[m] \in 0 .. band
  <2>1. NumCovered \in Nat
    <3>1. NumAvailable \in Nat
      BY ImageType DEF Typed, TypeOK
    <3>2. NumCovered \in 0 .. NumAvailable
      BY NumCoveredFacts DEF Typed
    <3> QED BY <3>1, <3>2
  <2>2. band \in 1 .. NumBands /\ (started => tileRow \in 1 .. NumTileRows)
    BY <1>2, PassRange
  <2> QED BY <2>1, <2>2, ImageType, StateType DEF Typed, Steady, LinesShown, MBRows
<1> DEFINE whole == WholeBand(IF started THEN tileRow ELSE 1)
<1>4. /\ IF ~ started \/ (whole /\ NumCovered > band)
         THEN StartDecodingNextSubband
         ELSE UNCHANGED << tileRow, mbRow, line, sc, row >>
      /\ IF whole
         THEN band' = NumCovered /\ pc' = "all"
         ELSE band' = band /\ pc' \in {"tiles", "idle"}
  BY DEF StartBand
<1>5. whole => NumCovered >= band /\ ~ (NumCovered = band /\ started /\ tileRow > 1)
  BY DEF WholeBand
<1>6. band' >= band /\ band' \in Nat
  BY <1>3, <1>4, <1>5
<1>7. \A m \in MBRows : shown'[m] \in 0 .. band'
  BY <1>1, <1>3, <1>6
<1> HIDE DEF whole
<1>8. CASE StartDecodingNextSubband
  <2>1. tileRow' = 1 /\ mbRow' = 0 /\ line' = 0
    BY <1>8 DEF StartDecodingNextSubband
  <2>2. AtTop(tileRow', mbRow') /\ Enters(tileRow', mbRow') /\ Ready(sc', mbRow')
    BY <2>1 DEF AtTop, Enters, Ready
  <2>3. \A k \in MBRows : ~ (k < mbRow')
    BY <1>3, <2>1
  <2>4. Passing' => band' = band
    BY <1>4 DEF Passing
  <2>5. pc' # "rows" /\ ~ (1 < tileRow') /\ ~ (tileRow' > 1)
    BY <1>4, <2>1
  <2> QED BY <1>1, <1>7, <2>2, <2>3, <2>4, <2>5, SteadyAfter
<1>9. CASE started /\ ~ (whole /\ NumCovered > band)
  <2>1. UNCHANGED << tileRow, mbRow, line, sc, row >> /\ Passing
    BY <1>1, <1>2, <1>4, <1>9 DEF Passing
  <2>2. /\ Enters(tileRow, mbRow)
        /\ ~ Skips(tileRow) => (mbRow < img.rows => Ready(sc, mbRow))
        /\ 1 < tileRow /\ tileRow < NumTileRows /\ Skips(tileRow) => sc.tile = tileRow \/ Reached(tileRow)
        /\ \A k \in MBRows : k < mbRow => row[k] = "good" \/ Skips(TileRowOf(k))
        /\ tileRow > 1 /\ Skips(tileRow - 1) /\ line = img.tops[tileRow] - 1 => skipped
    BY <1>1, <2>1 DEF Steady, Between, Library, RowsRead, Unread
  <2>3. CASE whole
    <3>1. tileRow = 1
      BY <1>3, <1>5, <1>9, <2>3
    <3>2. mbRow = 0
      BY <2>2, <3>1 DEF Enters, AtTop
    <3>3. pc' = "all" /\ ~ Passing'
      BY <1>4, <2>3 DEF Passing
    <3>4. Ready(sc', mbRow') /\ \A k \in MBRows : ~ (k < mbRow')
      BY <1>3, <2>1, <3>2 DEF Ready
    <3> QED BY <1>1, <1>7, <3>3, <3>4, SteadyAfter
  <2>4. CASE ~ whole
    <3>1. band' = band /\ pc' \in {"tiles", "idle"}
      BY <1>4, <2>4
    <3> QED BY <1>1, <1>7, <2>1, <2>2, <3>1, SteadyAfter
  <2> QED BY <2>3, <2>4
<1> QED BY <1>4, <1>8, <1>9

LEMMA AllSteady ==
  ASSUME Typed, Steady, Complete, DecodeAll
  PROVE  Steady' /\ line \in MBRows /\ shown' = [shown EXCEPT ![line] = band] /\ Comes(TRUE)
<1>1. /\ pc = "all" /\ line < img.rows
      /\ UNCHANGED << img, phase, total, tag, infos, bandEnds, atEnd, skipped, tileRow, limit >>
  BY DEF DecodeAll
<1>2. PICK d \in Decodings :
        /\ DecodeNextMBRow(d, TRUE)
        /\ IF d[Len(d)][2] = "fail" \/ line' >= img.rows
           THEN band' = band + 1 /\ IF atEnd THEN pc' = "idle" /\ UNCHANGED << finished, started >>
                                    ELSE BandDecoded
           ELSE UNCHANGED << band, pc, finished, started >>
  BY DEF DecodeAll
<1>3. ~ finished /\ (atEnd => phase = "finishing" /\ band = NumBands)
  BY <1>1 DEF Typed, Turns
<1>4. /\ img \in Images /\ NumBands \in Nat /\ NumBands >= 1 /\ NumAvailable \in 1 .. NumBands
      /\ band \in 1 .. NumBands + 1 /\ img.rows \in Nat /\ MBRows = 0 .. img.rows - 1
      /\ line \in Nat /\ mbRow \in Nat /\ shown \in ShownType
      /\ \/ mbRow = 0 /\ line = 0
         \/ mbRow > 0 /\ mbRow = line + 1
      /\ \A m \in MBRows : shown[m] \in 0 .. band
  BY StateType, ImageType DEF Typed, Turns, MBRows, Steady, LinesShown
<1>5. band \in 1 .. NumBands
  <2>1. CASE atEnd
    BY <1>3, <1>4, <2>1
  <2>2. CASE ~ atEnd
    BY <1>3, <2>2, PassRange
  <2> QED BY <2>1, <2>2
<1>6. d[Len(d)][2] # "fail" /\ Comes(TRUE)
  <2>1. total >= ReadLimit /\ \A t \in 1 .. NumTileRows : Fits(t)
    BY <1>1, AllFit
  <2>2. \A m \in Coming : Fits(TileRowOf(m))
    BY <1>4, <2>1, RowOf DEF Coming
  <2>3. mbRow < img.rows => Ready(sc, mbRow)
    BY <1>1 DEF Steady, Library
  <2>4. TypeOK /\ Turns /\ TRUE \in BOOLEAN
    BY DEF Typed
  <2> QED BY <1>1, <1>2, <1>5, <2>1, <2>2, <2>3, <2>4, GoodDecode
<1>7. \A k \in MBRows : k < mbRow' => row'[k] = "good"
  <2>1. \A k \in MBRows : k < mbRow => row[k] = "good"
    BY <1>1 DEF Steady, RowsRead
  <2> QED BY <1>6, <2>1 DEF Comes
<1>8. line \in MBRows /\ shown' = [shown EXCEPT ![line] = band]
  <2>1. \A k \in Neighbours(line) : row'[k] = "good"
    <3> TAKE k \in Neighbours(line)
    <3>1. k \in MBRows /\ k <= line + 1
      BY <1>4 DEF Neighbours
    <3>2. k < mbRow'
      BY <1>4, <1>6, <3>1 DEF Comes
    <3> QED BY <1>7, <3>1, <3>2
  <2>2. line \in MBRows
    BY <1>1, <1>4
  <2>3. shown' = [shown EXCEPT ![line] =
                    IF \A m \in Neighbours(line) : row'[m] = "good" THEN band ELSE -1]
    BY <1>6 DEF Comes
  <2> QED BY <2>1, <2>2, <2>3
<1>9. \A m \in MBRows : shown'[m] \in 0 .. band
  BY <1>4, <1>5, <1>8 DEF ShownType
<1>10. mbRow' < img.rows => Ready(sc', mbRow')
  BY <1>6 DEF Comes
<1>11. Steady'
  <2>1. CASE UNCHANGED << band, pc, finished, started >>
    <3>1. ~ Passing' /\ pc' = "all"
      BY <1>1, <2>1 DEF Passing
    <3> QED BY <1>1, <1>7, <1>9, <1>10, <2>1, <3>1, SteadyAfter
  <2>2. CASE band' = band + 1 /\ (IF atEnd THEN pc' = "idle" /\ UNCHANGED << finished, started >> ELSE BandDecoded)
    <3>1. ~ Passing' /\ pc' \in {"idle", "band"}
      BY <1>1, <1>3, <2>2 DEF Passing, BandDecoded
    <3>2. \A m \in MBRows : shown'[m] \in 0 .. band'
      BY <1>4, <1>5, <1>9, <2>2
    <3> QED BY <1>1, <3>1, <3>2, SteadyAfter
  <2> QED BY <1>2, <2>1, <2>2
<1> QED BY <1>6, <1>8, <1>11

(* Bytes that come in and the end of the file leave a pass where it is.    *)
LEMMA IdleSteady ==
  ASSUME Typed, Steady, pc = "idle", pc' \in {"idle", "band"}, Passing' => Passing,
         UNCHANGED << img, band, skipped, tileRow, mbRow, line, sc, row, shown >>
  PROVE  Steady'
<1>1. Passing =>
        /\ Enters(tileRow, mbRow)
        /\ ~ Skips(tileRow) => (mbRow < img.rows => Ready(sc, mbRow))
        /\ 1 < tileRow /\ tileRow < NumTileRows /\ Skips(tileRow) => sc.tile = tileRow \/ Reached(tileRow)
        /\ \A k \in MBRows : k < mbRow => row[k] = "good" \/ Skips(TileRowOf(k))
        /\ tileRow > 1 /\ Skips(tileRow - 1) /\ line = img.tops[tileRow] - 1 => skipped
  BY DEF Steady, Between, Library, RowsRead, Unread
<1>2. \A m \in MBRows : shown[m] \in 0 .. band
  BY DEF Steady, LinesShown
<1> QED BY <1>1, <1>2, SteadyAfter

LEMMA WriteSteady ==
  ASSUME Typed, Steady, NEW n \in 1 .. MaxWrite, WriteInternal(n)
  PROVE  Steady'
<1>1. /\ UNCHANGED << img, phase, finished, band, started, skipped, tileRow, mbRow, line, sc, row, shown >>
      /\ phase = "receiving" /\ pc = "idle" /\ pc' \in {"idle", "band"}
  BY DEF WriteInternal, position
<1>2. Passing' => Passing
  BY <1>1 DEF Passing
<1> QED BY <1>1, <1>2, IdleSteady

LEMMA FinishSteady ==
  ASSUME Typed, Steady, FinishInternal
  PROVE  Steady'
<1>1. /\ UNCHANGED << img, total, bandEnds, atEnd, finished, started, skipped, tileRow, mbRow, line, sc, row, shown >>
      /\ phase = "receiving" /\ pc = "idle" /\ phase' = "finishing"
  BY DEF FinishInternal
<1>2. CASE atEnd
  <2>1. pc' = "all" /\ band' = Len(bandEnds) /\ ~ Passing'
    BY <1>1, <1>2 DEF FinishInternal, Passing
  <2>2. band = 1 /\ mbRow = 0
    BY <1>1, <1>2 DEF Typed, Turns
  <2>3. Len(bandEnds) = NumBands /\ NumBands \in Nat /\ NumBands >= 1 /\ MBRows = 0 .. img.rows - 1 /\ img.rows \in Nat
    BY StateType, ImageType DEF Typed, MBRows
  <2>4. \A m \in MBRows : shown'[m] \in 0 .. band'
    BY <1>1, <2>1, <2>2, <2>3 DEF Steady, LinesShown
  <2>5. Ready(sc', mbRow') /\ \A k \in MBRows : ~ (k < mbRow')
    BY <1>1, <2>2, <2>3 DEF Ready
  <2> QED BY <1>1, <2>1, <2>4, <2>5, SteadyAfter
<1>3. CASE ~ atEnd
  <2>1. pc' \in {"idle", "band"} /\ band' = band
    BY <1>3 DEF FinishInternal
  <2>2. Passing' => Passing
    BY <1>1, <1>3 DEF Passing
  <2> QED BY <1>1, <2>1, <2>2, IdleSteady
<1> QED BY <1>2, <1>3

LEMMA EndSteady ==
  ASSUME Typed, Steady, EndDecodingMBRows
  PROVE  Steady'
<1>1. /\ UNCHANGED << img, pc, atEnd, finished, band, started, skipped, tileRow, mbRow, line, sc, row, shown >>
      /\ phase = "finishing" /\ pc = "idle" /\ phase' = "done"
  BY DEF EndDecodingMBRows, position
<1>2. Passing' => Passing
  BY <1>1 DEF Passing
<1> QED BY <1>1, <1>2, IdleSteady

LEMMA SteadyInit == Init => Steady
<1> SUFFICES ASSUME Init PROVE Steady
  OBVIOUS
<1>1. img \in Images /\ pc = "idle" /\ band = 1 /\ tileRow = 1 /\ mbRow = 0 /\ shown = [m \in MBRows |-> 0]
  BY DEF Init
<1>2. MBRows = 0 .. img.rows - 1 /\ img.rows \in Nat
  BY <1>1, ImageType DEF MBRows
<1>3. Enters(tileRow, mbRow) /\ Ready(sc, mbRow) /\ \A k \in MBRows : ~ (k < mbRow)
  BY <1>1, <1>2 DEF Enters, AtTop, Ready
<1>4. LinesShown
  BY <1>1 DEF LinesShown
<1>5. Between /\ Within /\ Library /\ RowsRead /\ Unread
  BY <1>1, <1>3 DEF Between, Within, Library, RowsRead, Unread
<1> QED BY <1>4, <1>5 DEF Steady

LEMMA SteadyNext ==
  ASSUME Typed, Steady, Complete, Seamless(img), [Next]_vars
  PROVE  Steady'
<1>1. CASE UNCHANGED vars
  <2>1. /\ UNCHANGED << img, phase, pc, total, tag, infos, bandEnds, atEnd, finished, band, started, skipped >>
        /\ UNCHANGED << tileRow, limit, mbRow, line, sc, row, shown >>
    BY <1>1 DEF vars, position
  <2>2. /\ NumTileRows' = NumTileRows /\ MBRows' = MBRows
        /\ \A k : TileRowOf(k)' = TileRowOf(k)
        /\ Ready(sc, mbRow)' <=> Ready(sc, mbRow)
    BY <2>1, SameRows
  <2> QED BY <2>1, <2>2 DEF Steady, Between, Within, Library, RowsRead, Unread, LinesShown, Enters, AtTop, Reached,
                          Skips, PassEnd, Passing
<1> QED BY <1>1, WriteSteady, FinishSteady, EndSteady, StartSteady, TilesSteady, RowSteady, AllSteady
        DEF Next, Terminating

-----------------------------------------------------------------------------
(* What a pass keeps holds of complete files.                              *)
IInv == Typed /\ (Complete => Steady)

LEMMA InvAlways ==
  ASSUME \A i \in Images : Seamless(i)
  PROVE  Spec => []IInv
<1>1. Init => IInv
  BY TypedInit, SteadyInit DEF IInv
<1>2. ASSUME IInv, [Next]_vars PROVE IInv'
  <2>1. Typed'
    BY <1>2, TypedNext DEF IInv
  <2>2. img' = img
    BY <1>2, SameImage
  <2>3. ASSUME Complete PROVE Steady'
    <3>1. Seamless(img)
      BY <1>2 DEF IInv, Typed, TypeOK
    <3> QED BY <1>2, <2>3, <3>1, SteadyNext DEF IInv
  <2>4. Complete' => Complete
    BY <2>2 DEF Complete
  <2> QED BY <2>1, <2>3, <2>4 DEF IInv
<1> QED BY <1>1, <1>2, PTL DEF Spec

(* No row of a complete file is ever made from packets of another tile     *)
(* row, from what lies behind a limit, or smoothed against a row the pass  *)
(* has not read.                                                           *)
THEOREM RowsFromTheirPackets ==
  ASSUME \A i \in Images : Seamless(i)
  PROVE  Spec => []LinesGood
<1>1. IInv => LinesGood
  <2> SUFFICES ASSUME IInv, Complete, NEW m \in MBRows PROVE shown[m] # -1
    BY DEF LinesGood
  <2>1. shown[m] \in 0 .. band /\ band \in Nat
    BY StateType, ImageType DEF IInv, Typed, Steady, LinesShown
  <2> QED BY <2>1
<1> QED BY <1>1, InvAlways, PTL

LEMMA ShownGrows ==
  ASSUME Typed, Steady, Complete, Seamless(img), [Next]_vars
  PROVE  \A m \in MBRows : shown'[m] >= shown[m]
<1>1. /\ shown \in ShownType /\ NumBands \in Nat /\ band \in Nat
      /\ \A m \in MBRows : shown[m] \in 0 .. band
  BY StateType, ImageType DEF Typed, Steady, LinesShown
<1>2. CASE shown' = shown
  BY <1>1, <1>2
<1>3. CASE line \in MBRows /\ shown' = [shown EXCEPT ![line] = band]
  BY <1>1, <1>3 DEF ShownType
<1>4. CASE DecodeRow
  <2>1. pc = "rows" /\ line < img.rows
    BY <1>4 DEF DecodeRow
  <2>2. RowStays \/ RowLeaves \/ RowBlocked
    BY <1>4, RowOutcome DEF Steady
  <2>3. CASE Comes(Output)
    <3>1. line \in MBRows /\ shown' = IF Output THEN [shown EXCEPT ![line] = band] ELSE shown
      BY <2>1, <2>3, RowShown
    <3> QED BY <1>2, <1>3, <3>1
  <2> QED BY <1>2, <2>2, <2>3 DEF RowStays, RowLeaves, RowBlocked
<1>5. CASE DecodeAll
  BY <1>3, <1>5, AllSteady
<1>6. CASE UNCHANGED vars \/ FinishInternal \/ EndDecodingMBRows \/ StartBand \/ Tiles \/ Terminating
           \/ \E n \in 1 .. MaxWrite : WriteInternal(n)
  <2>1. shown' = shown
    BY <1>6 DEF vars, FinishInternal, EndDecodingMBRows, StartBand, Tiles, Terminating, WriteInternal
  <2> QED BY <1>2, <2>1
<1> QED BY <1>4, <1>5, <1>6 DEF Next

(* The picture only gets better: no row is ever put out with fewer bands   *)
(* than it shows.                                                          *)
THEOREM OnlyBetter ==
  ASSUME \A i \in Images : Seamless(i)
  PROVE  Spec => QualityGrows
<1>1. ASSUME IInv, [Next]_vars
      PROVE  [Complete => \A m \in MBRows : shown'[m] >= shown[m]]_vars
  <2>1. Seamless(img)
    BY <1>1 DEF IInv, Typed, TypeOK
  <2> QED BY <1>1, <2>1, ShownGrows DEF IInv
<1> QED BY <1>1, InvAlways, PTL DEF Spec, QualityGrows

-----------------------------------------------------------------------------
(* Every row is refined.                                                   *)

(* Row m, shown as s says, has of the first b bands all that it depends on.*)
Refined(s, b, m) ==
  \A k \in Neighbours(m), a \in Bands(img) : a <= b /\ HasBand(img, TileRowOf(k), a) => s[m] >= a

Sharp ==
  /\ pc # "all" => \A m \in MBRows : Refined(shown, band - 1, m)
  /\ Passing \/ pc = "all" => \A m \in MBRows : m < line => Refined(shown, band, m)

(* The next row to come out is that of a tile row that was skipped.        *)
Flagged ==
  skipped /\ ~ finished => Passing /\ tileRow > 1 /\ Skips(tileRow - 1) /\ line = img.tops[tileRow] - 1

(* The decoder rests only if the next tile row has not arrived, or nothing *)
(* is left.                                                                *)
Waiting ==
  /\ pc = "idle" /\ total >= img.head /\ ~ atEnd /\ ~ finished =>
       /\ phase = "receiving" /\ started
       /\ IF NumTileRows > 1 THEN total < infos[tileRow][band]
          ELSE \E a \in 1 .. band : total < bandEnds[a]
  /\ pc = "idle" /\ atEnd /\ phase # "receiving" => band = NumBands + 1

Refining == Sharp /\ Flagged /\ Waiting

LEMMA SharpAfter ==
  ASSUME img' = img,
         pc' # "all" => \A m \in MBRows : Refined(shown', band' - 1, m),
         Passing' \/ pc' = "all" => \A m \in MBRows : m < line' => Refined(shown', band', m)
  PROVE  Sharp'
<1>1. NumTileRows' = NumTileRows /\ MBRows' = MBRows /\ \A k : TileRowOf(k)' = TileRowOf(k)
  BY SameRows
<1>2. \A m : Neighbours(m)' = Neighbours(m)
  BY <1>1 DEF Neighbours, Smoothed
<1> QED BY <1>1, <1>2 DEF Sharp, Refined

LEMMA FlaggedAfter ==
  ASSUME img' = img,
         skipped' /\ ~ finished' =>
           Passing' /\ band' = band /\ tileRow' > 1 /\ Skips(tileRow' - 1) /\ line' = img.tops[tileRow'] - 1
  PROVE  Flagged'
BY DEF Flagged, Skips

(* A row shown with the band of the pass is refined, and one of a tile row *)
(* that lacks the band needs no refinement.                                *)
LEMMA RefinedByShowing ==
  ASSUME NEW s, NEW b \in Nat, NEW m, s[m] = b, img \in Images
  PROVE  Refined(s, b, m)
BY ImageType DEF Refined

LEMMA RefinedBefore ==
  ASSUME img \in Images, NEW s, NEW m \in MBRows, NEW t \in 1 .. NumTileRows, TileRowOf(m) = t, Skips(t),
         band \in 1 .. NumBands, Refined(s, band - 1, m)
  PROVE  Refined(s, band, m)
<1>1. SUFFICES ASSUME NEW k \in Neighbours(m), NEW a \in Bands(img), a <= band, HasBand(img, TileRowOf(k), a)
               PROVE  s[m] >= a
  BY DEF Refined
<1>2. TileRowOf(k) = t /\ a # band
  BY <1>1 DEF Neighbours, Smoothed, Skips
<1>3. a \in Nat /\ NumBands \in Nat
  BY ImageType
<1>4. a <= band - 1
  BY <1>1, <1>2, <1>3
<1> QED BY <1>1, <1>4 DEF Refined

(* A row that comes out is refined.                                        *)
LEMMA RefinedLine ==
  ASSUME TypeOK, NEW s, NEW b \in Nat, NEW r, line \in MBRows, r = [s EXCEPT ![line] = b], s \in ShownType,
         \A m \in MBRows : m < line => Refined(s, b, m)
  PROVE  \A m \in MBRows : m < line + 1 => Refined(r, b, m)
<1> SUFFICES ASSUME NEW m \in MBRows, m < line + 1 PROVE Refined(r, b, m)
  OBVIOUS
<1>1. img \in Images /\ line \in Nat /\ m \in Nat
  BY StateType, RowOf
<1>2. CASE m = line
  <2>1. r[m] = b
    BY <1>2 DEF ShownType
  <2> QED BY <1>1, <2>1, RefinedByShowing
<1>3. CASE m < line
  <2>1. r[m] = s[m]
    BY <1>1, <1>3 DEF ShownType
  <2> QED BY <1>3, <2>1 DEF Refined
<1> QED BY <1>1, <1>2, <1>3

LEMMA RowRefining ==
  ASSUME Typed, Steady, Refining, Complete, Seamless(img), DecodeRow
  PROVE  Refining'
<1>1. /\ pc = "rows" /\ line < img.rows /\ skipped' = FALSE
      /\ UNCHANGED << img, phase, total, tag, infos, bandEnds, atEnd, limit >>
  BY DEF DecodeRow
<1>2. RowStays \/ RowLeaves \/ RowBlocked
  BY RowOutcome DEF Steady
<1>3. ~ finished /\ ~ atEnd /\ started /\ NumTileRows > 1 /\ Passing
  BY <1>1 DEF Typed, Turns, Passing
<1>4. tileRow \in 1 .. NumTileRows /\ band \in 1 .. NumBands
  BY <1>3, PassRange
<1>5. /\ img \in Images /\ NumTileRows \in Nat /\ img.rows \in Nat /\ line \in Nat /\ mbRow \in Nat
      /\ NumBands \in Nat /\ shown \in ShownType /\ MBRows = 0 .. img.rows - 1 /\ band \in Nat
      /\ \A t \in 1 .. NumTileRows : img.tops[t] \in Nat
  <2>1. img \in Images /\ line \in 0 .. img.rows /\ mbRow \in 0 .. img.rows + 1 /\ shown \in ShownType
    BY StateType DEF Typed
  <2>2. /\ NumTileRows \in Nat /\ img.rows \in Nat /\ NumBands \in Nat
        /\ \A t \in 1 .. NumTileRows : img.tops[t] \in Nat
    BY <2>1, ImageType
  <2>3. band \in Nat
    BY <1>4, <2>2
  <2> QED BY <2>1, <2>2, <2>3 DEF MBRows
<1>6. /\ \A m \in MBRows : Refined(shown, band - 1, m)
      /\ \A m \in MBRows : m < line => Refined(shown, band, m)
  BY <1>1, <1>3 DEF Refining, Sharp
<1>7. Flagged'
  BY <1>1, FlaggedAfter
<1>8. ASSUME Comes(Output)
      PROVE  /\ \A m \in MBRows : Refined(shown', band - 1, m)
             /\ \A m \in MBRows : m < line' => Refined(shown', band, m)
  <2>1. line' = line + 1
    BY <1>8 DEF Comes
  <2>2. line \in MBRows /\ shown' = IF Output THEN [shown EXCEPT ![line] = band] ELSE shown
    BY <1>1, <1>8, RowShown
  <2>3. CASE Output
    <3>1. shown' = [shown EXCEPT ![line] = band]
      BY <2>2, <2>3
    <3>2. \A m \in MBRows : m < line + 1 => Refined(shown', band, m)
      BY <1>5, <1>6, <2>2, <3>1, RefinedLine DEF Typed
    <3>3. ASSUME NEW m \in MBRows PROVE Refined(shown', band - 1, m)
      <4>1. CASE m = line
        <5>1. shown'[m] = band
          BY <1>5, <2>2, <3>1, <4>1 DEF ShownType
        <5>2. Bands(img) = 1 .. NumBands
          BY <1>5, ImageType
        <5> QED BY <1>5, <5>1, <5>2 DEF Refined
      <4>2. CASE m # line
        <5>1. shown'[m] = shown[m]
          BY <1>5, <3>1, <4>2 DEF ShownType
        <5> QED BY <1>6, <5>1 DEF Refined
      <4> QED BY <4>1, <4>2
    <3> QED BY <2>1, <3>2, <3>3
  <2>4. CASE ~ Output
    <3>1. shown' = shown /\ skipped
      BY <2>2, <2>4 DEF Output
    <3>2. tileRow > 1 /\ Skips(tileRow - 1) /\ line = img.tops[tileRow] - 1
      BY <1>3, <3>1 DEF Refining, Flagged
    <3>3. tileRow - 1 \in 1 .. NumTileRows /\ TileRowOf(line) = tileRow - 1
      <4>1. tileRow - 1 \in 1 .. NumTileRows /\ tileRow - 1 < NumTileRows /\ (tileRow - 1) + 1 = tileRow
        BY <1>4, <1>5, <3>2
      <4>2. LastRow(img, tileRow - 1) = img.tops[tileRow] /\ img.tops[tileRow - 1] \in Nat
            /\ img.tops[tileRow - 1] < LastRow(img, tileRow - 1) /\ LastRow(img, tileRow - 1) \in Nat
        BY <1>5, <4>1, LastRows
      <4>3. img.tops[tileRow - 1] <= line /\ line < LastRow(img, tileRow - 1)
        BY <1>5, <3>2, <4>2
      <4> QED BY <1>5, <2>2, <4>1, <4>3, RowIn
    <3>4. Refined(shown, band, line)
      BY <1>4, <1>5, <1>6, <2>2, <3>2, <3>3, RefinedBefore
    <3>5. \A m \in MBRows : m < line + 1 => m < line \/ m = line
      BY <1>5
    <3> QED BY <1>6, <2>1, <3>1, <3>4, <3>5
  <2> QED BY <2>3, <2>4
<1>9. ASSUME LeaveTileRow, tileRow < NumTileRows,
             \A m \in MBRows : Refined(shown', band - 1, m),
             \A m \in MBRows : m < line' => Refined(shown', band, m)
      PROVE  Refining'
  <2>1. pc' = "tiles" /\ band' = band
    BY <1>1, <1>5, <1>9, AfterLeaving
  <2>2. Sharp'
    BY <1>1, <1>9, <2>1, SharpAfter
  <2>3. Waiting'
    BY <2>1 DEF Waiting
  <2> QED BY <1>7, <2>2, <2>3 DEF Refining
<1>10. CASE RowStays
  <2>1. /\ Comes(Output) /\ UNCHANGED << tileRow, band, pc, finished, started >>
    BY <1>10 DEF RowStays
  <2>2. Sharp'
    BY <1>1, <1>8, <2>1, SharpAfter
  <2>3. Waiting'
    BY <1>1, <2>1 DEF Waiting
  <2> QED BY <1>7, <2>2, <2>3 DEF Refining
<1>11. CASE RowLeaves /\ tileRow < NumTileRows
  BY <1>8, <1>9, <1>11 DEF RowLeaves
<1>12. CASE RowLeaves /\ tileRow = NumTileRows
  <2>1. Comes(Output) /\ LeaveTileRow /\ line' = img.rows
    BY <1>12 DEF RowLeaves
  <2>2. band' = band + 1 /\ ~ Passing' /\ pc' \in {"idle", "band"} /\ BandDecoded
    BY <1>1, <1>5, <1>12, <2>1, AfterLeaving
  <2>3. \A m \in MBRows : Refined(shown', band' - 1, m)
    <3>1. band' - 1 = band /\ \A m \in MBRows : m < line'
      BY <1>4, <1>5, <2>1, <2>2
    <3> QED BY <1>8, <2>1, <3>1
  <2>4. Sharp'
    BY <1>1, <2>2, <2>3, SharpAfter
  <2>5. Waiting'
    <3>1. pc' = "idle" => finished'
      BY <2>2 DEF BandDecoded
    <3> QED BY <1>1, <1>3, <3>1 DEF Waiting
  <2> QED BY <1>7, <2>4, <2>5 DEF Refining
<1>13. CASE RowBlocked
  <2>1. LeaveTileRow /\ tileRow < NumTileRows /\ line' = line /\ shown' = shown
    BY <1>13 DEF RowBlocked
  <2> QED BY <1>6, <1>9, <2>1
<1>14. tileRow < NumTileRows \/ tileRow = NumTileRows
  BY <1>4, <1>5
<1> QED BY <1>2, <1>10, <1>11, <1>12, <1>13, <1>14

LEMMA AllRefining ==
  ASSUME Typed, Steady, Refining, Complete, DecodeAll
  PROVE  Refining'
<1>1. /\ pc = "all" /\ line < img.rows
      /\ UNCHANGED << img, phase, total, tag, infos, bandEnds, atEnd, skipped, tileRow, limit >>
  BY DEF DecodeAll
<1>2. line \in MBRows /\ shown' = [shown EXCEPT ![line] = band] /\ Comes(TRUE)
  BY AllSteady
<1>3. PICK d \in Decodings :
        /\ DecodeNextMBRow(d, TRUE)
        /\ IF d[Len(d)][2] = "fail" \/ line' >= img.rows
           THEN band' = band + 1 /\ IF atEnd THEN pc' = "idle" /\ UNCHANGED << finished, started >>
                                    ELSE BandDecoded
           ELSE UNCHANGED << band, pc, finished, started >>
  BY DEF DecodeAll
<1>4. ~ finished /\ (atEnd => phase = "finishing" /\ band = NumBands) /\ ~ Passing
  BY <1>1 DEF Typed, Turns, Passing
<1>5. /\ img \in Images /\ img.rows \in Nat /\ line \in Nat /\ shown \in ShownType
      /\ MBRows = 0 .. img.rows - 1 /\ band \in Nat
  BY ImageType, StateType DEF Typed, MBRows
<1>6. line' = line + 1
  BY <1>2 DEF Comes
<1>7. d[Len(d)][2] # "fail"
  BY <1>3, <1>5, <1>6 DEF DecodeNextMBRow
<1>8. \A m \in MBRows : m < line + 1 => Refined(shown', band, m)
  <2>1. \A m \in MBRows : m < line => Refined(shown, band, m)
    BY <1>1 DEF Refining, Sharp
  <2> QED BY <1>2, <1>5, <2>1, RefinedLine DEF Typed
<1>9. ~ skipped /\ ~ skipped'
  BY <1>1, <1>4 DEF Refining, Flagged
<1>10. Flagged'
  BY <1>1, <1>9, FlaggedAfter
<1>11. CASE UNCHANGED << band, pc, finished, started >>
  <2>1. Sharp'
    BY <1>1, <1>6, <1>8, <1>11, SharpAfter
  <2>2. Waiting'
    BY <1>1, <1>11 DEF Waiting
  <2> QED BY <1>10, <2>1, <2>2 DEF Refining
<1>12. CASE /\ line' >= img.rows /\ band' = band + 1
            /\ IF atEnd THEN pc' = "idle" /\ UNCHANGED << finished, started >> ELSE BandDecoded
  <2>1. \A m \in MBRows : Refined(shown', band' - 1, m)
    <3>1. band' - 1 = band /\ \A m \in MBRows : m < line + 1
      BY <1>5, <1>6, <1>12
    <3> QED BY <1>8, <3>1
  <2>2. ~ Passing' /\ pc' \in {"idle", "band"}
    BY <1>1, <1>4, <1>12 DEF Passing, BandDecoded
  <2>3. Sharp'
    BY <1>1, <2>1, <2>2, SharpAfter
  <2>4. Waiting'
    <3>1. CASE atEnd
      <4>1. band' = NumBands' + 1
        BY <1>1, <1>4, <1>12, <3>1 DEF NumBands
      <4> QED BY <1>1, <3>1, <4>1 DEF Waiting
    <3>2. CASE ~ atEnd
      <4>1. pc' = "idle" => finished'
        BY <1>12, <3>2 DEF BandDecoded
      <4> QED BY <1>1, <3>2, <4>1 DEF Waiting
    <3> QED BY <3>1, <3>2
  <2> QED BY <1>10, <2>3, <2>4 DEF Refining
<1> QED BY <1>3, <1>7, <1>11, <1>12

LEMMA TilesRefining ==
  ASSUME Typed, Steady, Refining, Complete, Refinable(img), Tiles
  PROVE  Refining'
<1>1. /\ pc = "tiles" /\ UNCHANGED << img, phase, total, tag, infos, bandEnds, atEnd, shown >>
  BY DEF Tiles
<1>2. ~ finished /\ ~ atEnd /\ started /\ NumTileRows > 1 /\ Passing
  BY <1>1 DEF Typed, Turns, Passing
<1>3. tileRow \in 1 .. NumTileRows /\ band \in 1 .. NumBands /\ band \in 1 .. NumAvailable
  BY <1>2, PassRange
<1>4. /\ img \in Images /\ NumTileRows \in Nat /\ img.rows \in Nat /\ line \in Nat /\ mbRow \in Nat
      /\ NumBands \in Nat /\ MBRows = 0 .. img.rows - 1
      /\ \/ mbRow = 0 /\ line = 0
         \/ mbRow > 0 /\ mbRow = line + 1
      /\ \A t \in 1 .. NumTileRows : img.tops[t] \in Nat
      /\ TileRows(img) = 1 .. NumTileRows /\ NumAvailable \in 1 .. NumBands
      /\ total \in Nat /\ tag \in Nat
  BY ImageType, StateType DEF Typed, Turns, MBRows
<1>5. /\ \A r \in 1 .. NumTileRows : infos[r][band] = 0 <=> ~ HasBand(img, r, band)
      /\ infos[tileRow][band] \in Nat /\ infos[tileRow][band] <= tag
  BY <1>3, InfosFacts DEF Typed
<1>6. /\ \A m \in MBRows : Refined(shown, band - 1, m)
      /\ \A m \in MBRows : m < line => Refined(shown, band, m)
      /\ skipped => tileRow > 1 /\ Skips(tileRow - 1) /\ line = img.tops[tileRow] - 1
  BY <1>1, <1>2 DEF Refining, Sharp, Flagged
<1>7. CASE infos[tileRow][band] # 0 /\ total < infos[tileRow][band]
  <2>1. pc' = "idle" /\ UNCHANGED << tileRow, limit, mbRow, line, sc, row, band, finished, started, skipped >>
    BY <1>7 DEF Tiles, position
  <2>2. Sharp'
    BY <1>1, <1>6, <2>1, SharpAfter
  <2>3. Passing'
    BY <1>1, <1>2, <2>1 DEF Passing
  <2>4. Flagged'
    BY <1>1, <1>6, <2>1, <2>3, FlaggedAfter
  <2>5. phase = "receiving"
    <3>1. phase # "receiving" => total >= tag
      BY DEF Typed, Turns
    <3> QED BY <1>4, <1>5, <1>7, <3>1
  <2>6. NumTileRows' = NumTileRows
    BY <1>1 DEF NumTileRows
  <2>7. Waiting'
    BY <1>1, <1>2, <1>7, <2>1, <2>5, <2>6 DEF Waiting
  <2> QED BY <2>2, <2>4, <2>7 DEF Refining
<1>8. CASE ~ (infos[tileRow][band] # 0 /\ total < infos[tileRow][band]) /\ ~ CanSkip
  <2>1. /\ pc' = "rows"
        /\ UNCHANGED << tileRow, mbRow, line, sc, row, band, finished, started, skipped >>
    BY <1>8 DEF Tiles
  <2>2. Sharp'
    BY <1>1, <1>6, <2>1, SharpAfter
  <2>3. Passing'
    BY <1>1, <1>2, <2>1 DEF Passing
  <2>4. Flagged'
    BY <1>1, <1>6, <2>1, <2>3, FlaggedAfter
  <2>5. Waiting'
    BY <2>1 DEF Waiting
  <2> QED BY <2>2, <2>4, <2>5 DEF Refining
<1>9. CASE ~ (infos[tileRow][band] # 0 /\ total < infos[tileRow][band]) /\ CanSkip
  <2>1. /\ IF tileRow < NumTileRows
           THEN /\ mbRow' = img.tops[tileRow + 1]
                /\ sc' = SetCurrentTileRow(tileRow + 1)
                /\ line' = RowTop(img, tileRow + 1)
                /\ skipped' = TRUE
           ELSE UNCHANGED << mbRow, sc, line, skipped >>
        /\ LeaveTileRow /\ UNCHANGED << limit, row >>
    BY <1>9 DEF Tiles
  <2>2. Skips(tileRow)
    <3>1. ~ HasBand(img, tileRow, band)
      BY <1>3, <1>5, <1>9 DEF CanSkip
    <3>2. ~ img.overlap
      BY <1>3, <1>4, <1>9, <3>1 DEF Refinable, Seamless, NumTileRows, NumAvailable, CanSkip
    <3> QED BY <1>4, <3>1, <3>2 DEF Skips
  <2>3. ~ img.overlap /\ ~ HasBand(img, tileRow, band)
    BY <2>2 DEF Skips
(* What comes before the next tile row is not smoothed against anything    *)
(* that has the band.                                                      *)
  <2>4. ASSUME NEW m \in MBRows, m < LastRow(img, tileRow) PROVE Refined(shown, band, m)
    <3>1. PICK x \in Nat : x = img.tops[tileRow]
      BY <1>3, <1>4
    <3>2. CASE m < line
      BY <1>6, <3>2
    <3>3. CASE ~ (m < line) /\ x <= m
      <4>1. TileRowOf(m) = tileRow
        BY <1>3, <1>4, <2>4, <3>1, <3>3, RowIn
      <4> QED BY <1>3, <1>4, <1>6, <2>2, <4>1, RefinedBefore
    <3>4. CASE ~ (m < line) /\ ~ (x <= m)
      <4>1. Enters(tileRow, mbRow) /\ m \in Nat
        BY <1>1, <1>2, <1>4 DEF Steady, Between
      <4>2. x > 0
        BY <3>1, <3>4, <4>1
      <4>3. tileRow > 1 /\ ~ AtTop(tileRow, mbRow)
        <5>1. tileRow # 1
          <6>1. img.tops[1] = 0
            BY <1>4, FirstRow
          <6> QED BY <3>1, <4>2, <6>1
        <5>2. ~ AtTop(tileRow, mbRow)
          BY <2>3, <5>1 DEF AtTop
        <5> QED BY <1>3, <1>4, <5>1, <5>2
      <4>4. mbRow = x /\ (Skips(tileRow - 1) \/ Reached(tileRow))
        <5>1. mbRow = x \/ mbRow = x + 1
          BY <3>1, <4>1, <4>3 DEF Enters
        <5>2. mbRow # x + 1
          BY <1>4, <3>1, <3>4, <4>1
        <5> QED BY <2>2, <3>1, <4>1, <4>3, <5>1, <5>2 DEF Enters
      <4>5. Skips(tileRow - 1)
        <5>1. ~ Reached(tileRow)
          BY <1>2, <1>3, <2>3 DEF Reached, Refinable, NumTileRows, NumAvailable
        <5> QED BY <4>4, <5>1
      <4>6. m = x - 1 /\ m + 1 = x
        BY <1>4, <3>1, <3>4, <4>1, <4>2, <4>4
      <4>7. tileRow - 1 \in 1 .. NumTileRows /\ TileRowOf(m) = tileRow - 1
        <5>1. tileRow - 1 \in 1 .. NumTileRows /\ tileRow - 1 < NumTileRows /\ (tileRow - 1) + 1 = tileRow
          BY <1>3, <1>4, <4>3
        <5>2. LastRow(img, tileRow - 1) = x /\ img.tops[tileRow - 1] \in Nat
              /\ img.tops[tileRow - 1] < LastRow(img, tileRow - 1)
          BY <1>4, <3>1, <5>1, LastRows
        <5>3. img.tops[tileRow - 1] <= m /\ m < LastRow(img, tileRow - 1)
          BY <4>1, <4>6, <5>2
        <5> QED BY <1>4, <5>1, <5>3, RowIn
      <4> QED BY <1>3, <1>4, <1>6, <4>5, <4>7, RefinedBefore
    <3> QED BY <3>2, <3>3, <3>4
  <2>5. CASE tileRow < NumTileRows
    <3>1. /\ tileRow' = tileRow + 1 /\ tileRow + 1 \in 1 .. NumTileRows /\ pc' = "tiles"
          /\ band' = band /\ Passing' /\ tileRow' > 1 /\ tileRow' - 1 = tileRow
      BY <1>1, <1>3, <1>4, <2>1, <2>5, AfterLeaving
    <3>2. line' = img.tops[tileRow'] - 1
      BY <1>3, <1>4, <2>1, <2>5, <3>1 DEF RowTop
    <3>3. Flagged'
      BY <1>1, <2>2, <3>1, <3>2, FlaggedAfter
    <3>4. LastRow(img, tileRow) = img.tops[tileRow'] /\ LastRow(img, tileRow) \in Nat
      BY <1>3, <1>4, <2>5, <3>1, LastRows
    <3>5. \A m \in MBRows : m < line' => Refined(shown', band', m)
      BY <1>1, <1>4, <2>4, <3>1, <3>2, <3>4
    <3>6. Sharp'
      BY <1>1, <1>6, <3>1, <3>5, SharpAfter
    <3>7. Waiting'
      BY <3>1 DEF Waiting
    <3> QED BY <3>3, <3>6, <3>7 DEF Refining
  <2>6. CASE ~ (tileRow < NumTileRows)
    <3>1. band' = band + 1 /\ ~ Passing' /\ pc' \in {"idle", "band"} /\ BandDecoded /\ tileRow = NumTileRows
      BY <1>1, <1>3, <1>4, <2>1, <2>6, AfterLeaving
    <3>2. \A m \in MBRows : Refined(shown', band' - 1, m)
      <4>1. LastRow(img, tileRow) = img.rows /\ band' - 1 = band
        BY <1>3, <1>4, <3>1, LastRows
      <4> QED BY <1>1, <1>4, <2>4, <4>1
    <3>3. Sharp'
      BY <1>1, <3>1, <3>2, SharpAfter
    <3>4. Waiting'
      <4>1. pc' = "idle" => finished'
        BY <3>1 DEF BandDecoded
      <4> QED BY <1>1, <1>2, <4>1 DEF Waiting
    <3>5. Flagged'
      <4>1. CASE skipped
        <5>1. ~ HasBand(img, NumTileRows - 1, band) /\ ~ HasBand(img, NumTileRows, band)
          BY <1>6, <2>3, <3>1, <4>1 DEF Skips
        <5>2. band \notin 1 .. NumAvailable - 1
          BY <1>2, <2>3, <5>1 DEF Refinable, NumTileRows, NumAvailable
        <5>3. band' > NumAvailable
          BY <1>3, <1>4, <3>1, <5>2
        <5>4. finished'
          BY <3>1, <5>3 DEF BandDecoded
        <5> QED BY <5>4 DEF Flagged
      <4>2. CASE ~ skipped
        <5>1. ~ skipped'
          BY <2>1, <2>6, <4>2
        <5> QED BY <5>1 DEF Flagged
      <4> QED BY <4>1, <4>2
    <3> QED BY <3>3, <3>4, <3>5 DEF Refining
  <2> QED BY <2>5, <2>6
<1> QED BY <1>7, <1>8, <1>9

(* A picture of a single tile row is complete when its tag says so.        *)
LEMMA SingleRow ==
  ASSUME Typed, Refinable(img), NumTileRows = 1
  PROVE  \A b \in 1 .. NumAvailable :
           /\ HasBand(img, 1, b) /\ infos[1][b] # 0 /\ bandEnds[b] = BandUpperLimit(img, 1, b)
           /\ bandEnds[b] # 0 /\ bandEnds[b] \in Nat /\ bandEnds[b] <= img.upper
<1> TAKE b \in 1 .. NumAvailable
<1>1. /\ img \in Images /\ WellFormed(img) /\ TileRows(img) = 1 .. 1 /\ Bands(img) = 1 .. NumBands
      /\ NumBands \in Nat /\ NumAvailable \in 1 .. NumBands
  BY ImageType DEF Typed, TypeOK
<1>2. b \in 1 .. NumBands /\ b \in Bands(img) /\ 1 \in 1 .. NumTileRows
  BY <1>1
<1>3. HasBand(img, 1, b)
  BY DEF Refinable, NumTileRows, NumAvailable
<1>4. infos[1][b] # 0
  BY <1>2, <1>3, InfosFacts DEF Typed
<1>5. bandEnds[b] = SubbandUpperLimit(img, b)
  BY <1>2 DEF Typed, Limits
<1>6. PICK s \in TileRows(img) : SubbandUpperLimit(img, b) = BandUpperLimit(img, s, b)
  BY <1>1, <1>2, <1>3, BandEnds
<1>7. s = 1
  BY <1>1, <1>6
<1>8. /\ BandUpperLimit(img, 1, b) \in Nat /\ BandUpperLimit(img, 1, b) >= 1
      /\ BandUpperLimit(img, 1, b) <= img.upper
  BY <1>1, <1>2, <1>3, BandLimits
<1> QED BY <1>3, <1>4, <1>5, <1>6, <1>7, <1>8

LEMMA SingleTag ==
  ASSUME Typed, Complete, Refinable(img), NumTileRows = 1
  PROVE  tag = img.upper
<1>1. img.upper = img.content
  BY DEF Refinable, NumTileRows
<1>2. img.upper \in Nat /\ img.size \in Nat
  BY ImageType DEF Typed, TypeOK
<1> QED BY <1>1, <1>2 DEF Typed, Limits, Complete

LEMMA StartRefining ==
  ASSUME Typed, Steady, Refining, Complete, Refinable(img), StartBand
  PROVE  Refining'
<1>1. /\ pc = "band" /\ started' = TRUE
      /\ UNCHANGED << img, phase, total, tag, infos, bandEnds, atEnd, finished, skipped, shown >>
  BY DEF StartBand
<1>2. ~ finished /\ ~ atEnd
  BY <1>1 DEF Typed, Turns
<1>3. /\ img \in Images /\ NumBands \in Nat /\ MBRows = 0 .. img.rows - 1 /\ img.rows \in Nat
      /\ band \in 1 .. NumBands /\ band \in 1 .. NumAvailable /\ NumTileRows \in Nat /\ NumTileRows >= 1
      /\ mbRow \in Nat /\ tileRow \in Nat /\ line \in Nat /\ total \in Nat /\ tag \in Nat
      /\ started => tileRow \in 1 .. NumTileRows
      /\ NumAvailable \in 1 .. NumBands /\ NumCovered \in Nat
      /\ \/ mbRow = 0 /\ line = 0
         \/ mbRow > 0 /\ mbRow = line + 1
  <2>1. NumCovered \in Nat
    <3>1. NumAvailable \in Nat
      BY ImageType DEF Typed, TypeOK
    <3>2. NumCovered \in 0 .. NumAvailable
      BY NumCoveredFacts DEF Typed
    <3> QED BY <3>1, <3>2
  <2>2. band \in 1 .. NumBands /\ band \in 1 .. NumAvailable /\ (started => tileRow \in 1 .. NumTileRows)
    BY <1>2, PassRange
  <2> QED BY <2>1, <2>2, ImageType, StateType DEF Typed, Turns, MBRows
<1> DEFINE whole == WholeBand(IF started THEN tileRow ELSE 1)
<1>4. /\ IF ~ started \/ (whole /\ NumCovered > band)
         THEN StartDecodingNextSubband
         ELSE UNCHANGED << tileRow, mbRow, line, sc, row >>
      /\ IF whole
         THEN band' = NumCovered /\ pc' = "all"
         ELSE band' = band /\ pc' = IF NumTileRows > 1 THEN "tiles" ELSE "idle"
  BY DEF StartBand
<1>5. whole => /\ NumCovered >= band /\ ~ (NumCovered = band /\ started /\ tileRow > 1)
               /\ ~ HasEmptyTileRow(band)
  BY DEF WholeBand
<1>6. ~ whole => \/ NumCovered < band
                 \/ started /\ tileRow > 1
                 \/ HasEmptyTileRow(band)
  BY <1>3 DEF WholeBand
<1> HIDE DEF whole
<1>7. \A m \in MBRows : Refined(shown, band - 1, m)
  BY <1>1 DEF Refining, Sharp
<1>8. Sharp'
  <2>1. CASE StartDecodingNextSubband
    <3>1. line' = 0 /\ \A m \in MBRows : ~ (m < line')
      BY <1>3, <2>1 DEF StartDecodingNextSubband
    <3>2. pc' # "all" => band' = band
      BY <1>4
    <3> QED BY <1>1, <1>7, <3>1, <3>2, SharpAfter
  <2>2. CASE started /\ ~ (whole /\ NumCovered > band)
    <3>1. UNCHANGED << tileRow, mbRow, line, sc, row >> /\ Passing
      BY <1>1, <1>2, <1>4, <2>2 DEF Passing
    <3>2. CASE whole
      <4>1. tileRow = 1
        BY <1>3, <1>5, <2>2, <3>2
      <4>2. mbRow = 0
        BY <1>1, <3>1, <4>1 DEF Steady, Between, Enters, AtTop
      <4>3. \A m \in MBRows : ~ (m < line')
        BY <1>3, <3>1, <4>2
      <4>4. pc' = "all"
        BY <1>4, <3>2
      <4> QED BY <1>1, <4>3, <4>4, SharpAfter
    <3>3. CASE ~ whole
      <4>1. band' = band /\ pc' # "all"
        BY <1>4, <3>3
      <4>2. \A m \in MBRows : m < line => Refined(shown, band, m)
        BY <3>1 DEF Refining, Sharp
      <4> QED BY <1>1, <1>7, <3>1, <4>1, <4>2, SharpAfter
    <3> QED BY <3>2, <3>3
  <2> QED BY <1>4, <2>1, <2>2
<1>9. Flagged'
  <2>1. ASSUME skipped
        PROVE  Passing' /\ band' = band /\ tileRow' > 1 /\ Skips(tileRow' - 1) /\ line' = img.tops[tileRow'] - 1
    <3>1. Passing /\ tileRow > 1 /\ Skips(tileRow - 1) /\ line = img.tops[tileRow] - 1
      BY <1>2, <2>1 DEF Refining, Flagged
    <3>2. ~ whole
      <4>1. tileRow - 1 \in 1 .. NumTileRows
        BY <1>3, <3>1 DEF Passing
      <4>2. infos[tileRow - 1][band] = 0
        BY <1>3, <3>1, <4>1, InfosFacts DEF Skips, Typed
      <4> QED BY <1>5, <4>1, <4>2 DEF HasEmptyTileRow
    <3>3. started
      BY <3>1 DEF Passing
    <3>4. band' = band /\ UNCHANGED << tileRow, line >> /\ pc' # "all"
      BY <1>4, <3>2, <3>3
    <3>5. Passing'
      BY <1>1, <1>2, <3>4 DEF Passing
    <3> QED BY <3>1, <3>4, <3>5
  <2> QED BY <1>1, <2>1, FlaggedAfter
<1>10. Waiting'
  <2>1. CASE pc' # "idle"
    BY <2>1 DEF Waiting
  <2>2. CASE pc' = "idle"
    <3>1. ~ whole /\ NumTileRows = 1 /\ band' = band
      BY <1>3, <1>4, <2>2
    <3>2. \A b \in 1 .. NumAvailable :
            /\ HasBand(img, 1, b) /\ infos[1][b] # 0 /\ bandEnds[b] # 0 /\ bandEnds[b] \in Nat /\ bandEnds[b] <= img.upper
      BY <3>1, SingleRow
    <3>3. NumCovered < band
      <4>1. ~ HasEmptyTileRow(band)
        BY <1>3, <3>1, <3>2 DEF HasEmptyTileRow
      <4>2. ~ (started /\ tileRow > 1)
        BY <1>3, <3>1
      <4> QED BY <1>6, <3>1, <4>1, <4>2
    <3>4. PICK a \in 1 .. band : ~ (total >= bandEnds[a])
      <4>1. bandEnds[band] # 0 /\ (\A a \in 1 .. band : total >= bandEnds[a]) => band <= NumCovered
        BY <1>3, NumCoveredFacts DEF Typed
      <4>2. bandEnds[band] # 0 /\ ~ (band <= NumCovered)
        BY <1>3, <3>2, <3>3
      <4> QED BY <4>1, <4>2
    <3>5. a \in 1 .. NumAvailable
      BY <1>3, <3>4
    <3>6. total < bandEnds[a]
      BY <1>3, <3>2, <3>4, <3>5
    <3>7. phase = "receiving"
      <4>1. tag = img.upper
        BY <3>1, SingleTag
      <4>2. phase # "receiving" => total >= tag
        BY DEF Typed, Turns
      <4> QED BY <1>3, <3>2, <3>5, <3>6, <4>1, <4>2
    <3>8. NumTileRows' = NumTileRows
      BY <1>1 DEF NumTileRows
    <3>9. ~ (NumTileRows > 1)
      BY <3>1
    <3>10. a \in 1 .. band' /\ total' < bandEnds'[a]
      BY <1>1, <3>1, <3>4, <3>6
    <3> QED BY <1>1, <1>2, <3>7, <3>8, <3>9, <3>10 DEF Waiting
  <2> QED BY <2>1, <2>2
<1> QED BY <1>8, <1>9, <1>10 DEF Refining

(* Bytes that come in and the end of the file show nothing.                *)
LEMMA IdleRefining ==
  ASSUME Refining, pc = "idle", pc' \in {"idle", "band"}, Passing' <=> Passing,
         UNCHANGED << img, band, skipped, finished, tileRow, line, shown >>
  PROVE  Sharp' /\ Flagged'
<1>1. Sharp'
  <2>1. /\ \A m \in MBRows : Refined(shown, band - 1, m)
        /\ Passing => \A m \in MBRows : m < line => Refined(shown, band, m)
    BY DEF Refining, Sharp
  <2> QED BY <2>1, SharpAfter
<1>2. Flagged'
  <2>1. skipped /\ ~ finished => Passing /\ tileRow > 1 /\ Skips(tileRow - 1) /\ line = img.tops[tileRow] - 1
    BY DEF Refining, Flagged
  <2> QED BY <2>1, FlaggedAfter
<1> QED BY <1>1, <1>2

LEMMA WriteRefining ==
  ASSUME Typed, Refining, NEW n \in 1 .. MaxWrite, WriteInternal(n)
  PROVE  Refining'
<1>1. /\ UNCHANGED << img, phase, finished, band, started, skipped, tileRow, mbRow, line, sc, row, shown >>
      /\ phase = "receiving" /\ pc = "idle" /\ pc' \in {"idle", "band"}
      /\ pc' = IF total' < img.head \/ atEnd' \/ finished THEN "idle" ELSE "band"
  BY DEF WriteInternal, position
<1>2. Passing' <=> Passing
  BY <1>1 DEF Passing
<1>3. Sharp' /\ Flagged'
  BY <1>1, <1>2, IdleRefining
<1>4. Waiting'
  <2>1. total' \in Nat /\ img.head \in Nat
    <3>1. n \in Nat
      BY ImagesAssumption
    <3>2. total \in Nat /\ img.head \in Nat /\ total' = total + n
      BY StateType, ImageType DEF Typed, WriteInternal
    <3> QED BY <3>1, <3>2
  <2> QED BY <1>1, <2>1 DEF Waiting
<1> QED BY <1>3, <1>4 DEF Refining

LEMMA FinishRefining ==
  ASSUME Typed, Steady, Refining, Complete, Refinable(img), FinishInternal
  PROVE  Refining'
<1>1. /\ UNCHANGED << img, total, bandEnds, atEnd, finished, started, skipped, tileRow, mbRow, line, sc, row, shown >>
      /\ phase = "receiving" /\ pc = "idle" /\ phase' = "finishing" /\ total >= img.head
  BY DEF FinishInternal
<1>2. CASE atEnd
  <2>1. pc' = "all" /\ band' = Len(bandEnds)
    BY <1>1, <1>2 DEF FinishInternal
  <2>2. mbRow = 0 /\ ~ skipped /\ line = 0
    BY <1>1, <1>2 DEF Typed, Turns
  <2>3. \A m \in MBRows : ~ (m < line')
    BY <1>1, <2>2, ImageType DEF Typed, TypeOK, MBRows
  <2>4. Sharp'
    BY <1>1, <2>1, <2>3, SharpAfter
  <2>5. Flagged'
    BY <1>1, <2>2 DEF Flagged
  <2>6. Waiting'
    BY <2>1 DEF Waiting
  <2> QED BY <2>4, <2>5, <2>6 DEF Refining
<1>3. CASE ~ atEnd
  <2>1. /\ pc' \in {"idle", "band"} /\ band' = band /\ (~ (total < tag) => pc' = "idle")
        /\ (total < tag => pc' = "band")
    BY <1>3 DEF FinishInternal
  <2>2. Passing' <=> Passing
    BY <1>1, <1>3, <2>1 DEF Passing
  <2>3. Sharp' /\ Flagged'
    BY <1>1, <2>1, <2>2, IdleRefining
  <2>4. ASSUME ~ finished PROVE total < tag
    <3>1. /\ started
          /\ IF NumTileRows > 1 THEN total < infos[tileRow][band]
             ELSE \E a \in 1 .. band : total < bandEnds[a]
      BY <1>1, <1>3, <2>4 DEF Refining, Waiting
    <3>2. /\ band \in 1 .. NumBands /\ tileRow \in 1 .. NumTileRows /\ band \in 1 .. NumAvailable
      BY <1>3, <2>4, <3>1, PassRange
    <3>3. total \in Nat /\ tag \in Nat /\ NumTileRows \in Nat /\ NumTileRows >= 1 /\ NumAvailable \in Nat
          /\ img.upper \in Nat
      BY StateType, ImageType DEF Typed
    <3>4. CASE NumTileRows > 1
      <4>1. infos[tileRow][band] \in Nat /\ infos[tileRow][band] <= tag
        BY <3>2, InfosFacts DEF Typed
      <4> QED BY <3>1, <3>3, <3>4, <4>1
    <3>5. CASE ~ (NumTileRows > 1)
      <4>1. NumTileRows = 1
        BY <3>3, <3>5
      <4>2. PICK a \in 1 .. band : total < bandEnds[a]
        BY <3>1, <3>5
      <4>3. a \in 1 .. NumAvailable
        BY <3>2, <3>3, <4>2
      <4>4. bandEnds[a] \in Nat /\ bandEnds[a] <= img.upper
        BY <4>1, <4>3, SingleRow
      <4>5. tag = img.upper
        BY <4>1, SingleTag
      <4> QED BY <3>3, <4>2, <4>4, <4>5
    <3> QED BY <3>4, <3>5
  <2>5. Waiting'
    BY <1>1, <1>3, <2>1, <2>4 DEF Waiting
  <2> QED BY <2>3, <2>5 DEF Refining
<1> QED BY <1>2, <1>3

LEMMA TagAtLeast ==
  ASSUME TypeOK, Limits
  PROVE  tag >= img.head
<1>1. /\ img \in Images /\ WellFormed(img) /\ tag \in Nat /\ img.upper \in Nat /\ img.head \in Nat
      /\ img.content \in Nat /\ img.content <= img.upper /\ 1 \in TileRows(img)
  BY ImageType, StateType
<1>2. PICK p \in RowPackets(img, 1) : TRUE
  BY <1>1 DEF WellFormed, PacketsWellFormed
<1>3. /\ Start(img, 1, p[1], p[2]) \in Nat /\ Start(img, 1, p[1], p[2]) < img.content
      /\ p[1] \in TileCols(img) /\ p[2] \in Bands(img)
  BY <1>1, PacketFacts
<1>4. img.table[1][p[1]][p[2]] \in Nat
  BY <1>1, <1>3, ImageFacts
<1>5. Start(img, 1, p[1], p[2]) >= img.head
  BY <1>1, <1>4 DEF Start
<1> QED BY <1>1, <1>3, <1>5 DEF Limits

LEMMA EndRefining ==
  ASSUME Typed, Refining, EndDecodingMBRows
  PROVE  Refining'
<1>1. /\ UNCHANGED << img, pc, total, tag, infos, bandEnds, atEnd, finished, band, started, skipped, tileRow, mbRow,
                      line, sc, row, shown >>
      /\ phase = "finishing" /\ pc = "idle" /\ phase' = "done"
  BY DEF EndDecodingMBRows, position
<1>2. Passing' <=> Passing
  BY <1>1 DEF Passing
<1>3. Sharp' /\ Flagged'
  BY <1>1, <1>2, IdleRefining
<1>4. NumBands' = NumBands /\ NumTileRows' = NumTileRows
  BY <1>1 DEF NumBands, NumTileRows
<1>5. Waiting'
  <2>1. /\ total >= img.head /\ ~ atEnd => finished
        /\ atEnd => band = NumBands + 1
    BY <1>1 DEF Refining, Waiting
  <2> QED BY <1>1, <1>4, <2>1 DEF Waiting
<1> QED BY <1>3, <1>5 DEF Refining

LEMMA RefiningInit == Init => Refining
<1> SUFFICES ASSUME Init PROVE Refining
  OBVIOUS
<1>1. /\ img \in Images /\ pc = "idle" /\ band = 1 /\ line = 0 /\ shown = [m \in MBRows |-> 0] /\ total = 0
      /\ skipped = FALSE /\ atEnd = FALSE /\ phase = "receiving"
  BY DEF Init
<1>2. MBRows = 0 .. img.rows - 1 /\ img.rows \in Nat /\ img.head \in Nat /\ img.head >= 1 /\ NumBands \in Nat
      /\ Bands(img) = 1 .. NumBands
  BY <1>1, ImageType DEF MBRows
<1>3. \A m \in MBRows : Refined(shown, band - 1, m)
  BY <1>1, <1>2 DEF Refined
<1>4. \A m \in MBRows : ~ (m < line)
  BY <1>1, <1>2
<1>5. Waiting /\ Flagged
  BY <1>1, <1>2 DEF Waiting, Flagged
<1> QED BY <1>1, <1>3, <1>4, <1>5 DEF Refining, Sharp

LEMMA RefiningNext ==
  ASSUME Typed, Steady, Refining, Complete, Refinable(img), [Next]_vars
  PROVE  Refining'
<1>1. CASE UNCHANGED vars
  <2>1. /\ UNCHANGED << img, phase, pc, total, tag, infos, bandEnds, atEnd, finished, band, started, skipped >>
        /\ UNCHANGED << tileRow, limit, mbRow, line, sc, row, shown >>
    BY <1>1 DEF vars, position
  <2>2. Passing' <=> Passing
    BY <2>1 DEF Passing
  <2>3. Sharp'
    BY <2>1, <2>2, SharpAfter DEF Refining, Sharp
  <2>4. Flagged'
    BY <2>1, <2>2, FlaggedAfter DEF Refining, Flagged
  <2>5. Waiting'
    BY <2>1 DEF Refining, Waiting, NumTileRows, NumBands
  <2> QED BY <2>3, <2>4, <2>5 DEF Refining
<1>2. Seamless(img)
  BY DEF Refinable
<1> QED BY <1>1, <1>2, WriteRefining, FinishRefining, EndRefining, StartRefining, TilesRefining, RowRefining, AllRefining
        DEF Next, Terminating

-----------------------------------------------------------------------------
(* What the rows show.                                                     *)
LEMMA LastPresentFacts ==
  ASSUME img \in Images, NEW r \in 1 .. NumTileRows
  PROVE  LastPresent(r) \in 1 .. NumAvailable /\ HasBand(img, r, LastPresent(r))
<1> DEFINE S == {p[2] : p \in RowPackets(img, r)}
<1>1. /\ WellFormed(img) /\ r \in TileRows(img) /\ NumBands \in Nat /\ NumAvailable \in 1 .. NumBands
      /\ Bands(img) = 1 .. NumBands
  BY ImageType
<1>2. \A p \in RowPackets(img, r) : p[2] \in 1 .. NumBands
  BY <1>1, PacketFacts
<1>3. S \in SUBSET Nat /\ S # {} /\ \A x \in S : x <= NumBands
  <2>1. RowPackets(img, r) # {}
    BY <1>1 DEF WellFormed, PacketsWellFormed
  <2>2. S # {}
    BY <2>1
  <2>3. \A x \in S : x \in 1 .. NumBands
    BY <1>2
  <2> HIDE DEF S
  <2> QED BY <1>1, <2>2, <2>3
<1>4. Max(S) \in S
  <2> HIDE DEF S
  <2> QED BY <1>1, <1>3, MaxOfNats
<1>5. PICK p \in RowPackets(img, r) : LastPresent(r) = p[2]
  BY <1>4 DEF LastPresent
<1>6. p[2] \in Bands(img) /\ HasBand(img, r, p[2])
  BY <1>1, PacketFacts, LowerFacts
<1>7. p[2] <= NumAvailable
  BY <1>1, <1>6, Available DEF NumAvailable
<1> QED BY <1>1, <1>5, <1>6, <1>7

LEMMA WantFacts ==
  ASSUME img \in Images, NEW m \in MBRows
  PROVE  \E k \in Neighbours(m) : /\ TileRowOf(k) \in 1 .. NumTileRows /\ Want(m) = LastPresent(TileRowOf(k))
                                  /\ Want(m) \in 1 .. NumAvailable /\ HasBand(img, TileRowOf(k), Want(m))
<1> DEFINE S == {LastPresent(TileRowOf(k)) : k \in Neighbours(m)}
<1>1. NumAvailable \in Nat
  BY ImageType
<1>2. \A k \in Neighbours(m) : TileRowOf(k) \in 1 .. NumTileRows
  BY RowOf DEF Neighbours
<1>3. \A k \in Neighbours(m) : LastPresent(TileRowOf(k)) \in 1 .. NumAvailable
  BY <1>2, LastPresentFacts
<1>4. m \in Neighbours(m)
  BY DEF Neighbours
<1>5. S \in SUBSET Nat /\ S # {} /\ \A x \in S : x <= NumAvailable
  BY <1>1, <1>3, <1>4
<1>6. Max(S) \in S
  <2> HIDE DEF S
  <2> QED BY <1>1, <1>5, MaxOfNats
<1>7. PICK k \in Neighbours(m) : Want(m) = LastPresent(TileRowOf(k))
  BY <1>6 DEF Want
<1> QED BY <1>2, <1>7, LastPresentFacts

(* A row refined with the last band it depends on shows it, and with fewer *)
(* it shows all of those if no tile row leaves one out.                    *)
LEMMA RefinedShows ==
  ASSUME img \in Images, NEW m \in MBRows, NEW b \in Nat, Refined(shown, b, m)
  PROVE  Want(m) <= b => shown[m] >= Want(m)
<1>1. PICK k \in Neighbours(m) : Want(m) \in 1 .. NumAvailable /\ HasBand(img, TileRowOf(k), Want(m))
  BY WantFacts
<1>2. Want(m) \in Bands(img)
  <2>1. NumAvailable \in 1 .. NumBands /\ NumBands \in Nat /\ Bands(img) = 1 .. NumBands
    BY ImageType
  <2> QED BY <1>1, <2>1
<1> QED BY <1>1, <1>2 DEF Refined

RefinedInv == IInv /\ (Complete => Refining)

LEMMA RefinedAlways ==
  ASSUME \A i \in Images : Refinable(i)
  PROVE  Spec => []RefinedInv
<1>0. \A i \in Images : Seamless(i)
  BY DEF Refinable
<1>1. Init => RefinedInv
  BY TypedInit, SteadyInit, RefiningInit DEF RefinedInv, IInv
<1>2. ASSUME RefinedInv, [Next]_vars PROVE RefinedInv'
  <2>1. Typed'
    BY <1>2, TypedNext DEF RefinedInv, IInv
  <2>2. img' = img
    BY <1>2, SameImage
  <2>3. ASSUME Complete PROVE Steady' /\ Refining'
    <3>1. Seamless(img) /\ Refinable(img)
      BY <1>0, <1>2 DEF RefinedInv, IInv, Typed, TypeOK
    <3> QED BY <1>2, <2>3, <3>1, SteadyNext, RefiningNext DEF RefinedInv, IInv
  <2>4. Complete' => Complete
    BY <2>2 DEF Complete
  <2> QED BY <2>1, <2>3, <2>4 DEF RefinedInv, IInv
<1> QED BY <1>1, <1>2, PTL DEF Spec

LEMMA FinishedShows ==
  ASSUME RefinedInv, Complete, finished, NEW m \in MBRows
  PROVE  shown[m] >= Want(m)
<1>1. img \in Images /\ NumAvailable \in Nat /\ Want(m) \in 1 .. NumAvailable
  BY ImageType, WantFacts DEF RefinedInv, IInv, Typed, TypeOK
<1>2. band - 1 = NumAvailable /\ pc # "all"
  BY <1>1 DEF RefinedInv, IInv, Typed, Turns
<1>3. Refined(shown, band - 1, m)
  BY <1>2 DEF RefinedInv, Refining, Sharp
<1> QED BY <1>1, <1>2, <1>3, RefinedShows

(* A complete file ends with every row shown with the last band that it    *)
(* depends on, though its size tag may say more (with several tile rows).  *)
THEOREM WholeQuality ==
  ASSUME \A i \in Images : Refinable(i)
  PROVE  Spec => []FullQuality
<1>1. RefinedInv => FullQuality
  <2> SUFFICES ASSUME RefinedInv, phase = "done", Complete, NEW m \in MBRows PROVE shown[m] >= Want(m)
    BY DEF FullQuality
  <2>1. CASE finished
    BY <2>1, FinishedShows
  <2>2. CASE ~ finished
    <3>1. pc = "idle" /\ total >= tag /\ TypeOK /\ Limits
      BY DEF RefinedInv, IInv, Typed, Turns
    <3>2. total >= img.head
      <4>1. tag >= img.head
        BY <3>1, TagAtLeast
      <4>2. total \in Nat /\ tag \in Nat /\ img.head \in Nat
        BY <3>1, StateType, ImageType
      <4> QED BY <3>1, <4>1, <4>2
    <3>3. atEnd
      BY <2>2, <3>1, <3>2 DEF RefinedInv, Refining, Waiting
    <3>4. img \in Images /\ NumBands \in Nat /\ NumAvailable \in 1 .. NumBands /\ Want(m) \in 1 .. NumAvailable
      BY <3>1, ImageType, WantFacts DEF TypeOK
    <3>5. band - 1 = NumBands
      BY <3>1, <3>3, <3>4 DEF RefinedInv, Refining, Waiting
    <3>6. Refined(shown, band - 1, m)
      BY <3>1 DEF RefinedInv, Refining, Sharp
    <3>7. Want(m) <= NumBands
      BY <3>4
    <3> QED BY <3>4, <3>5, <3>6, <3>7, RefinedShows
  <2> QED BY <2>1, <2>2
<1> QED BY <1>1, RefinedAlways, PTL

(* Whenever WriteInternal returns, every tile row whose packets of a band  *)
(* and whose successor's have arrived shows that band.                     *)
THEOREM RefinedAsItArrives ==
  ASSUME \A i \in Images : Refinable(i) /\ Nested(i)
  PROVE  Spec => []RefinedInTime
<1>1. RefinedInv => RefinedInTime
  <2> SUFFICES ASSUME RefinedInv, pc = "idle", total >= img.head, ~ atEnd, Complete,
                      NEW b \in 1 .. NumAvailable, NEW r \in 1 .. NumTileRows,
                      \A a \in 1 .. b : \A t \in 1 .. NumTileRows :
                         a < b \/ t <= r + 1 => total >= BandUpperLimit(img, t, a),
                      NEW m \in 0 .. LastRow(img, r) - (IF r = NumTileRows THEN 1 ELSE 2)
               PROVE  shown[m] >= Min({b, Want(m)})
    BY DEF RefinedInTime
  <2>1. /\ img \in Images /\ NumTileRows \in Nat /\ NumTileRows >= 1 /\ img.rows \in Nat
        /\ MBRows = 0 .. img.rows - 1 /\ NumBands \in Nat /\ NumAvailable \in 1 .. NumBands
        /\ Bands(img) = 1 .. NumBands /\ TileRows(img) = 1 .. NumTileRows
        /\ total \in Nat /\ line \in Nat /\ mbRow \in Nat /\ band \in Nat /\ Refinable(img) /\ Nested(img)
        /\ shown \in ShownType /\ bandEnds \in [1 .. NumBands -> Nat]
        /\ \A t \in 1 .. NumTileRows : img.tops[t] \in Nat
    <3>1. TypeOK /\ img \in Images
      BY DEF RefinedInv, IInv, Typed, TypeOK
    <3>2. /\ NumTileRows \in Nat /\ NumTileRows >= 1 /\ img.rows \in Nat
          /\ NumBands \in Nat /\ NumAvailable \in 1 .. NumBands
          /\ Bands(img) = 1 .. NumBands /\ TileRows(img) = 1 .. NumTileRows
          /\ \A t \in 1 .. NumTileRows : img.tops[t] \in Nat
      BY <3>1, ImageType
    <3>3. /\ total \in Nat /\ shown \in ShownType /\ bandEnds \in [1 .. NumBands -> Nat]
          /\ band \in 1 .. NumBands + 1 /\ line \in 0 .. img.rows /\ mbRow \in 0 .. img.rows + 1
      BY <3>1, StateType
    <3>4. line \in Nat /\ mbRow \in Nat /\ band \in Nat
      BY <3>2, <3>3
    <3>5. Refinable(img) /\ Nested(img)
      BY <3>1
    <3> QED BY <3>1, <3>2, <3>3, <3>4, <3>5 DEF MBRows
  <2>2. LastRow(img, r) \in Nat /\ LastRow(img, r) <= img.rows /\ m \in Nat /\ m \in MBRows
    <3>1. LastRow(img, r) \in Nat /\ LastRow(img, r) <= img.rows
      BY <2>1, LastRows
    <3>2. PICK x \in Nat : x = LastRow(img, r)
      BY <3>1
    <3> QED BY <2>1, <3>1, <3>2
  <2>3. PICK k \in Neighbours(m) : /\ TileRowOf(k) \in 1 .. NumTileRows /\ Want(m) \in 1 .. NumAvailable
                                   /\ HasBand(img, TileRowOf(k), Want(m))
    BY <2>1, <2>2, WantFacts
  <2>4. Want(m) \in Nat /\ b \in Nat /\ NumAvailable \in Nat /\ shown[m] \in Int
    <3>1. NumAvailable \in Nat
      BY <2>1
    <3>2. shown[m] \in Int
      BY <2>1, <2>2 DEF ShownType
    <3> QED BY <2>3, <3>1, <3>2
  <2>5. Min({b, Want(m)}) = IF b <= Want(m) THEN b ELSE Want(m)
    BY <2>4, MinOfTwo
  <2>6. CASE finished
    <3>1. shown[m] >= Want(m)
      BY <2>2, <2>6, FinishedShows
    <3> QED BY <2>4, <2>5, <3>1
(* It is enough that the row has all it depends on of the first b bands.   *)
  <2>7. ASSUME Refined(shown, b, m) PROVE shown[m] >= Min({b, Want(m)})
    <3>1. CASE Want(m) <= b
      <4>1. shown[m] >= Want(m)
        BY <2>1, <2>2, <2>4, <2>7, <3>1, RefinedShows
      <4> QED BY <2>4, <2>5, <3>1, <4>1
    <3>2. CASE ~ (Want(m) <= b)
      <4>1. b <= Want(m) /\ b \in Bands(img) /\ Want(m) \in Bands(img)
        BY SMTT(30), <2>1, <2>3, <2>4, <3>2
      <4>2. HasBand(img, TileRowOf(k), b)
        BY <2>1, <2>3, <4>1 DEF Nested
      <4>3. shown[m] >= b
        BY <2>4, <2>7, <4>1, <4>2 DEF Refined
      <4> QED BY <2>5, <4>1, <4>3
    <3> QED BY <3>1, <3>2
  <2>8. CASE ~ finished
    <3>1. /\ phase = "receiving" /\ started
          /\ IF NumTileRows > 1 THEN total < infos[tileRow][band]
             ELSE \E a \in 1 .. band : total < bandEnds[a]
      BY <2>8 DEF RefinedInv, Refining, Waiting
    <3>2. Passing /\ Typed
      BY <2>8, <3>1 DEF Passing, RefinedInv, IInv
    <3>3. band \in 1 .. NumAvailable /\ band \in 1 .. NumBands /\ tileRow \in 1 .. NumTileRows
      BY <2>8, <3>1, <3>2, PassRange
    <3>4. /\ \A n \in MBRows : Refined(shown, band - 1, n)
          /\ \A n \in MBRows : n < line => Refined(shown, band, n)
      BY <3>2 DEF RefinedInv, Refining, Sharp
    <3>5. CASE band > b
      <4>1. b <= band - 1
        BY <2>4, <3>3, <3>5
      <4>2. Refined(shown, b, m)
        <5>1. \A a \in Bands(img) : a <= b => a <= band - 1
          BY <2>1, <2>4, <4>1
        <5>2. Refined(shown, band - 1, m)
          BY <2>2, <3>4
        <5> QED BY <5>1, <5>2 DEF Refined
      <4> QED BY <2>7, <4>2
    <3>6. CASE ~ (band > b)
      <4>1. band \in 1 .. b
        BY <2>4, <3>3, <3>6
      <4>2. CASE NumTileRows > 1
        <5>1. /\ infos[tileRow][band] \in Nat /\ infos[tileRow][band] <= BandUpperLimit(img, tileRow, band)
              /\ BandUpperLimit(img, tileRow, band) \in Nat
          BY <3>2, <3>3, InfosFacts DEF Typed
        <5>2. ~ (total >= BandUpperLimit(img, tileRow, band))
          BY <2>1, <3>1, <4>2, <5>1
        <5>3. ~ (band < b) /\ ~ (tileRow <= r + 1)
          BY <3>3, <4>1, <5>2
        <5>4. band = b /\ r + 1 < tileRow /\ r + 1 \in 1 .. NumTileRows /\ r < NumTileRows /\ tileRow > 2
          <6>1. r \in Nat /\ tileRow \in Nat /\ r >= 1 /\ tileRow <= NumTileRows
            BY <2>1, <3>3
          <6>2. r + 1 < tileRow /\ tileRow > 2
            BY <5>3, <6>1
          <6>3. r + 1 \in 1 .. NumTileRows /\ r < NumTileRows
            BY <2>1, <6>1, <6>2
          <6>4. band = b
            BY <2>4, <4>1, <5>3
          <6> QED BY <6>2, <6>3, <6>4
        <5>5. m < line
          <6>1. LastRow(img, r) = img.tops[r + 1] /\ img.tops[r + 1] < img.tops[tileRow]
            BY <2>1, <3>3, <5>4, LastRows, TopsApart
          <6>2. PICK x, y \in Nat : x = img.tops[r + 1] /\ y = img.tops[tileRow] /\ x < y
            BY <2>1, <3>3, <5>4, <6>1
          <6>3. Enters(tileRow, mbRow)
            BY <3>2 DEF RefinedInv, IInv, Steady, Between
          <6>4. mbRow = y \/ mbRow = y + 1
            BY <5>4, <6>2, <6>3 DEF Enters, AtTop
          <6>5. \/ mbRow = 0 /\ line = 0
                \/ mbRow > 0 /\ mbRow = line + 1
            BY <3>2 DEF Typed, Turns
          <6>6. m <= x - 2
            <7>1. r # NumTileRows
              BY <2>1, <5>4
            <7>2. m \in 0 .. x - 2
              BY <6>1, <6>2, <7>1
            <7> QED BY <2>2, <6>2, <7>2
          <6>7. line >= y - 1
            <7>1. line \in Int /\ mbRow \in Int
              BY <2>1
            <7> HIDE <2>1
            <7>2. mbRow >= y /\ line >= mbRow - 1
              BY <6>2, <6>4, <6>5, <7>1
            <7> QED BY <6>2, <7>1, <7>2
          <6>8. m \in Int /\ line \in Int
            BY <2>1, <2>2
          <6> HIDE <2>1, <2>2
          <6> QED BY <6>2, <6>6, <6>7, <6>8
        <5>6. Refined(shown, b, m)
          BY <2>2, <3>4, <5>4, <5>5
        <5> QED BY <2>7, <5>6
      <4>3. CASE ~ (NumTileRows > 1)
        <5>1. NumTileRows = 1 /\ r = 1
          BY <2>1, <4>3
        <5>2. PICK a \in 1 .. band : total < bandEnds[a]
          BY <3>1, <4>3
        <5>3. a \in 1 .. NumAvailable /\ a \in 1 .. b /\ 1 <= r + 1 /\ 1 \in 1 .. NumTileRows
          BY <2>1, <2>4, <3>3, <4>1, <5>1, <5>2
        <5>4. bandEnds[a] = BandUpperLimit(img, 1, a) /\ bandEnds[a] \in Nat
          BY <2>1, <3>2, <5>1, <5>3, SingleRow
        <5>5. total >= BandUpperLimit(img, 1, a)
          BY <5>3
        <5> QED BY <2>1, <5>2, <5>4, <5>5
      <4> QED BY <4>2, <4>3
    <3> QED BY <3>5, <3>6
  <2> QED BY <2>6, <2>8
<1>2. \A i \in Images : Refinable(i)
  OBVIOUS
<1> QED BY <1>1, <1>2, RefinedAlways, PTL
====
