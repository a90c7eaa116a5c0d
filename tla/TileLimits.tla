----------------------------- MODULE TileLimits -----------------------------
(***************************************************************************)
(* What the decoder works out from the index table of an image             *)
(* (nsJPEGXRDecoder::FillTileRowBandInfo, FillTileRowInfo; readIndexTable  *)
(* of strdec.c): where the packets of a tile row end, how much must have   *)
(* arrived before it can be decoded, what may be discarded after it.       *)
(*                                                                         *)
(* An image has                                                            *)
(*   tops    the first macroblock row of each tile row (uiTileY)           *)
(*   rows    its height in macroblock rows                                 *)
(*   table   table[r][c][b], the offset of the packet of band b of the     *)
(*           tile in row r, column c; 0 for a band the tile does not have  *)
(*   spatial TRUE if a tile is one packet (then there is one band)         *)
(*   head    cHeaderSize, where the first packet begins                    *)
(*   upper   imageUpperLimit, from the size tag of the file                *)
(* Rows, columns and bands are counted from 1 here.                        *)
(***************************************************************************)
EXTENDS Integers, Sequences, FiniteSets, FiniteSetsExt

TileRows(img) == 1 .. Len(img.tops)
TileCols(img) == 1 .. Len(img.table[1])
Bands(img)    == 1 .. Len(img.table[1][1])

(* The very first entry may be 0 without being empty.                      *)
Empty(img, r, c, b) == ~ img.spatial /\ img.table[r][c][b] = 0 /\ << r, c, b >> # << 1, 1, 1 >>

Start(img, r, c, b) == img.head + img.table[r][c][b]

LastRow(img, r) == IF r = Len(img.tops) THEN img.rows ELSE img.tops[r + 1]

-----------------------------------------------------------------------------
(* FillTileRowBandInfo: the limits of each band of each tile row.  A band  *)
(* is looked for in the columns of the row from left to right; 0 means the *)
(* row does not have it.                                                   *)
LowerLimit(img, r, b) ==
  LET has == {c \in TileCols(img) : ~ Empty(img, r, c, b)}
  IN  IF has = {} THEN 0 ELSE Start(img, r, Min(has), b)

FirstPresent(img, rs, b) ==  \* the lower limit of the first of rows rs that has band b
  LET has == {r \in rs : LowerLimit(img, r, b) # 0}
  IN  IF has = {} THEN 0 ELSE LowerLimit(img, Min(has), b)

BandUpperLimit(img, r, b) ==
  LET last  == Len(img.tops)
      nextB == b + 1 \in Bands(img)
      limit == CASE r = last /\ ~ nextB -> img.upper
                 [] r = last /\ nextB   -> LowerLimit(img, 1, b + 1)
                 [] r < last            -> FirstPresent(img, r + 1 .. last, b)
      below == IF nextB THEN FirstPresent(img, TileRows(img), b + 1) ELSE 0
  IN  CASE LowerLimit(img, r, b) = 0 -> 0
        [] LowerLimit(img, r, b) # 0 /\ limit # 0 -> limit
        [] OTHER -> IF below # 0 THEN below ELSE img.upper

(* m_subbandUpperLimits: of the last tile row that has the band.           *)
SubbandUpperLimit(img, b) ==
  LET has == {r \in TileRows(img) : BandUpperLimit(img, r, b) # 0}
  IN  IF has = {} THEN 0 ELSE BandUpperLimit(img, Max(has), b)

NumAvailableBands(img) == Max({b \in Bands(img) : SubbandUpperLimit(img, b) # 0})

-----------------------------------------------------------------------------
(* FillTileRowInfo: tiles in any order.  The entries are sorted; a packet  *)
(* ends where the next one begins.                                         *)
EntryLimits(img) ==
  {Start(img, e[1], e[2], e[3]) :
     e \in {f \in TileRows(img) \X TileCols(img) \X Bands(img) : ~ Empty(img, f[1], f[2], f[3])}}
  \cup {img.upper}

NextEntry(img, off) == Min({e \in EntryLimits(img) : e > off})

RowStarts(img, r) == {Start(img, r, c, b) : c \in TileCols(img), b \in Bands(img)}

RowUpperLimitFirst(img, r) == NextEntry(img, Min(RowStarts(img, r)))              \* MUTANT

RowUpperLimitShort(img, r) == Max({NextEntry(img, off) : off \in RowStarts(img, r)}) - 1   \* MUTANT

RowUpperLimit(img, r) == Max({NextEntry(img, off) : off \in RowStarts(img, r)})

NextLowerLimitEnd(img, r) == RowUpperLimit(img, r)                                \* MUTANT

NextLowerLimit(img, r) ==
  Min({img.upper} \cup UNION {RowStarts(img, t) : t \in r + 1 .. Len(img.tops)})

(* numMBRows, 0 for the last tile row; top and height of what the row puts *)
(* out: rows come out one late, so a tile row begins with the last row of  *)
(* the one above.                                                          *)
NumMBRows(img, r) == IF r = Len(img.tops) THEN 0 ELSE img.tops[r + 1] - img.tops[r]

RowTop(img, r) == IF r = 1 THEN 0 ELSE img.tops[r] - 1

RowHeight(img, r) == (IF r = Len(img.tops) THEN img.rows ELSE RowTop(img, r + 1)) - RowTop(img, r)

(* The same for a pass over one band (FillTileRowBandInfo): any tile row   *)
(* but the first reaches one row into the next, whose own packet it cannot *)
(* attach unless it is empty.                                              *)
BandRowHeightOwn(img, r) == RowHeight(img, r)                                     \* MUTANT

BandRowHeight(img, r) == LastRow(img, r) - RowTop(img, r) - (IF r = 1 THEN 1 ELSE 0)

-----------------------------------------------------------------------------
(* The bytes of a packet, which the code never computes: up to the next    *)
(* packet in the file.  What the limits above are measured against.        *)
PacketEnd(img, r, c, b) == NextEntry(img, Start(img, r, c, b))

RowPackets(img, r) == {cb \in TileCols(img) \X Bands(img) : ~ Empty(img, r, cb[1], cb[2])}

-----------------------------------------------------------------------------
(* What StrIODecInit and the writer of a file see to: tile rows from top   *)
(* to bottom, an index table of their shape, and in every tile row a       *)
(* packet that begins before the end of the last one.                      *)
RowsWellFormed(i) ==
  /\ i.tops \in Seq(Nat) /\ i.tops # << >> /\ i.tops[1] = 0
  /\ \A r \in TileRows(i) : r < Len(i.tops) => i.tops[r] < i.tops[r + 1]
  /\ i.rows \in Nat /\ i.tops[Len(i.tops)] < i.rows

TableWellFormed(i) ==
  /\ i.table \in Seq(Seq(Seq(Nat))) /\ Len(i.table) = Len(i.tops)
  /\ \A r \in TileRows(i) : Len(i.table[r]) = Len(i.table[1])
  /\ \A r \in TileRows(i), c \in TileCols(i) : Len(i.table[r][c]) = Len(i.table[1][1])

PacketsWellFormed(i) ==
  \A r \in TileRows(i) :
     /\ RowPackets(i, r) # {}
     /\ \A p \in RowPackets(i, r) : Start(i, r, p[1], p[2]) < i.content

=============================================================================
