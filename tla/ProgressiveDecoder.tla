------------------------- MODULE ProgressiveDecoder -------------------------
(***************************************************************************)
(* nsJPEGXRDecoder on an image in progressive layout: all packets of one   *)
(* frequency band come before those of the next.  Each band is a new pass  *)
(* of the library over the whole picture; DoTheDecoding decodes a pass     *)
(* tile row by tile row as their packets arrive, or at one go if the bytes *)
(* of the whole band are there, and skips tile rows that have nothing to   *)
(* add.  FinishInternal corrects the size tag of a file that is shorter    *)
(* than it says and decodes what is left.                                  *)
(*                                                                         *)
(* Besides the fields TileLimits uses, an image has                        *)
(*   size     how many bytes the file holds                                *)
(*   content  where the last packet really ends                            *)
(*   overlap  TRUE if macroblocks are smoothed against each other          *)
(*            (olOverlap)                                                  *)
(*   hard     TRUE if they are not to be where tiles meet                  *)
(*            (bUseHardTileBoundaries)                                     *)
(*   lefts    the first macroblock column of each tile column (uiTileX)    *)
(* The library reads a row from the packets it is attached to; a row that  *)
(* does not end its tile may end anywhere in them.  The chrominance of an  *)
(* image has its full resolution.                                          *)
(***************************************************************************)
EXTENDS TileLimits

CONSTANTS Images,    \* the images that may be sent
          MaxWrite   \* the most bytes one WriteInternal brings

(* What the writer of a file in progressive layout sees to                 *)
(* (StrIOEncTerm, writeIndexTable): the packets are stored band by band,   *)
(* within a band tile row by tile row, within a row from left to right;    *)
(* packets that hold nothing are left out, and every tile row has some of  *)
(* the first band.                                                         *)
ImageFields == {"tops", "rows", "lefts", "table", "spatial", "overlap", "hard", "head", "upper", "size", "content"}

StoredBefore(r, p, s, q) ==
  \/ p[2] < q[2]
  \/ p[2] = q[2] /\ r < s
  \/ p[2] = q[2] /\ r = s /\ p[1] < q[1]

BandByBand(i) ==
  \A r, s \in TileRows(i) : \A p \in RowPackets(i, r), q \in RowPackets(i, s) :
     StoredBefore(r, p, s, q) => Start(i, r, p[1], p[2]) < Start(i, s, q[1], q[2])

(* The tile columns, and what the transform takes hard ones for: it starts *)
(* a new tile at the rows that have the numbers of their first columns     *)
(* (Smoothed).  It finds these one after the other, and misses them all    *)
(* from the first that lies in tile rows it was made to skip; images with  *)
(* hard tile columns and overlap whose tile rows have different bands are  *)
(* left out for that.                                                      *)
ColumnsWellFormed(i) ==
  /\ i.lefts \in Seq(Nat) /\ Len(i.lefts) = Len(i.table[1]) /\ i.lefts[1] = 0
  /\ \A c \in TileCols(i) : c < Len(i.lefts) => i.lefts[c] < i.lefts[c + 1]
  /\ i.hard /\ i.overlap /\ Len(i.lefts) > 1 =>
       \A r, s \in TileRows(i) : \A q \in RowPackets(i, s) : \E p \in RowPackets(i, r) : p[2] = q[2]

WellFormed(i) ==
  /\ DOMAIN i = ImageFields
  /\ i.head \in Nat \ {0} /\ i.upper \in Nat /\ i.content \in Nat /\ i.size \in Nat
  /\ i.spatial = FALSE /\ i.overlap \in BOOLEAN /\ i.hard \in BOOLEAN /\ i.content <= i.upper
  /\ RowsWellFormed(i) /\ TableWellFormed(i) /\ PacketsWellFormed(i) /\ ColumnsWellFormed(i)
  /\ \A r \in TileRows(i) : \E p \in RowPackets(i, r) : p[2] = 1
  /\ BandByBand(i)

ASSUME ImagesAssumption == MaxWrite \in Nat /\ \A i \in Images : WellFormed(i)

VARIABLES img,
          phase,     \* "receiving", "finishing" or "done"
          pc,        \* "idle", "band" and "tiles" (DoTheDecoding), "rows"
                     \* (DecodeNextTileRow), "all" (DecodeAllMBRows)
          total,     \* bytes received
          tag,       \* where the image ends: the size tag, as corrected
          infos,     \* m_tileRowBandInfos[...].upperLimits
          bandEnds,  \* m_subbandUpperLimits
          atEnd,     \* m_decodeAtEnd
          finished,  \* m_mainPlaneFinished
          band,      \* m_currentSubBand, from 1: the band of the pass
          started,   \* m_startedDecodingSubband
          skipped,   \* m_skippedTileRows
          tileRow,   \* m_currentTileRow, from 1
          limit,     \* cCurrentSubbandUpperLimit, 0 for none
          mbRow,     \* DecoderCurrMBRow
          line,      \* m_currLine, in macroblock rows
          sc,        \* the library: cTileRow, the tile row it is attached to (0: none),
                     \* and, if its readers have lost the place where the next
                     \* row begins, how much they could read then (0: they have not)
          row,       \* what this pass has read of each macroblock row
          shown      \* the last band each row of the picture was shown with; -1 if wrong

position == << tileRow, limit, mbRow, line, sc, row >>
vars == << img, phase, pc, total, tag, infos, bandEnds, atEnd, finished, band, started, skipped,
           position, shown >>

NumTileRows       == Len(img.tops)
MBRows            == 0 .. img.rows - 1
TileRowOf(m)      == Max({r \in 1 .. NumTileRows : img.tops[r] <= m})
Complete          == img.content <= img.size
NumAvailable      == NumAvailableBands(img)

(* The image as the file holds it.                                         *)
Real == [img EXCEPT !.upper = img.content]

PassPackets(r) == {p \in RowPackets(img, r) : p[2] <= band}

TrueEnd(r) == Max({PacketEnd(Real, r, p[1], p[2]) : p \in PassPackets(r)})

(* lastPresentSubband                                                      *)
LastPresent(r) == Max({p[2] : p \in RowPackets(img, r)})

(* Whether the overlap filters span rows k - 1 and k.  Both transforms     *)
(* compare the number of a row with the first columns of the tiles, and so *)
(* cut the picture there, and not where a hard tile row begins.            *)
Smoothed(k) == img.overlap /\ ~ (img.hard /\ \E c \in 2 .. Len(img.lefts) : img.lefts[c] = k)

(* The rows whose coefficients the pixels of row m depend on.              *)
Neighbours(m) ==
  {k \in MBRows : k = m \/ (k = m - 1 /\ Smoothed(m)) \/ (k = m + 1 /\ Smoothed(k))}

TypeOK ==
  /\ img \in Images
  /\ phase \in {"receiving", "finishing", "done"}
  /\ pc \in {"idle", "band", "tiles", "rows", "all"}
  /\ total \in 0 .. img.size
  /\ tag \in Nat /\ limit \in Nat
  /\ infos \in [1 .. NumTileRows -> [Bands(img) -> Nat]]
  /\ bandEnds \in [Bands(img) -> Nat]
  /\ atEnd \in BOOLEAN /\ finished \in BOOLEAN /\ started \in BOOLEAN /\ skipped \in BOOLEAN
  /\ band \in 1 .. Len(bandEnds) + 1
  /\ tileRow \in 1 .. NumTileRows + 1
  /\ mbRow \in 0 .. img.rows + 1
  /\ line \in 0 .. img.rows
  /\ sc \in [tile : 1 .. NumTileRows, att : 0 .. NumTileRows, stuck : Nat]
  /\ row \in [MBRows -> {"none", "good", "bad"}]
  /\ shown \in [MBRows -> -1 .. Len(bandEnds)]

FillTileRowBandInfo(i) == [r \in TileRows(i) |-> [b \in Bands(i) |-> BandUpperLimit(i, r, b)]]

Init ==
  /\ img \in Images
  /\ phase = "receiving" /\ pc = "idle" /\ total = 0 /\ tag = img.upper
  /\ infos = FillTileRowBandInfo(img)
  /\ bandEnds = [b \in Bands(img) |-> SubbandUpperLimit(img, b)]
  /\ atEnd = FALSE /\ finished = FALSE
  /\ band = 1 /\ started = TRUE /\ skipped = FALSE     \* StartProgressiveDecoding
  /\ tileRow = 1 /\ limit = 0 /\ mbRow = 0 /\ line = 0
  /\ sc = [tile |-> 1, att |-> 0, stuck |-> 0]
  /\ row = [m \in MBRows |-> "none"] /\ shown = [m \in MBRows |-> 0]

-----------------------------------------------------------------------------
(* Bytes.                                                                  *)

(* The header and the index table are parsed when they have arrived; an    *)
(* image that is then complete is left to FinishInternal.                  *)
WriteInternal(n) ==
  /\ phase = "receiving" /\ pc = "idle" /\ total + n <= img.size
  /\ total' = total + n
  /\ atEnd' = IF total < img.head /\ total' >= img.head THEN total' >= tag ELSE atEnd
  /\ pc' = IF total' < img.head \/ atEnd' \/ finished THEN "idle" ELSE "band"
  /\ UNCHANGED << img, phase, tag, infos, bandEnds, finished, band, started, skipped, position, shown >>

(* The limits of the tile rows are corrected, those of the bands are not.  *)
FixWrongImageSizeTag ==
  /\ tag' = total
  /\ infos' = [r \in DOMAIN infos |->
                 [b \in Bands(img) |-> IF infos[r][b] > total THEN total ELSE infos[r][b]]]
  /\ limit' = IF finished THEN limit ELSE total

(* FinishInternal, up to what it decodes, once the file has ended.         *)
FinishInternal ==
  /\ phase = "receiving" /\ pc = "idle" /\ total = img.size /\ total >= img.head
  /\ phase' = "finishing"
  /\ IF atEnd
     THEN pc' = "all" /\ band' = Len(bandEnds) /\ UNCHANGED << tag, infos, limit >>
     ELSE /\ IF total < tag
             THEN pc' = "band" /\ FixWrongImageSizeTag
             ELSE pc' = "idle" /\ UNCHANGED << tag, infos, limit >>
          /\ band' = band
  /\ UNCHANGED << img, total, bandEnds, atEnd, finished, started, skipped, tileRow, mbRow, line, sc,
                  row, shown >>

EndDecodingMBRows ==
  /\ phase = "finishing" /\ pc = "idle"
  /\ phase' = "done"
  /\ UNCHANGED << img, pc, total, tag, infos, bandEnds, atEnd, finished, band, started, skipped,
                  position, shown >>

-----------------------------------------------------------------------------
(* One macroblock row in the library.                                      *)

(* getTilePos: cTileRow moves on only at the top of the next tile row.     *)
TilePos(t, m) ==
  CASE m = 0 -> 1
    [] m > 0 /\ t < NumTileRows /\ m = img.tops[t + 1] -> t + 1
    [] OTHER -> t

ReadLimit == IF limit = 0 THEN tag ELSE Min({tag, limit})

Readable == Min({ReadLimit, total})

(* readPackets at the top of a tile row attaches a packet of each band of  *)
(* the pass, but those that are empty.                                     *)
CanAttach(t) == \A p \in PassPackets(t) : Start(img, t, p[1], p[2]) < Readable

Attached(s, t, m) ==
  IF m = img.tops[t] THEN [tile |-> t, att |-> t, stuck |-> 0] ELSE [s EXCEPT !.tile = t]

(* What may be read of row m of tile row t with the library at a: "fail"   *)
(* when the packets could not be attached or ran out of bytes that have    *)
(* arrived, "bad" when they are those of another tile row.  Where the      *)
(* limit is above what has arrived, how far the library reads ahead        *)
(* decides.  A reader that has all the bytes below the limit is not asked  *)
(* for more: what lies behind them is taken for the rest of the packet.    *)
Outcomes(a, t, m) ==
  LET top  == m = img.tops[t]
      fits == TrueEnd(t) <= Readable
      here == total >= ReadLimit
  IN  IF (top /\ ~ CanAttach(t)) \/ (~ top /\ ~ here /\ a.stuck = Readable) THEN {"fail"}
      ELSE IF ~ top /\ (a.stuck # 0 \/ a.att # TileRowOf(m)) THEN {"bad", "fail"}
      ELSE CASE fits /\ here   -> {"good"}
             [] fits /\ ~ here -> {"good", "fail"}
             [] ~ fits         -> {"fail"} \cup (IF here THEN {"bad"} ELSE {})
                                  \cup (IF m + 1 = LastRow(img, t) THEN {} ELSE {"good"})

(* The state of the library after row m, and what was read; below the      *)
(* picture there is nothing to read.                                       *)
ReadRow(s, m) ==
  LET t == TilePos(s.tile, m)
      a == Attached(s, t, m)
  IN  IF m = img.rows THEN {<< s, "good" >>}
      ELSE {<< IF o = "good" THEN a ELSE [a EXCEPT !.stuck = Readable], o >> : o \in Outcomes(a, t, m)}

(* JXR_DecodeNextMBRow: the first call of a pass reads rows 0 and 1, a     *)
(* later one the next row; each puts out the row above the last one read.  *)
Decodings ==
  LET then(r, m) == IF r[2] = "fail" THEN {<< r >>} ELSE {<< r, q >> : q \in ReadRow(r[1], m)}
  IN  IF mbRow = 0 THEN UNION {then(r, 1) : r \in ReadRow(sc, 0)}
      ELSE {<< r >> : r \in ReadRow(sc, mbRow)}

DecodeNextMBRow(d, output) ==
  LET ok   == d[Len(d)][2] # "fail"
      next == mbRow + Len(d)
  IN  /\ sc' = d[Len(d)][1]
      /\ row' = [m \in MBRows |-> IF m \in mbRow .. next - 1 /\ d[m - mbRow + 1][2] # "fail"
                                  THEN d[m - mbRow + 1][2] ELSE row[m]]
      /\ mbRow' = IF ok THEN next ELSE mbRow
      /\ line' = IF ok THEN line + 1 ELSE line
      /\ shown' = IF ok /\ output
                  THEN [shown EXCEPT ![line] =
                          IF line = next - 2 /\ \A m \in Neighbours(line) : row'[m] = "good"
                          THEN band ELSE -1]
                  ELSE shown

-----------------------------------------------------------------------------
(* DoTheDecoding.                                                          *)

(* GetNumberOfCoveredSubBands: how many bands have arrived completely.     *)
NumCoveredPast ==                                                     \* MUTANT
  Max({0} \cup {b \in 1 .. NumAvailable :
                  bandEnds[b] # 0 /\ \A a \in 1 .. b : total > bandEnds[a]})

NumCovered ==
  Max({0} \cup {b \in 1 .. NumAvailable :
                  bandEnds[b] # 0 /\ \A a \in 1 .. b : total >= bandEnds[a]})

HasEmptyTileRow(b) == \E r \in 1 .. NumTileRows : infos[r][b] = 0

(* A band that has arrived as a whole is decoded at one go, unless it is   *)
(* the last to have arrived and this pass has begun it already.            *)
WholeBand(decodingTileRow) ==
  /\ NumCovered >= band
  /\ ~ (NumCovered = band /\ decodingTileRow > 1)
  /\ ~ HasEmptyTileRow(band)

StartDecodingNextSubband ==
  /\ tileRow' = 1 /\ mbRow' = 0 /\ line' = 0
  /\ sc' = [sc EXCEPT !.att = 0, !.stuck = 0]
  /\ row' = [m \in MBRows |-> "none"]

StartBand ==
  LET whole == WholeBand(IF started THEN tileRow ELSE 1)
  IN  /\ pc = "band"
      /\ IF ~ started \/ (whole /\ NumCovered > band)
         THEN StartDecodingNextSubband
         ELSE UNCHANGED << tileRow, mbRow, line, sc, row >>
      /\ started' = TRUE
      /\ IF whole
         THEN band' = NumCovered /\ pc' = "all" /\ limit' = bandEnds[NumCovered]
         ELSE band' = band /\ limit' = limit /\ pc' = IF NumTileRows > 1 THEN "tiles" ELSE "idle"
      /\ UNCHANGED << img, phase, total, tag, infos, bandEnds, atEnd, finished, skipped, shown >>

BandDecoded ==
  IF band' > NumAvailable
  THEN finished' = TRUE /\ pc' = "idle" /\ started' = started
  ELSE finished' = finished /\ pc' = "band" /\ started' = FALSE

LeaveTileRow ==
  /\ tileRow' = tileRow + 1
  /\ IF tileRow' > NumTileRows
     THEN band' = band + 1 /\ BandDecoded
     ELSE pc' = "tiles" /\ UNCHANGED << band, finished, started >>

(* A tile row without the band is skipped if the code takes it that the    *)
(* pass would show just what the picture shows already: hard tile rows are *)
(* taken to be apart.                                                      *)
CanSkip ==
  /\ infos[tileRow][band] = 0
  /\ img.hard \/ ~ img.overlap \/ (tileRow < NumTileRows /\ infos[tileRow + 1][band] = 0)

(* SetCurrentTileRow takes any tile row but the last.                      *)
SetCurrentTileRowNone(r) == sc                                        \* MUTANT

SetCurrentTileRow(r) == IF r < NumTileRows THEN [sc EXCEPT !.tile = r] ELSE sc

Tiles ==
  /\ pc = "tiles"
  /\ LET upper == infos[tileRow][band]
     IN  IF upper # 0 /\ total < upper
         THEN pc' = "idle" /\ UNCHANGED << position, band, finished, started, skipped >>
         ELSE IF CanSkip
         THEN /\ IF tileRow < NumTileRows
                 THEN /\ mbRow' = img.tops[tileRow + 1]
                      /\ sc' = SetCurrentTileRow(tileRow + 1)
                      /\ line' = RowTop(img, tileRow + 1)
                      /\ skipped' = TRUE
                 ELSE UNCHANGED << mbRow, sc, line, skipped >>
              /\ LeaveTileRow
              /\ UNCHANGED << limit, row >>
         ELSE /\ pc' = "rows" /\ limit' = upper
              /\ UNCHANGED << tileRow, mbRow, line, sc, row, band, finished, started, skipped >>
  /\ UNCHANGED << img, phase, total, tag, infos, bandEnds, atEnd, shown >>

(* One turn of the loop of DecodeNextTileRow.  The first row after a skip  *)
(* is the last of the tile row that was skipped: it is not shown.          *)
RowsDone(decoded) == ~ decoded \/ line' >= RowTop(img, tileRow) + BandRowHeight(img, tileRow)

OutputAlways == TRUE                                                  \* MUTANT

Output == ~ skipped

DecodeRow ==
  /\ pc = "rows"
  /\ line < img.rows
  /\ \E d \in Decodings :
       /\ DecodeNextMBRow(d, Output)
       /\ IF RowsDone(d[Len(d)][2] # "fail")
          THEN LeaveTileRow
          ELSE UNCHANGED << tileRow, band, pc, finished, started >>
  /\ skipped' = FALSE
  /\ UNCHANGED << img, phase, total, tag, infos, bandEnds, atEnd, limit >>

DecodeAll ==
  /\ pc = "all"
  /\ line < img.rows
  /\ \E d \in Decodings :
       /\ DecodeNextMBRow(d, TRUE)
       /\ IF d[Len(d)][2] = "fail" \/ line' >= img.rows
          THEN band' = band + 1 /\ IF atEnd THEN pc' = "idle" /\ UNCHANGED << finished, started >>
                                   ELSE BandDecoded
          ELSE UNCHANGED << band, pc, finished, started >>
  /\ UNCHANGED << img, phase, total, tag, infos, bandEnds, atEnd, skipped, tileRow, limit >>

Terminating == phase = "done" /\ UNCHANGED vars

Next ==
  \/ \E n \in 1 .. MaxWrite : WriteInternal(n)
  \/ FinishInternal
  \/ EndDecodingMBRows
  \/ StartBand
  \/ Tiles
  \/ DecodeRow
  \/ DecodeAll
  \/ Terminating

Spec == Init /\ [][Next]_vars

-----------------------------------------------------------------------------
Want(m) == Max({LastPresent(TileRowOf(k)) : k \in Neighbours(m)})

(* No row of a complete file is ever made from packets of another tile     *)
(* row, from what lies behind a limit, or smoothed against a row that the  *)
(* pass has not read.  (A pass over a band that is cut takes what lies     *)
(* behind the cut for the rest of it.)                                     *)
LinesGood == Complete => \A m \in MBRows : shown[m] # -1

(* A complete file ends with every row shown with the last band its        *)
(* packets and those of its neighbours have, though its size tag may say   *)
(* more (with several tile rows: the bands' limits are not corrected).     *)
FullQuality == phase = "done" /\ Complete => \A m \in MBRows : shown[m] >= Want(m)

(* Progressive means that the picture only gets better: no row of a        *)
(* complete file is shown again with fewer bands.                          *)
QualityGrows == [][Complete => \A m \in MBRows : shown'[m] >= shown[m]]_vars

(* A tile row is refined as soon as the packets of a band for it and for   *)
(* the next tile row have arrived.                                         *)
RefinedInTime ==
  pc = "idle" /\ total >= img.head /\ ~ atEnd /\ Complete =>
     \A b \in 1 .. NumAvailable : \A r \in 1 .. NumTileRows :
        (\A a \in 1 .. b : \A t \in 1 .. NumTileRows :
            a < b \/ t <= r + 1 => total >= BandUpperLimit(img, t, a))
        => \A m \in 0 .. LastRow(img, r) - (IF r = NumTileRows THEN 1 ELSE 2) :
              shown[m] >= Min({b, Want(m)})

-----------------------------------------------------------------------------
(* The images of which ProgressiveDecoderProofs proves them, and what the  *)
(* decoder relies on in them without a check.                              *)

(* Tile row r has band b if one of its tiles has.                          *)
HasBand(i, r, b) == LowerLimit(i, r, b) # 0

(* An image whose rows are never smoothed against one that was not read,   *)
(* nor read as another tile row's.  With overlap every tile row has all    *)
(* bands, or else rows are smoothed against those of a tile row that was   *)
(* skipped (nsJPEGXRDecoder.cpp:2059 for hard tiles, :2071 and :2098); but *)
(* for the last tile row and the last band, where only hard tiles are      *)
(* skipped.  Without, of three tile rows the second is not the only one    *)
(* without a band (strdec.c:258).                                          *)
Seamless(i) ==
  /\ i.overlap => \A b \in 1 .. NumAvailableBands(i), r \in TileRows(i) :
                     HasBand(i, r, b) \/ (~ i.hard /\ r = Len(i.tops) /\ b = NumAvailableBands(i))
  /\ ~ i.overlap /\ Len(i.tops) = 3 /\ i.tops[2] > 1 =>
       \A b \in 1 .. NumAvailableBands(i) : HasBand(i, 1, b) /\ HasBand(i, 3, b) => HasBand(i, 2, b)

(* An image of which every row is refined: a single tile row has all bands *)
(* and the size its tag says; where tile rows are skipped, the second has  *)
(* every band of the first (nsJPEGXRDecoder.cpp:588), and the last two do  *)
(* not both lack a band that is not the last one (m_skippedTileRows, :2092 *)
(* and :1913).                                                             *)
Refinable(i) ==
  /\ Seamless(i)
  /\ Len(i.tops) = 1 => i.upper = i.content /\ \A b \in 1 .. NumAvailableBands(i) : HasBand(i, 1, b)
  /\ ~ i.overlap /\ Len(i.tops) > 1 /\ i.tops[2] > 1 =>
       \A b \in 1 .. NumAvailableBands(i) : HasBand(i, 1, b) => HasBand(i, 2, b)
  /\ ~ i.overlap /\ Len(i.tops) > 1 =>
       \A b \in 1 .. NumAvailableBands(i) - 1 : HasBand(i, Len(i.tops) - 1, b) \/ HasBand(i, Len(i.tops), b)

(* No tile row lacks a band that a later one of it refines.                *)
Nested(i) == \A r \in TileRows(i), b, d \in Bands(i) : b <= d /\ HasBand(i, r, d) => HasBand(i, r, b)

=============================================================================
