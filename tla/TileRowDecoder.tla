--------------------------- MODULE TileRowDecoder ---------------------------
(***************************************************************************)
(* nsJPEGXRDecoder on an image of several tiles that is neither            *)
(* progressive nor one tile column of spatial packets: bytes come in       *)
(* through WriteInternal, and DoTheDecoding decodes one tile row at a time *)
(* as soon as the limits of TileLimits say its packets have arrived,       *)
(* discarding from the chain buffer what no later tile row needs.          *)
(* FinishInternal decodes what is left, after correcting the size tag of a *)
(* file that is shorter than it says.                                      *)
(*                                                                         *)
(* Besides the fields TileLimits uses, an image has                        *)
(*   size     how many bytes the file holds                                *)
(*   content  where the last packet really ends                            *)
(* upper is what the size tag says: it may be more than content.  The      *)
(* library reads a row from the packets it is attached to; a row that does *)
(* not end its tile may end anywhere in them.                              *)
(***************************************************************************)
EXTENDS TileLimits

CONSTANTS Images,    \* the images that may be sent
          MaxWrite   \* the most bytes one WriteInternal brings

(* Tiles may be stored in any order, and packets overlap.                  *)
ImageFields == {"tops", "rows", "table", "spatial", "head", "upper", "size", "content"}

WellFormed(i) ==
  /\ DOMAIN i = ImageFields
  /\ i.head \in Nat /\ i.upper \in Nat /\ i.content \in Nat /\ i.size \in Nat
  /\ i.spatial \in BOOLEAN /\ i.content <= i.upper
  /\ RowsWellFormed(i) /\ TableWellFormed(i) /\ PacketsWellFormed(i)

ASSUME ImagesAssumption == MaxWrite \in Nat /\ \A i \in Images : WellFormed(i)

VARIABLES img,
          phase,     \* "receiving", "finishing" or "done"
          pc,        \* "idle", "loop" (DoTheDecoding), "rows" (DecodeNextTileRow), "all"
          total,     \* bytes received
          tag,       \* where the image ends: the size tag, as corrected
          infos,     \* m_tileRowInfos: upperLimit and nextLowerLimit
          atEnd,     \* m_decodeAtEnd
          finished,  \* m_mainPlaneFinished
          tileRow,   \* m_currentTileRow, from 1
          limit,     \* cCurrentSubbandUpperLimit, 0 for none
          mbRow,     \* DecoderCurrMBRow
          line,      \* m_currLine, in macroblock rows
          floor,     \* bytes below are discarded
          sc,        \* the library: cTileRow, and whether its readers have
                     \* lost the place where the next row begins
          row,       \* what has been read of each macroblock row
          out        \* the rows of the picture

decoder == << infos, atEnd, finished, tileRow, limit, mbRow, line, floor, sc, row, out >>
vars    == << img, phase, pc, total, tag, decoder >>

NumTileRows == Len(img.tops)
MBRows      == 0 .. img.rows - 1

(* The image as the file holds it.                                         *)
Real == [img EXCEPT !.upper = img.content]

Complete == img.content <= img.size

TrueEnd(r) == Max({PacketEnd(Real, r, p[1], p[2]) : p \in RowPackets(img, r)})

TypeOK ==
  /\ img \in Images
  /\ phase \in {"receiving", "finishing", "done"}
  /\ pc \in {"idle", "loop", "rows", "all"}
  /\ total \in 0 .. img.size
  /\ tag \in Nat /\ limit \in Nat /\ floor \in Nat
  /\ infos \in [1 .. NumTileRows -> [upperLimit : Nat, nextLowerLimit : Nat]]
  /\ atEnd \in BOOLEAN /\ finished \in BOOLEAN
  /\ tileRow \in 1 .. NumTileRows + 1
  /\ mbRow \in 0 .. img.rows + 1
  /\ line \in 0 .. img.rows
  /\ sc \in [tile : 1 .. NumTileRows, lost : BOOLEAN]
  /\ row \in [MBRows -> {"none", "good", "bad"}]
  /\ out \in [MBRows -> {"none", "good", "bad"}]

FillTileRowInfo(i) ==
  [r \in TileRows(i) |-> [upperLimit |-> RowUpperLimit(i, r), nextLowerLimit |-> NextLowerLimit(i, r)]]

Init ==
  /\ img \in Images
  /\ phase = "receiving" /\ pc = "idle" /\ total = 0 /\ tag = img.upper
  /\ infos = FillTileRowInfo(img)
  /\ atEnd = FALSE /\ finished = FALSE
  /\ tileRow = 1 /\ limit = 0 /\ mbRow = 0 /\ line = 0 /\ floor = 0
  /\ sc = [tile |-> 1, lost |-> FALSE]
  /\ row = [m \in MBRows |-> "none"] /\ out = [m \in MBRows |-> "none"]

-----------------------------------------------------------------------------
(* Bytes.                                                                  *)

(* The header and the index table are parsed when they have arrived; an    *)
(* image that is then complete is left to FinishInternal.                  *)
WriteInternal(n) ==
  /\ phase = "receiving" /\ pc = "idle" /\ total + n <= img.size
  /\ total' = total + n
  /\ atEnd' = IF total < img.head /\ total' >= img.head THEN total' >= tag ELSE atEnd
  /\ pc' = IF total' < img.head \/ atEnd' \/ finished THEN "idle" ELSE "loop"
  /\ UNCHANGED << img, phase, tag, infos, finished, tileRow, limit, mbRow, line, floor, sc, row, out >>

FixWrongImageSizeTag ==
  LET least(a) == IF a > total THEN total ELSE a
  IN  /\ tag' = total
      /\ infos' = [r \in DOMAIN infos |-> [upperLimit     |-> least(infos[r].upperLimit),
                                           nextLowerLimit |-> least(infos[r].nextLowerLimit)]]
      /\ limit' = IF finished THEN limit ELSE total

(* WriteInternal with no bytes says that there are no more.  An image left *)
(* to FinishInternal has total >= tag.                                     *)
WriteEnd ==
  /\ phase = "receiving" /\ pc = "idle" /\ total = img.size
  /\ total >= img.head /\ ~ finished /\ total < tag
  /\ FixWrongImageSizeTag
  /\ pc' = "loop"
  /\ UNCHANGED << img, phase, total, atEnd, finished, tileRow, mbRow, line, floor, sc, row, out >>

(* FinishInternal, up to what it decodes.  It is called when the file has  *)
(* ended.                                                                  *)
FinishInternal ==
  /\ phase = "receiving" /\ pc = "idle" /\ total = img.size /\ total >= img.head
  /\ phase' = "finishing"
  /\ IF atEnd
     THEN pc' = "all" /\ UNCHANGED << tag, infos, limit >>
     ELSE IF total < tag
          THEN pc' = "loop" /\ FixWrongImageSizeTag
          ELSE pc' = "idle" /\ UNCHANGED << tag, infos, limit >>
  /\ UNCHANGED << img, total, atEnd, finished, tileRow, mbRow, line, floor, sc, row, out >>

EndDecodingMBRows ==
  /\ phase = "finishing" /\ pc = "idle"
  /\ phase' = "done"
  /\ UNCHANGED << img, pc, total, tag, decoder >>

-----------------------------------------------------------------------------
(* One macroblock row in the library.                                      *)

(* getTilePos: cTileRow moves on only at the top of the next tile row.     *)
TilePos(t, m) ==
  CASE m = 0 -> 1
    [] m > 0 /\ t < NumTileRows /\ m = img.tops[t + 1] -> t + 1
    [] OTHER -> t

ReadLimit == IF limit = 0 THEN tag ELSE Min({tag, limit})

(* readPackets at the top of a tile row: each packet of the row must lie   *)
(* inside the limit and still be in the buffer.                            *)
CanAttach(t) ==
  \A p \in RowPackets(img, t) : Start(img, t, p[1], p[2]) \in floor .. ReadLimit - 1

(* What reading row m from tile row t brings: "fail" when the packets      *)
(* could not be attached or what they hold is no macroblock.  A reader     *)
(* that has all the bytes below the limit is not asked for more: what lies *)
(* behind them is taken for the rest of the packet, "bad".  A row that     *)
(* failed below the top of its tile row is not put back before it is tried *)
(* again.                                                                  *)
Outcomes(s, t, m) ==
  LET top == m = img.tops[t]
  IN  IF top /\ ~ CanAttach(t) THEN {"fail"}
      ELSE IF ~ top /\ s.lost THEN {"bad", "fail"}
      ELSE IF TrueEnd(t) <= ReadLimit THEN {"good"}
      ELSE {"bad", "fail"} \cup (IF m + 1 = LastRow(img, t) THEN {} ELSE {"good"})

(* The state of the library after row m, and what was read.                *)
ReadRow(s, m) ==
  LET t == TilePos(s.tile, m)
  IN  IF m = img.rows THEN {<< s, "good" >>}          \* below the picture: nothing to read
      ELSE {<< [tile |-> t, lost |-> o # "good"], o >> : o \in Outcomes(s, t, m)}

(* JXR_DecodeNextMBRow: the first call reads rows 0 and 1, a later one the *)
(* next row; each puts out the row above the last one read.                *)
Decodings ==
  LET then(r, m) == IF r[2] = "fail" THEN {<< r >>} ELSE {<< r, q >> : q \in ReadRow(r[1], m)}
  IN  IF mbRow = 0 THEN UNION {then(r, 1) : r \in ReadRow(sc, 0)}
      ELSE {<< r >> : r \in ReadRow(sc, mbRow)}

SetRows(d) ==
  [m \in MBRows |-> IF m \in mbRow .. mbRow + Len(d) - 1 /\ d[m - mbRow + 1][2] # "fail"
                    THEN d[m - mbRow + 1][2] ELSE row[m]]

DecodeNextMBRow(d) ==
  LET ok    == d[Len(d)][2] # "fail"
      next  == mbRow + Len(d)
      shown == {line, line + 1} \cap MBRows       \* a row is smoothed against the one below
  IN  /\ sc' = d[Len(d)][1]
      /\ row' = SetRows(d)
      /\ mbRow' = IF ok THEN next ELSE mbRow
      /\ line' = IF ok THEN line + 1 ELSE line
      /\ out' = IF ok THEN [out EXCEPT ![line] =
                              IF line = next - 2 /\ \A m \in shown : row'[m] = "good" THEN "good" ELSE "bad"]
                ELSE out

-----------------------------------------------------------------------------
(* DoTheDecoding.                                                          *)

(* A tile row of one macroblock row waits for the next one, whose first    *)
(* row has to be read before its own comes out.                            *)
TileRowUpperLimit ==
  IF NumMBRows(img, tileRow) = 1 THEN infos[tileRow + 1].upperLimit ELSE infos[tileRow].upperLimit

ArrivedPast == total > TileRowUpperLimit                                      \* MUTANT

Arrived == total >= TileRowUpperLimit

(* Outside m_tileRowInfos the code would read whatever is there; the model *)
(* then leaves the loop, and its rows are missing at the end.              *)
Loop ==
  /\ pc = "loop"
  /\ IF tileRow \in DOMAIN infos /\ Arrived
     THEN pc' = "rows" /\ limit' = TileRowUpperLimit
     ELSE pc' = "idle" /\ limit' = limit
  /\ UNCHANGED << img, phase, total, tag, infos, atEnd, finished, tileRow, mbRow, line, floor, sc, row, out >>

(* One turn of the loop of DecodeNextTileRow, and after the last one the   *)
(* rest of the turn of DoTheDecoding.  There is always a line to decode:   *)
(* where there is none the model deadlocks.                                *)
RowsLeave ==
  /\ tileRow' = tileRow + 1
  /\ floor' = Max({floor, infos[tileRow].nextLowerLimit})
  /\ finished' = (tileRow' > NumTileRows)
  /\ pc' = IF finished' THEN "idle" ELSE "loop"

RowsDone(decoded) == ~ decoded \/ line' >= RowTop(img, tileRow) + RowHeight(img, tileRow)

DecodeRow ==
  /\ pc = "rows"
  /\ line < img.rows
  /\ \E d \in Decodings :
       /\ DecodeNextMBRow(d)
       /\ IF RowsDone(d[Len(d)][2] # "fail")
          THEN RowsLeave
          ELSE UNCHANGED << tileRow, floor, finished, pc >>
  /\ UNCHANGED << img, phase, total, tag, infos, atEnd, limit >>

(* DecodeAllMBRows, when the image was complete before decoding began.     *)
DecodeAll ==
  /\ pc = "all"
  /\ line < img.rows
  /\ \E d \in Decodings :
       /\ DecodeNextMBRow(d)
       /\ pc' = IF d[Len(d)][2] = "fail" \/ line' >= img.rows THEN "idle" ELSE "all"
  /\ UNCHANGED << img, phase, total, tag, infos, atEnd, finished, tileRow, limit, floor >>

Terminating == phase = "done" /\ UNCHANGED vars

Next ==
  \/ \E n \in 1 .. MaxWrite : WriteInternal(n)
  \/ WriteEnd
  \/ FinishInternal
  \/ EndDecodingMBRows
  \/ Loop
  \/ DecodeRow
  \/ DecodeAll
  \/ Terminating

Spec == Init /\ [][Next]_vars

-----------------------------------------------------------------------------
(* No row of a complete file is ever made from packets of another tile row *)
(* or from what lies behind a limit: each tile row is decoded below one    *)
(* that its packets do not reach across                                    *)
(* (nsJPEGXRDecoder::DoTheDecoding with SetCurrentSubbandUpperLimit).      *)
LinesGood == Complete => \A m \in MBRows : out[m] # "bad"

(* A complete file, whatever its size tag says, ends as a complete         *)
(* picture: no tile row is given up before its packets have all arrived.   *)
AllLines == phase = "done" /\ Complete => \A m \in MBRows : out[m] = "good"

(* The picture does not wait for the end of the file: when every packet of *)
(* tile row r and of the next one has arrived the lines of r are out       *)
(* (the responsive decoding WriteInternal is for).                         *)
RowsShownInTime ==
  pc = "idle" /\ total >= img.head /\ ~ atEnd =>
     \A r \in 1 .. NumTileRows :
        (\A t \in 1 .. r + 1 : t \in DOMAIN infos => total >= infos[t].upperLimit)
          => line >= LastRow(img, r) - (IF r = NumTileRows THEN 0 ELSE 1) \/ ~ Complete

(* DiscardHead throws away nothing that a tile row still to be attached    *)
(* begins with, in whatever order the tiles are stored.                    *)
NothingNeededDiscarded ==
  Complete => \A r \in 1 .. NumTileRows :
     img.tops[r] >= mbRow => \A p \in RowPackets(img, r) : floor <= Start(img, r, p[1], p[2])

=============================================================================
