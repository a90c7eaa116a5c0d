--------------------------- MODULE TransformCodec ---------------------------
(***************************************************************************)
(* The encoder's and the decoder's walk over one plane of an image         *)
(* (image/encode/strenc.c, image/decode/strdec.c).  Both visit the corners *)
(* (cRow, cColumn) of the macroblocks row by row, one row and one column   *)
(* more than there are macroblocks, and transform what they can there.     *)
(* The encoder codes the macroblock above left of the corner at once; the  *)
(* decoder gets the one below right of it, and gives a row of pixels out   *)
(* after the row of corners below it.                                      *)
(*                                                                         *)
(* The plane lies in one array of cells; the real program keeps the two    *)
(* rows of macroblocks that a corner touches.  Entropy coding is left out: *)
(* a coefficient of the decoder is the encoder's.                          *)
(***************************************************************************)
EXTENDS ForwardTransform, InverseTransform

CONSTANT Images

\* w, h: size in macroblocks; format; ol: levels of overlap; hard: hard tiles; uiTileX, uiTileY:
\* first macroblock of every column and row of tiles; left, right, top, bottom: the first and last
\* pixel, across and down, of the region of interest.
ASSUME ImagesAssumption ==
    \A i \in Images : /\ i.w \in Nat \ {0} /\ i.h \in Nat \ {0}
                      /\ i.ol \in 0 .. 2 /\ i.format \in {"full", "420", "422"}
                      /\ i.hard \in BOOLEAN
                      /\ i.uiTileX \in Seq(Nat) /\ i.uiTileX[1] = 0
                      /\ i.uiTileY \in Seq(Nat) /\ i.uiTileY[1] = 0
                      /\ {i.left, i.right, i.top, i.bottom} \subseteq Nat

VARIABLES image, phase, cRow, cColumn,
          tileX, tileY, mbY, bHoriTileBoundary,    \* the tile state of one CWMImageStrCodec
          cell,                                    \* the plane
          shown                                    \* the rows of macroblocks given out

tiles == <<tileX, tileY, mbY, bHoriTileBoundary>>
vars  == <<image, phase, cRow, cColumn, tileX, tileY, mbY, bHoriTileBoundary, cell, shown>>

MBCells == CASE image.format = "full" -> 256 [] image.format = "420" -> 64 [] image.format = "422" -> 128
ColumnCells == IF image.format = "420" THEN 32 ELSE 64
Plane == 0 .. image.w * image.h * MBCells - 1
MBAt(r, c) == {r * image.w * MBCells + c * MBCells + k : k \in 0 .. MBCells - 1}

-----------------------------------------------------------------------------
(* Tile boundaries.  Columns are compared with uiTileY and rows with       *)
(* uiTileX.                                                                *)

Entry(tile, i)  == tile[i + 1]
SliceMinus1(tile) == Len(tile) - 1

TileYBefore == IF cColumn = 0 THEN 0 ELSE tileY

bVertTileBoundary == /\ image.hard
                     /\ TileYBefore < SliceMinus1(image.uiTileY)
                     /\ cColumn = Entry(image.uiTileY, TileYBefore + 1)

TileYHere == IF bVertTileBoundary THEN TileYBefore + 1 ELSE TileYBefore

bOneMBRightVertTB == /\ image.hard
                     /\ 0 < TileYBefore /\ TileYBefore <= SliceMinus1(image.uiTileY)
                     /\ cColumn - 1 = Entry(image.uiTileY, TileYBefore)

bOneMBLeftVertTB == /\ image.hard
                    /\ TileYHere < SliceMinus1(image.uiTileY)
                    /\ cColumn + 1 = Entry(image.uiTileY, TileYHere + 1)

NewTileRow == /\ cRow # 0 /\ mbY # cRow
              /\ tileX < SliceMinus1(image.uiTileX)
              /\ cRow = Entry(image.uiTileX, tileX + 1)

\* MUTANT: the boundary is forgotten after the first column.
HoriOnce == image.hard /\ NewTileRow

HoriHere == /\ image.hard
            /\ NewTileRow \/ (cRow # 0 /\ mbY = cRow /\ bHoriTileBoundary)

Corner ==
    [p0 |-> ((cRow - 1) * image.w + cColumn) * MBCells, p1 |-> (cRow * image.w + cColumn) * MBCells,
     left |-> cColumn = 0, right |-> cColumn = image.w, top |-> cRow = 0, bottom |-> cRow = image.h,
     vert |-> bVertTileBoundary, hori |-> HoriHere,
     nextLeft |-> cColumn = 1 \/ bOneMBRightVertTB,
     nextRight |-> cColumn = image.w - 1 \/ bOneMBLeftVertTB,
     ol |-> image.ol]

TileXHere == IF cRow = 0 THEN 0 ELSE IF NewTileRow THEN tileX + 1 ELSE tileX

Located ==
    /\ bHoriTileBoundary' = HoriHere
    /\ mbY' = cRow
    /\ tileX' = IF image.hard THEN TileXHere ELSE tileX
    /\ tileY' = IF image.hard THEN TileYHere ELSE tileY

-----------------------------------------------------------------------------
(* Regions of interest.                                                    *)

bDecodeFullFrame == /\ image.left + image.top = 0
                    /\ (image.right + 15) \div 16 >= (16 * image.w + 14) \div 16
                    /\ (image.bottom + 15) \div 16 >= (16 * image.h + 14) \div 16

TileColumn(c) == CHOOSE i \in 1 .. Len(image.uiTileX) :
                    /\ image.uiTileX[i] <= c
                    /\ i < Len(image.uiTileX) => c < image.uiTileX[i + 1]
TileRow(r)    == CHOOSE i \in 1 .. Len(image.uiTileY) :
                    /\ image.uiTileY[i] <= r
                    /\ i < Len(image.uiTileY) => r < image.uiTileY[i + 1]

TileEnd(tile, i, size) == 16 * (IF i < Len(tile) THEN tile[i + 1] ELSE size)

rExt == CASE image.ol = 0 -> 0 [] image.ol = 1 -> 2 [] image.ol = 2 -> 10

\* m_bInROI: the tile of macroblock (r, c) is entropy decoded.
InROI(r, c) ==
    \/ bDecodeFullFrame
    \/ LET x == TileColumn(c)  y == TileRow(r) IN
       /\ image.left < TileEnd(image.uiTileX, x, image.w) + rExt
       /\ image.top  < TileEnd(image.uiTileY, y, image.h) + rExt
       /\ 16 * image.uiTileX[x] <= image.right + rExt
       /\ 16 * image.uiTileY[y] <= image.bottom + rExt
       /\ 16 * r <= image.bottom + rExt

\* The corners that are not transformed.
FarFromROI ==
    /\ ~bDecodeFullFrame
    /\ \/ 16 * cColumn > image.right + 25 \/ 16 * cColumn + 25 < image.left
       \/ 16 * cRow > image.bottom + 25   \/ 16 * cRow + 25 < image.top

\* The last row of corners that is walked.
cMBRow == IF bDecodeFullFrame THEN image.h ELSE (image.bottom + 16) \div 16

\* MUTANT: the row given out is taken for the row the corners are on.
RowOfCorners == bDecodeFullFrame \/ (16 * cRow >= image.top /\ 16 * cRow <= image.bottom)

RowWanted == bDecodeFullFrame \/ (16 * cRow > image.top /\ 16 * cRow <= image.bottom + 16)

-----------------------------------------------------------------------------

Init ==
    /\ image \in Images
    /\ phase = "encode"
    /\ cRow = 0 /\ cColumn = 0
    /\ tileX = 0 /\ tileY = 0 /\ mbY = 0 /\ bHoriTileBoundary = FALSE
    /\ cell = [a \in PredCells \cup Plane |-> <<>>]
    /\ shown = {}

LastColumn == cColumn = image.w

LastCorner == LastColumn /\ cRow = (IF phase = "encode" THEN image.h ELSE cMBRow)

NextCorner ==
    /\ ~LastCorner
    /\ cColumn' = IF LastColumn THEN 0 ELSE cColumn + 1
    /\ cRow' = IF LastColumn THEN cRow + 1 ELSE cRow
    /\ UNCHANGED phase

\* The next codec starts from the first corner with a tile state of its own.
Finished(next) ==
    /\ LastCorner
    /\ phase' = next
    /\ cRow' = 0 /\ cColumn' = 0
    /\ tileX' = 0 /\ tileY' = 0 /\ mbY' = 0 /\ bHoriTileBoundary' = FALSE

ForwardHere == CASE image.format = "full" -> FullForward(Corner)
             [] image.format = "420"  -> Forward420(Corner)
             [] image.format = "422"  -> Forward422(Corner)

InverseHere == CASE image.format = "full" -> FullInverse(Corner)
             [] image.format = "420"  -> Inverse420(Corner)
             [] image.format = "422"  -> Inverse422(Corner)

processMacroblock ==
    /\ phase = "encode"
    /\ cell' = InOrder(cell, ForwardHere, Apply)
    /\ (NextCorner /\ Located) \/ Finished("decode")
    /\ UNCHANGED <<image, shown>>

\* A macroblock outside the region is not entropy decoded: its cells hold whatever was there.
Received ==
    IF cRow < image.h /\ cColumn < image.w /\ ~InROI(cRow, cColumn)
    THEN LET stale == MBAt(cRow, cColumn)
         IN  [a \in DOMAIN cell |-> IF a \in stale THEN <<[op |-> "stale", on |-> <<>>]>> ELSE cell[a]]
    ELSE cell

\* With the end of a row of corners, the colour conversion gives out the row above it.
processMacroblockDec ==
    /\ phase = "decode"
    /\ cell' = IF FarFromROI THEN Received ELSE InOrder(Received, InverseHere, Undo)
    /\ shown' = IF LastColumn /\ cRow > 0 /\ RowWanted THEN shown \cup {cRow - 1} ELSE shown
    /\ \/ NextCorner /\ IF FarFromROI THEN UNCHANGED tiles ELSE Located
       \/ Finished("done")
    /\ UNCHANGED image

Next == processMacroblock \/ processMacroblockDec

Spec == Init /\ [][Next]_vars

-----------------------------------------------------------------------------
(* Properties.                                                             *)

\* The variables keep their types, whatever the image: the walk stays on the corners.
TypeOK ==
    /\ image \in Images
    /\ phase \in {"encode", "decode", "done"}
    /\ cRow \in 0 .. image.h /\ cColumn \in 0 .. image.w
    /\ tileX \in 0 .. SliceMinus1(image.uiTileX) /\ tileY \in 0 .. SliceMinus1(image.uiTileY)
    /\ mbY \in 0 .. image.h /\ bHoriTileBoundary \in BOOLEAN
    /\ DOMAIN cell = PredCells \cup Plane
    /\ shown \subseteq 0 .. image.h - 1

\* The operators of the corner the walk is at.
Here == CASE phase = "encode" -> ForwardHere
          [] phase = "decode" /\ ~FarFromROI -> InverseHere
          [] OTHER -> <<>>
Filter(o) == o.op \notin {"diff", "add", "keep"}
On(o) == ToSet(o.on) \cup (IF Filter(o) THEN {} ELSE {o.by})

\* The samples of a cell, in pixels of the image: two by two of the plane's.
XOf(a) == LET k == a % MBCells
              n == 4 * (k \div ColumnCells) + 2 * ((k \div 4) % 2)
          IN  16 * ((a \div MBCells) % image.w) + n * (IF image.format = "full" THEN 1 ELSE 2)
YOf(a) == LET k == a % ColumnCells
              n == 4 * (k \div 16) + 2 * ((k \div 8) % 2)
          IN  16 * (a \div (MBCells * image.w)) + n * (IF image.format = "420" THEN 2 ELSE 1)

InRegion(a) ==
    \/ bDecodeFullFrame
    \/ /\ XOf(a) <= image.right  /\ XOf(a) + (IF image.format = "full" THEN 1 ELSE 3) >= image.left
       /\ YOf(a) <= image.bottom /\ YOf(a) + (IF image.format = "420" THEN 3 ELSE 1) >= image.top

\* The decoder gives out pixels: every operator the encoder applied to a cell has been undone,
\* none that it did not apply, and every cell a filter or a transform spans was complete when it
\* was undone, over the whole frame or in the region of interest.
RoundTrip == \A r \in shown, c \in 0 .. image.w - 1 : \A a \in MBAt(r, c) : InRegion(a) => cell[a] = <<>>

\* Every row of the image is given out, or every row the region meets.
AllRowsShown ==
    phase = "done" => \A r \in 0 .. image.h - 1 :
                          (bDecodeFullFrame \/ (16 * r + 15 >= image.top /\ 16 * r <= image.bottom)) => r \in shown

\* A coefficient as it is coded: what was applied to it since it was a pixel.
Names(c) == [i \in 1 .. Len(c) |-> c[i].op]
Coded(k) ==
    LET lap1 == {"Pre4x4Stage1", "Pre4"}
        lap2 == {"Pre4x4Stage2", "Pre4", "Pre2x2", "Pre2"}
        first == {<<x, "DCT4x4Stage1">> : x \in lap1}
        one == IF image.ol = 0 THEN {<<"DCT4x4Stage1">>} ELSE first
        two == IF image.ol = 2 THEN {x \o <<y>> : x \in one, y \in lap2} ELSE one
        all == IF image.format # "full" /\ image.ol = 2
               THEN two \cup {x \o <<"diff", "add">> : x \in one} ELSE two
        last == IF image.format = "full" THEN <<"DCT4x4Stage2">>
                ELSE IF image.format = "422" /\ k \in {0, 32} THEN <<"DCT2x2dn", "HT">>
                ELSE <<"DCT2x2dn">>
    IN  IF k % 16 = 0 THEN {x \o last : x \in all} ELSE one

\* A macroblock has had the whole transform when the encoder codes it, each level once and in its
\* order, and no later corner changes a coefficient that has been coded.
CodedOnce ==
    phase = "encode" =>
        \A r \in 0 .. image.h - 1, c \in 0 .. image.w - 1 :
            (r < cRow - 1 \/ (r = cRow - 1 /\ c < cColumn - 1)) =>
                \A a \in MBAt(r, c) : Names(cell[a]) \in Coded(a % MBCells)

\* The rows and columns of macroblocks that an operator takes cells from.
RowsOf(o)    == {a \div (image.w * MBCells) : a \in On(o) \ PredCells}
ColumnsOf(o) == {(a \div MBCells) % image.w : a \in On(o) \ PredCells}

\* A corner that has macroblocks on all sides and is transformed, with overlap.
Inner == 0 < cRow /\ cRow < image.h /\ 0 < cColumn /\ cColumn < image.w /\ image.ol > 0 /\ Here # <<>>

\* Whether an operator of this corner takes cells from both sides of k.
Spanned(sides(_), k) == \E i \in 1 .. Len(Here) : {k - 1, k} \subseteq sides(Here[i])

\* The first rows and columns of the tiles but the first: those of the codestream.
RowBoundaries    == {k \in ToSet(image.uiTileY) : 0 < k /\ k < image.h}
ColumnBoundaries == {k \in ToSet(image.uiTileX) : 0 < k /\ k < image.w}

\* Hard tiles are apart only where the transform, which takes the columns' numbers for the rows'
\* and the rows' for the columns', finds a boundary.  Along these no filter of either codec and no
\* prediction of any corner spans two tiles, and across all others every inner corner filters:
\* decoder and encoder have the same tiles, but not those of the codestream, which the decoder
\* that skips tile rows takes to be apart (nsJPEGXRDecoder.cpp:2061).
TilesApart ==
    image.hard =>
        /\ \A k \in RowBoundaries :
              IF k \in ToSet(image.uiTileX) THEN ~Spanned(RowsOf, k)
              ELSE cRow = k /\ Inner => Spanned(RowsOf, k)
        /\ \A k \in ColumnBoundaries :
              IF k \in ToSet(image.uiTileY) THEN ~Spanned(ColumnsOf, k)
              ELSE cColumn = k /\ Inner => Spanned(ColumnsOf, k)

=============================================================================
