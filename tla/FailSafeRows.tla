---------------------------- MODULE FailSafeRows ----------------------------
(***************************************************************************)
(* Decoding a spatial image with one tile column while it is received: the *)
(* fail-safe branch of nsJPEGXRDecoder (WriteInternal, DoTheDecoding,      *)
(* FinishInternal) with JXR_DecodeNextMBRow and ImageStrDecDecode.  Nobody *)
(* knows where a macroblock row ends, so each row is tried: the decoder's  *)
(* state is saved, the row decoded macroblock by macroblock, and when the  *)
(* data runs out the state is restored and the row tried again after the   *)
(* next chunk.  After a row the head of the stream is discarded.           *)
(*                                                                         *)
(* The decoder is single-threaded: a chunk arrives only when the call for  *)
(* the previous one has returned (busy is FALSE).                          *)
(***************************************************************************)
EXTENDS BitIORead, FiniteSets, FiniteSetsExt

CONSTANTS Chunks,        \* sizes of the chunks received
          Images         \* the images a run decodes, see ImageType

(* rows and cols count macroblocks; parts[r][c] are the sizes of the parts *)
(* of a macroblock (DC, lowpass, highpass), in each of its planes; a tile  *)
(* row, from the top down, has its first row and the offset of its packet  *)
(* from cHeaderSize; tag is uImageByteCount of the file, which encoders    *)
(* got wrong; size is what there really is.  Planes is 2 with interleaved  *)
(* alpha.                                                                  *)
ImageFields == {"offset", "header", "rows", "cols", "planes", "parts", "tiles", "tag", "size"}

ImageType(img) ==
  /\ DOMAIN img = ImageFields
  /\ {img.offset, img.header, img.tag, img.size} \subseteq Nat
  /\ {img.rows, img.cols, img.planes} \subseteq Nat \ {0}
  /\ img.parts \in [1 .. img.rows -> [1 .. img.cols -> Seq(1 .. PK)]]
  /\ img.tiles \in Seq([top : Nat, offset : Nat])
  /\ img.tiles # << >> /\ img.tiles[1].top = 0
  /\ \A i, j \in 1 .. Len(img.tiles) : i < j => img.tiles[i].top < img.tiles[j].top

ASSUME ImagesAssumption ==
  /\ Chunks \subseteq Nat \ {0}
  /\ \A img \in Images : ImageType(img)

VARIABLES img,      \* the image
          ws,       \* the stream
          total,    \* m_totalReceived
          limit,    \* cCurrentSubbandUpperLimit, 0 when there is none
          io,       \* the BitIO that reads the macroblocks
          pos,      \* stream offset of the byte of the next bit
          ctx,      \* coding context of each plane: how often it adapted to each part
          above,    \* a0MBbuffer: transforms each macroblock of the row above has been through
          saved,    \* what SaveDecoderState kept
          again,    \* restoreAfterFailure
          lastMB,   \* lastDecodedMB
          tileRow,  \* cTileRow
          mbRow,    \* DecoderCurrMBRow
          at,       \* where decoding is: row, column, plane and part, or Idle
          line,     \* m_currLine, in macroblock rows
          taken,    \* bytes of the last part decoded
          err,      \* error of the last attach or readIS
          phase,    \* "header", "rows" (m_startedDecodingMBRows), "ending", "done"
          busy      \* WriteInternal or FinishInternal has not returned

vars == << img, ws, total, limit, io, pos, ctx, above, saved, again, lastMB,
           tileRow, mbRow, at, line, taken, err, phase, busy >>

Idle == [row |-> 0, col |-> 0, plane |-> 0, part |-> 0]

Planes == 1 .. img.planes
Columns == 0 .. img.cols - 1

Unmoved == [p \in Planes |-> [c \in Columns |-> 0]]

NewContext ==                                              \* ResetCodingContextDec
  [p \in Planes |-> [r \in 0 .. img.rows - 1 |-> [c \in Columns |->
     [k \in 1 .. Len(img.parts[r + 1][c + 1]) |-> 0]]]]

UpperLimit == IF limit # 0 THEN Least(img.offset + img.tag, limit) ELSE img.offset + img.tag

HeaderSize == img.offset + img.header      \* cHeaderSize, from the start of the stream

Init ==
  /\ img \in Images
  /\ ws = NewStream
  /\ total = 0
  /\ limit = 0
  /\ io = NewBitIO
  /\ pos = 0
  /\ ctx = NewContext
  /\ above = Unmoved
  /\ saved = [io |-> NewBitIO, pos |-> 0, ctx |-> ctx, above |-> Unmoved, row |-> 0]
  /\ again = FALSE
  /\ lastMB = 0
  /\ tileRow = 0
  /\ mbRow = 0
  /\ at = Idle
  /\ line = 0
  /\ taken = << >>
  /\ err = "Success"
  /\ phase = "header"
  /\ busy = FALSE

-----------------------------------------------------------------------------
(* WriteInternal with a chunk of n bytes: Receive, then decode.            *)
Receive(n) ==
  /\ ~ busy
  /\ phase \in {"header", "rows"}
  /\ total < img.size
  /\ LET m == Least(n, img.size - total)
     IN  /\ ws' = WriteWS_List(SetPosWS_List(ws, total), [i \in 1 .. m |-> total + i - 1])
         /\ total' = total + m
  /\ busy' = TRUE
  /\ UNCHANGED << img, limit, io, pos, ctx, above, saved, again, lastMB,
                  tileRow, mbRow, at, line, taken, err, phase >>

(* StartDecodingMBRows (ImageStrDecInit, StrIODecInit): read the header    *)
(* and the index table through SimpleBitIO and pIOHeader.  When it fails   *)
(* all of it is done again after the next chunk.  On success what precedes *)
(* the image is discarded.  Without an index table the macroblocks are     *)
(* read with pIOHeader too.                                                *)
HeaderThere(s) == SetPosErr(ws, img.offset) = "Success" /\ ReadErr(s, img.header) = "Success"

(* The header is all that was received and ends a packet of the stream: a  *)
(* Read1 there asks for more than there is and never returns (Read1Wraps). *)
HeaderHangs(h) == GetPosWS_List(h) < UpperLimit /\ Read1Wraps(h, AttachSize(h, UpperLimit))

Start ==
  /\ busy
  /\ phase = "header"
  /\ LET s == SetPosWS_List(ws, img.offset)
         h == Advance(s, img.header)
         started == HeaderThere(s) /\ AttachErr(h, UpperLimit) = "Success"
         after   == IF ~ HeaderThere(s) THEN s ELSE Advance(h, AttachTaken(h, UpperLimit))
     IN  /\ HeaderThere(s) => ~ HeaderHangs(h)
         /\ IF started
            THEN /\ ws' = DiscardHeadWS_List(after, img.offset)
                 /\ phase' = "rows"
                 /\ io' = IF Len(img.tiles) = 1 THEN attachISRead(io, h, UpperLimit) ELSE io
                 /\ UNCHANGED busy
            ELSE /\ ws' = after
                 /\ busy' = FALSE
                 /\ UNCHANGED << phase, io >>
  /\ UNCHANGED << img, total, limit, pos, ctx, above, saved, again, lastMB,
                  tileRow, mbRow, at, line, taken, err >>

-----------------------------------------------------------------------------
(* JXR_DecodeNextMBRow, entry: go back to the saved state if the last try  *)
(* failed, save the state otherwise.  The first call decodes rows 0 and 1, *)
(* since rows come out one row late.                                       *)
RestoredColumnsShort == 0 .. lastMB - 3                                           \* MUTANT

RestoredColumns == 0 .. lastMB - 2        \* "restore only modified macroblocks"

RestoredAbove ==
  [p \in Planes |-> [c \in Columns |->
     IF c \in RestoredColumns THEN saved.above[p][c] ELSE above[p][c]]]

RestoredContextNot == ctx                                                         \* MUTANT

RestoredContext == saved.ctx

DecodeNextMBRow ==
  /\ busy
  /\ phase \in {"rows", "ending"}
  /\ at = Idle
  /\ line < img.rows
  /\ IF again
     THEN /\ io' = RestoredBitIO(io, saved.io)
          /\ pos' = saved.pos
          /\ ctx' = RestoredContext
          /\ above' = RestoredAbove
          /\ again' = FALSE
          /\ UNCHANGED saved
     ELSE /\ saved' = [io |-> io, pos |-> pos, ctx |-> ctx, above |-> above, row |-> mbRow]
          /\ UNCHANGED << io, pos, ctx, above, again >>
  /\ at' = [row |-> mbRow, col |-> 0, plane |-> 1, part |-> 0]
  /\ lastMB' = 1
  /\ UNCHANGED << img, ws, total, limit, tileRow, mbRow, line, taken, err, phase, busy >>

(* A failure anywhere in the row: SetRestoreAfterFailure, and the call     *)
(* returns without lines, which ends the loop of DoTheDecoding.            *)
FailStill == again' = TRUE /\ at' = Idle /\ UNCHANGED busy                        \* MUTANT

Fail == again' = TRUE /\ at' = Idle /\ busy' = FALSE

TileRowAt(row) ==        \* getTilePos
  IF row = 0 THEN 0
  ELSE IF tileRow + 1 < Len(img.tiles) /\ row = img.tiles[tileRow + 2].top THEN tileRow + 1
  ELSE tileRow

(* readPackets: at the top of a tile row, attach to its packet.            *)
EnterRow ==
  /\ at # Idle
  /\ at.part = 0
  /\ at.row < img.rows
  /\ LET t     == TileRowAt(at.row)
         start == HeaderSize + img.tiles[t + 1].offset
         free  == IF t > 0 \/ Len(img.tiles) = 1 THEN detachISRead(io) ELSE io
         s     == SetPosWS_List(ws, start)
         e     == IF SetPosErr(ws, start) # "Success" THEN SetPosErr(ws, start)
                  ELSE AttachErr(s, UpperLimit)
     IN  /\ tileRow' = t
         /\ IF at.row # img.tiles[t + 1].top
            THEN /\ at' = [at EXCEPT !.part = 1]
                 /\ UNCHANGED << ws, io, pos, ctx, err, again, busy >>
            ELSE /\ err' = e
                 /\ IF SetPosErr(ws, start) # "Success"
                    THEN io' = free /\ UNCHANGED ws
                    ELSE io' = attachISRead(free, s, UpperLimit)
                         /\ ws' = Advance(s, AttachTaken(s, UpperLimit))
                 /\ IF e # "Success"
                    THEN Fail /\ UNCHANGED << pos, ctx >>
                    ELSE /\ pos' = start
                         /\ ctx' = NewContext
                         /\ at' = [at EXCEPT !.part = 1]
                         /\ UNCHANGED << again, busy >>
  /\ UNCHANGED << img, total, limit, above, saved, lastMB, mbRow, line, taken, phase >>

Parts == img.parts[at.row + 1][at.col + 1]

InPlane == at # Idle /\ at.row < img.rows /\ at.col < img.cols /\ at.part >= 1

(* DecodeMacroblockDC, Lowpass or Highpass: readIS, then the bits of the   *)
(* part, to which the coding context adapts.                               *)
DecodePart ==
  /\ InPlane
  /\ at.part <= Len(Parts)
  /\ LET due == io.offRef < UpperLimit
         e   == IF due THEN ReadISErr(io, ws, UpperLimit) ELSE "Success"
         r   == IF due THEN readIS(io, ws, UpperLimit) ELSE io
         n   == Parts[at.part]
     IN  /\ err' = e
         /\ ws' = IF due THEN ReadISStream(io, ws, UpperLimit) ELSE ws
         /\ IF e # "Success"
            THEN /\ Fail
                 /\ io' = r
                 /\ UNCHANGED << pos, ctx, taken >>
            ELSE /\ io' = Take(r, n)
                 /\ taken' = Taken(r, n)
                 /\ pos' = pos + n
                 /\ ctx' = [ctx EXCEPT ![at.plane][at.row][at.col][at.part] = @ + 1]
                 /\ at' = [at EXCEPT !.part = @ + 1]
                 /\ UNCHANGED << again, busy >>
  /\ UNCHANGED << img, total, limit, above, saved, lastMB, tileRow, mbRow, line, phase >>

(* The inverse transform of a macroblock works on the four corners that    *)
(* meet at it: in the row above, on its own column and the one to the left.*)
(* The bottom row and the right column only transform.                     *)
Transform ==
  /\ at # Idle
  /\ at.col <= img.cols
  /\ IF at.row = img.rows THEN TRUE ELSE IF at.col = img.cols THEN TRUE ELSE at.part > Len(Parts)
  /\ above' = IF at.row = 0 THEN above
              ELSE [above EXCEPT ![at.plane] =
                      [c \in Columns |-> IF c \in {at.col - 1, at.col} THEN @[c] + 1 ELSE @[c]]]
  /\ IF at.plane < img.planes
     THEN at' = [at EXCEPT !.plane = @ + 1, !.part = 1] /\ UNCHANGED lastMB
     ELSE /\ at' = [at EXCEPT !.col = @ + 1, !.plane = 1, !.part = 1]
          /\ lastMB' = IF at.col < img.cols THEN lastMB + 1 ELSE 0
  /\ UNCHANGED << img, ws, total, limit, io, pos, ctx, saved, again, tileRow, mbRow,
                  line, taken, err, phase, busy >>

-----------------------------------------------------------------------------
(* GetTileRowForMBRow and nextLowerLimit (FillTileRowInfo): what the tile  *)
(* rows below still need.  Without tile rows there is no such limit.       *)
TileRowOf(row) == Max({t \in 1 .. Len(img.tiles) : img.tiles[t].top <= row})

NextLowerLimit(row) ==
  Min({img.offset + img.tag} \cup
      {HeaderSize + img.tiles[t].offset : t \in TileRowOf(row) + 1 .. Len(img.tiles)})

DiscardLimitAny(row) == GetPosWS_List(ws)                                         \* MUTANT

DiscardLimit(row) ==
  IF Len(img.tiles) = 1 THEN GetPosWS_List(ws)
  ELSE Least(GetPosWS_List(ws), NextLowerLimit(row))

(* The end of a row: Load puts the row above out, advanceOneMBRow and      *)
(* swapMRPtr make this row the one above.  When the call has its lines it  *)
(* returns, and DoTheDecoding discards the head of the stream.             *)
EndRow ==
  /\ at # Idle
  /\ at.col = img.cols + 1
  /\ above' = Unmoved
  /\ IF at.row = 0
     THEN /\ at' = [row |-> 1, col |-> 0, plane |-> 1, part |-> 0]
          /\ lastMB' = 1
          /\ UNCHANGED << mbRow, line, ws >>
     ELSE /\ at' = Idle
          /\ mbRow' = at.row + 1
          /\ line' = line + 1
          /\ ws' = DiscardHeadWS_List(ws, DiscardLimit(mbRow))
          /\ UNCHANGED lastMB
  /\ UNCHANGED << img, total, limit, io, pos, ctx, saved, again, tileRow,
                  taken, err, phase, busy >>

(* All lines are out: DecodeNextMBRow returns at once.                     *)
NothingLeft ==
  /\ busy
  /\ phase \in {"rows", "ending"}
  /\ at = Idle
  /\ line >= img.rows
  /\ busy' = FALSE
  /\ UNCHANGED << img, ws, total, limit, io, pos, ctx, above, saved, again, lastMB,
                  tileRow, mbRow, at, line, taken, err, phase >>

(* FinishInternal, once decoding had started.  If the size tag promised    *)
(* more than was received, FixWrongImageSizeTag lowers the limit of reads  *)
(* to what there is, and decoding goes on.                                 *)
FixedLimitNot == limit                                                            \* MUTANT

FixedLimit == total

TagTooLarge == phase = "rows" /\ total < img.offset + img.tag

FixSizeTag ==
  /\ ~ busy
  /\ TagTooLarge
  /\ limit' = FixedLimit
  /\ phase' = "ending"
  /\ busy' = TRUE
  /\ UNCHANGED << img, ws, total, io, pos, ctx, above, saved, again, lastMB,
                  tileRow, mbRow, at, line, taken, err >>

(* EndDecodingMBRows.  m_currLine is reset by it and kept here, to tell    *)
(* how far decoding got.                                                   *)
Finish ==
  /\ ~ busy
  /\ phase \in {"rows", "ending"}
  /\ ~ TagTooLarge
  /\ phase' = "done"
  /\ UNCHANGED << img, ws, total, limit, io, pos, ctx, above, saved, again, lastMB,
                  tileRow, mbRow, at, line, taken, err, busy >>

Decode == Start \/ DecodeNextMBRow \/ EnterRow \/ DecodePart \/ Transform \/ EndRow \/ NothingLeft

Next ==
  \/ \E n \in Chunks : Receive(n)
  \/ Start
  \/ DecodeNextMBRow
  \/ EnterRow
  \/ DecodePart
  \/ Transform
  \/ EndRow
  \/ NothingLeft
  \/ FixSizeTag
  \/ Finish

Spec == Init /\ [][Next]_vars

(* The thread that runs WriteInternal keeps running.                       *)
FairSpec == Spec /\ WF_vars(Decode)

-----------------------------------------------------------------------------
(* Type correctness of the variables.                                      *)
TypeOK ==
  /\ ws \in StreamType
  /\ io \in BitIOType
  /\ total \in 0 .. img.size
  /\ limit \in 0 .. img.size
  /\ line \in 0 .. img.rows
  /\ mbRow \in 0 .. img.rows + 1
  /\ tileRow \in 0 .. Len(img.tiles) - 1
  /\ lastMB \in 0 .. img.cols + 1
  /\ at.row \in 0 .. img.rows /\ at.col \in 0 .. img.cols + 1
  /\ phase \in {"header", "rows", "ending", "done"}
  /\ {again, busy} \subseteq BOOLEAN

(* However often a row was tried, and wherever the chunks were cut, each   *)
(* part of a macroblock is decoded from its own bits: those up to the end  *)
(* of the data are the ones of the stream, at the place they have there.   *)
BitsIntact ==
  \A k \in 1 .. Len(taken) :
    LET off == pos - Len(taken) + k - 1
    IN  off < UpperLimit /\ at # Idle /\ at.part > 1 => taken[k] = off

(* The coding context has adapted to exactly the parts that precede the    *)
(* next one in its tile row, each counted once however often it was tried. *)
Precedes(r, c, k) ==
  /\ img.tiles[tileRow + 1].top <= r
  /\ \/ r < at.row
     \/ r = at.row /\ c < at.col
     \/ r = at.row /\ c = at.col /\ k < at.part

ContextInStep ==
  InPlane =>
    \A r \in 0 .. img.rows - 1 : \A c \in Columns : \A k \in DOMAIN img.parts[r + 1][c + 1] :
      ctx[at.plane][r][c][k] = IF Precedes(r, c, k) THEN 1 ELSE 0

(* When a row of macroblocks is put out, the transform has passed over     *)
(* each of them exactly twice, from its own column and from the next one:  *)
(* a row tried again starts from the pixels the first try started from.    *)
RowTransformedOnce ==
  at.col = img.cols + 1 /\ at.row > 0 =>
    \A p \in Planes : \A c \in Columns : above[p][c] = 2

(* Nothing that is still to be read was discarded: neither by a refill nor *)
(* at the top of a tile row, whatever the order of the tiles in the file.  *)
NeverDiscardedEarly == err # "DataDiscarded"

(* The header and the beginning of every tile row lie within the file and  *)
(* within the size that its tag says.                                      *)
HeadsThere(i) ==
  \A t \in 1 .. Len(i.tiles) :
    /\ i.header + i.tiles[t].offset < i.tag
    /\ i.offset + i.header + i.tiles[t].offset < i.size

(* When the whole image is there every row comes out: at once if the size  *)
(* tag is right, at the end of the stream if it promised more.             *)
AllRowsOut ==
  total = img.size /\ ~ busy =>
    /\ img.offset + img.tag <= img.size => line = img.rows
    /\ phase = "done" => line = img.rows

(* A call with a chunk returns: the loop of DoTheDecoding ends.            *)
CallReturns == busy ~> ~ busy

=============================================================================
