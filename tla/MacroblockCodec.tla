-------------------------- MODULE MacroblockCodec --------------------------
(***************************************************************************)
(* Macroblock after macroblock, an image is coded and decoded (encodeMB in *)
(* image/encode/strenc.c, processMacroblockDec in image/decode/strdec.c,   *)
(* what lies between transform and packets).  Both sides keep a coding     *)
(* context per column of tiles and what they need of the row above, and    *)
(* neither is ever told what the other has: they stay together only by     *)
(* doing the same things in the same order.                                *)
(***************************************************************************)
EXTENDS MacroblockDecoder

CONSTANTS Jobs,          \* sequence of images with the decoder's options: [p, view, mbs, indexes]
          ResetPeriod    \* a context adapts every so many macroblocks; 16 in the code

ASSUME JobsAssumption == Len(Jobs) > 0 /\ \A j \in DOMAIN Jobs : Jobs[j].mbs # {} /\ Jobs[j].indexes # {}
ASSUME PeriodAssumption == ResetPeriod \in Nat \ {0}

VARIABLES job,           \* the one of Jobs at hand
          cRow, cColumn, \* the macroblock at hand
          enc, dec,      \* each side's contexts and prediction information
          packets,       \* by tile column and band: what was written and not read
          turn,          \* who is next, "encode" or "decode"
          sent,          \* the macroblock coded last, or None
          received       \* the macroblock decoded last, or None

vars == <<job, cRow, cColumn, enc, dec, packets, turn, sent, received>>

p == job.p
view == job.view
None == <<>>

TileColumns(q) == 1 .. Len(q.uiTileX)
Columns(q) == 0 .. q.w - 1

-----------------------------------------------------------------------------
(* Where a macroblock is.                                                  *)

SliceTop(y) == \E k \in DOMAIN p.uiTileY : p.uiTileY[k] = y

getTilePos(x, y) ==
    LET column == CHOOSE k \in TileColumns(p) : p.uiTileX[k] <= x /\ \A l \in TileColumns(p) : p.uiTileX[l] <= x => l <= k
        left   == p.uiTileX[column]
        right  == IF column = Len(p.uiTileX) THEN p.w ELSE p.uiTileX[column + 1]
        period == (x - left) % ResetPeriod = 0
    IN  [cTileColumn |-> column, m_bCtxLeft |-> x = left, m_bCtxTop |-> SliceTop(y),
         m_bResetRGITotals |-> period, m_bResetContext |-> period \/ x + 1 = right]

Neighbours(side, x, pos) ==
    [m_bCtxLeft |-> pos.m_bCtxLeft, m_bCtxTop |-> pos.m_bCtxTop,
     left |-> IF x = 0 THEN None ELSE side.PredInfo[x - 1], top |-> side.PredInfoPrevRow[x],
     topLeft |-> IF x = 0 THEN None ELSE side.PredInfoPrevRow[x - 1]]

\* With the patterns of the macroblock just done.
WithCBP(info, patterns) == [c \in DOMAIN info |-> [info[c] EXCEPT !.iCBP = patterns[c]]]

-----------------------------------------------------------------------------
(* Both sides allocate the information on neighbours and never clear it.   *)

Unset(q, n) == [c \in Channels(q) |-> [iDC |-> n, iAD |-> <<n, n, n, n, n, n>>, iQPIndex |-> n,
                                       iCBP |-> IF n > 0 THEN 0 .. 15 ELSE {}]]
NewSide(q, n) == [ctx |-> [k \in TileColumns(q) |-> NewContext(q.cf)],
                  PredInfo |-> [x \in Columns(q) |-> Unset(q, n)], PredInfoPrevRow |-> [x \in Columns(q) |-> Unset(q, n)]]

Init == /\ \E j \in DOMAIN Jobs : job = Jobs[j]
        /\ cRow = 0 /\ cColumn = 0
        /\ enc = NewSide(p, 777) /\ dec = NewSide(p, -555)
        /\ packets = [k \in TileColumns(p) |-> [b \in Bands |-> <<>>]]
        /\ turn = "encode" /\ sent = None /\ received = None

\* To the next macroblock; at the end of a row the two rows of both sides change places.
Swapped(side) == [side EXCEPT !.PredInfo = side.PredInfoPrevRow, !.PredInfoPrevRow = side.PredInfo]
Advance(e, d) ==
    LET rowEnds == cColumn + 1 = p.w
    IN  /\ cColumn' = IF rowEnds THEN 0 ELSE cColumn + 1
        /\ cRow' = IF rowEnds THEN cRow + 1 ELSE cRow
        /\ enc' = IF rowEnds THEN Swapped(e) ELSE e
        /\ dec' = IF rowEnds THEN Swapped(d) ELSE d

-----------------------------------------------------------------------------
(* The encoder.                                                            *)

ResetContexts(side) == [side EXCEPT !.ctx = [k \in DOMAIN @ |-> ResetCodingContext(p.cf, @[k])]]

\* "Use LP QP": the high-pass index is not sent.
SharedIndex(q) == q.cBitsHP = 0 /\ q.cNumQPHP > 1

\* What is coded of a macroblock: the differences from its prediction, its patterns of blocks.
Differences(mb, iQIndexLP, at, mode) == [lp |-> predLP(p, mb.lp, iQIndexLP, at), ac |-> predAC(p, mb.ac, mode)]
Patterns(c, diff) == [ch \in Channels(p) |-> SignificantBlocks(diff.ac[ch], ModelBits(c, "AC", ch))]

\* The bands of a macroblock, one after the other.
EncodedLP(c, diff, iQIndexLP, pos) ==
    IF HasLP(p) THEN EncodeMacroblockLowpass(p, c, diff, iQIndexLP, pos.m_bResetRGITotals, pos.m_bResetContext) ELSE c
EncodedHP(c, diff, patterns, iQIndexHP, mode, at, pos) ==
    IF ~HasHP(p) THEN c
    ELSE EncodeMacroblockHighpass(p, c, diff, patterns, iQIndexHP, mode, at, pos.m_bResetRGITotals, pos.m_bResetContext)
EncodedMB(c, diff, patterns, iQIndexLP, iQIndexHP, mode, at, pos) ==
    EncodedHP(EncodedLP(EncodeMacroblockDC(p, c, diff, iQIndexLP, iQIndexHP, pos.m_bResetContext), diff, iQIndexLP, pos),
              diff, patterns, iQIndexHP, mode, at, pos)

encodeMB(mb, iQIndexLP, iQIndexHP) ==
    LET pos  == getTilePos(cColumn, cRow)
        at   == Neighbours(enc, cColumn, pos)
        k    == pos.cTileColumn
        mode == getACPredMode(p, mb.lp)
        c    == [ctx |-> enc.ctx[k], io |-> packets[k]]
        info == updatePredInfo(p, mb.lp, iQIndexLP, enc.PredInfo[cColumn])
        side(ctx, patterns) == [enc EXCEPT !.ctx[k] = ctx,
                                           !.PredInfo[cColumn] = IF HasHP(p) THEN WithCBP(info, patterns) ELSE info]
        sliceEnds == cColumn + 1 = p.w /\ SliceTop(cRow + 1)
    IN  /\ \E diff \in {Differences(mb, iQIndexLP, at, mode)} : \E patterns \in {Patterns(c, diff)} :
              \E all \in {EncodedMB(c, diff, patterns, iQIndexLP, iQIndexHP, mode, at, pos)} :
                  /\ packets' = [packets EXCEPT ![k] = all.io]
                  /\ enc' = IF sliceEnds THEN ResetContexts(side(all.ctx, patterns)) ELSE side(all.ctx, patterns)
        /\ sent' = [lp |-> mb.lp, ac |-> mb.ac, iQIndexLP |-> iQIndexLP, iQIndexHP |-> iQIndexHP,
                    bits |-> [ch \in Channels(p) |-> ModelBits(c, "AC", ch)]]

EncodeMB == /\ turn = "encode" /\ cRow < p.h
            /\ \E mb \in job.mbs, q \in job.indexes :
                   encodeMB(mb, q[1], IF SharedIndex(p) THEN q[1] ELSE q[2])
            /\ turn' = "decode" /\ received' = None
            /\ UNCHANGED <<job, cRow, cColumn, dec>>

-----------------------------------------------------------------------------
(* The decoder.  It passes over the tiles outside the region of interest.  *)

Blank == [lp |-> [c \in Channels(p) |-> [i \in 0 .. BlockCount(p, c) - 1 |-> 0]], ac |-> None,
          iQIndexLP |-> 0, iQIndexHP |-> 0]

\* The bands of a macroblock, one after the other; a: the reader and the macroblock so far.
LowpassBand(a, pos) ==
    IF bDecodeLP(p, view) THEN DecodeMacroblockLowpass(p, a.d, a.mb, pos.m_bResetRGITotals, pos.m_bResetContext) ELSE a
Predicted(a, at) == [a EXCEPT !.mb.lp = predDCACDec(p, @, a.mb.iQIndexLP, at)]
HighpassBand(a, pos, at, mode) ==
    IF ~bDecodeHP(p, view) THEN a
    ELSE [DecodeMacroblockHighpass(p, view, a.d, a.mb, mode, at, pos.m_bResetRGITotals, pos.m_bResetContext)
          EXCEPT !.mb.ac = predACDec(p, @, mode)]
WithHighpass(a, pos, at) == HighpassBand(a, pos, at, getACPredMode(p, a.mb.lp))
DecodedMB(d, pos, at) ==
    WithHighpass(Predicted(LowpassBand(DecodeMacroblockDC(p, view, d, Blank, pos.m_bResetContext), pos), at), pos, at)

\* The decoder after a macroblock.
Informed(side, all) ==
    LET info == updatePredInfo(p, all.mb.lp, all.mb.iQIndexLP, side.PredInfo[cColumn])
    IN  [side EXCEPT !.PredInfo[cColumn] = IF bDecodeHP(p, view) THEN WithCBP(info, all.patterns) ELSE info]

processMacroblockDec(side) ==
    LET pos == getTilePos(cColumn, cRow)
        k   == pos.cTileColumn
        d0  == [ctx |-> side.ctx[k], io |-> packets[k], v |-> 0]
    IN  \/ /\ k \notin view.m_bInROI
           /\ received' = None
           /\ Advance(enc, side) /\ UNCHANGED packets
        \/ /\ k \in view.m_bInROI
           /\ \E all \in {DecodedMB(d0, pos, Neighbours(side, cColumn, pos))} :
                  /\ packets' = [packets EXCEPT ![k] = all.d.io]
                  /\ received' = all.mb
                  /\ Advance(enc, [Informed(side, all) EXCEPT !.ctx[k] = all.d.ctx])

DecodeMB == /\ turn = "decode"
            /\ processMacroblockDec(IF cColumn = 0 /\ SliceTop(cRow) THEN ResetContexts(dec) ELSE dec)
            /\ turn' = "encode"
            /\ UNCHANGED <<job, sent>>

Next == EncodeMB \/ DecodeMB
Spec == Init /\ [][Next]_vars

-----------------------------------------------------------------------------
(* Properties.                                                             *)

Sides == {enc, dec}
Ordered(scan) == {scan.order[k] : k \in 0 .. 15} = 0 .. 15

\* What the code indexes its arrays with and asserts stays in range on both sides, however many
\* macroblocks came before: tables in use (adapthuff.c:485), model bits (strcodec.c, segenc.c:105),
\* orders of scan, counters of patterns.
ContextOK(ctx) ==
    /\ \A k \in Tables : LET a == ctx.ah[k] IN a.t \in 0 .. (IF a.n = 4 THEN 0 ELSE gMaxTables[a.n] - 1)
    /\ \A band \in {"DC", "LP", "AC"}, c \in 1 .. 2 : ctx[band].bits[c] \in 0 .. 15 /\ ctx[band].state[c] \in -8 .. 8
    /\ Ordered(ctx.lowpass) /\ Ordered(ctx.horiz) /\ Ordered(ctx.vert)
    /\ {ctx.m_iCBPCountMax, ctx.m_iCBPCountZero} \subseteq -8 .. 7
    /\ \A c \in 1 .. 2 : {ctx.cbp.m_iCount0[c], ctx.cbp.m_iCount1[c]} \subseteq -16 .. 15 /\ ctx.cbp.m_iState[c] \in 0 .. 2

TypeOK == /\ cRow \in 0 .. p.h /\ cColumn \in Columns(p)
          /\ turn \in {"encode", "decode"}
          /\ \A side \in Sides, k \in TileColumns(p) : ContextOK(side.ctx[k])

\* Low bits of a high-pass coefficient that do not arrive.
Cut(c) == LET bits == sent.bits[c]
          IN  IF bSkipFlexbits(p, view) \/ p.iTrimFlexBits > bits THEN bits ELSE p.iTrimFlexBits

\* The decoder gets back the macroblock that was coded, with its quantiser's indices, or the bands
\* of it that it was asked for; of the high-pass coefficients only the low bits cut off are missing,
\* once for every block that takes part in the prediction, at most four.
Decoded ==
    (turn = "encode" /\ received # None) =>
        /\ \A c \in Channels(p) : received.lp[c][0] = sent.lp[c][0]
        /\ bDecodeLP(p, view) => received.lp = sent.lp /\ received.iQIndexLP = sent.iQIndexLP
        /\ bDecodeHP(p, view) =>
              /\ received.iQIndexHP = sent.iQIndexHP
              /\ \A c \in Channels(p) : \A b \in DOMAIN sent.ac[c], i \in 1 .. 15 :
                     AbsOf(received.ac[c][b][i] - sent.ac[c][b][i]) <= 4 * (2^Cut(c) - 1)

\* The tables the bands decoded use.
TablesRead == CASE bDecodeHP(p, view) -> Tables
                [] ~bDecodeHP(p, view) /\ bDecodeLP(p, view) -> 0 .. CONTEXTX + CTDC - 1
                [] OTHER -> 2 .. 4

SameContext(e, d) ==
    /\ \A k \in TablesRead : e.ah[k] = d.ah[k]
    /\ e.DC = d.DC
    /\ bDecodeLP(p, view) => /\ e.LP = d.LP /\ e.lowpass = d.lowpass
                             /\ e.m_iCBPCountMax = d.m_iCBPCountMax /\ e.m_iCBPCountZero = d.m_iCBPCountZero
    /\ bDecodeHP(p, view) => e.AC = d.AC /\ e.horiz = d.horiz /\ e.vert = d.vert /\ e.cbp = d.cbp

SameInfo(e, d) ==
    \A c \in Channels(p) :
        /\ e[c].iDC = d[c].iDC
        /\ bDecodeLP(p, view) => e[c].iAD = d[c].iAD /\ e[c].iQPIndex = d[c].iQPIndex
        /\ bDecodeHP(p, view) => e[c].iCBP = d[c].iCBP

BandsRead == {IO(p, "DC")} \cup (IF bDecodeLP(p, view) THEN {IO(p, "LP")} ELSE {})
             \cup (IF bDecodeHP(p, view) THEN {IO(p, "AC")} ELSE {})
             \cup (IF bDecodeHP(p, view) /\ ~bSkipFlexbits(p, view) THEN {IO(p, "FL")} ELSE {})

\* After every macroblock the decoder has read all that was written of the bands it decodes, in the
\* tiles it decodes, and its contexts, the information on the macroblocks so far and on the row above
\* are the encoder's.
InStep ==
    (turn = "encode") =>
        /\ \A k \in TileColumns(p) \cap view.m_bInROI :
              /\ \A b \in BandsRead : packets[k][b] = <<>>
              /\ (cColumn > 0 \/ ~SliceTop(cRow)) => SameContext(enc.ctx[k], dec.ctx[k])
        /\ \A x \in Columns(p) : getTilePos(x, cRow).cTileColumn \in view.m_bInROI =>
              /\ x < cColumn => SameInfo(enc.PredInfo[x], dec.PredInfo[x])
              /\ cRow > 0 => SameInfo(enc.PredInfoPrevRow[x], dec.PredInfoPrevRow[x])

=============================================================================
