------------------------- MODULE MacroblockEncoder -------------------------
(***************************************************************************)
(* Entropy coding of a macroblock (image/encode/segenc.c).  A coder is a   *)
(* context ctx with the packets io it writes; an operator of the code is a *)
(* function from a coder to a coder.  A packet is a sequence of bits <<0>> *)
(* and <<1>>, fields <<width, value>> of bits read as they were written,   *)
(* and symbols <<alphabet, table, symbol>>: which bits a table gives to a  *)
(* symbol is left out.                                                     *)
(***************************************************************************)
EXTENDS MacroblockPrediction, SequencesExt

Bands == {"DC", "LP", "AC", "FL"}
\* In spatial mode all bands are in one packet.
IO(p, band) == IF p.bfBitstreamFormat = "SPATIAL" THEN "DC" ELSE band
HasLP(p) == p.sbSubband # "DC_ONLY"
HasHP(p) == p.sbSubband \in {"ALL", "NO_FLEXBITS"}

\* The steps of op from base along seq, each done before the next begins.
Each(op(_, _), base, seq) ==
    LET done[i \in 0 .. Len(seq)] == IF i = 0 THEN <<base>> ELSE [done[i - 1] EXCEPT ![1] = op(@, seq[i])]
    IN  done[Len(seq)][1]

Put(c, io, bits) == [c EXCEPT !.io[io] = @ \o bits]
Bits(v, w) == [i \in 1 .. w |-> <<(v \div 2^(w - i)) % 2>>]
Field(v, w) == IF w = 0 THEN <<>> ELSE <<<<w, v % 2^w>>>>
Bit(b) == IF b THEN <<<<1>>>> ELSE <<<<0>>>>

\* The code of a symbol in table k; CountedCode also lets the table adapt.
Code(c, io, k, sym) == Put(c, io, <<<<c.ctx.ah[k].n, c.ctx.ah[k].t, sym>>>>)
CountedCode(c, io, k, sym) == [Code(c, io, k, sym) EXCEPT !.ctx.ah[k] = Weighed(@, sym)]

encodeQPIndex(c, io, iIndex, cBits) ==
    Put(c, io, IF iIndex = 0 THEN Bit(FALSE) ELSE Bit(TRUE) \o Field(iIndex - 1, cBits))

-----------------------------------------------------------------------------
(* Levels and runs.                                                        *)

Log2(v) == CHOOSE n \in 0 .. 29 : 2^n <= v /\ v < 2^(n + 1)
LevelIndex == <<0, 1, 2, 2, 3, 3, 3, 3, 4, 4, 4, 4, 5, 5, 5, 5>>      \* aIndex
aFixedLength == <<0, 0, 1, 2, 2, 2>>

\* An escaped level's number of bits.
EscapeLengthBits(n) == CASE n <= 18         -> Field(n - 4, 4)
                         [] n \in 19 .. 21 -> Field(15, 4) \o Field(n - 19, 2)
                         [] OTHER           -> Field(15, 4) \o Field(3, 2) \o Field(n - 22, 3)

EncodeSignificantAbsLevel(c, io, k, iAbsLevel) ==
    LET level == iAbsLevel - 1
        Short(iIndex) == Put(CountedCode(c, io, k, iIndex), io, Field(level, aFixedLength[iIndex + 1]))
        Escaped(n)    == Put(CountedCode(c, io, k, 6), io, EscapeLengthBits(n) \o Field(level, n))
    IN  IF level >= 16 THEN Escaped(Log2(level)) ELSE Short(LevelIndex[level + 1])

gSignificantRunBin == [m \in 5 .. 14 |-> CASE m < 7 -> 2 [] m \in 7 .. 10 -> 1 [] OTHER -> 0]
gSignificantRunFixedLength == <<0, 0, 1, 1, 3, 0, 0, 1, 1, 2, 0, 0, 0, 0, 1>>
RunIndex == <<0, 1, 2, 2, 3, 3, 4, 4, 4, 4, 4, 4, 4, 4, 0, 1, 2, 2, 3, 3, 4, 4, 4, 4, 0, 0, 0, 0, 0, 1, 2, 3, 4, 4>>

EncodeSignificantRun(c, io, iRun, iMaxRun) ==
    LET Short(iIndex, iBin) == Put(Code(c, io, 0, iIndex), io,
                                   Field(iRun + 1, gSignificantRunFixedLength[iIndex + iBin * 5 + 1]))
    IN  CASE iMaxRun <= 1      -> c
          [] iMaxRun \in 2 .. 4 -> Put(c, io, Bits(IF iMaxRun # iRun THEN 1 ELSE 0,
                                                  <<3, 3, 2, 1>>[iMaxRun - iRun + 1] - (4 - iMaxRun)))
          [] OTHER             -> Short(RunIndex[iRun + gSignificantRunBin[iMaxRun] * 14], gSignificantRunBin[iMaxRun])

-----------------------------------------------------------------------------
(* A block: its significant levels, each after a run of others.            *)

\* What is sent of the low bits of v: a coefficient without a level brings its sign.
FlexBits(v, iModelBits, iTrim) ==
    LET low == (AbsOf(v) % 2^iModelBits) \div 2^iTrim
    IN  Field(low, iModelBits - iTrim)
        \o IF AbsOf(v) < 2^iModelBits /\ low # 0 THEN Bit(v < 0) ELSE <<>>

Level(v, iModelBits) == LET q == AbsOf(v) \div 2^iModelBits IN IF v < 0 THEN -q ELSE q

\* The runs and levels of a block, and the order of scan after it.
AdaptiveScan(coef, scan, iModelBits) ==
    LET Found(a, level, k) == [run |-> 0, rl |-> Append(a.rl, <<a.run, level>>),
                               scan |-> IF k = 1 THEN Counted(a.scan, k) ELSE Promoted(Counted(a.scan, k), k)]
        Of(a, level, k) == IF level = 0 THEN [a EXCEPT !.run = @ + 1] ELSE Found(a, level, k)
    IN  Each(LAMBDA a, k : Of(a, Level(coef[a.scan.order[k]], iModelBits), k),
             [run |-> 0, rl |-> <<>>, scan |-> scan], [k \in 1 .. 15 |-> k])

\* What comes after level k of a block: 0 nothing, 1 a level at once, 2 a run.
iSRn(rl, k) == CASE k = Len(rl) -> 0 [] k < Len(rl) /\ rl[k + 1][1] > 0 -> 2 [] OTHER -> 1
\* Whether all runs so far were 0, the next one's too.
iCont(rl, k) == IF rl[1][1] = 0 /\ \A j \in 1 .. k : iSRn(rl, j) = 1 THEN 1 ELSE 0
iSL(rl, k) == IF AbsOf(rl[k][2]) > 1 THEN 1 ELSE 0
\* The position after level k.
PlaceAfter(rl, k, iLocation) == iLocation + MapThenSumSet(LAMBDA j : rl[j][1] + 1, 1 .. k)

EncodeIndex(c, io, k, iLoc, iIndex) ==
    CASE iLoc < 15 -> CountedCode(c, io, k, iIndex)
      [] iLoc = 15 -> Put(c, io, Bits(<<0, 6, 2, 7>>[iIndex + 1], <<1, 3, 2, 3>>[iIndex + 1]))
      [] iLoc > 15 -> Put(c, io, Bits(iIndex, 1))

EncodeSignAndLevel(c, io, rl, k, levels) ==
    LET Signed == Put(c, io, Bit(rl[k][2] < 0))
    IN  IF iSL(rl, k) = 0 THEN Signed
        ELSE EncodeSignificantAbsLevel(Signed, io, levels + iCont(rl, k), AbsOf(rl[k][2]) - 1)

\* Tables are those from iContextOffset on; iLocation is the position of the first coefficient.
EncodeFirst(c, io, first, levels, rl, iLocation) ==
    LET Run(d) == IF rl[1][1] = 0 THEN d ELSE EncodeSignificantRun(d, io, rl[1][1], 15 - iLocation)
        iSR == IF rl[1][1] = 0 THEN 1 ELSE 0
    IN  Run(EncodeSignAndLevel(CountedCode(c, io, first, iSRn(rl, 1) * 4 + iSL(rl, 1) * 2 + iSR), io, rl, 1, levels))
EncodeNext(c, io, first, levels, rl, iLocation, k) ==
    LET Run(d) == IF iSRn(rl, k - 1) # 2 THEN d
                  ELSE EncodeSignificantRun(d, io, rl[k][1], 15 - PlaceAfter(rl, k - 1, iLocation))
    IN  EncodeSignAndLevel(EncodeIndex(Run(c), io, first + iCont(rl, k - 1) + 1, PlaceAfter(rl, k, iLocation),
                                       iSRn(rl, k) * 2 + iSL(rl, k)),
                           io, rl, k, levels)

EncodeBlock(c, io, bChroma, iContextOffset, rl, iLocation) ==
    LET first  == iContextOffset + IF bChroma THEN 3 ELSE 0
        levels == iContextOffset + 6
    IN  Each(LAMBDA d, k : EncodeNext(d, io, first, levels, rl, iLocation, k),
             EncodeFirst(c, io, first, levels, rl, iLocation), [k \in 1 .. Len(rl) - 1 |-> k + 1])

-----------------------------------------------------------------------------
(* The DC band.                                                            *)

ChannelSeq(p) == [i \in 1 .. p.channels |-> i - 1]
ModelBits(c, band, ch) == c.ctx[band].bits[ModelOf(ch)]

\* How many levels of the first channel and of the others were coded.
Counts(p, n) == <<n[0], MapThenSumSet(LAMBDA ch : n[ch], Channels(p) \ {0})>>

EncodeDC(c, io, k, v, iModelBits) ==
    LET Leveled(q) == IF q = 0 THEN c ELSE EncodeSignificantAbsLevel(c, io, k, q)
    IN  Put(Leveled(AbsOf(v) \div 2^iModelBits), io, Field(AbsOf(v), iModelBits) \o IF v = 0 THEN <<>> ELSE Bit(v < 0))

\* In spatial mode the quantisers' indices of all bands come first.
EncodeIndexes(p, c, iQIndexLP, iQIndexHP) ==
    LET LP(d) == IF HasLP(p) /\ p.cBitsLP > 0 THEN encodeQPIndex(d, "DC", iQIndexLP, p.cBitsLP) ELSE d
        HP(d) == IF p.sbSubband \notin {"DC_ONLY", "NO_HIGHPASS"} /\ p.cBitsHP > 0
                 THEN encodeQPIndex(d, "DC", iQIndexHP, p.cBitsHP) ELSE d
    IN  IF p.bfBitstreamFormat = "SPATIAL" THEN HP(LP(c)) ELSE c

\* sig: which channels have a level.
EncodeChannelsDC(p, c, dc, sig, bits) ==
    LET io == IO(p, "DC")
        Single(d, ch) == EncodeDC(Put(d, io, <<<<sig[ch]>>>>), io, 3, dc[ch], bits[ch])
        Joint(d, ch)  == EncodeDC(d, io, IF ch = 0 THEN 3 ELSE 4, dc[ch], bits[ch])
        Model(ctx) == [ctx EXCEPT !.DC = UpdateModelMB(p.cf, p.channels, "DC", Counts(p, sig), @)]
        After(d)   == [d EXCEPT !.ctx = Model(@)]
    IN  After(IF ThreePlanes(p.cf) THEN Each(Joint, Code(c, io, 2, sig[0] * 4 + sig[1] * 2 + sig[2]), ChannelSeq(p))
              ELSE Each(Single, c, ChannelSeq(p)))

EncodeMacroblockDC(p, c, mb, iQIndexLP, iQIndexHP, m_bResetContext) ==
    LET dc   == [ch \in Channels(p) |-> mb.lp[ch][0]]
        bits == [ch \in Channels(p) |-> ModelBits(c, "DC", ch)]
        sig  == [ch \in Channels(p) |-> IF AbsOf(mb.lp[ch][0]) >= 2^ModelBits(c, "DC", ch) THEN 1 ELSE 0]
    IN  [EncodeChannelsDC(p, EncodeIndexes(p, c, iQIndexLP, iQIndexHP), dc, sig, bits)
         EXCEPT !.ctx = IF m_bResetContext /\ p.sbSubband = "DC_ONLY" THEN AdaptDC(@) ELSE @]

-----------------------------------------------------------------------------
(* The low-pass band.  Subsampled chrominance is coded as one block of     *)
(* both channels' coefficients in turn.                                    *)

\* Channels coded on their own, and the blocks coded.
iFullChannels(p) == IF Subsampled(p.cf) THEN 1 ELSE p.channels
iBlocksLP(p)     == IF Subsampled(p.cf) THEN 2 ELSE p.channels
\* The coefficients of subsampled chrominance in the order they are coded.
aRemap(cf) == IF cf = "YUV_420" THEN <<1, 2, 3>> ELSE <<4, 1, 2, 3, 5, 6, 7>>
Interleaved(cf) == [k \in 1 .. 2 * Len(aRemap(cf)) |-> <<IF k % 2 = 1 THEN 1 ELSE 2, aRemap(cf)[(k + 1) \div 2]>>]
ChromaLocation(cf, block) == IF block # 1 THEN 1 ELSE CASE cf = "YUV_420" -> 10 [] cf = "YUV_422" -> 2 [] OTHER -> 1

\* The runs and levels of the coefficients at the places in turn.
RunLevels(coef, places, iModelBits) ==
    LET Step(a, at) == LET level == Level(coef[at[1]][at[2]], iModelBits)
                       IN  IF level = 0 THEN [a EXCEPT !.run = @ + 1]
                           ELSE [run |-> 0, rl |-> Append(a.rl, <<a.run, level>>)]
    IN  Each(Step, [run |-> 0, rl |-> <<>>], places).rl

\* The set of blocks with levels as one number, 0 most likely, or as so many bits.
EncodeCBPLP(p, c, io, iCBP) ==
    LET full  == iBlocksLP(p)
        iMax  == full * 4 - 5
        countM == c.ctx.m_iCBPCountMax
        countZ == c.ctx.m_iCBPCountZero
        iVal  == IF countM < countZ THEN iMax - iCBP ELSE iCBP
        short == CASE iVal = 0 -> Bits(0, 1)
                   [] iVal = 1 -> Bits(IF full = 2 THEN 2 ELSE 4, full)
                   [] OTHER    -> Bits(iVal + iMax + 1, full + 1)
        coded == IF countZ > 0 /\ countM >= 0 THEN Bits(iCBP, full) ELSE short
    IN  [Put(c, io, coded) EXCEPT !.ctx.m_iCBPCountMax  = CBPCount(@, iCBP = iMax),
                                  !.ctx.m_iCBPCountZero = CBPCount(@, iCBP = 0)]

\* The low bits of a block, in the order of the coefficients.
FlexPlaces(p, block) == IF block = 1 /\ Subsampled(p.cf)
                        THEN [k \in 1 .. 2 * (BlockCount(p, 1) - 1) |-> <<IF k % 2 = 1 THEN 1 ELSE 2, (k + 1) \div 2>>]
                        ELSE [k \in 1 .. 15 |-> <<block, k>>]

EncodeFlexLP(p, c, io, lp, block, iModelBits) ==
    LET One(d, at) == Put(d, io, FlexBits(lp[at[1]][at[2]], iModelBits, 0))
    IN  IF iModelBits = 0 THEN c ELSE Each(One, c, FlexPlaces(p, block))

\* The runs and levels of all blocks, and the order of scan after them.
LevelsLP(p, lp, scan, bits) ==
    LET Add(a, r) == [scan |-> r.scan, rl |-> Append(a.rl, r.rl)]
        Scan(a, ch) == Add(a, AdaptiveScan(lp[ch], a.scan, bits[ch]))
        Joint(a) == IF Subsampled(p.cf) THEN [a EXCEPT !.rl = Append(@, RunLevels(lp, Interleaved(p.cf), bits[1]))] ELSE a
    IN  Joint(Each(Scan, [scan |-> scan, rl |-> <<>>], [i \in 1 .. iFullChannels(p) |-> i - 1]))

EncodeLevelsLP(p, c, lp, rl, bits) ==
    LET io == IO(p, "LP")
        sig(b) == IF rl[b + 1] # <<>> THEN 1 ELSE 0
        iCBP == MapThenSumSet(LAMBDA b : 2^b * sig(b), 0 .. iBlocksLP(p) - 1)
        Pattern == IF ThreePlanes(p.cf) THEN EncodeCBPLP(p, c, io, iCBP)
                   ELSE Put(c, io, [i \in 1 .. p.channels |-> <<sig(i - 1)>>])
        Block(d, b) == EncodeFlexLP(p, IF sig(b) = 0 THEN d
                                       ELSE EncodeBlock(d, io, b > 0, CTDC, rl[b + 1], ChromaLocation(p.cf, b)),
                                    io, lp, b, bits[b])
        Found == <<Len(rl[1]), MapThenSumSet(LAMBDA b : Len(rl[b + 1]), 1 .. iBlocksLP(p) - 1)>>
        Model(ctx) == [ctx EXCEPT !.LP = UpdateModelMB(p.cf, p.channels, "LP", Found, @)]
        After(d) == [d EXCEPT !.ctx = Model(@)]
    IN  After(Each(Block, Pattern, [i \in 1 .. iBlocksLP(p) |-> i - 1]))

EncodeMacroblockLowpass(p, c0, mb, iQIndexLP, m_bResetRGITotals, m_bResetContext) ==
    LET bits == [ch \in Channels(p) |-> ModelBits(c0, "LP", ch)]
        Index(c) == IF p.bfBitstreamFormat # "SPATIAL" /\ p.cBitsLP > 0
                    THEN encodeQPIndex(c, IO(p, "LP"), iQIndexLP, p.cBitsLP) ELSE c
        scan == IF m_bResetRGITotals THEN ResetTotals(c0.ctx.lowpass) ELSE c0.ctx.lowpass
        Coded(r) == EncodeLevelsLP(p, Index([c0 EXCEPT !.ctx.lowpass = r.scan]), mb.lp, r.rl, bits)
    IN  [Coded(LevelsLP(p, mb.lp, scan, bits)) EXCEPT !.ctx = IF m_bResetContext THEN AdaptLowpass(@) ELSE @]

-----------------------------------------------------------------------------
(* The pattern of the high-pass blocks: for every quarter of a macroblock  *)
(* four bits of the first channel and what the others have there.          *)

aNumOnes == <<0, 1, 1, 2, 1, 2, 2, 3, 1, 2, 2, 3, 2, 3, 3, 4>>
aTabLen  == <<0, 2, 2, 2, 2, 2, 3, 2, 2, 3, 3, 2, 3, 2, 2, 0>>
aTabCode == <<0, 0, 1, 0, 2, 1, 4, 3, 3, 5, 6, 2, 7, 1, 0, 0>>
gTab0  == <<0, 1, 1, 2, 1, 3, 3, 4, 1, 3, 3, 4, 2, 4, 4, 5>>
gFL0   == <<0, 2, 2, 1, 2, 2, 2, 2, 2, 2, 2, 2, 1, 2, 2, 0>>
gCode0 == <<0, 0, 1, 0, 2, 0, 1, 0, 3, 2, 3, 1, 1, 2, 3, 0>>

\* The bits of a pattern at the places in turn, as a number.
AsNumber(S, places) == MapThenSumSet(LAMBDA i : IF places[i] \in S THEN 2^(i - 1) ELSE 0, DOMAIN places)
Quarter(q) == [i \in 1 .. 4 |-> 4 * q + i - 1]
\* The places of a chrominance channel's bits in a quarter (PackCBP420, PackCBP422).
ChromaQuarter(cf, q) == CASE cf = "YUV_444" -> Quarter(q)
                          [] cf = "YUV_420" -> <<q>>
                          [] cf = "YUV_422" -> <<(q % 2) + 4 * (q \div 2), (q % 2) + 4 * (q \div 2) + 2>>
                          [] OTHER          -> <<>>

\* Which pair or which one of three: 1, 01, 00.
Third(v) == IF v = 1 THEN Bit(TRUE) ELSE Bits(3 - v, 2)
TieBits(pattern) == Bits(aTabCode[pattern + 1], aTabLen[pattern + 1])

\* A quarter's bits of the first channel (luma) and of two others (uv).
EncodeVal(c, io, luma, tab, both) ==
    LET Coded(val) == Put(CountedCode(c, io, CBPCY, val), io,
                          (IF both = 0 THEN <<>> ELSE Third(both)) \o (IF val = 8 THEN Third(tab - 2) ELSE <<>>)
                          \o Bits(gCode0[luma + 1], gFL0[luma + 1]))
    IN  Coded(IF both = 0 THEN tab - 1 ELSE IF tab > 2 THEN 8 ELSE tab + 5)
EncodeChroma(p, c, io, v) ==
    CASE v = 0 \/ p.cf = "YUV_420" -> c
      [] v # 0 /\ p.cf = "YUV_444"  -> Put(Code(c, io, 1, aNumOnes[v + 1] - 1), io, TieBits(v))
      [] v # 0 /\ p.cf = "YUV_422"  -> Put(c, io, Third(v))
Num(b) == IF b THEN 1 ELSE 0
EncodeQuarter(p, c, io, luma, uv) ==
    LET Val == EncodeVal(c, io, luma, gTab0[luma + 1], Num(uv[1] # 0) + 2 * Num(uv[2] # 0))
    IN  IF luma = 0 /\ uv = <<0, 0>> THEN c ELSE EncodeChroma(p, EncodeChroma(p, Val, io, uv[1]), io, uv[2])

\* diff: the patterns sent of the channel and of the two other ones coded with it.
EncodeCBP(p, c, io, diff, chroma) ==
    LET luma  == [q \in 0 .. 3 |-> AsNumber(diff, Quarter(q))]
        uv    == [q \in 0 .. 3 |-> [i \in 1 .. 2 |-> IF ThreePlanes(p.cf) THEN AsNumber(chroma[i], ChromaQuarter(p.cf, q))
                                                     ELSE 0]]
        coded == MapThenSumSet(LAMBDA q : 2^q * Num(luma[q] # 0 \/ uv[q] # <<0, 0>>), 0 .. 3)
        First(pattern) == Put(CountedCode(c, io, CBPCY1, aNumOnes[pattern + 1]), io, TieBits(pattern))
    IN  Each(LAMBDA d, q : EncodeQuarter(p, d, io, luma[q], uv[q]), First(coded), <<0, 1, 2, 3>>)

-----------------------------------------------------------------------------
(* The high-pass band and its low bits.                                    *)

\* The blocks with a coefficient that model bits do not hold.
SignificantBlocks(ac, iModelBits) == {b \in DOMAIN ac : \E i \in 1 .. 15 : AbsOf(ac[b][i]) >= 2^iModelBits}

\* The patterns, what is sent of them, and the model after them.
PredCBP(p, model0, patterns, at) ==
    LET One(a, ch) ==
            [diff  |-> Append(a.diff, predCBPCEnc(BlockCount(p, ch), ch, patterns[ch], a.model.m_iState[ModelOf(ch)], at)),
             model |-> CBPModelAfter(p, ch, patterns[ch], a.model)]
    IN  Each(One, [diff |-> <<>>, model |-> model0], ChannelSeq(p))

CodeCBP(p, c, io, pred) ==
    CASE p.cf \in {"NCOMPONENT", "CMYK"} -> Each(LAMBDA d, diff : EncodeCBP(p, d, io, diff, <<>>), c, pred.diff)
      [] OTHER                           -> EncodeCBP(p, c, io, pred.diff[1], Tail(pred.diff))
PredictAndCodeCBP(p, c, io, patterns, at) ==
    LET Coded(pred) == CodeCBP(p, [c EXCEPT !.ctx.cbp = pred.model], io, pred)
    IN  Coded(PredCBP(p, c.ctx.cbp, patterns, at))

\* Low bits trimmed off, and low bits sent.
Trim(p, iModelBits) == IF p.iTrimFlexBits <= iModelBits /\ p.sbSubband # "NO_FLEXBITS" THEN p.iTrimFlexBits ELSE 0
Flex(p, iModelBits) == IF p.iTrimFlexBits <= iModelBits /\ p.sbSubband # "NO_FLEXBITS"
                       THEN iModelBits - p.iTrimFlexBits ELSE 0

AllBlocks(p) == FlattenSeq([i \in 1 .. p.channels |-> [b \in 1 .. BlockCount(p, i - 1) |-> <<i - 1, b - 1>>]])

CodeLevels(p, c, ch, coef, bits, scanName) ==
    LET Coded(r) == EncodeBlock([c EXCEPT !.ctx[scanName] = r.scan, !.n[ModelOf(ch)] = @ + Len(r.rl)],
                                IO(p, "AC"), ch > 0, CTDC + CONTEXTX, r.rl, 1)
    IN  Coded(AdaptiveScan(coef, c.ctx[scanName], bits))
CodeFlex(p, c, coef, bits) ==
    IF Flex(p, bits) = 0 THEN c
    ELSE Each(LAMBDA d, k : Put(d, IO(p, "FL"), FlexBits(coef[dctIndex[k + 1]], bits, Trim(p, bits))), c,
              [k \in 1 .. 15 |-> k])
CodeCoeffs(p, c0, mb, patterns, scanName) ==
    LET Block(c, at, coef, bits) ==
            CodeFlex(p, IF at[2] \in patterns[at[1]] THEN CodeLevels(p, c, at[1], coef, bits, scanName) ELSE c, coef, bits)
        Model(ctx, n) == [ctx EXCEPT !.AC = UpdateModelMB(p.cf, p.channels, "AC", n, @)]
        Result(r) == [ctx |-> Model(r.ctx, r.n), io |-> r.io]
    IN  Result(Each(LAMBDA c, at : Block(c, at, mb.ac[at[1]][at[2]], ModelBits(c0, "AC", at[1])),
                    [ctx |-> c0.ctx, io |-> c0.io, n |-> <<0, 0>>], AllBlocks(p)))

ScanName(mode) == IF mode = 1 THEN "vert" ELSE "horiz"

EncodeMacroblockHighpass(p, c0, mb, patterns, iQIndexHP, mode, at, m_bResetRGITotals, m_bResetContext) ==
    LET Index(c) == IF p.bfBitstreamFormat # "SPATIAL" /\ p.cBitsHP > 0
                    THEN encodeQPIndex(c, IO(p, "AC"), iQIndexHP, p.cBitsHP) ELSE c
        Reset(c) == IF m_bResetRGITotals
                    THEN [c EXCEPT !.ctx.horiz = ResetTotals(@), !.ctx.vert = ResetTotals(@)] ELSE c
    IN  [CodeCoeffs(p, PredictAndCodeCBP(p, Reset(Index(c0)), IO(p, "AC"), patterns, at), mb, patterns, ScanName(mode))
         EXCEPT !.ctx = IF m_bResetContext THEN AdaptHighpass(@) ELSE @]

=============================================================================
