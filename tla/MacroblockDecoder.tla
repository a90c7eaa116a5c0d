------------------------- MODULE MacroblockDecoder -------------------------
(***************************************************************************)
(* Entropy decoding of a macroblock (image/decode/segdec.c).  A reader d   *)
(* has a context ctx, the packets io still to be read and the value v of   *)
(* the last read.  Packets are those of MacroblockEncoder; a read that     *)
(* does not find there what was written yields zeros.                      *)
(***************************************************************************)
EXTENDS MacroblockEncoder

\* view: what of the stream the decoder was asked for.
bDecodeLP(p, view) == HasLP(p) /\ (p.bfBitstreamFormat = "SPATIAL" \/ view.cThumbnailScale < 16)
bDecodeHP(p, view) == HasHP(p) /\ (p.bfBitstreamFormat = "SPATIAL" \/ view.cThumbnailScale < 4)
bSkipFlexbits(p, view) == p.sbSubband = "NO_FLEXBITS" \/ (p.bfBitstreamFormat = "FREQUENCY" /\ view.bSkipFlexbits)

IsBit(token) == Len(token) = 1
GetBits(d, io, w) ==
    LET have == SubSeq(d.io[io], 1, Min({w, Len(d.io[io])}))
        sum  == Each(LAMBDA n, token : 2 * n + IF IsBit(token) THEN token[1] ELSE 0, 0, have)
    IN  [d EXCEPT !.io[io] = SubSeq(@, w + 1, Len(@)), !.v = IF Len(have) = w THEN sum ELSE 0]
GetBool(d, io) == GetBits(d, io, 1)
GetField(d, io, w) ==
    LET ours == d.io[io] # <<>> /\ Len(d.io[io][1]) = 2 /\ d.io[io][1][1] = w
    IN  IF w = 0 THEN [d EXCEPT !.v = 0]
        ELSE [d EXCEPT !.v = IF ours THEN d.io[io][1][2] ELSE 0, !.io[io] = SubSeq(@, 2, Len(@))]

getHuff(d, io, k) ==
    LET a    == d.ctx.ah[k]
        ours == d.io[io] # <<>> /\ Len(d.io[io][1]) = 3 /\ d.io[io][1][1] = a.n /\ d.io[io][1][2] = a.t
    IN  [d EXCEPT !.v = IF ours THEN d.io[io][1][3] ELSE 0, !.io[io] = SubSeq(@, 2, Len(@))]
CountedHuff(d, io, k) == LET r == getHuff(d, io, k) IN [r EXCEPT !.ctx.ah[k] = Weighed(@, r.v)]

decodeQPIndex(d, io, cBits) ==
    LET Of(r) == IF r.v = 0 THEN r ELSE [GetField(r, io, cBits) EXCEPT !.v = @ + 1]
    IN  Of(GetBool(d, io))

-----------------------------------------------------------------------------
(* Levels and runs.                                                        *)

LevelRemap == <<2, 3, 4, 6, 10, 14>>

\* Adds the next w bits, if the length so far is the one that has more.
Longer(d, io, when, w) == IF d.v # when THEN d ELSE [GetField(d, io, w) EXCEPT !.v = @ + when]

EscapeLength(d, io) == Longer(Longer([GetField(d, io, 4) EXCEPT !.v = @ + 4], io, 19, 2), io, 22, 3)
EscapedLevel(d, io) == [GetField(d, io, d.v) EXCEPT !.v = @ + 2 + 2^d.v]

LevelOf(d, io) == IF d.v < 6 THEN [GetField(d, io, aFixedLength[d.v + 1]) EXCEPT !.v = @ + LevelRemap[d.v + 1]]
                  ELSE EscapedLevel(EscapeLength(d, io), io)
DecodeSignificantAbsLevel(d, io, k) == LevelOf(CountedHuff(d, io, k), io)

RunRemap == <<1, 2, 3, 5, 7, 1, 2, 3, 5, 7, 1, 2, 3, 4, 5>>

RunOf(d, io, iBin) == [GetField(d, io, gSignificantRunFixedLength[d.v + iBin + 1]) EXCEPT !.v = @ + RunRemap[d.v + iBin + 1]]

\* A short run: so many zeros before the one that ends it, none after the last that can be.
DecodeSignificantRun(d, io, iMaxRun) ==
    LET Short(a, n) == IF a.ended THEN a
                       ELSE LET r == GetBool(a.d, io) IN [d |-> [r EXCEPT !.v = n + 1 - @], ended |-> r.v = 1]
    IN  CASE iMaxRun <= 1      -> [d EXCEPT !.v = 1]
          [] iMaxRun \in 2 .. 4 -> Each(Short, [d |-> d, ended |-> FALSE], [n \in 1 .. iMaxRun - 1 |-> n]).d
          [] OTHER             -> RunOf(getHuff(d, io, 0), io, gSignificantRunBin[iMaxRun] * 5)

-----------------------------------------------------------------------------
(* A block.                                                                *)

\* MUTANT: the code of the last place but one used for the last as well.
DecodeIndexLate(d, io, iLoc, k) == IF iLoc <= 15 THEN CountedHuff(d, io, k) ELSE GetBits(d, io, 1)

DecodeIndex(d, io, iLoc, k) ==
    LET Final(b)  == IF b.v = 0 THEN [b EXCEPT !.v = 2] ELSE [GetBool(b, io) EXCEPT !.v = 1 + 2 * @]
        Second(a) == IF a.v = 0 THEN a ELSE Final(GetBool(a, io))
    IN  CASE iLoc < 15 -> CountedHuff(d, io, k)
          [] iLoc = 15 -> Second(GetBool(d, io))
          [] iLoc > 15 -> GetBits(d, io, 1)

\* A sign and a level; k: the table of levels above 1.
DecodeLevel(d, io, large, k) ==
    LET Signed(s) == [(IF large THEN DecodeSignificantAbsLevel(s, io, k) ELSE [s EXCEPT !.v = 1])
                      EXCEPT !.v = IF s.v = 1 THEN -@ ELSE @]
    IN  Signed(GetBool(d, io))

\* A block being read: the runs and levels so far, which of them comes next, if any (iSRn), whether
\* all runs so far were 0 (iCont), and the position.  Tables are those from first on, and from level on.
Both(b1, b2) == IF b1 % 2 = 1 /\ b2 % 2 = 1 THEN 1 ELSE 0
AddRun(a, io, iSR) ==
    LET At(r) == [a EXCEPT !.d = r, !.run = r.v, !.iLoc = @ + r.v + 1]
    IN  At(IF iSR = 1 THEN [a.d EXCEPT !.v = 0] ELSE DecodeSignificantRun(a.d, io, 15 - a.iLoc))
AddLevel(a, io) ==
    LET Of(l) == [a EXCEPT !.d = l, !.level = l.v]
    IN  Of(DecodeLevel(a.d, io, a.iSL, a.levels + a.iCont))
Done(a) == [a EXCEPT !.rl = Append(@, <<a.run, a.level>>)]

\* The first index tells of the first run, which is sent after the level.
FirstIndex(a, i) == [a EXCEPT !.d = i, !.iSR = i.v % 2, !.iSL = (i.v \div 2) % 2 = 1, !.iSRn = i.v \div 4,
                              !.iCont = Both(i.v, i.v \div 4)]
NextIndex(a, i) == [a EXCEPT !.d = i, !.iSL = i.v % 2 = 1, !.iSRn = i.v \div 2, !.iCont = Both(@, i.v \div 2)]

DecodeFirst(a, io) ==
    LET Run(b) == AddRun(b, io, b.iSR)
    IN  Done(Run(AddLevel(FirstIndex(a, CountedHuff(a.d, io, a.first)), io)))
DecodeNext(a, io) ==
    LET Index(b) == NextIndex(b, DecodeIndex(b.d, io, b.iLoc, b.first + b.iCont + 1))
    IN  IF a.iSRn = 0 THEN a ELSE Done(AddLevel(Index(AddRun(a, io, a.iSRn % 2)), io))

\* At most 15 coefficients are left of a block.
DecodeBlock(d, io, bChroma, iContextOffset, iLocation) ==
    LET start == [d |-> d, rl |-> <<>>, run |-> 0, level |-> 0, iSR |-> 0, iSL |-> FALSE, iSRn |-> 0, iCont |-> 0,
                  iLoc |-> iLocation, first |-> iContextOffset + (IF bChroma THEN 3 ELSE 0), levels |-> iContextOffset + 6]
    IN  Each(LAMBDA a, n : DecodeNext(a, io), DecodeFirst(start, io), [n \in 1 .. 14 |-> n])

\* Levels put where the order of scan has them.
Placed(rl, scan0) ==
    LET Step(a, e) == LET k == (a.k + e[1]) % 16
                      IN  [k |-> k + 1, coef |-> [a.coef EXCEPT ![a.scan.order[k]] = e[2]],
                           scan |-> Promoted(Counted(a.scan, k), k)]
    IN  Each(Step, [k |-> 1, coef |-> [i \in 0 .. 15 |-> 0], scan |-> scan0], rl)

\* A coefficient of which the level is known gets its low bits, one without brings its sign.
Refined(d, io, level, iModelBits, iTrim, w) ==
    LET Based(fine, base) ==
            CASE level # 0  -> [fine EXCEPT !.v = IF level < 0 THEN -base ELSE base]
              [] level = 0 /\ fine.v = 0 -> fine
              [] OTHER      -> [GetBool(fine, io) EXCEPT !.v = IF @ = 1 THEN -base ELSE base]
        Of(fine) == Based(fine, AbsOf(level) * 2^iModelBits + fine.v * 2^iTrim)
    IN  Of(GetField(d, io, w))

-----------------------------------------------------------------------------
(* The DC band.                                                            *)

\* mb: the macroblock as far as it was decoded.
SetLP(a, ch, i, v) == [a EXCEPT !.mb.lp[ch][i] = v]

DecodeDC(d, io, k, significant, iModelBits) ==
    LET Signed(e, v) == IF v = 0 THEN e ELSE [GetBool(e, io) EXCEPT !.v = IF @ = 1 THEN -v ELSE v]
        Low(l)  == [GetField(l, io, iModelBits) EXCEPT !.v = @ + (l.v - 1) * 2^iModelBits]
        All(e)  == Signed(e, e.v)
    IN  All(Low(IF significant THEN DecodeSignificantAbsLevel(d, io, k) ELSE [d EXCEPT !.v = 1]))

\* In spatial mode the quantisers' indices of all bands come first.
DecodeIndexes(p, a) ==
    LET spatial == p.bfBitstreamFormat = "SPATIAL" /\ HasLP(p)
        Index(d, cBits) == IF cBits > 0 THEN decodeQPIndex(d, IO(p, "DC"), cBits) ELSE [d EXCEPT !.v = 0]
        LP(d) == [a EXCEPT !.d = d, !.mb.iQIndexLP = d.v]
        HP(b, d) == [b EXCEPT !.d = d, !.mb.iQIndexHP = IF p.cBitsHP = 0 /\ p.cNumQPHP > 1 THEN b.mb.iQIndexLP ELSE d.v]
        Second(b) == HP(b, Index(b.d, IF spatial /\ p.sbSubband # "NO_HIGHPASS" THEN p.cBitsHP ELSE 0))
    IN  Second(LP(Index(a.d, IF spatial THEN p.cBitsLP ELSE 0)))

\* pair: which of three channels have a level, coded together.
DecodeChannelDC(p, a, ch, pair, iModelBits) ==
    LET io == IO(p, "DC")
        Of(d)   == [SetLP(a, ch, 0, d.v) EXCEPT !.d = d]
        Rest(f) == [Of(DecodeDC(f, io, IF ThreePlanes(p.cf) /\ ch > 0 THEN 4 ELSE 3, f.v = 1, iModelBits))
                    EXCEPT !.n[ch] = f.v]
    IN  Rest(IF ThreePlanes(p.cf) THEN [a.d EXCEPT !.v = (pair \div 2^(2 - ch)) % 2] ELSE GetBool(a.d, io))

DecodeMacroblockDC(p, view, d0, empty, m_bResetContext) ==
    LET only   == p.sbSubband = "DC_ONLY" \/ (p.bfBitstreamFormat = "FREQUENCY" /\ view.cThumbnailScale >= 16)
        Pair(a) == IF ThreePlanes(p.cf) THEN [a EXCEPT !.d = getHuff(@, IO(p, "DC"), 2)] ELSE a
        All(a) == Each(LAMBDA b, ch : DecodeChannelDC(p, b, ch, a.d.v, ModelBits(d0, "DC", ch)), a, ChannelSeq(p))
        Model(ctx, n) == [ctx EXCEPT !.DC = UpdateModelMB(p.cf, p.channels, "DC", Counts(p, n), @)]
        After(ctx) == IF only /\ m_bResetContext THEN AdaptDC(ctx) ELSE ctx
        Result(r)  == [d |-> [r.d EXCEPT !.ctx = After(Model(@, r.n))], mb |-> r.mb]
    IN  Result(All(Pair(DecodeIndexes(p, [d |-> d0, mb |-> empty, n |-> [ch \in Channels(p) |-> 0]]))))

-----------------------------------------------------------------------------
(* The low-pass band.                                                      *)

DecodeCBPLP(p, d, io) ==
    LET full   == iBlocksLP(p)
        iMax   == full * 4 - 5
        countM == d.ctx.m_iCBPCountMax
        countZ == d.ctx.m_iCBPCountZero
        Final(k)    == IF k.v = 0 THEN [k EXCEPT !.v = 1] ELSE [GetBits(k, io, 1) EXCEPT !.v = 2 * k.v + @]
        Rest(any)  == IF any.v = 0 THEN any ELSE Final(GetBits(any, io, full - 1))
        After(r) == [r EXCEPT !.ctx.m_iCBPCountMax = CBPCount(@, r.v = iMax), !.ctx.m_iCBPCountZero = CBPCount(@, r.v = 0)]
    IN  After(IF countZ > 0 /\ countM >= 0 THEN GetBits(d, io, full)
                 ELSE [Rest(GetBool(d, io)) EXCEPT !.v = IF countM < countZ THEN iMax - @ ELSE @])

\* Runs and levels of both subsampled channels back at their places.
Spread(p, mb, rl) ==
    LET places == Interleaved(p.cf)
        Step(a, e) == LET k == a.k + e[1]
                      IN  [k |-> k + 1,
                           mb |-> IF k > Len(places) THEN a.mb ELSE [a.mb EXCEPT !.lp[places[k][1]][places[k][2]] = e[2]]]
    IN  Each(Step, [k |-> 1, mb |-> mb], rl).mb

\* The levels of a block; both subsampled channels have one.
DecodeLevelsLP(p, a, b) ==
    LET Own(d, s, n)  == [d |-> [d EXCEPT !.ctx.lowpass = s.scan], n |-> [a.n EXCEPT ![b] = n],
                          mb |-> [a.mb EXCEPT !.lp[b] = [s.coef EXCEPT ![0] = a.mb.lp[b][0]]]]
        Joint(r) == [d |-> r.d, mb |-> Spread(p, a.mb, r.rl), n |-> [a.n EXCEPT ![b] = Len(r.rl)]]
        To(r)    == IF Subsampled(p.cf) /\ b = 1 THEN Joint(r)
                    ELSE Own(r.d, Placed(r.rl, r.d.ctx.lowpass), Len(r.rl))
    IN  To(DecodeBlock(a.d, IO(p, "LP"), b > 0, CTDC, ChromaLocation(p.cf, b)))

\* The low bits of a block.
DecodeFlexLP(p, a, b, w) ==
    LET Set(e, at, r) == [SetLP(e, at[1], at[2], r.v) EXCEPT !.d = r]
        Fine(e, at) == Set(e, at, Refined(e.d, IO(p, "LP"), e.mb.lp[at[1]][at[2]], w, 0, w))
    IN  IF w = 0 THEN a ELSE Each(Fine, a, FlexPlaces(p, b))

\* Which blocks have levels.
DecodePatternLP(p, d, io) ==
    IF ThreePlanes(p.cf) THEN DecodeCBPLP(p, d, io)
    ELSE Each(LAMBDA e, ch : [GetBool(e, io) EXCEPT !.v = e.v + @ * 2^ch], [d EXCEPT !.v = 0], ChannelSeq(p))

DecodeMacroblockLowpass(p, d0, mb0, m_bResetRGITotals, m_bResetContext) ==
    LET io    == IO(p, "LP")
        index == p.bfBitstreamFormat # "SPATIAL" /\ p.cBitsLP > 0
        Reset(d)   == IF m_bResetRGITotals THEN [d EXCEPT !.ctx.lowpass = ResetTotals(@)] ELSE d
        Pattern(d) == [d |-> DecodePatternLP(p, Reset(d), io), mb |-> [mb0 EXCEPT !.iQIndexLP = d.v],
                       n |-> [b \in 0 .. iBlocksLP(p) - 1 |-> 0]]
        Block(a, b, iCBP) == DecodeFlexLP(p, IF (iCBP \div 2^b) % 2 = 0 THEN a ELSE DecodeLevelsLP(p, a, b),
                                          b, ModelBits(d0, "LP", b))
        Blocks(a)  == Each(LAMBDA e, b : Block(e, b, a.d.v), a, [i \in 1 .. iBlocksLP(p) |-> i - 1])
        Found(n)   == <<n[0], MapThenSumSet(LAMBDA b : n[b], 1 .. iBlocksLP(p) - 1)>>
        Model(ctx, n) == [ctx EXCEPT !.LP = UpdateModelMB(p.cf, p.channels, "LP", Found(n), @)]
        After(ctx) == IF m_bResetContext THEN AdaptLowpass(ctx) ELSE ctx
        Result(r)  == [d |-> [r.d EXCEPT !.ctx = After(Model(@, r.n))], mb |-> r.mb]
    IN  Result(Blocks(Pattern(IF index THEN decodeQPIndex(d0, io, p.cBitsLP) ELSE [d0 EXCEPT !.v = mb0.iQIndexLP])))

-----------------------------------------------------------------------------
(* The pattern of the high-pass blocks.                                    *)

PairOfFour == <<6, 9, 10, 12>>
\* Which of four bits, given how many: none, one, two, three, all.
DecodeTie(d, io, ones) ==
    LET Of(two) ==
            CASE ones = 1 -> [two EXCEPT !.v = 2^@]
              [] ones = 3 -> [two EXCEPT !.v = 15 - 2^@]
              [] ones = 2 /\ two.v < 2  -> [two EXCEPT !.v = 3 + 2 * @]
              [] ones = 2 /\ two.v >= 2 -> [GetBool(two, io) EXCEPT !.v = PairOfFour[two.v * 2 + @ - 3]]
    IN  IF ones \in {0, 4} THEN [d EXCEPT !.v = IF ones = 0 THEN 0 ELSE 15] ELSE Of(GetBits(d, io, 2))

DecodeThird(d, io) ==
    LET Of(a) == IF a.v = 1 THEN a ELSE [GetBool(a, io) EXCEPT !.v = 3 - @]
    IN  Of(GetBool(d, io))

gFLC0 == <<0, 2, 1, 2, 2, 0>>
gOff0 == <<0, 4, 2, 8, 12, 1>>
gOut0 == <<0, 15, 3, 12, 1, 2, 4, 8, 5, 6, 9, 10, 7, 11, 13, 14>>

\* The places whose bits a number has.
AsPlaces(n, places) == {places[i] : i \in {j \in DOMAIN places : (n \div 2^(j - 1)) % 2 = 1}}

\* A quarter of the pattern being read: whether and where the other channels have bits (both), the
\* first channel's bits, the other channels'.  diff: the patterns of one channel, or of three together.
DecodeVal(a, io) ==
    LET Tab(b, val) == IF val = 8 THEN [b EXCEPT !.d = [DecodeThird(@, io) EXCEPT !.v = @ + 2]]
                       ELSE [b EXCEPT !.d.v = val - 5]
        With(both, val) == Tab([a EXCEPT !.d = both, !.both = both.v], val)
        Of(d) == IF d.v < 5 THEN [a EXCEPT !.d = [d EXCEPT !.v = @ + 1], !.both = 0] ELSE With(DecodeThird(d, io), d.v)
    IN  Of(CountedHuff(a.d, io, CBPCY))
DecodeLuma(a, io, q) ==
    LET Of(f) == [a EXCEPT !.d = f, !.diff[1] = @ \cup AsPlaces(gOut0[gOff0[a.d.v + 1] + f.v + 1], Quarter(q))]
    IN  Of(GetBits(a.d, io, gFLC0[a.d.v + 1]))
DecodeChroma(p, a, io, q, i) ==
    LET Count(n) == DecodeTie(n, io, n.v + 1)
        Of(d) == [a EXCEPT !.d = d, !.diff[i + 1] = @ \cup AsPlaces(d.v, ChromaQuarter(p.cf, q))]
        Coded == CASE p.cf = "YUV_444" -> Of(Count(getHuff(a.d, io, 1)))
                   [] p.cf = "YUV_422" -> Of(DecodeThird(a.d, io))
                   [] OTHER            -> Of([a.d EXCEPT !.v = 1])
    IN  IF (a.both \div 2^(i - 1)) % 2 = 0 THEN a ELSE Coded

DecodeCBP(p, d0, io) ==
    LET First(d) == DecodeTie(d, io, d.v)
        Block(a, q) == DecodeChroma(p, DecodeChroma(p, DecodeLuma(DecodeVal(a, io), io, q), io, q, 1), io, q, 2)
        Blocks(d) == Each(LAMBDA a, q : IF (d.v \div 2^q) % 2 = 0 THEN a ELSE Block(a, q),
                          [d |-> d, both |-> 0, diff |-> IF ThreePlanes(p.cf) THEN <<{}, {}, {}>> ELSE <<{}>>],
                          <<0, 1, 2, 3>>)
    IN  Blocks(First(CountedHuff(d0, io, CBPCY1)))

DecodeCBPs(p, d, io) ==
    LET Also(a, r) == [d |-> r.d, diff |-> a.diff \o r.diff]
    IN  IF p.cf \in {"NCOMPONENT", "CMYK"}
        THEN Each(LAMBDA a, ch : Also(a, DecodeCBP(p, a.d, io)), [d |-> d, diff |-> <<>>], ChannelSeq(p))
        ELSE DecodeCBP(p, d, io)

predCBPDec(p, r, at) ==
    LET Known(a, ch, iCBP) == [patterns |-> [a.patterns EXCEPT ![ch] = iCBP], model |-> CBPModelAfter(p, ch, iCBP, a.model)]
        One(a, ch) == Known(a, ch, predCBPCDec(BlockCount(p, ch), ch, r.diff[ch + 1], a.model.m_iState[ModelOf(ch)], at))
        Result(a)  == [d |-> [r.d EXCEPT !.ctx.cbp = a.model], patterns |-> a.patterns]
    IN  Result(Each(One, [patterns |-> [ch \in Channels(p) |-> {}], model |-> r.d.ctx.cbp], ChannelSeq(p)))

-----------------------------------------------------------------------------
(* The high-pass band and its low bits.                                    *)

iFlex(p, view, iModelBits) == IF bSkipFlexbits(p, view) \/ iModelBits < p.iTrimFlexBits THEN 0
                              ELSE iModelBits - p.iTrimFlexBits

\* A block's levels, if it has any, and then the low bits of its coefficients.
DecodeLevelsHP(p, a, ch, scanName) ==
    LET Of(d, s, n) == [d |-> [d EXCEPT !.ctx[scanName] = s.scan], coef |-> s.coef, n |-> [a.n EXCEPT ![ch] = @ + n]]
        To(r) == Of(r.d, Placed(r.rl, r.d.ctx[scanName]), Len(r.rl))
    IN  To(DecodeBlock(a.d, IO(p, "AC"), ch > 0, CTDC + CONTEXTX, 1))
DecodeFlexHP(p, a, iModelBits, w) ==
    LET Set(e, i, f) == [e EXCEPT !.d = f, !.coef[i] = f.v]
        Fine(e, i) == Set(e, i, Refined(e.d, IO(p, "FL"), e.coef[i], iModelBits, IF w = 0 THEN 0 ELSE p.iTrimFlexBits, w))
    IN  Each(Fine, a, [k \in 1 .. 15 |-> dctIndex[k + 1]])

DecodeCoeffs(p, view, r0, scanName) ==
    LET bits(ch) == ModelBits(r0.d, "AC", ch)
        Levels(e, at) == IF at[2] \in r0.patterns[at[1]] THEN DecodeLevelsHP(p, e, at[1], scanName) ELSE e
        Fine(e, ch)   == DecodeFlexHP(p, e, bits(ch), iFlex(p, view, bits(ch)))
        Set(a, at, e) == [d |-> e.d, n |-> e.n, ac |-> [a.ac EXCEPT ![at[1]][at[2]] = [i \in 1 .. 15 |-> e.coef[i]]]]
        Block(a, at)  == Set(a, at, Fine(Levels([d |-> a.d, coef |-> [i \in 0 .. 15 |-> 0], n |-> a.n], at), at[1]))
        blank == [ch \in Channels(p) |-> [b \in 0 .. BlockCount(p, ch) - 1 |-> <<>>]]
        Model(ctx, n) == [ctx EXCEPT !.AC = UpdateModelMB(p.cf, p.channels, "AC", Counts(p, n), @)]
        Result(r) == [d |-> [r.d EXCEPT !.ctx = Model(@, r.n)], ac |-> r.ac, patterns |-> r0.patterns]
    IN  Result(Each(Block, [d |-> r0.d, ac |-> blank, n |-> [ch \in Channels(p) |-> 0]], AllBlocks(p)))

DecodePatternAndCoeffs(p, view, d, mode, at) ==
    DecodeCoeffs(p, view, predCBPDec(p, DecodeCBPs(p, d, IO(p, "AC")), at), ScanName(mode))

DecodeMacroblockHighpass(p, view, d0, mb0, mode, at, m_bResetRGITotals, m_bResetContext) ==
    LET index == p.bfBitstreamFormat # "SPATIAL" /\ p.cBitsHP > 0
        Reset(d) == IF m_bResetRGITotals
                    THEN [d EXCEPT !.ctx.horiz = ResetTotals(@), !.ctx.vert = ResetTotals(@)] ELSE d
        \* The quantiser's index, sent or known.
        Index(d) == CASE index -> decodeQPIndex(d, IO(p, "AC"), p.cBitsHP)
                      [] ~index /\ p.cBitsHP = 0 /\ p.cNumQPHP > 1 -> [d EXCEPT !.v = mb0.iQIndexLP]
                      [] OTHER -> [d EXCEPT !.v = mb0.iQIndexHP]
        Result(r, iQIndexHP) ==
            [d |-> [r.d EXCEPT !.ctx = IF m_bResetContext THEN AdaptHighpass(@) ELSE @], patterns |-> r.patterns,
             mb |-> [mb0 EXCEPT !.ac = r.ac, !.iQIndexHP = iQIndexHP]]
        After(d) == Result(DecodePatternAndCoeffs(p, view, d, mode, at), d.v)
    IN  After(Index(Reset(d0)))

=============================================================================
