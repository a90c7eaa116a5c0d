--------------------------- MODULE CodingContext ---------------------------
(***************************************************************************)
(* What both sides of the entropy coder keep for a column of tiles (struct *)
(* CCodingContext, image/sys/strcodec.h) and how it adapts to what was     *)
(* coded: the code tables (adapthuff.c), the number of low bits that are   *)
(* not entropy coded, and the order of scan (image.c, segenc.c, segdec.c). *)
(* Encoder and decoder adapt their own copies; nothing of it is sent.      *)
(***************************************************************************)
EXTENDS Integers, Sequences, FiniteSets, TLC

CTDC == 5
CONTEXTX == 8
NUMVLCTABLES == 21
CBPCY  == NUMVLCTABLES          \* m_pAdaptHuffCBPCY
CBPCY1 == NUMVLCTABLES + 1      \* m_pAdaptHuffCBPCY1
Tables == 0 .. CBPCY1

Subsampled(cf) == cf \in {"YUV_420", "YUV_422"}
ThreePlanes(cf) == cf \in {"YUV_420", "YUV_422", "YUV_444"}

-----------------------------------------------------------------------------
(* Code tables.  A table has an alphabet, the index of the code in use,    *)
(* and one or two sums of what the neighbouring codes would have saved.    *)

THRESHOLD == 8
MEMORY == 8
gMaxTables == [n \in {4, 5, 6, 7, 8, 9, 12} |-> CASE n = 4 -> 1 [] n = 6 -> 4 [] n = 12 -> 5 [] n \in {5, 7, 8, 9} -> 2]
TwoDiscriminants == {6, 12}     \* gSecondDisc

aAlphabet == <<5, 4, 8, 7, 7, 12, 6, 6, 12, 6, 6, 7, 7, 12, 6, 6, 12, 6, 6, 7, 7>>
Alphabet(cf, k) == CASE k < NUMVLCTABLES -> aAlphabet[k + 1]
                     [] k = CBPCY        -> IF ThreePlanes(cf) THEN 9 ELSE 5
                     [] k = CBPCY1       -> 5

\* m_pDelta of the alphabets with one discriminant; those of 4 and 8 symbols have none.
OneDelta == (5 :> <<0, -1, 0, 1, 1>>) @@ (7 :> <<1, 0, -1, -1, -1, -1, -1>>)
         @@ (9 :> <<2, 2, 1, 1, -1, -2, -2, -2, -3>>)
\* g6DeltaTable and g12DeltaTable: one row between every two neighbouring tables.
DeltaRows == [n \in TwoDiscriminants |->
    IF n = 6 THEN <<<<-1, 1, 1, 1, 0, 1>>, <<-2, 0, 0, 2, 0, 0>>, <<-1, -1, 0, 1, -2, 0>>>>
    ELSE <<<<1, 1, 1, 1, 1, 0, 0, -1, 2, 1, 0, 0>>, <<2, 2, -1, -1, -1, 0, -2, -1, 0, 0, -2, -1>>,
           <<-1, 1, 0, 2, 0, 0, 0, 0, -2, 0, 1, 1>>, <<0, 1, 0, 1, -2, 0, -1, -1, -2, -1, -2, -2>>>>]

m_pDelta(n, t)  == IF n \in TwoDiscriminants THEN DeltaRows[n][t + (IF t = 0 THEN 1 ELSE 0)] ELSE OneDelta[n]
m_pDelta1(n, t) == DeltaRows[n][t + 1 - (IF t + 1 = gMaxTables[n] THEN 1 ELSE 0)]

NewTable(n) == [n |-> n, t |-> IF n \in TwoDiscriminants THEN 1 ELSE 0, d |-> 0, d1 |-> 0]

\* A symbol was coded with the table.
Weighed(a, sym) ==
    [a EXCEPT !.d  = @ + m_pDelta(a.n, a.t)[sym + 1],
              !.d1 = IF a.n \in TwoDiscriminants THEN @ + m_pDelta1(a.n, a.t)[sym + 1] ELSE @]

Clamped(x, low, high) == IF x < low THEN low ELSE IF x > high THEN high ELSE x

AdaptDiscriminant(a) ==
    LET dH   == IF a.n \in TwoDiscriminants THEN a.d1 ELSE a.d
        down == a.t > 0 /\ a.d < -THRESHOLD
        up   == ~down /\ a.t < gMaxTables[a.n] - 1 /\ dH > THRESHOLD
        kept(x) == IF down \/ up THEN 0 ELSE Clamped(x, -THRESHOLD * MEMORY, THRESHOLD * MEMORY)
    IN  [a EXCEPT !.t = CASE down -> @ - 1 [] up -> @ + 1 [] OTHER -> @,
                  !.d = kept(@), !.d1 = kept(@)]

-----------------------------------------------------------------------------
(* Bit models: how many low bits of a coefficient are sent as they are, in *)
(* the first channel and in the others, one model for each band.           *)

MODELWEIGHT == 70
NewModel(bits) == [bits |-> <<bits, bits>>, state |-> <<0, 0>>]

aWeight0 == [DC |-> 240, LP |-> 12, AC |-> 1]
aWeight1 == [DC |-> <<0, 240, 120, 80, 60, 48, 40, 34, 30, 27, 24, 22, 20, 18, 17, 16>>,
             LP |-> <<0, 12, 6, 4, 3, 2, 2, 2, 2, 1, 1, 1, 1, 1, 1, 1>>,
             AC |-> <<0, 16, 8, 5, 4, 3, 3, 2, 2, 2, 2, 1, 1, 1, 1, 1>>]
aWeight2 == [YUV_420 |-> [DC |-> 120, LP |-> 37, AC |-> 2], YUV_422 |-> [DC |-> 120, LP |-> 18, AC |-> 1]]

Weighted(cf, iChannels, band, lm) ==
    << lm[1] * aWeight0[band],
       IF Subsampled(cf) THEN lm[2] * aWeight2[cf][band]
       ELSE (lm[2] * aWeight1[band][iChannels]) \div (IF band = "AC" THEN 16 ELSE 1) >>

\* One channel's <<bits, state>> after a macroblock with the weighted count iLM.
ModelStep(iLM, bits, state) ==
    LET iDelta == (iLM - MODELWEIGHT) \div 4
        down   == state + Clamped(iDelta + 4, -16, 0)
        up     == state + Clamped(iDelta - 4, 0, 15)
    IN  CASE iDelta <= -8 /\ down < -8  -> IF bits = 0 THEN <<0, -8>> ELSE <<bits - 1, 0>>
          [] iDelta <= -8 /\ down >= -8 -> <<bits, down>>
          [] iDelta >= 8 /\ up > 8      -> IF bits >= 15 THEN <<15, 8>> ELSE <<bits + 1, 0>>
          [] iDelta >= 8 /\ up <= 8     -> <<bits, up>>
          [] OTHER                      -> <<bits, state>>

UpdateModelMB(cf, iChannels, band, lm, model) ==
    LET w     == Weighted(cf, iChannels, band, lm)
        first == ModelStep(w[1], model.bits[1], model.state[1])
        other == IF cf = "Y_ONLY" THEN <<model.bits[2], model.state[2]>>
                 ELSE ModelStep(w[2], model.bits[2], model.state[2])
    IN  [bits |-> <<first[1], other[1]>>, state |-> <<first[2], other[2]>>]

-----------------------------------------------------------------------------
(* Orders of scan: position k holds the coefficient order[k] and how often *)
(* it was found significant.  One that overtakes its neighbour moves up.   *)

MAXTOTAL == 32767
grgiZigzagInv4x4   == <<0, 1, 4, 5, 2, 8, 6, 9, 3, 12, 10, 7, 13, 11, 14, 15>>   \* lowpass and horizontal
grgiZigzagInv4x4V  == <<0, 4, 8, 5, 1, 12, 9, 6, 2, 13, 3, 15, 7, 10, 14, 11>>
dctIndex == <<0, 5, 1, 6, 10, 12, 8, 14, 2, 4, 3, 7, 9, 13, 11, 15>>             \* of the AC coefficients

NewScan(order) == [order |-> order, total |-> [k \in 0 .. 15 |-> 0]]
LowpassScan == NewScan([k \in 0 .. 15 |-> grgiZigzagInv4x4[k + 1]])
HorizScan   == NewScan([k \in 0 .. 15 |-> dctIndex[grgiZigzagInv4x4[k + 1] + 1]])
VertScan    == NewScan([k \in 0 .. 15 |-> dctIndex[grgiZigzagInv4x4V[k + 1] + 1]])

ResetTotals(scan) == [scan EXCEPT !.total = [k \in 0 .. 15 |-> IF k = 0 THEN MAXTOTAL ELSE 34 - 2 * k]]

Counted(scan, k) == [scan EXCEPT !.total[k] = @ + 1]

Promoted(scan, k) ==
    IF k = 0 \/ scan.total[k] <= scan.total[k - 1] THEN scan
    ELSE [order |-> [scan.order EXCEPT ![k] = scan.order[k - 1], ![k - 1] = scan.order[k]],
          total |-> [scan.total EXCEPT ![k] = scan.total[k - 1], ![k - 1] = scan.total[k]]]

-----------------------------------------------------------------------------
(* The low-pass pattern's counters and the prediction state of the high-   *)
(* pass patterns (first channel, other channels).                          *)

CBPCount(count, hit) == Clamped(count + 1 - (IF hit THEN 4 ELSE 0), -8, 7)

AVG_NDIFF == 3
NewCBPModel == [m_iCount0 |-> <<-4, -4>>, m_iCount1 |-> <<4, 4>>, m_iState |-> <<0, 0>>]

UpdateCBPModel(model, c, iNOrig) ==
    LET count0 == Clamped(model.m_iCount0[c] + iNOrig - AVG_NDIFF, -16, 15)
        count1 == Clamped(model.m_iCount1[c] + 16 - iNOrig - AVG_NDIFF, -16, 15)
        state  == IF count0 >= 0 /\ count1 >= 0 THEN 0 ELSE IF count0 < 0 /\ count0 < count1 THEN 1 ELSE 2
    IN  [m_iCount0 |-> [model.m_iCount0 EXCEPT ![c] = count0],
         m_iCount1 |-> [model.m_iCount1 EXCEPT ![c] = count1],
         m_iState  |-> [model.m_iState EXCEPT ![c] = state]]

-----------------------------------------------------------------------------
(* The context.                                                            *)

NewContext(cf) ==
    [ah |-> [k \in Tables |-> NewTable(Alphabet(cf, k))],
     lowpass |-> LowpassScan, horiz |-> HorizScan, vert |-> VertScan,
     DC |-> NewModel(8), LP |-> NewModel(4), AC |-> NewModel(0),
     m_iCBPCountMax |-> 1, m_iCBPCountZero |-> 1, cbp |-> NewCBPModel]

\* A reset leaves the totals alone.
ResetCodingContext(cf, ctx) ==
    LET new == NewContext(cf)
    IN  [new EXCEPT !.lowpass.total = ctx.lowpass.total, !.horiz.total = ctx.horiz.total,
                    !.vert.total = ctx.vert.total]

Adapted(ctx, tables) ==
    [ctx EXCEPT !.ah = [k \in Tables |-> IF k \in tables THEN AdaptDiscriminant(@[k]) ELSE @[k]]]

AdaptDC(ctx)       == Adapted(ctx, 2 .. 4)
AdaptLowpass(ctx)  == Adapted(ctx, 0 .. CONTEXTX + CTDC - 1)
AdaptHighpass(ctx) == Adapted(ctx, {CBPCY, CBPCY1} \cup CONTEXTX + CTDC .. NUMVLCTABLES - 1)

=============================================================================
