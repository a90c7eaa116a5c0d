------------------------ MODULE MacroblockPrediction ------------------------
(***************************************************************************)
(* Prediction in the frequency domain (image/sys/strPredQuant.c,           *)
(* encode/strPredQuantEnc.c, decode/strPredQuantDec.c): a macroblock's DC  *)
(* and low-pass coefficients from its neighbours, its high-pass            *)
(* coefficients from its own blocks above or to the left, and the pattern  *)
(* of its significant blocks from the pattern itself.                      *)
(*                                                                         *)
(* A macroblock has for every channel lp[c], the DC (0) and the low-pass   *)
(* coefficients, and ac[c][b], the high-pass coefficients 1 .. 15 of block *)
(* b in coding order.  A pattern is the set of its significant blocks.     *)
(***************************************************************************)
EXTENDS CodingContext, FiniteSetsExt

Channels(p) == 0 .. p.channels - 1
Subsample(p, c) == Subsampled(p.cf) /\ c > 0
BlockCount(p, c) == IF ~Subsample(p, c) THEN 16 ELSE IF p.cf = "YUV_422" THEN 8 ELSE 4
ORIENT_WEIGHT == 4

AbsOf(x) == IF x < 0 THEN -x ELSE x

-----------------------------------------------------------------------------
(* Neighbouring macroblocks: their DC, some low-pass coefficients, the     *)
(* pattern and the quantiser's index, kept for the row and the one before. *)

copyAC(p, c, lp) == IF ~Subsample(p, c)   THEN <<lp[1], lp[2], lp[3], lp[4], lp[8], lp[12]>>
                    ELSE IF p.cf = "YUV_420" THEN <<lp[1], lp[2]>>
                    ELSE <<lp[1], lp[2], lp[5], lp[6], lp[4]>>

updatePredInfo(p, lp, iQIndexLP, info) ==
    [c \in Channels(p) |-> [iDC |-> lp[c][0], iAD |-> copyAC(p, c, lp[c]), iQPIndex |-> iQIndexLP,
                            iCBP |-> info[c].iCBP]]

\* 1: little change along the row, 0: little down the column, 2: neither.
Direction(StrH, StrV) == CASE StrH * ORIENT_WEIGHT < StrV -> 1 [] StrV * ORIENT_WEIGHT < StrH -> 0 [] OTHER -> 2

getACPredMode(p, lp) ==
    LET Sum(c, S) == MapThenSumSet(LAMBDA i : AbsOf(lp[c][i]), S)
        Chroma(S) == Sum(1, S) + Sum(2, S)
        lumaH == Sum(0, {1, 2, 3})
        lumaV == Sum(0, {4, 8, 12})
    IN  CASE p.cf \in {"Y_ONLY", "NCOMPONENT"} -> Direction(lumaH, lumaV)
          [] p.cf = "YUV_420" -> Direction(lumaH + Chroma({1}), lumaV + Chroma({2}))
          [] p.cf = "YUV_422" -> Direction(lumaH + Chroma({1, 5}), lumaV + Chroma({2, 6}))
          [] OTHER            -> Direction(lumaH + Chroma({1}), lumaV + Chroma({4}))

\* at: where the macroblock is; at.left, at.top, at.topLeft the neighbours' entries.
DCPredMode(p, at) ==
    LET Step(a, b, c) == AbsOf(a[c].iDC - b[c].iDC)
        scale == CASE p.cf = "YUV_420" -> 8 [] p.cf = "YUV_422" -> 4 [] OTHER -> 2
        Str(n) == IF p.cf \in {"Y_ONLY", "NCOMPONENT"} THEN Step(at.topLeft, n, 0)
                  ELSE Step(at.topLeft, n, 0) * scale + Step(at.topLeft, n, 1) + Step(at.topLeft, n, 2)
    IN  CASE at.m_bCtxLeft /\ at.m_bCtxTop  -> 3
          [] at.m_bCtxLeft /\ ~at.m_bCtxTop -> 1
          [] ~at.m_bCtxLeft /\ at.m_bCtxTop -> 0
          [] OTHER                          -> Direction(Str(at.left), Str(at.top))

ADPredMode(iDCMode, iQIndexLP, at) ==
    CASE iDCMode = 1 /\ iQIndexLP = at.top[0].iQPIndex  -> 1
      [] iDCMode = 0 /\ iQIndexLP = at.left[0].iQPIndex -> 0
      [] OTHER                                          -> 2

-----------------------------------------------------------------------------
(* DC and low-pass coefficients.                                           *)

DCPredictor(p, c, mode, at) ==
    CASE mode = 1 -> at.top[c].iDC
      [] mode = 0 -> at.left[c].iDC
      [] mode = 2 -> (at.left[c].iDC + at.top[c].iDC + (IF Subsample(p, c) THEN 1 ELSE 0)) \div 2
      [] mode = 3 -> 0

\* The coefficients predicted from a neighbour, and from what.
ADPredictor(p, c, mode, at) ==
    LET top  == at.top[c].iAD
        left == at.left[c].iAD
        from == IF ~Subsample(p, c) THEN "444" ELSE p.cf
    IN  CASE mode = 2 -> [i \in {} |-> 0]
          [] mode = 1 /\ from = "444"     -> [i \in {4, 8, 12} |-> top[3 + (i \div 4)]]
          [] mode = 0 /\ from = "444"     -> [i \in {1, 2, 3} |-> left[i]]
          [] mode = 1 /\ from = "YUV_420" -> [i \in {2} |-> top[2]]
          [] mode = 0 /\ from = "YUV_420" -> [i \in {1} |-> left[1]]
          [] mode = 1 /\ from = "YUV_422" -> [i \in {2, 4} |-> IF i = 4 THEN top[5] ELSE top[4]]
          [] mode = 0 /\ from = "YUV_422" -> [i \in {1, 4, 5} |-> IF i = 4 THEN left[5] ELSE IF i = 5 THEN left[3]
                                                                  ELSE left[1]]

\* The lower half of a 4:2:2 channel is predicted from the upper one.
Chained(p, c, dcMode, adMode) == /\ p.cf = "YUV_422" /\ c > 0
                                 /\ adMode = 1 \/ (adMode # 0 /\ dcMode = 1)

Predictors(p, c, iQIndexLP, at) ==
    LET dcMode == DCPredMode(p, at)
        adMode == ADPredMode(dcMode, iQIndexLP, at)
    IN  [dc |-> DCPredictor(p, c, dcMode, at), ad |-> ADPredictor(p, c, adMode, at),
         chained |-> Chained(p, c, dcMode, adMode)]

Ref(r, i) == IF i = 0 THEN r.dc ELSE IF i \in DOMAIN r.ad THEN r.ad[i] ELSE 0

predLP(p, lp, iQIndexLP, at) ==
    [c \in Channels(p) |->
        LET r == Predictors(p, c, iQIndexLP, at)
        IN  [i \in DOMAIN lp[c] |-> lp[c][i] - Ref(r, i) - (IF r.chained /\ i = 6 THEN lp[c][2] ELSE 0)]]

predDCACDec(p, lp, iQIndexLP, at) ==
    [c \in Channels(p) |->
        LET r   == Predictors(p, c, iQIndexLP, at)
            sum == [i \in DOMAIN lp[c] |-> lp[c][i] + Ref(r, i)]
        IN  IF r.chained THEN [sum EXCEPT ![6] = @ + sum[2]] ELSE sum]

-----------------------------------------------------------------------------
(* High-pass coefficients: mode 1 takes three of every block from the      *)
(* block above, mode 0 three others from the one to the left.              *)

\* blkOffset, blkOffsetUV and blkOffsetUV_422 as columns and rows of blocks.
BlockAt(count, b) == IF count = 16 THEN <<(b % 2) + 2 * ((b \div 4) % 2), ((b \div 2) % 2) + 2 * (b \div 8)>>
                     ELSE <<b % 2, b \div 2>>

Source(count, mode, b) ==
    LET at   == BlockAt(count, b)
        want == CASE mode = 1 -> <<at[1], at[2] - 1>> [] mode = 0 -> <<at[1] - 1, at[2]>> [] OTHER -> <<>>
    IN  {a \in 0 .. b - 1 : BlockAt(count, a) = want}
SourceOf == [count \in {4, 8, 16} |-> [mode \in 0 .. 2 |-> [b \in 0 .. count - 1 |-> Source(count, mode, b)]]]

PredictedAC(mode) == CASE mode = 1 -> {2, 9, 10} [] mode = 0 -> {1, 5, 6} [] OTHER -> {}

predAC(p, ac, mode) ==
    [c \in Channels(p) |-> [b \in DOMAIN ac[c] |->
        LET from == SourceOf[BlockCount(p, c)][mode][b]
        IN  [i \in 1 .. 15 |-> ac[c][b][i] -
                (IF i \in PredictedAC(mode) /\ from # {} THEN ac[c][CHOOSE a \in from : TRUE][i] ELSE 0)]]]

\* MUTANT: from the block's differences as they were read.
predACDecAtOnce(p, ac, mode) ==
    [c \in Channels(p) |-> [b \in DOMAIN ac[c] |->
        LET from == SourceOf[BlockCount(p, c)][mode][b]
        IN  [i \in 1 .. 15 |-> ac[c][b][i] +
                (IF i \in PredictedAC(mode) /\ from # {} THEN ac[c][CHOOSE a \in from : TRUE][i] ELSE 0)]]]

predACDec(p, ac, mode) ==
    [c \in Channels(p) |->
        LET rec[b \in DOMAIN ac[c]] ==
                LET from == SourceOf[BlockCount(p, c)][mode][b]
                IN  [i \in 1 .. 15 |-> ac[c][b][i] +
                        (IF i \in PredictedAC(mode) /\ from # {} THEN rec[CHOOSE a \in from : TRUE][i] ELSE 0)]
        IN  rec]

-----------------------------------------------------------------------------
(* Patterns.  Block 0 is predicted from a neighbour's block, every other   *)
(* block from one of its own macroblock.                                   *)

ParentOf == (16 :> (1 :> 0 @@ 4 :> 1 @@ 5 :> 4 @@ 2 :> 0 @@ 3 :> 1 @@ 6 :> 4 @@ 7 :> 5 @@ 8 :> 2 @@ 9 :> 3
                    @@ 12 :> 6 @@ 13 :> 7 @@ 10 :> 8 @@ 11 :> 9 @@ 14 :> 12 @@ 15 :> 13))
         @@ (8 :> (1 :> 0 @@ 2 :> 0 @@ 3 :> 1 @@ 4 :> 2 @@ 5 :> 3 @@ 6 :> 4 @@ 7 :> 5))
         @@ (4 :> (1 :> 0 @@ 2 :> 0 @@ 3 :> 1))
TopBlock  == (16 :> 10) @@ (8 :> 6) @@ (4 :> 2)
LeftBlock == (16 :> 5) @@ (8 :> 1) @@ (4 :> 1)

NeighbourCoded(count, c, at) ==
    CASE at.m_bCtxLeft /\ at.m_bCtxTop  -> TRUE
      [] at.m_bCtxLeft /\ ~at.m_bCtxTop -> TopBlock[count] \in at.top[c].iCBP
      [] OTHER                          -> LeftBlock[count] \in at.left[c].iCBP

\* What is sent for the pattern iCBP in a state of the model, and the way back.
predCBPCEnc(count, c, iCBP, state, at) ==
    LET predicted == {b \in DOMAIN ParentOf[count] : ParentOf[count][b] \in iCBP}
                     \cup (IF NeighbourCoded(count, c, at) THEN {0} ELSE {})
    IN  CASE state = 0 -> (predicted \ iCBP) \cup (iCBP \ predicted)
          [] state = 1 -> iCBP
          [] state = 2 -> (0 .. count - 1) \ iCBP

predCBPCDec(count, c, diff, state, at) ==
    LET coded[b \in 0 .. count - 1] ==
            (b \in diff) # (IF b = 0 THEN NeighbourCoded(count, c, at) ELSE coded[ParentOf[count][b]])
    IN  CASE state = 0 -> {b \in 0 .. count - 1 : coded[b]}
          [] state = 1 -> diff
          [] state = 2 -> (0 .. count - 1) \ diff

ModelOf(c) == IF c = 0 THEN 1 ELSE 2
CBPModelAfter(p, c, iCBP, model) ==
    UpdateCBPModel(model, ModelOf(c), Cardinality(iCBP) * (16 \div BlockCount(p, c)))

=============================================================================
