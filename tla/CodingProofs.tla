---------------------------- MODULE CodingProofs ----------------------------
(***************************************************************************)
(* However long an image is, what adapts in a coding context stays where   *)
(* the code's arrays can be indexed with it; the decoder's prediction of   *)
(* DC and low-pass coefficients gives back what the encoder's took away,   *)
(* for every macroblock, without looking at a neighbour that is not there; *)
(* each operator of the inverse transform undoes the encoder's; and the    *)
(* decoder's walk over a plane gives out every row that is wanted.         *)
(***************************************************************************)
EXTENDS MacroblockPrediction, TransformOps, TransformCodec, TLAPS

-----------------------------------------------------------------------------
(* Code tables.                                                            *)

\* A table that AdaptDiscriminant may have in use.
TableInUse(a) == /\ a \in [n : DOMAIN gMaxTables, t : Int, d : Int, d1 : Int]
                 /\ a.t \in 0 .. gMaxTables[a.n] - 1

LEMMA TableReplaced ==
    ASSUME NEW N, NEW a \in [n : N, t : Int, d : Int, d1 : Int], NEW t \in Int, NEW d \in Int, NEW d1 \in Int
    PROVE  LET b == [a EXCEPT !.t = t, !.d = d, !.d1 = d1]
           IN  /\ b \in [n : N, t : Int, d : Int, d1 : Int]
               /\ b.n = a.n /\ b.t = t /\ b.d = d /\ b.d1 = d1
OBVIOUS

\* The table in use is always one of the alphabet's, and the sums never leave the range of the
\* code's clamps, whatever was counted since: AdaptDiscriminant asserts the former (adapthuff.c:454).
THEOREM TablesStayInRange ==
    ASSUME NEW a, TableInUse(a)
    PROVE  LET b == AdaptDiscriminant(a)
           IN  TableInUse(b) /\ b.n = a.n /\ b.d \in -64 .. 64 /\ b.d1 \in -64 .. 64
<1> DEFINE b == AdaptDiscriminant(a)
           dH == IF a.n \in TwoDiscriminants THEN a.d1 ELSE a.d
           down == a.t > 0 /\ a.d < -THRESHOLD
           up == ~down /\ a.t < gMaxTables[a.n] - 1 /\ dH > THRESHOLD
           kept(x) == IF down \/ up THEN 0 ELSE Clamped(x, -THRESHOLD * MEMORY, THRESHOLD * MEMORY)
           t == CASE down -> a.t - 1 [] up -> a.t + 1 [] OTHER -> a.t
<1>0. gMaxTables[a.n] \in Nat
  BY DEF TableInUse, gMaxTables
<1>1. b = [a EXCEPT !.t = t, !.d = kept(a.d), !.d1 = kept(a.d1)]
  BY Zenon DEF AdaptDiscriminant
<1>2. kept(a.d) \in -64 .. 64 /\ kept(a.d1) \in -64 .. 64
  <2>1. \A x \in Int : Clamped(x, -64, 64) \in -64 .. 64
    BY DEF Clamped
  <2> QED
    BY <2>1 DEF TableInUse, THRESHOLD, MEMORY
<1>3. t \in 0 .. gMaxTables[a.n] - 1
  BY <1>0 DEF TableInUse
<1> HIDE DEF b, kept, t
<1>4. kept(a.d) \in Int /\ kept(a.d1) \in Int /\ t \in Int
  BY <1>2, <1>3 DEF TableInUse
<1>5. /\ b \in [n : DOMAIN gMaxTables, t : Int, d : Int, d1 : Int]
      /\ b.n = a.n /\ b.t = t /\ b.d = kept(a.d) /\ b.d1 = kept(a.d1)
  BY <1>1, <1>4, TableReplaced DEF TableInUse
<1>6. TableInUse(b) /\ b.n = a.n /\ b.d \in -64 .. 64 /\ b.d1 \in -64 .. 64
  BY <1>2, <1>3, <1>5 DEF TableInUse
<1> QED
  BY <1>6 DEF b

\* AdaptDiscriminant's pointers (adapthuff.c:477, 499) are to rows there are: g6DeltaTable and
\* g12DeltaTable are not read past an end, however often a context adapts.
THEOREM DeltasAreThere ==
    ASSUME NEW a, TableInUse(a), a.n \in TwoDiscriminants
    PROVE  /\ \E k \in 1 .. Len(DeltaRows[a.n]) : m_pDelta(a.n, a.t) = DeltaRows[a.n][k]
           /\ \E k \in 1 .. Len(DeltaRows[a.n]) : m_pDelta1(a.n, a.t) = DeltaRows[a.n][k]
<1>1. CASE a.n = 6
  <2>1. Len(DeltaRows[6]) = 3
    BY DEF DeltaRows, TwoDiscriminants
  <2>2. gMaxTables[6] = 4 /\ a.t \in 0 .. 3
    BY <1>1 DEF gMaxTables, TableInUse
  <2> QED
    BY <1>1, <2>1, <2>2 DEF m_pDelta, m_pDelta1, TwoDiscriminants
<1>2. CASE a.n = 12
  <2>1. Len(DeltaRows[12]) = 4
    BY DEF DeltaRows, TwoDiscriminants
  <2>2. gMaxTables[12] = 5 /\ a.t \in 0 .. 4
    BY <1>2 DEF gMaxTables, TableInUse
  <2> QED
    BY <1>2, <2>1, <2>2 DEF m_pDelta, m_pDelta1, TwoDiscriminants
<1> QED
  BY <1>1, <1>2 DEF TwoDiscriminants

-----------------------------------------------------------------------------
(* Bit models.                                                             *)

\* A model never asks for more than 15 low bits nor for fewer than none, whatever the weighted
\* count is: segenc.c:862 and segdec.c assert the former.
THEOREM ModelStepStaysInRange ==
    ASSUME NEW iLM \in Int, NEW bits \in 0 .. 15, NEW state \in -8 .. 8
    PROVE  ModelStep(iLM, bits, state) \in (0 .. 15) \X (-8 .. 8)
<1> DEFINE iDelta == (iLM - MODELWEIGHT) \div 4
           down == state + Clamped(iDelta + 4, -16, 0)
           up == state + Clamped(iDelta - 4, 0, 15)
<1>1. iDelta \in Int
  BY DEF MODELWEIGHT
<1> HIDE DEF iDelta
<1>2. down \in Int /\ down <= 8
  <2>1. Clamped(iDelta + 4, -16, 0) \in -16 .. 0
    BY <1>1 DEF Clamped
  <2> QED
    BY <2>1
<1>3. up \in Int /\ up >= -8
  <2>1. Clamped(iDelta - 4, 0, 15) \in 0 .. 15
    BY <1>1 DEF Clamped
  <2> QED
    BY <2>1
<1>4. CASE iDelta <= -8 /\ down < -8
  <2>1. ModelStep(iLM, bits, state) = IF bits = 0 THEN <<0, -8>> ELSE <<bits - 1, 0>>
    BY <1>4, <1>1, <1>2 DEF ModelStep, iDelta, down, up
  <2> QED
    BY <2>1
<1>5. CASE iDelta <= -8 /\ down >= -8
  <2>1. ModelStep(iLM, bits, state) = <<bits, down>>
    BY <1>5, <1>1, <1>2 DEF ModelStep, iDelta, down, up
  <2> QED
    BY <1>2, <1>5, <2>1
<1>6. CASE iDelta >= 8 /\ up > 8
  <2>1. ModelStep(iLM, bits, state) = IF bits >= 15 THEN <<15, 8>> ELSE <<bits + 1, 0>>
    BY <1>6, <1>1, <1>3 DEF ModelStep, iDelta, down, up
  <2> QED
    BY <2>1
<1>7. CASE iDelta >= 8 /\ up <= 8
  <2>1. ModelStep(iLM, bits, state) = <<bits, up>>
    BY <1>7, <1>1, <1>3 DEF ModelStep, iDelta, down, up
  <2> QED
    BY <1>3, <1>7, <2>1
<1>8. CASE ~(iDelta <= -8) /\ ~(iDelta >= 8)
  <2>1. ModelStep(iLM, bits, state) = <<bits, state>>
    BY <1>8 DEF ModelStep, iDelta
  <2> QED
    BY <2>1
<1> QED
  BY <1>1, <1>2, <1>3, <1>4, <1>5, <1>6, <1>7, <1>8

-----------------------------------------------------------------------------
(* Orders of scan.                                                         *)

Places == 0 .. 15
IsScan(scan) == scan \in [order : [Places -> Places], total : [Places -> Int]]
Permutes(scan) == \A i \in Places : \E k \in Places : scan.order[k] = i

\* A coefficient that moves up changes places with its neighbour, so that every position is still
\* scanned: none of a block's coefficients is lost or read twice (segdec.c:936, segenc.c:395).
THEOREM PromotionKeepsAll ==
    ASSUME NEW scan, IsScan(scan), Permutes(scan), NEW k \in Places
    PROVE  LET s == Promoted(Counted(scan, k), k) IN IsScan(s) /\ Permutes(s)
<1> DEFINE c == Counted(scan, k)
           s == Promoted(c, k)
<1>1. IsScan(c) /\ c.order = scan.order
  BY DEF IsScan, Counted
<1>2. CASE k = 0 \/ c.total[k] <= c.total[k - 1]
  <2>1. s = c
    BY <1>2 DEF Promoted
  <2> QED
    BY <1>1, <2>1 DEF Permutes
<1>3. CASE ~(k = 0 \/ c.total[k] <= c.total[k - 1])
  <2>1. k - 1 \in Places
    BY <1>3 DEF Places
  <2>2. s = [order |-> [c.order EXCEPT ![k] = c.order[k - 1], ![k - 1] = c.order[k]],
             total |-> [c.total EXCEPT ![k] = c.total[k - 1], ![k - 1] = c.total[k]]]
    BY <1>3 DEF Promoted
  <2> HIDE DEF s, c
  <2>3. IsScan(s)
    BY <1>1, <2>1, <2>2 DEF IsScan
  <2>4. s.order = [c.order EXCEPT ![k] = c.order[k - 1], ![k - 1] = c.order[k]]
    BY <2>2
  <2>5. k # k - 1 /\ c.order \in [Places -> Places]
    BY <1>1 DEF Places, IsScan
  <2>6. s.order[k] = c.order[k - 1] /\ s.order[k - 1] = c.order[k]
    BY <2>1, <2>4, <2>5
  <2>7. \A j \in Places : j # k /\ j # k - 1 => s.order[j] = c.order[j]
    BY <2>4, <2>5
  <2>8. ASSUME NEW i \in Places
        PROVE  \E j \in Places : s.order[j] = i
    <3>1. PICK j \in Places : c.order[j] = i
      BY <1>1 DEF Permutes
    <3> QED
      BY <2>1, <2>6, <2>7, <3>1
  <2> QED
    BY <2>3, <2>8 DEF Permutes, s, c
<1> QED
  BY <1>2, <1>3

-----------------------------------------------------------------------------
(* Counters of patterns.                                                   *)

\* The low-pass pattern's counters stay in four bits, whatever patterns come (segdec.c:878).
THEOREM CBPCountStaysInRange ==
    ASSUME NEW count \in -8 .. 7, NEW hit \in BOOLEAN
    PROVE  CBPCount(count, hit) \in -8 .. 7
BY DEF CBPCount, Clamped

IsCBPModel(m) == /\ m \in [m_iCount0 : [1 .. 2 -> -16 .. 15], m_iCount1 : [1 .. 2 -> -16 .. 15],
                           m_iState : [1 .. 2 -> 0 .. 2]]

\* The high-pass pattern's model stays in its ranges however many blocks have bits, and its state is
\* 0, prediction from the neighbours, exactly when neither counter is below zero
\* (strPredQuantDec.c:378).
THEOREM CBPModelStaysInRange ==
    ASSUME NEW m, IsCBPModel(m), NEW c \in 1 .. 2, NEW iNOrig \in 0 .. 16
    PROVE  LET n == UpdateCBPModel(m, c, iNOrig)
           IN  IsCBPModel(n) /\ (n.m_iState[c] = 0 <=> n.m_iCount0[c] >= 0 /\ n.m_iCount1[c] >= 0)
<1> DEFINE n == UpdateCBPModel(m, c, iNOrig)
           count0 == Clamped(m.m_iCount0[c] + iNOrig - AVG_NDIFF, -16, 15)
           count1 == Clamped(m.m_iCount1[c] + 16 - iNOrig - AVG_NDIFF, -16, 15)
           state == IF count0 >= 0 /\ count1 >= 0 THEN 0 ELSE IF count0 < 0 /\ count0 < count1 THEN 1 ELSE 2
<1>1. count0 \in -16 .. 15 /\ count1 \in -16 .. 15
  <2>1. m.m_iCount0[c] \in Int /\ m.m_iCount1[c] \in Int
    BY DEF IsCBPModel
  <2>2. \A x \in Int : Clamped(x, -16, 15) \in -16 .. 15
    BY DEF Clamped
  <2> QED
    BY <2>1, <2>2 DEF AVG_NDIFF
<1>2. n = [m_iCount0 |-> [m.m_iCount0 EXCEPT ![c] = count0], m_iCount1 |-> [m.m_iCount1 EXCEPT ![c] = count1],
           m_iState |-> [m.m_iState EXCEPT ![c] = state]]
  BY DEF UpdateCBPModel
<1> HIDE DEF n, count0, count1
<1>3. state \in 0 .. 2 /\ (state = 0 <=> count0 >= 0 /\ count1 >= 0)
  BY <1>1
<1> HIDE DEF state
<1>4. IsCBPModel(n)
  BY <1>1, <1>2, <1>3 DEF IsCBPModel
<1>5. n.m_iState[c] = state /\ n.m_iCount0[c] = count0 /\ n.m_iCount1[c] = count1
  BY <1>2 DEF IsCBPModel
<1> QED
  BY <1>3, <1>4, <1>5 DEF n

-----------------------------------------------------------------------------
(* Prediction.                                                             *)

Formats == {"Y_ONLY", "YUV_420", "YUV_422", "YUV_444", "CMYK", "NCOMPONENT"}

IsParameter(p) == p \in [cf : Formats, channels : Nat]

\* What is kept of a macroblock's channel.
IsEntry(p, c, e) ==
    /\ e.iDC \in Int
    /\ \A i \in 1 .. (IF ~Subsample(p, c) THEN 6 ELSE IF p.cf = "YUV_420" THEN 2 ELSE 5) : e.iAD[i] \in Int

\* The neighbours that are there have been coded; of the others nothing is known.
IsPlace(p, at) ==
    /\ at.m_bCtxLeft \in BOOLEAN /\ at.m_bCtxTop \in BOOLEAN
    /\ ~at.m_bCtxTop => \A c \in Channels(p) : IsEntry(p, c, at.top[c])
    /\ ~at.m_bCtxLeft => \A c \in Channels(p) : IsEntry(p, c, at.left[c])

\* A macroblock's DC and low-pass coefficients.
IsLP(p, lp) ==
    /\ lp = [c \in Channels(p) |-> lp[c]]
    /\ \A c \in Channels(p) : lp[c] \in [0 .. BlockCount(p, c) - 1 -> Int]

LEMMA DirectionCases ==
    ASSUME NEW h, NEW v
    PROVE  Direction(h, v) \in {0, 1, 2}
BY Zenon DEF Direction

\* A mode that predicts from a neighbour is chosen only where that neighbour is.
LEMMA ModeHasNeighbour ==
    ASSUME NEW p, NEW at, at.m_bCtxLeft \in BOOLEAN, at.m_bCtxTop \in BOOLEAN
    PROVE  LET mode == DCPredMode(p, at)
           IN  /\ mode \in 0 .. 3
               /\ mode \in {1, 2} => ~at.m_bCtxTop
               /\ mode \in {0, 2} => ~at.m_bCtxLeft
<1>1. CASE at.m_bCtxLeft /\ at.m_bCtxTop
  <2>1. DCPredMode(p, at) = 3
    BY <1>1, Zenon DEF DCPredMode
  <2> QED
    BY <2>1
<1>2. CASE at.m_bCtxLeft /\ ~at.m_bCtxTop
  <2>1. DCPredMode(p, at) = 1
    BY <1>2, Zenon DEF DCPredMode
  <2> QED
    BY <2>1, <1>2
<1>3. CASE ~at.m_bCtxLeft /\ at.m_bCtxTop
  <2>1. DCPredMode(p, at) = 0
    BY <1>3, Zenon DEF DCPredMode
  <2> QED
    BY <2>1, <1>3
<1>4. CASE ~at.m_bCtxLeft /\ ~at.m_bCtxTop
  <2>1. \E h, v : DCPredMode(p, at) = Direction(h, v)
    BY <1>4, Zenon DEF DCPredMode
  <2> QED
    BY <2>1, <1>4, DirectionCases
<1> QED
  BY <1>1, <1>2, <1>3, <1>4

LEMMA ADModeIsDCMode ==
    ASSUME NEW mode, NEW q, NEW at
    PROVE  ADPredMode(mode, q, at) \in {mode, 2} \cap {0, 1, 2}
BY Zenon DEF ADPredMode

\* What predicts a coefficient is an integer, though of a neighbour that is not there nothing is known:
\* updatePredInfo keeps as many low-pass coefficients as the next macroblocks look at.
LEMMA PredictorsAreThere ==
    ASSUME NEW p, IsParameter(p), NEW c \in Channels(p), NEW q, NEW at, IsPlace(p, at)
    PROVE  \A i \in Int : Ref(Predictors(p, c, q, at), i) \in Int
<1> DEFINE dcMode == DCPredMode(p, at)
           adMode == ADPredMode(dcMode, q, at)
           r == Predictors(p, c, q, at)
<1>1. /\ dcMode \in 0 .. 3
      /\ dcMode \in {1, 2} => IsEntry(p, c, at.top[c])
      /\ dcMode \in {0, 2} => IsEntry(p, c, at.left[c])
  BY ModeHasNeighbour DEF IsPlace
<1>2. adMode \in {dcMode, 2} \cap {0, 1, 2}
  BY ADModeIsDCMode
<1>3. r.dc = DCPredictor(p, c, dcMode, at) /\ r.ad = ADPredictor(p, c, adMode, at)
  BY Zenon DEF Predictors
<1> HIDE DEF dcMode, adMode, r
<1>4. DCPredictor(p, c, dcMode, at) \in Int
  <2>1. CASE dcMode = 0
    BY <1>1, <2>1 DEF DCPredictor, IsEntry
  <2>2. CASE dcMode = 1
    BY <1>1, <2>2 DEF DCPredictor, IsEntry
  <2>3. CASE dcMode = 2
    <3>1. DCPredictor(p, c, 2, at) =
              (at.left[c].iDC + at.top[c].iDC + (IF Subsample(p, c) THEN 1 ELSE 0)) \div 2
      BY DEF DCPredictor
    <3>2. at.left[c].iDC \in Int /\ at.top[c].iDC \in Int
      BY <1>1, <2>3 DEF IsEntry
    <3> QED
      BY <2>3, <3>1, <3>2
  <2>4. CASE dcMode = 3
    BY <2>4 DEF DCPredictor
  <2> QED
    BY <1>1, <2>1, <2>2, <2>3, <2>4
<1>5. \A i \in DOMAIN r.ad : r.ad[i] \in Int
  <2> DEFINE top == at.top[c].iAD
             left == at.left[c].iAD
             ad == ADPredictor(p, c, adMode, at)
  <2>1. CASE adMode = 2
    <3>1. ad = [i \in {} |-> 0]
      BY <2>1 DEF ADPredictor
    <3> QED
      BY <1>3, <3>1
  <2>2. CASE adMode = 1
    <3>1. IsEntry(p, c, at.top[c])
      BY <1>1, <1>2, <2>2
    <3>2. CASE ~Subsample(p, c)
      <4>1. ad = [i \in {4, 8, 12} |-> top[3 + (i \div 4)]]
        BY <2>2, <3>2 DEF ADPredictor
      <4> QED
        BY <1>3, <3>1, <3>2, <4>1 DEF IsEntry
    <3>3. CASE Subsample(p, c) /\ p.cf = "YUV_420"
      <4>1. ad = [i \in {2} |-> top[2]]
        BY <2>2, <3>3 DEF ADPredictor
      <4> QED
        BY <1>3, <3>1, <3>3, <4>1 DEF IsEntry
    <3>4. CASE Subsample(p, c) /\ p.cf = "YUV_422"
      <4>1. ad = [i \in {2, 4} |-> IF i = 4 THEN top[5] ELSE top[4]]
        BY <2>2, <3>4 DEF ADPredictor
      <4> QED
        BY <1>3, <3>1, <3>4, <4>1 DEF IsEntry
    <3> QED
      BY <3>2, <3>3, <3>4 DEF Subsample, Subsampled
  <2>3. CASE adMode = 0
    <3>1. IsEntry(p, c, at.left[c])
      BY <1>1, <1>2, <2>3
    <3>2. CASE ~Subsample(p, c)
      <4>1. ad = [i \in {1, 2, 3} |-> left[i]]
        BY <2>3, <3>2 DEF ADPredictor
      <4> QED
        BY <1>3, <3>1, <3>2, <4>1 DEF IsEntry
    <3>3. CASE Subsample(p, c) /\ p.cf = "YUV_420"
      <4>1. ad = [i \in {1} |-> left[1]]
        BY <2>3, <3>3 DEF ADPredictor
      <4> QED
        BY <1>3, <3>1, <3>3, <4>1 DEF IsEntry
    <3>4. CASE Subsample(p, c) /\ p.cf = "YUV_422"
      <4>1. ad = [i \in {1, 4, 5} |-> IF i = 4 THEN left[5] ELSE IF i = 5 THEN left[3] ELSE left[1]]
        BY <2>3, <3>4 DEF ADPredictor
      <4> QED
        BY <1>3, <3>1, <3>4, <4>1 DEF IsEntry
    <3> QED
      BY <3>2, <3>3, <3>4 DEF Subsample, Subsampled
  <2> QED
    BY <1>2, <2>1, <2>2, <2>3
<1> QED
  BY <1>3, <1>4, <1>5 DEF Ref, r

LEMMA ChannelSize ==
    ASSUME NEW p, IsParameter(p), NEW c \in Channels(p)
    PROVE  /\ BlockCount(p, c) \in {4, 8, 16}
           /\ p.cf = "YUV_422" /\ c > 0 => BlockCount(p, c) = 8
BY DEF BlockCount, Subsample, Subsampled, Channels, IsParameter

\* A channel none of whose coefficients is predicted from another of it: x what was coded, r the
\* predictors, d what was sent, s what is decoded, n the number of coefficients.
LEMMA PlainUndone ==
    ASSUME NEW n \in Nat, NEW x \in [0 .. n - 1 -> Int], NEW r, \A i \in 0 .. n - 1 : Ref(r, i) \in Int, NEW d,
           \A i \in 0 .. n - 1 : d[i] = x[i] - Ref(r, i) - 0,
           NEW s, s = [i \in 0 .. n - 1 |-> s[i]], \A i \in 0 .. n - 1 : s[i] = d[i] + Ref(r, i)
    PROVE  s = x
<1>1. \A i \in 0 .. n - 1 : d[i] = x[i] - Ref(r, i) - 0 /\ x[i] \in Int /\ Ref(r, i) \in Int
  OBVIOUS
<1>2. \A i \in 0 .. n - 1 : s[i] = x[i]
  BY <1>1
<1>3. x = [i \in 0 .. n - 1 |-> x[i]]
  OBVIOUS
<1> QED
  BY <1>2, <1>3

\* The decoder's prediction undoes the encoder's for every macroblock, whatever is coded around it.
THEOREM PredictionUndone ==
    ASSUME NEW p, IsParameter(p), NEW lp, IsLP(p, lp), NEW q, NEW at, IsPlace(p, at)
    PROVE  predDCACDec(p, predLP(p, lp, q, at), q, at) = lp
<1> DEFINE diff == predLP(p, lp, q, at)
           dec == predDCACDec(p, diff, q, at)
<1>1. ASSUME NEW c \in Channels(p)
      PROVE  dec[c] = lp[c]
  <2> DEFINE r == Predictors(p, c, q, at)
             n == BlockCount(p, c)
             sum == [i \in DOMAIN diff[c] |-> diff[c][i] + Ref(r, i)]
  <2>1. \A i \in Int : Ref(r, i) \in Int
    BY PredictorsAreThere
  <2>2. n \in Nat /\ lp[c] \in [0 .. n - 1 -> Int]
    BY ChannelSize DEF IsLP
  <2>3. r.chained \in BOOLEAN /\ (r.chained => n > 6)
    <3>1. r.chained = Chained(p, c, DCPredMode(p, at), ADPredMode(DCPredMode(p, at), q, at))
      BY Zenon DEF Predictors
    <3> QED
      BY <3>1, ChannelSize DEF Chained
  <2>4. DOMAIN lp[c] = 0 .. n - 1
    BY <2>2
  <2>5. diff[c] = [i \in DOMAIN lp[c] |-> lp[c][i] - Ref(r, i) - (IF r.chained /\ i = 6 THEN lp[c][2] ELSE 0)]
    BY Zenon DEF predLP
  <2>6. dec[c] = IF r.chained THEN [sum EXCEPT ![6] = @ + sum[2]] ELSE sum
    BY DEF predDCACDec
  <2> HIDE DEF r, n, diff, dec
  <2>7. /\ sum = [i \in 0 .. n - 1 |-> sum[i]]
        /\ \A i \in 0 .. n - 1 : sum[i] = diff[c][i] + Ref(r, i)
    BY <2>4, <2>5
  <2>8. \A i \in 0 .. n - 1 : Ref(r, i) \in Int
    BY <2>1
  <2> HIDE DEF sum
  <2>9. CASE ~r.chained
    <3>1. \A i \in 0 .. n - 1 : diff[c][i] = lp[c][i] - Ref(r, i) - 0
      BY <2>4, <2>5, <2>9
    <3>2. sum = lp[c]
      BY <2>2, <2>7, <2>8, <3>1, PlainUndone
    <3> QED
      BY <2>6, <2>9, <3>2
  <2>10. CASE r.chained
    <3>1. \A i \in 0 .. n - 1 : diff[c][i] = lp[c][i] - Ref(r, i) - (IF i = 6 THEN lp[c][2] ELSE 0)
      BY <2>4, <2>5, <2>10
    <3>2. 2 \in 0 .. n - 1 /\ 6 \in 0 .. n - 1
      BY <2>2, <2>3, <2>10
    <3>3. \A i \in 0 .. n - 1 : lp[c][i] \in Int
      BY <2>2
    <3>4. \A i \in 0 .. n - 1 : i # 6 => sum[i] = lp[c][i]
      BY <2>7, <2>8, <3>1, <3>3
    <3>5. sum[6] + sum[2] = lp[c][6]
      <4>1. sum[2] = lp[c][2] /\ sum[6] = diff[c][6] + Ref(r, 6) /\ diff[c][6] = lp[c][6] - Ref(r, 6) - lp[c][2]
        BY <2>7, <3>1, <3>2, <3>4
      <4>2. Ref(r, 6) \in Int /\ lp[c][6] \in Int /\ lp[c][2] \in Int
        BY <2>8, <3>2, <3>3
      <4> QED
        BY <4>1, <4>2
    <3>6. [sum EXCEPT ![6] = @ + sum[2]] = [i \in 0 .. n - 1 |-> IF i = 6 THEN sum[6] + sum[2] ELSE sum[i]]
      BY <2>7
    <3>7. [sum EXCEPT ![6] = @ + sum[2]] = [i \in 0 .. n - 1 |-> lp[c][i]]
      BY <3>4, <3>5, <3>6
    <3> QED
      BY <2>2, <2>6, <2>10, <3>7
  <2> QED
    BY <2>3, <2>9, <2>10
<1>2. dec = [c \in Channels(p) |-> dec[c]]
  BY DEF predDCACDec
<1> HIDE DEF dec
<1>3. dec = lp
  BY <1>1, <1>2, Zenon DEF IsLP
<1> QED
  BY <1>3 DEF dec
-----------------------------------------------------------------------------
(* What the decoder applies undoes what the encoder applied, for every     *)
(* integer: the operators are liftings, so they lose nothing, whatever     *)
(* their rounding.  A proof names the components of its argument and       *)
(* expands both sides, or cites the theorem on the operator inside.        *)

Pair == Int \X Int
Quad == Int \X Int \X Int \X Int

LEMMA PairParts ==
    ASSUME NEW r \in Pair
    PROVE  r = <<r[1], r[2]>> /\ r[1] \in Int /\ r[2] \in Int
BY DEF Pair

LEMMA QuadParts ==
    ASSUME NEW q \in Quad
    PROVE  /\ q = <<q[1], q[2], q[3], q[4]>>
           /\ q[1] \in Int /\ q[2] \in Int /\ q[3] \in Int /\ q[4] \in Int
BY DEF Quad

LEMMA MakeQuad ==
    ASSUME NEW a \in Int, NEW b \in Int, NEW c \in Int, NEW d \in Int
    PROVE  <<a, b, c, d>> \in Quad
BY DEF Quad

\* The butterfly of four is its own inverse, rounding down or up.
THEOREM DnUndone ==
    ASSUME NEW q \in Quad
    PROVE  strDCT2x2dn(q) \in Quad /\ strDCT2x2dn(strDCT2x2dn(q)) = q
<1>1. PICK a, b, c, d \in Int : q = <<a, b, c, d>>
  BY QuadParts
<1>2. strDCT2x2dn(<<a, b, c, d>>) \in Quad
  BY DEF Quad, strDCT2x2dn, DCT2x2
<1>3. strDCT2x2dn(strDCT2x2dn(<<a, b, c, d>>)) = <<a, b, c, d>>
  BY DEF strDCT2x2dn, DCT2x2
<1> QED
  BY <1>1, <1>2, <1>3

\* strDCT2x2up too.
THEOREM UpUndone ==
    ASSUME NEW q \in Quad
    PROVE  strDCT2x2up(q) \in Quad /\ strDCT2x2up(strDCT2x2up(q)) = q
<1>1. PICK a, b, c, d \in Int : q = <<a, b, c, d>>
  BY QuadParts
<1>2. strDCT2x2up(<<a, b, c, d>>) \in Quad
  BY DEF Quad, strDCT2x2up, DCT2x2
<1>3. strDCT2x2up(strDCT2x2up(<<a, b, c, d>>)) = <<a, b, c, d>>
  BY DEF strDCT2x2up, DCT2x2
<1> QED
  BY <1>1, <1>2, <1>3

\* The two butterflies of the overlap filters undo one another.
THEOREM LiftUndone ==
    ASSUME NEW q \in Quad
    PROVE  Lift(q) \in Quad /\ Unlift(Lift(q)) = q
<1>1. PICK a, b, c, d \in Int : q = <<a, b, c, d>>
  BY QuadParts
<1>2. Lift(<<a, b, c, d>>) \in Quad
  BY DEF Quad, Lift
<1>3. Unlift(Lift(<<a, b, c, d>>)) = <<a, b, c, d>>
  BY DEF Lift, Unlift
<1> QED
  BY <1>1, <1>2, <1>3

\* ...in both orders.
THEOREM UnliftUndone ==
    ASSUME NEW q \in Quad
    PROVE  Unlift(q) \in Quad /\ Lift(Unlift(q)) = q
<1>1. PICK a, b, c, d \in Int : q = <<a, b, c, d>>
  BY QuadParts
<1>2. Unlift(<<a, b, c, d>>) \in Quad
  BY DEF Quad, Unlift
<1>3. Lift(Unlift(<<a, b, c, d>>)) = <<a, b, c, d>>
  BY DEF Lift, Unlift
<1> QED
  BY <1>1, <1>2, <1>3

\* The decoder's rotations undo the encoder's.
THEOREM Rotate1Undone ==
    ASSUME NEW a \in Int, NEW b \in Int
    PROVE  /\ ROTATE1(a, b) \in Pair
           /\ IROTATE1(ROTATE1(a, b)[1], ROTATE1(a, b)[2]) = <<a, b>>
<1>1. ROTATE1(a, b) \in Pair
  BY DEF Pair, ROTATE1
<1>2. IROTATE1(ROTATE1(a, b)[1], ROTATE1(a, b)[2]) = <<a, b>>
  BY DEF ROTATE1, IROTATE1
<1> QED
  BY <1>1, <1>2

\* The decoder undoes the 1D transform of 4:2:2 chrominance.
THEOREM HTUndone ==
    ASSUME NEW b \in Int, NEW a \in Int
    PROVE  /\ ForwardHT(b, a) \in Pair
           /\ InverseHT(ForwardHT(b, a)[1], ForwardHT(b, a)[2]) = <<b, a>>
<1>1. ForwardHT(b, a) \in Pair
  BY DEF Pair, ForwardHT
<1>2. InverseHT(ForwardHT(b, a)[1], ForwardHT(b, a)[2]) = <<b, a>>
  BY DEF ForwardHT, InverseHT
<1> QED
  BY <1>1, <1>2

\* ROTATE2 too.
THEOREM Rotate2Undone ==
    ASSUME NEW a \in Int, NEW b \in Int
    PROVE  /\ ROTATE2(a, b) \in Pair
           /\ IROTATE2(ROTATE2(a, b)[1], ROTATE2(a, b)[2]) = <<a, b>>
<1>1. ROTATE2(a, b) \in Pair
  BY DEF Pair, ROTATE2
<1>2. IROTATE2(ROTATE2(a, b)[1], ROTATE2(a, b)[2]) = <<a, b>>
  BY DEF ROTATE2, IROTATE2
<1> QED
  BY <1>1, <1>2

\* The Hadamard transform with scaling of four coefficients is undone.
THEOREM HSTUndone ==
    ASSUME NEW q \in Quad
    PROVE  strHSTenc(q) \in Quad /\ strHSTdec(strHSTenc(q)) = q
<1>1. PICK a, b, c, d \in Int : q = <<a, b, c, d>>
  BY QuadParts
<1>2. strHSTenc(<<a, b, c, d>>) \in Quad
  BY DEF Quad, strHSTenc
<1>3. strHSTdec(strHSTenc(<<a, b, c, d>>)) = <<a, b, c, d>>
  BY DEF strHSTenc, strHSTdec
<1> QED
  BY <1>1, <1>2, <1>3

\* The scaling of a pair is undone by the decoder's alternate operator.
THEOREM HST1Undone ==
    ASSUME NEW a \in Int, NEW b \in Int
    PROVE  /\ strHSTenc1(a, b) \in Pair
           /\ strHSTdec1_alternate(strHSTenc1(a, b)[1], strHSTenc1(a, b)[2]) = <<a, b>>
<1>1. strHSTenc1(a, b) \in Pair
  BY DEF Pair, strHSTenc1
<1>2. strHSTdec1_alternate(strHSTenc1(a, b)[1], strHSTenc1(a, b)[2]) = <<a, b>>
  BY DEF strHSTenc1, strHSTdec1_alternate
<1> QED
  BY <1>1, <1>2

\* The overlap filter of two coefficients is undone.
THEOREM Pre2Undone ==
    ASSUME NEW a \in Int, NEW b \in Int
    PROVE  /\ strPre2(a, b) \in Pair
           /\ strPost2_alternate(strPre2(a, b)[1], strPre2(a, b)[2]) = <<a, b>>
<1>1. strPre2(a, b) \in Pair
  BY DEF Pair, strPre2
<1>2. strPost2_alternate(strPre2(a, b)[1], strPre2(a, b)[2]) = <<a, b>>
  BY DEF strPre2, strPost2_alternate
<1> QED
  BY <1>1, <1>2

\* The rotation by pi/8 of one coordinate is undone.
THEOREM OddUndone ==
    ASSUME NEW q \in Quad
    PROVE  fwdOdd(q) \in Quad /\ invOdd(fwdOdd(q)) = q
<1>1. PICK a, b, c, d \in Int : q = <<a, b, c, d>>
  BY QuadParts
<1> DEFINE e == c + (b - c + 1) \div 2
           f == (a + d + 1) \div 2 - d
<1>2. PICK s, t \in Int : /\ ROTATE2(a + d, b - c) = <<s, t>>
                          /\ IROTATE2(s, t) = <<a + d, b - c>>
  <2>1. a + d \in Int /\ b - c \in Int
    OBVIOUS
  <2> QED
    BY <2>1, Rotate2Undone, PairParts
<1>3. PICK u, v \in Int : ROTATE2(e, f) = <<u, v>> /\ IROTATE2(u, v) = <<e, f>>
  <2>1. e \in Int /\ f \in Int
    OBVIOUS
  <2> QED
    BY <2>1, Rotate2Undone, PairParts
<1> DEFINE z == v + t \div 2
           y == u - (s + 1) \div 2
<1>4. fwdOdd(<<a, b, c, d>>) = <<s + y, t - z, y, z>>
  BY <1>2, <1>3 DEF fwdOdd
<1>5. <<s + y, t - z, y, z>> \in Quad
  BY DEF Quad
<1>6. invOdd(<<s + y, t - z, y, z>>) = <<a, b, c, d>>
  <2>1. /\ (t - z) + z = t
        /\ (s + y) - y = s
        /\ y + (s + 1) \div 2 = u
        /\ z - t \div 2 = v
    OBVIOUS
  <2> HIDE DEF y, z
  <2>2. invOdd(<<s + y, t - z, y, z>>) =
          LET ab == IROTATE2(s, t)
              cd == IROTATE2(u, v)
              c1 == cd[1] - (ab[2] + 1) \div 2
              d1 == (ab[1] + 1) \div 2 - cd[2]
          IN  <<ab[1] - d1, ab[2] + c1, c1, d1>>
    BY <2>1 DEF invOdd
  <2> QED
    BY <2>2, <1>2, <1>3
<1> QED
  BY <1>1, <1>4, <1>5, <1>6

\* The scaling of a pair at an edge is undone.
THEOREM EdgeUndone ==
    ASSUME NEW a \in Int, NEW b \in Int
    PROVE  /\ strHSTenc1_edge(a, b) \in Pair
           /\ strHSTdec1_edge(strHSTenc1_edge(a, b)[1], strHSTenc1_edge(a, b)[2]) = <<a, b>>
<1> DEFINE e == (a + b) \div 2 - b
           f == a + b - (e * 3 + 4) \div 8
<1>1. e \in Int /\ f \in Int
  OBVIOUS
<1>2. PICK x, y \in Int : strHSTenc1(f, e) = <<x, y>> /\ strHSTdec1_alternate(x, y) = <<f, e>>
  BY <1>1, HST1Undone, PairParts
<1>3. strHSTenc1_edge(a, b) = <<x, y>>
  BY <1>2 DEF strHSTenc1_edge
<1>4. strHSTdec1_edge(x, y) = <<a, b>>
  BY <1>2 DEF strHSTdec1_edge
<1> QED
  BY <1>3, <1>4 DEF Pair

\* The overlap filter of two by two coefficients is undone.
THEOREM Pre2x2Undone ==
    ASSUME NEW q \in Quad
    PROVE  strPre2x2(q) \in Quad /\ strPost2x2_alternate(strPre2x2(q)) = q
<1>0. Lift(q) \in Quad /\ Unlift(Lift(q)) = q
  BY LiftUndone
<1>1. PICK a, b, c, d \in Int : Lift(q) = <<a, b, c, d>>
  BY <1>0, QuadParts
<1>2. PICK s, t \in Int : strPre2(a, b) = <<s, t>> /\ strPost2_alternate(s, t) = <<a, b>>
  BY Pre2Undone, PairParts
<1>3. Unlift(<<s, t, c, d>>) \in Quad /\ Lift(Unlift(<<s, t, c, d>>)) = <<s, t, c, d>>
  BY UnliftUndone, MakeQuad
<1>4. strPre2x2(q) = Unlift(<<s, t, c, d>>)
  BY <1>1, <1>2 DEF strPre2x2
<1>5. strPost2x2_alternate(Unlift(<<s, t, c, d>>)) = q
  BY <1>0, <1>1, <1>2, <1>3 DEF strPost2x2_alternate
<1> QED
  BY <1>3, <1>4, <1>5

\* The overlap filter of four coefficients in a row or a column is undone.
THEOREM Pre4Undone ==
    ASSUME NEW q \in Quad
    PROVE  strPre4(q) \in Quad /\ strPost4_alternate(strPre4(q)) = q
<1>0. Lift(q) \in Quad /\ Unlift(Lift(q)) = q
  BY LiftUndone
<1>1. PICK a, b, c, d \in Int : Lift(q) = <<a, b, c, d>>
  BY <1>0, QuadParts
<1>2. PICK m, n \in Int : ROTATE1(c, d) = <<m, n>> /\ IROTATE1(m, n) = <<c, d>>
  BY Rotate1Undone, PairParts
<1>3. PICK s, t \in Int : strHSTenc1_edge(a, n) = <<s, t>> /\ strHSTdec1_edge(s, t) = <<a, n>>
  BY EdgeUndone, PairParts
<1>4. PICK u, v \in Int : strHSTenc1_edge(b, m) = <<u, v>> /\ strHSTdec1_edge(u, v) = <<b, m>>
  BY EdgeUndone, PairParts
<1>5. Unlift(<<s, u, v, t>>) \in Quad /\ Lift(Unlift(<<s, u, v, t>>)) = <<s, u, v, t>>
  BY UnliftUndone, MakeQuad
<1>6. strPre4(q) = Unlift(<<s, u, v, t>>)
  BY <1>1, <1>2, <1>3, <1>4 DEF strPre4
<1>7. strPost4_alternate(Unlift(<<s, u, v, t>>)) = q
  BY <1>0, <1>1, <1>2, <1>3, <1>4, <1>5 DEF strPost4_alternate
<1> QED
  BY <1>5, <1>6, <1>7

\* The rotation by pi/4 between butterflies is undone, whatever it rounds by.
THEOREM OddsUndone ==
    ASSUME NEW q \in Quad, NEW r1 \in Int, NEW r2 \in Int, NEW r3 \in Int
    PROVE  /\ OddsForward(q, r1, r2, r3) \in Quad
           /\ OddsBack(OddsForward(q, r1, r2, r3), r1, r2, r3) = q
<1>1. PICK a, b, c, d \in Int : q = <<a, b, c, d>>
  BY QuadParts
<1> DEFINE d0 == d + a
           c0 == c - b
           a1 == a - d0 \div 2
           b1 == b + c0 \div 2
           a2 == a1 + (b1 * 3 + r1) \div 8
           b2 == b1 - (a2 * 3 + r2) \div 4
           A  == a2 + (b2 * 3 + r3) \div 8 + d0 \div 2
           B  == b2 - c0 \div 2
<1>2. OddsForward(q, r1, r2, r3) = <<A, B, c0 + B, d0 - A>>
  BY <1>1 DEF OddsForward
<1>3. /\ d0 \in Int /\ c0 \in Int /\ a1 \in Int /\ b1 \in Int
      /\ a2 \in Int /\ b2 \in Int /\ A \in Int /\ B \in Int
  OBVIOUS
<1>4. /\ a1 + d0 \div 2 = a /\ b1 - c0 \div 2 = b
      /\ d0 - a = d /\ c0 + b = c
  OBVIOUS
<1>5. a2 - (b1 * 3 + r1) \div 8 = a1 /\ b2 + (a2 * 3 + r2) \div 4 = b1
  <2> HIDE DEF a1, b1
  <2> QED
    BY <1>3
<1>6. A - d0 \div 2 - (b2 * 3 + r3) \div 8 = a2 /\ B + c0 \div 2 = b2
  <2> HIDE DEF a2, b2, c0, d0
  <2> QED
    BY <1>3
<1> HIDE DEF a1, b1, a2, b2, c0, d0, A, B
<1>7. (d0 - A) + A = d0 /\ (c0 + B) - B = c0
  BY <1>3
<1>8. OddsBack(<<A, B, c0 + B, d0 - A>>, r1, r2, r3) = <<a, b, c, d>>
  BY <1>4, <1>5, <1>6, <1>7 DEF OddsBack
<1>9. <<A, B, c0 + B, d0 - A>> \in Quad
  BY <1>3 DEF Quad
<1> QED
  BY <1>1, <1>2, <1>8, <1>9

LEMMA FlipTwice ==
    ASSUME NEW q \in Quad
    PROVE  FlipInner(q) \in Quad /\ FlipInner(FlipInner(q)) = q
<1>1. PICK a, b, c, d \in Int : q = <<a, b, c, d>>
  BY QuadParts
<1>2. <<a, -b, -c, d>> \in Quad /\ -(-b) = b /\ -(-c) = c
  BY DEF Quad
<1> QED
  BY <1>1, <1>2 DEF FlipInner

\* The rotation of both coordinates, of the transform and of the overlap filters, is undone.
THEOREM OddOddUndone ==
    ASSUME NEW q \in Quad
    PROVE  /\ fwdOddOdd(q) \in Quad
           /\ invOddOdd(fwdOddOdd(q)) = q
           /\ fwdOddOddPre(q) \in Quad
           /\ invOddOddPost(fwdOddOddPre(q)) = q
<1>1. FlipInner(q) \in Quad /\ FlipInner(FlipInner(q)) = q
  BY FlipTwice
<1>2. /\ fwdOddOdd(q) \in Quad
      /\ OddsBack(fwdOddOdd(q), 4, 3, 3) = FlipInner(q)
  BY <1>1, OddsUndone DEF fwdOddOdd
<1>3. fwdOddOddPre(q) \in Quad /\ OddsBack(fwdOddOddPre(q), 4, 2, 6) = q
  BY OddsUndone DEF fwdOddOddPre
<1> QED
  BY <1>1, <1>2, <1>3 DEF invOddOdd, invOddOddPost

-----------------------------------------------------------------------------
Matrix == Quad \X Quad \X Quad \X Quad

LEMMA MatrixRows ==
    ASSUME NEW m \in Matrix
    PROVE  /\ m = <<m[1], m[2], m[3], m[4]>>
           /\ m[1] \in Quad /\ m[2] \in Quad /\ m[3] \in Quad /\ m[4] \in Quad
BY DEF Matrix

LEMMA MakeMatrix ==
    ASSUME NEW p \in Quad, NEW q \in Quad, NEW r \in Quad, NEW s \in Quad
    PROVE  <<p, q, r, s>> \in Matrix
BY DEF Matrix

LEMMA Columns ==
    ASSUME NEW m \in Matrix
    PROVE  /\ Column(m, 1) \in Quad /\ Column(m, 2) \in Quad
           /\ Column(m, 3) \in Quad /\ Column(m, 4) \in Quad
           /\ FromColumns(Column(m, 1), Column(m, 2), Column(m, 3), Column(m, 4)) = m
<1>1. /\ m = <<m[1], m[2], m[3], m[4]>>
      /\ m[1] \in Quad /\ m[2] \in Quad /\ m[3] \in Quad /\ m[4] \in Quad
  BY MatrixRows
<1>2. \A i \in 1..4 : /\ m[i] = <<m[i][1], m[i][2], m[i][3], m[i][4]>>
                      /\ m[i][1] \in Int /\ m[i][2] \in Int /\ m[i][3] \in Int /\ m[i][4] \in Int
  BY <1>1, QuadParts
<1>3. \A j \in 1..4 : Column(m, j) \in Quad
  <2>1. \A i, j \in 1..4 : m[i][j] \in Int
    BY <1>2
  <2> TAKE j \in 1..4
  <2>2. m[1][j] \in Int /\ m[2][j] \in Int /\ m[3][j] \in Int /\ m[4][j] \in Int
    BY <2>1
  <2> QED
    BY <2>2, MakeQuad DEF Column
<1>4. FromColumns(Column(m, 1), Column(m, 2), Column(m, 3), Column(m, 4)) = m
  BY <1>1, <1>2 DEF Column, FromColumns
<1> QED
  BY <1>3, <1>4

LEMMA ColumnsBack ==
    ASSUME NEW p \in Quad, NEW q \in Quad, NEW r \in Quad, NEW s \in Quad
    PROVE  /\ FromColumns(p, q, r, s) \in Matrix
           /\ Column(FromColumns(p, q, r, s), 1) = p
           /\ Column(FromColumns(p, q, r, s), 2) = q
           /\ Column(FromColumns(p, q, r, s), 3) = r
           /\ Column(FromColumns(p, q, r, s), 4) = s
<1>1. \A t \in Quad : /\ t = <<t[1], t[2], t[3], t[4]>>
                      /\ t[1] \in Int /\ t[2] \in Int /\ t[3] \in Int /\ t[4] \in Int
  BY QuadParts
<1>2. FromColumns(p, q, r, s) \in Matrix
  BY <1>1, MakeQuad, MakeMatrix DEF FromColumns
<1>3. /\ Column(FromColumns(p, q, r, s), 1) = p
      /\ Column(FromColumns(p, q, r, s), 2) = q
      /\ Column(FromColumns(p, q, r, s), 3) = r
      /\ Column(FromColumns(p, q, r, s), 4) = s
  BY <1>1 DEF FromColumns, Column
<1> QED
  BY <1>2, <1>3

LEMMA ButterfliesTwice ==
    ASSUME NEW m \in Matrix
    PROVE  FOURBUTTERFLY(m) \in Matrix /\ FOURBUTTERFLY(FOURBUTTERFLY(m)) = m
<1>1. \A q \in Quad : strDCT2x2dn(q) \in Quad /\ strDCT2x2dn(strDCT2x2dn(q)) = q
  BY DnUndone
<1> QED
  BY <1>1, Columns, ColumnsBack DEF FOURBUTTERFLY

LEMMA ScaleUndone ==
    ASSUME NEW m \in Matrix
    PROVE  ScaleColumns(m) \in Matrix /\ UnscaleColumns(ScaleColumns(m)) = m
<1>1. ASSUME NEW q \in Quad
      PROVE  Scaled(q) \in Quad /\ Unscaled(Scaled(q)) = q
  <2>1. strHSTenc(q) \in Quad /\ strHSTdec(strHSTenc(q)) = q
    BY HSTUndone
  <2>2. PICK a, b, c, d \in Int : strHSTenc(q) = <<a, b, c, d>>
    BY <2>1, QuadParts
  <2>3. PICK x, y \in Int : strHSTenc1(a, d) = <<x, y>> /\ strHSTdec1_alternate(x, y) = <<a, d>>
    BY HST1Undone, PairParts
  <2>4. Scaled(q) = <<x, b, c, y>>
    BY <2>2, <2>3 DEF Scaled
  <2>5. Unscaled(<<x, b, c, y>>) = q
    BY <2>1, <2>2, <2>3 DEF Unscaled
  <2> QED
    BY <2>4, <2>5, MakeQuad
<1> QED
  BY <1>1, Columns, ColumnsBack DEF ScaleColumns, UnscaleColumns

LEMMA RowsUndone ==
    ASSUME NEW m \in Matrix
    PROVE  RotateRows(m) \in Matrix /\ UnrotateRows(RotateRows(m)) = m
<1>1. ASSUME NEW q \in Quad
      PROVE  /\ RotateAcross(q) \in Quad /\ UnrotateAcross(RotateAcross(q)) = q
             /\ RotateAlong(q) \in Quad /\ UnrotateAlong(RotateAlong(q)) = q
  <2>1. PICK a, b, c, d \in Int : q = <<a, b, c, d>>
    BY QuadParts
  <2>2. ASSUME NEW e \in Int, NEW f \in Int
        PROVE  \E x, y \in Int : ROTATE1(e, f) = <<x, y>> /\ IROTATE1(x, y) = <<e, f>>
    BY Rotate1Undone, PairParts
  <2>3. RotateAcross(q) \in Quad /\ UnrotateAcross(RotateAcross(q)) = q
    <3>1. PICK x, z \in Int : ROTATE1(b, d) = <<x, z>> /\ IROTATE1(x, z) = <<b, d>>
      BY <2>2
    <3>2. PICK w, y \in Int : ROTATE1(a, c) = <<w, y>> /\ IROTATE1(w, y) = <<a, c>>
      BY <2>2
    <3>3. RotateAcross(q) = <<w, x, y, z>>
      BY <2>1, <3>1, <3>2 DEF RotateAcross
    <3>4. UnrotateAcross(<<w, x, y, z>>) = q
      BY <2>1, <3>1, <3>2 DEF UnrotateAcross
    <3> QED
      BY <3>3, <3>4, MakeQuad
  <2>4. RotateAlong(q) \in Quad /\ UnrotateAlong(RotateAlong(q)) = q
    <3>1. PICK y, z \in Int : ROTATE1(c, d) = <<y, z>> /\ IROTATE1(y, z) = <<c, d>>
      BY <2>2
    <3>2. PICK w, x \in Int : ROTATE1(a, b) = <<w, x>> /\ IROTATE1(w, x) = <<a, b>>
      BY <2>2
    <3>3. RotateAlong(q) = <<w, x, y, z>>
      BY <2>1, <3>1, <3>2 DEF RotateAlong
    <3>4. UnrotateAlong(<<w, x, y, z>>) = q
      BY <2>1, <3>1, <3>2 DEF UnrotateAlong
    <3> QED
      BY <3>3, <3>4, MakeQuad
  <2> QED
    BY <2>3, <2>4
<1>2. \A q \in Quad : fwdOddOddPre(q) \in Quad /\ invOddOddPost(fwdOddOddPre(q)) = q
  BY OddOddUndone
<1> QED
  BY <1>1, <1>2, MatrixRows, MakeMatrix DEF RotateRows, UnrotateRows

\* The filter that smooths the corner of four blocks is undone.
THEOREM Pre4x4Stage1Undone ==
    ASSUME NEW m \in Matrix
    PROVE  /\ strPre4x4Stage1Split(m) \in Matrix
           /\ strPost4x4Stage1Split_alternate(strPre4x4Stage1Split(m)) = m
<1>1. ScaleColumns(m) \in Matrix /\ UnscaleColumns(ScaleColumns(m)) = m
  BY ScaleUndone
<1> DEFINE r == RotateRows(ScaleColumns(m))
<1>2. r \in Matrix /\ UnrotateRows(r) = ScaleColumns(m)
  BY <1>1, RowsUndone
<1>3. FOURBUTTERFLY(r) \in Matrix /\ FOURBUTTERFLY(FOURBUTTERFLY(r)) = r
  BY <1>2, ButterfliesTwice
<1> QED
  BY <1>1, <1>2, <1>3 DEF strPre4x4Stage1Split, strPost4x4Stage1Split_alternate

LEMMA ExchangeButterflies ==
    ASSUME NEW m \in Matrix
    PROVE  Exchanged(FOURBUTTERFLY(Exchanged(m))) = FOURBUTTERFLY(m)
<1>1. ASSUME NEW q \in Quad
      PROVE  strDCT2x2dn(<<q[1], q[3], q[2], q[4]>>) =
               <<strDCT2x2dn(q)[1], strDCT2x2dn(q)[3], strDCT2x2dn(q)[2], strDCT2x2dn(q)[4]>>
  <2>1. PICK a, b, c, d \in Int : q = <<a, b, c, d>>
    BY QuadParts
  <2>2. strDCT2x2dn(<<a, c, b, d>>) =
          <<strDCT2x2dn(<<a, b, c, d>>)[1], strDCT2x2dn(<<a, b, c, d>>)[3],
            strDCT2x2dn(<<a, b, c, d>>)[2], strDCT2x2dn(<<a, b, c, d>>)[4]>>
    BY DEF strDCT2x2dn, DCT2x2
  <2> QED
    BY <2>1, <2>2
<1>2. \A j \in 1..4 : Column(m, j) \in Quad
  BY Columns
<1>3. \A j \in 1..4 : Column(Exchanged(m), j) =
                        <<Column(m, j)[1], Column(m, j)[3], Column(m, j)[2], Column(m, j)[4]>>
  BY DEF Column, Exchanged
<1>4. \A j \in 1..4 : strDCT2x2dn(Column(Exchanged(m), j)) =
         <<strDCT2x2dn(Column(m, j))[1], strDCT2x2dn(Column(m, j))[3],
           strDCT2x2dn(Column(m, j))[2], strDCT2x2dn(Column(m, j))[4]>>
  BY <1>1, <1>2, <1>3
<1> QED
  BY <1>4 DEF FOURBUTTERFLY, FromColumns, Exchanged

\* So is the one that smooths the corner of four macroblocks, though it ends in another order.
THEOREM Pre4x4Stage2Undone ==
    ASSUME NEW m \in Matrix
    PROVE  /\ strPre4x4Stage2Split(m) \in Matrix
           /\ strPost4x4Stage1Split_alternate(strPre4x4Stage2Split(m)) = m
<1>1. RotateRows(ScaleColumns(m)) \in Matrix
  BY ScaleUndone, RowsUndone
<1>2. strPre4x4Stage2Split(m) = strPre4x4Stage1Split(m)
  BY <1>1, ExchangeButterflies DEF strPre4x4Stage1Split, strPre4x4Stage2Split
<1> QED
  BY <1>2, Pre4x4Stage1Undone

LEMMA OrdersUndone ==
    ASSUME NEW q \in Quad
    PROVE  /\ Pairs(q) \in Quad /\ Pairs(Pairs(q)) = q
           /\ Zigzag(q) \in Quad /\ Unzigzag(q) \in Quad
           /\ Unzigzag(Zigzag(q)) = q /\ Zigzag(Unzigzag(q)) = q
           /\ Backwards(q) \in Quad /\ Backwards(Backwards(q)) = q
<1>1. PICK a, b, c, d \in Int : q = <<a, b, c, d>>
  BY QuadParts
<1> QED
  BY <1>1, MakeQuad DEF Pairs, Zigzag, Unzigzag, Backwards

\* The transform of a block, and of a macroblock's DC coefficients, is undone.
THEOREM DCT4x4Undone ==
    ASSUME NEW m \in Matrix
    PROVE  strDCT4x4Stage1(m) \in Matrix /\ strIDCT4x4Stage1(strDCT4x4Stage1(m)) = m
<1> DEFINE f == FOURBUTTERFLY(m)
           q2 == fwdOdd(Pairs(f[2]))
           q3 == fwdOdd(Zigzag(f[3]))
           q4 == fwdOddOdd(Backwards(f[4]))
           r == <<strDCT2x2up(f[1]), Pairs(q2), Unzigzag(q3), Backwards(q4)>>
<1>1. f \in Matrix /\ FOURBUTTERFLY(f) = m
  BY ButterfliesTwice
<1> HIDE DEF f
<1>2. f = <<f[1], f[2], f[3], f[4]>> /\ f[1] \in Quad /\ f[2] \in Quad /\ f[3] \in Quad /\ f[4] \in Quad
  BY <1>1, MatrixRows
<1>3. strDCT2x2up(f[1]) \in Quad /\ strDCT2x2up(strDCT2x2up(f[1])) = f[1]
  BY <1>2, UpUndone
<1>4. q2 \in Quad /\ Pairs(q2) \in Quad /\ Pairs(invOdd(Pairs(Pairs(q2)))) = f[2]
  BY <1>2, OddUndone, OrdersUndone
<1>5. q3 \in Quad /\ Unzigzag(q3) \in Quad /\ Unzigzag(invOdd(Zigzag(Unzigzag(q3)))) = f[3]
  BY <1>2, OddUndone, OrdersUndone
<1>6. q4 \in Quad /\ Backwards(q4) \in Quad /\ Backwards(invOddOdd(Backwards(Backwards(q4)))) = f[4]
  BY <1>2, OddOddUndone, OrdersUndone
<1>7. strDCT4x4Stage1(m) = r
  BY DEF strDCT4x4Stage1, f
<1>8. r \in Matrix
  BY <1>3, <1>4, <1>5, <1>6, MakeMatrix
<1>9. strIDCT4x4Stage1(r) = m
  BY <1>1, <1>2, <1>3, <1>4, <1>5, <1>6 DEF strIDCT4x4Stage1
<1> QED
  BY <1>7, <1>8, <1>9

-----------------------------------------------------------------------------
(* The walk over a plane.  The rows wanted are those of AllRowsShown; one  *)
(* is given out at the last column of the row of corners below it.         *)

Wanted(r) == bDecodeFullFrame \/ (16 * r + 15 >= image.top /\ 16 * r <= image.bottom)

LastRow == IF phase = "encode" THEN image.h ELSE cMBRow

OnCorners ==
    /\ image \in Images
    /\ phase \in {"encode", "decode", "done"}
    /\ cRow \in 0 .. LastRow /\ cColumn \in 0 .. image.w

ShownSoFar == \A r \in 0 .. image.h - 1 :
                  Wanted(r) /\ (phase = "done" \/ (phase = "decode" /\ r + 1 < cRow)) => r \in shown

OnlyRows == shown \subseteq {r \in Nat : r + 1 <= cMBRow}

WalkInv == OnCorners /\ ShownSoFar /\ OnlyRows

LEMMA ImageBounds ==
    ASSUME image \in Images
    PROVE  /\ image.w \in Nat \ {0} /\ image.h \in Nat \ {0}
           /\ image.top \in Nat /\ image.bottom \in Nat /\ cMBRow \in Nat
<1>1. image.w \in Nat \ {0} /\ image.h \in Nat \ {0} /\ image.top \in Nat /\ image.bottom \in Nat
  BY ImagesAssumption
<1>2. (image.bottom + 16) \div 16 \in Nat
  BY <1>1
<1> QED
  BY <1>1, <1>2 DEF cMBRow

\* The walk takes in the row of corners below each row wanted, and gives the row out there.
LEMMA WantedRow ==
    ASSUME image \in Images, NEW r \in 0 .. image.h - 1, Wanted(r)
    PROVE  r + 1 <= cMBRow /\ (cRow = r + 1 => RowWanted)
<1>1. image.h \in Nat /\ image.top \in Nat /\ image.bottom \in Nat
  BY ImageBounds
<1>2. CASE bDecodeFullFrame
  BY <1>1, <1>2 DEF cMBRow, RowWanted
<1>3. CASE ~bDecodeFullFrame
  <2>1. 16 * r + 15 >= image.top /\ 16 * r <= image.bottom
    BY <1>3 DEF Wanted
  <2>2. r + 1 <= (image.bottom + 16) \div 16
    BY <2>1, <1>1
  <2>3. 16 * (r + 1) > image.top /\ 16 * (r + 1) <= image.bottom + 16
    BY <2>1, <1>1
  <2> QED
    BY <1>3, <2>2, <2>3 DEF cMBRow, RowWanted
<1> QED
  BY <1>2, <1>3

LEMMA SameImage ==
    ASSUME image' = image
    PROVE  cMBRow' = cMBRow /\ \A r : Wanted(r)' = Wanted(r)
BY DEF cMBRow, Wanted, bDecodeFullFrame

LEMMA WalkInit == Init => WalkInv
<1> SUFFICES ASSUME Init PROVE WalkInv
  OBVIOUS
<1>1. image \in Images /\ phase = "encode" /\ cRow = 0 /\ cColumn = 0 /\ shown = {}
  BY DEF Init
<1>2. image.w \in Nat /\ image.h \in Nat
  BY <1>1, ImageBounds
<1> QED
  BY <1>1, <1>2 DEF WalkInv, OnCorners, ShownSoFar, OnlyRows, LastRow

\* A corner is followed by the next one, or by the first of the next phase.
LEMMA CornerStep ==
    ASSUME OnCorners, image' = image, phase \in {"encode", "decode"},
           NextCorner \/ Finished(IF phase = "encode" THEN "decode" ELSE "done")
    PROVE  /\ OnCorners'
           /\ phase' # phase => cRow = LastRow /\ cColumn = image.w /\ cRow' = 0
           /\ phase' = phase => cRow' = cRow \/ (cRow' = cRow + 1 /\ cColumn = image.w)
<1>1. /\ image.w \in Nat /\ image.h \in Nat /\ cMBRow \in Nat /\ LastRow \in Nat
      /\ cRow \in 0 .. LastRow /\ cColumn \in 0 .. image.w
  BY ImageBounds DEF OnCorners, LastRow
<1>2. LastCorner <=> cColumn = image.w /\ cRow = LastRow
  BY DEF LastCorner, LastColumn, LastRow
<1>3. CASE NextCorner
  <2>1. LastRow' = LastRow /\ phase' = phase
    BY <1>3, SameImage DEF NextCorner, LastRow
  <2>2. /\ ~(cColumn = image.w /\ cRow = LastRow)
        /\ cColumn' = IF cColumn = image.w THEN 0 ELSE cColumn + 1
        /\ cRow' = IF cColumn = image.w THEN cRow + 1 ELSE cRow
    BY <1>2, <1>3 DEF NextCorner, LastColumn
  <2>3. cRow' \in 0 .. LastRow /\ cColumn' \in 0 .. image.w
    BY <1>1, <2>2
  <2> QED
    BY <2>1, <2>2, <2>3 DEF OnCorners
<1>4. CASE Finished(IF phase = "encode" THEN "decode" ELSE "done")
  <2>1. /\ cRow = LastRow /\ cColumn = image.w /\ cRow' = 0 /\ cColumn' = 0
        /\ phase' # phase /\ phase' \in {"decode", "done"}
    BY <1>2, <1>4 DEF Finished
  <2>2. LastRow' \in Nat
    BY <2>1, <1>1, SameImage DEF LastRow
  <2> QED
    BY <2>1, <2>2, <1>1 DEF OnCorners
<1> QED
  BY <1>3, <1>4

LEMMA EncodeStep ==
    ASSUME WalkInv, processMacroblock
    PROVE  WalkInv'
<1>1. image' = image /\ shown' = shown /\ phase = "encode"
  BY DEF processMacroblock
<1>2. NextCorner \/ Finished(IF phase = "encode" THEN "decode" ELSE "done")
  BY <1>1 DEF processMacroblock
<1>3. OnCorners' /\ (phase' # phase => cRow' = 0)
  BY <1>1, <1>2, CornerStep DEF WalkInv
<1>4. phase' = "encode" \/ (phase' = "decode" /\ cRow' = 0)
  BY <1>1, <1>2, <1>3 DEF NextCorner, Finished
<1>5. ShownSoFar'
  <2>1. image'.h \in Nat
    BY <1>1, ImageBounds DEF WalkInv, OnCorners
  <2> QED
    BY <2>1, <1>4 DEF ShownSoFar
<1> QED
  BY <1>1, <1>3, <1>5, SameImage DEF WalkInv, OnlyRows

LEMMA DecodeStep ==
    ASSUME WalkInv, processMacroblockDec
    PROVE  WalkInv'
<1>1. /\ image' = image /\ phase = "decode"
      /\ shown' = IF cColumn = image.w /\ cRow > 0 /\ RowWanted THEN shown \cup {cRow - 1} ELSE shown
  BY DEF processMacroblockDec, LastColumn
<1>2. NextCorner \/ Finished(IF phase = "encode" THEN "decode" ELSE "done")
  BY <1>1 DEF processMacroblockDec
<1>3. /\ OnCorners' /\ LastRow = cMBRow /\ image \in Images
      /\ cMBRow \in Nat /\ cRow \in 0 .. cMBRow /\ image.h \in Nat
  BY <1>1, <1>2, CornerStep, ImageBounds DEF WalkInv, OnCorners, LastRow
<1>4. \/ phase' = "done" /\ cRow = cMBRow /\ cColumn = image.w
      \/ phase' = "decode" /\ cRow' = cRow
      \/ phase' = "decode" /\ cRow' = cRow + 1 /\ cColumn = image.w
  <2>1. phase' = "decode" \/ phase' = "done"
    BY <1>1, <1>2 DEF NextCorner, Finished
  <2> QED
    BY <2>1, <1>1, <1>2, <1>3, CornerStep DEF WalkInv
<1>5. ShownSoFar'
  <2> SUFFICES ASSUME NEW r \in 0 .. image.h - 1, Wanted(r),
                      phase' = "done" \/ (phase' = "decode" /\ r + 1 < cRow')
               PROVE  r \in shown'
    BY <1>1, SameImage DEF ShownSoFar
  <2>1. r + 1 <= cMBRow /\ (cRow = r + 1 => RowWanted)
    BY <1>3, WantedRow
  <2>2. CASE r + 1 < cRow
    BY <2>2, <1>1 DEF WalkInv, ShownSoFar
  <2>3. CASE ~(r + 1 < cRow)
    <3>1. cRow = r + 1 /\ cColumn = image.w
      BY <2>1, <2>3, <1>3, <1>4
    <3>2. cRow > 0 /\ cRow - 1 = r
      BY <3>1, <1>3
    <3> QED
      BY <3>1, <3>2, <2>1, <1>1
  <2> QED
    BY <2>2, <2>3
<1>6. OnlyRows'
  <2>1. cRow > 0 => cRow - 1 \in Nat /\ (cRow - 1) + 1 <= cMBRow
    BY <1>3
  <2> QED
    BY <2>1, <1>1, SameImage DEF WalkInv, OnlyRows
<1> QED
  BY <1>3, <1>5, <1>6 DEF WalkInv

\* Both codecs walk from the first corner to the last, and the decoder gives the rows out as it
\* passes them.
THEOREM WalkStays == Spec => []WalkInv
<1>1. WalkInv /\ [Next]_vars => WalkInv'
  <2> SUFFICES ASSUME WalkInv, [Next]_vars PROVE WalkInv'
    OBVIOUS
  <2>1. CASE processMacroblock
    BY <2>1, EncodeStep
  <2>2. CASE processMacroblockDec
    BY <2>2, DecodeStep
  <2>3. CASE UNCHANGED vars
    BY <2>3, SameImage DEF vars, WalkInv, OnCorners, ShownSoFar, OnlyRows, LastRow
  <2> QED
    BY <2>1, <2>2, <2>3 DEF Next
<1> QED
  BY <1>1, WalkInit, PTL DEF Spec

\* Whatever the image and the region of interest, every row of macroblocks that the region meets
\* has been given out when the decoder is done, though the walk skips corners and stops early.
THEOREM EveryRowShown == Spec => []AllRowsShown
<1>1. WalkInv => AllRowsShown
  BY DEF WalkInv, ShownSoFar, AllRowsShown, Wanted
<1> QED
  BY <1>1, WalkStays, PTL

\* In a region that ends within the image, the corners stay on its macroblocks and no row is given
\* out that the image does not have: the row buffers are as wide and as many as the walk uses.
THEOREM WalkInImage ==
    ASSUME \A i \in Images : i.bottom < 16 * i.h
    PROVE  Spec => [](cRow \in 0 .. image.h /\ cColumn \in 0 .. image.w /\ shown \subseteq 0 .. image.h - 1)
<1>1. WalkInv => cRow \in 0 .. image.h /\ cColumn \in 0 .. image.w /\ shown \subseteq 0 .. image.h - 1
  <2> SUFFICES ASSUME WalkInv
               PROVE  cRow \in 0 .. image.h /\ cColumn \in 0 .. image.w /\ shown \subseteq 0 .. image.h - 1
    OBVIOUS
  <2>1. image \in Images /\ image.h \in Nat /\ image.bottom \in Nat /\ image.bottom < 16 * image.h
    BY ImageBounds DEF WalkInv, OnCorners
  <2>2. (image.bottom + 16) \div 16 <= image.h
    BY <2>1
  <2>3. cMBRow \in Nat /\ cMBRow <= image.h
    BY <2>1, <2>2, ImageBounds DEF cMBRow
  <2>4. cRow \in 0 .. image.h /\ cColumn \in 0 .. image.w
    BY <2>1, <2>3 DEF WalkInv, OnCorners, LastRow
  <2>5. shown \subseteq 0 .. image.h - 1
    BY <2>1, <2>3 DEF WalkInv, OnlyRows
  <2> QED
    BY <2>4, <2>5
<1> QED
  BY <1>1, WalkStays, PTL

=============================================================================
