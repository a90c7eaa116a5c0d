-------------------------- MODULE ForwardTransform --------------------------
(***************************************************************************)
(* What transformMacroblock (image/encode/strFwdTransform.c) applies at    *)
(* one position, to one plane: the sequences of operators for a full plane *)
(* (luminance and 4:4:4 chrominance) and for the chrominance of 4:2:0 and  *)
(* 4:2:2.                                                                  *)
(***************************************************************************)
EXTENDS BlockOps

-----------------------------------------------------------------------------
(* The first level, which the code has once for each format.  A column of  *)
(* blocks is w cells (64 or 32), the columns of a macroblock but its last  *)
(* end at cell end (192, 32 or 64).                                        *)

\* The filters at the corners of the image and of its tiles.
PreCorners(s, w) ==
    LET p0 == s.p0  p1 == s.p1  bot == w - 16 IN
       When(AtTop(s) /\ AtLeft(s), Lap4(p1, p1 + 1, p1 + 2, p1 + 3))
    \o When(AtTop(s) /\ AtRight(s), Lap4(p1 - w + 5, p1 - w + 4, p1 - w + 7, p1 - w + 6))
    \o When(AtBottom(s) /\ AtLeft(s), Lap4(p0 + bot + 10, p0 + bot + 11, p0 + bot + 8, p0 + bot + 9))
    \o When(AtBottom(s) /\ AtRight(s), Lap4(p0 - 1, p0 - 2, p0 - 3, p0 - 4))

\* The filters along an upper edge or between two rows of macroblocks.
PreRowBorder(s, w, end) ==
    For(IF AtLeft(s) THEN 0 ELSE -w, end, w,
        LAMBDA j : IF AtTop(s) THEN LapTop(s.p1 + j, w)
                               ELSE Lap4x4Split(s.p0 + w - 16 + j, s.p1 + j, 64 - w))

\* Down a left edge, or between two columns of macroblocks.
PreColumnBorder(s, w) ==
    IF AtLeft(s)
    THEN When(~AtTop(s), LapLeftBorder(s.p0, s.p1, w))
      \o For(0, w - 16, 16, LAMBDA j : LapLeft(s.p1 + j))
    ELSE For(-w, -16, 16, LAMBDA j : Lap4x4(s.p1 + j, 64 - w))

PreInside(s, w, end) ==
    For(0, end, w, LAMBDA k : For(0, w - 16, 16, LAMBDA j : Lap4x4(s.p1 + k + j, 64 - w)))

\* MUTANT: only the bottom of the image has the filters of a bottom edge.
PreBottomEdgeOfImage(s, w, end) ==
    When(s.bottom,
         For(IF AtLeft(s) THEN w - 16 ELSE -16, IF s.right THEN -16 ELSE end + w - 16, w,
             LAMBDA j : LapBottom(s.p0 + j, w)))

PreBottomEdge(s, w, end) ==
    When(AtBottom(s),
         For(IF AtLeft(s) THEN w - 16 ELSE -16, IF s.right THEN -16 ELSE end + w - 16, w,
             LAMBDA j : LapBottom(s.p0 + j, w)))

PreRightEdge(s, w) ==
    LET p0 == s.p0  p1 == s.p1 IN
    When(AtRight(s) /\ ~s.bottom,
            When(~AtTop(s), LapRightBorder(p0, p1, w))
         \o For(-w, -16, 16, LAMBDA j : LapRight(p1 + j)))

FirstOverlap(s, w, end) ==
       PreCorners(s, w)
    \o When(~s.right /\ ~s.bottom,
            PreRowBorder(s, w, end) \o PreColumnBorder(s, w) \o PreInside(s, w, end))
    \o PreBottomEdge(s, w, end)
    \o PreRightEdge(s, w)

FirstTransform(s, w, end) ==
       When(~s.top, For(IF s.left THEN w - 16 ELSE -16, IF s.right THEN w - 16 ELSE end + w - 16, w,
                        LAMBDA j : DCT4x4Stage1(s.p0 + j)))
    \o When(~s.bottom, For(IF s.left THEN 0 ELSE -w, IF s.right THEN 0 ELSE end, w,
                           LAMBDA k : For(0, w - 16, 16, LAMBDA j : DCT4x4Stage1(s.p1 + k + j))))

-----------------------------------------------------------------------------
(* A full plane: a macroblock is 256 cells.                                *)

FullFirstOverlap(s)   == FirstOverlap(s, 64, 192)
FullFirstTransform(s) == FirstTransform(s, 64, 192)

FullSecondOverlap(s) ==
    LET p0 == s.p0  p1 == s.p1 IN
       When(AtTop(s) /\ AtLeft(s), Lap4(p1, p1 + 64, p1 + 16, p1 + 80))
    \o When(AtTop(s) /\ AtRight(s), Lap4(p1 - 128, p1 - 64, p1 - 112, p1 - 48))
    \o When(AtBottom(s) /\ AtLeft(s), Lap4(p0 + 32, p0 + 96, p0 + 48, p0 + 112))
    \o When(AtBottom(s) /\ AtRight(s), Lap4(p0 - 96, p0 - 32, p0 - 80, p0 - 16))
    \o When(~AtTop(s) /\ ~s.bottom, When(AtLeft(s), LapDCDown(p0, p1))
                                 \o When(AtRight(s), LapDCDown(p0 - 128, p1 - 128)))
    \o When(~AtLeft(s) /\ ~s.right,
               When(AtTop(s), LapDCAcross(p1))
            \o When(AtBottom(s), LapDCAcross(p0 + 32))
            \o When(~AtTop(s) /\ ~s.bottom, Lap4x4DC(p0, p1)))

FullForward(s) ==
       When(s.ol > 0, FullFirstOverlap(s))
    \o FullFirstTransform(s)
    \o When(s.ol = 2, FullSecondOverlap(s))
    \o When(~s.top /\ ~s.left, DCT4x4Stage2(s.p0 - 256))

-----------------------------------------------------------------------------
(* Subsampled chrominance: a macroblock of 4:2:0 is 64 cells, one of 4:2:2 *)
(* is 128.                                                                 *)

SecondOverlap420(s) ==
    LET p0 == s.p0  p1 == s.p1 IN
       CornerPrediction(s, 64, 32, Diff, iPredBefore)
    \o When(~AtTop(s) /\ ~s.bottom, When(AtLeft(s), Lap2(p0 + 16, p1))
                                 \o When(AtRight(s), Lap2(p0 - 16, p1 - 32)))
    \o When(~AtLeft(s) /\ ~s.right,
               When(AtTop(s), Lap2(p1 - 32, p1))
            \o When(AtBottom(s), Lap2(p0 - 16, p0 + 16))
            \o When(~AtTop(s) /\ ~s.bottom, Lap2x2(p0 - 16, p0 + 16, p1 - 32, p1)))
    \o CornerPrediction(s, 64, 32, Add, iPredAfter)

Forward420(s) ==
       When(s.ol > 0, FirstOverlap(s, 32, 32))
    \o FirstTransform(s, 32, 32)
    \o When(s.ol = 2, SecondOverlap420(s))
    \o When(~s.top /\ ~s.left, DCT2x2dn(s.p0 - 64, s.p0 - 32, s.p0 - 48, s.p0 - 16))

SecondOverlap422(s) ==
    LET p0 == s.p0  p1 == s.p1 IN
       CornerPrediction(s, 128, 64, Diff, iPredBefore)
    \o When(~s.bottom,
               When(AtLeft(s), When(~AtTop(s), Lap2(p0 + 48, p1)))
            \o When(AtRight(s), When(~AtTop(s), Lap2(p0 - 16, p1 - 64)))
            \o When(AtLeft(s), Lap2(p1 + 16, p1 + 32))
            \o When(AtRight(s), Lap2(p1 - 48, p1 - 32))
            \o When(~AtLeft(s) /\ ~s.right,
                       (IF AtTop(s) THEN Lap2(p1 - 64, p1)
                                    ELSE Lap2x2(p0 - 16, p0 + 48, p1 - 64, p1))
                    \o Lap2x2(p1 - 48, p1 + 16, p1 - 32, p1 + 32)))
    \o When(AtBottom(s) /\ ~AtLeft(s) /\ ~s.right, Lap2(p0 - 16, p0 + 48))
    \o CornerPrediction(s, 128, 64, Add, iPredAfter)

Forward422(s) ==
    LET p == s.p0 - 128 IN
       When(s.ol > 0, FirstOverlap(s, 64, 64))
    \o FirstTransform(s, 64, 64)
    \o When(s.ol = 2, SecondOverlap422(s))
    \o When(~s.top /\ ~s.left,
            DCT2x2dn(p, p + 64, p + 16, p + 80) \o DCT2x2dn(p + 32, p + 96, p + 48, p + 112) \o HT(p + 32, p))

=============================================================================
