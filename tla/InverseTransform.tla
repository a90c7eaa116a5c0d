-------------------------- MODULE InverseTransform --------------------------
(***************************************************************************)
(* What invTransformMacroblock_alteredOperators_hard                       *)
(* (image/decode/strInvTransform.c) applies at one corner, to one plane.   *)
(* It undoes ForwardTransform from the last operator to the first, but is  *)
(* not its mirror image: a macroblock arrives whole at the corner above    *)
(* left of it, and a filter is undone as soon as the transforms under it   *)
(* are, up to a macroblock earlier or later than it was applied.           *)
(* The loops over a full plane and those over 4:2:0 and 4:2:2 chrominance  *)
(* differ: chrominance leaves the first column of blocks of a tile to the  *)
(* next corner, because its corners may still have to be predicted.        *)
(***************************************************************************)
EXTENDS BlockOps

\* The filters at the corners of the image and of its tiles; those on the left are back cells behind.
PostCorners(s, w, atLeft, back) ==
    LET p0 == s.p0  p1 == s.p1  bot == w - 16 IN
       When(AtTop(s) /\ atLeft, LET p == p1 - back IN Lap4(p, p + 1, p + 2, p + 3))
    \o When(AtTop(s) /\ AtRight(s), Lap4(p1 - w + 5, p1 - w + 4, p1 - w + 7, p1 - w + 6))
    \o When(AtBottom(s) /\ atLeft, LET p == p0 - back + bot IN Lap4(p + 10, p + 11, p + 8, p + 9))
    \o When(AtBottom(s) /\ AtRight(s), Lap4(p0 - 1, p0 - 2, p0 - 3, p0 - 4))

-----------------------------------------------------------------------------
(* A full plane.  At each corner the lower half of the macroblocks above   *)
(* it and the upper half of those below it are finished.                   *)

PostSecondOverlap(s) ==
    LET p0 == s.p0  p1 == s.p1 IN
       When(AtTop(s) /\ AtLeft(s), Lap4(p1, p1 + 64, p1 + 16, p1 + 80))
    \o When(AtTop(s) /\ AtRight(s), Lap4(p1 - 128, p1 - 64, p1 - 112, p1 - 48))
    \o When(AtBottom(s) /\ AtLeft(s), Lap4(p0 + 32, p0 + 96, p0 + 48, p0 + 112))
    \o When(AtBottom(s) /\ AtRight(s), Lap4(p0 - 96, p0 - 32, p0 - 80, p0 - 16))
    \o When(~AtTop(s) /\ ~s.bottom, When(AtLeft(s), LapDCDown(p0, p1))
                                 \o When(AtRight(s), LapDCDown(p0 - 128, p1 - 128)))
    \o When(~AtLeft(s) /\ ~s.right,
               When(AtTop(s), LapDCAcross(p1))
            \o When(AtBottom(s), LapDCAcross(p0 + 32))
            \o When(~AtTop(s) /\ ~s.bottom, Lap4x4DC(p0, p1)))

InverseFirstTransform(s) ==
       When(~s.top, For(IF s.left THEN 32 ELSE -96, IF s.right THEN 32 ELSE 160, 64,
                        LAMBDA j : DCT4x4Stage1(s.p0 + j) \o DCT4x4Stage1(s.p0 + j + 16)))
    \o When(~s.bottom, For(IF s.left THEN 0 ELSE -128, IF s.right THEN 0 ELSE 128, 64,
                           LAMBDA j : DCT4x4Stage1(s.p1 + j) \o DCT4x4Stage1(s.p1 + j + 16)))

\* Along the left or the right edge, with that side's filters.
PostEdge(s, p0, p1, Lap(_), border) ==
       When(~s.top, Lap(p0 + 16) \o Lap(p0 + 32))
    \o When(~s.bottom, Lap(p1))
    \o When(~AtTop(s) /\ ~s.bottom, border)

\* Between two columns of blocks j apart from the corner.
PostColumns(s, j) ==
    LET p0 == s.p0 + j  p1 == s.p1 + j
        above == Lap4x4(p0 + 16, 0) \o Lap4x4(p0 + 32, 0)
    IN     When(AtTop(s), LapTop(p1, 64) \o Lap4x4(p1, 0))
        \o When(AtBottom(s), above \o LapBottom(p0 + 48, 64))
        \o When(~AtTop(s) /\ ~s.bottom, above \o Lap4x4Split(p0 + 48, p1, 0) \o Lap4x4(p1, 0))

PostFirstOverlap(s) ==
       PostCorners(s, 64, AtLeft(s), 0)
    \o When(AtLeft(s), PostEdge(s, s.p0, s.p1, LapLeft, LapLeftBorder(s.p0, s.p1, 64)))
    \o When(AtRight(s), PostEdge(s, s.p0 - 64, s.p1 - 64, LapRight, LapRightBorder(s.p0, s.p1, 64)))
    \o For(IF s.left THEN 0 ELSE -192, IF s.right THEN -64 ELSE 64, 64,
           LAMBDA j : When(~s.vert \/ j # -64, PostColumns(s, j)))

FullInverse(s) ==
       When(~s.bottom /\ ~s.right, DCT4x4Stage2(s.p1))
    \o When(s.ol = 2, PostSecondOverlap(s))
    \o InverseFirstTransform(s)
    \o When(s.ol > 0, PostFirstOverlap(s))

-----------------------------------------------------------------------------
(* Subsampled chrominance.  The two formats' first levels differ in the    *)
(* sizes and in which pairs of blocks, one above the other, are finished   *)
(* above the corner and which below it.                                    *)

\* MUTANT: the first column of blocks of a tile does not wait for its corners.
ChromaTransformAtOnce(s, m, w) ==
    LET from == IF s.left THEN 0 ELSE -w
        to   == IF s.right THEN 0 ELSE w
    IN     When(~s.top, For(from, to, w, LAMBDA j : DCT4x4Stage1(s.p0 + j + w - 16)))
        \o When(~s.bottom, For(from, to, w, LAMBDA j :
                               For(0, w - 16, 16, LAMBDA k : DCT4x4Stage1(s.p1 + j + k))))

ChromaTransform(s, m, w) ==
    LET from == IF s.left THEN w ELSE IF s.nextLeft THEN -m ELSE -w
        to   == IF AtRight(s) THEN 0 ELSE w
    IN     When(~s.top, For(from, to, w, LAMBDA j : DCT4x4Stage1(s.p0 + j + w - 16)))
        \o When(~s.bottom, For(from, to, w, LAMBDA j :
                               For(0, w - 16, 16, LAMBDA k : DCT4x4Stage1(s.p1 + j + k))))

ChromaOverlap(s, m, w, above, below) ==
    LET p0 == s.p0  p1 == s.p1  p2 == p0 + w - 16
        Columns(Lap(_)) == For(IF s.left THEN 0 ELSE -m, IF AtRight(s) THEN -w ELSE 0, w, Lap)
        Within(p) == When(s.nextLeft, LapLeft(p - m))
                  \o When(AtRight(s), LapRight(p - w))
                  \o Columns(LAMBDA j : Lap4x4(p + j, 64 - w))
    IN     PostCorners(s, w, s.nextLeft, m)
        \o When(~s.top, For(0, above, 16, LAMBDA k : Within(p2 - 16 - k)))
        \o When(~s.bottom, For(0, below, 16, LAMBDA k : Within(p1 + k)))
        \o When(AtTop(s), Columns(LAMBDA j : LapTop(p1 + j, w)))
        \o When(AtBottom(s), Columns(LAMBDA j : LapBottom(p2 + j, w)))
        \o When(~AtTop(s) /\ ~s.bottom,
                   When(s.nextLeft, LapLeftBorder(p0 - m, p1 - m, w))
                \o When(AtRight(s), LapRightBorder(p0, p1, w))
                \o Columns(LAMBDA j : Lap4x4Split(p2 + j, p1 + j, 64 - w)))

ChromaSecond420(s) ==
    LET p0 == s.p0  p1 == s.p1 IN
       CornerPrediction(s, 64, 32, Diff, iPredBefore)
    \o When(~AtTop(s) /\ ~s.bottom, When(AtLeft(s), Lap2(p0 + 16, p1))
                                 \o When(AtRight(s), Lap2(p0 - 16, p1 - 32)))
    \o When(~AtLeft(s) /\ ~s.right,
               When(AtTop(s), Lap2(p1 - 32, p1))
            \o When(AtBottom(s), Lap2(p0 - 16, p0 + 16))
            \o When(~AtTop(s) /\ ~s.bottom, Lap2x2(p0 - 16, p0 + 16, p1 - 32, p1)))
    \o CornerPrediction(s, 64, 32, Add, iPredAfter)

Inverse420(s) ==
       When(~s.bottom /\ ~s.right, DCT2x2dn(s.p1, s.p1 + 32, s.p1 + 16, s.p1 + 48))
    \o When(s.ol = 2, ChromaSecond420(s))
    \o ChromaTransform(s, 64, 32)
    \o When(s.ol > 0, ChromaOverlap(s, 64, 32, 16, 0))

ChromaSecond422(s) ==
    LET p0 == s.p0  p1 == s.p1 IN
       CornerPrediction(s, 128, 64, Diff, iPredBefore)
    \o When(~s.bottom,
               When(AtLeft(s), When(~AtTop(s), Lap2(p0 + 48, p1)) \o Lap2(p1 + 16, p1 + 32))
            \o When(AtRight(s), When(~AtTop(s), Lap2(p0 - 16, p1 - 64)) \o Lap2(p1 - 48, p1 - 32))
            \o When(~AtLeft(s) /\ ~s.right,
                       When(AtTop(s), Lap2(p1 - 64, p1))
                    \o When(~AtTop(s), Lap2x2(p0 - 16, p0 + 48, p1 - 64, p1))
                    \o Lap2x2(p1 - 48, p1 + 16, p1 - 32, p1 + 32)))
    \o When(AtBottom(s) /\ ~AtLeft(s) /\ ~s.right, Lap2(p0 - 16, p0 + 48))
    \o CornerPrediction(s, 128, 64, Add, iPredAfter)

Inverse422(s) ==
    LET p == s.p1 IN
       When(~s.bottom /\ ~s.right,
            HT(p + 32, p) \o DCT2x2dn(p, p + 64, p + 16, p + 80) \o DCT2x2dn(p + 32, p + 96, p + 48, p + 112))
    \o When(s.ol = 2, ChromaSecond422(s))
    \o ChromaTransform(s, 128, 64)
    \o When(s.ol > 0, ChromaOverlap(s, 128, 64, 16, 32))

=============================================================================
