------------------------------ MODULE BlockOps ------------------------------
(***************************************************************************)
(* Which coefficients each operator of the transform touches.  The         *)
(* coefficients of a plane are cells with the addresses of the C code: a   *)
(* macroblock is MBCells consecutive cells, its blocks of 16 go down the   *)
(* columns of blocks, a block is four quarters of four: above left, above  *)
(* right, below left, below right.                                         *)
(*                                                                         *)
(* The values are left out.  A cell holds the sequence of operators that   *)
(* were applied to it since it was a pixel, and an operator is undone by   *)
(* taking it off every cell it was applied to, which is possible only when *)
(* it is the last one on all of them; CodingProofs proves that each of     *)
(* the decoder's operators does undo the encoder's on integers.            *)
(***************************************************************************)
EXTENDS Integers, Sequences, SequencesExt

When(cond, ops) == IF cond THEN ops ELSE <<>>

\* for (j = from; j < to; j += step) body(j)
For(from, to, step, Body(_)) ==
    FlattenSeq([k \in 1 .. (to - from + step - 1) \div step |-> Body(from + (k - 1) * step)])

Op(name, cells) == <<[op |-> name, on |-> cells]>>
Cells(base, steps) == [i \in 1 .. Len(steps) |-> base + steps[i]]
Block(p) == [i \in 1 .. 16 |-> p + i - 1]

\* The encoder's operators, each with the decoder's that undoes it.
Lap2(a, b)          == Op("Pre2", <<a, b>>)          \* strPre2, strPost2_alternate
Lap2x2(a, b, c, d)  == Op("Pre2x2", <<a, b, c, d>>)  \* strPre2x2, strPost2x2_alternate
Lap4(a, b, c, d)    == Op("Pre4", <<a, b, c, d>>)    \* strPre4, strPost4_alternate
DCT2x2dn(a, b, c, d) == Op("DCT2x2dn", <<a, b, c, d>>)
HT(a, b)            == Op("HT", <<a, b>>)            \* the 1D transform of 4:2:2 chroma
DCT4x4Stage1(p)     == Op("DCT4x4Stage1", Block(p))
DCT4x4Stage2(p)     == Op("DCT4x4Stage2", [i \in 1 .. 16 |-> p + 16 * (i - 1)])

\* strPre4x4Stage1Split and its inverse, about the corner of four blocks.
Lap4x4Split(p0, p1, off) ==
    Op("Pre4x4Stage1", Cells(p0, <<12, 13, 14, 15>>) \o Cells(p0 + 72 - off, <<0, 1, 2, 3>>)
                       \o Cells(p1, <<4, 5, 6, 7>>) \o Cells(p1 + 64 - off, <<0, 1, 2, 3>>))
Lap4x4(p, off) == Lap4x4Split(p, p + 16, off)

\* strPre4x4Stage2Split and its inverse, about the corner of four macroblocks.
Lap4x4DC(p0, p1) ==
    Op("Pre4x4Stage2", Cells(p0, <<-96, -32, -80, -16, 96, 32, 112, 48>>)
                       \o Cells(p1, <<-112, -48, -128, -64, 80, 16, 64, 0>>))

\* COMPUTE_CORNER_PRED_DIFF, COMPUTE_CORNER_PRED_ADD, and a copy kept in iPredBefore or iPredAfter.
Diff(a, b) == <<[op |-> "diff", on |-> <<a>>, by |-> b]>>
Add(a, b)  == <<[op |-> "add",  on |-> <<a>>, by |-> b]>>
Keep(a, b) == <<[op |-> "keep", on |-> <<a>>, by |-> b]>>

\* The cells of iPredBefore[i] and iPredAfter[i], for the plane at hand.
iPredBefore(k) == -1 - k
iPredAfter(k)  == -3 - k
PredCells == -4 .. -1

-----------------------------------------------------------------------------
(* Corners.  A step of either transform is made at the corner s of four    *)
(* macroblocks; s.p0 and s.p1 are the addresses of the macroblocks above   *)
(* right and below right of it.  s.left, s.right, s.top, s.bottom: it is   *)
(* on an edge of the image; s.vert, s.hori: on a boundary of hard tiles;   *)
(* s.nextLeft, s.nextRight: one macroblock right of a left edge, left of a *)
(* right edge.  s.ol is the number of levels of overlap.                   *)
(*                                                                         *)
(* A macroblock is m cells, a column of blocks w of them: (256, 64) for a  *)
(* full plane, (64, 32) for 4:2:0 and (128, 64) for 4:2:2 chrominance.     *)

AtTop(s)    == s.top \/ s.hori
AtBottom(s) == s.bottom \/ s.hori
AtLeft(s)   == s.left \/ s.vert
AtRight(s)  == s.right \/ s.vert

\* The pairs of filters along an edge, between the block at p and the next one.
LapTop(p, w)    == Lap4(p + 5, p + 4, p + w, p + w + 1) \o Lap4(p + 7, p + 6, p + w + 2, p + w + 3)
LapBottom(p, w) == Lap4(p + 13, p + 12, p + w + 8, p + w + 9) \o Lap4(p + 15, p + 14, p + w + 10, p + w + 11)
LapLeft(p)      == Lap4(p + 10, p + 8, p + 16, p + 18) \o Lap4(p + 11, p + 9, p + 17, p + 19)
LapRight(p)     == Lap4(p + 14, p + 12, p + 20, p + 22) \o Lap4(p + 15, p + 13, p + 21, p + 23)

\* The same where the two blocks belong to the macroblocks above and below the corner.
LapLeftBorder(p0, p1, w) ==
    Lap4(p0 + w - 6, p0 + w - 8, p1, p1 + 2) \o Lap4(p0 + w - 5, p0 + w - 7, p1 + 1, p1 + 3)
LapRightBorder(p0, p1, w) ==
    Lap4(p0 - 1, p0 - 3, p1 - w + 5, p1 - w + 7) \o Lap4(p0 - 2, p0 - 4, p1 - w + 4, p1 - w + 6)

\* The second level's filters between the DC coefficients of two macroblocks.
LapDCDown(p0, p1) ==
    Lap4(p0 + 32, p0 + 48, p1, p1 + 16) \o Lap4(p0 + 96, p0 + 112, p1 + 64, p1 + 80)
LapDCAcross(p) == Lap4(p - 128, p - 64, p, p + 64) \o Lap4(p - 112, p - 48, p + 16, p + 80)

\* The second level of subsampled chrominance does not filter its corners but predicts them:
\* the DC coefficient at a corner gives up its neighbour's value before the filters and takes
\* back the value the neighbour has after them.  The right corner's neighbour is a column
\* behind, so its values are kept from the step before.
CornerPrediction(s, m, w, Op2(_, _), kept(_)) ==
    LET p0 == s.p0  p1 == s.p1  low == w - 16 IN
       When(s.nextLeft /\ AtTop(s), Op2(p1 - m, p1 - m + w))
    \o When(s.nextRight /\ AtTop(s), Keep(kept(0), p1))
    \o When(AtRight(s) /\ AtTop(s), Op2(p1 - m + w, kept(0)))
    \o When(s.nextLeft /\ AtBottom(s), Op2(p0 - m + low, p0 - m + w + low))
    \o When(s.nextRight /\ AtBottom(s), Keep(kept(1), p0 + low))
    \o When(AtRight(s) /\ AtBottom(s), Op2(p0 - m + w + low, kept(1)))

-----------------------------------------------------------------------------
(* Applying and undoing.                                                   *)

\* What o leaves on the cells it is applied to.
Trace(m, o) == IF "by" \in DOMAIN o THEN [op |-> o.op, value |-> m[o.by]] ELSE o

\* What an operator of the decoder takes off: COMPUTE_CORNER_PRED_DIFF undoes the addition.
Undone(m, o) ==
    CASE o.op = "diff" -> [op |-> "add",  value |-> m[o.by]]
      [] o.op = "add"  -> [op |-> "diff", value |-> m[o.by]]
      [] OTHER         -> o

\* Both in place, so that a cell of m is only looked at when the operator is applied to it.
Changed(m, o, New(_)) ==
    LET done[i \in 0 .. Len(o.on)] ==
            IF i = 0 THEN m
            ELSE IF o.on[i] \in DOMAIN m THEN [done[i - 1] EXCEPT ![o.on[i]] = New(@)]
            ELSE done[i - 1]
    IN  done[Len(o.on)]

Apply(m, o) ==
    IF o.op = "keep" THEN [m EXCEPT ![o.on[1]] = m[o.by]]
                     ELSE Changed(m, o, LAMBDA c : Append(c, Trace(m, o)))

OnTop(m, o) == \A i \in 1 .. Len(o.on) : m[o.on[i]] # <<>> /\ Last(m[o.on[i]]) = Undone(m, o)

Undo(m, o) ==
    IF o.op = "keep"    THEN [m EXCEPT ![o.on[1]] = m[o.by]]
    ELSE IF OnTop(m, o) THEN Changed(m, o, LAMBDA c : Front(c))
                        ELSE Changed(m, o, LAMBDA c : Append(c, [undo |-> Trace(m, o)]))

InOrder(m, ops, Step(_, _)) ==
    LET done[i \in 0 .. Len(ops)] == IF i = 0 THEN m ELSE Step(done[i - 1], ops[i])
    IN  done[Len(ops)]

=============================================================================
