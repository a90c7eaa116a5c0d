---------------------------- MODULE TransformOps ----------------------------
(***************************************************************************)
(* The integer operators the JPEG XR transform is built from: the encoder's*)
(* (image/encode/strFwdTransform.c), the decoder's                         *)
(* (image/decode/strInvTransform.c) and the two they share                 *)
(* (image/sys/strTransform.c).  Each works in place on two or four         *)
(* coefficients; here it maps the values it reads, as a tuple in the order *)
(* of the C arguments, to the values it stores.  x >> k is x \div 2^k, for *)
(* negative x too.  The widths of the C integers are left out: the         *)
(* coefficients of an image stay far below 2^31.                           *)
(***************************************************************************)
EXTENDS Integers

-----------------------------------------------------------------------------
(* Shared by both sides. *)

DCT2x2(q, round) ==
    LET a == q[1] + q[4]
        b == q[2] - q[3]
        t == (a - b + round) \div 2
        c == t - q[4]
        d == t - q[3]
    IN  <<a - d, b + c, c, d>>

strDCT2x2dn(q) == DCT2x2(q, 0)
strDCT2x2up(q) == DCT2x2(q, 1)

\* The first butterfly of the overlap filters and, undone, their last one.
Lift(q) ==
    LET a == q[1] + q[4]
        b == q[2] + q[3]
    IN  <<a, b, q[3] - (b + 1) \div 2, q[4] - (a + 1) \div 2>>

Unlift(q) ==
    LET d == q[4] + (q[1] + 1) \div 2
        c == q[3] + (q[2] + 1) \div 2
    IN  <<q[1] - d, q[2] - c, c, d>>

-----------------------------------------------------------------------------
(* Rotations by pi/8: ROTATE1 and ROTATE2 of the encoder, IROTATE1 and     *)
(* IROTATE2 of the decoder.                                                *)

ROTATE1(a, b) ==
    LET y == b - (a + 1) \div 2
    IN  <<a + (y + 1) \div 2, y>>

IROTATE1(a, b) ==
    LET x == a - (b + 1) \div 2
    IN  <<x, b + (x + 1) \div 2>>

ROTATE2(a, b) ==
    LET y == b - (a * 3 + 4) \div 8
    IN  <<a + (y * 3 + 4) \div 8, y>>

IROTATE2(a, b) ==
    LET x == a - (b * 3 + 4) \div 8
    IN  <<x, b + (x * 3 + 4) \div 8>>

-----------------------------------------------------------------------------
(* The transform of one coordinate and of both.                            *)

fwdOdd(q) ==
    LET b  == q[2] - q[3]
        a  == q[1] + q[4]
        ab == ROTATE2(a, b)
        cd == ROTATE2(q[3] + (b + 1) \div 2, (a + 1) \div 2 - q[4])
        d  == cd[2] + ab[2] \div 2
        c  == cd[1] - (ab[1] + 1) \div 2
    IN  <<ab[1] + c, ab[2] - d, c, d>>

invOdd(q) ==
    LET b  == q[2] + q[4]
        a  == q[1] - q[3]
        ab == IROTATE2(a, b)
        cd == IROTATE2(q[3] + (a + 1) \div 2, q[4] - b \div 2)
        c  == cd[1] - (ab[2] + 1) \div 2
        d  == (ab[1] + 1) \div 2 - cd[2]
    IN  <<ab[1] - d, ab[2] + c, c, d>>

\* A rotation by pi/4 between two butterflies; r1, r2 and r3 round its three liftings.
OddsForward(q, r1, r2, r3) ==
    LET d0 == q[4] + q[1]
        c0 == q[3] - q[2]
        a1 == q[1] - d0 \div 2
        b1 == q[2] + c0 \div 2
        a2 == a1 + (b1 * 3 + r1) \div 8
        b2 == b1 - (a2 * 3 + r2) \div 4
        a  == a2 + (b2 * 3 + r3) \div 8 + d0 \div 2
        b  == b2 - c0 \div 2
    IN  <<a, b, c0 + b, d0 - a>>

OddsBack(q, r1, r2, r3) ==
    LET d0 == q[4] + q[1]
        c0 == q[3] - q[2]
        a1 == q[1] - d0 \div 2
        b1 == q[2] + c0 \div 2
        a2 == a1 - (b1 * 3 + r3) \div 8
        b2 == b1 + (a2 * 3 + r2) \div 4
        a  == a2 - (b2 * 3 + r1) \div 8 + d0 \div 2
        b  == b2 - c0 \div 2
    IN  <<a, b, c0 + b, d0 - a>>

FlipInner(q) == <<q[1], -q[2], -q[3], q[4]>>

fwdOddOdd(q)     == OddsForward(FlipInner(q), 4, 3, 3)
invOddOdd(q)     == FlipInner(OddsBack(q, 4, 3, 3))
fwdOddOddPre(q)  == OddsForward(q, 4, 2, 6)
invOddOddPost(q) == OddsBack(q, 4, 2, 6)

\* The 1D transform of 4:2:2 chrominance's two DC coefficients.
ForwardHT(b, a) ==
    LET b1 == b - a
    IN  <<b1, a + (b1 + 1) \div 2>>

InverseHT(b, a) ==
    LET a1 == a - (b + 1) \div 2
    IN  <<b + a1, a1>>

-----------------------------------------------------------------------------
(* Hadamard transforms with scaling, of the overlap filters.               *)

strHSTenc(q) ==
    LET a0 == q[1] + q[4]
        b0 == q[2] - q[3]
        c  == (a0 - b0) \div 2 - q[4]
        d  == q[3] + b0 \div 2
    IN  <<a0 - (d * 3 + 4) \div 8, b0 + c, c, d>>

strHSTdec(q) ==
    LET b == q[2] - q[3]
        a == q[1] + (q[4] * 3 + 4) \div 8
        d == q[4] - b \div 2
        c == (a - b) \div 2 - q[3]
    IN  <<a - c, b + d, d, c>>

strHSTenc1(a, d0) ==
    LET d1 == d0 - a \div 128
        d2 == d1 + a \div 1024
        d3 == d2 - (a * 3) \div 16
        a1 == a - (d3 * 3) \div 8
        d  == a1 \div 2 - d3
    IN  <<a1 - d, d>>

strHSTdec1_alternate(a0, d0) ==
    LET a1 == a0 + d0
        d1 == a1 \div 2 - d0
        a  == a1 + (d1 * 3) \div 8
        d2 == d1 + (a * 3) \div 16
        d3 == d2 + a \div 128
    IN  <<a, d3 - a \div 1024>>

strHSTenc1_edge(a0, d0) ==
    LET a1 == a0 + d0
        d1 == a1 \div 2 - d0
    IN  strHSTenc1(a1 - (d1 * 3 + 4) \div 8, d1)

strHSTdec1_edge(a0, d0) ==
    LET ad == strHSTdec1_alternate(a0, d0)
        a  == ad[1] + (ad[2] * 3 + 4) \div 8
        d  == ad[2] - a \div 2
    IN  <<a + d, -d>>

-----------------------------------------------------------------------------
(* The overlap filters of two, two by two and four coefficients.           *)

strPre2(a0, b0) ==
    LET b1 == b0 - (a0 + 2) \div 4
        a1 == a0 - (b1 + 1) \div 2
        a2 == a1 - b1 \div 32
        a3 == a2 - b1 \div 512
        a  == a3 - b1 \div 8192
    IN  <<a, b1 - (a + 2) \div 4>>

strPost2_alternate(a0, b0) ==
    LET b1 == b0 + (a0 + 2) \div 4
        a1 == a0 + (b1 + 1) \div 2
        a2 == a1 + b1 \div 32
        a3 == a2 + b1 \div 512
        a  == a3 + b1 \div 8192
    IN  <<a, b1 + (a + 2) \div 4>>

strPre2x2(q) ==
    LET l  == Lift(q)
        ab == strPre2(l[1], l[2])
    IN  Unlift(<<ab[1], ab[2], l[3], l[4]>>)

strPost2x2_alternate(q) ==
    LET l  == Lift(q)
        ab == strPost2_alternate(l[1], l[2])
    IN  Unlift(<<ab[1], ab[2], l[3], l[4]>>)

strPre4(q) ==
    LET l  == Lift(q)
        cd == ROTATE1(l[3], l[4])
        ad == strHSTenc1_edge(l[1], cd[2])
        bc == strHSTenc1_edge(l[2], cd[1])
    IN  Unlift(<<ad[1], bc[1], bc[2], ad[2]>>)

strPost4_alternate(q) ==
    LET l  == Lift(q)
        ad == strHSTdec1_edge(l[1], l[4])
        bc == strHSTdec1_edge(l[2], l[3])
        cd == IROTATE1(bc[2], ad[2])
    IN  Unlift(<<ad[1], bc[1], cd[1], cd[2]>>)

-----------------------------------------------------------------------------
(* The transforms of sixteen coefficients, as four rows of four: strDCT2x2 *)
(* and the scalings combine the rows column by column, the rotations work  *)
(* inside a row.  In a block the rows are p[0..3], p[4..7], p[8..11] and   *)
(* p[12..15].  The second stage has the DC coefficients of the sixteen     *)
(* blocks, in the rows p[0 64 16 80], p[192 128 208 144], p[48 112 32 96]  *)
(* and p[240 176 224 160]: with these it is the transform of a block.      *)

Column(m, j) == <<m[1][j], m[2][j], m[3][j], m[4][j]>>

\* The matrix with these four columns.
FromColumns(c1, c2, c3, c4) ==
    <<<<c1[1], c2[1], c3[1], c4[1]>>, <<c1[2], c2[2], c3[2], c4[2]>>,
      <<c1[3], c2[3], c3[3], c4[3]>>, <<c1[4], c2[4], c3[4], c4[4]>>>>

FOURBUTTERFLY(m) ==
    FromColumns(strDCT2x2dn(Column(m, 1)), strDCT2x2dn(Column(m, 2)),
                strDCT2x2dn(Column(m, 3)), strDCT2x2dn(Column(m, 4)))

\* The orders in which the rotations take the rows 2, 3 and 4; each with its inverse.
Pairs(q)   == <<q[2], q[1], q[4], q[3]>>
Zigzag(q)  == <<q[3], q[1], q[4], q[2]>>
Unzigzag(q) == <<q[2], q[4], q[1], q[3]>>
Backwards(q) == <<q[4], q[3], q[2], q[1]>>

strDCT4x4Stage1(m0) ==
    LET m == FOURBUTTERFLY(m0)
    IN  <<strDCT2x2up(m[1]), Pairs(fwdOdd(Pairs(m[2]))),
          Unzigzag(fwdOdd(Zigzag(m[3]))), Backwards(fwdOddOdd(Backwards(m[4])))>>

strIDCT4x4Stage1(m) ==
    FOURBUTTERFLY(<<strDCT2x2up(m[1]), Pairs(invOdd(Pairs(m[2]))),
                    Unzigzag(invOdd(Zigzag(m[3]))), Backwards(invOddOdd(Backwards(m[4])))>>)

-----------------------------------------------------------------------------
(* The overlap filter of four by four coefficients.  The rows are one      *)
(* quarter of each of the four blocks around a corner: above left, above   *)
(* right, below left, below right.  At the second level they are the DC    *)
(* coefficients of four blocks of each of four macroblocks, and the last   *)
(* butterflies name the two middle rows in the other order.                *)

Scaled(q0) ==
    LET q  == strHSTenc(q0)
        ad == strHSTenc1(q[1], q[4])
    IN  <<ad[1], q[2], q[3], ad[2]>>

Unscaled(q) ==
    LET ad == strHSTdec1_alternate(q[1], q[4])
    IN  strHSTdec(<<ad[1], q[2], q[3], ad[2]>>)

RotateAcross(q) ==
    LET u == ROTATE1(q[2], q[4])
        v == ROTATE1(q[1], q[3])
    IN  <<v[1], u[1], v[2], u[2]>>

UnrotateAcross(q) ==
    LET u == IROTATE1(q[2], q[4])
        v == IROTATE1(q[1], q[3])
    IN  <<v[1], u[1], v[2], u[2]>>

RotateAlong(q) ==
    LET u == ROTATE1(q[3], q[4])
        v == ROTATE1(q[1], q[2])
    IN  <<v[1], v[2], u[1], u[2]>>

UnrotateAlong(q) ==
    LET u == IROTATE1(q[3], q[4])
        v == IROTATE1(q[1], q[2])
    IN  <<v[1], v[2], u[1], u[2]>>

ScaleColumns(m) ==
    FromColumns(Scaled(Column(m, 1)), Scaled(Column(m, 2)),
                Scaled(Column(m, 3)), Scaled(Column(m, 4)))

UnscaleColumns(m) ==
    FromColumns(Unscaled(Column(m, 1)), Unscaled(Column(m, 2)),
                Unscaled(Column(m, 3)), Unscaled(Column(m, 4)))

RotateRows(m) ==
    <<m[1], RotateAcross(m[2]), RotateAlong(m[3]), fwdOddOddPre(m[4])>>

UnrotateRows(m) ==
    <<m[1], UnrotateAcross(m[2]), UnrotateAlong(m[3]), invOddOddPost(m[4])>>

\* The two middle rows change places.
Exchanged(m) == <<m[1], m[3], m[2], m[4]>>

strPre4x4Stage1Split(m) == FOURBUTTERFLY(RotateRows(ScaleColumns(m)))
strPre4x4Stage2Split(m) ==
    Exchanged(FOURBUTTERFLY(Exchanged(RotateRows(ScaleColumns(m)))))
strPost4x4Stage1Split_alternate(m) == UnscaleColumns(UnrotateRows(FOURBUTTERFLY(m)))

=============================================================================
