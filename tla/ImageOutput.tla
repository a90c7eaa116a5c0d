----------------------------- MODULE ImageOutput -----------------------------
(***************************************************************************)
(* From the codec's planes to the caller's buffer: the scale and the       *)
(* region that were asked for, the tables of offsets for the orientation,  *)
(* the interpolation of chrominance and outputMBRow                        *)
(* (image/decode/strdec.c).                                                *)
(*                                                                         *)
(* A picture has, besides the fields ImageRows gives it,                   *)
(*   or         orientation, 0 to 7: a turn by 90 degrees clockwise (4 and *)
(*              more), then flips vertically (1) and horizontally (2)      *)
(*   ask        what the caller asks for: scale, left, top, width, height  *)
(*   extra      left, top, right, bottom: pixels around the inscribed image *)
(*   frequency  the bitstream is in frequency order                        *)
(*   overlap    0, 1 or 2                                                  *)
(***************************************************************************)
EXTENDS ImageRows, SequencesExt

-----------------------------------------------------------------------------
(* What is asked for: in pixels of the scaled image.  w and h count the    *)
(* extra pixels, as they do while the codec works.                         *)

Inscribed(p) == [w |-> p.w - p.extra[1] - p.extra[3], h |-> p.h - p.extra[2] - p.extra[4]]

CalcThumbnailSize(p) ==
    LET a == p.ask.scale
        s == CASE a > 16 -> 16 [] a < 1 -> 1
               [] \E k \in 0 .. 3 : 2 ^ k >= a -> Min({2 ^ k : k \in {j \in 0 .. 3 : 2 ^ j >= a}})
               [] OTHER -> a
        Up(n) == (n + s - 1) \div s
    IN  [w |-> Up(Inscribed(p).w), h |-> Up(Inscribed(p).h)]

\* WMPhotoValidate: the region, kept inside the scaled image; none is all of it.
Region(p) ==
    LET t    == CalcThumbnailSize(p)
        none == p.ask.width = 0 \/ p.ask.height = 0
        l    == IF none \/ p.ask.left >= t.w THEN 0 ELSE p.ask.left
        u    == IF none \/ p.ask.top >= t.h THEN 0 ELSE p.ask.top
    IN  [left |-> l, top |-> u, width  |-> IF none THEN t.w ELSE Least(p.ask.width, t.w - l),
                                height |-> IF none THEN t.h ELSE Least(p.ask.height, t.h - u)]

\* The smallest power of two that covers the inscribed width.
cThumbnailScale(p) ==
    LET t == CalcThumbnailSize(p) IN Min({s \in {2 ^ k : k \in 0 .. 5} : s * t.w >= Inscribed(p).w})

\* The region g at the scale s, in pixels of the image.
ROI(p, s, g) ==
    LET l == g.left * s + p.extra[1]
        u == g.top * s + p.extra[2]
        r == Least(l + g.width * s, p.w) - 1
        b == Least(u + g.height * s, p.h) - 1
        wide == (r + 15) \div 16 >= (p.w + 14) \div 16
    IN  [scale |-> s, left |-> l, top |-> u, right |-> r, bottom |-> b, roi |-> g,
         full  |-> l + u = 0 /\ wide /\ (b + 15) \div 16 >= (p.h + 14) \div 16,
         fullWidth |-> l = 0 /\ wide,
         bDecodeHP |-> ~(p.frequency /\ s >= 4), bDecodeLP |-> ~(p.frequency /\ s >= 16)]
setROI(p) == ROI(p, cThumbnailScale(p), Region(p))

-----------------------------------------------------------------------------
(* initLookupTables: for every column and row of the (scaled) image the    *)
(* place of its samples in the buffer, in elements; in bits or bytes for   *)
(* one bit to a pixel.                                                     *)

ReverseX(o) == o \in {2, 3, 5, 7}
ReverseY(o) == o \in {1, 3, 4, 5}

initLookupTables(p, d) ==
    LET t   == CalcThumbnailSize(p)
        dw  == (d.left + d.scale - 1) \div d.scale
        dh  == (d.top + d.scale - 1) \div d.scale
        hx  == IF Subsampled(p.cfExt) THEN 2 ELSE 1
        hy  == IF p.cfExt = "YUV_420" THEN 2 ELSE 1
        w   == ((IF d.scale > 1 THEN t.w ELSE p.w) + dw) \div hx
        h   == ((IF d.scale > 1 THEN t.h ELSE p.h) + dh) \div hy
        sx  == IF p.or > 3 THEN p.stride ELSE p.els
        sy  == IF p.or > 3 THEN p.els ELSE p.stride
        Final(n, lo, hi, part) == (IF d.full THEN n ELSE (((hi - lo + d.scale) \div d.scale) \div part)) - 1
    IN  [x |-> [i \in (IF d.full THEN 0 ELSE dw) .. w - 1 |-> LET n == IF d.full THEN i ELSE i - dw IN
                    p.pad + (IF ReverseX(p.or) THEN Final(w, d.left, d.right, hx) - n ELSE n) * sx],
         y |-> [i \in (IF d.full THEN 0 ELSE dh) .. h - 1 |-> LET n == IF d.full THEN i ELSE i - dh IN
                    (IF ReverseY(p.or) THEN Final(h, d.top, d.bottom, hy) - n ELSE n) * sy]]

-----------------------------------------------------------------------------
(* interpolateUV: the missing columns and rows are the means of their      *)
(* neighbours; the last ones repeat.  below is the next row of             *)
(* macroblocks.                                                            *)

Mean(a, b) == (a + b + 1) \div 2

\* Row r of the chrominance, at half the columns.
RowOfUV(p, here, below, last, r, j) ==
    CASE p.cfInt = "YUV_422" -> here[C422(r, j)]
      [] r % 2 = 0           -> here[C420(r \div 2, j)]
      [] r = 15              -> IF last THEN here[C420(7, j)] ELSE Mean(below[C420(0, j)], here[C420(7, j)])
      [] OTHER               -> Mean(here[C420(r \div 2, j)], here[C420(r \div 2 + 1, j)])

interpolateUV(p, here, below, last) ==
    LET s    == Chroma(p.cfExt)
        half == [k \in Cells(p, Chroma("YUV_422")) |->
                    RowOfUV(p, here, below, last, RowOf(k, Chroma("YUV_422")), ColOf(k, Chroma("YUV_422")))]
        At(r, x) == CASE x % 2 = 0                   -> half[C422(r, x \div 2)]
                      [] x + 1 = cmbWidth(p) * 16    -> half[C422(r, x \div 2)]
                      [] OTHER                       -> Mean(half[C422(r, x \div 2)], half[C422(r, x \div 2 + 1)])
    IN  IF p.cfExt = "YUV_422" THEN half ELSE [k \in Cells(p, s) |-> At(RowOf(k, s), ColOf(k, s))]

-----------------------------------------------------------------------------
(* From the values of a pixel to its elements.                             *)

cfOut(p) == IF p.cfInt = "Y_ONLY" THEN "Y_ONLY" ELSE p.cfExt

Rounding(p) == IF ~p.scaled THEN 0 ELSE IF p.bd \in {"BD_16", "BD_32"} THEN 4 ELSE 3
iBias(p)    == Rounding(p) + Offset(p)

\* One sample as its depth stores it.
Stored(p, v) ==
    CASE p.bd = "BD_8"              -> CLIP8(v)
      [] p.bd = "BD_16"             -> CLIPU16(v * 2 ^ p.len)
      [] p.bd = "BD_16S"            -> CLIP16(v * 2 ^ p.len)
      [] p.bd \in {"BD_32", "BD_32S"} -> v * 2 ^ p.len
      [] p.bd = "BD_16F"            -> backwardHalf(v)
      [] p.bd = "BD_32F"            -> pixel2float(v, p.bias, p.len)

\* A pixel's values in the buffer's format, without the fraction.
ToRGB(p, v) == LET c == ICC(<<-v[2], v[1] + iBias(p), v[3]>>) IN [i \in 1 .. 3 |-> c[i] \div S(p)]

ToCMYK(p, v) == LET c == ICC_CMYK(<<v[2], Offset(p) - v[1], -v[3], v[4] + Rounding(p)>>) IN [i \in 1 .. 4 |-> c[i] \div S(p)]

outputNChannel(p, v) == [i \in DOMAIN v |-> Stored(p, (v[i] + iBias(p)) \div S(p))]

outputRGBE(p, v) ==
    LET c == ICC(<<-v[2], v[1] + Rounding(p), v[3]>>) IN inverseConvertRGBE([i \in 1 .. 3 |-> c[i] \div S(p)])

\* The elements of a pixel, by depth.
output8(p, v) ==
    LET c == ToRGB(p, v)
    IN  CASE cfOut(p) = "CF_RGB"  -> IF p.rgb THEN [i \in 1 .. 3 |-> CLIP8(c[i])] ELSE [i \in 1 .. 3 |-> CLIP8(c[4 - i])]
          [] cfOut(p) = "CMYK"    -> [i \in 1 .. 4 |-> CLIP8(ToCMYK(p, v)[i])]
          [] cfOut(p) = "CF_RGBE" -> outputRGBE(p, v)
          [] OTHER                -> outputNChannel(p, v)

output16(p, v) ==
    CASE cfOut(p) = "CF_RGB" -> [i \in 1 .. 3 |-> CLIPU16(ToRGB(p, v)[i] * 2 ^ p.len)]
      [] cfOut(p) = "CMYK"   -> [i \in 1 .. 4 |-> CLIPU16(ToCMYK(p, v)[i] * 2 ^ p.len)]
      [] OTHER               -> outputNChannel(p, v)

\* Of CMYK the low 16 bits are kept.
output16S(p, v) ==
    CASE cfOut(p) = "CF_RGB" -> [i \in 1 .. 3 |-> CLIP16(ToRGB(p, v)[i] * 2 ^ p.len)]
      [] cfOut(p) = "CMYK"   -> [i \in 1 .. 4 |-> ((ToCMYK(p, v)[i] * 2 ^ p.len + 2 ^ 15) % 2 ^ 16) - 2 ^ 15]
      [] OTHER               -> outputNChannel(p, v)

output16F(p, v) == IF cfOut(p) = "CF_RGB" THEN [i \in 1 .. 3 |-> backwardHalf(ToRGB(p, v)[i])] ELSE outputNChannel(p, v)
output32(p, v)  == IF cfOut(p) = "CF_RGB" THEN [i \in 1 .. 3 |-> ToRGB(p, v)[i] * 2 ^ p.len] ELSE outputNChannel(p, v)
output32S(p, v) == IF cfOut(p) = "CF_RGB" THEN [i \in 1 .. 3 |-> ToRGB(p, v)[i] * 2 ^ p.len] ELSE outputNChannel(p, v)
output32F(p, v) ==
    IF cfOut(p) = "CF_RGB" THEN [i \in 1 .. 3 |-> pixel2float(ToRGB(p, v)[i], p.bias, p.len)] ELSE outputNChannel(p, v)

\* The words of 555, 565 and 101010.
Swap(p, c) == IF p.swapped THEN <<c[3], c[2], c[1]>> ELSE c

Word555(s)    == s[1] + s[2] * 32 + s[3] * 1024
Word565(s)    == s[1] + s[2] * 32 + s[3] * 2048
Word101010(s) == [b |-> s[1], g |-> s[2], r |-> s[3]]

output555(p, v)    == LET c == ToRGB(p, v) IN Word555(Swap(p, [i \in 1 .. 3 |-> CLIP(0, c[i], 31)]))
output565(p, v)    == LET c == ToRGB(p, v)
                      IN  Word565(Swap(p, <<CLIP(0, c[1] \div 2, 31), CLIP(0, c[2], 63), CLIP(0, c[3] \div 2, 31)>>))
output101010(p, v) == LET c == ToRGB(p, v) IN Word101010(Swap(p, [i \in 1 .. 3 |-> CLIP(0, c[i], 1023)]))

PixelOut(p, v) ==
    CASE p.yuv           -> v
      [] p.bd = "BD_8"   -> output8(p, v)
      [] p.bd = "BD_16"  -> output16(p, v)
      [] p.bd = "BD_16S" -> output16S(p, v)
      [] p.bd = "BD_16F" -> output16F(p, v)
      [] p.bd = "BD_32"  -> output32(p, v)
      [] p.bd = "BD_32S" -> output32S(p, v)
      [] p.bd = "BD_32F" -> output32F(p, v)
      [] p.bd = "BD_5"   -> <<output555(p, v)>>
      [] p.bd = "BD_565" -> <<output565(p, v)>>
      [] p.bd = "BD_10"  -> <<output101010(p, v)>>

\* Slip of the code: of 16 bits, the offset is not shifted with the samples.
outputAlpha(p, a) ==
    LET bias == IF p.bd = "BD_8" THEN 128 * S(p) ELSE IF p.bd = "BD_16" THEN 2 ^ 15 * S(p) ELSE 0
    IN  Stored(p, (a + bias + (IF p.scaled THEN 4 ELSE 0)) \div S(p))

\* A sample of subsampled formats.
outputYUV(p, v) == IF p.yuv THEN v ELSE Stored(p, (v + iBias(p)) \div S(p))

-----------------------------------------------------------------------------
(* The units a row writes: their place, and their elements.                *)

\* The rows of a row of macroblocks that are in the region; they are called by the number of the row that follows.
RowsOf(p, d, cRow) ==
    LET above == (cRow - 1) * 16
    IN  [first |-> IF above > d.top THEN 0 ELSE d.top % 16, height |-> Least(d.bottom + 1 - above, 16)]

\* The buffer of values is written line by line from its start, without orientation.
Place(p, d, t, cRow, r, x) ==
    LET cf    == IF p.yuv THEN p.cfInt ELSE cfOut(p)
        lines == IF cf = "YUV_420" THEN 8 ELSE 16
        up    == IF cf = "YUV_420" THEN 2 ELSE 1
    IN  IF p.yuv THEN ((cRow - 1) * lines + (r - RowsOf(p, d, cRow).first) \div up) * p.stride
                      + ((x - d.left) \div (IF Subsampled(cf) THEN 2 ELSE 1)) * p.els
        ELSE t.x[IF Subsampled(cf) THEN x \div 2 ELSE x] + t.y[(cRow - 1) * lines + r \div up]

\* Mutant of iS4: the samples of turned units stay where they are.
iS4_Unturned == [o \in 1 .. 8 |-> IF o <= 4 THEN <<<<0, 1, 2, 3>>, <<2, 3, 0, 1>>, <<1, 0, 3, 2>>, <<3, 2, 1, 0>>>>[o] ELSE <<0, 1, 2, 3>>]

\* Where the four samples of luminance of a YUV_420 unit go.
iS4 == <<<<0, 1, 2, 3>>, <<2, 3, 0, 1>>, <<1, 0, 3, 2>>, <<3, 2, 1, 0>>, <<1, 3, 0, 2>>, <<3, 1, 2, 0>>, <<0, 2, 1, 3>>, <<2, 0, 3, 1>>>>

unit422(p, a, r, x) ==
    LET Y(i) == outputYUV(p, a[1][Full(r, x + i)])
        C(c) == outputYUV(p, a[c][C422(r, x \div 2)])
        Turned16(els) == IF p.bd = "BD_16" /\ ~p.yuv /\ ReverseX(p.or) THEN <<els[2], els[1], els[3], els[4]>> ELSE els
    IN  Turned16(<<C(2), Y(0), C(3), Y(1)>>)

\* Slip of the code: 16-bit chrominance is looked up as if it had 16 rows.
unit420(p, a, r, x) ==
    LET Y(i) == outputYUV(p, a[1][Full(r + i \div 2, x + (i % 2))])
        at   == IF p.bd = "BD_16" /\ ~p.yuv THEN (x \div 8) * 64 + idxCC(r, (x \div 2) % 8) ELSE C420(r \div 2, x \div 2)
        to   == iS4[(IF p.yuv THEN 0 ELSE p.or) + 1]
    IN  [i \in 1 .. 4 |-> Y((CHOOSE k \in 1 .. 4 : to[k] = i - 1) - 1)] \o <<outputYUV(p, a[2][at]), outputYUV(p, a[3][at])>>

Unit(p, a, r, x) ==
    LET cf == IF p.yuv THEN p.cfInt ELSE cfOut(p)
    IN  CASE cf = "YUV_422" -> unit422(p, a, r, x)
          [] cf = "YUV_420" -> unit420(p, a, r, x)
          [] OTHER          -> PixelOut(p, [c \in DOMAIN a |-> a[c][Full(r, x)]])

\* Writes are <<place, value>>, or <<byte, bit, value>>.
Put(pv, ws) ==
    LET Bit(old, n, v) == old + (v - ((old \div 2 ^ n) % 2)) * 2 ^ n
        put[n \in 0 .. Len(ws)] ==
            IF n = 0 THEN pv
            ELSE IF Len(ws[n]) = 2 THEN [put[n - 1] EXCEPT ![ws[n][1]] = ws[n][2]]
            ELSE [put[n - 1] EXCEPT ![ws[n][1]] = Bit(@, ws[n][2], ws[n][3])]
    IN  IF DOMAIN pv = {} THEN pv ELSE put[Len(ws)]

Writes(at, els) == [i \in DOMAIN els |-> <<at + i - 1, els[i]>>]

\* One bit: its byte, its place in it and its value.
BitAt(p, ox, oy, set) ==
    IF p.or < 4 THEN <<(ox \div 8) + oy, 7 - (ox % 8), IF set THEN 1 ELSE 0>>
    ELSE <<ox + oy \div 8, 7 - (oy % 8), IF set THEN 1 ELSE 0>>

\* Slip of the code: leading padding is counted twice.
outputBit(p, t, cRow, a, r, x) ==
    BitAt(p, t.x[x], t.y[(cRow - 1) * 16 + r] + p.pad, (a[1][Full(r, x)] >= (IF p.scaled THEN 4 ELSE 1)) # p.black)

\* The fourth element, or after CMYK the fifth.
outputMBRowAlpha(p, t, cRow, alpha, r, x) ==
    <<t.x[x] + t.y[(cRow - 1) * 16 + r] + AlphaPos(p) - 1, outputAlpha(p, alpha[Full(r, x)])>>

\* Gray for a buffer of RGB: the first element is copied, per row of macroblocks (REENTRANT_MODE) or at the end.
Spread(p) == p.cfExt = "CF_RGB" /\ p.cfInt = "Y_ONLY" /\ p.bd \notin {"BD_5", "BD_565", "BD_10"}

fixupFullSize(p, els) == IF Spread(p) /\ p.reentrant THEN <<els[1], els[1], els[1]>> ELSE els

\* Slip of the code: the region's width and height are taken for those of the turned image.
fixup_Y_ONLY_to_Others(p, d, pv) ==
    IF Spread(p) /\ ~p.reentrant
    THEN [k \in DOMAIN pv |-> LET line == k \div p.stride
                                  x    == (k % p.stride) \div p.els
                                  i    == (k % p.stride) % p.els
                              IN  IF line < d.roi.height /\ x < d.roi.width /\ i \in {1, 2} THEN pv[k - i] ELSE pv[k]]
    ELSE pv

\* outputMBRow: row cRow - 1 of macroblocks, of which here are the planes and below those of the next one.
outputMBRow(p, d, t, cRow, here, below, alpha, pv) ==
    LET m     == RowsOf(p, d, cRow)
        cf    == IF p.yuv THEN p.cfInt ELSE cfOut(p)
        planes == IF UVResolutionChange(p)
                  THEN [c \in DOMAIN here |-> IF c \in {2, 3} THEN interpolateUV(p, here[c], below[c], cRow = cmbHeight(p)) ELSE here[c]]
                  ELSE here
        sx    == IF Subsampled(cf) THEN 2 ELSE 1
        sy    == IF cf = "YUV_420" THEN 2 ELSE 1
        At(r, x) ==
            IF p.bd = "BD_1" THEN <<outputBit(p, t, cRow, planes, r, x)>>
            ELSE Writes(Place(p, d, t, cRow, r, x), fixupFullSize(p, Unit(p, planes, r, x)))
                 \o (IF p.alpha THEN <<outputMBRowAlpha(p, t, cRow, alpha, r, x)>> ELSE <<>>)
        rows  == (m.height - m.first + sy - 1) \div sy
        cols  == (d.right - d.left) \div sx + 1
        out[n \in 0 .. rows] ==
            IF n = 0 THEN pv
            ELSE Put(out[n - 1], FlattenSeq([x \in 1 .. cols |-> At(m.first + (n - 1) * sy, d.left + (x - 1) * sx)]))
    IN  IF checkImageBuffer(p, IF p.or > 3 THEN d.roi.height ELSE d.roi.width, m.height - m.first, p.lines)
        THEN [ok |-> TRUE, pv |-> out[rows], cLinesDecoded |-> m.height - m.first]
        ELSE [ok |-> FALSE, pv |-> pv, cLinesDecoded |-> 0]

-----------------------------------------------------------------------------
(* Scaled output: decodeThumbnail takes every tScale-th sample of the      *)
(* planes, undoes the gain of the transform levels that were left out and  *)
(* stores the pixel.                                                       *)

\* C's division, towards zero.
Quotient(a, b) == IF a < 0 THEN -((-a) \div b) ELSE a \div b

-----------------------------------------------------------------------------
(* The gain: cMul / 2^rShift.                                              *)

cMul(p, d) == CASE d.scale >= 16 -> <<16, 23, 34>>[p.overlap + 1]
                [] d.scale >= 4  -> IF p.overlap = 0 THEN 64 ELSE 93
                [] OTHER         -> 258

Fraction(p) == IF p.scaled THEN 3 ELSE 0
rShiftY(p) == 8 + Fraction(p)
rShiftUV(p, d) == rShiftY(p) - (IF ~p.scaled \/ d.scale < 16 THEN 0 ELSE IF p.cfInt \in {"YUV_420", "YUV_422"} THEN 2 ELSE 1)

Luminance(p, d, v)   == (v * cMul(p, d)) \div 2 ^ rShiftY(p)
Chrominance(p, d, v) == (v * cMul(p, d)) \div 2 ^ rShiftUV(p, d)

\* Mutant of LevelOf: added before the gain, but not divided by it.
LevelUngained(p, d, level, shift) == level * 2 ^ (shift - 8)

\* The planes' equivalent of a level of the stored samples.
LevelOf(p, d, level, shift) == Quotient(level * 2 ^ shift, cMul(p, d))

-----------------------------------------------------------------------------
(* Pixels.                                                                 *)

\* Slip of the code: of 16 bits, the level is not shifted with the samples; all channels have the gain of the luminance.
outputNChannelThumbnail(p, d, v) ==
    LET level == CASE p.bd = "BD_8" -> 128 [] p.bd = "BD_16" -> 32768 [] p.bd = "BD_32" -> -(2 ^ 30 \div 2 ^ (p.len - 1)) [] OTHER -> 0
    IN  [i \in DOMAIN v |-> Stored(p, Luminance(p, d, v[i] + LevelOf(p, d, level, rShiftY(p))))]

ThumbRGB(p, d, v, level) ==
    ICC(<<Chrominance(p, d, -v[2]), Luminance(p, d, v[1] + LevelOf(p, d, level, rShiftY(p))), Chrominance(p, d, v[3])>>)

ThumbRGBE(p, d, v) ==
    inverseConvertRGBE(ICC(<<-Chrominance(p, d, v[2]), Luminance(p, d, v[1]), Chrominance(p, d, v[3])>>))

\* Slip of the code: half the level is added to black, which the full size does not.
ThumbCMYK(p, d, v, level) ==
    ICC_CMYK(<<Chrominance(p, d, v[2]), Luminance(p, d, LevelOf(p, d, level, rShiftY(p)) - v[1]), Chrominance(p, d, -v[3]),
               Chrominance(p, d, v[4] + LevelOf(p, d, level, rShiftUV(p, d)) \div 2)>>)

Thumb8(p, d, v) ==
    LET c == ThumbRGB(p, d, v, 128)
    IN  CASE cfOut(p) = "CF_RGB"  -> IF p.rgb THEN [i \in 1 .. 3 |-> CLIP8(c[i])] ELSE [i \in 1 .. 3 |-> CLIP8(c[4 - i])]
          [] cfOut(p) = "CF_RGBE" -> ThumbRGBE(p, d, v)
          [] cfOut(p) = "CMYK"    -> [i \in 1 .. 4 |-> CLIP8(ThumbCMYK(p, d, v, 128)[i])]
          [] OTHER                -> outputNChannelThumbnail(p, d, v)

Thumb16(p, d, v) ==
    CASE cfOut(p) = "CF_RGB" -> [i \in 1 .. 3 |-> Stored(p, ThumbRGB(p, d, v, 2 ^ 15 \div 2 ^ p.len)[i])]
      [] cfOut(p) = "CMYK"   -> [i \in 1 .. 4 |-> Stored(p, ThumbCMYK(p, d, v, 32768)[i])]
      [] OTHER               -> outputNChannelThumbnail(p, d, v)

Thumb16S(p, d, v) ==
    CASE cfOut(p) = "CF_RGB" -> [i \in 1 .. 3 |-> Stored(p, ThumbRGB(p, d, v, 0)[i])]
      [] cfOut(p) = "CMYK"   -> [i \in 1 .. 4 |-> Stored(p, ThumbCMYK(p, d, v, 0)[i])]
      [] OTHER               -> outputNChannelThumbnail(p, d, v)

ThumbRGBOr(p, d, v, level) ==
    IF cfOut(p) = "CF_RGB" THEN [i \in 1 .. 3 |-> Stored(p, ThumbRGB(p, d, v, level)[i])] ELSE outputNChannelThumbnail(p, d, v)

Thumb16F(p, d, v) == ThumbRGBOr(p, d, v, 0)
Thumb32(p, d, v)  == ThumbRGBOr(p, d, v, -(2 ^ 30 \div 2 ^ (p.len - 1)))
Thumb32S(p, d, v) == ThumbRGBOr(p, d, v, 0)
Thumb32F(p, d, v) == ThumbRGBOr(p, d, v, 0)

\* Slip of the code: red and blue are never exchanged here.
Thumb555(p, d, v)    == LET c == ThumbRGB(p, d, v, 16) IN <<Word555([i \in 1 .. 3 |-> CLIP(0, c[i], 31)])>>
Thumb565(p, d, v)    == LET c == ThumbRGB(p, d, v, 32)
                        IN  <<Word565(<<CLIP(0, Quotient(c[1], 2), 31), CLIP(0, c[2], 63), CLIP(0, Quotient(c[3], 2), 31)>>)>>
Thumb101010(p, d, v) == LET c == ThumbRGB(p, d, v, 512) IN <<Word101010([i \in 1 .. 3 |-> CLIP(0, c[i], 1023)])>>

ThumbPixel(p, d, v) ==
    CASE p.bd = "BD_8"   -> Thumb8(p, d, v)
      [] p.bd = "BD_16"  -> Thumb16(p, d, v)
      [] p.bd = "BD_16S" -> Thumb16S(p, d, v)
      [] p.bd = "BD_16F" -> Thumb16F(p, d, v)
      [] p.bd = "BD_32"  -> Thumb32(p, d, v)
      [] p.bd = "BD_32S" -> Thumb32S(p, d, v)
      [] p.bd = "BD_32F" -> Thumb32F(p, d, v)
      [] p.bd = "BD_5"   -> Thumb555(p, d, v)
      [] p.bd = "BD_565" -> Thumb565(p, d, v)
      [] p.bd = "BD_10"  -> Thumb101010(p, d, v)

-----------------------------------------------------------------------------
(* Chrominance of subsampled codecs at the places that are taken: copied,  *)
(* and at a scale of 4 interpolated where the codec has no sample of its   *)
(* own.                                                                    *)

CopiedUV(p, here, r, x) == IF p.cfInt = "YUV_422" THEN here[C422(r, x \div 2)] ELSE here[C420(r \div 2, x \div 2)]

\* Columns of multiples of 8.
ColumnUV(p, here, r, x) ==
    CASE p.cfInt = "YUV_420" /\ r = 4  -> Mean(CopiedUV(p, here, 0, x), CopiedUV(p, here, 8, x))
      [] p.cfInt = "YUV_420" /\ r = 12 -> CopiedUV(p, here, 8, x)
      [] OTHER                         -> CopiedUV(p, here, r, x)

ThumbUV(p, d, width, here, r, x) ==
    IF d.scale # 4 THEN CopiedUV(p, here, r, x)
    ELSE IF x % 8 = 0 THEN ColumnUV(p, here, r, x)
    ELSE IF x - 4 < width - 8 THEN Mean(ColumnUV(p, here, r, x - 4), ColumnUV(p, here, r, x + 4))
    ELSE ColumnUV(p, here, r, x - 4)

-----------------------------------------------------------------------------
(* Rows.                                                                   *)

\* The rows and columns taken: all of the image's or the region's.
ThumbArea(p, d, cRow) ==
    LET above == (cRow - 1) * 16
        Up(n) == ((n + d.scale - 1) \div d.scale) * d.scale
    IN  [height |-> Least((IF d.full THEN p.h ELSE d.bottom + 1) - above, 16), width |-> IF d.full THEN p.w ELSE d.right + 1,
         row |-> Up(IF above > d.top THEN 0 ELSE d.top % 16), column |-> Up(d.left)]

ThumbAt(d, t, cRow, r, x) == t.x[x \div d.scale] + t.y[r \div d.scale + ((cRow - 1) * 16) \div d.scale]

\* The interleaved alpha plane.
ThumbAlpha(p, d, a) ==
    LET level == CASE p.bd = "BD_8" -> 128 [] p.bd = "BD_16" -> 32768 [] OTHER -> 0
    IN  Stored(p, Luminance(p, d, a + LevelOf(p, d, level, rShiftY(p))))

decodeThumbnailAlpha(p, d, t, cRow, alpha, r, x) ==
    IF p.alpha /\ r < Least(d.bottom + 1 - (cRow - 1) * 16, 16) /\ x <= d.right
    THEN <<<<ThumbAt(d, t, cRow, r, x) + AlphaPos(p) - 1, ThumbAlpha(p, d, alpha[Full(r, x)])>>>> ELSE <<>>

\* One bit: the sign.
ThumbBit(p, d, t, cRow, y, r, x) ==
    BitAt(p, t.x[x \div d.scale], t.y[r \div d.scale + ((cRow - 1) * 16) \div d.scale] + p.pad, (y > 0) # p.black)

\* Gray for a buffer of RGB.
\* Slip of the code: in the order BGR the two elements nobody wrote are copied.  (Of more than 8 bits the places
\* are taken for bytes, which is not modelled.)
fixupThumb(p, old, gray) ==
    IF ~(Spread(p) /\ p.reentrant) THEN <<gray>>
    ELSE IF p.rgb THEN <<gray, gray, gray>> ELSE <<old, old, old>>

decodeThumbnail(p, d, t, cRow, here, alpha, pv) ==
    LET m  == ThumbArea(p, d, cRow)
        UV == p.cfInt \in {"YUV_422", "YUV_420"} /\ cfOut(p) # "Y_ONLY"
        V(r, x) == [c \in DOMAIN here |-> IF UV /\ c > 1 THEN ThumbUV(p, d, m.width, here[c], r, x) ELSE here[c][Full(r, x)]]
        N  == cfOut(p) \in {"Y_ONLY", "YUV_444", "NCOMPONENT"}
        Taken(r, x) == ~N \/ (r < Least(d.bottom + 1 - (cRow - 1) * 16, 16) /\ x <= d.right)
        Fixed(e, r, x) == IF Len(e) = 1 /\ cfOut(p) = "Y_ONLY" THEN fixupThumb(p, pv[ThumbAt(d, t, cRow, r, x) + 2], e[1]) ELSE e
        Els(r, x) == Fixed(ThumbPixel(p, d, V(r, x)), r, x)
        At(r, x) == IF p.bd = "BD_1" THEN <<ThumbBit(p, d, t, cRow, here[1][Full(r, x)], r, x)>>
                    ELSE (IF Taken(r, x) THEN Writes(ThumbAt(d, t, cRow, r, x), Els(r, x)) ELSE <<>>)
                         \o decodeThumbnailAlpha(p, d, t, cRow, alpha, r, x)
        rows == (m.height - m.row + d.scale - 1) \div d.scale
        cols == (m.width - m.column + d.scale - 1) \div d.scale
        out[n \in 0 .. rows] ==
            IF n = 0 THEN pv
            ELSE Put(out[n - 1], FlattenSeq([x \in 1 .. cols |-> At(m.row + (n - 1) * d.scale, m.column + (x - 1) * d.scale)]))
    IN  CASE ~checkImageBuffer(p, IF p.or > 3 THEN d.roi.height ELSE d.roi.width, (m.height - m.row) \div d.scale, p.lines) ->
                [ok |-> FALSE, pv |-> pv, cLinesDecoded |-> 0]
          [] ((cRow - 1) * 16) % d.scale # 0 \/ cRow * 16 <= d.top \/ cRow * 16 > d.bottom + 16 ->
                [ok |-> TRUE, pv |-> pv, cLinesDecoded |-> 0]
          [] OTHER -> [ok |-> TRUE, pv |-> out[Greatest(rows, 0)], cLinesDecoded |-> Greatest(rows, 0)]

=============================================================================
