------------------------------ MODULE ImageRows ------------------------------
(***************************************************************************)
(* One row of macroblocks from the caller's buffer to the codec's planes:  *)
(* inputMBRow with its padding and its downsampling                        *)
(* (image/encode/strenc.c).  The way back is ImageOutput's.                *)
(*                                                                         *)
(* A picture p has the fields                                              *)
(*   cfExt, cfInt   colour format of the buffer and of the codec           *)
(*   bd             bit depth of the buffer                                *)
(*   w, h           size in pixels                                         *)
(*   els            elements of the buffer to a pixel                      *)
(*   pad            leading padding, in elements                           *)
(*   rgb, black     bRGB, bBlackWhite                                      *)
(*   alpha          an alpha plane is interleaved                          *)
(*   yuv            bYUVData: the buffer holds the codec's own values      *)
(*   len, bias      nLenMantissaOrShift, nExpBias                          *)
(*   scaled         bScaledArith                                           *)
(*   swapped        bRBSwapped                                             *)
(*   stride         elements to a line of the buffer                       *)
(* The buffer pv is a function from element numbers to samples.  A plane   *)
(* of a row of macroblocks is a function from cells to values.             *)
(***************************************************************************)
EXTENDS SampleValues

cmbWidth(p)  == (p.w + 15) \div 16
cmbHeight(p) == (p.h + 15) \div 16

-----------------------------------------------------------------------------
(* Cells: a macroblock is four columns of blocks of 4 x 4, each block in   *)
(* an order of its own.                                                    *)

Inner == <<0, 1, 5, 4, 2, 3, 7, 6, 10, 11, 15, 14, 8, 9, 13, 12>>

idxCC(r, c)     == (c \div 4) * 64 + (r \div 4) * 16 + Inner[(r % 4) * 4 + (c % 4) + 1]
idxCC_420(r, c) == (c \div 4) * 32 + (r \div 4) * 16 + Inner[(r % 4) * 4 + (c % 4) + 1]

Full(r, x) == (x \div 16) * 256 + idxCC(r, x % 16)
C422(r, x) == (x \div 8) * 128 + idxCC(r, x % 8)
C420(r, x) == (x \div 8) * 64 + idxCC_420(r, x % 8)

\* The row and the column of a cell.
InBlock == [k \in 0 .. 15 |-> (CHOOSE i \in 1 .. 16 : Inner[i] = k) - 1]
RowIn(k, tall) == ((k \div 16) % tall) * 4 + InBlock[k % 16] \div 4
ColIn(k, tall) == (k \div (16 * tall)) * 4 + (InBlock[k % 16] % 4)

Chroma(cf) == CASE cf = "YUV_420" -> [cells |-> 64, tall |-> 2, across |-> 2, down |-> 2]
                [] cf = "YUV_422" -> [cells |-> 128, tall |-> 4, across |-> 2, down |-> 1]
                [] OTHER          -> [cells |-> 256, tall |-> 4, across |-> 1, down |-> 1]

\* The row and the column of cell k of a plane.
RowOf(k, s) == RowIn(k % s.cells, s.tall)
ColOf(k, s) == (k \div s.cells) * (16 \div s.across) + ColIn(k % s.cells, s.tall)
Cell(s, r, x) == CASE s.cells = 64 -> C420(r, x) [] s.cells = 128 -> C422(r, x) [] OTHER -> Full(r, x)
Cells(p, s) == 0 .. cmbWidth(p) * s.cells - 1

UVResolutionChange(p) ==
    /\ ~p.yuv
    /\ \/ p.cfExt \in {"CF_RGB", "YUV_444", "CMYK", "CF_RGBE"} /\ p.cfInt \in {"YUV_422", "YUV_420"}
       \/ p.cfExt = "YUV_422" /\ p.cfInt = "YUV_420"

\* The format of the buffer's units: two or four pixels for subsampled chrominance.
Units(p) == IF p.yuv THEN p.cfInt ELSE p.cfExt
Subsampled(cf) == cf \in {"YUV_420", "YUV_422"}

-----------------------------------------------------------------------------
(* checkImageBuffer: enough lines, and bytes to a line.                    *)

Bytes(bd) == CASE bd \in {"BD_8", "BD_1"} -> 1 [] bd \in {"BD_16", "BD_16S", "BD_16F", "BD_5", "BD_565"} -> 2 [] OTHER -> 4

checkImageBuffer(p, width, rows, lines) ==
    LET cf == Units(p)
        w  == IF Subsampled(cf) THEN (width + 1) \div 2 ELSE width
    IN  /\ (IF cf = "YUV_420" THEN (rows + 1) \div 2 ELSE rows) <= lines
        /\ CASE p.yuv         -> w * (CASE cf = "YUV_420" -> 6 [] cf = "YUV_422" -> 4 [] cf = "YUV_444" -> 3 [] OTHER -> 1) <= p.stride
             [] p.bd = "BD_1" -> (w + 7) \div 8 <= p.stride
             [] OTHER         -> p.els * w <= p.stride

-----------------------------------------------------------------------------
(* From the buffer.  SHIFTZERO + QPFRACBITS bits of fraction are added     *)
(* when the arithmetic is scaled.                                          *)

S(p) == IF p.scaled THEN 8 ELSE 1

Channels(cf, n) == CASE cf = "Y_ONLY" -> 1 [] cf = "CMYK" -> 4 [] cf = "NCOMPONENT" -> n [] OTHER -> 3

\* What the codec subtracts from unsigned samples, with the fraction.
Offset(p) == S(p) * CASE p.bd = "BD_8"   -> 128
                      [] p.bd = "BD_16"  -> 2 ^ 15 \div 2 ^ p.len
                      [] p.bd = "BD_32"  -> -(2 ^ 30 \div 2 ^ (p.len - 1))
                      [] p.bd = "BD_5"   -> 16
                      [] p.bd = "BD_565" -> 32
                      [] p.bd = "BD_10"  -> 512
                      [] OTHER           -> 0

FromRGB(p, rgb) == LET c == CC(rgb) IN <<c[2] - Offset(p), -c[1], c[3]>>

\* A pixel's samples, each converted, as the format has them.
FromSamples(p, v) ==
    CASE p.cfExt = "CF_RGB" -> FromRGB(p, <<v[1], v[2], v[3]>>)
      [] p.cfExt = "CMYK"   -> LET c == CC_CMYK(SubSeq(v, 1, 4)) IN <<Offset(p) - c[2], c[1], -c[3], c[4]>>
      [] OTHER              -> [i \in DOMAIN v |-> v[i] - Offset(p)]

Shifted(p, s) == [i \in DOMAIN s |-> (s[i] \div 2 ^ p.len) * S(p)]

\* The samples of a pixel, by depth.
inputRGBE(p, s) == LET c == CC([i \in 1 .. 3 |-> forwardRGBE(s[i], s[4]) * S(p)]) IN <<c[2], -c[1], c[3]>>

input8(p, s) ==
    LET v == [i \in DOMAIN s |-> s[i] * S(p)]
    IN  CASE p.cfExt = "CF_RGBE"         -> inputRGBE(p, s)
          [] p.cfExt = "CF_RGB" /\ ~p.rgb -> FromRGB(p, <<v[3], v[2], v[1]>>)
          [] OTHER                        -> FromSamples(p, v)

input16(p, s)  == FromSamples(p, Shifted(p, s))
input16S(p, s) == FromSamples(p, Shifted(p, s))
input16F(p, s) == FromSamples(p, [i \in DOMAIN s |-> forwardHalf(s[i]) * S(p)])

\* Slip of the code: samples of gray are not made signed.
input32(p, s)  == IF p.cfExt = "CF_RGB" THEN FromRGB(p, Shifted(p, s)) ELSE Shifted(p, s)
input32S(p, s) == FromSamples(p, Shifted(p, s))
input32F(p, s) == FromSamples(p, [i \in DOMAIN s |-> float2pixel(s[i], p.bias, p.len) * S(p)])

\* The words of 555, 565 and 101010 are read byte by byte: red from the lowest bits.
input555(p, v)    == FromRGB(p, <<(v % 32) * S(p), ((v \div 32) % 32) * S(p), ((v \div 1024) % 32) * S(p)>>)
input565(p, v)    == FromRGB(p, <<(v % 32) * S(p) * 2, ((v \div 32) % 64) * S(p), (v \div 2048) * S(p) * 2>>)
input101010(p, v) == FromRGB(p, <<v.b * S(p), v.g * S(p), v.r * S(p)>>)

\* The values of one pixel.  A codec with fewer channels keeps the first.
PixelIn(p, s) ==
    CASE p.yuv           -> s
      [] p.bd = "BD_8"   -> input8(p, s)
      [] p.bd = "BD_16"  -> input16(p, s)
      [] p.bd = "BD_16S" -> input16S(p, s)
      [] p.bd = "BD_16F" -> input16F(p, s)
      [] p.bd = "BD_32"  -> input32(p, s)
      [] p.bd = "BD_32S" -> input32S(p, s)
      [] p.bd = "BD_32F" -> input32F(p, s)
      [] p.bd = "BD_5"   -> input555(p, s[1])
      [] p.bd = "BD_565" -> input565(p, s[1])
      [] p.bd = "BD_10"  -> input101010(p, s[1])

\* Slip of the code: 16-bit samples of subsampled chrominance are not shifted.
inputYUV(p, v) == IF p.yuv THEN v ELSE v * S(p) - Offset(p)

inputBit(p, pv, line, x) ==
    (((IF p.black THEN 1 ELSE 0) + pv[line * p.stride + x \div 8] \div 2 ^ (7 - (x % 8))) % 2) * S(p)

\* Rows below the image repeat its last line, columns right of it its last column.
Line(p, r, lines) == Least(r, lines - 1)
Column(p, x)      == Least(x, p.w - 1)

Element(p, pv, line, x, i) == pv[line * p.stride + p.pad + x * p.els + i - 1]
Pixel(p, pv, line, x)      == [i \in 1 .. p.els |-> Element(p, pv, line, x, i)]

Luma(p, pv, r, x, lines) ==
    CASE p.bd = "BD_1"          -> inputBit(p, pv, Line(p, r, lines), Column(p, x))
      [] Units(p) = "YUV_422" -> inputYUV(p, Element(p, pv, Line(p, r, lines), Column(p, x) \div 2, 2 + 2 * (Column(p, x) % 2)))
      [] Units(p) = "YUV_420" -> LET line == Least(r \div 2, (lines + 1) \div 2 - 1)
                                 IN  inputYUV(p, Element(p, pv, line, Column(p, x) \div 2, 1 + 2 * (r % 2) + (Column(p, x) % 2)))

ChromaUnit(p, pv, c, r, x, lines) ==
    IF Units(p) = "YUV_422" THEN inputYUV(p, Element(p, pv, Line(p, r, lines), Least(x, (p.w - 1) \div 2), 2 * c - 1))
    ELSE inputYUV(p, Element(p, pv, Least(r, (lines + 1) \div 2 - 1), Least(x, (p.w - 1) \div 2), c + 4))

\* What a row of macroblocks reads, one plane to a channel, at the buffer's resolution.
ReadRow(p, pv, lines) ==
    LET full   == Chroma("YUV_444")
        sub    == Chroma(Units(p))
        pixel  == [k \in Cells(p, full) |-> PixelIn(p, Pixel(p, pv, Line(p, RowOf(k, full), lines), Column(p, ColOf(k, full))))]
    IN  IF p.bd = "BD_1" \/ Subsampled(Units(p))
        THEN <<[k \in Cells(p, full) |-> Luma(p, pv, RowOf(k, full), ColOf(k, full), lines)]>>
             \o (IF p.bd = "BD_1" \/ p.cfInt = "Y_ONLY" THEN <<>>
                 ELSE [c \in 1 .. 2 |-> [k \in Cells(p, sub) |-> ChromaUnit(p, pv, c, RowOf(k, sub), ColOf(k, sub), lines)]])
        ELSE [c \in 1 .. Channels(p.cfInt, p.els) |-> [k \in Cells(p, full) |-> pixel[k][c]]]

\* The interleaved alpha, the fourth or, after CMYK, the fifth element.
AlphaPos(p) == IF p.cfExt = "CMYK" THEN 5 ELSE 4

AlphaIn(p, v) ==
    S(p) * CASE p.bd = "BD_8"               -> v - 128
             [] p.bd = "BD_16"              -> (v - 2 ^ 15) \div 2 ^ p.len
             [] p.bd \in {"BD_16S", "BD_32S"} -> v \div 2 ^ p.len
             [] p.bd = "BD_16F"             -> forwardHalf(v)
             [] p.bd = "BD_32F"             -> float2pixel(v, p.bias, p.len)

inputMBRowAlpha(p, pv, lines) ==
    LET full == Chroma("YUV_444")
    IN  [k \in Cells(p, full) |-> AlphaIn(p, Element(p, pv, Line(p, RowOf(k, full), lines), Column(p, ColOf(k, full)), AlphaPos(p)))]

-----------------------------------------------------------------------------
(* Downsampling: a filter of five taps at every second sample, which       *)
(* reflects the signal at the borders of the image.  Vertically it needs   *)
(* the first row of the macroblocks below: the last row of a row of        *)
(* macroblocks is made when the next one is read, from the four rows kept  *)
(* in tail.                                                                *)

DF_ODD(d) == ((d[2] + d[3] + d[4]) * 4 + d[3] * 2 + d[1] + d[5] + 8) \div 16

\* Halved horizontally: column j of row r from the plane src at full resolution.
Across(p, src, r, j) ==
    LET last  == cmbWidth(p) * 16 - 1
        At(x) == src[Full(r, IF x > last THEN 2 * last - x ELSE Abs(x))]
    IN  DF_ODD([i \in 1 .. 5 |-> At(2 * j + i - 3)])

AcrossPlane(p, src) ==
    IF p.cfExt = "YUV_422" THEN src
    ELSE LET s == Chroma("YUV_422") IN [k \in Cells(p, s) |-> Across(p, src, RowOf(k, s), ColOf(k, s))]

\* Halved vertically: rows 0 to 6, and row 7 of the image's last row of macroblocks.
Later == 99999999
Down(p, src, tail, row, r, j) ==
    LET At(y) == CASE y < 0 /\ row > 0 -> tail[4 + y][j]
                   [] y > 15           -> src[C422(30 - y, j)]
                   [] OTHER            -> src[C422(Abs(y), j)]
    IN  IF r = 7 /\ row + 1 < cmbHeight(p) THEN Later ELSE DF_ODD([i \in 1 .. 5 |-> At(2 * r + i - 3)])

\* Row 7 of the macroblocks above.
LastAbove(src, tail, j) == DF_ODD([i \in 1 .. 5 |-> IF i = 5 THEN src[C422(0, j)] ELSE tail[i - 1][j]])

\* Mutant of TailOf: the rows kept are those before the last.
TailEarly(p, src) == [i \in 0 .. 3 |-> [j \in 0 .. cmbWidth(p) * 8 - 1 |-> src[C422(11 + i, j)]]]

TailOf(p, src) == [i \in 0 .. 3 |-> [j \in 0 .. cmbWidth(p) * 8 - 1 |-> src[C422(12 + i, j)]]]

\* The planes of the row, those of the row above completed, and the rows kept.
downsampleUV(p, in, row, above, tail) ==
    LET half == [c \in 2 .. 3 |-> AcrossPlane(p, in[c])]
        s    == Chroma("YUV_420")
        Filled(c) == [k \in Cells(p, s) |-> IF RowOf(k, s) = 7 THEN LastAbove(half[c], tail[c], ColOf(k, s)) ELSE above[c][k]]
    IN  CASE ~UVResolutionChange(p) -> [here |-> in, above |-> above, tail |-> tail]
          [] p.cfInt = "YUV_422"    -> [here |-> <<in[1], half[2], half[3]>>, above |-> above, tail |-> tail]
          [] OTHER ->
                [here  |-> <<in[1]>> \o [c \in 1 .. 2 |-> [k \in Cells(p, s) |->
                              Down(p, half[c + 1], tail[c + 1], row, RowOf(k, s), ColOf(k, s))]],
                 above |-> IF row = 0 THEN above ELSE <<above[1], Filled(2), Filled(3)>>,
                 tail  |-> IF row + 1 = cmbHeight(p) THEN tail ELSE [c \in 2 .. 3 |-> TailOf(p, half[c])]]

inputMBRow(p, pv, lines, row, above, tail) == downsampleUV(p, ReadRow(p, pv, lines), row, above, tail)

=============================================================================
