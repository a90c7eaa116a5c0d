------------------------------ MODULE PixelPath ------------------------------
(***************************************************************************)
(* The way of the pixels: an encoder reads a picture one row of            *)
(* macroblocks at a time (inputMBRow, image/encode/strenc.c, or its        *)
(* optimised version); a decoder writes the planes, in another             *)
(* orientation, region or scale (outputMBRow and decodeThumbnail,          *)
(* image/decode/strdec.c); a converter turns the lines of one pixel format *)
(* into those of another where they are (JXRGlueLib/JXRGluePFC.c).         *)
(*                                                                         *)
(* The transform and the entropy coding between the two lose nothing here: *)
(* MacroblockCodec and TransformCodec are about them.  For a scaled        *)
(* decoder the planes have the gain of the levels it leaves out.           *)
(***************************************************************************)
EXTENDS OptimisedRows, FormatConverters

CONSTANTS Pictures,     \* rows: records [in, out] of pictures; values are given by Sample
          Conversions   \* records [from, index, ext, width, back]: the index-th converter of a format, there and back

VARIABLES job,      \* the picture or the conversion
          phase,    \* "in", "out", "convert", "done", "failed"
          row,      \* the next row of macroblocks; the next unit of a line
          planes,   \* the rows of planes so far
          tail,     \* the rows inputMBRow keeps
          pv,       \* the output buffer
          todo      \* the sweeps and lines left of a conversion

vars == <<job, phase, row, planes, tail, pv, todo>>

IsPicture == job \in Pictures

-----------------------------------------------------------------------------
(* The picture: the elements of a pixel or unit, and its alpha.            *)

Range8 == 256
Halves == <<0, 15360, 31743, 48128, 1024, 32769>>
Floats == <<Zero, One, Float(1, 130, 2 ^ 22), Float(0, 120, 5 * 2 ^ 16), Float(1, 127, 2 ^ 21)>>
E(p, n) == CASE p.bd = "BD_8" /\ p.yuv -> (n % Range8) - 128
             [] p.bd \in {"BD_8", "BD_1"} -> n % Range8
             [] p.bd = "BD_16"  -> ((n * 251) % 2 ^ (16 - p.len)) * 2 ^ p.len
             [] p.bd = "BD_16S" -> (((n * 251) % 2 ^ (16 - p.len)) - 2 ^ (15 - p.len)) * 2 ^ p.len
             [] p.bd = "BD_16F" -> Halves[(n % Len(Halves)) + 1]
             [] p.bd = "BD_32"  -> ((n * 251) % 2 ^ 10) * 2 ^ p.len
             [] p.bd = "BD_32S" -> (((n * 251) % 2 ^ 10) - 2 ^ 9) * 2 ^ p.len
             [] p.bd = "BD_32F" -> Floats[(n % Len(Floats)) + 1]
             [] p.bd = "BD_5"   -> (n * 1021) % 2 ^ 15
             [] p.bd = "BD_565" -> (n * 1021) % 2 ^ 16
             [] p.bd = "BD_10"  -> [b |-> (n * 7) % 1024, g |-> (n * 31) % 1024, r |-> (n * 101) % 1024]

\* A shared exponent is given the mantissas it is normal with.
Sample(p, x, y, i) ==
    CASE p.cfExt = "CF_RGBE" -> IF i = 4 THEN 100 + ((x + y) % 9) ELSE IF i = 1 THEN 128 + ((x * 5 + y * 3) % 128) ELSE (x * 7 + y * 11 + i) % 256
      [] p.gray              -> E(p, (x * 37 + y * 59) \div p.flat)
      [] OTHER               -> E(p, (x \div p.flat) * 37 + (y \div p.flat) * 59 + i * 101)

\* Units of two or four pixels, and of one.
UnitWidth(p)  == IF Subsampled(Units(p)) THEN 2 ELSE 1
UnitHeight(p) == IF Units(p) = "YUV_420" THEN 2 ELSE 1

\* The band of the buffer that holds row r of macroblocks.
Lines(p, r) == Least(16, p.h - 16 * r)
Band(p, r) ==
    LET lines == ((IF p.padded THEN 16 ELSE Lines(p, r)) + UnitHeight(p) - 1) \div UnitHeight(p)
    IN  [k \in 0 .. p.stride * lines - 1 |->
            LET n == (k % p.stride) - p.pad
            IN  IF n \in 0 .. p.els * ((p.w + UnitWidth(p) - 1) \div UnitWidth(p)) - 1 /\ p.bd # "BD_1"
                THEN Sample(p, n \div p.els, r * (16 \div UnitHeight(p)) + k \div p.stride, (n % p.els) + 1)
                ELSE Sample(p, k % p.stride, r * 16 + k \div p.stride, 1)]

-----------------------------------------------------------------------------
(* Conversions: the samples of a format, and what is converted.            *)

SampleBytes(i) == CASE i.bdBitDepth \in {"BD_8", "BD_1"} -> 1 [] i.bdBitDepth \in {"BD_32S", "BD_32F", "BD_10"} -> 4 [] OTHER -> 2
SamplesOf(i, width) == LineBytes(i.name, width) \div SampleBytes(i)

Asked(c)     == EnumConversions(c.from, c.index)
Reached(c)   == Substituted(c.ext, Asked(c))
Converter(c) == InitializeConvert(c.from, c.ext, Asked(c))
BackConverter(c) == InitializeConvert(Reached(c), "", c.from)
Stride(c)    == cbStride(c.from, Asked(c), c.width)

\* The lines as Copy leaves them.
Copied(c) ==
    LET i == PixelFormatLookup(c.from)
        n == SampleBytes(i)
        At(y, b) == IF b < LineBytes(c.from, c.width) THEN Byte(Term("src", <<y, b \div n>>), b % n, n) ELSE Byte(Term("none", <<>>), 0, 1)
    IN  [b \in 0 .. 2 * Stride(c) - 1 |-> At(b \div Stride(c), b % Stride(c))]

\* Two lines: up or down, as the sweep goes along them.
LinesOf(convert) ==
    FlattenSeq([k \in DOMAIN convert |-> [y \in 1 .. 2 |-> <<convert[k], IF convert[k].up THEN y - 1 ELSE 2 - y>>]])

-----------------------------------------------------------------------------
Fill(p) == E(p, 77)

Init ==
    /\ \/ job \in Pictures /\ phase = "in"
       \/ job \in Conversions /\ phase = "copied"
    /\ row = 0 /\ planes = <<>> /\ tail = <<>>
    /\ pv = <<>> /\ todo = <<>>

RowRead(p, b) ==
    IF UsesRGB24_6(p) THEN [here |-> inputMBRow_RGB24_6(p, b), above |-> <<>>, tail |-> tail]
    ELSE inputMBRow(p, b, Lines(p, row), row, IF row = 0 THEN <<>> ELSE planes[row].main, tail)

\* The row above, which is coded next, is completed.
Keep(p, r, alpha) ==
    /\ planes' = Append(IF row = 0 \/ ~UVResolutionChange(p) THEN planes ELSE [planes EXCEPT ![row].main = r.above],
                        [main |-> r.here, alpha |-> alpha])
    /\ tail' = r.tail

\* The encoder reads row `row' of macroblocks.
Read ==
    LET p == job.in
        b == Band(p, row)
    IN  /\ IsPicture /\ phase = "in" /\ row < cmbHeight(p)
        /\ Keep(p, RowRead(p, b), IF p.alpha THEN inputMBRowAlpha(p, b, Lines(p, row)) ELSE <<>>)
        /\ row' = row + 1
        /\ UNCHANGED <<job, phase, pv, todo>>

\* The planes a scaled decoder has: with the gain of the transforms that are left out.
Gained(p, d, a) ==
    [c \in DOMAIN a |-> [k \in DOMAIN a[c] |->
        Quotient(a[c][k] * 2 ^ (IF c = 1 THEN rShiftY(p) ELSE rShiftUV(p, d)), cMul(p, d) * S(p))]]

Decode ==
    LET d == setROI(job.out)
    IN  /\ IsPicture /\ phase = "in" /\ row = cmbHeight(job.in)
        /\ phase' = "out"
        /\ row' = 1
        /\ planes' = IF d.scale = 1 THEN planes ELSE [r \in DOMAIN planes |->
                        [main  |-> Gained(job.out, d, planes[r].main),
                         alpha |-> IF job.in.alpha THEN Gained(job.out, d, <<planes[r].alpha>>)[1] ELSE <<>>]]
        /\ pv' = [k \in 0 .. job.out.stride * job.out.lines - 1 |-> Fill(job.out)]
        /\ UNCHANGED <<job, tail, todo>>

RowsDecoded(d) == IF d.full THEN cmbHeight(job.out) ELSE (d.bottom + 16) \div 16
InROI(d)       == d.full \/ (row * 16 > d.top /\ row * 16 <= d.bottom + 16)

RowWritten(q, d, t, a) ==
    CASE d.scale >= 2     -> decodeThumbnail(q, d, t, row, a.main, a.alpha, pv)
      [] UsesStore(q, d)  -> [ok |-> TRUE, pv |-> outputMBRowOpt(q, row, a.main, pv)]
      [] OTHER            -> outputMBRow(q, d, t, row, a.main, planes[Least(row + 1, Len(planes))].main, a.alpha, pv)

\* The result of decodeThumbnail is ignored.
Show(d, r) ==
    IF d.scale >= 2 \/ InROI(d)
    THEN pv' = r.pv /\ phase' = IF d.scale >= 2 \/ r.ok THEN "out" ELSE "failed"
    ELSE UNCHANGED <<pv, phase>>

\* ImageStrDecDecode, row by row.
Write ==
    LET q == job.out
        d == setROI(q)
    IN  /\ IsPicture /\ phase = "out" /\ row <= RowsDecoded(d)
        /\ Show(d, RowWritten(q, d, initLookupTables(q, d), planes[row]))
        /\ row' = row + 1
        /\ UNCHANGED <<job, planes, tail, todo>>

Finish ==
    /\ IsPicture /\ phase = "out" /\ row > RowsDecoded(setROI(job.out))
    /\ pv' = fixup_Y_ONLY_to_Others(job.out, setROI(job.out), pv)
    /\ phase' = "done"
    /\ UNCHANGED <<job, row, planes, tail, todo>>

\* PKImageEncode_WriteSource and PKFormatConverter_Copy: the lines of the source, then the conversion.
Begin ==
    /\ ~IsPicture /\ phase = "copied"
    /\ IF Converter(job).ok
       THEN phase' = "converting" /\ pv' = Copied(job) /\ todo' = LinesOf(Converter(job).convert)
       ELSE phase' = "failed" /\ UNCHANGED <<pv, todo>>
    /\ row' = 0
    /\ UNCHANGED <<job, planes, tail>>

ConvertNext ==
    LET s == todo[1][1]
        n == UnitsOf(s, job.width)
    IN  /\ phase \in {"converting", "returning"} /\ todo # <<>>
        /\ pv' = ConvertUnit(pv, s, todo[1][2] * Stride(job), IF s.up THEN row ELSE n - 1 - row, job.width)
        /\ IF row + 1 < n THEN row' = row + 1 /\ UNCHANGED todo ELSE row' = 0 /\ todo' = Tail(todo)
        /\ UNCHANGED <<job, phase, planes, tail>>

Converted ==
    /\ phase \in {"converting", "returning"} /\ todo = <<>>
    /\ phase' = IF phase = "converting" THEN "converted" ELSE "returned"
    /\ UNCHANGED <<job, row, planes, tail, pv, todo>>

\* The lines converted are taken for a source, and converted back.
Return ==
    /\ phase = "converted" /\ job.back /\ BackConverter(job).ok
    /\ phase' = "returning"
    /\ todo' = LinesOf(BackConverter(job).convert)
    /\ UNCHANGED <<job, row, planes, tail, pv>>

Next == Read \/ Decode \/ Write \/ Finish \/ Begin \/ ConvertNext \/ Converted \/ Return

Spec == Init /\ [][Next]_vars

-----------------------------------------------------------------------------
(* Where the pixels should be: the region is cut out, turned and flipped.  *)

\* What is shown at <<X, Y>> of a region of w x h.
Shown(o, w, h, X, Y) ==
    IF o < 4 THEN <<IF o \in {2, 3} THEN w - 1 - X ELSE X, IF o \in {1, 3} THEN h - 1 - Y ELSE Y>>
    ELSE LET x == IF o \in {6, 7} THEN h - 1 - X ELSE X
             y == IF o \in {5, 7} THEN w - 1 - Y ELSE Y
         IN  <<y, h - 1 - x>>

RegionOf(d) == [x |-> d.left, y |-> d.top, w |-> d.right - d.left + 1, h |-> d.bottom - d.top + 1]
Turned(q, w, h) == IF q.or < 4 THEN [w |-> w, h |-> h] ELSE [w |-> h, h |-> w]

\* The luminance of pixel <<x, y>> of a picture of units, and its place in a unit.
UnitPixels(q) == CASE Units(q) = "YUV_422" -> (2 :> <<0, 0>>) @@ (4 :> <<1, 0>>)
                   [] Units(q) = "YUV_420" -> (1 :> <<0, 0>>) @@ (2 :> <<1, 0>>) @@ (3 :> <<0, 1>>) @@ (4 :> <<1, 1>>)
                   [] OTHER -> <<>>
LumaOf(p, x, y) ==
    LET i == CHOOSE i \in DOMAIN UnitPixels(p) : UnitPixels(p)[i] = <<x % UnitWidth(p), y % UnitHeight(p)>>
    IN  Sample(p, x \div UnitWidth(p), y \div UnitHeight(p), i)

Given(p, x, y, i) == IF p.cfExt = "Y_ONLY" /\ (i <= 3) THEN Sample(p, x, y, 1) ELSE Sample(p, x, y, i)

\* Element k of the buffer: a unit of the region, <<X, Y>>, and the element's number, or nothing of the picture.
ElementAt(q, d, k) ==
    LET g == RegionOf(d)
        t == Turned(q, g.w, g.h)
        n == (k % q.stride) - q.pad
        i == (n % q.els) + 1
    IN  [X |-> n \div q.els, Y |-> k \div q.stride, i |-> i,
         shown |-> /\ n >= 0 /\ n \div q.els < t.w \div UnitWidth(q) /\ k \div q.stride < t.h \div UnitHeight(q)
                   /\ i <= q.shown \/ (q.alpha /\ i = AlphaPos(q))]

Wanted(p, q, g, e) ==
    LET corner == UnitPixels(q)[e.i]
        luma   == Shown(q.or, g.w, g.h, e.X * UnitWidth(q) + corner[1], e.Y * UnitHeight(q) + corner[2])
        unit   == Shown(q.or, g.w \div UnitWidth(q), g.h \div UnitHeight(q), e.X, e.Y)
    IN  CASE ~e.shown                  -> Fill(q)
          [] e.i \in DOMAIN UnitPixels(q) -> LumaOf(p, g.x + luma[1], g.y + luma[2])
          [] OTHER -> Given(p, g.x \div UnitWidth(q) + unit[1], g.y \div UnitHeight(q) + unit[2], e.i)

\* One bit to a pixel.
BitOf(v, x) == (v \div 2 ^ (7 - (x % 8))) % 2
WantedBit(p, q, d, k, b) ==
    LET g == RegionOf(d)
        t == Turned(q, g.w, g.h)
        X == (k % q.stride) * 8 + b
        at == Shown(q.or, g.w, g.h, X, k \div q.stride)
    IN  IF X < t.w /\ k \div q.stride < t.h THEN BitOf(Sample(p, (g.x + at[1]) \div 8, g.y + at[2], 1), g.x + at[1])
        ELSE BitOf(Fill(q), b)

AllPlaced(p, q, d) ==
    IF p.bd = "BD_1" THEN \A k \in DOMAIN pv : \A b \in 0 .. 7 : BitOf(pv[k], b) = WantedBit(p, q, d, k, b)
    ELSE \A k \in DOMAIN pv : \/ pv[k] = Wanted(p, q, RegionOf(d), ElementAt(q, d, k))
                              \/ UsesStore(q, d) /\ ~ElementAt(q, d, k).shown

\* Every element of the buffer has the sample of the picture that belongs there: of the region that was
\* asked for, turned and flipped as asked, across the rows of macroblocks; and nothing else is written,
\* except by the writers that were given a padded buffer.
RowsRoundTrip ==
    IsPicture /\ phase = "done" /\ setROI(job.out).scale = 1 /\ ~UVResolutionChange(job.in) =>
        AllPlaced(job.in, job.out, setROI(job.out))

\* The rounding of the gains.
Near(p, a, b) ==
    CASE p.bd = "BD_5"   -> \A i \in {0, 5, 10} : Abs(Field(a, i, 5) - Field(b, i, 5)) <= 2
      [] p.bd = "BD_565" -> \A i \in {0, 5, 11} : Abs(Field(a, i, 5) - Field(b, i, 5)) <= 2
      [] p.bd = "BD_10"  -> \A c \in {"r", "g", "b"} : Abs(a[c] - b[c]) <= 4
      [] p.bd = "BD_16F" -> Abs(forwardHalf(a) - forwardHalf(b)) <= 4
      [] p.bd = "BD_32F" -> Abs(float2pixel(a, p.bias, p.len) - float2pixel(b, p.bias, p.len)) <= 4
      [] OTHER           -> Abs(a - b) <= 4 * 2 ^ p.len
AllTaken(p, q, d) ==
    LET t == Turned(q, d.roi.width, d.roi.height)
        From(low) == ((low + d.scale - 1) \div d.scale) * d.scale
    IN  \A k \in DOMAIN pv :
            LET n == (k % q.stride) - q.pad
                i == (n % q.els) + 1
                at == Shown(q.or, d.roi.width, d.roi.height, n \div q.els, k \div q.stride)
            IN  IF n >= 0 /\ n \div q.els < t.w /\ k \div q.stride < t.h /\ (i <= q.shown \/ (q.alpha /\ i = AlphaPos(q)))
                THEN Near(q, pv[k], Given(p, From(d.left) + at[1] * d.scale, From(d.top) + at[2] * d.scale, i))
                ELSE pv[k] = Fill(q)

\* A scaled image has, of the region, every scale-th pixel of every scale-th row, up to the rounding of
\* the gains, each at its place (strdec.c:2013-2530).
ThumbnailLands ==
    IsPicture /\ phase = "done" /\ setROI(job.out).scale > 1 => AllTaken(job.in, job.out, setROI(job.out))

-----------------------------------------------------------------------------
(* Chrominance of the whole image at once: the planes are extended to full *)
(* macroblocks, halved with reflection at their borders, and doubled.      *)

WholeImage(p, c) ==
    [x \in 0 .. cmbWidth(p) * 16 - 1, y \in 0 .. cmbHeight(p) * 16 - 1 |->
        IF Subsampled(p.cfExt)
        THEN IF c = 1 THEN inputYUV(p, LumaOf(p, Least(x, p.w - 1), Least(y, p.h - 1)))
             ELSE inputYUV(p, Sample(p, Least(x \div 2, (p.w - 1) \div 2), Least(y, p.h - 1), 2 * c - 3))
        ELSE PixelIn(p, [i \in 1 .. p.els |-> Sample(p, Least(x, p.w - 1), Least(y, p.h - 1), i)])[c]]

\* Five taps around position v of a signal of n samples.
Mirrored(v, n) == IF v < 0 THEN -v ELSE IF v >= n THEN 2 * (n - 1) - v ELSE v
HalvedAcross(u, w, h) == [x \in 0 .. w \div 2 - 1, y \in 0 .. h - 1 |-> DF_ODD([i \in 1 .. 5 |-> u[Mirrored(2 * x + i - 3, w), y]])]
HalvedDown(u, w, h)   == [x \in 0 .. w - 1, y \in 0 .. h \div 2 - 1 |-> DF_ODD([i \in 1 .. 5 |-> u[x, Mirrored(2 * y + i - 3, h)]])]
Between(v, n)  == IF v % 2 = 0 THEN {v \div 2} ELSE {v \div 2, Least(v \div 2 + 1, n - 1)}
MeanOf(S2, f(_)) == LET lo == Min(S2) hi == Max(S2) IN (f(lo) + f(hi) + 1) \div 2
DoubledDown(u, w, h)   == [x \in 0 .. w - 1, y \in 0 .. 2 * h - 1 |-> LET f(v) == u[x, v] IN MeanOf(Between(y, h), f)]
DoubledAcross(u, w, h) == [x \in 0 .. 2 * w - 1, y \in 0 .. h - 1 |-> LET f(v) == u[v, y] IN MeanOf(Between(x, w), f)]

WholeChroma(p, c) ==
    LET w == cmbWidth(p) * 16
        h == cmbHeight(p) * 16
        Across422(u) == IF p.cfExt = "YUV_422" THEN [x \in 0 .. w \div 2 - 1, y \in 0 .. h - 1 |-> u[2 * x, y]] ELSE HalvedAcross(u, w, h)
        Down420(u)   == IF p.cfInt = "YUV_420" THEN DoubledDown(HalvedDown(u, w \div 2, h), w \div 2, h \div 2) ELSE u
        Back444(u)   == IF p.cfExt = "YUV_422" THEN [x \in 0 .. w - 1, y \in 0 .. h - 1 |-> u[x \div 2, y]] ELSE DoubledAcross(u, w \div 2, h)
    IN  Back444(Down420(Across422(WholeImage(p, c))))

\* The buffer shows the planes Y, U and V of the whole image.
ShowsPlanes(q, g, Y, U, V) ==
    LET t == Turned(q, g.w, g.h)
        Els(X, L) ==
            LET at  == Shown(q.or, g.w, g.h, X, L)
                x   == g.x + at[1]
                y   == g.y + at[2]
                two == Shown(q.or, g.w, g.h, X + 1, L)
            IN  IF Subsampled(q.cfExt)
                THEN <<outputYUV(q, U[x, y]), outputYUV(q, Y[x, y]), outputYUV(q, V[x, y]), outputYUV(q, Y[g.x + two[1], y])>>
                ELSE PixelOut(q, <<Y[x, y], U[x, y], V[x, y]>>)
    IN  \A L \in 0 .. t.h - 1 : \A X \in {x \in 0 .. t.w - 1 : x % UnitWidth(q) = 0} :
            LET els == Els(X, L)
            IN  \A i \in DOMAIN els : pv[L * q.stride + q.pad + (X \div UnitWidth(q)) * q.els + i - 1] = els[i]

\* The chrominance that is halved row of macroblocks by row of macroblocks, with the rows kept in between,
\* and doubled with one row of the next, is that of the whole image: no seams between rows of macroblocks.
ChromaSeamless ==
    IsPicture /\ phase = "done" /\ setROI(job.out).scale = 1 /\ UVResolutionChange(job.in) =>
        ShowsPlanes(job.out, RegionOf(setROI(job.out)), WholeImage(job.in, 1), WholeChroma(job.in, 2), WholeChroma(job.in, 3))

-----------------------------------------------------------------------------
(* Conversions: what each sample of the destination should be made of.     *)

\* The names of a format's samples to a pixel.
SampleNames(i) ==
    LET n == LineBytes(i.name, 8) \div (8 * SampleBytes(i))
    IN  CASE i.bdBitDepth \in {"BD_5", "BD_565", "BD_10"} -> <<"rgb">>
          [] i.cfColorFormat = "Y_ONLY"  -> <<"y">>
          [] i.cfColorFormat = "CF_RGBE" -> <<"r", "g", "b", "e">>
          [] OTHER -> (IF "BGR" \in i.grBit THEN <<"b", "g", "r">> ELSE <<"r", "g", "b">>)
                      \o (IF n = 3 THEN <<>> ELSE IF "HasAlpha" \in i.grBit THEN <<"a">> ELSE <<"none">>)

\* What sample d of a pixel must be made of, and what else it may be.
Must(from, d) ==
    LET has == Range(SampleNames(from))
    IN  CASE d \in has                      -> {d}
          [] d = "e"                        -> {"r", "g", "b"}
          [] d \in {"y", "rgb"}             -> {"r", "g", "b"}
          [] d \in {"r", "g", "b"}          -> has \cap {"y", "rgb"}
May(from, to, d) ==
    Must(from, d) \cup (IF "PreMul" \in from.grBit THEN {"a"} ELSE {})
                  \cup (IF from.cfColorFormat = "CF_RGBE" THEN {"e"} ELSE {})
                  \cup (IF to.cfColorFormat = "CF_RGBE" THEN {"r", "g", "b"} ELSE {})

\* The samples of the source a term is made of.
RECURSIVE Sources(_)
Sources(t) == IF t[1] = "src" THEN {t[2]} ELSE IF t = Torn THEN {<<-1, -1>>} ELSE UNION {Sources(t[2][i]) : i \in DOMAIN t[2]}

\* The terms of line y of the buffer, as samples of format f.
SampleTerm(f, y, k) == LET n == SampleBytes(f) IN TermAt(pv, y * Stride(job) + k * n, n)
Visible(f) == {i \in DOMAIN SampleNames(f) : SampleNames(f)[i] # "none"}

\* The pixels of a line that a converter to wider pixels loses: it overwrites samples of theirs
\* before it reads them, however wide the line is.
Lost(convert) ==
    CASE convert \in {RGB24_RGB32, BGR24_BGR32, RGB48Half_RGB64Half, RGB96Float_RGB128Float, RGB96Float_RGB128Fixed} -> {1, 2}
      [] convert = RGB24_BGR32                                   -> {1}
      [] convert \in {RGB64Fixed_RGB96Float, RGB64Half_RGB96Float} -> {0, 1}
      [] convert = RGBE_RGB96Float                               -> {0}
      [] OTHER                                                   -> {}

\* Pixel x of line y is made of its own pixel of the source, each sample of the samples it stands for.
Whole(y, x) ==
    LET from == PixelFormatLookup(job.from)
        to   == PixelFormatLookup(Reached(job))
        n(f) == Len(SampleNames(f))
        x8   == IF from.bdBitDepth = "BD_1" /\ to.bdBitDepth # "BD_1" THEN x \div 8 ELSE x
        Of(S2) == {<<y, x8 * n(from) + j - 1>> : j \in {k \in 1 .. n(from) : SampleNames(from)[k] \in S2}}
    IN  \A i \in Visible(to) :
            LET d    == SampleNames(to)[i]
                made == Sources(SampleTerm(to, y, x * n(to) + i - 1))
            IN  Of(Must(from, d)) \subseteq made /\ made \subseteq Of(May(from, to, d))

\* Every converter of the table works in the lines it reads from.  Of those to narrower pixels or as
\* wide none overwrites what it still has to read; of those to wider ones nine do, in the first pixels
\* of every line that has them, and nowhere else.  (JXRGluePFC.c:529 asserts that a line has more than
\* two pixels, "Otherwise, we corrupt source data": it is just the line of one pixel that loses none.)
ConvertedWhole ==
    ~IsPicture /\ phase = "converted" =>
        \A y \in 0 .. 1, x \in 0 .. job.width - 1 : Whole(y, x) <=> x \notin Lost(Converter(job).convert)

\* The samples a conversion is tried with: those the narrowest format it may go to can hold.
Given16F == <<0, 15360, 15872, 16384, 48128>>
SourceValue(f, y, k) ==
    LET v == (7 * k + 3 * y) % 16
    IN  CASE f.cfColorFormat = "CF_RGBE" -> IF k % 4 = 3 THEN 125 + ((k \div 4) % 6) ELSE IF k % 4 = 0 THEN 200 - v ELSE 9 * v
          [] f.bdBitDepth = "BD_8"   -> 8 * ((11 * k + 5 * y) % 32)
          [] f.bdBitDepth = "BD_16"  -> 64 * ((101 * k + 5 * y) % 1024)
          [] f.bdBitDepth \in {"BD_16S", "BD_32S"} -> 512 * (v - 8)
          [] f.bdBitDepth = "BD_16F" -> Given16F[(v % 5) + 1]
          [] f.bdBitDepth = "BD_32F" -> FloatOf(v + 1, -4)
          [] f.bdBitDepth \in {"BD_5", "BD_565"} -> (k * 1021 + 77 * y) % 32768
          [] f.bdBitDepth = "BD_10"  -> [b |-> (k * 7) % 1024, g |-> (k * 31 + y) % 1024, r |-> (k * 101) % 1024]
          [] OTHER -> k

RECURSIVE Evaluated(_)
Evaluated(t) ==
    IF t[1] = "src" THEN SourceValue(PixelFormatLookup(job.from), t[2][1], t[2][2])
    ELSE Value(t[1], [i \in DOMAIN t[2] |-> Evaluated(t[2][i])], FALSE)

\* A format that is converted to another of the same colours and back is as it was, where the other can hold
\* its values and neither converter loses the pixel; negative fixed-point numbers lose one.
BackAgain ==
    ~IsPicture /\ phase = "returned" =>
        LET from == PixelFormatLookup(job.from)
            to   == PixelFormatLookup(Reached(job))
            n    == Len(SampleNames(from))
        IN  (from.cfColorFormat = "Y_ONLY") = (to.cfColorFormat = "Y_ONLY") =>
                \A y \in 0 .. 1, i \in Visible(from) :
                \A x \in (0 .. job.width - 1) \ (Lost(Converter(job).convert) \cup Lost(BackConverter(job).convert)) :
                    LET t == SampleTerm(from, y, x * n + i - 1)
                        v == SourceValue(from, y, x * n + i - 1)
                    IN  /\ t # Torn
                        /\ IF from.bdBitDepth \in {"BD_16S", "BD_32S"} /\ v < 0 THEN Evaluated(t) \in {v, v + 1} ELSE Evaluated(t) = v

=============================================================================
