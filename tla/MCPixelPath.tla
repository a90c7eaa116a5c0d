----------------------------- MODULE MCPixelPath -----------------------------
(***************************************************************************)
(* Pictures and conversions for TLC.  Pictures cross macroblocks where     *)
(* their rows matter, and are smaller where only their samples do.         *)
(***************************************************************************)
EXTENDS PixelPath

Everything == [scale |-> 1, left |-> 0, top |-> 0, width |-> 0, height |-> 0]
Ask(s, l, t, w, h) == [scale |-> s, left |-> l, top |-> t, width |-> w, height |-> h]

\* Room for the picture however it is turned, and one element to spare.
Buffer(p) ==
    LET n == Greatest(p.w, p.h)
    IN  CASE p.padded -> [p EXCEPT !.stride = p.els * cmbWidth(p) * 16, !.lines = cmbHeight(p) * 16]
          [] p.bd = "BD_1" -> [p EXCEPT !.stride = p.pad + (n + 7) \div 8 + 1, !.lines = n]
          [] OTHER -> [p EXCEPT !.stride = p.pad + p.els * ((n + UnitWidth(p) - 1) \div UnitWidth(p)) + 1, !.lines = n]

\* 8-bit RGB of w x h pixels, without alpha.
RGB(w, h) == [cfExt |-> "CF_RGB", cfInt |-> "YUV_444", bd |-> "BD_8", w |-> w, h |-> h, els |-> 3, shown |-> 3, pad |-> 0,
              rgb |-> TRUE, black |-> FALSE, alpha |-> FALSE, yuv |-> FALSE, len |-> 0, bias |-> 0, scaled |-> FALSE,
              swapped |-> FALSE, stride |-> 0, lines |-> 0, or |-> 0, ask |-> Everything, extra |-> <<0, 0, 0, 0>>,
              frequency |-> FALSE, overlap |-> 1, reentrant |-> TRUE, padded |-> FALSE, gray |-> FALSE, flat |-> 1]

Of(p, ext, int, n) == [p EXCEPT !.cfExt = ext, !.cfInt = int, !.els = n, !.shown = n]
Deep(p, bd) == [p EXCEPT !.bd = bd, !.bias = 4,
                         !.len = CASE bd \in {"BD_16", "BD_16S"} -> 2 [] bd = "BD_32F" -> 13 [] bd \in {"BD_32", "BD_32S"} -> 12 [] OTHER -> 0]
Gray8bit(w, h) == Of(RGB(w, h), "Y_ONLY", "Y_ONLY", 1)
YUV(p, cf) == Of(p, cf, cf, CASE cf = "YUV_420" -> 6 [] cf = "YUV_422" -> 4 [] OTHER -> 3)

\* The same picture in and out, but for what is asked of the output.
Turn(p, o, ask) == [in |-> Buffer(p), out |-> Buffer([p EXCEPT !.or = o, !.ask = ask])]
Plain(p) == Turn(p, 0, Everything)
Scaled(P) == {[p EXCEPT !.scaled = s] : p \in P, s \in BOOLEAN}

AllDepths == {"BD_8", "BD_16", "BD_16S", "BD_16F", "BD_32", "BD_32S", "BD_32F"}
Small == RGB(5, 3)
Samples ==
    {Deep(Small, bd) : bd \in AllDepths}
    \cup {Of(Deep(Small, bd), "Y_ONLY", "Y_ONLY", 1) : bd \in AllDepths \ {"BD_16", "BD_32"}}
    \cup {Of(Deep(Small, bd), "CMYK", "CMYK", 4) : bd \in {"BD_8", "BD_16", "BD_16S"}}
    \cup {Of(Small, "NCOMPONENT", "NCOMPONENT", 5), Of(Small, "YUV_444", "YUV_444", 3), Of(Small, "CF_RGBE", "YUV_444", 4),
          [Of(Small, "CF_RGB", "YUV_444", 4) EXCEPT !.shown = 3], [Small EXCEPT !.rgb = FALSE], [Small EXCEPT !.pad = 2]}
    \cup {[Deep(Small, bd) EXCEPT !.els = 4, !.alpha = TRUE] : bd \in AllDepths \ {"BD_16", "BD_32"}}
    \cup {[Of(Small, "CMYK", "CMYK", 5) EXCEPT !.alpha = TRUE, !.shown = 4]}
    \cup {[Small EXCEPT !.bd = bd, !.els = 1, !.shown = 1] : bd \in {"BD_5", "BD_565", "BD_10"}}

\* Orientations and regions, across macroblocks.
Turns ==
    {Turn(Gray8bit(18, 17), o, a) : o \in 0 .. 7, a \in {Everything, Ask(1, 3, 2, 10, 14)}}
    \cup {Turn([RGB(17, 19) EXCEPT !.alpha = TRUE, !.els = 4], o, Ask(1, 0, 5, 9, 12)) : o \in {0, 3, 6}}
    \cup {Turn(YUV(RGB(18, 20), "YUV_420"), o, a) : o \in 0 .. 7, a \in {Everything, Ask(1, 0, 0, 8, 16)}}
    \cup {Turn(YUV(RGB(18, 17), "YUV_422"), o, a) : o \in 0 .. 1, a \in {Everything, Ask(1, 0, 2, 8, 15)}}
    \cup {Turn([Gray8bit(19, 17) EXCEPT !.bd = "BD_1", !.black = b, !.scaled = b], o, Everything) : o \in 0 .. 7, b \in BOOLEAN}
    \cup {Turn([YUV(RGB(18, 20), cf) EXCEPT !.yuv = TRUE], 0, Everything) : cf \in {"YUV_420", "YUV_422", "YUV_444"}}
    \cup {[in |-> Buffer(RGB(20, 20)), out |-> Buffer([RGB(20, 20) EXCEPT !.extra = <<2, 1, 3, 2>>, !.or = o])] : o \in {0, 2, 5}}

\* Gray decoded to RGB, by either build.
Spreads ==
    {[in |-> Buffer(Gray8bit(18, 17)), out |-> Buffer([Of(Gray8bit(18, 17), "CF_RGB", "Y_ONLY", 3) EXCEPT !.reentrant = r])] : r \in BOOLEAN}
    \cup {[in |-> Buffer(Gray8bit(18, 17)), out |-> Buffer([Of(Gray8bit(18, 17), "CF_RGB", "Y_ONLY", 3) EXCEPT !.or = o])] : o \in {3, 6}}

\* The readers and writers of the x86 builds.
Optimised ==
    {Plain([Of(RGB(18, 17), "CF_RGB", "YUV_444", n) EXCEPT !.padded = TRUE, !.rgb = rgb, !.scaled = sc, !.shown = 3]) :
        n \in {3, 4}, rgb \in BOOLEAN, sc \in BOOLEAN} \ {Plain([Of(RGB(18, 17), "CF_RGB", "YUV_444", 4) EXCEPT !.padded = TRUE, !.scaled = TRUE, !.shown = 3])}

\* Chrominance at a lower resolution in the codec.
Chromas ==
    {Turn(Of(RGB(w, h), "CF_RGB", cf, 3), 0, Everything) : cf \in {"YUV_422", "YUV_420"}, w \in {5, 18}, h \in {16, 35}}
    \cup {Turn(Of([RGB(18, 33) EXCEPT !.scaled = TRUE], ext, "YUV_420", IF ext = "YUV_422" THEN 4 ELSE 3), o, Everything) :
             ext \in {"YUV_444", "YUV_422"}, o \in {0, 1}}
    \cup {Turn(Of(RGB(18, 33), "CF_RGB", "YUV_420", 3), o, Ask(1, 3, 5, 9, 20)) : o \in {0, 7}}

\* Thumbnails.
Thumbs ==
    {Turn([Gray8bit(21, 35) EXCEPT !.scaled = (v > 0), !.overlap = v], 0, Ask(s, 0, 0, 0, 0)) : s \in {2, 4, 8, 16}, v \in 0 .. 2}
    \cup {Turn(RGB(21, 35), o, Ask(4, 0, 0, 0, 0)) : o \in 0 .. 7}
    \cup {Turn([RGB(21, 35) EXCEPT !.els = 4, !.alpha = TRUE], 0, Ask(2, 3, 2, 5, 9)),
          Turn([Of(RGB(37, 20), "CF_RGB", "YUV_420", 3) EXCEPT !.gray = TRUE], 0, Ask(4, 0, 0, 0, 0))}

ThumbDepths ==
    {Turn(Deep(RGB(9, 10), bd), 0, Ask(2, 0, 0, 0, 0)) : bd \in {"BD_16", "BD_16S", "BD_16F", "BD_32", "BD_32S", "BD_32F"}}
    \cup {Turn(Of(Deep(RGB(9, 10), bd), "Y_ONLY", "Y_ONLY", 1), 0, Ask(4, 0, 0, 0, 0)) : bd \in {"BD_16S", "BD_16F", "BD_32S", "BD_32F"}}
    \cup {Turn([RGB(9, 10) EXCEPT !.bd = bd, !.els = 1, !.shown = 1, !.scaled = TRUE], 0, Ask(2, 0, 0, 0, 0)) : bd \in {"BD_5", "BD_565", "BD_10"}}

TestPictures == {Plain(p) : p \in Scaled(Samples)} \cup Turns \cup Spreads \cup Optimised \cup Chromas \cup Thumbs \cup ThumbDepths

\* Every converter of every format, by its place in the table, and the substitutions by extension.
\* Lines of one and two pixels, and one that goes past every pixel that is lost.
Index(k) == Cardinality({j \in 1 .. k - 1 : s_pcInfo[j].from = s_pcInfo[k].from})
Conversion(k, width) == [from |-> s_pcInfo[k].from, index |-> Index(k), ext |-> "", width |-> width, back |-> TRUE]
TestConversions ==
    {Conversion(k, w) : k \in DOMAIN s_pcInfo, w \in {1, 2, 9}}
    \cup {[from |-> "24bppBGR", index |-> 0, ext |-> ".bmp", width |-> 3, back |-> FALSE], [from |-> "64bppRGBA", index |-> 0, ext |-> ".tif", width |-> 3, back |-> TRUE]}

NoPictures == {}
=============================================================================
