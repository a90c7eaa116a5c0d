------------------------- MODULE MCMacroblockCodec -------------------------
EXTENDS MacroblockCodec

Channelled(cf) == CASE cf = "Y_ONLY" -> 1 [] cf = "CMYK" -> 4 [] cf = "NCOMPONENT" -> 2 [] OTHER -> 3
Image(cf, fmt, sb, trim, w, h, tx, ty) ==
    [cf |-> cf, channels |-> Channelled(cf), bfBitstreamFormat |-> fmt, sbSubband |-> sb, iTrimFlexBits |-> trim,
     cBitsLP |-> 0, cBitsHP |-> 0, cNumQPLP |-> 1, cNumQPHP |-> 1, w |-> w, h |-> h, uiTileX |-> tx, uiTileY |-> ty]

All == [cThumbnailScale |-> 1, bSkipFlexbits |-> FALSE, m_bInROI |-> 1 .. 4]

\* A macroblock from the value of every low-pass and of every high-pass coefficient.
MB(q, lp(_, _), ac(_, _, _)) ==
    [lp |-> [c \in Channels(q) |-> [i \in 0 .. BlockCount(q, c) - 1 |-> lp(c, i)]],
     ac |-> [c \in Channels(q) |-> [b \in 0 .. BlockCount(q, c) - 1 |-> [i \in 1 .. 15 |-> ac(c, b, i)]]]]

\* Nothing; a few coefficients of every size; detail in one direction; large values,
\* up to the longest escape of a level.
Empty(q)  == MB(q, LAMBDA c, i : 0, LAMBDA c, b, i : 0)
Sparse(q) == MB(q, LAMBDA c, i : CASE i = 0 -> 300 - 200 * c [] i = 2 + c -> -1 [] OTHER -> 0,
                   LAMBDA c, b, i : CASE b = 1 /\ i = 5 -> 1 [] b = 3 /\ i = 9 + c -> -40 [] OTHER -> 0)
Across(q) == MB(q, LAMBDA c, i : CASE i = 0 -> -3 [] i \in 1 .. 3 -> 90 * i [] OTHER -> i % 2,
                   LAMBDA c, b, i : IF b = 3 /\ i > 3 THEN i - 8 ELSE IF b \in {0, 2} /\ i = 6 THEN 2 ELSE 0)
Down(q)   == MB(q, LAMBDA c, i : CASE i = 0 -> 5 * c [] i \in {4, 8, 12} -> -20 * i [] OTHER -> 0,
                   LAMBDA c, b, i : IF i = 2 THEN 1 + b ELSE 0)
Large(q)  == MB(q, LAMBDA c, i : CASE i = 10 -> 90000000 [] i = 11 -> -9000000 [] OTHER -> (IF i % 2 = 0 THEN 1 ELSE -1) * (70000 - 4000 * i - c),
                   LAMBDA c, b, i : IF (i + b) % 5 = 0 THEN 0 ELSE (i - 8) * (20 + c + b) + (i % 2))

Job(q, v, mbs, indexes) == [p |-> q, view |-> v, mbs |-> mbs, indexes |-> indexes]
Plain(q, v, mbs) == Job(q, v, mbs, {<<0, 0>>})
Thumbnail(n) == [All EXCEPT !.cThumbnailScale = n]
WithIndexes(q, lp, hp, n, m) == [q EXCEPT !.cBitsLP = lp, !.cBitsHP = hp, !.cNumQPLP = n, !.cNumQPHP = m]

\* One row of four macroblocks, which adapts most; two rows, in one tile or in two.
Long(cf, fmt, sb, trim)   == Image(cf, fmt, sb, trim, 4, 1, <<0>>, <<0>>)
Square(cf, fmt, sb, trim) == Image(cf, fmt, sb, trim, 2, 2, <<0>>, <<0>>)
Sliced(cf, fmt, sb, trim) == Image(cf, fmt, sb, trim, 2, 2, <<0>>, <<0, 1>>)
Region(cf, fmt, sb, trim) == Image(cf, fmt, sb, trim, 3, 2, <<0, 1>>, <<0>>)

Whole == LET q == Long("Y_ONLY", "SPATIAL", "ALL", 0) IN <<Plain(q, All, {Empty(q), Sparse(q), Across(q), Large(q)})>>
Formats == LET Two(q)   == Plain(q, All, {Down(q), Large(q)})
               Three(q) == Plain(q, All, {Down(q), Across(q), Large(q)})
           IN  <<Three(Square("YUV_420", "SPATIAL", "ALL", 0)), Three(Square("YUV_422", "FREQUENCY", "ALL", 0)),
                 Two(Square("YUV_444", "SPATIAL", "ALL", 2)), Two(Square("CMYK", "FREQUENCY", "ALL", 0)),
                 Two(Square("NCOMPONENT", "SPATIAL", "ALL", 1))>>
Partial == LET Of(cf, fmt, sb, v) == LET q == Sliced(cf, fmt, sb, 1) IN Plain(q, v, {Across(q), Large(q)})
           IN  <<Of("YUV_420", "FREQUENCY", "ALL", Thumbnail(4)), Of("YUV_444", "FREQUENCY", "ALL", Thumbnail(16)),
                 Of("YUV_422", "FREQUENCY", "ALL", [All EXCEPT !.bSkipFlexbits = TRUE]),
                 Of("Y_ONLY", "SPATIAL", "NO_FLEXBITS", All), Of("YUV_444", "SPATIAL", "NO_HIGHPASS", All),
                 Of("YUV_420", "FREQUENCY", "DC_ONLY", All)>>
Indexes == LET Of(fmt, lp, hp, n, m) == LET q == WithIndexes(Square("Y_ONLY", fmt, "ALL", 0), lp, hp, n, m)
                                        IN  Job(q, All, {Down(q)}, {<<0, 0>>, <<n - 1, m - 1>>})
           IN  <<Of("SPATIAL", 1, 2, 2, 4), Of("FREQUENCY", 2, 1, 4, 2), Of("FREQUENCY", 1, 0, 2, 2)>>
Regions == LET q == Region("YUV_444", "FREQUENCY", "ALL", 0)
           IN  <<Plain(q, [All EXCEPT !.m_bInROI = {2}], {Across(q), Large(q)})>>

MCJobs == Whole \o Formats \o Partial \o Indexes \o Regions

=============================================================================
