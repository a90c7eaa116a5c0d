-------------------------- MODULE MCTransformCodec --------------------------
EXTENDS TransformCodec

Formats == {"full", "420", "422"}

Image(w, h, f, ol, hard, tx, ty) ==
    [w |-> w, h |-> h, format |-> f, ol |-> ol, hard |-> hard, uiTileX |-> tx, uiTileY |-> ty,
     left |-> 0, right |-> 16 * w - 1, top |-> 0, bottom |-> 16 * h - 1]

\* ValidateArgs: two levels of overlap on subsampled chrominance need hard tiles two macroblocks wide.
Wide(i) == i.format # "full" /\ i.ol = 2 =>
              i.w - Last(i.uiTileY) >= 2 /\ \A k \in 2 .. Len(i.uiTileY) : i.uiTileY[k] - i.uiTileY[k - 1] >= 2

Plain == {Image(w, h, f, ol, FALSE, <<0>>, <<0>>) : w \in 1 .. 3, h \in 1 .. 3, f \in Formats, ol \in 0 .. 2}

\* Tiles whose columns and rows begin at the same numbers, at some of them or at none.  uiTileX
\* stays below the height: a boundary past the last macroblock has filters outside the rows of
\* macroblocks.
Tilings == {<<<<0, 1>>, <<0>>>>, <<<<0>>, <<0, 2>>>>, <<<<0, 1>>, <<0, 2>>>>, <<<<0, 2>>, <<0, 1>>>>,
            <<<<0, 1, 2>>, <<0, 2>>>>, <<<<0, 2>>, <<0, 1, 2>>>>}

Tiled == {Image(4, 3, f, ol, TRUE, t[1], t[2]) : f \in Formats, ol \in 1 .. 2, t \in Tilings}

\* Regions as near to tiles that are not decoded as their pixels allow: the code has 2 and 10 pixels
\* in all formats, too few for subsampled chrominance.
Near(f, ol) == CASE ol = 0 -> 0 [] ol = 1 -> (IF f = "full" THEN 2 ELSE 4) [] ol = 2 -> (IF f = "full" THEN 10 ELSE 12)

Across(f, ol, l, r) == [Image(4, 1, f, ol, FALSE, <<0, 1, 2, 3>>, <<0>>) EXCEPT !.left = l, !.right = r]
Down(f, ol, t, b)   == [Image(2, 4, f, ol, FALSE, <<0>>, <<0, 1, 2, 3>>) EXCEPT !.top = t, !.bottom = b]

\* Regions in hard tiles start within the first corner's reach: a corner that is skipped does not
\* keep up the tile state.
HardRegions == {[Image(4, 3, "full", ol, TRUE, <<0, 2>>, <<0, 2>>) EXCEPT !.left = 16, !.right = r, !.top = 16, !.bottom = 31] :
                    ol \in 1 .. 2, r \in {31, 47}}

Regions == UNION {{Across(f, ol, l, r), Down(f, ol, l, r)} : f \in Formats, ol \in 0 .. 2, l \in {31}, r \in {31}}
    \cup UNION {UNION {{Across(f, ol, l, r), Down(f, ol, l, r)} : l \in {16, 16 + Near(f, ol)},
                                                                r \in {31, 47 - Near(f, ol)}} :
                f \in Formats, ol \in 0 .. 2}

MCImages == {i \in Plain \cup Tiled \cup Regions \cup HardRegions : Wide(i)}

=============================================================================
