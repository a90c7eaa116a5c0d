--------------------------- MODULE MCFailSafeRows ---------------------------
(* Small images of two columns: the packets of the reader are 3 bytes and  *)
(* those of the stream 4, so that a row takes several refills and spans    *)
(* several stream packets.                                                 *)
EXTENDS FailSafeRows

MCChunks == {2, 5}

TwoRows == << << << 3, 1 >>, << 1, 3 >> >>, << << 1, 3 >>, << 3, 1 >> >> >>

ThreeRows == TwoRows \o << << << 3, 1 >>, << 1, 3 >> >> >>

Plain(planes, parts, tiles, tag, size) ==
  [offset |-> 1, header |-> 2, rows |-> Len(parts), cols |-> 2, planes |-> planes,
   parts |-> parts, tiles |-> tiles, tag |-> tag, size |-> size]

OneTile == << [top |-> 0, offset |-> 0] >>

(* One tile row; the tag right (and a byte more in the stream than the     *)
(* image), and 3 bytes too large.                                          *)
Whole    == Plain(1, ThreeRows, OneTile, 26, 28)
WrongTag == Plain(1, ThreeRows, OneTile, 29, 27)

(* Two tile rows, stored in order and with the lower one first; the upper  *)
(* one has one row in the first image.                                     *)
InOrder == Plain(1, ThreeRows, << [top |-> 0, offset |-> 0], [top |-> 1, offset |-> 8] >>, 26, 27)
Swapped == Plain(1, ThreeRows, << [top |-> 0, offset |-> 8], [top |-> 2, offset |-> 0] >>, 26, 27)

(* Interleaved alpha: two planes share the reader.  With two rows all of   *)
(* the image is decoded by one call, which begins again at the top.        *)
AlphaRows == << << << 1 >>, << 1 >> >>, << << 1 >>, << 1 >> >>, << << 1, 2 >>, << 1 >> >> >>

AlphaWhole == Plain(2, << << << 1 >>, << 2 >> >>, << << 2 >>, << 2 >> >> >>, OneTile, 16, 17)

MCImages == {Whole, WrongTag, InOrder, Swapped, AlphaWhole}

AlphaImages == {Plain(2, AlphaRows, OneTile, 18, 19)}

ASSUME AllHeadsThere == \A i \in Images : HeadsThere(i)
=============================================================================
