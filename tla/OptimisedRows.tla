---------------------------- MODULE OptimisedRows ----------------------------
(***************************************************************************)
(* The rows of 8-bit RGB that the x86 builds read and write four pixels at *)
(* a time (image/encode/strenc_x86.c, image/decode/strdec_x86.c), when     *)
(* ENABLE_OPTIMIZATIONS is defined.                                        *)
(*                                                                         *)
(* They work on whole groups of four columns and whole rows of             *)
(* macroblocks: the caller says with fPaddedUserBuffer that the buffer has *)
(* the room.                                                               *)
(***************************************************************************)
EXTENDS ImageOutput

\* Eight lines are made of four registers' worth of cells, 8 cells each, half of them to a line.
Half == << <<0, 0>>, <<0, 2>>, <<8, 2>>, <<8, 0>>, <<16, 0>>, <<16, 2>>, <<24, 2>>, <<24, 0>> >>
Spot == <<0, 1, 5, 4>>
CellAt(r, i) == (r \div 8) * 32 + Half[(r % 8) + 1][1] + Half[(r % 8) + 1][2] + Spot[i]

-----------------------------------------------------------------------------
(* Reading: RGB24_6 goes through the lines four at a time, for each        *)
(* through the columns.  What lies right of the image and below it is read *)
(* from the buffer.                                                        *)

Scatter == << <<0, 1, 5, 4>>, <<2, 3, 7, 6>>, <<10, 11, 15, 14>>, <<8, 9, 13, 12>> >>

RGB24_6(p, pv) ==
    LET From(k) == LET n == k % 16
                       l == CHOOSE l \in 1 .. 4 : \E i \in 1 .. 4 : Scatter[l][i] = n
                       i == CHOOSE i \in 1 .. 4 : Scatter[l][i] = n
                   IN  (((k % 64) \div 16) * 4 + l - 1) * p.stride + 12 * (k \div 64) + 3 * (i - 1)
        Value(k) == LET c == CC([i \in 1 .. 3 |-> pv[From(k) + i - 1] * 8]) IN <<c[2] - 1024, -c[1], c[3]>>
        all      == [k \in 0 .. cmbWidth(p) * 256 - 1 |-> Value(k)]
    IN  [c \in 1 .. 3 |-> [k \in DOMAIN all |-> all[k][c]]]

inputMBRow_RGB24_6(p, pv) == RGB24_6(p, pv)

\* StrEncOpt: when the reader is used.
UsesRGB24_6(p) == p.padded /\ p.bd = "BD_8" /\ p.cfExt = "CF_RGB" /\ p.cfInt = "YUV_444" /\ p.els = 3 /\ p.rgb /\ p.scaled

-----------------------------------------------------------------------------
(* Writing.  The values of a cell are saturated to 16 bits, then to 8.     *)
(* Each of the eight kinds gives the order of the bytes, how many, the     *)
(* bias and the fraction of the values.                                    *)

Kind(order, bytes, bias, unit) == [order |-> order, bytes |-> bytes, bias |-> bias, unit |-> unit]

Packed(kind, v) ==
    LET c == ICC(<<-v[2], v[1] + kind.bias, v[3]>>)
    IN  [i \in 1 .. kind.bytes |-> IF i = 4 THEN 0 ELSE CLIP8(CLIP16(c[kind.order[i]]) \div kind.unit)]

\* One call stores eight lines, groups of four columns of each.
Store(kind, p, a, top, at, groups, pv) ==
    LET Pixel4(g, l, i) == LET k == 64 * g + CellAt(top + l, i) IN Packed(kind, <<a[1][k], a[2][k], a[3][k]>>)
        Line8(l) == [n \in 0 .. groups * 4 * kind.bytes - 1 |->
                        Pixel4(n \div (4 * kind.bytes), l, ((n \div kind.bytes) % 4) + 1)[(n % kind.bytes) + 1]]
        lines    == [l \in 0 .. 7 |-> Line8(l)]
        Line0(k) == (k - at) \div p.stride
    IN  [k \in DOMAIN pv |->
            IF k >= at /\ Line0(k) <= 7 /\ (k - at) % p.stride < groups * 4 * kind.bytes
            THEN lines[Line0(k)][(k - at) % p.stride] ELSE pv[k]]

\* The two calls for a row of macroblocks.
Upper(p, cRow) == p.stride * (cRow - 1) * 16
Lower(p, cRow) == Upper(p, cRow) + p.stride * 8

\* The lossless writers stop at the last group the width reaches, the others at the last macroblock.
WidthGroups(p) == (p.w + 3) \div 4
BlockGroups(p) == cmbWidth(p) * 4

RGB24_5 == Kind(<<1, 2, 3>>, 3, 128, 1)
BGR24_5 == Kind(<<3, 2, 1>>, 3, 128, 1)
BGR32_5 == Kind(<<3, 2, 1>>, 4, 128, 1)
RGB32_5 == Kind(<<1, 2, 3>>, 4, 128, 1)

\* Slip of the code: only the first of the lossy writers rounds.
RGB24_3 == Kind(<<1, 2, 3>>, 3, 128 * 8 + 3, 8)
BGR24_3 == Kind(<<3, 2, 1>>, 3, 128 * 8, 8)
RGB32_3 == Kind(<<1, 2, 3>>, 4, 128 * 8, 8)
BGR32_3 == Kind(<<3, 2, 1>>, 4, 128 * 8, 8)

storeRGB24_5(p, a, top, at, pv) == Store(RGB24_5, p, a, top, at, WidthGroups(p), pv)
storeBGR24_5(p, a, top, at, pv) == Store(BGR24_5, p, a, top, at, WidthGroups(p), pv)
storeBGR32_5(p, a, top, at, pv) == Store(BGR32_5, p, a, top, at, WidthGroups(p), pv)
storeRGB32_5(p, a, top, at, pv) == Store(RGB32_5, p, a, top, at, WidthGroups(p), pv)
storeRGB24_3(p, a, top, at, pv) == Store(RGB24_3, p, a, top, at, BlockGroups(p), pv)
storeBGR24_3(p, a, top, at, pv) == Store(BGR24_3, p, a, top, at, BlockGroups(p), pv)
storeRGB32_3(p, a, top, at, pv) == Store(RGB32_3, p, a, top, at, BlockGroups(p), pv)
storeBGR32_3(p, a, top, at, pv) == Store(BGR32_3, p, a, top, at, BlockGroups(p), pv)

outputMBRow_RGB24_Lossless_1(p, cRow, a, pv) == storeRGB24_5(p, a, 8, Lower(p, cRow), storeRGB24_5(p, a, 0, Upper(p, cRow), pv))
outputMBRow_BGR24_Lossless_1(p, cRow, a, pv) == storeBGR24_5(p, a, 8, Lower(p, cRow), storeBGR24_5(p, a, 0, Upper(p, cRow), pv))
outputMBRow_BGR32_Lossless_1(p, cRow, a, pv) == storeBGR32_5(p, a, 8, Lower(p, cRow), storeBGR32_5(p, a, 0, Upper(p, cRow), pv))
outputMBRow_RGB32_Lossless_1(p, cRow, a, pv) == storeRGB32_5(p, a, 8, Lower(p, cRow), storeRGB32_5(p, a, 0, Upper(p, cRow), pv))
outputMBRow_RGB24_Lossy_3(p, cRow, a, pv)    == storeRGB24_3(p, a, 8, Lower(p, cRow), storeRGB24_3(p, a, 0, Upper(p, cRow), pv))
outputMBRow_BGR24_Lossy_3(p, cRow, a, pv)    == storeBGR24_3(p, a, 8, Lower(p, cRow), storeBGR24_3(p, a, 0, Upper(p, cRow), pv))
outputMBRow_RGB32_Lossy_3(p, cRow, a, pv)    == storeRGB32_3(p, a, 8, Lower(p, cRow), storeRGB32_3(p, a, 0, Upper(p, cRow), pv))
outputMBRow_BGR32_Lossy_3(p, cRow, a, pv)    == storeBGR32_3(p, a, 8, Lower(p, cRow), storeBGR32_3(p, a, 0, Upper(p, cRow), pv))

\* StrDecOpt: when a writer is used, and which.
\* Slip of the code: RGB of 32 bits that has a fraction is written by the writer of 24 bits.
UsesStore(p, d) == p.padded /\ p.bd = "BD_8" /\ p.cfExt = "CF_RGB" /\ p.or = 0 /\ p.cfInt = "YUV_444" /\ d.full

outputMBRowOpt(p, cRow, a, pv) ==
    CASE p.els = 3 /\ p.rgb /\ p.scaled   -> outputMBRow_RGB24_Lossy_3(p, cRow, a, pv)
      [] p.els = 3 /\ ~p.rgb /\ p.scaled  -> outputMBRow_BGR24_Lossy_3(p, cRow, a, pv)
      [] p.els = 3 /\ p.rgb /\ ~p.scaled  -> outputMBRow_RGB24_Lossless_1(p, cRow, a, pv)
      [] p.els = 3 /\ ~p.rgb /\ ~p.scaled -> outputMBRow_BGR24_Lossless_1(p, cRow, a, pv)
      [] p.els = 4 /\ p.rgb /\ p.scaled   -> outputMBRow_RGB24_Lossy_3(p, cRow, a, pv)
      [] p.els = 4 /\ ~p.rgb /\ p.scaled  -> outputMBRow_BGR32_Lossy_3(p, cRow, a, pv)
      [] p.els = 4 /\ p.rgb /\ ~p.scaled  -> outputMBRow_RGB32_Lossless_1(p, cRow, a, pv)
      [] p.els = 4 /\ ~p.rgb /\ ~p.scaled -> outputMBRow_BGR32_Lossless_1(p, cRow, a, pv)

=============================================================================
