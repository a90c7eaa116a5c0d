----------------------------- MODULE CodeStream -----------------------------
(***************************************************************************)
(* The code stream of one image: its header and plane headers, the index   *)
(* table and the packets, as the encoder writes them (image/encode/        *)
(* strenc.c) and the decoder takes them apart (image/decode/strdec.c).     *)
(*                                                                         *)
(* A header is the sequence of its bits, after the signature of            *)
(* SignatureBytes.  A packet is the record of what it belongs to and its   *)
(* length; its contents are MacroblockCodec's.  The parameters of an image *)
(* are a record p, of the fields of CWMImageInfo and CWMIStrCodecParam     *)
(* the stream depends on.                                                  *)
(***************************************************************************)
EXTENDS SampleValues, SequencesExt, FiniteSets

SignatureBytes == 8
CODEC_VERSION == 1
CODEC_SUBVERSION == 0
SOFT_TILES == 1                 \* CODEC_SUBVERSION_NEWSCALING_SOFT_TILES
HARD_TILES == 9                 \* CODEC_SUBVERSION_NEWSCALING_HARD_TILES
LOG_MAX_TILES == 12
MAX_TILES == 2 ^ LOG_MAX_TILES
MINIMUM_PACKET_LENGTH == 4

COLORFORMAT == [Y_ONLY |-> 0, YUV_420 |-> 1, YUV_422 |-> 2, YUV_444 |-> 3, CMYK |-> 4, NCOMPONENT |-> 6, CF_RGB |-> 7, CF_RGBE |-> 8]
BITDEPTH_BITS == [BD_1 |-> 0, BD_8 |-> 1, BD_16 |-> 2, BD_16S |-> 3, BD_16F |-> 4, BD_32 |-> 5, BD_32S |-> 6, BD_32F |-> 7,
                  BD_5 |-> 8, BD_10 |-> 9, BD_565 |-> 10, BD_1alt |-> 15]
SUBBAND == [SB_ALL |-> 0, SB_NO_FLEXBITS |-> 1, SB_NO_HIGHPASS |-> 2, SB_DC_ONLY |-> 3, SB_ISOLATED |-> 4]
NameOf(code, v) == CHOOSE n \in DOMAIN code : code[n] = v

\* How many subbands are coded: DC, LP, HP (AC), flexbits.
cSB(sb) == CASE sb = "SB_DC_ONLY" -> 1 [] sb = "SB_NO_HIGHPASS" -> 2 [] sb = "SB_NO_FLEXBITS" -> 3 [] OTHER -> 4

MBs(n) == (n + 15) \div 16

-----------------------------------------------------------------------------
(* Bits: the n low bits of v, highest first; a word of more than 16 bits   *)
(* goes in two.                                                            *)

putBit16(v, n) == [k \in 1 .. n |-> (v \div 2 ^ (n - k)) % 2]
putBit32(v, n) == IF n > 16 THEN putBit16(v \div 2 ^ (n - 16), 16) \o putBit16(v, n - 16) ELSE putBit16(v, n)
Bool(b)        == IF b THEN <<1>> ELSE <<0>>
fillToByte(bits) == bits \o putBit16(0, (-Len(bits)) % 8)

\* n bits of the stream after the first `at`.
getBits(bits, at, n) == FoldLeft(LAMBDA v, b : 2 * v + b, 0, SubSeq(bits, at + 1, at + n))
flushToByte(at) == at + ((-at) % 8)

-----------------------------------------------------------------------------
(* Tiles: widths or heights in macroblocks become first macroblocks.       *)

Wider == 300        \* how many more tiles than asked an image can need

setUniformTiling(cNumTile, cNumMB) ==
    LET n == CHOOSE k \in cNumTile .. cNumTile + Wider :
                 /\ (cNumMB + k - 1) \div k <= 65535
                 /\ \A j \in cNumTile .. k - 1 : (cNumMB + j - 1) \div j > 65535
        left[k \in 0 .. n - 1] == IF k = 0 THEN cNumMB ELSE left[k - 1] - ((left[k - 1] + n - k) \div (n - k + 1))
    IN  [k \in 1 .. n |-> left[k - 1] - IF k = n THEN 0 ELSE left[k]]

Firsts(sizes) == LET first[k \in 1 .. Len(sizes)] == IF k = 1 THEN 0 ELSE first[k - 1] + sizes[k - 1] IN [k \in 1 .. Len(sizes) |-> first[k]]

validateTiling(tiles, asked, cNumMB) ==
    LET n    == IF asked = 0 \/ asked > cNumMB THEN 1 ELSE Least(asked, MAX_TILES)
        upTo[k \in 0 .. n - 1] == IF k = 0 THEN 0 ELSE upTo[k - 1] + tiles[k]
        bad  == {k \in 1 .. n - 1 : tiles[k] = 0 \/ tiles[k] > 65535}
        full == {k \in 1 .. n - 1 : upTo[k] >= cNumMB}
        stop == Min(bad \cup full \cup {n})
        cMBs == IF stop \in bad THEN upTo[stop - 1] ELSE IF stop \in full THEN upTo[stop] ELSE upTo[n - 1]
        sizes == IF stop \in bad THEN setUniformTiling(n, cNumMB)
                 ELSE [k \in 1 .. stop |-> IF k < n THEN tiles[k] ELSE 0]
    IN  Firsts(IF cMBs > cNumMB \/ cNumMB - cMBs > 65536 THEN setUniformTiling(Len(sizes), cNumMB) ELSE sizes)

-----------------------------------------------------------------------------
(* What the encoder makes of the parameters it is given.                   *)

UnitFormats == {"BD_5", "BD_565", "BD_10"}
Halved(cf)  == cf \in {"YUV_420", "YUV_422"}

\* The internal colour format: what is asked for, unless the picture has less.
Unpacked(p) == IF p.bd \in UnitFormats /\ p.cfInt \notin {"YUV_420", "YUV_422", "Y_ONLY"} THEN "YUV_444"
               ELSE IF p.bd = "BD_1" THEN "Y_ONLY" ELSE p.cfInt
Transcoded(p) ==
    LET cf == Unpacked(p)
        less == \/ p.cfExt = "Y_ONLY" /\ cf # "Y_ONLY"
                \/ cf = "YUV_422" /\ p.cfExt \in {"YUV_420", "Y_ONLY"}
                \/ cf = "YUV_444" /\ p.cfExt \in {"YUV_422", "YUV_420", "Y_ONLY"}
        kept == IF less THEN p.cfExt ELSE IF p.cfExt = "NCOMPONENT" THEN "NCOMPONENT" ELSE cf
    IN  IF p.cfExt = "CMYK" /\ kept = "NCOMPONENT" THEN "CMYK" ELSE kept

Channels(cf, n) == CASE cf = "NCOMPONENT" -> n [] cf = "Y_ONLY" -> 1 [] cf = "CMYK" -> 4 [] OTHER -> 3

Refused(p) ==
    \/ p.w = 0 \/ p.h = 0
    \/ Halved(p.cfInt) /\ p.overlap = 2 /\ MBs(p.w) < 2
    \/ p.bd \in UnitFormats /\ (p.cfExt # "CF_RGB" \/ p.leading # 0)
    \/ p.bd = "BD_1" /\ p.cfExt # "Y_ONLY"
    \/ p.alphaMode > 1 /\ (Halved(p.cfExt) \/ p.bd \in {"BD_5", "BD_10", "BD_1"})
    \/ Halved(Unpacked(p)) /\ (p.bd \in {"BD_16F", "BD_32F"} \/ p.cfExt = "CF_RGBE")

\* The heights of hard tiles, the last one measured against the width of the image.
TooNarrow(p, cf, tileY) ==
    /\ p.hard /\ Halved(cf) /\ p.overlap = 2
    /\ \/ \E r \in 2 .. Len(tileY) : tileY[r] - tileY[r - 1] < 2
       \/ MBs(p.w) - tileY[Len(tileY)] < 2

\* A refused picture has no tiles.
ValidateArgs(p) ==
    LET tileX == validateTiling(p.tilesX, Len(p.tilesX) + 1, MBs(p.w))
        tileY == validateTiling(p.tilesY, Len(p.tilesY) + 1, MBs(p.h))
        sb    == IF p.sb = "SB_ISOLATED" THEN "SB_ALL" ELSE p.sb
    IN  IF Refused(p) \/ TooNarrow(p, Unpacked(p), tileY) THEN [p EXCEPT !.tileX = <<>>]
        ELSE [p EXCEPT !.tileX = tileX, !.tileY = tileY, !.sb = sb, !.cfInt = Transcoded(p),
                       !.channels = Channels(Transcoded(p), p.channels)]

UVResolutionChange(p) ==
    /\ ~p.yuv
    /\ \/ p.cfExt \in {"CF_RGB", "YUV_444", "CMYK", "CF_RGBE"} /\ Halved(p.cfInt)
       \/ p.cfExt = "YUV_422" /\ p.cfInt = "YUV_420"

\* 1 == x <= 1 compares a truth value with 1: the quantiser has no say.
ScaledArith(p, change) ==
    /\ p.bd \notin {"BD_32", "BD_32S", "BD_32F"}
    /\ ~(p.sb = "SB_ALL" /\ ~change) /\ ~p.unscaled

\* The quantiser of a band and channel; 1 is 0, and eight bits are kept.  Alpha
\* has one channel, and one quantiser for all of its bands.
IndexOf(v) == IF v < 2 THEN 0 ELSE v % 256
Or(v, default) == IF v # 0 THEN v ELSE default
QPIndex(q, alpha, band, ch) ==
    LET y == q.Y  u == Or(q.U, y)  v == Or(q.V, y)
    IN  IndexOf(IF alpha THEN q.A
                ELSE CASE band = 1 -> <<y, u, v>>[Least(ch, 3)]
                       [] band = 2 -> <<Or(q.YLP, y), Or(q.ULP, u), Or(q.VLP, v)>>[Least(ch, 3)]
                       [] OTHER    -> <<Or(q.YHP, y), Or(q.UHP, u), Or(q.VHP, v)>>[Least(ch, 3)])

DefaultLen(p) == CASE p.bd \in {"BD_32", "BD_32S"} -> Or(p.len, 10) [] p.bd = "BD_32F" -> Or(p.len, 13) [] OTHER -> p.len

\* nExpBias has eight bits and rolls over.
ExpBias(p) == ((IF p.bias = 0 THEN 132 ELSE p.bias) + 128) % 256

\* The plane of the image, and that of interleaved alpha behind it.
Plane(p, cf, channels, alpha) ==
    [cf |-> cf, channels |-> channels, scaled |-> ScaledArith(p, cf # "Y_ONLY" /\ UVResolutionChange(p)), sb |-> p.sb,
     len  |-> IF p.bd \in {"BD_16", "BD_16S", "BD_32", "BD_32S", "BD_32F"} THEN DefaultLen(p) ELSE 0,
     bias |-> IF p.bd = "BD_32F" THEN ExpBias(p) ELSE 0,
     qp   |-> [band \in 1 .. Least(cSB(p.sb), 3) |-> [ch \in 1 .. channels |-> QPIndex(p.qp, alpha, band, ch)]]]
bAlphaChannel(p) == p.alphaMode = 3
StrEncInit(p) ==
    LET main == Plane(p, p.cfInt, p.channels, bAlphaChannel(p) /\ p.channels = 1)
    IN  IF bAlphaChannel(p) THEN <<main, Plane(p, "Y_ONLY", 1, TRUE)>> ELSE <<main>>

-----------------------------------------------------------------------------
(* Writing the headers.                                                    *)

\* Independent quantisers: mode 2, where there is more than one channel.
writeQuantizer(index) == (IF Len(index) > 1 THEN putBit16(2, 2) ELSE <<>>) \o FlattenSeq([ch \in 1 .. Len(index) |-> putBit16(index[ch], 8)])

\* A band's own uniform quantisers follow a bit that says so.
OwnQuantizer(plane, band) == Bool(band = 1) \o (IF band = 1 THEN <<>> ELSE Bool(TRUE)) \o writeQuantizer(plane.qp[band])

WriteImagePlaneHeader(p, plane) ==
    LET colour == CASE plane.cf \in {"YUV_420", "YUV_422", "YUV_444"} -> putBit16(0, 8)
                    [] plane.cf = "NCOMPONENT" -> putBit16(plane.channels - 1, 4) \o putBit16(0, 4)
                    [] OTHER -> <<>>
        depth  == CASE p.bd \in {"BD_16", "BD_16S", "BD_32", "BD_32S"} -> putBit16(plane.len, 8)
                    [] p.bd = "BD_32F" -> putBit16(plane.len, 8) \o putBit16(plane.bias, 8)
                    [] OTHER -> <<>>
    IN  fillToByte(putBit16(COLORFORMAT[plane.cf], 3) \o Bool(plane.scaled) \o putBit16(SUBBAND[plane.sb], 4)
                   \o colour \o depth \o FlattenSeq([band \in 1 .. Len(plane.qp) |-> OwnQuantizer(plane, band)]))

bAbbreviatedHeader(p) == MBs(p.w) <= 255 /\ MBs(p.h) <= 255
bIndexTable(p) == ~(~p.freq /\ Len(p.tileX) = 1 /\ Len(p.tileY) = 1)
Tiled(p) == Len(p.tileX) > 1 \/ Len(p.tileY) > 1

\* The sizes of all tiles but the last.
TileSizes(first, n) == FlattenSeq([k \in 1 .. Len(first) - 1 |-> putBit16(first[k + 1] - first[k], n)])

WriteWMIHeader(p) ==
    LET short == bAbbreviatedHeader(p)
    IN  fillToByte(
            putBit16(CODEC_VERSION, 4) \o putBit16(IF p.hard THEN HARD_TILES ELSE SOFT_TILES, 4)
            \o Bool(Tiled(p)) \o Bool(p.freq) \o putBit16(p.or, 3) \o Bool(bIndexTable(p)) \o putBit16(p.overlap, 2)
            \o Bool(short) \o Bool(TRUE) \o Bool(FALSE) \o Bool(p.trim) \o Bool(FALSE) \o putBit16(0, 2) \o Bool(bAlphaChannel(p))
            \o putBit16(COLORFORMAT[p.cfExt], 4)
            \o putBit16(BITDEPTH_BITS[IF p.bd = "BD_1" /\ p.black THEN "BD_1alt" ELSE p.bd], 4)
            \o putBit32(p.w - 1, IF short THEN 16 ELSE 32) \o putBit32(p.h - 1, IF short THEN 16 ELSE 32)
            \o (IF Tiled(p) THEN putBit16(Len(p.tileX) - 1, LOG_MAX_TILES) \o putBit16(Len(p.tileY) - 1, LOG_MAX_TILES) ELSE <<>>)
            \o TileSizes(p.tileX, IF short THEN 8 ELSE 16) \o TileSizes(p.tileY, IF short THEN 8 ELSE 16))

-----------------------------------------------------------------------------
(* Reading them.  A reader returns what it read and the bits it took.      *)

readQuantizer(bits, at, channels) ==
    LET mode  == IF channels > 1 THEN getBits(bits, at, 2) ELSE 0
        y     == IF channels > 1 THEN at + 2 ELSE at
        count == IF mode = 0 THEN 1 ELSE IF mode = 1 THEN 2 ELSE channels
    IN  [mode |-> mode, index |-> [ch \in 1 .. count |-> getBits(bits, y + 8 * (ch - 1), 8)], at |-> y + 8 * count]

\* formatQuantizer: the channels share the first's, the second's, or have their own.
formatQuantizer(q, channels) == [ch \in 1 .. channels |-> q.index[Least(ch, Len(q.index))]]

\* A band that has a bit set uses the quantisers of the band before.
readBand(bits, at, channels, band, before) ==
    IF band > 1 /\ getBits(bits, at, 1) = 1 THEN [before EXCEPT !.at = at + 1]
    ELSE readQuantizer(bits, IF band = 1 THEN at + 1 ELSE at + 2, channels)

\* The quantisers of the first n bands, one behind the other.
readBands(bits, at, channels, n) ==
    FoldLeft(LAMBDA got, band : Append(got, readBand(bits, IF band = 1 THEN at ELSE got[band - 1].at, channels, band, got[band - 1])),
             <<>>, [band \in 1 .. n |-> band])

WithQuantizers(plane, q) ==
    [plane EXCEPT !.qp = [band \in 1 .. Len(q) |-> formatQuantizer(q[band], plane.channels)], !.at = flushToByte(q[Len(q)].at)]

ReadImagePlaneHeader(bits, at, bd) ==
    LET cf   == NameOf(COLORFORMAT, getBits(bits, at, 3))
        sb   == NameOf(SUBBAND, getBits(bits, at + 4, 4))
        long == bd \in {"BD_16", "BD_16S", "BD_32", "BD_32S", "BD_32F"}
        channels == CASE cf = "Y_ONLY" -> 1 [] cf = "CMYK" -> 4 [] cf = "NCOMPONENT" -> getBits(bits, at + 8, 4) + 1 [] OTHER -> 3
        a1   == at + IF cf \in {"Y_ONLY", "CMYK"} THEN 8 ELSE 16
        a2   == a1 + IF bd = "BD_32F" THEN 16 ELSE IF long THEN 8 ELSE 0
    IN  WithQuantizers([cf |-> cf, channels |-> channels, scaled |-> getBits(bits, at + 3, 1) = 1, sb |-> sb,
                        len  |-> IF long THEN getBits(bits, a1, 8) ELSE 0,
                        bias |-> IF bd = "BD_32F" THEN getBits(bits, a1 + 8, 8) ELSE 0, qp |-> <<>>, at |-> a2],
                       readBands(bits, a2, channels, Least(cSB(sb), 3)))

\* The sizes of n - 1 tiles of `wide` bits each.
ReadTiles(bits, at, n, wide) == Firsts([k \in 1 .. n |-> IF k = n THEN 0 ELSE getBits(bits, at + wide * (k - 1), wide)])

ReadWMIHeader(bits) ==
    LET short == getBits(bits, 16, 1) = 1
        word  == IF short THEN 16 ELSE 32
        tile  == IF short THEN 8 ELSE 16
        tiled == getBits(bits, 8, 1) = 1
        bd    == NameOf(BITDEPTH_BITS, getBits(bits, 28, 4))
        a1    == 32 + 2 * word
        nV    == IF tiled THEN getBits(bits, a1, LOG_MAX_TILES) + 1 ELSE 1
        nH    == IF tiled THEN getBits(bits, a1 + LOG_MAX_TILES, LOG_MAX_TILES) + 1 ELSE 1
        a2    == IF tiled THEN a1 + 2 * LOG_MAX_TILES ELSE a1
        a3    == a2 + tile * (nV - 1)
        a4    == flushToByte(a3 + tile * (nH - 1))
        depth == IF bd = "BD_1alt" THEN "BD_1" ELSE bd
        head  == [hard |-> getBits(bits, 4, 4) = HARD_TILES, freq |-> getBits(bits, 9, 1) = 1, or |-> getBits(bits, 10, 3),
                  index |-> getBits(bits, 13, 1) = 1, overlap |-> getBits(bits, 14, 2), trim |-> getBits(bits, 19, 1) = 1,
                  alpha |-> getBits(bits, 23, 1) = 1, cfExt |-> NameOf(COLORFORMAT, getBits(bits, 24, 4)),
                  bd |-> depth, black |-> bd = "BD_1alt", w |-> getBits(bits, 32, word) + 1, h |-> getBits(bits, 32 + word, word) + 1,
                  tileX |-> ReadTiles(bits, a2, nV, tile), tileY |-> ReadTiles(bits, a3, nH, tile)]
    IN  [head |-> head, plane |-> ReadImagePlaneHeader(bits, a4, depth)]

\* The header of a picture as its encoder means it.
Header(p) == [hard |-> p.hard, freq |-> p.freq, or |-> p.or, index |-> bIndexTable(p), overlap |-> p.overlap, trim |-> p.trim,
              alpha |-> bAlphaChannel(p), cfExt |-> p.cfExt, bd |-> p.bd, black |-> p.bd = "BD_1" /\ p.black, w |-> p.w, h |-> p.h,
              tileX |-> p.tileX, tileY |-> p.tileY]

-----------------------------------------------------------------------------
(* The packets.  A tile has one, or in frequency order one for each of its *)
(* subbands; each column of tiles, or each of its subbands, is written to  *)
(* a stream of its own until the picture ends.                             *)

cNumBitIO(index, freq, columns, bands) == IF ~index THEN 0 ELSE IF freq THEN columns * bands ELSE columns

\* The packet of a tile: band 0 is all of it.  How long it is depends on
\* the picture: p.bytes[<<row, column, band>>].
PacketOf(p, row, col, band) == [kind |-> "packet", plane |-> p.plane, row |-> row, col |-> col, band |-> band, size |-> p.bytes[<<row, col, band>>]]
StreamPacket(p, row, k) == IF p.freq THEN PacketOf(p, row, (k - 1) \div cSB(p.sb), ((k - 1) % cSB(p.sb)) + 1) ELSE PacketOf(p, row, k - 1, 0)
Bytes(pieces) == FoldLeft(LAMBDA n, piece : n + piece.size, 0, pieces)

\* The coder of one plane: the rows it was given and those it has encoded,
\* its streams, and where they stood at the end of each row of tiles.
StrIOEncInit(p) ==
    [p |-> p, given |-> 0, cRow |-> 0, table |-> <<>>,
     streams |-> [k \in 1 .. Greatest(1, cNumBitIO(bIndexTable(p), p.freq, Len(p.tileX), cSB(p.sb))) |-> <<>>]]

TileRowOf(first, mb) == Cardinality({r \in 1 .. Len(first) : first[r] <= mb}) - 1

encodeMB(c) ==
    LET p    == c.p
        row  == TileRowOf(p.tileY, c.cRow)
        ends == c.cRow + 1 = MBs(p.h) \/ (row + 1 < Len(p.tileY) /\ c.cRow = p.tileY[row + 2] - 1)
        full == [k \in DOMAIN c.streams |-> Append(c.streams[k], StreamPacket(p, row, k))]
    IN  IF ends THEN [c EXCEPT !.cRow = @ + 1, !.streams = full, !.table = Append(@, [k \in DOMAIN full |-> Bytes(full[k])])]
        ELSE [c EXCEPT !.cRow = @ + 1]

\* A row of macroblocks is encoded when the next one has been given.
ImageStrEncEncode(c) == LET next == [c EXCEPT !.given = @ + 1] IN IF c.given = 0 THEN next ELSE encodeMB(next)

-----------------------------------------------------------------------------
(* The index table: where each packet starts, behind the header.           *)

PutVLWordEsc(iEscape, s) ==
    IF iEscape # 0 THEN putBit16(iEscape, 8)
    ELSE IF s < 64256 THEN putBit16(s, 16)
    ELSE putBit16(251, 8) \o putBit16(s \div 65536, 16) \o putBit16(s % 65536, 16)

\* How many bits a word takes, by its first eight; one of 2^32 and more is left out.
VLWordBits(s) == IF s >= 253 THEN 8 ELSE IF s < 251 THEN 16 ELSE 40
GetVLWordEsc(bits, at) ==
    LET s == getBits(bits, at, 8)
    IN  CASE s >= 253 -> 0
          [] s < 251  -> 256 * s + getBits(bits, at + 8, 8)
          [] OTHER    -> 65536 * getBits(bits, at + 8, 16) + getBits(bits, at + 24, 16)

\* Without a table: four bytes of profile and level follow.
writeIndexTableNull == PutVLWordEsc(0, 4) \o putBit16(111, 8) \o putBit16(255, 8) \o putBit16(1, 16)

PacketLength(c, row, k) == c.table[row][k] - IF row = 1 THEN 0 ELSE c.table[row - 1][k]

\* In progressive order the packets of a band follow all those of the bands before.
BandsApart(p) == IF p.freq /\ p.prog THEN cSB(p.sb) ELSE 1
writeIndexTable(c) ==
    LET n       == Len(c.streams)
        entries == n * Len(c.table)
        bands   == BandsApart(c.p)
        size(i)  == PacketLength(c, (i - 1) \div n + 1, ((i - 1) % n) + 1)
        small(i) == size(i) <= MINIMUM_PACKET_LENGTH
        total[i \in 1 .. entries] == size(i) + IF i <= bands THEN 0 ELSE total[i - bands]
        start[l \in 1 .. bands] == IF l = 1 THEN 0 ELSE start[l - 1] + total[entries - bands + l - 1]
        iSize[i \in 1 .. entries] == IF i <= bands THEN start[i] ELSE iSize[i - bands] + IF small(i - bands) THEN 0 ELSE size(i - bands)
        row(r) == FlattenSeq([k \in 1 .. n |-> PutVLWordEsc(IF small(n * (r - 1) + k) THEN 255 ELSE 0, iSize[n * (r - 1) + k])])
    IN  fillToByte(putBit16(1, 16) \o FlattenSeq([r \in DOMAIN c.table |-> row(r)]) \o PutVLWordEsc(255, 0))

\* Mutant of copyTo: a packet of the length that counts as empty is written.
copyTo_Empty(c, out, k, bytes) ==
    LET starts == {j \in 1 .. Len(c.streams[k]) : Bytes(SubSeq(c.streams[k], 1, j - 1)) = out.read[k] /\ c.streams[k][j].size = bytes}
    IN  [pieces |-> Append(out.pieces, c.streams[k][CHOOSE j \in starts : TRUE]), read |-> [out.read EXCEPT ![k] = @ + bytes]]

\* The next `bytes` of a stream; an empty packet is read and not written.
copyTo(c, out, k, bytes) ==
    LET starts == {j \in 1 .. Len(c.streams[k]) : Bytes(SubSeq(c.streams[k], 1, j - 1)) = out.read[k] /\ c.streams[k][j].size = bytes}
        piece  == IF starts = {} THEN [kind |-> "garbage", size |-> bytes] ELSE c.streams[k][CHOOSE j \in starts : TRUE]
        read   == [out EXCEPT !.read[k] = @ + bytes]
    IN  IF bytes <= MINIMUM_PACKET_LENGTH THEN read ELSE [read EXCEPT !.pieces = Append(@, piece)]

\* Which stream is copied for which row of tiles, one packet after the other.
CopyOrder(p, rows) ==
    LET columns == Len(p.tileX)  n == cSB(p.sb)
        Of(ks)  == FlattenSeq([row \in 1 .. rows |-> [i \in 1 .. Len(ks) |-> <<row, ks[i]>>]])
    IN  IF ~p.freq THEN Of([j \in 1 .. columns |-> j])
        ELSE IF ~p.prog THEN Of([k \in 1 .. columns * n |-> k])
        ELSE FlattenSeq([l \in 1 .. n |-> Of([j \in 1 .. columns |-> (j - 1) * n + l])])

HeaderBits(p) ==
    LET planes == StrEncInit(p)
    IN  WriteWMIHeader(p) \o FlattenSeq([i \in 1 .. Len(planes) |-> WriteImagePlaneHeader(p, planes[i])])

\* The whole code stream: its header, then its packets.
StrIOEncTerm(c) ==
    LET bits  == HeaderBits(c.p) \o (IF bIndexTable(c.p) THEN writeIndexTable(c) ELSE writeIndexTableNull)
        order == CopyOrder(c.p, Len(c.table))
        out[k \in 0 .. Len(order)] ==
            IF k = 0 THEN [pieces |-> <<>>, read |-> [j \in DOMAIN c.streams |-> 0]]
            ELSE copyTo(c, out[k - 1], order[k][2], PacketLength(c, order[k][1], order[k][2]))
    IN  <<[kind |-> "header", bits |-> bits, size |-> SignatureBytes + Len(bits) \div 8]>>
        \o (IF bIndexTable(c.p) THEN out[Len(order)].pieces ELSE c.streams[1])

\* The last row of macroblocks is encoded, and the streams are put together.
ImageStrEncTerm(c) == StrIOEncTerm(encodeMB(c))

-----------------------------------------------------------------------------
(* Reading the index table and finding the packets.                        *)

\* The subbands that are decoded: SUBBAND grows as bands are left out.
KeptSubband(avail, asked) ==
    IF avail = "SB_ALL" THEN asked ELSE IF asked = "SB_ALL" THEN avail
    ELSE NameOf(SUBBAND, Least(SUBBAND[avail], SUBBAND[asked]))

\* Mutant of LastPresent: an empty packet counts.
LastEntry(table, first, n) == table[first + n]

\* Whether the bands of the tiles follow each other: two tests of the table.
LastPresent(table, first, n) ==
    LET some == {i \in 1 .. n : table[first + i] # 0}
    IN  table[first + IF some = {} THEN 1 ELSE Max(some)]

IsProgressive(freq, rows, columns, n, table) ==
    /\ freq
    /\ \/ rows * columns = 1
       \/ n = 1
       \/ /\ \A k \in 0 .. (rows - 1) * columns - 1 : LastPresent(table, k * n, n) >= table[(k + 1) * n + 1]
          /\ \A k \in 0 .. rows * columns - 2 : LastPresent(table, k * n, n) >= table[(k + 1) * n + 1]

\* The table, and the offset of the first packet from the start of the stream.
readIndexTable(bits, at, entries) ==
    LET next[i \in 0 .. entries + 1] ==
            IF i = 0 THEN IF entries = 0 THEN at ELSE at + 16
            ELSE LET before == next[i - 1] IN before + VLWordBits(getBits(bits, before, 8))
    IN  [table |-> [i \in 1 .. entries |-> GetVLWordEsc(bits, next[i - 1])],
         cHeaderSize |-> SignatureBytes + flushToByte(next[entries + 1]) \div 8 + GetVLWordEsc(bits, next[entries]),
         ok |-> entries = 0 \/ getBits(bits, at, 16) = 1]

\* Alpha interleaved with the picture has a header behind the picture's.
PlaneHeaders(bits, image) ==
    <<image.plane>> \o IF image.head.alpha THEN <<ReadImagePlaneHeader(bits, image.plane.at, image.head.bd)>> ELSE <<>>

\* How many readers a row of tiles has, of so many bands.
Readers(head, bands) == cNumBitIO(head.index, head.freq, Len(head.tileX), bands)

\* The decoder of the stream at base, once its table is read.
Decoder(head, planes, index, base, limit, has, bands) ==
    [ok |-> index.ok, head |-> head, planes |-> planes, table |-> index.table, perRow |-> Readers(head, has), perTile |-> has,
     cSB |-> bands, bitIO |-> Readers(head, bands), start |-> base + index.cHeaderSize, limit |-> limit, row |-> 0, found |-> <<>>,
     progressive |-> IsProgressive(head.freq, Len(head.tileY), Len(head.tileX), has, index.table)]

ReadTable(bits, head, planes, base, limit, asked) ==
    LET has   == cSB(planes[1].sb)
        index == readIndexTable(bits, planes[Len(planes)].at, Readers(head, has) * Len(head.tileY))
    IN  Decoder(head, planes, index, base, limit, has, cSB(KeptSubband(planes[1].sb, asked)))

\* A decoder of the stream at an offset: what its headers say, its table, and
\* the packets it has attached to.
ImageStrDecInit(bits, base, limit, asked) ==
    LET image == ReadWMIHeader(bits) IN ReadTable(bits, image.head, PlaneHeaders(bits, image), base, limit, asked)

\* Where the k-th reader of a row of tiles attaches: the entry of its tile
\* and band.  No packet is where no picture is.
OffsetOf(d, k) ==
    LET entry == d.perRow * d.row + (d.perTile * (k \div d.cSB)) + (k % d.cSB) + 1
    IN  IF entry \in DOMAIN d.table THEN d.table[entry] ELSE d.limit
Attached(d, k) == d.bitIO = 0 \/ ~d.head.freq \/ (d.row = 0 /\ k = 0) \/ OffsetOf(d, k) # 0

\* The packets of the next row of tiles; pieceAt is what the file holds.  A
\* bad packet header fails, but that of flexbits.
readPackets(d, pieceAt) ==
    LET readers == 0 .. Greatest(1, d.bitIO) - 1
        at(k)   == d.start + IF d.bitIO = 0 THEN 0 ELSE OffsetOf(d, k)
        nothing == [kind |-> "none", size |-> 0]
        found   == [k \in readers |-> IF ~Attached(d, k) THEN nothing
                                      ELSE IF at(k) \in DOMAIN pieceAt THEN pieceAt[at(k)] ELSE [kind |-> "garbage", size |-> 0]]
        bad     == {k \in readers : /\ found[k].kind # "packet"
                                    /\ ~(d.head.freq /\ k % d.cSB = 3)}
        outside == {k \in readers : Attached(d, k) /\ at(k) >= d.limit}
    IN  [d EXCEPT !.ok = bad = {} /\ outside = {}, !.row = @ + 1, !.found = Append(@, found)]

=============================================================================
