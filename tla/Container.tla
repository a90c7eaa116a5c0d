----------------------------- MODULE Container -----------------------------
(***************************************************************************)
(* The container of an image: a little TIFF whose one directory says where *)
(* the code streams of the picture and of its planar alpha are, and what   *)
(* is known of the picture (JXRGlueLib/JXRGlueEnc.c, JXRGlueDec.c and      *)
(* JXRMeta.c).                                                             *)
(*                                                                         *)
(* A file, and the buffer of a directory, is a function from offsets to    *)
(* the pieces that were written there.  Every piece has a size.  A value   *)
(* of the metadata is a name and its number of bytes; the data of an EXIF  *)
(* or GPS directory are bytes, since their order is turned round.          *)
(***************************************************************************)
EXTENDS Integers, SequencesExt, FiniteSets

SizeofIFDEntry == 12
OFFSET_OF_PFD == 32

\* BYTE, ASCII, SHORT, LONG, RATIONAL, their signed kinds, FLOAT and DOUBLE.
BYTE == 1
ASCII == 2
SHORT == 3
LONG == 4
UNDEFINED == 7
FLOAT == 11
DOUBLE == 12
IFDEntryTypeSizes == <<1, 1, 2, 4, 8, 1, 1, 2, 4, 8, 4, 8>>

Garbage == [kind |-> "garbage", size |-> 0]

\* A piece written over what was there, and what a reader finds at an offset.
Put(file, at, piece) == (at :> piece) @@ file
Get(file, at)        == IF at \in DOMAIN file THEN file[at] ELSE Garbage
Even(at)             == at + (at % 2)

-----------------------------------------------------------------------------
(* Directories.  The directories of EXIF, GPS and interoperability data    *)
(* are nested in another by an entry that holds their offset.              *)

Nested == <<"EXIFMetadata", "GPSInfoMetadata", "InteroperabilityIFD">>
IsNested(entry) == entry.tag \in ToSet(Nested)
DataSize(entry) == entry.count * IFDEntryTypeSizes[entry.type]
IFDBytes(n)     == 2 + SizeofIFDEntry * n + 4

\* The entry of a nested directory; the last of several counts.
EntriesOf(dir, tag) == SelectSeq(dir, LAMBDA entry : entry.tag = tag)
Subdirectory(dir, tag) == EntriesOf(dir, tag)[Len(EntriesOf(dir, tag))].value

RECURSIVE CalcIFDSize(_, _)
CalcIFDSize(file, ofs) ==
    LET dir    == file[ofs].entries
        own    == FoldLeft(LAMBDA n, entry : n + IF ~IsNested(entry) /\ DataSize(entry) > 4 THEN DataSize(entry) ELSE 0,
                           IFDBytes(Len(dir)), dir)
        More(n, tag) == IF EntriesOf(dir, tag) = <<>> THEN n ELSE Even(n) + CalcIFDSize(file, Subdirectory(dir, tag))
    IN  FoldLeft(More, own, Nested)
BufferCalcIFDSize(buffer, ofs) == CalcIFDSize(buffer, ofs)
StreamCalcIFDSize(file, ofs)   == CalcIFDSize(file, ofs)

\* Mutant of Words: a rational is turned round as one word.
WordsWhole(type) == IFDEntryTypeSizes[type]

\* The bytes of an entry's data, each word of a big-endian source turned
\* round; a rational is two words.
Words(type) == IF IFDEntryTypeSizes[type] = 8 /\ type # DOUBLE THEN 4 ELSE IFDEntryTypeSizes[type]

LittleEndian(bytes, type, big) ==
    IF ~big THEN bytes
    ELSE [i \in 1 .. Len(bytes) |-> LET w == Words(type) IN bytes[w * ((i - 1) \div w) + w - ((i - 1) % w)]]

\* The directory at ofs of src is written at `at` of dst, its data behind it
\* and its nested directories behind them.  The place of a nested entry is
\* kept in sixteen bits.  Yields dst and the offset behind all of it.
RECURSIVE CopyIFD(_, _, _, _, _)
CopyIFD(src, ofs, big, dst, at) ==
    LET dir  == src[ofs].entries
        data == at + IFDBytes(Len(dir))
        next[i \in 0 .. Len(dir)] ==
            IF i = 0 THEN data ELSE next[i - 1] + IF ~IsNested(dir[i]) /\ DataSize(dir[i]) > 4 THEN DataSize(dir[i]) ELSE 0
        DataOf(i)  == IF DataSize(dir[i]) > 4 THEN src[dir[i].value].bytes ELSE dir[i].value
        Moved(i)   == IF IsNested(dir[i]) THEN 0
                      ELSE IF DataSize(dir[i]) > 4 THEN next[i - 1] ELSE LittleEndian(DataOf(i), dir[i].type, big)
        Placed(d, i) == IF IsNested(dir[i]) \/ DataSize(dir[i]) <= 4 THEN d
                        ELSE Put(d, next[i - 1], [kind |-> "data", bytes |-> LittleEndian(DataOf(i), dir[i].type, big), size |-> DataSize(dir[i])])
        ifd  == [kind |-> "ifd", size |-> IFDBytes(Len(dir)), entries |-> [i \in 1 .. Len(dir) |-> [dir[i] EXCEPT !.value = Moved(i)]]]
        More(done, tag) ==
            IF EntriesOf(dir, tag) = <<>> THEN done
            ELSE LET e == CHOOSE i \in 1 .. Len(dir) : dir[i].tag = tag /\ \A j \in i + 1 .. Len(dir) : dir[j].tag # tag
                     linked == IF at + 2 + SizeofIFDEntry * (e - 1) < 65536
                               THEN [done.file EXCEPT ![at].entries[e].value = Even(done.next)] ELSE done.file
                 IN  CopyIFD(src, Subdirectory(dir, tag), big, linked, Even(done.next))
    IN  FoldLeft(More, [file |-> FoldLeft(Placed, Put(dst, at, ifd), [i \in 1 .. Len(dir) |-> i]), next |-> next[Len(dir)]], Nested)

BufferCopyIFD(src, ofs, big, dst, at) == CopyIFD(src, ofs, big, dst, at)
StreamCopyIFD(file, ofs, dst, at)     == CopyIFD(file, ofs, FALSE, dst, at)

\* What a directory says, wherever its parts lie: the numbers of an entry,
\* each by its bytes from the highest; a rational is two numbers.
NumberSizes == <<1, 1, 2, 4, 4, 1, 1, 2, 4, 4, 4, 8>>
Numbers(bytes, type, big) ==
    LET w == NumberSizes[type]
        Number(i) == SubSeq(bytes, w * (i - 1) + 1, w * i)
    IN  [i \in 1 .. Len(bytes) \div w |-> IF big THEN Number(i) ELSE Reverse(Number(i))]

RECURSIVE Meaning(_, _, _)
Meaning(file, ofs, big) ==
    LET dir == file[ofs].entries
    IN  [i \in 1 .. Len(dir) |->
            <<dir[i].tag, dir[i].type, dir[i].count,
              IF IsNested(dir[i]) THEN Meaning(file, dir[i].value, big)
              ELSE Numbers(IF DataSize(dir[i]) > 4 THEN Get(file, dir[i].value).bytes ELSE dir[i].value, dir[i].type, big)>>]

-----------------------------------------------------------------------------
(* Writing the container.                                                  *)

DescTags == << <<"DocumentName", ASCII>>, <<"ImageDescription", ASCII>>, <<"CameraMake", ASCII>>, <<"CameraModel", ASCII>>,
               <<"PageName", ASCII>>, <<"PageNumber", SHORT>>, <<"Software", ASCII>>, <<"DateTime", ASCII>>, <<"Artist", ASCII>>,
               <<"HostComputer", ASCII>>, <<"RatingStars", SHORT>>, <<"RatingValue", SHORT>>, <<"Copyright", ASCII>>,
               <<"Caption", BYTE>> >>
BlockTags == << <<"XMPMetadata", BYTE>>, <<"IPTCNAAMetadata", BYTE>>, <<"PhotoshopMetadata", BYTE>>, <<"EXIFMetadata", LONG>>,
                <<"IccProfile", UNDEFINED>>, <<"GPSInfoMetadata", LONG>> >>
Directories == {"EXIFMetadata", "GPSInfoMetadata"}

\* The metadata are a function from the tags that are set to their values.
\* A value of up to four bytes, or a number, is in the entry itself.
Active(tags, meta) == SelectSeq(tags, LAMBDA t : t[1] \in DOMAIN meta)
MetadataSize(t, meta) == IF t[2] = SHORT \/ meta[t[1]].n <= 4 THEN 0 ELSE meta[t[1]].n
CalcMetadataOffsetSize(meta) == FoldLeft(LAMBDA n, t : n + MetadataSize(t, meta), 0, Active(DescTags, meta))

cWmpDEs(meta, planar) == Len(Active(DescTags, meta)) + Len(Active(BlockTags, meta)) + 8 + IF planar THEN 2 ELSE 0

\* Mutant of Layout: the byte that makes a directory even is not counted.
LayoutUneven(meta, planar) ==
    LET desc  == CalcMetadataOffsetSize(meta)
        start == OFFSET_OF_PFD + IFDBytes(cWmpDEs(meta, planar))
        Lay(l, t) == [l EXCEPT !.block = (t[1] :> IF t[1] \in Directories THEN Even(l.image) ELSE l.image) @@ @, !.image = @ + meta[t[1]].n]
    IN  FoldLeft(Lay, [desc |-> IF desc > 0 THEN start ELSE 0, block |-> <<>>, image |-> start + desc], Active(BlockTags, meta))

\* Where the blocks and then the picture are to lie, behind the directory.
Layout(meta, planar) ==
    LET desc  == CalcMetadataOffsetSize(meta)
        start == OFFSET_OF_PFD + IFDBytes(cWmpDEs(meta, planar))
        Lay(l, t) == LET at == IF t[1] \in Directories THEN Even(l.image) ELSE l.image
                     IN  [l EXCEPT !.block = (t[1] :> at) @@ @, !.image = at + meta[t[1]].n]
    IN  FoldLeft(Lay, [desc |-> IF desc > 0 THEN start ELSE 0, block |-> <<>>, image |-> start + desc], Active(BlockTags, meta))

Entry(tag, type, count, value) == [kind |-> "entry", tag |-> tag, type |-> type, count |-> count, value |-> value, size |-> SizeofIFDEntry]

\* An entry, and its data where it has an offset for them.
WriteWmpDE(w, tag, type, count, value, data) ==
    LET far == data # <<>> /\ count > 4
        new == [w EXCEPT !.file = Put(@, w.pos, Entry(tag, type, count, IF data # <<>> /\ ~far THEN data[1].id ELSE value)),
                         !.pos = @ + SizeofIFDEntry]
    IN  IF far THEN [new EXCEPT !.file = Put(@, value, data[1])] ELSE new

\* Nothing at all is written of descriptive metadata that need no offset.
WriteDescMetadata(w, t, meta, layout) ==
    LET v == meta[t[1]]
    IN  IF layout.desc = 0 THEN w
        ELSE IF t[2] = SHORT THEN WriteWmpDE(w, t[1], SHORT, 1, v.id, <<>>)
        ELSE [WriteWmpDE(w, t[1], t[2], v.n, layout.desc + w.written, <<[kind |-> "data", id |-> v.id, size |-> v.n]>>)
              EXCEPT !.written = @ + IF v.n > 4 THEN v.n ELSE 0]

\* A directory is copied to its place in the file.
WriteBlock(w, t, meta, layout) ==
    LET v  == meta[t[1]]
        at == layout.block[t[1]]
    IN  IF t[1] \in Directories
        THEN LET new == WriteWmpDE(w, t[1], LONG, 1, at, <<>>) IN [new EXCEPT !.file = BufferCopyIFD(v.buffer, 0, FALSE, @, at).file]
        ELSE WriteWmpDE(w, t[1], t[2], v.n, at, <<[kind |-> "data", id |-> v.id, size |-> v.n]>>)

\* info: pixelFormat, orientation, width, height.  Yields the file, the
\* position of the stream, the offset the directory gives for the picture
\* and the places of the entries that are filled in at the end.
WriteContainerPre(meta, info, planar) ==
    LET layout == Layout(meta, planar)
        file0  == (0 :> [kind |-> "II", pfd |-> OFFSET_OF_PFD, size |-> 8]) @@ (8 :> [kind |-> "guid", format |-> info.pixelFormat, size |-> 16])
                  @@ (OFFSET_OF_PFD :> [kind |-> "count", n |-> cWmpDEs(meta, planar), size |-> 2])
        w0     == [file |-> file0, pos |-> OFFSET_OF_PFD + 2, written |-> 0]
        desc   == FoldLeft(LAMBDA w, t : WriteDescMetadata(w, t, meta, layout), w0, Active(DescTags, meta))
        blocks == FoldLeft(LAMBDA w, t : WriteBlock(w, t, meta, layout), desc, Active(BlockTags, meta))
        fixed  == << <<"PixelFormat", BYTE, 16, 8>>, <<"Transformation", LONG, 1, info.orientation>>, <<"ImageWidth", LONG, 1, info.width>>,
                     <<"ImageHeight", LONG, 1, info.height>>, <<"WidthResolution", FLOAT, 1, info.res>>,
                     <<"HeightResolution", FLOAT, 1, info.res>>, <<"ImageOffset", LONG, 1, layout.image>>, <<"ImageByteCount", LONG, 1, 0>> >>
                  \o IF planar THEN << <<"AlphaOffset", LONG, 1, 0>>, <<"AlphaByteCount", LONG, 1, 0>> >> ELSE <<>>
        all    == FoldLeft(LAMBDA w, f : WriteWmpDE(w, f[1], f[2], f[3], f[4], <<>>), blocks, fixed)
        byteCount == blocks.pos + 7 * SizeofIFDEntry
        end    == all.pos + 4
    IN  [file |-> Put(all.file, all.pos, [kind |-> "next", size |-> 4]),
         pos |-> IF layout.desc > 0 \/ layout.block # <<>> THEN layout.image ELSE end, uImageOffset |-> layout.image,
         uOffImageByteCount |-> byteCount]

WriteContainerPost(file, at, planar, nCbImage, nOffAlpha, nCbAlpha) ==
    LET image == [file EXCEPT ![at].value = nCbImage]
    IN  IF planar THEN [image EXCEPT ![at + SizeofIFDEntry].value = nOffAlpha, ![at + 2 * SizeofIFDEntry].value = nCbAlpha] ELSE image

-----------------------------------------------------------------------------
(* Reading it.                                                             *)

\* The tags of the directory, each with what its entry says.
ReadContainer(file) ==
    LET pfd     == Get(file, 0).pfd
        n       == Get(file, pfd).n
        entries == SelectSeq([i \in 1 .. n |-> Get(file, pfd + 2 + SizeofIFDEntry * (i - 1))], LAMBDA e : e.kind = "entry")
    IN  FoldLeft(LAMBDA d, e : (e.tag :> e) @@ d, <<>>, entries)

ReadBinaryData(file, count, value) == IF count <= 4 THEN value ELSE LET p == Get(file, value) IN IF p.size = count THEN p.id ELSE Garbage.kind

\* Descriptive metadata: text, or one or two short words.
ReadPropvar(file, e) == IF e.type = SHORT THEN e.value ELSE ReadBinaryData(file, e.count, e.value)

\* The blocks, from their offset.
GetMetadata(file, e) == IF Get(file, e.value).size = e.count THEN Get(file, e.value).id ELSE Garbage.kind

\* What the entry of a tag of the metadata reads as.
ReadTag(file, e) ==
    IF e.tag \in Directories THEN [meaning |-> Meaning(file, e.value, FALSE), bytes |-> StreamCalcIFDSize(file, e.value)]
    ELSE IF \E t \in ToSet(BlockTags) : t[1] = e.tag THEN GetMetadata(file, e)
    ELSE ReadPropvar(file, e)

\* Planar alpha is there when its pixel format, its offset and its length say so.
bHasAlpha(d, formatHasAlpha) ==
    /\ formatHasAlpha /\ {"AlphaOffset", "AlphaByteCount"} \subseteq DOMAIN d
    /\ d["AlphaOffset"].value # 0 /\ d["AlphaByteCount"].value # 0

=============================================================================
