----------------------------- MODULE ImageFile -----------------------------
(***************************************************************************)
(* One image file: an application sets its metadata and writes its pixels  *)
(* through PKImageEncode, at once or band by band, and another opens the   *)
(* file with PKImageDecode and decodes the picture and its planar alpha,   *)
(* each row of tiles in its turn (JXRGlueLib/JXRGlueEnc.c, JXRGlueDec.c).  *)
(*                                                                         *)
(* A job is what the application asks for: the parameters of the code      *)
(* stream (p, and the packets of its planar alpha), the header of the      *)
(* container, the metadata it sets, call by call, and the subbands it      *)
(* decodes.                                                                *)
(***************************************************************************)
EXTENDS CodeStream, Container

CONSTANTS Jobs,      \* what the applications ask for
          MaxBand    \* bound: rows of macroblocks in one band

VARIABLES job, enc, file, dec
vars == <<job, enc, file, dec>>

NoDecoder == [state |-> "none", dir |-> <<>>, asked |-> "SB_ALL", planes |-> <<>>]

Planar(j) == j.formatHasAlpha /\ j.p.alphaMode = 2

\* The coder of planar alpha has the parameters of the picture's, in one channel.
AlphaParam(j) == [j.p EXCEPT !.cfExt = "Y_ONLY", !.cfInt = "Y_ONLY", !.plane = "alpha", !.bytes = j.alphaBytes]
PlaneParams(j) == <<ValidateArgs(j.p)>> \o IF Planar(j) THEN <<ValidateArgs(AlphaParam(j))>> ELSE <<>>

Init ==
    /\ job \in Jobs
    /\ enc = [state |-> "open", calls |-> job.calls, meta |-> <<>>, fHeaderDone |-> FALSE, pos |-> 0, nOffImage |-> 0,
              uOffImageByteCount |-> 0, coders |-> <<>>]
    /\ file = <<>>
    /\ dec = NoDecoder

-----------------------------------------------------------------------------
(* Metadata, until the container is written.                               *)

\* The dc:format element of XMP becomes that of this format, and a trailing
\* zero goes; an element that does not end leaves no XMP at all.
szHDPhotoFormat == 41
SetXMPMetadata(meta, v) ==
    IF v.fmt < 0 THEN Restrict(meta, DOMAIN meta \ {"XMPMetadata"})
    ELSE ("XMPMetadata" :> [id |-> v.id, n |-> v.n - v.nul + IF v.fmt = 0 THEN 0 ELSE szHDPhotoFormat - v.fmt]) @@ meta

\* All of the descriptive metadata are replaced.
SetDescriptiveMetadata(meta, v) == v @@ Restrict(meta, DOMAIN meta \ {t[1] : t \in ToSet(DescTags)})

\* EXIF and GPS come from the directory of another file, in either byte
\* order; which one is kept to compare with.
ImportDirectory(v) == [n |-> BufferCalcIFDSize(v.source, v.ofs), buffer |-> BufferCopyIFD(v.source, v.ofs, v.big, <<>>, 0).file, from |-> v]

WithMetadata(meta, call) ==
    CASE call.tag = "XMPMetadata" -> SetXMPMetadata(meta, call.value)
      [] call.tag = "Descriptive" -> SetDescriptiveMetadata(meta, call.value)
      [] call.tag \in Directories -> (call.tag :> ImportDirectory(call.value)) @@ meta
      [] OTHER                    -> (call.tag :> call.value) @@ meta

SetMetadata ==
    /\ enc.calls # <<>> /\ ~enc.fHeaderDone
    /\ enc' = [enc EXCEPT !.calls = Tail(@), !.meta = WithMetadata(@, Head(enc.calls))]
    /\ UNCHANGED <<job, file, dec>>

\* WMP_errOutOfSequence
SetMetadataRefused ==
    /\ enc.calls # <<>> /\ enc.fHeaderDone
    /\ enc' = [enc EXCEPT !.calls = Tail(@)]
    /\ UNCHANGED <<job, file, dec>>

-----------------------------------------------------------------------------
(* Pixels.                                                                 *)

\* The pieces of a code stream, one behind the other from pos.
WriteAt(f, pos, pieces) == FoldLeft(LAMBDA w, piece : [file |-> Put(w.file, w.pos, piece), pos |-> w.pos + piece.size], [file |-> f, pos |-> pos], pieces)

EncodeRows(coder, n) == FoldLeft(LAMBDA c, i : ImageStrEncEncode(c), coder, [i \in 1 .. n |-> i])

Pre == WriteContainerPre(enc.meta, job.info, Planar(job))
Accepted(params) == \A i \in DOMAIN params : params[i].tileX # <<>>

\* The directory learns where the picture and its alpha are, and how long.
Placed(image, nOffImage, uOffImageByteCount, alphaAt, alpha) ==
    IF Planar(job) THEN WriteContainerPost(alpha.file, uOffImageByteCount, TRUE, image.pos - nOffImage, alphaAt, alpha.pos - alphaAt)
    ELSE WriteContainerPost(image.file, uOffImageByteCount, FALSE, image.pos - nOffImage, alphaAt, 0)

\* All rows at once: the picture, and its alpha at an even offset.
WriteAllPixels(params, pre) ==
    LET coded(i)     == ImageStrEncTerm(EncodeRows(StrIOEncInit(params[i]), MBs(params[i].h)))
        After(image) == Placed(image, pre.pos, pre.uOffImageByteCount, Even(image.pos), WriteAt(image.file, Even(image.pos), coded(2)))
    IN  IF ~Accepted(params)
        THEN /\ enc' = [enc EXCEPT !.state = "failed", !.fHeaderDone = TRUE]
             /\ file' = pre.file
        ELSE /\ enc' = [enc EXCEPT !.state = "done", !.fHeaderDone = TRUE]
             /\ file' = After(WriteAt(pre.file, pre.pos, coded(1)))

WritePixels ==
    /\ enc.state = "open" /\ ~job.banded
    /\ WriteAllPixels(PlaneParams(job), Pre)
    /\ UNCHANGED <<job, dec>>

WritePixelsBandedBegin ==
    /\ enc.state = "open" /\ job.banded
    /\ enc' = [enc EXCEPT !.state = "init"]
    /\ UNCHANGED <<job, file, dec>>

\* A band of n rows of macroblocks: the container and the coders are begun
\* with the first, and the alpha of each goes to a temporary file.
FirstBand(n, params, pre) ==
    /\ file' = pre.file
    /\ enc' = IF ~Accepted(params) THEN [enc EXCEPT !.state = "failed", !.fHeaderDone = TRUE]
              ELSE [enc EXCEPT !.state = "encoding", !.fHeaderDone = TRUE, !.pos = pre.pos, !.nOffImage = pre.pos,
                               !.uOffImageByteCount = pre.uOffImageByteCount,
                               !.coders = [i \in DOMAIN params |-> EncodeRows(StrIOEncInit(params[i]), n)]]

WritePixelsBanded(n) ==
    /\ \/ /\ enc.state = "init" /\ n <= MBs(job.p.h)
          /\ FirstBand(n, PlaneParams(job), Pre)
       \/ /\ enc.state = "encoding" /\ n <= MBs(job.p.h) - enc.coders[1].given
          /\ enc' = [enc EXCEPT !.coders = [i \in DOMAIN @ |-> EncodeRows(@[i], n)]]
          /\ UNCHANGED file
    /\ UNCHANGED <<job, dec>>

\* The temporary file follows the picture as it is.
WritePixelsBandedEnd ==
    LET coded(i)     == ImageStrEncTerm(enc.coders[i])
        After(image) == Placed(image, enc.nOffImage, enc.uOffImageByteCount, image.pos, WriteAt(image.file, image.pos, coded(2)))
    IN  /\ enc.state = "encoding" /\ enc.coders[1].given = MBs(job.p.h)
        /\ enc' = [enc EXCEPT !.state = "done", !.coders = <<>>]
        /\ file' = After(WriteAt(file, enc.pos, coded(1)))
        /\ UNCHANGED <<job, dec>>

-----------------------------------------------------------------------------
(* Decoding.                                                               *)

\* Where the directory says that plane i is, and how long.
OffsetTag(i) == <<"ImageOffset", "AlphaOffset">>[i]
LengthTag(i) == <<"ImageByteCount", "AlphaByteCount">>[i]

HeaderAt(at) == Get(file, at).kind = "header"

\* The container and the header of the picture are read.
Initialize ==
    LET dir == ReadContainer(file)
    IN  /\ enc.state = "done" /\ dec.state = "none"
        /\ dec' = [dec EXCEPT !.state = IF HeaderAt(dir["ImageOffset"].value) THEN "open" ELSE "failed", !.dir = dir]
        /\ UNCHANGED <<job, enc, file>>

PlanesOf(dir) == IF bHasAlpha(dir, job.formatHasAlpha) THEN {1, 2} ELSE {1}

\* JXR_BeginDecodingMBRows and JXR_BeginDecodingMBRows_Alpha: the picture
\* first, and the planar alpha if there is any.
Begin(i) ==
    LET at == dec.dir[OffsetTag(i)].value
    IN  IF HeaderAt(at) THEN ImageStrDecInit(file[at].bits, at, at + dec.dir[LengthTag(i)].value, dec.asked) ELSE [ok |-> FALSE]

BeginDecoding ==
    /\ dec.state = "open"
    /\ \E asked \in job.asks : dec' = [dec EXCEPT !.state = "asked", !.asked = asked]
    /\ UNCHANGED <<job, enc, file>>

BeginDecodingMBRows ==
    /\ dec.state = "asked" /\ Len(dec.planes) < Cardinality(PlanesOf(dec.dir))
    /\ dec' = [dec EXCEPT !.planes = Append(@, Begin(Len(@) + 1))]
    /\ UNCHANGED <<job, enc, file>>

\* The rows of tiles of picture and alpha are read in any order.
DecodeTileRow(i) ==
    /\ i \in DOMAIN dec.planes /\ dec.planes[i].ok
    /\ dec.planes[i].row < Len(dec.planes[i].head.tileY)
    /\ dec' = [dec EXCEPT !.planes[i] = readPackets(@, file)]
    /\ UNCHANGED <<job, enc, file>>

Next ==
    \/ SetMetadata \/ SetMetadataRefused
    \/ WritePixels
    \/ WritePixelsBandedBegin \/ WritePixelsBandedEnd
    \/ \E n \in 1 .. MaxBand : WritePixelsBanded(n)
    \/ Initialize \/ BeginDecoding \/ BeginDecodingMBRows
    \/ \E i \in 1 .. 2 : DecodeTileRow(i)

Spec == Init /\ [][Next]_vars

-----------------------------------------------------------------------------
(* What the encoder of plane i meant, and what is expected of the file.    *)

Param(i) == PlaneParams(job)[i]
Plain(plane) == [f \in DOMAIN plane \ {"at"} |-> plane[f]]
Several(p)   == p.freq /\ Len(p.tileX) * Len(p.tileY) > 1 /\ cSB(p.sb) > 1

Sound(first, n) == first[1] = 0 /\ \A k \in 2 .. Len(first) : first[k - 1] < first[k] /\ first[k] < n
ReadAsMeant(p, d) ==
    /\ d.head = Header(p)
    /\ [k \in DOMAIN d.planes |-> Plain(d.planes[k])] = StrEncInit(p)
    /\ Sound(d.head.tileX, MBs(p.w)) /\ Sound(d.head.tileY, MBs(p.h))
    /\ Several(p) => d.progressive = p.prog

\* The decoder reads in the headers what the encoder meant by them, of the
\* image and of each plane: the tiles, which are as many and as large as the
\* picture allows, the quantisers of every band and channel, and whether the
\* bands of the tiles follow each other, which no header says
\* (strenc.c:755-1093, strdec.c:2596-2672 and 3093-3423).
HeadersAgree == \A i \in DOMAIN dec.planes : ReadAsMeant(Param(i), dec.planes[i])

\* Asks the format of the stream can serve: the columns of a spatial stream
\* are found when all its bands are asked for, and the bands of a partial
\* stream when no fewer are asked for than it has.
Served(p, asked) ==
    /\ p.freq \/ Len(p.tileX) = 1 \/ cSB(KeptSubband(p.sb, asked)) = cSB(p.sb)
    /\ p.sb = "SB_ALL" \/ asked = "SB_ALL" \/ SUBBAND[asked] >= SUBBAND[p.sb]

\* The packet that reader k of a row of tiles is to have; that of flexbits may be missing.
Own(p, d, row, k) == PacketOf(p, row, IF p.freq THEN k \div d.cSB ELSE k, IF p.freq THEN (k % d.cSB) + 1 ELSE 0)
Its(found, own) == found = own \/ (found.kind = "none" /\ own.band = 4 /\ own.size <= MINIMUM_PACKET_LENGTH)
OwnPackets(p, d) ==
    Served(p, dec.asked) =>
        /\ d.ok
        /\ \A row \in DOMAIN d.found : \A k \in DOMAIN d.found[row] : Its(d.found[row][k], Own(p, d, row - 1, k))

\* Every reader of a row of tiles is attached to the packet of its own tile
\* and band, whatever the order of the packets in the stream, with large
\* offsets and with flexbits that are not there; none is looked for outside
\* of its stream (strenc.c:513-752, strdec.c:265-411).
PacketsFound == \A i \in DOMAIN dec.planes : OwnPackets(Param(i), dec.planes[i])

\* Whoever opens the file reads the metadata that were set, whole, and the
\* directories of EXIF and GPS say what their source did, in either byte
\* order, in the room that was kept for them; and the picture and its alpha
\* are where the directory says (JXRGlueEnc.c:261-717, JXRMeta.c:187-590).
MetadataIntact ==
    dec.state \in {"open", "asked", "failed"} =>
        /\ dec.state # "failed"
        /\ \A tag \in DOMAIN enc.meta :
               /\ tag \in DOMAIN dec.dir
               /\ LET read == ReadTag(file, dec.dir[tag])
                      from == enc.meta[tag].from
                  IN  IF tag \in Directories
                      THEN read = [meaning |-> Meaning(from.source, from.ofs, from.big), bytes |-> enc.meta[tag].n]
                      ELSE read = enc.meta[tag].id
        /\ \A i \in PlanesOf(dec.dir) : HeaderAt(dec.dir[OffsetTag(i)].value)
        /\ PlanesOf(dec.dir) = IF Planar(job) THEN {1, 2} ELSE {1}
        /\ dec.dir["Transformation"].value = job.info.orientation
        /\ Get(file, dec.dir["PixelFormat"].value).format = job.info.pixelFormat

\* Nothing in the file lies over anything else, and a code stream fills
\* exactly the length its entry gives (JXRGlueEnc.c:345-430, 837-990).
NothingOverwritten ==
    /\ \A a \in DOMAIN file, b \in DOMAIN file : a < b => a + file[a].size <= b
    /\ dec.state # "none" =>
           LET end == Max({a + file[a].size : a \in DOMAIN file})
               last == Max(PlanesOf(dec.dir))
           IN  dec.dir[OffsetTag(last)].value + dec.dir[LengthTag(last)].value = end

=============================================================================
