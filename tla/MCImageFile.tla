---------------------------- MODULE MCImageFile ----------------------------
(***************************************************************************)
(* ImageFile on pictures of up to three by three tiles, every kind of header *)
(* and metadata of every kind.                                             *)
(***************************************************************************)
EXTENDS ImageFile

\* Packets of some bytes; one long enough for the next positions to be
\* escaped, and flexbits that are empty in every other tile.
Lengths(large, sparse) ==
    [k \in (0 .. 3) \X (0 .. 3) \X (0 .. 4) |->
        IF k = large THEN 70000
        ELSE IF k[3] = 4 /\ sparse /\ (k[1] + k[2]) % 2 = 0 THEN 4
        ELSE 5 + ((7 * k[1] + 3 * k[2] + 11 * k[3]) % 40)]

Quantisers == [Y |-> 7, U |-> 0, V |-> 9, YLP |-> 0, ULP |-> 12, VLP |-> 0, YHP |-> 30, UHP |-> 0, VHP |-> 33, A |-> 5]
Lossless   == [Quantisers EXCEPT !.Y = 1, !.V = 0, !.ULP = 0, !.YHP = 0, !.VHP = 0, !.A = 1]

Base == [w |-> 20, h |-> 18, cfExt |-> "CF_RGB", bd |-> "BD_8", black |-> FALSE, or |-> 0, cfInt |-> "YUV_444", channels |-> 3,
         alphaMode |-> 0, sb |-> "SB_ALL", freq |-> FALSE, prog |-> FALSE, overlap |-> 1, hard |-> FALSE, tilesX |-> <<>>, tilesY |-> <<>>,
         tileX |-> <<>>, tileY |-> <<>>, trim |-> FALSE, len |-> 0, bias |-> 0, qp |-> Quantisers, unscaled |-> FALSE, yuv |-> FALSE,
         leading |-> 0, plane |-> "image", bytes |-> Lengths(<<0, 0, 1>>, TRUE)]

Info(p) == [pixelFormat |-> p.bd, orientation |-> p.or, width |-> p.w, height |-> p.h, res |-> "96"]
Job(p)  == [p |-> p, alphaBytes |-> Lengths(<<0, 1, 2>>, FALSE), banded |-> FALSE, formatHasAlpha |-> p.alphaMode > 0, info |-> Info(p),
            calls |-> <<>>, asks |-> {"SB_ALL"}]

Depths == {"BD_1", "BD_5", "BD_8", "BD_16", "BD_16S", "BD_16F", "BD_32", "BD_32S", "BD_32F", "BD_10", "BD_565"}
Formats == {<<"CF_RGB", 3>>, <<"CMYK", 4>>, <<"NCOMPONENT", 6>>, <<"Y_ONLY", 1>>, <<"CF_RGBE", 3>>, <<"YUV_422", 3>>}

\* Headers: sample types and colour formats, what they become, and how they are quantised.
Coloured == {[Base EXCEPT !.bd = bd, !.cfExt = cf[1], !.channels = cf[2], !.cfInt = IF cf[1] = "NCOMPONENT" THEN "NCOMPONENT" ELSE int, !.or = 5] :
                bd \in Depths, cf \in Formats, int \in {"YUV_420", "YUV_444"}}
Headers ==
    {p \in Coloured : \/ p.cfInt # "YUV_420" /\ p.bd \in {"BD_8", "BD_32F"}
                      \/ p.cfExt \in {"CF_RGB", "Y_ONLY"} /\ (p.cfInt = "YUV_444" \/ p.bd \in {"BD_16F", "BD_565", "BD_1"})}
    \cup {[Base EXCEPT !.alphaMode = 3, !.cfExt = cf[1], !.channels = cf[2], !.cfInt = cf[3], !.sb = sb] :
             cf \in {<<"CF_RGB", 3, "YUV_444">>, <<"CMYK", 4, "CMYK">>}, sb \in {"SB_ALL", "SB_NO_HIGHPASS"}}
    \cup {[Base EXCEPT !.bd = bd, !.len = 3, !.bias = 10, !.qp = Lossless, !.unscaled = u, !.black = u] : bd \in {"BD_16", "BD_32F", "BD_8"}, u \in BOOLEAN}
    \cup {[Base EXCEPT !.bd = "BD_1", !.cfExt = "Y_ONLY", !.cfInt = "Y_ONLY", !.black = TRUE],
          [Base EXCEPT !.w = 4090, !.overlap = 2, !.or = 7], [Base EXCEPT !.w = 4090, !.tilesX = <<200, 40>>, !.hard = TRUE],
          [Base EXCEPT !.cfInt = "YUV_422", !.yuv = TRUE, !.cfExt = "YUV_422"], [Base EXCEPT !.leading = 1, !.bd = "BD_5"],
          [Base EXCEPT !.hard = TRUE, !.overlap = 2, !.cfInt = "YUV_420", !.h = 60, !.w = 60, !.tilesY = <<1>>],
          [Base EXCEPT !.hard = TRUE, !.overlap = 2, !.cfInt = "YUV_420", !.h = 60, !.w = 60, !.tilesY = <<2>>],
          [Base EXCEPT !.sb = "SB_ISOLATED", !.trim = TRUE], [Base EXCEPT !.w = 10, !.cfInt = "YUV_420", !.overlap = 2]}

\* Tiles of all sizes, asked for rightly and wrongly.
Tilings == {<< <<>>, <<>> >>, << <<1, 1>>, <<>> >>, << <<>>, <<1, 2>> >>, << <<1>>, <<2, 1>> >>, << <<3, 9>>, <<0>> >>, << <<1, 1>>, <<1, 1>> >>}
Orders  == {<<FALSE, FALSE>>, <<TRUE, FALSE>>, <<TRUE, TRUE>>}
Tiled_  == {[Base EXCEPT !.w = 60, !.h = 56, !.tilesX = t[1], !.tilesY = t[2], !.freq = o[1], !.prog = o[2], !.sb = sb,
                         !.trim = (o[1] /\ ~o[2]), !.bytes = IF o[1] /\ ~o[2] THEN Lengths(<<0, 0, 4>>, FALSE) ELSE @] :
                t \in Tilings, o \in Orders, sb \in {"SB_ALL", "SB_NO_FLEXBITS", "SB_DC_ONLY"}}

\* Directories of EXIF and GPS data, with one nested in another, of either order.
Source(big) ==
    (8 :> [kind |-> "ifd", size |-> IFDBytes(5), entries |->
               <<[tag |-> "ExposureTime", type |-> 5, count |-> 1, value |-> 100], [tag |-> "ISOSpeed", type |-> SHORT, count |-> 2, value |-> <<1, 2, 3, 4>>],
                 [tag |-> "MakerNote", type |-> UNDEFINED, count |-> 7, value |-> 120], [tag |-> "InteroperabilityIFD", type |-> LONG, count |-> 1, value |-> 200],
                 [tag |-> "Gamma", type |-> DOUBLE, count |-> 1, value |-> 130]>>])
    @@ (100 :> [kind |-> "data", bytes |-> <<1, 2, 3, 4, 5, 6, 7, 8>>, size |-> 8])
    @@ (120 :> [kind |-> "data", bytes |-> <<9, 8, 7, 6, 5, 4, 3>>, size |-> 7])
    @@ (130 :> [kind |-> "data", bytes |-> <<11, 12, 13, 14, 15, 16, 17, 18>>, size |-> 8])
    @@ (200 :> [kind |-> "ifd", size |-> IFDBytes(2), entries |->
                    <<[tag |-> "InteroperabilityIndex", type |-> ASCII, count |-> 4, value |-> <<82, 57, 56, 0>>],
                      [tag |-> "RelatedFile", type |-> ASCII, count |-> 9, value |-> 250]>>])
    @@ (250 :> [kind |-> "data", bytes |-> <<1, 2, 3, 4, 5, 6, 7, 8, 0>>, size |-> 9])
From(ofs, big) == [source |-> Source(big), ofs |-> ofs, big |-> big]
Call(tag, value) == [tag |-> tag, value |-> value]
Text(id, n) == [id |-> id, n |-> n]
XMP(id, n, nul, fmt) == [id |-> id, n |-> n, nul |-> nul, fmt |-> fmt]

Described == ("ImageDescription" :> Text("a view", 7)) @@ ("PageNumber" :> Text(3, 0)) @@ ("RatingStars" :> Text(4, 0)) @@ ("Artist" :> Text("me", 3))
Captioned == ("Caption" :> Text("wide", 10)) @@ ("Software" :> Text("tool", 5))

Metadata ==
    {<<Call("EXIFMetadata", From(8, TRUE))>>, <<Call("EXIFMetadata", From(8, FALSE)), Call("GPSInfoMetadata", From(200, TRUE))>>,
     <<Call("Descriptive", Described), Call("IccProfile", Text("srgb", 11)), Call("EXIFMetadata", From(8, TRUE))>>,
     <<Call("Descriptive", Described), Call("Descriptive", Captioned)>>,
     <<Call("XMPMetadata", XMP("rdf", 60, 1, 0)), Call("IPTCNAAMetadata", Text("iptc", 9)), Call("XMPMetadata", XMP("rdf2", 80, 0, 30))>>,
     <<Call("XMPMetadata", XMP("rdf", 60, 0, 25)), Call("PhotoshopMetadata", Text("8bim", 21)), Call("XMPMetadata", XMP("bad", 80, 0, -1))>>,
     <<Call("PhotoshopMetadata", Text("8bim", 21)), Call("GPSInfoMetadata", From(200, FALSE)), Call("IccProfile", Text("srgb", 12)),
       Call("IccProfile", Text("cmyk", 13))>>}

Banded(j) == [j EXCEPT !.banded = TRUE]
WithCalls(j, calls) == [j EXCEPT !.calls = calls]
AlphaOf(p) == [p EXCEPT !.alphaMode = 2]

TestJobs ==
    {Job(p) : p \in Headers}
    \cup {[Job(p) EXCEPT !.asks = IF p.sb = "SB_DC_ONLY" THEN {"SB_ALL"} ELSE {"SB_ALL", "SB_NO_HIGHPASS", "SB_DC_ONLY"}] : p \in Tiled_}
    \cup {WithCalls(Job(Base), calls) : calls \in Metadata}
    \cup {Banded(WithCalls(Job([AlphaOf(Base) EXCEPT !.or = 3]), calls)) : calls \in Metadata}
    \cup {Job(AlphaOf(p)) : p \in {q \in Tiled_ : Len(q.tilesX) = 2}}
    \cup {Banded(Job(AlphaOf(p))) : p \in {q \in Tiled_ : Len(q.tilesY) = 2}}
    \cup {Banded(Job([Base EXCEPT !.bd = "BD_5", !.leading = 1])), [Job(AlphaOf(Base)) EXCEPT !.formatHasAlpha = FALSE]}

=============================================================================
