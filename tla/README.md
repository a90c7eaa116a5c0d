# Specifications of the JPEG XR streaming decoder

This directory holds TLA+ specifications of `ff-jpegxr`: Microsoft's JPEG XR
library changed so that a picture can be decoded *while it is still arriving*,
the decoder class that drives it, and the image container of Firefox that the
class is plugged into.  TLC checks small instances (the `*.cfg`, with an `MC*.tla` where the constants need definitions), the
TLA+ proof system checks `*Proofs.tla`.  `PROJECT.json` maps each definition to
the lines it models and lists the runs, the hazards, the theorems and, for each
property, a mutant that violates it.  The mutants stand in the modules next to
the definitions they change; their comments begin with `MUTANT` or
`Mutant of`, and they are not the code.  A comment that begins with
`Slip of the code` is the opposite: the code really does that.

To check: `tlc -config ListStream.cfg ListStream`, `tlc -config MCDecodePool.cfg MCDecodePool`, and so on;
`tlapm ListStreamProofs.tla`.  Each module of a component has a type invariant;
to check it add `INVARIANT TypeOK` to its configuration (that of the list stream is
proved).

## 1. The system

```
  network / file
       | chunks of any size
       v
  RasterImage (Firefox) -- main thread and a pool of decoding threads
       | WriteInternal(chunk), FinishInternal
       v
  nsJPEGXRDecoder -- when is there enough data for what?
       |  Receive: append        | JXR_DecodeNextMBRow, ...
       v                         v
  list stream (WMPStream) <--- BitIO ring --- ImageStrDecDecode: rows of macroblocks
   discards its head            two packets       | entropy decoding, prediction
                                                  | inverse transform, overlap filters
                                                  v
                                              rows of pixels
```

The encoder is the reverse of the lower half: colour conversion, forward
transform corner by corner, prediction, entropy coding into one packet per tile
and band, and the packets concatenated behind an index table.

### Components

Status: **M** modelled, **P** partly, **-** not modelled (section 6).

| | Component | Source | State it keeps | Operations | What makes it correct |
|-|-----------|--------|----------------|------------|-----------------------|
| M | List stream | `image/sys/strcodec.c` 486-798 | packets of 0x4000 bytes in a list, current packet and offset, packet count, bytes received and discarded | Write, Read, Read1, SetPos, GetPos, DiscardHead, Close | what was received is read back, at the position asked for, whatever was discarded; every packet is freed once |
| M | Bit reader | `strcodec.c` 1203-1510 | ring of two packets, position in it, accumulator, next stream offset, a backup | attachISRead, readIS, get/peek/flush bits, backup and restore | the bits of a part are there before it is decoded; a failed refill changes nothing |
| M | Fail-safe row decoding | `nsJPEGXRDecoder.cpp`, `JXRGlueDec.c` 600-790, `strdec.c` 3841-4120 | saved contexts, last macroblock decoded, whether to restore | SaveDecoderState, RestoreDecoderState, ImageStrDecDecode | a row tried again gives what an undisturbed try gives |
| M | Tile-row decoding | `nsJPEGXRDecoder.cpp` 560-880, 1940-2460 | limits per tile row, current tile row, rows decoded | DoTheDecoding, DecodeNextTileRow, FinishInternal | no row is decoded before its data is there, nothing still needed is discarded, all rows are shown, as early as possible |
| M | Progressive decoding | the same | limits per band, current band, skipped tile rows | the same, StartDecodingNextSubband | each row ends in full quality; quality never sinks |
| P | Transforms | `strFwdTransform.c`, `strInvTransform.c`, `strTransform.c` | a plane of coefficients, tile state | transformMacroblock, invTransformMacroblock_alteredOperators_hard | the two directions undo each other, with tiles and regions |
| P | Firefox container | `Mozilla/image/src/RasterImage.cpp` | source data, decoder, decode request, monitor, locks | AddSourceData, SourceDataComplete, RequestDecode, SyncDecode, Discard, DecodeJob::Run, ... | what was asked for is decoded; its own assertions hold in all interleavings |
| P | Tiles, index table, headers | `strdec.c` 2260-3423, `strenc.c` 400-1330 | tilings, quantisers, index table, tile positions | ValidateArgs, WriteImageHeader, WriteImagePlaneHeader, writeIndexTable, copyTo, ReadImageHeader..., readIndexTable | the decoder reads what the encoder meant; the table points at the packets |
| P | Encoder and decoder drivers | `strenc.c`, `strdec.c` | row, column, macroblock rows, rows of chrominance kept | ImageStrEncEncode, ImageStrDecDecode, inputMBRow, outputMBRow, decodeThumbnail | each macroblock is coded and decoded once, when complete; each sample lands where it belongs |
| P | Optimised copies | `strenc_x86.c`, `strdec_x86.c` | as the drivers | inputMBRow_*, outputMBRow_*, StrEncOpt, StrDecOpt | the same as the portable ones |
| P | Pixel formats | `JXRGluePFC.c`, `JXRGlue.c` | one buffer, converted in place | InitializeConvert, the converters | each pixel from its own pixel, nothing read after it was overwritten |
| M | Container metadata | `JXRMeta.c` | directories, blocks of metadata | CalcIFDSize, CopyIFD, WriteWmpDE, ReadPropvar | the room that was computed is the room that is used; either byte order reads the same |
| P | Glue: encoding | `JXRGlueEnc.c` | offsets tallied, calls so far, temporary alpha stream | Set*Metadata, WritePixels, WritePixelsBanded* | nothing is written over; what was set is in the file |
| P | Glue: decoding | `JXRGlueDec.c` | the directory read, picture and alpha | ReadContainer, Get*Metadata, Copy | what was written is found |
| P | Entropy coding | `segenc.c`, `segdec.c`, `adapthuff.c`, `image.c` | adaptive tables, scan orders, model bits, pattern counters | Encode/DecodeMacroblock*, Adapt*, UpdateModelMB | the two sides adapt in step; what is read is what was written |
| P | Prediction, quantisation | `strPredQuant*.c` | DC, AD, CBP and index of this row and the one above | predict and add back DC, LP, HP, CBP | the decoder adds back what the encoder took away |
| - | BitIO writing, memory and file streams | `strcodec.c` | ring, temporary files | writeIS, detachISWrite, Write, Copy | bytes in order, nothing lost at the end |
| - | Transcoder | `JXRTranscode.c` | two codecs at once | WMPhotoTranscode | crops and turns without decoding |
| - | Chained buffers | `Common/ChainBuffer.h`, `WSChainBuf.cpp` | links of 16 KB | Write, Read, Seek, Clear | the same as the list stream |
| - | Firefox's decoder class | `Mozilla/image/decoders/nsJPEGXRDecoder.cpp` | as the viewers' | the same | the same |
| - | Web viewer | `JXRViewerWeb.cpp` | thread, stop event | start, stop, paint | stopping waits for the thread |
| - | Post-processing, viewers, test server, tools, test library, registration | see `PROJECT.json` | - | - | window procedures, printing, file formats of other programs |

### What is hard here

* **The data ends anywhere.** A macroblock row has no length in the file.  In
  the fail-safe branch a row is tried; when the data runs out the bit reader,
  its ring, the adaptive contexts and the macroblock buffer must be what they
  were.  Elsewhere the index table is used to wait for enough.
* **The head of the stream is thrown away** while positions stay relative to
  its beginning, and tiles may be stored in any order.
* **The size tag in the file may be wrong** (old encoders), so that the end is
  only known when the network closes; `FinishInternal` then has to bring
  everything to its end.
* **Progressive files are decoded several times**, each pass adding a band,
  skipping tile rows with nothing to add.
* **Firefox decodes in a pool**, while the main thread receives, draws, locks,
  discards; an error found on a pool thread has to reach the main thread.
* **Encoder and decoder visit corners, not macroblocks**: a filter touches four
  macroblocks, the decoder has two rows of them, tiles and regions of interest
  skip filters and corners.
* **Encoder and decoder adapt on their own**: code tables, scan orders, the
  split between coded and plain bits and the state of the pattern prediction
  follow what each side has coded.  Nothing of it is sent, so that one symbol
  weighed differently garbles the rest of a tile, and a decoder that leaves out
  bands or tiles must still adapt what it does decode as the encoder did.
* **A picture is in four shapes at once**: rows of the application's pixels, rows
  of macroblocks with chrominance at another resolution, the picture as it was
  turned, and the region and scale that are asked for.  Each of some dozens of
  combinations is a loop of its own, and the x86 build has a second one.
* **A file is laid out before it is written**: every offset of the container
  is tallied first, the code stream's table is written when the packets'
  lengths are known, and the alpha of a banded picture is appended when the
  directory is long done.

Apart from the pool everything is single-threaded: one call of
`WriteInternal` is over before the next chunk comes.  Nothing is persisted, so
there is no crash recovery; a lost or cut file is modelled as a file shorter
than its size tag.

## 2. The modules

### Stream and bit reader

* `WSList` translates the list stream call by call: a record with the fields of
  `pWS->state.buf` and the packets still in the list, each a sequence of byte
  names (byte *i* of the stream is the number *i*).  Packets have `PL` bytes
  (`LIST_PACKETLENGTH`).  A loop that cannot end gives `NoReturn`.
* `ByteStream` is what the stream promises: a sequence, a position, a discarded
  prefix.
* `ListStream` uses `WSList` as the decoder does (`SetPos` to the end before a
  write, and so on) and refines `ByteStream` (`ImplementsByteStream`).
* `BitIORead` translates BitIO's read side (ring of `2 * PK` bytes,
  `PACKETLENGTH`); `BitIOReader` puts one reader over a stream that is still
  growing: a part of a macroblock is decoded between two `readIS`, a failure
  restores the backup.
* `StreamProofs` has the lemmas about the operators of both: what each call does to a
  stream that is in order, and to a reader over one.  `ListStreamProofs`,
  `BitIOReaderProofs` and `FailSafeRowsProofs` use them for their
  inductions.

### Decoding while data arrives

* `FailSafeRows`: images of one tile column in spatial order.  An image gives
  the number of bytes of each part (DC, lowpass, highpass) of each macroblock
  and plane, so that a row fails wherever the data may end.  The context
  counts how often it adapted to each part, and a macroblock how often it was
  transformed.  A header whose last byte is the last of a packet makes the first
  attach hang (`HeaderHangs`, the finding of `list_stream_hang`): that call
  is no step of the model.
* `FailSafeRowsProofs` proves for all images that rows tried again see their own
  bits and their own context, that what they need was never discarded, that every row comes out
  and, in a single plane, transformed once (section 5).
* `TileLimits` translates the limits computed from the index table
  (`CreateTileRowInfo`, `CreateTileRowBandInfo`, `CalcSubbandUpperLimits`) and
  the size tag's correction.
* `TileRowDecoder` and `ProgressiveDecoder` are `DoTheDecoding` and
  `FinishInternal` on them.  A packet has one or a few bytes.  What the library
  needs for a row is any amount up to the end of the packets, since only the
  end of the last row of a tile is known.  A reader that has every byte below its
  limit does not ask for more (`segdec.c:1073`, `:200`, `:831`): what lies behind
  a file that is cut in a packet is taken for the rest of it, so that a row of
  such a file may be wrong without an error, and `LinesGood` and `QualityGrows`
  speak of complete files.
* In `ProgressiveDecoder` a row of pixels depends on the macroblock rows it is smoothed
  against (`Neighbours`).  `Smoothed` says where the filters of the overlap are cut as
  both transforms do: hard tiles have no effect on a row unless its number is also
  the first column of a tile (`uiTileX`, section 7).  `CanSkip` takes hard tile rows to be
  apart, as `DoTheDecoding` does; that the two do not agree is part of the model.
  Chrominance has full resolution.  The transform finds the numbers of
  tile columns one after the other and misses those in a skipped tile row
  and all after it; images of several hard tile columns, with overlap, whose tile rows
  have different bands are left out (`ColumnsWellFormed`).
* `TileRowDecoderProofs` proves the types and the four invariants of
  `TileRowDecoder` for all images, `ProgressiveDecoderProofs` the types, the three
  invariants and the action property of `ProgressiveDecoder` (section 5).

### Firefox

* `RasterImage` translates the methods of the image as operators on a record
  (`im`) that stand for the calls between two points where the monitor is taken
  or given up.
* `DecodePool` is the concurrency: the main thread and jobs of a pool, the
  monitor, the queue of results.  `mInDecoder` is read without the monitor: the
  model lets the main thread see either value while a job runs.
* `DecodePoolProofs` has a lemma for each operator of `RasterImage`, one for each
  action of `DecodePool` and the theorems (section 5).

### Transforms

* `TransformOps`: the 2- and 4-point lifting operators, forward and inverse, as
  functions of integers (`>>` is the floor of the division; there is no overflow
  in the ranges that the bit depths allow).
  `CodingProofs` proves that each operator of the encoder is undone by the
  decoder's, for all integers.
* `BlockOps`: the geometry of a corner, shared by both sides.  A cell holds the
  sequence of operators applied to it and not undone.
* `ForwardTransform`, `InverseTransform`: the macroblock functions of the two
  sides, in the order of the code.
* `TransformCodec`: the walks of `ImageStrEncEncode` and `ImageStrDecDecode`
  over a plane.  `RoundTrip` asks that the decoder undoes exactly the operators
  of the encoder, in the opposite order, on the same cells.  Together with the
  theorems of `CodingProofs` this is losslessness up to quantisation.

### Entropy coding and prediction

* `CodingContext`: what a side keeps for a column of tiles and its adaptation
  (`AdaptDiscriminant`, `UpdateModelMB`, the scans, the pattern counters), with
  the code's weights and deltas.  Both sides use it, each on its own copy.
* `MacroblockPrediction`: the encoder's and the decoder's prediction of DC,
  low-pass and high-pass coefficients and of patterns, as pairs of operators.
  `predLP` and `predDCACDec` differ in their order of steps as the code's do.
* `MacroblockEncoder`, `MacroblockDecoder`: `segenc.c` and `segdec.c`, band by
  band.  A packet is a sequence of bits, of fields (a width and a value) and of
  symbols (alphabet, table in use, symbol).  The decoder has to ask for the same
  token; one that asks for a different width or has switched to another table
  reads zero and takes a token away, as a real one would read something wrong.
* `MacroblockCodec`: the two sides in turn, macroblock by macroblock, over an
  image (`encodeMB`, `processMacroblockDec`), with the rows that change places,
  contexts per tile column, their reset where a row of tiles starts, and the
  decoder's options.  The arrays of neighbours start with different garbage on
  the two sides, as in memory that is not cleared.  `InStep` compares what
  the decoder uses of its state with the encoder's, `Decoded` the macroblock
  itself.

### Pixels

* `SampleValues`: the arithmetic of samples: halves and floats, shared
  exponents, gains, rounding and clipping, as functions of integers; a float is
  its sign, exponent and mantissa.
* `ImageRows`: `inputMBRow`, `downsampleUV` and `padHorizontally`: how the
  encoder reads a row of macroblocks of any type and layout, and the rows of
  chrominance that wait for the next.
* `ImageOutput`: `outputMBRow`, `interpolateUV` and the tables of offsets
  (`initLookupTables`), which turn, flip and cut; and `decodeThumbnail`, with its
  levels and gains, and the sizes of what is decoded at a scale.
* `OptimisedRows`: the readers and writers of the x86 build for 24- and 32-bit
  rows, and the conditions under which they are chosen.
* `FormatConverters`: the tables of formats and of converters.  A
  converter is its sweeps over a line: which bytes of which pixel are read into
  which, in the order of the loop.  A byte of the buffer is a part of a term,
  the function applied to the samples it came from; a sample put together from parts of
  different terms is `Torn`.
* `PixelPath` composes them: a picture goes in row by row and out row by row, or a line
  is converted, pixel by pixel, in place, and back.  Buffers are larger than the
  picture, so that what is written beside it shows.  The codec between is
  the identity, or the gain of the levels that a thumbnail leaves out.

### Files

* `CodeStream`: a code stream is its header, a sequence of bits that the decoder
  reads at positions of its own, and its packets; a packet is which tile and band it belongs
  to and its length.  `ValidateArgs`, what `StrEncInit` derives, both headers, `writeIndexTable` and
  `copyTo` on one side; the headers, `readIndexTable`, the deduced order and
  `readPackets` on the other.
* `Container`: a file is a function from offsets to the pieces written there.
  Directories of metadata are copied entry by entry, nested ones too, from
  either byte order.
* `ImageFile`: an application sets metadata and writes pixels, at once or in
  bands, with or without planar alpha; another opens the file, reads the
  metadata and decodes each plane, a row of tiles at a time.

## 3. Runs

| Run | Shows | Bounds, and why they are enough |
|-----|-------|--------------------------------|
| `list_stream` | the stream keeps its list, frees its packets, reads what was received, lands where it seeks, and refines `ByteStream` | packets of 3 bytes, 12 bytes, transfers of 0-4 and 7 bytes: within, up to and across one and two packet ends; the proofs cover the rest |
| `list_stream_hang` (violation) | `Read` does not return when the end of the data is the end of a packet and a second read asks for more (`strcodec.c:579`) | the same |
| `bit_reader` | what is cached is what was received, a part is covered, only missing data makes a refill fail | ring of two 3-byte packets over 4-byte stream packets, 18 bytes: the ring wraps three times |
| `fail_safe_rows` | rows tried again give the same, once; nothing discarded is needed; each call returns; all rows are out at the end | up to 3 rows of 2 macroblocks, chunks of 2 and 5 bytes, right and wrong size tag, two tile rows in both orders, alpha |
| `fail_safe_alpha` (violation) | with interleaved alpha a macroblock is transformed again after a restore (`strdec.c:3968`) | 3 rows, 18 bytes |
| `tile_rows` | no line is given out before its data, all lines are, in time, and nothing needed is discarded | up to 3 tile rows by 2 columns, 4 tables (in scan order, swapped, upside down, a short one) and packets tile by tile, each of tile rows with one row, 5 endings of the file (whole, too large a tag, a byte to spare, cut between packets or in one) |
| `progressive` | each line is good when it is given out, ends in full quality and is refined in time; its quality never sinks | 53 images of 2 bands, up to 3 tile rows by 2 columns: no overlap, with bands missing from tile rows; overlap with soft tiles, and with hard ones, whose columns begin at the number of a tile row or beside it; wrong tags and cut files |
| `decode_pool` | the container's assertions, no lost work, errors close the image, what was asked for is decoded | 2 threads, files of up to 3 bytes decoded one at a time (stored and direct, good, broken, empty), 3 calls, one lock |
| `transform` | the decoder undoes the encoder, all rows of the region are shown, nothing coded is changed, hard tiles are apart along those boundaries that have the same number across and down, and along no others | up to 3x3 macroblocks, 4x3 in six tilings whose columns and rows begin at the same numbers, some of them or none; 3 formats, 0-2 levels of overlap, regions |
| `macroblock_codec` | both sides adapt in step, the decoder gets back the macroblock or the bands it wants of it | 16 images of up to 6 macroblocks chosen from four kinds (empty or sparse, detail across or down, dense with the longest escapes); 6 colour formats, both layouts, trimmed and skipped low bits, thumbnails, missing bands, indices of quantisers, one column of a region; contexts adapt every 2 macroblocks instead of 16 (`ResetPeriod`), so that tables, scans and model bits go both ways within a row |
| `pixels` | each sample of a picture lands where the orientation, the region and the scale put it, and nothing else is written; thumbnails are near the samples they stand for; chrominance has no seams between rows of macroblocks; each converted pixel comes from its own, and from the same one when it is converted back, but for those named that nine converters lose | pictures of 5x3 for each sample type and layout, 17 to 37 pixels a side (two or three rows and columns of macroblocks, the last ones cut) for orientations, regions, chrominance, thumbnails and optimised writers; every entry of the table of converters, the nine that lose pixels among them, on lines of 1, 2 and 9 pixels (no pixel but the first three is lost) |
| `file` | headers are read as they were meant, every reader is attached to its own packet, the metadata are found whole, and nothing lies over anything else | every sample type and colour format for headers; up to 3 by 3 tiles in each order of packets, with empty flexbits and a packet of 70000 bytes (positions from 64256 on are escaped); bands of up to 3 rows of macroblocks (`MaxBand`); directories of both byte orders, one nested; metadata of every kind in seven sequences of calls |

`CHECK_DEADLOCK FALSE` is set where the system really stops: a closed stream,
a decoded file.  The others have an explicit final stutter.

## 4. Fairness

* `ListStream`: none is needed, and calls are atomic.
* `FailSafeRows`: weak fairness of the steps inside a call.  The caller waits
  for them, on the same thread; chunks need not arrive (`CallReturns`).
* `DecodePool`: weak fairness of the threads of the pool, of the main thread in
  the middle of a call, of its event queue and of the network (a connection
  delivers or closes).  Nothing is assumed of who draws, locks or discards.
  `AskedIsDecoded` needs no more.
* The other specifications state safety only; that everything is decoded is an
  invariant of the final state (`AllLines`, `FullQuality`, `AllRowsShown`).

## 5. Proofs

`ListStreamProofs`: for every `PL \in Nat \ {0}` and all sets of sizes,

* `TypeCorrect`, `ListCorrect`, `NothingLeaks`, `ChunksIntact`, `SeeksLand`:
  `Spec => []` of the run's `TypeOK`, `ListOK`, `NoLeak`, `ReceivedIntact`,
  `SeekLands`;
* `DriftBounded`: the position computed from the counters is exact, or one packet
  ahead once everything was read (`PositionDrift`, which no run states);
* `Refinement`: `Spec => ByteStream!Spec` under the mapping of the run.

None of the invariants is inductive alone.  The packets in the list say nothing
of where the reader is; the counters say nothing of what is in the packets.  The
inductive invariant joins them: the list is a whole number of packets that begins
where the discarded head ends and holds the bytes received in order; the
reader's packet is the one that its count says, or the last one, when the count
has run one ahead (the drift that `Read` at the end of the data leaves); and the
bytes allocated are those in the list.  There is one lemma for what each operator of
`WSList` returns, and each action is one step of the induction that cites them.
Arithmetic on products of `PL` is beyond the SMT solver, so that the few facts
about `q * PL` are lemmas.

`BitIOReaderProofs`: for all packet lengths of stream and ring, all limits and
streams, `TypeCorrect` and `ReaderIntact` are `Spec => []` of `TypeOK` and of the run's
`CachedIntact`.  Which bytes the ring has says nothing of where the next will be
put, so the invariant says of a reader (`Held`) that each byte of the
stream from its position to the end of what it copied is at its place in the
ring, and that the next refill goes on there; and, just after a
refill, that there is enough for a part (`Ready`).  The backup has to be as good as
the reader was, although its ring is only copied back when `BitIOBufsEqual` finds
it changed: `Untouched` says that a reader that has the backup's stream
offset and no mark of a failed refill has the backup's ring, since a refill that gets
nothing may already have overwritten half of it, and one that gets something moves
the offset.

`FailSafeRowsProofs`: for all images (`ImageType`: any number of rows, columns,
planes and tile rows, tiles anywhere in the file, a size tag right or wrong,
parts of up to a packet, which is what the code refills for), chunks and
packet lengths, `TypeCorrect`, `OwnBits` and `TransformedOnce` are `Spec => []` of
`TypeOK`, of `BitsIntact` and, for images of one plane, of `RowTransformedOnce`; with a second
plane that is false (`fail_safe_alpha`).  The invariant has the reader's part above
and joins it to the driver's variables:

* `Control` and `InRow`: which row is decoded when which row was shown, and what
  `lastMB` says of the column.  Row `rows` is decoded without bits, for its
  filters, and a first call decodes two rows.
* `Reading` and `Kept`: between the attempts the reader, and during one its saved
  copy, holds what it should, except where a row `Enters` a tile
  row: `readPackets` attaches anew then, and what the reader has is not used.
* `Pixels`: how often each macroblock of the row above has been transformed is a
  function of the row and column that decoding is at.  After a failure the columns
  below `lastMB` still have what the attempt did to them, and the others must be
  what they were: `RestoredColumns` is then exactly what has to be
  copied back.

`NothingNeededDropped` is `NeverDiscardedEarly` for the same images: no refill and no
tile row asks for bytes that were discarded, also after failed tries and with a wrong
size tag.  The discard after a row drops what is below the *stream's* position, not the
reader's, so the second invariant, `Spared`, says where these two may part:

* After a refill they are together (`InSync`).  A chunk that arrives, and going back to
  the saved reader, put them apart: the stream may be far ahead of what the
  reader asks for next (`Reachable`: that is still there).
* A failed try then *owes* a refill.  A row goes through its places in a fixed
  order (`Way`, from `First` by `After`), whatever the bits are, and the try failed at
  a place at which the saved reader has no more than a packet left (`Due`).  The
  next try passes that place only with a refill, so a row that ends has
  reader and stream together again, and the discard that follows spares the reader
  (`RowOwed`, `RowTried`).
* A tile row below has its packet because `NextLowerLimit` takes the least offset of
  those that are left (`PacketsThere`); that it looks at the tile rows after the current one needs
  `ImageType` to list them from the top down, as the index table does.

`AdaptsInStep` is `ContextInStep` for the same images.  The model counts for each plane how
often its context has adapted to each part, so that the property can say of every part
whether it was counted, and only once.  `Adapted`, on top of the first invariant, gives the
whole context as a function of the place that decoding is at (`Seen`), and the saved one as
that of the beginning of the row; both only where the row does not enter a tile row, since
`readPackets` resets the context there.  That `tileRow` is not restored
with the rest is then harmless: it has moved only when the row enters (`StaysInTile`).

`EveryRowOut` is `AllRowsOut` for images of which the header and the beginning of every tile
row lie within the file and within what the tag says (`HeadsThere`, which all images of the runs
fulfil; otherwise there is nothing to attach to).  Its invariant `Ends` says that a
call returns before the last row, with the whole file there, only while the tag promises more
than there is (`Waiting`), and that once the tag was put right the limit of reads is what there is.  A
try fails for want of bytes or because they were discarded; the first is
arithmetic on the limit (`AttachFits`, `RefillFits`, `AllThere`), the second is excluded by `Spared`.

`CodingProofs`, transforms: for each lifting operator the decoder's is a left inverse
of the encoder's on all integers (`HTUndone` and its companions).  A lifting step
adds a rounded function of the others, which the inverse step subtracts, so no
property of the rounding is needed except that both sides compute the same.

`CodingProofs`, walk: for all images, tiles and regions, `EveryRowShown` is
`Spec => []` of the run's `AllRowsShown`.  The walk ends early and skips corners far from the
region; that it still comes to the last column of the row of corners below every row that
is wanted, and gives the row out there, is an inequality between roundings of the region's
ends (`WantedRow`) and the invariant `ShownSoFar` over the rows passed.
`WalkInImage` says that the corners stay on the macroblocks and no other row is given out; it
assumes that the region ends within the image, which `strdec.c:2936` sees to.

`TileRowDecoderProofs`: for every set of well-formed images (`ImagesAssumption`:
tile rows from top to bottom, a table of their shape, a packet in each tile row that
begins before the end; tiles stored in any order, packets of any number and
length, overlapping or not, any size tag not smaller than the content) and
every size of chunk, `TypeCorrect` is `Spec => []TypeOK`, and
`RowsWithinLimits`, `WholePicture`, `Responsive` and `NothingNeededLost` are
`Spec => []` of the run's `LinesGood`, `AllLines`, `RowsShownInTime` and
`NothingNeededDiscarded`.  The four assume one thing more, `OneRowInOrder`: a tile row of one
macroblock row does not end behind the limit of the next one.  Without it
they are false, which is the slip at `nsJPEGXRDecoder.cpp:2176` (section 7); files whose tiles are
stored from top to bottom have it.  The chain of the argument:

* the limits computed from the table are what they should be: a limit is not before
  the end of a packet of its tile row (`RowLimits`, `TrueEnds`), the lower limit not
  behind the start of a later one (`LowerLimits`); least elements of the sets of
  offsets exist by induction on natural numbers, done with sets (`LeastNat`);
* correcting a wrong size tag keeps that (`LimitsFixed`), because the file is complete;
* a call that decodes rows whose packets lie between the discarded head and the limit
  gives good rows and moves on by one (`ReadGood`, `DecodeGood`);
* `IInv`, for a complete file: what was read and shown is good and without a gap; the library
  is in the tile row of the row above; and, either decoding one tile row after the other or
  all at the end, which turn it is.  Between two turns the first row of
  the next tile row may have been read or not (`AtEntry`), and in the turn of a tile row of one
  macroblock row its row and the next tile row's first are read below the next
  one's limit (`Reads`): this is what `LinesGood` alone does not say and what its induction needs.

`CodingProofs`, adaptation: an image may be of any length, so that what TLC checks of
a context on a few macroblocks says little of its ranges.  Each operator that
adapts a part of it is proved to keep that part in range from any state in
range: code tables (`TablesStayInRange`, what `AdaptDiscriminant` asserts, and
`DeltasAreThere`, that the tables of differences are not read past an end),
the models of low bits (`ModelStepStaysInRange`), the scans
(`PromotionKeepsAll`: still a permutation), the counters of patterns
(`CBPCountStaysInRange`, `CBPModelStaysInRange`).

`CodingProofs`, prediction: `PredictionUndone` says that `predDCACDec` gives back what
`predLP` was given, for all formats, coefficients and surroundings.  Of a
neighbour that is not there nothing is assumed: that the mode never selects it
(`ModeHasNeighbour`) and that enough is kept of those that are
(`PredictorsAreThere`) is part of the argument.  The rest is arithmetic, except that
the lower half of a 4:2:2 channel is predicted from the upper half, which
the decoder must have restored first.

`ProgressiveDecoderProofs`: for all well-formed images (`WellFormed`: any number of tile
rows, tile columns and bands, each packet there or not as long as every tile row has some of
the first band, packets stored band by band as the encoder does, a size tag at or beyond
the end of the last packet), files cut anywhere and all chunks, `TypeCorrect` is
`Spec => []TypeOK`.  About what is shown nothing holds of all of these images, since the
decoder has the defects of section 7.  The theorems name what it takes to avoid
them, in terms of the index table only:

* `Seamless`: with overlap no tile row lacks a band, but with soft tiles the last may lack
  the last one (with hard tiles it would be skipped, and what lies above it smoothed
  against rows that this pass has not read); without overlap, of three tile rows
  the second is not the only one to lack a band.  Then `RowsFromTheirPackets` and
  `OnlyBetter` are `LinesGood` and `QualityGrows`.
* `Refinable`: besides, without overlap the second tile row has the bands that the first
  has, and the last two do not both lack a band before the last band; a single tile row
  has all bands and the right tag.  Then `WholeQuality` is `FullQuality`.
* `Nested`: besides, a tile row that has a band has those before it.  Then
  `RefinedAsItArrives` is `RefinedInTime`.

All images of the run are `Refinable` and `Nested`, which its module assumes and TLC
evaluates.  The invariant has three layers, the last two of complete files:

* `Typed`.  The types, with what they rest on: `Limits`, the table as computed from the
  index table and cut by the size tag, if that was corrected; `Turns`, which variable means
  what at which point of `DoTheDecoding`; `Arrived`, that whatever this pass has left
  behind or is decoding has been received up to its limit.
* `Steady`.  The library, the driver and the picture agree.  `Enters` is the heart of it:
  a tile row is begun at its top, one row below it when the tile row above was
  skipped, or with the last row of the one above still to come.  Of the library it says
  (`Ready`) that it is attached to the tile row of the next row and has not lost its place,
  and of the picture (`RowsRead`, `Unread`, `LinesShown`) that what will be smoothed against
  the next row was read in this pass, or is not put out because `m_skippedTileRows` is set.
  The step lemma `RowOutcome` says what a call of `JXR_DecodeNextMBRow` can do: go on
  in the tile row, leave it when it is done, or be held up at the top of the next one, whose
  packets have not arrived, which ends the tile row too.
* `Refining`.  `Sharp`: every row has all bands of the finished passes, and the rows
  above the line those of this pass; `Flagged`: the flag is set only between a tile row
  that was skipped and the next one that is decoded; `Waiting`: `WriteInternal` returns
  only when the next limit has not arrived.

That no packet reaches beyond its tile row's limit is a fact about the table (`BandLimits`,
`BandEnds`), from the order in which the packets are stored.  The limit of a tile row is
the start of the first packet behind it that is there: the least element of a set of
natural numbers, which `LeastNat` gets from the well-foundedness of inclusion on finite
sets, since induction is out of the prover's reach.

`DecodePoolProofs`: for all files, chunk sizes, numbers of threads and bounds,
`NeverForgotten`, `NeverAborts`, `WholeFiles` and `NothingForgotten` are `Spec => []` of
the run's `PendingHasJob`, `AssertionsHold`, `DecodedWhole` and `NoWorkLost`.  Each method of the image is used on
the main thread and in the pool, and calls others, so that the invariant is stated of an
image first, with a lemma per method that takes an
image in order to an image in order, and then of the threads.  It has three layers:

* `IInv`.  The image is *calm*: requests that are not the current one are STOPPED, a
  closed decoder leaves none that is not, a PENDING one has a job, or the decode is
  finished and the event that says so is queued.  While a job holds the monitor the
  current request is ACTIVE, is the job's, and its decoder is open, and at no other
  time.  The second alternative of a PENDING request is why `PendingHasJob` is not
  inductive: it holds until the event is handled, and only because the event's handler then
  finds the decode finished and closes the decoder.
* `Healthy`.  The image is *sound*, given the bytes sent: which decoder may be open
  when, what it has seen and what is stored; a full decoder of a file that is not
  stored has every byte sent, and such a file has a decoder until it is decoded or in error
  (nothing could be read again).  And what the main thread found before it waits for the
  monitor still holds when it gets it (`MainOK`), whatever jobs did in between: the code
  does not look again.
* `Attended`.  While nobody holds the monitor an open decoder is *settled*: it is waited
  for by a request that asks for all that is left, or it has failed and the error is
  queued, or it has nothing to do until more is told, or it is finished and a job's
  end is queued.  A job that works has at least what is left to do.  The end of the data is
  told (`Told`) only by the third step of `OnImageDataComplete`: between its steps
  `mHasSourceData` is set, and nobody has asked for what is left yet, so that without
  `Told` the invariant would be false.  Afterwards only a stored file has a decoder.
  Every operation that finds a decoder open must restore this, also those that return early,
  which is what `NoWorkLost` alone, which speaks of empty queues, cannot carry through the
  induction.

Assumed: the named assumptions on the constants, nothing else.

Only model-checked:

* all liveness (the prover has no ENABLED), `TypeOK` of the decode pool,
* `InStep` and `Decoded` of the macroblock codec, and `RoundTrip`, `CodedOnce` and
  `TilesApart` of the walks of the transform:
  of their operators the theorems above are proved, of whole macroblocks and pictures
  nothing is, because a packet or a cell's history is a sequence that the
  code goes through recursively,
* `PixelPath` and `ImageFile`: they declare RECURSIVE operators (nested directories
  and terms), which no module with a proof may reach.

## 6. Not modelled

The core of the system is what sections 2 to 5 describe.  Of the rest:

* *BitIO's write side* and the *memory and file streams* move bytes through a
  buffer one packet at a time.  `CodeStream` takes packets as wholes; any test of
  the encoder exercises the rest.
* The *transcoder* crops and turns pictures on their coefficients.  It would be a
  codec model of its own; the viewers never call it.
* *Chained buffers* are a second stream, over links of 16 KB, used by one
  viewer.  It could be shown to implement `ByteStream` as the list stream is.
* *Firefox's decoder class* is a copy of the viewers' with Firefox's types: it
  differs in frames and invalidation, not in when it decodes what.
* *Web viewer*: a thread that decodes, and a window procedure that stops it.  Its
  races are named in the hazards; they turn on the operating system's events.
* The SSE2 *transform*, *post-processing*, window procedures, command-line tools,
  readers of other formats, the test server and Firefox's registration tables have
  no control that the properties here would be about.

Within the modelled components these are left out: frames and
animation in the container; streams of the older sub-version, scaled arithmetic in
the filters; quantisers that change within a picture; streams no encoder writes;
the merging of a separate alpha plane with the pixels; errors of allocation.

Worth proving next: `TilesApart` of the transform's walk (arithmetic on the places of each
operator, format by format) and `TypeOK` of the decode pool.

## 7. What the models show to be wrong

Runs that end in a violation are in section 3.  What follows was found
while modelling; the images of the passing runs keep it out, as noted there:

Streams and decoding while data arrives:

* `getPosRead` is off by a packet after the ring wraps, and after a short
  refill (`strcodec.c:1324`).
* A tile row of one macroblock row that is stored behind the next tile row is
  lost, or shown from what lies behind the limit: the decoder waits for the next one's limit only, and reads below it
  (`nsJPEGXRDecoder.cpp:2176`).
* The first tile row's height is one macroblock row short (`:588`), so that its
  last row is not refined when the next tile row is skipped.
* `FinishInternal` can run `DoTheDecoding` with a tile row past the last, with a
  wrong size tag and tiles out of order (`:2436`).
* The correction of a wrong size tag (`:1994-2005`) leaves the limits of the bands
  (`:888`) as they were: with a single tile row the last band is never decoded,
  although the comment at `:2009` expects it.
* An upper limit of 0 means none: a soft tile row with an empty band reads
  ahead (`:2098`).  With soft tiles the first row after a skipped tile row is
  smoothed against one that was not read (`:2071`).
* Hard tile rows that lack a band are skipped whatever the overlap (`:2059`), since
  (`:2061`) "over tile boundaries overlap filtering is not used" and (`:2081`) "the
  output would be exactly the same".  The transforms do filter across them,
  unless a tile column begins at the number of the row (`strInvTransform.c:1223`).  With
  overlap the rows beside a skipped tile row are then smoothed against rows that
  this pass has not read, and the rows of the skipped one that its neighbours'
  band should refine are not.  With hard tiles and overlap every `Sparse` image of
  `MCProgressiveDecoder` that lacks a band violates `FullQuality` and `RefinedInTime`, and,
  if a tile row below has the band, `LinesGood` and `QualityGrows` too.
* `SetCurrentTileRow` refuses the last tile row (`strdec.c:258`); the
  result is ignored.  With three tile rows of which only the second lacks a band, the
  third is read as the second.
* `m_skippedTileRows` is set when a tile row is skipped (`:2092`) and cleared only
  when one is decoded (`:1913`).  When the last two tile rows both lack a band, the
  next pass begins with the flag set, and its first line is not put out: that
  line is never refined.

Transforms:

* The margin of a region of interest, 2 or 10 pixels, is too small for
  subsampled chrominance, which needs 4 or 12 (`strdec.c:447`).
* With hard tiles, a corner outside the region is skipped together with its tile
  state, so that boundaries right of it are missed (`strdec.c:482`).
* The transforms compare columns with `uiTileY` and rows with `uiTileX`
  (`strFwdTransform.c:519` and `:532`, `strInvTransform.c:1210` and `:1223`), so that
  filters span hard tiles at every boundary that does not have the same number across and
  down, and the picture is cut where no tile begins.  Both sides agree, so that
  `RoundTrip` holds; `TilesApart` says exactly which tiles are apart.
  The comment at `nsJPEGXRDecoder.cpp:2061` counts on all of them being apart.
  `ValidateArgs` mixes the two as well (`strenc.c:1252`).
* A row of tiles that starts at the macroblock that is the image's width makes the
  right edge a tile boundary (`strFwdTransform.c:519`).

Firefox:

* A change of the decode flags while loading declares a partial picture done
  (`RasterImage.cpp:2441`); `DecodeJob::Run` leaves a request pending without a
  job when a decoder needs a new frame (`:3362`), which JPEG XR's never does.

Pixels (`PixelPath`; the pictures of the run keep these out, but the first):

* Nine converters to wider pixels overwrite, in place, samples they still have to
  read: they spoil the second and third pixel of a line (24 to 32 bits without a
  swap, 48 to 64, 96 to 128), the second (`RGB24_BGR32`), the first two
  (`RGB64Fixed_RGB96Float`, `RGB64Half_RGB96Float`) or the first (`RGBE_RGB96Float`), in
  each line that has them.  The run has them all, and `ConvertedWhole` says that these
  pixels (`Lost`) and no others are not made of their own samples.  The assertion
  `assert(iWidth > 2); // Otherwise, we corrupt source data` (`JXRGluePFC.c:529`, and
  in three more) has it the wrong way round: only a line of one pixel is safe.

The rest:

* Optimised writers: 32-bit RGB with a fraction is given the writer of
  24 bits (`strdec_x86.c:6151`), the alpha mode is not looked at, and of the lossy writers
  only that of 24-bit RGB rounds.
* 16-bit samples: subsampled chrominance is not shifted (in) and is looked up with the
  wrong rows (out); alpha's offset is not shifted; gray of 32 bits is not
  made signed.
* YUV 4:2:2 cannot be flipped across or turned; a region of subsampled output
  has to begin at the left edge, and 4:2:0 at the top, since `initLookupTables`
  and `outputMBRow` take its origin in different units.
* A region that ends within the last macroblock is only cut when it reaches the edge of the
  picture.  Buffers of 4:2:0 and 4:2:2 need even sides.
* Gray decoded to RGB by a decoder that is not reentrant takes the sides of the
  region for those of the turned picture, and forgets padding; the bits of such a picture are
  cleared in its first line only.
* Thumbnails: `CalcThumbnailSize` does not round scales from 9 to 15
  (`strdec.c:3449`); all components of an N-channel picture have the luminance's gain,
  CMYK's black half a level too much, BD_16's level no shift; gray spread to BGR copies
  elements nobody wrote (`:2490`), and of more than 8 bits to places counted in bytes.
* `Convert_Float_To_Half` moves the sign of a NaN; negative fixed-point numbers lose
  one on the way through floats; `PRGBA64_RGBA32` (`JXRGluePFC.c:1874`) leaves the alpha
  multiplied in; a converter for `.bmp` (`:2744`) finds no entry for most formats, and
  goes on reporting RGB.

Files (`ImageFile`; the jobs of the run keep these out):

* `1 == x <= 1` (`strenc.c:965`) is always true: the quantiser does not decide on
  scaled arithmetic.
* A gray picture with interleaved alpha is quantised with alpha's index.
* In spatial order with several columns of tiles and fewer bands than the file
  has, the index of a column is computed with the number of bands asked for
  (`strdec.c:306`).  A file that itself has fewer bands serves no smaller set:
  `allocateBitIOInfo` takes the lesser of two numbers that grow as bands are left out
  (`strcodec.c:982`).
* `for (n = ...; n >= 0; --n)` over an unsigned `n` (`strdec.c:2624`) ends only by its
  `break`.  `GetVLWordEsc` shifts 32 bits away for the escape 0xfc (`:2551`).
* Descriptive metadata that are only short values are counted and not written, which
  an assertion catches (`JXRGlueEnc.c:674`); `PageNumber` is a SHORT with count 1
  that is read as two.
* Blocks of ICC, XMP, IPTC or Photoshop data of four bytes or fewer are written
  into their entry (`JXRMeta.c:794`) and read as an offset (`JXRGlueDec.c:1211`).
* `BufferCopyIFD` cuts offsets of nested directories to 16 bits; the offset of banded
  alpha is not even when the picture's length is odd.
* Reading the alpha plane takes the picture's width for its height
  (`JXRGlueDec.c:734`).

## 8. Abstractions

* Bytes are their positions in the stream and pixels the operators applied to
  them; what decodes wrongly is what is read from a wrong place, or undone in a wrong order.
* In the models of decoding while data arrives entropy coding is the number of
  bytes a part needs.  A part may need
  any number up to the end of its packets where the code cannot know it.
* In the codec's modules the bits of a Huffman code are not modelled: a
  code is read if the reader uses the same table.  The tables are
  prefix codes with a lookup each, constant in the source.  Quantisers are 1:
  a macroblock is what comes out of the quantiser.  Only streams that the encoder writes
  are decoded.
* In `PixelPath` the planes go from the encoder's input to the decoder's output
  untouched: `RowsRoundTrip` is about places and values of samples, `RoundTrip`
  and `Decoded` about what is between.  A picture's samples are a function of
  their place, so that one from a wrong place differs.
* In `ImageFile` a value of metadata is a name and a length; the entries of copied
  directories are bytes, since their order is turned round.  Packets are
  described, not filled.
* Allocation succeeds, `memcpy` copies, the streams of the operating system
  are left out.
* `WriteInternal`'s first part, which collects the container's header, is taken as
  done.  The alpha plane stored behind the picture has a decoder of its own with
  the same code; `FailSafeRows` has interleaved alpha only, `ImageFile` both.
