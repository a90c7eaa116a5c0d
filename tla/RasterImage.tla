----------------------------- MODULE RasterImage -----------------------------
(***************************************************************************)
(* The image container of the Firefox port (Mozilla/image/src/             *)
(* RasterImage.cpp) with a JPEG XR decoder inside: what its methods do     *)
(* while they hold mDecodingMonitor, one operator per method, from a state *)
(* of the container to the next one.  DecodePool puts them into threads.   *)
(*                                                                         *)
(* The picture is always decoded with one set of decode flags, and no      *)
(* observer calls back into the image.  nsJPEGXRDecoder takes the frame    *)
(* InitDecoder allocates and never asks for another, so NeedsNewFrame and  *)
(* mAllocatedNewFrame are always false.  A decoder reports an error, has   *)
(* the size once HeaderBytes are written, and is done only in Finish.      *)
(***************************************************************************)
EXTENDS Integers, Sequences

CONSTANTS ChunkBytes    \* gDecodeBytesAtATime

ASSUME ChunkBytesAssumption == ChunkBytes \in Nat \ {0}

NoDecoder == [open |-> FALSE, full |-> FALSE, failed |-> FALSE]
Open(full) == [open |-> TRUE, full |-> full, failed |-> FALSE]
NoRequest == 0

(* file: what is sent. header bytes hold the size; bad is the byte at      *)
(* which a full decode fails, 0 for none; storing is StoringSourceData().  *)
NewImage(file) ==
  [file          |-> file,
   source        |-> 0,            \* mSourceData.Length()
   hasSourceData |-> FALSE,
   decoder       |-> Open(FALSE),  \* Init starts a size decode
   bytesDecoded  |-> 0,
   hasSize       |-> FALSE,
   decoded       |-> FALSE,
   hasBeenDecoded |-> FALSE,
   shown         |-> 0,            \* bytes the finished decoder had seen
   error         |-> FALSE,
   pendingError  |-> FALSE,
   wantFullDecode |-> ~ file.storing,
   request       |-> 1,            \* mDecodeRequest
   requests      |-> << [status |-> "INACTIVE", bytesToDecode |-> 0] >>,
   jobs          |-> << >>,        \* DecodeJobs dispatched to the pool, by request
   events        |-> << >>,        \* dispatched to the main thread
   assert        |-> TRUE]         \* no NS_ABORT_IF_FALSE has failed

Expect(im, ok) == [im EXCEPT !.assert = @ /\ ok]

Smaller(a, b) == IF a < b THEN a ELSE b

DecoderHasSize(im) == im.bytesDecoded >= im.file.header

Status(im) == IF im.request = NoRequest THEN "none" ELSE im.requests[im.request].status

(* IsDecodeFinished.                                                       *)
IsDecodeFinishedEarly(im) ==                                                  \* MUTANT
  \/ ~ im.decoder.full /\ DecoderHasSize(im)
  \/ im.bytesDecoded = im.source

IsDecodeFinished(im) ==
  \/ ~ im.decoder.full /\ DecoderHasSize(im)
  \/ im.hasSourceData /\ im.bytesDecoded = im.source

-----------------------------------------------------------------------------
InitDecoder(im, full) ==
  LET ok  == ~ im.decoder.open /\ ~ im.decoded /\ (full => im.hasSize)
      new == [status |-> "INACTIVE", bytesToDecode |-> 0]
  IN  [Expect(im, ok) EXCEPT
         !.decoder  = Open(full),
         !.request  = IF @ = NoRequest THEN Len(im.requests) + 1 ELSE @,
         !.requests = IF im.request = NoRequest THEN Append(@, new) ELSE @]

(* DecodePool::StopDecoding.                                               *)
StopDecoding(im) ==
  IF im.request = NoRequest THEN im ELSE [im EXCEPT !.requests[im.request].status = "STOPPED"]

(* DecodePool::RequestDecode: a request waiting or worked on gets no       *)
(* second job.                                                             *)
WaitingOrDone(im) == Status(im) \in {"PENDING", "ACTIVE", "WORK_DONE"}         \* MUTANT

Waiting(im) == Status(im) \in {"PENDING", "ACTIVE"}

PoolRequestDecode(im) ==
  LET r    == im.request
      want == [Expect(im, im.decoder.open) EXCEPT !.requests[r].bytesToDecode = im.source - im.bytesDecoded]
  IN  IF Waiting(im) THEN want
      ELSE [want EXCEPT !.requests[r].status = "PENDING", !.jobs = Append(@, r)]

(* Decoder::Finish and DecodingComplete: nsJPEGXRDecoder::FinishInternal   *)
(* decodes what it has and declares the picture done, whatever is missing. *)
FinishDecoder(im) ==
  LET done == im.decoder.full /\ ~ im.decoder.failed /\ DecoderHasSize(im)
  IN  [im EXCEPT !.decoder = NoDecoder,
                 !.decoded = @ \/ (done /\ ~ im.error),
                 !.hasBeenDecoded = @ \/ (done /\ ~ im.error),
                 !.shown = IF done THEN im.bytesDecoded ELSE @]

(* ShutdownDecoder; DoError with the decoder closed sets mError.           *)
Closed(im, full, failed, intent) ==
  LET missed == IF full THEN ~ im.decoded ELSE ~ im.hasSize
  IN  IF failed \/ (intent = "Done" /\ missed)
      THEN [im EXCEPT !.error = TRUE]
      ELSE [im EXCEPT !.bytesDecoded = 0, !.source = IF full /\ ~ im.file.storing THEN 0 ELSE @]

ShutdownDecoder(im, intent) ==
  Closed(StopDecoding(FinishDecoder(Expect(im, im.decoder.open))), im.decoder.full, im.decoder.failed, intent)

(* FinishedSomeDecoding up to the notifications.                           *)
CloseSized(im, intent) ==
  IF IsDecodeFinished(im) \/ intent # "Done" THEN ShutdownDecoder(im, intent) ELSE im

CloseIfFinished(im, intent) ==
  IF im.decoder.open THEN CloseSized([im EXCEPT !.hasSize = @ \/ DecoderHasSize(im)], intent) ELSE im

(* What every call does first with a job that is done.                     *)
NoteWork(im) == IF Status(im) = "WORK_DONE" THEN CloseIfFinished(im, "Done") ELSE im

(* DoError on the main thread.                                             *)
DoError(im) ==
  IF im.error THEN im ELSE [CloseIfFinished(im, "Error") EXCEPT !.error = TRUE]

(* WriteToDecoder of n bytes that are in store, on the main thread or in   *)
(* the pool, where HandleErrorWorker::DispatchIfNeeded takes the error to  *)
(* the main thread.                                                        *)
Fails(im, n) == im.decoder.full /\ im.file.bad > 0 /\ im.bytesDecoded + n >= im.file.bad

WriteOnMain(im, n) ==
  IF Fails(im, n) THEN DoError([im EXCEPT !.decoder.failed = TRUE])
  ELSE [Expect(im, im.decoder.open) EXCEPT !.bytesDecoded = @ + n]

WriteInPool(im, n) ==
  IF Fails(im, n)
  THEN [im EXCEPT !.decoder.failed = TRUE, !.pendingError = TRUE,
                  !.events = IF im.pendingError THEN @ ELSE Append(@, [kind |-> "error", request |-> NoRequest])]
  ELSE [im EXCEPT !.bytesDecoded = @ + n]

Left(im) == IF im.source > im.bytesDecoded THEN im.source - im.bytesDecoded ELSE 0

-----------------------------------------------------------------------------
RequestIfOpen(im) == IF im.decoder.open /\ ~ im.error THEN PoolRequestDecode(im) ELSE im

(* DecodeABitOf runs until a deadline: k chunks.                           *)
DecodeSome(im, n) ==
  IF im.error \/ im.pendingError \/ im.decoded \/ ~ im.decoder.open \/ n = 0 THEN im ELSE WriteOnMain(im, n)

GoOn(im) == IF IsDecodeFinished(im) \/ Left(im) = 0 THEN im ELSE RequestIfOpen(im)

DecodeABitOf(im, k) == GoOn(CloseIfFinished(DecodeSome(im, Smaller(k * ChunkBytes, Left(im))), "Done"))

(* The part of RequestDecodeCore under the monitor, where no size decoder  *)
(* is open any more.                                                       *)
NothingToRequestUndecoded(im) == im.error \/ (im.decoder.open /\ im.bytesDecoded > 0)   \* MUTANT

NothingToRequest(im) == im.error \/ im.decoded \/ (im.decoder.open /\ im.bytesDecoded > 0)

RequestOpened(im, some, k) ==
  CASE im.error \/ im.decoded \/ (im.hasSourceData /\ im.bytesDecoded = im.source) -> im
    [] OTHER -> IF im.hasSourceData /\ some THEN DecodeABitOf(im, k) ELSE PoolRequestDecode(im)

RequestNoted(im, some, k) ==
  IF NothingToRequest(im) THEN im
  ELSE RequestOpened(IF im.decoder.open THEN im ELSE CloseIfFinished(InitDecoder(im, TRUE), "Done"), some, k)

RequestDecodeCore(im, some, k) ==
  IF im.bytesDecoded > im.source THEN im ELSE RequestNoted(NoteWork(im), some, k)

(* The part of SyncDecode under the monitor.                               *)
SyncOpened(im) ==
  RequestIfOpen(CloseIfFinished(IF Left(im) = 0 THEN im ELSE WriteOnMain(im, Left(im)), "Done"))

SyncNoted(im) ==
  IF im.error \/ im.decoded \/ im.bytesDecoded > im.source THEN im
  ELSE SyncOpened(IF im.decoder.open THEN im ELSE InitDecoder(im, TRUE))

SyncDecode(im) == SyncNoted(NoteWork(im))

(* FinishedSomeDecoding with RequestDecodeIfNeeded: when a size decode     *)
(* ends, the full decode someone waits for is started.                     *)
FullWanted(im, after) ==
  /\ im.decoder.open /\ ~ im.decoder.full /\ ~ after.decoder.open
  /\ ~ after.error /\ after.wantFullDecode

StartFull(im) == IF im.file.storing THEN RequestDecodeCore(im, FALSE, 0) ELSE SyncDecode(im)

RequestDecodeIfNeeded(im, after) ==
  IF FullWanted(im, after) THEN StartFull([after EXCEPT !.wantFullDecode = FALSE]) ELSE after

FinishedSomeDecoding(im) == RequestDecodeIfNeeded(im, CloseIfFinished(im, "Done"))

(* DecodePool::DecodeUntilSizeAvailable.  Only a size decoder has anything *)
(* to read: the full one is opened when the size is there.                 *)
ReadForSize(im) ==
  IF /\ ~ im.error /\ ~ im.pendingError /\ ~ im.decoded /\ im.decoder.open
     /\ ~ im.hasSize /\ ~ IsDecodeFinished(im) /\ Left(im) > 0
  THEN WriteOnMain(im, Left(im)) ELSE im

UntilSize(im) == IF im.error THEN im ELSE FinishedSomeDecoding(ReadForSize(im))

DecodeUntilSizeAvailable(im) ==
  UntilSize(IF Status(im) = "WORK_DONE" THEN FinishedSomeDecoding(im) ELSE im)

(* AddSourceData.  A picture that is decoded takes no more.                *)
AddSourceData(im, n) ==
  IF im.error \/ im.decoded THEN im
  ELSE IF ~ im.file.storing /\ im.hasSize THEN FinishedSomeDecoding(WriteOnMain(im, n))
  ELSE IF im.decoder.open THEN PoolRequestDecode([im EXCEPT !.source = @ + n])
  ELSE [im EXCEPT !.source = @ + n]

(* DoImageDataComplete after DecodeUntilSizeAvailable.                     *)
ImageDataComplete(im) ==
  RequestIfOpen(IF ~ im.file.storing /\ im.decoder.open THEN ShutdownDecoder(im, "Done") ELSE im)

(* CanForciblyDiscard, CanForciblyDiscardAndRedecode and ForceDiscard.     *)
CanForciblyDiscard(im) == im.file.storing /\ im.hasSourceData

ForceDiscard(im) ==
  [Expect(im, ~ im.decoder.open) EXCEPT !.decoded = FALSE, !.shown = 0, !.request = NoRequest]

=============================================================================
