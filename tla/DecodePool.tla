----------------------------- MODULE DecodePool -----------------------------
(***************************************************************************)
(* A RasterImage between the main thread and the threads of the decode     *)
(* pool (Mozilla/image/src/RasterImage.cpp).  The network and the drawing  *)
(* code call the image on the main thread; a DecodeJob decodes on a thread *)
(* of the pool, holding mDecodingMonitor from its start to its end, and    *)
(* sends what it found to the main thread's event queue.                   *)
(*                                                                         *)
(* The main thread takes the monitor for parts of its calls only: between  *)
(* these it tests mDecoder, mInDecoder and mHasSourceData, and sets the    *)
(* last, while a job may be running.  Reading mInDecoder is a race: any    *)
(* value may be seen then.                                                 *)
(***************************************************************************)
EXTENDS RasterImage, SequencesExt

CONSTANTS Files,     \* the files that may be sent
          Threads,   \* threads of the pool
          MaxCalls,  \* bounds the draws, requests and discards
          MaxLocks   \* bounds mLockCount

ASSUME FilesAssumption == Files \subseteq [header : Nat, size : Nat, bad : Nat, storing : BOOLEAN]

VARIABLES im,        \* the image
          sent,      \* bytes the network has brought
          network,   \* "open" or "closed": OnImageDataComplete has been called
          job,       \* the DecodeJob in the monitor, or Idle
          main,      \* what the main thread is in the middle of
          locked,    \* mLockCount
          asked,     \* somebody wants the frames
          calls

vars == << im, sent, network, job, main, locked, asked, calls >>

Idle == [on |-> FALSE, request |-> NoRequest, left |-> 0, old |-> 0]
AtRest == [call |-> "none", step |-> "none"]
Going(call, step) == [call |-> call, step |-> step]

Free == ~ job.on    \* the monitor, while the main thread is between steps

TypeOK ==
  /\ im.file \in Files
  /\ im.source \in 0 .. im.file.size /\ im.bytesDecoded \in 0 .. im.file.size
  /\ {im.hasSourceData, im.hasSize, im.decoded, im.hasBeenDecoded, im.error, im.pendingError,
      im.wantFullDecode, im.assert, asked} \subseteq BOOLEAN
  /\ im.decoder \in [open : BOOLEAN, full : BOOLEAN, failed : BOOLEAN]
  /\ im.shown \in 0 .. im.file.size
  /\ im.request \in 0 .. Len(im.requests)
  /\ \A r \in DOMAIN im.requests :
       /\ im.requests[r].status \in {"INACTIVE", "PENDING", "ACTIVE", "WORK_DONE", "STOPPED"}
       /\ im.requests[r].bytesToDecode \in 0 .. im.file.size
  /\ im.jobs \in Seq(DOMAIN im.requests)
  /\ \A i \in DOMAIN im.events : im.events[i].kind \in {"done", "error", "request"}
  /\ sent \in 0 .. im.file.size /\ network \in {"open", "closed"}
  /\ job \in [on : BOOLEAN, request : 0 .. Len(im.requests), left : Nat, old : Nat]
  /\ main \in [call : {"none", "request", "start", "draw", "complete", "unlock"},
               step : {"none", "size", "rest", "stop"}]
  /\ locked \in 0 .. MaxLocks /\ calls \in 0 .. MaxCalls

Init ==
  /\ \E f \in Files : im = NewImage(f)
  /\ sent = 0 /\ network = "open" /\ job = Idle /\ main = AtRest
  /\ locked = 0 /\ asked = FALSE /\ calls = 0

(* asked is over when the frames are there, or cannot be, or are thrown    *)
(* away.                                                                   *)
Settle(next) ==
  /\ im' = next
  /\ asked' = (asked /\ ~ next.decoded /\ ~ next.error)

-----------------------------------------------------------------------------
(* The network, on the main thread.                                        *)
AddData(n) ==
  /\ main = AtRest /\ Free /\ network = "open" /\ sent + n <= im.file.size
  /\ sent' = sent + n
  /\ Settle(AddSourceData(im, n))
  /\ UNCHANGED << network, job, main, locked, calls >>

(* DoImageDataComplete sets mHasSourceData outside the monitor.            *)
DataComplete ==
  /\ main = AtRest /\ network = "open" /\ sent = im.file.size
  /\ network' = "closed"
  /\ IF im.error
     THEN im' = im /\ main' = Going("complete", "stop")
     ELSE /\ im' = [im EXCEPT !.hasSourceData = TRUE]
          /\ main' = Going("complete", IF im.decoder.open THEN "size" ELSE "rest")
  /\ UNCHANGED << sent, job, locked, asked, calls >>

CompleteSize ==
  /\ main = Going("complete", "size") /\ Free
  /\ LET sized == DecodeUntilSizeAvailable(im)
     IN  Settle(sized) /\ main' = Going("complete", IF sized.error THEN "stop" ELSE "rest")
  /\ UNCHANGED << sent, network, job, locked, calls >>

CompleteRest ==
  /\ main = Going("complete", "rest") /\ Free
  /\ Settle(ImageDataComplete(im)) /\ main' = Going("complete", "stop")
  /\ UNCHANGED << sent, network, job, locked, calls >>

CompleteStop ==
  /\ main = Going("complete", "stop") /\ Free
  /\ Settle(FinishedSomeDecoding(im)) /\ main' = AtRest
  /\ UNCHANGED << sent, network, job, locked, calls >>

-----------------------------------------------------------------------------
(* RequestDecode, StartDecoding and a draw with FLAG_SYNC_DECODE.  Before  *)
(* they take the monitor they look whether a decoder is at work.           *)
SeenInDecoder == IF job.on THEN BOOLEAN ELSE {FALSE}

(* What follows a call's first tests: the monitor for the size, or for the *)
(* rest.                                                                   *)
Enter(call) ==
  main' = Going(call, IF im.decoder.open /\ ~ im.decoder.full THEN "size" ELSE "rest")

Later == [im EXCEPT !.events = Append(@, [kind |-> "request", request |-> NoRequest])]

RequestDecode(call) ==
  /\ ~ im.error /\ ~ im.decoded
  /\ asked' = TRUE
  /\ \E in \in SeenInDecoder :
       IF in THEN im' = Later /\ main' = AtRest ELSE im' = im /\ Enter(call)
  /\ UNCHANGED << sent, network, job, locked >>

CallRequest(call) ==
  /\ main = AtRest /\ calls < MaxCalls /\ calls' = calls + 1
  /\ RequestDecode(call)

(* Draw: an image in its decoder is not drawn.                             *)
CallDraw ==
  /\ main = AtRest /\ calls < MaxCalls /\ calls' = calls + 1
  /\ ~ im.error /\ FALSE \in SeenInDecoder
  /\ asked' = ~ im.decoded
  /\ Enter("draw")
  /\ UNCHANGED << im, sent, network, job, locked >>

NoSizeYetNever(sized) == FALSE                                                \* MUTANT

NoSizeYet(sized) == ~ sized.error /\ ~ sized.hasSize

SizeFirst ==
  /\ main.step = "size" /\ main.call # "complete" /\ Free
  /\ LET sized == DecodeUntilSizeAvailable(im)
         stop  == sized.error \/ ~ sized.hasSize
     IN  /\ Settle([sized EXCEPT !.wantFullDecode = @ \/ NoSizeYet(sized)])
         /\ main' = IF stop THEN AtRest ELSE [main EXCEPT !.step = "rest"]
  /\ UNCHANGED << sent, network, job, locked, calls >>

DecodeRest ==
  /\ main.step = "rest" /\ main.call \in {"request", "start", "draw"} /\ Free
  /\ CASE main.call = "draw"    -> Settle(SyncDecode(im))
       [] main.call = "request" -> Settle(RequestDecodeCore(im, FALSE, 0))
       [] OTHER                 -> \E k \in 1 .. im.file.size :
                                      Settle(RequestDecodeCore(im, ~ im.hasBeenDecoded, k))
  /\ main' = AtRest
  /\ UNCHANGED << sent, network, job, locked, calls >>

-----------------------------------------------------------------------------
(* Locks and discards.                                                     *)
LockImage ==
  /\ main = AtRest /\ locked < MaxLocks /\ ~ im.error
  /\ locked' = locked + 1
  /\ UNCHANGED << im, sent, network, job, main, asked, calls >>

UnlockImage ==
  /\ main = AtRest /\ locked > 0 /\ ~ im.error
  /\ locked' = locked - 1
  /\ main' = IF im.hasBeenDecoded /\ im.decoder.open /\ locked = 1 /\ CanForciblyDiscard(im)
             THEN Going("unlock", "rest") ELSE AtRest
  /\ UNCHANGED << im, sent, network, job, asked, calls >>

CancelDecode ==
  /\ main = Going("unlock", "rest") /\ Free
  /\ im' = ForceDiscard(CloseIfFinished(im, "NotNeeded"))
  /\ asked' = FALSE /\ main' = AtRest
  /\ UNCHANGED << sent, network, job, locked, calls >>

(* The discard tracker's timer or requestDiscard.                          *)
Discard ==
  /\ main = AtRest /\ calls < MaxCalls /\ calls' = calls + 1
  /\ CanForciblyDiscard(im) /\ locked = 0 /\ im.decoded /\ ~ im.decoder.open
  /\ im' = ForceDiscard(im)
  /\ UNCHANGED << sent, network, job, main, locked, asked >>

-----------------------------------------------------------------------------
(* DecodeJob::Run: one action for its start, one for each chunk, one for   *)
(* its end.  Done sends a DecodeDoneWorker.                                *)
Done(i, r) == [i EXCEPT !.events = Append(@, [kind |-> "done", request |-> r])]

JobStart(k) ==
  /\ Free /\ k \in DOMAIN im.jobs
  /\ LET r     == im.jobs[k]
         taken == [im EXCEPT !.jobs = RemoveAt(@, k)]
         want  == im.requests[r].bytesToDecode
         may   == ~ im.error /\ ~ im.pendingError /\ ~ im.decoded
     IN  IF im.requests[r].status = "STOPPED" \/ ~ im.decoder.open \/ IsDecodeFinished(im)
         THEN im' = Done(taken, r) /\ job' = job
         ELSE /\ im' = [taken EXCEPT !.requests[r].status = "ACTIVE"]
              /\ job' = [on |-> TRUE, request |-> r, old |-> im.bytesDecoded,
                         left |-> IF ~ may THEN 0 ELSE IF want = 0 THEN Left(im) ELSE want]
  /\ UNCHANGED << sent, network, main, locked, asked, calls >>

MoreChunks == Left(im) > 0 /\ job.left > 0 /\ ~ im.decoder.failed /\ ~ IsDecodeFinished(im)

JobChunk ==
  /\ job.on /\ MoreChunks
  /\ LET chunk == IF im.decoder.full THEN Smaller(job.left, ChunkBytes) ELSE Smaller(job.left, im.source)
     IN  /\ im' = WriteInPool(im, Smaller(chunk, Left(im)))
         /\ job' = [job EXCEPT !.left = @ - chunk]
  /\ UNCHANGED << sent, network, main, locked, asked, calls >>

Unfinished(bytes) ==
  /\ ~ im.error /\ ~ im.pendingError /\ ~ IsDecodeFinished(im)
  /\ bytes < im.requests[job.request].bytesToDecode /\ bytes > 0

JobEndedActive(r) == im                                                       \* MUTANT

JobEnded(r) == [im EXCEPT !.requests[r].status = "WORK_DONE"]

JobEnd ==
  /\ job.on /\ ~ MoreChunks
  /\ LET ended == JobEnded(job.request)
     IN  im' = IF Unfinished(im.bytesDecoded - job.old) THEN PoolRequestDecode(ended) ELSE Done(ended, job.request)
  /\ job' = Idle
  /\ UNCHANGED << sent, network, main, locked, asked, calls >>

(* DecodeDoneWorker, HandleErrorWorker and imgDecodeRequestor, from the    *)
(* event queue of the main thread.                                         *)
HandleEvent ==
  /\ main = AtRest /\ im.events # << >>
  /\ LET e    == Head(im.events)
         rest == [im EXCEPT !.events = Tail(@)]
     IN  CASE e.kind = "done"  -> Free /\ Settle(FinishedSomeDecoding(rest)) /\ main' = main
           [] e.kind = "error" -> Free /\ Settle(DoError(rest)) /\ main' = main
           [] OTHER -> /\ asked' = asked
                       /\ IF rest.error \/ rest.decoded THEN im' = rest /\ main' = main
                          ELSE \E in \in SeenInDecoder :
                                 IF in THEN im' = [rest EXCEPT !.events = Append(@, e)] /\ main' = main
                                 ELSE im' = rest /\ Enter("request")
  /\ UNCHANGED << sent, network, job, locked, calls >>

-----------------------------------------------------------------------------
Finished ==
  /\ network = "closed" /\ main = AtRest /\ Free /\ im.jobs = << >> /\ im.events = << >>
  /\ UNCHANGED vars

Step ==
  \/ CompleteSize \/ CompleteRest \/ CompleteStop
  \/ SizeFirst \/ DecodeRest \/ CancelDecode \/ HandleEvent

Pool ==
  \/ \E k \in 1 .. Smaller(Threads, Len(im.jobs)) : JobStart(k)
  \/ JobChunk \/ JobEnd

Network == (\E n \in 1 .. im.file.size : AddData(n)) \/ DataComplete

Next ==
  \/ Network \/ Step \/ Pool
  \/ \E call \in {"request", "start"} : CallRequest(call)
  \/ CallDraw \/ LockImage \/ UnlockImage \/ Discard
  \/ Finished

(* Fairness: the threads of the pool run, and the main thread goes on with *)
(* what it is in the middle of, its events and what the network brings;    *)
(* nobody has to call the image.  MainReady and PoolReady are when         *)
(* MainThread and Pool are enabled.                                        *)
MainThread == Network \/ Step

MainReady ==
  \/ main # AtRest /\ Free
  \/ main = AtRest /\ im.events # << >> /\ (Free \/ Head(im.events).kind = "request")
  \/ main = AtRest /\ network = "open" /\ (Free \/ sent = im.file.size)

PoolReady == job.on \/ im.jobs # << >>

Fairness ==
  /\ ([]<> ~ MainReady) \/ []<><<MainThread>>_vars
  /\ ([]<> ~ PoolReady) \/ []<><<Pool>>_vars

Spec == Init /\ [][Next]_vars /\ Fairness
-----------------------------------------------------------------------------
(* No assertion of the image fails: a decoder is opened only when none is  *)
(* open and the picture is not decoded, written to and shut down only when *)
(* open, and never open when the frames are discarded                      *)
(* (RasterImage.cpp:1932, 2045, 2048, 2144, 2204, 2848).                   *)
AssertionsHold == im.assert

(* A picture that counts as decoded was made from the whole file: no       *)
(* decoder is closed over bytes that are still to come or to be written.   *)
DecodedWhole == im.decoded => im.hasSourceData /\ im.shown = im.file.size

(* No work is forgotten: when no job and no event is left, an open decoder *)
(* has got every byte there is, and the network will bring more.           *)
NoWorkLost ==
  main = AtRest /\ ~ job.on /\ im.jobs = << >> /\ im.events = << >> /\ im.decoder.open =>
     network = "open" /\ Left(im) = 0

(* A request that waits or is worked on has a job, or its end is on its    *)
(* way to the main thread: otherwise DecodePool::RequestDecode would never *)
(* again dispatch a job for it.                                            *)
PendingHasJob ==
  /\ Status(im) = "PENDING" =>
       \/ \E i \in DOMAIN im.jobs : im.jobs[i] = im.request
       \/ \E i \in DOMAIN im.events : im.events[i] = [kind |-> "done", request |-> im.request]
  /\ Status(im) = "ACTIVE" => job.on

(* Whoever asks for the frames gets them, or the picture is in error.      *)
AskedIsDecoded == asked ~> ~ asked

=============================================================================
