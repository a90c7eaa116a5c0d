--------------------------- MODULE DecodePoolProofs ---------------------------
(***************************************************************************)
(* Theorems about the image between the main thread and the decode pool,   *)
(* for every set of files, every chunk size and number of threads.         *)
(*                                                                         *)
(* First the methods of RasterImage: each takes an image in order to an    *)
(* image in order.  Order has three parts.                                 *)
(*                                                                         *)
(* Calm is about the requests: only the current one may be anything but    *)
(* STOPPED, a closed decoder leaves none, and a pending one has a job, or  *)
(* the decode is finished and the event that says so is under way.         *)
(*                                                                         *)
(* Sound is about the decoders, given how many bytes s were sent: which    *)
(* one may be open when, what it has seen, and what is stored.             *)
(*                                                                         *)
(* Kept and Settled are about the work that is left: a request that waits  *)
(* asks for all of it, and an open decoder is waited for, has failed and   *)
(* sent the error, has nothing to do before more is told, or is finished   *)
(* and its end is on the way.                                              *)
(*                                                                         *)
(* Then the steps of the threads, whose invariant has a layer for each.    *)
(* IInv: the image is calm while nobody holds the monitor, and while a job *)
(* does, the current request is ACTIVE and its decoder open.  Healthy: the *)
(* image is sound in the bytes sent and what the main thread found out     *)
(* before it waits for the monitor still holds when it gets it.  Attended: *)
(* an open decoder is settled while nobody holds the monitor, and a job    *)
(* that works was asked for all that is left; once the end of the data is  *)
(* told, only a stored file still has a decoder.                           *)
(***************************************************************************)
EXTENDS DecodePool, SequenceTheorems, TLAPS

FileType == [header : Nat, size : Nat, bad : Nat, storing : BOOLEAN]

StatusType == {"INACTIVE", "PENDING", "ACTIVE", "WORK_DONE", "STOPPED"}

RequestType == [status : StatusType, bytesToDecode : Int]

ImageType ==
  [file : FileType, source : Int, hasSourceData : BOOLEAN, decoder : [open : BOOLEAN, full : BOOLEAN, failed : BOOLEAN],
   bytesDecoded : Int, hasSize : BOOLEAN, decoded : BOOLEAN, hasBeenDecoded : BOOLEAN, shown : Int, error : BOOLEAN,
   pendingError : BOOLEAN, wantFullDecode : BOOLEAN, request : Nat, requests : Seq(RequestType),
   jobs : Seq(Nat), events : Seq([kind : {"done", "error", "request"}, request : Nat]), assert : BOOLEAN]

HasJob(i) == \E n \in DOMAIN i.jobs : i.jobs[n] = i.request

EndSent(i) == \E n \in DOMAIN i.events : i.events[n] = [kind |-> "done", request |-> i.request]

Base(i) ==
  /\ i \in ImageType
  /\ i.request \in 0 .. Len(i.requests)
  /\ \A r \in DOMAIN i.requests : r # i.request => i.requests[r].status = "STOPPED"
  /\ \A n \in DOMAIN i.jobs : i.jobs[n] \in DOMAIN i.requests
  /\ IF i.decoder.open THEN i.request # 0 ELSE Status(i) \in {"none", "STOPPED"}

Calm(i) ==
  /\ Base(i) /\ Status(i) # "ACTIVE"
  /\ Status(i) = "PENDING" => HasJob(i) \/ (IsDecodeFinished(i) /\ EndSent(i))

(* Calm while the main thread handles the event that tells the end.        *)
Almost(i) ==
  /\ Base(i) /\ Status(i) # "ACTIVE"
  /\ Status(i) = "PENDING" => HasJob(i) \/ IsDecodeFinished(i)

Keeps(i, j) == Calm(j) /\ j.hasSourceData = i.hasSourceData /\ j.file = i.file

Stopped(i) == Base(i) /\ ~ i.decoder.open

-----------------------------------------------------------------------------
(* Writing the two counters leaves everything else.                        *)
LEMMA BytesTyped ==
  ASSUME NEW i \in ImageType, NEW bytes \in Int, NEW source \in Int
  PROVE  LET j == [i EXCEPT !.bytesDecoded = bytes, !.source = source]
         IN  /\ j \in ImageType /\ j.request = i.request /\ j.requests = i.requests /\ j.jobs = i.jobs
             /\ j.decoder = i.decoder /\ j.hasSourceData = i.hasSourceData /\ j.file = i.file /\ j.decoded = i.decoded
  BY DEF ImageType

(* Setting the status of one request leaves the others.                    *)
LEMMA StatusSet ==
  ASSUME NEW rs \in Seq(RequestType), NEW r \in DOMAIN rs, NEW s \in StatusType
  PROVE  /\ [rs EXCEPT ![r].status = s] \in Seq(RequestType)
         /\ Len([rs EXCEPT ![r].status = s]) = Len(rs)
         /\ DOMAIN [rs EXCEPT ![r].status = s] = DOMAIN rs
         /\ \A x \in DOMAIN rs : [rs EXCEPT ![r].status = s][x].status = IF x = r THEN s ELSE rs[x].status
<1>1. rs[r] \in RequestType /\ \A x \in DOMAIN rs : rs[x] \in RequestType
  OBVIOUS
<1>2. [rs[r] EXCEPT !.status = s] \in RequestType /\ [rs[r] EXCEPT !.status = s].status = s
  BY <1>1 DEF RequestType
<1> DEFINE q == [rs EXCEPT ![r] = [rs[r] EXCEPT !.status = s]]
<1>3. q \in Seq(RequestType) /\ Len(q) = Len(rs) /\ DOMAIN q = DOMAIN rs
  BY <1>2
<1>4. \A x \in DOMAIN rs : q[x].status = IF x = r THEN s ELSE rs[x].status
  BY <1>2
<1> QED BY <1>3, <1>4

(* Setting bytesToDecode changes no status.                                *)
LEMMA BytesSet ==
  ASSUME NEW rs \in Seq(RequestType), NEW r \in DOMAIN rs, NEW n \in Int
  PROVE  /\ [rs EXCEPT ![r].bytesToDecode = n] \in Seq(RequestType)
         /\ Len([rs EXCEPT ![r].bytesToDecode = n]) = Len(rs)
         /\ DOMAIN [rs EXCEPT ![r].bytesToDecode = n] = DOMAIN rs
         /\ \A x \in DOMAIN rs : [rs EXCEPT ![r].bytesToDecode = n][x].status = rs[x].status
<1>1. rs[r] \in RequestType
  OBVIOUS
<1>2. [rs[r] EXCEPT !.bytesToDecode = n] \in RequestType /\ [rs[r] EXCEPT !.bytesToDecode = n].status = rs[r].status
  BY <1>1 DEF RequestType
<1> DEFINE q == [rs EXCEPT ![r] = [rs[r] EXCEPT !.bytesToDecode = n]]
<1>3. q \in Seq(RequestType) /\ Len(q) = Len(rs) /\ DOMAIN q = DOMAIN rs
  BY <1>2
<1>4. \A x \in DOMAIN rs : q[x].status = rs[x].status
  BY <1>2
<1> QED BY <1>3, <1>4

(* What Decoder::Finish changes: it closes the decoder, and the picture    *)
(* counts as decoded when a full decoder had not failed and had the size.  *)
LEMMA FinishFields ==
  ASSUME NEW i \in ImageType
  PROVE  LET f == FinishDecoder(Expect(i, i.decoder.open))
             finish == i.decoder.full /\ ~ i.decoder.failed /\ DecoderHasSize(i)
         IN  /\ f \in ImageType /\ ~ f.decoder.open
             /\ f.file = i.file /\ f.hasSize = i.hasSize /\ f.hasSourceData = i.hasSourceData /\ f.pendingError = i.pendingError
             /\ f.wantFullDecode = i.wantFullDecode /\ f.events = i.events /\ f.error = i.error /\ f.bytesDecoded = i.bytesDecoded
             /\ f.source = i.source /\ f.request = i.request /\ f.requests = i.requests /\ f.jobs = i.jobs
             /\ i.assert /\ i.decoder.open => f.assert
             /\ f.decoded <=> i.decoded \/ (finish /\ ~ i.error)
             /\ f.hasBeenDecoded <=> i.hasBeenDecoded \/ (finish /\ ~ i.error)
             /\ f.shown = IF finish THEN i.bytesDecoded ELSE i.shown
<1> DEFINE f == FinishDecoder(Expect(i, i.decoder.open))
           finish == i.decoder.full /\ ~ i.decoder.failed /\ DecoderHasSize(i)
           e == Expect(i, i.decoder.open)
           decoded == e.decoded \/ (finish /\ ~ e.error)
           hasBeenDecoded == e.hasBeenDecoded \/ (finish /\ ~ e.error)
           shown == IF finish THEN e.bytesDecoded ELSE e.shown
<1>1. /\ e \in ImageType /\ e.file = i.file /\ e.hasSize = i.hasSize /\ e.hasSourceData = i.hasSourceData
      /\ e.pendingError = i.pendingError /\ e.wantFullDecode = i.wantFullDecode /\ e.events = i.events /\ e.error = i.error
      /\ e.bytesDecoded = i.bytesDecoded /\ e.source = i.source /\ e.request = i.request /\ e.requests = i.requests
      /\ e.jobs = i.jobs /\ e.decoder = i.decoder /\ e.decoded = i.decoded /\ e.hasBeenDecoded = i.hasBeenDecoded /\ e.shown = i.shown
      /\ (i.assert /\ i.decoder.open => e.assert)
  BY DEF ImageType, Expect
<1>2. f = [e EXCEPT !.decoder = NoDecoder, !.decoded = decoded, !.hasBeenDecoded = hasBeenDecoded, !.shown = shown]
  BY <1>1 DEF FinishDecoder, DecoderHasSize
<1>3. NoDecoder \in [open : BOOLEAN, full : BOOLEAN, failed : BOOLEAN] /\ ~ NoDecoder.open /\ decoded \in BOOLEAN /\ hasBeenDecoded \in BOOLEAN
  BY DEF NoDecoder
<1>4. shown \in Int
  BY <1>1 DEF ImageType
<1>5. /\ decoded <=> i.decoded \/ (finish /\ ~ i.error)
      /\ hasBeenDecoded <=> i.hasBeenDecoded \/ (finish /\ ~ i.error)
      /\ shown = IF finish THEN i.bytesDecoded ELSE i.shown
  BY <1>1
<1> HIDE DEF e, decoded, hasBeenDecoded, shown, f, finish
<1>a. e \in ImageType
  BY <1>1
<1>b. /\ NoDecoder \in [open : BOOLEAN, full : BOOLEAN, failed : BOOLEAN]
      /\ decoded \in BOOLEAN /\ hasBeenDecoded \in BOOLEAN
  BY <1>3
<1>c. shown \in Int
  BY <1>4
<1>6. /\ f \in ImageType
      /\ f.decoder = NoDecoder /\ (f.decoded <=> decoded) /\ (f.hasBeenDecoded <=> hasBeenDecoded) /\ f.shown = shown
  <2>1. f \in ImageType
    BY <1>a, <1>b, <1>c, <1>2 DEF ImageType
  <2>2. f.decoder = NoDecoder /\ f.shown = shown
    BY <1>a, <1>2 DEF ImageType
  <2>3. f.decoded = decoded
    BY <1>a, <1>2 DEF ImageType
  <2>4. f.hasBeenDecoded = hasBeenDecoded
    BY <1>a, <1>2 DEF ImageType
  <2> QED BY <2>1, <2>2, <2>3, <2>4
<1>7. /\ f.file = e.file /\ f.hasSize = e.hasSize /\ f.hasSourceData = e.hasSourceData /\ f.pendingError = e.pendingError
      /\ f.wantFullDecode = e.wantFullDecode /\ f.events = e.events /\ f.error = e.error /\ f.bytesDecoded = e.bytesDecoded
      /\ f.source = e.source /\ f.request = e.request /\ f.requests = e.requests /\ f.jobs = e.jobs /\ f.assert = e.assert
  BY <1>1, <1>2 DEF ImageType
<1> QED BY <1>1, <1>3, <1>5, <1>6, <1>7 DEF f, finish

(* DecodePool::StopDecoding stops the request and changes nothing else.    *)
LEMMA StopFields ==
  ASSUME NEW i \in ImageType, i.request \in 0 .. Len(i.requests)
  PROVE  LET s == StopDecoding(i)
         IN  /\ s \in ImageType
             /\ s.file = i.file /\ s.hasSize = i.hasSize /\ s.hasSourceData = i.hasSourceData /\ s.pendingError = i.pendingError
             /\ s.wantFullDecode = i.wantFullDecode /\ s.events = i.events /\ s.error = i.error /\ s.bytesDecoded = i.bytesDecoded
             /\ s.source = i.source /\ s.request = i.request /\ s.jobs = i.jobs /\ s.decoder = i.decoder /\ s.decoded = i.decoded
             /\ s.hasBeenDecoded = i.hasBeenDecoded /\ s.shown = i.shown /\ s.assert = i.assert
             /\ DOMAIN s.requests = DOMAIN i.requests /\ Len(s.requests) = Len(i.requests)
             /\ \A r \in DOMAIN i.requests : s.requests[r].status = IF r = i.request THEN "STOPPED" ELSE i.requests[r].status
<1> DEFINE q == [i.requests EXCEPT ![i.request].status = "STOPPED"]
           s == StopDecoding(i)
<1>1. i.requests \in Seq(RequestType) /\ "STOPPED" \in StatusType /\ i.request \in Nat
  BY DEF ImageType, StatusType
<1>2. CASE i.request = 0
  <2>1. s = i
    BY <1>2 DEF StopDecoding, NoRequest
  <2>2. \A r \in DOMAIN i.requests : r # i.request
    BY <1>1, <1>2
  <2> HIDE DEF s
  <2>3. QED BY <2>1, <2>2 DEF s
<1>3. CASE i.request # 0
  <2>1. i.request \in DOMAIN i.requests
    BY <1>1, <1>3
  <2>2. /\ q \in Seq(RequestType) /\ Len(q) = Len(i.requests) /\ DOMAIN q = DOMAIN i.requests
        /\ \A r \in DOMAIN i.requests : q[r].status = IF r = i.request THEN "STOPPED" ELSE i.requests[r].status
    BY <1>1, <2>1, StatusSet
  <2>3. s = [i EXCEPT !.requests = q]
    BY <1>3 DEF StopDecoding, NoRequest
  <2> HIDE DEF q, s
  <2>4. /\ s \in ImageType /\ s.requests = q
        /\ s.file = i.file /\ s.hasSize = i.hasSize /\ s.hasSourceData = i.hasSourceData /\ s.pendingError = i.pendingError
        /\ s.wantFullDecode = i.wantFullDecode /\ s.events = i.events /\ s.error = i.error /\ s.bytesDecoded = i.bytesDecoded
        /\ s.source = i.source /\ s.request = i.request /\ s.jobs = i.jobs /\ s.decoder = i.decoder /\ s.decoded = i.decoded
        /\ s.hasBeenDecoded = i.hasBeenDecoded /\ s.shown = i.shown /\ s.assert = i.assert
    BY <2>2, <2>3 DEF ImageType
  <2> QED BY <2>2, <2>4 DEF s
<1> QED BY <1>2, <1>3

(* With the decoder closed and the request stopped, no request is awaited. *)
LEMMA StopStops ==
  ASSUME NEW i, i \in ImageType, i.request \in 0 .. Len(i.requests),
         \A r \in DOMAIN i.requests : r # i.request => i.requests[r].status = "STOPPED",
         \A n \in DOMAIN i.jobs : i.jobs[n] \in DOMAIN i.requests, ~ i.decoder.open
  PROVE  Stopped(StopDecoding(i))
<1> DEFINE s == StopDecoding(i)
<1>1. /\ s \in ImageType /\ s.request = i.request /\ s.jobs = i.jobs /\ s.decoder = i.decoder
      /\ DOMAIN s.requests = DOMAIN i.requests /\ Len(s.requests) = Len(i.requests)
      /\ \A r \in DOMAIN i.requests : s.requests[r].status = IF r = i.request THEN "STOPPED" ELSE i.requests[r].status
  BY StopFields
<1> HIDE DEF s
<1>2. \A r \in DOMAIN s.requests : s.requests[r].status = "STOPPED"
  BY <1>1
<1>3. Status(s) \in {"none", "STOPPED"}
  <2>1. s.requests \in Seq(RequestType) /\ s.request \in Nat
    BY <1>1 DEF ImageType
  <2>2. s.request # 0 => s.request \in DOMAIN s.requests
    BY <1>1, <2>1
  <2> QED BY <1>2, <2>2 DEF Status, NoRequest
<1>4. Stopped(s)
  BY <1>1, <1>2, <1>3 DEF Stopped, Base
<1> QED BY <1>4 DEF s

(* A stopped image is calm.                                                *)
LEMMA StoppedIsCalm == ASSUME NEW i, Stopped(i) PROVE Calm(i) /\ Almost(i)
  BY DEF Stopped, Calm, Almost, Base

(* A calm image is almost calm.                                            *)
LEMMA CalmIsAlmost == ASSUME NEW i, Calm(i) PROVE Almost(i)
  BY DEF Calm, Almost

(* Base depends on the requests, the jobs and whether a decoder is open.   *)
LEMMA BaseFrame ==
  ASSUME NEW i, NEW j, Base(i), j \in ImageType, j.request = i.request, j.requests = i.requests, j.jobs = i.jobs,
         j.decoder.open = i.decoder.open
  PROVE  Base(j) /\ Status(j) = Status(i) /\ (HasJob(i) <=> HasJob(j))
  BY DEF Base, Status, HasJob

(* What keeps an image almost calm.                                        *)
LEMMA AlmostFrame ==
  ASSUME NEW i, NEW j, Almost(i), j \in ImageType, j.request = i.request, j.requests = i.requests, j.jobs = i.jobs,
         j.decoder.open = i.decoder.open, IsDecodeFinished(i) => IsDecodeFinished(j)
  PROVE  Almost(j)
<1>1. Base(j) /\ Status(j) = Status(i) /\ (HasJob(i) <=> HasJob(j))
  BY BaseFrame DEF Almost
<1> QED BY <1>1 DEF Almost

(* What keeps an image calm.                                               *)
LEMMA CalmFrame ==
  ASSUME NEW i, NEW j, Calm(i), j \in ImageType, j.request = i.request, j.requests = i.requests, j.jobs = i.jobs,
         j.decoder.open = i.decoder.open, IsDecodeFinished(i) => IsDecodeFinished(j), EndSent(i) => EndSent(j)
  PROVE  Calm(j)
<1>1. Base(j) /\ Status(j) = Status(i) /\ (HasJob(i) <=> HasJob(j))
  BY BaseFrame DEF Calm
<1> QED BY <1>1 DEF Calm

(* ShutdownDecoder leaves a closed decoder and a stopped request; a full   *)
(* decode that is done and shut down ends decoded or in error.             *)
LEMMA ShutdownStops ==
  ASSUME NEW i, Base(i), NEW intent
  PROVE  LET j == ShutdownDecoder(i, intent)
         IN  /\ Stopped(j) /\ j.hasSourceData = i.hasSourceData /\ j.file = i.file
             /\ i.decoder.full /\ intent = "Done" => j.error \/ j.decoded
<1> DEFINE f == FinishDecoder(Expect(i, i.decoder.open))
           s == StopDecoding(f)
           j == ShutdownDecoder(i, intent)
<1>1. i \in ImageType
  BY DEF Base
<1>2. /\ f \in ImageType /\ ~ f.decoder.open /\ f.hasSourceData = i.hasSourceData /\ f.file = i.file
      /\ f.request = i.request /\ f.requests = i.requests /\ f.jobs = i.jobs
  BY <1>1, FinishFields
<1> HIDE DEF f
<1>3. Stopped(s) /\ s.hasSourceData = i.hasSourceData /\ s.file = i.file
  BY <1>2, StopStops, StopFields DEF Base
<1> HIDE DEF s
<1>4. j = Closed(s, i.decoder.full, i.decoder.failed, intent)
  BY DEF ShutdownDecoder, s, f
<1>5. CASE i.decoder.failed \/ (intent = "Done" /\ (IF i.decoder.full THEN ~ s.decoded ELSE ~ s.hasSize))
  <2>1. j = [s EXCEPT !.error = TRUE]
    BY <1>4, <1>5 DEF Closed
  <2>2. /\ j \in ImageType /\ j.request = s.request /\ j.requests = s.requests /\ j.jobs = s.jobs
        /\ j.decoder = s.decoder /\ j.hasSourceData = s.hasSourceData /\ j.file = s.file /\ j.error
    BY <2>1, <1>3 DEF Stopped, Base, ImageType
  <2> QED BY <2>2, <1>3, BaseFrame DEF Stopped
<1>6. CASE ~ (i.decoder.failed \/ (intent = "Done" /\ (IF i.decoder.full THEN ~ s.decoded ELSE ~ s.hasSize)))
  <2>1. j = [s EXCEPT !.bytesDecoded = 0, !.source = IF i.decoder.full /\ ~ s.file.storing THEN 0 ELSE @]
    BY <1>4, <1>6 DEF Closed
  <2> DEFINE left == IF i.decoder.full /\ ~ s.file.storing THEN 0 ELSE s.source
  <2>a. s \in ImageType
    BY <1>3 DEF Stopped, Base
  <2>b. left \in Int
    BY <2>a DEF ImageType
  <2>d. PICK zero \in Int : zero = 0
    OBVIOUS
  <2>e. zero \in Int
    BY <2>d
  <2>c. j = [s EXCEPT !.bytesDecoded = zero, !.source = left]
    BY <2>1, <2>d
  <2> HIDE DEF left, j
  <2>2. /\ j \in ImageType /\ j.request = s.request /\ j.requests = s.requests /\ j.jobs = s.jobs
        /\ j.decoder = s.decoder /\ j.hasSourceData = s.hasSourceData /\ j.file = s.file /\ j.decoded = s.decoded
    BY <2>a, <2>b, <2>c, <2>e, BytesTyped
  <2> USE DEF j
  <2> QED BY <2>2, <1>3, <1>6, BaseFrame DEF Stopped
<1> QED BY <1>5, <1>6

(* FinishedSomeDecoding's first part closes a decoder that is finished,    *)
(* and with it the request whose end was on its way.                       *)
LEMMA CloseCalms ==
  ASSUME NEW i, Almost(i), NEW intent
  PROVE  LET j == CloseIfFinished(i, intent)
         IN  /\ Calm(j) /\ j.hasSourceData = i.hasSourceData /\ j.file = i.file
             /\ j.decoder.open => i.decoder.open /\ j.request = i.request
             /\ i.decoder.open /\ intent # "Done" => ~ j.decoder.open
             /\ i.decoder.open /\ i.decoder.full /\ intent = "Done" => j.decoder.open \/ j.error \/ j.decoded
<1> DEFINE h == [i EXCEPT !.hasSize = @ \/ DecoderHasSize(i)]
           j == CloseIfFinished(i, intent)
<1>1. i \in ImageType
  BY DEF Almost, Base
<1>2. /\ h \in ImageType /\ h.request = i.request /\ h.requests = i.requests /\ h.jobs = i.jobs
      /\ h.decoder = i.decoder /\ h.hasSourceData = i.hasSourceData /\ h.file = i.file /\ (IsDecodeFinished(i) <=> IsDecodeFinished(h))
  BY <1>1 DEF ImageType, IsDecodeFinished, DecoderHasSize
<1>3. Almost(h)
  BY <1>2, AlmostFrame
<1> HIDE DEF h
<1>4. CASE ~ i.decoder.open
  <2>1. j = i
    BY <1>4 DEF CloseIfFinished
  <2> QED BY <2>1, <1>4, StoppedIsCalm DEF Stopped, Almost
<1>5. CASE i.decoder.open /\ (IsDecodeFinished(h) \/ intent # "Done")
  <2>1. j = ShutdownDecoder(h, intent)
    BY <1>5 DEF CloseIfFinished, CloseSized, h
  <2>2. /\ Stopped(j) /\ j.hasSourceData = h.hasSourceData /\ j.file = h.file
        /\ h.decoder.full /\ intent = "Done" => j.error \/ j.decoded
    BY <2>1, <1>3, ShutdownStops DEF Almost
  <2> QED BY <2>2, <1>2, StoppedIsCalm DEF Stopped
<1>6. CASE i.decoder.open /\ ~ (IsDecodeFinished(h) \/ intent # "Done")
  <2>1. j = h
    BY <1>6 DEF CloseIfFinished, CloseSized, h
  <2> QED BY <2>1, <1>2, <1>3, <1>6 DEF Calm, Almost
<1> QED BY <1>4, <1>5, <1>6

(* DoError keeps an image calm.                                            *)
LEMMA ErrorCalms ==
  ASSUME NEW i, Calm(i)
  PROVE  Calm(DoError(i)) /\ DoError(i).hasSourceData = i.hasSourceData /\ DoError(i).file = i.file
<1> DEFINE c == CloseIfFinished(i, "Error")
           j == [c EXCEPT !.error = TRUE]
<1>1. CASE i.error
  BY <1>1 DEF DoError
<1>2. CASE ~ i.error
  <2>1. Calm(c) /\ c.hasSourceData = i.hasSourceData /\ c.file = i.file
    BY CalmIsAlmost, CloseCalms
  <2>2. c \in ImageType
    BY <2>1 DEF Calm, Base
  <2> HIDE DEF c
  <2>3. /\ j \in ImageType /\ j.request = c.request /\ j.requests = c.requests /\ j.jobs = c.jobs /\ j.events = c.events
        /\ j.decoder = c.decoder /\ j.hasSourceData = c.hasSourceData /\ j.file = c.file /\ j.source = c.source /\ j.bytesDecoded = c.bytesDecoded
    BY <2>2 DEF ImageType
  <2>4. (IsDecodeFinished(c) => IsDecodeFinished(j)) /\ (EndSent(c) => EndSent(j))
    BY <2>3 DEF IsDecodeFinished, DecoderHasSize, EndSent
  <2>5. DoError(i) = j
    BY <1>2 DEF DoError, c
  <2> HIDE DEF j
  <2> QED BY <2>1, <2>3, <2>4, <2>5, CalmFrame
<1> QED BY <1>1, <1>2

(* Writing bytes to the decoder keeps an image calm: bytes are written     *)
(* only while some are left.                                               *)
LEMMA WriteCalms ==
  ASSUME NEW i, Calm(i), NEW n \in Nat, i.hasSourceData /\ i.bytesDecoded = i.source => n = 0
  PROVE  Calm(WriteOnMain(i, n)) /\ WriteOnMain(i, n).hasSourceData = i.hasSourceData /\ WriteOnMain(i, n).file = i.file
<1> DEFINE f == [i EXCEPT !.decoder.failed = TRUE]
           e == Expect(i, i.decoder.open)
           j == [e EXCEPT !.bytesDecoded = @ + n]
<1>1. i \in ImageType
  BY DEF Calm, Base
<1>2. CASE Fails(i, n)
  <2>1. /\ f \in ImageType /\ f.request = i.request /\ f.requests = i.requests /\ f.jobs = i.jobs /\ f.events = i.events
        /\ f.decoder.open = i.decoder.open /\ f.decoder.full = i.decoder.full /\ f.hasSourceData = i.hasSourceData /\ f.file = i.file
        /\ f.source = i.source /\ f.bytesDecoded = i.bytesDecoded
    BY <1>1 DEF ImageType
  <2> HIDE DEF f
  <2>2. (IsDecodeFinished(i) => IsDecodeFinished(f)) /\ (EndSent(i) => EndSent(f))
    BY <2>1 DEF IsDecodeFinished, DecoderHasSize, EndSent
  <2>3. Calm(f)
    BY <2>1, <2>2, CalmFrame
  <2> QED BY <1>2, <2>1, <2>3, ErrorCalms DEF WriteOnMain, f
<1>3. CASE ~ Fails(i, n)
  <2>1. /\ e \in ImageType /\ e.request = i.request /\ e.requests = i.requests /\ e.jobs = i.jobs /\ e.events = i.events
        /\ e.decoder = i.decoder /\ e.hasSourceData = i.hasSourceData /\ e.file = i.file
        /\ e.source = i.source /\ e.bytesDecoded = i.bytesDecoded
    BY <1>1 DEF ImageType, Expect
  <2>2. WriteOnMain(i, n) = j
    BY <1>3 DEF WriteOnMain
  <2> DEFINE k == e.bytesDecoded + n
  <2>a. k \in Int
    BY <2>1 DEF ImageType
  <2>b. j = [e EXCEPT !.bytesDecoded = k]
    OBVIOUS
  <2> HIDE DEF e, j, k
  <2>3. /\ j \in ImageType /\ j.request = e.request /\ j.requests = e.requests /\ j.jobs = e.jobs /\ j.events = e.events
        /\ j.decoder = e.decoder /\ j.hasSourceData = e.hasSourceData /\ j.file = e.file
        /\ j.source = e.source /\ j.bytesDecoded = k
    BY <2>1, <2>a, <2>b DEF ImageType
  <2>4. i.bytesDecoded \in Int /\ i.file.header \in Nat
    BY <1>1 DEF ImageType, FileType
  <2>5. DecoderHasSize(i) => DecoderHasSize(j)
    BY <2>1, <2>3, <2>4 DEF DecoderHasSize, k
  <2>6. i.bytesDecoded = i.source /\ i.hasSourceData => j.bytesDecoded = j.source
    BY <2>1, <2>3, <2>4 DEF k
  <2>7. (IsDecodeFinished(i) => IsDecodeFinished(j)) /\ (EndSent(i) => EndSent(j))
    BY <2>1, <2>3, <2>5, <2>6 DEF IsDecodeFinished, EndSent
  <2> QED BY <2>1, <2>2, <2>3, <2>7, CalmFrame
<1> QED BY <1>2, <1>3

(* Without a decoder every request is stopped.                             *)
LEMMA ClosedStops ==
  ASSUME NEW i, Base(i), ~ i.decoder.open
  PROVE  \A r \in DOMAIN i.requests : i.requests[r].status = "STOPPED"
<1> SUFFICES ASSUME NEW r \in DOMAIN i.requests, r = i.request PROVE i.requests[r].status = "STOPPED"
  BY DEF Base
<1>1. i.requests[r] \in RequestType
  BY DEF Base, ImageType
<1>2. i.request # 0
  BY DEF Base, ImageType
<1>3. Status(i) = i.requests[r].status
  BY <1>2 DEF Status, NoRequest
<1>4. Status(i) # "none"
  BY <1>1, <1>3 DEF RequestType, StatusType
<1> QED BY <1>3, <1>4 DEF Base

(* InitDecoder opens a decoder with a request that is not awaited.         *)
LEMMA OpenCalms ==
  ASSUME NEW i, Calm(i), ~ i.decoder.open, NEW full \in BOOLEAN
  PROVE  LET j == InitDecoder(i, full) IN Calm(j) /\ j.decoder.open /\ j.decoder.full = full /\ j.hasSourceData = i.hasSourceData /\ j.file = i.file
<1> DEFINE ok == ~ i.decoder.open /\ ~ i.decoded /\ (full => i.hasSize)
           e == Expect(i, ok)
           new == [status |-> "INACTIVE", bytesToDecode |-> 0]
           r == IF i.request = 0 THEN Len(i.requests) + 1 ELSE i.request
           rs == IF i.request = 0 THEN Append(i.requests, new) ELSE i.requests
           d == Open(full)
           j == InitDecoder(i, full)
<1>1. i \in ImageType /\ Base(i)
  BY DEF Calm, Base
<1>2. /\ e \in ImageType /\ e.request = i.request /\ e.requests = i.requests /\ e.jobs = i.jobs /\ e.hasSourceData = i.hasSourceData /\ e.file = i.file
  BY <1>1 DEF ImageType, Expect
<1>3. d \in [open : BOOLEAN, full : BOOLEAN, failed : BOOLEAN] /\ d.open /\ d.full = full
  BY DEF Open
<1>4. new \in RequestType /\ new.status = "INACTIVE"
  BY DEF RequestType, StatusType
<1>5. i.requests \in Seq(RequestType) /\ i.request \in Nat /\ i.jobs \in Seq(Nat) /\ Len(i.requests) \in Nat
  BY <1>1 DEF ImageType
<1>6. i.request = 0 \/ Status(i) = "STOPPED"
  <2> SUFFICES ASSUME i.request # 0 PROVE Status(i) = "STOPPED"
    OBVIOUS
  <2>1. i.requests[i.request] \in RequestType
    BY <1>1, <1>5 DEF Base
  <2>2. Status(i) = i.requests[i.request].status
    BY DEF Status, NoRequest
  <2>3. Status(i) # "none"
    BY <2>1, <2>2 DEF RequestType, StatusType
  <2> QED BY <2>3, <1>1 DEF Base
<1>7. j = [e EXCEPT !.decoder = d, !.request = r, !.requests = rs]
  BY <1>2 DEF InitDecoder, NoRequest
<1> HIDE DEF e, d, j, new
<1>8. /\ rs \in Seq(RequestType) /\ r \in DOMAIN rs /\ DOMAIN i.requests \subseteq DOMAIN rs
      /\ \A x \in DOMAIN rs : rs[x].status = IF x = r /\ i.request = 0 THEN "INACTIVE" ELSE i.requests[x].status
  <2>1. CASE i.request = 0
    BY <2>1, <1>4, <1>5
  <2>2. CASE i.request # 0
    BY <2>2, <1>1, <1>5 DEF Base
  <2> QED BY <2>1, <2>2
<1>9. r \in Nat /\ r # 0 /\ (i.request # 0 => r = i.request) /\ r \in 0 .. Len(rs)
  BY <1>5, <1>8
<1>10. \A x \in DOMAIN rs : x # r => rs[x].status = "STOPPED"
  <2> SUFFICES ASSUME NEW x \in DOMAIN rs, x # r PROVE rs[x].status = "STOPPED"
    OBVIOUS
  <2>1. rs[x].status = i.requests[x].status
    BY <1>8
  <2>2. x \in DOMAIN i.requests /\ x # i.request
    BY <1>5, <1>4
  <2> QED BY <2>1, <2>2, <1>1 DEF Base
<1> DEFINE st == rs[r].status
<1>11. rs[r].status \in {"INACTIVE", "STOPPED"}
  BY <1>6, <1>8, <1>9 DEF Status, NoRequest
<1> HIDE DEF r, rs
<1>12. /\ j \in ImageType /\ j.request = r /\ j.requests = rs /\ j.jobs = i.jobs /\ j.hasSourceData = i.hasSourceData /\ j.file = i.file /\ j.decoder = d
  BY <1>2, <1>3, <1>7, <1>8, <1>9 DEF ImageType
<1>13. Base(j)
  BY <1>1, <1>3, <1>8, <1>9, <1>10, <1>12 DEF Base
<1>14. Status(j) = rs[r].status
  BY <1>9, <1>12 DEF Status, NoRequest
<1> QED BY <1>3, <1>11, <1>12, <1>13, <1>14 DEF Calm, j

(* DecodePool::RequestDecode: a request that is made pending gets its job  *)
(* in the same step.                                                       *)
LEMMA RequestCalms ==
  ASSUME NEW i, Calm(i), i.decoder.open
  PROVE  /\ Calm(PoolRequestDecode(i)) /\ PoolRequestDecode(i).hasSourceData = i.hasSourceData /\ PoolRequestDecode(i).file = i.file
         /\ PoolRequestDecode(i).request = i.request /\ PoolRequestDecode(i).decoder = i.decoder
<1> DEFINE r == i.request
           e == Expect(i, i.decoder.open)
           bytes == i.source - i.bytesDecoded
           rs == [i.requests EXCEPT ![r].bytesToDecode = bytes]
           want == [e EXCEPT !.requests[r].bytesToDecode = bytes]
           qs == [rs EXCEPT ![r].status = "PENDING"]
           jobs == Append(i.jobs, r)
           j == [want EXCEPT !.requests[r].status = "PENDING", !.jobs = Append(@, r)]
<1>1. i \in ImageType /\ Base(i)
  BY DEF Calm, Base
<1>2. /\ e \in ImageType /\ e.request = i.request /\ e.requests = i.requests /\ e.jobs = i.jobs /\ e.hasSourceData = i.hasSourceData
      /\ e.decoder = i.decoder /\ e.events = i.events /\ e.file = i.file /\ e.source = i.source /\ e.bytesDecoded = i.bytesDecoded
  BY <1>1 DEF ImageType, Expect
<1>3. i.requests \in Seq(RequestType) /\ r \in Nat /\ r \in DOMAIN i.requests /\ i.jobs \in Seq(Nat) /\ bytes \in Int
  BY <1>1 DEF ImageType, Base
<1>4. /\ rs \in Seq(RequestType) /\ Len(rs) = Len(i.requests) /\ DOMAIN rs = DOMAIN i.requests
      /\ \A x \in DOMAIN rs : rs[x].status = i.requests[x].status
  BY <1>3, BytesSet
<1>5. want = [e EXCEPT !.requests = rs]
  BY <1>2
<1>6. "PENDING" \in StatusType
  BY DEF StatusType
<1> HIDE DEF e, rs, want
<1>7. /\ qs \in Seq(RequestType) /\ Len(qs) = Len(rs) /\ DOMAIN qs = DOMAIN rs
      /\ \A x \in DOMAIN rs : qs[x].status = IF x = r THEN "PENDING" ELSE rs[x].status
  BY <1>3, <1>4, <1>6, StatusSet
<1>8. /\ jobs \in Seq(Nat) /\ Len(jobs) = Len(i.jobs) + 1 /\ jobs[Len(jobs)] = r
      /\ \A n \in DOMAIN jobs : jobs[n] = r \/ (n \in DOMAIN i.jobs /\ jobs[n] = i.jobs[n])
  BY <1>3
<1>9. /\ want \in ImageType /\ want.request = i.request /\ want.requests = rs /\ want.jobs = i.jobs /\ want.hasSourceData = i.hasSourceData
      /\ want.decoder = i.decoder /\ want.events = i.events /\ want.file = i.file /\ want.source = i.source /\ want.bytesDecoded = i.bytesDecoded
  BY <1>2, <1>4, <1>5 DEF ImageType
<1>10. Base(want) /\ Status(want) = Status(i)
  BY <1>1, <1>3, <1>4, <1>9 DEF Base, Status, NoRequest
<1>11. CASE Waiting(i)
  <2>1. PoolRequestDecode(i) = want
    BY <1>11 DEF PoolRequestDecode, want, e
  <2>2. (IsDecodeFinished(i) => IsDecodeFinished(want)) /\ (EndSent(i) => EndSent(want)) /\ (HasJob(i) => HasJob(want))
    BY <1>9 DEF IsDecodeFinished, DecoderHasSize, EndSent, HasJob
  <2> QED BY <2>1, <2>2, <1>9, <1>10 DEF Calm
<1>12. CASE ~ Waiting(i)
  <2>1. PoolRequestDecode(i) = j
    BY <1>12 DEF PoolRequestDecode, want, e
  <2>2. j = [want EXCEPT !.requests = qs, !.jobs = jobs]
    BY <1>9
  <2> HIDE DEF qs, jobs, j
  <2>3. /\ j \in ImageType /\ j.request = r /\ j.requests = qs /\ j.jobs = jobs /\ j.hasSourceData = i.hasSourceData /\ j.file = i.file
        /\ j.decoder = i.decoder
    BY <2>2, <1>7, <1>8, <1>9 DEF ImageType
  <2>4. Base(j)
    <3>1. \A x \in DOMAIN qs : x # r => qs[x].status = "STOPPED"
      BY <1>1, <1>4, <1>7 DEF Base
    <3>2. \A n \in DOMAIN jobs : jobs[n] \in DOMAIN qs
      BY <1>1, <1>3, <1>4, <1>7, <1>8 DEF Base
    <3> QED BY <3>1, <3>2, <2>3, <1>1, <1>4, <1>7 DEF Base
  <2>5. Status(j) = "PENDING"
    BY <2>3, <1>1, <1>3, <1>4, <1>7 DEF Status, Base, NoRequest
  <2>6. HasJob(j)
    <3>1. Len(jobs) \in DOMAIN jobs
      BY <1>3, <1>8
    <3> QED BY <3>1, <1>8, <2>3 DEF HasJob
  <2> QED BY <2>1, <2>3, <2>4, <2>5, <2>6 DEF Calm
<1> QED BY <1>11, <1>12

(* The types a calm image has; nothing is left when all was decoded.       *)
LEMMA ImageFields ==
  ASSUME NEW i, Calm(i)
  PROVE  /\ i \in ImageType /\ i.source \in Int /\ i.bytesDecoded \in Int /\ Left(i) \in Nat
         /\ i.hasSourceData /\ i.bytesDecoded = i.source => Left(i) = 0
  BY DEF Calm, Base, ImageType, Left

(* Setting mWantFullDecode keeps an image calm.                            *)
LEMMA WantedCalms ==
  ASSUME NEW i, Calm(i), NEW b \in BOOLEAN
  PROVE  Keeps(i, [i EXCEPT !.wantFullDecode = b])
<1> DEFINE j == [i EXCEPT !.wantFullDecode = b]
<1>1. i \in ImageType
  BY DEF Calm, Base
<1>2. /\ j \in ImageType /\ j.request = i.request /\ j.requests = i.requests /\ j.jobs = i.jobs /\ j.events = i.events
      /\ j.decoder = i.decoder /\ j.hasSourceData = i.hasSourceData /\ j.file = i.file /\ j.source = i.source /\ j.bytesDecoded = i.bytesDecoded
  BY <1>1 DEF ImageType
<1>3. (IsDecodeFinished(i) => IsDecodeFinished(j)) /\ (EndSent(i) => EndSent(j))
  BY <1>2 DEF IsDecodeFinished, DecoderHasSize, EndSent
<1> HIDE DEF j
<1>4. Keeps(i, j)
  BY <1>2, <1>3, CalmFrame DEF Keeps
<1> QED BY <1>4 DEF j

(* So does asking for a decode when a decoder is open,                     *)
LEMMA IfOpenCalms ==
  ASSUME NEW i, Calm(i)
  PROVE  Keeps(i, RequestIfOpen(i))
  BY RequestCalms DEF RequestIfOpen, Keeps

(* decoding a bit on the main thread,                                      *)
LEMMA ABitCalms ==
  ASSUME NEW i, Calm(i), NEW k \in Nat
  PROVE  Keeps(i, DecodeABitOf(i, k))
<1> DEFINE n == Smaller(k * ChunkBytes, Left(i))
           s == DecodeSome(i, n)
           c == CloseIfFinished(s, "Done")
<1>1. k * ChunkBytes \in Nat
  BY ChunkBytesAssumption
<1>2. n \in Nat /\ (i.hasSourceData /\ i.bytesDecoded = i.source => n = 0)
  BY <1>1, ImageFields DEF Smaller
<1> HIDE DEF n
<1>3. Keeps(i, s)
  BY <1>2, WriteCalms DEF DecodeSome, Keeps
<1> HIDE DEF s
<1>4. Keeps(i, c)
  BY <1>3, CalmIsAlmost, CloseCalms DEF Keeps
<1> HIDE DEF c
<1>5. DecodeABitOf(i, k) = GoOn(c)
  BY DEF DecodeABitOf, c, s, n
<1> QED BY <1>4, <1>5, IfOpenCalms DEF GoOn, Keeps

(* noting that a job has done its work,                                    *)
LEMMA NoteCalms ==
  ASSUME NEW i, Calm(i)
  PROVE  Keeps(i, NoteWork(i))
  BY CalmIsAlmost, CloseCalms DEF NoteWork, Keeps

(* asking for more from an open decoder,                                   *)
LEMMA OpenedCalms ==
  ASSUME NEW i, Calm(i), i.error \/ i.decoded \/ i.decoder.open, NEW some, NEW k \in Nat
  PROVE  Keeps(i, RequestOpened(i, some, k))
  BY ABitCalms, RequestCalms DEF RequestOpened, Keeps

(* RequestDecodeCore as a whole,                                           *)
LEMMA RequestCoreCalms ==
  ASSUME NEW i, Calm(i), NEW some, NEW k \in Nat
  PROVE  Keeps(i, RequestDecodeCore(i, some, k))
<1> DEFINE m == NoteWork(i)
           o == InitDecoder(m, TRUE)
           c == CloseIfFinished(o, "Done")
<1>1. Keeps(i, m)
  BY NoteCalms
<1> HIDE DEF m
<1>2. Keeps(i, RequestNoted(m, some, k))
  <2>1. CASE NothingToRequest(m)
    BY <1>1, <2>1 DEF RequestNoted
  <2>2. CASE ~ NothingToRequest(m) /\ m.decoder.open
    <3>1. RequestNoted(m, some, k) = RequestOpened(m, some, k)
      BY <2>2 DEF RequestNoted
    <3> QED BY <3>1, <1>1, <2>2, OpenedCalms DEF Keeps
  <2>3. CASE ~ NothingToRequest(m) /\ ~ m.decoder.open
    <3>1. Keeps(i, o) /\ o.decoder.open /\ o.decoder.full
      BY <1>1, <2>3, OpenCalms DEF Keeps
    <3> HIDE DEF o
    <3>2. Keeps(i, c) /\ (c.decoder.open \/ c.error \/ c.decoded)
      BY <3>1, CalmIsAlmost, CloseCalms DEF Keeps
    <3> HIDE DEF c
    <3>3. RequestNoted(m, some, k) = RequestOpened(c, some, k)
      BY <2>3 DEF RequestNoted, o, c
    <3> QED BY <3>2, <3>3, OpenedCalms DEF Keeps
  <2> QED BY <2>1, <2>2, <2>3
<1> QED BY <1>2 DEF RequestDecodeCore, m, Keeps

(* SyncDecode,                                                             *)
LEMMA SyncCalms ==
  ASSUME NEW i, Calm(i)
  PROVE  Keeps(i, SyncDecode(i))
<1> DEFINE m == NoteWork(i)
           o == IF m.decoder.open THEN m ELSE InitDecoder(m, TRUE)
           w == IF Left(o) = 0 THEN o ELSE WriteOnMain(o, Left(o))
           c == CloseIfFinished(w, "Done")
<1>1. Keeps(i, m)
  BY NoteCalms
<1> HIDE DEF m
<1>2. Keeps(i, o)
  BY <1>1, OpenCalms DEF Keeps
<1> HIDE DEF o
<1>3. Keeps(i, w)
  BY <1>2, ImageFields, WriteCalms DEF Keeps
<1> HIDE DEF w
<1>4. Keeps(i, c)
  BY <1>3, CalmIsAlmost, CloseCalms DEF Keeps
<1> HIDE DEF c
<1>5. Keeps(i, RequestIfOpen(c))
  BY <1>4, IfOpenCalms DEF Keeps
<1>6. SyncOpened(o) = RequestIfOpen(c)
  BY DEF SyncOpened, c, w
<1>7. SyncDecode(i) = IF m.error \/ m.decoded \/ m.bytesDecoded > m.source THEN m ELSE SyncOpened(o)
  BY DEF SyncDecode, SyncNoted, m, o
<1> QED BY <1>1, <1>5, <1>6, <1>7

(* FinishedSomeDecoding, which also settles an image that is almost calm,  *)
LEMMA FinishedCalms ==
  ASSUME NEW i, Almost(i)
  PROVE  Keeps(i, FinishedSomeDecoding(i))
<1> DEFINE c == CloseIfFinished(i, "Done")
           w == [c EXCEPT !.wantFullDecode = FALSE]
<1>1. Keeps(i, c)
  BY CloseCalms DEF Keeps
<1> HIDE DEF c
<1>2. Keeps(i, w)
  BY <1>1, WantedCalms DEF Keeps
<1> HIDE DEF w
<1>3. Keeps(i, StartFull(w))
  <2>1. Calm(w) /\ 0 \in Nat
    BY <1>2 DEF Keeps
  <2>2. Keeps(w, RequestDecodeCore(w, FALSE, 0)) /\ Keeps(w, SyncDecode(w))
    BY <2>1, RequestCoreCalms, SyncCalms
  <2>3. Keeps(w, StartFull(w))
    BY <2>2 DEF StartFull
  <2> QED BY <1>2, <2>3 DEF Keeps
<1>4. FinishedSomeDecoding(i) = IF FullWanted(i, c) THEN StartFull(w) ELSE c
  BY DEF FinishedSomeDecoding, RequestDecodeIfNeeded, c, w
<1> QED BY <1>1, <1>3, <1>4

(* DecodeUntilSizeAvailable,                                               *)
LEMMA UntilSizeCalms ==
  ASSUME NEW i, Calm(i)
  PROVE  Keeps(i, DecodeUntilSizeAvailable(i))
<1> DEFINE m == IF Status(i) = "WORK_DONE" THEN FinishedSomeDecoding(i) ELSE i
           r == ReadForSize(m)
<1>1. Keeps(i, m)
  BY CalmIsAlmost, FinishedCalms DEF Keeps
<1> HIDE DEF m
<1>2. Keeps(i, r)
  BY <1>1, ImageFields, WriteCalms DEF ReadForSize, Keeps
<1> HIDE DEF r
<1>3. Keeps(i, FinishedSomeDecoding(r))
  BY <1>2, CalmIsAlmost, FinishedCalms DEF Keeps
<1> QED BY <1>1, <1>3 DEF DecodeUntilSizeAvailable, UntilSize, m, r

(* AddSourceData while data may still come,                                *)
LEMMA AddCalms ==
  ASSUME NEW i, Calm(i), ~ i.hasSourceData, NEW n \in Nat
  PROVE  Keeps(i, AddSourceData(i, n))
<1> DEFINE k == i.source + n
           a == [i EXCEPT !.source = k]
           w == WriteOnMain(i, n)
<1>1. i \in ImageType /\ k \in Int
  BY ImageFields
<1> HIDE DEF k
<1>2. /\ a \in ImageType /\ a.request = i.request /\ a.requests = i.requests /\ a.jobs = i.jobs /\ a.events = i.events
      /\ a.decoder = i.decoder /\ a.hasSourceData = i.hasSourceData /\ a.file = i.file /\ a.bytesDecoded = i.bytesDecoded
  BY <1>1 DEF ImageType
<1>3. (IsDecodeFinished(i) => IsDecodeFinished(a)) /\ (EndSent(i) => EndSent(a))
  BY <1>2 DEF IsDecodeFinished, DecoderHasSize, EndSent
<1>4. Keeps(i, w)
  BY WriteCalms DEF Keeps
<1> HIDE DEF a, w
<1>5. Keeps(i, a)
  BY <1>2, <1>3, CalmFrame DEF Keeps
<1>6. Keeps(i, FinishedSomeDecoding(w))
  BY <1>4, CalmIsAlmost, FinishedCalms DEF Keeps
<1>7. i.decoder.open => Keeps(i, PoolRequestDecode(a))
  BY <1>2, <1>5, RequestCalms DEF Keeps
<1>8. AddSourceData(i, n) = IF i.error \/ i.decoded THEN i
                            ELSE IF ~ i.file.storing /\ i.hasSize THEN FinishedSomeDecoding(w)
                            ELSE IF i.decoder.open THEN PoolRequestDecode(a) ELSE a
  BY DEF AddSourceData, w, a, k
<1>9. Keeps(i, i)
  BY DEF Keeps
<1> QED BY <1>5, <1>6, <1>7, <1>8, <1>9

(* ImageDataComplete,                                                      *)
LEMMA CompleteCalms ==
  ASSUME NEW i, Calm(i)
  PROVE  Keeps(i, ImageDataComplete(i))
<1> DEFINE s == IF ~ i.file.storing /\ i.decoder.open THEN ShutdownDecoder(i, "Done") ELSE i
<1>1. Keeps(i, s)
  BY ShutdownStops, StoppedIsCalm DEF Keeps, Calm
<1> HIDE DEF s
<1> QED BY <1>1, IfOpenCalms DEF ImageDataComplete, s, Keeps

(* and ForceDiscard, which drops the request of a closed decoder.          *)
LEMMA DiscardCalms ==
  ASSUME NEW i, Calm(i), ~ i.decoder.open
  PROVE  Keeps(i, ForceDiscard(i))
<1> DEFINE e == Expect(i, ~ i.decoder.open)
           z == [e EXCEPT !.decoded = FALSE, !.shown = 0]
           j == ForceDiscard(i)
<1>1. i \in ImageType /\ Base(i)
  BY DEF Calm, Base
<1>2. /\ e \in ImageType /\ e.request = i.request /\ e.requests = i.requests /\ e.jobs = i.jobs /\ e.hasSourceData = i.hasSourceData /\ e.file = i.file
      /\ e.decoder = i.decoder
  BY <1>1 DEF ImageType, Expect
<1>3. PICK zero \in Nat : zero = 0
  OBVIOUS
<1>4. zero \in Int /\ zero \in Nat
  BY <1>3
<1>5. j = [e EXCEPT !.decoded = FALSE, !.shown = zero, !.request = zero]
  BY <1>3 DEF ForceDiscard, NoRequest
<1> HIDE DEF e, j
<1>6. /\ j \in ImageType /\ j.request = zero /\ j.requests = i.requests /\ j.jobs = i.jobs /\ j.hasSourceData = i.hasSourceData /\ j.file = i.file
      /\ j.decoder = i.decoder
  BY <1>2, <1>4, <1>5 DEF ImageType
<1>7. \A r \in DOMAIN i.requests : i.requests[r].status = "STOPPED"
  BY <1>1, ClosedStops
<1>8. Status(j) = "none"
  BY <1>3, <1>6 DEF Status, NoRequest
<1>9. 0 \in 0 .. Len(j.requests)
  BY <1>6 DEF ImageType
<1>10. Base(j)
  BY <1>1, <1>3, <1>6, <1>7, <1>8, <1>9 DEF Base
<1>11. Keeps(i, j)
  BY <1>6, <1>8, <1>10 DEF Keeps, Calm
<1> QED BY <1>11 DEF j

-----------------------------------------------------------------------------
FullOpen(i) == i.decoder.open /\ i.decoder.full

SizeOpen(i) == i.decoder.open /\ ~ i.decoder.full

Parts(i, s) ==
  /\ i.assert
  /\ i.decoded => ~ i.decoder.open /\ i.hasSourceData /\ i.shown = i.file.size
  /\ FullOpen(i) => i.hasSize
  /\ SizeOpen(i) => ~ i.hasSize
  /\ i.hasBeenDecoded => i.hasSize
  /\ ~ i.decoder.open => i.hasSize \/ i.error
  /\ i.error => ~ i.decoder.open
  /\ i.pendingError => i.error \/ (i.decoder.open /\ i.decoder.failed)
  /\ \A n \in DOMAIN i.events : i.events[n].kind = "error" => i.pendingError
  /\ ~ i.decoder.open /\ ~ i.error => i.bytesDecoded = 0
  /\ i.source <= s
  /\ i.hasSourceData => s = i.file.size
  /\ ~ i.file.storing /\ SizeOpen(i) => i.wantFullDecode
  /\ ~ i.error /\ (i.file.storing \/ (~ i.decoded /\ ~ FullOpen(i))) => i.source = s

(* The full decoder of a file that is not stored has got every byte sent.  *)
Fresh(i, s) == ~ i.file.storing /\ FullOpen(i) => i.bytesDecoded = s

Sound(i, s) == Parts(i, s) /\ Fresh(i, s)

(* A file that is not stored has a decoder until all is over.              *)
Fed(i) == ~ i.file.storing /\ ~ i.decoder.open => i.error \/ i.decoded

Good(i, s) == Calm(i) /\ Sound(i, s) /\ Fed(i)

(* Two images that differ in requests, jobs and wantFullDecode at most.    *)
Same(i, j) ==
  /\ j.file = i.file /\ j.hasSize = i.hasSize /\ j.hasSourceData = i.hasSourceData /\ j.pendingError = i.pendingError
  /\ j.events = i.events /\ j.error = i.error /\ j.bytesDecoded = i.bytesDecoded
  /\ j.source = i.source /\ j.decoder = i.decoder /\ (j.decoded <=> i.decoded)
  /\ (j.hasBeenDecoded <=> i.hasBeenDecoded) /\ j.shown = i.shown /\ (i.assert => j.assert)

(* Soundness depends on no request and no job.                             *)
LEMMA SameSound ==
  ASSUME NEW i, NEW j, NEW s, Same(i, j), j.wantFullDecode = i.wantFullDecode
  PROVE  (Parts(i, s) => Parts(j, s)) /\ (Sound(i, s) => Sound(j, s)) /\ (Fed(i) => Fed(j))
  BY DEF Same, Parts, Sound, Fresh, Fed, FullOpen, SizeOpen

(* What ShutdownDecoder makes of each field: done when a full decoder      *)
(* without an error has the size, bad when it has failed or ends without   *)
(* what it was for.                                                        *)
LEMMA ShutdownFields ==
  ASSUME NEW i, Base(i), NEW intent
  PROVE  LET j == ShutdownDecoder(i, intent)
             done == i.decoder.full /\ ~ i.decoder.failed /\ DecoderHasSize(i) /\ ~ i.error
             bad == i.decoder.failed \/ (intent = "Done" /\ IF i.decoder.full THEN ~ (i.decoded \/ done) ELSE ~ i.hasSize)
         IN  /\ j.file = i.file /\ j.hasSize = i.hasSize /\ j.hasSourceData = i.hasSourceData /\ j.pendingError = i.pendingError
             /\ j.wantFullDecode = i.wantFullDecode /\ j.events = i.events
             /\ i.assert /\ i.decoder.open => j.assert
             /\ ~ j.decoder.open /\ (j.decoded <=> i.decoded \/ done) /\ (j.hasBeenDecoded <=> i.hasBeenDecoded \/ done)
             /\ done => j.shown = i.bytesDecoded
             /\ ~ i.decoder.full => j.shown = i.shown
             /\ bad => j.error /\ j.bytesDecoded = i.bytesDecoded /\ j.source = i.source
             /\ ~ bad => /\ j.error = i.error /\ j.bytesDecoded = 0
                         /\ j.source = IF i.decoder.full /\ ~ i.file.storing THEN 0 ELSE i.source
<1> DEFINE f == FinishDecoder(Expect(i, i.decoder.open))
           s == StopDecoding(f)
           j == ShutdownDecoder(i, intent)
           finish == i.decoder.full /\ ~ i.decoder.failed /\ DecoderHasSize(i)
           done == finish /\ ~ i.error
           bad == i.decoder.failed \/ (intent = "Done" /\ IF i.decoder.full THEN ~ (i.decoded \/ done) ELSE ~ i.hasSize)
<1>1. i \in ImageType /\ i.request \in 0 .. Len(i.requests)
  BY DEF Base
<1>2. /\ f \in ImageType /\ ~ f.decoder.open
      /\ f.file = i.file /\ f.hasSize = i.hasSize /\ f.hasSourceData = i.hasSourceData /\ f.pendingError = i.pendingError
      /\ f.wantFullDecode = i.wantFullDecode /\ f.events = i.events /\ f.error = i.error /\ f.bytesDecoded = i.bytesDecoded
      /\ f.source = i.source /\ f.request = i.request /\ f.requests = i.requests
      /\ i.assert /\ i.decoder.open => f.assert
      /\ f.decoded <=> i.decoded \/ done
      /\ f.hasBeenDecoded <=> i.hasBeenDecoded \/ done
      /\ f.shown = IF finish THEN i.bytesDecoded ELSE i.shown
  BY <1>1, FinishFields
<1> HIDE DEF f
<1>3. /\ s \in ImageType
      /\ s.file = f.file /\ s.hasSize = f.hasSize /\ s.hasSourceData = f.hasSourceData /\ s.pendingError = f.pendingError
      /\ s.wantFullDecode = f.wantFullDecode /\ s.events = f.events /\ s.error = f.error /\ s.bytesDecoded = f.bytesDecoded
      /\ s.source = f.source /\ s.decoder = f.decoder /\ s.decoded = f.decoded
      /\ s.hasBeenDecoded = f.hasBeenDecoded /\ s.shown = f.shown /\ s.assert = f.assert
  BY <1>1, <1>2, StopFields
<1> HIDE DEF s
<1>4. j = Closed(s, i.decoder.full, i.decoder.failed, intent)
  BY DEF ShutdownDecoder, s, f
<1>5. bad <=> i.decoder.failed \/ (intent = "Done" /\ IF i.decoder.full THEN ~ s.decoded ELSE ~ s.hasSize)
  BY <1>2, <1>3
<1>6. /\ bad => j = [s EXCEPT !.error = TRUE]
      /\ ~ bad => j = [s EXCEPT !.bytesDecoded = 0, !.source = IF i.decoder.full /\ ~ s.file.storing THEN 0 ELSE @]
  BY <1>4, <1>5 DEF Closed
<1> HIDE DEF j, bad, done, finish
<1>a. s \in ImageType
  BY <1>3
<1>7. CASE bad
  <2>1. /\ j.file = s.file /\ j.hasSize = s.hasSize /\ j.hasSourceData = s.hasSourceData /\ j.pendingError = s.pendingError
        /\ j.wantFullDecode = s.wantFullDecode /\ j.events = s.events /\ j.bytesDecoded = s.bytesDecoded
        /\ j.source = s.source /\ j.decoder = s.decoder /\ j.decoded = s.decoded
        /\ j.hasBeenDecoded = s.hasBeenDecoded /\ j.shown = s.shown /\ j.assert = s.assert /\ j.error
    BY <1>6, <1>7, <1>a DEF ImageType
  <2> QED BY <2>1, <1>2, <1>3, <1>7 DEF j, bad, done, finish
<1>8. CASE ~ bad
  <2>1. /\ j.file = s.file /\ j.hasSize = s.hasSize /\ j.hasSourceData = s.hasSourceData /\ j.pendingError = s.pendingError
        /\ j.wantFullDecode = s.wantFullDecode /\ j.events = s.events /\ j.bytesDecoded = 0
        /\ j.source = (IF i.decoder.full /\ ~ s.file.storing THEN 0 ELSE s.source) /\ j.decoder = s.decoder /\ j.decoded = s.decoded
        /\ j.hasBeenDecoded = s.hasBeenDecoded /\ j.shown = s.shown /\ j.assert = s.assert /\ j.error = s.error
    BY <1>6, <1>8, <1>a DEF ImageType
  <2> QED BY <2>1, <1>2, <1>3, <1>8 DEF j, bad, done, finish
<1> QED BY <1>7, <1>8

(* Closing a finished decoder keeps an image sound: a full decoder         *)
(* finishes only over the whole file.                                      *)
LEMMA CloseSound ==
  ASSUME NEW i, Almost(i), NEW s \in Nat, Sound(i, s)
  PROVE  LET j == CloseIfFinished(i, "Done")
         IN  /\ Calm(j) /\ Sound(j, s) /\ j.file = i.file /\ j.hasSourceData = i.hasSourceData
             /\ Fed(i) /\ ~ SizeOpen(i) => Fed(j)
             /\ SizeOpen(j) => SizeOpen(i)
             /\ j.decoder.open => j.decoder = i.decoder /\ i.decoder.open
             /\ FullOpen(i) /\ ~ j.decoder.open => j.error \/ j.decoded
             /\ ~ i.decoder.open => j = i
             /\ SizeOpen(i) /\ ~ j.decoder.open => ~ j.decoded /\ (~ i.file.storing => j.wantFullDecode)
<1> DEFINE h == [i EXCEPT !.hasSize = @ \/ DecoderHasSize(i)]
           j == CloseIfFinished(i, "Done")
<1>1. i \in ImageType
  BY DEF Almost, Base
<1>2. Calm(j) /\ j.hasSourceData = i.hasSourceData
  BY CloseCalms
<1>3. /\ h \in ImageType /\ h.request = i.request /\ h.requests = i.requests /\ h.jobs = i.jobs /\ h.file = i.file
      /\ h.decoder = i.decoder /\ h.hasSourceData = i.hasSourceData /\ (h.hasSize <=> i.hasSize \/ DecoderHasSize(i))
      /\ h.pendingError = i.pendingError /\ h.events = i.events /\ h.error = i.error /\ h.bytesDecoded = i.bytesDecoded
      /\ h.source = i.source /\ h.decoded = i.decoded /\ h.hasBeenDecoded = i.hasBeenDecoded /\ h.shown = i.shown
      /\ h.assert = i.assert /\ h.wantFullDecode = i.wantFullDecode
  BY <1>1 DEF ImageType
<1>4. (IsDecodeFinished(i) <=> IsDecodeFinished(h)) /\ (DecoderHasSize(i) <=> DecoderHasSize(h))
  BY <1>3 DEF IsDecodeFinished, DecoderHasSize
<1>5. Base(h)
  BY <1>3, BaseFrame DEF Almost
<1> HIDE DEF h
<1>6. CASE ~ i.decoder.open
  <2>1. j = i
    BY <1>6 DEF CloseIfFinished
  <2> QED BY <2>1, <1>2, <1>6 DEF FullOpen, SizeOpen
<1>7. CASE i.decoder.open /\ ~ IsDecodeFinished(h)
  <2>1. j = h
    BY <1>7 DEF CloseIfFinished, CloseSized, h
  <2>2. Sound(h, s)
    BY <1>3, <1>4, <1>7 DEF Sound, Parts, Fresh, FullOpen, SizeOpen, IsDecodeFinished
  <2> QED BY <2>1, <2>2, <1>2, <1>3, <1>7 DEF FullOpen, SizeOpen, Fed
<1>8. CASE i.decoder.open /\ IsDecodeFinished(h)
  <2> DEFINE done == h.decoder.full /\ ~ h.decoder.failed /\ DecoderHasSize(h) /\ ~ h.error
             bad == h.decoder.failed \/ IF h.decoder.full THEN ~ (h.decoded \/ done) ELSE ~ h.hasSize
  <2>1. j = ShutdownDecoder(h, "Done")
    BY <1>8 DEF CloseIfFinished, CloseSized, h
  <2>2. /\ j.file = h.file /\ j.hasSize = h.hasSize /\ j.hasSourceData = h.hasSourceData /\ j.pendingError = h.pendingError
        /\ j.wantFullDecode = h.wantFullDecode /\ j.events = h.events
        /\ h.assert /\ h.decoder.open => j.assert
        /\ ~ j.decoder.open /\ (j.decoded <=> h.decoded \/ done) /\ (j.hasBeenDecoded <=> h.hasBeenDecoded \/ done)
        /\ done => j.shown = h.bytesDecoded
        /\ ~ h.decoder.full => j.shown = h.shown
        /\ bad => j.error /\ j.bytesDecoded = h.bytesDecoded /\ j.source = h.source
        /\ ~ bad => /\ j.error = h.error /\ j.bytesDecoded = 0
                    /\ j.source = IF h.decoder.full /\ ~ h.file.storing THEN 0 ELSE h.source
    BY <2>1, <1>5, ShutdownFields
  <2> HIDE DEF j
  <2>3. ~ h.error /\ ~ h.decoded /\ h.assert
    BY <1>3, <1>8 DEF Sound, Parts
  <2>4. CASE h.decoder.full
    <3>1. h.hasSourceData /\ h.bytesDecoded = h.source
      BY <1>8, <2>4 DEF IsDecodeFinished
    <3>2. h.source = s \/ h.bytesDecoded = s
      BY <1>3, <1>8, <2>3, <2>4 DEF Sound, Parts, Fresh, FullOpen
    <3>3. h.bytesDecoded = h.file.size /\ s = h.file.size /\ h.source = s
      BY <3>1, <3>2, <1>3 DEF Sound, Parts
    <3>4. bad <=> ~ done
      BY <2>3, <2>4
    <3>5. Sound(j, s)
      BY <2>2, <2>3, <2>4, <3>1, <3>3, <3>4, <1>3, <1>8 DEF Sound, Parts, Fresh, FullOpen, SizeOpen
    <3>6. j.error \/ j.decoded
      BY <3>4, <2>2
    <3>7. ~ j.decoder.open /\ j.file = i.file /\ FullOpen(i)
      BY <2>2, <2>4, <1>3, <1>8 DEF FullOpen
    <3> HIDE DEF done, bad
    <3> USE DEF j
    <3> QED BY <3>5, <3>6, <3>7, <1>2 DEF FullOpen, SizeOpen, Fed
  <2>5. CASE ~ h.decoder.full
    <3>1. SizeOpen(i) /\ ~ done /\ i.source = s
      BY <1>3, <1>8, <2>3, <2>5 DEF SizeOpen, FullOpen, Sound, Parts
    <3>2. ~ bad => h.hasSize
      BY <2>5
    <3>3. Sound(j, s)
      BY <2>2, <2>3, <2>5, <3>1, <3>2, <1>3, <1>8 DEF Sound, Parts, Fresh, FullOpen, SizeOpen
    <3> QED BY <3>1, <3>3, <2>2, <2>3, <1>2, <1>3, <1>8 DEF FullOpen, SizeOpen, Fed, Sound, Parts, j
  <2> QED BY <2>4, <2>5
<1> QED BY <1>6, <1>7, <1>8

(* DoError of a failed decoder shows nothing as decoded.                   *)
LEMMA ErrorSound ==
  ASSUME NEW i, Calm(i), NEW s \in Nat, Parts(i, s), i.error \/ (i.decoder.open /\ i.decoder.failed)
  PROVE  LET j == DoError(i)
         IN  Sound(j, s) /\ Fed(j) /\ ~ j.decoder.open /\ j.error /\ j.file = i.file
<1> DEFINE h == [i EXCEPT !.hasSize = @ \/ DecoderHasSize(i)]
           c == CloseIfFinished(i, "Error")
           j == [c EXCEPT !.error = TRUE]
<1>1. i \in ImageType
  BY DEF Calm, Base
<1>2. CASE i.error
  BY <1>2 DEF DoError, Sound, Fresh, Parts, Fed, FullOpen
<1>3. CASE ~ i.error
  <2>1. i.decoder.open /\ i.decoder.failed
    BY <1>3
  <2>2. /\ h \in ImageType /\ h.request = i.request /\ h.requests = i.requests /\ h.jobs = i.jobs /\ h.file = i.file
        /\ h.decoder = i.decoder /\ h.hasSourceData = i.hasSourceData /\ (h.hasSize <=> i.hasSize \/ DecoderHasSize(i))
        /\ h.pendingError = i.pendingError /\ h.events = i.events /\ h.error = i.error /\ h.bytesDecoded = i.bytesDecoded
        /\ h.source = i.source /\ h.decoded = i.decoded /\ h.hasBeenDecoded = i.hasBeenDecoded /\ h.shown = i.shown
        /\ h.assert = i.assert /\ h.wantFullDecode = i.wantFullDecode
    BY <1>1 DEF ImageType
  <2>3. Base(h)
    BY <2>2, BaseFrame DEF Calm
  <2>4. c = ShutdownDecoder(h, "Error")
    BY <2>1 DEF CloseIfFinished, CloseSized
  <2> HIDE DEF h
  <2>5. /\ c.file = h.file /\ c.hasSize = h.hasSize /\ c.hasSourceData = h.hasSourceData /\ c.pendingError = h.pendingError
        /\ c.wantFullDecode = h.wantFullDecode /\ c.events = h.events
        /\ h.assert /\ h.decoder.open => c.assert
        /\ ~ c.decoder.open /\ (c.decoded <=> h.decoded) /\ (c.hasBeenDecoded <=> h.hasBeenDecoded)
        /\ c.error /\ c.bytesDecoded = h.bytesDecoded /\ c.source = h.source
    BY <2>1, <2>2, <2>3, <2>4, ShutdownFields
  <2>6. c \in ImageType
    BY CalmIsAlmost, CloseCalms DEF Calm, Base
  <2>7. DoError(i) = j
    BY <1>3 DEF DoError
  <2> HIDE DEF c
  <2>8. Same(c, j) /\ j.wantFullDecode = c.wantFullDecode /\ j.error
    BY <2>5, <2>6 DEF ImageType, Same
  <2>9. Sound(c, s) /\ Fed(c)
    BY <2>1, <2>2, <2>5 DEF Sound, Parts, Fresh, Fed, FullOpen, SizeOpen
  <2>10. Sound(j, s) /\ Fed(j)
    BY <2>8, <2>9, SameSound
  <2> QED BY <2>2, <2>5, <2>7, <2>8, <2>10 DEF Same
<1> QED BY <1>2, <1>3

(* Writing to an open decoder keeps an image sound; a full decode of a     *)
(* file that is not stored must get every byte that came.                  *)
LEMMA WriteSound ==
  ASSUME NEW i, Calm(i), NEW s \in Nat, Parts(i, s), i.decoder.open, NEW n \in Nat,
         i.hasSourceData /\ i.bytesDecoded = i.source => n = 0,
         ~ i.file.storing /\ FullOpen(i) => i.bytesDecoded + n = s
  PROVE  LET j == WriteOnMain(i, n)
         IN  Good(j, s) /\ j.file = i.file /\ (SizeOpen(j) => SizeOpen(i)) /\ (j.decoder.open \/ j.error)
<1> DEFINE f == [i EXCEPT !.decoder.failed = TRUE]
           e == Expect(i, i.decoder.open)
           k == i.bytesDecoded + n
           j == WriteOnMain(i, n)
<1>1. i \in ImageType /\ i.bytesDecoded \in Int
  BY DEF Calm, Base, ImageType
<1>2. Calm(j) /\ j.hasSourceData = i.hasSourceData
  BY WriteCalms
<1>3. CASE Fails(i, n)
  <2>1. /\ f \in ImageType /\ f.request = i.request /\ f.requests = i.requests /\ f.jobs = i.jobs /\ f.events = i.events
        /\ f.decoder.open = i.decoder.open /\ f.decoder.full = i.decoder.full /\ f.decoder.failed
        /\ f.hasSourceData = i.hasSourceData /\ f.file = i.file /\ f.source = i.source /\ f.bytesDecoded = i.bytesDecoded
        /\ f.hasSize = i.hasSize /\ f.pendingError = i.pendingError /\ f.error = i.error /\ f.decoded = i.decoded
        /\ f.hasBeenDecoded = i.hasBeenDecoded /\ f.shown = i.shown /\ f.assert = i.assert /\ f.wantFullDecode = i.wantFullDecode
    BY <1>1 DEF ImageType
  <2>2. j = DoError(f)
    BY <1>3 DEF WriteOnMain
  <2> HIDE DEF f
  <2>3. (IsDecodeFinished(i) => IsDecodeFinished(f)) /\ (EndSent(i) => EndSent(f))
    BY <2>1 DEF IsDecodeFinished, DecoderHasSize, EndSent
  <2>4. Calm(f)
    BY <2>1, <2>3, CalmFrame
  <2>5. Parts(f, s) /\ f.decoder.open
    BY <2>1 DEF Parts, FullOpen, SizeOpen
  <2>6. Sound(j, s) /\ Fed(j) /\ ~ j.decoder.open /\ j.error /\ j.file = f.file
    BY <2>1, <2>2, <2>4, <2>5, ErrorSound
  <2>7. j.file = i.file
    BY <2>1, <2>6
  <2> HIDE DEF j
  <2>8. Good(j, s) /\ ~ SizeOpen(j)
    BY <2>6, <1>2 DEF Good, SizeOpen
  <2> QED BY <2>6, <2>7, <2>8 DEF j
<1>4. CASE ~ Fails(i, n)
  <2>1. e \in ImageType /\ Same(i, e) /\ e.wantFullDecode = i.wantFullDecode
    BY <1>1 DEF ImageType, Expect, Same
  <2>2. j = [e EXCEPT !.bytesDecoded = k]
    BY <1>4, <2>1 DEF WriteOnMain, Same
  <2> HIDE DEF e, j
  <2>3. /\ j.events = e.events /\ j.decoder = e.decoder /\ j.hasSourceData = e.hasSourceData /\ j.file = e.file
        /\ j.source = e.source /\ j.bytesDecoded = k
        /\ j.hasSize = e.hasSize /\ j.pendingError = e.pendingError /\ j.error = e.error /\ j.decoded = e.decoded
        /\ j.hasBeenDecoded = e.hasBeenDecoded /\ j.shown = e.shown /\ j.assert = e.assert /\ j.wantFullDecode = e.wantFullDecode
    BY <2>1, <2>2 DEF ImageType
  <2>4. Parts(e, s) /\ e.decoder.open
    BY <2>1, SameSound DEF Same
  <2>5. Sound(j, s) /\ Fed(j)
    BY <2>1, <2>3, <2>4 DEF Sound, Parts, Fresh, Fed, FullOpen, SizeOpen, Same
  <2>6. j.file = i.file /\ j.decoder = i.decoder
    BY <2>1, <2>3 DEF Same
  <2>7. Good(j, s) /\ (SizeOpen(j) => SizeOpen(i)) /\ j.decoder.open
    BY <2>5, <2>6, <1>2 DEF Good, SizeOpen, j
  <2> QED BY <2>6, <2>7 DEF j
<1> QED BY <1>3, <1>4

(* DecodePool::RequestDecode changes only the request and the jobs.        *)
LEMMA RequestSame ==
  ASSUME NEW i, i \in ImageType, i.decoder.open
  PROVE  Same(i, PoolRequestDecode(i)) /\ PoolRequestDecode(i).wantFullDecode = i.wantFullDecode
<1> DEFINE r == i.request
           e == Expect(i, i.decoder.open)
           bytes == i.source - i.bytesDecoded
           rs == [i.requests EXCEPT ![r].bytesToDecode = bytes]
           w == [e EXCEPT !.requests = rs]
           qs == [rs EXCEPT ![r].status = "PENDING"]
           jobs == Append(i.jobs, r)
           k == [w EXCEPT !.requests = qs, !.jobs = jobs]
           j == PoolRequestDecode(i)
<1>2. /\ e \in ImageType /\ Same(i, e) /\ e.wantFullDecode = i.wantFullDecode /\ e.requests = i.requests /\ e.jobs = i.jobs
  BY DEF ImageType, Expect, Same
<1>3. [e EXCEPT !.requests[r].bytesToDecode = bytes] = w
  BY <1>2
<1> HIDE DEF e, rs
<1>4. Same(i, w) /\ w.wantFullDecode = i.wantFullDecode /\ w.requests = rs /\ w.jobs = i.jobs
  BY <1>2 DEF ImageType, Same
<1>5. Same(w, k) /\ k.wantFullDecode = w.wantFullDecode
  BY <1>2 DEF ImageType, Same
<1>6. [w EXCEPT !.requests[r].status = "PENDING", !.jobs = Append(@, r)] = k
  BY <1>4
<1>7. j = w \/ j = k
  BY <1>3, <1>6 DEF PoolRequestDecode, e
<1> HIDE DEF w, k, j
<1>8. Same(i, j) /\ j.wantFullDecode = i.wantFullDecode
  BY <1>4, <1>5, <1>7 DEF Same
<1> QED BY <1>8 DEF j

(* It therefore keeps an image sound.                                      *)
LEMMA RequestSound ==
  ASSUME NEW i, Calm(i), i.decoder.open, NEW s
  PROVE  LET j == PoolRequestDecode(i)
         IN  /\ (Sound(i, s) => Sound(j, s)) /\ (Fed(i) => Fed(j)) /\ j.file = i.file /\ j.decoder = i.decoder
<1> DEFINE j == PoolRequestDecode(i)
<1>1. Same(i, j) /\ j.wantFullDecode = i.wantFullDecode
  BY RequestSame DEF Calm, Base
<1> HIDE DEF j
<1>2. (Sound(i, s) => Sound(j, s)) /\ (Fed(i) => Fed(j)) /\ j.file = i.file /\ j.decoder = i.decoder
  BY <1>1, SameSound DEF Same
<1> QED BY <1>2 DEF j

(* A full decoder is opened only over a picture that is not decoded and    *)
(* has its size, from the first byte of what is stored.                    *)
LEMMA OpenParts ==
  ASSUME NEW i, Calm(i), ~ i.decoder.open, ~ i.error, ~ i.decoded, NEW s \in Nat, Sound(i, s)
  PROVE  LET j == InitDecoder(i, TRUE)
         IN  /\ Calm(j) /\ Parts(j, s) /\ FullOpen(j) /\ j.file = i.file /\ j.hasSourceData = i.hasSourceData
             /\ j.bytesDecoded = 0 /\ j.source = s
<1> DEFINE ok == ~ i.decoder.open /\ ~ i.decoded /\ (TRUE => i.hasSize)
           e == Expect(i, ok)
           new == [status |-> "INACTIVE", bytesToDecode |-> 0]
           r == IF i.request = 0 THEN Len(i.requests) + 1 ELSE i.request
           rs == IF i.request = 0 THEN Append(i.requests, new) ELSE i.requests
           d == Open(TRUE)
           j == InitDecoder(i, TRUE)
<1>1. i \in ImageType
  BY DEF Calm, Base
<1>2. Calm(j) /\ j.decoder.open /\ j.decoder.full /\ j.hasSourceData = i.hasSourceData
  BY OpenCalms
<1>3. i.hasSize /\ i.bytesDecoded = 0 /\ i.source = s /\ i.assert
  BY DEF Sound, Parts, FullOpen
<1>4. e \in ImageType /\ Same(i, e) /\ e.wantFullDecode = i.wantFullDecode /\ e.request = i.request /\ e.requests = i.requests
  BY <1>1, <1>3 DEF ImageType, Expect, Same
<1>5. j = [e EXCEPT !.decoder = d, !.request = r, !.requests = rs]
  BY <1>4 DEF InitDecoder, NoRequest
<1> HIDE DEF e, d, r, rs, j
<1>6. /\ j.file = e.file /\ j.hasSize = e.hasSize /\ j.hasSourceData = e.hasSourceData /\ j.pendingError = e.pendingError
      /\ j.events = e.events /\ j.error = e.error /\ j.bytesDecoded = e.bytesDecoded
      /\ j.source = e.source /\ j.decoded = e.decoded
      /\ j.hasBeenDecoded = e.hasBeenDecoded /\ j.shown = e.shown /\ j.assert = e.assert /\ j.wantFullDecode = e.wantFullDecode
  BY <1>4, <1>5 DEF ImageType
<1>7. Parts(j, s)
  BY <1>2, <1>3, <1>4, <1>6 DEF Sound, Parts, FullOpen, SizeOpen, Same
<1>8. j.file = i.file /\ j.bytesDecoded = 0 /\ j.source = s /\ FullOpen(j)
  BY <1>2, <1>3, <1>4, <1>6 DEF Same, FullOpen
<1> QED BY <1>2, <1>7, <1>8 DEF j

(* Setting mWantFullDecode keeps an image sound, unless it is cleared      *)
(* under the size decoder of a file that is not stored.                    *)
LEMMA WantedSound ==
  ASSUME NEW i, Calm(i), NEW s, Sound(i, s), NEW b \in BOOLEAN, SizeOpen(i) /\ ~ i.file.storing => b
  PROVE  LET j == [i EXCEPT !.wantFullDecode = b]
         IN  Sound(j, s) /\ (Fed(i) => Fed(j)) /\ Same(i, j)
<1> DEFINE j == [i EXCEPT !.wantFullDecode = b]
<1>1. i \in ImageType
  BY DEF Calm, Base
<1>2. Same(i, j) /\ j.wantFullDecode = b
  BY <1>1 DEF ImageType, Same
<1> HIDE DEF j
<1>3. Sound(j, s) /\ (Fed(i) => Fed(j))
  BY <1>2 DEF Same, Sound, Parts, Fresh, Fed, FullOpen, SizeOpen
<1> QED BY <1>2, <1>3 DEF j

(* Asking for a decode keeps an image good.                                *)
LEMMA IfOpenGood ==
  ASSUME NEW i, NEW s, Good(i, s)
  PROVE  Good(RequestIfOpen(i), s) /\ (SizeOpen(RequestIfOpen(i)) => SizeOpen(i)) /\ RequestIfOpen(i).file = i.file
  BY RequestCalms, RequestSound DEF RequestIfOpen, Good, SizeOpen

(* Noting a job that has done its work, when no size decoder is open.      *)
LEMMA NoteGood ==
  ASSUME NEW i, NEW s \in Nat, Calm(i), Sound(i, s), ~ SizeOpen(i)
  PROVE  LET j == NoteWork(i)
         IN  /\ Calm(j) /\ Sound(j, s) /\ ~ SizeOpen(j) /\ (Fed(i) => Fed(j)) /\ j.file = i.file
             /\ ~ i.decoder.open => j = i
             /\ FullOpen(i) /\ ~ j.decoder.open => j.error \/ j.decoded
  BY CalmIsAlmost, CloseSound DEF NoteWork, FullOpen

(* Closing a finished full decoder.                                        *)
LEMMA FullClosed ==
  ASSUME NEW i, NEW s \in Nat, Good(i, s), ~ SizeOpen(i)
  PROVE  LET j == CloseIfFinished(i, "Done")
         IN  Good(j, s) /\ ~ SizeOpen(j) /\ j.file = i.file
  BY CalmIsAlmost, CloseSound DEF Good

(* Decoding a bit: of a file that is not stored nothing is left to decode. *)
LEMMA ABitGood ==
  ASSUME NEW i, NEW s \in Nat, Good(i, s), ~ SizeOpen(i), NEW k \in Nat
  PROVE  Good(DecodeABitOf(i, k), s) /\ ~ SizeOpen(DecodeABitOf(i, k))
<1> DEFINE n == Smaller(k * ChunkBytes, Left(i))
           d == DecodeSome(i, n)
           c == CloseIfFinished(d, "Done")
<1>1. k * ChunkBytes \in Nat
  BY ChunkBytesAssumption
<1>2. Calm(i) /\ Sound(i, s) /\ Parts(i, s) /\ i.source \in Int /\ i.bytesDecoded \in Int
  BY ImageFields DEF Good, Sound
<1>3. n \in Nat /\ n <= Left(i) /\ (i.hasSourceData /\ i.bytesDecoded = i.source => n = 0)
  BY <1>1, <1>2, ImageFields DEF Smaller
<1>4. ~ i.file.storing /\ FullOpen(i) => n = 0
  <2> SUFFICES ASSUME ~ i.file.storing, FullOpen(i) PROVE n = 0
    OBVIOUS
  <2>1. i.bytesDecoded = s /\ i.source <= s
    BY <1>2 DEF Sound, Fresh, Parts
  <2>2. Left(i) = 0
    BY <1>2, <2>1 DEF Left
  <2> QED BY <1>3, <2>2
<1> HIDE DEF n
<1>5. Good(d, s) /\ ~ SizeOpen(d)
  <2>1. CASE d = i
    BY <2>1
  <2>2. CASE i.decoder.open /\ n # 0 /\ d = WriteOnMain(i, n)
    <3>1. ~ (~ i.file.storing /\ FullOpen(i))
      BY <1>4, <2>2
    <3> QED BY <3>1, <2>2, <1>2, <1>3, WriteSound
  <2> QED BY <2>1, <2>2 DEF DecodeSome
<1> HIDE DEF d
<1>6. Good(c, s) /\ ~ SizeOpen(c)
  BY <1>5, FullClosed
<1> HIDE DEF c
<1>7. DecodeABitOf(i, k) = GoOn(c)
  BY DEF DecodeABitOf, c, d, n
<1> QED BY <1>6, <1>7, IfOpenGood DEF GoOn

(* Asking for more from an open full decoder.                              *)
LEMMA OpenedGood ==
  ASSUME NEW i, NEW s \in Nat, Good(i, s), ~ SizeOpen(i), i.error \/ i.decoded \/ i.decoder.open, NEW some, NEW k \in Nat
  PROVE  Good(RequestOpened(i, some, k), s) /\ ~ SizeOpen(RequestOpened(i, some, k))
<1>1. i.decoder.open => Good(PoolRequestDecode(i), s) /\ ~ SizeOpen(PoolRequestDecode(i))
  BY RequestCalms, RequestSound DEF Good, SizeOpen
<1> QED BY <1>1, ABitGood DEF RequestOpened

(* RequestDecodeCore opens a decoder for a stored file only.               *)
LEMMA RequestCoreGood ==
  ASSUME NEW i, NEW s \in Nat, Good(i, s), ~ SizeOpen(i), NEW some, NEW k \in Nat
  PROVE  Good(RequestDecodeCore(i, some, k), s) /\ ~ SizeOpen(RequestDecodeCore(i, some, k))
<1> DEFINE m == NoteWork(i)
           o == InitDecoder(m, TRUE)
           c == CloseIfFinished(o, "Done")
<1>1. Good(m, s) /\ ~ SizeOpen(m)
  BY NoteGood DEF Good
<1> HIDE DEF m
<1>2. Good(RequestNoted(m, some, k), s) /\ ~ SizeOpen(RequestNoted(m, some, k))
  <2>1. CASE NothingToRequest(m)
    BY <1>1, <2>1 DEF RequestNoted
  <2>2. CASE ~ NothingToRequest(m) /\ m.decoder.open
    BY <1>1, <2>2, OpenedGood DEF RequestNoted
  <2>3. CASE ~ NothingToRequest(m) /\ ~ m.decoder.open
    <3>1. m.file.storing /\ ~ m.error /\ ~ m.decoded
      BY <1>1, <2>3 DEF NothingToRequest, Good, Fed
    <3>2. Good(o, s) /\ FullOpen(o)
      BY <1>1, <2>3, <3>1, OpenParts DEF Good, Sound, Fresh, Fed
    <3> HIDE DEF o
    <3>3. Good(c, s) /\ ~ SizeOpen(c) /\ (c.decoder.open \/ c.error \/ c.decoded)
      BY <3>2, CalmIsAlmost, CloseSound DEF Good, FullOpen, SizeOpen
    <3> HIDE DEF c
    <3>4. RequestNoted(m, some, k) = RequestOpened(c, some, k)
      BY <2>3 DEF RequestNoted, o, c
    <3> QED BY <3>3, <3>4, OpenedGood
  <2> QED BY <2>1, <2>2, <2>3
<1> QED BY <1>2 DEF RequestDecodeCore, m

(* SyncDecode writes all that is stored, and closes what is finished.      *)
LEMMA SyncOpenedGood ==
  ASSUME NEW i, NEW s \in Nat, Calm(i), Parts(i, s), FullOpen(i),
         Fresh(i, s) \/ (i.bytesDecoded = 0 /\ i.source = s)
  PROVE  Good(SyncOpened(i), s) /\ ~ SizeOpen(SyncOpened(i))
<1> DEFINE w == IF Left(i) = 0 THEN i ELSE WriteOnMain(i, Left(i))
           c == CloseIfFinished(w, "Done")
<1>1. /\ i.source \in Int /\ i.bytesDecoded \in Int /\ Left(i) \in Nat
      /\ i.hasSourceData /\ i.bytesDecoded = i.source => Left(i) = 0
  BY ImageFields
<1>2. i.source <= s
  BY DEF Parts
<1>3. Good(w, s) /\ ~ SizeOpen(w)
  <2>1. CASE Left(i) = 0
    <3>1. Fresh(i, s)
      BY <1>1, <2>1 DEF Left, Fresh
    <3> QED BY <2>1, <3>1 DEF Good, Sound, Fed, FullOpen, SizeOpen
  <2>2. CASE Left(i) # 0
    <3>1. ~ i.file.storing => i.bytesDecoded + Left(i) = s
      BY <1>1, <1>2, <2>2 DEF Left, Fresh
    <3>2. Good(w, s) /\ (SizeOpen(w) => SizeOpen(i))
      BY <1>1, <2>2, <3>1, WriteSound DEF FullOpen
    <3> QED BY <3>2 DEF FullOpen, SizeOpen
  <2> QED BY <2>1, <2>2
<1> HIDE DEF w
<1>4. Good(c, s) /\ ~ SizeOpen(c)
  BY <1>3, FullClosed
<1> HIDE DEF c
<1>5. SyncOpened(i) = RequestIfOpen(c)
  BY DEF SyncOpened, c, w
<1> QED BY <1>4, <1>5, IfOpenGood

(* SyncDecode, which may also find a file that is not stored between its   *)
(* size decoder and its full one.                                          *)
LEMMA SyncGood ==
  ASSUME NEW i, NEW s \in Nat, Calm(i), Sound(i, s), ~ SizeOpen(i)
  PROVE  Good(SyncDecode(i), s) /\ ~ SizeOpen(SyncDecode(i))
<1> DEFINE m == NoteWork(i)
           o == InitDecoder(m, TRUE)
<1>1. Calm(m) /\ Sound(m, s) /\ ~ SizeOpen(m)
  BY NoteGood
<1> HIDE DEF m
<1>2. m.bytesDecoded \in Int /\ m.source \in Int
  BY <1>1, ImageFields
<1>3. CASE m.error \/ m.decoded
  <2>1. Good(m, s)
    BY <1>1, <1>3 DEF Good, Fed
  <2> QED BY <1>1, <1>3, <2>1 DEF SyncDecode, SyncNoted, m
<1>4. CASE ~ m.error /\ ~ m.decoded /\ m.decoder.open
  <2>1. FullOpen(m) /\ Fed(m)
    BY <1>1, <1>4 DEF FullOpen, SizeOpen, Fed
  <2>2. SyncDecode(i) = m \/ SyncDecode(i) = SyncOpened(m)
    BY <1>4 DEF SyncDecode, SyncNoted, m
  <2> QED BY <1>1, <2>1, <2>2, SyncOpenedGood DEF Good, Sound
<1>5. CASE ~ m.error /\ ~ m.decoded /\ ~ m.decoder.open
  <2>1. m.bytesDecoded = 0 /\ m.source = s
    BY <1>1, <1>5 DEF Sound, Parts, FullOpen
  <2>2. ~ m.bytesDecoded > m.source
    BY <2>1
  <2>4. SyncDecode(i) = SyncOpened(o)
    BY <1>5, <2>2 DEF SyncDecode, SyncNoted, m
  <2>3. /\ Calm(o) /\ Parts(o, s) /\ FullOpen(o) /\ o.bytesDecoded = 0 /\ o.source = s
    BY <1>1, <1>5, OpenParts
  <2> HIDE DEF o
  <2> QED BY <2>3, <2>4, SyncOpenedGood
<1> QED BY <1>3, <1>4, <1>5

(* FinishedSomeDecoding: when the size decoder of a file that is not       *)
(* stored ends, the full one is opened in the same call.                   *)
LEMMA FinishedGood ==
  ASSUME NEW i, NEW s \in Nat, Almost(i), Sound(i, s), Fed(i)
  PROVE  Good(FinishedSomeDecoding(i), s)
<1> DEFINE c == CloseIfFinished(i, "Done")
           w == [c EXCEPT !.wantFullDecode = FALSE]
<1>1. /\ Calm(c) /\ Sound(c, s) /\ c.file = i.file
      /\ ~ SizeOpen(i) => Fed(c)
      /\ c.decoder.open => i.decoder.open
      /\ SizeOpen(i) /\ ~ c.decoder.open => ~ c.decoded /\ (~ i.file.storing => c.wantFullDecode)
  BY CloseSound
<1>2. FinishedSomeDecoding(i) = IF FullWanted(i, c) THEN StartFull(w) ELSE c
  BY DEF FinishedSomeDecoding, RequestDecodeIfNeeded
<1> HIDE DEF c
<1>3. CASE FullWanted(i, c)
  <2>1. ~ SizeOpen(c)
    BY <1>3 DEF FullWanted, SizeOpen
  <2>2. Calm(w) /\ Sound(w, s) /\ Same(c, w)
    BY <1>1, <2>1, WantedCalms, WantedSound DEF Keeps
  <2> HIDE DEF w
  <2>3. ~ SizeOpen(w) /\ w.file = c.file
    BY <2>1, <2>2 DEF Same, SizeOpen
  <2>4. CASE w.file.storing
    <3>1. Good(w, s)
      BY <2>2, <2>4 DEF Good, Fed
    <3>2. 0 \in Nat
      OBVIOUS
    <3>3. Good(RequestDecodeCore(w, FALSE, 0), s)
      BY <2>3, <3>1, <3>2, RequestCoreGood
    <3> QED BY <1>2, <1>3, <2>4, <3>3 DEF StartFull
  <2>5. CASE ~ w.file.storing
    <3>1. Good(SyncDecode(w), s)
      BY <2>2, <2>3, SyncGood
    <3> QED BY <1>2, <1>3, <2>5, <3>1 DEF StartFull
  <2> QED BY <2>4, <2>5
<1>4. CASE ~ FullWanted(i, c)
  <2>1. Fed(c)
    BY <1>1, <1>4 DEF FullWanted, Fed, SizeOpen
  <2> QED BY <1>1, <1>2, <1>4, <2>1 DEF Good
<1> QED BY <1>3, <1>4

(* DecodeUntilSizeAvailable.                                               *)
LEMMA UntilSizeGood ==
  ASSUME NEW i, NEW s \in Nat, Good(i, s)
  PROVE  Good(DecodeUntilSizeAvailable(i), s)
<1> DEFINE m == IF Status(i) = "WORK_DONE" THEN FinishedSomeDecoding(i) ELSE i
           r == ReadForSize(m)
<1>1. Good(m, s)
  BY CalmIsAlmost, FinishedGood DEF Good
<1> HIDE DEF m
<1>2. Good(r, s)
  <2>1. CASE r = m
    BY <1>1, <2>1
  <2>2. CASE m.decoder.open /\ ~ m.hasSize /\ r = WriteOnMain(m, Left(m))
    <3>1. ~ FullOpen(m) /\ Parts(m, s) /\ Calm(m)
      BY <1>1, <2>2 DEF Good, Sound, Parts
    <3> QED BY <2>2, <3>1, ImageFields, WriteSound
  <2> QED BY <2>1, <2>2 DEF ReadForSize
<1> HIDE DEF r
<1>3. Good(FinishedSomeDecoding(r), s)
  BY <1>2, CalmIsAlmost, FinishedGood DEF Good
<1> QED BY <1>1, <1>3 DEF DecodeUntilSizeAvailable, UntilSize, m, r

(* AddSourceData: what came is stored or written, and no byte is lost.     *)
LEMMA AddGood ==
  ASSUME NEW i, NEW s \in Nat, Good(i, s), ~ i.hasSourceData, NEW n \in Nat
  PROVE  Good(AddSourceData(i, n), s + n)
<1> DEFINE t == s + n
           k == i.source + n
           a == [i EXCEPT !.source = k]
           w == WriteOnMain(i, n)
<1>1. i \in ImageType /\ i.source \in Int /\ i.bytesDecoded \in Int /\ k \in Int /\ t \in Nat /\ s <= t /\ Calm(i)
  BY ImageFields DEF Good
<1>2. Keeps(i, AddSourceData(i, n))
  BY AddCalms DEF Good
<1>3. AddSourceData(i, n) = IF i.error \/ i.decoded THEN i
                            ELSE IF ~ i.file.storing /\ i.hasSize THEN FinishedSomeDecoding(w)
                            ELSE IF i.decoder.open THEN PoolRequestDecode(a) ELSE a
  BY DEF AddSourceData
<1>4. CASE i.error \/ i.decoded
  <2>1. i.source <= t
    BY <1>1 DEF Good, Sound, Parts
  <2> HIDE DEF t
  <2>2. Sound(i, t)
    BY <1>4, <2>1 DEF Good, Sound, Parts, Fresh, FullOpen
  <2> USE DEF t
  <2> QED BY <1>3, <1>4, <2>2 DEF Good
<1>5. CASE ~ (i.error \/ i.decoded) /\ ~ i.file.storing /\ i.hasSize
  <2>1. FullOpen(i)
    BY <1>5 DEF Good, Fed, Sound, Parts, FullOpen, SizeOpen
  <2>2. i.bytesDecoded + n = t /\ i.source <= t
    BY <1>1, <1>5, <2>1 DEF Good, Sound, Fresh, Parts
  <2> HIDE DEF t
  <2>3. Parts(i, t)
    BY <1>5, <2>1, <2>2 DEF Good, Sound, Parts, FullOpen, SizeOpen
  <2>4. Good(w, t)
    BY <1>1, <2>1, <2>2, <2>3, WriteSound DEF FullOpen
  <2> HIDE DEF w
  <2>5. Good(FinishedSomeDecoding(w), t)
    BY <1>1, <2>4, CalmIsAlmost, FinishedGood DEF Good
  <2> QED BY <1>3, <1>5, <2>5 DEF t
<1>6. CASE ~ (i.error \/ i.decoded) /\ ~ (~ i.file.storing /\ i.hasSize)
  <2>1. i.source = s /\ k = t /\ (i.file.storing \/ ~ FullOpen(i))
    BY <1>6 DEF Good, Sound, Parts
  <2> HIDE DEF t, k
  <2>2. /\ a \in ImageType /\ a.request = i.request /\ a.requests = i.requests /\ a.jobs = i.jobs /\ a.events = i.events
        /\ a.decoder = i.decoder /\ a.hasSourceData = i.hasSourceData /\ a.file = i.file /\ a.bytesDecoded = i.bytesDecoded
        /\ a.hasSize = i.hasSize /\ a.pendingError = i.pendingError /\ a.error = i.error /\ a.decoded = i.decoded
        /\ a.hasBeenDecoded = i.hasBeenDecoded /\ a.shown = i.shown /\ a.assert = i.assert /\ a.wantFullDecode = i.wantFullDecode
        /\ a.source = k
    BY <1>1 DEF ImageType
  <2> HIDE DEF a
  <2>3. (IsDecodeFinished(i) => IsDecodeFinished(a)) /\ (EndSent(i) => EndSent(a))
    BY <2>2 DEF IsDecodeFinished, DecoderHasSize, EndSent
  <2>4. Calm(a)
    BY <1>1, <2>2, <2>3, CalmFrame
  <2>5. k <= t
    BY <2>1, <1>1
  <2>6. Sound(a, t) /\ Fed(a)
    BY <2>1, <2>2, <2>5, <1>6 DEF Good, Sound, Parts, Fresh, Fed, FullOpen, SizeOpen
  <2>7. a.decoder.open => Good(PoolRequestDecode(a), t)
    BY <2>4, <2>6, RequestCalms, RequestSound DEF Good
  <2>8. Good(a, t)
    BY <2>4, <2>6 DEF Good
  <2>9. \/ AddSourceData(i, n) = PoolRequestDecode(a) /\ a.decoder.open
       \/ AddSourceData(i, n) = a
    BY <1>3, <1>6, <2>2
  <2> QED BY <2>7, <2>8, <2>9 DEF t
<1> QED BY <1>4, <1>5, <1>6

(* ImageDataComplete shuts the decoder of a file that is not stored down,  *)
(* which has seen every byte.                                              *)
LEMMA CompleteGood ==
  ASSUME NEW i, NEW s \in Nat, Good(i, s), i.hasSourceData
  PROVE  Good(ImageDataComplete(i), s)
<1> DEFINE d == ShutdownDecoder(i, "Done")
           c == IF ~ i.file.storing /\ i.decoder.open THEN d ELSE i
<1>1. Good(c, s)
  <2>1. CASE ~ (~ i.file.storing /\ i.decoder.open)
    BY <2>1
  <2>2. CASE ~ i.file.storing /\ i.decoder.open
    <3> DEFINE done == i.decoder.full /\ ~ i.decoder.failed /\ DecoderHasSize(i) /\ ~ i.error
               bad == i.decoder.failed \/ IF i.decoder.full THEN ~ (i.decoded \/ done) ELSE ~ i.hasSize
    <3>1. Calm(d) /\ d.hasSourceData = i.hasSourceData
      BY ShutdownStops, StoppedIsCalm DEF Good, Calm
    <3>2. /\ d.file = i.file /\ d.hasSize = i.hasSize /\ d.pendingError = i.pendingError
          /\ d.wantFullDecode = i.wantFullDecode /\ d.events = i.events
          /\ i.assert /\ i.decoder.open => d.assert
          /\ ~ d.decoder.open /\ (d.decoded <=> i.decoded \/ done) /\ (d.hasBeenDecoded <=> i.hasBeenDecoded \/ done)
          /\ done => d.shown = i.bytesDecoded
          /\ bad => d.error /\ d.bytesDecoded = i.bytesDecoded /\ d.source = i.source
          /\ ~ bad => /\ d.error = i.error /\ d.bytesDecoded = 0
                      /\ d.source = IF i.decoder.full /\ ~ i.file.storing THEN 0 ELSE i.source
      BY ShutdownFields DEF Good, Calm
    <3> HIDE DEF d
    <3>3. ~ i.error /\ ~ i.decoded /\ i.assert /\ s = i.file.size /\ (i.hasSize <=> i.decoder.full)
      BY <2>2 DEF Good, Sound, Parts, FullOpen, SizeOpen
    <3>4. i.decoder.full => i.bytesDecoded = s
      BY <2>2 DEF Good, Sound, Fresh, FullOpen
    <3>5. (done => ~ bad /\ i.decoder.full) /\ (~ done => bad)
      BY <3>3
    <3>6. d.error \/ d.decoded
      BY <3>2, <3>5
    <3>7. Sound(d, s) /\ Fed(d)
      BY <2>2, <3>1, <3>2, <3>3, <3>4, <3>5, <3>6 DEF Good, Sound, Parts, Fresh, Fed, FullOpen, SizeOpen
    <3> QED BY <2>2, <3>1, <3>7 DEF Good
  <2> QED BY <2>1, <2>2
<1> HIDE DEF c
<1>2. ImageDataComplete(i) = RequestIfOpen(c)
  BY DEF ImageDataComplete, c
<1> QED BY <1>1, <1>2, IfOpenGood

(* ForceDiscard throws the frames away and asserts that no decoder is      *)
(* open.                                                                   *)
LEMMA DiscardFields ==
  ASSUME NEW i, i \in ImageType, ~ i.decoder.open
  PROVE  LET j == ForceDiscard(i)
         IN  /\ j.file = i.file /\ j.hasSize = i.hasSize /\ j.hasSourceData = i.hasSourceData /\ j.pendingError = i.pendingError
             /\ j.wantFullDecode = i.wantFullDecode /\ j.events = i.events /\ j.decoder = i.decoder /\ ~ j.decoded
             /\ j.hasBeenDecoded = i.hasBeenDecoded /\ j.error = i.error /\ j.bytesDecoded = i.bytesDecoded
             /\ j.source = i.source /\ (i.assert => j.assert)
  BY DEF ForceDiscard, Expect, ImageType

(* It keeps a stored file's image good.                                    *)
LEMMA DiscardGood ==
  ASSUME NEW i, NEW s \in Nat, Good(i, s), ~ i.decoder.open, i.file.storing
  PROVE  Good(ForceDiscard(i), s)
<1> DEFINE j == ForceDiscard(i)
<1>1. Calm(j)
  BY DiscardCalms DEF Good, Keeps
<1>2. /\ j.file = i.file /\ j.hasSize = i.hasSize /\ j.hasSourceData = i.hasSourceData /\ j.pendingError = i.pendingError
      /\ j.wantFullDecode = i.wantFullDecode /\ j.events = i.events /\ j.decoder = i.decoder /\ ~ j.decoded
      /\ j.hasBeenDecoded = i.hasBeenDecoded /\ j.error = i.error /\ j.bytesDecoded = i.bytesDecoded
      /\ j.source = i.source /\ (i.assert => j.assert)
  BY DiscardFields DEF Good, Calm, Base
<1> HIDE DEF j
<1>3. Sound(j, s) /\ Fed(j)
  BY <1>2 DEF Good, Sound, Parts, Fresh, Fed, FullOpen, SizeOpen
<1> USE DEF j
<1> QED BY <1>1, <1>3 DEF Good

(* A decoder cancelled half way may finish a picture that is not whole;    *)
(* the frames are discarded in the same step.                              *)
LEMMA CancelGood ==
  ASSUME NEW i, NEW s \in Nat, Good(i, s), i.file.storing, i.hasBeenDecoded
  PROVE  Good(ForceDiscard(CloseIfFinished(i, "NotNeeded")), s)
<1> DEFINE c == CloseIfFinished(i, "NotNeeded")
           h == [i EXCEPT !.hasSize = @ \/ DecoderHasSize(i)]
           j == ForceDiscard(c)
<1>1. CASE ~ i.decoder.open
  BY <1>1, DiscardGood DEF CloseIfFinished
<1>2. CASE i.decoder.open
  <2> DEFINE done == h.decoder.full /\ ~ h.decoder.failed /\ DecoderHasSize(h) /\ ~ h.error
             bad == h.decoder.failed
  <2>1. Calm(c) /\ ~ c.decoder.open /\ c.hasSourceData = i.hasSourceData
    BY <1>2, CalmIsAlmost, CloseCalms DEF Good
  <2>2. Calm(j) /\ j.hasSourceData = i.hasSourceData
    BY <2>1, DiscardCalms DEF Keeps
  <2>3. i \in ImageType
    BY DEF Good, Calm, Base
  <2>4. FullOpen(i) /\ i.hasSize
    BY <1>2 DEF Good, Sound, Parts, FullOpen, SizeOpen
  <2>5. /\ h \in ImageType /\ h.request = i.request /\ h.requests = i.requests /\ h.jobs = i.jobs /\ h.file = i.file
        /\ h.decoder = i.decoder /\ h.hasSourceData = i.hasSourceData /\ h.hasSize
        /\ h.pendingError = i.pendingError /\ h.events = i.events /\ h.error = i.error /\ h.bytesDecoded = i.bytesDecoded
        /\ h.source = i.source /\ h.assert = i.assert /\ h.wantFullDecode = i.wantFullDecode
    BY <2>3, <2>4 DEF ImageType
  <2>6. Base(h)
    BY <2>5, BaseFrame DEF Good, Calm
  <2>7. c = ShutdownDecoder(h, "NotNeeded")
    BY <1>2 DEF CloseIfFinished, CloseSized
  <2> HIDE DEF h
  <2>8. /\ c.file = h.file /\ c.hasSize = h.hasSize /\ c.pendingError = h.pendingError
        /\ c.wantFullDecode = h.wantFullDecode /\ c.events = h.events
        /\ h.assert /\ h.decoder.open => c.assert
        /\ bad => c.error /\ c.bytesDecoded = h.bytesDecoded /\ c.source = h.source
        /\ ~ bad => c.error = h.error /\ c.bytesDecoded = 0 /\ c.source = IF h.decoder.full /\ ~ h.file.storing THEN 0 ELSE h.source
    BY <2>6, <2>7, ShutdownFields
  <2> HIDE DEF c, j
  <2>9. /\ j.file = c.file /\ j.hasSize = c.hasSize /\ j.pendingError = c.pendingError
        /\ j.wantFullDecode = c.wantFullDecode /\ j.events = c.events /\ j.decoder = c.decoder /\ ~ j.decoded
        /\ j.error = c.error /\ j.bytesDecoded = c.bytesDecoded
        /\ j.source = c.source /\ (c.assert => j.assert)
    BY <2>1, DiscardFields DEF Calm, Base, j
  <2>10. ~ h.error /\ h.assert /\ h.source = s
    BY <2>4, <2>5 DEF Good, Sound, Parts, FullOpen
  <2>11. Sound(j, s) /\ Fed(j)
    BY <1>2, <2>1, <2>2, <2>4, <2>5, <2>8, <2>9, <2>10 DEF Good, Sound, Parts, Fresh, Fed, FullOpen, SizeOpen
  <2> QED BY <2>2, <2>11 DEF Good, j, c
<1> QED BY <1>1, <1>2

-----------------------------------------------------------------------------
ErrorSent(i) == \E n \in DOMAIN i.events : i.events[n].kind = "error"

(* The main thread is told of a failed decoder, and only a decoder that is *)
(* written to past the stored bytes is beyond them.                        *)
Watched(i) ==
  /\ i.decoder.open /\ i.decoder.failed => ErrorSent(i)
  /\ i.decoder.open /\ (i.file.storing \/ ~ i.decoder.full) => i.bytesDecoded <= i.source

(* A request that waits asks for all that is left.                         *)
Kept(i) ==
  /\ Watched(i)
  /\ Status(i) = "PENDING" => i.source - i.bytesDecoded <= i.requests[i.request].bytesToDecode

(* An open decoder is waited for, has failed, has nothing to do before     *)
(* more data or the end of them is told, or is finished and will be        *)
(* closed: Nearly so while the event that says this is handled.            *)
Nearly(i, told) ==
  i.decoder.open => \/ Status(i) = "PENDING" \/ i.decoder.failed
                    \/ ~ told /\ Left(i) = 0
                    \/ IsDecodeFinished(i)

Settled(i, told) ==
  i.decoder.open => \/ Status(i) = "PENDING" \/ i.decoder.failed
                    \/ ~ told /\ Left(i) = 0
                    \/ IsDecodeFinished(i) /\ EndSent(i)

(* Two images that differ in what is decoded and shown at most.            *)
Alike(i, j) ==
  /\ j.file = i.file /\ j.hasSourceData = i.hasSourceData /\ j.events = i.events /\ j.source = i.source
  /\ j.decoder = i.decoder /\ j.request = i.request /\ j.requests = i.requests

LEMMA SettledIsNearly == ASSUME NEW i, NEW told, Settled(i, told) PROVE Nearly(i, told)
  BY DEF Settled, Nearly

(* A closed image asks for nothing.                                        *)
LEMMA ClosedKept ==
  ASSUME NEW i, Calm(i), ~ i.decoder.open
  PROVE  Kept(i) /\ \A told : Settled(i, told)
  BY DEF Calm, Base, Kept, Watched, Settled

(* Images that are alike and have decoded as much.                         *)
LEMMA AlikeKept ==
  ASSUME NEW i, NEW j, Alike(i, j), j.bytesDecoded = i.bytesDecoded
  PROVE  /\ Kept(i) => Kept(j)
         /\ Watched(i) => Watched(j)
         /\ Left(j) = Left(i) /\ Status(j) = Status(i) /\ (IsDecodeFinished(j) <=> IsDecodeFinished(i))
         /\ \A told : (Nearly(i, told) => Nearly(j, told)) /\ (Settled(i, told) => Settled(j, told))
<1>1. Left(j) = Left(i) /\ Status(j) = Status(i) /\ (IsDecodeFinished(j) <=> IsDecodeFinished(i)) /\ (EndSent(j) <=> EndSent(i))
  BY DEF Alike, Left, Status, IsDecodeFinished, DecoderHasSize, EndSent
<1> QED BY <1>1 DEF Alike, Kept, Watched, ErrorSent, Nearly, Settled

(* DoError closes the decoder.                                             *)
LEMMA ErrorCloses ==
  ASSUME NEW i, Calm(i), i.error => ~ i.decoder.open
  PROVE  Calm(DoError(i)) /\ ~ DoError(i).decoder.open
<1> DEFINE c == CloseIfFinished(i, "Error")
<1>1. Calm(DoError(i))
  BY ErrorCalms
<1>2. CASE i.error
  BY <1>1, <1>2 DEF DoError
<1>3. CASE ~ i.error
  <2>1. Calm(c) /\ ~ c.decoder.open
    <3>1. CASE i.decoder.open
      BY <3>1, CalmIsAlmost, CloseCalms
    <3>2. CASE ~ i.decoder.open
      BY <3>2 DEF CloseIfFinished
    <3> QED BY <3>1, <3>2
  <2>2. c \in ImageType
    BY <2>1 DEF Calm, Base
  <2>3. DoError(i) = [c EXCEPT !.error = TRUE]
    BY <1>3 DEF DoError
  <2> HIDE DEF c
  <2>4. DoError(i).decoder = c.decoder
    BY <2>2, <2>3 DEF ImageType
  <2> QED BY <1>1, <2>1, <2>4
<1> QED BY <1>2, <1>3

(* Writing what is left, or more to a decoder that stores nothing.         *)
LEMMA WriteKept ==
  ASSUME NEW i, Calm(i), i.decoder.open, ~ i.error, Kept(i), NEW n \in Nat,
         i.hasSourceData /\ i.bytesDecoded = i.source => n = 0,
         n <= Left(i) \/ (~ i.file.storing /\ i.decoder.full)
  PROVE  LET j == WriteOnMain(i, n)
         IN  /\ Kept(j)
             /\ j.decoder.open => Alike(i, j) /\ j.bytesDecoded = i.bytesDecoded + n
             /\ \A told : Settled(i, told) /\ ~ IsDecodeFinished(i) => Settled(j, told)
<1> DEFINE f == [i EXCEPT !.decoder.failed = TRUE]
           e == Expect(i, i.decoder.open)
           k == i.bytesDecoded + n
           j == WriteOnMain(i, n)
<1>1. i \in ImageType /\ i.bytesDecoded \in Int /\ i.source \in Int
  BY DEF Calm, Base, ImageType
<1>2. Calm(j)
  BY WriteCalms
<1>3. CASE Fails(i, n)
  <2>1. /\ f \in ImageType /\ f.request = i.request /\ f.requests = i.requests /\ f.jobs = i.jobs /\ f.events = i.events
        /\ f.decoder.open = i.decoder.open /\ f.decoder.full = i.decoder.full /\ f.hasSourceData = i.hasSourceData /\ f.file = i.file
        /\ f.source = i.source /\ f.bytesDecoded = i.bytesDecoded /\ f.error = i.error
    BY <1>1 DEF ImageType
  <2>2. j = DoError(f)
    BY <1>3 DEF WriteOnMain
  <2> HIDE DEF f
  <2>3. (IsDecodeFinished(i) => IsDecodeFinished(f)) /\ (EndSent(i) => EndSent(f))
    BY <2>1 DEF IsDecodeFinished, DecoderHasSize, EndSent
  <2>4. Calm(f)
    BY <2>1, <2>3, CalmFrame
  <2>5. ~ j.decoder.open
    BY <2>1, <2>2, <2>4, ErrorCloses
  <2> HIDE DEF j
  <2>6. Kept(j) /\ \A told : Settled(j, told)
    BY <1>2, <2>5, ClosedKept
  <2> QED BY <2>5, <2>6 DEF j
<1>4. CASE ~ Fails(i, n)
  <2>1. e \in ImageType /\ Alike(i, e) /\ e.bytesDecoded = i.bytesDecoded
    BY <1>1 DEF ImageType, Expect, Alike
  <2>2. j = [e EXCEPT !.bytesDecoded = k]
    BY <1>4, <2>1 DEF WriteOnMain
  <2>3. k \in Int /\ i.bytesDecoded <= k
    BY <1>1
  <2> HIDE DEF e, j
  <2>4. Alike(e, j) /\ j.bytesDecoded = k
    BY <2>1, <2>2 DEF ImageType, Alike
  <2>5. Alike(i, j) /\ Status(j) = Status(i)
    BY <2>1, <2>4 DEF Alike, Status
  <2>6. n <= Left(i) /\ i.bytesDecoded <= i.source => k <= i.source
    BY <1>1 DEF Left
  <2>7. Watched(j)
    BY <2>4, <2>5, <2>6 DEF Kept, Watched, Alike, ErrorSent
  <2>8. Status(j) = "PENDING" => j.source - j.bytesDecoded <= j.requests[j.request].bytesToDecode
    <3> SUFFICES ASSUME Status(i) = "PENDING" PROVE i.source - k <= i.requests[i.request].bytesToDecode
      BY <2>4, <2>5 DEF Alike
    <3>1. i.requests[i.request] \in RequestType
      <4>1. i.request # 0
        BY DEF Status, NoRequest
      <4>2. i.requests \in Seq(RequestType) /\ i.request \in DOMAIN i.requests
        BY <4>1, <1>1 DEF Calm, Base, ImageType
      <4> QED BY <4>2
    <3> DEFINE want == i.requests[i.request].bytesToDecode
    <3>2. want \in Int
      BY <3>1 DEF RequestType
    <3>3. i.source - i.bytesDecoded <= want
      BY DEF Kept
    <3> HIDE DEF want, k
    <3>4. i.source - k <= want
      BY <1>1, <2>3, <3>2, <3>3
    <3> QED BY <3>4 DEF want
  <2>9. Left(i) = 0 => Left(j) = 0
    <3>1. i.source <= i.bytesDecoded => i.source <= k
      BY <1>1
    <3>2. j.source = i.source
      BY <2>5 DEF Alike
    <3> QED BY <1>1, <2>3, <2>4, <3>1, <3>2 DEF Left
  <2>10. Kept(j)
    BY <2>7, <2>8 DEF Kept
  <2>11. \A told : Settled(i, told) /\ ~ IsDecodeFinished(i) => Settled(j, told)
    BY <2>5, <2>9 DEF Settled, Alike
  <2> QED BY <2>4, <2>5, <2>10, <2>11 DEF j
<1> QED BY <1>3, <1>4

(* Closing a finished decoder.                                             *)
LEMMA CloseKept ==
  ASSUME NEW i, Almost(i), Kept(i)
  PROVE  LET j == CloseIfFinished(i, "Done")
         IN  /\ Calm(j) /\ Kept(j)
             /\ j.decoder.open => ~ IsDecodeFinished(j) /\ Alike(i, j)
             /\ \A told : Nearly(i, told) => Settled(j, told)
<1> DEFINE h == [i EXCEPT !.hasSize = @ \/ DecoderHasSize(i)]
           j == CloseIfFinished(i, "Done")
<1>1. i \in ImageType
  BY DEF Almost, Base
<1>2. Calm(j)
  BY CloseCalms
<1>3. Alike(i, h) /\ h.bytesDecoded = i.bytesDecoded
  BY <1>1 DEF ImageType, Alike
<1> HIDE DEF h
<1>4. CASE ~ j.decoder.open
  <2> HIDE DEF j
  <2>1. Kept(j) /\ \A told : Settled(j, told)
    BY <1>2, <1>4, ClosedKept
  <2> QED BY <1>2, <1>4, <2>1 DEF j
<1>5. CASE j.decoder.open
  <2>1. i.decoder.open
    BY <1>5, CloseCalms
  <2>2. j = h /\ ~ IsDecodeFinished(h)
    <3>1. CASE IsDecodeFinished(h)
      <4>1. j = ShutdownDecoder(h, "Done")
        BY <2>1, <3>1 DEF CloseIfFinished, CloseSized, h
      <4>2. Base(h)
        <5>1. h \in ImageType /\ h.jobs = i.jobs
          BY <1>1 DEF ImageType, h
        <5> QED BY <1>3, <5>1, BaseFrame DEF Alike, Almost
      <4> QED BY <4>1, <4>2, <1>5, ShutdownStops DEF Stopped
    <3>2. CASE ~ IsDecodeFinished(h)
      BY <2>1, <3>2 DEF CloseIfFinished, CloseSized, h
    <3> QED BY <3>1, <3>2
  <2> HIDE DEF j
  <2>3. Kept(h) /\ \A told : Nearly(i, told) => Nearly(h, told)
    BY <1>3, AlikeKept
  <2>4. \A told : Nearly(h, told) => Settled(h, told)
    BY <2>2 DEF Nearly, Settled
  <2> QED BY <1>2, <1>3, <2>2, <2>3, <2>4 DEF j
<1> QED BY <1>4, <1>5

(* DecodePool::RequestDecode asks for all that is left.                    *)
LEMMA RequestKept ==
  ASSUME NEW i, Calm(i), i.decoder.open, Watched(i)
  PROVE  LET j == PoolRequestDecode(i)
         IN  Kept(j) /\ \A told : Settled(j, told)
<1> DEFINE r == i.request
           e == Expect(i, i.decoder.open)
           bytes == i.source - i.bytesDecoded
           rs == [i.requests EXCEPT ![r].bytesToDecode = bytes]
           w == [e EXCEPT !.requests = rs]
           qs == [rs EXCEPT ![r].status = "PENDING"]
           jobs == Append(i.jobs, r)
           k == [w EXCEPT !.requests = qs, !.jobs = jobs]
           j == PoolRequestDecode(i)
<1>1. i \in ImageType /\ Base(i) /\ Status(i) # "ACTIVE"
  BY DEF Calm, Base
<1>2. /\ e \in ImageType /\ Alike(i, e) /\ e.bytesDecoded = i.bytesDecoded /\ e.jobs = i.jobs
  BY <1>1 DEF ImageType, Expect, Alike
<1>3. [e EXCEPT !.requests[r].bytesToDecode = bytes] = w
  BY <1>2 DEF Alike
<1>4. i.requests \in Seq(RequestType) /\ r \in Nat /\ r # 0 /\ r \in DOMAIN i.requests /\ bytes \in Int
  BY <1>1 DEF ImageType, Base
<1>5. i.requests[r] \in RequestType
  BY <1>4
<1>6. /\ rs[r].bytesToDecode = bytes /\ rs[r].status = i.requests[r].status
      /\ qs[r].bytesToDecode = bytes /\ qs[r].status = "PENDING"
  BY <1>4, <1>5 DEF RequestType
<1> HIDE DEF e, rs, qs, jobs, bytes
<1>7. /\ w.file = i.file /\ w.hasSourceData = i.hasSourceData /\ w.events = i.events /\ w.source = i.source
      /\ w.decoder = i.decoder /\ w.request = r /\ w.requests = rs /\ w.bytesDecoded = i.bytesDecoded /\ w.jobs = i.jobs
  BY <1>2 DEF ImageType, Alike
<1>8. /\ k.file = i.file /\ k.hasSourceData = i.hasSourceData /\ k.events = i.events /\ k.source = i.source
      /\ k.decoder = i.decoder /\ k.request = r /\ k.requests = qs /\ k.bytesDecoded = i.bytesDecoded
  BY <1>2 DEF ImageType, Alike
<1>9. [w EXCEPT !.requests[r].status = "PENDING", !.jobs = Append(@, r)] = k
  BY <1>7 DEF qs, jobs
<1>10. j = IF Waiting(i) THEN w ELSE k
  BY <1>3, <1>9 DEF PoolRequestDecode, e, bytes
<1>11. Waiting(i) => i.requests[r].status = "PENDING"
  BY <1>1, <1>4 DEF Waiting, Status, NoRequest
<1> HIDE DEF w, k, j
<1>12. /\ j.file = i.file /\ j.hasSourceData = i.hasSourceData /\ j.events = i.events /\ j.source = i.source
       /\ j.decoder = i.decoder /\ j.request = r /\ j.bytesDecoded = i.bytesDecoded
       /\ j.requests[r].bytesToDecode = bytes /\ j.requests[r].status = "PENDING"
  BY <1>6, <1>7, <1>8, <1>10, <1>11
<1>13. Status(j) = "PENDING"
  BY <1>4, <1>12 DEF Status, NoRequest
<1>14. bytes <= bytes
  BY <1>4
<1>15. Kept(j)
  BY <1>12, <1>14 DEF Kept, Watched, ErrorSent, bytes
<1> QED BY <1>13, <1>15 DEF Settled, j

(* It is what an open decoder without an error gets.                       *)
LEMMA IfOpenKept ==
  ASSUME NEW i, Calm(i), Kept(i), NEW s, Parts(RequestIfOpen(i), s)
  PROVE  LET j == RequestIfOpen(i)
         IN  Kept(j) /\ \A told : Settled(j, told)
<1> DEFINE j == RequestIfOpen(i)
<1>1. CASE i.decoder.open /\ ~ i.error
  <2>1. j = PoolRequestDecode(i)
    BY <1>1 DEF RequestIfOpen
  <2> QED BY <2>1, <1>1, RequestKept DEF Kept
<1>2. CASE ~ (i.decoder.open /\ ~ i.error)
  <2>1. j = i
    BY <1>2 DEF RequestIfOpen
  <2>2. ~ i.decoder.open
    BY <2>1, <1>2 DEF Parts
  <2> QED BY <2>1, <2>2, ClosedKept
<1> QED BY <1>1, <1>2

(* Opening a full decoder.                                                 *)
LEMMA OpenKept ==
  ASSUME NEW i, Calm(i), ~ i.decoder.open, ~ i.error, ~ i.decoded, NEW s \in Nat, Sound(i, s)
  PROVE  Kept(InitDecoder(i, TRUE))
<1> DEFINE ok == ~ i.decoder.open /\ ~ i.decoded /\ (TRUE => i.hasSize)
           e == Expect(i, ok)
           new == [status |-> "INACTIVE", bytesToDecode |-> 0]
           r == IF i.request = 0 THEN Len(i.requests) + 1 ELSE i.request
           rs == IF i.request = 0 THEN Append(i.requests, new) ELSE i.requests
           d == Open(TRUE)
           j == InitDecoder(i, TRUE)
<1>1. i \in ImageType /\ i.requests \in Seq(RequestType) /\ Len(i.requests) \in Nat
  BY DEF Calm, Base, ImageType
<1>2. j.bytesDecoded = 0 /\ j.source = s
  BY OpenParts
<1>3. e \in ImageType /\ Alike(i, e)
  BY <1>1 DEF ImageType, Expect, Alike
<1>4. j = [e EXCEPT !.decoder = d, !.request = r, !.requests = rs]
  BY <1>3 DEF InitDecoder, NoRequest, Alike
<1>5. ~ d.failed
  BY DEF Open
<1>6. Status(i) \in {"none", "STOPPED"}
  BY DEF Calm, Base
<1>7. r # 0 /\ rs[r].status # "PENDING"
  <2>1. CASE i.request = 0
    BY <2>1, <1>1
  <2>2. CASE i.request # 0
    BY <2>2, <1>6 DEF Status, NoRequest
  <2> QED BY <2>1, <2>2
<1> HIDE DEF e, d, r, rs, j
<1>8. j.decoder = d /\ j.request = r /\ j.requests = rs
  BY <1>3, <1>4 DEF ImageType
<1>9. Status(j) # "PENDING"
  BY <1>7, <1>8 DEF Status, NoRequest
<1>10. j.bytesDecoded <= j.source
  BY <1>2
<1> QED BY <1>5, <1>8, <1>9, <1>10 DEF Kept, Watched, j

(* Noting a job that has done its work.                                    *)
LEMMA NoteKept ==
  ASSUME NEW i, Calm(i), Kept(i), NEW told, Settled(i, told)
  PROVE  Calm(NoteWork(i)) /\ Kept(NoteWork(i)) /\ Settled(NoteWork(i), told)
  BY CalmIsAlmost, SettledIsNearly, CloseKept DEF NoteWork

(* Decoding a bit of a stored file when all of it is there: what is left   *)
(* is asked for, and when nothing is, the decoder is closed.               *)
LEMMA ABitKept ==
  ASSUME NEW i, NEW s \in Nat, Good(i, s), ~ SizeOpen(i), NEW k \in Nat, Kept(i), i.hasSourceData, i.file.storing
  PROVE  LET j == DecodeABitOf(i, k)
         IN  Kept(j) /\ \A told : Settled(j, told)
<1> DEFINE n == Smaller(k * ChunkBytes, Left(i))
           d == DecodeSome(i, n)
           c == CloseIfFinished(d, "Done")
           j == DecodeABitOf(i, k)
<1>1. k * ChunkBytes \in Nat
  BY ChunkBytesAssumption
<1>2. Calm(i) /\ Parts(i, s) /\ Left(i) \in Nat /\ (i.hasSourceData /\ i.bytesDecoded = i.source => Left(i) = 0)
  BY ImageFields DEF Good, Sound
<1>3. n \in Nat /\ n <= Left(i) /\ (i.hasSourceData /\ i.bytesDecoded = i.source => n = 0)
  BY <1>1, <1>2 DEF Smaller
<1>4. Good(j, s)
  BY ABitGood
<1> HIDE DEF n
<1>5. Calm(d) /\ Kept(d) /\ d.hasSourceData = i.hasSourceData /\ (d.decoder.open => d.file = i.file)
  <2>1. CASE d = i
    BY <2>1, <1>2
  <2>2. CASE i.decoder.open /\ ~ i.error /\ d = WriteOnMain(i, n)
    <3>1. Kept(d) /\ (d.decoder.open => Alike(i, d))
      BY <1>2, <1>3, <2>2, WriteKept
    <3> HIDE DEF d
    <3>2. Calm(d) /\ d.hasSourceData = i.hasSourceData
      BY <1>2, <1>3, <2>2, WriteCalms
    <3> QED BY <3>1, <3>2 DEF Alike
  <2> QED BY <2>1, <2>2 DEF DecodeSome
<1> HIDE DEF d
<1>6. Calm(c) /\ Kept(c) /\ (c.decoder.open => ~ IsDecodeFinished(c) /\ Alike(d, c))
  BY <1>5, CalmIsAlmost, CloseKept
<1>7. c.decoder.open => c.hasSourceData /\ c.file.storing
  BY <1>5, <1>6 DEF Alike
<1> HIDE DEF c
<1>8. j = IF IsDecodeFinished(c) \/ Left(c) = 0 THEN c ELSE RequestIfOpen(c)
  BY DEF DecodeABitOf, GoOn, c, d, n
<1>9. CASE j = RequestIfOpen(c)
  BY <1>4, <1>6, <1>9, IfOpenKept DEF Good, Sound
<1>10. CASE j = c /\ (IsDecodeFinished(c) \/ Left(c) = 0)
  <2>1. ~ c.decoder.open
    <3> SUFFICES ASSUME c.decoder.open, Left(c) = 0 PROVE FALSE
      BY <1>6, <1>10
    <3>1. c.source \in Int /\ c.bytesDecoded \in Int
      BY <1>6, ImageFields
    <3>2. c.bytesDecoded <= c.source
      BY <1>6, <1>7 DEF Kept, Watched
    <3>3. c.source <= c.bytesDecoded
      BY <3>1 DEF Left
    <3>4. c.bytesDecoded = c.source
      BY <3>1, <3>2, <3>3
    <3> QED BY <3>4, <1>6, <1>7 DEF IsDecodeFinished
  <2> QED BY <2>1, <1>6, <1>10, ClosedKept
<1> QED BY <1>8, <1>9, <1>10 DEF j

(* Asking for more from an open full decoder.                              *)
LEMMA OpenedKept ==
  ASSUME NEW i, NEW s \in Nat, Good(i, s), ~ SizeOpen(i), i.error \/ i.decoded \/ i.decoder.open, NEW some, NEW k \in Nat,
         Kept(i), some /\ i.hasSourceData => i.file.storing, NEW told, IsDecodeFinished(i) => Settled(i, told)
  PROVE  LET j == RequestOpened(i, some, k)
         IN  Kept(j) /\ Settled(j, told)
<1> DEFINE j == RequestOpened(i, some, k)
<1>1. Calm(i) /\ Parts(i, s)
  BY DEF Good, Sound
<1>2. CASE i.error \/ i.decoded
  <2>1. ~ i.decoder.open
    BY <1>1, <1>2 DEF Parts
  <2>2. j = i
    BY <1>2 DEF RequestOpened
  <2> QED BY <1>1, <2>1, <2>2, ClosedKept
<1>3. CASE i.hasSourceData /\ i.bytesDecoded = i.source
  <2>1. j = i /\ IsDecodeFinished(i)
    BY <1>3 DEF RequestOpened, IsDecodeFinished
  <2> QED BY <2>1
<1>4. CASE ~ (i.error \/ i.decoded) /\ ~ (i.hasSourceData /\ i.bytesDecoded = i.source)
  <2>1. j = IF i.hasSourceData /\ some THEN DecodeABitOf(i, k) ELSE PoolRequestDecode(i)
    BY <1>4 DEF RequestOpened
  <2>2. i.decoder.open /\ Watched(i)
    BY <1>4 DEF Kept
  <2>3. CASE i.hasSourceData /\ some
    BY <2>1, <2>3, ABitKept
  <2>4. CASE ~ (i.hasSourceData /\ some)
    BY <1>1, <2>1, <2>2, <2>4, RequestKept
  <2> QED BY <2>3, <2>4
<1> QED BY <1>2, <1>3, <1>4

(* RequestDecodeCore: a decoder that is opened is waited for, or finished  *)
(* and closed at once.                                                     *)
LEMMA RequestCoreKept ==
  ASSUME NEW i, NEW s \in Nat, Good(i, s), ~ SizeOpen(i), NEW some, NEW k \in Nat,
         Kept(i), some /\ i.hasSourceData => i.file.storing, NEW told, Settled(i, told)
  PROVE  LET j == RequestDecodeCore(i, some, k)
         IN  Kept(j) /\ Settled(j, told)
<1> DEFINE m == NoteWork(i)
           o == InitDecoder(m, TRUE)
           c == CloseIfFinished(o, "Done")
           j == RequestDecodeCore(i, some, k)
<1>1. Good(m, s) /\ ~ SizeOpen(m) /\ m.file = i.file
  BY NoteGood DEF Good
<1>2. m.hasSourceData = i.hasSourceData
  BY NoteCalms DEF Good, Keeps
<1>3. Kept(m) /\ Settled(m, told)
  BY NoteKept DEF Good
<1>4. j = IF i.bytesDecoded > i.source THEN i ELSE RequestNoted(m, some, k)
  BY DEF RequestDecodeCore
<1> HIDE DEF m
<1>5. CASE NothingToRequest(m)
  BY <1>3, <1>4, <1>5 DEF RequestNoted
<1>6. CASE ~ NothingToRequest(m) /\ m.decoder.open
  <2>1. RequestNoted(m, some, k) = RequestOpened(m, some, k)
    BY <1>6 DEF RequestNoted
  <2>2. Kept(RequestOpened(m, some, k)) /\ Settled(RequestOpened(m, some, k), told)
    BY <1>1, <1>2, <1>3, <1>6, OpenedKept
  <2> QED BY <1>4, <2>1, <2>2
<1>7. CASE ~ NothingToRequest(m) /\ ~ m.decoder.open
  <2>1. m.file.storing /\ ~ m.error /\ ~ m.decoded
    BY <1>1, <1>7 DEF NothingToRequest, Good, Fed
  <2>2. Good(o, s) /\ FullOpen(o) /\ o.file = m.file
    BY <1>1, <1>7, <2>1, OpenParts DEF Good, Sound, Fresh, Fed
  <2>3. Kept(o)
    BY <1>1, <1>7, <2>1, OpenKept DEF Good
  <2> HIDE DEF o
  <2>4. Good(c, s) /\ ~ SizeOpen(c) /\ (c.decoder.open \/ c.error \/ c.decoded) /\ c.file = m.file
    BY <2>2, CalmIsAlmost, CloseSound DEF Good, FullOpen, SizeOpen
  <2>5. Kept(c) /\ (c.decoder.open => ~ IsDecodeFinished(c))
    BY <2>2, <2>3, CalmIsAlmost, CloseKept DEF Good
  <2> HIDE DEF c
  <2>6. RequestNoted(m, some, k) = RequestOpened(c, some, k)
    BY <1>7 DEF RequestNoted, o, c
  <2>7. IsDecodeFinished(c) => Settled(c, told)
    BY <2>5 DEF Settled
  <2>8. Kept(RequestOpened(c, some, k)) /\ Settled(RequestOpened(c, some, k), told)
    BY <2>1, <2>4, <2>5, <2>7, OpenedKept
  <2> QED BY <1>4, <2>6, <2>8
<1> QED BY <1>5, <1>6, <1>7

(* SyncDecode decodes all there is and waits for more.                     *)
LEMMA SyncKept ==
  ASSUME NEW i, NEW s \in Nat, Calm(i), Sound(i, s), ~ SizeOpen(i), Kept(i), NEW told, Settled(i, told)
  PROVE  LET j == SyncDecode(i)
         IN  Kept(j) /\ Settled(j, told)
<1> DEFINE m == NoteWork(i)
           o == IF m.decoder.open THEN m ELSE InitDecoder(m, TRUE)
           w == IF Left(o) = 0 THEN o ELSE WriteOnMain(o, Left(o))
           c == CloseIfFinished(w, "Done")
           j == SyncDecode(i)
<1>1. Calm(m) /\ Sound(m, s)
  BY NoteGood
<1>2. Kept(m) /\ Settled(m, told)
  BY NoteKept
<1>3. j = IF m.error \/ m.decoded \/ m.bytesDecoded > m.source THEN m ELSE SyncOpened(o)
  BY DEF SyncDecode, SyncNoted
<1>4. Good(j, s)
  BY SyncGood
<1> HIDE DEF m
<1>5. CASE j = m
  BY <1>2, <1>5
<1>6. CASE j # m
  <2>1. ~ m.error /\ ~ m.decoded /\ j = SyncOpened(o)
    BY <1>3, <1>6
  <2>2. Calm(o) /\ Kept(o) /\ o.decoder.open /\ Parts(o, s)
    BY <1>1, <1>2, <2>1, OpenParts, OpenKept DEF FullOpen, Sound
  <2> HIDE DEF o
  <2>3. Left(o) \in Nat /\ (o.hasSourceData /\ o.bytesDecoded = o.source => Left(o) = 0) /\ ~ o.error
    BY <2>2, ImageFields DEF Parts
  <2>4. Calm(w) /\ Kept(w)
    BY <2>2, <2>3, WriteCalms, WriteKept
  <2> HIDE DEF w
  <2>5. Calm(c) /\ Kept(c)
    BY <2>4, CalmIsAlmost, CloseKept
  <2> HIDE DEF c
  <2>6. j = RequestIfOpen(c)
    BY <2>1 DEF SyncOpened, c, w
  <2> QED BY <1>4, <2>5, <2>6, IfOpenKept DEF Good, Sound
<1> QED BY <1>5, <1>6

(* FinishedSomeDecoding.                                                   *)
LEMMA FinishedKept ==
  ASSUME NEW i, NEW s \in Nat, Almost(i), Sound(i, s), Fed(i), Kept(i), NEW told, Nearly(i, told)
  PROVE  LET j == FinishedSomeDecoding(i)
         IN  Kept(j) /\ Settled(j, told)
<1> DEFINE c == CloseIfFinished(i, "Done")
           w == [c EXCEPT !.wantFullDecode = FALSE]
           j == FinishedSomeDecoding(i)
<1>1. Calm(c) /\ Sound(c, s) /\ Kept(c) /\ Settled(c, told)
  BY CloseSound, CloseKept
<1>2. j = IF FullWanted(i, c) THEN StartFull(w) ELSE c
  BY DEF FinishedSomeDecoding, RequestDecodeIfNeeded
<1> HIDE DEF c
<1>3. CASE FullWanted(i, c)
  <2>1. ~ SizeOpen(c) /\ ~ c.decoder.open
    BY <1>3 DEF FullWanted, SizeOpen
  <2>2. Calm(w) /\ Sound(w, s) /\ Same(c, w)
    BY <1>1, <2>1, WantedCalms, WantedSound DEF Keeps
  <2> HIDE DEF w
  <2>3. ~ SizeOpen(w) /\ ~ w.decoder.open
    BY <2>1, <2>2 DEF Same, SizeOpen
  <2>4. Kept(w) /\ Settled(w, told)
    BY <2>2, <2>3, ClosedKept
  <2>5. CASE w.file.storing
    <3>1. Good(w, s) /\ 0 \in Nat
      BY <2>2, <2>5 DEF Good, Fed
    <3>2. Kept(RequestDecodeCore(w, FALSE, 0)) /\ Settled(RequestDecodeCore(w, FALSE, 0), told)
      BY <2>3, <2>4, <3>1, RequestCoreKept
    <3> QED BY <1>2, <1>3, <2>5, <3>2 DEF StartFull
  <2>6. CASE ~ w.file.storing
    <3>1. Kept(SyncDecode(w)) /\ Settled(SyncDecode(w), told)
      BY <2>2, <2>3, <2>4, SyncKept
    <3> QED BY <1>2, <1>3, <2>6, <3>1 DEF StartFull
  <2> QED BY <2>5, <2>6
<1>4. CASE ~ FullWanted(i, c)
  BY <1>1, <1>2, <1>4
<1> QED BY <1>3, <1>4

(* DecodeUntilSizeAvailable.                                               *)
LEMMA UntilSizeKept ==
  ASSUME NEW i, NEW s \in Nat, Good(i, s), Kept(i), NEW told, Settled(i, told)
  PROVE  LET j == DecodeUntilSizeAvailable(i)
         IN  Kept(j) /\ Settled(j, told)
<1> DEFINE m == IF Status(i) = "WORK_DONE" THEN FinishedSomeDecoding(i) ELSE i
           r == ReadForSize(m)
<1>1. Good(m, s) /\ Kept(m) /\ Settled(m, told)
  BY CalmIsAlmost, SettledIsNearly, FinishedGood, FinishedKept DEF Good
<1> HIDE DEF m
<1>2. Good(r, s) /\ Kept(r) /\ Settled(r, told)
  <2>1. CASE r = m
    BY <1>1, <2>1
  <2>2. CASE m.decoder.open /\ ~ m.error /\ ~ m.hasSize /\ ~ IsDecodeFinished(m) /\ r = WriteOnMain(m, Left(m))
    <3>1. ~ FullOpen(m) /\ Parts(m, s) /\ Calm(m)
      BY <1>1, <2>2 DEF Good, Sound, Parts
    <3>2. Left(m) \in Nat /\ (m.hasSourceData /\ m.bytesDecoded = m.source => Left(m) = 0) /\ Left(m) <= Left(m)
      BY <3>1, ImageFields
    <3>3. Good(r, s)
      BY <2>2, <3>1, <3>2, WriteSound
    <3>4. Kept(r) /\ Settled(r, told)
      BY <1>1, <2>2, <3>1, <3>2, WriteKept
    <3> QED BY <3>3, <3>4
  <2> QED BY <2>1, <2>2 DEF ReadForSize
<1> HIDE DEF r
<1>3. Kept(FinishedSomeDecoding(r)) /\ Settled(FinishedSomeDecoding(r), told)
  BY <1>2, CalmIsAlmost, SettledIsNearly, FinishedKept DEF Good
<1> QED BY <1>1, <1>3 DEF DecodeUntilSizeAvailable, UntilSize, m, r

(* AddSourceData: what is stored is asked for, what is written needs no    *)
(* job.                                                                    *)
LEMMA AddKept ==
  ASSUME NEW i, NEW s \in Nat, Good(i, s), ~ i.hasSourceData, NEW n \in Nat, Kept(i), Settled(i, FALSE)
  PROVE  LET j == AddSourceData(i, n)
         IN  Kept(j) /\ Settled(j, FALSE)
<1> DEFINE t == s + n
           k == i.source + n
           a == [i EXCEPT !.source = k]
           w == WriteOnMain(i, n)
           j == AddSourceData(i, n)
<1>1. i \in ImageType /\ i.source \in Int /\ i.bytesDecoded \in Int /\ k \in Int /\ i.source <= k /\ t \in Nat /\ s <= t /\ Calm(i)
  BY ImageFields DEF Good
<1>2. Calm(j)
  BY AddCalms DEF Good, Keeps
<1>3. j = IF i.error \/ i.decoded THEN i
          ELSE IF ~ i.file.storing /\ i.hasSize THEN FinishedSomeDecoding(w)
          ELSE IF i.decoder.open THEN PoolRequestDecode(a) ELSE a
  BY DEF AddSourceData
<1>4. CASE i.error \/ i.decoded
  BY <1>3, <1>4
<1>5. CASE ~ (i.error \/ i.decoded) /\ ~ i.file.storing /\ i.hasSize
  <2>1. FullOpen(i)
    BY <1>5 DEF Good, Fed, Sound, Parts, FullOpen, SizeOpen
  <2>2. i.bytesDecoded + n = t /\ i.source <= t
    BY <1>1, <1>5, <2>1 DEF Good, Sound, Fresh, Parts
  <2> HIDE DEF t
  <2>3. Parts(i, t)
    BY <1>5, <2>1, <2>2 DEF Good, Sound, Parts, FullOpen, SizeOpen
  <2>4. Good(w, t)
    BY <1>1, <2>1, <2>2, <2>3, WriteSound DEF FullOpen
  <2>5. ~ IsDecodeFinished(i)
    BY <2>1 DEF FullOpen, IsDecodeFinished
  <2>6. Kept(w) /\ Settled(w, FALSE)
    BY <1>1, <1>5, <2>1, <2>5, WriteKept DEF FullOpen
  <2> HIDE DEF w
  <2>7. Kept(FinishedSomeDecoding(w)) /\ Settled(FinishedSomeDecoding(w), FALSE)
    BY <1>1, <2>4, <2>6, CalmIsAlmost, SettledIsNearly, FinishedKept DEF Good
  <2> QED BY <1>3, <1>5, <2>7
<1>6. CASE ~ (i.error \/ i.decoded) /\ ~ (~ i.file.storing /\ i.hasSize)
  <2> HIDE DEF k
  <2>1. /\ a \in ImageType /\ a.request = i.request /\ a.requests = i.requests /\ a.jobs = i.jobs /\ a.events = i.events
        /\ a.decoder = i.decoder /\ a.hasSourceData = i.hasSourceData /\ a.file = i.file /\ a.bytesDecoded = i.bytesDecoded
        /\ a.source = k
    BY <1>1 DEF ImageType
  <2> HIDE DEF a
  <2>2. (IsDecodeFinished(i) => IsDecodeFinished(a)) /\ (EndSent(i) => EndSent(a))
    BY <2>1 DEF IsDecodeFinished, DecoderHasSize, EndSent
  <2>3. Calm(a)
    BY <1>1, <2>1, <2>2, CalmFrame
  <2>4. Watched(a)
    BY <1>1, <2>1 DEF Kept, Watched, ErrorSent
  <2>5. CASE i.decoder.open
    BY <1>3, <1>6, <2>1, <2>3, <2>4, <2>5, RequestKept
  <2>6. CASE ~ i.decoder.open
    BY <1>3, <1>6, <2>1, <2>3, <2>6, ClosedKept
  <2> QED BY <2>5, <2>6
<1> QED BY <1>4, <1>5, <1>6

(* ImageDataComplete leaves no decoder that nobody works for, and none of  *)
(* a file that is not stored.                                              *)
LEMMA CompleteKept ==
  ASSUME NEW i, NEW s \in Nat, Good(i, s), i.hasSourceData, Kept(i)
  PROVE  LET j == ImageDataComplete(i)
         IN  Kept(j) /\ (\A told : Settled(j, told)) /\ (j.decoder.open => j.file.storing)
<1> DEFINE d == ShutdownDecoder(i, "Done")
           c == IF ~ i.file.storing /\ i.decoder.open THEN d ELSE i
           j == ImageDataComplete(i)
<1>1. Good(j, s)
  BY CompleteGood
<1>2. Calm(c) /\ Kept(c) /\ (c.decoder.open => c.file.storing)
  <2>1. CASE ~ i.file.storing /\ i.decoder.open
    <3>1. Stopped(d)
      BY ShutdownStops DEF Good, Calm
    <3> HIDE DEF d
    <3>2. Calm(d) /\ ~ d.decoder.open
      BY <3>1, StoppedIsCalm DEF Stopped
    <3> QED BY <2>1, <3>2, ClosedKept
  <2>2. CASE ~ (~ i.file.storing /\ i.decoder.open)
    BY <2>2 DEF Good
  <2> QED BY <2>1, <2>2
<1> HIDE DEF c
<1>3. j = RequestIfOpen(c)
  BY DEF ImageDataComplete, c
<1>4. Kept(j) /\ \A told : Settled(j, told)
  BY <1>1, <1>2, <1>3, IfOpenKept DEF Good, Sound
<1>5. j.decoder.open => j.file.storing
  BY <1>2, <1>3, RequestSame DEF RequestIfOpen, Calm, Base, Same
<1> QED BY <1>4, <1>5 DEF j

(* A picture that is decoded or in error is left alone.                    *)
LEMMA OverSame ==
  ASSUME NEW i, ~ i.decoder.open, i.error \/ i.decoded, NEW some, NEW k
  PROVE  /\ RequestDecodeCore(i, some, k) = i /\ SyncDecode(i) = i
         /\ FinishedSomeDecoding(i) = i /\ DecodeUntilSizeAvailable(i) = i
<1>1. CloseIfFinished(i, "Done") = i /\ NoteWork(i) = i
  BY DEF CloseIfFinished, NoteWork
<1>2. RequestDecodeCore(i, some, k) = i /\ SyncDecode(i) = i
  BY <1>1 DEF RequestDecodeCore, RequestNoted, NothingToRequest, SyncDecode, SyncNoted
<1>3. FinishedSomeDecoding(i) = i
  BY <1>1 DEF FinishedSomeDecoding, RequestDecodeIfNeeded, FullWanted
<1>4. ReadForSize(i) = i
  BY DEF ReadForSize
<1> QED BY <1>2, <1>3, <1>4 DEF DecodeUntilSizeAvailable, UntilSize

-----------------------------------------------------------------------------
JobType == [on : BOOLEAN, request : Nat, left : Int, old : Int]

IInv ==
  /\ Base(im)
  /\ Status(im) = "PENDING" => HasJob(im) \/ (IsDecodeFinished(im) /\ EndSent(im))
  /\ network = "open" => ~ im.hasSourceData
  /\ job \in JobType
  /\ IF job.on THEN im.decoder.open /\ job.request = im.request /\ Status(im) = "ACTIVE"
     ELSE Status(im) # "ACTIVE"

-----------------------------------------------------------------------------
(* While nobody holds the monitor the image is calm.                       *)
LEMMA FreeIsCalm == IInv => (Free <=> Calm(im))
  BY DEF IInv, Free, Calm

(* The invariant holds at first.                                           *)
LEMMA InitInv == Init => IInv
<1> SUFFICES ASSUME Init PROVE IInv
  OBVIOUS
<1>1. PICK f \in Files : im = NewImage(f)
  BY DEF Init
<1>2. f \in FileType
  BY FilesAssumption DEF FileType
<1> DEFINE rs == << [status |-> "INACTIVE", bytesToDecode |-> 0] >>
<1>3. rs \in Seq(RequestType) /\ Len(rs) = 1 /\ DOMAIN rs = {1} /\ rs[1].status = "INACTIVE"
  BY DEF RequestType, StatusType
<1> HIDE DEF rs
<1>a. PICK zero \in Int : zero = 0
  OBVIOUS
<1>b. PICK one \in Nat : one = 1
  OBVIOUS
<1>c. zero \in Int /\ one \in Nat
  BY <1>a, <1>b
<1>4. im = [file |-> f, source |-> zero, hasSourceData |-> FALSE, decoder |-> Open(FALSE), bytesDecoded |-> zero, hasSize |-> FALSE,
            decoded |-> FALSE, hasBeenDecoded |-> FALSE, shown |-> zero, error |-> FALSE, pendingError |-> FALSE,
            wantFullDecode |-> ~ f.storing, request |-> one, requests |-> rs, jobs |-> << >>, events |-> << >>, assert |-> TRUE]
  BY <1>1, <1>a, <1>b DEF NewImage, rs
<1>5. Open(FALSE) \in [open : BOOLEAN, full : BOOLEAN, failed : BOOLEAN] /\ Open(FALSE).open
  BY DEF Open
<1>d. << >> \in Seq(Nat) /\ << >> \in Seq([kind : {"done", "error", "request"}, request : Nat])
  OBVIOUS
<1>e. (~ f.storing) \in BOOLEAN
  OBVIOUS
<1>6. im \in ImageType
  BY <1>2, <1>3, <1>4, <1>5, <1>c, <1>d, <1>e DEF ImageType
<1>7. im.request = 1 /\ im.requests = rs /\ im.jobs = << >> /\ im.decoder.open /\ im.hasSourceData = FALSE
  BY <1>4, <1>5, <1>b
<1>8. Base(im) /\ Status(im) = "INACTIVE"
  <2>1. im.request \in 0 .. Len(im.requests) /\ im.request # 0 /\ DOMAIN im.requests = {1}
    <3>1. Len(im.requests) = 1 /\ DOMAIN im.requests = {1}
      BY <1>3, <1>7
    <3>2. 1 \in 0 .. 1
      OBVIOUS
    <3> QED BY <1>7, <3>1, <3>2
  <2>2. \A n \in DOMAIN im.jobs : im.jobs[n] \in DOMAIN im.requests
    BY <1>7
  <2> QED BY <1>3, <1>6, <1>7, <2>1, <2>2 DEF Base, Status, NoRequest
<1>9. job \in JobType /\ ~ job.on
  BY DEF Init, Idle, JobType, NoRequest
<1> QED BY <1>7, <1>8, <1>9 DEF IInv

(* A step of the main thread in the monitor that keeps the image calm      *)
(* keeps the invariant.                                                    *)
LEMMA Keeping ==
  ASSUME IInv, Free, NEW next, im' = next, Keeps(im, next), job' = job, network' = network
  PROVE  IInv'
<1>1. Calm(im)' /\ (im.hasSourceData)' = im.hasSourceData
  BY DEF Keeps
<1>2. ~ job'.on /\ job' \in JobType
  BY DEF IInv, Free
<1> QED BY <1>1, <1>2 DEF IInv, Calm

(* Taking an event that is no end of a job leaves that end in the queue.   *)
LEMMA TailEnds ==
  ASSUME NEW i, i \in ImageType, i.events # << >>
  PROVE  LET j == [i EXCEPT !.events = Tail(@)]
         IN  /\ j \in ImageType /\ j.request = i.request /\ j.requests = i.requests /\ j.jobs = i.jobs
             /\ j.decoder = i.decoder /\ j.hasSourceData = i.hasSourceData /\ j.file = i.file /\ (IsDecodeFinished(i) => IsDecodeFinished(j))
             /\ Head(i.events) \in [kind : {"done", "error", "request"}, request : Nat]
             /\ Head(i.events).kind # "done" /\ EndSent(i) => EndSent(j)
<1> DEFINE es == Tail(i.events)
           j == [i EXCEPT !.events = Tail(@)]
           Event == [kind : {"done", "error", "request"}, request : Nat]
<1>1. i.events \in Seq(Event)
  BY DEF ImageType
<1> HIDE DEF Event
<1>2. /\ es \in Seq(Event) /\ Head(i.events) = i.events[1] /\ Head(i.events) \in Event
      /\ \A n \in DOMAIN i.events : n # 1 => n - 1 \in DOMAIN es /\ es[n - 1] = i.events[n]
  BY <1>1
<1>3. j = [i EXCEPT !.events = es]
  OBVIOUS
<1> HIDE DEF es, j
<1>4. /\ j \in ImageType /\ j.request = i.request /\ j.requests = i.requests /\ j.jobs = i.jobs /\ j.events = es
      /\ j.decoder = i.decoder /\ j.hasSourceData = i.hasSourceData /\ j.file = i.file /\ j.source = i.source
      /\ j.bytesDecoded = i.bytesDecoded
  BY <1>2, <1>3 DEF ImageType, Event
<1>5. IsDecodeFinished(i) => IsDecodeFinished(j)
  BY <1>4 DEF IsDecodeFinished, DecoderHasSize
<1>6. ASSUME Head(i.events).kind # "done", EndSent(i) PROVE EndSent(j)
  <2>1. PICK n \in DOMAIN i.events : i.events[n] = [kind |-> "done", request |-> i.request]
    BY <1>6 DEF EndSent
  <2>2. n # 1
    BY <2>1, <1>2, <1>6
  <2>3. n - 1 \in DOMAIN es /\ es[n - 1] = [kind |-> "done", request |-> i.request]
    BY <2>1, <2>2, <1>2
  <2> QED BY <2>3, <1>4 DEF EndSent
<1> QED BY <1>2, <1>4, <1>5, <1>6 DEF j, Event

(* Sending an event loses none.                                            *)
LEMMA AppendEnds ==
  ASSUME NEW i, i \in ImageType, NEW e, e \in [kind : {"done", "error", "request"}, request : Nat]
  PROVE  LET j == [i EXCEPT !.events = Append(@, e)]
         IN  /\ j \in ImageType /\ j.request = i.request /\ j.requests = i.requests /\ j.jobs = i.jobs
             /\ j.decoder = i.decoder /\ j.hasSourceData = i.hasSourceData /\ j.file = i.file /\ (IsDecodeFinished(i) => IsDecodeFinished(j))
             /\ EndSent(i) => EndSent(j)
             /\ e = [kind |-> "done", request |-> i.request] => EndSent(j)
<1> DEFINE es == Append(i.events, e)
           j == [i EXCEPT !.events = Append(@, e)]
           Event == [kind : {"done", "error", "request"}, request : Nat]
<1>1. i.events \in Seq(Event)
  BY DEF ImageType
<1> HIDE DEF Event
<1>2. /\ es \in Seq(Event) /\ \A n \in DOMAIN i.events : n \in DOMAIN es /\ es[n] = i.events[n]
      /\ Len(es) \in DOMAIN es /\ es[Len(es)] = e
  BY <1>1 DEF Event
<1>3. j = [i EXCEPT !.events = es]
  OBVIOUS
<1> HIDE DEF es, j
<1>4. /\ j \in ImageType /\ j.request = i.request /\ j.requests = i.requests /\ j.jobs = i.jobs /\ j.events = es
      /\ j.decoder = i.decoder /\ j.hasSourceData = i.hasSourceData /\ j.file = i.file /\ j.source = i.source
      /\ j.bytesDecoded = i.bytesDecoded
  BY <1>2, <1>3 DEF ImageType, Event
<1>5. IsDecodeFinished(i) => IsDecodeFinished(j)
  BY <1>4 DEF IsDecodeFinished, DecoderHasSize
<1>6. EndSent(i) => EndSent(j)
  BY <1>2, <1>4 DEF EndSent
<1>7. e = [kind |-> "done", request |-> i.request] => EndSent(j)
  BY <1>2, <1>4 DEF EndSent
<1> QED BY <1>4, <1>5, <1>6, <1>7 DEF j

(* A step beside the monitor that leaves requests, jobs and decoder keeps  *)
(* the invariant.                                                          *)
LEMMA Beside ==
  ASSUME IInv, im' \in ImageType, im'.request = im.request, im'.requests = im.requests, im'.jobs = im.jobs,
         im'.decoder = im.decoder, IsDecodeFinished(im) => IsDecodeFinished(im'), EndSent(im) => EndSent(im'),
         job' = job, network' = "open" => ~ im'.hasSourceData
  PROVE  IInv'
<1>1. Base(im') /\ Status(im') = Status(im) /\ (HasJob(im) <=> HasJob(im'))
  BY BaseFrame DEF IInv
<1> QED BY <1>1 DEF IInv

(* So does a step that leaves the image and the job.                       *)
LEMMA Aside ==
  ASSUME IInv, UNCHANGED << im, network, job >>
  PROVE  IInv'
  BY DEF IInv, Base, Status, HasJob, EndSent, IsDecodeFinished, DecoderHasSize

(* Types used by the steps.                                                *)
LEMMA SizeIsNat == ASSUME IInv PROVE im.file.size \in Nat /\ im \in ImageType
  BY DEF IInv, Base, ImageType, FileType

(* The actions, one by one.  Data that arrives.                            *)
LEMMA AddDataInv == ASSUME IInv, NEW n \in 1 .. im.file.size, AddData(n) PROVE IInv'
<1>1. n \in Nat
  BY SizeIsNat
<1>2. Calm(im) /\ ~ im.hasSourceData
  BY FreeIsCalm DEF AddData, IInv
<1>3. Keeps(im, AddSourceData(im, n))
  BY <1>1, <1>2, AddCalms
<1> QED BY <1>3, Keeping DEF AddData, Settle

(* The end of the data, noted outside the monitor.                         *)
LEMMA DataCompleteInv == ASSUME IInv, DataComplete PROVE IInv'
<1>1. CASE im.error
  <2>1. im' = im /\ job' = job /\ network' = "closed"
    BY <1>1 DEF DataComplete
  <2>2. (IsDecodeFinished(im) => IsDecodeFinished(im')) /\ (EndSent(im) => EndSent(im'))
    BY <2>1
  <2> QED BY <2>1, <2>2, SizeIsNat, Beside
<1>2. CASE ~ im.error
  <2> DEFINE j == [im EXCEPT !.hasSourceData = TRUE]
  <2>1. im' = j /\ job' = job /\ network' = "closed"
    BY <1>2 DEF DataComplete
  <2>2. /\ j \in ImageType /\ j.request = im.request /\ j.requests = im.requests /\ j.jobs = im.jobs /\ j.events = im.events
        /\ j.decoder = im.decoder /\ j.hasSourceData /\ j.file = im.file /\ j.source = im.source /\ j.bytesDecoded = im.bytesDecoded
    BY SizeIsNat DEF ImageType
  <2> HIDE DEF j
  <2>3. (IsDecodeFinished(im) => IsDecodeFinished(j)) /\ (EndSent(im) => EndSent(j))
    BY <2>2 DEF IsDecodeFinished, DecoderHasSize, EndSent
  <2> QED BY <2>1, <2>2, <2>3, Beside
<1> QED BY <1>1, <1>2

(* The rest of OnImageDataComplete.                                        *)
LEMMA CompleteInv == ASSUME IInv, CompleteSize \/ CompleteRest \/ CompleteStop PROVE IInv'
<1>1. CASE CompleteSize
  <2>1. Keeps(im, DecodeUntilSizeAvailable(im))
    BY <1>1, FreeIsCalm, UntilSizeCalms DEF CompleteSize
  <2> QED BY <2>1, <1>1, Keeping DEF CompleteSize, Settle
<1>2. CASE CompleteRest
  <2>1. Keeps(im, ImageDataComplete(im))
    BY <1>2, FreeIsCalm, CompleteCalms DEF CompleteRest
  <2> QED BY <2>1, <1>2, Keeping DEF CompleteRest, Settle
<1>3. CASE CompleteStop
  <2>1. Keeps(im, FinishedSomeDecoding(im))
    BY <1>3, FreeIsCalm, CalmIsAlmost, FinishedCalms DEF CompleteStop
  <2> QED BY <2>1, <1>3, Keeping DEF CompleteStop, Settle
<1> QED BY <1>1, <1>2, <1>3

(* A request put off until the decoder is left.                            *)
LEMMA LaterBeside ==
  ASSUME IInv, im' = Later, job' = job, network' = network
  PROVE  IInv'
<1> DEFINE e == [kind |-> "request", request |-> 0]
<1>1. e \in [kind : {"done", "error", "request"}, request : Nat]
  OBVIOUS
<1>2. im' = [im EXCEPT !.events = Append(@, e)]
  BY DEF Later, NoRequest
<1> HIDE DEF e
<1> QED BY <1>1, <1>2, SizeIsNat, AppendEnds, Beside DEF IInv

(* RequestDecode and StartDecoding.                                        *)
LEMMA CallRequestInv == ASSUME IInv, NEW call, CallRequest(call) PROVE IInv'
<1>1. job' = job /\ network' = network /\ (im' = Later \/ im' = im)
  BY DEF CallRequest, RequestDecode
<1> QED BY <1>1, LaterBeside, Aside

(* The size, first.                                                        *)
LEMMA SizeFirstInv == ASSUME IInv, SizeFirst PROVE IInv'
<1> DEFINE sized == DecodeUntilSizeAvailable(im)
           b == sized.wantFullDecode \/ NoSizeYet(sized)
           w == [sized EXCEPT !.wantFullDecode = b]
<1>1. Keeps(im, sized)
  BY FreeIsCalm, UntilSizeCalms DEF SizeFirst
<1>2. b \in BOOLEAN
  OBVIOUS
<1>3. im' = w /\ job' = job /\ network' = network /\ Free
  BY DEF SizeFirst, Settle
<1> HIDE DEF sized, b
<1>4. Keeps(im, w)
  BY <1>1, <1>2, WantedCalms DEF Keeps
<1> QED BY <1>3, <1>4, Keeping

(* Then the rest.                                                          *)
LEMMA DecodeRestInv == ASSUME IInv, DecodeRest PROVE IInv'
<1>1. Calm(im) /\ Free /\ job' = job /\ network' = network
  BY FreeIsCalm DEF DecodeRest
<1>2. CASE im' = SyncDecode(im)
  BY <1>1, <1>2, SyncCalms, Keeping
<1>3. CASE im' = RequestDecodeCore(im, FALSE, 0)
  <2>1. 0 \in Nat
    OBVIOUS
  <2>2. Keeps(im, RequestDecodeCore(im, FALSE, 0))
    BY <1>1, <2>1, RequestCoreCalms
  <2> QED BY <1>1, <1>3, <2>2, Keeping
<1>4. CASE \E k \in 1 .. im.file.size : im' = RequestDecodeCore(im, ~ im.hasBeenDecoded, k)
  <2>1. PICK k \in 1 .. im.file.size : im' = RequestDecodeCore(im, ~ im.hasBeenDecoded, k)
    BY <1>4
  <2>2. k \in Nat
    BY SizeIsNat
  <2>3. Keeps(im, RequestDecodeCore(im, ~ im.hasBeenDecoded, k))
    BY <1>1, <2>2, RequestCoreCalms
  <2> QED BY <1>1, <2>1, <2>3, Keeping
<1> QED BY <1>2, <1>3, <1>4 DEF DecodeRest, Settle

(* The last lock goes while a decoder is open.                             *)
LEMMA CancelInv == ASSUME IInv, CancelDecode PROVE IInv'
<1> DEFINE c == CloseIfFinished(im, "NotNeeded")
<1>1. Calm(im) /\ Free /\ job' = job /\ network' = network /\ im' = ForceDiscard(c)
  BY FreeIsCalm DEF CancelDecode
<1>2. Keeps(im, c) /\ ~ c.decoder.open
  BY <1>1, CalmIsAlmost, CloseCalms DEF Keeps
<1> HIDE DEF c
<1>3. Keeps(im, ForceDiscard(c))
  BY <1>2, DiscardCalms DEF Keeps
<1> QED BY <1>1, <1>3, Keeping

(* The frames are discarded.                                               *)
LEMMA DiscardInv == ASSUME IInv, Discard PROVE IInv'
<1>1. ~ im.decoder.open /\ im' = ForceDiscard(im) /\ job' = job /\ network' = network
  BY DEF Discard
<1>2. Free
  BY <1>1 DEF IInv, Free
<1>3. Keeps(im, ForceDiscard(im))
  BY <1>1, <1>2, FreeIsCalm, DiscardCalms
<1> QED BY <1>1, <1>2, <1>3, Keeping

(* An event of the main thread: the end of a job closes what is finished,  *)
(* so that it is not missed when it leaves the queue.                      *)
LEMMA HandleEventInv == ASSUME IInv, HandleEvent PROVE IInv'
<1> DEFINE e == Head(im.events)
           rest == [im EXCEPT !.events = Tail(@)]
<1>1. /\ rest \in ImageType /\ rest.request = im.request /\ rest.requests = im.requests /\ rest.jobs = im.jobs
      /\ rest.decoder = im.decoder /\ rest.hasSourceData = im.hasSourceData /\ rest.file = im.file /\ (IsDecodeFinished(im) => IsDecodeFinished(rest))
      /\ e \in [kind : {"done", "error", "request"}, request : Nat]
      /\ e.kind # "done" /\ EndSent(im) => EndSent(rest)
  BY SizeIsNat, TailEnds DEF HandleEvent
<1>2. job' = job /\ network' = network
  BY DEF HandleEvent
<1>3. CASE e.kind = "done"
  <2>1. Free /\ im' = FinishedSomeDecoding(rest)
    BY <1>3 DEF HandleEvent, Settle
  <2> HIDE DEF e, rest
  <2>2. Almost(rest)
    BY <1>1, <2>1, FreeIsCalm, CalmIsAlmost, AlmostFrame
  <2>3. Keeps(im, FinishedSomeDecoding(rest))
    BY <1>1, <2>2, FinishedCalms DEF Keeps
  <2> QED BY <1>2, <2>1, <2>3, Keeping
<1>4. CASE e.kind = "error"
  <2>1. Free /\ im' = DoError(rest)
    BY <1>4 DEF HandleEvent, Settle
  <2> HIDE DEF e, rest
  <2>2. Calm(rest)
    BY <1>1, <1>4, <2>1, FreeIsCalm, CalmFrame
  <2>3. Keeps(im, DoError(rest))
    BY <1>1, <2>2, ErrorCalms DEF Keeps
  <2> QED BY <1>2, <2>1, <2>3, Keeping
<1>5. CASE e.kind = "request"
  <2>1. im' = rest \/ im' = [rest EXCEPT !.events = Append(@, e)]
    BY <1>5 DEF HandleEvent
  <2> HIDE DEF e, rest
  <2>2. /\ im' \in ImageType /\ im'.request = im.request /\ im'.requests = im.requests /\ im'.jobs = im.jobs
        /\ im'.decoder = im.decoder /\ im'.hasSourceData = im.hasSourceData /\ im'.file = im.file /\ (IsDecodeFinished(im) => IsDecodeFinished(im'))
        /\ EndSent(im) => EndSent(im')
    <3>1. CASE im' = rest
      BY <1>1, <1>5, <3>1
    <3>2. CASE im' = [rest EXCEPT !.events = Append(@, e)]
      BY <1>1, <1>5, <3>2, AppendEnds
    <3> QED BY <2>1, <3>1, <3>2
  <2> QED BY <1>2, <2>2, Beside DEF IInv
<1> QED BY <1>1, <1>3, <1>4, <1>5

(* The length and the elements of a part of a sequence.                    *)
LEMMA Slice ==
  ASSUME NEW s \in Seq(Nat), NEW p \in Int, NEW q \in Int, 1 <= p, p <= q + 1, q <= Len(s)
  PROVE  LET c == SubSeq(s, p, q)
         IN  c \in Seq(Nat) /\ Len(c) = q - p + 1 /\ \A n \in 1 .. q - p + 1 : c[n] = s[p + n - 1]
<1>1. \A n \in p .. q : s[n] \in Nat
  OBVIOUS
<1> QED BY <1>1, SubSeqProperties

(* RemoveAt removes one element.                                           *)
LEMMA Removed ==
  ASSUME NEW s \in Seq(Nat), NEW k \in DOMAIN s
  PROVE  LET t == RemoveAt(s, k)
         IN  /\ t \in Seq(Nat) /\ \A n \in DOMAIN t : \E m \in DOMAIN s : t[n] = s[m]
             /\ \A m \in DOMAIN s : m # k => \E n \in DOMAIN t : t[n] = s[m]
<1> DEFINE a == SubSeq(s, 1, k - 1)
           b == SubSeq(s, k + 1, Len(s))
           t == RemoveAt(s, k)
<1>1. k \in 1 .. Len(s) /\ Len(s) \in Nat
  OBVIOUS
<1>9. k \in Int /\ Len(s) \in Int /\ 1 <= k /\ k <= Len(s)
  BY <1>1
<1>2. a \in Seq(Nat) /\ Len(a) = k - 1 /\ \A n \in 1 .. k - 1 : a[n] = s[n]
  <2>1. PICK q \in Int : q = k - 1
    BY <1>9
  <2>2. a = SubSeq(s, 1, q) /\ 1 <= q + 1 /\ q <= Len(s)
    BY <1>9, <2>1
  <2> HIDE DEF a
  <2>3. LET c == SubSeq(s, 1, q)
        IN  c \in Seq(Nat) /\ Len(c) = q - 1 + 1 /\ \A n \in 1 .. q - 1 + 1 : c[n] = s[1 + n - 1]
    BY <2>2, Slice
  <2>4. a \in Seq(Nat) /\ Len(a) = q - 1 + 1 /\ \A n \in 1 .. q - 1 + 1 : a[n] = s[1 + n - 1]
    BY <2>2, <2>3
  <2>5. q - 1 + 1 = k - 1 /\ \A n \in 1 .. q - 1 + 1 : 1 + n - 1 = n
    BY <2>1
  <2> QED BY <2>5, <2>4
<1>3. b \in Seq(Nat) /\ Len(b) = Len(s) - k /\ \A n \in 1 .. Len(s) - k : b[n] = s[k + n]
  <2>1. PICK p \in Int : p = k + 1
    BY <1>9
  <2>2. PICK q \in Int : q = Len(s)
    BY <1>9
  <2>3. 1 <= p /\ p <= q + 1 /\ q <= Len(s)
    BY <1>9, <2>1, <2>2
  <2>4. b = SubSeq(s, p, q)
    BY <2>1, <2>2
  <2> HIDE DEF b
  <2>5. LET c == SubSeq(s, p, q)
        IN  c \in Seq(Nat) /\ Len(c) = q - p + 1 /\ \A n \in 1 .. q - p + 1 : c[n] = s[p + n - 1]
    BY <2>3, Slice
  <2>6. b \in Seq(Nat) /\ Len(b) = q - p + 1 /\ \A n \in 1 .. q - p + 1 : b[n] = s[p + n - 1]
    BY <2>4, <2>5
  <2>7. q - p + 1 = Len(s) - k
    BY <1>9, <2>1, <2>2
  <2>8. ASSUME NEW n \in 1 .. Len(s) - k PROVE b[n] = s[k + n]
    <3>1. p + n - 1 = k + n
      BY <1>9, <2>1
    <3> QED BY <2>6, <2>7, <3>1
  <2> QED BY <2>6, <2>7, <2>8
<1>4. t = a \o b
  BY DEF RemoveAt
<1> HIDE DEF a, b, t
<1>8. Len(a) = k - 1 /\ Len(b) = Len(s) - k
  BY <1>2, <1>3
<1>5. /\ t \in Seq(Nat) /\ Len(t) = Len(s) - 1
      /\ \A n \in 1 .. k - 1 : t[n] = s[n]
      /\ \A n \in k .. Len(s) - 1 : t[n] = s[n + 1]
  <2>1. /\ t \in Seq(Nat) /\ Len(t) = Len(a) + Len(b)
        /\ \A n \in 1 .. Len(a) + Len(b) : t[n] = IF n <= Len(a) THEN a[n] ELSE b[n - Len(a)]
    BY <1>2, <1>3, <1>4, ConcatProperties
  <2>2. ASSUME NEW n \in 1 .. k - 1 PROVE t[n] = s[n]
    <3>1. n \in 1 .. Len(a) + Len(b) /\ n <= Len(a)
      BY <1>1, <1>8
    <3> QED BY <3>1, <2>1, <1>2
  <2>3. ASSUME NEW n \in k .. Len(s) - 1 PROVE t[n] = s[n + 1]
    <3>0. k \in Nat /\ k >= 1 /\ n \in Nat /\ k <= n /\ n <= Len(s) - 1
      BY <1>1
    <3>1. n \in 1 .. Len(a) + Len(b) /\ ~ n <= Len(a) /\ n - (k - 1) \in 1 .. Len(s) - k
      <4>1. Len(a) + Len(b) = Len(s) - 1
        BY <3>0, <1>1, <1>8
      <4>2. n \in 1 .. Len(s) - 1
        BY <3>0, <1>1
      <4>3. ~ n <= Len(a)
        BY <3>0, <1>8
      <4>4. n - (k - 1) \in 1 .. Len(s) - k
        BY <3>0, <1>1
      <4> QED BY <4>1, <4>2, <4>3, <4>4
    <3>2. t[n] = b[n - Len(a)]
      BY <3>1, <2>1
    <3>3. b[n - (k - 1)] = s[k + (n - (k - 1))]
      BY <3>1, <1>3
    <3>4. n - Len(a) = n - (k - 1)
      BY <1>8
    <3>5. k + (n - (k - 1)) = n + 1
      BY <3>0
    <3> QED BY <3>2, <3>3, <3>4, <3>5
  <2> QED BY <1>1, <1>2, <1>3, <2>1, <2>2, <2>3
<1>6. ASSUME NEW n \in DOMAIN t PROVE \E m \in DOMAIN s : t[n] = s[m]
  <2>1. n \in 1 .. Len(s) - 1
    BY <1>1, <1>5
  <2>2. CASE n <= k - 1
    <3>1. n \in 1 .. k - 1 /\ n \in DOMAIN s
      BY <1>1, <2>1, <2>2
    <3> QED BY <3>1, <1>5
  <2>3. CASE n >= k
    <3>1. n \in k .. Len(s) - 1 /\ n + 1 \in DOMAIN s
      BY <1>1, <2>1, <2>3
    <3> QED BY <3>1, <1>5
  <2> QED BY <1>1, <2>1, <2>2, <2>3
<1>7. ASSUME NEW m \in DOMAIN s, m # k PROVE \E n \in DOMAIN t : t[n] = s[m]
  <2>1. m \in 1 .. Len(s)
    OBVIOUS
  <2>2. CASE m < k
    <3>1. m \in 1 .. k - 1 /\ m \in DOMAIN t
      BY <1>1, <1>5, <2>1, <2>2
    <3> QED BY <3>1, <1>5
  <2>3. CASE m > k
    <3>1. m - 1 \in k .. Len(s) - 1 /\ m - 1 \in DOMAIN t
      BY <1>1, <1>5, <2>1, <2>3
    <3>2. t[m - 1] = s[(m - 1) + 1]
      BY <3>1, <1>5
    <3>3. (m - 1) + 1 = m
      BY <2>1
    <3> QED BY <3>1, <3>2, <3>3
  <2> QED BY <1>1, <1>7, <2>1, <2>2, <2>3
<1> QED BY <1>5, <1>6, <1>7 DEF t

(* A job starts, or finds that there is nothing to do and sends its end.   *)
LEMMA JobStartInv == ASSUME IInv, NEW k, JobStart(k) PROVE IInv'
<1> DEFINE r == im.jobs[k]
           jobs == RemoveAt(im.jobs, k)
           taken == [im EXCEPT !.jobs = RemoveAt(@, k)]
<1>1. Free /\ Calm(im) /\ Base(im) /\ im \in ImageType /\ k \in DOMAIN im.jobs /\ network' = network
  BY FreeIsCalm DEF JobStart, IInv, Base
<1>2. /\ im.jobs \in Seq(Nat) /\ r \in DOMAIN im.requests /\ r \in Nat /\ im.requests \in Seq(RequestType)
  BY <1>1 DEF Base, ImageType
<1>3. /\ jobs \in Seq(Nat) /\ \A n \in DOMAIN jobs : \E m \in DOMAIN im.jobs : jobs[n] = im.jobs[m]
      /\ \A m \in DOMAIN im.jobs : m # k => \E n \in DOMAIN jobs : jobs[n] = im.jobs[m]
  BY <1>1, <1>2, Removed
<1>4. taken = [im EXCEPT !.jobs = jobs]
  OBVIOUS
<1> DEFINE stop == im.requests[r].status = "STOPPED" \/ ~ im.decoder.open \/ IsDecodeFinished(im)
<1>5. stop => im' = Done(taken, r) /\ job' = job
  BY DEF JobStart
<1>6. ~ stop => /\ im' = [taken EXCEPT !.requests[r].status = "ACTIVE"]
                /\ \E left \in {0, Left(im), im.requests[r].bytesToDecode} :
                       job' = [on |-> TRUE, request |-> r, old |-> im.bytesDecoded, left |-> left]
  BY DEF JobStart
<1> HIDE DEF jobs, taken
<1>7. /\ taken \in ImageType /\ taken.request = im.request /\ taken.requests = im.requests /\ taken.jobs = jobs
      /\ taken.events = im.events /\ taken.decoder = im.decoder /\ taken.hasSourceData = im.hasSourceData
      /\ taken.file = im.file /\ taken.source = im.source /\ taken.bytesDecoded = im.bytesDecoded
  BY <1>1, <1>3, <1>4 DEF ImageType
<1>8. \A n \in DOMAIN jobs : jobs[n] \in DOMAIN im.requests
  BY <1>1, <1>3 DEF Base
<1>9. Base(taken) /\ Status(taken) = Status(im)
  BY <1>1, <1>7, <1>8 DEF Base, Status
<1>10. CASE stop
  <2> DEFINE e == [kind |-> "done", request |-> r]
  <2>1. e \in [kind : {"done", "error", "request"}, request : Nat] /\ e.request = r
    BY <1>2
  <2>2. im' = [taken EXCEPT !.events = Append(@, e)] /\ job' = job
    BY <1>5, <1>10 DEF Done
  <2>3. /\ im' \in ImageType /\ im'.request = im.request /\ im'.requests = im.requests /\ im'.jobs = jobs
        /\ im'.decoder = im.decoder /\ im'.hasSourceData = im.hasSourceData /\ im'.file = im.file /\ (IsDecodeFinished(taken) => IsDecodeFinished(im'))
        /\ EndSent(taken) => EndSent(im')
        /\ r = im.request => EndSent(im')
    <3>1. taken \in ImageType /\ r = e.request /\ e.kind = "done"
      BY <1>7, <2>1
    <3> HIDE DEF r, e
    <3>2. /\ im' \in ImageType /\ im'.request = taken.request /\ im'.requests = taken.requests /\ im'.jobs = taken.jobs
          /\ im'.decoder = taken.decoder /\ im'.hasSourceData = taken.hasSourceData /\ im'.file = taken.file
          /\ (IsDecodeFinished(taken) => IsDecodeFinished(im')) /\ (EndSent(taken) => EndSent(im'))
          /\ e = [kind |-> "done", request |-> taken.request] => EndSent(im')
      BY <3>1, <2>1, <2>2, AppendEnds
    <3>3. r = im.request => e = [kind |-> "done", request |-> taken.request]
      BY <1>7 DEF e
    <3> QED BY <1>7, <3>2, <3>3
  <2> HIDE DEF r, e
  <2>4. Base(im)' /\ Status(im') = Status(im)
    <3>1. Base(im') /\ Status(im') = Status(taken)
      BY <1>7, <1>9, <2>3, BaseFrame
    <3> QED BY <3>1, <1>9
  <2>5. (IsDecodeFinished(im) => IsDecodeFinished(taken)) /\ (EndSent(im) => EndSent(taken))
    BY <1>7 DEF IsDecodeFinished, DecoderHasSize, EndSent
  <2>6. ASSUME Status(im) = "PENDING" PROVE HasJob(im') \/ (IsDecodeFinished(im') /\ EndSent(im'))
    <3>1. CASE IsDecodeFinished(im) /\ EndSent(im)
      BY <3>1, <2>3, <2>5
    <3>2. CASE \E m \in DOMAIN im.jobs : m # k /\ im.jobs[m] = im.request
      BY <3>2, <1>3, <2>3 DEF HasJob
    <3>3. CASE r = im.request
      <4>1. im.request # 0 /\ im.requests[r].status = "PENDING"
        BY <2>6, <3>3 DEF Status, NoRequest
      <4>2. im.decoder.open
        BY <2>6, <1>1 DEF Base
      <4>3. IsDecodeFinished(im)
        BY <4>1, <4>2, <1>10
      <4> QED BY <4>3, <3>3, <2>3, <2>5
    <3> QED BY <3>1, <3>2, <3>3, <2>6, <1>1 DEF Calm, HasJob, r
  <2> QED BY <1>1, <2>2, <2>3, <2>4, <2>6 DEF IInv, Free
<1>11. CASE ~ stop
  <2> DEFINE rs == [im.requests EXCEPT ![r].status = "ACTIVE"]
  <2>1. "ACTIVE" \in StatusType
    BY DEF StatusType
  <2>2. /\ rs \in Seq(RequestType) /\ Len(rs) = Len(im.requests) /\ DOMAIN rs = DOMAIN im.requests
        /\ \A x \in DOMAIN im.requests : rs[x].status = IF x = r THEN "ACTIVE" ELSE im.requests[x].status
    BY <1>2, <2>1, StatusSet
  <2>3. r = im.request /\ r # 0 /\ im.decoder.open
    BY <1>1, <1>2, <1>11 DEF Base
  <2>4. im' = [taken EXCEPT !.requests = rs]
    BY <1>6, <1>7, <1>11
  <2>5. PICK left \in {0, Left(im), im.requests[r].bytesToDecode} :
            job' = [on |-> TRUE, request |-> r, old |-> im.bytesDecoded, left |-> left]
    BY <1>6, <1>11
  <2>6. left \in Int /\ im.bytesDecoded \in Int
    <3>1. im.requests[r] \in RequestType
      BY <1>2
    <3> QED BY <3>1, <1>1, <2>5, ImageFields DEF RequestType
  <2> HIDE DEF rs, r
  <2>7. /\ im' \in ImageType /\ im'.request = r /\ im'.requests = rs /\ im'.jobs = jobs
        /\ im'.decoder = im.decoder /\ im'.hasSourceData = im.hasSourceData /\ im'.file = im.file
    BY <1>7, <2>2, <2>3, <2>4 DEF ImageType
  <2>8. \A x \in DOMAIN rs : x # r => rs[x].status = "STOPPED"
    BY <1>1, <2>2, <2>3 DEF Base
  <2>9. Base(im)'
    BY <1>1, <1>8, <2>2, <2>3, <2>7, <2>8 DEF Base
  <2>10. Status(im)' = "ACTIVE"
    BY <1>2, <2>2, <2>3, <2>7 DEF Status, NoRequest
  <2>11. job' \in JobType /\ job'.on /\ job'.request = r
    BY <1>2, <2>5, <2>6 DEF JobType
  <2> QED BY <1>1, <2>3, <2>7, <2>9, <2>10, <2>11 DEF IInv
<1> QED BY <1>10, <1>11

(* A job decodes a chunk.                                                  *)
LEMMA JobChunkInv == ASSUME IInv, JobChunk PROVE IInv'
<1> DEFINE chunk == IF im.decoder.full THEN Smaller(job.left, ChunkBytes) ELSE Smaller(job.left, im.source)
           n == Smaller(chunk, Left(im))
           k == im.bytesDecoded + n
           error == [kind |-> "error", request |-> 0]
           es == IF im.pendingError THEN im.events ELSE Append(im.events, error)
           f == [im EXCEPT !.decoder.failed = TRUE]
<1>1. /\ im' = WriteInPool(im, n) /\ job' = [job EXCEPT !.left = @ - chunk] /\ network' = network
      /\ job.on
  BY DEF JobChunk
<1>2. /\ im \in ImageType /\ Base(im) /\ job \in JobType /\ im.decoder.open /\ job.request = im.request /\ Status(im) = "ACTIVE"
  BY <1>1 DEF IInv, Base
<1>3. job.left \in Int /\ im.source \in Int /\ im.bytesDecoded \in Int /\ Left(im) \in Int /\ ChunkBytes \in Int
  BY <1>2, ChunkBytesAssumption DEF ImageType, JobType, Left
<1>4. chunk \in Int
  BY <1>3 DEF Smaller
<1>5. k \in Int
  BY <1>3, <1>4 DEF Smaller
<1>6. es \in Seq([kind : {"done", "error", "request"}, request : Nat])
  <2> DEFINE Event == [kind : {"done", "error", "request"}, request : Nat]
  <2>1. error \in Event /\ im.events \in Seq(Event)
    BY <1>2 DEF ImageType
  <2> HIDE DEF error, Event
  <2>2. es \in Seq(Event)
    BY <2>1
  <2> QED BY <2>2 DEF Event
<1>7. /\ f \in ImageType /\ f.request = im.request /\ f.requests = im.requests /\ f.jobs = im.jobs
      /\ f.decoder.open = im.decoder.open /\ f.hasSourceData = im.hasSourceData /\ f.file = im.file
  BY <1>2 DEF ImageType
<1>8. im' = [im EXCEPT !.bytesDecoded = k] \/ im' = [f EXCEPT !.pendingError = TRUE, !.events = es]
  <2>1. CASE Fails(im, n)
    BY <1>1, <1>2, <2>1 DEF WriteInPool, NoRequest, ImageType
  <2>2. CASE ~ Fails(im, n)
    BY <1>1, <2>2 DEF WriteInPool
  <2> QED BY <2>1, <2>2
<1>9. job' \in JobType /\ job'.on /\ job'.request = job.request
  <2> HIDE DEF chunk
  <2>1. job.left - chunk \in Int
    BY <1>3, <1>4
  <2> QED BY <1>1, <1>2, <2>1 DEF JobType
<1> HIDE DEF k, es, f
<1>10. /\ im' \in ImageType /\ im'.request = im.request /\ im'.requests = im.requests /\ im'.jobs = im.jobs
       /\ im'.decoder.open = im.decoder.open /\ im'.hasSourceData = im.hasSourceData /\ im'.file = im.file
  <2>1. CASE im' = [im EXCEPT !.bytesDecoded = k]
    BY <1>2, <1>5, <2>1 DEF ImageType
  <2>2. CASE im' = [f EXCEPT !.pendingError = TRUE, !.events = es]
    BY <1>6, <1>7, <2>2 DEF ImageType
  <2> QED BY <1>8, <2>1, <2>2
<1>11. Base(im') /\ Status(im') = "ACTIVE"
  BY <1>2, <1>10, BaseFrame
<1> QED BY <1>1, <1>2, <1>9, <1>10, <1>11 DEF IInv

(* A job ends: it asks for another one or sends its end.                   *)
LEMMA JobEndInv == ASSUME IInv, JobEnd PROVE IInv'
<1> DEFINE r == job.request
           ended == JobEnded(r)
           rs == [im.requests EXCEPT ![r].status = "WORK_DONE"]
           e == [kind |-> "done", request |-> r]
<1>1. /\ job.on /\ job' = Idle /\ network' = network
      /\ im' = PoolRequestDecode(ended) \/ im' = Done(ended, r)
  BY DEF JobEnd
<1>2. /\ im \in ImageType /\ Base(im) /\ job \in JobType /\ im.decoder.open /\ r = im.request /\ r # 0 /\ r \in Nat
      /\ im.requests \in Seq(RequestType) /\ r \in DOMAIN im.requests
  BY <1>1 DEF IInv, Base, ImageType
<1>3. "WORK_DONE" \in StatusType
  BY DEF StatusType
<1>4. /\ rs \in Seq(RequestType) /\ Len(rs) = Len(im.requests) /\ DOMAIN rs = DOMAIN im.requests
      /\ \A x \in DOMAIN im.requests : rs[x].status = IF x = r THEN "WORK_DONE" ELSE im.requests[x].status
  BY <1>2, <1>3, StatusSet
<1>5. ended = [im EXCEPT !.requests = rs]
  BY DEF JobEnded
<1>6. e \in [kind : {"done", "error", "request"}, request : Nat]
  BY <1>2
<1>7. Done(ended, r) = [ended EXCEPT !.events = Append(@, e)]
  BY DEF Done
<1> HIDE DEF r, ended, rs, e
<1>8. /\ ended \in ImageType /\ ended.request = im.request /\ ended.requests = rs /\ ended.jobs = im.jobs
      /\ ended.decoder = im.decoder /\ ended.hasSourceData = im.hasSourceData /\ ended.file = im.file
  BY <1>2, <1>4, <1>5 DEF ImageType
<1>9. \A x \in DOMAIN rs : x # r => rs[x].status = "STOPPED"
  BY <1>2, <1>4 DEF Base
<1>10. Base(ended) /\ Status(ended) = "WORK_DONE"
  BY <1>2, <1>4, <1>8, <1>9 DEF Base, Status, NoRequest
<1>11. Calm(ended)
  BY <1>10 DEF Calm
<1>12. Keeps(im, PoolRequestDecode(ended))
  BY <1>2, <1>8, <1>11, RequestCalms DEF Keeps
<1>13. Keeps(im, Done(ended, r))
  <2> DEFINE d == [ended EXCEPT !.events = Append(@, e)]
  <2>1. /\ d \in ImageType /\ d.request = ended.request /\ d.requests = ended.requests /\ d.jobs = ended.jobs
        /\ d.decoder = ended.decoder /\ d.hasSourceData = ended.hasSourceData /\ d.file = ended.file /\ (IsDecodeFinished(ended) => IsDecodeFinished(d))
        /\ EndSent(ended) => EndSent(d)
    BY <1>6, <1>8, AppendEnds
  <2> HIDE DEF d
  <2>2. Calm(d)
    BY <1>11, <2>1, CalmFrame
  <2>3. Done(ended, r) = d
    BY <1>7 DEF d
  <2> QED BY <1>8, <2>1, <2>2, <2>3 DEF Keeps
<1>14. Calm(im') /\ im'.hasSourceData = im.hasSourceData /\ im'.file = im.file
  BY <1>1, <1>12, <1>13 DEF Keeps
<1>15. job' \in JobType /\ ~ job'.on
  BY <1>1 DEF Idle, JobType, NoRequest
<1> QED BY <1>1, <1>14, <1>15 DEF IInv, Calm

(* Every step keeps the invariant.                                         *)
LEMMA NextInv == IInv /\ [Next]_vars => IInv'
<1> SUFFICES ASSUME IInv, [Next]_vars PROVE IInv'
  OBVIOUS
<1>1. CASE Network
  BY <1>1, AddDataInv, DataCompleteInv DEF Network
<1>2. CASE Step
  BY <1>2, CompleteInv, SizeFirstInv, DecodeRestInv, CancelInv, HandleEventInv DEF Step
<1>3. CASE Pool
  BY <1>3, JobStartInv, JobChunkInv, JobEndInv DEF Pool
<1>4. CASE \E call \in {"request", "start"} : CallRequest(call)
  BY <1>4, CallRequestInv
<1>5. CASE CallDraw \/ LockImage \/ UnlockImage
  BY <1>5, Aside DEF CallDraw, LockImage, UnlockImage
<1>6. CASE Discard
  BY <1>6, DiscardInv
<1>7. CASE Finished \/ UNCHANGED vars
  BY <1>7, Aside DEF Finished, vars
<1> QED BY <1>1, <1>2, <1>3, <1>4, <1>5, <1>6, <1>7 DEF Next

(* The invariant implies the property.                                     *)
LEMMA InvImplies == IInv => PendingHasJob
  BY DEF IInv, PendingHasJob, HasJob, EndSent

(* A request that is awaited has a job, or its end is on its way to the    *)
(* main thread, whatever the files, the number of threads and the order of *)
(* their steps.                                                            *)
THEOREM NeverForgotten == Spec => []PendingHasJob
<1>1. Spec => []IInv
  BY InitInv, NextInv, PTL DEF Spec
<1> QED BY <1>1, InvImplies, PTL

-----------------------------------------------------------------------------
MainType == [call : {"none", "request", "start", "draw", "complete", "unlock"}, step : {"none", "size", "rest", "stop"}]

(* What the main thread counts on after it has let go of the monitor.      *)
MainOK ==
  /\ main \in MainType
  /\ main.call = "unlock" => main.step = "rest" /\ im.hasBeenDecoded /\ im.file.storing /\ im.hasSourceData
  /\ main.call = "complete" /\ main.step \in {"size", "rest"} => im.hasSourceData
  /\ main.step = "rest" /\ main.call \in {"request", "start", "draw"} => ~ SizeOpen(im)

Healthy == sent \in Nat /\ Sound(im, sent) /\ Fed(im) /\ MainOK

(* What a step beside the monitor leaves of the image.                     *)
Steady(i, j) ==
  /\ j.file = i.file /\ j.hasSourceData = i.hasSourceData /\ (j.hasBeenDecoded <=> i.hasBeenDecoded)
  /\ j.decoder.open = i.decoder.open /\ j.decoder.full = i.decoder.full

(* The main thread at rest.                                                *)
LEMMA AtRestOK == AtRest \in MainType /\ AtRest.call = "none" /\ AtRest.step = "none"
  BY DEF AtRest, MainType

(* Nothing is asked of the image while the main thread is at rest.         *)
LEMMA RestOK == ASSUME main' = AtRest PROVE MainOK'
  BY AtRestOK DEF MainOK

(* A step that leaves the decoder open or closed leaves what the main      *)
(* thread counts on.                                                       *)
LEMMA SteadyMain == ASSUME MainOK, main' = main, Steady(im, im') PROVE MainOK'
  BY DEF MainOK, Steady, SizeOpen

(* What changes no field but requests and jobs is steady.                  *)
LEMMA SameSteady == ASSUME NEW i, NEW j, Same(i, j) PROVE Steady(i, j)
  BY DEF Same, Steady

(* The event queue matters only for the errors in it.                      *)
LEMMA EventsSound ==
  ASSUME NEW i, NEW s, i \in ImageType, Sound(i, s), Fed(i), NEW es \in Seq([kind : {"done", "error", "request"}, request : Nat]),
         \A n \in DOMAIN es : es[n].kind = "error" => i.pendingError
  PROVE  LET j == [i EXCEPT !.events = es]
         IN  Sound(j, s) /\ Fed(j) /\ Steady(i, j) /\ j.pendingError = i.pendingError /\ j.decoder = i.decoder /\ j.error = i.error
<1> DEFINE j == [i EXCEPT !.events = es]
<1>1. /\ j.file = i.file /\ j.hasSize = i.hasSize /\ j.hasSourceData = i.hasSourceData /\ j.pendingError = i.pendingError
      /\ j.events = es /\ j.error = i.error /\ j.bytesDecoded = i.bytesDecoded
      /\ j.source = i.source /\ j.decoder = i.decoder /\ j.decoded = i.decoded /\ j.wantFullDecode = i.wantFullDecode
      /\ j.hasBeenDecoded = i.hasBeenDecoded /\ j.shown = i.shown /\ j.assert = i.assert
  BY DEF ImageType
<1> HIDE DEF j
<1>2. Sound(j, s) /\ Fed(j)
  BY <1>1 DEF Sound, Parts, Fresh, Fed, FullOpen, SizeOpen
<1>3. Steady(i, j)
  BY <1>1 DEF Steady
<1> QED BY <1>1, <1>2, <1>3 DEF j

(* Taking an event keeps an image sound; an error in the queue is pending. *)
LEMMA TailSound ==
  ASSUME NEW i, NEW s, i \in ImageType, i.events # << >>, Sound(i, s), Fed(i)
  PROVE  LET j == [i EXCEPT !.events = Tail(@)]
         IN  /\ Sound(j, s) /\ Fed(j) /\ Steady(i, j) /\ j.pendingError = i.pendingError /\ j.decoder = i.decoder /\ j.error = i.error
             /\ Head(i.events).kind = "error" => i.pendingError
<1> DEFINE es == Tail(i.events)
           Event == [kind : {"done", "error", "request"}, request : Nat]
<1>1. i.events \in Seq(Event)
  BY DEF ImageType
<1> HIDE DEF Event
<1>2. /\ es \in Seq(Event) /\ Head(i.events) = i.events[1] /\ 1 \in DOMAIN i.events
      /\ \A n \in DOMAIN es : n + 1 \in DOMAIN i.events /\ es[n] = i.events[n + 1]
  BY <1>1
<1> HIDE DEF es
<1>3. \A n \in DOMAIN i.events : i.events[n].kind = "error" => i.pendingError
  BY DEF Sound, Parts
<1>4. \A n \in DOMAIN es : es[n].kind = "error" => i.pendingError
  BY <1>2, <1>3
<1>5. Head(i.events).kind = "error" => i.pendingError
  BY <1>2, <1>3
<1> QED BY <1>2, <1>4, <1>5, EventsSound DEF Event, es

(* So does sending one that is no error.                                   *)
LEMMA AppendSound ==
  ASSUME NEW i, NEW s, i \in ImageType, Sound(i, s), Fed(i),
         NEW e \in [kind : {"done", "error", "request"}, request : Nat], e.kind # "error"
  PROVE  LET j == [i EXCEPT !.events = Append(@, e)]
         IN  Sound(j, s) /\ Fed(j) /\ Steady(i, j) /\ j.decoder = i.decoder
<1> DEFINE es == Append(i.events, e)
           Event == [kind : {"done", "error", "request"}, request : Nat]
<1>1. i.events \in Seq(Event) /\ e \in Event
  BY DEF ImageType
<1> HIDE DEF Event
<1>2. /\ es \in Seq(Event)
      /\ \A n \in DOMAIN es : es[n] = e \/ (n \in DOMAIN i.events /\ es[n] = i.events[n])
  BY <1>1
<1> HIDE DEF es
<1>3. \A n \in DOMAIN i.events : i.events[n].kind = "error" => i.pendingError
  BY DEF Sound, Parts
<1>4. \A n \in DOMAIN es : es[n].kind = "error" => i.pendingError
  BY <1>2, <1>3
<1> QED BY <1>2, <1>4, EventsSound DEF Event, es

(* The image is sound at first.                                            *)
LEMMA InitHealthy == Init => Healthy
<1> SUFFICES ASSUME Init PROVE Healthy
  OBVIOUS
<1>1. PICK f \in Files : im = NewImage(f)
  BY DEF Init
<1>2. f \in FileType
  BY FilesAssumption DEF FileType
<1>3. /\ im.assert /\ ~ im.decoded /\ ~ im.hasSize /\ ~ im.hasBeenDecoded /\ ~ im.error /\ ~ im.pendingError
      /\ im.events = << >> /\ im.source = 0 /\ ~ im.hasSourceData /\ im.decoder = Open(FALSE)
      /\ (im.wantFullDecode <=> ~ im.file.storing)
  BY <1>1 DEF NewImage
<1>4. sent \in Nat /\ sent = 0 /\ main = AtRest
  BY DEF Init
<1>5. im.decoder.open /\ ~ im.decoder.full
  BY <1>3 DEF Open
<1>8. (\A n \in DOMAIN im.events : im.events[n].kind = "error" => im.pendingError) /\ im.source <= sent /\ im.source = sent
  BY <1>3, <1>4
<1>6. Sound(im, sent) /\ Fed(im)
  BY <1>3, <1>5, <1>8 DEF Sound, Parts, Fresh, Fed, FullOpen, SizeOpen
<1>7. MainOK
  BY <1>4, AtRestOK DEF MainOK
<1> QED BY <1>4, <1>6, <1>7 DEF Healthy

(* While nobody holds the monitor the image is good.                       *)
LEMMA IdleGood == ASSUME IInv, Healthy, Free PROVE Good(im, sent) /\ Calm(im)
  BY FreeIsCalm DEF Healthy, Good

(* A step of the main thread that leaves a good image.                     *)
LEMMA GoodHealthy ==
  ASSUME Healthy, NEW next, im' = next, Good(next, sent), sent' = sent, MainOK'
  PROVE  Healthy'
  BY DEF Healthy, Good

(* The actions, one by one.  Data that arrives.                            *)
LEMMA AddDataHealthy == ASSUME IInv, Healthy, NEW n \in 1 .. im.file.size, AddData(n) PROVE Healthy'
<1>1. n \in Nat /\ sent \in Nat
  BY SizeIsNat DEF Healthy
<1>2. Good(im, sent) /\ ~ im.hasSourceData
  BY IdleGood DEF AddData, IInv
<1>3. Good(AddSourceData(im, n), sent + n)
  BY <1>1, <1>2, AddGood
<1>4. im' = AddSourceData(im, n) /\ sent' = sent + n /\ main' = AtRest
  BY DEF AddData, Settle
<1>5. sent + n \in Nat
  BY <1>1
<1>6. Sound(im', sent') /\ Fed(im') /\ sent' \in Nat
  BY <1>3, <1>4, <1>5 DEF Good
<1> QED BY <1>4, <1>6, RestOK DEF Healthy

(* The end of the data: all of the file has been sent.                     *)
LEMMA DataCompleteHealthy == ASSUME IInv, Healthy, DataComplete PROVE Healthy'
<1>1. sent' = sent /\ sent = im.file.size
  BY DEF DataComplete
<1>2. CASE im.error
  <2>1. im' = im /\ main' = Going("complete", "stop")
    BY <1>2 DEF DataComplete
  <2>2. MainOK'
    BY <2>1 DEF MainOK, Going, MainType
  <2> QED BY <1>1, <2>1, <2>2 DEF Healthy
<1>3. CASE ~ im.error
  <2> DEFINE j == [im EXCEPT !.hasSourceData = TRUE]
  <2>1. im' = j /\ main' = Going("complete", IF im.decoder.open THEN "size" ELSE "rest")
    BY <1>3 DEF DataComplete
  <2>2. /\ j.file = im.file /\ j.hasSize = im.hasSize /\ j.hasSourceData /\ j.pendingError = im.pendingError
        /\ j.events = im.events /\ j.error = im.error /\ j.bytesDecoded = im.bytesDecoded
        /\ j.source = im.source /\ j.decoder = im.decoder /\ j.decoded = im.decoded /\ j.wantFullDecode = im.wantFullDecode
        /\ j.hasBeenDecoded = im.hasBeenDecoded /\ j.shown = im.shown /\ j.assert = im.assert
    BY SizeIsNat DEF ImageType
  <2> HIDE DEF j
  <2>3. Sound(j, sent) /\ Fed(j)
    BY <1>1, <2>2 DEF Healthy, Sound, Parts, Fresh, Fed, FullOpen, SizeOpen
  <2>4. MainOK'
    BY <2>1, <2>2 DEF MainOK, Going, MainType
  <2> QED BY <1>1, <2>1, <2>3, <2>4 DEF Healthy
<1> QED BY <1>2, <1>3

(* The rest of OnImageDataComplete.                                        *)
LEMMA CompleteHealthy == ASSUME IInv, Healthy, CompleteSize \/ CompleteRest \/ CompleteStop PROVE Healthy'
<1>1. Good(im, sent) /\ Calm(im) /\ sent \in Nat /\ sent' = sent
  BY IdleGood DEF CompleteSize, CompleteRest, CompleteStop, Healthy
<1>2. CASE CompleteSize
  <2>1. Good(DecodeUntilSizeAvailable(im), sent) /\ Keeps(im, DecodeUntilSizeAvailable(im))
    BY <1>1, UntilSizeGood, UntilSizeCalms
  <2>2. im' = DecodeUntilSizeAvailable(im) /\ (main' = Going("complete", "stop") \/ main' = Going("complete", "rest"))
    BY <1>2 DEF CompleteSize, Settle
  <2>3. im.hasSourceData
    BY <1>2 DEF CompleteSize, Healthy, MainOK, Going
  <2>5. im'.hasSourceData
    BY <2>1, <2>2, <2>3 DEF Keeps
  <2>4. MainOK'
    BY <2>2, <2>5 DEF MainOK, Going, MainType
  <2> QED BY <1>1, <2>1, <2>2, <2>4, GoodHealthy
<1>3. CASE CompleteRest
  <2>1. im.hasSourceData
    BY <1>3 DEF CompleteRest, Healthy, MainOK, Going
  <2>2. Good(ImageDataComplete(im), sent)
    BY <1>1, <2>1, CompleteGood
  <2>3. im' = ImageDataComplete(im) /\ main' = Going("complete", "stop")
    BY <1>3 DEF CompleteRest, Settle
  <2>4. MainOK'
    BY <2>3 DEF MainOK, Going, MainType
  <2> QED BY <1>1, <2>2, <2>3, <2>4, GoodHealthy
<1>4. CASE CompleteStop
  <2>1. Good(FinishedSomeDecoding(im), sent)
    BY <1>1, CalmIsAlmost, FinishedGood DEF Good
  <2>2. im' = FinishedSomeDecoding(im) /\ main' = AtRest
    BY <1>4 DEF CompleteStop, Settle
  <2> QED BY <1>1, <2>1, <2>2, RestOK, GoodHealthy
<1> QED BY <1>2, <1>3, <1>4

(* A call that finds a size decoder decodes the size first.                *)
LEMMA EnterOK ==
  ASSUME NEW call \in {"request", "start", "draw"}, Enter(call), im'.decoder = im.decoder
  PROVE  MainOK'
<1>1. \/ main' = Going(call, "size")
      \/ main' = Going(call, "rest") /\ ~ SizeOpen(im')
  BY DEF Enter, SizeOpen
<1> QED BY <1>1 DEF MainOK, Going, MainType

(* The calls, up to the monitor.                                           *)
LEMMA CallHealthy ==
  ASSUME IInv, Healthy, CallDraw \/ \E call \in {"request", "start"} : CallRequest(call)
  PROVE  Healthy'
<1>1. sent' = sent /\ im \in ImageType
  BY SizeIsNat DEF CallDraw, CallRequest, RequestDecode
<1>2. ASSUME im' = im, NEW call \in {"request", "start", "draw"}, Enter(call) PROVE Healthy'
  <2>1. MainOK'
    BY <1>2, EnterOK
  <2> QED BY <1>1, <1>2, <2>1 DEF Healthy
<1>3. ASSUME im' = Later, main' = AtRest PROVE Healthy'
  <2> DEFINE e == [kind |-> "request", request |-> 0]
  <2>1. e \in [kind : {"done", "error", "request"}, request : Nat] /\ e.kind # "error"
    OBVIOUS
  <2>2. im' = [im EXCEPT !.events = Append(@, e)]
    BY <1>3 DEF Later, NoRequest
  <2> HIDE DEF e
  <2>3. Sound(im', sent) /\ Fed(im')
    BY <1>1, <2>1, <2>2, AppendSound DEF Healthy
  <2> QED BY <1>1, <1>3, <2>3, RestOK DEF Healthy
<1>4. CASE CallDraw
  BY <1>2, <1>4 DEF CallDraw
<1>5. CASE \E call \in {"request", "start"} : CallRequest(call)
  <2>1. PICK call \in {"request", "start"} : CallRequest(call)
    BY <1>5
  <2>2. (im' = Later /\ main' = AtRest) \/ (im' = im /\ Enter(call))
    BY <2>1 DEF CallRequest, RequestDecode
  <2> QED BY <1>2, <1>3, <2>2
<1> QED BY <1>4, <1>5

(* The size, first: no size decoder is left open when the rest follows.    *)
LEMMA SizeFirstHealthy == ASSUME IInv, Healthy, SizeFirst PROVE Healthy'
<1> DEFINE sized == DecodeUntilSizeAvailable(im)
           b == sized.wantFullDecode \/ NoSizeYet(sized)
           w == [sized EXCEPT !.wantFullDecode = b]
           stop == sized.error \/ ~ sized.hasSize
<1>1. Good(im, sent) /\ sent \in Nat /\ sent' = sent
  BY IdleGood DEF SizeFirst, Healthy
<1>2. Good(sized, sent)
  BY <1>1, UntilSizeGood
<1>3. b \in BOOLEAN
  OBVIOUS
<1>4. im' = w /\ main' = IF stop THEN AtRest ELSE [main EXCEPT !.step = "rest"]
  BY DEF SizeFirst, Settle
<1>5. main \in MainType /\ main.call # "unlock" /\ main.call # "complete"
  BY DEF SizeFirst, Healthy, MainOK
<1> HIDE DEF sized
<1>6. Calm(sized) /\ Sound(sized, sent) /\ Fed(sized) /\ (SizeOpen(sized) /\ ~ sized.file.storing => b)
  BY <1>2 DEF Good, Sound, Parts
<1> HIDE DEF b
<1>7. Calm(w) /\ Sound(w, sent) /\ Fed(w) /\ Same(sized, w)
  BY <1>3, <1>6, WantedCalms, WantedSound DEF Keeps
<1> HIDE DEF w
<1>8. CASE stop
  BY <1>1, <1>4, <1>7, <1>8, RestOK, GoodHealthy DEF Good
<1>9. CASE ~ stop
  <2>1. ~ SizeOpen(sized)
    BY <1>6, <1>9 DEF Sound, Parts
  <2>2. ~ SizeOpen(im')
    BY <1>4, <1>7, <2>1 DEF Same, SizeOpen
  <2>3. main' \in MainType /\ main'.call = main.call
    BY <1>4, <1>5, <1>9 DEF MainType
  <2>4. MainOK'
    BY <1>5, <2>2, <2>3 DEF MainOK
  <2> QED BY <1>1, <1>4, <1>7, <2>4, GoodHealthy DEF Good
<1> QED BY <1>8, <1>9

(* Then the rest.                                                          *)
LEMMA DecodeRestHealthy == ASSUME IInv, Healthy, DecodeRest PROVE Healthy'
<1>1. /\ Good(im, sent) /\ Calm(im) /\ Sound(im, sent) /\ sent \in Nat /\ sent' = sent /\ ~ SizeOpen(im) /\ main' = AtRest
  BY IdleGood DEF DecodeRest, Healthy, MainOK
<1>2. CASE im' = SyncDecode(im)
  <2>1. Good(SyncDecode(im), sent)
    BY <1>1, SyncGood
  <2> QED BY <1>1, <1>2, <2>1, RestOK, GoodHealthy
<1>3. CASE im' = RequestDecodeCore(im, FALSE, 0)
  <2>1. 0 \in Nat
    OBVIOUS
  <2>2. Good(RequestDecodeCore(im, FALSE, 0), sent)
    BY <1>1, <2>1, RequestCoreGood
  <2> QED BY <1>1, <1>3, <2>2, RestOK, GoodHealthy
<1>4. CASE \E k \in 1 .. im.file.size : im' = RequestDecodeCore(im, ~ im.hasBeenDecoded, k)
  <2>1. PICK k \in 1 .. im.file.size : im' = RequestDecodeCore(im, ~ im.hasBeenDecoded, k)
    BY <1>4
  <2>2. k \in Nat
    BY SizeIsNat
  <2>3. Good(RequestDecodeCore(im, ~ im.hasBeenDecoded, k), sent)
    BY <1>1, <2>2, RequestCoreGood
  <2> QED BY <1>1, <2>1, <2>3, RestOK, GoodHealthy
<1> QED BY <1>2, <1>3, <1>4 DEF DecodeRest, Settle

(* Discards and cancelled decodes.                                         *)
LEMMA DiscardHealthy == ASSUME IInv, Healthy, CancelDecode \/ Discard PROVE Healthy'
<1>1. sent \in Nat /\ sent' = sent
  BY DEF CancelDecode, Discard, Healthy
<1>2. CASE CancelDecode
  <2>1. Good(im, sent) /\ im.file.storing /\ im.hasBeenDecoded
    BY <1>2, IdleGood DEF CancelDecode, Healthy, MainOK, Going
  <2>2. Good(ForceDiscard(CloseIfFinished(im, "NotNeeded")), sent)
    BY <1>1, <2>1, CancelGood
  <2>3. im' = ForceDiscard(CloseIfFinished(im, "NotNeeded")) /\ main' = AtRest
    BY <1>2 DEF CancelDecode
  <2> QED BY <1>1, <2>2, <2>3, RestOK, GoodHealthy
<1>3. CASE Discard
  <2>1. ~ im.decoder.open /\ im.file.storing /\ im' = ForceDiscard(im) /\ main' = AtRest
    BY <1>3 DEF Discard, CanForciblyDiscard
  <2>2. Free
    BY <2>1 DEF IInv, Free
  <2>3. Good(ForceDiscard(im), sent)
    BY <1>1, <2>1, <2>2, IdleGood, DiscardGood
  <2> QED BY <1>1, <2>1, <2>3, RestOK, GoodHealthy
<1> QED BY <1>2, <1>3

(* Locks.                                                                  *)
LEMMA LockHealthy == ASSUME Healthy, LockImage \/ UnlockImage PROVE Healthy'
<1>1. im' = im /\ sent' = sent
  BY DEF LockImage, UnlockImage
<1>2. MainOK'
  <2>1. CASE LockImage
    BY <2>1, <1>1 DEF LockImage, Healthy, MainOK
  <2>2. CASE UnlockImage /\ main' = AtRest
    BY <2>2, RestOK
  <2>3. CASE UnlockImage /\ main' # AtRest
    <3>1. main' = Going("unlock", "rest") /\ im.hasBeenDecoded /\ im.file.storing /\ im.hasSourceData
      BY <2>3 DEF UnlockImage, CanForciblyDiscard
    <3> QED BY <3>1, <1>1 DEF MainOK, Going, MainType
  <2> QED BY <2>1, <2>2, <2>3
<1> QED BY <1>1, <1>2 DEF Healthy

(* An event of the main thread.                                            *)
LEMMA HandleEventHealthy == ASSUME IInv, Healthy, HandleEvent PROVE Healthy'
<1> DEFINE e == Head(im.events)
           rest == [im EXCEPT !.events = Tail(@)]
<1>1. /\ rest \in ImageType /\ rest.request = im.request /\ rest.requests = im.requests /\ rest.jobs = im.jobs
      /\ rest.decoder = im.decoder /\ rest.hasSourceData = im.hasSourceData /\ (IsDecodeFinished(im) => IsDecodeFinished(rest))
      /\ e \in [kind : {"done", "error", "request"}, request : Nat]
      /\ e.kind # "done" /\ EndSent(im) => EndSent(rest)
  BY SizeIsNat, TailEnds DEF HandleEvent
<1>2. sent' = sent /\ sent \in Nat /\ main = AtRest /\ MainOK
  BY DEF HandleEvent, Healthy
<1>3. /\ Sound(rest, sent) /\ Fed(rest) /\ Steady(im, rest) /\ rest.pendingError = im.pendingError
      /\ rest.error = im.error
      /\ e.kind = "error" => im.pendingError
  BY SizeIsNat, TailSound DEF HandleEvent, Healthy
<1>4. CASE e.kind = "done"
  <2>1. Free /\ im' = FinishedSomeDecoding(rest) /\ main' = main
    BY <1>4 DEF HandleEvent, Settle
  <2> HIDE DEF e, rest
  <2>2. Almost(rest)
    BY <1>1, <2>1, FreeIsCalm, CalmIsAlmost, AlmostFrame
  <2>3. Good(FinishedSomeDecoding(rest), sent)
    BY <1>2, <1>3, <2>2, FinishedGood
  <2> QED BY <1>2, <2>1, <2>3, RestOK, GoodHealthy
<1>5. CASE e.kind = "error"
  <2>1. Free /\ im' = DoError(rest) /\ main' = main
    BY <1>5 DEF HandleEvent, Settle
  <2> HIDE DEF e, rest
  <2>2. Calm(rest)
    BY <1>1, <1>5, <2>1, FreeIsCalm, CalmFrame
  <2>3. Parts(rest, sent) /\ (rest.error \/ (rest.decoder.open /\ rest.decoder.failed))
    BY <1>3, <1>5 DEF Sound, Parts
  <2>4. Sound(DoError(rest), sent) /\ Fed(DoError(rest))
    BY <1>2, <2>2, <2>3, ErrorSound
  <2> QED BY <1>2, <2>1, <2>4, RestOK DEF Healthy
<1>6. CASE e.kind = "request"
  <2>1. \/ im' = rest /\ (main' = main \/ Enter("request"))
        \/ im' = [rest EXCEPT !.events = Append(@, e)] /\ main' = main
    BY <1>6 DEF HandleEvent
  <2> HIDE DEF e, rest
  <2>2. Sound(im', sent) /\ Fed(im') /\ im'.decoder = im.decoder
    <3>1. CASE im' = rest
      BY <1>1, <1>3, <3>1
    <3>2. CASE im' = [rest EXCEPT !.events = Append(@, e)]
      BY <1>1, <1>3, <1>6, <3>2, AppendSound
    <3> QED BY <2>1, <3>1, <3>2
  <2>3. MainOK'
    BY <1>2, <2>1, <2>2, RestOK, EnterOK
  <2> QED BY <1>2, <2>2, <2>3 DEF Healthy
<1> QED BY <1>1, <1>4, <1>5, <1>6

(* A job starts.                                                           *)
LEMMA JobStartHealthy == ASSUME IInv, Healthy, NEW k, JobStart(k) PROVE Healthy'
<1> DEFINE r == im.jobs[k]
           jobs == RemoveAt(im.jobs, k)
           taken == [im EXCEPT !.jobs = jobs]
           rs == [im.requests EXCEPT ![r].status = "ACTIVE"]
           active == [taken EXCEPT !.requests = rs]
           e == [kind |-> "done", request |-> r]
<1>1. im \in ImageType /\ sent' = sent /\ main' = main /\ Sound(im, sent) /\ Fed(im) /\ MainOK /\ sent \in Nat /\ k \in DOMAIN im.jobs
  BY SizeIsNat DEF JobStart, Healthy
<1>2. r \in Nat /\ jobs \in Seq(Nat)
  <2>1. im.jobs \in Seq(Nat)
    BY <1>1 DEF ImageType
  <2> QED BY <1>1, <2>1, Removed
<1> HIDE DEF jobs
<1>3. taken \in ImageType /\ Same(im, taken) /\ taken.wantFullDecode = im.wantFullDecode /\ taken.requests = im.requests
  BY <1>1, <1>2 DEF ImageType, Same
<1>4. Sound(taken, sent) /\ Fed(taken) /\ Steady(im, taken)
  BY <1>1, <1>3, SameSound, SameSteady
<1>5. im' = Done(taken, r) \/ im' = active
  BY <1>3 DEF JobStart, jobs
<1> HIDE DEF r, taken, rs
<1>6. CASE im' = Done(taken, r)
  <2>1. e \in [kind : {"done", "error", "request"}, request : Nat] /\ e.kind # "error"
    BY <1>2
  <2>2. im' = [taken EXCEPT !.events = Append(@, e)]
    BY <1>6 DEF Done
  <2> HIDE DEF e
  <2>3. Sound(im', sent) /\ Fed(im') /\ Steady(taken, im')
    BY <1>3, <1>4, <2>1, <2>2, AppendSound
  <2>4. Steady(im, im')
    BY <1>4, <2>3 DEF Steady
  <2> QED BY <1>1, <2>3, <2>4, SteadyMain DEF Healthy
<1>7. CASE im' = active
  <2>1. Same(taken, active) /\ active.wantFullDecode = taken.wantFullDecode
    BY <1>3 DEF ImageType, Same
  <2>2. Sound(active, sent) /\ Fed(active) /\ Steady(taken, active)
    BY <1>4, <2>1, SameSound, SameSteady
  <2>3. Steady(im, im')
    BY <1>4, <1>7, <2>2 DEF Steady
  <2> QED BY <1>1, <1>7, <2>2, <2>3, SteadyMain DEF Healthy
<1> QED BY <1>5, <1>6, <1>7

(* A job ends.                                                             *)
LEMMA JobEndHealthy == ASSUME IInv, Healthy, JobEnd PROVE Healthy'
<1> DEFINE r == job.request
           rs == [im.requests EXCEPT ![r].status = "WORK_DONE"]
           ended == [im EXCEPT !.requests = rs]
           e == [kind |-> "done", request |-> r]
<1>1. im \in ImageType /\ sent' = sent /\ main' = main /\ Sound(im, sent) /\ Fed(im) /\ MainOK /\ sent \in Nat
  BY SizeIsNat DEF JobEnd, Healthy
<1>2. r \in DOMAIN im.requests /\ r \in Nat /\ im.decoder.open /\ im.requests \in Seq(RequestType)
  BY DEF JobEnd, IInv, Base, ImageType
<1>3. rs \in Seq(RequestType)
  <2>1. "WORK_DONE" \in StatusType
    BY DEF StatusType
  <2> QED BY <1>2, <2>1, StatusSet
<1>4. im' = PoolRequestDecode(ended) \/ im' = Done(ended, r)
  BY DEF JobEnd, JobEnded
<1> HIDE DEF r, rs
<1>5. ended \in ImageType /\ Same(im, ended) /\ ended.wantFullDecode = im.wantFullDecode
  BY <1>1, <1>3 DEF ImageType, Same
<1> HIDE DEF ended
<1>6. Sound(ended, sent) /\ Fed(ended) /\ Steady(im, ended) /\ ended.decoder.open
  BY <1>1, <1>2, <1>5, SameSound, SameSteady DEF Same
<1>7. Sound(im', sent) /\ Fed(im') /\ Steady(ended, im')
  <2>1. CASE im' = PoolRequestDecode(ended)
    <3>1. Same(ended, im') /\ im'.wantFullDecode = ended.wantFullDecode
      BY <1>5, <1>6, <2>1, RequestSame
    <3> QED BY <1>6, <3>1, SameSound, SameSteady
  <2>2. CASE im' = Done(ended, r)
    <3>1. e \in [kind : {"done", "error", "request"}, request : Nat] /\ e.kind # "error"
      BY <1>2
    <3>2. im' = [ended EXCEPT !.events = Append(@, e)]
      BY <2>2 DEF Done
    <3> HIDE DEF e
    <3> QED BY <1>5, <1>6, <3>1, <3>2, AppendSound
  <2> QED BY <1>4, <2>1, <2>2
<1>8. Steady(im, im')
  BY <1>6, <1>7 DEF Steady
<1> QED BY <1>1, <1>7, <1>8, SteadyMain DEF Healthy

(* A job decodes a chunk: only a stored file has any left.                 *)
LEMMA JobChunkHealthy == ASSUME IInv, Healthy, JobChunk PROVE Healthy'
<1> DEFINE chunk == IF im.decoder.full THEN Smaller(job.left, ChunkBytes) ELSE Smaller(job.left, im.source)
           n == Smaller(chunk, Left(im))
           k == im.bytesDecoded + n
           error == [kind |-> "error", request |-> 0]
           es == IF im.pendingError THEN im.events ELSE Append(im.events, error)
           f == [im EXCEPT !.decoder.failed = TRUE, !.pendingError = TRUE]
           g == [f EXCEPT !.events = es]
           b == [im EXCEPT !.bytesDecoded = k]
<1>1. /\ im' = WriteInPool(im, n) /\ Left(im) > 0 /\ sent' = sent /\ main' = main
      /\ im \in ImageType /\ im.decoder.open /\ Sound(im, sent) /\ Fed(im) /\ MainOK /\ sent \in Nat
  BY SizeIsNat DEF JobChunk, MoreChunks, Healthy, IInv
<1>2. im' = b \/ im' = g
  <2>1. CASE Fails(im, n)
    BY <1>1, <2>1 DEF WriteInPool, NoRequest, ImageType
  <2>2. CASE ~ Fails(im, n)
    BY <1>1, <2>2 DEF WriteInPool
  <2> QED BY <2>1, <2>2
<1>3. ~ im.error /\ ~ (~ im.file.storing /\ FullOpen(im))
  <2>1. im.source \in Int /\ im.bytesDecoded \in Int
    BY <1>1 DEF ImageType
  <2>2. im.bytesDecoded < im.source
    BY <1>1, <2>1 DEF Left
  <2> QED BY <1>1, <2>1, <2>2 DEF Sound, Parts, Fresh
<1>4. CASE im' = b
  <2> HIDE DEF k
  <2>1. /\ b.file = im.file /\ b.hasSize = im.hasSize /\ b.hasSourceData = im.hasSourceData /\ b.pendingError = im.pendingError
        /\ b.events = im.events /\ b.error = im.error
        /\ b.source = im.source /\ b.decoder = im.decoder /\ b.decoded = im.decoded /\ b.wantFullDecode = im.wantFullDecode
        /\ b.hasBeenDecoded = im.hasBeenDecoded /\ b.shown = im.shown /\ b.assert = im.assert
    BY <1>1 DEF ImageType
  <2> HIDE DEF b
  <2>2. Sound(b, sent) /\ Fed(b) /\ Steady(im, b)
    BY <1>1, <1>3, <2>1 DEF Sound, Parts, Fresh, Fed, FullOpen, SizeOpen, Steady
  <2> QED BY <1>1, <1>4, <2>2, SteadyMain DEF Healthy
<1>5. CASE im' = g
  <2> DEFINE Event == [kind : {"done", "error", "request"}, request : Nat]
  <2>1. error \in Event /\ im.events \in Seq(Event)
    BY <1>1 DEF ImageType
  <2> HIDE DEF error, Event
  <2>2. es \in Seq(Event)
    BY <2>1
  <2>3. /\ f \in ImageType
        /\ f.file = im.file /\ f.hasSize = im.hasSize /\ f.hasSourceData = im.hasSourceData /\ f.pendingError
        /\ f.events = im.events /\ f.error = im.error /\ f.bytesDecoded = im.bytesDecoded
        /\ f.source = im.source /\ f.decoder.open = im.decoder.open /\ f.decoder.full = im.decoder.full /\ f.decoder.failed
        /\ f.decoded = im.decoded /\ f.wantFullDecode = im.wantFullDecode
        /\ f.hasBeenDecoded = im.hasBeenDecoded /\ f.shown = im.shown /\ f.assert = im.assert
    BY <1>1 DEF ImageType
  <2> HIDE DEF f, es
  <2>4. Sound(f, sent) /\ Fed(f) /\ Steady(im, f)
    BY <1>1, <1>3, <2>3 DEF Sound, Parts, Fresh, Fed, FullOpen, SizeOpen, Steady
  <2>5. Sound(g, sent) /\ Fed(g) /\ Steady(f, g)
    BY <2>2, <2>3, <2>4, EventsSound DEF Event
  <2>6. Steady(im, g)
    BY <2>4, <2>5 DEF Steady
  <2> QED BY <1>1, <1>5, <2>5, <2>6, SteadyMain DEF Healthy
<1> QED BY <1>2, <1>4, <1>5

(* Every step keeps the image sound.                                       *)
LEMMA NextHealthy == IInv /\ Healthy /\ [Next]_vars => Healthy'
<1> SUFFICES ASSUME IInv, Healthy, [Next]_vars PROVE Healthy'
  OBVIOUS
<1>1. CASE Network
  BY <1>1, AddDataHealthy, DataCompleteHealthy DEF Network
<1>2. CASE Step
  BY <1>2, CompleteHealthy, SizeFirstHealthy, DecodeRestHealthy, DiscardHealthy, HandleEventHealthy DEF Step
<1>3. CASE Pool
  BY <1>3, JobStartHealthy, JobChunkHealthy, JobEndHealthy DEF Pool
<1>4. CASE CallDraw \/ \E call \in {"request", "start"} : CallRequest(call)
  BY <1>4, CallHealthy
<1>5. CASE LockImage \/ UnlockImage
  BY <1>5, LockHealthy
<1>6. CASE Discard
  BY <1>6, DiscardHealthy
<1>7. CASE Finished \/ UNCHANGED vars
  BY <1>7 DEF Finished, vars, Healthy, MainOK
<1> QED BY <1>1, <1>2, <1>3, <1>4, <1>5, <1>6, <1>7 DEF Next

(* A sound image has its assertions and shows whole pictures.              *)
LEMMA HealthyImplies == Healthy => AssertionsHold /\ DecodedWhole
  BY DEF Healthy, Sound, Parts, AssertionsHold, DecodedWhole

(* No assertion of the image fails, whatever the files, the chunks, the    *)
(* number of threads and the order of their steps: no decoder is opened    *)
(* over another one or over a decoded picture, written to or shut down     *)
(* when there is none, or open when the frames are discarded.              *)
THEOREM NeverAborts == Spec => []AssertionsHold
<1>1. IInv /\ Healthy /\ [Next]_vars => IInv' /\ Healthy'
  BY NextInv, NextHealthy
<1> QED BY <1>1, InitInv, InitHealthy, HealthyImplies, PTL DEF Spec

(* A picture counts as decoded only when it was made from the whole file.  *)
THEOREM WholeFiles == Spec => []DecodedWhole
<1>1. IInv /\ Healthy /\ [Next]_vars => IInv' /\ Healthy'
  BY NextInv, NextHealthy
<1> QED BY <1>1, InitInv, InitHealthy, HealthyImplies, PTL DEF Spec

-----------------------------------------------------------------------------
(* The end of the data is told once OnImageDataComplete has asked for what *)
(* is left; until then the network may bring more.                         *)
Told == network = "closed" /\ ~ (main.call = "complete" /\ main.step \in {"size", "rest"})

(* A job that works was asked for all that was left when it started.       *)
Attended ==
  /\ network \in {"open", "closed"}
  /\ Kept(im)
  /\ network = "closed" => im.hasSourceData \/ im.error
  /\ Told /\ im.decoder.open => im.hasSourceData /\ im.file.storing
  /\ Free => Settled(im, Told)
  /\ job.on => im.decoder.failed \/ Left(im) = 0 \/ Left(im) <= job.left

(* Events that come do not let an open decoder be forgotten.               *)
LEMMA MoreEvents ==
  ASSUME NEW i, NEW j, j.file = i.file, j.hasSourceData = i.hasSourceData, j.source = i.source, j.decoder = i.decoder,
         j.request = i.request, j.requests = i.requests, j.bytesDecoded = i.bytesDecoded, ErrorSent(i) => ErrorSent(j)
  PROVE  /\ Kept(i) => Kept(j)
         /\ Left(j) = Left(i)
         /\ \A told : /\ Nearly(i, told) => Nearly(j, told)
                      /\ (EndSent(i) => EndSent(j)) => (Settled(i, told) => Settled(j, told))
<1>1. Left(j) = Left(i) /\ Status(j) = Status(i) /\ (IsDecodeFinished(j) <=> IsDecodeFinished(i))
  BY DEF Left, Status, IsDecodeFinished, DecoderHasSize
<1> QED BY <1>1 DEF Kept, Watched, Nearly, Settled

(* Sending an event, and taking one that is no error, loses no error.      *)
LEMMA ErrorStays ==
  ASSUME NEW i, i \in ImageType
  PROVE  /\ \A e : LET j == [i EXCEPT !.events = Append(@, e)]
                   IN  /\ ErrorSent(i) => ErrorSent(j)
                       /\ j.source = i.source /\ j.bytesDecoded = i.bytesDecoded /\ j.error = i.error
         /\ i.events # << >> =>
              LET j == [i EXCEPT !.events = Tail(@)]
              IN  /\ Head(i.events).kind # "error" /\ ErrorSent(i) => ErrorSent(j)
                  /\ j.source = i.source /\ j.bytesDecoded = i.bytesDecoded /\ j.error = i.error
<1> DEFINE Event == [kind : {"done", "error", "request"}, request : Nat]
<1>1. i.events \in Seq(Event)
  BY DEF ImageType
<1> HIDE DEF Event
<1>2. ASSUME NEW e
      PROVE  LET j == [i EXCEPT !.events = Append(@, e)]
             IN  /\ ErrorSent(i) => ErrorSent(j)
                 /\ j.source = i.source /\ j.bytesDecoded = i.bytesDecoded /\ j.error = i.error
  <2> DEFINE es == Append(i.events, e)
             j == [i EXCEPT !.events = Append(@, e)]
  <2>1. \A n \in DOMAIN i.events : n \in DOMAIN es /\ es[n] = i.events[n]
    BY <1>1
  <2>2. j = [i EXCEPT !.events = es]
    OBVIOUS
  <2> HIDE DEF es, j
  <2>3. j.events = es /\ j.source = i.source /\ j.bytesDecoded = i.bytesDecoded /\ j.error = i.error
    BY <2>2 DEF ImageType
  <2>4. ErrorSent(i) => ErrorSent(j)
    BY <2>1, <2>3 DEF ErrorSent
  <2> QED BY <2>3, <2>4 DEF j
<1>3. ASSUME i.events # << >>
      PROVE  LET j == [i EXCEPT !.events = Tail(@)]
             IN  /\ Head(i.events).kind # "error" /\ ErrorSent(i) => ErrorSent(j)
                 /\ j.source = i.source /\ j.bytesDecoded = i.bytesDecoded /\ j.error = i.error
  <2> DEFINE es == Tail(i.events)
             j == [i EXCEPT !.events = Tail(@)]
  <2>1. /\ Head(i.events) = i.events[1]
        /\ \A n \in DOMAIN i.events : n # 1 => n - 1 \in DOMAIN es /\ es[n - 1] = i.events[n]
    BY <1>1, <1>3
  <2>2. j = [i EXCEPT !.events = es]
    OBVIOUS
  <2> HIDE DEF es, j
  <2>3. j.events = es /\ j.source = i.source /\ j.bytesDecoded = i.bytesDecoded /\ j.error = i.error
    BY <2>2 DEF ImageType
  <2>4. ASSUME Head(i.events).kind # "error", ErrorSent(i) PROVE ErrorSent(j)
    <3>1. PICK n \in DOMAIN i.events : i.events[n].kind = "error"
      BY <2>4 DEF ErrorSent
    <3>2. n # 1
      BY <3>1, <2>1, <2>4
    <3>3. n - 1 \in DOMAIN es /\ es[n - 1].kind = "error"
      BY <3>1, <3>2, <2>1
    <3> QED BY <3>3, <2>3 DEF ErrorSent
  <2> QED BY <2>3, <2>4 DEF j
<1> QED BY <1>2, <1>3

(* No job works and the image is attended to at first.                     *)
LEMMA InitAttended == Init => Attended
<1> SUFFICES ASSUME Init PROVE Attended
  OBVIOUS
<1>1. PICK f \in Files : im = NewImage(f)
  BY DEF Init
<1>2. /\ im.source = 0 /\ im.bytesDecoded = 0 /\ im.decoder = Open(FALSE) /\ im.request = 1
      /\ im.requests = << [status |-> "INACTIVE", bytesToDecode |-> 0] >>
  BY <1>1 DEF NewImage
<1>3. network = "open" /\ ~ job.on
  BY DEF Init, Idle
<1>4. ~ im.decoder.failed /\ Status(im) = "INACTIVE" /\ Left(im) = 0 /\ im.bytesDecoded <= im.source
  BY <1>2 DEF Open, Status, NoRequest, Left
<1>5. Kept(im)
  BY <1>4 DEF Kept, Watched
<1> QED BY <1>3, <1>4, <1>5 DEF Attended, Told, Settled

(* A step of the main thread in the monitor that leaves an image that is   *)
(* over, and settles any other, keeps it attended to.                      *)
LEMMA Attending ==
  ASSUME IInv, Healthy, Attended, Free, NEW next, im' = next, job' = job, network' = network, Told' = Told,
         next.hasSourceData = im.hasSourceData, next.file = im.file,
         ~ im.decoder.open /\ (im.error \/ im.decoded) => ~ next.decoder.open /\ next.error = im.error,
         Kept(next), Settled(next, Told)
  PROVE  Attended'
<1>1. (im.error => ~ im.decoder.open) /\ Fed(im)
  BY DEF Healthy, Sound, Parts
<1>2. network' = "closed" => im'.hasSourceData \/ im'.error
  BY <1>1 DEF Attended
<1>3. ASSUME Told', im'.decoder.open PROVE im'.hasSourceData /\ im'.file.storing
  <2>1. CASE im.decoder.open
    BY <2>1, <1>3 DEF Attended
  <2>2. CASE ~ im.decoder.open
    <3>1. ~ im.error /\ ~ im.decoded
      BY <2>2, <1>3
    <3>2. im.file.storing
      BY <3>1, <2>2, <1>1 DEF Fed
    <3> QED BY <3>1, <3>2, <1>3 DEF Attended, Told
  <2> QED BY <2>1, <2>2
<1>4. ~ job'.on
  BY DEF Free
<1>5. network' \in {"open", "closed"}
  BY DEF Attended
<1> QED BY <1>2, <1>3, <1>4, <1>5 DEF Attended

(* A step that closes the decoder keeps the image attended to.             *)
LEMMA ClosedAttended ==
  ASSUME Attended, Calm(im'), ~ im'.decoder.open, ~ job'.on, network' = network,
         im'.hasSourceData = im.hasSourceData, im.error => im'.error
  PROVE  Attended'
<1>1. Kept(im') /\ \A told : Settled(im', told)
  BY ClosedKept
<1> QED BY <1>1 DEF Attended

(* A step beside the monitor that leaves all but the event queue.          *)
LEMMA BesideAttended ==
  ASSUME Attended, Told' = Told, network' = network, job' = job,
         im'.file = im.file, im'.hasSourceData = im.hasSourceData, im'.source = im.source, im'.decoder = im.decoder,
         im'.request = im.request, im'.requests = im.requests, im'.bytesDecoded = im.bytesDecoded, im'.error = im.error,
         ErrorSent(im) => ErrorSent(im'), EndSent(im) => EndSent(im')
  PROVE  Attended'
<1>1. /\ Kept(im) => Kept(im')
      /\ Left(im') = Left(im)
      /\ Settled(im, Told) => Settled(im', Told)
  BY MoreEvents
<1> QED BY <1>1 DEF Attended, Free

(* The image is left as it is, and so is what is told.                     *)
LEMMA AsideAttended ==
  ASSUME Attended, UNCHANGED << im, network, job >>, Told' = Told
  PROVE  Attended'
  BY DEF Attended, Free, Kept, Watched, ErrorSent, Settled, Status, Left, IsDecodeFinished, DecoderHasSize, EndSent

(* Nothing is told or untold by a main thread that is not at the end of    *)
(* the data.                                                               *)
LEMMA ToldSame ==
  ASSUME network' = network, main.call # "complete", main' = main \/ main'.call # "complete"
  PROVE  Told' = Told
  BY DEF Told

(* The actions, one by one.  Data that arrives.                            *)
LEMMA AddDataAttended == ASSUME IInv, Healthy, Attended, NEW n \in 1 .. im.file.size, AddData(n) PROVE Attended'
<1> DEFINE next == AddSourceData(im, n)
<1>1. n \in Nat /\ sent \in Nat /\ Free /\ network = "open" /\ network' = network /\ job' = job /\ main' = main /\ im' = next
  BY SizeIsNat DEF AddData, Settle, Healthy
<1>2. Good(im, sent) /\ Calm(im) /\ ~ im.hasSourceData
  BY <1>1, IdleGood DEF IInv
<1>3. Told = FALSE /\ Told' = FALSE
  BY <1>1 DEF Told
<1>4. Keeps(im, next)
  BY <1>1, <1>2, AddCalms
<1>5. Settled(im, FALSE) /\ Kept(im)
  BY <1>1, <1>3 DEF Attended
<1>6. Kept(next) /\ Settled(next, FALSE)
  BY <1>1, <1>2, <1>5, AddKept
<1>7. im.error \/ im.decoded => next = im
  BY DEF AddSourceData
<1> HIDE DEF next
<1>8. Settled(next, Told)
  BY <1>3, <1>6
<1> QED BY <1>1, <1>3, <1>4, <1>6, <1>7, <1>8, Attending DEF Keeps

(* The end of the data: not told as long as what is left is not asked for. *)
LEMMA DataCompleteAttended == ASSUME IInv, Healthy, Attended, DataComplete PROVE Attended'
<1>1. network = "open" /\ network' = "closed" /\ job' = job /\ im \in ImageType
  BY SizeIsNat DEF DataComplete
<1>2. CASE im.error
  <2>1. im' = im /\ ~ im.decoder.open
    BY <1>2 DEF DataComplete, Healthy, Sound, Parts
  <2>2. ~ job.on
    BY <2>1 DEF IInv
  <2>3. Kept(im) /\ \A told : Settled(im, told)
    BY <2>1, <2>2, FreeIsCalm, ClosedKept DEF Free
  <2> QED BY <1>1, <1>2, <2>1, <2>2, <2>3 DEF Attended
<1>3. CASE ~ im.error
  <2> DEFINE j == [im EXCEPT !.hasSourceData = TRUE]
  <2>1. im' = j /\ main' = Going("complete", IF im.decoder.open THEN "size" ELSE "rest")
    BY <1>3 DEF DataComplete
  <2>2. /\ j.file = im.file /\ j.hasSourceData /\ j.events = im.events /\ j.request = im.request /\ j.requests = im.requests
        /\ j.source = im.source /\ j.decoder = im.decoder /\ j.bytesDecoded = im.bytesDecoded
    BY <1>1 DEF ImageType
  <2> HIDE DEF j
  <2>3. ~ Told /\ ~ Told'
    BY <1>1, <2>1 DEF Told, Going
  <2>4. /\ Left(j) = Left(im) /\ Status(j) = Status(im) /\ (IsDecodeFinished(im) => IsDecodeFinished(j))
        /\ (EndSent(im) => EndSent(j)) /\ (ErrorSent(im) => ErrorSent(j))
    BY <2>2 DEF Left, Status, IsDecodeFinished, DecoderHasSize, EndSent, ErrorSent
  <2>5. Kept(j)
    BY <2>2, <2>4 DEF Attended, Kept, Watched
  <2>6. Free => Settled(j, Told')
    BY <2>2, <2>3, <2>4 DEF Attended, Settled
  <2> QED BY <1>1, <2>1, <2>2, <2>3, <2>4, <2>5, <2>6 DEF Attended, Free
<1> QED BY <1>2, <1>3

(* The rest of OnImageDataComplete: it asks for what is left, and then the *)
(* end of the data is told.                                                *)
LEMMA CompleteAttended == ASSUME IInv, Healthy, Attended, CompleteSize \/ CompleteRest \/ CompleteStop PROVE Attended'
<1>1. /\ Good(im, sent) /\ Calm(im) /\ Sound(im, sent) /\ Fed(im) /\ sent \in Nat /\ Free /\ Kept(im) /\ Settled(im, Told)
      /\ network' = network /\ job' = job /\ ~ job'.on
  BY IdleGood DEF CompleteSize, CompleteRest, CompleteStop, Healthy, Attended, Free
<1>2. CASE CompleteSize
  <2> DEFINE next == DecodeUntilSizeAvailable(im)
  <2>1. im' = next /\ main = Going("complete", "size") /\ main' = Going("complete", IF next.error THEN "stop" ELSE "rest")
    BY <1>2 DEF CompleteSize, Settle
  <2>2. Good(next, sent) /\ Keeps(im, next) /\ Kept(next) /\ Settled(next, Told)
    BY <1>1, UntilSizeGood, UntilSizeCalms, UntilSizeKept
  <2>3. ~ im.decoder.open /\ (im.error \/ im.decoded) => next = im
    BY OverSame
  <2>7. im.error => ~ im.decoder.open
    BY <1>1 DEF Sound, Parts
  <2> HIDE DEF next
  <2>4. CASE next.error
    <3>1. Calm(im') /\ ~ im'.decoder.open /\ im'.hasSourceData = im.hasSourceData
      BY <2>1, <2>2, <2>4 DEF Good, Sound, Parts, Keeps
    <3> QED BY <1>1, <2>1, <2>4, <3>1, ClosedAttended
  <2>5. CASE ~ next.error
    <3>1. Told' = Told
      BY <1>1, <2>1, <2>5 DEF Told, Going
    <3>2. ~ im.decoder.open /\ (im.error \/ im.decoded) => ~ next.decoder.open /\ next.error = im.error
      BY <2>3
    <3> QED BY <1>1, <2>1, <2>2, <3>1, <3>2, Attending DEF Keeps
  <2> QED BY <2>4, <2>5
<1>3. CASE CompleteRest
  <2> DEFINE next == ImageDataComplete(im)
  <2>1. im' = next /\ main = Going("complete", "rest")
    BY <1>3 DEF CompleteRest, Settle
  <2>2. im.hasSourceData
    BY <2>1 DEF Healthy, MainOK, Going
  <2>3. Keeps(im, next) /\ Kept(next) /\ (\A told : Settled(next, told)) /\ (next.decoder.open => next.file.storing)
    BY <1>1, <2>2, CompleteCalms, CompleteKept
  <2> HIDE DEF next
  <2> QED BY <1>1, <2>1, <2>2, <2>3 DEF Attended, Keeps
<1>4. CASE CompleteStop
  <2> DEFINE next == FinishedSomeDecoding(im)
  <2>1. im' = next /\ main = Going("complete", "stop") /\ main' = AtRest
    BY <1>4 DEF CompleteStop, Settle
  <2>2. Keeps(im, next) /\ Kept(next) /\ Settled(next, Told)
    BY <1>1, CalmIsAlmost, SettledIsNearly, FinishedCalms, FinishedKept
  <2>3. ~ im.decoder.open /\ (im.error \/ im.decoded) => next = im
    BY OverSame
  <2> HIDE DEF next
  <2>4. Told' = Told
    BY <1>1, <2>1, AtRestOK DEF Told, Going
  <2> QED BY <1>1, <2>1, <2>2, <2>3, <2>4, Attending DEF Keeps
<1> QED BY <1>2, <1>3, <1>4

(* The calls, up to the monitor.                                           *)
LEMMA CallAttended ==
  ASSUME IInv, Attended, CallDraw \/ \E call \in {"request", "start"} : CallRequest(call)
  PROVE  Attended'
<1>1. /\ im \in ImageType /\ network' = network /\ job' = job /\ main = AtRest /\ main'.call # "complete"
      /\ im' = Later \/ im' = im
  <2>1. ASSUME NEW call \in {"request", "start", "draw"}, Enter(call) PROVE main'.call # "complete"
    BY <2>1 DEF Enter, Going
  <2>2. CASE CallDraw
    BY <2>1, <2>2, SizeIsNat DEF CallDraw
  <2>3. CASE \E call \in {"request", "start"} : CallRequest(call)
    <3>1. PICK call \in {"request", "start"} : CallRequest(call)
      BY <2>3
    <3>2. CASE main' = AtRest
      BY <3>1, <3>2, SizeIsNat, AtRestOK DEF CallRequest, RequestDecode
    <3>3. CASE Enter(call)
      BY <3>1, <3>3, <2>1, SizeIsNat DEF CallRequest, RequestDecode
    <3> QED BY <3>1, <3>2, <3>3 DEF CallRequest, RequestDecode
  <2> QED BY <2>2, <2>3
<1>2. Told' = Told
  BY <1>1, AtRestOK, ToldSame
<1>3. CASE im' = im
  BY <1>1, <1>2, <1>3, AsideAttended
<1>4. CASE im' = Later
  <2> DEFINE e == [kind |-> "request", request |-> 0]
  <2>1. e \in [kind : {"done", "error", "request"}, request : Nat]
    OBVIOUS
  <2>2. im' = [im EXCEPT !.events = Append(@, e)]
    BY <1>4 DEF Later, NoRequest
  <2> HIDE DEF e
  <2>3. /\ im'.request = im.request /\ im'.requests = im.requests /\ im'.decoder = im.decoder
        /\ im'.hasSourceData = im.hasSourceData /\ im'.file = im.file /\ (EndSent(im) => EndSent(im'))
    BY <1>1, <2>1, <2>2, AppendEnds
  <2>4. (ErrorSent(im) => ErrorSent(im')) /\ im'.source = im.source /\ im'.bytesDecoded = im.bytesDecoded /\ im'.error = im.error
    BY <1>1, <2>2, ErrorStays
  <2> QED BY <1>1, <1>2, <2>3, <2>4, BesideAttended
<1> QED BY <1>1, <1>3, <1>4

(* The size, first.                                                        *)
LEMMA SizeFirstAttended == ASSUME IInv, Healthy, Attended, SizeFirst PROVE Attended'
<1> DEFINE sized == DecodeUntilSizeAvailable(im)
           b == sized.wantFullDecode \/ NoSizeYet(sized)
           w == [sized EXCEPT !.wantFullDecode = b]
<1>1. /\ Good(im, sent) /\ Calm(im) /\ sent \in Nat /\ Free /\ Kept(im) /\ Settled(im, Told)
      /\ network' = network /\ job' = job
  BY IdleGood DEF SizeFirst, Healthy, Attended
<1>2. Keeps(im, sized) /\ Kept(sized) /\ Settled(sized, Told)
  BY <1>1, UntilSizeCalms, UntilSizeKept
<1>3. ~ im.decoder.open /\ (im.error \/ im.decoded) => sized = im
  BY OverSame
<1>4. im' = w
  BY DEF SizeFirst, Settle
<1>5. main.call # "complete" /\ (main' = AtRest \/ main' = [main EXCEPT !.step = "rest"]) /\ main \in MainType
  BY DEF SizeFirst, Healthy, MainOK
<1>6. Told' = Told
  <2>1. main'.call # "complete"
    BY <1>5, AtRestOK DEF MainType
  <2> QED BY <1>1, <1>5, <2>1, ToldSame
<1> HIDE DEF sized, b
<1>7. sized \in ImageType
  BY <1>2 DEF Keeps, Calm, Base
<1>8. Alike(sized, w) /\ w.bytesDecoded = sized.bytesDecoded /\ w.error = sized.error
  BY <1>7 DEF ImageType, Alike
<1> HIDE DEF w
<1>9. Kept(w) /\ Settled(w, Told)
  BY <1>2, <1>8, AlikeKept
<1>10. w.hasSourceData = im.hasSourceData /\ w.file = im.file
  BY <1>2, <1>8 DEF Keeps, Alike
<1>11. ~ im.decoder.open /\ (im.error \/ im.decoded) => ~ w.decoder.open /\ w.error = im.error
  BY <1>3, <1>8 DEF Alike
<1> QED BY <1>1, <1>4, <1>6, <1>9, <1>10, <1>11, Attending

(* Then the rest.  StartDecoding decodes a bit itself only of a file that  *)
(* is stored: one that is not is over when the end of the data is told.    *)
LEMMA DecodeRestAttended == ASSUME IInv, Healthy, Attended, DecodeRest PROVE Attended'
<1>1. /\ Good(im, sent) /\ Calm(im) /\ Sound(im, sent) /\ Fed(im) /\ sent \in Nat /\ Free /\ Kept(im) /\ Settled(im, Told)
      /\ network' = network /\ job' = job /\ ~ SizeOpen(im) /\ main' = AtRest /\ main.call # "complete"
  BY IdleGood DEF DecodeRest, Healthy, MainOK, Attended
<1>2. Told' = Told
  BY <1>1, AtRestOK, ToldSame
<1>3. ASSUME NEW next, im' = next, Keeps(im, next),
             ~ im.decoder.open /\ (im.error \/ im.decoded) => next = im,
             ~ (~ im.decoder.open /\ (im.error \/ im.decoded)) => Kept(next) /\ Settled(next, Told)
      PROVE  Attended'
  <2>1. Kept(next) /\ Settled(next, Told)
    BY <1>1, <1>3
  <2> QED BY <1>1, <1>2, <1>3, <2>1, Attending DEF Keeps
<1>4. CASE im' = SyncDecode(im)
  <2>1. Keeps(im, SyncDecode(im)) /\ Kept(SyncDecode(im)) /\ Settled(SyncDecode(im), Told)
    BY <1>1, SyncCalms, SyncKept
  <2>2. ~ im.decoder.open /\ (im.error \/ im.decoded) => SyncDecode(im) = im
    BY OverSame
  <2> QED BY <1>3, <1>4, <2>1, <2>2
<1>5. ASSUME NEW some, NEW k \in Nat, im' = RequestDecodeCore(im, some, k) PROVE Attended'
  <2> DEFINE next == RequestDecodeCore(im, some, k)
  <2>1. Keeps(im, next)
    BY <1>1, RequestCoreCalms
  <2>2. ~ im.decoder.open /\ (im.error \/ im.decoded) => next = im
    BY OverSame
  <2>3. ASSUME ~ (~ im.decoder.open /\ (im.error \/ im.decoded)) PROVE Kept(next) /\ Settled(next, Told)
    <3>1. im.hasSourceData => im.file.storing
      <4>1. im.hasSourceData => Told
        BY <1>1 DEF IInv, Attended, Told
      <4> QED BY <1>1, <2>3, <4>1 DEF Attended, Fed
    <3> QED BY <1>1, <3>1, RequestCoreKept
  <2>4. im' = next
    BY <1>5
  <2> HIDE DEF next
  <2> QED BY <1>3, <2>1, <2>2, <2>3, <2>4
<1>6. CASE im' = RequestDecodeCore(im, FALSE, 0)
  <2>1. 0 \in Nat
    OBVIOUS
  <2> QED BY <1>5, <1>6, <2>1
<1>7. CASE \E k \in 1 .. im.file.size : im' = RequestDecodeCore(im, ~ im.hasBeenDecoded, k)
  <2>1. PICK k \in 1 .. im.file.size : im' = RequestDecodeCore(im, ~ im.hasBeenDecoded, k)
    BY <1>7
  <2>2. k \in Nat
    BY SizeIsNat
  <2> QED BY <1>5, <2>1, <2>2
<1> QED BY <1>4, <1>6, <1>7 DEF DecodeRest, Settle

(* Discards and cancelled decodes leave no decoder.                        *)
LEMMA DiscardAttended == ASSUME IInv, Healthy, Attended, CancelDecode \/ Discard PROVE Attended'
<1>1. CASE CancelDecode
  <2> DEFINE c == CloseIfFinished(im, "NotNeeded")
  <2>1. /\ Calm(im) /\ ~ job'.on /\ network' = network /\ im' = ForceDiscard(c)
        /\ im.hasSourceData
    BY <1>1, FreeIsCalm DEF CancelDecode, Free, Healthy, MainOK, Going
  <2>2. Keeps(im, c) /\ ~ c.decoder.open
    BY <2>1, CalmIsAlmost, CloseCalms DEF Keeps
  <2> HIDE DEF c
  <2>3. Keeps(c, ForceDiscard(c)) /\ ~ ForceDiscard(c).decoder.open
    BY <2>2, DiscardCalms, DiscardFields DEF Keeps, Calm, Base
  <2>4. Kept(im') /\ \A told : Settled(im', told)
    BY <2>1, <2>3, ClosedKept DEF Keeps
  <2>5. im'.hasSourceData
    BY <2>1, <2>2, <2>3 DEF Keeps
  <2> QED BY <2>1, <2>3, <2>4, <2>5 DEF Attended
<1>2. CASE Discard
  <2>1. ~ im.decoder.open /\ im.hasSourceData /\ im' = ForceDiscard(im) /\ job' = job /\ network' = network
    BY <1>2 DEF Discard, CanForciblyDiscard
  <2>2. Free /\ Calm(im)
    BY <2>1, FreeIsCalm DEF IInv, Free
  <2>3. Keeps(im, ForceDiscard(im)) /\ ~ ForceDiscard(im).decoder.open
    BY <2>1, <2>2, DiscardCalms, DiscardFields DEF Calm, Base
  <2>4. Kept(im') /\ \A told : Settled(im', told)
    BY <2>1, <2>3, ClosedKept DEF Keeps
  <2> QED BY <2>1, <2>2, <2>3, <2>4 DEF Attended, Keeps, Free
<1> QED BY <1>1, <1>2

(* Locks.                                                                  *)
LEMMA LockAttended == ASSUME Attended, LockImage \/ UnlockImage PROVE Attended'
<1>1. UNCHANGED << im, network, job >> /\ main.call # "complete" /\ (main' = main \/ main'.call # "complete")
  BY AtRestOK DEF LockImage, UnlockImage, Going
<1>2. Told' = Told
  BY <1>1, ToldSame
<1> QED BY <1>1, <1>2, AsideAttended

(* An event of the main thread: the decoder that the end of a job finished *)
(* is closed, and so is one that has failed.                               *)
LEMMA HandleEventAttended == ASSUME IInv, Healthy, Attended, HandleEvent PROVE Attended'
<1> DEFINE e == Head(im.events)
           rest == [im EXCEPT !.events = Tail(@)]
<1>1. /\ rest \in ImageType /\ rest.request = im.request /\ rest.requests = im.requests /\ rest.jobs = im.jobs
      /\ rest.decoder = im.decoder /\ rest.hasSourceData = im.hasSourceData /\ rest.file = im.file /\ (IsDecodeFinished(im) => IsDecodeFinished(rest))
      /\ e \in [kind : {"done", "error", "request"}, request : Nat]
      /\ e.kind # "done" /\ EndSent(im) => EndSent(rest)
  BY SizeIsNat, TailEnds DEF HandleEvent
<1>2. /\ e.kind # "error" /\ ErrorSent(im) => ErrorSent(rest)
      /\ rest.source = im.source /\ rest.bytesDecoded = im.bytesDecoded /\ rest.error = im.error
  BY SizeIsNat, ErrorStays DEF HandleEvent
<1>3. Sound(rest, sent) /\ Fed(rest) /\ sent \in Nat
  BY SizeIsNat, TailSound DEF HandleEvent, Healthy
<1>8. im.error => ~ im.decoder.open
  BY DEF Healthy, Sound, Parts
<1>4. main = AtRest /\ network' = network /\ job' = job
  BY DEF HandleEvent
<1>5. CASE e.kind = "done"
  <2> DEFINE next == FinishedSomeDecoding(rest)
  <2>1. Free /\ im' = next /\ main' = main
    BY <1>5 DEF HandleEvent, Settle
  <2>2. Told' = Told
    BY <1>4, <2>1 DEF Told
  <2>3. Kept(rest) /\ Nearly(rest, Told)
    <3>1. Kept(im) /\ Nearly(im, Told)
      BY <2>1, SettledIsNearly DEF Attended
    <3>2. ErrorSent(im) => ErrorSent(rest)
      BY <1>2, <1>5
    <3> HIDE DEF e, rest
    <3> QED BY <1>1, <1>2, <3>1, <3>2, MoreEvents
  <2>4. Almost(rest)
    <3> HIDE DEF e, rest
    <3> QED BY <1>1, <2>1, FreeIsCalm, CalmIsAlmost, AlmostFrame
  <2> HIDE DEF e, rest
  <2>5. Keeps(im, next) /\ Kept(next) /\ Settled(next, Told)
    BY <1>1, <1>3, <2>3, <2>4, FinishedCalms, FinishedKept DEF Keeps
  <2>6. ~ im.decoder.open /\ (im.error \/ im.decoded) => ~ next.decoder.open /\ next.error = im.error
    <3>1. CASE im.error /\ ~ im.decoder.open
      BY <3>1, <1>1, <1>2, OverSame
    <3>2. CASE im.decoded /\ ~ im.decoder.open
      <4>1. rest.decoded = im.decoded
        BY SizeIsNat DEF rest, ImageType
      <4> QED BY <3>2, <4>1, <1>1, <1>2, OverSame
    <3> QED BY <3>1, <3>2
  <2> HIDE DEF next
  <2> QED BY <1>4, <2>1, <2>2, <2>5, <2>6, Attending DEF Keeps
<1>6. CASE e.kind = "error"
  <2> DEFINE next == DoError(rest)
  <2>1. Free /\ im' = next /\ main' = main
    BY <1>6 DEF HandleEvent, Settle
  <2> HIDE DEF e, rest
  <2>2. Calm(rest)
    BY <1>1, <1>6, <2>1, FreeIsCalm, CalmFrame
  <2>3. Calm(next) /\ ~ next.decoder.open /\ next.hasSourceData = im.hasSourceData
    BY <1>1, <1>2, <1>8, <2>2, ErrorCloses, ErrorCalms DEF Keeps
  <2>4. im.error => next = rest
    BY <1>2 DEF DoError
  <2> HIDE DEF next
  <2>5. im.error => im'.error
    BY <1>2, <2>1, <2>4
  <2> QED BY <1>4, <2>1, <2>3, <2>5, ClosedAttended DEF Free
<1>7. CASE e.kind = "request"
  <2>1. \/ im' = rest
        \/ im' = [rest EXCEPT !.events = Append(@, e)]
    BY <1>7 DEF HandleEvent
  <2>2. Told' = Told
    <3>1. main' = main \/ Enter("request")
      BY <1>7 DEF HandleEvent
    <3>2. main' = main \/ main'.call = "request"
      BY <3>1 DEF Enter, Going
    <3> QED BY <1>4, <3>2, AtRestOK, ToldSame
  <2> HIDE DEF e, rest
  <2>3. /\ im'.request = im.request /\ im'.requests = im.requests
        /\ im'.decoder = im.decoder /\ im'.hasSourceData = im.hasSourceData /\ im'.file = im.file
        /\ (EndSent(im) => EndSent(im'))
    <3>1. CASE im' = rest
      BY <1>1, <1>7, <3>1
    <3>2. CASE im' = [rest EXCEPT !.events = Append(@, e)]
      BY <1>1, <1>7, <3>2, AppendEnds
    <3> QED BY <2>1, <3>1, <3>2
  <2>4. /\ (ErrorSent(im) => ErrorSent(im'))
        /\ im'.source = im.source /\ im'.bytesDecoded = im.bytesDecoded /\ im'.error = im.error
    <3>1. CASE im' = rest
      BY <1>2, <1>7, <3>1
    <3>2. CASE im' = [rest EXCEPT !.events = Append(@, e)]
      BY <1>1, <1>2, <1>7, <3>2, ErrorStays
    <3> QED BY <2>1, <3>1, <3>2
  <2> QED BY <1>4, <2>2, <2>3, <2>4, BesideAttended
<1> QED BY <1>1, <1>5, <1>6, <1>7

(* A job that starts is asked for all that is left, unless the decoder has *)
(* failed; one that has nothing to do tells so.                            *)
LEMMA JobStartAttended == ASSUME IInv, Healthy, Attended, NEW k, JobStart(k) PROVE Attended'
<1> DEFINE r == im.jobs[k]
           jobs == RemoveAt(im.jobs, k)
           taken == [im EXCEPT !.jobs = jobs]
           want == im.requests[r].bytesToDecode
           may == ~ im.error /\ ~ im.pendingError /\ ~ im.decoded
           stop == im.requests[r].status = "STOPPED" \/ ~ im.decoder.open \/ IsDecodeFinished(im)
<1>1. /\ Free /\ Base(im) /\ im \in ImageType /\ k \in DOMAIN im.jobs /\ network' = network /\ main' = main
      /\ Kept(im) /\ Settled(im, Told)
  BY SizeIsNat DEF JobStart, IInv, Attended
<1>2. Told' = Told
  BY <1>1 DEF Told
<1>3. r \in Nat /\ jobs \in Seq(Nat) /\ r \in DOMAIN im.requests /\ im.requests \in Seq(RequestType)
  <2>1. im.jobs \in Seq(Nat) /\ im.requests \in Seq(RequestType)
    BY <1>1 DEF ImageType
  <2> QED BY <1>1, <2>1, Removed DEF Base
<1>4. stop => im' = Done(taken, r) /\ job' = job
  BY DEF JobStart
<1>5. ~ stop => /\ im' = [taken EXCEPT !.requests[r].status = "ACTIVE"]
                /\ job' = [on |-> TRUE, request |-> r, old |-> im.bytesDecoded,
                           left |-> IF ~ may THEN 0 ELSE IF want = 0 THEN Left(im) ELSE want]
  BY DEF JobStart
<1> HIDE DEF jobs
<1>6. /\ taken \in ImageType /\ taken.request = im.request /\ taken.requests = im.requests /\ taken.events = im.events
      /\ taken.decoder = im.decoder /\ taken.hasSourceData = im.hasSourceData /\ taken.file = im.file
      /\ taken.source = im.source /\ taken.bytesDecoded = im.bytesDecoded /\ taken.error = im.error
  BY <1>1, <1>3 DEF ImageType
<1>7. (ErrorSent(im) => ErrorSent(taken)) /\ (EndSent(im) => EndSent(taken))
  BY <1>6 DEF ErrorSent, EndSent
<1> HIDE DEF taken
<1>8. CASE stop
  <2> DEFINE e == [kind |-> "done", request |-> r]
  <2>1. e \in [kind : {"done", "error", "request"}, request : Nat]
    BY <1>3
  <2>2. im' = [taken EXCEPT !.events = Append(@, e)] /\ job' = job
    BY <1>4, <1>8 DEF Done
  <2> HIDE DEF e
  <2>3. /\ im'.request = taken.request /\ im'.requests = taken.requests
        /\ im'.decoder = taken.decoder /\ im'.hasSourceData = taken.hasSourceData /\ im'.file = taken.file
        /\ (EndSent(taken) => EndSent(im'))
    BY <1>6, <2>1, <2>2, AppendEnds
  <2>4. (ErrorSent(taken) => ErrorSent(im')) /\ im'.source = taken.source /\ im'.bytesDecoded = taken.bytesDecoded /\ im'.error = taken.error
    BY <1>6, <2>2, ErrorStays
  <2> QED BY <1>1, <1>2, <1>6, <1>7, <2>2, <2>3, <2>4, BesideAttended
<1>9. CASE ~ stop
  <2> DEFINE rs == [im.requests EXCEPT ![r].status = "ACTIVE"]
  <2>1. /\ rs \in Seq(RequestType)
        /\ \A x \in DOMAIN im.requests : rs[x].status = IF x = r THEN "ACTIVE" ELSE im.requests[x].status
    <3>1. "ACTIVE" \in StatusType
      BY DEF StatusType
    <3> QED BY <1>3, <3>1, StatusSet
  <2>2. r = im.request /\ r # 0 /\ im.decoder.open
    BY <1>1, <1>3, <1>9 DEF Base
  <2>3. im' = [taken EXCEPT !.requests = rs]
    BY <1>5, <1>6, <1>9
  <2>4. job'.on /\ job'.left = IF ~ may THEN 0 ELSE IF want = 0 THEN Left(im) ELSE want
    BY <1>5, <1>9
  <2>5. want \in Int /\ Left(im) \in Nat /\ im.source \in Int /\ im.bytesDecoded \in Int
    <3>1. im.requests[r] \in RequestType
      BY <1>3
    <3> QED BY <3>1, <1>1 DEF RequestType, ImageType, Left
  <2>6. im.decoder.failed \/ Left(im) = 0 \/ Left(im) <= job'.left
    <3>1. CASE ~ may
      <4>1. im.error => ~ im.decoder.open
        BY DEF Healthy, Sound, Parts
      <4>2. im.decoded => ~ im.decoder.open
        BY DEF Healthy, Sound, Parts
      <4>3. im.pendingError => im.error \/ im.decoder.failed
        BY DEF Healthy, Sound, Parts
      <4> QED BY <2>2, <3>1, <4>1, <4>2, <4>3
    <3>2. CASE may /\ Status(im) = "PENDING"
      <4>1. im.source - im.bytesDecoded <= want
        BY <1>1, <2>2, <3>2 DEF Kept
      <4> HIDE DEF want
      <4>2. Left(im) = 0 \/ Left(im) <= want
        BY <2>5, <4>1 DEF Left
      <4> QED BY <2>4, <2>5, <3>2, <4>2
    <3>3. CASE Status(im) # "PENDING"
      BY <1>1, <1>9, <2>2, <3>3 DEF Settled
    <3> QED BY <3>1, <3>2, <3>3
  <2> HIDE DEF rs, r, want, may
  <2>7. /\ im'.file = im.file /\ im'.hasSourceData = im.hasSourceData /\ im'.source = im.source /\ im'.decoder = im.decoder
        /\ im'.request = r /\ im'.requests = rs /\ im'.bytesDecoded = im.bytesDecoded /\ im'.events = im.events /\ im'.error = im.error
    BY <1>6, <2>1, <2>2, <2>3 DEF ImageType
  <2>8. Status(im') # "PENDING"
    BY <1>3, <2>1, <2>2, <2>7 DEF Status, NoRequest
  <2>9. Kept(im')
    BY <1>1, <2>7, <2>8 DEF Kept, Watched, ErrorSent
  <2>10. Left(im') = Left(im)
    BY <2>7 DEF Left
  <2> QED BY <1>1, <1>2, <2>4, <2>6, <2>7, <2>9, <2>10 DEF Attended, Free
<1> QED BY <1>8, <1>9

(* A job that decodes a chunk has that much less to do.                    *)
LEMMA JobChunkAttended == ASSUME IInv, Healthy, Attended, JobChunk PROVE Attended'
<1> DEFINE chunk == IF im.decoder.full THEN Smaller(job.left, ChunkBytes) ELSE Smaller(job.left, im.source)
           left == Left(im)
           n == Smaller(chunk, left)
           k == im.bytesDecoded + n
           error == [kind |-> "error", request |-> 0]
           es == IF im.pendingError THEN im.events ELSE Append(im.events, error)
           f == [im EXCEPT !.decoder.failed = TRUE]
<1>1. /\ im' = WriteInPool(im, n) /\ job' = [job EXCEPT !.left = @ - chunk] /\ network' = network /\ main' = main
      /\ job.on /\ left > 0 /\ job.left > 0 /\ ~ im.decoder.failed
  BY DEF JobChunk, MoreChunks
<1>2. /\ im \in ImageType /\ job \in JobType /\ im.decoder.open /\ Status(im) = "ACTIVE"
      /\ Kept(im) /\ left <= job.left
  BY <1>1 DEF IInv, Base, Attended
<1>3. /\ job.left \in Int /\ im.source \in Int /\ im.bytesDecoded \in Int /\ left \in Int /\ ChunkBytes \in Int
      /\ left = im.source - im.bytesDecoded
  BY <1>1, <1>2, ChunkBytesAssumption DEF ImageType, JobType, Left
<1>4. chunk \in Int /\ chunk <= job.left
  BY <1>3 DEF Smaller
<1>5. Told' = Told
  BY <1>1 DEF Told
<1>6. job'.on /\ job'.left = job.left - chunk
  BY <1>1, <1>2 DEF JobType
<1> HIDE DEF chunk
<1>7. n \in Int /\ k \in Int /\ n <= left /\ k <= im.source /\ (left - n = 0 \/ left - n <= job.left - chunk)
  BY <1>2, <1>3, <1>4 DEF Smaller
<1> HIDE DEF left, n
<1>8. CASE ~ Fails(im, n)
  <2>1. im' = [im EXCEPT !.bytesDecoded = k]
    BY <1>1, <1>8, <1>2 DEF WriteInPool
  <2> HIDE DEF k
  <2>2. /\ im'.file = im.file /\ im'.hasSourceData = im.hasSourceData /\ im'.source = im.source /\ im'.decoder = im.decoder
        /\ im'.request = im.request /\ im'.requests = im.requests /\ im'.bytesDecoded = k /\ im'.events = im.events /\ im'.error = im.error
    BY <1>2, <2>1 DEF ImageType
  <2>3. Status(im') # "PENDING"
    BY <1>2, <2>2 DEF Status
  <2>4. Kept(im')
    BY <1>1, <1>7, <2>2, <2>3 DEF Kept, Watched
  <2>5. Left(im') = 0 \/ Left(im') <= job'.left
    <3>1. Left(im') = IF im.source > k THEN im.source - k ELSE 0
      BY <2>2 DEF Left
    <3>2. im.source - k = left - n
      BY <1>3, <1>7 DEF k
    <3> QED BY <1>3, <1>6, <1>7, <3>1, <3>2
  <2> QED BY <1>1, <1>5, <1>6, <2>2, <2>4, <2>5 DEF Attended, Free
<1>9. CASE Fails(im, n)
  <2>1. im' = [f EXCEPT !.pendingError = TRUE, !.events = es]
    BY <1>1, <1>2, <1>9 DEF WriteInPool, NoRequest, ImageType
  <2>2. /\ f \in ImageType /\ f.file = im.file /\ f.hasSourceData = im.hasSourceData /\ f.source = im.source
        /\ f.request = im.request /\ f.requests = im.requests /\ f.bytesDecoded = im.bytesDecoded /\ f.error = im.error
        /\ f.decoder.open = im.decoder.open /\ f.decoder.full = im.decoder.full /\ f.decoder.failed
    BY <1>2 DEF ImageType
  <2>3. \E m \in DOMAIN es : es[m].kind = "error"
    <3> DEFINE Event == [kind : {"done", "error", "request"}, request : Nat]
    <3>1. error \in Event /\ im.events \in Seq(Event) /\ error.kind = "error"
      BY <1>2 DEF ImageType
    <3> HIDE DEF error, Event
    <3>2. ~ im.pendingError
      <4>1. im.pendingError => im.error \/ im.decoder.failed
        BY DEF Healthy, Sound, Parts
      <4>2. im.error => ~ im.decoder.open
        BY DEF Healthy, Sound, Parts
      <4> QED BY <1>1, <1>2, <4>1, <4>2
    <3>3. es = Append(im.events, error)
      BY <3>2
    <3> HIDE DEF es
    <3>4. Len(es) \in DOMAIN es /\ es[Len(es)] = error
      BY <3>1, <3>3
    <3> QED BY <3>1, <3>4
  <2> HIDE DEF f, es
  <2>4. /\ im'.file = im.file /\ im'.hasSourceData = im.hasSourceData /\ im'.source = im.source /\ im'.decoder = f.decoder
        /\ im'.request = im.request /\ im'.requests = im.requests /\ im'.bytesDecoded = im.bytesDecoded /\ im'.events = es
        /\ im'.error = im.error
    BY <2>1, <2>2 DEF ImageType
  <2>5. Status(im') # "PENDING"
    BY <1>2, <2>4 DEF Status
  <2>6. Kept(im')
    BY <1>2, <2>2, <2>3, <2>4, <2>5 DEF Kept, Watched, ErrorSent
  <2> QED BY <1>1, <1>5, <1>6, <2>2, <2>4, <2>6 DEF Attended, Free
<1> QED BY <1>8, <1>9

(* A job ends: there is nothing left for it, or it asks for another one.   *)
LEMMA JobEndAttended == ASSUME IInv, Healthy, Attended, JobEnd PROVE Attended'
<1> DEFINE r == job.request
           ended == JobEnded(r)
           rs == [im.requests EXCEPT ![r].status = "WORK_DONE"]
           e == [kind |-> "done", request |-> r]
<1>1. /\ job.on /\ job' = Idle /\ network' = network /\ main' = main /\ ~ MoreChunks
      /\ im' = PoolRequestDecode(ended) \/ im' = Done(ended, r)
  BY DEF JobEnd
<1>2. /\ im \in ImageType /\ Base(im) /\ job \in JobType /\ im.decoder.open /\ r = im.request /\ r # 0 /\ r \in Nat
      /\ im.requests \in Seq(RequestType) /\ r \in DOMAIN im.requests /\ Kept(im)
  BY <1>1 DEF IInv, Base, ImageType, Attended
<1>3. /\ rs \in Seq(RequestType) /\ Len(rs) = Len(im.requests) /\ DOMAIN rs = DOMAIN im.requests
      /\ \A x \in DOMAIN im.requests : rs[x].status = IF x = r THEN "WORK_DONE" ELSE im.requests[x].status
  <2>1. "WORK_DONE" \in StatusType
    BY DEF StatusType
  <2> QED BY <1>2, <2>1, StatusSet
<1>4. ended = [im EXCEPT !.requests = rs]
  BY DEF JobEnded
<1>5. e \in [kind : {"done", "error", "request"}, request : Nat]
  BY <1>2
<1>6. Done(ended, r) = [ended EXCEPT !.events = Append(@, e)]
  BY DEF Done
<1>7. Told' = Told
  BY <1>1 DEF Told
<1>8. ~ job'.on
  BY <1>1 DEF Idle
<1>9. im.decoder.failed \/ Left(im) = 0 \/ IsDecodeFinished(im)
  <2>1. Left(im) \in Nat /\ job.left \in Int
    BY <1>2 DEF JobType, ImageType, Left
  <2> QED BY <1>1, <2>1 DEF Attended, MoreChunks
<1> HIDE DEF ended, rs
<1>10. /\ ended \in ImageType /\ ended.request = im.request /\ ended.requests = rs /\ ended.jobs = im.jobs /\ ended.events = im.events
       /\ ended.decoder = im.decoder /\ ended.hasSourceData = im.hasSourceData /\ ended.file = im.file
       /\ ended.source = im.source /\ ended.bytesDecoded = im.bytesDecoded /\ ended.error = im.error
  BY <1>2, <1>3, <1>4 DEF ImageType
<1>11. Base(ended) /\ Status(ended) = "WORK_DONE"
  <2>1. \A x \in DOMAIN rs : x # r => rs[x].status = "STOPPED"
    BY <1>2, <1>3 DEF Base
  <2> HIDE DEF r
  <2> QED BY <1>2, <1>3, <1>10, <2>1 DEF Base, Status, NoRequest
<1>12. Watched(ended)
  BY <1>2, <1>10 DEF Kept, Watched, ErrorSent
<1>13. CASE im' = PoolRequestDecode(ended)
  <2>1. Calm(ended)
    BY <1>11 DEF Calm
  <2>2. Kept(im') /\ \A told : Settled(im', told)
    BY <1>2, <1>10, <1>12, <1>13, <2>1, RequestKept
  <2>3. Same(ended, im')
    BY <1>2, <1>10, <1>13, RequestSame
  <2> QED BY <1>1, <1>2, <1>7, <1>8, <1>10, <2>2, <2>3 DEF Attended, Same
<1>14. CASE im' = Done(ended, r)
  <2>1. r = ended.request /\ e.kind = "done" /\ e.request = r /\ e = [kind |-> "done", request |-> ended.request]
    BY <1>2, <1>10
  <2>7. im' = [ended EXCEPT !.events = Append(@, e)]
    BY <1>6, <1>14
  <2> HIDE DEF e, r
  <2>2. /\ im'.request = ended.request /\ im'.requests = ended.requests
        /\ im'.decoder = ended.decoder /\ im'.hasSourceData = ended.hasSourceData /\ im'.file = ended.file
        /\ EndSent(im')
    <3>1. ended \in ImageType
      BY <1>10
    <3>2. /\ im'.request = ended.request /\ im'.requests = ended.requests
          /\ im'.decoder = ended.decoder /\ im'.hasSourceData = ended.hasSourceData /\ im'.file = ended.file
          /\ e = [kind |-> "done", request |-> ended.request] => EndSent(im')
      BY <3>1, <1>5, <2>7, AppendEnds
    <3> QED BY <2>1, <3>2
  <2>3. (ErrorSent(ended) => ErrorSent(im')) /\ im'.source = ended.source /\ im'.bytesDecoded = ended.bytesDecoded /\ im'.error = ended.error
    BY <1>10, <2>7, ErrorStays
  <2>4. Status(im') = "WORK_DONE" /\ Left(im') = Left(im) /\ (IsDecodeFinished(im') <=> IsDecodeFinished(im))
    BY <1>10, <1>11, <2>2, <2>3 DEF Status, Left, IsDecodeFinished, DecoderHasSize
  <2>5. Kept(im')
    BY <1>12, <2>2, <2>3, <2>4 DEF Kept, Watched
  <2>6. Settled(im', Told)
    <3>1. CASE Left(im) = 0 /\ Told
      <4>1. im.source \in Int /\ im.bytesDecoded \in Int
        BY <1>2 DEF ImageType
      <4>2. im.hasSourceData /\ im.bytesDecoded <= im.source
        BY <1>2, <3>1 DEF Attended, Kept, Watched
      <4>3. im.bytesDecoded = im.source
        BY <3>1, <4>1, <4>2 DEF Left
      <4> QED BY <4>2, <4>3, <2>2, <2>4 DEF Settled, IsDecodeFinished
    <3>2. CASE Left(im) = 0 /\ ~ Told
      BY <3>2, <2>4 DEF Settled
    <3>3. CASE im.decoder.failed
      BY <3>3, <1>10, <2>2 DEF Settled
    <3>4. CASE IsDecodeFinished(im)
      BY <3>4, <2>2, <2>4 DEF Settled
    <3> QED BY <1>9, <3>1, <3>2, <3>3, <3>4
  <2> QED BY <1>1, <1>2, <1>7, <1>8, <1>10, <2>2, <2>3, <2>5, <2>6 DEF Attended
<1> QED BY <1>1, <1>13, <1>14

(* Every step keeps the image attended to.                                 *)
LEMMA NextAttended == IInv /\ Healthy /\ Attended /\ [Next]_vars => Attended'
<1> SUFFICES ASSUME IInv, Healthy, Attended, [Next]_vars PROVE Attended'
  OBVIOUS
<1>1. CASE Network
  BY <1>1, AddDataAttended, DataCompleteAttended DEF Network
<1>2. CASE Step
  BY <1>2, CompleteAttended, SizeFirstAttended, DecodeRestAttended, DiscardAttended, HandleEventAttended DEF Step
<1>3. CASE Pool
  BY <1>3, JobStartAttended, JobChunkAttended, JobEndAttended DEF Pool
<1>4. CASE CallDraw \/ \E call \in {"request", "start"} : CallRequest(call)
  BY <1>4, CallAttended
<1>5. CASE LockImage \/ UnlockImage
  BY <1>5, LockAttended
<1>6. CASE Discard
  BY <1>6, DiscardAttended
<1>7. CASE Finished \/ UNCHANGED vars
  <2>1. UNCHANGED << im, network, job >> /\ Told' = Told
    BY <1>7 DEF Finished, vars, Told
  <2> QED BY <2>1, AsideAttended
<1> QED BY <1>1, <1>2, <1>3, <1>4, <1>5, <1>6, <1>7 DEF Next

(* With no job and no event left, an open decoder neither waits nor has    *)
(* failed nor is about to be closed.                                       *)
LEMMA AttendedImplies == IInv /\ Attended => NoWorkLost
<1> SUFFICES ASSUME IInv, Attended, main = AtRest, ~ job.on, im.jobs = << >>, im.events = << >>, im.decoder.open
             PROVE  network = "open" /\ Left(im) = 0
  BY DEF NoWorkLost
<1>1. ~ HasJob(im) /\ ~ EndSent(im) /\ ~ ErrorSent(im)
  BY DEF HasJob, EndSent, ErrorSent
<1>2. Status(im) # "PENDING" /\ ~ im.decoder.failed
  BY <1>1 DEF IInv, Attended, Kept, Watched
<1>3. ~ Told /\ Left(im) = 0
  BY <1>1, <1>2 DEF Attended, Settled, Free
<1> QED BY <1>3, AtRestOK DEF Attended, Told

(* No work is forgotten, whatever the files, the chunks, the number of     *)
(* threads and the order of their steps: when no job and no event is left, *)
(* a decoder is open only while the network may bring more, and it has got *)
(* every byte there is.                                                    *)
THEOREM NothingForgotten == Spec => []NoWorkLost
<1>1. IInv /\ Healthy /\ Attended /\ [Next]_vars => IInv' /\ Healthy' /\ Attended'
  BY NextInv, NextHealthy, NextAttended
<1> QED BY <1>1, InitInv, InitHealthy, InitAttended, AttendedImplies, PTL DEF Spec
=============================================================================
