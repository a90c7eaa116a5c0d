------------------------------ MODULE BitIORead ------------------------------
(***************************************************************************)
(* The read side of BitIOInfo (image/sys/strcodec.c: attachISRead, readIS, *)
(* detachISRead) over the linked-list stream of WSList: a ring             *)
(* of two packets, refilled one packet at a time from a stream that may    *)
(* not have all the bytes yet.                                             *)
(*                                                                         *)
(* One operator per call, on a record with the fields of BitIOInfo.  Bits  *)
(* are followed to the byte: taking bits is taking the bytes they are in.  *)
(* Packets are PK bytes (PACKETLENGTH, 0x1000 in the code).                *)
(***************************************************************************)
EXTENDS WSList

CONSTANT PK          \* PACKETLENGTH

ASSUME PKAssumption == PK \in Nat \ {0}

Ring == 0 .. 2 * PK - 1
NoPtr == -1          \* a NULL pbStart or pbCurrent

(* AllocateBitIOEntries clears the memory it hands out.                    *)
NewBitIO ==
  [attached  |-> FALSE,      \* pWS # NULL
   pbStart   |-> NoPtr,      \* 0 or PK: the packet read from next
   pbCurrent |-> NoPtr,      \* where in the ring the next bit is
   offRef    |-> 0,          \* stream offset of the next refill
   totalRead |-> 0,
   failed    |-> FALSE,      \* a refill damaged the packet it was to replace
   ring      |-> [i \in Ring |-> Blank]]

BitIOType ==
  [attached  : BOOLEAN,
   pbStart   : {NoPtr, 0, PK},
   pbCurrent : {NoPtr} \cup Ring,
   offRef    : Nat,
   totalRead : Nat,
   failed    : BOOLEAN,
   ring      : [Ring -> Int]]

(* The bytes of the ring after bytes were copied to it at position at.     *)
Copied(ring, at, bytes) ==
  [i \in Ring |-> IF i >= at /\ i < at + Len(bytes) THEN bytes[i - at + 1] ELSE ring[i]]

-----------------------------------------------------------------------------
(* attachISRead: fill both packets from where the stream is.  toRead is    *)
(* cut at the upper limit, not at what the stream has.                     *)
AttachSize(s, upper) == Least(2 * PK, upper - GetPosWS_List(s))

AttachErr(s, upper) ==
  CASE GetPosWS_List(s) >= upper -> "OutOfBounds"
    [] OTHER -> IF Read1Err(s, AttachSize(s, upper)) # "Success" THEN "OutOfBounds"
                ELSE IF Read1Size(s, AttachSize(s, upper)) < AttachSize(s, upper)
                     THEN "DataNotAvailable" ELSE "Success"

AttachTaken(s, upper) ==     \* bytes moved from the stream by the call
  IF GetPosWS_List(s) >= upper THEN 0 ELSE Read1Size(s, AttachSize(s, upper))

attachISRead(io, s, upper) ==
  LET n    == AttachTaken(s, upper)
      ring == Copied(io.ring, 0, BytesAt(s, n))
  IN  CASE AttachErr(s, upper) = "Success" ->
             [attached |-> TRUE, pbStart |-> 0, pbCurrent |-> 0, failed |-> io.failed,
              offRef |-> GetPosWS_List(s) + n, totalRead |-> n, ring |-> ring]
        [] AttachErr(s, upper) = "DataNotAvailable" ->
             [io EXCEPT !.attached = FALSE, !.failed = FALSE, !.ring = ring]
        [] OTHER -> [io EXCEPT !.attached = FALSE]

-----------------------------------------------------------------------------
(* readIS: when the packet at pbStart is used up (PACKET1), replace it.    *)
Used(io) == io.pbStart \div PK # io.pbCurrent \div PK

RefillSize(io, upper) == Least(PK, upper - io.offRef)

RefillSeek(io, s) == SetPosWS_List(s, io.offRef)

ReadISErr(io, s, upper) ==
  CASE ~ Used(io)                       -> "Success"
    [] Used(io) /\ io.offRef >= upper   -> "OutOfBounds"
    [] OTHER ->
       IF SetPosErr(s, io.offRef) # "Success" THEN SetPosErr(s, io.offRef)
       ELSE IF Read1Err(RefillSeek(io, s), RefillSize(io, upper)) # "Success" THEN "OutOfBounds"
       ELSE IF Read1Size(RefillSeek(io, s), RefillSize(io, upper)) < RefillSize(io, upper)
            THEN "DataNotAvailable" ELSE "Success"

(* Whether the call gets as far as the stream's Read1.                     *)
Refills(io, s, upper) == Used(io) /\ io.offRef < upper /\ SetPosErr(s, io.offRef) = "Success"

RefillTaken(io, s, upper) ==
  IF Refills(io, s, upper) THEN Read1Size(RefillSeek(io, s), RefillSize(io, upper)) ELSE 0

(* The stream after the call.                                              *)
ReadISStream(io, s, upper) ==
  IF Refills(io, s, upper) THEN Advance(RefillSeek(io, s), RefillTaken(io, s, upper)) ELSE s

readIS(io, s, upper) ==
  LET n    == RefillTaken(io, s, upper)
      ring == Copied(io.ring, io.pbStart, BytesAt(RefillSeek(io, s), n))
      err  == ReadISErr(io, s, upper)
  IN  CASE err = "Success" /\ Used(io) ->
             [io EXCEPT !.ring = ring, !.failed = FALSE, !.offRef = @ + n,
                        !.totalRead = @ + n, !.pbStart = (@ + PK) % (2 * PK)]
        [] err = "DataNotAvailable" -> [io EXCEPT !.ring = ring, !.failed = TRUE]
        [] OTHER -> io

-----------------------------------------------------------------------------
detachISRead(io) ==
  IF ~ io.attached THEN io
  ELSE [io EXCEPT !.attached = FALSE, !.pbStart = NoPtr, !.pbCurrent = NoPtr,
                  !.offRef = 0, !.failed = FALSE]

(* Taking n bytes (getBit16 and its kin): pbCurrent runs round the ring.   *)
Taken(io, n) == [k \in 1 .. n |-> io.ring[(io.pbCurrent + k - 1) % (2 * PK)]]

Take(io, n) == [io EXCEPT !.pbCurrent = (@ + n) % (2 * PK)]

-----------------------------------------------------------------------------
(* SaveDecoderState copies a reader with its ring.  RestoreDecoderState    *)
(* copies the ring back only if it may have changed (BitIOBufsEqual).      *)
BufsEqualUnflagged(io, backup) ==                                                 \* MUTANT
  io.pbStart = backup.pbStart /\ io.offRef = backup.offRef

BitIOBufsEqual(io, backup) ==
  ~ io.failed /\ io.pbStart = backup.pbStart /\ io.offRef = backup.offRef

RestoredBitIO(io, backup) ==
  IF BitIOBufsEqual(io, backup) THEN [backup EXCEPT !.ring = io.ring] ELSE backup

=============================================================================
