----------------------------- MODULE ListStream -----------------------------
(***************************************************************************)
(* The linked-list stream as the decoder uses it.  nsJPEGXRDecoder::Receive*)
(* appends what came from the network (SetPos to the end, then Write); the *)
(* container parser and SimpleBitIO move and Read; BitIO moves and Reads   *)
(* what there is (Read1); the driver gives up the head of the stream.      *)
(* Every C call is one atomic step: the decoder is single-threaded.        *)
(***************************************************************************)
EXTENDS WSList

CONSTANTS Sizes,         \* sizes of the chunks received and of the reads
          MaxBytes       \* bound: bytes received by one stream

ASSUME SizesAssumption ==
  /\ Sizes \subseteq Nat
  /\ MaxBytes \in Nat

VARIABLES ws,     \* the stream: pWS->state.buf and the packets
          total,  \* m_totalReceived of the decoder
          heap,   \* packets allocated and not freed
          got,    \* bytes returned by the last call
          phase   \* "open", "closed", or "hung" in a loop that cannot end

vars == << ws, total, heap, got, phase >>

Init ==
  /\ ws = NewStream
  /\ total = 0
  /\ heap = 0
  /\ got = << >>
  /\ phase = "open"

Arrivals(at, n) == [i \in 1 .. n |-> at + i - 1]     \* the n bytes from byte at on

InPlace == ws                              \* MUTANT: Write wherever the reader was

ToEnd == SetPosWS_List(ws, total)

(* nsJPEGXRDecoder::Receive: the errors of SetPos and Write are dropped    *)
(* and the count is taken as received either way.                          *)
Receive(n) ==
  /\ phase = "open"
  /\ total + n <= MaxBytes
  /\ ws' = WriteWS_List(ToEnd, Arrivals(total, n))
  /\ heap' = heap + Allocations(ToEnd, n)
  /\ total' = total + n
  /\ got' = << >>
  /\ UNCHANGED phase

SetPos(offPos) ==
  /\ phase = "open"
  /\ ws' = SetPosWS_List(ws, offPos)
  /\ got' = << >>
  /\ UNCHANGED << total, heap, phase >>

Read(cb) ==
  /\ phase = "open"
  /\ IF ReadErr(ws, cb) = "Success"
     THEN ws' = Advance(ws, cb) /\ got' = BytesAt(ws, cb)
     ELSE ws' = ws /\ got' = << >>
  /\ UNCHANGED << total, heap, phase >>

Read1(cb) ==
  /\ phase = "open"
  /\ ~ Read1Wraps(ws, cb)
  /\ LET n == Read1Size(ws, cb)
     IN  ws' = Advance(ws, n) /\ got' = BytesAt(ws, n)
  /\ UNCHANGED << total, heap, phase >>

(* The same call when the remaining size wraps: the copy loop counts       *)
(* packets for ever (or faults, when there is no packet at all).           *)
Read1Hangs(cb) ==
  /\ phase = "open"
  /\ Read1Wraps(ws, cb)
  /\ phase' = "hung"
  /\ got' = << >>
  /\ UNCHANGED << ws, total, heap >>

DiscardHead(cBytes) ==
  /\ phase = "open"
  /\ ws' = DiscardHeadWS_List(ws, cBytes)
  /\ heap' = heap - Droppable(ws, cBytes)
  /\ got' = << >>
  /\ UNCHANGED << total, phase >>

(* CloseWS_List walks the list and frees what it finds there.              *)
Close ==
  /\ phase = "open"
  /\ phase' = "closed"
  /\ ws' = NewStream
  /\ heap' = heap - Len(ws.packets)
  /\ total' = 0
  /\ got' = << >>

(* CreateWS_List for the next image.                                       *)
Create ==
  /\ phase = "closed"
  /\ phase' = "open"
  /\ ws' = NewStream
  /\ got' = << >>
  /\ UNCHANGED << total, heap >>

Next ==
  \/ \E n \in Sizes : Receive(n) \/ Read(n) \/ Read1(n) \/ Read1Hangs(n)
  \/ \E off \in 0 .. MaxBytes : SetPos(off) \/ DiscardHead(off)
  \/ Close
  \/ Create

Spec == Init /\ [][Next]_vars

-----------------------------------------------------------------------------
(* Type correctness of every variable.                                     *)
TypeOK ==
  /\ ws \in StreamType
  /\ total \in Nat
  /\ heap \in Nat
  /\ got \in Seq(Int)
  /\ phase \in {"open", "closed", "hung"}

(* The list and the counters of the stream agree: the packets that are     *)
(* left hold exactly the bytes not discarded with nothing but the last one *)
(* partly filled, and pbBuf points into the list (or is NULL with it) at a *)
(* byte that has arrived; a used-up packet is left only for a next one.    *)
ListOK ==
  LET n == Len(ws.packets)
  IN  /\ ws.cbBuf <= ws.cbDiscarded + PacketBytes(n)
      /\ n > 0 => ws.cbDiscarded + PacketBytes(n - 1) < ws.cbBuf
      /\ n = 0 => ws.cbBuf = ws.cbDiscarded
      /\ ws.cur \in 0 .. n
      /\ ws.cur = 0 <=> n = 0
      /\ ws.cur > 0 => ws.cbCur <= PL /\ TruePos(ws) <= ws.cbBuf
      /\ ws.cbCur = PL /\ ws.cur > 0 => ws.cur = n

(* No packet is lost: what was allocated and not freed is on the list, so  *)
(* Close frees all of it.                                                  *)
NoLeak == heap = Len(ws.packets)

(* The stream has every byte the decoder counted as received, each at its  *)
(* own place.                                                              *)
ReceivedIntact ==
  /\ ws.cbBuf = total
  /\ \A k \in 1 .. Len(ws.packets) : \A j \in Slots :
       LET off == ws.cbDiscarded + PacketBytes(k - 1) + j
       IN  off < total => ws.packets[k][j] = off

(* The counters never place the stream before the byte it really is at,    *)
(* and once they are ahead of it they are so by one whole packet, at or    *)
(* past the end.  DiscardHead relies on it: it bounds what it frees by     *)
(* this count and by the end of the stream.                                *)
PositionDrift ==
  ws.cbBuf > 0 /\ ws.cur > 0 =>
     \/ CurrPos(ws) = TruePos(ws)
     \/ CurrPos(ws) = TruePos(ws) + PL /\ TruePos(ws) = ws.cbBuf

(* Moving to a byte that has arrived and was not discarded always works,   *)
(* and moves there: BitIO counts on it whenever it refills.                *)
SeekLands ==
  \A off \in 0 .. MaxBytes :
    off >= ws.cbDiscarded /\ off <= ws.cbBuf =>
      /\ SetPosErr(ws, off) = "Success"
      /\ TruePos(SetPosWS_List(ws, off)) = off \/ ws.packets = << >>

(* The list implements the byte stream, at the position it really is at.   *)
ReaderPos == IF ws.cur = 0 THEN ws.cbDiscarded ELSE TruePos(ws)

Stream == INSTANCE ByteStream
          WITH len <- total, pos <- ReaderPos, floor <- ws.cbDiscarded

ImplementsByteStream == Stream!StreamSpec

(* A call of the stream returns: no read loops for ever.                   *)
CallsReturn == phase # "hung"

(* GetPos is the offset of the byte the next read returns.                 *)
GetPosExact == ws.cbBuf > 0 => GetPosWS_List(ws) = ReaderPos

=============================================================================
