------------------------------- MODULE WSList -------------------------------
(***************************************************************************)
(* The linked-list WMPStream of image/sys/strcodec.c (ReadWS_List,         *)
(* WriteWS_List, SetPosWS_List, DiscardHeadWS_List ...), the stream the    *)
(* decoder fills from the network while the codec reads it.  This module   *)
(* holds one operator per stream call, on a record that has the fields of  *)
(* pWS->state.buf; ListStream turns them into a state machine and BitIORead*)
(* reads through them.                                                     *)
(*                                                                         *)
(* The C loops are given by their closed form: a loop that walks k packets *)
(* adds k to the packet index.  A byte is its number in the order of       *)
(* arrival, so that a byte read can be told from every other byte.         *)
(***************************************************************************)
EXTENDS Integers, Sequences

CONSTANT PL          \* LIST_PACKETLENGTH, 0x4000 in the code

ASSUME PLAssumption == PL \in Nat \ {0}

Slots == 0 .. PL - 1
Blank == -1          \* a byte of a packet that nothing was written to yet

(* The packets are the list hanging off the stream, in order.  cur is the  *)
(* packet pbBuf points into, counted from 1, and 0 stands for NULL.        *)
NewStream ==
  [packets     |-> << >>,
   cur         |-> 0,
   cbBuf       |-> 0,
   cbCur       |-> 0,
   cbBufCount  |-> 0,
   cbDiscarded |-> 0]

StreamType ==
  [packets     : Seq([Slots -> Int]),
   cur         : Nat,
   cbBuf       : Nat,
   cbCur       : Nat,
   cbBufCount  : Int,
   cbDiscarded : Nat]

Least(a, b) == IF a < b THEN a ELSE b

PacketBytes(k) == PL * k     \* the bytes k packets hold

(* Operators marked MUTANT are not the code: each is a neighbour of it with  *)
(* one plausible mistake, kept to show which property would notice.        *)

(* The position the stream computes from its counters (currPos).           *)
CurrPos(ws) == ws.cbDiscarded + ws.cbCur + PacketBytes(ws.cbBufCount - 1)

GetPosWS_List(ws) == IF ws.cbBuf = 0 THEN 0 ELSE CurrPos(ws)

(* The offset of the byte that pbBuf[cbCur] is, which CurrPos should equal.*)
TruePos(ws) == ws.cbDiscarded + ws.cbCur + (IF ws.cur = 0 THEN 0 ELSE PacketBytes(ws.cur - 1))

-----------------------------------------------------------------------------
(* SetPosWS_List: the error, and the stream after the call.                *)
SetPosErrAtEnd(ws, offPos) ==                                                     \* MUTANT
  IF offPos >= ws.cbBuf THEN "OutOfBounds" ELSE "Success"

SetPosErr(ws, offPos) ==
  CASE offPos > ws.cbBuf                  -> "OutOfBounds"
    [] offPos = 0 /\ ws.cbBuf = 0         -> "Success"
    [] OTHER -> IF offPos < ws.cbDiscarded THEN "DataDiscarded" ELSE "Success"

(* Packets the walk from the head passes: it stops at the last one, so a   *)
(* position at the very end of a full packet stays on that packet.         *)
Walk(ws, off) ==
  IF ws.packets = << >> THEN 0 ELSE Least(off \div PL, Len(ws.packets) - 1)

SetPosWS_List(ws, offPos) ==
  IF SetPosErr(ws, offPos) # "Success" \/ ws.cbBuf = 0 THEN ws
  ELSE LET off  == offPos - ws.cbDiscarded
           hops == Walk(ws, off)
       IN  [ws EXCEPT !.cur        = IF ws.packets = << >> THEN 0 ELSE hops + 1,
                      !.cbCur      = off - PacketBytes(hops),
                      !.cbBufCount = hops + 1]

-----------------------------------------------------------------------------
(* The copying loop that ReadWS_List and ReadWS_List1 share.  Whenever a   *)
(* packet is used up the loop counts the next one, but moves to it only if *)
(* it exists.                                                              *)
HopsLate(ws, cb) == IF cb = 0 THEN 0 ELSE (ws.cbCur + cb - 1) \div PL              \* MUTANT

Hops(ws, cb) == IF cb = 0 THEN 0 ELSE (ws.cbCur + cb) \div PL

Advance(ws, cb) ==
  LET hops == Hops(ws, cb)
  IN  IF ws.cur + hops <= Len(ws.packets)
      THEN [ws EXCEPT !.cur        = ws.cur + hops,
                      !.cbCur      = ws.cbCur + cb - PacketBytes(hops),
                      !.cbBufCount = ws.cbBufCount + hops]
      ELSE [ws EXCEPT !.cur        = Len(ws.packets),
                      !.cbCur      = PL,
                      !.cbBufCount = ws.cbBufCount + hops]

BytesAt(ws, cb) ==
  [i \in 1 .. cb |-> LET at == ws.cbCur + i - 1
                     IN  ws.packets[ws.cur + at \div PL][at % PL]]

ReadErr(ws, cb) ==
  IF \/ ws.cbBuf = 0 /\ cb > 0
     \/ ws.cbBuf < CurrPos(ws) + cb
  THEN "OutOfBounds" ELSE "Success"

(* ReadWS_List1 cuts the request to what is left.  cbBuf - currPos is      *)
(* unsigned: past the end it wraps to a size the loop never exhausts.      *)
Read1Err(ws, cb)   == IF ws.cbBuf = 0 /\ cb > 0 THEN "OutOfBounds" ELSE "Success"
Read1Wraps(ws, cb) == Read1Err(ws, cb) = "Success" /\ ws.cbBuf > 0 /\ CurrPos(ws) > ws.cbBuf
Read1Size(ws, cb)  ==
  IF Read1Err(ws, cb) # "Success" \/ ws.cbBuf = 0 THEN 0
  ELSE Least(cb, ws.cbBuf - CurrPos(ws))

-----------------------------------------------------------------------------
(* WriteWS_List.  The bytes first fill what is left of the current packet; *)
(* each further packet is allocated and linked behind the current one, so  *)
(* what used to follow it is no longer reachable.  WMPAlloc is taken to    *)
(* succeed.                                                                *)
Room(ws) == IF ws.cur = 0 THEN 0 ELSE PL - ws.cbCur

Allocations(ws, cb) == IF cb <= Room(ws) THEN 0 ELSE (cb - Room(ws) + PL - 1) \div PL

Filled(ws, bytes, j) ==      \* byte j of the current packet after the write
  IF j >= ws.cbCur /\ j < ws.cbCur + Least(Len(bytes), Room(ws))
  THEN bytes[j - ws.cbCur + 1]
  ELSE ws.packets[ws.cur][j]

FreshFromStart(ws, bytes, k, j) ==                                                \* MUTANT
  LET i == PacketBytes(k - 1) + j + 1 IN IF i <= Len(bytes) THEN bytes[i] ELSE Blank

Fresh(ws, bytes, k, j) ==    \* byte j of the k-th packet allocated
  LET i == Room(ws) + PacketBytes(k - 1) + j + 1
  IN  IF i <= Len(bytes) THEN bytes[i] ELSE Blank

WrittenPackets(ws, bytes) ==
  LET new  == Allocations(ws, Len(bytes))
      kept == IF new = 0 THEN Len(ws.packets) ELSE ws.cur
  IN  [k \in 1 .. kept + new |->
         IF k > kept        THEN [j \in Slots |-> Fresh(ws, bytes, k - kept, j)]
         ELSE IF k = ws.cur THEN [j \in Slots |-> Filled(ws, bytes, j)]
         ELSE ws.packets[k]]

WriteWS_List(ws, bytes) ==
  LET cb  == Len(bytes)
      new == Allocations(ws, cb)
  IN  [ws EXCEPT !.packets    = WrittenPackets(ws, bytes),
                 !.cur        = ws.cur + new,
                 !.cbCur      = IF new = 0 THEN ws.cbCur + cb
                                ELSE cb - Room(ws) - PacketBytes(new - 1),
                 !.cbBuf      = ws.cbBuf + cb,
                 !.cbBufCount = ws.cbBufCount + new]

-----------------------------------------------------------------------------
(* DiscardHeadWS_List frees whole packets below the requested byte, the    *)
(* current position and the end of the stream.                             *)
DiscardErr(ws, cBytes) == IF ws.cbBuf = 0 /\ cBytes > 0 THEN "OutOfBounds" ELSE "Success"

DroppableAhead(ws, cBytes) ==                                                     \* MUTANT
  IF ws.cbDiscarded >= cBytes THEN 0 ELSE (Least(cBytes, ws.cbBuf) - ws.cbDiscarded) \div PL

Droppable(ws, cBytes) ==
  IF DiscardErr(ws, cBytes) # "Success" \/ ws.cbDiscarded >= cBytes THEN 0
  ELSE LET upTo == Least(Least(cBytes, CurrPos(ws)), ws.cbBuf)
       IN  IF upTo < ws.cbDiscarded + PL THEN 0 ELSE (upTo - ws.cbDiscarded) \div PL

(* pbBuf is left alone unless the list becomes empty: a packet freed under *)
(* it would leave it dangling, which cur < 0 would show.                   *)
DiscardHeadWS_List(ws, cBytes) ==
  LET k == Droppable(ws, cBytes)
  IN  IF k = 0 THEN ws
      ELSE [ws EXCEPT !.packets     = SubSeq(ws.packets, k + 1, Len(ws.packets)),
                      !.cur         = IF k = Len(ws.packets) THEN 0 ELSE ws.cur - k,
                      !.cbBufCount  = ws.cbBufCount - k,
                      !.cbDiscarded = ws.cbDiscarded + PacketBytes(k)]

=============================================================================
