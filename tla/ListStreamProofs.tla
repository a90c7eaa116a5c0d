-------------------------- MODULE ListStreamProofs --------------------------
(***************************************************************************)
(* Proofs about ListStream for every packet length and every set of chunk  *)
(* sizes.  What a call does to the stream, and what it keeps of it, are    *)
(* lemmas of StreamProofs; here they are put together over the actions.    *)
(***************************************************************************)
EXTENDS ListStream, StreamProofs

(* The inductive invariant.  Stored (StreamProofs) is the part of the      *)
(* stream; the rest counts its packets.                                    *)
Idle == phase = "closed" => total = 0

Inv ==
  /\ TypeOK
  /\ Stored(ws, total)
  /\ NoLeak
  /\ Idle

USE PLAssumption, SizesAssumption

(* The parts of it under the names they have in ListStream.                *)
LEMMA InvParts ==
  Inv => /\ ws \in StreamType /\ total \in Nat /\ ws.cbBuf = total
         /\ Listed(ws) /\ Counted(ws) /\ Intact(ws, total)
         /\ ListOK /\ ReceivedIntact
  BY DEF Inv, TypeOK, Stored, Listed, ListOK, Intact, ReceivedIntact

-----------------------------------------------------------------------------
(* The inductive step, action by action.                                   *)
THEOREM InvInit == Init => Inv
  BY NewStored DEF Init, Inv, TypeOK, NoLeak, Idle

(* A call that only moves: SetPos, or Read and Read1, which copy.          *)
LEMMA MoveStep ==
  ASSUME Inv, Stored(ws', total), ws'.packets = ws.packets,
         UNCHANGED << total, heap, phase >>, got' \in Seq(Int)
  PROVE  Inv'
  BY DEF Inv, TypeOK, Stored, NoLeak, Idle

LEMMA SetPosStep ==
  ASSUME Inv, NEW off \in Nat, SetPos(off)
  PROVE  Inv'
<1>1. /\ ws' = SetPosWS_List(ws, off) /\ got' = << >>
      /\ UNCHANGED << total, heap, phase >> /\ << >> \in Seq(Int)
  BY DEF SetPos
<1>2. Stored(ws', total) /\ ws'.packets = ws.packets
  BY <1>1, SeekKeeps DEF Inv
<1> QED BY <1>1, <1>2, MoveStep

LEMMA CopyStep ==
  ASSUME Inv, NEW cb \in Nat,
         cb > 0 => ws.cbBuf > 0 /\ CurrPos(ws) + cb <= ws.cbBuf,
         ws' = Advance(ws, cb), got' = BytesAt(ws, cb),
         UNCHANGED << total, heap, phase >>
  PROVE  Inv'
<1>1. Stored(ws', total) /\ ws'.packets = ws.packets
  BY CopyKeeps DEF Inv
<1>2. cb > 0 => ws.cur > 0 /\ TruePos(ws) + cb <= ws.cbBuf
  BY ReadFits DEF Inv
<1>3. got' \in Seq(Int)
  BY <1>2, CopiedContent DEF Inv
<1> QED BY <1>1, <1>3, MoveStep

LEMMA ReadStep ==
  ASSUME Inv, NEW cb \in Nat, Read(cb)
  PROVE  Inv'
<1>1. ws \in StreamType /\ CurrPos(ws) \in Int /\ << >> \in Seq(Int)
  BY CurrPosInt, InvParts
<1>2. CASE ReadErr(ws, cb) = "Success"
  <2>1. ws' = Advance(ws, cb) /\ got' = BytesAt(ws, cb) /\ UNCHANGED << total, heap, phase >>
    BY <1>2 DEF Read
  <2>2. cb > 0 => ws.cbBuf > 0 /\ CurrPos(ws) + cb <= ws.cbBuf
    BY <1>1, <1>2 DEF ReadErr, StreamType
  <2> QED BY <2>1, <2>2, CopyStep
<1>3. CASE ReadErr(ws, cb) # "Success"
  <2>1. ws' = ws /\ got' = << >> /\ UNCHANGED << total, heap, phase >>
    BY <1>3 DEF Read
  <2> QED BY <2>1, <1>1 DEF Inv, TypeOK, NoLeak, Idle
<1> QED BY <1>2, <1>3

LEMMA Read1Step ==
  ASSUME Inv, NEW cb \in Nat, Read1(cb)
  PROVE  Inv'
<1>1. ws \in StreamType /\ CurrPos(ws) \in Int
  BY CurrPosInt, InvParts
<1>2. PICK n \in Int : n = Read1Size(ws, cb)
  BY <1>1 DEF Read1Size, Least, StreamType
<1>3. n \in Nat /\ (n > 0 => ws.cbBuf > 0 /\ CurrPos(ws) + n <= ws.cbBuf)
  <2>1. CASE Read1Err(ws, cb) # "Success" \/ ws.cbBuf = 0
    BY <2>1, <1>2 DEF Read1Size
  <2>2. CASE ~ (Read1Err(ws, cb) # "Success" \/ ws.cbBuf = 0)
    <3>1. n = Least(cb, ws.cbBuf - CurrPos(ws))
      BY <2>2, <1>2 DEF Read1Size
    <3>2. ws.cbBuf > 0 /\ CurrPos(ws) <= ws.cbBuf
      BY <2>2, <1>1 DEF Read1, Read1Wraps, StreamType
    <3> QED BY <3>1, <3>2, <1>1 DEF Least, StreamType
  <2> QED BY <2>1, <2>2
<1>4. ws' = Advance(ws, n) /\ got' = BytesAt(ws, n) /\ UNCHANGED << total, heap, phase >>
  BY <1>2 DEF Read1
<1> QED BY <1>3, <1>4, CopyStep

LEMMA ReceiveStep ==
  ASSUME Inv, NEW n \in Nat, Receive(n)
  PROVE  Inv' /\ TruePos(ws') = ws'.cbBuf /\ ws'.cbDiscarded = ws.cbDiscarded
<1> DEFINE at == SetPosWS_List(ws, total)
<1>1. /\ ws' = WriteWS_List(at, Run(total, n))
      /\ heap' = heap + Allocations(at, n) /\ total' = total + n
      /\ got' = << >> /\ phase' = phase /\ phase = "open"
  BY DEF Receive, ToEnd, Arrivals, Run
<1>2. Stored(ws', total + n) /\ TruePos(ws') = ws'.cbBuf /\ ws'.cbDiscarded = ws.cbDiscarded
  BY <1>1, ReceiveKeeps DEF Inv
<1>3. AtEnd(at) /\ at.packets = ws.packets
  BY SeekEnd DEF Inv
<1> HIDE DEF at
<1>4. Run(total, n) \in Seq(Int) /\ Len(Run(total, n)) = n
  <2>1. Run(total, n) \in [1 .. n -> Int]
    BY InvParts DEF Run
  <2> QED BY <2>1, SeqOfFunction
<1>5. Allocations(at, n) \in Nat /\ Len(ws'.packets) = Len(ws.packets) + Allocations(at, n)
  BY <1>1, <1>3, <1>4, WriteLands
<1>6. TypeOK' /\ NoLeak'
  <2>1. << >> \in Seq(Int) /\ heap = Len(ws.packets) /\ heap \in Nat /\ total \in Nat
    BY DEF Inv, TypeOK, NoLeak
  <2> QED BY <2>1, <1>1, <1>2, <1>5 DEF TypeOK, NoLeak, Stored
<1> QED BY <1>1, <1>2, <1>6 DEF Inv, Idle

LEMMA DiscardStep ==
  ASSUME Inv, NEW cBytes \in Nat, DiscardHead(cBytes)
  PROVE  Inv' /\ (ws'.cur > 0 => TruePos(ws') = TruePos(ws))
<1> DEFINE k == Droppable(ws, cBytes)
<1>1. /\ ws' = DiscardHeadWS_List(ws, cBytes) /\ heap' = heap - k
      /\ got' = << >> /\ total' = total /\ phase' = phase
  BY DEF DiscardHead
<1>2. Stored(ws', total) /\ (ws'.cur > 0 => TruePos(ws') = TruePos(ws))
  BY <1>1, DiscardKeeps DEF Inv
<1>3. k \in Nat /\ k <= Len(ws.packets)
  BY DroppableHead DEF Inv
<1>4. Len(ws'.packets) = Len(ws.packets) - k
  <2>1. CASE k = 0
    BY <2>1, <1>1, InvParts, LenNat DEF DiscardHeadWS_List
  <2>2. CASE k > 0
    BY <2>2, <1>1, DiscardLands DEF Inv
  <2> QED BY <2>1, <2>2, <1>3
<1> HIDE DEF k
<1>5. TypeOK' /\ NoLeak'
  <2>1. << >> \in Seq(Int) /\ heap = Len(ws.packets) /\ heap \in Nat /\ total \in Nat
    BY DEF Inv, TypeOK, NoLeak
  <2> QED BY <2>1, <1>1, <1>2, <1>3, <1>4 DEF Inv, TypeOK, NoLeak, Stored
<1> QED BY <1>1, <1>2, <1>5 DEF Inv, Idle

LEMMA CloseStep ==
  ASSUME Inv, Close PROVE Inv'
<1>1. /\ ws' = NewStream /\ total' = 0 /\ heap' = heap - Len(ws.packets) /\ got' = << >>
      /\ phase' = "closed" /\ << >> \in Seq(Int)
  BY DEF Close
<1>2. heap' = 0
  BY <1>1 DEF Inv, NoLeak, TypeOK
<1> QED BY <1>1, <1>2, NewStored DEF Inv, TypeOK, NoLeak, Idle

LEMMA CreateStep ==
  ASSUME Inv, Create PROVE Inv' /\ ws.cbBuf = 0 /\ total' = 0
<1>1. /\ ws' = NewStream /\ total' = total /\ heap' = heap /\ got' = << >>
      /\ phase' = "open" /\ total = 0 /\ << >> \in Seq(Int)
  BY DEF Create, Inv, Idle
<1>2. ws.cbBuf = 0 /\ heap = 0
  <2>1. ws.cbBuf = 0 /\ ws \in StreamType /\ Listed(ws)
    BY <1>1, InvParts
  <2> QED BY <2>1, WithinList DEF Inv, NoLeak
<1> QED BY <1>1, <1>2, NewStored DEF Inv, TypeOK, NoLeak, Idle

(* Every call on the stream keeps the invariant.                           *)
THEOREM InvNext == Inv /\ [Next]_vars => Inv'
<1> SUFFICES ASSUME Inv, [Next]_vars PROVE Inv'
  OBVIOUS
<1>1. ASSUME NEW n \in Sizes, Receive(n) PROVE Inv'
  BY <1>1, ReceiveStep
<1>2. ASSUME NEW n \in Sizes, Read(n) PROVE Inv'
  BY <1>2, ReadStep
<1>3. ASSUME NEW n \in Sizes, Read1(n) PROVE Inv'
  BY <1>3, Read1Step
<1>4. ASSUME NEW n \in Sizes, Read1Hangs(n) PROVE Inv'
  <2>1. << >> \in Seq(Int)
    OBVIOUS
  <2> QED BY <1>4, <2>1
       DEF Read1Hangs, Inv, TypeOK, NoLeak, Idle
<1>5. ASSUME NEW off \in 0 .. MaxBytes, SetPos(off) PROVE Inv'
  BY <1>5, SetPosStep
<1>6. ASSUME NEW off \in 0 .. MaxBytes, DiscardHead(off) PROVE Inv'
  BY <1>6, DiscardStep
<1>7. CASE Close
  BY <1>7, CloseStep
<1>8. CASE Create
  BY <1>8, CreateStep
<1>9. CASE UNCHANGED vars
  BY <1>9 DEF vars, Inv, TypeOK, NoLeak, Idle
<1> QED BY <1>1, <1>2, <1>3, <1>4, <1>5, <1>6, <1>7, <1>8, <1>9 DEF Next

-----------------------------------------------------------------------------
(* Every reachable state satisfies the inductive invariant.                *)
THEOREM Invariance == Spec => []Inv
<1>1. Init => Inv
  BY InvInit
<1>2. Inv /\ [Next]_vars => Inv'
  BY InvNext
<1> QED BY <1>1, <1>2, PTL DEF Spec

(* The fields of the stream and the decoder's count keep their types: the  *)
(* unsigned counters of state.buf never go below zero.                     *)
THEOREM TypeCorrect == Spec => []TypeOK
<1>1. Inv => TypeOK
  BY DEF Inv
<1> QED BY <1>1, Invariance, PTL

(* List and counters agree, whatever the packet length and the chunks: no  *)
(* read, write, seek or discard leaves pbBuf outside the list.             *)
THEOREM ListCorrect == Spec => []ListOK
<1>1. Inv => ListOK
  BY InvParts
<1> QED BY <1>1, Invariance, PTL

(* CloseWS_List frees every packet WriteWS_List ever allocated and         *)
(* DiscardHeadWS_List did not free.                                        *)
THEOREM NothingLeaks == Spec => []NoLeak
<1>1. Inv => NoLeak
  BY DEF Inv
<1> QED BY <1>1, Invariance, PTL

(* No chunk of the network is lost or misplaced in the packets.            *)
THEOREM ChunksIntact == Spec => []ReceivedIntact
<1>1. Inv => ReceivedIntact
  BY InvParts
<1> QED BY <1>1, Invariance, PTL

(* The position the stream counts is the one it is at, or one packet past  *)
(* it at the end.                                                          *)
THEOREM DriftBounded == Spec => []PositionDrift
<1>1. Inv => PositionDrift
  <2> SUFFICES ASSUME Inv, ws.cbBuf > 0, ws.cur > 0
               PROVE  \/ CurrPos(ws) = TruePos(ws)
                      \/ CurrPos(ws) = TruePos(ws) + PL /\ TruePos(ws) = ws.cbBuf
    BY DEF PositionDrift
  <2>1. PICK c \in Nat, x \in Nat, d \in Nat, k \in Int :
          c = ws.cur /\ x = ws.cbCur /\ d = ws.cbDiscarded /\ k = ws.cbBufCount /\ c > 0
    BY DEF Inv, TypeOK, StreamType
  <2>2. PICK p \in Int : p = PacketBytes(c - 1) /\ PacketBytes(c) = p + PL
    <3>1. c - 1 \in Int /\ 1 \in Int /\ c = (c - 1) + 1
      OBVIOUS
    <3>2. PacketBytes((c - 1) + 1) = PacketBytes(c - 1) + PacketBytes(1) /\ PacketBytes(1) = PL
      BY <3>1, BytesAdd
    <3>3. PacketBytes(c - 1) \in Int
      BY <3>1, BytesInt
    <3> QED BY <3>1, <3>2, <3>3
  <2>3. TruePos(ws) = d + x + p
    BY <2>1, <2>2 DEF TruePos
  <2>4. CASE k = c
    BY <2>1, <2>2, <2>3, <2>4 DEF CurrPos
  <2>5. CASE k = c + 1 /\ TruePos(ws) = ws.cbBuf
    <3>1. CurrPos(ws) = d + x + PacketBytes(k - 1) /\ k - 1 = c
      BY <2>1, <2>5 DEF CurrPos
    <3> QED BY <3>1, <2>1, <2>2, <2>3, <2>5
  <2> QED BY <2>1, <2>4, <2>5 DEF Inv, Stored, Counted
<1> QED BY <1>1, Invariance, PTL

(* BitIO can move to every byte that was received and not given up.        *)
THEOREM SeeksLand == Spec => []SeekLands
<1>1. Inv => SeekLands
  <2> SUFFICES ASSUME Inv, NEW off \in 0 .. MaxBytes, off >= ws.cbDiscarded, off <= ws.cbBuf
               PROVE  /\ SetPosErr(ws, off) = "Success"
                      /\ TruePos(SetPosWS_List(ws, off)) = off \/ ws.packets = << >>
    BY DEF SeekLands
  <2>1. ws \in StreamType /\ Listed(ws) /\ off \in Nat
    BY InvParts
  <2>2. SetPosErr(ws, off) = "Success"
    BY <2>1 DEF SetPosErr, StreamType
  <2>3. CASE ws.cbBuf > 0
    BY <2>1, <2>2, <2>3, SetPosLands
  <2>4. CASE ws.cbBuf = 0
    <3>1. Len(ws.packets) = 0
      BY <2>4, InvParts, WithinList
    <3> QED BY <3>1, <2>1, <2>2, LenNat
  <2> QED BY <2>1, <2>2, <2>3, <2>4 DEF StreamType
<1> QED BY <1>1, Invariance, PTL

-----------------------------------------------------------------------------
(* Refinement: every stream call is a step of the byte stream, or leaves   *)
(* it alone.                                                               *)
LEMMA ReaderInside ==
  ASSUME Inv
  PROVE  /\ ReaderPos \in Int /\ ws.cbDiscarded \in Nat /\ total \in Nat
         /\ ws.cbDiscarded <= ReaderPos /\ ReaderPos <= total
<1>1. PICK c \in Nat, x \in Nat, d \in Nat :
        c = ws.cur /\ x = ws.cbCur /\ d = ws.cbDiscarded
  BY DEF Inv, TypeOK, StreamType
<1>2. ws.cbBuf = total /\ total \in Nat /\ d <= total
  BY <1>1, InvParts, WithinList
<1>3. CASE c = 0
  BY <1>1, <1>2, <1>3 DEF ReaderPos
<1>4. CASE c > 0
  <2>1. PICK p \in Nat : p = PacketBytes(c - 1)
    <3>1. c - 1 \in Nat
      BY <1>4
    <3> QED BY <3>1, BytesNat
  <2>2. TruePos(ws) = d + x + p /\ ReaderPos = TruePos(ws)
    BY <1>1, <1>4, <2>1 DEF TruePos, ReaderPos
  <2>3. TruePos(ws) <= ws.cbBuf
    BY <1>1, <1>4 DEF Inv, Stored, Listed
  <2> QED BY <2>1, <2>2, <2>3, <1>1, <1>2
<1> QED BY <1>3, <1>4

LEMMA ArriveRefines ==
  ASSUME Inv, NEW n \in Nat, Receive(n)
  PROVE  Stream!Arrive
<1>1. Inv' /\ TruePos(ws') = ws'.cbBuf /\ ws'.cbDiscarded = ws.cbDiscarded
  BY ReceiveStep
<1>2. total' = total + n /\ got' = << >> /\ total \in Nat
  BY DEF Receive, Inv, TypeOK
<1>3. ws'.cbBuf = total'
  BY <1>1 DEF Inv, Stored
<1>4. ws'.cur = 0 => ws'.cbDiscarded = ws'.cbBuf
  BY <1>1 DEF Inv, Stored, Listed
<1>5. ReaderPos' = total'
  BY <1>1, <1>3, <1>4 DEF ReaderPos
<1> QED BY <1>1, <1>2, <1>5 DEF Stream!Arrive

LEMMA SeekRefines ==
  ASSUME Inv, NEW off \in Nat, SetPos(off)
  PROVE  Stream!Seek \/ Stream!Refuse
<1>1. ws \in StreamType /\ Listed(ws) /\ ws.cbBuf = total /\ got' = << >> /\ total' = total
  BY DEF Inv, TypeOK, Stored, SetPos
<1>2. CASE SetPosErr(ws, off) # "Success" \/ ws.cbBuf = 0
  <2>1. ws' = ws
    BY <1>2 DEF SetPos, SetPosWS_List
  <2>2. ReaderPos' = ReaderPos
    BY <2>1 DEF ReaderPos
  <2> QED BY <2>1, <2>2, <1>1 DEF Stream!Refuse
<1>3. CASE ~ (SetPosErr(ws, off) # "Success" \/ ws.cbBuf = 0)
  <2>1. ws.cbBuf > 0 /\ SetPosErr(ws, off) = "Success"
    BY <1>1, <1>3 DEF StreamType
  <2>2. ws' = SetPosWS_List(ws, off)
    BY DEF SetPos
  <2>3. TruePos(ws') = off /\ ws'.cbDiscarded = ws.cbDiscarded /\ (ws'.cur = 0 <=> Len(ws.packets) = 0)
    BY <2>1, <2>2, <1>1, SetPosLands
  <2>4. off \in ws.cbDiscarded .. total
    BY <2>1, <1>1 DEF SetPosErr, StreamType
  <2>5. ws.cbDiscarded \in ws.cbDiscarded .. total
    BY <2>4, <1>1 DEF StreamType
  <2>6. ReaderPos' \in ws.cbDiscarded .. total
    BY <2>3, <2>4, <2>5 DEF ReaderPos
  <2> QED BY <2>3, <2>6, <1>1 DEF Stream!Seek
<1> QED BY <1>2, <1>3

LEMMA CopyRefines ==
  ASSUME Inv, NEW cb \in Nat,
         cb > 0 => ws.cbBuf > 0 /\ CurrPos(ws) + cb <= ws.cbBuf,
         ws' = Advance(ws, cb), got' = BytesAt(ws, cb), total' = total
  PROVE  Stream!Fetch
<1>1. ws \in StreamType /\ Listed(ws) /\ Counted(ws) /\ ws.cbBuf = total
  BY InvParts
<1>2. cb > 0 => ws.cur > 0 /\ ws.cbBufCount = ws.cur /\ TruePos(ws) + cb <= ws.cbBuf
  BY ReadFits DEF Inv
<1>3. got' = [i \in 1 .. cb |-> TruePos(ws) + i - 1]
  BY <1>2, CopiedContent DEF Inv
<1>4. /\ ws'.cbDiscarded = ws.cbDiscarded
      /\ ws'.cur = 0 <=> Len(ws.packets) = 0
      /\ TruePos(ws') = TruePos(ws) + cb
  BY <1>1, <1>2, AdvanceLands
<1>5. ws.cur = 0 <=> Len(ws.packets) = 0
  BY <1>1 DEF Listed
<1>6. PICK r \in Int : r = ReaderPos /\ r <= total /\ total \in Nat
  BY ReaderInside
<1>7. CASE cb = 0
  <2>1. ReaderPos' = ReaderPos
    <3>1. ws.cur > 0 => TruePos(ws') = TruePos(ws)
      BY <1>4, <1>6, <1>7 DEF ReaderPos
    <3>2. ws.cur \in Nat /\ ws'.cur = 0 <=> ws.cur = 0
      BY <1>1, <1>4, <1>5 DEF StreamType
    <3> QED BY <3>1, <3>2, <1>1, <1>4, <1>5 DEF ReaderPos, StreamType
  <2>2. got' = [i \in 1 .. ReaderPos' - ReaderPos |-> ReaderPos + i - 1]
    <3>1. 1 .. ReaderPos' - ReaderPos = {} /\ 1 .. cb = {}
      BY <2>1, <1>6, <1>7
    <3> QED BY <3>1, <1>3
  <2> QED BY <2>1, <2>2, <1>4, <1>6 DEF Stream!Fetch
<1>8. CASE cb > 0
  <2>1. r = TruePos(ws) /\ ReaderPos' = r + cb
    BY <1>2, <1>4, <1>5, <1>6, <1>8 DEF ReaderPos
  <2>2. ReaderPos' \in r .. total
    BY <2>1, <1>1, <1>2, <1>6, <1>8
  <2>3. ReaderPos' - r = cb
    BY <2>1
  <2>4. got' = [i \in 1 .. ReaderPos' - r |-> r + i - 1]
    BY <2>1, <2>3, <1>3
  <2> QED BY <2>2, <2>4, <1>4, <1>6 DEF Stream!Fetch
<1> QED BY <1>7, <1>8

LEMMA FetchRefines ==
  ASSUME Inv, NEW cb \in Nat, Read(cb) \/ Read1(cb)
  PROVE  Stream!Fetch \/ Stream!Refuse
<1>1. ws \in StreamType /\ CurrPos(ws) \in Int
  BY CurrPosInt, InvParts
<1>2. CASE Read(cb) /\ ReadErr(ws, cb) = "Success"
  <2>1. ws' = Advance(ws, cb) /\ got' = BytesAt(ws, cb) /\ total' = total
    BY <1>2 DEF Read
  <2>2. cb > 0 => ws.cbBuf > 0 /\ CurrPos(ws) + cb <= ws.cbBuf
    BY <1>1, <1>2 DEF ReadErr, StreamType
  <2> QED BY <2>1, <2>2, CopyRefines
<1>3. CASE Read(cb) /\ ReadErr(ws, cb) # "Success"
  <2>1. ws' = ws /\ got' = << >> /\ total' = total
    BY <1>3 DEF Read
  <2>2. ReaderPos' = ReaderPos
    BY <2>1 DEF ReaderPos
  <2> QED BY <2>1, <2>2 DEF Stream!Refuse
<1>4. CASE Read1(cb)
  <2>1. PICK n \in Int : n = Read1Size(ws, cb)
    BY <1>1 DEF Read1Size, Least, StreamType
  <2>2. n \in Nat /\ (n > 0 => ws.cbBuf > 0 /\ CurrPos(ws) + n <= ws.cbBuf)
    <3>1. CASE Read1Err(ws, cb) # "Success" \/ ws.cbBuf = 0
      BY <3>1, <2>1 DEF Read1Size
    <3>2. CASE ~ (Read1Err(ws, cb) # "Success" \/ ws.cbBuf = 0)
      <4>1. n = Least(cb, ws.cbBuf - CurrPos(ws))
        BY <3>2, <2>1 DEF Read1Size
      <4>2. ws.cbBuf > 0 /\ CurrPos(ws) <= ws.cbBuf
        BY <3>2, <1>1, <1>4 DEF Read1, Read1Wraps, StreamType
      <4> QED BY <4>1, <4>2, <1>1 DEF Least, StreamType
    <3> QED BY <3>1, <3>2
  <2>3. ws' = Advance(ws, n) /\ got' = BytesAt(ws, n) /\ total' = total
    BY <2>1, <1>4 DEF Read1
  <2> QED BY <2>2, <2>3, CopyRefines
<1> QED BY <1>2, <1>3, <1>4

LEMMA GiveUpRefines ==
  ASSUME Inv, NEW cBytes \in Nat, DiscardHead(cBytes)
  PROVE  Stream!GiveUp
<1>1. Inv' /\ (ws'.cur > 0 => TruePos(ws') = TruePos(ws))
  BY DiscardStep
<1>2. PICK k \in Nat, n \in Nat :
        /\ k = Droppable(ws, cBytes) /\ n = Len(ws.packets) /\ k <= n
        /\ 0 < k /\ k < n => k < ws.cur
        /\ 0 < k /\ k = n => /\ ws.cbBuf = ws.cbDiscarded + PacketBytes(n)
                             /\ ws.cbBuf <= CurrPos(ws)
  <2> DEFINE k == Droppable(ws, cBytes)
             n == Len(ws.packets)
  <2>1. /\ k \in Nat /\ n \in Nat /\ k <= n
        /\ k > 0 => ws.cbBuf > 0
        /\ 0 < k /\ k < n => k < ws.cur
        /\ 0 < k /\ k = n => /\ ws.cbBuf = ws.cbDiscarded + PacketBytes(n)
                             /\ ws.cbBuf <= CurrPos(ws)
    BY DroppableHead DEF Inv
  <2> HIDE DEF k, n
  <2>2. k = Droppable(ws, cBytes) /\ n = Len(ws.packets)
    BY DEF k, n
  <2> QED BY <2>1, <2>2
<1>3. ws' = DiscardHeadWS_List(ws, cBytes) /\ got' = << >> /\ total' = total
  BY DEF DiscardHead
<1>4. ws \in StreamType /\ Listed(ws) /\ Counted(ws) /\ ws.cbBuf = total
  BY InvParts
<1>5. PICK r \in Int : r = ReaderPos /\ ws.cbDiscarded <= r /\ r <= total /\ total \in Nat
  BY ReaderInside
<1>6. CASE k = 0
  <2>1. ws' = ws
    BY <1>2, <1>3, <1>6 DEF DiscardHeadWS_List
  <2>2. ReaderPos' = ReaderPos
    BY <2>1 DEF ReaderPos
  <2>3. ws'.cbDiscarded \in ws.cbDiscarded .. ReaderPos
    BY <2>1, <1>4, <1>5 DEF StreamType
  <2> QED BY <2>2, <2>3, <1>3 DEF Stream!GiveUp
<1>7. CASE k > 0
  <2>1. /\ ws'.cur = IF k = n THEN 0 ELSE ws.cur - k
        /\ ws'.cbDiscarded = ws.cbDiscarded + PacketBytes(k)
    BY <1>2, <1>3, <1>7, DiscardLands DEF Inv
  <2>2. PICK b \in Nat, d \in Nat, c \in Nat, x \in Nat :
          /\ b = PacketBytes(k) /\ d = ws.cbDiscarded /\ c = ws.cur /\ x = ws.cbCur
    <3>1. PacketBytes(k) \in Nat
      BY BytesNat
    <3> QED BY <3>1, <1>4 DEF StreamType
  <2>3. c > 0
    BY <1>2, <1>4, <1>7, <2>2 DEF Listed
  <2>4. r = TruePos(ws)
    BY <1>5, <2>2, <2>3 DEF ReaderPos
  <2>5. PICK p \in Int : p = PacketBytes(c - 1) /\ TruePos(ws) = d + x + p
    <3>1. c - 1 \in Int
      OBVIOUS
    <3>2. PacketBytes(c - 1) \in Int
      BY <3>1, BytesInt
    <3> QED BY <3>2, <2>2, <2>3 DEF TruePos
  <2>6. CASE k < n
    <3>1. ws'.cur = c - k /\ c - k > 0
      BY <2>1, <2>2, <2>6, <1>2, <1>7
    <3>2. ReaderPos' = r
      BY <3>1, <2>4, <1>1 DEF ReaderPos
    <3>3. b <= p
      <4>1. k \in Int /\ c - 1 \in Int /\ k <= c - 1
        BY <3>1
      <4> QED BY <4>1, <2>2, <2>5, BytesMono
    <3>4. ws'.cbDiscarded \in ws.cbDiscarded .. ReaderPos
      BY <3>3, <2>1, <2>2, <2>4, <2>5, <1>5
    <3> QED BY <3>2, <3>4, <1>3, <1>5 DEF Stream!GiveUp
  <2>7. CASE k = n
    <3>1. ws'.cur = 0 /\ ws'.cbDiscarded = total
      BY <2>1, <2>7, <1>2, <1>4, <1>7
    <3>2. r = total
      <4>1. CASE ws.cbBufCount = ws.cur
        <5>1. CurrPos(ws) = TruePos(ws)
          BY <4>1, <2>2, <2>5 DEF CurrPos
        <5> QED BY <5>1, <2>4, <2>7, <1>2, <1>4, <1>5, <1>7
      <4>2. CASE TruePos(ws) = ws.cbBuf
        BY <4>2, <2>4, <1>4
      <4> QED BY <4>1, <4>2, <2>2, <2>3, <1>4 DEF Counted
    <3>3. ReaderPos' = r
      BY <3>1, <3>2 DEF ReaderPos
    <3>4. ws'.cbDiscarded \in ws.cbDiscarded .. ReaderPos
      BY <3>1, <3>2, <1>5, <2>2
    <3> QED BY <3>3, <3>4, <1>3, <1>5 DEF Stream!GiveUp
  <2> QED BY <2>6, <2>7, <1>2
<1> QED BY <1>6, <1>7

LEMMA RenewRefines ==
  ASSUME Inv, Close \/ Create
  PROVE  Stream!Renew
<1>1. ws' = NewStream /\ total' = 0 /\ got' = << >>
  BY CreateStep DEF Close, Create
<1>2. ws'.cur = 0 /\ ws'.cbDiscarded = 0
  BY <1>1 DEF NewStream
<1> QED BY <1>1, <1>2 DEF Stream!Renew, ReaderPos

LEMMA StepRefines ==
  Inv /\ [Next]_vars => [Stream!StreamNext]_(Stream!streamVars)
<1> SUFFICES ASSUME Inv, [Next]_vars
             PROVE  Stream!StreamNext \/ UNCHANGED Stream!streamVars
  OBVIOUS
<1>1. ASSUME NEW n \in Sizes, Receive(n) PROVE Stream!StreamNext
  BY <1>1, ArriveRefines DEF Stream!StreamNext
<1>2. ASSUME NEW n \in Sizes, Read(n) \/ Read1(n) PROVE Stream!StreamNext
  BY <1>2, FetchRefines DEF Stream!StreamNext
<1>3. ASSUME NEW n \in Sizes, Read1Hangs(n) PROVE Stream!StreamNext
  BY <1>3 DEF Read1Hangs, ReaderPos, Stream!StreamNext, Stream!Refuse
<1>4. ASSUME NEW off \in 0 .. MaxBytes, SetPos(off) PROVE Stream!StreamNext
  BY <1>4, SeekRefines DEF Stream!StreamNext
<1>5. ASSUME NEW off \in 0 .. MaxBytes, DiscardHead(off) PROVE Stream!StreamNext
  BY <1>5, GiveUpRefines DEF Stream!StreamNext
<1>6. CASE Close \/ Create
  BY <1>6, RenewRefines DEF Stream!StreamNext
<1>7. CASE UNCHANGED vars
  BY <1>7 DEF vars, ReaderPos, Stream!streamVars
<1> QED BY <1>1, <1>2, <1>3, <1>4, <1>5, <1>6, <1>7 DEF Next

(* The linked list of packets implements the byte stream: arrivals go to   *)
(* the end, a seek lands where asked, a read returns the bytes that follow *)
(* in order of arrival, and only bytes already passed are given up.        *)
THEOREM Refinement == Spec => ImplementsByteStream
<1>1. Init => Stream!Fresh
  BY DEF Init, NewStream, ReaderPos, Stream!Fresh
<1>2. Inv /\ [Next]_vars => [Stream!StreamNext]_(Stream!streamVars)
  BY StepRefines
<1> QED BY <1>1, <1>2, Invariance, PTL DEF Spec, ImplementsByteStream, Stream!StreamSpec

=============================================================================
