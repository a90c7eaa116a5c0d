---------------------------- MODULE StreamProofs ----------------------------
(***************************************************************************)
(* Lemmas about the stream of WSList and the bit reader of BitIORead, for  *)
(* every packet length: what each call returns and what it keeps.  They    *)
(* are about a stream and a reader of any owner; ListStreamProofs,         *)
(* BitIOReaderProofs and FailSafeRowsProofs apply them to theirs.          *)
(*                                                                         *)
(* PacketBytes hides the product of the packet length and a packet count:  *)
(* the lemmas of the first section are all that the rest knows of it,      *)
(* which leaves linear arithmetic.                                         *)
(***************************************************************************)
EXTENDS BitIORead, SequenceTheorems, TLAPS

LEMMA BytesAdd ==
  ASSUME NEW a \in Int, NEW b \in Int
  PROVE  /\ PacketBytes(a) \in Int
         /\ PacketBytes(a + b) = PacketBytes(a) + PacketBytes(b)
         /\ PacketBytes(a - b) = PacketBytes(a) - PacketBytes(b)
         /\ PacketBytes(0) = 0
         /\ PacketBytes(1) = PL
  BY PLAssumption DEF PacketBytes

(* More packets hold more bytes, by at least one packet.                   *)
LEMMA BytesMono ==
  ASSUME NEW a \in Int, NEW b \in Int
  PROVE  /\ a < b <=> PacketBytes(a) < PacketBytes(b)
         /\ a <= b <=> PacketBytes(a) <= PacketBytes(b)
         /\ a < b => PacketBytes(a) + PL <= PacketBytes(b)
         /\ a \in Nat => PacketBytes(a) \in Nat
<1>1. a < b => PacketBytes(a) + PL <= PacketBytes(b)
  <2> SUFFICES ASSUME a < b PROVE PL * a + PL <= PL * b
    BY DEF PacketBytes
  <2>1. PICK d \in Nat : b = a + 1 + d
    <3> b - a - 1 \in Nat /\ b = a + 1 + (b - a - 1)
      OBVIOUS
    <3> QED OBVIOUS
  <2>2. PL * b = PL * a + PL + PL * d
    BY <2>1, PLAssumption
  <2>3. PL * d >= 0
    BY <2>1, PLAssumption
  <2> QED BY <2>2, <2>3, <2>1, PLAssumption
<1>2. b < a => PacketBytes(b) + PL <= PacketBytes(a)
  <2> SUFFICES ASSUME b < a PROVE PL * b + PL <= PL * a
    BY DEF PacketBytes
  <2>1. PICK d \in Nat : a = b + 1 + d
    <3> a - b - 1 \in Nat /\ a = b + 1 + (a - b - 1)
      OBVIOUS
    <3> QED OBVIOUS
  <2>2. PL * a = PL * b + PL + PL * d
    BY <2>1, PLAssumption
  <2>3. PL * d >= 0
    BY <2>1, PLAssumption
  <2> QED BY <2>2, <2>3, <2>1, PLAssumption
<1>3. a \in Nat => PacketBytes(a) \in Nat
  BY PLAssumption DEF PacketBytes
<1>4. PacketBytes(a) \in Int /\ PacketBytes(b) \in Int
  BY BytesAdd
<1> QED BY <1>1, <1>2, <1>3, <1>4, PLAssumption

LEMMA BytesInt == ASSUME NEW a \in Int PROVE PacketBytes(a) \in Int
  BY PLAssumption DEF PacketBytes

LEMMA BytesNat == ASSUME NEW a \in Nat PROVE PacketBytes(a) \in Nat
  BY PLAssumption DEF PacketBytes

(* The packets a number of bytes fills.                                    *)
LEMMA WholePackets ==
  ASSUME NEW a \in Nat
  PROVE  /\ a \div PL \in Nat
         /\ PacketBytes(a \div PL) <= a
         /\ a < PacketBytes(a \div PL) + PL
  BY PLAssumption DEF PacketBytes

-----------------------------------------------------------------------------
(* What holds of a stream s that has received t bytes, whoever uses it.    *)
(* Listed says where the list stands; Counted says what the counters, from *)
(* which GetPos, Read and DiscardHead compute the position, can be: exact, *)
(* or one packet ahead once everything was read (without it DiscardHead    *)
(* could free the packet being read); Intact, that every byte of the list  *)
(* is at its place.                                                        *)
Listed(s) ==
  LET n == Len(s.packets)
  IN  /\ s.cbBuf <= s.cbDiscarded + PacketBytes(n)
      /\ n > 0 => s.cbDiscarded + PacketBytes(n - 1) < s.cbBuf
      /\ n = 0 => s.cbBuf = s.cbDiscarded
      /\ s.cur \in 0 .. n
      /\ s.cur = 0 <=> n = 0
      /\ s.cur > 0 => s.cbCur <= PL /\ TruePos(s) <= s.cbBuf
      /\ s.cbCur = PL /\ s.cur > 0 => s.cur = n

Counted(s) ==
  /\ s.cbBuf = 0 => s.cbDiscarded = 0 /\ s.cbCur = 0 /\ s.cbBufCount = 0
  /\ s.cbBuf > 0 /\ s.cur = 0 => CurrPos(s) >= s.cbBuf
  /\ s.cur > 0 =>
       \/ s.cbBufCount = s.cur
       \/ s.cbBufCount = s.cur + 1 /\ TruePos(s) = s.cbBuf

Intact(s, t) ==
  \A k \in 1 .. Len(s.packets) : \A j \in Slots :
    LET off == s.cbDiscarded + PacketBytes(k - 1) + j
    IN  off < t => s.packets[k][j] = off

Stored(s, t) ==
  /\ s \in StreamType
  /\ t \in Nat
  /\ s.cbBuf = t
  /\ Listed(s)
  /\ Counted(s)
  /\ Intact(s, t)

(* The n bytes that arrive from byte at on.                                *)
Run(at, n) == [i \in 1 .. n |-> at + i - 1]

USE PLAssumption

LEMMA LenNat ==
  ASSUME NEW s \in StreamType
  PROVE  Len(s.packets) \in Nat /\ (s.packets = << >> <=> Len(s.packets) = 0)
  BY DEF StreamType

(* A walk of at most n packets to byte o of them: it ends inside a packet, *)
(* or at the end of the last one.                                          *)
LEMMA WalkLands ==
  ASSUME NEW n \in Nat, n > 0, NEW o \in Nat, o <= PacketBytes(n)
  PROVE  LET h == Least(o \div PL, n - 1) IN
         /\ h \in 0 .. n - 1
         /\ o - PacketBytes(h) \in 0 .. PL
         /\ o - PacketBytes(h) = PL => h = n - 1
<1>1. PICK q \in Nat : q = o \div PL /\ PacketBytes(q) <= o /\ o < PacketBytes(q) + PL
  BY WholePackets
<1>2. PICK p \in Nat : p = PacketBytes(q)
  BY <1>1, BytesMono
<1>3. CASE q <= n - 1
  <2>1. Least(o \div PL, n - 1) = q
    BY <1>1, <1>3 DEF Least
  <2> QED BY <2>1, <1>1, <1>2, <1>3
<1>4. CASE q > n - 1
  <2>1. Least(o \div PL, n - 1) = n - 1
    BY <1>1, <1>4 DEF Least
  <2>2. PICK m \in Nat : m = PacketBytes(n)
    BY BytesMono
  <2>3. m <= p
    BY <1>1, <1>2, <1>4, <2>2, BytesMono
  <2>4. PacketBytes(n - 1) = m - PL
    BY <2>2, BytesAdd
  <2>5. o = m
    BY <1>1, <1>2, <2>2, <2>3
  <2> QED BY <2>1, <2>4, <2>5, <2>2
<1> QED BY <1>1, <1>3, <1>4

(* SetPosWS_List keeps the list, and lands exactly where it was asked to.  *)
LEMMA SetPosLands ==
  ASSUME NEW s \in StreamType, Listed(s), NEW off \in Nat,
         SetPosErr(s, off) = "Success", s.cbBuf > 0,
         NEW w, w = SetPosWS_List(s, off)
  PROVE  /\ w \in StreamType
         /\ w.packets = s.packets /\ w.cbBuf = s.cbBuf
         /\ w.cbDiscarded = s.cbDiscarded
         /\ w.cur = 0 <=> Len(s.packets) = 0
         /\ w.cur \in 0 .. Len(s.packets)
         /\ w.cur > 0 => w.cbBufCount = w.cur /\ w.cbCur <= PL
         /\ w.cur = 0 => w.cbBufCount = 1 /\ w.cbCur = 0
         /\ TruePos(w) = off
         /\ w.cur > 0 /\ w.cbCur = PL => w.cur = Len(s.packets)
<1>1. PICK n \in Nat : n = Len(s.packets) /\ (s.packets = << >> <=> n = 0)
  BY LenNat
<1>2. PICK o \in Nat : o = off - s.cbDiscarded
  BY DEF SetPosErr, StreamType
<1>3. /\ off <= s.cbBuf /\ s.cbBuf \in Nat /\ s.cbDiscarded \in Nat
      /\ s.packets \in Seq([Slots -> Int])
  BY DEF SetPosErr, StreamType
<1>4. /\ s.cbBuf <= s.cbDiscarded + PacketBytes(n)
      /\ n = 0 => s.cbBuf = s.cbDiscarded
  BY <1>1 DEF Listed
<1> DEFINE hops == Walk(s, off - s.cbDiscarded)
           at   == IF s.packets = << >> THEN 0 ELSE hops + 1
<1>5. w = [s EXCEPT !.cur = at, !.cbCur = (off - s.cbDiscarded) - PacketBytes(hops),
                     !.cbBufCount = hops + 1]
  <2>1. ~ (SetPosErr(s, off) # "Success" \/ s.cbBuf = 0)
    BY <1>3
  <2> QED BY <2>1 DEF SetPosWS_List
<1> HIDE DEF hops, at
<1>6. /\ w.packets = s.packets /\ w.cbBuf = s.cbBuf
      /\ w.cbDiscarded = s.cbDiscarded
      /\ w.cur = at
      /\ w.cbCur = o - PacketBytes(hops)
      /\ w.cbBufCount = hops + 1
  BY <1>2, <1>5 DEF StreamType
<1>7. at \in Nat /\ hops \in Nat /\ o - PacketBytes(hops) \in Nat => w \in StreamType
  <2> SUFFICES ASSUME NEW c \in Nat, NEW d \in Nat, NEW e \in Int,
                      at = c, o - PacketBytes(hops) = d, hops + 1 = e
               PROVE  w \in StreamType
    OBVIOUS
  <2>1. w = [s EXCEPT !.cur = c, !.cbCur = d, !.cbBufCount = e]
    BY <1>2, <1>5
  <2> QED BY <2>1 DEF StreamType
<1>8. CASE n = 0
  <2>1. at = 0 /\ hops = 0
    BY <1>1, <1>8 DEF Walk, hops, at
  <2>2. o = 0
    BY <1>2, <1>3, <1>4, <1>8
  <2>3. PacketBytes(0) = 0
    BY BytesAdd
  <2>4. w \in StreamType
    BY <2>1, <2>2, <2>3, <1>7
  <2>5. w.cur = 0 /\ w.cbCur = 0 /\ w.cbBufCount = 1
    BY <2>1, <2>2, <2>3, <1>6
  <2>6. TruePos(w) = off
    BY <2>2, <2>5, <1>2, <1>3, <1>6 DEF TruePos
  <2> QED BY <2>4, <2>5, <2>6, <1>1, <1>6, <1>8
<1>9. CASE n > 0
  <2>1. hops = Least(o \div PL, n - 1) /\ at = hops + 1
    BY <1>1, <1>2, <1>9 DEF Walk, hops, at
  <2>2. PICK b \in Nat : b = PacketBytes(n)
    BY BytesMono
  <2>3. o <= PacketBytes(n)
    BY <2>2, <1>2, <1>3, <1>4
  <2>4. /\ hops \in 0 .. n - 1
        /\ o - PacketBytes(hops) \in 0 .. PL
        /\ o - PacketBytes(hops) = PL => hops = n - 1
    BY <2>1, <2>3, <1>1, <1>2, <1>9, WalkLands
  <2>5. PacketBytes(hops) \in Nat
    BY <2>4, BytesMono
  <2>6. w.cur - 1 = hops
    BY <2>1, <2>4, <1>6
  <2>7. TruePos(w) = off
    <3>1. w.cur # 0
      BY <2>1, <2>4, <1>6
    <3>2. TruePos(w) = w.cbDiscarded + w.cbCur + PacketBytes(hops)
      BY <3>1, <2>6 DEF TruePos
    <3>3. PICK p \in Nat, d \in Nat : p = PacketBytes(hops) /\ d = s.cbDiscarded
      BY <2>5, <1>3
    <3>4. w.cbDiscarded = d /\ w.cbCur = o - p /\ off = o + d
      BY <3>3, <1>2, <1>6
    <3> QED BY <3>2, <3>3, <3>4
  <2> QED BY SMTT(30), <2>1, <2>4, <2>7, <1>1, <1>6, <1>7, <1>9
<1> QED BY <1>1, <1>8, <1>9

(* Reading cb bytes from byte x of packet c, with r bytes in n packets.    *)
LEMMA CopyLands ==
  ASSUME NEW n \in Nat, NEW c \in 1 .. n, NEW x \in 0 .. PL, NEW cb \in Nat, cb > 0,
         NEW r \in Nat, r <= PacketBytes(n), PacketBytes(c - 1) + x + cb <= r,
         NEW q \in Nat, PacketBytes(q) <= x + cb, x + cb < PacketBytes(q) + PL
  PROVE  /\ c + q <= n => /\ x + cb - PacketBytes(q) \in 0 .. PL - 1
                          /\ PacketBytes(c + q - 1) + (x + cb - PacketBytes(q))
                               = PacketBytes(c - 1) + x + cb
         /\ c + q > n => /\ c + q = n + 1
                         /\ PacketBytes(n - 1) + PL = PacketBytes(c - 1) + x + cb
                         /\ r = PacketBytes(c - 1) + x + cb
<1>2. PICK b \in Nat, d \in Nat, m \in Nat : b = PacketBytes(q) /\ d = PacketBytes(c - 1) /\ m = PacketBytes(n)
  <2>1. c - 1 \in Nat
    OBVIOUS
  <2> QED BY <2>1, BytesMono
<1>3. PacketBytes(c + q - 1) = d + b
  <2>1. c + q - 1 = (c - 1) + q /\ c - 1 \in Int
    OBVIOUS
  <2> QED BY <2>1, <1>2, BytesAdd
<1>4. CASE c + q <= n
  BY <1>2, <1>3, <1>4
<1>5. CASE c + q > n
  <2>1. n <= c + q - 1 /\ c + q - 1 \in Int
    BY <1>5
  <2>2. m <= d + b
    BY <2>1, <1>2, <1>3, BytesMono
  <2>3. d + x + cb = m /\ r = m /\ d + b = m
    BY <2>2, <1>2
  <2>4. c + q - 1 = n
    <3>1. ~ (n < c + q - 1)
      BY <2>1, <2>3, <1>2, <1>3, BytesMono
    <3> QED BY <3>1, <2>1
  <2>5. PacketBytes(n - 1) = m - PL
    BY SMTT(30), <1>2, BytesAdd
  <2> QED BY <2>3, <2>4, <2>5, <1>2
<1> QED BY <1>4, <1>5

(* The copy loop returns the stream moved by the bytes it copied; only a   *)
(* copy that ends the last packet leaves the packet count one ahead.       *)
LEMMA AdvanceLands ==
  ASSUME NEW s \in StreamType, Listed(s), Counted(s), NEW cb \in Nat,
         cb > 0 => /\ s.cur > 0 /\ s.cbBufCount = s.cur
                   /\ TruePos(s) + cb <= s.cbBuf,
         NEW w, w = Advance(s, cb)
  PROVE  /\ w \in StreamType
         /\ w.packets = s.packets /\ w.cbBuf = s.cbBuf
         /\ w.cbDiscarded = s.cbDiscarded
         /\ w.cur = 0 <=> Len(s.packets) = 0
         /\ w.cur \in 0 .. Len(s.packets)
         /\ w.cur > 0 => w.cbCur <= PL
         /\ cb = 0 => w.cbCur = s.cbCur /\ w.cbBufCount = s.cbBufCount /\ w.cur = s.cur
         /\ cb > 0 => \/ w.cbBufCount = w.cur
                      \/ w.cbBufCount = w.cur + 1 /\ TruePos(w) = w.cbBuf
         /\ TruePos(w) = TruePos(s) + cb
         /\ w.cur > 0 /\ w.cbCur = PL => w.cur = Len(s.packets)
<1>1. PICK n \in Nat : n = Len(s.packets) /\ (s.packets = << >> <=> n = 0)
  BY LenNat
<1>2. PICK c \in 0 .. n, x \in Nat, d \in Nat, bf \in Nat, k \in Int :
        /\ c = s.cur /\ x = s.cbCur /\ d = s.cbDiscarded /\ bf = s.cbBuf
        /\ k = s.cbBufCount
  BY <1>1 DEF StreamType, Listed
<1> DEFINE hops == Hops(s, cb)
<1>3. /\ c + hops <= n => w = [s EXCEPT !.cur = c + hops, !.cbCur = x + cb - PacketBytes(hops),
                                         !.cbBufCount = k + hops]
      /\ ~ (c + hops <= n) => w = [s EXCEPT !.cur = n, !.cbCur = PL, !.cbBufCount = k + hops]
  BY <1>1, <1>2, Zenon DEF Advance
<1> HIDE DEF hops
<1>4. /\ w.packets = s.packets /\ w.cbBuf = bf /\ w.cbDiscarded = d
      /\ w.cbBufCount = k + hops
      /\ c + hops <= n => w.cur = c + hops /\ w.cbCur = x + cb - PacketBytes(hops)
      /\ ~ (c + hops <= n) => w.cur = n /\ w.cbCur = PL
  <2>1. CASE c + hops <= n
    BY <2>1, <1>2, <1>3 DEF StreamType
  <2>2. CASE ~ (c + hops <= n)
    BY <2>2, <1>2, <1>3 DEF StreamType
  <2> QED BY <2>1, <2>2
<1>5. w.cur \in Nat /\ w.cbCur \in Nat /\ hops \in Nat => w \in StreamType
  <2> SUFFICES ASSUME NEW e \in Nat, NEW f \in Nat, NEW g \in Int,
                      w.cur = e, w.cbCur = f, k + hops = g
               PROVE  w \in StreamType
    OBVIOUS
  <2>1. w = [s EXCEPT !.cur = e, !.cbCur = f, !.cbBufCount = g]
    BY <1>3, <1>4
  <2> QED BY <2>1 DEF StreamType
<1>6. /\ c = 0 <=> n = 0
      /\ bf <= d + PacketBytes(n)
      /\ c > 0 => x <= PL
      /\ x = PL /\ c > 0 => c = n
  BY <1>1, <1>2 DEF Listed
<1>7. CASE cb = 0
  <2>1. hops = 0 /\ PacketBytes(0) = 0
    BY <1>7, BytesAdd DEF hops, Hops
  <2>2. w.cur = c /\ w.cbCur = x /\ w.cbBufCount = k
    BY <2>1, <1>4, <1>7
  <2>3. TruePos(w) = TruePos(s) /\ TruePos(s) \in Int
    <3>1. c > 0 => PacketBytes(c - 1) \in Int
      BY BytesAdd
    <3> QED BY <3>1, <2>2, <1>2, <1>4 DEF TruePos
  <2>4. w \in StreamType
    BY <2>1, <2>2, <1>5
  <2>5. w.cur > 0 /\ w.cbCur = PL => w.cur = n
    BY <2>2, <1>6
  <2>6. w.cur = 0 <=> n = 0
    BY <2>2, <1>6
  <2>7. w.cur > 0 => w.cbCur <= PL
    BY <2>2, <1>6
  <2>8. TruePos(w) = TruePos(s) + cb
    BY <2>3, <1>7
  <2> QED BY <2>2, <2>4, <2>5, <2>6, <2>7, <2>8, <1>1, <1>2, <1>4, <1>7
<1>8. CASE cb > 0
  <2>1. c > 0 /\ k = c /\ TruePos(s) + cb <= bf
    BY <1>2, <1>8
  <2>2. PICK b \in Nat, m \in Nat : b = PacketBytes(c - 1) /\ m = PacketBytes(n)
    <3>1. c - 1 \in Nat
      BY <2>1
    <3> QED BY <3>1, BytesMono
  <2>3. TruePos(s) = d + x + b
    BY <2>1, <2>2, <1>2 DEF TruePos
  <2>4. PICK r \in Nat : r = bf - d /\ r <= m /\ b + x + cb <= r
    BY <2>1, <2>2, <2>3, <1>6
  <2>5. hops = (x + cb) \div PL
    BY <1>2, <1>8 DEF hops, Hops
  <2>6. c \in 1 .. n /\ x \in 0 .. PL
    BY <2>1, <1>6
  <2>7. /\ hops \in Nat
        /\ c + hops <= n => /\ x + cb - PacketBytes(hops) \in 0 .. PL - 1
                            /\ PacketBytes(c + hops - 1) + (x + cb - PacketBytes(hops)) = b + x + cb
        /\ c + hops > n => /\ c + hops = n + 1
                           /\ PacketBytes(n - 1) + PL = b + x + cb
                           /\ r = b + x + cb
    <3> HIDE DEF hops
    <3>1. r <= PacketBytes(n) /\ PacketBytes(c - 1) + x + cb <= r
      BY <2>2, <2>4
    <3>2. hops \in Nat /\ PacketBytes(hops) <= x + cb /\ x + cb < PacketBytes(hops) + PL
      <4>1. x + cb \in Nat
        OBVIOUS
      <4> QED BY <4>1, <2>5, WholePackets
    <3> QED BY <3>1, <3>2, <2>2, <2>6, <1>8, CopyLands
  <2>8. CASE c + hops <= n
    <3>1. w.cur = c + hops /\ w.cbCur = x + cb - PacketBytes(hops)
      BY <2>8, <1>4
    <3>2. PICK p \in Int, g \in Int : p = PacketBytes(hops) /\ g = PacketBytes(c + hops - 1)
      <4>1. hops \in Int /\ c + hops - 1 \in Int
        BY <2>7
      <4> QED BY <4>1, BytesAdd
    <3>3. TruePos(w) = d + (x + cb - p) + g
      BY <3>1, <3>2, <2>6, <2>7, <1>4 DEF TruePos
    <3>4. TruePos(w) = TruePos(s) + cb
      <4>1. g + (x + cb - p) = b + x + cb
        BY <3>2, <2>7, <2>8
      <4> QED BY <4>1, <3>2, <3>3, <2>3
    <3>5. w.cbCur \in 0 .. PL - 1 /\ w.cur \in 1 .. n
      BY <3>1, <2>6, <2>7, <2>8
    <3>6. w \in StreamType
      BY <3>5, <2>7, <1>5
    <3>7. w.cbBufCount = w.cur
      BY <3>1, <2>1, <1>4
    <3>8. w.cur > 0 /\ w.cbCur <= PL /\ w.cbCur # PL
      BY <3>5
    <3> QED BY SMTT(30), <3>4, <3>5, <3>6, <3>7, <3>8, <1>1, <1>2, <1>4, <1>8, <2>6
  <2>9. CASE c + hops > n
    <3>1. w.cur = n /\ w.cbCur = PL /\ w.cbBufCount = n + 1
      BY <2>1, <2>7, <2>9, <1>4
    <3>2. PICK g \in Int : g = PacketBytes(n - 1)
      <4>1. n - 1 \in Int
        OBVIOUS
      <4> QED BY <4>1, BytesAdd
    <3>3. n # 0
      BY <2>6
    <3>4. TruePos(w) = d + PL + g
      BY <3>1, <3>2, <3>3, <1>4 DEF TruePos
    <3>5. TruePos(w) = TruePos(s) + cb /\ TruePos(w) = bf
      BY <3>2, <3>4, <2>3, <2>4, <2>7, <2>9
    <3>6. w \in StreamType
      BY <3>1, <2>7, <1>5
    <3> QED BY <3>1, <3>3, <3>5, <3>6, <1>1, <1>2, <1>4, <1>8, <2>6
  <2> QED BY <2>7, <2>8, <2>9, <2>6
<1> QED BY <1>7, <1>8

(* The packets a write of cb bytes allocates are the least that hold them. *)
LEMMA RoomFor ==
  ASSUME NEW s \in StreamType, s.cur > 0 => s.cbCur <= PL, NEW cb \in Nat,
         NEW new, new = Allocations(s, cb),
         NEW room, room = Room(s)
  PROVE  /\ new \in Nat /\ room \in Nat
         /\ new = 0 <=> cb <= room
         /\ new > 0 => cb - room - PacketBytes(new - 1) \in 1 .. PL
<1>1. room \in Nat
  BY DEF Room, StreamType
<1>2. CASE cb <= room
  BY <1>1, <1>2 DEF Allocations
<1>3. CASE cb > room
  <2>1. PICK r \in Nat : r = cb - room + PL - 1 /\ r >= PL
    <3>1. cb - room + PL - 1 \in Nat /\ cb - room + PL - 1 >= PL
      BY <1>1, <1>3
    <3> QED BY <3>1
  <2>2. new \in Nat /\ PacketBytes(new) <= r /\ r < PacketBytes(new) + PL
    <3>1. ~ (cb <= Room(s)) /\ cb - Room(s) + PL - 1 = r
      BY <1>1, <1>3, <2>1
    <3>2. new = r \div PL
      BY <3>1, Zenon DEF Allocations
    <3>3. /\ r \div PL \in Nat
          /\ PacketBytes(r \div PL) <= r
          /\ r < PacketBytes(r \div PL) + PL
      BY WholePackets
    <3> QED BY <3>2, <3>3
  <2>3. PICK m \in Int : m = PacketBytes(new) /\ PacketBytes(new - 1) = m - PL
    <3>1. new \in Int /\ 1 \in Int
      BY <2>2
    <3>2. /\ PacketBytes(new) \in Int /\ PacketBytes(1) = PL
          /\ PacketBytes(new - 1) = PacketBytes(new) - PacketBytes(1)
      BY <3>1, BytesAdd
    <3> QED BY <3>2
  <2>4. new # 0
    <3>1. PacketBytes(0) = 0
      BY BytesAdd
    <3> QED BY <3>1, <2>1, <2>2
  <2> QED BY <1>1, <1>3, <2>1, <2>2, <2>3, <2>4
<1> QED BY <1>1, <1>2, <1>3

LEMMA SeqOfFunction ==
  ASSUME NEW S, NEW n \in Nat, NEW f \in [1 .. n -> S]
  PROVE  f \in Seq(S) /\ Len(f) = n
  OBVIOUS

(* The list after a write: nothing behind the current packet is kept once  *)
(* a new packet was linked to it.                                          *)
LEMMA WrittenList ==
  ASSUME NEW s \in StreamType, s.cur \in 0 .. Len(s.packets), s.cur > 0 => s.cbCur <= PL,
         NEW bytes \in Seq(Int),
         NEW new, new = Allocations(s, Len(bytes)),
         NEW kept, kept = (IF new = 0 THEN Len(s.packets) ELSE s.cur)
  PROVE  /\ WrittenPackets(s, bytes) \in Seq([Slots -> Int])
         /\ Len(WrittenPackets(s, bytes)) = kept + new
<1>1. new \in Nat /\ Room(s) \in Nat /\ Len(bytes) \in Nat
  BY RoomFor
<1>2. kept \in Nat /\ kept <= Len(s.packets)
  BY DEF StreamType
<1>3. ASSUME NEW j \in Slots, s.cur > 0 PROVE Filled(s, bytes, j) \in Int
  <2>1. s.packets[s.cur][j] \in Int
    BY <1>3 DEF StreamType
  <2>2. PICK h \in Nat : h = Least(Len(bytes), Room(s)) /\ h <= Len(bytes)
    BY <1>1 DEF Least
  <2>3. PICK x \in Nat : x = s.cbCur
    BY DEF StreamType
  <2>4. j >= x /\ j < x + h => j - x + 1 \in 1 .. Len(bytes)
    BY <2>2, <1>1 DEF Slots
  <2>5. j >= x /\ j < x + h => bytes[j - x + 1] \in Int
    BY <2>4
  <2> QED BY <2>1, <2>2, <2>3, <2>5 DEF Filled
<1>4. ASSUME NEW k \in Nat, k > 0, NEW j \in Slots PROVE Fresh(s, bytes, k, j) \in Int
  <2>1. PICK p \in Nat : p = PacketBytes(k - 1)
    <3>1. k - 1 \in Nat
      BY <1>4
    <3> QED BY <3>1, BytesMono
  <2>2. PICK i \in Nat : i = Room(s) + PacketBytes(k - 1) + j + 1 /\ i > 0
    BY <2>1, <1>1 DEF Slots
  <2>3. i <= Len(bytes) => bytes[i] \in Int
    BY <2>2, <1>1
  <2> QED BY <2>2, <2>3 DEF Fresh, Blank
<1> DEFINE packet(k) == IF k > kept        THEN [j \in Slots |-> Fresh(s, bytes, k - kept, j)]
                        ELSE IF k = s.cur THEN [j \in Slots |-> Filled(s, bytes, j)]
                        ELSE s.packets[k]
<1>5. ASSUME NEW k \in 1 .. kept + new PROVE packet(k) \in [Slots -> Int]
  <2>1. CASE k > kept
    <3>1. k - kept \in Nat /\ k - kept > 0
      BY <2>1, <1>1, <1>2
    <3>2. \A j \in Slots : Fresh(s, bytes, k - kept, j) \in Int
      BY <3>1, <1>4
    <3> QED BY <2>1, <3>2
  <2>2. CASE ~ (k > kept) /\ k = s.cur
    <3>1. s.cur > 0
      BY <2>2, <1>1, <1>2
    <3>2. \A j \in Slots : Filled(s, bytes, j) \in Int
      BY <3>1, <1>3
    <3> QED BY <2>2, <3>2
  <2>3. CASE ~ (k > kept) /\ k # s.cur
    <3>1. k \in 1 .. Len(s.packets)
      BY <2>3, <1>1, <1>2 DEF StreamType
    <3> QED BY <2>3, <3>1 DEF StreamType
  <2> QED BY <2>1, <2>2, <2>3
<1>6. WrittenPackets(s, bytes) = [k \in 1 .. kept + new |-> packet(k)]
  BY DEF WrittenPackets
<1> HIDE DEF packet
<1>7. WrittenPackets(s, bytes) \in [1 .. kept + new -> [Slots -> Int]]
  BY <1>5, <1>6
<1>8. kept + new \in Nat
  BY <1>1, <1>2
<1> QED BY <1>7, <1>8, SeqOfFunction

(* A stream moved to its end, ready for WriteWS_List to append.            *)
AtEnd(s) ==
  LET n == Len(s.packets)
  IN  /\ s \in StreamType
      /\ s.cur = n
      /\ TruePos(s) = s.cbBuf
      /\ n > 0 => s.cbCur \in 1 .. PL /\ s.cbBufCount = n
      /\ n = 0 => s.cbCur = 0 /\ s.cbBufCount \in {0, 1}

(* Appending keeps the stream at its end, its packets full but the last.   *)
LEMMA WriteLands ==
  ASSUME NEW s, AtEnd(s), NEW bytes \in Seq(Int),
         NEW w, w = WriteWS_List(s, bytes),
         NEW new, new = Allocations(s, Len(bytes))
  PROVE  /\ new \in Nat
         /\ w \in StreamType
         /\ w.cbDiscarded = s.cbDiscarded
         /\ w.cbBuf = s.cbBuf + Len(bytes)
         /\ Len(w.packets) = Len(s.packets) + new
         /\ w.cur = Len(w.packets)
         /\ w.cbBufCount = s.cbBufCount + new
         /\ TruePos(w) = w.cbBuf
         /\ w.cur > 0 => w.cbCur \in 1 .. PL
         /\ w.cur = 0 => w.cbCur = 0
<1>1. PICK n \in Nat, x \in Nat, cb \in Nat, d \in Nat, bf \in Nat, k \in Int :
        /\ n = Len(s.packets) /\ n = s.cur /\ x = s.cbCur /\ cb = Len(bytes)
        /\ d = s.cbDiscarded /\ bf = s.cbBuf /\ k = s.cbBufCount
  BY DEF AtEnd, StreamType
<1>2. /\ s \in StreamType
      /\ n > 0 => x \in 1 .. PL
      /\ n = 0 => x = 0
      /\ TruePos(s) = bf
  BY <1>1 DEF AtEnd
<1>3. PICK room \in Nat : room = Room(s) /\ room = IF n = 0 THEN 0 ELSE PL - x
  BY <1>1, <1>2 DEF Room
<1>4. /\ new \in Nat
      /\ new = 0 <=> cb <= room
      /\ new > 0 => cb - room - PacketBytes(new - 1) \in 1 .. PL
  <2>1. s.cur > 0 => s.cbCur <= PL
    BY <1>1, <1>2
  <2>2. new = Allocations(s, cb)
    BY <1>1
  <2> QED BY <2>1, <2>2, <1>2, <1>3, RoomFor
<1> DEFINE list == WrittenPackets(s, bytes)
<1>5. list \in Seq([Slots -> Int]) /\ Len(list) = n + new
  <2>1. s.cur \in 0 .. Len(s.packets) /\ (s.cur > 0 => s.cbCur <= PL)
    BY <1>1, <1>2
  <2>2. n = IF new = 0 THEN Len(s.packets) ELSE s.cur
    BY <1>1
  <2> QED BY <2>1, <2>2, <1>2, WrittenList
<1> HIDE DEF list
<1> DEFINE off == IF new = 0 THEN x + cb ELSE cb - room - PacketBytes(new - 1)
<1>6. w = [s EXCEPT !.packets = list, !.cur = n + new, !.cbCur = off,
                    !.cbBuf = bf + cb, !.cbBufCount = k + new]
  BY <1>1, <1>3 DEF WriteWS_List, list
<1>7. off \in Nat /\ (n + new > 0 => off \in 1 .. PL) /\ (n + new = 0 => off = 0)
  BY <1>2, <1>3, <1>4
<1> HIDE DEF off
<1>8. /\ w \in StreamType
      /\ w.packets = list /\ w.cur = n + new /\ w.cbCur = off /\ w.cbBuf = bf + cb
      /\ w.cbBufCount = k + new /\ w.cbDiscarded = d
  <2> PICK e \in Nat : e = n + new
    BY <1>4
  <2> PICK f \in Nat : f = off
    BY <1>7
  <2> PICK g \in Nat : g = bf + cb
    OBVIOUS
  <2> PICK h \in Int : h = k + new
    BY <1>4
  <2> PICK l \in Seq([Slots -> Int]) : l = list
    BY <1>5
  <2>1. w = [s EXCEPT !.packets = l, !.cur = e, !.cbCur = f, !.cbBuf = g, !.cbBufCount = h]
    BY <1>6
  <2>2. s \in StreamType /\ s.cbDiscarded = d
    BY <1>1, <1>2
  <2>3. w \in StreamType
    BY <2>1, <2>2 DEF StreamType
  <2>4. w.packets = l /\ w.cur = e /\ w.cbCur = f /\ w.cbBuf = g /\ w.cbBufCount = h /\ w.cbDiscarded = d
    BY <2>1, <2>2 DEF StreamType
  <2> QED BY <2>3, <2>4
<1>9. TruePos(w) = bf + cb
  <2>1. PICK p \in Int, r \in Int, m \in Int :
          p = PacketBytes(n - 1) /\ r = PacketBytes(new - 1) /\ m = PacketBytes(n + new - 1)
    <3>1. n - 1 \in Int /\ new - 1 \in Int /\ n + new - 1 \in Int
      BY <1>4
    <3> QED BY <3>1, BytesAdd
  <2>2. bf = d + x + (IF n = 0 THEN 0 ELSE p)
    BY <2>1, <1>1, <1>2 DEF TruePos
  <2>3. TruePos(w) = d + off + (IF n + new = 0 THEN 0 ELSE m)
    <3>1. w.cur - 1 = n + new - 1 /\ (w.cur = 0 <=> n + new = 0)
      BY <1>4, <1>8
    <3>2. PICK u \in Nat : u = off
      BY <1>7
    <3> QED BY <3>1, <3>2, <2>1, <1>8 DEF TruePos
  <2>4. CASE new = 0
    BY <2>1, <2>2, <2>3, <2>4, <1>2, <1>3, <1>4 DEF off
  <2>5. CASE new > 0
    <3>1. m = p + PL + r
      <4>1. n + new - 1 = (n - 1) + (1 + (new - 1)) /\ n - 1 \in Int /\ 1 + (new - 1) \in Int /\ new - 1 \in Int
        BY <1>4
      <4>2. PacketBytes((n - 1) + (1 + (new - 1))) = PacketBytes(n - 1) + PacketBytes(1 + (new - 1))
        BY <4>1, BytesAdd
      <4>3. PacketBytes(1 + (new - 1)) = PL + PacketBytes(new - 1)
        BY <4>1, BytesAdd
      <4> QED BY <4>1, <4>2, <4>3, <2>1
    <3>2. n = 0 => p = 0 - PL
      BY <2>1, BytesAdd
    <3>3. off = cb - room - r
      BY <2>1, <2>5 DEF off
    <3> QED BY <3>1, <3>2, <3>3, <2>2, <2>3, <2>5, <1>2, <1>3, <1>4
  <2> QED BY <2>4, <2>5, <1>4
<1> QED BY <1>1, <1>4, <1>5, <1>7, <1>8, <1>9

(* The position of an open list never passes the bytes it holds.           *)
LEMMA WithinList ==
  ASSUME NEW s \in StreamType, Listed(s), NEW n, n = Len(s.packets)
  PROVE  /\ n \in Nat
         /\ s.cbDiscarded <= s.cbBuf
         /\ n = 0 => s.cur = 0 /\ s.cbBuf = s.cbDiscarded
         /\ n > 0 => s.cur \in 1 .. n
         /\ s.cbBuf = 0 => n = 0
<1>1. n \in Nat /\ s \in StreamType
  BY LenNat
<1>2. n > 0 => PacketBytes(n - 1) \in Nat
  <2>1. n > 0 => n - 1 \in Nat
    BY <1>1
  <2> QED BY <2>1, BytesNat
<1> QED BY <1>1, <1>2 DEF Listed, StreamType

(* SetPosWS_List to the bytes received puts the stream at its end.         *)
LEMMA SeekEnd ==
  ASSUME NEW s, NEW t, Stored(s, t), NEW at, at = SetPosWS_List(s, t)
  PROVE  /\ AtEnd(at)
         /\ at.packets = s.packets
         /\ at.cbBuf = s.cbBuf /\ at.cbDiscarded = s.cbDiscarded
<1>1. s \in StreamType /\ t \in Nat /\ s.cbBuf = t
  BY DEF Stored, Intact
<1>2. PICK n \in Nat, d \in Nat :
        /\ n = Len(s.packets) /\ d = s.cbDiscarded /\ d <= t
        /\ n = 0 => s.cur = 0 /\ t = d
        /\ t = 0 => n = 0
  BY <1>1, WithinList DEF Stored, StreamType
<1>3. CASE t = 0
  <2>1. at = s
    BY <1>1, <1>3 DEF SetPosWS_List
  <2>2. s.cbCur = 0 /\ s.cbBufCount = 0 /\ s.cbDiscarded = 0
    BY <1>1, <1>3 DEF Stored, Counted
  <2>3. TruePos(s) = 0
    BY <2>2, <1>2, <1>3 DEF TruePos
  <2> QED BY <2>1, <2>2, <2>3, <1>1, <1>2, <1>3 DEF AtEnd
<1>4. CASE t > 0
  <2>1. SetPosErr(s, t) = "Success"
    BY <1>1, <1>2, <1>4 DEF SetPosErr
  <2>2. /\ at \in StreamType
        /\ at.packets = s.packets /\ at.cbBuf = s.cbBuf
        /\ at.cbDiscarded = s.cbDiscarded
        /\ at.cur = 0 <=> n = 0
        /\ at.cur \in 0 .. n
        /\ at.cur > 0 => at.cbBufCount = at.cur /\ at.cbCur <= PL
        /\ at.cur = 0 => at.cbBufCount = 1 /\ at.cbCur = 0
        /\ TruePos(at) = t
    BY <2>1, <1>1, <1>2, <1>4, SetPosLands DEF Stored
  <2>3. PICK c \in Nat, x \in Nat : c = at.cur /\ x = at.cbCur
    BY <2>2 DEF StreamType
  <2>4. n > 0 => c = n /\ x \in 1 .. PL
    <3> SUFFICES ASSUME n > 0 PROVE c = n /\ x \in 1 .. PL
      OBVIOUS
    <3>1. PICK p \in Int, q \in Int : p = PacketBytes(c - 1) /\ q = PacketBytes(n - 1)
      <4>1. c - 1 \in Int /\ n - 1 \in Int
        OBVIOUS
      <4> QED BY <4>1, BytesAdd
    <3>2. d + q < t
      BY <3>1, <1>1, <1>2 DEF Stored, Listed
    <3>3. t = d + x + p /\ c \in 1 .. n /\ x <= PL
      BY SMTT(30), <3>1, <2>2, <2>3, <1>2 DEF TruePos
    <3>4. c = n
      <4>1. c - 1 < n - 1 => p + PL <= q
        <5>1. c - 1 \in Int /\ n - 1 \in Int
          OBVIOUS
        <5> QED BY <5>1, <3>1, BytesMono
      <4> QED BY <4>1, <3>2, <3>3
    <3> QED BY <3>1, <3>2, <3>3, <3>4
  <2> QED BY <2>2, <2>3, <2>4, <1>1, <1>2 DEF AtEnd
<1> QED BY <1>1, <1>3, <1>4

(* DiscardHeadWS_List frees whole packets in front of the one being read,  *)
(* or the whole list once all of it was read.                              *)
LEMMA DroppableHead ==
  ASSUME NEW s, NEW t, Stored(s, t), NEW cBytes \in Nat, NEW k, k = Droppable(s, cBytes),
         NEW n, n = Len(s.packets)
  PROVE  /\ k \in Nat /\ n \in Nat /\ k <= n
         /\ k > 0 => s.cbBuf > 0
         /\ 0 < k /\ k < n => k < s.cur
         /\ 0 < k /\ k = n => /\ s.cbBuf = s.cbDiscarded + PacketBytes(n)
                              /\ s.cbBuf <= CurrPos(s)
<1>1. /\ s \in StreamType /\ n \in Nat
      /\ s.cbDiscarded <= s.cbBuf
      /\ n > 0 => s.cur \in 1 .. n
      /\ s.cbBuf <= s.cbDiscarded + PacketBytes(n)
  BY WithinList DEF Stored, Listed
<1>2. PICK d \in Nat, bf \in Nat, c \in Nat, x \in Nat, m \in Nat :
        /\ d = s.cbDiscarded /\ bf = s.cbBuf /\ c = s.cur /\ x = s.cbCur
        /\ m = PacketBytes(n)
  <2>1. PacketBytes(n) \in Nat
    BY <1>1, BytesNat
  <2> QED BY <1>1, <2>1 DEF StreamType
<1>3. PICK cp \in Int : cp = CurrPos(s)
  <2>1. PacketBytes(s.cbBufCount - 1) \in Int
    <3>1. s.cbBufCount - 1 \in Int
      BY <1>1 DEF StreamType
    <3> QED BY <3>1, BytesInt
  <2> QED BY <2>1, <1>1 DEF CurrPos, StreamType
<1>4. CASE k = 0
  BY <1>1, <1>4
<1>5. CASE k # 0
  <2>1. PICK u \in Int : u = Least(Least(cBytes, CurrPos(s)), s.cbBuf)
    BY <1>2, <1>3 DEF Least
  <2>2. s.cbBuf > 0 /\ u >= d + PL /\ k = (u - d) \div PL
    <3>1. ~ (DiscardErr(s, cBytes) # "Success" \/ s.cbDiscarded >= cBytes)
      BY <1>5 DEF Droppable
    <3>2. cBytes > 0 /\ s.cbBuf # 0
      BY <3>1, <1>2 DEF DiscardErr
    <3>3. ~ (u < s.cbDiscarded + PL)
      BY <3>1, <2>1, <1>5, Zenon DEF Droppable
    <3>4. k = (u - s.cbDiscarded) \div PL
      BY <3>1, <3>3, <2>1, <1>5, Zenon DEF Droppable
    <3>5. k = (u - d) \div PL
      BY <3>4, <1>2, Zenon
    <3>6. u >= d + PL
      BY <3>3, <1>2
    <3>7. s.cbBuf > 0
      BY <3>2, <1>2
    <3> QED BY <3>5, <3>6, <3>7
  <2>3. u <= cp /\ u <= bf
    BY <2>1, <1>2, <1>3 DEF Least
  <2>4. PICK r \in Nat : r = u - d
    BY <2>2
  <2>5. k \in Nat /\ PacketBytes(k) <= r
    <3>1. r \div PL \in Nat /\ PacketBytes(r \div PL) <= r
      BY WholePackets
    <3> QED BY <3>1, <2>2, <2>4
  <2>6. PICK b \in Nat : b = PacketBytes(k) /\ b <= m
    <3>1. PacketBytes(k) \in Nat
      BY <2>5, BytesNat
    <3> QED BY SMTT(30), <3>1, <2>3, <2>4, <2>5, <1>1, <1>2
  <2>7. k <= n
    <3>1. k \in Int /\ n \in Int
      BY <2>5, <1>1
    <3> QED BY <3>1, <2>6, <1>2, BytesMono
  <2>8. k < n => k < c
    <3> SUFFICES ASSUME k < n, c <= k PROVE FALSE
      BY <2>5, <1>2
    <3>1. c \in 1 .. n /\ c < n /\ x < PL
      BY SMTT(30), <2>5, <1>1, <1>2 DEF Stored, Listed
    <3>2. PICK p \in Int : p = PacketBytes(c - 1) /\ p + PL <= b
      <4>1. c - 1 \in Int /\ c - 1 < k /\ k \in Int
        BY <2>5
      <4>2. PacketBytes(c - 1) \in Int
        BY <4>1, BytesAdd
      <4> QED BY <4>1, <4>2, <2>6, BytesMono
    <3>3. TruePos(s) = d + x + p
      <4>1. s.cur = c /\ s.cur # 0 /\ s.cbCur = x /\ s.cbDiscarded = d
        BY <3>1, <1>2
      <4> QED BY <4>1, <3>2 DEF TruePos
    <3>4. CASE s.cbBufCount = s.cur
      <4>1. cp = d + x + p
        BY <3>2, <3>4, <1>2, <1>3 DEF CurrPos
      <4> QED BY SMTT(30), <4>1, <3>1, <3>2, <2>3, <2>4, <2>5, <2>6
    <3>5. CASE TruePos(s) = s.cbBuf
      <4>1. bf = d + x + p /\ x < PL
        BY <3>1, <3>3, <3>5, <1>2
      <4>2. b <= u - d
        BY <2>4, <2>5, <2>6
      <4> QED BY <4>1, <4>2, <3>2, <2>3
    <3> QED BY <3>1, <3>4, <3>5, <1>2 DEF Stored, Counted
  <2>9. k = n => bf = d + m /\ bf <= cp
    BY SMTT(30), <2>3, <2>4, <2>5, <1>1, <1>2
  <2> QED BY <2>2, <2>5, <2>7, <2>8, <2>9, <1>1, <1>2, <1>3
<1> QED BY <1>4, <1>5

(* Appending the next n bytes to a stream at its end keeps them in place.  *)
LEMMA WrittenContent ==
  ASSUME NEW s, AtEnd(s), NEW t \in Nat, s.cbBuf = t, Intact(s, t), NEW n \in Nat,
         NEW bytes, bytes = Run(t, n),
         NEW w, w = WriteWS_List(s, bytes)
  PROVE  Intact(w, t + n)
<1>1. bytes \in Seq(Int) /\ Len(bytes) = n
  <2>1. bytes \in [1 .. n -> Int]
    BY DEF Run
  <2> QED BY <2>1, SeqOfFunction
<1>2. PICK new \in Nat : /\ new = Allocations(s, Len(bytes))
                         /\ w.cbDiscarded = s.cbDiscarded
                         /\ Len(w.packets) = Len(s.packets) + new
  BY <1>1, WriteLands
<1>3. PICK N \in Nat, x \in Nat, d \in Nat :
        /\ N = Len(s.packets) /\ N = s.cur /\ x = s.cbCur /\ d = s.cbDiscarded
        /\ N > 0 => x \in 1 .. PL
        /\ TruePos(s) = t
  BY DEF AtEnd, StreamType
<1>4. PICK room \in Nat : room = Room(s) /\ (N = 0 => room = 0) /\ (N > 0 => room = PL - x)
  BY <1>3 DEF Room
<1>5. s \in StreamType
  BY DEF AtEnd
<1>6. w.packets = WrittenPackets(s, bytes)
  BY <1>5 DEF WriteWS_List, StreamType
<1> SUFFICES ASSUME NEW k \in 1 .. N + new, NEW j \in Slots,
                    NEW off, off = d + PacketBytes(k - 1) + j, off < t + n
             PROVE  w.packets[k][j] = off
  <2>1. Len(w.packets) = N + new /\ w.cbDiscarded = d
    BY <1>2, <1>3
  <2> QED BY <2>1 DEF Intact
<1>7. k \in Int /\ j \in 0 .. PL - 1
  BY DEF Slots
<1>8. PICK p \in Int, b \in Int : p = PacketBytes(N - 1) /\ b = PacketBytes(k - 1)
  <2>1. N - 1 \in Int /\ k - 1 \in Int
    BY <1>7
  <2> QED BY <2>1, BytesInt
<1>15. PICK o \in Int : o = off /\ o = d + b + j /\ o < t + n
  BY <1>7, <1>8
<1>9. N > 0 => t = d + x + p
  BY <1>3, <1>8 DEF TruePos
<1>10. N = 0 => t = d
  <2>1. s.cbCur = 0 \/ N > 0
    BY <1>3 DEF AtEnd
  <2> QED BY <2>1, <1>3 DEF TruePos
<1>11. w.packets[k] = IF k > N    THEN [i \in Slots |-> Fresh(s, bytes, k - N, i)]
                      ELSE IF k = N THEN [i \in Slots |-> Filled(s, bytes, i)]
                      ELSE s.packets[k]
  <2>1. WrittenPackets(s, bytes) =
          [h \in 1 .. N + new |->
             IF h > N        THEN [i \in Slots |-> Fresh(s, bytes, h - N, i)]
             ELSE IF h = N THEN [i \in Slots |-> Filled(s, bytes, i)]
             ELSE s.packets[h]]
    BY <1>2, <1>3 DEF WrittenPackets
  <2> QED BY <2>1, <1>6
<1>12. CASE k > N
  <2>1. w.packets[k][j] = Fresh(s, bytes, k - N, j)
    BY <1>11, <1>12
  <2>2. PICK q \in Int : q = PacketBytes(k - N - 1) /\ b = p + PL + q
    <3>1. N - 1 \in Int /\ 1 + (k - N - 1) \in Int /\ k - N - 1 \in Int /\ 1 \in Int
      BY <1>7
    <3>2. k - 1 = (N - 1) + (1 + (k - N - 1))
      BY <1>7
    <3>3. PacketBytes((N - 1) + (1 + (k - N - 1))) = p + PacketBytes(1 + (k - N - 1))
      BY <3>1, <1>8, BytesAdd
    <3>4. PacketBytes(1 + (k - N - 1)) = PacketBytes(1) + PacketBytes(k - N - 1) /\ PacketBytes(1) = PL
      BY <3>1, BytesAdd
    <3>5. PacketBytes(k - N - 1) \in Int
      BY <3>1, BytesInt
    <3> QED BY <3>2, <3>3, <3>4, <3>5, <1>8
  <2>3. N = 0 => p = 0 - PL
    <3>1. PacketBytes(0 - 1) = PacketBytes(0) - PacketBytes(1) /\ PacketBytes(0) = 0 /\ PacketBytes(1) = PL
      BY BytesAdd
    <3> QED BY <3>1, <1>8
  <2>4. off = t + room + q + j
    <3>1. t = d + p + PL - room
      <4>1. CASE N = 0
        BY <4>1, <2>3, <1>4, <1>10
      <4>2. CASE N > 0
        BY <4>2, <1>4, <1>9
      <4> QED BY <4>1, <4>2
    <3>2. o = d + p + PL + q + j
      BY <2>2, <1>15
    <3> QED BY <3>1, <3>2, <1>7, <1>15
  <2>5. PICK i \in Int : i = room + q + j + 1
    BY <1>7, <2>2
  <2>6. q >= 0
    <3>1. k - N - 1 \in Nat
      BY <1>7, <1>12
    <3> QED BY <3>1, <2>2, BytesNat
  <2>7. i \in 1 .. n /\ off = t + i - 1
    BY <2>4, <2>5, <2>6, <1>4, <1>7, <1>15
  <2>8. bytes[i] = off
    BY <2>7 DEF Run
  <2> QED BY <2>1, <2>2, <2>5, <2>7, <2>8, <1>1, <1>4 DEF Fresh
<1>13. CASE k = N
  <2>1. w.packets[k][j] = Filled(s, bytes, j)
    BY <1>11, <1>13
  <2>2. b = p /\ N > 0 /\ off = t - x + j
    BY <1>7, <1>8, <1>9, <1>13, <1>15
  <2>3. PICK h \in Nat : /\ h = Least(Len(bytes), Room(s))
                         /\ h <= n /\ (h = n \/ h = PL - x)
    BY <2>2, <1>1, <1>3, <1>4 DEF Least
  <2>4. CASE j >= x /\ j < x + h
    <3>1. j - x + 1 \in 1 .. n
      BY <2>3, <2>4, <1>7
    <3>2. bytes[j - x + 1] = t + (j - x + 1) - 1
      BY <3>1 DEF Run
    <3>3. bytes[j - x + 1] = off
      BY <3>2, <2>2, <1>3, <1>7, <1>15
    <3>4. Filled(s, bytes, j) = bytes[j - x + 1]
      BY <2>3, <2>4, <1>3 DEF Filled
    <3> QED BY <3>3, <3>4, <2>1
  <2>5. CASE ~ (j >= x /\ j < x + h)
    <3>1. j < x
      <4>1. o = t - x + j /\ x \in 1 .. PL
        BY <2>2, <1>3, <1>15
      <4>2. j < x + n /\ j < PL
        BY <4>1, <1>7, <1>15
      <4>3. j < x + h
        BY <4>2, <2>3, <1>7
      <4> QED BY <4>3, <2>5, <1>7
    <3>2. off < t
      BY <3>1, <2>2, <1>3, <1>7, <1>15
    <3>3. s.packets[N][j] = off
      BY <3>2, <2>2, <1>3, <1>7, <1>8, <1>13, <1>15 DEF Intact
    <3> QED BY <3>3, <2>1, <2>3, <2>5, <1>3 DEF Filled
  <2> QED BY <2>4, <2>5
<1>14. CASE k < N
  <2>1. w.packets[k][j] = s.packets[k][j]
    BY <1>7, <1>11, <1>14
  <2>2. b + PL <= p
    <3>1. k - 1 \in Int /\ N - 1 \in Int /\ k - 1 < N - 1
      BY <1>7, <1>14
    <3> QED BY <3>1, <1>8, BytesMono
  <2>3. off < t /\ k \in 1 .. N
    BY <2>2, <1>3, <1>7, <1>9, <1>14, <1>15
  <2> QED BY <2>1, <2>3, <1>3 DEF Intact
<1> QED BY <1>7, <1>12, <1>13, <1>14

LEMMA DivMod ==
  ASSUME NEW a \in Nat
  PROVE  /\ a \div PL \in Nat /\ a % PL \in Slots
         /\ a = PacketBytes(a \div PL) + (a % PL)
  BY DEF PacketBytes, Slots

(* What a copy of cb bytes returns: the bytes from the position on.        *)
LEMMA CopiedContent ==
  ASSUME NEW s, NEW t, Stored(s, t), NEW cb \in Nat,
         cb > 0 => s.cur > 0 /\ TruePos(s) + cb <= s.cbBuf
  PROVE  /\ BytesAt(s, cb) = [i \in 1 .. cb |-> TruePos(s) + i - 1]
         /\ BytesAt(s, cb) \in Seq(Int)
<1>1. PICK n \in Nat, c \in Nat, x \in Nat, d \in Nat :
        n = Len(s.packets) /\ c = s.cur /\ x = s.cbCur /\ d = s.cbDiscarded
  BY WithinList DEF Stored, StreamType
<1>2. TruePos(s) \in Int
  <2>1. c > 0 => PacketBytes(c - 1) \in Int
    <3>1. c - 1 \in Int
      OBVIOUS
    <3> QED BY <3>1, BytesInt
  <2> QED BY SMTT(30), <2>1, <1>1 DEF TruePos
<1>3. ASSUME NEW i \in 1 .. cb
      PROVE  s.packets[s.cur + (s.cbCur + i - 1) \div PL][(s.cbCur + i - 1) % PL]
               = TruePos(s) + i - 1
  <2>1. PICK a \in Nat : a = x + i - 1
    BY <1>1
  <2>2. PICK q \in Nat, r \in Slots : q = a \div PL /\ r = a % PL /\ a = PacketBytes(q) + r
    <3>1. a \div PL \in Nat /\ a % PL \in Slots /\ a = PacketBytes(a \div PL) + (a % PL)
      BY DivMod
    <3> QED BY <3>1
  <2>3. r \in 0 .. PL - 1
    BY DEF Slots
  <2>4. c > 0 /\ TruePos(s) + cb <= s.cbBuf
    BY <1>1
  <2>5. PICK b \in Nat, p \in Nat, m \in Nat : b = PacketBytes(q) /\ p = PacketBytes(c - 1) /\ m = PacketBytes(n)
    <3>1. c - 1 \in Nat
      BY <2>4
    <3> QED BY <3>1, BytesNat
  <2>6. TruePos(s) = d + x + p
    BY SMTT(30), <2>4, <2>5, <1>1 DEF TruePos
  <2>7. PICK e \in Int : e = PacketBytes(c + q - 1) /\ e = p + b
    <3>1. c - 1 \in Int /\ q \in Int /\ c + q - 1 = (c - 1) + q
      OBVIOUS
    <3>2. PacketBytes((c - 1) + q) = PacketBytes(c - 1) + PacketBytes(q)
      BY <3>1, BytesAdd
    <3> QED BY <3>1, <3>2, <2>5
  <2>8. s.cbBuf \in Nat /\ s.cbBuf <= d + m /\ s.cbBuf = t
    BY <2>5, <1>1 DEF Stored, Listed, Intact, StreamType
  <2>9. d + e + r = TruePos(s) + i - 1 /\ d + e + r < s.cbBuf
    BY <2>1, <2>2, <2>3, <2>4, <2>5, <2>6, <2>7, <2>8
  <2>10. c + q \in 1 .. n
    <3>1. e < m
      BY <2>3, <2>8, <2>9
    <3>2. c + q - 1 \in Int /\ n \in Int
      OBVIOUS
    <3>3. c + q - 1 < n
      BY <3>1, <3>2, <2>5, <2>7, BytesMono
    <3> QED BY <3>3, <2>4
  <2>11. s.packets[c + q][r] = d + e + r
    <3>1. \A k \in 1 .. n : \A j \in Slots :
             d + PacketBytes(k - 1) + j < t => s.packets[k][j] = d + PacketBytes(k - 1) + j
      BY <1>1 DEF Stored, Intact
    <3>2. c + q \in 1 .. n /\ r \in Slots /\ d + PacketBytes(c + q - 1) + r < t
      BY <2>7, <2>8, <2>9, <2>10
    <3> QED BY <3>1, <3>2, <2>7
  <2> QED BY <2>1, <2>2, <2>9, <2>11, <1>1
<1>4. BytesAt(s, cb) = [i \in 1 .. cb |-> TruePos(s) + i - 1]
  BY <1>3 DEF BytesAt
<1>5. [i \in 1 .. cb |-> TruePos(s) + i - 1] \in [1 .. cb -> Int]
  BY <1>2
<1> QED BY <1>4, <1>5, SeqOfFunction

(* A read that ReadWS_List lets through, or that ReadWS_List1 cut to what  *)
(* is left, never leaves the bytes of the list.                            *)
LEMMA ReadFits ==
  ASSUME NEW s, NEW t, Stored(s, t), NEW cb \in Nat, cb > 0, s.cbBuf > 0, CurrPos(s) + cb <= s.cbBuf
  PROVE  /\ s.cur > 0 /\ s.cbBufCount = s.cur
         /\ TruePos(s) + cb <= s.cbBuf
<1>1. PICK c \in Nat, x \in Nat, d \in Nat, k \in Int, bf \in Nat :
        /\ c = s.cur /\ x = s.cbCur /\ d = s.cbDiscarded
        /\ k = s.cbBufCount /\ bf = s.cbBuf
  BY DEF Stored, StreamType
<1>2. PICK p \in Int : p = PacketBytes(k - 1)
  <2>1. k - 1 \in Int
    OBVIOUS
  <2> QED BY <2>1, BytesInt
<1>3. CurrPos(s) = d + x + p
  BY <1>1, <1>2 DEF CurrPos
<1>4. c > 0
  BY <1>1, <1>2, <1>3 DEF Stored, Counted
<1>5. PICK q \in Int : q = PacketBytes(c - 1)
  <2>1. c - 1 \in Int
    OBVIOUS
  <2> QED BY <2>1, BytesInt
<1>6. TruePos(s) = d + x + q
  BY <1>1, <1>4, <1>5 DEF TruePos
<1>7. k # c + 1 \/ TruePos(s) # bf
  <2> SUFFICES ASSUME k = c + 1, TruePos(s) = bf PROVE FALSE
    OBVIOUS
  <2>1. k - 1 = (c - 1) + 1 /\ c - 1 \in Int /\ 1 \in Int
    OBVIOUS
  <2>2. p = q + PL
    BY <2>1, <1>2, <1>5, BytesAdd
  <2> QED BY <2>2, <1>1, <1>3, <1>6
<1>8. k = c
  BY <1>1, <1>4, <1>7 DEF Stored, Counted
<1> QED BY <1>1, <1>2, <1>3, <1>4, <1>5, <1>6, <1>8

(* A call that keeps the list and moves inside it.                         *)
LEMMA MoveKeeps ==
  ASSUME NEW s, NEW t, Stored(s, t), NEW w,
         w \in StreamType, w.packets = s.packets, w.cbBuf = s.cbBuf,
         w.cbDiscarded = s.cbDiscarded,
         w.cur \in 0 .. Len(s.packets),
         w.cur = 0 <=> Len(s.packets) = 0,
         w.cur > 0 => w.cbCur <= PL /\ TruePos(w) <= s.cbBuf,
         w.cbCur = PL /\ w.cur > 0 => w.cur = Len(s.packets),
         Counted(w)
  PROVE  Stored(w, t)
<1>1. Listed(w)
  BY DEF Stored, Listed
<1>2. Intact(w, t)
  BY DEF Stored, Intact
<1> QED BY <1>1, <1>2 DEF Stored

LEMMA SeekKeeps ==
  ASSUME NEW s, NEW t, Stored(s, t), NEW off \in Nat,
         NEW w, w = SetPosWS_List(s, off)
  PROVE  /\ Stored(w, t)
         /\ w.packets = s.packets /\ w.cbDiscarded = s.cbDiscarded
<1>1. s \in StreamType /\ Listed(s)
  BY DEF Stored
<1>2. CASE SetPosErr(s, off) # "Success" \/ s.cbBuf = 0
  <2>1. w = s
    BY <1>2 DEF SetPosWS_List
  <2> QED BY <2>1
<1>3. CASE ~ (SetPosErr(s, off) # "Success" \/ s.cbBuf = 0)
  <2>1. s.cbBuf \in Nat /\ s.cbBuf > 0 /\ SetPosErr(s, off) = "Success"
    BY <1>1, <1>3 DEF StreamType
  <2>3. /\ w \in StreamType
        /\ w.packets = s.packets /\ w.cbBuf = s.cbBuf
        /\ w.cbDiscarded = s.cbDiscarded
        /\ w.cur = 0 <=> Len(s.packets) = 0
        /\ w.cur \in 0 .. Len(s.packets)
        /\ w.cur > 0 => w.cbBufCount = w.cur /\ w.cbCur <= PL
        /\ w.cur = 0 => w.cbBufCount = 1 /\ w.cbCur = 0
        /\ TruePos(w) = off
        /\ w.cur > 0 /\ w.cbCur = PL => w.cur = Len(s.packets)
    BY <2>1, <1>1, SetPosLands
  <2>4. off <= s.cbBuf
    BY <2>1 DEF SetPosErr
  <2>5. w.cur = 0 => CurrPos(w) >= w.cbBuf
    <3> SUFFICES ASSUME w.cur = 0 PROVE CurrPos(w) >= w.cbBuf
      OBVIOUS
    <3>1. Len(s.packets) = 0
      BY <2>3
    <3>2. s.cbBuf = s.cbDiscarded
      BY <3>1 DEF Stored, Listed
    <3>3. PacketBytes(0) = 0
      BY BytesAdd
    <3>4. CurrPos(w) = s.cbDiscarded + 0 + PacketBytes(1 - 1)
      BY <2>3 DEF CurrPos
    <3> QED BY <3>2, <3>3, <3>4, <2>1, <2>3
  <2>6. Counted(w)
    BY <2>1, <2>3, <2>5 DEF Counted
  <2> QED BY <2>3, <2>4, <2>6, MoveKeeps
<1> QED BY <1>2, <1>3

(* Read and Read1 both end in this copy.                                   *)
LEMMA CopyKeeps ==
  ASSUME NEW s, NEW t, Stored(s, t), NEW cb \in Nat,
         cb > 0 => s.cbBuf > 0 /\ CurrPos(s) + cb <= s.cbBuf,
         NEW w, w = Advance(s, cb)
  PROVE  /\ Stored(w, t)
         /\ w.packets = s.packets /\ w.cbDiscarded = s.cbDiscarded
<1>1. s \in StreamType /\ Listed(s) /\ Counted(s)
  BY DEF Stored
<1>2. cb > 0 => s.cur > 0 /\ s.cbBufCount = s.cur /\ TruePos(s) + cb <= s.cbBuf
  BY ReadFits
<1>4. /\ w \in StreamType
      /\ w.packets = s.packets /\ w.cbBuf = s.cbBuf
      /\ w.cbDiscarded = s.cbDiscarded
      /\ w.cur = 0 <=> Len(s.packets) = 0
      /\ w.cur \in 0 .. Len(s.packets)
      /\ w.cur > 0 => w.cbCur <= PL
      /\ cb = 0 => w.cbCur = s.cbCur /\ w.cbBufCount = s.cbBufCount /\ w.cur = s.cur
      /\ cb > 0 => \/ w.cbBufCount = w.cur
                   \/ w.cbBufCount = w.cur + 1 /\ TruePos(w) = w.cbBuf
      /\ TruePos(w) = TruePos(s) + cb
      /\ w.cur > 0 /\ w.cbCur = PL => w.cur = Len(s.packets)
  BY <1>1, <1>2, AdvanceLands
<1>5. TruePos(s) \in Int
  <2>1. s.cur > 0 => PacketBytes(s.cur - 1) \in Int
    <3>1. s.cur > 0 => s.cur - 1 \in Int
      BY <1>1 DEF StreamType
    <3> QED BY <3>1, BytesInt
  <2> QED BY <2>1, <1>1 DEF TruePos, StreamType
<1>6. w.cur > 0 => TruePos(w) <= s.cbBuf
  <2>1. CASE cb = 0
    BY <2>1, <1>4, <1>5, <1>1 DEF Listed, StreamType
  <2>2. CASE cb > 0
    BY <2>2, <1>2, <1>4
  <2> QED BY <2>1, <2>2
<1>7. Counted(w)
  <2>1. CASE cb = 0
    <3>1. CurrPos(w) = CurrPos(s) /\ TruePos(w) = TruePos(s)
      BY <2>1, <1>4, <1>5 DEF CurrPos
    <3> QED BY <3>1, <2>1, <1>1, <1>4 DEF Counted
  <2>2. CASE cb > 0
    <3>1. s.cbBuf > 0 /\ s.cbBuf \in Nat /\ w.cur # 0
      BY <2>2, <1>1, <1>2, <1>4 DEF Listed, StreamType
    <3> QED BY <3>1, <2>2, <1>4 DEF Counted
  <2> QED BY <2>1, <2>2
<1> QED BY <1>4, <1>6, <1>7, MoveKeeps

LEMMA CurrPosInt == ASSUME NEW s \in StreamType PROVE CurrPos(s) \in Int
<1>1. s.cbBufCount - 1 \in Int
  BY DEF StreamType
<1>2. PacketBytes(s.cbBufCount - 1) \in Int
  BY <1>1, BytesInt
<1> QED BY <1>2 DEF CurrPos, StreamType

LEMMA ReceiveKeeps ==
  ASSUME NEW s, NEW t, Stored(s, t), NEW n \in Nat,
         NEW w, w = WriteWS_List(SetPosWS_List(s, t), Run(t, n))
  PROVE  Stored(w, t + n) /\ TruePos(w) = w.cbBuf /\ w.cbDiscarded = s.cbDiscarded
<1> DEFINE at  == SetPosWS_List(s, t)
           new == Allocations(at, n)
<1>1. /\ AtEnd(at)
      /\ at.packets = s.packets
      /\ at.cbBuf = s.cbBuf /\ at.cbDiscarded = s.cbDiscarded
  BY SeekEnd
<1>2. w = WriteWS_List(at, Run(t, n))
  OBVIOUS
<1> HIDE DEF at
<1>3. Run(t, n) \in Seq(Int) /\ Len(Run(t, n)) = n
  <2>1. Run(t, n) \in [1 .. n -> Int]
    BY DEF Run, Stored
  <2> QED BY <2>1, SeqOfFunction
<1>4. /\ new \in Nat
      /\ w \in StreamType
      /\ w.cbDiscarded = at.cbDiscarded
      /\ w.cbBuf = at.cbBuf + n
      /\ Len(w.packets) = Len(at.packets) + new
      /\ w.cur = Len(w.packets)
      /\ w.cbBufCount = at.cbBufCount + new
      /\ TruePos(w) = w.cbBuf
      /\ w.cur > 0 => w.cbCur \in 1 .. PL
      /\ w.cur = 0 => w.cbCur = 0
  BY <1>1, <1>2, <1>3, WriteLands
<1> HIDE DEF new
<1>5. PICK N \in Nat, M \in Nat, d \in Nat, x \in Nat :
         /\ N = Len(s.packets) /\ M = Len(w.packets) /\ M = N + new
         /\ d = s.cbDiscarded /\ x = w.cbCur
  BY <1>1, <1>4, LenNat DEF Stored, StreamType
<1>6. t \in Nat /\ s.cbBuf = t
  BY <1>5 DEF Stored, Intact
<1>7. w \in StreamType
  BY <1>4
<1>8. Listed(w)
  <2>1. CASE M = 0
    <3>1. Len(w.packets) = 0 /\ w.cur = 0 /\ w.cbCur = 0 /\ w.cbDiscarded = d
      BY <2>1, <1>1, <1>4, <1>5
    <3>2. w.cbBuf = d
      BY <3>1, <1>4 DEF TruePos
    <3>3. PacketBytes(0) = 0
      BY BytesAdd
    <3> QED BY <3>1, <3>2, <3>3 DEF Listed
  <2>2. CASE M > 0
    <3>1. PICK p \in Int : p = PacketBytes(M - 1) /\ PacketBytes(M) = p + PL
      <4>1. M - 1 \in Int /\ 1 \in Int /\ M = (M - 1) + 1
        OBVIOUS
      <4>2. PacketBytes((M - 1) + 1) = PacketBytes(M - 1) + PacketBytes(1) /\ PacketBytes(1) = PL
        BY <4>1, BytesAdd
      <4>3. PacketBytes(M - 1) \in Int
        BY <4>1, BytesInt
      <4> QED BY <4>1, <4>2, <4>3
    <3>2. w.cbBuf = d + x + p /\ x \in 1 .. PL
      BY SMTT(30), <3>1, <2>2, <1>1, <1>4, <1>5 DEF TruePos
    <3>3. TruePos(w) <= w.cbBuf
      BY <3>1, <3>2, <1>4
    <3>4. Len(w.packets) = M /\ w.cur = M /\ w.cbCur = x /\ w.cbDiscarded = d
      BY <1>1, <1>4, <1>5
    <3> QED BY <3>1, <3>2, <3>3, <3>4, <2>2 DEF Listed
  <2> QED BY <2>1, <2>2
<1>9. Counted(w)
  <2>1. N = 0 => at.cbCur = 0 /\ at.cbBufCount \in {0, 1}
    BY <1>1, <1>5 DEF AtEnd
  <2>2. N > 0 => at.cbBufCount = N
    BY <1>1, <1>5 DEF AtEnd
  <2>3. w.cbBuf = 0 => w.cbDiscarded = 0 /\ w.cbCur = 0 /\ w.cbBufCount = 0
    <3> SUFFICES ASSUME w.cbBuf = 0
                 PROVE w.cbDiscarded = 0 /\ w.cbCur = 0 /\ w.cbBufCount = 0
      OBVIOUS
    <3>1. n = 0 /\ s.cbBuf = 0
      BY <1>1, <1>4, <1>6
    <3>2. s.cbDiscarded = 0 /\ s.cbBufCount = 0 /\ N = 0
      BY <3>1, <1>5, WithinList DEF Stored, Counted
    <3>3. at = s
      BY <3>1 DEF at, SetPosWS_List
    <3>4. new = 0
      BY <3>1, <1>1 DEF new, Allocations, Room, AtEnd, StreamType
    <3> QED BY <3>2, <3>3, <3>4, <1>4, <1>5
  <2>4. w.cbBuf > 0 /\ w.cur = 0 => CurrPos(w) >= w.cbBuf
    <3> SUFFICES ASSUME w.cbBuf > 0, w.cur = 0
                 PROVE CurrPos(w) >= w.cbBuf
      OBVIOUS
    <3>1. N = 0 /\ new = 0 /\ w.cbCur = 0 /\ w.cbDiscarded = d
      BY <1>1, <1>4, <1>5
    <3>6. w.cbBuf = d
      BY <3>1, <1>4 DEF TruePos
    <3>2. n = 0 /\ s.cbBuf > 0
      <4>1. s.cbBuf = d
        BY <3>1, <1>5 DEF Stored, Listed
      <4>2. w.cbBuf = s.cbBuf + n
        BY <1>1, <1>4
      <4> QED BY <4>1, <4>2, <3>6
    <3>3. s.cbBuf >= d /\ SetPosErr(s, t) = "Success"
      <4>1. s.cbBuf = d /\ t = d /\ d > 0 /\ s.cbDiscarded = d
        BY <3>1, <3>2, <3>6, <1>1, <1>4, <1>5, <1>6
      <4> QED BY <4>1 DEF SetPosErr
    <3>4. at.cbBufCount = 1
      <4>1. s \in StreamType /\ Listed(s)
        BY DEF Stored
      <4>2. at.cur = 0
        BY <3>1, <1>1, <1>5 DEF AtEnd
      <4> QED BY <4>1, <4>2, <3>2, <3>3, <1>6, SetPosLands DEF at
    <3>5. CurrPos(w) = d + 0 + PacketBytes(1 - 1) /\ PacketBytes(0) = 0
      <4>1. w.cbBufCount = 1
        BY <3>1, <3>4, <1>4
      <4>2. PacketBytes(0) = 0
        BY BytesAdd
      <4> QED BY <4>1, <4>2, <3>1 DEF CurrPos
    <3> QED BY <3>5, <3>6
  <2>5. w.cur > 0 => \/ w.cbBufCount = w.cur
                     \/ w.cbBufCount = w.cur + 1 /\ TruePos(w) = w.cbBuf
    BY <2>1, <2>2, <1>1, <1>4, <1>5
  <2> QED BY <2>3, <2>4, <2>5 DEF Counted
<1>10. Intact(w, t + n)
  <2>1. Intact(at, t)
    BY <1>1 DEF Stored, Intact
  <2> QED BY <2>1, <1>1, <1>2, <1>6, WrittenContent
<1>11. w.cbBuf = t + n
  BY <1>1, <1>3, <1>4, <1>6
<1> QED BY <1>1, <1>4, <1>6, <1>7, <1>8, <1>9, <1>10, <1>11 DEF Stored

(* What DiscardHeadWS_List leaves: the same stream, k packets shorter.     *)
LEMMA DiscardLands ==
  ASSUME NEW s, NEW t, Stored(s, t), NEW cBytes \in Nat, NEW k, k = Droppable(s, cBytes), k > 0,
         NEW w, w = DiscardHeadWS_List(s, cBytes),
         NEW n, n = Len(s.packets)
  PROVE  /\ w \in StreamType
         /\ Len(w.packets) = n - k
         /\ w.cur = IF k = n THEN 0 ELSE s.cur - k
         /\ w.cbBuf = s.cbBuf /\ w.cbCur = s.cbCur
         /\ w.cbBufCount = s.cbBufCount - k
         /\ w.cbDiscarded = s.cbDiscarded + PacketBytes(k)
         /\ \A h \in 1 .. n - k : w.packets[h] = s.packets[h + k]
<1>1. /\ k \in Nat /\ n \in Nat /\ k <= n
      /\ k < n => k < s.cur
  BY DroppableHead
<1>2. s \in StreamType
  BY DEF Stored
<1>3. PICK c \in Nat : c = IF k = n THEN 0 ELSE s.cur - k
  BY <1>1, <1>2 DEF StreamType
<1>4. PICK e \in Nat : e = s.cbDiscarded + PacketBytes(k)
  <2>1. PacketBytes(k) \in Nat
    BY <1>1, BytesNat
  <2> QED BY <2>1, <1>2 DEF StreamType
<1>5. PICK f \in Int : f = s.cbBufCount - k
  BY <1>1, <1>2 DEF StreamType
<1>6. PICK l \in Seq([Slots -> Int]) :
        /\ l = SubSeq(s.packets, k + 1, Len(s.packets))
        /\ Len(l) = n - k
        /\ \A h \in 1 .. n - k : l[h] = s.packets[h + k]
  <2>1. s.packets \in Seq([Slots -> Int])
    BY <1>2 DEF StreamType
  <2> DEFINE l == SubSeq(s.packets, k + 1, n)
  <2>2. k + 1 \in Int /\ n \in Int /\ \A i \in k + 1 .. n : s.packets[i] \in [Slots -> Int]
    BY <2>1, <1>1
  <2>3. /\ l \in Seq([Slots -> Int])
        /\ Len(l) = IF k + 1 <= n THEN n - (k + 1) + 1 ELSE 0
        /\ \A i \in 1 .. n - (k + 1) + 1 : l[i] = s.packets[k + 1 + i - 1]
    BY SMTT(30), <2>2, SubSeqProperties
  <2> HIDE DEF l
  <2>4. Len(l) = n - k
    BY <2>3, <1>1
  <2>5. ASSUME NEW h \in 1 .. n - k PROVE l[h] = s.packets[h + k]
    <3>1. h \in 1 .. n - (k + 1) + 1 /\ k + 1 + h - 1 = h + k
      BY <1>1
    <3> QED BY <3>1, <2>3
  <2>6. l = SubSeq(s.packets, k + 1, Len(s.packets))
    BY DEF l
  <2> QED BY <2>3, <2>4, <2>5, <2>6
<1>7. w = [s EXCEPT !.packets = l, !.cur = c, !.cbBufCount = f, !.cbDiscarded = e]
  BY <1>3, <1>4, <1>5, <1>6 DEF DiscardHeadWS_List
<1>8. w \in StreamType
  BY <1>2, <1>7 DEF StreamType
<1>9. /\ w.packets = l /\ w.cur = c /\ w.cbBufCount = f /\ w.cbDiscarded = e
      /\ w.cbBuf = s.cbBuf /\ w.cbCur = s.cbCur
  BY <1>2, <1>7 DEF StreamType
<1> QED BY <1>3, <1>4, <1>5, <1>6, <1>8, <1>9

LEMMA DiscardKeeps ==
  ASSUME NEW s, NEW t, Stored(s, t), NEW cBytes \in Nat,
         NEW w, w = DiscardHeadWS_List(s, cBytes)
  PROVE  Stored(w, t) /\ (w.cur > 0 => TruePos(w) = TruePos(s))
<1>1. PICK k \in Nat, n \in Nat :
        /\ k = Droppable(s, cBytes) /\ n = Len(s.packets) /\ k <= n
        /\ k > 0 => s.cbBuf > 0
        /\ 0 < k /\ k < n => k < s.cur
        /\ 0 < k /\ k = n => /\ s.cbBuf = s.cbDiscarded + PacketBytes(n)
                             /\ s.cbBuf <= CurrPos(s)
  <2> DEFINE k == Droppable(s, cBytes)
             n == Len(s.packets)
  <2>1. /\ k \in Nat /\ n \in Nat /\ k <= n
        /\ k > 0 => s.cbBuf > 0
        /\ 0 < k /\ k < n => k < s.cur
        /\ 0 < k /\ k = n => /\ s.cbBuf = s.cbDiscarded + PacketBytes(n)
                             /\ s.cbBuf <= CurrPos(s)
    BY DroppableHead
  <2> HIDE DEF k, n
  <2>2. k = Droppable(s, cBytes) /\ n = Len(s.packets)
    BY DEF k, n
  <2> QED BY <2>1, <2>2
<1>3. s \in StreamType /\ t \in Nat /\ Listed(s) /\ Counted(s)
  BY DEF Stored
<1>4. CASE k = 0
  <2>0. k = Droppable(s, cBytes)
    BY <1>1
  <2>1. w = s
    BY <2>0, <1>4, Zenon DEF DiscardHeadWS_List
  <2> QED BY <2>1, <1>3
<1>5. CASE k > 0
  <2>1. /\ w \in StreamType
        /\ Len(w.packets) = n - k
        /\ w.cur = IF k = n THEN 0 ELSE s.cur - k
        /\ w.cbBuf = s.cbBuf /\ w.cbCur = s.cbCur
        /\ w.cbBufCount = s.cbBufCount - k
        /\ w.cbDiscarded = s.cbDiscarded + PacketBytes(k)
        /\ \A h \in 1 .. n - k : w.packets[h] = s.packets[h + k]
    BY SMTT(30), <1>1, <1>5, DiscardLands
  <2>2. PICK c \in 1 .. n, x \in Nat, d \in Nat, bf \in Nat, m \in Int :
          /\ c = s.cur /\ x = s.cbCur /\ d = s.cbDiscarded /\ bf = s.cbBuf
          /\ m = s.cbBufCount /\ (k < n => k < c)
    <3>1. s.cur \in 1 .. n
      BY <1>1, <1>3, <1>5, WithinList
    <3> QED BY <3>1, <1>1, <1>3, <1>5 DEF StreamType
  <2>3. PICK b \in Nat, p \in Int, q \in Int, u \in Int, v \in Int :
          /\ b = PacketBytes(k) /\ p = PacketBytes(c - 1) /\ q = PacketBytes(n - 1)
          /\ u = PacketBytes(m - 1) /\ v = PacketBytes(n)
    <3>1. c - 1 \in Int /\ n - 1 \in Int /\ m - 1 \in Int
      OBVIOUS
    <3>2. PacketBytes(k) \in Nat
      BY BytesNat
    <3>3. PacketBytes(c - 1) \in Int /\ PacketBytes(n - 1) \in Int /\ PacketBytes(m - 1) \in Int
          /\ PacketBytes(n) \in Int
      BY <3>1, BytesInt
    <3> QED BY <3>2, <3>3
  <2>4. /\ PacketBytes(c - k - 1) = p - b
        /\ PacketBytes(n - k - 1) = q - b
        /\ PacketBytes(m - k - 1) = u - b
        /\ PacketBytes(n - k) = v - b
        /\ PacketBytes(0) = 0
    <3>1. /\ c - 1 \in Int /\ n - 1 \in Int /\ m - 1 \in Int
          /\ c - k - 1 = (c - 1) - k /\ n - k - 1 = (n - 1) - k /\ m - k - 1 = (m - 1) - k
      OBVIOUS
    <3>2. PacketBytes((c - 1) - k) = p - b
      BY <3>1, <2>3, BytesAdd
    <3>3. PacketBytes((n - 1) - k) = q - b
      BY <3>1, <2>3, BytesAdd
    <3>4. PacketBytes((m - 1) - k) = u - b
      BY <3>1, <2>3, BytesAdd
    <3>5. PacketBytes(n - k) = v - b /\ PacketBytes(0) = 0
      BY <2>3, BytesAdd
    <3> QED BY <3>1, <3>2, <3>3, <3>4, <3>5
  <2>5. /\ TruePos(s) = d + x + p
        /\ CurrPos(s) = d + x + u
        /\ CurrPos(w) = d + x + u
    <3>1. TruePos(s) = d + x + p /\ CurrPos(s) = d + x + u
      BY <2>2, <2>3 DEF TruePos, CurrPos
    <3>2. w.cbDiscarded = d + b /\ w.cbCur = x /\ w.cbBufCount = m - k
      BY <2>1, <2>2, <2>3
    <3>3. CurrPos(w) = d + b + x + PacketBytes(m - k - 1)
      BY <3>2 DEF CurrPos
    <3> QED BY <3>1, <3>3, <2>3, <2>4
  <2>6. k < n => w.cur = c - k /\ TruePos(w) = TruePos(s)
    <3> SUFFICES ASSUME k < n PROVE w.cur = c - k /\ TruePos(w) = TruePos(s)
      OBVIOUS
    <3>1. w.cur = c - k /\ c - k > 0 /\ w.cbDiscarded = d + b /\ w.cbCur = x
      BY SMTT(30), <2>1, <2>2, <2>3
    <3>2. TruePos(w) = d + b + x + PacketBytes(c - k - 1)
      BY <3>1, <2>2 DEF TruePos
    <3> QED BY <3>1, <3>2, <2>3, <2>4, <2>5
  <2>7. w.cur > 0 => k < n
    BY <2>1, <1>1
  <2>8. /\ bf <= d + v
        /\ d + q < bf
        /\ x <= PL /\ d + x + p <= bf
        /\ x = PL => c = n
    <3>1. /\ s.cur > 0 /\ s.cur = c /\ s.cbCur = x /\ s.cbBuf = bf /\ s.cbDiscarded = d
          /\ Len(s.packets) = n /\ n > 0
      BY <1>1, <2>2
    <3>2. bf <= d + v /\ d + q < bf /\ x <= PL /\ (x = PL => c = n)
      BY <3>1, <1>3, <2>3 DEF Listed
    <3>3. TruePos(s) <= bf
      BY <3>1, <1>3 DEF Listed
    <3> QED BY <3>2, <3>3, <2>5
  <2>9. k = n => bf = d + v /\ bf <= d + x + u
    BY <1>1, <1>5, <2>2, <2>3, <2>5
  <2>10. Listed(w)
    <3>1. PICK N \in Nat, c2 \in Nat :
            /\ N = n - k /\ N = Len(w.packets) /\ c2 = w.cur /\ c2 \in 0 .. N
            /\ c2 = 0 <=> N = 0
            /\ c2 > 0 => TruePos(w) = d + x + p
            /\ x = PL /\ c2 > 0 => c2 = N
      <4>1. CASE k = n
        BY <4>1, <2>1
      <4>2. CASE k < n
        <5>1. c - k \in 1 .. n - k /\ w.cur = c - k /\ TruePos(w) = d + x + p
          BY <4>2, <2>2, <2>5, <2>6
        <5>2. x = PL => c - k = n - k
          BY <2>8
        <5> QED BY <4>2, <5>1, <5>2, <2>1
      <4> QED BY <4>1, <4>2, <1>1
    <3>2. PacketBytes(N) = v - b /\ PacketBytes(N - 1) = q - b
      BY <3>1, <2>4
    <3>3. w.cbDiscarded = d + b /\ w.cbBuf = bf /\ w.cbCur = x
      BY <2>1, <2>2, <2>3
    <3>4. N = 0 => bf = d + b
      <4>1. N = 0 => k = n
        BY <3>1
      <4> QED BY <4>1, <2>3, <2>9
    <3> QED BY SMTT(30), <3>1, <3>2, <3>3, <3>4, <2>8 DEF Listed
  <2>11. Counted(w)
    <3>1. w.cbBuf > 0 /\ w.cbBuf = bf
      BY <1>1, <1>5, <2>1, <2>2
    <3>2. w.cur = 0 => CurrPos(w) >= w.cbBuf
      <4>1. w.cur = 0 => k = n
        BY SMTT(30), <2>1, <2>2, <1>1
      <4> QED BY <4>1, <3>1, <2>5, <2>9
    <3>3. w.cur > 0 => \/ w.cbBufCount = w.cur
                       \/ w.cbBufCount = w.cur + 1 /\ TruePos(w) = w.cbBuf
      <4>1. \/ m = c
            \/ m = c + 1 /\ TruePos(s) = bf
        <5>1. s.cur > 0 /\ s.cur = c /\ s.cbBufCount = m /\ s.cbBuf = bf
          BY <2>2
        <5> QED BY <5>1, <1>3 DEF Counted
      <4>2. w.cbBufCount = m - k
        BY <2>1, <2>2
      <4>3. w.cur > 0 => w.cur = c - k /\ TruePos(w) = TruePos(s)
        BY <2>6, <2>7
      <4> QED BY <4>1, <4>2, <4>3, <3>1
    <3> QED BY <3>1, <3>2, <3>3 DEF Counted
  <2>13. Intact(w, t)
    <3>2. ASSUME NEW h \in 1 .. n - k, NEW j \in Slots,
                 NEW off, off = w.cbDiscarded + PacketBytes(h - 1) + j, off < t
          PROVE  w.packets[h][j] = off
      <4>1. h + k \in 1 .. n
        BY <1>1
      <4>2. PICK g \in Int : g = PacketBytes(h - 1) /\ PacketBytes((h - 1) + k) = g + b
        <5>1. h - 1 \in Int /\ k \in Int
          OBVIOUS
        <5>2. PacketBytes(h - 1) \in Int
          BY <5>1, BytesInt
        <5>3. PacketBytes((h - 1) + k) = PacketBytes(h - 1) + PacketBytes(k)
          BY <5>1, BytesAdd
        <5> QED BY <5>2, <5>3, <2>3
      <4>3. h + k - 1 = (h - 1) + k /\ j \in Int
        BY DEF Slots
      <4>4. off = d + PacketBytes(h + k - 1) + j
        <5>1. off = d + b + g + j
          BY <3>2, <4>2, <2>1, <2>2, <2>3
        <5>2. PacketBytes(h + k - 1) = g + b
          BY <4>2, <4>3
        <5> QED BY <5>1, <5>2, <4>3
      <4>5. s.packets[h + k][j] = off
        <5>1. \A i \in 1 .. n : \A y \in Slots :
                d + PacketBytes(i - 1) + y < t => s.packets[i][y] = d + PacketBytes(i - 1) + y
          BY <2>2, <1>1 DEF Stored, Intact
        <5> QED BY <5>1, <3>2, <4>1, <4>4
      <4> QED BY <4>5, <2>1
    <3>3. Len(w.packets) = n - k
      BY <2>1
    <3> QED BY <3>2, <3>3 DEF Intact
  <2>12. w.cbBuf = t
    BY <2>1 DEF Stored
  <2> QED BY <2>1, <2>6, <2>7, <2>10, <2>11, <2>12, <2>13, <1>3 DEF Stored
<1> QED BY <1>4, <1>5

(* An open stream is empty.                                               *)
LEMMA NewStored ==
  /\ NewStream \in StreamType /\ Len(NewStream.packets) = 0
  /\ Stored(NewStream, 0)
<1>1. PacketBytes(0) = 0 /\ << >> \in Seq([Slots -> Int])
  BY BytesAdd
<1>2. NewStream \in StreamType /\ Len(NewStream.packets) = 0
  BY <1>1 DEF NewStream, StreamType
<1>3. /\ NewStream.cur = 0 /\ NewStream.cbBuf = 0 /\ NewStream.cbCur = 0
      /\ NewStream.cbBufCount = 0 /\ NewStream.cbDiscarded = 0
  BY DEF NewStream
<1> QED BY <1>1, <1>2, <1>3 DEF Stored, Listed, Counted, Intact

-----------------------------------------------------------------------------
(* The bit reader: its ring, and what it holds of the stream.              *)
USE PKAssumption

(* Quotient and remainder of a number below twice the divisor.             *)
LEMMA Once ==
  ASSUME NEW R \in Nat \ {0}, NEW a \in Nat, a < 2 * R
  PROVE  /\ a % R = IF a < R THEN a ELSE a - R
         /\ a \div R = IF a < R THEN 0 ELSE 1
<1>1. PICK q \in Int, r \in 0 .. R - 1 : q = a \div R /\ r = a % R /\ a = R * q + r
  OBVIOUS
<1>2. ~ (q < 0)
  <2> SUFFICES ASSUME q < 0 PROVE FALSE
    OBVIOUS
  <2>1. PICK d \in Nat : q = 0 - 1 - d
    <3> 0 - 1 - q \in Nat
      OBVIOUS
    <3> QED OBVIOUS
  <2>2. R * q = 0 - R - R * d /\ R * d >= 0
    BY <2>1
  <2> QED BY <2>2, <1>1
<1>3. ~ (q > 1)
  <2> SUFFICES ASSUME q > 1 PROVE FALSE
    OBVIOUS
  <2>1. PICK d \in Nat : q = 2 + d
    <3> q - 2 \in Nat
      OBVIOUS
    <3> QED OBVIOUS
  <2>2. R * q = 2 * R + R * d /\ R * d >= 0
    BY <2>1
  <2> QED BY <2>2, <1>1
<1>4. CASE q = 0
  BY <1>1, <1>4
<1>5. CASE q = 1
  BY <1>1, <1>5
<1> QED BY <1>2, <1>3, <1>4, <1>5

(* The ring is walked round once at most, from any place in it.            *)
LEMMA RingIndex ==
  ASSUME NEW i \in Ring, NEW k \in 0 .. 2 * PK
  PROVE  /\ (i + k) % (2 * PK) = IF i + k < 2 * PK THEN i + k ELSE i + k - 2 * PK
         /\ (i + k) % (2 * PK) \in Ring
<1>1. PICK R \in Nat \ {0}, a \in Nat :
         R = 2 * PK /\ a = i + k /\ a < 2 * R
  <2>1. 2 * PK \in Nat \ {0} /\ i + k \in Nat /\ i + k < 2 * (2 * PK)
    BY DEF Ring
  <2> QED BY <2>1
<1>2. a % R = IF a < R THEN a ELSE a - R
  BY <1>1, Once
<1> DEFINE m == (i + k) % (2 * PK)
<1>3. m = a % R
  BY <1>1, Zenon
<1> HIDE DEF m
<1>4. m = IF a < R THEN a ELSE a - R
  BY <1>2, <1>3, Zenon
<1>5. m = IF i + k < 2 * PK THEN i + k ELSE i + k - 2 * PK
  BY <1>1, <1>4 DEF Ring
<1>6. m \in Ring
  BY <1>5 DEF Ring
<1> QED BY <1>5, <1>6 DEF m

(* A reader's next packet is the one the next bit is not in.               *)
LEMMA UsedMeans ==
  ASSUME NEW rd, rd.pbStart \in {0, PK}, rd.pbCurrent \in Ring
  PROVE  Used(rd) <=> ~ (rd.pbCurrent - rd.pbStart \in 0 .. PK - 1)
<1>1. PICK p \in {0, PK}, c \in Ring : p = rd.pbStart /\ c = rd.pbCurrent
  OBVIOUS
<1>2. c \div PK = IF c < PK THEN 0 ELSE 1
  <2>1. PK \in Nat \ {0} /\ c \in Nat /\ c < 2 * PK
    BY DEF Ring
  <2> QED BY <2>1, Once
<1>3. p \div PK = IF p < PK THEN 0 ELSE 1
  <2>1. PK \in Nat \ {0} /\ p \in Nat /\ p < 2 * PK
    OBVIOUS
  <2> QED BY <2>1, Once
<1> QED BY <1>1, <1>2, <1>3 DEF Used, Ring

(* Where SetPosWS_List puts the stream, for BitIO, and what a Read1 there  *)
(* returns: as much of what was asked for as has arrived.                  *)
LEMMA SeekReads ==
  ASSUME NEW st, NEW t, Stored(st, t), NEW off \in Nat, SetPosErr(st, off) = "Success",
         NEW s, s = SetPosWS_List(st, off), NEW n \in Nat,
         NEW r, r = Read1Size(s, n)
  PROVE  /\ Stored(s, t)
         /\ off <= t
         /\ GetPosWS_List(s) = off
         /\ r \in 0 .. n /\ off + r <= t
         /\ BytesAt(s, r) = Run(off, r)
         /\ Stored(Advance(s, r), t)
<1>1. Stored(s, t) /\ t \in Nat /\ s.cbBuf = t /\ st.cbBuf = t /\ st \in StreamType /\ Listed(st)
  BY SeekKeeps DEF Stored
<1>2. off <= t
  BY <1>1 DEF SetPosErr
<1>3. CASE t = 0
  <2>1. GetPosWS_List(s) = off /\ off = 0
    BY <1>1, <1>2, <1>3 DEF GetPosWS_List
  <2>2. r = 0
    BY <1>1, <1>3 DEF Read1Size
  <2>3. BytesAt(s, r) = Run(off, r)
    BY <2>2 DEF BytesAt, Run
  <2>4. Stored(Advance(s, r), t)
    BY <2>2, <1>1, CopyKeeps
  <2> QED BY <2>1, <2>2, <2>3, <2>4, <1>1, <1>2, <1>3
<1>4. CASE t > 0
  <2>1. /\ s.cbDiscarded = st.cbDiscarded
        /\ s.cur \in Nat
        /\ s.cur > 0 => s.cbBufCount = s.cur
        /\ s.cur = 0 => s.cbBufCount = 1 /\ s.cbCur = 0
        /\ TruePos(s) = off
        /\ s \in StreamType
    BY <1>1, <1>4, SetPosLands DEF StreamType
  <2>2. CurrPos(s) = off
    <3>1. CASE s.cur > 0
      BY <3>1, <2>1 DEF TruePos, CurrPos
    <3>2. CASE s.cur = 0
      <4>1. PacketBytes(1 - 1) = 0
        BY BytesAdd
      <4> QED BY <4>1, <3>2, <2>1 DEF TruePos, CurrPos, StreamType
    <3> QED BY <3>1, <3>2, <2>1
  <2>3. GetPosWS_List(s) = off
    BY <2>2, <1>1, <1>4 DEF GetPosWS_List
  <2>4. r = Least(n, t - off)
    BY <2>2, <1>1, <1>4 DEF Read1Size, Read1Err
  <2>5. r \in 0 .. n /\ off + r <= t
    BY <2>4, <1>1, <1>2 DEF Least
  <2>6. r > 0 => s.cur > 0 /\ TruePos(s) + r <= s.cbBuf
    BY <2>2, <2>5, <1>1, <1>4, ReadFits
  <2>7. BytesAt(s, r) = Run(off, r)
    <3>1. BytesAt(s, r) = [i \in 1 .. r |-> TruePos(s) + i - 1]
      BY <2>5, <2>6, <1>1, CopiedContent
    <3> QED BY <3>1, <2>1 DEF Run
  <2>8. Stored(Advance(s, r), t)
    BY <2>2, <2>5, <1>1, <1>4, CopyKeeps
  <2> QED BY <2>3, <2>5, <2>7, <2>8, <1>1, <1>2
<1> QED BY <1>1, <1>3, <1>4

LEMMA RunSeq ==
  ASSUME NEW at \in Int, NEW n \in Nat
  PROVE  /\ Run(at, n) \in Seq(Int) /\ Len(Run(at, n)) = n
         /\ \A i \in 1 .. n : Run(at, n)[i] = at + i - 1
<1>1. Run(at, n) \in [1 .. n -> Int]
  BY DEF Run
<1> QED BY <1>1, SeqOfFunction DEF Run

(* The ring after the bytes from offset off on were copied to place at.    *)
LEMMA CopiedRing ==
  ASSUME NEW ring \in [Ring -> Int], NEW at \in Nat, NEW off \in Nat, NEW r \in Nat,
         NEW new, new = Copied(ring, at, Run(off, r))
  PROVE  /\ new \in [Ring -> Int]
         /\ \A i \in Ring : new[i] = IF i >= at /\ i < at + r THEN off + (i - at) ELSE ring[i]
<1>1. Len(Run(off, r)) = r /\ \A i \in 1 .. r : Run(off, r)[i] = off + i - 1
  BY RunSeq
<1>2. ASSUME NEW i \in Ring, i >= at, i < at + r
      PROVE  Run(off, r)[i - at + 1] = off + (i - at)
  <2>1. i - at + 1 \in 1 .. r
    BY <1>2 DEF Ring
  <2> QED BY <2>1, <1>1 DEF Ring
<1>3. \A i \in Ring : new[i] = IF i >= at /\ i < at + r THEN off + (i - at) ELSE ring[i]
  BY <1>1, <1>2 DEF Copied
<1>4. new = [i \in Ring |-> new[i]]
  BY DEF Copied
<1>5. \A i \in Ring : new[i] \in Int
  BY <1>3 DEF Ring
<1> QED BY <1>3, <1>4, <1>5

(* A new reader is attached to nothing.                                    *)
LEMMA NewReader == NewBitIO \in BitIOType /\ ~ NewBitIO.attached
<1>1. [i \in Ring |-> Blank] \in [Ring -> Int]
  BY DEF Blank
<1> QED BY <1>1 DEF NewBitIO, BitIOType

LEMMA DetachedType == ASSUME NEW rd \in BitIOType PROVE detachISRead(rd) \in BitIOType
  BY DEF detachISRead, BitIOType

(* The place of the ring k bytes after place i.                            *)
RingAt(i, k) == (i + k) % (2 * PK)

LEMMA RingAtIs ==
  ASSUME NEW i \in Ring, NEW k \in 0 .. 2 * PK
  PROVE  /\ RingAt(i, k) = IF i + k < 2 * PK THEN i + k ELSE i + k - 2 * PK
         /\ RingAt(i, k) \in Ring
  BY RingIndex DEF RingAt

(* What an attached reader holds when the next bit is in byte pos: the     *)
(* bytes from there up to offRef, in order round the ring.  While there is *)
(* more to read, the byte at offRef has its place where the next refill    *)
(* puts it.                                                                *)
Held(rd, nx, upper) ==
  /\ rd \in BitIOType
  /\ rd.attached
  /\ rd.pbStart \in {0, PK}
  /\ rd.pbCurrent \in Ring
  /\ rd.offRef <= nx + 2 * PK
  /\ rd.offRef < upper =>
       nx < rd.offRef /\ RingAt(rd.pbCurrent, rd.offRef - nx) = rd.pbStart
  /\ \A k \in 0 .. 2 * PK - 1 :
       nx + k < rd.offRef => rd.ring[RingAt(rd.pbCurrent, k)] = nx + k

(* After readIS more than a packet is held, or all there is.               *)
Ready(rd, nx, upper) == rd.offRef < upper => nx + PK < rd.offRef

(* attachISRead at an offset that has arrived fills the ring from there.   *)
LEMMA AttachHolds ==
  ASSUME NEW st, NEW t, Stored(st, t), NEW off \in Nat, SetPosErr(st, off) = "Success",
         NEW s, s = SetPosWS_List(st, off), NEW upper \in Nat,
         NEW rd \in BitIOType,
         NEW rd2, rd2 = attachISRead(rd, s, upper),
         NEW w, w = Advance(s, AttachTaken(s, upper))
  PROVE  /\ Stored(w, t)
         /\ rd2 \in BitIOType
         /\ AttachErr(s, upper) = "Success" =>
              /\ Held(rd2, off, upper) /\ Ready(rd2, off, upper)
              /\ off < rd2.offRef /\ rd2.offRef <= t /\ rd2.offRef <= upper
         /\ AttachErr(s, upper) # "Success" => ~ rd2.attached
                                               /\ rd2.offRef = rd.offRef /\ rd2.pbStart = rd.pbStart
<1> DEFINE n == AttachSize(s, upper)
           r == Read1Size(s, n)
<1>1. GetPosWS_List(s) = off /\ Stored(s, t) /\ off <= t /\ t \in Nat
  BY SeekReads DEF Stored
<1>2. CASE off >= upper
  <2>1. AttachErr(s, upper) = "OutOfBounds" /\ AttachTaken(s, upper) = 0
    BY <1>1, <1>2 DEF AttachErr, AttachTaken
  <2>2. rd2 = [rd EXCEPT !.attached = FALSE]
    BY <2>1 DEF attachISRead
  <2>3. rd2 \in BitIOType /\ rd2.failed = rd.failed /\ ~ rd2.attached
        /\ rd2.offRef = rd.offRef /\ rd2.pbStart = rd.pbStart
    BY <2>2 DEF BitIOType
  <2>4. Stored(w, t)
    BY <2>1, <1>1, CopyKeeps
  <2> QED BY <2>1, <2>3, <2>4
<1>3. CASE off < upper
  <2>1. n = Least(2 * PK, upper - off) /\ n \in 1 .. 2 * PK /\ n <= upper - off
        /\ (n = 2 * PK \/ n = upper - off)
    BY <1>1, <1>3 DEF AttachSize, Least
  <2>2. ~ (GetPosWS_List(s) >= upper)
    BY <1>1, <1>3
  <2>3. AttachTaken(s, upper) = r
    BY <2>2 DEF AttachTaken
  <2> HIDE DEF n
  <2>4. /\ r \in 0 .. n /\ off + r <= t /\ BytesAt(s, r) = Run(off, r)
        /\ Stored(Advance(s, r), t)
    <3>1. n \in Nat
      BY <2>1
    <3> QED BY <3>1, SeekReads
  <2> HIDE DEF r
  <2>5. Stored(w, t)
    BY <2>3, <2>4
  <2> DEFINE ring == Copied(rd.ring, 0, BytesAt(s, r))
  <2>6. /\ ring \in [Ring -> Int]
        /\ \A i \in Ring : i < r => ring[i] = off + i
    <3>1. rd.ring \in [Ring -> Int] /\ r \in Nat /\ 0 \in Nat
      BY <2>4, <2>1 DEF BitIOType
    <3>2. ring = Copied(rd.ring, 0, Run(off, r))
      BY <2>4
    <3>3. /\ ring \in [Ring -> Int]
          /\ \A i \in Ring : ring[i] = IF i >= 0 /\ i < 0 + r THEN off + (i - 0) ELSE rd.ring[i]
      BY <3>1, <3>2, CopiedRing
    <3> HIDE DEF ring
    <3> QED BY <3>1, <3>3 DEF Ring
  <2> HIDE DEF ring
  <2>7. CASE AttachErr(s, upper) = "Success"
    <3>1. rd2 = [attached |-> TRUE, pbStart |-> 0, pbCurrent |-> 0, failed |-> rd.failed,
                 offRef |-> off + r, totalRead |-> r, ring |-> ring]
      BY <2>3, <2>7, <1>1 DEF attachISRead, ring
    <3>2. r = n
      <4>1. ~ (r < n)
        BY <2>2, <2>7 DEF AttachErr, n, r
      <4> QED BY <4>1, <2>1, <2>4
    <3>3. /\ rd2 \in BitIOType /\ rd2.attached /\ rd2.pbStart = 0 /\ rd2.pbCurrent = 0
          /\ rd2.offRef = off + r /\ rd2.ring = ring /\ rd2.failed = rd.failed
      <4>1. 0 \in Ring /\ r \in Nat /\ off + r \in Nat /\ rd.failed \in BOOLEAN
        BY <2>1, <2>4 DEF Ring, BitIOType
      <4> QED BY <4>1, <3>1, <2>6 DEF BitIOType
    <3>4. 0 \in Ring /\ \A k \in 0 .. 2 * PK - 1 : RingAt(0, k) = k /\ k \in Ring
      <4>1. 0 \in Ring
        BY DEF Ring
      <4>2. ASSUME NEW k \in 0 .. 2 * PK - 1 PROVE RingAt(0, k) = k /\ k \in Ring
        BY <4>1, RingAtIs DEF Ring
      <4> QED BY <4>1, <4>2
    <3>5. RingAt(0, 2 * PK) = 0
      BY <3>4, RingAtIs
    <3>6. rd2.offRef < upper => r = 2 * PK
      BY <3>2, <3>3, <2>1
    <3>7. ASSUME NEW k \in 0 .. 2 * PK - 1, off + k < rd2.offRef
          PROVE  rd2.ring[RingAt(rd2.pbCurrent, k)] = off + k
      <4>1. k < r
        BY <3>3, <3>7, <2>4
      <4> QED BY <4>1, <3>3, <3>4, <2>6
    <3>8. rd2.offRef < upper => off < rd2.offRef /\ RingAt(rd2.pbCurrent, rd2.offRef - off) = rd2.pbStart
      <4> SUFFICES ASSUME rd2.offRef < upper
                   PROVE  off < rd2.offRef /\ RingAt(rd2.pbCurrent, rd2.offRef - off) = rd2.pbStart
        OBVIOUS
      <4>1. r = 2 * PK /\ rd2.offRef - off = 2 * PK
        BY <3>3, <3>6
      <4> QED BY <4>1, <3>3, <3>5
    <3>9. Held(rd2, off, upper)
      BY <3>2, <3>3, <3>4, <3>7, <3>8, <2>1 DEF Held
    <3>10. Ready(rd2, off, upper)
      BY <3>3, <3>6 DEF Ready
    <3>11. off < rd2.offRef /\ rd2.offRef <= t /\ rd2.offRef <= upper
      BY <3>2, <3>3, <2>1, <2>4, <1>1
    <3> QED BY <3>3, <3>9, <3>10, <3>11, <2>5, <2>7
  <2>8. CASE AttachErr(s, upper) = "DataNotAvailable"
    <3>1. rd2 = [rd EXCEPT !.attached = FALSE, !.failed = FALSE, !.ring = ring]
      BY <2>3, <2>8 DEF attachISRead, ring
    <3>2. rd2 \in BitIOType /\ rd2.failed = FALSE /\ ~ rd2.attached
          /\ rd2.offRef = rd.offRef /\ rd2.pbStart = rd.pbStart
      BY <3>1, <2>6 DEF BitIOType
    <3> QED BY <3>2, <2>5, <2>8
  <2>9. CASE AttachErr(s, upper) # "Success" /\ AttachErr(s, upper) # "DataNotAvailable"
    <3>1. rd2 = [rd EXCEPT !.attached = FALSE]
      BY <2>9 DEF attachISRead
    <3>2. rd2 \in BitIOType /\ rd2.failed = rd.failed /\ ~ rd2.attached
          /\ rd2.offRef = rd.offRef /\ rd2.pbStart = rd.pbStart
      BY <3>1 DEF BitIOType
    <3> QED BY <3>2, <2>5, <2>9
  <2> QED BY <2>7, <2>8, <2>9
<1>4. off >= upper \/ off < upper
  OBVIOUS
<1> QED BY <1>2, <1>3, <1>4, Zenon

(* The position of a stream is a number of bytes, and of an empty one 0.   *)
LEMMA GetPosNat ==
  ASSUME NEW s, NEW t, Stored(s, t)
  PROVE  /\ GetPosWS_List(s) \in Nat /\ TruePos(s) \in Nat
         /\ t = 0 => GetPosWS_List(s) = 0
         /\ t > 0 => GetPosWS_List(s) = CurrPos(s)
<1>1. s \in StreamType /\ t \in Nat /\ s.cbBuf = t /\ Listed(s) /\ Counted(s)
  BY DEF Stored
<1>2. CASE s.cur = 0
  <2>1. CurrPos(s) \in Int /\ TruePos(s) \in Nat
    BY <1>2, <1>1, CurrPosInt DEF TruePos, StreamType
  <2>2. t > 0 => CurrPos(s) >= t
    BY <1>2, <1>1 DEF Counted
  <2> QED BY <2>1, <2>2, <1>1 DEF GetPosWS_List
<1>3. CASE s.cur > 0
  <2>1. s.cbBufCount - 1 \in Nat /\ s.cur - 1 \in Nat
    BY <1>3, <1>1 DEF Counted, StreamType
  <2>2. PacketBytes(s.cbBufCount - 1) \in Nat /\ PacketBytes(s.cur - 1) \in Nat
    BY <2>1, BytesNat
  <2>3. CurrPos(s) \in Nat /\ TruePos(s) \in Nat
    BY <2>2, <1>3, <1>1 DEF CurrPos, TruePos, StreamType
  <2> QED BY <2>3, <1>1 DEF GetPosWS_List
<1>4. s.cur \in Nat
  BY <1>1 DEF StreamType
<1> QED BY <1>2, <1>3, <1>4

(* attachISRead wherever the stream is, so long as its Read1 returns.      *)
LEMMA AttachKeeps ==
  ASSUME NEW s, NEW t, Stored(s, t), NEW upper \in Nat, NEW rd \in BitIOType,
         GetPosWS_List(s) < upper => ~ Read1Wraps(s, AttachSize(s, upper)),
         NEW rd2, rd2 = attachISRead(rd, s, upper),
         NEW w, w = Advance(s, AttachTaken(s, upper))
  PROVE  Stored(w, t) /\ rd2 \in BitIOType
<1> DEFINE n == AttachSize(s, upper)
           r == Read1Size(s, n)
           g == GetPosWS_List(s)
<1>1. s \in StreamType /\ t \in Nat /\ s.cbBuf = t /\ Listed(s) /\ Counted(s)
  BY DEF Stored
<1>2. g \in Nat /\ TruePos(s) \in Nat /\ (t = 0 => g = 0) /\ (t > 0 => g = CurrPos(s))
  BY GetPosNat
<1>3. CASE g >= upper
  <2>1. AttachErr(s, upper) = "OutOfBounds" /\ AttachTaken(s, upper) = 0
    BY <1>3 DEF AttachErr, AttachTaken
  <2>2. rd2 = [rd EXCEPT !.attached = FALSE]
    BY <2>1 DEF attachISRead
  <2>3. rd2 \in BitIOType
    BY <2>2 DEF BitIOType
  <2>4. Stored(w, t)
    BY <2>1, CopyKeeps
  <2> QED BY <2>3, <2>4
<1>4. CASE ~ (g >= upper)
  <2>1. n \in 1 .. 2 * PK
    BY <1>2, <1>4 DEF AttachSize, Least
  <2>2. AttachTaken(s, upper) = r
    BY <1>4 DEF AttachTaken
  <2>3. ~ Read1Wraps(s, n)
    BY <1>2, <1>4
  <2> HIDE DEF n, g
  <2>4. r \in 0 .. n /\ (r > 0 => s.cbBuf > 0 /\ CurrPos(s) + r <= s.cbBuf)
    <3>1. CASE t = 0
      BY <3>1, <2>1, <1>1 DEF Read1Size
    <3>2. CASE t > 0
      <4>1. Read1Err(s, n) = "Success"
        BY <3>2, <1>1 DEF Read1Err
      <4>2. CurrPos(s) \in Nat /\ CurrPos(s) <= t
        BY <4>1, <3>2, <2>3, <1>1, <1>2 DEF Read1Wraps
      <4>3. r = Least(n, t - CurrPos(s))
        BY <4>1, <3>2, <1>1 DEF Read1Size
      <4> QED BY <4>2, <4>3, <3>2, <2>1, <1>1 DEF Least
    <3> QED BY <3>1, <3>2, <1>1
  <2> HIDE DEF r
  <2>5. Stored(w, t)
    BY <2>1, <2>2, <2>4, CopyKeeps
  <2> DEFINE ring == Copied(rd.ring, 0, BytesAt(s, r))
  <2>6. ring \in [Ring -> Int]
    <3>1. r > 0 => s.cur > 0 /\ TruePos(s) + r <= s.cbBuf
      BY <2>1, <2>4, <1>1, ReadFits
    <3>2. BytesAt(s, r) = [i \in 1 .. r |-> TruePos(s) + i - 1]
      BY <3>1, <2>1, <2>4, <1>1, CopiedContent DEF Stored
    <3>3. ring = Copied(rd.ring, 0, Run(TruePos(s), r))
      BY <3>2 DEF Run
    <3>4. rd.ring \in [Ring -> Int] /\ r \in Nat /\ 0 \in Nat
      BY <2>1, <2>4 DEF BitIOType
    <3> HIDE DEF ring
    <3> QED BY <3>3, <3>4, <1>2, CopiedRing
  <2> HIDE DEF ring
  <2>7. \/ rd2 = [attached |-> TRUE, pbStart |-> 0, pbCurrent |-> 0, failed |-> rd.failed,
                  offRef |-> g + r, totalRead |-> r, ring |-> ring]
        \/ rd2 = [rd EXCEPT !.attached = FALSE, !.failed = FALSE, !.ring = ring]
        \/ rd2 = [rd EXCEPT !.attached = FALSE]
    <3>1. CASE AttachErr(s, upper) = "Success"
      BY <3>1, <2>2 DEF attachISRead, ring, g
    <3>2. CASE AttachErr(s, upper) = "DataNotAvailable"
      BY <3>2, <2>2 DEF attachISRead, ring
    <3>3. CASE AttachErr(s, upper) # "Success" /\ AttachErr(s, upper) # "DataNotAvailable"
      BY <3>3 DEF attachISRead
    <3> QED BY <3>1, <3>2, <3>3
  <2>8. 0 \in Ring /\ r \in Nat /\ g + r \in Nat /\ rd.failed \in BOOLEAN
    BY <2>1, <2>4, <1>2 DEF Ring, BitIOType
  <2>9. rd2 \in BitIOType
    <3>1. CASE rd2 = [attached |-> TRUE, pbStart |-> 0, pbCurrent |-> 0, failed |-> rd.failed,
                      offRef |-> g + r, totalRead |-> r, ring |-> ring]
      BY <3>1, <2>6, <2>8 DEF BitIOType
    <3>2. CASE rd2 = [rd EXCEPT !.attached = FALSE, !.failed = FALSE, !.ring = ring]
      BY <3>2, <2>6 DEF BitIOType
    <3>3. CASE rd2 = [rd EXCEPT !.attached = FALSE]
      BY <3>3 DEF BitIOType
    <3> QED BY <3>1, <3>2, <3>3, <2>7
  <2> QED BY <2>5, <2>9
<1> QED BY <1>3, <1>4

(* readIS, before the bytes it was to fetch are past the limit: whatever   *)
(* comes of it, a reader that is not marked and whose offRef did not move  *)
(* is untouched; and when it succeeds the reader is ready.                 *)
LEMMA ReadISHolds ==
  ASSUME NEW st, NEW t, Stored(st, t), NEW nx \in Nat, NEW upper \in Nat,
         NEW rd, Held(rd, nx, upper), rd.offRef < upper,
         NEW rd2, rd2 = readIS(rd, st, upper),
         NEW w, w = ReadISStream(rd, st, upper)
  PROVE  /\ Stored(w, t)
         /\ rd2 \in BitIOType
         /\ ~ rd2.failed /\ rd2.offRef = rd.offRef => rd2 = rd
         /\ rd.offRef <= rd2.offRef
         /\ rd2.offRef = rd.offRef \/ rd2.offRef <= t
         /\ ReadISErr(rd, st, upper) = "Success" =>
              /\ Held(rd2, nx, upper) /\ Ready(rd2, nx, upper)
              /\ rd2.offRef <= upper
<1>1. /\ rd \in BitIOType /\ rd.attached /\ rd.offRef \in Nat /\ rd.pbCurrent \in Ring
      /\ rd.pbStart \in {0, PK}
      /\ nx < rd.offRef /\ rd.offRef <= nx + 2 * PK
      /\ RingAt(rd.pbCurrent, rd.offRef - nx) = rd.pbStart
  BY DEF Held, BitIOType
<1>2. PICK m \in 1 .. 2 * PK, c \in 0 .. 2 * PK - 1, p \in {0, PK} :
        /\ m = rd.offRef - nx /\ c = rd.pbCurrent /\ p = rd.pbStart
        /\ p = IF c + m < 2 * PK THEN c + m ELSE c + m - 2 * PK
  <2>1. rd.offRef - nx \in 1 .. 2 * PK /\ rd.offRef - nx \in 0 .. 2 * PK
    BY <1>1
  <2>2. RingAt(rd.pbCurrent, rd.offRef - nx) =
          IF rd.pbCurrent + (rd.offRef - nx) < 2 * PK THEN rd.pbCurrent + (rd.offRef - nx)
          ELSE rd.pbCurrent + (rd.offRef - nx) - 2 * PK
    BY <2>1, <1>1, RingAtIs
  <2>3. rd.pbCurrent \in 0 .. 2 * PK - 1
    BY <1>1 DEF Ring
  <2> QED BY <2>1, <2>2, <2>3, <1>1
<1>3. Used(rd) <=> ~ (c - p \in 0 .. PK - 1)
  <2>1. Used(rd) <=> ~ (rd.pbCurrent - rd.pbStart \in 0 .. PK - 1)
    BY <1>1, UsedMeans
  <2> QED BY <2>1, <1>2
<1>4. CASE ~ Used(rd)
  <2>1. rd2 = rd /\ w = st
    BY <1>4 DEF readIS, ReadISErr, ReadISStream, Refills
  <2>2. m >= PK + 1
    BY <1>2, <1>3, <1>4
  <2>3. Ready(rd2, nx, upper)
    BY <2>1, <2>2, <1>1, <1>2 DEF Ready
  <2> QED BY <2>1, <2>3, <1>1
<1>5. CASE Used(rd) /\ SetPosErr(st, rd.offRef) # "Success"
  <2>1. ReadISErr(rd, st, upper) = SetPosErr(st, rd.offRef) /\ ~ Refills(rd, st, upper)
    BY <1>1, <1>5 DEF ReadISErr, Refills
  <2>2. SetPosErr(st, rd.offRef) \in {"OutOfBounds", "DataDiscarded"}
    BY <1>5 DEF SetPosErr
  <2>3. rd2 = rd /\ w = st
    BY <2>1, <2>2 DEF readIS, ReadISStream
  <2>4. ReadISErr(rd, st, upper) # "Success"
    BY <2>1, <2>2
  <2> QED BY <2>3, <2>4, <1>1
<1>6. CASE Used(rd) /\ SetPosErr(st, rd.offRef) = "Success"
  <2> DEFINE n == RefillSize(rd, upper)
             s == RefillSeek(rd, st)
             r == Read1Size(s, n)
             ring == Copied(rd.ring, rd.pbStart, BytesAt(s, r))
  <2>1. n \in 1 .. PK /\ (n = PK \/ rd.offRef + n = upper) /\ rd.offRef + n <= upper
    BY <1>1 DEF RefillSize, Least
  <2>2. Refills(rd, st, upper) /\ RefillTaken(rd, st, upper) = r /\ w = Advance(s, r)
    BY <1>6 DEF Refills, RefillTaken, ReadISStream
  <2>3. /\ r \in 0 .. n /\ rd.offRef + r <= t /\ BytesAt(s, r) = Run(rd.offRef, r)
        /\ Stored(Advance(s, r), t)
    <3>1. n \in Nat /\ s = SetPosWS_List(st, rd.offRef)
      BY <2>1 DEF RefillSeek
    <3> HIDE DEF n, s
    <3> QED BY <3>1, <1>1, <1>6, SeekReads
  <2>4. /\ ring \in [Ring -> Int]
        /\ \A i \in Ring : ring[i] = IF i >= p /\ i < p + r THEN rd.offRef + (i - p) ELSE rd.ring[i]
    <3>1. rd.ring \in [Ring -> Int] /\ r \in Nat /\ p \in Nat
      BY <2>1, <2>3, <1>1 DEF BitIOType
    <3>2. ring = Copied(rd.ring, p, Run(rd.offRef, r))
      BY <2>3, <1>2
    <3>3. PICK o \in Nat : o = rd.offRef
      BY <1>1
    <3>4. ring = Copied(rd.ring, p, Run(o, r))
      BY <3>2, <3>3
    <3> HIDE DEF ring, r
    <3>5. /\ ring \in [Ring -> Int]
          /\ \A i \in Ring : ring[i] = IF i >= p /\ i < p + r THEN o + (i - p) ELSE rd.ring[i]
      BY <3>1, <3>4, CopiedRing
    <3> QED BY <3>3, <3>5
  <2>5. \/ ReadISErr(rd, st, upper) = "OutOfBounds" /\ rd2 = rd
        \/ /\ ReadISErr(rd, st, upper) = "DataNotAvailable"
           /\ rd2 = [rd EXCEPT !.ring = ring, !.failed = TRUE]
        \/ /\ ReadISErr(rd, st, upper) = "Success" /\ ~ (r < n)
           /\ rd2 = [rd EXCEPT !.ring = ring, !.failed = FALSE, !.offRef = @ + r,
                               !.totalRead = @ + r, !.pbStart = (@ + PK) % (2 * PK)]
    <3>1. /\ RefillTaken(rd, st, upper) = r
          /\ Copied(rd.ring, rd.pbStart, BytesAt(RefillSeek(rd, st), r)) = ring
      BY <2>2
    <3>2. ReadISErr(rd, st, upper) =
            IF Read1Err(s, n) # "Success" THEN "OutOfBounds"
            ELSE IF r < n THEN "DataNotAvailable" ELSE "Success"
      BY <1>1, <1>6 DEF ReadISErr
    <3> HIDE DEF ring, r, n, s
    <3>3. CASE ReadISErr(rd, st, upper) = "OutOfBounds"
      BY <3>1, <3>3 DEF readIS
    <3>4. CASE ReadISErr(rd, st, upper) = "DataNotAvailable"
      BY <3>1, <3>4 DEF readIS
    <3>5. CASE ReadISErr(rd, st, upper) = "Success"
      <4>1. ~ (r < n)
        BY <3>2, <3>5
      <4> QED BY <4>1, <3>1, <3>5, <1>6 DEF readIS
    <3> QED BY <3>2, <3>3, <3>4, <3>5
  <2> HIDE DEF n, r, ring, s
  <2>6. CASE ReadISErr(rd, st, upper) = "OutOfBounds" /\ rd2 = rd
    BY <2>2, <2>3, <2>6, <1>1
  <2>7. CASE /\ ReadISErr(rd, st, upper) = "DataNotAvailable"
             /\ rd2 = [rd EXCEPT !.ring = ring, !.failed = TRUE]
    <3>1. rd2 \in BitIOType /\ rd2.failed /\ rd2.offRef = rd.offRef
      BY <2>4, <2>7, <1>1 DEF BitIOType
    <3> QED BY <3>1, <2>2, <2>3, <2>7, <1>1
  <2>8. CASE /\ ReadISErr(rd, st, upper) = "Success" /\ ~ (r < n)
             /\ rd2 = [rd EXCEPT !.ring = ring, !.failed = FALSE, !.offRef = @ + r,
                                 !.totalRead = @ + r, !.pbStart = (@ + PK) % (2 * PK)]
    <3>1. r = n
      BY <2>1, <2>3, <2>8
    <3>2. PICK q \in {0, PK} : q = (p + PK) % (2 * PK) /\ q = PK - p
      <4>1. RingAt(p, PK) = IF p + PK < 2 * PK THEN p + PK ELSE p + PK - 2 * PK
        <5>1. p \in Ring /\ PK \in 0 .. 2 * PK
          BY DEF Ring
        <5> QED BY <5>1, RingAtIs
      <4>2. RingAt(p, PK) \in {0, PK} /\ RingAt(p, PK) = PK - p
        BY <4>1
      <4> QED BY <4>2 DEF RingAt
    <3>3. /\ rd2 \in BitIOType /\ rd2.attached /\ rd2.pbStart = q /\ rd2.pbCurrent = c
          /\ rd2.offRef = rd.offRef + n /\ rd2.ring = ring /\ rd2.failed = FALSE
      <4>1. rd.offRef + n \in Nat /\ rd.totalRead + n \in Nat /\ rd.pbStart = p
        BY <2>1, <1>1, <1>2 DEF BitIOType
      <4>2. rd2 = [rd EXCEPT !.ring = ring, !.failed = FALSE, !.offRef = rd.offRef + n,
                             !.totalRead = rd.totalRead + n, !.pbStart = q]
        BY <4>1, <3>1, <3>2, <2>8, <1>1 DEF BitIOType
      <4> QED BY <4>1, <4>2, <2>4, <1>1, <1>2 DEF BitIOType
    <3>4. m \in 1 .. PK /\ (p = 0 => c + m = 2 * PK) /\ (p = PK => c + m = PK)
      BY <1>2, <1>3, <1>6
    <3>5. rd2.offRef - nx = m + n /\ m + n \in 0 .. 2 * PK /\ m + n > 0
      BY <3>3, <3>4, <2>1, <1>1, <1>2
    <3>6. rd2.offRef < upper => n = PK
      BY <3>3, <2>1
    <3>7. n = PK => RingAt(c, m + n) = q
      <4>1. c \in Ring
        BY DEF Ring
      <4>2. RingAt(c, m + n) = IF c + (m + n) < 2 * PK THEN c + (m + n) ELSE c + (m + n) - 2 * PK
        BY <4>1, <3>5, RingAtIs
      <4> QED BY <4>2, <3>2, <3>4
    <3>8. ASSUME NEW k \in 0 .. 2 * PK - 1, nx + k < rd2.offRef
          PROVE  ring[RingAt(c, k)] = nx + k
      <4>1. c \in Ring
        BY DEF Ring
      <4>2. PICK i \in Ring : i = RingAt(c, k) /\ i = IF c + k < 2 * PK THEN c + k ELSE c + k - 2 * PK
        <5>1. k \in 0 .. 2 * PK
          OBVIOUS
        <5> QED BY <5>1, <4>1, RingAtIs
      <4>3. CASE k < m
        <5>1. ~ (i >= p /\ i < p + r)
          BY <4>2, <4>3, <3>1, <3>4, <2>1
        <5>2. ring[i] = rd.ring[i]
          BY <5>1, <2>4
        <5>3. nx + k < rd.offRef
          BY <4>3, <1>1, <1>2
        <5>4. rd.ring[RingAt(rd.pbCurrent, k)] = nx + k
          BY <5>3 DEF Held
        <5> QED BY <5>2, <5>4, <4>2, <1>2
      <4>4. CASE k >= m
        <5>1. k - m < n
          BY <3>3, <3>8, <1>1, <1>2, <2>1
        <5>2. i = p + (k - m)
          BY <5>1, <4>2, <4>4, <3>4, <2>1
        <5>3. ring[i] = rd.offRef + (i - p)
          BY <5>1, <5>2, <4>4, <3>1, <2>4, <2>1
        <5>4. rd.offRef + (i - p) = nx + k
          BY <5>2, <1>1, <1>2
        <5> QED BY <5>3, <5>4, <4>2
      <4> QED BY <4>3, <4>4
    <3>9. Held(rd2, nx, upper)
      <4>1. rd2.offRef <= nx + 2 * PK
        BY <3>3, <3>5, <1>1, <2>1
      <4>2. rd2.offRef < upper => nx < rd2.offRef /\ RingAt(rd2.pbCurrent, rd2.offRef - nx) = rd2.pbStart
        BY <3>3, <3>5, <3>6, <3>7, <1>1, <2>1
      <4>3. \A k \in 0 .. 2 * PK - 1 :
              nx + k < rd2.offRef => rd2.ring[RingAt(rd2.pbCurrent, k)] = nx + k
        BY <3>3, <3>8
      <4>4. rd2 \in BitIOType /\ rd2.attached /\ rd2.pbStart \in {0, PK} /\ rd2.pbCurrent \in Ring
        BY <3>3 DEF Ring
      <4> QED BY <4>1, <4>2, <4>3, <4>4 DEF Held
    <3>10. Ready(rd2, nx, upper)
      BY <3>3, <3>4, <3>5, <3>6, <1>1 DEF Ready
    <3>11. rd2.offRef <= t /\ rd2.offRef <= upper /\ rd.offRef < rd2.offRef
      BY <3>1, <3>3, <2>1, <2>3, <1>1
    <3>12. ~ (rd2.offRef = rd.offRef)
      BY <3>11, <1>1, <3>3, <2>1
    <3>13. rd.offRef <= rd2.offRef
      BY <1>1, <3>3, <2>1
    <3> QED BY <3>3, <3>9, <3>10, <3>11, <3>12, <3>13, <2>2, <2>3, <2>8
  <2> QED BY <2>5, <2>6, <2>7, <2>8
<1> QED BY <1>4, <1>5, <1>6

LEMMA RingAtSum ==
  ASSUME NEW i \in Ring, NEW a \in Nat, NEW b \in Nat, a + b <= 2 * PK
  PROVE  RingAt(RingAt(i, a), b) = RingAt(i, a + b)
<1>1. a \in 0 .. 2 * PK /\ b \in 0 .. 2 * PK /\ a + b \in 0 .. 2 * PK
  OBVIOUS
<1>2. PICK j \in Ring : j = RingAt(i, a) /\ j = IF i + a < 2 * PK THEN i + a ELSE i + a - 2 * PK
  BY <1>1, RingAtIs
<1>3. RingAt(j, b) = IF j + b < 2 * PK THEN j + b ELSE j + b - 2 * PK
  BY <1>1, RingAtIs
<1>4. RingAt(i, a + b) = IF i + (a + b) < 2 * PK THEN i + (a + b) ELSE i + (a + b) - 2 * PK
  BY <1>1, RingAtIs
<1> QED BY <1>2, <1>3, <1>4 DEF Ring

(* Taking at most a packet's bytes of a reader that is ready: what is left *)
(* is held as before, and the bytes that were there are the stream's.      *)
LEMMA TakeHolds ==
  ASSUME NEW rd, NEW nx \in Nat, NEW upper \in Nat, NEW n \in 0 .. PK,
         Held(rd, nx, upper), Ready(rd, nx, upper)
  PROVE  /\ Held(Take(rd, n), nx + n, upper)
         /\ Take(rd, n).ring = rd.ring /\ Take(rd, n).offRef = rd.offRef
         /\ Take(rd, n).failed = rd.failed
         /\ Taken(rd, n) \in Seq(Int) /\ Len(Taken(rd, n)) = n
         /\ \A k \in 1 .. n : nx + k - 1 < rd.offRef => Taken(rd, n)[k] = nx + k - 1
<1>1. /\ rd \in BitIOType /\ rd.attached /\ rd.offRef \in Nat /\ rd.pbCurrent \in Ring
      /\ rd.pbStart \in {0, PK} /\ rd.offRef <= nx + 2 * PK /\ rd.ring \in [Ring -> Int]
      /\ rd.offRef < upper =>
           nx + PK < rd.offRef /\ RingAt(rd.pbCurrent, rd.offRef - nx) = rd.pbStart
      /\ \A k \in 0 .. 2 * PK - 1 :
           nx + k < rd.offRef => rd.ring[RingAt(rd.pbCurrent, k)] = nx + k
  BY DEF Held, Ready, BitIOType
<1> DEFINE c == RingAt(rd.pbCurrent, n)
<1>2. n \in 0 .. 2 * PK /\ n \in Nat
  OBVIOUS
<1>3. c \in Ring
  BY <1>1, <1>2, RingAtIs
<1>4. Take(rd, n) = [rd EXCEPT !.pbCurrent = c]
  BY <1>1 DEF Take, RingAt, BitIOType
<1> HIDE DEF c
<1>5. PICK rd2 : rd2 = Take(rd, n)
  OBVIOUS
<1>6. /\ rd2 \in BitIOType /\ rd2.attached /\ rd2.pbStart = rd.pbStart /\ rd2.pbCurrent = c
      /\ rd2.ring = rd.ring /\ rd2.offRef = rd.offRef /\ rd2.failed = rd.failed
  BY <1>1, <1>3, <1>4, <1>5 DEF BitIOType
<1>7. rd2.offRef < upper =>
        nx + n < rd2.offRef /\ RingAt(c, rd2.offRef - (nx + n)) = rd2.pbStart
  <2> SUFFICES ASSUME rd.offRef < upper
               PROVE  nx + n < rd.offRef /\ RingAt(c, rd.offRef - (nx + n)) = rd.pbStart
    BY <1>6
  <2>1. nx + n < rd.offRef
    BY <1>1
  <2>2. PICK b \in Nat : b = rd.offRef - (nx + n) /\ n + b = rd.offRef - nx /\ n + b <= 2 * PK
    <3>1. rd.offRef - (nx + n) \in Nat
      BY <2>1, <1>1
    <3> QED BY <3>1, <1>1
  <2>3. RingAt(c, b) = RingAt(rd.pbCurrent, n + b)
    BY <1>1, <1>2, <2>2, RingAtSum DEF c
  <2> QED BY <2>1, <2>2, <2>3, <1>1
<1>8. ASSUME NEW k \in 0 .. 2 * PK - 1, (nx + n) + k < rd2.offRef
      PROVE  rd2.ring[RingAt(c, k)] = (nx + n) + k
  <2>1. n + k \in 0 .. 2 * PK - 1 /\ nx + (n + k) < rd.offRef /\ k \in Nat
    BY <1>8, <1>6, <1>1
  <2>2. rd.ring[RingAt(rd.pbCurrent, n + k)] = nx + (n + k)
    BY <2>1, <1>1
  <2>3. RingAt(c, k) = RingAt(rd.pbCurrent, n + k)
    BY <1>1, <1>2, <2>1, RingAtSum DEF c
  <2> QED BY <2>2, <2>3, <1>6
<1>9. Held(rd2, nx + n, upper)
  <2>1. rd2.offRef <= (nx + n) + 2 * PK
    BY <1>1, <1>6
  <2> QED BY <2>1, <1>3, <1>6, <1>7, <1>8, <1>1 DEF Held
<1>10. \A k \in 1 .. n : /\ Taken(rd, n)[k] = rd.ring[RingAt(rd.pbCurrent, k - 1)]
                         /\ Taken(rd, n)[k] \in Int
  <2> SUFFICES ASSUME NEW k \in 1 .. n
               PROVE  /\ Taken(rd, n)[k] = rd.ring[RingAt(rd.pbCurrent, k - 1)]
                      /\ Taken(rd, n)[k] \in Int
    OBVIOUS
  <2>1. RingAt(rd.pbCurrent, k - 1) \in Ring
    <3>1. k - 1 \in 0 .. 2 * PK
      BY <1>2
    <3> QED BY <3>1, <1>1, RingAtIs
  <2>2. rd.pbCurrent + k - 1 = rd.pbCurrent + (k - 1)
    BY <1>1 DEF Ring
  <2>3. Taken(rd, n)[k] = rd.ring[(rd.pbCurrent + k - 1) % (2 * PK)]
    BY Zenon DEF Taken
  <2>4. Taken(rd, n)[k] = rd.ring[RingAt(rd.pbCurrent, k - 1)]
    BY <2>2, <2>3, Zenon DEF RingAt
  <2> QED BY <2>1, <2>4, <1>1
<1>11. Taken(rd, n) \in Seq(Int) /\ Len(Taken(rd, n)) = n
  <2>1. Taken(rd, n) \in [1 .. n -> Int]
    <3>1. Taken(rd, n) = [k \in 1 .. n |-> Taken(rd, n)[k]]
      BY Zenon DEF Taken
    <3> QED BY <3>1, <1>10
  <2> QED BY <2>1, <1>2, SeqOfFunction
<1>12. ASSUME NEW k \in 1 .. n, nx + k - 1 < rd.offRef
       PROVE  Taken(rd, n)[k] = nx + k - 1
  <2>1. k - 1 \in 0 .. 2 * PK - 1 /\ nx + (k - 1) < rd.offRef
    BY <1>12, <1>1
  <2>2. rd.ring[RingAt(rd.pbCurrent, k - 1)] = nx + (k - 1)
    BY <2>1, <1>1
  <2> QED BY <2>2, <1>10
<1> QED BY <1>5, <1>6, <1>9, <1>11, <1>12

(* A lower limit asks less of a reader.                                    *)
LEMMA HeldLess ==
  ASSUME NEW rd, NEW nx \in Nat, NEW upper \in Nat, NEW lower \in Nat, lower <= upper,
         Held(rd, nx, upper)
  PROVE  Held(rd, nx, lower)
<1>1. rd.offRef \in Nat
  BY DEF Held, BitIOType
<1>2. rd.offRef < lower => rd.offRef < upper
  BY <1>1
<1> QED BY <1>2 DEF Held

(* A reader since its backup was made: a ring that may have changed shows  *)
(* in offRef or in failed, so that going back to the backup is complete.   *)
Untouched(rd, old) ==
  /\ old.offRef <= rd.offRef
  /\ ~ rd.failed /\ rd.offRef = old.offRef => rd.ring = old.ring

LEMMA RestoreBack ==
  ASSUME NEW rd, NEW old \in BitIOType, Untouched(rd, old)
  PROVE  RestoredBitIO(rd, old) = old
  BY DEF RestoredBitIO, BitIOBufsEqual, Untouched, BitIOType

(* It stays so: a refill moves offRef or leaves the ring as it was, or is  *)
(* marked, and a later one that succeeds moves offRef.                     *)
LEMMA UntouchedStill ==
  ASSUME NEW rd \in BitIOType, NEW old \in BitIOType, Untouched(rd, old),
         NEW rd2 \in BitIOType, rd.offRef <= rd2.offRef,
         ~ rd2.failed /\ rd2.offRef = rd.offRef => rd2.ring = rd.ring /\ ~ rd.failed
  PROVE  Untouched(rd2, old)
<1>1. rd.offRef \in Nat /\ rd2.offRef \in Nat /\ old.offRef \in Nat
  BY DEF BitIOType
<1>2. rd2.offRef = old.offRef => rd.offRef = old.offRef
  BY <1>1 DEF Untouched
<1>3. old.offRef <= rd2.offRef
  BY <1>1 DEF Untouched
<1> QED BY <1>2, <1>3 DEF Untouched

-----------------------------------------------------------------------------
(* Where the stream is, next to where its reader is: GetPos may be one     *)
(* packet ahead once everything was read, but never of what was received.  *)
LEMMA MovesKeepHead ==
  ASSUME NEW s \in StreamType, NEW off \in Nat
  PROVE  /\ SetPosWS_List(s, off).cbDiscarded = s.cbDiscarded
         /\ Advance(s, off).cbDiscarded = s.cbDiscarded
  BY DEF SetPosWS_List, Advance, StreamType

LEMMA PosWithin ==
  ASSUME NEW s, NEW t, Stored(s, t)
  PROVE  Least(GetPosWS_List(s), t) <= TruePos(s)
<1>1. /\ s \in StreamType /\ t \in Nat /\ s.cbBuf = t /\ Listed(s) /\ Counted(s)
      /\ s.cur \in Nat /\ s.cbCur \in Nat /\ s.cbDiscarded \in Nat
  BY DEF Stored, StreamType
<1>2. GetPosWS_List(s) \in Nat /\ TruePos(s) \in Nat
  BY GetPosNat
<1>3. CASE s.cur = 0
  <2>1. s.cbBuf = s.cbDiscarded
    BY <1>1, <1>3, LenNat DEF Listed
  <2>2. TruePos(s) >= t
    BY <2>1, <1>1, <1>3 DEF TruePos
  <2> QED BY <2>2, <1>1, <1>2 DEF Least
<1>4. CASE s.cur > 0 /\ s.cbBufCount = s.cur
  <2>1. CurrPos(s) = TruePos(s)
    BY <1>1, <1>4 DEF CurrPos, TruePos
  <2>2. GetPosWS_List(s) <= TruePos(s)
    BY <2>1, <1>2 DEF GetPosWS_List
  <2> QED BY <2>2, <1>1, <1>2 DEF Least
<1>5. CASE s.cur > 0 /\ TruePos(s) = s.cbBuf
  BY <1>5, <1>1, <1>2 DEF Least
<1> QED BY <1>1, <1>3, <1>4, <1>5 DEF Counted

(* After a seek and a Read1 the stream is behind the bytes read.           *)
LEMMA ReadsTo ==
  ASSUME NEW st, NEW t, Stored(st, t), NEW off \in Nat, SetPosErr(st, off) = "Success",
         NEW s, s = SetPosWS_List(st, off), NEW n \in Nat,
         NEW r, r = Read1Size(s, n),
         NEW w, w = Advance(s, r)
  PROVE  /\ w.cbDiscarded = st.cbDiscarded
         /\ Least(GetPosWS_List(w), t) <= off + r
<1>1. /\ Stored(s, t) /\ r \in 0 .. n /\ Stored(w, t) /\ t \in Nat /\ off <= t /\ off + r <= t
      /\ GetPosWS_List(s) = off
  BY SeekReads DEF Stored
<1>2. /\ st \in StreamType /\ s \in StreamType /\ st.cbBuf = t /\ Listed(st)
      /\ s.cbBuf = t /\ Listed(s) /\ Counted(s)
  BY <1>1 DEF Stored
<1>3. w.cbDiscarded = st.cbDiscarded
  BY <1>1, <1>2, MovesKeepHead
<1>4. CASE t = 0
  <2>1. GetPosWS_List(w) = 0
    BY <1>1, <1>4, GetPosNat
  <2> QED BY <2>1, <1>1, <1>3, <1>4 DEF Least
<1>5. CASE t > 0
  <2>1. TruePos(s) = off
    BY <1>2, <1>5, SetPosLands
  <2>2. r > 0 => s.cur > 0 /\ s.cbBufCount = s.cur /\ TruePos(s) + r <= s.cbBuf
    <3> SUFFICES ASSUME r > 0 PROVE s.cur > 0 /\ s.cbBufCount = s.cur /\ TruePos(s) + r <= s.cbBuf
      OBVIOUS
    <3>1. CurrPos(s) = off
      BY <1>1, <1>5, GetPosNat
    <3>2. CurrPos(s) + r <= s.cbBuf /\ s.cbBuf > 0 /\ r \in Nat
      BY <3>1, <1>1, <1>2, <1>5
    <3> QED BY <3>2, <1>1, ReadFits
  <2>3. TruePos(w) = off + r
    <3>1. r \in Nat
      BY <1>1
    <3>2. TruePos(w) = TruePos(s) + r
      BY <3>1, <2>2, <1>2, AdvanceLands
    <3> QED BY <3>2, <2>1
  <2> QED BY <2>3, <1>1, <1>3, PosWithin
<1> QED BY <1>1, <1>4, <1>5

(* A reader that attaches is not behind the stream, nor behind its head.   *)
LEMMA AttachSyncs ==
  ASSUME NEW st, NEW t, Stored(st, t), NEW off \in Nat, SetPosErr(st, off) = "Success",
         NEW s, s = SetPosWS_List(st, off), NEW upper \in Nat, NEW rd,
         NEW rd2, rd2 = attachISRead(rd, s, upper),
         NEW w, w = Advance(s, AttachTaken(s, upper))
  PROVE  /\ AttachErr(s, upper) # "DataDiscarded"
         /\ w.cbDiscarded = st.cbDiscarded
         /\ AttachErr(s, upper) = "Success" => /\ off <= rd2.offRef
                                               /\ Least(GetPosWS_List(w), t) <= rd2.offRef
<1>1. AttachErr(s, upper) # "DataDiscarded"
  BY DEF AttachErr
<1>2. Stored(s, t) /\ GetPosWS_List(s) = off /\ st \in StreamType
  BY SeekReads DEF Stored
<1>3. CASE off >= upper
  <2>1. AttachErr(s, upper) = "OutOfBounds" /\ AttachTaken(s, upper) = 0
    BY <1>2, <1>3 DEF AttachErr, AttachTaken
  <2>2. w.cbDiscarded = st.cbDiscarded
    BY <2>1, <1>2, MovesKeepHead DEF Stored
  <2> QED BY <2>1, <2>2
<1>4. CASE off < upper
  <2> DEFINE n == AttachSize(s, upper)
             r == Read1Size(s, n)
  <2>1. n \in Nat /\ AttachTaken(s, upper) = r
    BY <1>2, <1>4 DEF AttachSize, AttachTaken, Least
  <2>2. AttachErr(s, upper) = "Success" => rd2.offRef = off + r
    BY <2>1, <1>2 DEF attachISRead
  <2> HIDE DEF n
  <2>3. r \in 0 .. n
    BY <2>1, SeekReads
  <2>4. w.cbDiscarded = st.cbDiscarded /\ Least(GetPosWS_List(w), t) <= off + r
    BY <2>1, ReadsTo
  <2> QED BY <2>1, <2>2, <2>3, <2>4, <1>1
<1> QED BY <1>3, <1>4

(* A packet is used up when the reader holds at most one more.             *)
LEMMA RefillDue ==
  ASSUME NEW nx \in Nat, NEW upper \in Nat, NEW rd, Held(rd, nx, upper), rd.offRef < upper,
         Used(rd)
  PROVE  rd.offRef <= nx + PK
<1>1. /\ rd.offRef \in Nat /\ rd.pbCurrent \in Ring /\ rd.pbStart \in {0, PK}
      /\ nx < rd.offRef /\ rd.offRef <= nx + 2 * PK
      /\ RingAt(rd.pbCurrent, rd.offRef - nx) = rd.pbStart
  BY DEF Held, BitIOType
<1>2. PICK m \in 1 .. 2 * PK, c \in 0 .. 2 * PK - 1, p \in {0, PK} :
        m = rd.offRef - nx /\ c = rd.pbCurrent /\ p = rd.pbStart
  BY <1>1 DEF Ring
<1>3. p = IF c + m < 2 * PK THEN c + m ELSE c + m - 2 * PK
  <2>1. m \in 0 .. 2 * PK
    OBVIOUS
  <2> QED BY <2>1, <1>1, <1>2, RingAtIs
<1>4. ~ (c - p \in 0 .. PK - 1)
  BY <1>1, <1>2, UsedMeans
<1>5. m <= PK
  BY <1>3, <1>4
<1> QED BY <1>1, <1>2, <1>5

(* A refill is due then: it fails, or brings reader and stream together.   *)
LEMMA ReadISSyncs ==
  ASSUME NEW st, NEW t, Stored(st, t), NEW nx \in Nat, NEW upper \in Nat,
         NEW rd, Held(rd, nx, upper), rd.offRef < upper, st.cbDiscarded <= rd.offRef,
         NEW rd2, rd2 = readIS(rd, st, upper),
         NEW w, w = ReadISStream(rd, st, upper)
  PROVE  /\ ReadISErr(rd, st, upper) # "DataDiscarded"
         /\ w.cbDiscarded = st.cbDiscarded
         /\ ReadISErr(rd, st, upper) # "Success" => rd.offRef <= nx + PK
         /\ ReadISErr(rd, st, upper) = "Success" =>
              \/ rd2 = rd /\ w = st
              \/ /\ rd.offRef <= nx + PK /\ rd.offRef < rd2.offRef
                 /\ Least(GetPosWS_List(w), t) <= rd2.offRef
<1>1. rd \in BitIOType /\ rd.offRef \in Nat /\ st \in StreamType
  BY DEF Held, BitIOType, Stored
<1>2. CASE ~ Used(rd)
  BY <1>2 DEF readIS, ReadISErr, ReadISStream, Refills
<1>3. CASE Used(rd) /\ SetPosErr(st, rd.offRef) # "Success"
  <2>1. /\ ReadISErr(rd, st, upper) = SetPosErr(st, rd.offRef) /\ ~ Refills(rd, st, upper)
        /\ SetPosErr(st, rd.offRef) # "DataDiscarded"
    BY <1>1, <1>3 DEF ReadISErr, Refills, SetPosErr, StreamType
  <2>2. w = st
    BY <2>1 DEF ReadISStream
  <2> QED BY <2>1, <2>2, <1>3, RefillDue
<1>4. CASE Used(rd) /\ SetPosErr(st, rd.offRef) = "Success"
  <2> DEFINE n == RefillSize(rd, upper)
             s == RefillSeek(rd, st)
             r == Read1Size(s, n)
  <2>1. n \in 1 .. PK
    BY <1>1 DEF RefillSize, Least
  <2>2. RefillTaken(rd, st, upper) = r /\ w = Advance(s, r)
    BY <1>4 DEF Refills, RefillTaken, ReadISStream
  <2>3. ReadISErr(rd, st, upper) =
          IF Read1Err(s, n) # "Success" THEN "OutOfBounds"
          ELSE IF r < n THEN "DataNotAvailable" ELSE "Success"
    BY <1>1, <1>4 DEF ReadISErr
  <2>4. ReadISErr(rd, st, upper) = "Success" => rd2.offRef = rd.offRef + r
    BY <2>2, <1>1, <1>4 DEF readIS, BitIOType
  <2>5. /\ r \in 0 .. n /\ w.cbDiscarded = st.cbDiscarded
        /\ Least(GetPosWS_List(w), t) <= rd.offRef + r
    <3>1. n \in Nat /\ s = SetPosWS_List(st, rd.offRef)
      BY <2>1 DEF RefillSeek
    <3> HIDE DEF n, s
    <3> QED BY <3>1, <2>2, <1>1, <1>4, SeekReads, ReadsTo
  <2>6. rd.offRef <= nx + PK
    BY <1>4, RefillDue
  <2> HIDE DEF n, s, r
  <2>7. ReadISErr(rd, st, upper) = "Success" => rd.offRef < rd2.offRef
    <3> SUFFICES ASSUME ReadISErr(rd, st, upper) = "Success" PROVE rd.offRef < rd2.offRef
      OBVIOUS
    <3>1. ~ (r < n)
      BY <2>3
    <3> QED BY <3>1, <2>1, <2>4, <2>5, <1>1
  <2> QED BY <2>3, <2>4, <2>5, <2>6, <2>7
<1> QED BY <1>2, <1>3, <1>4

(* DiscardHead frees nothing above what it was asked to, nor above where   *)
(* the stream is, and leaves the position alone.                           *)
LEMMA DiscardSyncs ==
  ASSUME NEW s, NEW t, Stored(s, t), NEW cBytes \in Nat,
         NEW w, w = DiscardHeadWS_List(s, cBytes)
  PROVE  /\ \/ w.cbDiscarded = s.cbDiscarded
            \/ w.cbDiscarded <= cBytes /\ w.cbDiscarded <= Least(GetPosWS_List(s), t)
         /\ GetPosWS_List(w) = GetPosWS_List(s)
<1>1. PICK k \in Nat : k = Droppable(s, cBytes) /\ (k > 0 => s.cbBuf > 0)
  <2>1. Droppable(s, cBytes) \in Nat /\ (Droppable(s, cBytes) > 0 => s.cbBuf > 0)
    BY DroppableHead
  <2> QED BY <2>1
<1>2. s \in StreamType /\ t \in Nat /\ s.cbBuf = t /\ s.cbDiscarded \in Nat
  BY DEF Stored, StreamType
<1>3. CASE k = 0
  BY <1>1, <1>3 DEF DiscardHeadWS_List
<1>4. CASE k > 0
  <2>1. /\ w.cbBuf = s.cbBuf /\ w.cbCur = s.cbCur /\ w.cbBufCount = s.cbBufCount - k
        /\ w.cbDiscarded = s.cbDiscarded + PacketBytes(k)
    <3>1. PICK n : n = Len(s.packets)
      OBVIOUS
    <3> QED BY <3>1, <1>1, <1>4, DiscardLands
  <2>2. GetPosWS_List(s) = CurrPos(s) /\ GetPosWS_List(s) \in Nat
    BY <1>1, <1>2, <1>4, GetPosNat
  <2>3. CurrPos(w) = CurrPos(s)
    <3>1. PICK b \in Int : b = s.cbBufCount - 1
      BY <1>2 DEF StreamType
    <3>2. k \in Int
      OBVIOUS
    <3>3. PacketBytes(b - k) = PacketBytes(b) - PacketBytes(k)
      BY <3>2, BytesAdd
    <3>4. PacketBytes(b) \in Int /\ PacketBytes(k) \in Int
      BY <3>2, BytesInt
    <3>5. w.cbBufCount - 1 = b - k
      BY <3>1, <2>1, <1>2 DEF StreamType
    <3>6. s.cbCur \in Int
      BY <1>2 DEF StreamType
    <3> QED BY <3>1, <3>3, <3>4, <3>5, <3>6, <2>1, <1>2 DEF CurrPos
  <2>4. GetPosWS_List(w) = GetPosWS_List(s)
    BY <2>1, <2>3 DEF GetPosWS_List
  <2>5. PICK u : u = Least(Least(cBytes, CurrPos(s)), s.cbBuf)
    OBVIOUS
  <2>6. u \in Nat /\ u <= cBytes /\ u <= Least(GetPosWS_List(s), t)
    BY <2>2, <2>5, <1>2 DEF Least
  <2>7. ~ (u < s.cbDiscarded + PL) /\ k = (u - s.cbDiscarded) \div PL
    BY <2>5, <1>1, <1>4 DEF Droppable
  <2>8. PICK d \in Nat : d = u - s.cbDiscarded
    <3>1. u >= s.cbDiscarded
      BY <2>6, <2>7, <1>2
    <3> QED BY <3>1, <2>6, <1>2
  <2>9. PacketBytes(k) <= d /\ PacketBytes(k) \in Nat
    BY <2>7, <2>8, WholePackets, BytesNat
  <2>10. w.cbDiscarded <= u /\ w.cbDiscarded \in Nat
    BY <2>1, <2>6, <2>8, <2>9, <1>2
  <2>11. Least(GetPosWS_List(s), t) \in Nat
    BY <2>2, <1>2 DEF Least
  <2> QED BY <2>4, <2>6, <2>10, <2>11
<1> QED BY <1>3, <1>4
=============================================================================
