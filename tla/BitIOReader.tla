----------------------------- MODULE BitIOReader -----------------------------
(***************************************************************************)
(* One bit reader of the decoder at work while its stream is still being   *)
(* received.  The user of a reader calls readIS, then takes the bits of at *)
(* most one packet (a macroblock's DC, LP or HP part, an index table       *)
(* entry); when readIS fails it gives up, and the fail-safe decoder later  *)
(* goes back to the state it saved before it began.                        *)
(*                                                                         *)
(* pos and backupPos are not in the code: they say which byte of the       *)
(* stream the next bit is in, and are what the reader is judged against.   *)
(***************************************************************************)
EXTENDS BitIORead

CONSTANTS Chunks,        \* sizes of the chunks received
          Parts,         \* sizes of the parts decoded between two readIS calls
          Starts,        \* stream offsets readPackets attaches at
          Size,          \* bytes of the whole stream
          Upper          \* the upper limit of reads: the end of the image

ASSUME ReaderAssumption ==
  /\ Chunks \subseteq Nat \ {0}
  /\ Parts \subseteq 1 .. PK
  /\ Size \in Nat
  /\ Upper \in 1 .. Size
  /\ Starts \subseteq 0 .. Upper

VARIABLES ws,         \* the stream
          total,      \* m_totalReceived
          io,         \* the reader
          backup,     \* its entry of m_ppBitIOBackup
          pos,        \* offset of the byte of the next bit
          backupPos,  \* pos when backup was made
          phase       \* "detached", "ready" (readIS passed), "taken" (it is due), "failed"

vars == << ws, total, io, backup, pos, backupPos, phase >>

Init ==
  /\ ws = NewStream
  /\ total = 0
  /\ io = NewBitIO
  /\ backup = NewBitIO
  /\ pos = 0
  /\ backupPos = 0
  /\ phase = "detached"

Receive(n) ==
  /\ total + n <= Size
  /\ phase # "ready"           \* nothing arrives while a part is being decoded
  /\ ws' = WriteWS_List(SetPosWS_List(ws, total), [i \in 1 .. n |-> total + i - 1])
  /\ total' = total + n
  /\ UNCHANGED << io, backup, pos, backupPos, phase >>

(* readPackets: SetPos to the packet of the tile, then attach.  A failed   *)
(* SetPos or attach fails the row.                                         *)
Attach(off) ==
  /\ phase = "detached"
  /\ LET s == SetPosWS_List(ws, off)
     IN  IF SetPosErr(ws, off) # "Success"
         THEN UNCHANGED << ws, io, pos, phase >>
         ELSE /\ ws' = Advance(s, AttachTaken(s, Upper))
              /\ io' = attachISRead(io, s, Upper)
              /\ IF AttachErr(s, Upper) = "Success"
                 THEN pos' = off /\ phase' = "ready"
                 ELSE UNCHANGED << pos, phase >>
  /\ UNCHANGED << total, backup, backupPos >>

(* The call of readIS before a part: skipped once all was read.            *)
Refill ==
  /\ phase = "taken"
  /\ IF io.offRef < Upper
     THEN /\ ws' = ReadISStream(io, ws, Upper)
          /\ io' = readIS(io, ws, Upper)
          /\ phase' = IF ReadISErr(io, ws, Upper) = "Success" THEN "ready" ELSE "failed"
     ELSE /\ phase' = "ready"
          /\ UNCHANGED << ws, io >>
  /\ UNCHANGED << total, backup, pos, backupPos >>

DecodePart(n) ==
  /\ phase = "ready"
  /\ pos + n <= Upper          \* the codestream ends at its upper limit
  /\ io' = Take(io, n)
  /\ pos' = pos + n
  /\ phase' = "taken"
  /\ UNCHANGED << ws, total, backup, backupPos >>

(* Between two rows: the driver discards what the reader has passed, and   *)
(* the next row begins with SaveDecoderState.                              *)
Passed == io.offRef

NextRow(discard) ==
  /\ phase = "taken"
  /\ ws' = IF discard THEN DiscardHeadWS_List(ws, Passed) ELSE ws
  /\ backup' = io
  /\ backupPos' = pos
  /\ UNCHANGED << total, io, pos, phase >>

(* RestoreDecoderState, when the row is tried again.                       *)
Restore ==
  /\ phase = "failed"
  /\ backup.attached
  /\ io' = RestoredBitIO(io, backup)
  /\ pos' = backupPos
  /\ phase' = "taken"
  /\ UNCHANGED << ws, total, backup, backupPos >>

(* The next tile row: detach from the packet of the tile above.            *)
Detach ==
  /\ phase = "taken"
  /\ io' = detachISRead(io)
  /\ backup' = NewBitIO
  /\ phase' = "detached"
  /\ UNCHANGED << ws, total, pos, backupPos >>

Next ==
  \/ \E n \in Chunks : Receive(n)
  \/ \E off \in Starts : Attach(off)
  \/ Refill
  \/ \E n \in Parts : DecodePart(n)
  \/ \E discard \in BOOLEAN : NextRow(discard)
  \/ Restore
  \/ Detach

Spec == Init /\ [][Next]_vars

-----------------------------------------------------------------------------
(* Type correctness of the variables.                                      *)
TypeOK ==
  /\ ws \in StreamType
  /\ total \in 0 .. Size
  /\ io \in BitIOType
  /\ backup \in BitIOType
  /\ pos \in 0 .. Upper
  /\ backupPos \in 0 .. Upper
  /\ phase \in {"detached", "ready", "taken", "failed"}

(* What the reader has cached is the stream, from the next bit up to       *)
(* offRef, and readIS never replaces a byte that is still to be taken: not even after  *)
(* a failed refill was undone, when some of the row is read again.  After  *)
(* readIS it holds a whole packet, or all there is: the part decoded next  *)
(* finds every bit it may take.                                            *)
CachedIntact ==
  phase \in {"ready", "taken"} =>
    /\ io.attached
    /\ pos <= io.offRef
    /\ io.offRef <= pos + 2 * PK
    /\ \A k \in 0 .. 2 * PK - 1 :
         pos + k < io.offRef => io.ring[(io.pbCurrent + k) % (2 * PK)] = pos + k
    /\ phase = "ready" => io.offRef >= Least(pos + PK, Upper)

=============================================================================
