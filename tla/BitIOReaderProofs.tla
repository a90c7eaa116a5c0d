------------------------- MODULE BitIOReaderProofs -------------------------
(***************************************************************************)
(* Proofs about BitIOReader, for packets of every length, every stream and *)
(* every limit: what the ring holds is the stream, whatever was received,  *)
(* discarded, tried and undone before.                                     *)
(***************************************************************************)
EXTENDS BitIOReader, StreamProofs

USE PLAssumption, PKAssumption, ReaderAssumption

(* The inductive invariant.  CachedIntact is about the bytes the reader    *)
(* has; what keeps it true is where the next ones will be put (Held), and  *)
(* that the backup is as good as the reader was and can be gone back to.   *)
Reading ==
  /\ phase \in {"ready", "taken"} => Held(io, pos, Upper)
  /\ phase = "ready" => Ready(io, pos, Upper)

BackedUp ==
  backup.attached => /\ phase # "detached"
                     /\ Held(backup, backupPos, Upper)
                     /\ Untouched(io, backup)

Inv ==
  /\ TypeOK
  /\ Stored(ws, total)
  /\ Reading
  /\ BackedUp

(* A reader that was just attached has what the invariant asks for.        *)
THEOREM InvInit == Init => Inv
<1> SUFFICES ASSUME Init PROVE Inv
  OBVIOUS
<1>1. TypeOK
  <2>1. 0 \in 0 .. Size /\ 0 \in 0 .. Upper
    OBVIOUS
  <2> QED BY <2>1, NewStored, NewReader DEF Init, TypeOK
<1>2. Stored(ws, total)
  BY NewStored DEF Init
<1>3. Reading /\ BackedUp
  BY NewReader DEF Init, Reading, BackedUp
<1> QED BY <1>1, <1>2, <1>3 DEF Inv

LEMMA ReceiveStep ==
  ASSUME Inv, NEW n \in Chunks, Receive(n)
  PROVE  Inv'
<1>1. n \in Nat \ {0} /\ total \in Nat /\ total + n \in 0 .. Size
  BY DEF Inv, TypeOK, Receive
<1>2. ws' = WriteWS_List(SetPosWS_List(ws, total), Run(total, n)) /\ total' = total + n
  BY DEF Receive, Run
<1>3. Stored(ws', total')
  <2>1. Stored(ws, total) /\ n \in Nat
    BY <1>1 DEF Inv
  <2> QED BY <1>2, <2>1, ReceiveKeeps
<1>4. TypeOK'
  BY <1>1, <1>2, <1>3 DEF Inv, TypeOK, Receive, Stored
<1> QED BY <1>3, <1>4 DEF Inv, Receive, Reading, BackedUp

LEMMA AttachStep ==
  ASSUME Inv, NEW off \in Starts, Attach(off)
  PROVE  Inv'
<1>1. off \in Nat /\ off \in 0 .. Upper /\ Upper \in Nat
  OBVIOUS
<1>2. phase = "detached" /\ ~ backup.attached /\ io \in BitIOType /\ Stored(ws, total)
  BY DEF Inv, TypeOK, BackedUp, Attach
<1>3. CASE SetPosErr(ws, off) # "Success"
  <2>1. UNCHANGED vars
    BY <1>3 DEF Attach, vars
  <2> QED BY <2>1 DEF Inv, TypeOK, Reading, BackedUp, vars
<1>4. CASE SetPosErr(ws, off) = "Success"
  <2>1. PICK s : s = SetPosWS_List(ws, off)
    OBVIOUS
  <2>2. /\ ws' = Advance(s, AttachTaken(s, Upper))
        /\ io' = attachISRead(io, s, Upper)
        /\ \/ AttachErr(s, Upper) = "Success" /\ pos' = off /\ phase' = "ready"
           \/ AttachErr(s, Upper) # "Success" /\ UNCHANGED << pos, phase >>
        /\ UNCHANGED << total, backup, backupPos >>
    BY <1>4, <2>1 DEF Attach
  <2>3. /\ Stored(ws', total) /\ io' \in BitIOType
        /\ AttachErr(s, Upper) = "Success" => Held(io', off, Upper) /\ Ready(io', off, Upper)
    <3>1. PICK r, w : r = io' /\ w = ws'
      OBVIOUS
    <3>2. r = attachISRead(io, s, Upper) /\ w = Advance(s, AttachTaken(s, Upper))
      BY <2>2, <3>1
    <3>3. /\ Stored(w, total) /\ r \in BitIOType
          /\ AttachErr(s, Upper) = "Success" => Held(r, off, Upper) /\ Ready(r, off, Upper)
      BY <1>1, <1>2, <1>4, <2>1, <3>2, AttachHolds
    <3> QED BY <3>1, <3>3
  <2>4. TypeOK'
    BY <1>1, <2>2, <2>3 DEF Inv, TypeOK, Stored
  <2>5. Reading'
    BY <1>2, <2>2, <2>3 DEF Reading
  <2> QED BY <1>2, <2>2, <2>3, <2>4, <2>5 DEF Inv, BackedUp
<1> QED BY <1>3, <1>4

LEMMA RefillStep ==
  ASSUME Inv, Refill
  PROVE  Inv'
<1>1. /\ phase = "taken" /\ Held(io, pos, Upper) /\ Stored(ws, total)
      /\ pos \in Nat /\ Upper \in Nat /\ io \in BitIOType /\ io.offRef \in Nat
      /\ UNCHANGED << total, backup, pos, backupPos >>
  BY DEF Inv, TypeOK, Reading, Refill, BitIOType
<1>2. CASE io.offRef < Upper
  <2>1. /\ ws' = ReadISStream(io, ws, Upper) /\ io' = readIS(io, ws, Upper)
        /\ \/ ReadISErr(io, ws, Upper) = "Success" /\ phase' = "ready"
           \/ ReadISErr(io, ws, Upper) # "Success" /\ phase' = "failed"
    BY <1>2 DEF Refill
  <2>2. /\ Stored(ws', total) /\ io' \in BitIOType
        /\ ~ io'.failed /\ io'.offRef = io.offRef => io' = io
        /\ io.offRef <= io'.offRef
        /\ ReadISErr(io, ws, Upper) = "Success" => Held(io', pos, Upper) /\ Ready(io', pos, Upper)
    <3>1. PICK r, w : r = io' /\ w = ws'
      OBVIOUS
    <3>2. r = readIS(io, ws, Upper) /\ w = ReadISStream(io, ws, Upper)
      BY <2>1, <3>1
    <3>3. /\ Stored(w, total) /\ r \in BitIOType
          /\ ~ r.failed /\ r.offRef = io.offRef => r = io
          /\ io.offRef <= r.offRef
          /\ ReadISErr(io, ws, Upper) = "Success" => Held(r, pos, Upper) /\ Ready(r, pos, Upper)
      BY <1>1, <1>2, <3>2, ReadISHolds
    <3> QED BY <3>1, <3>3
  <2>3. TypeOK'
    BY <1>1, <2>1, <2>2 DEF Inv, TypeOK, Stored
  <2>4. Reading'
    BY <1>1, <2>1, <2>2 DEF Reading
  <2>5. BackedUp'
    <3> SUFFICES ASSUME backup.attached PROVE phase' # "detached" /\ Untouched(io', backup)
      BY <1>1 DEF Inv, BackedUp
    <3>1. Untouched(io, backup) /\ backup \in BitIOType
      BY DEF Inv, TypeOK, BackedUp
    <3> QED BY <3>1, <1>1, <2>1, <2>2, UntouchedStill
  <2> QED BY <1>1, <2>2, <2>3, <2>4, <2>5 DEF Inv
<1>3. CASE ~ (io.offRef < Upper)
  <2>1. phase' = "ready" /\ UNCHANGED << ws, io >>
    BY <1>3 DEF Refill
  <2>2. Ready(io, pos, Upper)
    BY <1>3 DEF Ready
  <2>3. TypeOK'
    BY <1>1, <2>1 DEF Inv, TypeOK
  <2> QED BY <1>1, <2>1, <2>2, <2>3 DEF Inv, Reading, BackedUp
<1> QED BY <1>2, <1>3

LEMMA DecodePartStep ==
  ASSUME Inv, NEW n \in Parts, DecodePart(n)
  PROVE  Inv'
<1>1. /\ phase = "ready" /\ Held(io, pos, Upper) /\ Ready(io, pos, Upper)
      /\ pos \in Nat /\ Upper \in Nat /\ n \in 0 .. PK /\ pos + n \in 0 .. Upper
      /\ io' = Take(io, n) /\ pos' = pos + n /\ phase' = "taken"
      /\ UNCHANGED << ws, total, backup, backupPos >>
  BY DEF Inv, TypeOK, Reading, DecodePart
<1>2. /\ Held(io', pos', Upper)
      /\ io'.ring = io.ring /\ io'.offRef = io.offRef /\ io'.failed = io.failed
  BY <1>1, TakeHolds
<1>3. TypeOK'
  BY <1>1, <1>2 DEF Inv, TypeOK, Held
<1>4. Reading'
  BY <1>1, <1>2 DEF Reading
<1>5. BackedUp'
  BY <1>1, <1>2 DEF Inv, BackedUp, Untouched
<1> QED BY <1>1, <1>3, <1>4, <1>5 DEF Inv

LEMMA NextRowStep ==
  ASSUME Inv, NEW discard \in BOOLEAN, NextRow(discard)
  PROVE  Inv'
<1>1. /\ phase = "taken" /\ Held(io, pos, Upper) /\ Stored(ws, total) /\ io.offRef \in Nat
      /\ ws' \in {ws, DiscardHeadWS_List(ws, io.offRef)}
      /\ backup' = io /\ backupPos' = pos /\ UNCHANGED << total, io, pos, phase >>
  BY DEF Inv, TypeOK, Reading, NextRow, Passed, BitIOType
<1>2. Stored(ws', total)
  BY <1>1, DiscardKeeps
<1>3. TypeOK'
  BY <1>1, <1>2 DEF Inv, TypeOK, Stored
<1>4. Untouched(io, io)
  BY <1>1 DEF Untouched
<1> QED BY <1>1, <1>2, <1>3, <1>4 DEF Inv, Reading, BackedUp

(* Going back gives the reader of the backup, and so all that it held.     *)
LEMMA RestoreStep ==
  ASSUME Inv, Restore
  PROVE  Inv'
<1>1. io' = backup
  <2>1. backup \in BitIOType /\ Untouched(io, backup) /\ io' = RestoredBitIO(io, backup)
    BY DEF Inv, TypeOK, BackedUp, Restore
  <2> QED BY <2>1, RestoreBack
<1>2. /\ pos' = backupPos /\ phase' = "taken" /\ Held(backup, backupPos, Upper)
      /\ UNCHANGED << ws, total, backup, backupPos >>
  BY DEF Inv, BackedUp, Restore
<1>3. TypeOK'
  BY <1>1, <1>2 DEF Inv, TypeOK
<1>4. Untouched(backup, backup)
  <2>1. backup.offRef \in Nat
    BY DEF Inv, TypeOK, BitIOType
  <2> QED BY <2>1 DEF Untouched
<1> QED BY <1>1, <1>2, <1>3, <1>4 DEF Inv, Reading, BackedUp

LEMMA DetachStep ==
  ASSUME Inv, Detach
  PROVE  Inv'
<1>1. /\ io' = detachISRead(io) /\ backup' = NewBitIO /\ phase' = "detached"
      /\ UNCHANGED << ws, total, pos, backupPos >> /\ io \in BitIOType
  BY DEF Inv, TypeOK, Detach
<1>2. io' \in BitIOType
  BY <1>1, DetachedType
<1> QED BY <1>1, <1>2, NewReader DEF Inv, TypeOK, Reading, BackedUp

(* Every call on the reader or the stream keeps it.                        *)
THEOREM InvStep == Inv /\ [Next]_vars => Inv'
<1> SUFFICES ASSUME Inv, [Next]_vars PROVE Inv'
  OBVIOUS
<1>1. CASE UNCHANGED vars
  BY <1>1 DEF Inv, TypeOK, Reading, BackedUp, vars
<1>2. ASSUME NEW n \in Chunks, Receive(n) PROVE Inv'
  BY <1>2, ReceiveStep
<1>3. ASSUME NEW off \in Starts, Attach(off) PROVE Inv'
  BY <1>3, AttachStep
<1>4. ASSUME NEW n \in Parts, DecodePart(n) PROVE Inv'
  BY <1>4, DecodePartStep
<1>5. ASSUME NEW discard \in BOOLEAN, NextRow(discard) PROVE Inv'
  BY <1>5, NextRowStep
<1> QED BY <1>1, <1>2, <1>3, <1>4, <1>5, RefillStep, RestoreStep, DetachStep DEF Next

(* So it holds however the reader is used.                                 *)
THEOREM InvHolds == Spec => []Inv
  BY InvInit, InvStep, PTL DEF Spec

-----------------------------------------------------------------------------
(* The variables keep their types.                                         *)
THEOREM TypeCorrect == Spec => []TypeOK
<1>1. Inv => TypeOK
  BY DEF Inv
<1> QED BY <1>1, InvHolds, PTL

(* A part is decoded from the bits of the stream at the reader's place:    *)
(* no refill replaced one still to be taken, and none is missing.          *)
THEOREM ReaderIntact == Spec => []CachedIntact
<1>1. Inv => CachedIntact
  <2> SUFFICES ASSUME Inv, phase \in {"ready", "taken"}
               PROVE  /\ io.attached
                      /\ pos <= io.offRef
                      /\ io.offRef <= pos + 2 * PK
                      /\ \A k \in 0 .. 2 * PK - 1 :
                           pos + k < io.offRef => io.ring[(io.pbCurrent + k) % (2 * PK)] = pos + k
                      /\ phase = "ready" => io.offRef >= Least(pos + PK, Upper)
    BY DEF CachedIntact
  <2>1. Held(io, pos, Upper) /\ pos \in 0 .. Upper /\ io.offRef \in Nat /\ Upper \in Nat
    BY DEF Inv, TypeOK, Reading, BitIOType
  <2>2. io.attached /\ pos <= io.offRef /\ io.offRef <= pos + 2 * PK
    BY <2>1 DEF Held
  <2>3. \A k \in 0 .. 2 * PK - 1 :
          pos + k < io.offRef => io.ring[(io.pbCurrent + k) % (2 * PK)] = pos + k
    BY <2>1, Zenon DEF Held, RingAt
  <2>4. phase = "ready" => io.offRef >= Least(pos + PK, Upper)
    BY <2>1 DEF Inv, Reading, Ready, Least
  <2> QED BY <2>2, <2>3, <2>4
<1> QED BY <1>1, InvHolds, PTL

=============================================================================
