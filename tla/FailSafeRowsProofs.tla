------------------------- MODULE FailSafeRowsProofs -------------------------
(***************************************************************************)
(* Proofs about FailSafeRows, for images and chunks of every size: a row   *)
(* that is tried again starts from the bits, the coding context and the    *)
(* pixels the first try started from, however often it is tried; nothing   *)
(* it needs was discarded; and every row comes out.                        *)
(***************************************************************************)
EXTENDS FailSafeRows, StreamProofs, FiniteSetTheorems, WellFoundedInduction

USE PLAssumption, PKAssumption

(* The inductive invariant.  Control is what the driver's variables have   *)
(* to do with each other; Reading and Kept are the reader and its copy in  *)
(* the saved state; Pixels is how far the transform has come in the row    *)
(* above.  A row that Enters a tile row attaches anew: nothing is asked of *)
(* the reader before it.                                                   *)
Enters(row) == row = img.tiles[TileRowAt(row) + 1].top

Types ==
  /\ img \in Images
  /\ TypeOK
  /\ pos \in Nat
  /\ at \in [row : Nat, col : Nat, plane : Nat, part : Nat]
  /\ saved.io \in BitIOType /\ saved.pos \in Nat

Control ==
  /\ (mbRow = 0 /\ line = 0) \/ mbRow = line + 1
  /\ again => at = Idle
  /\ phase = "header" => at = Idle /\ ~ again /\ mbRow = 0
  /\ phase \in {"header", "rows"} => limit = 0

InRow ==
  at # Idle =>
    /\ busy
    /\ line < img.rows
    /\ at.row = mbRow \/ (mbRow = 0 /\ at.row = 1)
    /\ 1 <= at.plane /\ at.plane <= img.planes
    /\ at.plane > 1 \/ at.col > 0 => at.part >= 1
    /\ lastMB = IF at.col <= img.cols THEN at.col + 1 ELSE 0

Reading ==
  /\ at # Idle /\ at.row < img.rows /\ (at.part = 0 => ~ Enters(at.row)) =>
       Held(io, pos, UpperLimit)
  /\ at = Idle /\ ~ again /\ mbRow < img.rows /\ ~ Enters(mbRow) =>
       Held(io, pos, UpperLimit)

Kept ==
  again \/ at # Idle =>
    /\ saved.row = mbRow
    /\ mbRow < img.rows /\ ~ Enters(mbRow) =>
         Held(saved.io, saved.pos, UpperLimit) /\ Untouched(io, saved.io)

Passes(c) ==
  IF at.row = 0 THEN 0
  ELSE IF c < at.col - 1 THEN 2 ELSE IF c = at.col - 1 THEN 1 ELSE 0

Pixels ==
  /\ at = Idle /\ ~ again => above = Unmoved
  /\ again \/ at # Idle => saved.above = Unmoved
  /\ at = Idle /\ again =>
       above = [p \in Planes |-> [c \in Columns |->
                  IF c \in RestoredColumns THEN above[p][c] ELSE 0]]
  /\ at # Idle => above = [p \in Planes |-> [c \in Columns |-> Passes(c)]]

Inv ==
  /\ Types
  /\ Control
  /\ InRow
  /\ Stored(ws, total)
  /\ Reading
  /\ Kept
  /\ BitsIntact
  /\ img.planes = 1 => Pixels

-----------------------------------------------------------------------------
(* What is known of the image and of the variables' types.                 *)
LEMMA ImageFacts ==
  ASSUME Types
  PROVE  /\ img.offset \in Nat /\ img.header \in Nat /\ img.tag \in Nat /\ img.size \in Nat
         /\ img.rows \in Nat \ {0} /\ img.cols \in Nat \ {0} /\ img.planes \in Nat \ {0}
         /\ img.parts \in [1 .. img.rows -> [1 .. img.cols -> Seq(1 .. PK)]]
         /\ Len(img.tiles) \in Nat \ {0} /\ img.tiles[1].top = 0
         /\ \A t \in 1 .. Len(img.tiles) : img.tiles[t].top \in Nat /\ img.tiles[t].offset \in Nat
         /\ UpperLimit \in Nat /\ HeaderSize \in Nat
<1>1. ImageType(img)
  BY ImagesAssumption DEF Types
<1>2. /\ img.offset \in Nat /\ img.header \in Nat /\ img.tag \in Nat /\ img.size \in Nat
      /\ img.rows \in Nat \ {0} /\ img.cols \in Nat \ {0} /\ img.planes \in Nat \ {0}
  BY <1>1 DEF ImageType
<1>3. /\ Len(img.tiles) \in Nat \ {0} /\ img.tiles[1].top = 0
      /\ \A t \in 1 .. Len(img.tiles) : img.tiles[t] \in [top : Nat, offset : Nat]
  <2>1. PICK ts \in Seq([top : Nat, offset : Nat]) :
          ts = img.tiles /\ ts # << >> /\ ts[1].top = 0
    BY <1>1 DEF ImageType
  <2>2. Len(ts) \in Nat \ {0} /\ \A t \in 1 .. Len(ts) : ts[t] \in [top : Nat, offset : Nat]
    <3>1. Len(ts) \in Nat \ {0}
      BY <2>1, EmptySeq, Zenon
    <3>2. \A t \in 1 .. Len(ts) : ts[t] \in [top : Nat, offset : Nat]
      BY ElementOfSeq, Zenon
    <3> QED BY <3>1, <3>2
  <2> QED BY <2>1, <2>2
<1>4. UpperLimit \in Nat /\ HeaderSize \in Nat
  <2>1. limit \in Nat
    BY <1>2 DEF Types, TypeOK
  <2> QED BY <2>1, <1>2 DEF UpperLimit, HeaderSize, Least
<1>5. img.parts \in [1 .. img.rows -> [1 .. img.cols -> Seq(1 .. PK)]]
  BY <1>1 DEF ImageType
<1> QED BY <1>2, <1>3, <1>4, <1>5

LEMMA TypeFacts ==
  ASSUME Types
  PROVE  /\ total \in Nat /\ limit \in Nat /\ line \in Nat /\ mbRow \in Nat
         /\ tileRow \in Nat /\ lastMB \in Nat /\ pos \in Nat
         /\ at.row \in Nat /\ at.col \in Nat /\ at.plane \in Nat /\ at.part \in Nat
         /\ again \in BOOLEAN /\ busy \in BOOLEAN
         /\ io \in BitIOType /\ io.offRef \in Nat
         /\ Idle \in [row : Nat, col : Nat, plane : Nat, part : Nat] /\ Idle.plane = 0
         /\ Idle.row = 0 /\ Idle.col = 0 /\ Idle.part = 0
  BY ImageFacts DEF Types, TypeOK, Idle, BitIOType

(* getTilePos stays among the tile rows, and row 0 enters the first one.   *)
LEMMA TileRowAtIn ==
  ASSUME Types
  PROVE  /\ \A row \in Nat : TileRowAt(row) \in 0 .. Len(img.tiles) - 1
         /\ Enters(0)
<1>1. tileRow \in 0 .. Len(img.tiles) - 1 /\ Len(img.tiles) \in Nat \ {0} /\ img.tiles[1].top = 0
  BY ImageFacts DEF Types, TypeOK
<1> QED BY <1>1 DEF TileRowAt, Enters

(* A set of natural numbers has a least element: of the intervals 0 .. k,  *)
(* k in the set, below one of its elements one is smallest.                *)
LEMMA LeastNat ==
  ASSUME NEW S \in SUBSET Nat, S # {}
  PROVE  \E x \in S : \A y \in S : x <= y
<1>1. PICK n \in S : TRUE
  OBVIOUS
<1> DEFINE F == 0 .. n
           R == StrictSubsetOrdering(F)
           T == {0 .. k : k \in S \cap F}
<1>2. IsFiniteSet(F)
  BY <1>1, FS_Interval
<1>3. IsWellFoundedOn(R, SUBSET F)
  <2> HIDE DEF F
  <2> QED BY <1>2, FS_FiniteSubsetsOfFinite, FS_StrictSubsetOrderingWellFounded
<1>4. T \subseteq SUBSET F /\ T # {}
  BY <1>1
<1> HIDE DEF R
<1>5. PICK t \in T : \A u \in T : ~ (<< u, t >> \in R)
  BY <1>3, <1>4, WFMin
<1>6. PICK x \in S \cap F : t = 0 .. x
  BY <1>5
<1>7. ASSUME NEW y \in S PROVE x <= y
  <2> SUFFICES ASSUME y < x PROVE FALSE
    BY <1>6
  <2>1. (0 .. y) \in T
    BY <1>6, <1>1
  <2>2. x \in 0 .. x /\ x \notin 0 .. y
    BY <1>6
  <2>3. << 0 .. y, t >> \in R
    BY <1>4, <1>5, <1>6, <2>1, <2>2 DEF R, StrictSubsetOrdering
  <2> QED BY <1>5, <2>1, <2>3
<1> QED BY <1>6, <1>7

(* The tile row of a macroblock row is the last that begins at or above it.*)
LEMMA TileRowOfIs ==
  ASSUME Types, NEW row \in Nat
  PROVE  TileRowOf(row) \in 1 .. Len(img.tiles) /\ img.tiles[TileRowOf(row)].top <= row
<1>1. /\ Len(img.tiles) \in Nat \ {0} /\ img.tiles[1].top = 0
      /\ \A t \in 1 .. Len(img.tiles) : img.tiles[t].top \in Nat
  BY ImageFacts
<1> DEFINE n == Len(img.tiles)
           S == {t \in 1 .. n : img.tiles[t].top <= row}
           D == {n - t : t \in S}
<1>2. n \in Nat \ {0} /\ 1 \in S
  BY <1>1
<1>3. D \in SUBSET Nat /\ D # {}
  <2>1. \A x \in S : n - x \in Nat
    BY <1>2
  <2>2. n - 1 \in D
    BY <1>2
  <2> QED BY <2>1, <2>2
<1>4. PICK d \in D : \A e \in D : d <= e
  BY <1>3, LeastNat
<1>5. PICK x \in S : d = n - x
  BY <1>4
<1>6. \A y \in S : x >= y
  <2> SUFFICES ASSUME NEW y \in S PROVE x >= y
    OBVIOUS
  <2>1. d <= n - y
    BY <1>4
  <2> QED BY <2>1, <1>2, <1>5
<1>7. Max(S) \in S
  <2> HIDE DEF S
  <2> QED BY <1>6 DEF Max
<1>8. TileRowOf(row) = Max(S)
  BY DEF TileRowOf
<1> QED BY <1>7, <1>8

(* The limit of a discard is a number of bytes.                            *)
LEMMA DiscardLimitNat ==
  ASSUME Types, Stored(ws, total), NEW row \in Nat
  PROVE  DiscardLimit(row) \in Nat
<1>1. /\ Len(img.tiles) \in Nat \ {0} /\ img.tiles[1].top = 0
      /\ \A t \in 1 .. Len(img.tiles) : img.tiles[t].top \in Nat /\ img.tiles[t].offset \in Nat
      /\ HeaderSize \in Nat /\ img.offset + img.tag \in Nat
  BY ImageFacts
<1>2. GetPosWS_List(ws) \in Nat
  BY GetPosNat
<1>3. TileRowOf(row) \in 1 .. Len(img.tiles)
  BY TileRowOfIs
<1>4. NextLowerLimit(row) \in Nat
  <2> DEFINE S == {img.offset + img.tag} \cup
                  {HeaderSize + img.tiles[t].offset : t \in TileRowOf(row) + 1 .. Len(img.tiles)}
  <2>1. S \in SUBSET Nat /\ S # {}
    BY <1>1, <1>3
  <2>2. NextLowerLimit(row) = Min(S)
    BY DEF NextLowerLimit
  <2> HIDE DEF S
  <2>3. Min(S) \in S
    BY <2>1, LeastNat DEF Min
  <2> QED BY <2>1, <2>2, <2>3
<1> QED BY <1>2, <1>4 DEF DiscardLimit, Least

(* The invariant holds at first, and every action keeps it.                *)
THEOREM InvInit == Init => Inv
<1> SUFFICES ASSUME Init PROVE Inv
  OBVIOUS
<1> USE DEF Init
<1>1. ImageType(img) /\ img \in Images
  BY ImagesAssumption
<1>2. Idle \in [row : Nat, col : Nat, plane : Nat, part : Nat] /\ Idle.row = 0 /\ Idle.col = 0
      /\ at = Idle
  BY DEF Idle
<1>3. TypeOK
  <2>1. Len(img.tiles) \in Nat \ {0}
    BY <1>1 DEF ImageType
  <2>2. 0 \in 0 .. img.size /\ 0 \in 0 .. img.rows /\ 0 \in 0 .. img.rows + 1
        /\ 0 \in 0 .. img.cols + 1
    BY <1>1 DEF ImageType
  <2>3. 0 \in 0 .. Len(img.tiles) - 1
    BY <2>1
  <2> QED BY <2>2, <2>3, <1>2, NewStored, NewReader DEF TypeOK
<1>4. Types
  BY <1>1, <1>2, <1>3, NewReader DEF Types
<1>5. Control /\ InRow /\ Kept
  BY <1>2 DEF Control, InRow, Kept
<1>6. Reading
  BY <1>2, <1>4, TileRowAtIn DEF Reading
<1>7. BitsIntact
  BY <1>2 DEF BitsIntact
<1>8. Pixels
  BY <1>2 DEF Pixels
<1> QED BY <1>4, <1>5, <1>6, <1>7, <1>8, NewStored DEF Inv

-----------------------------------------------------------------------------
(* The inductive step, action by action.                                   *)
LEMMA ReceiveStep ==
  ASSUME Inv, NEW n \in Chunks, Receive(n)
  PROVE  Inv'
<1> DEFINE m == Least(n, img.size - total)
<1>1. /\ m \in Nat /\ total + m \in 0 .. img.size /\ total \in Nat
  <2>1. n \in Nat /\ total \in Nat /\ img.size \in Nat /\ total < img.size
    BY ImageFacts, TypeFacts, ImagesAssumption DEF Inv, Receive
  <2> QED BY <2>1 DEF Least
<1>2. /\ ws' = WriteWS_List(SetPosWS_List(ws, total), Run(total, m)) /\ total' = total + m
      /\ busy' = TRUE /\ ~ busy
      /\ UNCHANGED << img, limit, io, pos, ctx, above, saved, again, lastMB,
                      tileRow, mbRow, at, line, taken, err, phase >>
  BY DEF Receive, Run
<1> HIDE DEF m
<1>3. Stored(ws', total')
  <2>1. Stored(ws, total)
    BY DEF Inv
  <2> QED BY <1>1, <1>2, <2>1, ReceiveKeeps
<1>4. Types'
  BY <1>1, <1>2, <1>3, TypeFacts DEF Inv, Types, TypeOK, Stored
<1>5. at = Idle
  BY <1>2 DEF Inv, InRow
<1>6. Control' /\ InRow'
  BY <1>2, <1>5 DEF Inv, Control, InRow, Idle
<1>7. Reading' /\ Kept' /\ BitsIntact'
  BY <1>2 DEF Inv, Reading, Kept, Enters, TileRowAt, UpperLimit, BitsIntact, Idle
<1>8. img'.planes = 1 => Pixels'
  BY <1>2 DEF Inv, Pixels, Passes, Unmoved, Planes, Columns, RestoredColumns, Idle
<1> QED BY <1>3, <1>4, <1>6, <1>7, <1>8 DEF Inv

(* Only the reader and the stream change, and no row has been begun.       *)
LEMMA StartStep ==
  ASSUME Inv, Start
  PROVE  Inv'
<1> DEFINE s == SetPosWS_List(ws, img.offset)
           h == Advance(s, img.header)
           after == IF ~ HeaderThere(s) THEN s ELSE Advance(h, AttachTaken(h, UpperLimit))
<1>1. /\ phase = "header" /\ busy
      /\ HeaderThere(s) => ~ HeaderHangs(h)
      /\ ws' \in {after, DiscardHeadWS_List(after, img.offset)}
      /\ io' = io \/ (HeaderThere(s) /\ io' = attachISRead(io, h, UpperLimit))
      /\ phase' \in {"header", "rows"} /\ busy' \in BOOLEAN
      /\ UNCHANGED << img, total, limit, pos, ctx, above, saved, again, lastMB,
                      tileRow, mbRow, at, line, taken, err >>
  BY TypeFacts DEF Inv, Start
<1>2. /\ Stored(ws, total) /\ Types /\ io \in BitIOType
      /\ img.offset \in Nat /\ img.header \in Nat /\ UpperLimit \in Nat
  BY ImageFacts, TypeFacts DEF Inv
<1>3. Stored(s, total)
  BY <1>2, SeekKeeps
<1>4. ASSUME HeaderThere(s) PROVE Stored(ws', total) /\ io' \in BitIOType
  <2>1. img.header > 0 => s.cbBuf > 0 /\ CurrPos(s) + img.header <= s.cbBuf
    <3>1. CurrPos(s) \in Int /\ s.cbBuf \in Nat
      BY <1>3, CurrPosInt DEF Stored, StreamType
    <3>2. ReadErr(s, img.header) = "Success"
      BY <1>4 DEF HeaderThere
    <3> HIDE DEF s
    <3> QED BY <3>1, <3>2, <1>2 DEF ReadErr
  <2> HIDE DEF s
  <2>2. Stored(h, total)
    BY <1>2, <1>3, <2>1, CopyKeeps
  <2>3. GetPosWS_List(h) < UpperLimit => ~ Read1Wraps(h, AttachSize(h, UpperLimit))
    BY <1>1, <1>4 DEF HeaderHangs
  <2> HIDE DEF h
  <2>4. Stored(Advance(h, AttachTaken(h, UpperLimit)), total)
        /\ attachISRead(io, h, UpperLimit) \in BitIOType
    BY <1>2, <2>2, <2>3, AttachKeeps
  <2>5. Stored(after, total)
    BY <1>4, <2>4
  <2> HIDE DEF after
  <2> QED BY <1>1, <1>2, <2>4, <2>5, DiscardKeeps
<1>5. ASSUME ~ HeaderThere(s) PROVE Stored(ws', total) /\ io' \in BitIOType
  <2>1. after = s
    BY <1>5
  <2> HIDE DEF after, s, h
  <2> QED BY <1>1, <1>2, <1>3, <1>5, <2>1, DiscardKeeps
<1>6. Stored(ws', total') /\ io' \in BitIOType
  BY <1>1, <1>4, <1>5, Zenon
<1> HIDE DEF after, s, h
<1>7. Types'
  BY <1>1, <1>2, <1>6, TypeFacts DEF Types, TypeOK, Stored
<1>8. at = Idle /\ ~ again /\ mbRow = 0
  BY <1>1 DEF Inv, Control
<1>9. Control' /\ InRow'
  BY <1>1, <1>8 DEF Inv, Control, InRow, Idle
<1>10. Reading' /\ Kept'
  <2>1. Enters(0)
    BY <1>2, TileRowAtIn
  <2>2. Enters(mbRow)'
    BY <2>1, <1>1, <1>8 DEF Enters, TileRowAt
  <2> QED BY <2>2, <1>1, <1>8 DEF Reading, Kept, Idle
<1>11. BitsIntact'
  BY <1>1, <1>8 DEF BitsIntact, Idle
<1>12. img'.planes = 1 => Pixels'
  BY <1>1, <1>8 DEF Inv, Pixels, Unmoved, Planes, Columns, Idle
<1> QED BY <1>6, <1>7, <1>9, <1>10, <1>11, <1>12 DEF Inv

(* The row begins: with what the last row left, which is saved, or with    *)
(* what was saved before the try that failed.                              *)
LEMMA DecodeNextMBRowStep ==
  ASSUME Inv, DecodeNextMBRow
  PROVE  Inv'
<1>1. /\ busy /\ phase \in {"rows", "ending"} /\ at = Idle /\ line < img.rows
      /\ at' = [row |-> mbRow, col |-> 0, plane |-> 1, part |-> 0] /\ lastMB' = 1
      /\ UNCHANGED << img, ws, total, limit, tileRow, mbRow, line, taken, err, phase, busy >>
  BY DEF DecodeNextMBRow
<1>2. \/ /\ again /\ io' = RestoredBitIO(io, saved.io) /\ pos' = saved.pos
         /\ above' = RestoredAbove /\ again' = FALSE /\ saved' = saved
      \/ /\ ~ again
         /\ saved' = [io |-> io, pos |-> pos, ctx |-> ctx, above |-> above, row |-> mbRow]
         /\ UNCHANGED << io, pos, above, again >>
  BY DEF DecodeNextMBRow
<1>3. /\ at' # Idle' /\ at'.row = mbRow /\ at'.col = 0 /\ at'.plane = 1 /\ at'.part = 0
      /\ at' \in [row : Nat, col : Nat, plane : Nat, part : Nat]
  BY <1>1, TypeFacts DEF Inv, Idle
<1>4. Types /\ UpperLimit' = UpperLimit /\ Enters(mbRow)' = Enters(mbRow)
      /\ Stored(ws', total') /\ UpperLimit \in Nat
  BY <1>1, ImageFacts DEF Inv, UpperLimit, Enters, TileRowAt
<1>5. io' \in BitIOType /\ pos' \in Nat /\ saved'.io \in BitIOType /\ saved'.pos \in Nat
      /\ ~ again' /\ again' \in BOOLEAN
  <2>1. /\ io' \in BitIOType /\ pos' \in Nat /\ saved'.io \in BitIOType /\ saved'.pos \in Nat
        /\ ~ again'
    BY <1>2, <1>4, TypeFacts DEF Types, RestoredBitIO, BitIOType
  <2>2. again' \in BOOLEAN
    <3>1. again \in BOOLEAN /\ (again' = FALSE \/ again' = again)
      BY <1>2, <1>4, TypeFacts
    <3> QED BY <3>1
  <2> QED BY <2>1, <2>2
<1>6. mbRow <= img.rows
  <2>1. line \in Nat /\ mbRow \in Nat /\ img.rows \in Nat
    BY <1>4, ImageFacts, TypeFacts
  <2>2. (mbRow = 0 /\ line = 0) \/ mbRow = line + 1
    BY DEF Inv, Control
  <2> QED BY <2>1, <2>2, <1>1
<1>7. Types'
  <2>1. 1 \in 0 .. img.cols + 1 /\ 0 \in 0 .. img.cols + 1 /\ mbRow \in 0 .. img.rows
    <3>1. img.cols \in Nat /\ img.rows \in Nat /\ mbRow \in Nat
      BY <1>4, ImageFacts, TypeFacts
    <3> QED BY <3>1, <1>6
  <2>2. again' \in BOOLEAN /\ busy \in BOOLEAN
    BY <1>4, <1>5, TypeFacts
  <2>3. TypeOK'
    BY <1>1, <1>3, <1>4, <1>5, <2>1, <2>2 DEF Types, TypeOK
  <2> QED BY <1>1, <1>3, <1>4, <1>5, <2>3 DEF Types
<1>8. Control' /\ InRow'
  BY <1>1, <1>3, <1>5, <1>4, ImageFacts DEF Inv, Control, InRow
<1>9. mbRow < img.rows /\ ~ Enters(mbRow) =>
        /\ Held(io', pos', UpperLimit)
        /\ Held(saved'.io, saved'.pos, UpperLimit) /\ Untouched(io', saved'.io)
  <2> SUFFICES ASSUME mbRow < img.rows, ~ Enters(mbRow)
               PROVE  /\ Held(io', pos', UpperLimit)
                      /\ Held(saved'.io, saved'.pos, UpperLimit) /\ Untouched(io', saved'.io)
    OBVIOUS
  <2>1. CASE again
    <3>1. /\ Held(saved.io, saved.pos, UpperLimit) /\ Untouched(io, saved.io)
          /\ saved.io \in BitIOType /\ saved.io.offRef \in Nat
      BY <2>1 DEF Inv, Kept, Types, BitIOType
    <3>2. io' = saved.io /\ pos' = saved.pos /\ saved' = saved
      BY <2>1, <3>1, <1>2, RestoreBack
    <3>3. Untouched(saved.io, saved.io)
      BY <3>1 DEF Untouched
    <3> QED BY <3>1, <3>2, <3>3
  <2>2. CASE ~ again
    <3>1. Held(io, pos, UpperLimit) /\ io.offRef \in Nat
      BY <2>2, <1>1, <1>4, TypeFacts DEF Inv, Reading
    <3>2. Untouched(io, io)
      BY <3>1 DEF Untouched
    <3> QED BY <2>2, <3>1, <3>2, <1>2
  <2> QED BY <2>1, <2>2
<1>10. Reading'
  BY <1>1, <1>3, <1>4, <1>9 DEF Reading
<1>11. Kept'
  <2>1. saved'.row = mbRow
    BY <1>2 DEF Inv, Kept
  <2> QED BY <2>1, <1>1, <1>4, <1>9 DEF Kept
<1>12. BitsIntact'
  BY <1>3 DEF BitsIntact
<1>13. ASSUME img'.planes = 1 PROVE Pixels'
  <2>1. Pixels /\ Unmoved' = Unmoved /\ Planes' = Planes /\ Columns' = Columns
    BY <1>1, <1>13 DEF Inv, Unmoved, Planes, Columns
  <2>2. above' = Unmoved /\ saved'.above = Unmoved
    <3>1. CASE again
      <4>1. above' = RestoredAbove /\ saved' = saved /\ saved.above = Unmoved
        BY <3>1, <2>1, <1>2 DEF Pixels
      <4>2. \A p \in Planes : \A c \in Columns :
              (IF c \in RestoredColumns THEN saved.above[p][c] ELSE above[p][c]) = 0
        <5>1. above = [p \in Planes |-> [c \in Columns |->
                         IF c \in RestoredColumns THEN above[p][c] ELSE 0]]
          BY <3>1, <2>1, <1>1 DEF Pixels
        <5>2. \A p \in Planes : \A c \in Columns : c \notin RestoredColumns => above[p][c] = 0
          BY <5>1
        <5>3. \A p \in Planes : \A c \in Columns : saved.above[p][c] = 0
          BY <4>1 DEF Unmoved
        <5> QED BY <5>2, <5>3
      <4> QED BY <4>1, <4>2 DEF RestoredAbove, Unmoved
    <3>2. CASE ~ again
      BY <3>2, <2>1, <1>1, <1>2 DEF Pixels
    <3> QED BY <3>1, <3>2
  <2>3. \A c \in Columns : Passes(c)' = 0
    <3> SUFFICES ASSUME NEW c \in Columns PROVE Passes(c)' = 0
      OBVIOUS
    <3>1. c \in Nat
      BY ImageFacts, <1>4 DEF Columns
    <3> QED BY <3>1, <1>3 DEF Passes
  <2>4. [p \in Planes' |-> [c \in Columns' |-> Passes(c)']] = Unmoved
    BY <2>1, <2>3 DEF Unmoved
  <2> QED BY <2>1, <2>2, <2>4, <1>3, <1>5 DEF Pixels
<1> QED BY <1>4, <1>7, <1>8, <1>10, <1>11, <1>12, <1>13 DEF Inv

(* getTilePos moves on when the row enters, and then the row that was      *)
(* saved enters too, or is row 0, which always does.                       *)
LEMMA EnterKeeps ==
  ASSUME Inv, at # Idle, at.row < img.rows, tileRow' = TileRowAt(at.row),
         UNCHANGED << img, mbRow >>
  PROVE  /\ Enters(at.row) => Enters(mbRow)'
         /\ ~ Enters(mbRow)' => ~ Enters(mbRow)
<1>1. /\ Len(img.tiles) \in Nat \ {0} /\ img.tiles[1].top = 0
      /\ tileRow \in 0 .. Len(img.tiles) - 1 /\ at.row \in Nat
      /\ at.row = mbRow \/ mbRow = 0
  BY ImageFacts, TypeFacts DEF Inv, Types, TypeOK, InRow
<1>2. CASE mbRow = 0
  <2>1. Enters(mbRow)'
    BY <1>1, <1>2 DEF Enters, TileRowAt
  <2> QED BY <2>1
<1>3. CASE mbRow = at.row /\ mbRow # 0
  <2>1. Enters(mbRow) => Enters(mbRow)'
    BY <1>1, <1>3 DEF Enters, TileRowAt
  <2> QED BY <2>1, <1>3
<1> QED BY <1>1, <1>2, <1>3

(* A row that fails leaves the columns restored, and all others untouched. *)
LEMMA FailPixels ==
  ASSUME Types, InRow, Pixels, at # Idle, at.col < img.cols
  PROVE  above = [p \in Planes |-> [c \in Columns |->
                    IF c \in RestoredColumns THEN above[p][c] ELSE 0]]
<1>1. at.col \in Nat /\ img.cols \in Nat /\ lastMB = at.col + 1
  <2>1. at.col \in Nat /\ img.cols \in Nat
    BY ImageFacts, TypeFacts
  <2> QED BY <2>1 DEF InRow
<1>2. above = [p \in Planes |-> [c \in Columns |-> Passes(c)]]
  BY DEF Pixels
<1>3. \A c \in Columns : c \notin RestoredColumns => Passes(c) = 0
  BY <1>1 DEF Columns, RestoredColumns, Passes
<1>4. \A p \in Planes : \A c \in Columns :
        Passes(c) = IF c \in RestoredColumns THEN above[p][c] ELSE 0
  BY <1>2, <1>3
<1> QED BY <1>2, <1>4

(* Entering a tile row.  Nothing is asked of the reader before, and after  *)
(* it is at the packet of the tile; or the row fails.                      *)
LEMMA EnterRowStep ==
  ASSUME Inv, EnterRow
  PROVE  Inv'
<1> DEFINE start == HeaderSize + img.tiles[TileRowAt(at.row) + 1].offset
           free == IF TileRowAt(at.row) > 0 \/ Len(img.tiles) = 1 THEN detachISRead(io) ELSE io
           s == SetPosWS_List(ws, start)
<1>1. /\ at # Idle /\ at.part = 0 /\ at.row < img.rows /\ tileRow' = TileRowAt(at.row)
      /\ UNCHANGED << img, total, limit, above, saved, lastMB, mbRow, line, taken, phase >>
  BY DEF EnterRow
<1>2. \/ /\ ~ Enters(at.row) /\ at' = [at EXCEPT !.part = 1]
         /\ UNCHANGED << ws, io, pos, again, busy >>
      \/ /\ Enters(at.row)
         /\ \/ SetPosErr(ws, start) # "Success" /\ io' = free /\ ws' = ws
            \/ /\ SetPosErr(ws, start) = "Success"
               /\ io' = attachISRead(free, s, UpperLimit)
               /\ ws' = Advance(s, AttachTaken(s, UpperLimit))
         /\ \/ again' = TRUE /\ at' = Idle /\ busy' = FALSE /\ pos' = pos
            \/ /\ SetPosErr(ws, start) = "Success" /\ AttachErr(s, UpperLimit) = "Success"
               /\ pos' = start /\ at' = [at EXCEPT !.part = 1] /\ UNCHANGED << again, busy >>
  BY <1>1 DEF EnterRow, Enters, Fail
<1>3. /\ Types /\ Stored(ws, total) /\ UpperLimit \in Nat /\ UpperLimit' = UpperLimit
      /\ TileRowAt(at.row) \in 0 .. Len(img.tiles) - 1
      /\ ~ again /\ busy
  BY <1>1, ImageFacts, TypeFacts, TileRowAtIn DEF Inv, UpperLimit, Control, InRow
<1>4. start \in Nat /\ free \in BitIOType
  <2>1. Len(img.tiles) \in Nat /\ TileRowAt(at.row) + 1 \in 1 .. Len(img.tiles)
    BY <1>3, ImageFacts
  <2>2. img.tiles[TileRowAt(at.row) + 1].offset \in Nat /\ HeaderSize \in Nat
    BY <2>1, <1>3, ImageFacts
  <2>3. io \in BitIOType /\ detachISRead(io) \in BitIOType
    BY <1>3, TypeFacts, DetachedType
  <2> QED BY <2>2, <2>3
<1> HIDE DEF start, free
<1>5. /\ Stored(ws', total') /\ io' \in BitIOType
      /\ Enters(at.row) /\ at' # Idle' => Held(io', pos', UpperLimit)
  <2>1. CASE ~ Enters(at.row)
    BY <2>1, <1>1, <1>2, <1>3, TypeFacts
  <2>2. CASE Enters(at.row) /\ SetPosErr(ws, start) # "Success"
    <3>1. io' = free /\ ws' = ws /\ at' = Idle
      BY <2>2, <1>2
    <3> QED BY <3>1, <1>1, <1>3, <1>4 DEF Idle
  <2>3. CASE Enters(at.row) /\ SetPosErr(ws, start) = "Success"
    <3>1. /\ io' = attachISRead(free, s, UpperLimit)
          /\ ws' = Advance(s, AttachTaken(s, UpperLimit))
      BY <2>3, <1>2
    <3> HIDE DEF s
    <3>2. s = SetPosWS_List(ws, start)
      BY DEF s
    <3>3. /\ Stored(ws', total) /\ io' \in BitIOType
          /\ AttachErr(s, UpperLimit) = "Success" => Held(io', start, UpperLimit)
      BY <2>3, <3>1, <3>2, <1>3, <1>4, AttachHolds
    <3>4. at' # Idle' => AttachErr(s, UpperLimit) = "Success" /\ pos' = start
      BY <2>3, <1>2 DEF Idle
    <3> QED BY <3>3, <3>4, <1>1
  <2> QED BY <2>1, <2>2, <2>3
<1>6. \/ at' = Idle /\ again' = TRUE /\ busy' = FALSE /\ Enters(at.row)
      \/ at' = [at EXCEPT !.part = 1] /\ again' = again /\ busy' = busy
  BY <1>2
<1>7. \/ at' = Idle /\ again' = TRUE
      \/ /\ at'.row = at.row /\ at'.col = at.col /\ at'.plane = at.plane /\ at'.part = 1
         /\ at' # Idle /\ again' = again /\ busy' = busy
  <2>1. CASE at' = [at EXCEPT !.part = 1] /\ again' = again /\ busy' = busy
    <3>1. /\ at'.row = at.row /\ at'.col = at.col /\ at'.plane = at.plane /\ at'.part = 1
          /\ at' # Idle
      BY <2>1, <1>3 DEF Types, Idle
    <3> QED BY <2>1, <3>1, Zenon
  <2> QED BY <2>1, <1>6, Zenon
<1>8. pos' \in Nat /\ at' \in [row : Nat, col : Nat, plane : Nat, part : Nat]
      /\ at'.row \in 0 .. img.rows /\ at'.col \in 0 .. img.cols + 1
      /\ again' \in BOOLEAN /\ busy' \in BOOLEAN
  <2>1. pos' \in Nat
    BY <1>2, <1>3, <1>4, TypeFacts
  <2>2. again' \in BOOLEAN /\ busy' \in BOOLEAN
    BY <1>6, <1>3, TypeFacts
  <2>3. at' \in [row : Nat, col : Nat, plane : Nat, part : Nat]
    <3>1. /\ at \in [row : Nat, col : Nat, plane : Nat, part : Nat]
          /\ Idle \in [row : Nat, col : Nat, plane : Nat, part : Nat]
      BY <1>3, TypeFacts DEF Types
    <3>2. at' = Idle \/ at' = [at EXCEPT !.part = 1]
      BY <1>6
    <3> QED BY <3>1, <3>2
  <2>4. at'.row \in 0 .. img.rows /\ at'.col \in 0 .. img.cols + 1
    <3>1. /\ at.row \in 0 .. img.rows /\ at.col \in 0 .. img.cols + 1
          /\ 0 \in 0 .. img.rows /\ 0 \in 0 .. img.cols + 1
      <4>1. img.rows \in Nat /\ img.cols \in Nat
        BY <1>3, ImageFacts
      <4> QED BY <4>1, <1>3, SMTT(30) DEF Types, TypeOK
    <3>2. Idle.row = 0 /\ Idle.col = 0
      BY DEF Idle
    <3> QED BY <3>1, <3>2, <1>7
  <2> QED BY <2>1, <2>2, <2>3, <2>4
<1>9. Types'
  BY <1>1, <1>3, <1>5, <1>8 DEF Types, TypeOK, Stored
<1>10. Control' /\ InRow'
  <2>1. phase # "header"
    BY <1>1 DEF Inv, Control
  <2>2. again' => at' = Idle'
    <3>1. Idle' = Idle
      BY DEF Idle
    <3> QED BY <3>1, <1>3, <1>6
  <2>3. Control'
    BY <2>1, <2>2, <1>1 DEF Inv, Control
  <2>4. InRow'
    <3> SUFFICES ASSUME at' # Idle PROVE InRow'
      BY DEF InRow, Idle
    <3>1. busy' = busy /\ at'.row = at.row /\ at'.col = at.col /\ at'.plane = at.plane
          /\ at'.part = 1
      BY <1>6, <1>7
    <3> QED BY <3>1, <1>1, <1>3 DEF Inv, InRow
  <2> QED BY <2>3, <2>4
<1>11. Reading'
  <2>1. ~ Enters(at.row) => Held(io', pos', UpperLimit)
    BY <1>1, <1>2 DEF Inv, Reading
  <2>2. Idle' = Idle
    BY DEF Idle
  <2>3. at' # Idle => Held(io', pos', UpperLimit)
    BY <2>1, <2>2, <1>5, <1>6
  <2>4. at' = Idle => again'
    BY <1>7
  <2> QED BY <2>2, <2>3, <2>4, <1>3 DEF Reading
<1>12. Kept'
  <2>1. Enters(at.row) => Enters(mbRow)'
    BY <1>1, EnterKeeps
  <2>2. ~ Enters(mbRow)' => ~ Enters(mbRow)
    BY <1>1, EnterKeeps
  <2>3. saved'.row = mbRow'
    BY <1>1 DEF Inv, Kept
  <2>4. mbRow' < img'.rows /\ ~ Enters(mbRow)' =>
          Held(saved'.io, saved'.pos, UpperLimit') /\ Untouched(io', saved'.io)
    <3> SUFFICES ASSUME mbRow < img.rows, ~ Enters(mbRow)'
                 PROVE  Held(saved.io, saved.pos, UpperLimit) /\ Untouched(io', saved.io)
      BY <1>1, <1>3
    <3>1. ~ Enters(mbRow) /\ io' = io
      BY <2>1, <2>2, <1>2
    <3> QED BY <3>1, <1>1 DEF Inv, Kept
  <2> QED BY <2>3, <2>4 DEF Kept
<1>13. BitsIntact'
  <2>1. ~ (at' # Idle' /\ at'.part > 1)
    BY <1>7 DEF Idle
  <2> QED BY <2>1 DEF BitsIntact
<1>14. ASSUME img'.planes = 1 PROVE Pixels'
  <2>1. Pixels /\ InRow /\ Unmoved' = Unmoved /\ Planes' = Planes /\ Columns' = Columns
    BY <1>1, <1>14 DEF Inv, Unmoved, Planes, Columns
  <2>2. CASE at' = Idle
    <3>1. at.col < img.cols
      BY <1>1, <1>3, ImageFacts, TypeFacts, SMTT(30) DEF Inv, InRow
    <3>2. above = [p \in Planes |-> [c \in Columns |->
                    IF c \in RestoredColumns THEN above[p][c] ELSE 0]]
      BY <3>1, <2>1, <1>1, <1>3, FailPixels
    <3>3. RestoredColumns' = RestoredColumns
      BY <1>1 DEF RestoredColumns
    <3>4. above' = [p \in Planes' |-> [c \in Columns' |->
                    IF c \in RestoredColumns' THEN above'[p][c] ELSE 0]]
      BY <3>2, <3>3, <2>1, <1>1
    <3>5. at' = Idle' /\ again' = TRUE
      BY <2>2, <1>6, <1>7 DEF Idle
    <3> QED BY <3>4, <3>5, <2>1, <1>1 DEF Pixels
  <2>3. CASE at' # Idle
    <3>1. \A c \in Columns : Passes(c)' = Passes(c)
      BY <2>3, <1>7 DEF Passes
    <3>2. above' = [p \in Planes' |-> [c \in Columns' |-> Passes(c)']]
      BY <3>1, <2>1, <1>1 DEF Pixels
    <3>3. at' # Idle' /\ ~ again'
      <4>1. Idle' = Idle
        BY DEF Idle
      <4>2. again' = again
        BY <2>3, <1>7, Zenon
      <4> QED BY <4>1, <4>2, <2>3, <1>3, Zenon
    <3> QED BY <3>2, <3>3, <2>1, <1>1 DEF Pixels
  <2> QED BY <2>2, <2>3
<1> QED BY <1>5, <1>9, <1>10, <1>11, <1>12, <1>13, <1>14 DEF Inv

(* A part of a macroblock.  The refill, if there is one, leaves a reader   *)
(* that is ready or one that can be gone back from.                        *)
LEMMA DecodePartStep ==
  ASSUME Inv, DecodePart
  PROVE  Inv'
<1>1. /\ at # Idle /\ at.row < img.rows /\ at.col < img.cols /\ at.part >= 1
      /\ at.part <= Len(Parts)
      /\ UNCHANGED << img, total, limit, above, saved, lastMB, tileRow, mbRow, line, phase >>
  BY DEF DecodePart, InPlane
<1>2. /\ Types /\ Stored(ws, total) /\ UpperLimit \in Nat /\ UpperLimit' = UpperLimit
      /\ pos \in Nat /\ io \in BitIOType /\ io.offRef \in Nat /\ total \in Nat
      /\ Held(io, pos, UpperLimit) /\ ~ again /\ busy /\ Idle' = Idle
  BY <1>1, ImageFacts, TypeFacts DEF Inv, UpperLimit, Control, InRow, Reading, Idle
<1>3. PICK n \in 1 .. PK : n = Parts[at.part]
  <2>1. /\ at.row + 1 \in 1 .. img.rows /\ at.col + 1 \in 1 .. img.cols
        /\ img.parts \in [1 .. img.rows -> [1 .. img.cols -> Seq(1 .. PK)]]
    <3>1. /\ at.row \in Nat /\ at.col \in Nat /\ img.rows \in Nat /\ img.cols \in Nat
          /\ img.parts \in [1 .. img.rows -> [1 .. img.cols -> Seq(1 .. PK)]]
      BY <1>2, ImageFacts, TypeFacts
    <3> QED BY <3>1, <1>1
  <2>2. PICK ps \in Seq(1 .. PK) : ps = Parts
    BY <2>1 DEF Parts
  <2>3. at.part \in 1 .. Len(ps)
    BY <1>1, <1>2, <2>2, TypeFacts
  <2>4. ps[at.part] \in 1 .. PK
    BY <2>3, ElementOfSeq, Zenon
  <2> QED BY <2>2, <2>4
<1>4. PICK r, e :
        /\ r = IF io.offRef < UpperLimit THEN readIS(io, ws, UpperLimit) ELSE io
        /\ e = IF io.offRef < UpperLimit THEN ReadISErr(io, ws, UpperLimit) ELSE "Success"
  OBVIOUS
<1>5. /\ ws' = IF io.offRef < UpperLimit THEN ReadISStream(io, ws, UpperLimit) ELSE ws
      /\ \/ /\ again' = TRUE /\ at' = Idle /\ busy' = FALSE
            /\ io' = r /\ UNCHANGED << pos, ctx, taken >>
         \/ /\ e = "Success" /\ io' = Take(r, n) /\ taken' = Taken(r, n) /\ pos' = pos + n
            /\ at' = [at EXCEPT !.part = @ + 1] /\ UNCHANGED << again, busy >>
  <2>1. \/ e # "Success" /\ Fail /\ io' = r /\ UNCHANGED << pos, ctx, taken >>
        \/ /\ e = "Success" /\ io' = Take(r, n) /\ taken' = Taken(r, n) /\ pos' = pos + n
           /\ at' = [at EXCEPT !.part = @ + 1] /\ UNCHANGED << again, busy >>
    BY <1>3, <1>4 DEF DecodePart
  <2>2. ws' = IF io.offRef < UpperLimit THEN ReadISStream(io, ws, UpperLimit) ELSE ws
    BY DEF DecodePart
  <2> QED BY <2>1, <2>2, Zenon DEF Fail
<1>6. /\ Stored(ws', total) /\ r \in BitIOType /\ io.offRef <= r.offRef
      /\ ~ r.failed /\ r.offRef = io.offRef => r = io
      /\ e = "Success" => Held(r, pos, UpperLimit) /\ Ready(r, pos, UpperLimit)
  <2>1. CASE io.offRef < UpperLimit
    <3>1. PICK w : w = ReadISStream(io, ws, UpperLimit)
      OBVIOUS
    <3>2. r = readIS(io, ws, UpperLimit) /\ e = ReadISErr(io, ws, UpperLimit) /\ ws' = w
      BY <2>1, <3>1, <1>4, <1>5
    <3>3. /\ Stored(w, total) /\ r \in BitIOType /\ io.offRef <= r.offRef
          /\ ~ r.failed /\ r.offRef = io.offRef => r = io
          /\ ReadISErr(io, ws, UpperLimit) = "Success" =>
               Held(r, pos, UpperLimit) /\ Ready(r, pos, UpperLimit)
      BY <2>1, <3>1, <3>2, <1>2, ReadISHolds
    <3> QED BY <3>2, <3>3
  <2>2. CASE ~ (io.offRef < UpperLimit)
    <3>1. r = io /\ ws' = ws
      BY <2>2, <1>4, <1>5
    <3>2. Ready(io, pos, UpperLimit)
      BY <2>2 DEF Ready
    <3> QED BY <3>1, <3>2, <1>2
  <2> QED BY <2>1, <2>2
<1>7. mbRow < img.rows /\ ~ Enters(mbRow) => Untouched(r, saved.io)
  <2> SUFFICES ASSUME mbRow < img.rows, ~ Enters(mbRow) PROVE Untouched(r, saved.io)
    OBVIOUS
  <2>1. Untouched(io, saved.io) /\ saved.io \in BitIOType
    BY <1>1, <1>2 DEF Inv, Kept, Types
  <2> QED BY <2>1, <1>2, <1>6, UntouchedStill
<1>8. Enters(mbRow)' = Enters(mbRow) /\ saved'.row = mbRow'
  BY <1>1 DEF Enters, TileRowAt, Inv, Kept
<1>9. CASE again' = TRUE /\ at' = Idle /\ busy' = FALSE /\ io' = r /\ UNCHANGED << pos, taken >>
  <2>1. Types'
    <3>1. at' \in [row : Nat, col : Nat, plane : Nat, part : Nat]
          /\ at'.row \in 0 .. img.rows /\ at'.col \in 0 .. img.cols + 1
      <4>1. img.rows \in Nat /\ img.cols \in Nat
            /\ Idle \in [row : Nat, col : Nat, plane : Nat, part : Nat]
            /\ Idle.row = 0 /\ Idle.col = 0
        BY <1>2, ImageFacts, TypeFacts
      <4> QED BY <4>1, <1>9
    <3> QED BY <3>1, <1>1, <1>2, <1>6, <1>9 DEF Types, TypeOK, Stored
  <2>2. phase # "header"
    BY <1>1 DEF Inv, Control
  <2>3. Control' /\ InRow'
    BY <2>2, <1>1, <1>2, <1>9 DEF Inv, Control, InRow
  <2>4. Reading' /\ BitsIntact'
    BY <1>2, <1>9 DEF Reading, BitsIntact
  <2>5. Kept'
    <3>1. mbRow' < img'.rows /\ ~ Enters(mbRow)' =>
            Held(saved'.io, saved'.pos, UpperLimit') /\ Untouched(io', saved'.io)
      BY <1>1, <1>2, <1>7, <1>8, <1>9 DEF Inv, Kept
    <3> QED BY <3>1, <1>8 DEF Kept
  <2>6. ASSUME img'.planes = 1 PROVE Pixels'
    <3>1. Pixels /\ InRow /\ Unmoved' = Unmoved /\ Planes' = Planes /\ Columns' = Columns
          /\ RestoredColumns' = RestoredColumns
      BY <1>1, <2>6 DEF Inv, Unmoved, Planes, Columns, RestoredColumns
    <3>2. above = [p \in Planes |-> [c \in Columns |->
                    IF c \in RestoredColumns THEN above[p][c] ELSE 0]]
      BY <3>1, <1>1, <1>2, FailPixels
    <3>3. above' = [p \in Planes' |-> [c \in Columns' |->
                    IF c \in RestoredColumns' THEN above'[p][c] ELSE 0]]
      BY <3>1, <3>2, <1>1
    <3> QED BY <3>1, <3>3, <1>1, <1>2, <1>9 DEF Pixels
  <2> QED BY <2>1, <2>3, <2>4, <2>5, <2>6, <1>1, <1>6 DEF Inv
<1>10. CASE /\ e = "Success" /\ io' = Take(r, n) /\ taken' = Taken(r, n) /\ pos' = pos + n
            /\ at' = [at EXCEPT !.part = @ + 1] /\ UNCHANGED << again, busy >>
  <2>1. /\ Held(Take(r, n), pos + n, UpperLimit)
        /\ Take(r, n).ring = r.ring /\ Take(r, n).offRef = r.offRef
        /\ Take(r, n).failed = r.failed
        /\ Len(Taken(r, n)) = n
        /\ \A k \in 1 .. n : pos + k - 1 < r.offRef => Taken(r, n)[k] = pos + k - 1
    <3>1. n \in 0 .. PK
      OBVIOUS
    <3> QED BY <3>1, <1>2, <1>6, <1>10, TakeHolds
  <2>2. /\ at'.row = at.row /\ at'.col = at.col /\ at'.plane = at.plane
        /\ at'.part = at.part + 1 /\ at'.part \in Nat /\ at' # Idle
        /\ at' \in [row : Nat, col : Nat, plane : Nat, part : Nat]
    <3>1. at \in [row : Nat, col : Nat, plane : Nat, part : Nat] /\ at.part + 1 \in Nat
          /\ at.part + 1 # 0
      BY <1>2, TypeFacts DEF Types
    <3> QED BY <3>1, <1>10 DEF Idle
  <2>3. Types'
    <3>1. io' \in BitIOType /\ pos' \in Nat
      BY <1>2, <1>10, <2>1 DEF Held
    <3> QED BY <3>1, <2>2, <1>1, <1>2, <1>6, <1>10 DEF Types, TypeOK, Stored
  <2>4. Control'
    BY <1>1, <1>2, <1>10, <2>2 DEF Inv, Control
  <2>5. InRow'
    <3>1. at'.part >= 1
      BY <1>1, <1>2, <2>2, TypeFacts, SMTT(30)
    <3> QED BY <3>1, <1>1, <1>2, <1>10, <2>2 DEF Inv, InRow
  <2>6. Reading'
    BY <1>2, <1>10, <2>1, <2>2 DEF Reading
  <2>7. Kept'
    <3>1. mbRow < img.rows /\ ~ Enters(mbRow) => Untouched(io', saved.io)
      BY <1>7, <1>10, <2>1 DEF Untouched
    <3>2. mbRow' < img'.rows /\ ~ Enters(mbRow)' =>
            Held(saved'.io, saved'.pos, UpperLimit') /\ Untouched(io', saved'.io)
      BY <3>1, <1>1, <1>2, <1>8 DEF Inv, Kept
    <3> QED BY <3>2, <1>8 DEF Kept
  <2>8. BitsIntact'
    <3> SUFFICES ASSUME NEW k \in 1 .. n, NEW off, off = pos + n - n + k - 1, off < UpperLimit
                 PROVE  Taken(r, n)[k] = off
      <4>1. Len(taken') = n /\ taken' = Taken(r, n) /\ pos' = pos + n
        BY <1>10, <2>1
      <4> QED BY <4>1, <1>2 DEF BitsIntact
    <3>1. off = pos + k - 1
      BY <1>2
    <3>2. off < r.offRef
      <4>1. r.offRef \in Nat
        BY <1>6 DEF BitIOType
      <4>2. r.offRef < UpperLimit => pos + PK < r.offRef
        BY <1>6, <1>10 DEF Ready
      <4> QED BY <4>1, <4>2, <3>1, <1>2
    <3> QED BY <3>1, <3>2, <2>1
  <2>9. ASSUME img'.planes = 1 PROVE Pixels'
    <3>1. Pixels /\ Unmoved' = Unmoved /\ Planes' = Planes /\ Columns' = Columns
      BY <1>1, <2>9 DEF Inv, Unmoved, Planes, Columns
    <3>2. \A c \in Columns : Passes(c)' = Passes(c)
      BY <2>2 DEF Passes
    <3>3. above' = [p \in Planes' |-> [c \in Columns' |-> Passes(c)']]
      BY <3>1, <3>2, <1>1 DEF Pixels
    <3>4. at' # Idle' /\ ~ again'
      <4>1. again' = again
        BY <1>10
      <4> QED BY <4>1, <2>2, <1>2, Zenon
    <3> QED BY <3>1, <3>3, <3>4, <1>1 DEF Pixels
  <2> QED BY <2>3, <2>4, <2>5, <2>6, <2>7, <2>8, <2>9, <1>1, <1>6 DEF Inv
<1> QED BY <1>5, <1>9, <1>10, Zenon

(* The transform of a macroblock, and the next one.                        *)
LEMMA TransformStep ==
  ASSUME Inv, Transform
  PROVE  Inv'
<1>1. /\ at # Idle /\ at.col <= img.cols
      /\ at.row = img.rows \/ at.col = img.cols \/ at.part > Len(Parts)
      /\ above' = IF at.row = 0 THEN above
                  ELSE [above EXCEPT ![at.plane] =
                          [c \in Columns |-> IF c \in {at.col - 1, at.col} THEN @[c] + 1 ELSE @[c]]]
      /\ \/ /\ at.plane < img.planes
            /\ at' = [at EXCEPT !.plane = @ + 1, !.part = 1] /\ lastMB' = lastMB
         \/ /\ ~ (at.plane < img.planes)
            /\ at' = [at EXCEPT !.col = @ + 1, !.plane = 1, !.part = 1]
            /\ lastMB' = IF at.col < img.cols THEN lastMB + 1 ELSE 0
      /\ UNCHANGED << img, ws, total, limit, io, pos, ctx, saved, again, tileRow, mbRow,
                      line, taken, err, phase, busy >>
  BY DEF Transform
<1>2. /\ Types /\ UpperLimit' = UpperLimit /\ ~ again /\ busy /\ Idle' = Idle
      /\ Enters(mbRow)' = Enters(mbRow)
  BY <1>1, TypeFacts DEF Inv, UpperLimit, Control, InRow, Idle, Enters, TileRowAt
<1>3. /\ at.row \in Nat /\ at.col \in Nat /\ at.plane \in Nat /\ at.part \in Nat
      /\ img.cols \in Nat \ {0} /\ img.rows \in Nat \ {0} /\ img.planes \in Nat \ {0}
      /\ at \in [row : Nat, col : Nat, plane : Nat, part : Nat]
      /\ at.row \in 0 .. img.rows
  BY <1>2, ImageFacts, TypeFacts DEF Types, TypeOK
<1>4. /\ at'.row = at.row /\ at'.part = 1 /\ at' # Idle
      /\ at' \in [row : Nat, col : Nat, plane : Nat, part : Nat]
      /\ \/ at'.col = at.col /\ at'.plane = at.plane + 1 /\ at.plane < img.planes /\ lastMB' = lastMB
         \/ /\ at'.col = at.col + 1 /\ at'.plane = 1 /\ ~ (at.plane < img.planes)
            /\ lastMB' = IF at.col < img.cols THEN lastMB + 1 ELSE 0
  <2>1. CASE /\ at.plane < img.planes
             /\ at' = [at EXCEPT !.plane = @ + 1, !.part = 1] /\ lastMB' = lastMB
    <3>1. at.plane + 1 \in Nat /\ 1 \in Nat /\ 1 # 0
      BY <1>3
    <3>2. /\ at'.row = at.row /\ at'.part = 1 /\ at'.col = at.col /\ at'.plane = at.plane + 1
          /\ at' \in [row : Nat, col : Nat, plane : Nat, part : Nat]
      BY <2>1, <3>1, <1>3
    <3>3. at' # Idle
      BY <3>1, <3>2 DEF Idle
    <3> QED BY <2>1, <3>2, <3>3, Zenon
  <2>2. CASE /\ ~ (at.plane < img.planes)
             /\ at' = [at EXCEPT !.col = @ + 1, !.plane = 1, !.part = 1]
             /\ lastMB' = IF at.col < img.cols THEN lastMB + 1 ELSE 0
    <3>1. at.col + 1 \in Nat /\ 1 \in Nat /\ 1 # 0
      BY <1>3
    <3>2. /\ at'.row = at.row /\ at'.part = 1 /\ at'.col = at.col + 1 /\ at'.plane = 1
          /\ at' \in [row : Nat, col : Nat, plane : Nat, part : Nat]
      BY <2>2, <3>1, <1>3
    <3>3. at' # Idle
      BY <3>1, <3>2 DEF Idle
    <3> QED BY <2>2, <3>2, <3>3, Zenon
  <2> QED BY <1>1, <2>1, <2>2
<1>5. /\ line < img.rows /\ (at.row = mbRow \/ (mbRow = 0 /\ at.row = 1))
      /\ 1 <= at.plane /\ at.plane <= img.planes
      /\ lastMB = at.col + 1 /\ (at.col > 0 => at.part >= 1)
  BY <1>1 DEF Inv, InRow
<1>6. lastMB' = (IF at'.col <= img.cols THEN at'.col + 1 ELSE 0) /\ at'.col \in 0 .. img.cols + 1
      /\ 1 <= at'.plane /\ at'.plane <= img.planes
  BY <1>1, <1>3, <1>4, <1>5, SMTT(30)
<1>7. Types'
  <2>1. lastMB' \in 0 .. img.cols + 1
    BY <1>3, <1>6
  <2> QED BY <2>1, <1>1, <1>2, <1>3, <1>4, <1>6 DEF Types, TypeOK
<1>8. Control' /\ InRow'
  <2>1. Control'
    BY <1>1, <1>2 DEF Inv, Control
  <2>2. InRow'
    BY <1>1, <1>2, <1>4, <1>5, <1>6 DEF InRow
  <2> QED BY <2>1, <2>2
<1>9. at.row < img.rows => at.part >= 1
  <2> SUFFICES ASSUME at.row < img.rows PROVE at.part >= 1
    OBVIOUS
  <2>1. CASE at.col = img.cols
    BY <2>1, <1>3, <1>5
  <2>2. CASE at.col # img.cols /\ at.part > Len(Parts)
    <3>1. /\ at.row + 1 \in 1 .. img.rows /\ at.col + 1 \in 1 .. img.cols
      BY <2>2, <1>1, <1>3, SMTT(30)
    <3>2. PICK ps \in Seq(1 .. PK) : ps = Parts
      BY <3>1, <1>2, ImageFacts DEF Parts
    <3>3. Len(ps) \in Nat
      OBVIOUS
    <3> QED BY <2>2, <3>2, <3>3, <1>3
  <2> QED BY <2>1, <2>2, <1>1, <1>3
<1>10. Reading'
  <2>1. at.row < img.rows => Held(io, pos, UpperLimit)
    BY <1>1, <1>3, <1>9 DEF Inv, Reading
  <2> QED BY <2>1, <1>1, <1>2, <1>4 DEF Reading
<1>11. Kept' /\ BitsIntact'
  <2>1. Kept'
    BY <1>1, <1>2 DEF Inv, Kept
  <2>2. BitsIntact'
    BY <1>4 DEF BitsIntact
  <2> QED BY <2>1, <2>2
<1>12. ASSUME img'.planes = 1 PROVE Pixels'
  <2>1. Pixels /\ Unmoved' = Unmoved /\ Planes' = Planes /\ Columns' = Columns /\ Planes = {1}
    BY <1>1, <1>12 DEF Inv, Unmoved, Planes, Columns
  <2>2. at.plane = 1 /\ at'.col = at.col + 1
    BY <1>1, <1>3, <1>4, <1>5, <1>12
  <2>3. above = [p \in Planes |-> [c \in Columns |-> Passes(c)]]
    BY <2>1, <1>1 DEF Pixels
  <2>4. above' = [p \in Planes |-> [c \in Columns |-> Passes(c)']]
    <3>1. CASE at.row = 0
      <4>1. above' = above /\ \A c \in Columns : Passes(c) = 0 /\ Passes(c)' = 0
        BY <3>1, <1>1, <1>4 DEF Passes
      <4> QED BY <4>1, <2>3
    <3>2. CASE at.row # 0
      <4>1. above' = [above EXCEPT ![1] =
                        [c \in Columns |-> IF c \in {at.col - 1, at.col} THEN above[1][c] + 1
                                           ELSE above[1][c]]]
        BY <3>2, <2>2, <1>1
      <4>2. \A c \in Columns :
              (IF c \in {at.col - 1, at.col} THEN above[1][c] + 1 ELSE above[1][c]) = Passes(c)'
        <5> SUFFICES ASSUME NEW c \in Columns
                     PROVE  (IF c \in {at.col - 1, at.col} THEN above[1][c] + 1 ELSE above[1][c])
                              = Passes(c)'
          OBVIOUS
        <5>1. above[1][c] = IF c < at.col - 1 THEN 2 ELSE IF c = at.col - 1 THEN 1 ELSE 0
          BY <2>1, <2>3, <3>2 DEF Passes
        <5>2. Passes(c)' = IF c < (at.col + 1) - 1 THEN 2
                           ELSE IF c = (at.col + 1) - 1 THEN 1 ELSE 0
          BY <2>2, <3>2, <1>4 DEF Passes
        <5>3. c \in Int
          BY <1>3 DEF Columns
        <5> QED BY <5>1, <5>2, <5>3, <1>3
      <4>3. above' = [above EXCEPT ![1] = [c \in Columns |-> Passes(c)']]
        BY <4>1, <4>2
      <4> QED BY <4>3, <2>1, <2>3
    <3> QED BY <3>1, <3>2
  <2>5. at' # Idle' /\ ~ again'
    BY <1>1, <1>2, <1>4
  <2> QED BY <2>1, <2>4, <2>5, <1>1 DEF Pixels
<1> QED BY <1>1, <1>7, <1>8, <1>10, <1>11, <1>12 DEF Inv

LEMMA EndRowStep ==
  ASSUME Inv, EndRow
  PROVE  Inv'
<1>1. /\ at # Idle /\ at.col = img.cols + 1 /\ above' = Unmoved
      /\ UNCHANGED << img, total, limit, io, pos, ctx, saved, again, tileRow,
                      taken, err, phase, busy >>
  BY DEF EndRow
<1>2. /\ Types /\ Stored(ws, total) /\ UpperLimit' = UpperLimit /\ ~ again /\ busy /\ Idle' = Idle
  BY <1>1, TypeFacts DEF Inv, UpperLimit, Control, InRow, Idle
<1>3. /\ at.row \in Nat /\ at.col \in Nat /\ at.plane \in Nat /\ at.part \in Nat
      /\ img.cols \in Nat \ {0} /\ img.rows \in Nat \ {0} /\ img.planes \in Nat \ {0}
      /\ at.row \in 0 .. img.rows /\ mbRow \in Nat /\ line \in Nat
      /\ Idle \in [row : Nat, col : Nat, plane : Nat, part : Nat]
      /\ Idle.row = 0 /\ Idle.col = 0
  BY <1>2, ImageFacts, TypeFacts DEF Types, TypeOK
<1>4. /\ line < img.rows /\ (at.row = mbRow \/ (mbRow = 0 /\ at.row = 1))
      /\ at.part >= 1
  BY <1>1, <1>3 DEF Inv, InRow
<1>5. at.row < img.rows => Held(io, pos, UpperLimit)
  BY <1>1, <1>3, <1>4 DEF Inv, Reading
<1>6. img.planes = 1 => Unmoved' = Unmoved /\ Planes' = Planes /\ Columns' = Columns
  BY <1>1 DEF Unmoved, Planes, Columns
<1>7. CASE at.row = 0
  <2>1. /\ at' = [row |-> 1, col |-> 0, plane |-> 1, part |-> 0] /\ lastMB' = 1
        /\ UNCHANGED << mbRow, line, ws >> /\ mbRow = 0
    BY <1>4, <1>7 DEF EndRow
  <2>2. /\ at'.row = 1 /\ at'.col = 0 /\ at'.plane = 1 /\ at'.part = 0 /\ at' # Idle
        /\ at' \in [row : Nat, col : Nat, plane : Nat, part : Nat]
    BY <2>1 DEF Idle
  <2>3. Types'
    <3>1. 1 \in 0 .. img.rows /\ 0 \in 0 .. img.cols + 1 /\ 1 \in 0 .. img.cols + 1
      BY <1>3
    <3> QED BY <2>1, <2>2, <3>1, <1>1, <1>2 DEF Types, TypeOK
  <2>4. Control' /\ InRow'
    <3>1. Control'
      BY <2>1, <1>1, <1>2 DEF Inv, Control
    <3>2. InRow'
      BY <2>1, <2>2, <1>1, <1>2, <1>3, <1>4 DEF InRow
    <3> QED BY <3>1, <3>2
  <2>5. Reading' /\ BitsIntact'
    <3>1. Reading'
      BY <2>1, <2>2, <1>1, <1>2, <1>3, <1>5, <1>7 DEF Reading
    <3>2. BitsIntact'
      BY <2>2 DEF BitsIntact
    <3> QED BY <3>1, <3>2
  <2>6. Kept'
    <3>1. Enters(mbRow)' = Enters(mbRow)
      BY <2>1, <1>1 DEF Enters, TileRowAt
    <3> QED BY <3>1, <2>1, <1>1, <1>2 DEF Inv, Kept
  <2>7. ASSUME img'.planes = 1 PROVE Pixels'
    <3>1. \A c \in Columns : Passes(c)' = 0
      <4> SUFFICES ASSUME NEW c \in Columns PROVE Passes(c)' = 0
        OBVIOUS
      <4>1. c \in Nat
        BY <1>3 DEF Columns
      <4> QED BY <4>1, <2>2 DEF Passes
    <3>2. above' = [p \in Planes' |-> [c \in Columns' |-> Passes(c)']]
      BY <3>1, <1>1, <1>6, <2>7 DEF Unmoved
    <3>3. at' # Idle' /\ ~ again' /\ saved'.above = Unmoved'
      BY <2>2, <2>7, <1>1, <1>2, <1>6 DEF Inv, Pixels
    <3> QED BY <3>2, <3>3 DEF Pixels
  <2> QED BY <2>1, <2>3, <2>4, <2>5, <2>6, <2>7, <1>1, <1>2 DEF Inv
<1>8. CASE at.row # 0
  <2>1. /\ at' = Idle /\ mbRow' = at.row + 1 /\ line' = line + 1 /\ lastMB' = lastMB
        /\ ws' = DiscardHeadWS_List(ws, DiscardLimit(mbRow))
    BY <1>8 DEF EndRow
  <2>2. Stored(ws', total')
    <3>1. DiscardLimit(mbRow) \in Nat
      BY <1>2, <1>3, DiscardLimitNat
    <3> QED BY <3>1, <2>1, <1>1, <1>2, DiscardKeeps
  <2>3. mbRow' = line' + 1 /\ line' \in 0 .. img.rows /\ mbRow' \in 0 .. img.rows + 1
    <3>1. (mbRow = 0 /\ line = 0) \/ mbRow = line + 1
      BY DEF Inv, Control
    <3> QED BY <3>1, <2>1, <1>3, <1>4, <1>8
  <2>4. Types'
    <3>1. 0 \in 0 .. img.rows /\ 0 \in 0 .. img.cols + 1
      BY <1>3
    <3> QED BY <2>1, <2>2, <2>3, <3>1, <1>1, <1>2, <1>3 DEF Types, TypeOK, Stored
  <2>5. Control' /\ InRow'
    <3>1. phase # "header"
      BY <1>1 DEF Inv, Control
    <3> QED BY <3>1, <2>1, <2>3, <1>1, <1>2 DEF Inv, Control, InRow
  <2>6. Reading'
    <3>1. mbRow' < img.rows => at.row < img.rows
      BY <2>1, <1>3
    <3> QED BY <3>1, <2>1, <1>1, <1>2, <1>5 DEF Reading
  <2>7. Kept' /\ BitsIntact'
    BY <2>1, <1>1, <1>2 DEF Kept, BitsIntact
  <2>8. img'.planes = 1 => Pixels'
    BY <2>1, <1>1, <1>2, <1>6 DEF Pixels
  <2> QED BY <2>2, <2>4, <2>5, <2>6, <2>7, <2>8 DEF Inv
<1> QED BY <1>7, <1>8

LEMMA LowerLimit ==
  ASSUME Types, Control, FixSizeTag
  PROVE  UpperLimit \in Nat /\ UpperLimit' \in Nat /\ UpperLimit' <= UpperLimit
<1>1. phase = "rows" /\ limit' = total /\ UNCHANGED img /\ limit = 0
  BY DEF FixSizeTag, TagTooLarge, FixedLimit, Control
<1>2. img.offset \in Nat /\ img.tag \in Nat /\ total \in Nat
  BY ImageFacts, TypeFacts
<1>3. UpperLimit = img.offset + img.tag
  BY <1>1 DEF UpperLimit
<1>4. UpperLimit' = IF total # 0 THEN Least(img.offset + img.tag, total) ELSE img.offset + img.tag
  BY <1>1 DEF UpperLimit
<1> QED BY <1>2, <1>3, <1>4 DEF Least

(* The size tag is put right: less of the stream is asked for from now on. *)
LEMMA FixSizeTagStep ==
  ASSUME Inv, FixSizeTag
  PROVE  Inv'
<1>1. /\ ~ busy /\ phase = "rows" /\ total < img.offset + img.tag
      /\ limit' = total /\ phase' = "ending" /\ busy' = TRUE
      /\ UNCHANGED << img, ws, total, io, pos, ctx, above, saved, again, lastMB,
                      tileRow, mbRow, at, line, taken, err >>
  BY DEF FixSizeTag, TagTooLarge, FixedLimit
<1>2. /\ Types /\ at = Idle /\ Idle' = Idle /\ limit = 0 /\ pos \in Nat
      /\ Enters(mbRow)' = Enters(mbRow)
  BY <1>1, TypeFacts DEF Inv, InRow, Control, Idle, Enters, TileRowAt
<1>3. UpperLimit \in Nat /\ UpperLimit' \in Nat /\ UpperLimit' <= UpperLimit
  BY LowerLimit DEF Inv
<1>4. Types'
  BY <1>1, <1>2 DEF Types, TypeOK
<1>5. Control' /\ InRow'
  BY <1>1, <1>2 DEF Inv, Control, InRow
<1>6. Reading'
  <2>1. ~ again /\ mbRow < img.rows /\ ~ Enters(mbRow) => Held(io, pos, UpperLimit')
    <3> SUFFICES ASSUME ~ again, mbRow < img.rows, ~ Enters(mbRow) PROVE Held(io, pos, UpperLimit')
      OBVIOUS
    <3>1. Held(io, pos, UpperLimit)
      BY <1>2 DEF Inv, Reading
    <3> QED BY <3>1, <1>2, <1>3, HeldLess
  <2> QED BY <2>1, <1>1, <1>2 DEF Reading
<1>7. Kept'
  <2>1. again => saved.row = mbRow
    BY DEF Inv, Kept
  <2>2. again /\ mbRow < img.rows /\ ~ Enters(mbRow) =>
          Held(saved.io, saved.pos, UpperLimit') /\ Untouched(io, saved.io)
    <3> SUFFICES ASSUME again, mbRow < img.rows, ~ Enters(mbRow)
                 PROVE  Held(saved.io, saved.pos, UpperLimit') /\ Untouched(io, saved.io)
      OBVIOUS
    <3>1. Held(saved.io, saved.pos, UpperLimit) /\ Untouched(io, saved.io)
      BY DEF Inv, Kept
    <3>2. saved.pos \in Nat
      BY <1>2 DEF Types
    <3> QED BY <3>1, <3>2, <1>3, HeldLess
  <2> QED BY <2>1, <2>2, <1>1, <1>2 DEF Kept
<1>8. BitsIntact'
  BY <1>1, <1>2 DEF BitsIntact
<1>9. img'.planes = 1 => Pixels'
  BY <1>1, <1>2 DEF Inv, Pixels, Unmoved, Planes, Columns, RestoredColumns
<1> QED BY <1>1, <1>4, <1>5, <1>6, <1>7, <1>8, <1>9 DEF Inv

(* A call that returns, or the end: nothing moves but busy and phase.      *)
LEMMA ReturnStep ==
  ASSUME Inv, at = Idle, phase # "header", busy' \in BOOLEAN,
         phase' = phase \/ phase' = "done",
         UNCHANGED << img, ws, total, limit, io, pos, ctx, above, saved, again, lastMB,
                      tileRow, mbRow, at, line, taken, err >>
  PROVE  Inv'
<1>1. /\ Types /\ UpperLimit' = UpperLimit /\ Idle' = Idle /\ Enters(mbRow)' = Enters(mbRow)
  BY DEF Inv, UpperLimit, Idle, Enters, TileRowAt
<1>2. Types'
  BY <1>1, TypeFacts DEF Types, TypeOK
<1>3. Control' /\ InRow'
  BY <1>1 DEF Inv, Control, InRow
<1>4. Reading' /\ Kept' /\ BitsIntact'
  BY <1>1 DEF Inv, Reading, Kept, BitsIntact
<1>5. img'.planes = 1 => Pixels'
  BY <1>1 DEF Inv, Pixels, Unmoved, Planes, Columns, RestoredColumns
<1> QED BY <1>2, <1>3, <1>4, <1>5 DEF Inv

(* Every part of a row, a failure and a restore among them, keeps Inv.     *)
THEOREM InvStep == Inv /\ [Next]_vars => Inv'
<1> SUFFICES ASSUME Inv, [Next]_vars PROVE Inv'
  OBVIOUS
<1>1. CASE UNCHANGED vars
  BY <1>1 DEF vars, Inv, Types, TypeOK, Control, InRow, Reading, Kept, Pixels, BitsIntact,
              Enters, TileRowAt, UpperLimit, Idle, Passes, Unmoved, Planes, Columns, RestoredColumns
<1>2. ASSUME NEW n \in Chunks, Receive(n) PROVE Inv'
  BY <1>2, ReceiveStep
<1>3. CASE NothingLeft
  <2>1. busy' \in BOOLEAN
    BY <1>3 DEF NothingLeft
  <2> QED BY <2>1, <1>3, ReturnStep DEF NothingLeft
<1>4. CASE Finish
  <2>1. busy' \in BOOLEAN /\ at = Idle
    BY <1>4, TypeFacts DEF Finish, Inv, InRow
  <2> QED BY <2>1, <1>4, ReturnStep DEF Finish
<1> QED BY <1>1, <1>2, <1>3, <1>4, StartStep, DecodeNextMBRowStep, EnterRowStep, DecodePartStep,
           TransformStep, EndRowStep, FixSizeTagStep DEF Next

(* So it holds however often a row is tried.                               *)
THEOREM InvHolds == Spec => []Inv
  BY InvInit, InvStep, PTL DEF Spec

-----------------------------------------------------------------------------
(* The variables keep their types.                                         *)
THEOREM TypeCorrect == Spec => []TypeOK
<1>1. Inv => TypeOK
  BY DEF Inv, Types
<1> QED BY <1>1, InvHolds, PTL

(* Every part of every macroblock is decoded from its own bits, however    *)
(* the chunks were cut, whatever was discarded, and however often a row    *)
(* was tried before.                                                       *)
THEOREM OwnBits == Spec => []BitsIntact
<1>1. Inv => BitsIntact
  BY DEF Inv
<1> QED BY <1>1, InvHolds, PTL

(* Without interleaved alpha a row comes out transformed exactly once, by  *)
(* its own macroblocks and by those below, also when it was tried again.   *)
(* With alpha it is not so: see the run fail_safe_alpha.                   *)
THEOREM TransformedOnce == Spec => [](img.planes = 1 => RowTransformedOnce)
<1>1. Inv => (img.planes = 1 => RowTransformedOnce)
  <2> SUFFICES ASSUME Inv, img.planes = 1, at.col = img.cols + 1, at.row > 0,
                      NEW p \in Planes, NEW c \in Columns
               PROVE  above[p][c] = 2
    BY DEF RowTransformedOnce
  <2>1. at.col \in Nat /\ img.cols \in Nat \ {0} /\ c \in Int /\ c <= img.cols - 1
    <3>1. at.col \in Nat /\ img.cols \in Nat \ {0}
      BY ImageFacts, TypeFacts DEF Inv
    <3> QED BY <3>1 DEF Columns
  <2>2. at # Idle
    BY <2>1 DEF Idle
  <2>3. above[p][c] = Passes(c)
    BY <2>2 DEF Inv, Pixels
  <2> QED BY <2>1, <2>3 DEF Passes
<1> QED BY <1>1, InvHolds, PTL

-----------------------------------------------------------------------------
(* What is discarded is behind the reader.  The head of the stream goes as *)
(* far as the position of the stream, so the reader must not be behind it; *)
(* but a chunk that arrives, and the reader that is gone back to, put the  *)
(* two apart.  Then the try that failed owes a refill: somewhere in the    *)
(* row there is a part at which the saved reader is used up, and the row   *)
(* cannot end before it, which brings the two together again.              *)
Reachable(rd) == rd.offRef < UpperLimit => ws.cbDiscarded <= rd.offRef

InSync(rd) == rd.offRef < UpperLimit => Least(GetPosWS_List(ws), total) <= rd.offRef

(* The places of a row and the offsets of their bits, and the way through  *)
(* them: First, from the saved state, and After.                           *)
Place == [col : Nat, plane : Nat, part : Nat, off : Nat]

First == [col |-> 0, plane |-> 1, part |-> 1, off |-> saved.pos]

Here == [col |-> at.col, plane |-> at.plane, part |-> IF at.part = 0 THEN 1 ELSE at.part, off |-> pos]

PartsOf(x) == img.parts[mbRow + 1][x.col + 1]

IsPart(x) == x.col < img.cols /\ x.part <= Len(PartsOf(x))

After(x) ==
  IF IsPart(x) THEN [x EXCEPT !.part = @ + 1, !.off = @ + PartsOf(x)[x.part]]
  ELSE IF x.plane < img.planes THEN [x EXCEPT !.plane = @ + 1, !.part = 1]
  ELSE [x EXCEPT !.col = @ + 1, !.plane = 1, !.part = 1]

Way(T, k) == T[0] = First /\ \A i \in 0 .. k - 1 : T[i + 1] = After(T[i])

(* At x the saved reader holds no more than a packet.                      *)
Due(x) == IsPart(x) /\ saved.io.offRef <= x.off + PK

Comes(x) == \E T \in [Nat -> Place], k \in Nat : Way(T, k) /\ T[k] = x

Owing(x) ==
  \E T \in [Nat -> Place], k \in Nat, j \in Nat : Way(T, k) /\ j <= k /\ T[j] = x /\ Due(T[k])

Debt == \E T \in [Nat -> Place], k \in Nat : Way(T, k) /\ Due(T[k])

Resting == ~ busy /\ phase = "rows" => again \/ line >= img.rows

PacketsThere ==
  \A t \in 1 .. Len(img.tiles) :
    img.tiles[t].top >= mbRow => ws.cbDiscarded <= HeaderSize + img.tiles[t].offset

RowAhead ==
  at = Idle /\ ~ again /\ mbRow < img.rows /\ ~ Enters(mbRow) => Reachable(io) /\ InSync(io)

RowOwed ==
  again /\ mbRow < img.rows /\ ~ Enters(mbRow) =>
    Reachable(saved.io) /\ (saved.io.offRef < UpperLimit => Debt)

RowTried ==
  at # Idle /\ mbRow < img.rows /\ ~ Enters(mbRow) =>
    /\ Reachable(saved.io)
    /\ saved.io.offRef < UpperLimit =>
         \/ io.offRef = saved.io.offRef /\ InSync(io) /\ Comes(Here)
         \/ InSync(io) /\ Debt
         \/ io.offRef = saved.io.offRef /\ Owing(Here)

RowEntered ==
  at # Idle /\ at.row < img.rows /\ Enters(mbRow) /\ (at.row > mbRow \/ at.part >= 1) =>
    Reachable(io) /\ InSync(io)

Spared ==
  /\ NeverDiscardedEarly
  /\ Resting
  /\ PacketsThere
  /\ RowAhead
  /\ RowOwed
  /\ RowTried
  /\ RowEntered

(* The way begins at First, goes on from where it comes, and comes to what *)
(* is owed.                                                                *)
LEMMA WayBegins == saved.pos \in Nat => Comes(First) /\ (Debt => Owing(First))
<1> SUFFICES ASSUME saved.pos \in Nat PROVE Comes(First) /\ (Debt => Owing(First))
  OBVIOUS
<1>1. First \in Place
  BY DEF First, Place
<1>2. Comes(First)
  <2> DEFINE T == [i \in Nat |-> First]
  <2>1. T \in [Nat -> Place] /\ T[0] = First
    BY <1>1
  <2>2. Way(T, 0)
    BY <2>1 DEF Way
  <2> QED BY <2>1, <2>2 DEF Comes
<1>3. ASSUME Debt PROVE Owing(First)
  <2>1. PICK T \in [Nat -> Place], k \in Nat : Way(T, k) /\ Due(T[k])
    BY <1>3 DEF Debt
  <2>2. T[0] = First /\ 0 <= k /\ 0 \in Nat
    BY <2>1 DEF Way
  <2> QED BY <2>1, <2>2 DEF Owing
<1> QED BY <1>2, <1>3

LEMMA WayGoesOn ==
  ASSUME NEW x, Comes(x), After(x) \in Place
  PROVE  Comes(After(x))
<1>1. PICK T \in [Nat -> Place], k \in Nat : Way(T, k) /\ T[k] = x
  BY DEF Comes
<1> DEFINE U == [T EXCEPT ![k + 1] = After(x)]
<1>2. U \in [Nat -> Place] /\ k + 1 \in Nat
  OBVIOUS
<1>3. U[k + 1] = After(x) /\ \A i \in 0 .. k : U[i] = T[i]
  OBVIOUS
<1>4. Way(U, k + 1)
  <2> HIDE DEF U
  <2>1. U[0] = First
    BY <1>1, <1>3 DEF Way
  <2>2. ASSUME NEW i \in 0 .. k + 1 - 1 PROVE U[i + 1] = After(U[i])
    <3>1. CASE i = k
      BY <3>1, <1>1, <1>3
    <3>2. CASE i # k
      <4>1. i \in 0 .. k - 1 /\ i + 1 \in 0 .. k /\ i \in 0 .. k
        BY <3>2
      <4>2. T[i + 1] = After(T[i])
        BY <4>1, <1>1 DEF Way
      <4> QED BY <4>1, <4>2, <1>3
    <3> QED BY <3>1, <3>2
  <2> QED BY <2>1, <2>2 DEF Way
<1> HIDE DEF U
<1> QED BY <1>2, <1>3, <1>4 DEF Comes

LEMMA OwingGoesOn ==
  ASSUME NEW x, Owing(x)
  PROVE  Debt /\ (Due(x) \/ Owing(After(x)))
<1>1. PICK T \in [Nat -> Place], k \in Nat, j \in Nat :
         Way(T, k) /\ j <= k /\ T[j] = x /\ Due(T[k])
  BY DEF Owing
<1>2. Debt
  BY <1>1 DEF Debt
<1>3. CASE j = k
  BY <1>1, <1>2, <1>3
<1>4. CASE j # k
  <2>1. j \in 0 .. k - 1 /\ j + 1 \in Nat /\ j + 1 <= k
    BY <1>1, <1>4
  <2>2. T[j + 1] = After(x)
    BY <2>1, <1>1 DEF Way
  <2> QED BY <2>1, <2>2, <1>1, <1>2 DEF Owing
<1> QED BY <1>3, <1>4

(* A place past the last column is behind every part: the column never     *)
(* falls along the way.  (Of the steps from x on that are in a column of   *)
(* the image there would be a first one, and the step before it is not.)   *)
LEMMA NothingOwedPast ==
  ASSUME Types, NEW x, x.col >= img.cols, Owing(x)
  PROVE  FALSE
<1>1. PICK T \in [Nat -> Place], k \in Nat, j \in Nat :
         Way(T, k) /\ j <= k /\ T[j] = x /\ Due(T[k])
  BY DEF Owing
<1>2. img.cols \in Nat /\ \A i \in Nat : T[i] \in Place /\ T[i].col \in Nat
  BY ImageFacts DEF Place
<1> DEFINE S == {i \in Nat : j <= i /\ i <= k /\ T[i].col < img.cols}
<1>3. k \in S
  BY <1>1 DEF Due, IsPart
<1>4. PICK i \in S : \A y \in S : i <= y
  <2>1. S \in SUBSET Nat /\ S # {}
    BY <1>3
  <2> HIDE DEF S
  <2> QED BY <2>1, LeastNat
<1>5. i # j
  BY <1>1, <1>2, <1>4
<1>6. PICK h \in Nat : i = h + 1 /\ h \in 0 .. k - 1 /\ j <= h
  <2>1. i - 1 \in Nat /\ i = (i - 1) + 1 /\ i - 1 \in 0 .. k - 1 /\ j <= i - 1
    BY <1>4, <1>5
  <2> QED BY <2>1
<1>7. ~ (T[h].col < img.cols)
  <2>1. h \notin S
    BY <1>4, <1>6
  <2> QED BY <2>1, <1>6
<1>8. T[i] = After(T[h])
  BY <1>1, <1>6 DEF Way
<1>9. T[h].col <= After(T[h]).col
  <2>1. T[h] \in Place
    BY <1>2
  <2>2. After(T[h]).col = T[h].col \/ After(T[h]).col = T[h].col + 1
    BY <2>1 DEF After, Place
  <2> QED BY <2>2, <1>2
<1> QED BY <1>2, <1>4, <1>7, <1>8, <1>9

(* The way is that of the row and of what was saved.                       *)
LEMMA SameWay ==
  ASSUME UNCHANGED << img, mbRow >>, saved'.pos = saved.pos, saved'.io = saved.io
  PROVE  /\ Debt' = Debt
         /\ \A x : x = Here' /\ Comes(x) => Comes(Here)'
         /\ \A x : x = Here' /\ Owing(x) => Owing(Here)'
<1>1. \A x : After(x)' = After(x) /\ Due(x)' = Due(x) /\ First' = First
  BY DEF After, Due, IsPart, PartsOf, First
<1>2. \A T, k : Way(T, k)' = Way(T, k)
  BY <1>1 DEF Way
<1>3. Debt' = Debt
  BY <1>1, <1>2 DEF Debt
<1>4. \A x : x = Here' /\ Comes(x) => Comes(Here)'
  BY <1>2 DEF Comes
<1>5. \A x : x = Here' /\ Owing(x) => Owing(Here)'
  BY <1>1, <1>2 DEF Owing
<1> QED BY <1>3, <1>4, <1>5

(* So does what is said of the bytes discarded.                            *)
THEOREM SparedInit == Init => Spared
<1> SUFFICES ASSUME Init PROVE Spared
  OBVIOUS
<1>1. Inv /\ Types /\ Enters(0)
  BY InvInit, TileRowAtIn DEF Inv
<1>2. PacketsThere
  <2>1. ws.cbDiscarded = 0
    BY DEF Init, NewStream
  <2>2. HeaderSize \in Nat /\ \A t \in 1 .. Len(img.tiles) : img.tiles[t].offset \in Nat
    BY <1>1, ImageFacts
  <2> QED BY <2>1, <2>2 DEF PacketsThere
<1> QED BY <1>1, <1>2 DEF Init, Spared, NeverDiscardedEarly, Resting, RowAhead, RowOwed, RowTried,
                          RowEntered

(* A chunk moves the stream to its end.  No row is under way then, and the *)
(* one that is next was tried before or there is none.                     *)
LEMMA ReceiveSpares ==
  ASSUME Inv, Spared, NEW n \in Chunks, Receive(n)
  PROVE  Spared'
<1>1. /\ ~ busy /\ busy' = TRUE /\ phase \in {"header", "rows"}
      /\ UNCHANGED << img, limit, io, pos, ctx, above, saved, again, lastMB,
                      tileRow, mbRow, at, line, taken, err, phase >>
  BY DEF Receive
<1>2. at = Idle /\ Types /\ Stored(ws, total)
  BY <1>1 DEF Inv, InRow
<1>3. ws'.cbDiscarded = ws.cbDiscarded
  <2> DEFINE m == Least(n, img.size - total)
  <2>1. m \in Nat
    <3>1. n \in Nat /\ total \in Nat /\ img.size \in Nat /\ total < img.size
      BY <1>2, ImageFacts, TypeFacts, ImagesAssumption DEF Receive
    <3> QED BY <3>1 DEF Least
  <2>2. ws' = WriteWS_List(SetPosWS_List(ws, total), Run(total, m))
    BY DEF Receive, Run
  <2> HIDE DEF m
  <2> QED BY <2>1, <2>2, <1>2, ReceiveKeeps
<1>4. Idle' = Idle /\ Enters(mbRow)' = Enters(mbRow) /\ UpperLimit' = UpperLimit
      /\ HeaderSize' = HeaderSize
  BY <1>1 DEF Idle, Enters, TileRowAt, UpperLimit, HeaderSize
<1>5. again \/ ~ (mbRow < img.rows) \/ Enters(mbRow)
  <2>1. CASE phase = "header"
    BY <2>1, <1>2, TileRowAtIn DEF Inv, Control
  <2>2. CASE phase = "rows"
    <3>1. again \/ line >= img.rows
      BY <2>2, <1>1 DEF Spared, Resting
    <3>2. line \in Nat /\ img.rows \in Nat \ {0} /\ mbRow \in Nat
      BY <1>2, ImageFacts, TypeFacts
    <3>3. (mbRow = 0 /\ line = 0) \/ mbRow = line + 1
      BY DEF Inv, Control
    <3>4. line >= img.rows => ~ (mbRow < img.rows)
      BY <3>2, <3>3
    <3> QED BY <3>1, <3>4
  <2> QED BY <1>1, <2>1, <2>2
<1>6. NeverDiscardedEarly' /\ Resting' /\ PacketsThere'
  BY <1>1, <1>3, <1>4 DEF Spared, NeverDiscardedEarly, Resting, PacketsThere
<1>7. RowAhead'
  BY <1>1, <1>4, <1>5 DEF RowAhead
<1>8. RowOwed'
  <2>1. Debt' = Debt
    BY <1>1, SameWay
  <2> QED BY <2>1, <1>1, <1>3, <1>4 DEF Spared, RowOwed, Reachable
<1>9. RowTried' /\ RowEntered'
  BY <1>1, <1>2, <1>4 DEF RowTried, RowEntered
<1> QED BY <1>6, <1>7, <1>8, <1>9 DEF Spared

(* Only what precedes the image is discarded before the first row.         *)
LEMMA StartSpares ==
  ASSUME Inv, Spared, Start
  PROVE  Spared'
<1> DEFINE s == SetPosWS_List(ws, img.offset)
           h == Advance(s, img.header)
           after == IF ~ HeaderThere(s) THEN s ELSE Advance(h, AttachTaken(h, UpperLimit))
<1>1. /\ phase = "header" /\ busy
      /\ HeaderThere(s) => ~ HeaderHangs(h)
      /\ ws' \in {after, DiscardHeadWS_List(after, img.offset)}
      /\ phase' = "rows" => busy' = busy
      /\ UNCHANGED << img, total, limit, pos, ctx, above, saved, again, lastMB,
                      tileRow, mbRow, at, line, taken, err >>
  BY DEF Start
<1>2. /\ Stored(ws, total) /\ Types /\ io \in BitIOType /\ ws \in StreamType
      /\ img.offset \in Nat /\ img.header \in Nat /\ UpperLimit \in Nat
  BY ImageFacts, TypeFacts DEF Inv, Stored
<1>3. Stored(s, total) /\ s.cbDiscarded = ws.cbDiscarded
  BY <1>2, SeekKeeps
<1>4. Stored(after, total) /\ after.cbDiscarded = ws.cbDiscarded
  <2>1. CASE ~ HeaderThere(s)
    BY <2>1, <1>3
  <2>2. CASE HeaderThere(s)
    <3>1. img.header > 0 => s.cbBuf > 0 /\ CurrPos(s) + img.header <= s.cbBuf
      <4>1. CurrPos(s) \in Int /\ s.cbBuf \in Nat
        BY <1>3, CurrPosInt DEF Stored, StreamType
      <4>2. ReadErr(s, img.header) = "Success"
        BY <2>2 DEF HeaderThere
      <4> HIDE DEF s
      <4> QED BY <4>1, <4>2, <1>2 DEF ReadErr
    <3> HIDE DEF s
    <3>2. Stored(h, total) /\ h.cbDiscarded = s.cbDiscarded
      BY <1>2, <1>3, <3>1, CopyKeeps
    <3>3. GetPosWS_List(h) < UpperLimit => ~ Read1Wraps(h, AttachSize(h, UpperLimit))
      BY <1>1, <2>2 DEF HeaderHangs
    <3> HIDE DEF h
    <3>4. Stored(Advance(h, AttachTaken(h, UpperLimit)), total)
      BY <1>2, <3>2, <3>3, AttachKeeps
    <3>5. Advance(h, AttachTaken(h, UpperLimit)).cbDiscarded = h.cbDiscarded
      BY <3>2 DEF Stored, StreamType, Advance
    <3> QED BY <2>2, <3>2, <3>4, <3>5, <1>3
  <2> QED BY <2>1, <2>2
<1> HIDE DEF after, s, h
<1>5. ws'.cbDiscarded = ws.cbDiscarded \/ ws'.cbDiscarded <= img.offset
  BY <1>1, <1>2, <1>4, DiscardSyncs
<1>6. at = Idle /\ ~ again /\ mbRow = 0 /\ Enters(mbRow)
  BY <1>1, <1>2, TileRowAtIn DEF Inv, Control
<1>7. Idle' = Idle /\ Enters(mbRow)' = Enters(mbRow) /\ HeaderSize' = HeaderSize
  BY <1>1 DEF Idle, Enters, TileRowAt, HeaderSize
<1>8. PacketsThere'
  <2>1. \A t \in 1 .. Len(img.tiles) :
          img.tiles[t].offset \in Nat /\ img.offset <= HeaderSize + img.tiles[t].offset
    <3>1. \A t \in 1 .. Len(img.tiles) : img.tiles[t].offset \in Nat
      BY <1>2, ImageFacts
    <3> QED BY <3>1, <1>2 DEF HeaderSize
  <2>2. ws'.cbDiscarded \in Nat /\ HeaderSize \in Nat
    BY <1>2, ImageFacts, StartStep DEF Inv, Stored, StreamType
  <2>3. ASSUME NEW t \in 1 .. Len(img.tiles), img.tiles[t].top >= mbRow
        PROVE  ws'.cbDiscarded <= HeaderSize + img.tiles[t].offset
    <3>1. CASE ws'.cbDiscarded = ws.cbDiscarded
      BY <3>1, <2>3 DEF Spared, PacketsThere
    <3>2. CASE ws'.cbDiscarded <= img.offset
      BY <3>2, <2>1, <2>2, <1>2
    <3> QED BY <3>1, <3>2, <1>5
  <2> QED BY <2>3, <1>1, <1>7 DEF PacketsThere
<1>9. NeverDiscardedEarly' /\ Resting'
  BY <1>1 DEF Spared, NeverDiscardedEarly, Resting
<1>10. RowAhead' /\ RowOwed' /\ RowTried' /\ RowEntered'
  BY <1>1, <1>6, <1>7 DEF RowAhead, RowOwed, RowTried, RowEntered
<1> QED BY <1>8, <1>9, <1>10 DEF Spared

(* A try begins.  The one after a failure owes what the failed one did.    *)
LEMMA DecodeNextMBRowSpares ==
  ASSUME Inv, Spared, DecodeNextMBRow
  PROVE  Spared'
<1>1. /\ busy /\ at = Idle
      /\ at' = [row |-> mbRow, col |-> 0, plane |-> 1, part |-> 0]
      /\ UNCHANGED << img, ws, total, limit, tileRow, mbRow, line, taken, err, phase, busy >>
  BY DEF DecodeNextMBRow
<1>2. \/ again /\ io' = RestoredBitIO(io, saved.io) /\ pos' = saved.pos /\ again' = FALSE
              /\ saved' = saved
      \/ ~ again /\ saved'.io = io /\ saved'.pos = pos /\ UNCHANGED << io, pos, again >>
  BY DEF DecodeNextMBRow
<1>3. Types /\ UpperLimit' = UpperLimit /\ Enters(mbRow)' = Enters(mbRow) /\ Idle' = Idle
      /\ HeaderSize' = HeaderSize
  BY <1>1 DEF Inv, UpperLimit, Enters, TileRowAt, HeaderSize, Idle
<1>4. at' # Idle /\ ~ again' /\ at'.row = mbRow /\ at'.part = 0 /\ Here' = First'
  <2>1. at' # Idle /\ at'.row = mbRow /\ at'.part = 0 /\ at'.col = 0 /\ at'.plane = 1
    BY <1>1 DEF Idle
  <2>2. ~ again'
    BY <1>2
  <2>3. pos' = saved'.pos
    BY <1>2
  <2> QED BY <2>1, <2>2, <2>3 DEF Here, First
<1>5. NeverDiscardedEarly' /\ Resting' /\ PacketsThere'
  BY <1>1, <1>3 DEF Spared, NeverDiscardedEarly, Resting, PacketsThere
<1>6. RowAhead' /\ RowOwed'
  BY <1>3, <1>4 DEF RowAhead, RowOwed
<1>7. RowTried'
  <2> SUFFICES ASSUME mbRow < img.rows, ~ Enters(mbRow)
               PROVE  /\ Reachable(saved.io)'
                      /\ saved'.io.offRef < UpperLimit' =>
                           \/ io'.offRef = saved'.io.offRef /\ InSync(io)' /\ Comes(Here)'
                           \/ io'.offRef = saved'.io.offRef /\ Owing(Here)'
    BY <1>1, <1>3 DEF RowTried
  <2>1. CASE again
    <3>1. io' = saved.io /\ saved' = saved
      BY <2>1, <1>1, <1>2, RestoreBack DEF Inv, Kept, Types
    <3>2. Reachable(saved.io) /\ (saved.io.offRef < UpperLimit => Debt)
      BY <2>1 DEF Spared, RowOwed
    <3>3. Reachable(saved.io)'
      BY <3>1, <3>2, <1>1, <1>3 DEF Reachable
    <3>4. ASSUME saved.io.offRef < UpperLimit PROVE Owing(Here)'
      <4>1. Owing(First)
        BY <3>2, <3>4, <1>3, WayBegins DEF Types
      <4>2. First = Here'
        BY <3>1, <1>4 DEF First
      <4> QED BY <4>1, <4>2, <3>1, <1>1, SameWay
    <3> QED BY <3>1, <3>3, <3>4, <1>3
  <2>2. CASE ~ again
    <3>1. Reachable(io) /\ InSync(io) /\ io' = io /\ saved'.io = io /\ saved'.pos \in Nat
      BY <2>2, <1>1, <1>2, <1>3 DEF Spared, RowAhead, Types
    <3>2. Reachable(saved.io)' /\ InSync(io)'
      BY <3>1, <1>1, <1>3 DEF Reachable, InSync
    <3>3. Comes(First)'
      <4>1. (saved.pos \in Nat)' => Comes(First)'
        BY WayBegins, PTL
      <4> QED BY <4>1, <3>1
    <3> QED BY <3>1, <3>2, <3>3, <1>4 DEF Comes
  <2> QED BY <2>1, <2>2
<1>8. RowEntered'
  <2>1. mbRow \in Nat
    BY <1>3, TypeFacts
  <2> QED BY <2>1, <1>1, <1>4 DEF RowEntered
<1> QED BY <1>5, <1>6, <1>7, <1>8 DEF Spared

(* A row that enters seeks its packet, which is still there, and attaches. *)
LEMMA EnterRowSpares ==
  ASSUME Inv, Spared, EnterRow
  PROVE  Spared'
<1> DEFINE t == TileRowAt(at.row) + 1
           start == HeaderSize + img.tiles[t].offset
           free == IF TileRowAt(at.row) > 0 \/ Len(img.tiles) = 1 THEN detachISRead(io) ELSE io
           s == SetPosWS_List(ws, start)
<1>1. /\ at # Idle /\ at.part = 0 /\ at.row < img.rows /\ tileRow' = TileRowAt(at.row)
      /\ UNCHANGED << img, total, limit, above, saved, lastMB, mbRow, line, taken, phase >>
  BY DEF EnterRow
<1>2. \/ /\ ~ Enters(at.row) /\ at' = [at EXCEPT !.part = 1]
         /\ UNCHANGED << ws, io, pos, again, busy, err >>
      \/ /\ Enters(at.row)
         /\ \/ SetPosErr(ws, start) # "Success" /\ ws' = ws /\ err' = SetPosErr(ws, start)
            \/ /\ SetPosErr(ws, start) = "Success" /\ err' = AttachErr(s, UpperLimit)
               /\ io' = attachISRead(free, s, UpperLimit)
               /\ ws' = Advance(s, AttachTaken(s, UpperLimit))
         /\ \/ again' = TRUE /\ at' = Idle
            \/ /\ SetPosErr(ws, start) = "Success" /\ AttachErr(s, UpperLimit) = "Success"
               /\ at' = [at EXCEPT !.part = 1] /\ UNCHANGED << again, busy >>
  BY <1>1 DEF EnterRow, Enters, Fail
<1>3. /\ Types /\ Stored(ws, total) /\ UpperLimit \in Nat /\ UpperLimit' = UpperLimit
      /\ TileRowAt(at.row) \in 0 .. Len(img.tiles) - 1 /\ HeaderSize' = HeaderSize
      /\ Idle' = Idle /\ ~ again /\ phase # "header"
  BY <1>1, ImageFacts, TypeFacts, TileRowAtIn DEF Inv, UpperLimit, HeaderSize, Idle, Control
<1>4. /\ t \in 1 .. Len(img.tiles) /\ start \in Nat
      /\ at.row \in Nat /\ mbRow \in Nat /\ at.row >= mbRow
      /\ at.row = mbRow \/ mbRow = 0
  <2>1. Len(img.tiles) \in Nat /\ TileRowAt(at.row) + 1 \in 1 .. Len(img.tiles)
    BY <1>3, ImageFacts
  <2>2. img.tiles[TileRowAt(at.row) + 1].offset \in Nat /\ HeaderSize \in Nat
    BY <2>1, <1>3, ImageFacts
  <2>3. at.row \in Nat /\ mbRow \in Nat /\ (at.row = mbRow \/ (mbRow = 0 /\ at.row = 1))
    BY <1>1, <1>3, TypeFacts DEF Inv, InRow
  <2> QED BY <2>1, <2>2, <2>3
<1>5. Enters(at.row) => ws.cbDiscarded <= start
  <2>1. Enters(at.row) => img.tiles[t].top >= mbRow
    BY <1>4 DEF Enters
  <2> QED BY <2>1, <1>4 DEF Spared, PacketsThere
<1> HIDE DEF t, start, free
<1>6. /\ ws'.cbDiscarded = ws.cbDiscarded /\ err' # "DataDiscarded"
      /\ Enters(at.row) /\ at' # Idle => ws.cbDiscarded <= io'.offRef /\ InSync(io)'
  <2>1. CASE ~ Enters(at.row)
    BY <2>1, <1>2 DEF Spared, NeverDiscardedEarly
  <2>2. CASE Enters(at.row) /\ SetPosErr(ws, start) # "Success"
    <3>1. SetPosErr(ws, start) # "DataDiscarded"
      <4>1. ws.cbDiscarded \in Nat
        BY <1>3 DEF Stored, StreamType
      <4> QED BY <4>1, <2>2, <1>4, <1>5 DEF SetPosErr
    <3> QED BY <3>1, <2>2, <1>2
  <2>3. CASE Enters(at.row) /\ SetPosErr(ws, start) = "Success"
    <3>1. /\ err' = AttachErr(s, UpperLimit)
          /\ io' = attachISRead(free, s, UpperLimit)
          /\ ws' = Advance(s, AttachTaken(s, UpperLimit))
          /\ at' # Idle => AttachErr(s, UpperLimit) = "Success"
      BY <2>3, <1>2
    <3>2. s = SetPosWS_List(ws, start)
      OBVIOUS
    <3> HIDE DEF s
    <3>3. /\ AttachErr(s, UpperLimit) # "DataDiscarded"
          /\ ws'.cbDiscarded = ws.cbDiscarded
          /\ AttachErr(s, UpperLimit) = "Success" =>
               start <= io'.offRef /\ Least(GetPosWS_List(ws'), total) <= io'.offRef
      BY <2>3, <3>1, <3>2, <1>3, <1>4, AttachSyncs
    <3>4. io'.offRef \in Nat /\ ws.cbDiscarded \in Nat
      <4>1. Inv'
        BY EnterRowStep
      <4> QED BY <4>1, <1>3 DEF Inv, Types, TypeOK, BitIOType, Stored, StreamType
    <3>5. AttachErr(s, UpperLimit) = "Success" => ws.cbDiscarded <= io'.offRef
      BY <2>3, <3>3, <3>4, <1>4, <1>5
    <3>6. total' = total
      BY <1>1
    <3>7. AttachErr(s, UpperLimit) = "Success" => InSync(io)'
      BY <3>3, <3>6 DEF InSync
    <3> QED BY <3>1, <3>3, <3>5, <3>7
  <2> QED BY <2>1, <2>2, <2>3
<1>7. NeverDiscardedEarly' /\ PacketsThere'
  BY <1>1, <1>3, <1>6 DEF Spared, NeverDiscardedEarly, PacketsThere
<1>8. \/ at' = Idle /\ again' = TRUE /\ Enters(at.row)
      \/ /\ at'.row = at.row /\ at'.col = at.col /\ at'.plane = at.plane /\ at'.part = 1
         /\ at' # Idle /\ again' = again /\ busy' = busy
  <2>1. CASE at' = [at EXCEPT !.part = 1] /\ again' = again /\ busy' = busy
    <3>1. /\ at'.row = at.row /\ at'.col = at.col /\ at'.plane = at.plane /\ at'.part = 1
          /\ at' # Idle
      BY <2>1, <1>3 DEF Types, Idle
    <3> QED BY <2>1, <3>1, Zenon
  <2> QED BY <2>1, <1>2, Zenon
<1>9. Resting'
  <2>1. busy
    BY <1>1 DEF Inv, InRow
  <2>2. again' = TRUE \/ busy' = busy
    BY <1>8
  <2> QED BY <2>1, <2>2 DEF Resting
<1>10. /\ Enters(at.row) => Enters(mbRow)'
       /\ ~ Enters(mbRow)' => ~ Enters(mbRow)
       /\ at.row = mbRow /\ ~ Enters(at.row) => ~ Enters(mbRow)'
  <2>1. /\ Enters(at.row) => Enters(mbRow)'
        /\ ~ Enters(mbRow)' => ~ Enters(mbRow)
    BY <1>1, EnterKeeps
  <2>2. at.row = mbRow /\ ~ Enters(at.row) => ~ Enters(mbRow)'
    <3>1. tileRow \in 0 .. Len(img.tiles) - 1 /\ img.tiles[1].top = 0
      BY <1>3, ImageFacts DEF Types, TypeOK
    <3> QED BY <3>1, <1>1, <1>3 DEF Enters, TileRowAt
  <2> QED BY <2>1, <2>2
<1>11. RowAhead' /\ RowOwed'
  BY <1>3, <1>8, <1>10 DEF RowAhead, RowOwed
<1>12. RowTried'
  <2> SUFFICES ASSUME at' # Idle, mbRow < img.rows, ~ Enters(mbRow)'
               PROVE  /\ Reachable(saved.io)'
                      /\ saved'.io.offRef < UpperLimit' =>
                           \/ io'.offRef = saved'.io.offRef /\ InSync(io)' /\ Comes(Here)'
                           \/ InSync(io)' /\ Debt'
                           \/ io'.offRef = saved'.io.offRef /\ Owing(Here)'
    BY <1>1, <1>3 DEF RowTried
  <2>1. ~ Enters(at.row) /\ ~ Enters(mbRow) /\ io' = io /\ ws' = ws /\ pos' = pos
    BY <1>2, <1>10
  <2>2. Here' = Here
    BY <2>1, <1>1, <1>8 DEF Here
  <2>3. /\ Reachable(saved.io)
        /\ saved.io.offRef < UpperLimit =>
             \/ io.offRef = saved.io.offRef /\ InSync(io) /\ Comes(Here)
             \/ InSync(io) /\ Debt
             \/ io.offRef = saved.io.offRef /\ Owing(Here)
    BY <2>1, <1>1 DEF Spared, RowTried
  <2>4. Debt' = Debt /\ (Comes(Here) => Comes(Here)') /\ (Owing(Here) => Owing(Here)')
    BY <2>2, <1>1, SameWay
  <2>5. Reachable(saved.io)' /\ (InSync(io) => InSync(io)')
    BY <2>1, <2>3, <1>1, <1>3 DEF Reachable, InSync
  <2>6. io'.offRef = io.offRef /\ saved'.io.offRef = saved.io.offRef
    BY <2>1, <1>1
  <2> QED BY <2>3, <2>4, <2>5, <2>6, <1>3
<1>13. RowEntered'
  <2> SUFFICES ASSUME at' # Idle, Enters(mbRow)' PROVE Reachable(io)' /\ InSync(io)'
    BY <1>3 DEF RowEntered
  <2>1. CASE Enters(at.row)
    BY <2>1, <1>6 DEF Reachable
  <2>2. CASE ~ Enters(at.row)
    <3>1. at.row # mbRow /\ io' = io /\ ws' = ws
      BY <2>2, <1>2, <1>10
    <3>2. mbRow = 0 /\ at.row > mbRow
      BY <3>1, <1>4
    <3>3. Reachable(io) /\ InSync(io)
      BY <3>2, <1>1, <1>3, TileRowAtIn DEF Spared, RowEntered
    <3> QED BY <3>1, <3>3, <1>1, <1>3 DEF Reachable, InSync
  <2> QED BY <2>1, <2>2
<1> QED BY <1>7, <1>9, <1>11, <1>12, <1>13 DEF Spared

(* A reader in the row is ahead of the head of the stream: by what the row *)
(* began with, from which its refills only lead away.                      *)
LEMMA ReaderAhead ==
  ASSUME Inv, Spared, at # Idle, at.part >= 1, at.row < img.rows
  PROVE  /\ Reachable(io)
         /\ ~ Enters(mbRow) => /\ at.row = mbRow
                               /\ Reachable(saved.io) /\ saved.io.offRef <= io.offRef
                               /\ saved.io.offRef \in Nat
<1>1. Types /\ Stored(ws, total) /\ UpperLimit \in Nat /\ io.offRef \in Nat
      /\ saved.io.offRef \in Nat /\ ws.cbDiscarded \in Nat
  BY ImageFacts, TypeFacts DEF Inv, Types, BitIOType, Stored, StreamType
<1>2. CASE Enters(mbRow)
  BY <1>2 DEF Spared, RowEntered
<1>3. CASE ~ Enters(mbRow)
  <2>1. at.row = mbRow
    BY <1>1, <1>3, TileRowAtIn DEF Inv, InRow
  <2>2. Reachable(saved.io)
    BY <2>1, <1>3 DEF Spared, RowTried
  <2>3. saved.io.offRef <= io.offRef
    BY <2>1, <1>3 DEF Inv, Kept, Untouched
  <2>4. Reachable(io)
    BY <2>2, <2>3, <1>1 DEF Reachable
  <2> QED BY <2>1, <2>2, <2>3, <2>4, <1>1
<1> QED BY <1>2, <1>3

LEMMA DueOwes == \A x : Comes(x) /\ Due(x) => Debt
  BY DEF Comes, Debt

(* A part: a refill that is due brings reader and stream together, or      *)
(* fails, and is owed from then on; without one both stay where they are.  *)
LEMMA DecodePartSpares ==
  ASSUME Inv, Spared, DecodePart
  PROVE  Spared'
<1>1. /\ at # Idle /\ at.row < img.rows /\ at.col < img.cols /\ at.part >= 1
      /\ at.part <= Len(Parts)
      /\ UNCHANGED << img, total, limit, above, saved, lastMB, tileRow, mbRow, line, phase >>
  BY DEF DecodePart, InPlane
<1>2. /\ Types /\ Stored(ws, total) /\ UpperLimit \in Nat /\ UpperLimit' = UpperLimit
      /\ pos \in Nat /\ io \in BitIOType /\ io.offRef \in Nat /\ total \in Nat
      /\ Held(io, pos, UpperLimit) /\ ~ again /\ busy /\ Idle' = Idle
      /\ Enters(mbRow)' = Enters(mbRow) /\ HeaderSize' = HeaderSize
  BY <1>1, ImageFacts, TypeFacts
     DEF Inv, UpperLimit, HeaderSize, Control, InRow, Reading, Idle, Enters, TileRowAt
<1>3. /\ Reachable(io)
      /\ ~ Enters(mbRow) => /\ at.row = mbRow
                            /\ Reachable(saved.io) /\ saved.io.offRef <= io.offRef
                            /\ saved.io.offRef \in Nat
  BY <1>1, ReaderAhead
<1>4. PICK n : n = Parts[at.part]
  OBVIOUS
<1>5. PICK r, e :
        /\ r = IF io.offRef < UpperLimit THEN readIS(io, ws, UpperLimit) ELSE io
        /\ e = IF io.offRef < UpperLimit THEN ReadISErr(io, ws, UpperLimit) ELSE "Success"
  OBVIOUS
<1>6. /\ ws' = IF io.offRef < UpperLimit THEN ReadISStream(io, ws, UpperLimit) ELSE ws
      /\ err' = e
      /\ \/ e # "Success" /\ again' = TRUE /\ at' = Idle
         \/ /\ e = "Success" /\ io' = Take(r, n) /\ pos' = pos + n
            /\ at' = [at EXCEPT !.part = @ + 1] /\ UNCHANGED << again, busy >>
  <2>1. \/ e # "Success" /\ Fail
        \/ /\ e = "Success" /\ io' = Take(r, n) /\ pos' = pos + n
           /\ at' = [at EXCEPT !.part = @ + 1] /\ UNCHANGED << again, busy >>
    BY <1>4, <1>5 DEF DecodePart
  <2>2. /\ ws' = IF io.offRef < UpperLimit THEN ReadISStream(io, ws, UpperLimit) ELSE ws
        /\ err' = e
    BY <1>5 DEF DecodePart
  <2> QED BY <2>1, <2>2, Zenon DEF Fail
<1>7. /\ ws'.cbDiscarded = ws.cbDiscarded /\ e # "DataDiscarded" /\ r \in BitIOType
      /\ e # "Success" => io.offRef < UpperLimit /\ io.offRef <= pos + PK
      /\ e = "Success" =>
           \/ r = io /\ ws' = ws /\ (io.offRef < UpperLimit => pos + PK < io.offRef)
           \/ /\ io.offRef <= pos + PK /\ io.offRef < r.offRef
              /\ Least(GetPosWS_List(ws'), total) <= r.offRef
  <2>1. CASE io.offRef < UpperLimit
    <3>1. PICK w : w = ReadISStream(io, ws, UpperLimit)
      OBVIOUS
    <3>2. r = readIS(io, ws, UpperLimit) /\ e = ReadISErr(io, ws, UpperLimit) /\ ws' = w
      BY <2>1, <3>1, <1>5, <1>6
    <3>3. ws.cbDiscarded <= io.offRef
      BY <2>1, <1>3 DEF Reachable
    <3>4. /\ e # "DataDiscarded"
          /\ w.cbDiscarded = ws.cbDiscarded
          /\ e # "Success" => io.offRef <= pos + PK
          /\ e = "Success" =>
               \/ r = io /\ w = ws
               \/ /\ io.offRef <= pos + PK /\ io.offRef < r.offRef
                  /\ Least(GetPosWS_List(w), total) <= r.offRef
      BY <2>1, <3>1, <3>2, <3>3, <1>2, ReadISSyncs
    <3>5. r \in BitIOType /\ (e = "Success" => Ready(r, pos, UpperLimit))
      BY <2>1, <3>1, <3>2, <1>2, ReadISHolds
    <3> QED BY <2>1, <3>2, <3>4, <3>5 DEF Ready
  <2>2. CASE ~ (io.offRef < UpperLimit)
    BY <2>2, <1>2, <1>5, <1>6
  <2> QED BY <2>1, <2>2
<1>8. e = "Success" =>
        /\ io'.offRef = r.offRef /\ ~ again' /\ busy' = busy
        /\ at'.row = at.row /\ at'.col = at.col /\ at'.plane = at.plane
        /\ at'.part = at.part + 1 /\ at' # Idle
  <2> SUFFICES ASSUME e = "Success"
               PROVE  /\ io'.offRef = r.offRef /\ ~ again' /\ busy' = busy
                      /\ at'.row = at.row /\ at'.col = at.col /\ at'.plane = at.plane
                      /\ at'.part = at.part + 1 /\ at' # Idle
    OBVIOUS
  <2>1. io' = Take(r, n) /\ at' = [at EXCEPT !.part = @ + 1] /\ again' = again /\ busy' = busy
    BY <1>6
  <2>2. io'.offRef = r.offRef
    BY <2>1, <1>7 DEF Take, BitIOType
  <2>3. /\ at'.row = at.row /\ at'.col = at.col /\ at'.plane = at.plane
        /\ at'.part = at.part + 1 /\ at' # Idle
    <3>1. at \in [row : Nat, col : Nat, plane : Nat, part : Nat] /\ at.part + 1 # 0
      BY <1>2, TypeFacts DEF Types
    <3> QED BY <3>1, <2>1 DEF Idle
  <2>4. ~ again'
    BY <2>1, <1>2, Zenon
  <2> QED BY <2>1, <2>2, <2>3, <2>4
<1>9. NeverDiscardedEarly' /\ PacketsThere'
  BY <1>1, <1>2, <1>6, <1>7 DEF Spared, NeverDiscardedEarly, PacketsThere
<1>10. Resting'
  <2>1. again' = TRUE \/ busy' = busy
    BY <1>6, <1>8
  <2> QED BY <2>1, <1>2 DEF Resting
<1>11. RowAhead'
  <2>1. again' = TRUE \/ at' # Idle
    BY <1>6, <1>8
  <2> QED BY <2>1, <1>2 DEF RowAhead
<1>12. ~ Enters(mbRow) =>
         /\ IsPart(Here) /\ Debt' = Debt
         /\ Due(Here) <=> saved.io.offRef <= pos + PK
         /\ saved.io.offRef < UpperLimit =>
              \/ io.offRef = saved.io.offRef /\ InSync(io) /\ Comes(Here)
              \/ InSync(io) /\ Debt
              \/ io.offRef = saved.io.offRef /\ Owing(Here)
  <2> SUFFICES ASSUME ~ Enters(mbRow)
               PROVE  /\ IsPart(Here) /\ Debt' = Debt
                      /\ Due(Here) <=> saved.io.offRef <= pos + PK
                      /\ saved.io.offRef < UpperLimit =>
                           \/ io.offRef = saved.io.offRef /\ InSync(io) /\ Comes(Here)
                           \/ InSync(io) /\ Debt
                           \/ io.offRef = saved.io.offRef /\ Owing(Here)
    OBVIOUS
  <2>1. Here.col = at.col /\ Here.part = at.part /\ Here.off = pos
    <3>1. at.part # 0
      BY <1>1, <1>2, TypeFacts
    <3> QED BY <3>1 DEF Here
  <2>2. IsPart(Here)
    BY <2>1, <1>1, <1>3 DEF IsPart, PartsOf, Parts
  <2>3. Debt' = Debt
    BY <1>1, SameWay
  <2> QED BY <2>1, <2>2, <2>3, <1>1, <1>3 DEF Spared, RowTried, Due
<1>13. ~ Enters(mbRow) /\ saved.io.offRef < UpperLimit /\ io.offRef <= pos + PK => Debt
  BY <1>2, <1>3, <1>12, DueOwes, OwingGoesOn
<1>14. RowOwed'
  <2> SUFFICES ASSUME again', mbRow < img.rows, ~ Enters(mbRow)
               PROVE  Reachable(saved.io)' /\ (saved'.io.offRef < UpperLimit' => Debt')
    BY <1>1, <1>2 DEF RowOwed
  <2>1. io.offRef < UpperLimit /\ io.offRef <= pos + PK
    BY <1>7, <1>8
  <2>2. Reachable(saved.io)'
    BY <1>1, <1>2, <1>3, <1>7 DEF Reachable
  <2>3. saved.io.offRef < UpperLimit => Debt
    BY <2>1, <1>13
  <2> QED BY <2>2, <2>3, <1>1, <1>2, <1>12
<1>15. RowTried'
  <2> SUFFICES ASSUME at' # Idle, mbRow < img.rows, ~ Enters(mbRow)
               PROVE  /\ Reachable(saved.io)'
                      /\ saved'.io.offRef < UpperLimit' =>
                           \/ io'.offRef = saved'.io.offRef /\ InSync(io)' /\ Comes(Here)'
                           \/ InSync(io)' /\ Debt'
                           \/ io'.offRef = saved'.io.offRef /\ Owing(Here)'
    BY <1>1, <1>2 DEF RowTried
  <2>1. e = "Success" /\ io'.offRef = r.offRef /\ saved' = saved
    BY <1>1, <1>6, <1>8
  <2>2. Reachable(saved.io)'
    BY <1>1, <1>2, <1>3, <1>7 DEF Reachable
  <2> SUFFICES ASSUME saved.io.offRef < UpperLimit
               PROVE  \/ io'.offRef = saved.io.offRef /\ InSync(io)' /\ Comes(Here)'
                      \/ InSync(io)' /\ Debt
                      \/ io'.offRef = saved.io.offRef /\ Owing(Here)'
    BY <2>1, <2>2, <1>2, <1>12
  <2>3. CASE r = io /\ ws' = ws /\ (io.offRef < UpperLimit => pos + PK < io.offRef)
    <3>1. Here' = After(Here)
      <4>1. PartsOf(Here)[at.part] = n
        BY <1>3, <1>4 DEF PartsOf, Here, Parts
      <4>2. at'.part # 0 /\ at.part # 0
        BY <1>1, <1>2, <1>8, <2>1, TypeFacts, SMTT(30)
      <4>3. pos' = pos + n
        BY <1>6, <2>1
      <4> QED BY <4>1, <4>2, <4>3, <1>8, <1>12, <2>1 DEF After, Here
    <3>2. Here' \in Place
      <4>1. Types'
        BY DecodePartStep DEF Inv
      <4>2. pos' \in Nat /\ at' \in [row : Nat, col : Nat, plane : Nat, part : Nat]
        BY <4>1 DEF Types
      <4> QED BY <4>2 DEF Here, Place
    <3>3. Comes(Here) => Comes(Here)'
      BY <3>1, <3>2, <1>1, WayGoesOn, SameWay
    <3>4. Owing(Here) => Due(Here) \/ Owing(Here)'
      BY <3>1, <1>1, OwingGoesOn, SameWay
    <3>5. io.offRef = saved.io.offRef => ~ Due(Here)
      BY <2>3, <1>2, <1>12
    <3>6. InSync(io) => InSync(io)'
      BY <2>1, <2>3, <1>1, <1>2 DEF InSync
    <3> QED BY <2>1, <2>3, <3>3, <3>4, <3>5, <3>6, <1>12
  <2>4. CASE /\ io.offRef <= pos + PK /\ io.offRef < r.offRef
             /\ Least(GetPosWS_List(ws'), total) <= r.offRef
    <3>1. InSync(io)'
      BY <2>1, <2>4, <1>1 DEF InSync
    <3> QED BY <3>1, <2>4, <1>13
  <2> QED BY <2>1, <2>3, <2>4, <1>7
<1>16. RowEntered'
  <2> SUFFICES ASSUME at' # Idle, Enters(mbRow) PROVE Reachable(io)' /\ InSync(io)'
    BY <1>2 DEF RowEntered
  <2>1. e = "Success" /\ io'.offRef = r.offRef /\ r.offRef \in Nat
    BY <1>6, <1>7, <1>8 DEF BitIOType
  <2>2. Reachable(io) /\ InSync(io)
    BY <1>1 DEF Spared, RowEntered
  <2>3. CASE r = io /\ ws' = ws
    BY <2>1, <2>2, <2>3, <1>1, <1>2 DEF Reachable, InSync
  <2>4. CASE io.offRef < r.offRef /\ Least(GetPosWS_List(ws'), total) <= r.offRef
    <3>1. InSync(io)'
      BY <2>1, <2>4, <1>1 DEF InSync
    <3>2. ws.cbDiscarded \in Nat
      BY <1>2 DEF Stored, StreamType
    <3>3. Reachable(io)'
      BY <2>1, <2>2, <2>4, <3>2, <1>2, <1>7 DEF Reachable
    <3> QED BY <3>1, <3>3
  <2> QED BY <2>1, <2>3, <2>4, <1>7
<1> QED BY <1>9, <1>10, <1>11, <1>14, <1>15, <1>16 DEF Spared

(* The transform moves on to the next macroblock; no part is left behind.  *)
LEMMA TransformSpares ==
  ASSUME Inv, Spared, Transform
  PROVE  Spared'
<1>1. /\ at # Idle /\ at.col <= img.cols
      /\ at.row = img.rows \/ at.col = img.cols \/ at.part > Len(Parts)
      /\ \/ at.plane < img.planes /\ at' = [at EXCEPT !.plane = @ + 1, !.part = 1]
         \/ /\ ~ (at.plane < img.planes)
            /\ at' = [at EXCEPT !.col = @ + 1, !.plane = 1, !.part = 1]
      /\ UNCHANGED << img, ws, total, limit, io, pos, saved, again, tileRow, mbRow,
                      line, err, phase, busy >>
  BY DEF Transform
<1>2. /\ Types /\ UpperLimit' = UpperLimit /\ ~ again /\ Idle' = Idle
      /\ Enters(mbRow)' = Enters(mbRow) /\ HeaderSize' = HeaderSize
  BY <1>1 DEF Inv, UpperLimit, HeaderSize, Control, Idle, Enters, TileRowAt
<1>3. /\ at.row \in Nat /\ at.col \in Nat /\ at.plane \in Nat /\ at.part \in Nat
      /\ img.cols \in Nat \ {0} /\ img.rows \in Nat \ {0} /\ mbRow \in Nat
      /\ at \in [row : Nat, col : Nat, plane : Nat, part : Nat]
      /\ at.row = mbRow \/ (mbRow = 0 /\ at.row = 1)
      /\ at.col > 0 => at.part >= 1
  BY <1>1, <1>2, ImageFacts, TypeFacts DEF Types, Inv, InRow
<1>4. /\ at'.row = at.row /\ at'.part = 1
      /\ \/ at.plane < img.planes /\ at'.plane = at.plane + 1 /\ at'.col = at.col
         \/ ~ (at.plane < img.planes) /\ at'.plane = 1 /\ at'.col = at.col + 1
  BY <1>1, <1>3
<1>5. at.row < img.rows => at.part >= 1
  <2> SUFFICES ASSUME at.row < img.rows PROVE at.part >= 1
    OBVIOUS
  <2>1. CASE at.col = img.cols
    BY <2>1, <1>3
  <2>2. CASE at.col # img.cols /\ at.part > Len(Parts)
    <3>1. /\ at.row + 1 \in 1 .. img.rows /\ at.col + 1 \in 1 .. img.cols
      BY <2>2, <1>1, <1>3
    <3>2. PICK ps \in Seq(1 .. PK) : ps = Parts
      BY <3>1, <1>2, ImageFacts DEF Parts
    <3>3. Len(ps) \in Nat
      OBVIOUS
    <3> QED BY <2>2, <3>2, <3>3, <1>3
  <2> QED BY <2>1, <2>2, <1>1, <1>3
<1>6. NeverDiscardedEarly' /\ Resting' /\ PacketsThere'
  BY <1>1, <1>2 DEF Spared, NeverDiscardedEarly, Resting, PacketsThere
<1>7. at' # Idle
  BY <1>4 DEF Idle
<1>8. RowAhead' /\ RowOwed'
  BY <1>1, <1>2, <1>7 DEF RowAhead, RowOwed
<1>9. RowTried'
  <2> SUFFICES ASSUME mbRow < img.rows, ~ Enters(mbRow)
               PROVE  /\ Reachable(saved.io)'
                      /\ saved'.io.offRef < UpperLimit' =>
                           \/ io'.offRef = saved'.io.offRef /\ InSync(io)' /\ Comes(Here)'
                           \/ InSync(io)' /\ Debt'
                           \/ io'.offRef = saved'.io.offRef /\ Owing(Here)'
    BY <1>1, <1>2 DEF RowTried
  <2>1. at.row = mbRow /\ at.part >= 1
    BY <1>2, <1>3, <1>5, TileRowAtIn
  <2>2. /\ Reachable(saved.io)
        /\ saved.io.offRef < UpperLimit =>
             \/ io.offRef = saved.io.offRef /\ InSync(io) /\ Comes(Here)
             \/ InSync(io) /\ Debt
             \/ io.offRef = saved.io.offRef /\ Owing(Here)
    BY <1>1 DEF Spared, RowTried
  <2>3. Here.col = at.col /\ Here.plane = at.plane /\ Here.part = at.part /\ Here.off = pos
    BY <2>1, <1>3 DEF Here
  <2>4. ~ IsPart(Here) /\ ~ Due(Here)
    <3>1. Len(PartsOf(Here)) = Len(Parts)
      BY <2>1, <2>3 DEF PartsOf, Parts
    <3>2. at.col < img.cols => Len(Parts) \in Nat
      <4> SUFFICES ASSUME at.col < img.cols PROVE Len(Parts) \in Nat
        OBVIOUS
      <4>1. at.row + 1 \in 1 .. img.rows /\ at.col + 1 \in 1 .. img.cols
        BY <2>1, <1>3
      <4>2. PICK ps \in Seq(1 .. PK) : ps = Parts
        BY <4>1, <1>2, ImageFacts DEF Parts
      <4> QED BY <4>2
    <3>3. ~ IsPart(Here)
      BY <3>1, <3>2, <2>1, <2>3, <1>1, <1>3 DEF IsPart
    <3> QED BY <3>3 DEF Due
  <2>5. Here' = After(Here)
    <3>1. at'.part # 0 /\ at.part # 0 /\ pos' = pos
      BY <2>1, <1>1, <1>3, <1>4
    <3> QED BY <3>1, <2>4, <1>4 DEF After, Here
  <2>6. Here' \in Place
    <3>1. Types'
      BY TransformStep DEF Inv
    <3>2. pos' \in Nat /\ at' \in [row : Nat, col : Nat, plane : Nat, part : Nat]
      BY <3>1 DEF Types
    <3> QED BY <3>2 DEF Here, Place
  <2>7. /\ Debt' = Debt /\ (Comes(Here) => Comes(Here)')
        /\ Owing(Here) => Owing(Here)'
    BY <2>4, <2>5, <2>6, <1>1, WayGoesOn, OwingGoesOn, SameWay
  <2>8. Reachable(saved.io)' /\ (InSync(io) => InSync(io)')
    BY <2>2, <1>1, <1>2 DEF Reachable, InSync
  <2>9. io'.offRef = io.offRef /\ saved'.io.offRef = saved.io.offRef
    BY <1>1
  <2> QED BY <2>2, <2>7, <2>8, <2>9, <1>2
<1>10. RowEntered'
  <2> SUFFICES ASSUME at.row < img.rows, Enters(mbRow) PROVE Reachable(io)' /\ InSync(io)'
    BY <1>1, <1>2, <1>4 DEF RowEntered
  <2>1. at.part >= 1
    BY <1>5
  <2>2. Reachable(io) /\ InSync(io)
    BY <2>1, <1>1 DEF Spared, RowEntered
  <2> QED BY <2>2, <1>1, <1>2 DEF Reachable, InSync
<1> QED BY <1>6, <1>8, <1>9, <1>10 DEF Spared

(* The limit of a discard is no further than any tile row below.           *)
LEMMA DiscardSparesTiles ==
  ASSUME Types, Stored(ws, total), NEW row \in Nat, NEW t \in 1 .. Len(img.tiles),
         img.tiles[t].top > row
  PROVE  DiscardLimit(row) <= HeaderSize + img.tiles[t].offset
<1>1. /\ Len(img.tiles) \in Nat \ {0} /\ img.tiles[1].top = 0
      /\ \A i \in 1 .. Len(img.tiles) : img.tiles[i].top \in Nat /\ img.tiles[i].offset \in Nat
      /\ HeaderSize \in Nat /\ img.offset + img.tag \in Nat
      /\ GetPosWS_List(ws) \in Nat
  <2>1. GetPosWS_List(ws) \in Nat
    BY GetPosNat
  <2>2. img.offset + img.tag \in Nat
    <3>1. img.offset \in Nat /\ img.tag \in Nat
      BY ImageFacts
    <3> QED BY <3>1
  <2> QED BY <2>1, <2>2, ImageFacts
<1>2. \A i, j \in 1 .. Len(img.tiles) : i < j => img.tiles[i].top < img.tiles[j].top
  BY ImagesAssumption DEF Types, ImageType
<1>3. Len(img.tiles) # 1
  BY <1>1
<1>4. TileRowOf(row) \in 1 .. Len(img.tiles) /\ img.tiles[TileRowOf(row)].top <= row
  BY <1>1, TileRowOfIs
<1>5. t > TileRowOf(row)
  <2>1. PICK m \in 1 .. Len(img.tiles) : m = TileRowOf(row) /\ img.tiles[m].top <= row
    BY <1>4
  <2>2. img.tiles[m].top < img.tiles[t].top
    BY <2>1, <1>1
  <2>3. t < m => img.tiles[t].top < img.tiles[m].top
    BY <1>2
  <2> QED BY <2>1, <2>2, <2>3, <1>1
<1> DEFINE S == {img.offset + img.tag} \cup
                {HeaderSize + img.tiles[i].offset : i \in TileRowOf(row) + 1 .. Len(img.tiles)}
<1>6. S \in SUBSET Nat /\ HeaderSize + img.tiles[t].offset \in S
  <2>1. PICK m \in 1 .. Len(img.tiles) : m = TileRowOf(row)
    BY <1>4
  <2>2. t \in m + 1 .. Len(img.tiles)
    BY <2>1, <1>1, <1>5
  <2>3. \A i \in m + 1 .. Len(img.tiles) : HeaderSize + img.tiles[i].offset \in Nat
    BY <2>1, <1>1, SMTT(30)
  <2> QED BY <2>1, <2>2, <2>3, <1>1
<1>7. NextLowerLimit(row) = Min(S)
  BY DEF NextLowerLimit
<1> HIDE DEF S
<1>8. Min(S) \in S /\ Min(S) <= HeaderSize + img.tiles[t].offset
  BY <1>6, LeastNat DEF Min
<1>9. NextLowerLimit(row) \in Nat /\ HeaderSize + img.tiles[t].offset \in Nat
  BY <1>6, <1>7, <1>8
<1> QED BY <1>1, <1>3, <1>7, <1>8, <1>9 DEF DiscardLimit, Least

LEMMA SameSpared ==
  ASSUME Spared, UNCHANGED vars
  PROVE  Spared'
<1>1. UNCHANGED << img, ws, total, limit, io, pos, saved, again, tileRow, mbRow, at, line,
                   err, phase, busy >>
  BY DEF vars
<1>2. /\ Idle' = Idle /\ Enters(mbRow)' = Enters(mbRow) /\ HeaderSize' = HeaderSize
      /\ UpperLimit' = UpperLimit /\ Here' = Here
  BY <1>1 DEF Idle, Enters, TileRowAt, HeaderSize, UpperLimit, Here
<1>3. Debt' = Debt /\ (Comes(Here) => Comes(Here)') /\ (Owing(Here) => Owing(Here)')
  BY <1>1, <1>2, SameWay
<1>4. NeverDiscardedEarly' /\ Resting' /\ PacketsThere'
  BY <1>1, <1>2 DEF Spared, NeverDiscardedEarly, Resting, PacketsThere
<1>5. RowAhead' /\ RowOwed' /\ RowEntered'
  BY <1>1, <1>2, <1>3 DEF Spared, RowAhead, RowOwed, RowEntered, Reachable, InSync
<1>6. RowTried'
  BY <1>1, <1>2, <1>3 DEF Spared, RowTried, Reachable, InSync
<1> QED BY <1>4, <1>5, <1>6 DEF Spared

(* The next row's tiles are behind the limit of the discard, and the end   *)
(* of a row is past everything it owed.                                    *)
LEMMA EndRowSpares ==
  ASSUME Inv, Spared, EndRow
  PROVE  Spared'
<1>1. /\ at # Idle /\ at.col = img.cols + 1
      /\ UNCHANGED << img, total, limit, io, pos, saved, again, tileRow, err, phase, busy >>
  BY DEF EndRow
<1>2. /\ Types /\ Stored(ws, total) /\ UpperLimit' = UpperLimit /\ Idle' = Idle /\ ~ again /\ busy
      /\ HeaderSize' = HeaderSize /\ UpperLimit \in Nat /\ HeaderSize \in Nat
  BY <1>1, ImageFacts DEF Inv, UpperLimit, HeaderSize, Idle, Control, InRow
<1>3. /\ at.row \in Nat /\ at.col \in Nat /\ at.part \in Nat /\ mbRow \in Nat
      /\ img.cols \in Nat \ {0} /\ img.rows \in Nat \ {0}
      /\ at.row = mbRow \/ (mbRow = 0 /\ at.row = 1)
      /\ at.part >= 1
  <2>1. /\ at.row \in Nat /\ at.col \in Nat /\ at.part \in Nat /\ at.plane \in Nat /\ mbRow \in Nat
        /\ img.cols \in Nat \ {0} /\ img.rows \in Nat \ {0}
    BY <1>2, ImageFacts, TypeFacts
  <2> QED BY <2>1, <1>1 DEF Inv, InRow
<1>4. NeverDiscardedEarly' /\ Resting'
  BY <1>1, <1>2 DEF Spared, NeverDiscardedEarly, Resting
<1>5. CASE at.row = 0
  <2>1. /\ at' = [row |-> 1, col |-> 0, plane |-> 1, part |-> 0]
        /\ UNCHANGED << mbRow, line, ws >> /\ mbRow = 0
    BY <1>3, <1>5 DEF EndRow
  <2>2. at' # Idle' /\ Enters(mbRow) /\ Enters(mbRow)'
    BY <2>1, <1>1, <1>2, TileRowAtIn DEF Idle, Enters, TileRowAt
  <2>3. Reachable(io) /\ InSync(io)
    BY <2>2, <1>1, <1>3, <1>5 DEF Spared, RowEntered
  <2>4. Reachable(io)' /\ InSync(io)'
    BY <2>1, <2>3, <1>1, <1>2 DEF Reachable, InSync
  <2>5. PacketsThere'
    BY <2>1, <1>1, <1>2 DEF Spared, PacketsThere
  <2> QED BY <2>2, <2>4, <2>5, <1>1, <1>2, <1>4
          DEF Spared, RowAhead, RowOwed, RowTried, RowEntered
<1>6. CASE at.row # 0
  <2>1. /\ at' = Idle /\ mbRow' = at.row + 1
        /\ ws' = DiscardHeadWS_List(ws, DiscardLimit(mbRow))
    BY <1>6 DEF EndRow
  <2>2. DiscardLimit(mbRow) \in Nat
    BY <1>2, <1>3, DiscardLimitNat
  <2>3. /\ \/ ws'.cbDiscarded = ws.cbDiscarded
           \/ /\ ws'.cbDiscarded <= DiscardLimit(mbRow)
              /\ ws'.cbDiscarded <= Least(GetPosWS_List(ws), total)
        /\ GetPosWS_List(ws') = GetPosWS_List(ws)
    BY <2>1, <2>2, <1>2, DiscardSyncs
  <2>4. ws'.cbDiscarded \in Nat /\ ws.cbDiscarded \in Nat
    <3>1. Inv'
      BY EndRowStep
    <3> QED BY <3>1, <1>2 DEF Inv, Stored, StreamType
  <2>5. PacketsThere'
    <3> SUFFICES ASSUME NEW t \in 1 .. Len(img.tiles), img.tiles[t].top >= at.row + 1
                 PROVE  ws'.cbDiscarded <= HeaderSize + img.tiles[t].offset
      BY <2>1, <1>1, <1>2 DEF PacketsThere
    <3>1. img.tiles[t].top \in Nat /\ img.tiles[t].offset \in Nat /\ img.tiles[1].top = 0
          /\ Len(img.tiles) \in Nat
      BY <1>2, ImageFacts
    <3>2. img.tiles[t].top > mbRow
      BY <3>1, <1>3
    <3>3. CASE ws'.cbDiscarded = ws.cbDiscarded
      BY <3>1, <3>2, <3>3, <1>3 DEF Spared, PacketsThere
    <3>4. CASE ws'.cbDiscarded <= DiscardLimit(mbRow)
      <4>1. DiscardLimit(mbRow) <= HeaderSize + img.tiles[t].offset
        BY <3>2, <1>2, <1>3, DiscardSparesTiles
      <4>2. HeaderSize + img.tiles[t].offset \in Nat
        BY <3>1, <1>2
      <4> QED BY <3>4, <4>1, <4>2, <2>2, <2>4
    <3> QED BY <3>3, <3>4, <2>3
  <2>6. at.row < img.rows => Reachable(io) /\ InSync(io)
    <3> SUFFICES ASSUME at.row < img.rows PROVE Reachable(io) /\ InSync(io)
      OBVIOUS
    <3>1. Reachable(io)
      BY <1>1, <1>3, ReaderAhead
    <3>2. CASE Enters(mbRow)
      BY <3>2, <1>1, <1>3 DEF Spared, RowEntered
    <3>3. CASE ~ Enters(mbRow)
      <4>1. /\ at.row = mbRow /\ saved.io.offRef <= io.offRef /\ saved.io.offRef \in Nat
        BY <3>3, <1>1, <1>3, ReaderAhead
      <4>2. ~ Owing(Here)
        <5>1. Here.col >= img.cols
          BY <1>1, <1>3 DEF Here
        <5> QED BY <5>1, <1>2, NothingOwedPast
      <4>3. saved.io.offRef < UpperLimit => InSync(io)
        BY <3>3, <4>1, <4>2, <1>1 DEF Spared, RowTried
      <4>4. io.offRef < UpperLimit => saved.io.offRef < UpperLimit
        BY <4>1, <1>2, TypeFacts
      <4> QED BY <3>1, <4>3, <4>4 DEF InSync
    <3> QED BY <3>2, <3>3
  <2>7. RowAhead'
    <3> SUFFICES ASSUME mbRow' < img.rows PROVE Reachable(io)' /\ InSync(io)'
      BY <1>1 DEF RowAhead
    <3>1. Reachable(io) /\ InSync(io)
      BY <2>1, <2>6, <1>3
    <3>2. InSync(io)'
      BY <2>3, <3>1, <1>1, <1>2 DEF InSync
    <3>3. Reachable(io)'
      <4>1. Least(GetPosWS_List(ws), total) \in Nat /\ io.offRef \in Nat
        <5>1. GetPosWS_List(ws) \in Nat /\ total \in Nat
          BY <1>2, GetPosNat, TypeFacts
        <5> QED BY <5>1, <1>2, TypeFacts DEF Least
      <4> QED BY <2>3, <2>4, <3>1, <4>1, <1>1, <1>2 DEF Reachable, InSync
    <3> QED BY <3>2, <3>3
  <2>8. RowOwed' /\ RowTried' /\ RowEntered'
    BY <2>1, <1>1, <1>2 DEF RowOwed, RowTried, RowEntered
  <2> QED BY <2>5, <2>7, <2>8, <1>4 DEF Spared
<1> QED BY <1>5, <1>6

(* A call that returns, the end, and the size tag put right: at most the   *)
(* limit of the reader is lowered.                                         *)
LEMMA ReturnSpares ==
  ASSUME Inv, Spared, at = Idle, UpperLimit \in Nat, UpperLimit' \in Nat, UpperLimit' <= UpperLimit,
         ~ busy' /\ phase' = "rows" => line >= img.rows \/ again,
         UNCHANGED << img, ws, total, io, pos, saved, again, tileRow, mbRow, at, line, err >>
  PROVE  Spared'
<1>1. /\ Idle' = Idle /\ Enters(mbRow)' = Enters(mbRow) /\ HeaderSize' = HeaderSize
      /\ Debt' = Debt
  BY SameWay DEF Idle, Enters, TileRowAt, HeaderSize
<1>2. io.offRef \in Nat /\ saved.io.offRef \in Nat
  BY TypeFacts DEF Inv, Types, BitIOType
<1>3. NeverDiscardedEarly' /\ Resting' /\ PacketsThere'
  BY <1>1 DEF Spared, NeverDiscardedEarly, Resting, PacketsThere
<1>4. RowAhead'
  BY <1>1, <1>2 DEF Spared, RowAhead, Reachable, InSync
<1>5. RowOwed'
  BY <1>1, <1>2 DEF Spared, RowOwed, Reachable
<1>6. RowTried' /\ RowEntered'
  BY <1>1 DEF RowTried, RowEntered
<1> QED BY <1>3, <1>4, <1>5, <1>6 DEF Spared

(* No step discards what a row still needs.                                *)
THEOREM SparedStep == Inv /\ Spared /\ [Next]_vars => Spared'
<1> SUFFICES ASSUME Inv, Spared, [Next]_vars PROVE Spared'
  OBVIOUS
<1>1. UpperLimit \in Nat
  BY ImageFacts DEF Inv
<1>2. CASE UNCHANGED vars
  <2>1. UpperLimit' = UpperLimit
    BY <1>2 DEF vars, UpperLimit
  <2> QED BY <1>2, <2>1, <1>1, SameSpared DEF vars
<1>3. ASSUME NEW n \in Chunks, Receive(n) PROVE Spared'
  BY <1>3, ReceiveSpares
<1>4. CASE NothingLeft
  <2>1. UpperLimit' = UpperLimit
    BY <1>4 DEF NothingLeft, UpperLimit
  <2> QED BY <1>4, <2>1, <1>1, ReturnSpares DEF NothingLeft
<1>5. CASE Finish
  <2>1. UpperLimit' = UpperLimit /\ at = Idle
    BY <1>5 DEF Finish, UpperLimit, Inv, InRow
  <2> QED BY <1>5, <2>1, <1>1, ReturnSpares DEF Finish
<1>6. CASE FixSizeTag
  <2>1. at = Idle
    BY <1>6 DEF FixSizeTag, Inv, InRow
  <2>2. UpperLimit' \in Nat /\ UpperLimit' <= UpperLimit
    BY <1>6, LowerLimit DEF Inv
  <2> QED BY <1>6, <2>1, <2>2, <1>1, ReturnSpares DEF FixSizeTag
<1> QED BY <1>2, <1>3, <1>4, <1>5, <1>6, StartSpares, DecodeNextMBRowSpares, EnterRowSpares,
           DecodePartSpares, TransformSpares, EndRowSpares DEF Next

(* No refill and no tile row ever asks for bytes that were discarded: not  *)
(* after a try that failed, nor when the tile rows are stored in an order  *)
(* that is not theirs, nor when the size tag is wrong.                     *)
THEOREM NothingNeededDropped == Spec => []NeverDiscardedEarly
<1>1. Inv /\ Spared /\ [Next]_vars => (Inv /\ Spared)'
  BY InvStep, SparedStep
<1>2. Init => Inv /\ Spared
  BY InvInit, SparedInit
<1>3. Spared => NeverDiscardedEarly
  BY DEF Spared
<1> QED BY <1>1, <1>2, <1>3, PTL DEF Spec

-----------------------------------------------------------------------------
(* Every row comes out.                                                    *)

(* A reader attaches wherever the stream is, if all that it may read has   *)
(* arrived.                                                                *)
LEMMA AttachFits ==
  ASSUME NEW s, NEW t, Stored(s, t), NEW upper \in Nat, GetPosWS_List(s) < upper, upper <= t
  PROVE  AttachErr(s, upper) = "Success"
<1>1. t \in Nat /\ t > 0 /\ s.cbBuf = t /\ GetPosWS_List(s) \in Nat /\ GetPosWS_List(s) = CurrPos(s)
  BY GetPosNat DEF Stored
<1>2. PICK p \in Nat : p = GetPosWS_List(s)
  BY <1>1
<1>3. AttachSize(s, upper) \in Nat /\ AttachSize(s, upper) <= upper - p
  BY <1>2 DEF AttachSize, Least
<1>4. PICK n \in Nat : n = AttachSize(s, upper)
  BY <1>3
<1>5. Read1Err(s, n) = "Success"
  BY <1>1 DEF Read1Err
<1>6. Read1Size(s, n) = n
  BY <1>1, <1>2, <1>3, <1>4, <1>5 DEF Read1Size, Least
<1> QED BY <1>2, <1>4, <1>5, <1>6 DEF AttachErr

(* So does a refill succeed, of bytes that were not discarded.             *)
LEMMA RefillFits ==
  ASSUME NEW st, NEW t, Stored(st, t), NEW rd, rd.offRef \in Nat, NEW upper \in Nat,
         rd.offRef < upper, upper <= t, ReadISErr(rd, st, upper) # "DataDiscarded"
  PROVE  ReadISErr(rd, st, upper) = "Success"
<1>1. CASE ~ Used(rd)
  BY <1>1 DEF ReadISErr
<1>2. CASE Used(rd)
  <2>1. st.cbBuf = t /\ t \in Nat /\ t > 0
    BY DEF Stored
  <2>2. SetPosErr(st, rd.offRef) = "Success"
    BY <1>2, <2>1 DEF ReadISErr, SetPosErr
  <2>3. PICK s : s = RefillSeek(rd, st)
    OBVIOUS
  <2>4. RefillSize(rd, upper) \in Nat /\ RefillSize(rd, upper) <= upper - rd.offRef
    BY DEF RefillSize, Least
  <2>5. PICK n \in Nat : n = RefillSize(rd, upper) /\ n <= upper - rd.offRef
    BY <2>4
  <2>6. Stored(s, t) /\ GetPosWS_List(s) = rd.offRef
    BY <2>2, <2>3, <2>5, SeekReads DEF RefillSeek
  <2>7. s.cbBuf = t /\ CurrPos(s) = rd.offRef
    BY <2>1, <2>6, GetPosNat DEF Stored
  <2>8. Read1Err(s, n) = "Success"
    BY <2>1, <2>7 DEF Read1Err
  <2>9. Read1Size(s, n) = n
    BY <2>1, <2>5, <2>7, <2>8 DEF Read1Size, Least
  <2> QED BY <1>2, <2>2, <2>3, <2>5, <2>8, <2>9 DEF ReadISErr
<1> QED BY <1>1, <1>2

(* The stream behind a header that is not all that was received.           *)
LEMMA HeaderRead ==
  ASSUME NEW st, NEW t, Stored(st, t), st.cbDiscarded = 0, NEW off \in Nat, NEW n \in Nat, off + n < t,
         NEW s, s = SetPosWS_List(st, off), NEW h, h = Advance(s, n)
  PROVE  /\ SetPosErr(st, off) = "Success" /\ ReadErr(s, n) = "Success"
         /\ Stored(h, t) /\ GetPosWS_List(h) <= off + n
<1>1. st.cbBuf = t /\ t \in Nat /\ t > 0
  BY DEF Stored
<1>2. SetPosErr(st, off) = "Success"
  BY <1>1 DEF SetPosErr
<1>3. Stored(s, t) /\ GetPosWS_List(s) = off
  BY <1>2, SeekReads
<1>4. CurrPos(s) = off /\ s.cbBuf = t
  BY <1>1, <1>3, GetPosNat DEF Stored
<1>5. ReadErr(s, n) = "Success"
  BY <1>1, <1>4 DEF ReadErr
<1>6. Read1Size(s, n) = n
  <2>1. Read1Err(s, n) = "Success"
    BY <1>1, <1>4 DEF Read1Err
  <2> QED BY <2>1, <1>1, <1>4 DEF Read1Size, Least
<1>7. Stored(h, t)
  <2>1. s.cbBuf > 0 /\ CurrPos(s) + n <= s.cbBuf
    BY <1>1, <1>4
  <2> QED BY <2>1, <1>3, CopyKeeps
<1>8. Least(GetPosWS_List(h), t) <= off + n
  BY <1>2, <1>6, ReadsTo
<1>9. GetPosWS_List(h) \in Nat
  BY <1>7, GetPosNat
<1>10. GetPosWS_List(h) <= off + n
  BY <1>1, <1>8, <1>9 DEF Least
<1> QED BY <1>2, <1>5, <1>7, <1>10

(* Once the whole file is there, a call returns before the last row only   *)
(* if the size tag promises more.                                          *)
Waiting ==
  ~ busy /\ total = img.size =>
    /\ phase = "header" => total < img.offset + img.tag
    /\ phase = "rows" /\ line < img.rows => total < img.offset + img.tag
    /\ phase \in {"ending", "done"} => line = img.rows

Ends ==
  /\ phase = "header" => ws.cbDiscarded = 0
  /\ phase = "ending" => limit = total
  /\ busy => phase # "done"
  /\ Waiting

(* While rows are decoded, all that may be read of a whole file is there   *)
(* unless its size tag is to be put right yet.                             *)
LEMMA AllThere ==
  ASSUME Inv, Ends, phase \in {"rows", "ending"}, total = img.size, 0 < total,
         phase = "rows" => img.offset + img.tag <= total
  PROVE  UpperLimit <= total
<1>1. total \in Nat /\ limit \in Nat /\ img.offset + img.tag \in Nat
  <2>1. Types
    BY DEF Inv
  <2>2. img.offset \in Nat /\ img.tag \in Nat
    BY <2>1, ImageFacts
  <2> QED BY <2>1, <2>2, TypeFacts
<1>2. CASE phase = "rows"
  BY <1>1, <1>2 DEF Inv, Control, UpperLimit
<1>3. CASE phase = "ending"
  <2>1. limit = total
    BY <1>3 DEF Ends
  <2> QED BY <1>1, <2>1 DEF UpperLimit, Least
<1> QED BY <1>2, <1>3

(* A step that does not return.                                            *)
LEMMA RunningEnds ==
  ASSUME Ends, busy' = TRUE, phase' # "done", phase' = "header" => phase = "header",
         phase' = "header" => ws'.cbDiscarded = ws.cbDiscarded,
         phase' = "ending" => phase = "ending" /\ limit' = limit /\ total' = total
  PROVE  Ends'
  BY DEF Ends, Waiting

LEMMA ReceiveEnds ==
  ASSUME Inv, Ends, NEW n \in Chunks, Receive(n)
  PROVE  Ends'
<1>1. /\ busy' = TRUE /\ phase \in {"header", "rows"} /\ phase' = phase
      /\ Types /\ Stored(ws, total)
  BY DEF Receive, Inv
<1>2. ws'.cbDiscarded = ws.cbDiscarded
  <2> DEFINE m == Least(n, img.size - total)
  <2>1. m \in Nat
    <3>1. n \in Nat /\ total \in Nat /\ img.size \in Nat /\ total < img.size
      BY <1>1, ImageFacts, TypeFacts, ImagesAssumption DEF Receive
    <3> QED BY <3>1 DEF Least
  <2>2. ws' = WriteWS_List(SetPosWS_List(ws, total), Run(total, m))
    BY DEF Receive, Run
  <2> HIDE DEF m
  <2> QED BY <2>1, <2>2, <1>1, ReceiveKeeps
<1> QED BY <1>1, <1>2, RunningEnds

(* Decoding fails to start on the whole file only if the size tag promises *)
(* more: the header and its index table are all there.                     *)
LEMMA StartEnds ==
  ASSUME Inv, Ends, HeadsThere(img), Start
  PROVE  Ends'
<1> DEFINE s == SetPosWS_List(ws, img.offset)
           h == Advance(s, img.header)
           started == HeaderThere(s) /\ AttachErr(h, UpperLimit) = "Success"
           after == IF ~ HeaderThere(s) THEN s ELSE Advance(h, AttachTaken(h, UpperLimit))
<1>1. /\ phase = "header" /\ busy = TRUE
      /\ started => phase' = "rows" /\ busy' = busy
      /\ ~ started => ws' = after /\ phase' = phase /\ busy' = FALSE
      /\ UNCHANGED << img, total, limit, line >>
  BY TypeFacts DEF Start, Inv
<1>2. /\ Types /\ Stored(ws, total) /\ total \in Nat /\ UpperLimit \in Nat
      /\ img.offset \in Nat /\ img.header \in Nat /\ img.tag \in Nat /\ img.size \in Nat
      /\ UpperLimit = img.offset + img.tag /\ ws.cbDiscarded = 0
  BY <1>1, ImageFacts, TypeFacts DEF Inv, Control, Ends, UpperLimit
<1>3. CASE started
  BY <1>1, <1>3, RunningEnds
<1>4. CASE ~ started
  <2>1. after.cbDiscarded = 0
    <3>1. ws \in StreamType /\ s \in StreamType
      BY <1>2, SeekKeeps DEF Stored
    <3>2. s.cbDiscarded = 0
      BY <1>2, <3>1, MovesKeepHead
    <3>3. h.cbDiscarded = 0
      BY <1>2, <3>1, <3>2, MovesKeepHead
    <3>4. Advance(h, AttachTaken(h, UpperLimit)).cbDiscarded = h.cbDiscarded
      BY <3>1 DEF StreamType, Advance
    <3> QED BY <3>2, <3>3, <3>4
  <2>2. ASSUME total = img.size PROVE total < img.offset + img.tag
    <3> SUFFICES ASSUME img.offset + img.tag <= total PROVE FALSE
      BY <1>2
    <3>1. PICK o \in Nat : /\ img.header + o < img.tag /\ img.offset + img.header + o < img.size
      <4>1. 1 \in 1 .. Len(img.tiles) /\ img.tiles[1].offset \in Nat
        <5>1. Len(img.tiles) \in Nat \ {0}
          BY <1>2, ImageFacts
        <5>2. 1 \in 1 .. Len(img.tiles)
          BY <5>1
        <5> QED BY <5>2, <1>2, ImageFacts
      <4> QED BY <4>1 DEF HeadsThere
    <3>2. img.offset + img.header < total
      BY <1>2, <2>2, <3>1
    <3>3. HeaderThere(s) /\ Stored(h, total) /\ GetPosWS_List(h) <= img.offset + img.header
      BY <1>2, <3>2, HeaderRead DEF HeaderThere
    <3>4. GetPosWS_List(h) \in Nat
      BY <3>3, GetPosNat
    <3>5. GetPosWS_List(h) < UpperLimit /\ UpperLimit <= total
      BY <1>2, <3>1, <3>3, <3>4
    <3> HIDE DEF h
    <3>6. AttachErr(h, UpperLimit) = "Success"
      BY <1>2, <3>3, <3>5, AttachFits
    <3> QED BY <3>3, <3>6, <1>4
  <2> HIDE DEF started, after
  <2> QED BY <1>1, <1>4, <2>1, <2>2 DEF Ends, Waiting
<1> QED BY <1>3, <1>4

(* A try at a row that fails, or one that goes on.                         *)
LEMMA TryEnds ==
  ASSUME Inv, Ends, at # Idle, UNCHANGED << img, total, limit, line, phase >>, busy' \in BOOLEAN,
         total = img.size /\ (phase = "rows" => img.offset + img.tag <= total) => busy' = TRUE
  PROVE  Ends'
<1>1. phase \in {"rows", "ending"}
  BY DEF Inv, InRow, Control, Types, TypeOK, Ends
<1>2. total \in Nat /\ img.offset + img.tag \in Nat
  <2>1. Types
    BY DEF Inv
  <2>2. img.offset \in Nat /\ img.tag \in Nat
    BY <2>1, ImageFacts
  <2> QED BY <2>1, <2>2, TypeFacts
<1>3. Waiting'
  BY <1>1, <1>2 DEF Waiting
<1> QED BY <1>1, <1>3 DEF Ends

(* On the whole file no packet of a tile row is missed.                    *)
LEMMA EnterRowEnds ==
  ASSUME Inv, Ends, HeadsThere(img), Spared', EnterRow
  PROVE  Ends'
<1> DEFINE t == TileRowAt(at.row) + 1
           start == HeaderSize + img.tiles[t].offset
           s == SetPosWS_List(ws, start)
           e == IF SetPosErr(ws, start) # "Success" THEN SetPosErr(ws, start)
                ELSE AttachErr(s, UpperLimit)
<1>1. /\ at # Idle /\ UNCHANGED << img, total, limit, line, phase >>
      /\ busy' = busy \/ (busy' = FALSE /\ err' = e /\ e # "Success")
  BY DEF EnterRow, Fail
<1>2. /\ Types /\ Stored(ws, total) /\ total \in Nat /\ UpperLimit \in Nat /\ busy = TRUE
      /\ img.offset \in Nat /\ img.header \in Nat /\ img.tag \in Nat /\ img.size \in Nat
      /\ limit \in Nat
  BY <1>1, ImageFacts, TypeFacts DEF Inv, InRow
<1>3. ASSUME total = img.size, phase = "rows" => img.offset + img.tag <= total, e # "Success",
             err' = e
      PROVE  FALSE
  <2>1. t \in 1 .. Len(img.tiles) /\ img.tiles[t].offset \in Nat
    <3>1. at.row \in Nat /\ Len(img.tiles) \in Nat
      BY <1>2, ImageFacts, TypeFacts
    <3>2. t \in 1 .. Len(img.tiles)
      <4>1. TileRowAt(at.row) \in 0 .. Len(img.tiles) - 1
        BY <3>1, <1>2, TileRowAtIn
      <4> QED BY <4>1, <3>1
    <3> QED BY <3>2, <1>2, ImageFacts
  <2> HIDE DEF t
  <2>2. /\ start \in Nat /\ start = img.offset + img.header + img.tiles[t].offset
        /\ start < img.offset + img.tag /\ start < total
    <3>1. PICK o \in Nat : o = img.tiles[t].offset
      BY <2>1
    <3>2. img.header + o < img.tag /\ img.offset + img.header + o < img.size
      BY <2>1, <3>1 DEF HeadsThere
    <3>3. start = img.offset + img.header + o
      BY <3>1 DEF HeaderSize
    <3> QED BY <3>1, <3>2, <3>3, <1>2, <1>3
  <2>3. phase \in {"rows", "ending"}
    BY <1>1 DEF Inv, InRow, Control, Types, TypeOK, Ends
  <2>4. UpperLimit <= total
    BY <1>2, <1>3, <2>2, <2>3, AllThere
  <2>5. start < UpperLimit
    <3>1. CASE limit = 0
      BY <3>1, <2>2 DEF UpperLimit
    <3>2. CASE limit # 0
      <4>1. limit = total
        BY <3>2, <2>3 DEF Inv, Control, Ends
      <4> QED BY <4>1, <2>2, <1>2 DEF UpperLimit, Least
    <3> QED BY <3>1, <3>2
  <2> HIDE DEF start
  <2>6. SetPosErr(ws, start) = "Success"
    <3>1. ws.cbBuf = total /\ SetPosErr(ws, start) # "DataDiscarded"
      <4>1. e # "DataDiscarded"
        BY <1>3 DEF Spared, NeverDiscardedEarly
      <4> QED BY <4>1, <1>2 DEF Stored
    <3> QED BY <3>1, <2>2, <1>2 DEF SetPosErr
  <2>7. Stored(s, total) /\ GetPosWS_List(s) = start
    BY <2>2, <2>6, <1>2, SeekReads
  <2> HIDE DEF s
  <2>8. AttachErr(s, UpperLimit) = "Success"
    BY <2>4, <2>5, <2>7, <1>2, AttachFits
  <2> QED BY <1>3, <2>6, <2>8
<1> HIDE DEF e
<1> QED BY <1>1, <1>2, <1>3, TryEnds

(* Nor are the bytes of a refill, which were not discarded.                *)
LEMMA DecodePartEnds ==
  ASSUME Inv, Ends, HeadsThere(img), Spared', DecodePart
  PROVE  Ends'
<1> DEFINE due == io.offRef < UpperLimit
           e == IF due THEN ReadISErr(io, ws, UpperLimit) ELSE "Success"
<1>1. /\ at # Idle /\ UNCHANGED << img, total, limit, line, phase >> /\ err' = e
      /\ busy' = busy \/ (busy' = FALSE /\ e # "Success")
  BY DEF DecodePart, Fail, InPlane
<1>2. /\ Types /\ Stored(ws, total) /\ total \in Nat /\ UpperLimit \in Nat /\ busy = TRUE
      /\ io.offRef \in Nat /\ img.offset \in Nat /\ img.header \in Nat /\ img.size \in Nat
  BY <1>1, ImageFacts, TypeFacts DEF Inv, InRow
<1>3. ASSUME total = img.size, phase = "rows" => img.offset + img.tag <= total
      PROVE  e = "Success"
  <2>1. CASE due
    <3>1. phase \in {"rows", "ending"}
      BY <1>1 DEF Inv, InRow, Control, Types, TypeOK, Ends
    <3>2. 0 < total
      <4>1. Len(img.tiles) \in Nat \ {0}
        BY <1>2, ImageFacts
      <4>2. 1 \in 1 .. Len(img.tiles)
        BY <4>1
      <4>3. PICK o \in Nat : img.offset + img.header + o < img.size
        BY <4>2, <1>2, ImageFacts DEF HeadsThere
      <4> QED BY <4>3, <1>2, <1>3
    <3>3. UpperLimit <= total
      BY <1>3, <3>1, <3>2, AllThere
    <3>4. e # "DataDiscarded"
      BY <1>1 DEF Spared, NeverDiscardedEarly
    <3> QED BY <2>1, <3>3, <3>4, <1>2, RefillFits
  <2>2. CASE ~ due
    BY <2>2
  <2> QED BY <2>1, <2>2
<1> HIDE DEF e
<1> QED BY <1>1, <1>2, <1>3, TryEnds

(* The last row came out: the call returns.                                *)
LEMMA NothingLeftEnds ==
  ASSUME Inv, Ends, NothingLeft
  PROVE  Ends'
<1>1. /\ line >= img.rows /\ phase \in {"rows", "ending"}
      /\ UNCHANGED << img, ws, total, limit, line, phase >>
  BY DEF NothingLeft
<1>2. line = img.rows /\ img.rows \in Nat
  <2>1. line \in 0 .. img.rows /\ img.rows \in Nat
    BY ImageFacts DEF Inv, Types, TypeOK
  <2> QED BY <2>1, <1>1
<1>3. busy' = FALSE
  BY DEF NothingLeft
<1>4. Waiting'
  BY <1>1, <1>2 DEF Waiting
<1> QED BY <1>1, <1>3, <1>4 DEF Ends

(* Decoding is ended only when the size tag held, and then every row is    *)
(* out, or after it was put right.                                         *)
LEMMA FinishEnds ==
  ASSUME Inv, Ends, Finish
  PROVE  Ends'
<1>1. /\ ~ busy /\ phase \in {"rows", "ending"} /\ phase' = "done" /\ busy' = busy
      /\ phase = "rows" => ~ (total < img.offset + img.tag)
      /\ UNCHANGED << img, ws, total, limit, line >>
  BY DEF Finish, TagTooLarge
<1>2. line \in 0 .. img.rows /\ img.rows \in Nat
  BY ImageFacts DEF Inv, Types, TypeOK
<1>3. total = img.size => line = img.rows
  BY <1>1, <1>2 DEF Ends, Waiting
<1> QED BY <1>1, <1>3 DEF Ends, Waiting

(* Every action keeps Ends, given the two other invariants.                *)
THEOREM EndsStep ==
  Inv /\ Ends /\ HeadsThere(img) /\ Spared' /\ [Next]_vars => Ends' /\ HeadsThere(img)'
<1> SUFFICES ASSUME Inv, Ends, HeadsThere(img), Spared', [Next]_vars PROVE Ends' /\ HeadsThere(img)'
  OBVIOUS
<1>1. HeadsThere(img)'
  <2>1. img' = img
    BY DEF Next, vars, Receive, Start, DecodeNextMBRow, EnterRow, DecodePart, Transform, EndRow,
           NothingLeft, FixSizeTag, Finish
  <2> QED BY <2>1 DEF HeadsThere
<1> SUFFICES Ends'
  BY <1>1
<1>2. CASE UNCHANGED vars
  BY <1>2 DEF vars, Ends, Waiting
<1>3. ASSUME NEW n \in Chunks, Receive(n) PROVE Ends'
  BY <1>3, ReceiveEnds
<1>4. CASE DecodeNextMBRow \/ Transform \/ EndRow
  <2>1. /\ busy' = busy /\ UNCHANGED << img, total, limit, phase >>
        /\ DecodeNextMBRow => busy /\ phase # "header"
        /\ Transform \/ EndRow => at # Idle
    BY <1>4 DEF DecodeNextMBRow, Transform, EndRow
  <2>2. busy' = TRUE /\ phase # "header"
    BY <2>1, <1>4, TypeFacts DEF Inv, InRow, Control
  <2> QED BY <2>1, <2>2, RunningEnds DEF Ends
<1>5. CASE FixSizeTag
  <2>1. busy' = TRUE /\ phase' = "ending" /\ limit' = total /\ total' = total
    BY <1>5 DEF FixSizeTag, FixedLimit
  <2> QED BY <2>1 DEF Ends, Waiting
<1>6. CASE Start
  BY <1>6, StartEnds
<1>7. CASE EnterRow
  BY <1>7, EnterRowEnds
<1>8. CASE DecodePart
  BY <1>8, DecodePartEnds
<1>9. CASE NothingLeft \/ Finish
  BY <1>9, NothingLeftEnds, FinishEnds
<1> QED BY <1>2, <1>3, <1>4, <1>5, <1>6, <1>7, <1>8, <1>9 DEF Next

(* Of an image that is all there every row comes out: at once if the size  *)
(* tag is right, and at the end of the stream if it promised more.  The    *)
(* header and the beginning of each tile row must lie within the file and  *)
(* within what the tag says: EnterRow attaches to nothing else.            *)
THEOREM EveryRowOut == (\A i \in Images : HeadsThere(i)) => (Spec => []AllRowsOut)
<1> SUFFICES ASSUME \A i \in Images : HeadsThere(i) PROVE Spec => []AllRowsOut
  OBVIOUS
<1> DEFINE J == Inv /\ Spared /\ Ends /\ HeadsThere(img)
<1>1. Init => J
  <2> SUFFICES ASSUME Init PROVE Ends /\ HeadsThere(img)
    BY InvInit, SparedInit
  <2>1. HeadsThere(img) /\ img \in Images
    BY DEF Init
  <2>2. total # img.size
    <3>1. Types
      BY InvInit DEF Inv
    <3>2. Len(img.tiles) \in Nat \ {0} /\ img.offset \in Nat /\ img.header \in Nat /\ img.size \in Nat
      BY <3>1, ImageFacts
    <3>3. 1 \in 1 .. Len(img.tiles)
      BY <3>2
    <3>4. PICK o \in Nat : img.offset + img.header + o < img.size
      BY <2>1, <3>1, <3>3, ImageFacts DEF HeadsThere
    <3> QED BY <3>2, <3>4 DEF Init
  <2>3. Ends
    BY <2>2 DEF Init, Ends, Waiting, NewStream
  <2> QED BY <2>1, <2>3
<1>2. J /\ [Next]_vars => J'
  BY InvStep, SparedStep, EndsStep
<1>3. J => AllRowsOut
  <2> SUFFICES ASSUME Inv, Ends, total = img.size, ~ busy
               PROVE  /\ img.offset + img.tag <= img.size => line = img.rows
                      /\ phase = "done" => line = img.rows
    BY DEF AllRowsOut
  <2>1. /\ line \in 0 .. img.rows /\ img.rows \in Nat /\ total \in Nat
        /\ img.offset + img.tag \in Nat
        /\ phase \in {"header", "rows", "ending", "done"}
    <3>1. Types
      BY DEF Inv
    <3>2. img.offset \in Nat /\ img.tag \in Nat /\ img.rows \in Nat
      BY <3>1, ImageFacts
    <3>3. img.offset + img.tag \in Nat
      BY <3>2
    <3>4. line \in 0 .. img.rows /\ phase \in {"header", "rows", "ending", "done"}
      BY <3>1 DEF Types, TypeOK
    <3> QED BY <3>1, <3>2, <3>3, <3>4, TypeFacts
  <2> QED BY <2>1 DEF Ends, Waiting
<1> QED BY <1>1, <1>2, <1>3, PTL DEF Spec

-----------------------------------------------------------------------------
(* The coding context.  At every place of a row it has adapted to what     *)
(* precedes the place in its tile row, once; so has the one that was saved *)
(* when the row began, unless the row begins a tile row and resets it.     *)
Begin(row) == [row |-> row, col |-> 0, plane |-> 1, part |-> 0]

Passed(top, x, p, r, c, k) ==
  /\ top <= r
  /\ \/ r < x.row
     \/ r = x.row /\ c < x.col
     \/ r = x.row /\ c = x.col /\ p < x.plane
     \/ r = x.row /\ c = x.col /\ p = x.plane /\ k < x.part

Seen(top, x) ==
  [p \in Planes |-> [r \in 0 .. img.rows - 1 |-> [c \in Columns |->
     [k \in 1 .. Len(img.parts[r + 1][c + 1]) |-> IF Passed(top, x, p, r, c, k) THEN 1 ELSE 0]]]]

TileTop == img.tiles[tileRow + 1].top

Adapting ==
  at # Idle /\ at.row < img.rows /\ (at.part = 0 => ~ Enters(at.row)) =>
    TileTop <= at.row /\ ctx = Seen(TileTop, at)

AdaptedBefore ==
  mbRow < img.rows /\ ~ Enters(mbRow) =>
    /\ TileTop <= mbRow
    /\ at = Idle /\ ~ again => ctx = Seen(TileTop, Begin(mbRow))
    /\ at # Idle \/ again   => saved.ctx = Seen(TileTop, Begin(mbRow))

Adapted == Adapting /\ AdaptedBefore

(* Nothing is seen at the top of a tile row.                               *)
LEMMA SeenNothing ==
  ASSUME NEW x, x.row \in Int, x.col = 0, x.plane = 1, x.part <= 1, x.part \in Int
  PROVE  NewContext = Seen(x.row, x)
<1>1. \A p \in Planes : \A r \in 0 .. img.rows - 1 : \A c \in Columns :
        \A k \in 1 .. Len(img.parts[r + 1][c + 1]) :
          ~ Passed(x.row, x, p, r, c, k)
  BY DEF Passed, Planes, Columns
<1> QED BY <1>1 DEF NewContext, Seen

(* Places with the same parts before them have the same context.           *)
LEMMA SeenSame ==
  ASSUME NEW top, NEW x, NEW y,
         \A p \in Planes : \A r \in 0 .. img.rows - 1 : \A c \in Columns :
           \A k \in 1 .. Len(img.parts[r + 1][c + 1]) :
             Passed(top, x, p, r, c, k) <=> Passed(top, y, p, r, c, k)
  PROVE  Seen(top, x) = Seen(top, y)
  BY DEF Seen

LEMMA Whole == \A a, b, i : i \in a .. b => i \in Int
  OBVIOUS

LEMMA OneMore == \A a, b \in Int : \A d : d = b + 1 => (a < d <=> a < b \/ a = b)
  OBVIOUS

LEMMA AtMost == \A a, b \in Int : a <= b <=> a < b \/ a = b
  OBVIOUS

(* The part at a place is the next one seen.                               *)
LEMMA SeenNext ==
  ASSUME NEW top \in Int, NEW x, NEW y,
         x.plane \in Planes, x.row \in 0 .. img.rows - 1, x.col \in Columns,
         x.part \in 1 .. Len(img.parts[x.row + 1][x.col + 1]),
         top <= x.row,
         y.row = x.row, y.col = x.col, y.plane = x.plane, y.part = x.part + 1
  PROVE  Seen(top, y) = [Seen(top, x) EXCEPT ![x.plane][x.row][x.col][x.part] = @ + 1]
<1> DEFINE N(r, c) == 1 .. Len(img.parts[r + 1][c + 1])
           V(z, p, r, c, k) == IF Passed(top, z, p, r, c, k) THEN 1 ELSE 0
           part(z, p, r, c) == [k \in N(r, c) |-> V(z, p, r, c, k)]
           col(z, p, r)     == [c \in Columns |-> part(z, p, r, c)]
           row(z, p)        == [r \in 0 .. img.rows - 1 |-> col(z, p, r)]
           p0 == x.plane
           r0 == x.row
           c0 == x.col
<1>1. \A z : Seen(top, z) = [p \in Planes |-> row(z, p)]
  BY DEF Seen
<1>2. \A p \in Planes : \A r \in 0 .. img.rows - 1 : \A c \in Columns : \A k \in N(r, c) :
        V(y, p, r, c, k) =
          IF p = p0 /\ r = r0 /\ c = c0 /\ k = x.part THEN V(x, p, r, c, k) + 1
          ELSE V(x, p, r, c, k)
  <2> SUFFICES ASSUME NEW p \in Planes, NEW r \in 0 .. img.rows - 1, NEW c \in Columns,
                      NEW k \in N(r, c)
               PROVE  Passed(top, y, p, r, c, k) <=>
                        Passed(top, x, p, r, c, k) \/ (p = p0 /\ r = r0 /\ c = c0 /\ k = x.part)
    <3>1. ~ Passed(top, x, p0, r0, c0, x.part)
      BY DEF Passed, Planes, Columns
    <3> QED BY <3>1
  <2>1. p \in Int /\ r \in Int /\ c \in Int /\ k \in Int /\ x.part \in Int /\ x.plane \in Int
        /\ x.row \in Int /\ x.col \in Int
    BY Whole, Zenon DEF Planes, Columns
  <2>2. k < y.part <=> k < x.part \/ k = x.part
    <3>1. y.part = x.part + 1
      OBVIOUS
    <3> QED BY <2>1, <3>1, OneMore, Zenon
  <2> QED BY <2>1, <2>2 DEF Passed
<1> p0 \in Planes /\ r0 \in 0 .. img.rows - 1 /\ c0 \in Columns /\ x.part \in N(r0, c0)
  OBVIOUS
<1> HIDE DEF N, V, p0, r0, c0
<1>3. part(y, p0, r0, c0) = [part(x, p0, r0, c0) EXCEPT ![x.part] = @ + 1]
  BY <1>2
<1>4. \A p \in Planes : \A r \in 0 .. img.rows - 1 : \A c \in Columns :
        ~ (p = p0 /\ r = r0 /\ c = c0) => part(y, p, r, c) = part(x, p, r, c)
  BY <1>2
<1> HIDE DEF part
<1>5. col(y, p0, r0) = [col(x, p0, r0) EXCEPT ![c0] = part(y, p0, r0, c0)]
  BY <1>4
<1>6. \A p \in Planes : \A r \in 0 .. img.rows - 1 :
        ~ (p = p0 /\ r = r0) => col(y, p, r) = col(x, p, r)
  BY <1>4
<1>7. col(x, p0, r0)[c0] = part(x, p0, r0, c0)
  OBVIOUS
<1> HIDE DEF col
<1>8. row(y, p0) = [row(x, p0) EXCEPT ![r0] = col(y, p0, r0)] /\ row(x, p0)[r0] = col(x, p0, r0)
  BY <1>6
<1>9. \A p \in Planes : p # p0 => row(y, p) = row(x, p)
  BY <1>6
<1> HIDE DEF row
<1>10. Seen(top, y) = [Seen(top, x) EXCEPT ![p0] = row(y, p0)] /\ Seen(top, x)[p0] = row(x, p0)
  BY <1>1, <1>9
<1> DEFINE S == Seen(top, x)
<1>11. S[p0] = row(x, p0) /\ S[p0][r0] = col(x, p0, r0) /\ S[p0][r0][c0] = part(x, p0, r0, c0)
  BY <1>7, <1>8, <1>10
<1>12. Seen(top, y) =
        [S EXCEPT ![p0] = [S[p0] EXCEPT ![r0] = [S[p0][r0] EXCEPT ![c0] =
          [S[p0][r0][c0] EXCEPT ![x.part] = S[p0][r0][c0][x.part] + 1]]]]
  BY <1>3, <1>5, <1>8, <1>10, <1>11
<1> HIDE DEF S
<1>13. [S EXCEPT ![p0][r0][c0][x.part] = @ + 1] =
        [S EXCEPT ![p0] = [S[p0] EXCEPT ![r0] = [S[p0][r0] EXCEPT ![c0] =
          [S[p0][r0][c0] EXCEPT ![x.part] = S[p0][r0][c0][x.part] + 1]]]]
  OBVIOUS
<1> QED BY <1>12, <1>13 DEF p0, r0, c0, S

LEMMA StaysInTile ==
  ASSUME Types, NEW row \in Nat, ~ Enters(row)
  PROVE  row > 0 /\ TileRowAt(row) = tileRow
<1>1. Enters(0)
  BY TileRowAtIn
<1>2. row > 0
  BY <1>1
<1>3. tileRow \in Nat
  BY TypeFacts
<1> QED BY <1>2, <1>3 DEF Enters, TileRowAt

LEMMA SeenStill == UNCHANGED img => \A top, x : Seen(top, x)' = Seen(top, x)
  BY DEF Seen, Passed, Planes, Columns

LEMMA AdaptedInit == Init => Adapted
<1> SUFFICES ASSUME Init PROVE Adapted
  OBVIOUS
<1>1. at = Idle /\ mbRow = 0 /\ Types
  BY InvInit DEF Init, Inv
<1> QED BY <1>1, TileRowAtIn DEF Adapted, Adapting, AdaptedBefore

LEMMA SameAdapted ==
  ASSUME Adapted, UNCHANGED << img, ctx, saved, again, tileRow, mbRow, at >>
  PROVE  Adapted'
  BY DEF Adapted, Adapting, AdaptedBefore, Seen, Passed, Begin, TileTop, Enters, TileRowAt, Idle,
         Planes, Columns

(* A try goes back to the context saved, or saves it.                      *)
LEMMA DecodeNextMBRowAdapted ==
  ASSUME Inv, Adapted, DecodeNextMBRow
  PROVE  Adapted'
<1>1. /\ at = Idle /\ at' = Begin(mbRow) /\ UNCHANGED << img, tileRow, mbRow >>
      /\ \/ again /\ ctx' = saved.ctx /\ saved' = saved /\ again' = FALSE
         \/ ~ again /\ ctx' = ctx /\ saved'.ctx = ctx /\ again' = again
  BY DEF DecodeNextMBRow, RestoredContext, Begin
<1>2. at' # Idle' /\ at'.row = mbRow
  BY <1>1 DEF Begin, Idle
<1>3. /\ Enters(mbRow)' = Enters(mbRow) /\ TileTop' = TileTop
      /\ \A x : Seen(TileTop, x)' = Seen(TileTop, x)
  BY <1>1 DEF Enters, TileRowAt, TileTop, Seen, Passed, Planes, Columns
<1>4. mbRow < img.rows /\ ~ Enters(mbRow) =>
        /\ TileTop <= mbRow
        /\ ctx' = Seen(TileTop, Begin(mbRow)) /\ saved'.ctx = Seen(TileTop, Begin(mbRow))
  BY <1>1 DEF Adapted, AdaptedBefore
<1>5. Adapting'
  BY <1>1, <1>2, <1>3, <1>4 DEF Adapting, Begin
<1>6. AdaptedBefore'
  BY <1>1, <1>2, <1>3, <1>4 DEF AdaptedBefore, Begin
<1> QED BY <1>5, <1>6 DEF Adapted

(* The context is reset where a tile row begins, and only there.           *)
LEMMA EnterRowAdapted ==
  ASSUME Inv, Adapted, EnterRow
  PROVE  Adapted'
<1>1. /\ at # Idle /\ at.part = 0 /\ at.row < img.rows /\ tileRow' = TileRowAt(at.row)
      /\ UNCHANGED << img, saved, mbRow >>
      /\ \/ ~ Enters(at.row) /\ at' = [at EXCEPT !.part = 1] /\ ctx' = ctx
         \/ Enters(at.row) /\ at' = Idle /\ again' = TRUE
         \/ Enters(at.row) /\ at' = [at EXCEPT !.part = 1] /\ ctx' = NewContext
  BY DEF EnterRow, Enters, Fail
<1>2. /\ Types /\ Idle' = Idle
      /\ \A top, x : Seen(top, x)' = Seen(top, x)
      /\ at \in [row : Nat, col : Nat, plane : Nat, part : Nat]
      /\ at.row \in Nat /\ mbRow \in Nat /\ (at.row = mbRow \/ mbRow = 0)
  BY <1>1, TypeFacts, SeenStill DEF Inv, Types, InRow, Idle
<1>3. at.col = 0 /\ at.plane = 1
  BY <1>1, TypeFacts DEF Inv, InRow
<1>4. at' # Idle => /\ at'.row = at.row /\ at'.col = 0 /\ at'.plane = 1 /\ at'.part = 1
                    /\ at' = [at EXCEPT !.part = 1]
  BY <1>1, <1>2, <1>3
<1>5. Adapting'
  <2> SUFFICES ASSUME at' # Idle PROVE TileTop' <= at'.row /\ ctx' = Seen(TileTop', at')
    BY <1>2 DEF Adapting
  <2>1. CASE Enters(at.row)
    <3>1. TileTop' = at.row /\ ctx' = NewContext
      BY <2>1, <1>1 DEF TileTop, Enters
    <3>2. NewContext = Seen(at'.row, at')
      BY <1>2, <1>4, SeenNothing
    <3> QED BY <3>1, <3>2, <1>2, <1>4
  <2>2. CASE ~ Enters(at.row)
    <3>1. tileRow' = tileRow /\ ctx' = ctx
      BY <2>2, <1>1, <1>2, StaysInTile
    <3>2. TileTop' = TileTop /\ TileTop <= at.row /\ ctx = Seen(TileTop, at)
      BY <2>2, <3>1, <1>1 DEF TileTop, Adapted, Adapting
    <3>3. Seen(TileTop, at) = Seen(TileTop, at')
      <4>1. \A p \in Planes : \A r \in 0 .. img.rows - 1 : \A c \in Columns :
              \A k \in 1 .. Len(img.parts[r + 1][c + 1]) :
                Passed(TileTop, at, p, r, c, k) <=> Passed(TileTop, at', p, r, c, k)
        BY <1>1, <1>3, <1>4 DEF Passed
      <4> QED BY <4>1, SeenSame
    <3> QED BY <3>1, <3>2, <3>3, <1>4
  <2> QED BY <2>1, <2>2
<1>6. AdaptedBefore'
  <2> SUFFICES ASSUME mbRow < img.rows, ~ Enters(mbRow)'
               PROVE  TileTop' <= mbRow /\ saved.ctx = Seen(TileTop', Begin(mbRow))
    <3>1. ~ (at' = Idle /\ ~ again')
      BY <1>1, <1>4, <1>2 DEF Idle
    <3>2. Begin(mbRow)' = Begin(mbRow)
      BY <1>1 DEF Begin
    <3> QED BY <3>1, <3>2, <1>1, <1>2 DEF AdaptedBefore
  <2>1. ~ Enters(mbRow)
    BY <1>1, EnterKeeps
  <2>2. at.row = mbRow
    BY <2>1, <1>2, TileRowAtIn
  <2>3. TileTop' = TileTop
    BY <2>1, <2>2, <1>1, <1>2, StaysInTile DEF TileTop
  <2> QED BY <2>1, <2>3, <1>1 DEF Adapted, AdaptedBefore
<1> QED BY <1>5, <1>6 DEF Adapted

(* A part that is decoded is the next one; one that is not takes the try   *)
(* back.                                                                   *)
LEMMA DecodePartAdapted ==
  ASSUME Inv, Adapted, DecodePart
  PROVE  Adapted'
<1>1. /\ at # Idle /\ at.row < img.rows /\ at.col < img.cols /\ at.part >= 1 /\ at.part <= Len(Parts)
      /\ UNCHANGED << img, saved, mbRow, tileRow >>
      /\ \/ at' = Idle /\ again' = TRUE
         \/ /\ ctx' = [ctx EXCEPT ![at.plane][at.row][at.col][at.part] = @ + 1]
            /\ at' = [at EXCEPT !.part = @ + 1]
  BY DEF DecodePart, InPlane, Fail
<1>2. /\ Types /\ Idle' = Idle /\ Enters(mbRow)' = Enters(mbRow) /\ TileTop' = TileTop
      /\ \A top, x : Seen(top, x)' = Seen(top, x)
      /\ Begin(mbRow)' = Begin(mbRow)
  BY <1>1, SeenStill DEF Inv, Idle, Enters, TileRowAt, TileTop, Begin
<1>3. /\ at \in [row : Nat, col : Nat, plane : Nat, part : Nat]
      /\ at.row \in 0 .. img.rows - 1 /\ at.col \in Columns /\ at.plane \in Planes
      /\ at.part \in 1 .. Len(img.parts[at.row + 1][at.col + 1])
  <2>1. at \in [row : Nat, col : Nat, plane : Nat, part : Nat]
    BY <1>2 DEF Types
  <2>2. img.rows \in Nat /\ img.cols \in Nat /\ img.planes \in Nat
    BY <1>2, ImageFacts
  <2>3. at.row \in 0 .. img.rows - 1 /\ at.col \in Columns
    BY <2>1, <2>2, <1>1 DEF Columns
  <2>4. at.plane \in Planes
    BY <2>1, <2>2, <1>1 DEF Inv, InRow, Planes
  <2>5. at.part \in 1 .. Len(img.parts[at.row + 1][at.col + 1])
    <3>4. at.row + 1 \in 1 .. img.rows /\ at.col + 1 \in 1 .. img.cols
      BY <2>2, <2>3 DEF Columns
    <3>1. PICK ps \in Seq(1 .. PK) : ps = img.parts[at.row + 1][at.col + 1]
      BY <3>4, <1>2, ImageFacts
    <3>2. Len(ps) \in Nat
      OBVIOUS
    <3> QED BY <3>1, <3>2, <2>1, <1>1 DEF Parts
  <2> QED BY <2>1, <2>3, <2>4, <2>5
<1>4. at' # Idle =>
        /\ at'.row = at.row /\ at'.col = at.col /\ at'.plane = at.plane /\ at'.part = at.part + 1
        /\ ctx' = [ctx EXCEPT ![at.plane][at.row][at.col][at.part] = @ + 1]
  BY <1>1, <1>2, <1>3
<1>5. Adapting'
  <2> SUFFICES ASSUME at' # Idle PROVE TileTop' <= at'.row /\ ctx' = Seen(TileTop', at')
    BY <1>2 DEF Adapting
  <2>1. TileTop <= at.row /\ ctx = Seen(TileTop, at)
    <3>1. at.part # 0
      BY <1>3
    <3> QED BY <3>1, <1>1 DEF Adapted, Adapting
  <2>2. TileTop \in Int
    <3>1. tileRow + 1 \in 1 .. Len(img.tiles)
      BY <1>2, ImageFacts DEF Types, TypeOK
    <3> QED BY <3>1, <1>2, ImageFacts DEF TileTop
  <2>3. Seen(TileTop, at') = [Seen(TileTop, at) EXCEPT ![at.plane][at.row][at.col][at.part] = @ + 1]
    <3>1. PICK x : x = at
      OBVIOUS
    <3>2. PICK y : y = at'
      OBVIOUS
    <3>3. /\ x.plane \in Planes /\ x.row \in 0 .. img.rows - 1 /\ x.col \in Columns
          /\ x.part \in 1 .. Len(img.parts[x.row + 1][x.col + 1]) /\ TileTop <= x.row
          /\ y.row = x.row /\ y.col = x.col /\ y.plane = x.plane /\ y.part = x.part + 1
      BY <3>1, <3>2, <2>1, <1>3, <1>4
    <3>4. Seen(TileTop, y) = [Seen(TileTop, x) EXCEPT ![x.plane][x.row][x.col][x.part] = @ + 1]
      BY <3>3, <2>2, SeenNext
    <3> QED BY <3>1, <3>2, <3>4
  <2> QED BY <2>1, <2>3, <1>2, <1>4
<1>6. AdaptedBefore'
  <2>1. at' = Idle => again' = TRUE
    <3>1. at.part + 1 # 0
      BY <1>3
    <3> QED BY <3>1, <1>1, <1>3 DEF Idle
  <2> QED BY <2>1, <1>1, <1>2 DEF Adapted, AdaptedBefore
<1> QED BY <1>5, <1>6 DEF Adapted

(* The transform moves on when all parts of the macroblock are decoded.    *)
LEMMA TransformAdapted ==
  ASSUME Inv, Adapted, Transform
  PROVE  Adapted'
<1>1. /\ at # Idle /\ at.col <= img.cols
      /\ at.row = img.rows \/ at.col = img.cols \/ at.part > Len(Parts)
      /\ \/ at.plane < img.planes /\ at' = [at EXCEPT !.plane = @ + 1, !.part = 1]
         \/ /\ ~ (at.plane < img.planes)
            /\ at' = [at EXCEPT !.col = @ + 1, !.plane = 1, !.part = 1]
      /\ UNCHANGED << img, ctx, saved, mbRow, tileRow, again >>
  BY DEF Transform
<1>2. /\ Types /\ Idle' = Idle /\ Enters(mbRow)' = Enters(mbRow) /\ TileTop' = TileTop
      /\ \A top, x : Seen(top, x)' = Seen(top, x)
      /\ Begin(mbRow)' = Begin(mbRow)
  BY <1>1, SeenStill DEF Inv, Idle, Enters, TileRowAt, TileTop, Begin
<1>3. /\ at \in [row : Nat, col : Nat, plane : Nat, part : Nat] /\ at.row \in 0 .. img.rows
      /\ img.rows \in Nat /\ img.cols \in Nat /\ img.planes \in Nat
      /\ at.col > 0 => at.part >= 1
  BY <1>1, <1>2, ImageFacts DEF Inv, InRow, Types, TypeOK
<1>4. /\ at'.row = at.row /\ at'.part = 1 /\ at' # Idle
      /\ \/ at'.col = at.col /\ at'.plane = at.plane + 1 /\ at.plane < img.planes
         \/ at'.col = at.col + 1 /\ at'.plane = 1 /\ ~ (at.plane < img.planes)
  <2>1. /\ at'.row = at.row /\ at'.part = 1
        /\ \/ at'.col = at.col /\ at'.plane = at.plane + 1 /\ at.plane < img.planes
           \/ at'.col = at.col + 1 /\ at'.plane = 1 /\ ~ (at.plane < img.planes)
    BY <1>1, <1>3
  <2>2. at' # Idle
    BY <2>1 DEF Idle
  <2> QED BY <2>1, <2>2
<1>5. Adapting'
  <2> SUFFICES ASSUME at.row < img.rows PROVE TileTop <= at.row /\ ctx = Seen(TileTop, at')
    BY <1>1, <1>2, <1>4 DEF Adapting
  <2>1. /\ at.part >= 1
        /\ at.col < img.cols =>
             /\ Len(img.parts[at.row + 1][at.col + 1]) \in Nat
             /\ at.part > Len(img.parts[at.row + 1][at.col + 1])
    <3>1. CASE at.col = img.cols
      <4>1. img.cols # 0
        BY <1>2, ImageFacts
      <4> QED BY <4>1, <3>1, <1>3
    <3>2. CASE at.col # img.cols
      <4>1. /\ at.row + 1 \in 1 .. img.rows /\ at.col + 1 \in 1 .. img.cols
            /\ at.part > Len(Parts)
        <5>1. at.row # img.rows /\ at.col # img.cols
          BY <3>2, <1>3
        <5>2. at.part > Len(Parts)
          BY <5>1, <1>1
        <5>3. at.row \in Nat /\ at.col \in Nat /\ at.row < img.rows /\ at.col < img.cols
          BY <5>1, <1>1, <1>3
        <5> QED BY <5>2, <5>3, <1>3
      <4>2. PICK ps \in Seq(1 .. PK) : ps = Parts
        BY <4>1, <1>2, ImageFacts DEF Parts
      <4>3. Len(ps) \in Nat
        OBVIOUS
      <4> QED BY <4>1, <4>2, <4>3, <1>3 DEF Parts
    <3> QED BY <3>1, <3>2
  <2>2. TileTop <= at.row /\ ctx = Seen(TileTop, at)
    BY <2>1, <1>1, <1>3 DEF Adapted, Adapting
  <2>3. ASSUME NEW p \in Planes, NEW r \in 0 .. img.rows - 1, NEW c \in Columns,
               NEW k \in 1 .. Len(img.parts[r + 1][c + 1])
        PROVE  Passed(TileTop, at, p, r, c, k) <=> Passed(TileTop, at', p, r, c, k)
    <3>1. p \in 1 .. img.planes /\ c \in 0 .. img.cols - 1
      BY DEF Planes, Columns
    <3>2. r = at.row /\ c = at.col => k < at.part
      <4> SUFFICES ASSUME r = at.row, c = at.col PROVE k < at.part
        OBVIOUS
      <4>1. at.col < img.cols
        BY <3>1, <1>3
      <4>2. /\ Len(img.parts[at.row + 1][at.col + 1]) \in Nat
            /\ at.part > Len(img.parts[at.row + 1][at.col + 1])
        BY <4>1, <2>1
      <4>3. k \in 1 .. Len(img.parts[at.row + 1][at.col + 1])
        OBVIOUS
      <4> QED BY <4>2, <4>3, <1>3
    <3>3. k >= 1 /\ k \in Int
      OBVIOUS
    <3>4. CASE r = at.row /\ c = at.col
      BY <3>1, <3>2, <3>3, <3>4, <1>3, <1>4 DEF Passed
    <3>5. CASE ~ (r = at.row /\ c = at.col)
      <4>1. r = at.row => (c < at.col <=> \/ c < at'.col
                                          \/ c = at'.col /\ p < at'.plane
                                          \/ c = at'.col /\ p = at'.plane /\ k < at'.part)
        BY <3>1, <3>3, <3>5, <1>3, <1>4
      <4> QED BY <4>1, <3>5, <1>4 DEF Passed
    <3> QED BY <3>4, <3>5
  <2> QED BY <2>2, <2>3, SeenSame
<1>6. AdaptedBefore'
  BY <1>1, <1>2, <1>4 DEF Adapted, AdaptedBefore
<1> QED BY <1>5, <1>6 DEF Adapted

(* The row that ends is all before the next one.                           *)
LEMMA EndRowAdapted ==
  ASSUME Inv, Adapted, EndRow
  PROVE  Adapted'
<1>1. /\ at # Idle /\ at.col = img.cols + 1
      /\ \/ at.row = 0 /\ at' = Begin(1) /\ mbRow' = mbRow
         \/ at.row # 0 /\ at' = Idle /\ mbRow' = at.row + 1
      /\ UNCHANGED << img, ctx, saved, again, tileRow >>
  BY DEF EndRow, Begin
<1>2. /\ Types /\ Idle' = Idle /\ ~ again /\ TileTop' = TileTop
      /\ \A top, x : Seen(top, x)' = Seen(top, x)
      /\ \A row : Enters(row)' = Enters(row) /\ Begin(row)' = Begin(row)
      /\ Begin(1) # Idle /\ Begin(1).row = 1 /\ Begin(1).part = 0
  BY <1>1, SeenStill DEF Inv, Control, Idle, Enters, TileRowAt, TileTop, Begin
<1>3. /\ at.row \in 0 .. img.rows /\ at.col \in Nat /\ at.plane \in Nat /\ at.part \in Nat
      /\ img.cols \in Nat /\ img.rows \in Nat /\ (at.row = mbRow \/ (mbRow = 0 /\ at.row = 1))
      /\ at.part >= 1
  <2>1. img.cols \in Nat \ {0} /\ img.rows \in Nat /\ at.col \in Nat
    BY <1>2, ImageFacts, TypeFacts
  <2>2. at.col > 0
    BY <2>1, <1>1
  <2> QED BY <2>1, <2>2, <1>1, <1>2, TypeFacts DEF Types, TypeOK, Inv, InRow
<1>4. at.row < img.rows => /\ TileTop <= at.row + 1 /\ ctx = Seen(TileTop, Begin(at.row + 1))
  <2> SUFFICES ASSUME at.row < img.rows
               PROVE  TileTop <= at.row + 1 /\ ctx = Seen(TileTop, Begin(at.row + 1))
    OBVIOUS
  <2>1. TileTop <= at.row /\ ctx = Seen(TileTop, at)
    BY <1>1, <1>3 DEF Adapted, Adapting
  <2>2. TileTop \in Int
    <3>1. tileRow + 1 \in 1 .. Len(img.tiles)
      BY <1>2, ImageFacts DEF Types, TypeOK
    <3> QED BY <3>1, <1>2, ImageFacts DEF TileTop
  <2>3. ASSUME NEW p \in Planes, NEW r \in 0 .. img.rows - 1, NEW c \in Columns,
               NEW k \in 1 .. Len(img.parts[r + 1][c + 1])
        PROVE  Passed(TileTop, at, p, r, c, k) <=> Passed(TileTop, Begin(at.row + 1), p, r, c, k)
    <3> HIDE DEF TileTop
    <3>1. r \in Int /\ c \in Int /\ k \in Int /\ p \in Int /\ k >= 1 /\ p >= 1 /\ c >= 0 /\ c < img.cols
      BY <1>3 DEF Planes, Columns
    <3>2. Passed(TileTop, at, p, r, c, k) <=> TileTop <= r /\ r <= at.row
      <4>1. c < at.col /\ (r <= at.row <=> r < at.row \/ r = at.row)
        <5>1. at.row \in Int /\ at.col \in Int /\ img.cols \in Int /\ ~ (at.col < img.cols)
          BY <1>1, <1>3
        <5>2. r <= at.row <=> r < at.row \/ r = at.row
          BY <3>1, <5>1, AtMost, Zenon
        <5> QED BY <3>1, <5>1, <5>2
      <4> QED BY <3>1, <4>1 DEF Passed
    <3>3. Passed(TileTop, Begin(at.row + 1), p, r, c, k) <=> TileTop <= r /\ r < at.row + 1
      BY <3>1, <1>3 DEF Passed, Begin
    <3> QED BY <3>1, <3>2, <3>3, <1>3
  <2>4. Seen(TileTop, at) = Seen(TileTop, Begin(at.row + 1))
    BY <2>3, SeenSame
  <2> QED BY <2>1, <2>2, <2>4, <1>3
<1>5. CASE at.row = 0
  <2>1. at' = Begin(1) /\ mbRow' = 0
    BY <1>1, <1>3, <1>5
  <2>2. 0 < img.rows /\ Enters(0)
    <3>1. img.rows \in Nat \ {0}
      BY <1>2, ImageFacts
    <3>2. Enters(0)
      BY <1>2, TileRowAtIn
    <3> QED BY <3>1, <3>2
  <2>3. TileTop <= 1 /\ ctx = Seen(TileTop, Begin(1))
    BY <2>2, <1>4, <1>5
  <2>4. Adapting' /\ AdaptedBefore'
    BY <2>1, <2>2, <2>3, <1>1, <1>2 DEF Adapting, AdaptedBefore
  <2> QED BY <2>4 DEF Adapted
<1>6. CASE at.row # 0
  <2>1. at' = Idle /\ mbRow' = at.row + 1
    BY <1>1, <1>6
  <2>2. mbRow' < img.rows => TileTop <= mbRow' /\ ctx = Seen(TileTop, Begin(mbRow'))
    BY <2>1, <1>3, <1>4
  <2>3. Begin(mbRow)' = Begin(mbRow')
    BY DEF Begin
  <2>4. Adapting' /\ AdaptedBefore'
    BY <2>1, <2>2, <2>3, <1>1, <1>2 DEF Adapting, AdaptedBefore
  <2> QED BY <2>4 DEF Adapted
<1> QED BY <1>5, <1>6

(* Every action keeps Adapted, given the first invariant.                  *)
THEOREM AdaptedStep == Inv /\ Adapted /\ [Next]_vars => Adapted'
<1> SUFFICES ASSUME Inv, Adapted, [Next]_vars PROVE Adapted'
  OBVIOUS
<1>1. CASE UNCHANGED vars
  BY <1>1, SameAdapted DEF vars
<1>2. ASSUME NEW n \in Chunks, Receive(n) PROVE Adapted'
  BY <1>2, SameAdapted DEF Receive
<1>3. CASE Start \/ NothingLeft \/ FixSizeTag \/ Finish
  BY <1>3, SameAdapted DEF Start, NothingLeft, FixSizeTag, Finish
<1> QED BY <1>1, <1>2, <1>3, DecodeNextMBRowAdapted, EnterRowAdapted, DecodePartAdapted,
           TransformAdapted, EndRowAdapted DEF Next

(* However often a row was tried, the coding context of a plane has        *)
(* adapted to exactly the parts that precede the next one in its tile row, *)
(* and to each of them once.                                               *)
THEOREM AdaptsInStep == Spec => []ContextInStep
<1>1. Init => Inv /\ Adapted
  BY InvInit, AdaptedInit
<1>2. Inv /\ Adapted /\ [Next]_vars => (Inv /\ Adapted)'
  BY InvStep, AdaptedStep
<1>3. Inv /\ Adapted => ContextInStep
  <2> SUFFICES ASSUME Inv, Adapted, InPlane,
                      NEW r \in 0 .. img.rows - 1, NEW c \in Columns, NEW k \in DOMAIN img.parts[r + 1][c + 1]
               PROVE  ctx[at.plane][r][c][k] = IF Precedes(r, c, k) THEN 1 ELSE 0
    BY DEF ContextInStep
  <2>1. /\ at # Idle /\ at.row < img.rows /\ at.part >= 1 /\ Types
        /\ img.rows \in Nat /\ img.cols \in Nat /\ at.plane \in Planes /\ at.part \in Nat
    <3>1. Types /\ at # Idle /\ at.row < img.rows /\ at.part >= 1
      BY DEF InPlane, Inv
    <3>2. at.plane \in Nat /\ at.part \in Nat /\ img.rows \in Nat /\ img.cols \in Nat /\ img.planes \in Nat
      BY <3>1, ImageFacts, TypeFacts
    <3> QED BY <3>1, <3>2 DEF Inv, InRow, Planes
  <2>2. ctx = Seen(TileTop, at)
    BY <2>1 DEF Adapted, Adapting
  <2>3. k \in 1 .. Len(img.parts[r + 1][c + 1])
    <3>1. r + 1 \in 1 .. img.rows /\ c + 1 \in 1 .. img.cols
      BY <2>1 DEF Columns
    <3>2. PICK ps \in Seq(1 .. PK) : ps = img.parts[r + 1][c + 1]
      BY <3>1, <2>1, ImageFacts
    <3> QED BY <3>2
  <2>4. ctx[at.plane][r][c][k] = IF Passed(TileTop, at, at.plane, r, c, k) THEN 1 ELSE 0
    BY <2>1, <2>2, <2>3 DEF Seen
  <2>5. Passed(TileTop, at, at.plane, r, c, k) <=> Precedes(r, c, k)
    BY <2>1 DEF Passed, Precedes, TileTop, Planes
  <2> QED BY <2>4, <2>5
<1> QED BY <1>1, <1>2, <1>3, PTL DEF Spec

=============================================================================
