---------------------------- MODULE MCDecodePool ----------------------------
(* Small files for DecodePool: kept in store or written straight to the    *)
(* decoder, good, broken, or too short to hold their size.                 *)
EXTENDS DecodePool

File(header, size, bad, storing) == [header |-> header, size |-> size, bad |-> bad, storing |-> storing]

MCFiles == {File(1, 3, 0, s) : s \in BOOLEAN} \cup {File(2, 3, 3, s) : s \in BOOLEAN}
           \cup {File(2, 1, 0, TRUE)}
=============================================================================
