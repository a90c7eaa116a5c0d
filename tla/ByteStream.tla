----------------------------- MODULE ByteStream -----------------------------
(***************************************************************************)
(* What a receiving stream promises its readers: bytes arrive at the end,  *)
(* a reader moves to any byte that has arrived and was not given up, gets  *)
(* the bytes that follow in order, and may give up bytes it has passed.    *)
(* A byte is its number in the order of arrival.                           *)
(***************************************************************************)
EXTENDS Integers, Sequences

VARIABLES len,     \* bytes that have arrived
          pos,     \* the byte the next read returns first
          floor,   \* bytes below this one were given up
          got      \* what the last read returned

streamVars == << len, pos, floor, got >>

Fresh == len = 0 /\ pos = 0 /\ floor = 0 /\ got = << >>

Arrive ==
  /\ len' \in Nat /\ len' >= len
  /\ pos' = len'
  /\ got' = << >>
  /\ UNCHANGED floor

Seek ==
  /\ pos' \in floor .. len
  /\ got' = << >>
  /\ UNCHANGED << len, floor >>

Fetch ==
  /\ pos' \in pos .. len
  /\ got' = [i \in 1 .. pos' - pos |-> pos + i - 1]
  /\ UNCHANGED << len, floor >>

GiveUp ==
  /\ floor' \in floor .. pos
  /\ got' = << >>
  /\ UNCHANGED << len, pos >>

Refuse == got' = << >> /\ UNCHANGED << len, pos, floor >>

Renew == len' = 0 /\ pos' = 0 /\ floor' = 0 /\ got' = << >>

StreamNext == Arrive \/ Seek \/ Fetch \/ GiveUp \/ Refuse \/ Renew

StreamSpec == Fresh /\ [][StreamNext]_streamVars

=============================================================================
