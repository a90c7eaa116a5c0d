----------------------- MODULE MCProgressiveDecoder -----------------------
(* Small images for ProgressiveDecoder.  A packet is one byte; in OneRow   *)
(* and TwoRows the last one may be longer, and be what a cut goes through. *)
EXTENDS ProgressiveDecoder

(* How macroblocks are smoothed: not at all, everywhere, or but where the  *)
(* transform takes tiles to meet.                                          *)
Apart == [overlap |-> FALSE, hard |-> TRUE]
Loose == [overlap |-> FALSE, hard |-> FALSE]
Soft  == [overlap |-> TRUE, hard |-> FALSE]
Hard  == [overlap |-> TRUE, hard |-> TRUE]

Image(tops, rows, lefts, how, table, n, extra, cut) ==  \* n bytes of packets
  [tops |-> tops, rows |-> rows, lefts |-> lefts, table |-> table, spatial |-> FALSE, head |-> 2,
   overlap |-> how.overlap, hard |-> how.hard,
   upper |-> n + 2 + extra, content |-> n + 2, size |-> n + 2 - cut]

(* one tile row, two tile columns of two bands                             *)
OneRow(how, last, extra, cut) ==
  Image(<<0>>, 2, <<0, 1>>, how, << << <<0, 2>>, <<1, 3>> >> >>, 3 + last, extra, cut)

(* two tile rows of two bands                                              *)
TwoRows(tops, how, last, extra, cut) ==
  Image(tops, 4, <<0>>, how, << << <<0, 2>> >>, << <<1, 3>> >> >>, 3 + last, extra, cut)

(* two tile rows and two tile columns of two bands                         *)
Grid(tops, lefts, how, extra) ==
  Image(tops, 4, lefts, how, << << <<0, 4>>, <<1, 5>> >>, << <<2, 6>>, <<3, 7>> >> >>, 8, extra, 0)

(* Three tile rows and two bands; the second band is there for the tile    *)
(* rows in has, in order.                                                  *)
Sparse(tops, rows, how, has, extra) ==
  Image(tops, rows, <<0>>, how,
        [r \in 1 .. 3 |-> << << r - 1, IF r \in has THEN 2 + Cardinality({q \in has : q <= r}) ELSE 0 >> >>],
        3 + Cardinality(has), extra, 0)

MCImages ==
  {OneRow(Apart, 1, 0, 0), OneRow(Hard, 1, 0, 2), OneRow(Soft, 2, 0, 1)}
  \cup {TwoRows(tops, how, e[1], e[2], e[3]) :
          tops \in {<<0, 1>>, <<0, 2>>, <<0, 3>>}, how \in {Apart, Soft, Hard},
          e \in {<<1, 0, 0>>, <<1, 1, 0>>, <<1, 0, 2>>, <<2, 0, 1>>}}
  \cup {Grid(<<0, 2>>, lefts, Hard, 1) : lefts \in {<<0, 1>>, <<0, 2>>, <<0, 3>>}}
  \cup {Sparse(<<0, 2, 4>>, 5, Loose, has, extra) :
          has \in {{1, 2, 3}, {2, 3}, {3}, {2}}, extra \in {0, 1}}
  \cup {Sparse(<<0, 2, 4>>, 5, Soft, has, 0) : has \in {{1, 2, 3}, {1, 2}}}
  \cup {Sparse(<<0, 2, 4>>, 5, Hard, {1, 2, 3}, 0)}

(* The images are such as the theorems are about.                          *)
ASSUME ImagesRefinable == \A i \in MCImages : Refinable(i) /\ Nested(i)

===========================================================================
