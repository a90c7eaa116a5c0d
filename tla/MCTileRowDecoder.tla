------------------------- MODULE MCTileRowDecoder -------------------------
(* Small images for TileRowDecoder.                                        *)
EXTENDS TileRowDecoder

(* Packets of one byte, the last one of one or two; the size tag may be    *)
(* right or too large, the file whole, with a byte to spare, or cut short, *)
(* between two packets or in the last one.                                 *)

Ends == {[upper |-> 8, content |-> 8, size |-> 8],  [upper |-> 9, content |-> 8, size |-> 8],
         [upper |-> 8, content |-> 8, size |-> 9],  [upper |-> 8, content |-> 8, size |-> 5],
         [upper |-> 9, content |-> 9, size |-> 8]}

Image(tops, rows, spatial, table, e) ==
  [tops |-> tops, rows |-> rows, table |-> table, spatial |-> spatial, head |-> 2,
   upper |-> e.upper, content |-> e.content, size |-> e.size]

(* tile row by tile row; bands of a tile together; the rows and the        *)
(* columns swapped in the file                                             *)
ScanOrder  == << << <<0>>, <<1>> >>, << <<2>>, <<3>> >>, << <<4>>, <<5>> >> >>
Swapped    == << << <<3>>, <<0>> >>, << <<1>>, <<4>> >>, << <<2>>, <<5>> >> >>
Upside     == << << <<4>>, <<5>> >>, << <<2>>, <<3>> >>, << <<0>>, <<1>> >> >>
OneShort   == << << <<0>>, <<1>> >>, << <<3>>, <<5>> >> >>
TileByTile == << << <<0, 1>>, <<2, 0>> >>, << <<3, 4>>, <<5, 0>> >> >>

(* One macroblock row in the first, a middle or every tile row.            *)
OneRowTops == {<< <<0, 1, 2>>, 3 >>, << <<0, 1, 2>>, 4 >>, << <<0, 2, 3>>, 5 >>, << <<0, 1, 3>>, 4 >>}

MCImages ==
  {Image(t[1], t[2], TRUE, ScanOrder, e) : t \in OneRowTops \cup {<< <<0, 2, 4>>, 6 >>}, e \in Ends}
  \cup {Image(<<0, 2, 4>>, 5, TRUE, tab, e) : tab \in {Swapped, Upside}, e \in Ends}
  \cup {Image(t, 4, sp[1], sp[2], e) : t \in {<<0, 1>>, <<0, 2>>, <<0, 3>>},
          sp \in {<< TRUE, OneShort >>, << FALSE, TileByTile >>}, e \in Ends}

===========================================================================
