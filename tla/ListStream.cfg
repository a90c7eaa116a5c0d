\* Packets of three bytes; chunk and read sizes that fall short of, meet and
\* cross a packet boundary (seven always crosses two).
SPECIFICATION Spec
CONSTANTS
  PL = 3
  Sizes = {0, 1, 2, 3, 4, 7}
  MaxBytes = 12
INVARIANTS
  ListOK
  NoLeak
  ReceivedIntact
  SeekLands
PROPERTY ImplementsByteStream
CHECK_DEADLOCK FALSE
