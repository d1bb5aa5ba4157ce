SPECIFICATION HistorySpec
CONSTANTS
  Publishers = {p1, p2}
  Streams = {s1, s2}
  Closer = closer
  NoWriter = NoWriter
  Cap = 1
  MaxEvents = 2
  MaxID = 3
SYMMETRY Symmetry
CHECK_DEADLOCK FALSE
INVARIANT TypeOK
INVARIANT NoPanic
INVARIANT InOrder
INVARIANT Delivered
INVARIANT NoneLeaked
