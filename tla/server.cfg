SPECIFICATION FairHistorySpec
CONSTANTS
  Publishers = {p1, p2}
  Streams = {s1}
  Closer = closer
  NoWriter = NoWriter
  Cap = 1
  MaxEvents = 3
  MaxID = 1
  Keys = {k1}
  Issued = {}
  NoToken = NoToken
  masterKey = master
  Plans <- MCPlans
CHECK_DEADLOCK FALSE
INVARIANT TypeOK
INVARIANT RevokedIsRefused
INVARIANT NobodyStaysBehind
PROPERTY Answered
PROPERTY SignalEnds
