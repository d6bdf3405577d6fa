SPECIFICATION FairSpec
CONSTANTS
  Remote = {r1, r2}
  Size = {0, 2}
  MaxDatagrams = 3
  MaxSends = 1
  MaxFaults = 1
  Unspecified = unspecified
  Everyone = everyone
INVARIANTS
  WholeInOrder
  LoopStaysCounted
  ErrorsNameTheirRemote
PROPERTIES
  ReceivedUnlessEmpty
  JoinReturns
CHECK_DEADLOCK FALSE
