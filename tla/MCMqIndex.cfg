SPECIFICATION IndexSpec
CONSTANTS
  CircularIndex = TRUE
  MaxNumMsg = 6
  MaxMsgSize = 1
  Priority = {0, 1, 2}
  Buffer = {"empty", "short", "long"}
  Size <- MCSize
  NoData = NoData
  NoMsg = NoMsg
VIEW MCView
INVARIANTS
  IndexTypeOK
  IndexIsPermutation
  StoredSorted
  FreeMsgsClean
  LowerBoundAssertions
PROPERTY
  ImplementsPriorityQueue
