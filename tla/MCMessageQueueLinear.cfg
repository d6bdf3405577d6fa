SPECIFICATION Spec
CONSTANTS
  CircularIndex = FALSE
  MaxNumMsg = 3
  MaxMsgSize = 1
  Priority = {0, 1}
  Buffer = {"short", "long"}
  Size <- MCSize
  NoData = NoData
  NoMsg = NoMsg
  NoCall = NoCall
  Threads = {t1, t2, t3}
  BufferSize = {0, 1}
SYMMETRY MCSymmetry
VIEW MCView
INVARIANT
  IndexIsPermutation
PROPERTY
  ImplementsPriorityQueue
