SPECIFICATION FairSpec
CONSTANTS
  CircularIndex = TRUE
  MaxNumMsg = 2
  MaxMsgSize = 1
  Priority = {0}
  Buffer = {"short"}
  Size <- MCSize
  NoData = NoData
  NoMsg = NoMsg
  NoCall = NoCall
  Threads = {t1, t2, t3}
  BufferSize = {1}
INVARIANTS
  BlockedCounts
  NoLostReceiverWakeup
  NoLostSenderWakeup
  NoStandoff
PROPERTIES
  WaitersProceed
  TimedCallsReturn
