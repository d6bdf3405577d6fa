SPECIFICATION FairSpec
CONSTANTS
  MaxWrites = 3
  MaxFaults = 2
  MaxCloses = 1
INVARIANTS
  OneWriteAtATime
  ChunksInOrder
  ConnectedIsRead
  ReconnectsDoNotMultiply
PROPERTIES
  ReconnectsUnlessStuck
  LossIsNoticed
CHECK_DEADLOCK FALSE
