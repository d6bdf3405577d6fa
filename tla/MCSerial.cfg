SPECIFICATION FairSpec
CONSTANTS
  MaxWrites = 3
  MaxFaults = 2
  MaxCloses = 2
INVARIANTS
  OneWriteAtATime
  ChunksInOrder
  OpenedIsRead
  ReopensDoNotMultiply
PROPERTIES
  StaysOpenUnlessStuck
  LossIsNoticed
CHECK_DEADLOCK FALSE
