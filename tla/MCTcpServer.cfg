SPECIFICATION FairSpec
CONSTANTS
  Address = {a1, a2}
  MaxSessions = 2
  MaxPackets = 2
  MaxFaults = 1
  MaxCloses = 1
CONSTRAINT
  FirstSessionThere
INVARIANTS
  MapMatchesReports
  LateHandlersMeetOwnSession
  ChunksFlow
PROPERTY
  LossIsReported
CHECK_DEADLOCK FALSE
