SPECIFICATION FairSpec
CONSTANTS
  MaxWrites = 1
  MaxFaults = 1
  MaxCloses = 0
PROPERTY
  AllMessagesSent
CHECK_DEADLOCK FALSE
