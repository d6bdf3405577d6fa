SPECIFICATION FairSpec
CONSTANTS
  MaxWrites = 1
  MaxFaults = 1
  MaxCloses = 0
PROPERTY
  ConnectedAgain
CHECK_DEADLOCK FALSE
