SPECIFICATION Spec
CONSTANTS
  Address = {1, 2}
  MaxSessions = 2
  MaxPackets = 0
  MaxFaults = 1
  MaxCloses = 1
INVARIANT
  CloseCompletes
CHECK_DEADLOCK FALSE
