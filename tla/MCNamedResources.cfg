SPECIFICATION FairSpec
CONSTANTS
  Handle = {h1, h2, h3}
  None = none
  MaxFaults = 1
INVARIANTS
  SharedUntilRemoved
  NamesDoNotLeak
PROPERTY
  NotifiedReturns
CHECK_DEADLOCK FALSE
