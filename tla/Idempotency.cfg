SPECIFICATION FairSpec
CONSTANTS
  Requests = {r1, r2, r3}
  None = None
  MaxEffects = 1
  MaxCrashes = 1
  MaxFailures = 1
PROPERTIES
  ImplementsOncePerKey
  KeyComesFree
CHECK_DEADLOCK FALSE
