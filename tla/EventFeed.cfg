SPECIFICATION FairSpec
CONSTANTS
  Filters = {{}, {"edge"}}
  KeepLast = 2
  Chunk = 1
  RetryMax = 2
  BatchMax = 2
  QueueMax = 1
  MaxReplay = 1
  MaxCatchup = 2
  MaxRows = 3
  InitRows = 1
  MaxFaults = 1
INVARIANTS
  SuppressedIsOnRecord
  NewestAreKept
  CursorSkipsNothing
  StreamIsExact
PROPERTIES
  CursorComesPast
CHECK_DEADLOCK FALSE
