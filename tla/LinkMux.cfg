SPECIFICATION MuxFairSpec
CONSTANTS
  Ids = {1, 2}
  MaxStreams = 2
  MaxOpen = 1
  Kinds = {"api", "app"}
  Wrapped = {"app"}
INVARIANTS
  LiveIsTracked
  ResponseIsWhole
PROPERTIES
  ClosedDirectIsSilent
  EveryStreamEnds
CHECK_DEADLOCK FALSE
