SPECIFICATION Spec
CONSTANTS
  Deleters = {d1, d2}
  RunSlots = {r1}
  ReleaseSlots = {q1}
  MaxRows = 2
  MaxLaunches = 2
  MaxRestarts = 1
  MaxFaults = 1
SYMMETRY Symmetric
INVARIANT
  BytesKept
PROPERTIES
  KnownRunsAreDown
  LiveRowKeepsItsOwn
CHECK_DEADLOCK FALSE
