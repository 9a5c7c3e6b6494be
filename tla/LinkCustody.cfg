SPECIFICATION Spec
CONSTANTS
  Callers = {r1, r2}
  Dirs = {"d1", "d2"}
  Custom = "own"
  NoPath = "none"
  Free = Free
  Clouds = {"x", "y"}
  NoCloud = "none"
  MaxCalls = 4
  MaxPuts = 1
  MaxSwaps = 1
  MaxRestarts = 1
  MaxKeys = 3
  MaxNodes = 2
INVARIANTS
  KeyOutlivesTheLink
  ShowsItsOwnLink
PROPERTIES
  LinksTheKeyItProved
  LinksOnlyOnAsking
CHECK_DEADLOCK FALSE
