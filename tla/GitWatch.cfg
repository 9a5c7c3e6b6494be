SPECIFICATION FairSpec
CONSTANTS
  Sources = {1, 2}
  MaxCommit = 2
  MaxPushes = 2
  MaxOperations = 2
  MaxNudges = 1
  MaxRestarts = 1
INVARIANTS
  NudgeIsAnswered
PROPERTIES
  ShipsACommitOnce
  ShipsTheNewest
CHECK_DEADLOCK FALSE
