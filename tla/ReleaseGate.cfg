SPECIFICATION FairSpec
CONSTANTS
  Requests = {"deploy", "rollback", "restart", "stop", "drain"}
  MaxRequests = 2
  MaxFaults = 1
  MaxVersion = 3
  SurvivingTags = {}
  KeepTags = 1
  Losable = {2}
INVARIANTS
  ReleaseOnce
  ReleaseOnRecord
PROPERTIES
  UnfinishedReleaseHoldsLaunch
  SupersededIsHandsOff
  DeploySettles
CHECK_DEADLOCK FALSE
