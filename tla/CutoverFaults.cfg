SPECIFICATION Spec
CONSTANTS
  Containers = {c1, c2, c3}
  StablePorts = {s1}
  EphPorts = {e1, e2}
  NoCtr = NoCtr
  NoPort = NoPort
  Requests = {"stop", "restart", "deploy", "rollback"}
  MaxRequests = 1
  MaxFaults = 2
  MaxVersion = 3
  BootSettles = TRUE
SYMMETRY Symmetric
INVARIANTS
  PointerNamesServing
  MarkerTellsTheSide
PROPERTY
  CommitIsFinal
  NoDialToRetired
CHECK_DEADLOCK FALSE
