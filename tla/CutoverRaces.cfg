SPECIFICATION Spec
CONSTANTS
  Containers = {c1, c2, c3}
  StablePorts = {s1}
  EphPorts = {e1, e2}
  NoCtr = NoCtr
  NoPort = NoPort
  Requests = {"stop", "restart", "deploy", "drain"}
  MaxRequests = 2
  MaxFaults = 0
  MaxVersion = 3
  BootSettles = TRUE
SYMMETRY Symmetric
INVARIANT
  StoppedIsDown
  Ownership
PROPERTIES
  KeepsServing
CHECK_DEADLOCK FALSE
