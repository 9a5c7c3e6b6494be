SPECIFICATION FairSpec
CONSTANTS
  Containers = {c1, c2}
  StablePorts = {s1}
  EphPorts = {e1}
  NoCtr = NoCtr
  NoPort = NoPort
  Requests = {"stop", "deploy"}
  MaxRequests = 1
  MaxFaults = 1
  MaxVersion = 3
  BootSettles = TRUE
PROPERTIES
  CutoverSettles
  StopHonoured
  OrphansCollected
  RouteConverges
CHECK_DEADLOCK FALSE
