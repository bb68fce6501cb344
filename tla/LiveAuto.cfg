SPECIFICATION FairSpec
CONSTANTS
  Cid = {c1, c2, c3}
  NoCid = NoCid
  Min = 2
  Max = 2
  Step = 1
  UpCooldown = 0
  DownCooldown = 0
  StartupGrace = 0
  UnhealthyThreshold = 0
  ReplaceTimeout = 1
  MaxRestarts = 1
  Commands = {}
  FaultKinds = {"loss"}
  MaxFaults = 1
PROPERTIES
  DrainsEnd
  FloorRestored
  ReplacesResolve
