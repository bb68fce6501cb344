SPECIFICATION Spec
CONSTANTS
  Cid = {c1, c2, c3, c4}
  NoCid = NoCid
  Min = 2
  Max = 3
  Step = 1
  UpCooldown = 1
  DownCooldown = 1
  StartupGrace = 1
  UnhealthyThreshold = 1
  ReplaceTimeout = 1
  MaxRestarts = 1
  Commands = {"stop"}
  FaultKinds = {"twingate", "actuator", "store", "crash"}
  MaxFaults = 1
SYMMETRY Symmetry
INVARIANTS
  TypeOK
  DrainingIsUnrouted
PROPERTIES
  FloorKept
  ScaleUpWithinCeiling
