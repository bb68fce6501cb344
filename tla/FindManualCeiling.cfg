SPECIFICATION Spec
CONSTANTS
  Cid = {c1, c2, c3, c4}
  NoCid = NoCid
  Min = 2
  Max = 3
  Step = 1
  UpCooldown = 1
  DownCooldown = 1
  StartupGrace = 1
  UnhealthyThreshold = 1
  ReplaceTimeout = 1
  MaxRestarts = 1
  Commands = {"up_foreign"}
  FaultKinds = {}
  MaxFaults = 0
SYMMETRY Symmetry
PROPERTIES
  ManualScaleWithinCeiling
