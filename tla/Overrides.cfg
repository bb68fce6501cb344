SPECIFICATION Spec
CONSTANTS
  Cid = {c1, c2, c3}
  NoCid = NoCid
  Min = 2
  Max = 3
  Step = 1
  UpCooldown = 0
  DownCooldown = 0
  StartupGrace = 0
  UnhealthyThreshold = 0
  ReplaceTimeout = 1
  MaxRestarts = 1
  Commands = {"up", "up_foreign", "down", "cordon", "uncordon", "replace"}
  FaultKinds = {"twingate", "actuator", "store"}
  MaxFaults = 1
SYMMETRY Symmetry
INVARIANTS
  LeaksPerFault
  PhantomsPerFault
  ActionsSerialized
PROPERTIES
  CordonRespected
  ReplacementKept
  ReplacementServesFirst
