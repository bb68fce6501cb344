SPECIFICATION Spec
CONSTANTS
  Cid = {c1, c2}
  NoCid = NoCid
  Iid = {i1, i2, i3}
  NoInst = NoInst
  Platforms = {"ecs"}
  MaxFaults = 0
  MaxRetries = 2
  StopAttempts = 2
SYMMETRY Symmetry
INVARIANTS
  RemovalRemoves
