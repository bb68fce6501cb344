SPECIFICATION FairSpec
CONSTANTS
  Slot = {s1, s2, s3}
  MinConnectors = 2
  MaxConnectors = 3
  ScaleStep = 1
  Trigger = "quorum"
  QuorumNum = 2
  QuorumDen = 3
  High = 4
  Low = 1
  Top = 4
  Window = 1
  Agg = "avg"
  UpCooldown = 3
  DownCooldown = 3
  Demands = {0, 10}
  MayMiss = FALSE
INVARIANTS
  TypeOK
  BoundsHold
PROPERTIES
  FreshEvidence
  NoFlapping
  Settles
  Relieves
