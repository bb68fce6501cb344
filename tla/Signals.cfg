SPECIFICATION Spec
CONSTANTS
  Loads = {0, 2}
  Cores = 2
  Windows = {1, 2}
  Percents = {50, 95}
  MaxTime = 3
  MaxPolls = 3
  Unit = 6
  None = None
INVARIANTS
  SignalsTypeOK
  ThroughputHonest
  NoFalseIdle
  WindowsComplete
  EvidenceRecent
  PercentilesRank
CHECK_DEADLOCK FALSE
