SPECIFICATION Spec
CONSTANTS
  Cid = {c1, c2}
  NoCid = NoCid
  Iid = {i1, i2}
  NoInst = NoInst
  Platforms = {"docker", "ecs", "aci"}
  MaxFaults = 1
  MaxRetries = 2
  StopAttempts = 2
INVARIANTS
  OpsTypeOK
  SingleActiveToken
PROPERTIES
  OperationsEnd
  DrainBeforeStop
  CallsKeepLifecycle
