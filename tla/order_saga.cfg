SPECIFICATION LedgerFairSpec
CONSTANTS
  Dag <- PackedOrder
  SagaFail = "__SAGA_FAIL__"
  NoTask = "none"
  Nodes = {n1, n2}
  Consumers = {c1, c2}
  n1 = n1
  n2 = n2
  c1 = c1
  c2 = c2
  Free = Free
  Orphan = Orphan
  FaultKinds = {"redeliver"}
  MaxFaults = 1
  Funds = 1
INVARIANT FailedMeansUndone
INVARIANT AtMostOnce
INVARIANT NoStall
INVARIANT NoLostTask
INVARIANT NoLostUpdate
INVARIANT Restored
PROPERTY NoRegression
PROPERTY EventuallyUndone
CHECK_DEADLOCK FALSE
