SPECIFICATION Spec
CONSTANTS
  Dag <- Misfits
  SagaFail = "__SAGA_FAIL__"
  NoTask = "none"
  Nodes = {n1, n2}
  Consumers = {}
  n1 = n1
  n2 = n2
  Free = Free
  Orphan = Orphan
  FaultKinds = {"crash", "close"}
  MaxFaults = 1
INVARIANT CompensationJustified
INVARIANT NoLostWork
CHECK_DEADLOCK FALSE
