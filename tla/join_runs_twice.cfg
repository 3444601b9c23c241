SPECIFICATION Spec
CONSTANTS
  Dag <- Diamond
  SagaFail = "__SAGA_FAIL__"
  NoTask = "none"
  Nodes = {n1}
  Consumers = {c1}
  n1 = n1
  c1 = c1
  Free = Free
  Orphan = Orphan
  FaultKinds = {}
  MaxFaults = 0
INVARIANT AtMostOnce
CHECK_DEADLOCK FALSE
