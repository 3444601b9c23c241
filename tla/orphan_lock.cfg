SPECIFICATION Spec
CONSTANTS
  Dag <- Chain
  SagaFail = "__SAGA_FAIL__"
  NoTask = "none"
  Nodes = {n1}
  Consumers = {c1}
  n1 = n1
  c1 = c1
  Free = Free
  Orphan = Orphan
  FaultKinds = {"crash"}
  MaxFaults = 1
PROPERTY AckedMeansSettled
CHECK_DEADLOCK FALSE
