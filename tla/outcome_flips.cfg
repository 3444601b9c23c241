SPECIFICATION Spec
CONSTANTS
  Dag <- ParallelFail
  SagaFail = "__SAGA_FAIL__"
  NoTask = "none"
  Nodes = {n1}
  Consumers = {c1}
  n1 = n1
  c1 = c1
  Free = Free
  Orphan = Orphan
  FaultKinds = {}
  MaxFaults = 0
PROPERTY OutcomeIsFinal
CHECK_DEADLOCK FALSE
