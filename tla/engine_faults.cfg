SPECIFICATION Spec
CONSTANTS
  Dag <- Diamond
  SagaFail = "__SAGA_FAIL__"
  NoTask = "none"
  Nodes = {n1}
  Consumers = {c1, c2}
  n1 = n1
  c1 = c1
  c2 = c2
  Free = Free
  Orphan = Orphan
  FaultKinds = {"gate", "crash", "error", "redeliver", "publish"}
  MaxFaults = 1
INVARIANT TypeOK
INVARIANT DependencyOrder
INVARIANT CompletedMeansAttempted
INVARIANT LockExclusion
PROPERTY ImplementsDagRun
CHECK_DEADLOCK FALSE
