SPECIFICATION LedgerSpec
CONSTANTS
  Dag <- RefusableOrder
  SagaFail = "__SAGA_FAIL__"
  NoTask = "none"
  Nodes = {n1}
  Consumers = {c1, c2}
  n1 = n1
  c1 = c1
  c2 = c2
  Free = Free
  Orphan = Orphan
  FaultKinds = {"gate", "crash", "close", "error", "redeliver", "publish", "redis"}
  MaxFaults = 2
  Funds = 0
INVARIANT IInv
CHECK_DEADLOCK FALSE
