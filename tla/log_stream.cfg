SPECIFICATION LogStreamFairSpec
CONSTANTS
  targets = {"probe"}
  MaxOutages = 1
  Pods = {"gate"}
  MaxLines = 2
  MaxEnds = 2
  Capacity = 1
  TailLines = 1
INVARIANT TailedOnce
PROPERTY TailersLeave
PROPERTY PageCatchesUp
CHECK_DEADLOCK FALSE
