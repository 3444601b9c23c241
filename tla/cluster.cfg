SPECIFICATION ClusterFairSpec
CONSTANTS
  Gates = {g1, g2}
  g1 = g1
  g2 = g2
  Patches = 2
  MaxCrashes = 1
  Commands <- Lines
  MaxCommands = 1
  MaxTroubles = 1
INVARIANT ClusterTypeOK
INVARIANT AppliedOnce
INVARIANT ServesMigrated
PROPERTY ComesUp
PROPERTY StopsAll
CHECK_DEADLOCK FALSE
