SPECIFICATION KahnSpec
CONSTANTS
  Key = {"a", "b", "c", "x"}
  Dags <- SmallDags
INVARIANT SortedIsTopological
INVARIANT CyclicHasCycle
CHECK_DEADLOCK FALSE
