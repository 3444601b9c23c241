SPECIFICATION ConsoleFairSpec
CONSTANTS
  MaxBlasts = 2
  Configs <- NowAndLater
  targets = {"cannon"}
  MaxOutages = 1
  MaxPolls = 2
  MaxEdits = 1
INVARIANT OneLiveRun
INVARIANT StatusTruthful
PROPERTY RunsEnd
PROPERTY PanelConverges
