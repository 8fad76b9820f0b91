SPECIFICATION WatchSpec
CONSTANTS
  Cycles = {1, 3, 10, 11}
  CycleMax = 11
  AdvFloor = 15
  AccelFloor = 75
  Margin = 5
  MonitorPeriod = 2
  FailLimit = 3
  RetryAfter = 60
  FastMax = 3
INVARIANTS WatchTypeOK StallIsNoticed LostUpdateTolerated BackoffNotMistakenWhenFast
