CONSTANTS
  Jobs = {j1, j2}
  Workers = {w1}
  NoOne = noone
  QueueSize = 1
  Limits = {2}
  MaxRuns = 2
  MaxStalls = 0
SPECIFICATION FairSpec
INVARIANTS
  SendsBounded
  CleanStopLeavesNothing
PROPERTIES
  FollowsLifecycle
  WorkIsFinished
  ShutdownEnds
CHECK_DEADLOCK FALSE
