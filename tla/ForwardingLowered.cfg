CONSTANTS
  Jobs = {j1}
  Workers = {w1}
  NoOne = noone
  QueueSize = 1
  Limits = {1, 2}
  MaxRuns = 2
  MaxStalls = 0
SPECIFICATION Spec
INVARIANTS
  SendsBounded
CHECK_DEADLOCK FALSE
