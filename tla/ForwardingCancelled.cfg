CONSTANTS
  Jobs = {j1}
  Workers = {w1}
  NoOne = noone
  QueueSize = 1
  Limits = {2}
  MaxRuns = 2
  MaxStalls = 0
SPECIFICATION Spec
INVARIANTS
  DeadLetterWasSent
CHECK_DEADLOCK FALSE
