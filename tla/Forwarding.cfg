CONSTANTS
  Jobs = {j1, j2}
  Workers = {w1, w2}
  NoOne = noone
  QueueSize = 1
  Limits = {2}
  MaxRuns = 1
  MaxStalls = 1
SPECIFICATION Spec
SYMMETRY Symmetry
INVARIANTS
  TypeOK
  WorkIsOwned
  SendsBounded
PROPERTIES
  FollowsLifecycle
CHECK_DEADLOCK FALSE
