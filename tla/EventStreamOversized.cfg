CONSTANTS
  Clients = {c1}
  RingEvents = 2
  RingBytes = 3
  Backlog = 1
  Sizes = {1, 4}
  Records = {1, 2}
  MaxSeq = 3
SPECIFICATION Spec
INVARIANTS
  ResumesWithoutGap
CHECK_DEADLOCK FALSE
