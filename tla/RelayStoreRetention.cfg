CONSTANTS
  r1 = r1
  r2 = r2
  r3 = r3
  j1 = j1
  j2 = j2
  RequestIds = {r1, r2, r3}
  JobIds = {j1, j2}
  Deliveries = {d1}
  Bodies = {b1, b2}
  Owners = {w1}
  None = none
  MaxTime = 0
  Lease = 1
  MaxCaptures = 2
  MaxJobsPerRequest = 1
  MaxAttemptsPerJob = 1
SPECIFICATION Spec
SYMMETRY Symmetry
INVARIANTS
  OneCapturePerKey
  NoOrphanJob
  RetentionBounds
  AckedIsDurable
PROPERTIES
  UnfinishedNeverEvicted
