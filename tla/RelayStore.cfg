CONSTANTS
  r1 = r1
  r2 = r2
  r3 = r3
  j1 = j1
  j2 = j2
  RequestIds = {r1, r2}
  JobIds = {j1, j2}
  Deliveries = {d1}
  Bodies = {b1}
  Owners = {w1}
  None = none
  MaxTime = 1
  Lease = 1
  MaxCaptures = 1
  MaxJobsPerRequest = 1
  MaxAttemptsPerJob = 2
SPECIFICATION Spec
SYMMETRY Symmetry
INVARIANTS
  TypeOK
  AttemptsMatchStates
  HealthyIsDurable
  NoForeignLease
PROPERTIES
  FollowsLifecycle
