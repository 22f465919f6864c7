CONSTANTS
  Requests = {r1, r2}
  MaxEvents = 1
  MaxAttempts = 1
  MaxSeq = 3
  Machines = {{"power"}}
SPECIFICATION Spec
INVARIANTS
  AnyCrashKeepsPromises
CHECK_DEADLOCK FALSE
