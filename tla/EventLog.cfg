CONSTANTS
  Requests = {r1, r2}
  MaxEvents = 1
  MaxAttempts = 1
  MaxSeq = 6
  Machines = {{"kill", "windows"}, {"power", "entries"}}
SPECIFICATION FairSpec
INVARIANTS
  TypeOK
  AnyCrashKeepsPromises
  CursorsStayValid
  NoPlainHeaders
  LoadFindsItsRecords
PROPERTIES
  LocksAreReleased
CHECK_DEADLOCK FALSE
