CONSTANTS
  Captures = {1, 2}
  Loaded = {1}
  Tokens = {t1}
  None = none
  Calls = {c1, c2}
  Streams = {s1, s2}
  MaxEvents = 1
  MaxFaults = 1
SPECIFICATION FairSpec
INVARIANTS
  TypeOK
  OneStream
  SelectionIsUsers
PROPERTIES
  StreamComesBack
CHECK_DEADLOCK FALSE
