CONSTANTS
  Clients = {c1}
  RingEvents = 2
  RingBytes = 3
  Backlog = 1
  Sizes = {1, 2}
  Records = {1, 2}
  MaxSeq = 6
SPECIFICATION FairSpec
INVARIANTS
  TypeOK
  NoSilentGap
  NothingIsMissed
  SubscribersAreServed
PROPERTIES
  InOrder
  ClientsCatchUp
CHECK_DEADLOCK FALSE
