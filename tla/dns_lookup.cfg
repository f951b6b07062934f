\* A lookup ends, hence no check for deadlock: LookupReturns says that it does.
SPECIFICATION FairSpec
CONSTANTS
  ServerLists <- UpToTwo
  Ports = {p1, p2}
  Timeout = 2
  Delay = 1
  MaxFaults = 2
  V4 = V4
  V6 = V6
  Lo = Lo
  Empty = Empty
  NoSuchName = NoSuchName
  BadName = BadName
INVARIANTS
  TypeOK
  WithinBudget
  Truthful
  SurvivesOneFault
PROPERTY
  LookupReturns
CHECK_DEADLOCK FALSE
