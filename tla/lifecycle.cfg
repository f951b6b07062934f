SPECIFICATION BoundSpec
CONSTANTS
  Ports = {80, 443}
  Timeout = 3
  Interval = 2
  MaxTime = 6
  Sockets = {s1, s2}
INVARIANTS
  TypeOK
  NothingLeftBehind
  ServesThroughTunnel
  TimeoutIsReal
  NoSocketLeaks
PROPERTY
  StopsWhenTold
