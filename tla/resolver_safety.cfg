\* Two names, so that an answer could go to the wrong one.
SPECIFICATION Spec
CONSTANTS
  example = example
  EXAMPLE = EXAMPLE
  other = other
  kExample = kExample
  kOther = kOther
  v4 = v4
  v6 = v6
  lo = lo
  Callers = {p1, p2}
  Names = {example, other}
  Keys = {kExample, kOther}
  KeyOf <- TwoKeysOf
  Addrs = {v4, v6, lo}
  Loopback = {lo}
  IPv6 = {v6}
  Calls = {c1, c2}
  TTLs = {0, 9}
  MinTTL = 1
  MaxTTL = 2
  Budget = 1
  IPv4Only = TRUE
  MaxTime = 1
  None = None
SYMMETRY Symmetric
INVARIANTS
  TypeOK
  SingleFlight
  ReplySound
  AnswerInCacheFirst
  PinnedWithinTTL
PROPERTIES
  CacheMovesForward
  RefinesNameService
