\* One name, and lookups that may never return.
SPECIFICATION FairSpec
CONSTANTS
  example = example
  EXAMPLE = EXAMPLE
  other = other
  kExample = kExample
  kOther = kOther
  v4 = v4
  v6 = v6
  lo = lo
  Callers = {p1, p2}
  Names = {example}
  Keys = {kExample}
  KeyOf <- OneNameOf
  Addrs = {v4}
  Loopback = {}
  IPv6 = {}
  Calls = {c1, c2}
  TTLs = {0, 9}
  MinTTL = 0
  MaxTTL = 1
  Budget = 1
  IPv4Only = TRUE
  MaxTime = 1
  None = None
PROPERTIES
  EveryResolveReturns
  EveryFlightLands
