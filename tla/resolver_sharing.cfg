\* A name in two spellings: is it looked up again while its answer is fresh?
SPECIFICATION Spec
CONSTANTS
  example = example
  EXAMPLE = EXAMPLE
  other = other
  kExample = kExample
  kOther = kOther
  v4 = v4
  v6 = v6
  lo = lo
  Callers = {p1, p2}
  Names = {example, EXAMPLE}
  Keys = {kExample}
  KeyOf <- OneKeyOf
  Addrs = {v4, v6}
  Loopback = {}
  IPv6 = {v6}
  Calls = {c1, c2}
  TTLs = {0, 9}
  MinTTL = 1
  MaxTTL = 1
  Budget = 1
  IPv4Only = TRUE
  MaxTime = 2
  None = None
PROPERTY
  NoLookupWhileFresh
