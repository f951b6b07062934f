\* One fetch: does it log in although it has a token that works?
SPECIFICATION Spec
CONSTANTS
  both = both
  one = one
  spoilt = spoilt
  Fetches = {f1}
  Regions = {1, 2}
  Versions = {both, spoilt}
  Good <- GoodIn
  Bad <- BadIn
  None = None
PROPERTY
  LoginOnlyIfNeeded
