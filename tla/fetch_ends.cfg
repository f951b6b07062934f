\* One fetch at a time, again and again.
SPECIFICATION FairSpec
CONSTANTS
  both = both
  one = one
  spoilt = spoilt
  Fetches = {f1}
  Regions = {1, 2}
  Versions = {both, one, spoilt}
  Good <- GoodIn
  Bad <- BadIn
  None = None
INVARIANT
  OkMeansAllWritten
PROPERTY
  EveryFetchEnds
