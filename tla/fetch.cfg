\* Two fetches into one directory.
SPECIFICATION Spec
CONSTANTS
  both = both
  one = one
  spoilt = spoilt
  Fetches = {f1, f2}
  Regions = {1, 2}
  Versions = {both, spoilt}
  Good <- GoodIn
  Bad <- BadIn
  None = None
SYMMETRY Symmetric
INVARIANTS
  TypeOK
  ConfsAreWhole
  NoLitter
  AskedWithToken
