SPECIFICATION Spec
CONSTANTS
  Instances = {i1, i2}
  Hosts <- MCHosts
  UserLines <- MCUserLines
  Ascii <- MCAscii
  MaxInterrupts = 1
INVARIANTS
  UserLinesSafe
  NoEntryOutlivesItsRun
  RunningMeansRedirected
CHECK_DEADLOCK FALSE
