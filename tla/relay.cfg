SPECIFICATION FairSpec
CONSTANT
  MaxBytes = 3
INVARIANTS
  StreamIntact
  FinMeansFinished
  ClosedWhenComplete
PROPERTIES
  RefinesStreams
  EveryConnectionEnds
