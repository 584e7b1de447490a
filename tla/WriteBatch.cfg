SPECIFICATION FairSpec
CONSTANTS
  Radix = 2
  Batches <- MCBatches
INVARIANTS
  RemainderExact
  OutcomeExact
  FramesRecovered
PROPERTY
  BatchEnds
