SPECIFICATION FairSpec
CONSTANTS
  Senders = {s1, s2}
  MaxPending = 2
  ChannelCapacity = 2
  MaxBatchSize = 2
  MaxSends = 2
INVARIANTS
  TypeOK
  PendingExact
  OvershootBound
  ChannelWaitBounded
  OutcomeIsTruthful
PROPERTIES
  ImplementsFrameStream
  SendReturns
  AcceptedIsWritten
