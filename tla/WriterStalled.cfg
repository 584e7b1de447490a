SPECIFICATION StalledSpec
CONSTANTS
  Senders = {s1, s2, s3}
  MaxPending = 1
  ChannelCapacity = 1
  MaxBatchSize = 1
  MaxSends = 1
PROPERTY
  SendReturns
