SPECIFICATION FairSpec
CONSTANTS
  HeaderSize = 2
  AbsoluteMax = 3
  Configs <- MCConfigs
  MaxRead = 9
  Streams <- MCStreams
  MaxConnections = 2
INVARIANTS
  TypeOK
  DispatchedInOrder
  NothingLeftBehind
  OnlyAuthenticated
  PayloadsWithinLimit
PROPERTY
  AllDispatched
