SPECIFICATION FairSpec
CONSTANTS
  Platforms = {"unix", "windows"}
  MaxLines = 3
  MaxPeers = 2
  MaxEmits = 1
INVARIANTS
  TypeOK
  FoundWhenExpected
  ServesOnlyProven
  PingsAccounted
PROPERTIES
  StartedClientStops
  LinesAreRead
