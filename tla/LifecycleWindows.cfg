SPECIFICATION Spec
CONSTANTS
  Platforms = {"unix", "windows"}
  MaxLines = 1
  MaxPeers = 1
  MaxEmits = 1
INVARIANT
  ListeningWhenAnnounced
