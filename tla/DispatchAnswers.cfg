SPECIFICATION FairSpec
CONSTANTS
  Tasks = {t1}
  NoTask = NoTask
  MaxId = 1
  MaxConcurrent = 1
  MaxChunks = 2
  Users = {"task", "helper"}
  SendMayFail = TRUE
  EncodeMayFail = TRUE
  MayListen = TRUE
INVARIANTS
  TypeOK
  AtMostOneTerminal
PROPERTIES
  TaskReleased
  FailureEventuallyAnswered
  AbortWakes
