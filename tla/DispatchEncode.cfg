SPECIFICATION Spec
CONSTANTS
  Tasks = {t1}
  NoTask = NoTask
  MaxId = 1
  MaxConcurrent = 1
  MaxChunks = 1
  Users = {"task", "helper"}
  SendMayFail = FALSE
  EncodeMayFail = TRUE
  MayListen = FALSE
INVARIANT
  ErrAlwaysAnswered
