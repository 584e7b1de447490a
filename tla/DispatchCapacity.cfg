SPECIFICATION Spec
CONSTANTS
  Tasks = {t1, t2, t3}
  NoTask = NoTask
  MaxId = 2
  MaxConcurrent = 2
  MaxChunks = 0
  Users = {"task"}
  SendMayFail = FALSE
  EncodeMayFail = FALSE
  MayListen = FALSE
SYMMETRY TaskSymmetry
INVARIANTS
  PermitsConserved
  ContextsTracked
  AbortExact
