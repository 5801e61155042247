SPECIFICATION Spec
CONSTANTS
  p1 = p1  p2 = p2  m1 = m1  m2 = m2  w1 = w1  w2 = w2  w3 = w3  v1 = v1  v2 = v2
  NoRow = NoRow
  Proc <- TwoProcs
  MasterPool <- OneMaster
  WorkerPool <- TwoWorkers
  Version <- OneVersion
  Server = TRUE
  Rollback = TRUE
  Forced = TRUE
  WithExplorer = FALSE
  Orderly = FALSE
  MasterAsk <- ZeroOrOne
  WorkerAsk <- ZeroOrTwo
  JoinAsk <- WorkerJoin
  DBFails = FALSE
  MaxOps = 3
  MaxLoss = 0
  MaxCrash = 0
INVARIANTS InProgressHasOwner GaugeTotal
PROPERTIES RollbackOwnOnly StatusSettles
CHECK_DEADLOCK FALSE
