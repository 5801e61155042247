SPECIFICATION Spec
CONSTANTS
  p1 = p1  p2 = p2  m1 = m1  m2 = m2  w1 = w1  w2 = w2  w3 = w3  v1 = v1  v2 = v2
  NoRow = NoRow
  Proc <- OneProc
  MasterPool <- Masters
  WorkerPool <- ThreeWorkers
  Version <- OneVersion
  Server = FALSE
  Rollback = TRUE
  Forced = FALSE
  WithExplorer = TRUE
  Orderly = TRUE
  MasterAsk <- ZeroOrOne
  WorkerAsk <- ZeroOrTwo
  JoinAsk <- AnyJoin
  DBFails = FALSE
  MaxOps = 4
  MaxLoss = 1
  MaxCrash = 0
INVARIANTS RunningIsReal NothingLeft
PROPERTY StatusMachine
CHECK_DEADLOCK FALSE
