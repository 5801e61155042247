SPECIFICATION Spec
CONSTANTS
  p1 = p1  p2 = p2  m1 = m1  m2 = m2  w1 = w1  w2 = w2  w3 = w3  v1 = v1  v2 = v2
  NoRow = NoRow
  Proc <- OneProc
  MasterPool <- Masters
  WorkerPool <- ThreeWorkers
  Version <- TwoVersions
  Server = FALSE
  Rollback = TRUE
  Forced = TRUE
  WithExplorer = TRUE
  Orderly = FALSE
  MasterAsk <- ZeroOrOne
  WorkerAsk <- ZeroOrTwo
  JoinAsk <- AnyJoin
  DBFails = TRUE
  MaxOps = 3
  MaxLoss = 1
  MaxCrash = 1
SYMMETRY Symmetry
INVARIANTS TypeOK RowCoversInstances
CHECK_DEADLOCK FALSE
