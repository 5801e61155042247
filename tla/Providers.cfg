SPECIFICATION Spec
CONSTANTS
  m1 = m1
  m2 = m2
  w1 = w1
  w2 = w2
  w3 = w3
  e1 = e1
  e2 = e2
  e3 = e3
  e4 = e4
  MasterPool <- MCMasterPool
  WorkerPool <- MCWorkerPool
  Eip <- MCEip
  NoRow = NoRow
  MasterAsk = {0, 1}
  WorkerAsk = {0, 2}
  Page = 4
  MaxOps = 4
SYMMETRY Interchangeable
PROPERTIES JoinKeepsCluster AddedNodesUsable RemovedMeansEnded CleanDelete
CHECK_DEADLOCK FALSE
