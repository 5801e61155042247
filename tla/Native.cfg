SPECIFICATION Spec
CONSTANTS
  h1 = h1
  h2 = h2
  h3 = h3
  t1 = t1
  t2 = t2
  Host <- MCHost
  Token <- MCToken
  NoHost = NoHost
  NoK3s = NoK3s
  NoRow = NoRow
  NoToken = NoToken
  Setup <- MCSetup
  MaxOps = 3
  MaxSync = 1
  MaxHand = 1
  MaxAll = 6
SYMMETRY Interchangeable
INVARIANTS ReadyBeforeStart OneCluster
PROPERTIES JoinKeepsNodes HandNodesKept DeleteUninstalls
CHECK_DEADLOCK FALSE
