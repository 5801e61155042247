SPECIFICATION FairSpec
CONSTANTS
  w1 = w1
  w2 = w2
  sDirect = sDirect
  sRelay = sRelay
  sLog = sLog
  eCluster = eCluster
  eLog = eLog
  none = none
  Writer <- MCWriter
  Sub <- MCSub
  Event <- MCEvent
  Kind <- MCKind
  Fits <- MCFits
  Ends <- MCEnds
  Leaver <- MCSub
  Free = none
  MaxEvents = 2
INVARIANTS
  TypeOK
  NoSendOnClosed
  DeliveredInOrder
PROPERTY ReturnsWhileRead
CHECK_DEADLOCK FALSE
