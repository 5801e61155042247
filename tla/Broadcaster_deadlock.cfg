SPECIFICATION FairSpec
CONSTANTS
  w1 = w1
  w2 = w2
  sDirect = sDirect
  sRelay = sRelay
  sLog = sLog
  eCluster = eCluster
  eLog = eLog
  none = none
  Writer <- MCWriter
  Sub <- MCStay
  Event <- MCEvent
  Kind <- MCKind
  Fits <- MCFits
  Ends <- MCEnds
  Leaver <- MCStay
  Free = none
  MaxEvents = 3
PROPERTY BroadcastReturns
CHECK_DEADLOCK FALSE
