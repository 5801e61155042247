SPECIFICATION Spec
CONSTANTS
  Kinds <- MCKinds
  Steps = 2
  MaxIn = 2
  MaxOut = 1
INVARIANTS NoSendOnClosed ByeIsLast
PROPERTIES HandlerReturns GoroutinesEnd
CHECK_DEADLOCK FALSE
