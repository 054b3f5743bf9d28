SPECIFICATION Spec
CONSTANTS
  ConnId = {k1, k2}
  NoConn = NoConn
INVARIANT
  ShutdownDoesNotPanic
CHECK_DEADLOCK FALSE
