SPECIFICATION FairSpec
CONSTANTS
  ConnId = {k1, k2}
  NoConn = NoConn
PROPERTIES
  QuietAfterShutdown
  LossNoticed
  ShutdownBeforeReconnectExits
CHECK_DEADLOCK FALSE
