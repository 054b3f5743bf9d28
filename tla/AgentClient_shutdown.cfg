SPECIFICATION FairSpec
CONSTANTS
  ConnId = {k1, k2}
  NoConn = NoConn
PROPERTY
  ShutdownExits
CHECK_DEADLOCK FALSE
