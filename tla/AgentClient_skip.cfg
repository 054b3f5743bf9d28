SPECIFICATION FairSpec
CONSTANTS
  ConnId = {k1, k2}
  NoConn = NoConn
PROPERTY
  FailedCallReconnects
CHECK_DEADLOCK FALSE
