SPECIFICATION FairSpec
CONSTANTS
  ConnId = {k1}
  NoConn = NoConn
PROPERTY
  EveryCallEnds
CHECK_DEADLOCK FALSE
