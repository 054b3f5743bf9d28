SPECIFICATION FairSpec
CONSTANTS
  ConnId = {k1, k2}
  NoConn = NoConn
PROPERTY
  AuthFailureExits
CHECK_DEADLOCK FALSE
