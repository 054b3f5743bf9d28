SPECIFICATION Spec
CONSTANTS
  ConnId = {k1, k2}
  NoConn = NoConn
INVARIANT
  SurvivesConnectionLoss
CHECK_DEADLOCK FALSE
