SPECIFICATION Spec
CONSTANTS
  ConnId = {k1, k2, k3}
  NoConn = NoConn
INVARIANTS
  TypeOK
  AtMostOneSupervisor
  NoReconnectorOverlap
  PanicOnlyInShutdown
  AtMostOneLiveLink
PROPERTIES
  NoSilentHeartbeatStop
  DropsOnlyInTheWindow
  HandsOnOneDuty
CHECK_DEADLOCK FALSE
