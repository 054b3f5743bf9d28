SPECIFICATION Spec
CONSTANTS
  p1 = p1
  p2 = p2
  p3 = p3
  p4 = p4
  Pid = {p1, p2, p3, p4}
  Stuck = {}
  Failures = {"pkill"}
INVARIANT
  SuccessMeansKilled
CHECK_DEADLOCK FALSE
