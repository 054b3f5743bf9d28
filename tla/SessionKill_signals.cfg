SPECIFICATION FairSpec
CONSTANTS
  p1 = p1
  p2 = p2
  p3 = p3
  p4 = p4
  Pid = {p1, p2, p3, p4}
  Stuck = {p4}
  Failures = {"lookup", "pgrep", "pkill"}
INVARIANTS
  TypeOK
  OldProcessesAreGone
  LockoutIsFinal
PROPERTY
  ScriptEnds
CHECK_DEADLOCK FALSE
