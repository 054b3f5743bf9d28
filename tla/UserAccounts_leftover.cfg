SPECIFICATION Spec
CONSTANTS
  Workers = {w1}
  Names = {"a", "b", "c", "d", "old", "A"}
  ValidNames = {"a", "b", "c", "d", "old"}
  MinUID = 1
  MaxUID = 4
  OldUsers <- OneUser
  OldGroups <- OneGroup
  Commands = {"useradd"}
  Failures = {"death"}
INVARIANTS
  FoundUidIsAvailable
CHECK_DEADLOCK FALSE
