SPECIFICATION Spec
CONSTANTS
  Workers = {w1, w2}
  Names = {"a", "b", "c", "old", "A"}
  ValidNames = {"a", "b", "c", "old"}
  MinUID = 1
  MaxUID = 3
  OldUsers <- OneUser
  OldGroups <- OneGroup
  Commands = {"useradd", "adduser"}
  Failures = {"command", "death"}
INVARIANTS
  TypeOK
  AccountsAreTheirOwn
  GrantedUserExists
  FailsForAReason
CHECK_DEADLOCK FALSE
