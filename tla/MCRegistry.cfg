CONSTANTS
  Files <- MCFiles
  Endpoints = {"e1"}
  Ids = {1, 2, 3, 4, 5, 6}
  NoG = NoG
  NoKey = NoKey
SPECIFICATION Spec
CHECK_DEADLOCK FALSE
INVARIANTS
  TypeOK
  NoLockCycle
  CascadeReachesDependents
PROPERTIES
  InitTerminates
