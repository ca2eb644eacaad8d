CONSTANTS
  Files <- MCFilesNested
  Endpoints = {"e1"}
  Ids = {1, 2, 3, 4}
  NoG = NoG
  NoKey = NoKey
SPECIFICATION Spec
CHECK_DEADLOCK FALSE
INVARIANT NoOrphanSub
