CONSTANTS
  MaxMsgs = 2
  MaxCrashes = 1
  MaxRebalances = 1
  FromNewest = FALSE
SPECIFICATION Spec
CHECK_DEADLOCK FALSE
PROPERTY
  EveryMessageReachesHandler
