CONSTANTS
  MaxMsgs = 3
  MaxCrashes = 2
  MaxRebalances = 1
  FromNewest = FALSE
SPECIFICATION Spec
\* The consumer blocks in the claim loop once it has read every message
\* and nothing is published any more: a wait, not a deadlock.
CHECK_DEADLOCK FALSE
INVARIANTS
  TypeOK
  CommittedWereAttempted
