CONSTANTS
  Callers = {c1, c2}
  RetryConf = 1
  MaxExpiries = 1
  None = None
SPECIFICATION Spec
CHECK_DEADLOCK FALSE
PROPERTY LockBusyMeansOtherHolder
