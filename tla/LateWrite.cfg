SPECIFICATION Spec
CONSTANTS
  None = None
  MaxWork = 1
  MaxLocks = 1
INVARIANT ForgottenStays
CHECK_DEADLOCK FALSE
