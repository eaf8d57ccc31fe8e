SPECIFICATION Spec
CONSTANTS
  a1 = a1
  a2 = a2
  i1 = i1
  c1 = c1
  c2 = c2
  None = None
  Accounts <- MCAccounts
  Instances <- MCInstances
  Checks <- MCChecks
  Legacy <- MCLegacy
  MaxRows = 3
  MaxKeys = 2
  MaxChecks = 2
INVARIANT NoFalseFork
CHECK_DEADLOCK FALSE
