SPECIFICATION Spec
CONSTANTS
  a1 = a1
  a2 = a2
  r1 = r1
  r2 = r2
  i1 = i1
  i2 = i2
  d1 = d1
  d2 = d2
  None = None
  Accounts <- MCAccounts
  Requests <- MCRequests
  Instances <- MCInstances
  Legacy <- MCLegacy
  Devices <- MCDevices
  Owner <- MCOwner
  MaxRows = 3
  MaxKeys = 3
  MaxPackages = 1
  MaxRevoked = 1
INVARIANTS
  TypeOK
  KeyInForce
  ChainLinks
  HandedOnce
PROPERTIES
  ImplementsLog
  RevokedStayOut
SYMMETRY MCSymmetry
CHECK_DEADLOCK FALSE
