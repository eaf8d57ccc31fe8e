CONSTANTS
  a1 = a1
  a2 = a2
  b1 = b1
  A = A
  B = B
  Flat = Flat
  Device <- TwoAndOne
  Account <- Accounts
  Owner <- OwnerOf
  Founders <- Pair
  Admin = A
  Fragile <- OnlyA
  MaxMade = 2
  MaxRows = 3
  MaxFaults = 1
  MaxRevoked = 1
SPECIFICATION Spec
INVARIANTS TypeOK OnCourse Agreement AdminKept
CHECK_DEADLOCK FALSE
