SPECIFICATION Spec
CONSTANTS
  a1 = a1
  a2 = a2
  g1 = g1
  r1 = r1
  r2 = r2
  p1 = p1
  None = None
  Accounts <- MCAccounts
  Groups <- MCGroups
  Requests <- MCRequests
  Purges <- MCPurges
  Seqs = {1}
  Ceiling = 2
  MaxUploads = 2
INVARIANTS
  TypeOK
  Reconciled
  CeilingHolds
  AttachmentsHaveAGroup
SYMMETRY MCSymmetry
CHECK_DEADLOCK FALSE
