SPECIFICATION Spec
CONSTANTS
  None = None
  MaxWork = 1
  MaxLocks = 1
INVARIANTS
  TypeOK
  ThreadCoversRatchet
  ShownOnce
  ErasedStays
PROPERTY Heals
CHECK_DEADLOCK FALSE
