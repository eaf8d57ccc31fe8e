SPECIFICATION Spec
CONSTANTS
  f1 = f1
  f2 = f2
  Flows <- MCFlows
  MaxTexts = 2
  MaxFaults = 1
  MaxCrashes = 1
INVARIANTS
  TypeOK
  Kept
  SavedIsSafe
  QuietIsSaved
PROPERTY Drains
CHECK_DEADLOCK FALSE
