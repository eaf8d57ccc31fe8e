CONSTANTS
  a = a
  b = b
  Nobody = Nobody
  Device <- TheDevices
  Founders <- TheFounders
  Readers <- TheReaders
  Retention = 0
  MinTail = 1
  Page = 2
  MaxSeq = 3
  MaxClock = 1
  MaxCrashes = 1
  MaxChanges = 1
SPECIFICATION FairSpec
INVARIANTS TypeOK NoSkip TailKept GapIsReported
PROPERTIES ReadsInOrder Delivered
