CONSTANTS
  Writers = {w1, w2}
  Readers = {r1, r2}
  MaxUpdates = 3
  MaxReads = 3
SPECIFICATION FairSpec
CHECK_DEADLOCK FALSE
INVARIANTS TypeOK NoReadDuringWrite
PROPERTY UpdateReturns
