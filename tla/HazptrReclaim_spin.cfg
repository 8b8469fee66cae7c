\* retire() when Threshold retired objects are protected: two threads, two
\* slots, Threshold 2.  Readers are fair, yet the retiring thread loops.
CONSTANTS
  Threads = {t1, t2}
  Readers = {t1, t2}
  Obj = {o1, o2, o3}
  InitObj = o1
  NumShards = 1
  Threshold = 2
  SyncPeriod = 1
  MaxTime = 1
  MaxReclaims = 1
  NULL = NULL
SPECIFICATION FairSpec
PROPERTY CallsReturn
