\* Liveness: two threads, of which one protects, so Threshold 2 exceeds the
\* number of slots that can hold a retired object and the threshold pass
\* always frees something.  Three objects, one shard, one due-time period,
\* two reclaim() calls.
CONSTANTS
  Threads = {t1, t2}
  Readers = {t1}
  Obj = {o1, o2, o3}
  InitObj = o1
  NumShards = 1
  Threshold = 2
  SyncPeriod = 1
  MaxTime = 1
  MaxReclaims = 2
  NULL = NULL
SPECIFICATION FairSpec
PROPERTY CallsReturn
