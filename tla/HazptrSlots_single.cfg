\* One thread making every call, with arrays of two handles and address
\* reuse: the cache, evict, the global free list and compaction in every
\* order.  The process exits when the threads have: no deadlock check.
CONSTANTS
  Threads = {t1}
  Addr = {a1, a2, a3}
  MaxHandles = 2
  Arr = 2
  AddrReuse = TRUE
  Ops = {"get", "getN", "reserve", "evict", "delete"}
  NULL = NULL
SPECIFICATION Spec
CHECK_DEADLOCK FALSE
INVARIANT ExclusiveOwnership
INVARIANT NoDeletedOwned
INVARIANT TypeOK
