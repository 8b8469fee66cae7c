\* Two threads, one handle each, reserve_hazp and evict: the Treiber pop
\* of the global free list meets ABA.
CONSTANTS
  Threads = {t1, t2}
  Addr = {a1, a2}
  MaxHandles = 1
  Arr = 1
  AddrReuse = TRUE
  Ops = {"get", "reserve", "evict"}
  NULL = NULL
SPECIFICATION Spec
CHECK_DEADLOCK FALSE
INVARIANT ExclusiveOwnership
