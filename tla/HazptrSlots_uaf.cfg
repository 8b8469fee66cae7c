\* Two threads, one handle each, evict and compaction: a pop reads the
\* m_next_ of a holder compaction has deleted.
CONSTANTS
  Threads = {t1, t2}
  Addr = {a1, a2}
  MaxHandles = 1
  Arr = 1
  AddrReuse = FALSE
  Ops = {"get", "evict", "delete"}
  NULL = NULL
SPECIFICATION Spec
CHECK_DEADLOCK FALSE
INVARIANT NoDeletedSlotRead
