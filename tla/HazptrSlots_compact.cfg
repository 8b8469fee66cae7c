\* Two threads taking holders singly, in arrays and by reserve while
\* compacting, without evict: make_new_holder pushes race the rebuild, and
\* once both threads have exited ~holder_list finishes.
CONSTANTS
  Threads = {t1, t2}
  Addr = {a1, a2, a3}
  MaxHandles = 2
  Arr = 2
  AddrReuse = TRUE
  Ops = {"get", "getN", "reserve", "delete"}
  NULL = NULL
SPECIFICATION FairSpec
CHECK_DEADLOCK FALSE
INVARIANT DirectoryComplete
PROPERTY TeardownTerminates
