\* Two writers, w1 storing and w2 updating in place, three critical sections
\* in all (so a writer can lock again while the other sits between
\* lock_impl's load and its fetch_or), against one reader making one call
\* of load_shared() or load_shared(2).  The workload is finite, so every
\* behaviour ends with all threads idle or blocked in a wait.
CONSTANTS
  w1 = w1
  w2 = w2
  Writers = {w1, w2}
  Readers = {r1}
  WriterOp <- MCWriterOp
  ReaderOps = {"wait", "retry"}
  Retry = 2
  MaxWrites = 3
  MaxReads = 1
SPECIFICATION FairSpec
CHECK_DEADLOCK FALSE
INVARIANT TypeOK
INVARIANT MutualExclusion
INVARIANT ReadCommitted
PROPERTY WriterProgress
