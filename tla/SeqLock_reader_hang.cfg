\* One store by one writer against one load_shared() call: the reader may
\* read an odd seq_ together with the copy unlock() installs, then wait on
\* value_ for a change that never comes.
CONSTANTS
  w1 = w1
  w2 = w2
  Writers = {w1}
  Readers = {r1}
  WriterOp <- MCWriterOp
  ReaderOps = {"wait"}
  Retry = 1
  MaxWrites = 1
  MaxReads = 1
SPECIFICATION FairSpec
CHECK_DEADLOCK FALSE
PROPERTY ReaderReturns
