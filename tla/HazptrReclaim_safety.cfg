\* Two threads, both retiring and reclaiming, one of which protects; four
\* objects, so three retires happen and a due-time exchange can see count_
\* negative after a reclaim() pass freed records another pass counted; one
\* shard; the clock passes the due time twice (at 0 and at 1); one
\* reclaim() call racing the other thread's threshold and due-time passes.
CONSTANTS
  Threads = {t1, t2}
  Readers = {t1}
  Obj = {o1, o2, o3, o4}
  InitObj = o1
  NumShards = 1
  Threshold = 2
  SyncPeriod = 1
  MaxTime = 1
  MaxReclaims = 1
  NULL = NULL
SPECIFICATION Spec
INVARIANT TypeOK
INVARIANT NoUseAfterFree
INVARIANT RetiredAccounted
INVARIANT CountConsistent
PROPERTY ReclaimIsBarrier
