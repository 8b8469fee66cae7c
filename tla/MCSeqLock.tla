------------------------------ MODULE MCSeqLock ------------------------------
EXTENDS SeqLock, TLC

CONSTANTS w1, w2

\* w1's critical sections store a new value, w2's update it in place.
MCWriterOp == (w1 :> "store") @@ (w2 :> "update")
=============================================================================
