------------------------------- MODULE MCNdHeap -------------------------------
EXTENDS NdHeap
=============================================================================
