------------------------------ MODULE MCAvlMap ------------------------------
EXTENDS AvlMap
=============================================================================
