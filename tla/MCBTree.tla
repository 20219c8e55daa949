------------------------------- MODULE MCBTree -------------------------------
EXTENDS BTree
==============================================================================
