----------------------------- MODULE MCBagTree -----------------------------
EXTENDS BagTree
MCIndexes == 0 .. 3
=============================================================================
