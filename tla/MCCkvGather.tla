---------------------------- MODULE MCCkvGather ----------------------------
EXTENDS CkvGather

TwoRows == {0, 1}
=============================================================================
