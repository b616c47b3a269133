---------------------------- MODULE MCVerifyPool ----------------------------
\* Small instances of VerifyPool: the constants are given in the cfgs.
EXTENDS VerifyPool
=============================================================================
