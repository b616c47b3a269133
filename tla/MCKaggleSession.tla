-------------------------- MODULE MCKaggleSession --------------------------
\* Small instances of KaggleSession: the constants are given in the cfgs.
EXTENDS KaggleSession
=============================================================================
