------------------------------ MODULE MCResubmit ------------------------------
\* Small instances of Resubmit: the constants are given in the cfgs.
EXTENDS Resubmit
===============================================================================
