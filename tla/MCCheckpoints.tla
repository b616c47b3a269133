--------------------------- MODULE MCCheckpoints ---------------------------
(* Small instances of Checkpoints: the constants are given in the cfg's.    *)
EXTENDS Checkpoints
=============================================================================
