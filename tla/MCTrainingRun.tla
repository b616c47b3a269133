--------------------------- MODULE MCTrainingRun ---------------------------
\* Small instances of TrainingRun: the constants are given in the cfgs.
EXTENDS TrainingRun
=============================================================================
