----------------------------- MODULE TrainRunMC -----------------------------
\* Model-checking instances of TrainRun.
EXTENDS TrainRun
=============================================================================
