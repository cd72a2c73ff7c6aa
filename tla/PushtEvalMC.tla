---------------------------- MODULE PushtEvalMC ----------------------------
\* Model-checking instance of PushtEval.
EXTENDS PushtEval
=============================================================================
