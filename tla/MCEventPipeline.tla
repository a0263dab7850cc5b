--------------------------- MODULE MCEventPipeline ---------------------------
\* The specification with its fairness, for TLC.
EXTENDS EventPipeline

CONSTANTS f1, c1

PFairSpec == PSpec /\ PFairness
===============================================================================
