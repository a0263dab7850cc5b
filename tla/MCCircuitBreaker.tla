--------------------------- MODULE MCCircuitBreaker --------------------------
\* Instances of CircuitBreaker for TLC.
EXTENDS CircuitBreaker, TLC
CONSTANTS s1, s2, p1, p2, p3, k, r
NoOne == {}
OneSubmitter  == {s1}
TwoSubmitters == {s1, s2}
OnePoller     == {p1}
TwoPollers    == {p1, p2}
ThreePollers  == {p1, p2, p3}
OneController == {k}
OneResetter   == {r}
=============================================================================
