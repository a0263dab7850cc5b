SPECIFICATION Spec
CONSTANTS
  s1 = s1  s2 = s2  p1 = p1  p2 = p2  p3 = p3  k = k  r = r
  Never = Never
  Submitters <- NoOne
  Pollers <- TwoPollers
  Controllers <- NoOne
  Resetters <- NoOne
  Threshold = 2
  HalfOpenMax = 1
  MaxBackoff = 1
INVARIANT NoCrossedLocks
CHECK_DEADLOCK FALSE
