SPECIFICATION FairSpec
CONSTANTS
  s1 = s1  s2 = s2  p1 = p1  p2 = p2  p3 = p3  k = k  r = r
  Never = Never
  Submitters <- NoOne
  Pollers <- TwoPollers
  Controllers <- NoOne
  Resetters <- OneResetter
  Threshold = 2
  HalfOpenMax = 2
  MaxBackoff = 1
PROPERTY OpenIsLeft
CHECK_DEADLOCK FALSE
