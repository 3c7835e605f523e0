CONSTANTS
  w1 = w1
  w2 = w2
  r1 = r1
  r2 = r2
  Ops = {w1, w2}
  Missing = {}
  Rejected = {}
  Attempts = 1
  MaxStops = 1
  MaxBreaks = 1
SPECIFICATION Spec
INVARIANT ServedWhenReachable
CHECK_DEADLOCK FALSE
