CONSTANTS
  w1 = w1
  w2 = w2
  r1 = r1
  r2 = r2
  Ops = {w1, w2, r1}
  Missing = {r1}
  Rejected = {}
  Attempts = 1
  MaxStops = 1
  MaxBreaks = 1
SPECIFICATION FairSpec
INVARIANT TypeOK
INVARIANT QuietWithoutFaults
PROPERTY OpsEnd
PROPERTY ContractKept
CHECK_DEADLOCK FALSE
