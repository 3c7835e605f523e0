CONSTANTS
  t1 = t1
  Tags = {t1}
  Values = {0, 1, 2}
  Retention = 1
  ClockSteps = TRUE
  Faults = TRUE
  MaxTime = 3
  MaxPuts = 3
  Rules <- SomeRules
SPECIFICATION LimitSpec
INVARIANT TypeOK
INVARIANT HistoryExact
INVARIANT MemoryBounded
INVARIANT LossBounded
INVARIANT CeilingDurable
INVARIANT RateDurable
INVARIANT DriftDurable
