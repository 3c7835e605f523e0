CONSTANTS
  diagnostics = diagnostics
  optimizer = optimizer
  SP = SP
  PV = PV
  ESD = ESD
  c1 = c1
  c2 = c2
  Agents = {diagnostics, optimizer}
  Operator = diagnostics
  Policy <- UnevenPolicy
  Tags <- AllTags
  Present = {SP, PV, ESD}
  Initial <- AtRest
  Reads <- None
  Writes <- SetpointWrites
  Moves <- None
  Calls = {c1}
  Ttl = 2
  Shadow = FALSE
  SharedHistory = TRUE
  DurableHistory = FALSE
  Yields = TRUE
  Outages = FALSE
  LogFaults = FALSE
  MaxTime = 0
  MaxAudit = 3
  MaxRestarts = 0
SPECIFICATION Spec
INVARIANT NeverUnverified
