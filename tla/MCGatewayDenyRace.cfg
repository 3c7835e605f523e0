CONSTANTS
  diagnostics = diagnostics
  optimizer = optimizer
  SP = SP
  PV = PV
  ESD = ESD
  c1 = c1
  c2 = c2
  Agents = {optimizer}
  Operator = optimizer
  Policy <- ApprovalPolicy
  Tags <- AllTags
  Present = {SP, PV, ESD}
  Initial <- AtRest
  Reads <- None
  Writes <- SetpointWrites
  Moves <- None
  Calls = {c1, c2}
  Ttl = 2
  Shadow = FALSE
  SharedHistory = TRUE
  DurableHistory = FALSE
  Yields = TRUE
  Outages = FALSE
  LogFaults = FALSE
  MaxTime = 0
  MaxAudit = 3
  MaxRestarts = 0
SYMMETRY Symmetry
SPECIFICATION Spec
PROPERTY DeniedNeverRuns
