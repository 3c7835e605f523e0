CONSTANTS
  diagnostics = diagnostics
  optimizer = optimizer
  SP = SP
  PV = PV
  ESD = ESD
  c1 = c1
  c2 = c2
  Agents = {optimizer}
  Operator = optimizer
  Policy <- ApprovalPolicy
  Tags <- AllTags
  Present = {SP, PV, ESD}
  Initial <- AtRest
  Reads <- None
  Writes <- SetpointWrites
  Moves <- Trips
  Calls = {c1, c2}
  Ttl = 2
  Shadow = FALSE
  SharedHistory = TRUE
  DurableHistory = FALSE
  Yields = FALSE
  Outages = TRUE
  LogFaults = FALSE
  MaxTime = 2
  MaxAudit = 4
  MaxRestarts = 1
SYMMETRY Symmetry
SPECIFICATION Spec
INVARIANT RunsOnce
PROPERTY DeniedNeverRuns
PROPERTY ApprovalsRefine
