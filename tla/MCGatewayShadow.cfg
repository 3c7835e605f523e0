CONSTANTS
  diagnostics = diagnostics
  optimizer = optimizer
  SP = SP
  PV = PV
  ESD = ESD
  c1 = c1
  c2 = c2
  Agents = {optimizer}
  Operator = optimizer
  Policy <- ShadowPolicy
  Tags <- AllTags
  Present = {SP, PV, ESD}
  Initial <- AtRest
  Reads <- SomeReads
  Writes <- ShadowWrites
  Moves <- Trips
  Calls = {c1, c2}
  Ttl = 2
  Shadow = TRUE
  SharedHistory = TRUE
  DurableHistory = FALSE
  Yields = FALSE
  Outages = TRUE
  LogFaults = TRUE
  MaxTime = 2
  MaxAudit = 4
  MaxRestarts = 0
SYMMETRY Symmetry
SPECIFICATION Spec
INVARIANT ShadowTouchesNothing
PROPERTY ApprovalsRefine
