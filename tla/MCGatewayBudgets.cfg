CONSTANTS
  diagnostics = diagnostics
  optimizer = optimizer
  SP = SP
  PV = PV
  ESD = ESD
  c1 = c1
  c2 = c2
  Agents = {diagnostics, optimizer}
  Operator = optimizer
  Policy <- TwoAgentPolicy
  Tags <- AllTags
  Present = {SP, PV, ESD}
  Initial <- AtRest
  Reads <- None
  Writes <- TwoAgentWrites
  Moves <- None
  Calls = {c1, c2}
  Ttl = 2
  Shadow = FALSE
  SharedHistory = TRUE
  DurableHistory = TRUE
  Yields = TRUE
  Outages = FALSE
  LogFaults = TRUE
  MaxTime = 2
  MaxAudit = 4
  MaxRestarts = 1
SYMMETRY Symmetry
SPECIFICATION Spec
INVARIANT AuditComplete
INVARIANT BudgetHeld
INVARIANT LandedWithinBudget
