CONSTANTS
  diagnostics = diagnostics
  optimizer = optimizer
  SP = SP
  PV = PV
  ESD = ESD
  c1 = c1
  c2 = c2
  Agents = {optimizer}
  Operator = optimizer
  Policy <- ApprovalPolicy
  Tags <- AllTags
  Present = {SP, ESD}
  Initial <- AtRest
  Reads <- None
  Writes <- SetpointWrites
  Moves <- Trips
  Calls = {c1, c2}
  Ttl = 1
  Shadow = FALSE
  SharedHistory = TRUE
  DurableHistory = FALSE
  Yields = TRUE
  Outages = TRUE
  LogFaults = TRUE
  MaxTime = 1
  MaxAudit = 3
  MaxRestarts = 1
SPECIFICATION FairSpec
INVARIANT TypeOK
INVARIANT AuditTruthful
INVARIANT LandedWasAuthorised
INVARIANT ApprovedRan
INVARIANT ApprovedAudited
INVARIANT NeverUnverified
PROPERTY OneLinePerCall
PROPERTY StaleNeverStarts
PROPERTY SettledStays
PROPERTY CallsComplete
PROPERTY SilenceExpires
