CONSTANTS
  Secrets = {"x", "y"}
  Loadable = {"p", "q"}
  Files <- SomeFiles
  Settings <- SomeSettings
  Busy = {4}
  MaxEdits = 1
SPECIFICATION Spec
INVARIANT TypeOK
INVARIANT TokenOpensOne
INVARIANT NeverOpenToAll
INVARIANT OwnRights
INVARIANT PortsApart
CHECK_DEADLOCK FALSE
