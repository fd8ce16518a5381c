SPECIFICATION FairSpec
CONSTANTS
  Projects = {"p", "q"}
  MaxSandboxes = 4
  MaxWorkspaces = 2
  MaxRequests = 4
  Environments = {"e1", "e2", "e3"}
  Connectors = {"c1", "c2"}
  MaxActiveTotal = 3
  MaxActivePerProject = 2
  MaxWorkspacesLive = 1
  MaxEnvironments = 2
  MaxConnectors = 1
  Mixes = {{"environment", "connector", "store", "crash", "upgrade"},
           {"sandbox", "tenants", "store", "crash", "upgrade"},
           {"workspace", "tenants", "engine_lost", "crash", "deadline"},
           {"workspace", "engine_error", "engine_lost", "store", "crash", "deadline"},
           {"workspace", "engine_error", "store", "again"},
           {"sandbox", "workspace", "engine_lost", "crash", "upgrade"},
           {"sandbox", "checkpoint", "engine_error", "engine_lost", "store", "crash", "upgrade"}}
  MaxFaults = 2
INVARIANTS IndexExact HeadsExact WithinLimits NeverRefused EngineAccounted
PROPERTIES ConfirmedBeforeCompleted Contract WorkspacesSettle
CHECK_DEADLOCK FALSE
