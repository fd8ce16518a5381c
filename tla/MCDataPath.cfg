SPECIFICATION FairSpec
CONSTANTS
  Engines = {"e1", "e2"}
  Handlers = {"h1", "h2"}
  ReplayCapacity = 1
  MaxClock = 3
  MaxBoots = 3
  MaxGeneration = 3
  MaxVersions = 2
  LosesRenames = TRUE
  Expiry = 3
  BindingTTL = 3
  CapabilityTTL = 2
  MaxGuestOps = 2
  RecordsActivity = TRUE
  AutoResume = TRUE
  Mixes = {{"read", "command"}, {"read", "crash"},
           {"write", "pause", "resume", "crash", "sync"},
           {"socket", "drain", "call"}, {"write", "delete", "call"},
           {"write", "pause", "call"}, {"port", "pause"},
           {"write", "pause", "controller"}}
  MaxFaults = 2
INVARIANTS RunsWhereAdmitted SingleUse LeasesHeld
PROPERTIES NeverAdmittedLate QuietWhenStopped PauseSettles
CHECK_DEADLOCK FALSE
