SPECIFICATION FairSpec
CONSTANTS
  MaxOutput = 3
  Blank = {2}
  JournalLimit = 2
  processReconnectMaxAttempts = 2
  MaxUpgrades = 1
  Jobs = {"j1", "j2"}
  guestLiveTTL = 2
  guestHealthTimeout = 1
  portCredentialTTL = 3
  MaxClock = 4
  Tokens = {"t1", "t2", "t3", "t4"}
  maxPortLeases = 3
  maxSandboxLeases = 2
  LeaseTTL = 1
  Mixes = {{"run", "cancel"}, {"run", "crash"}, {"run", "delete"},
           {"file", "inspect", "pause", "crash", "tick"},
           {"port", "pause", "autoResume", "tick"},
           {"browser", "inspect", "pause", "autoResume", "restart"},
           {"node", "file", "inspect", "pause", "restart"},
           {"node", "port", "pause", "restart"},
           {"port", "other"}, {"browser", "delete", "restart"}, {"browser", "tick"}}
INVARIANTS OutputExact IncompleteForAReason LivenessProofBounded FreshReadAfterLifecycle LeaseQuota
PROPERTIES RunSettles
CHECK_DEADLOCK FALSE
