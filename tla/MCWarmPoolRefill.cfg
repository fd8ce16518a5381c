SPECIFICATION FairSpec
CONSTANTS
  Sandboxes = {s1}
  Eligible = {s1}
  Api = {a}
  Rec = rec
  Keeper = keeper
  None = none
  Target = 1
  Concurrency = 1
  Strict = FALSE
  SlowCreates = FALSE
  MaxSlots = 6
  Faults = {"engine_error", "engine_lost", "late_create", "store", "deadline", "crash", "age"}
  MaxFaults = 2
INVARIANT CustomersKeepSlots
PROPERTY CapacityRestored
