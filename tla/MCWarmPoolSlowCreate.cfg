SPECIFICATION Spec
CONSTANTS
  Sandboxes = {s1, s2}
  Eligible = {s1, s2}
  Api = {a}
  Rec = rec
  Keeper = keeper
  None = none
  Target = 1
  Concurrency = 1
  Strict = TRUE
  SlowCreates = TRUE
  MaxSlots = 4
  Faults = {}
  MaxFaults = 0
INVARIANT CustomersKeepSlots
