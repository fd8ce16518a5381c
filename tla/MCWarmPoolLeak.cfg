SPECIFICATION FairSpec
CONSTANTS
  Sandboxes = {s1}
  Eligible = {s1}
  Api = {a}
  Rec = rec
  Keeper = keeper
  None = none
  Target = 1
  Concurrency = 1
  Strict = TRUE
  SlowCreates = FALSE
  MaxSlots = 3
  Faults = {"vm_lost"}
  MaxFaults = 1
PROPERTY SlotsReclaimed
