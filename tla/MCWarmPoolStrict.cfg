SPECIFICATION Spec
CONSTANTS
  Sandboxes = {s1, s2}
  Eligible = {s1, s2}
  Api = {a}
  Rec = rec
  Keeper = keeper
  None = none
  Target = 1
  Concurrency = 1
  Strict = TRUE
  SlowCreates = TRUE
  MaxSlots = 5
  Faults = {"engine_error", "engine_lost", "vm_lost", "store", "deadline", "crash", "age"}
  MaxFaults = 1
SYMMETRY Symmetry
INVARIANTS SingleUse StrictBudget NoStraySlot RefusalLeavesNothing
