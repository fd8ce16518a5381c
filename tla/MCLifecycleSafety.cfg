SPECIFICATION Spec
CONSTANTS
  MaxGeneration = 3
  Api = {a, b}
  Rec = rec
  Nobody = nobody
  Mixes = {{"pause", "resume", "delete", "get", "guest", "overlap", "auto", "engine_error", "engine_lost", "vm_lost", "route_error", "route_lost", "store", "deadline", "crash"},
           {"pause", "resume", "delete", "get", "guest", "overlap", "auto", "late_create"},
           {"pause", "resume", "delete", "twice", "engine_error", "engine_lost", "vm_lost", "route_error", "route_lost", "store", "deadline", "crash"}}
SYMMETRY Symmetry
INVARIANTS OneMutator NoLostUpdate GuestsUndisturbed NothingLeft
PROPERTIES NoRevival SuccessConfirmed
