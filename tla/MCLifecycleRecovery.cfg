SPECIFICATION FairSpec
CONSTANTS
  MaxGeneration = 3
  Api = {a}
  Rec = rec
  Nobody = nobody
  Mixes = {{"pause", "resume", "engine_error", "engine_lost", "vm_lost", "route_error", "route_lost", "store", "deadline", "crash"},
           {"pause", "resume", "get", "crash"},
           {"pause", "delete", "get", "engine_error", "engine_lost", "vm_lost", "route_error", "route_lost", "store", "deadline", "crash"},
           {"pause", "guest", "auto", "twice", "engine_error", "engine_lost", "vm_lost", "route_error", "route_lost", "store", "deadline", "crash"},
           {"delete", "twice", "engine_error", "engine_lost", "route_error", "route_lost", "store", "crash"}}
PROPERTIES FenceReleased RecoveryConverges DoomedEnds
