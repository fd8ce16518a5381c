SPECIFICATION FairSpec
CONSTANTS
  MaxGeneration = 2
  Api = {a}
  Rec = rec
  Nobody = nobody
  Mixes = {{"route_error"}}
PROPERTY CleanupConverges
