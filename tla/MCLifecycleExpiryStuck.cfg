SPECIFICATION FairSpec
CONSTANTS
  MaxGeneration = 2
  Api = {a}
  Rec = rec
  Nobody = nobody
  Mixes = {{"crash"}}
PROPERTY ExpiryConverges
