SPECIFICATION Spec
CONSTANTS
  Routes = {r1, r2, r3}
  Owners = {o1, o2}
  Engines = {e1, e2}
  Ops = {p1, p2}
  NoOwner = NoOwner
  NoEngine = NoEngine
  MaxGeneration = 3
  MaxTime = 1
  maxRoutes = 2
  maxLedgerBytes = 22
  IdentityBytes = 1
  EngineBytes = 2
  MaxVersions = 2
  LosesRenames = FALSE
SYMMETRY Symmetry
INVARIANTS TypeOK LeasePinsAssignment NoLeakedLease LimitsOnlyRefuseGrowth
PROPERTY GenerationsNeverReused
