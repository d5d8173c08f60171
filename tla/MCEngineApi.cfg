CONSTANTS
  c1 = c1
  c2 = c2
  Callers <- MCCallers
  Workloads <- MCWorkloads
  GpuBuilt = TRUE
  Prime = 97
  ExpOf <- MCExpOf
  LogOf <- MCLogOf
  RootOf <- MCRootOf
  Normal <- MCNormal
  WalkShock <- MCWalkShock
  MaxPaths = 4
  MaxSteps = 4
  Coordinates <- MCCoordinates
  MaxIterations = 3
  MaxDampingTries = 2
  Tolerance = 1
  Unit = 20
  DiscountUnit = 2
  MaxDescents = 30
SPECIFICATION Spec
INVARIANT AloneIsReproducible
INVARIANT GreeksAreTheJet
INVARIANT CalibrationImproves
INVARIANT HedgeSound
CHECK_DEADLOCK FALSE
