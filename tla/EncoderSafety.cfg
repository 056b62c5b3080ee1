SPECIFICATION Spec
CONSTANTS
  IdrInterval = 3
  SurfacePool = 3
  MaxCount = 10
  MaxForces = 2
INVARIANTS TypeOK ReferenceIsLatest PocChain IdrGap
CHECK_DEADLOCK FALSE
