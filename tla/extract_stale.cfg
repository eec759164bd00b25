\* One block of two warps: the counters outlive a launch.
CONSTANTS
  DimX = 2
  DimY = 2
  DimZ = 3
  WarpSize = 2
  CtaRows = 2
  Size = 4
  NoPoint = NoPoint
  Volumes <- AllVolumes
SPECIFICATION Spec
INVARIANT PreparedForFutureScans
CHECK_DEADLOCK FALSE
