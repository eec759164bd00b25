\* Two blocks of one warp: the volume is one voxel deep in y.  The second
\* block reaches past the volume in x.
CONSTANTS
  DimX = 3
  DimY = 1
  DimZ = 4
  WarpSize = 2
  CtaRows = 1
  Size = 6
  NoPoint = NoPoint
  Volumes <- AllVolumes
SPECIFICATION FairSpec
PROPERTIES FetchSpec FetchReturns
CHECK_DEADLOCK FALSE
