\* Two blocks of two warps, the last of them outside the volume; two layers.
CONSTANTS
  DimX = 1
  DimY = 3
  DimZ = 3
  WarpSize = 1
  CtaRows = 2
  Size = 3
  NoPoint = NoPoint
  Volumes <- AllVolumes
SPECIFICATION Spec
INVARIANTS TypeOK SlotsPartitioned OneEpilogue OverrunBounded
PROPERTY SoundCloud
CHECK_DEADLOCK FALSE
