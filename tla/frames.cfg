\* Frames of three packets, of which up to two in a row are lost; the ids
\* start again within a frame.
CONSTANTS
  NumBuffers = 3
  External = FALSE
  Parts = 3
  IdMod = 4
  NoBuffer = NoBuffer
  MaxFrames = 4
  MaxChanges = 1
  MaxGap = 2
SPECIFICATION FairSpec
INVARIANTS TypeOK RefsCountOwners NeverExhausted FlagMeansStable WholeFrames
PROPERTIES HeldUntouched 
CHECK_DEADLOCK FALSE
