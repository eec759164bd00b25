SPECIFICATION AppSpec
CONSTANTS
  Pose <- Motions
  Mul <- Compose
  Inv <- Back
  Identity <- Rest
  MaxLevels = 3
  IcpIterNum <- Iterations
  Still <- AtRest
  NoMap = NoMap
  MaxFrames = 3
INVARIANTS TypeOK TracksLastPose SceneIsTrue ViewerIsCamera 
PROPERTIES TrackingSpec IterationEnds
CHECK_DEADLOCK FALSE
