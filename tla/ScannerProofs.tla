---------------------------- MODULE ScannerProofs ----------------------------
(***************************************************************************)
(* Proofs about the frame loop, and about the application around it: what  *)
(* the Scanner promises survives being called by it, and what it shows is  *)
(* true.  All for every group of motions, every number of pyramid levels   *)
(* and iterations, and scans of every length.                              *)
(***************************************************************************)
EXTENDS ScannerApp, TLAPS

-----------------------------------------------------------------------------
(* Motions.                                                                *)

\* Going o and coming back leads nowhere, with what comes behind.
LEMMA GoAndReturn ==
  ASSUME NEW o \in Pose, NEW q \in Pose
  PROVE  /\ Mul(Inv(o), Mul(o, q)) = q
         /\ Mul(o, Mul(Inv(o), q)) = q
<1>1. Inv(o) \in Pose /\ Mul(o, q) \in Pose
  BY GroupAssumption
<1>2. Mul(Inv(o), Mul(o, q)) = Mul(Mul(Inv(o), o), q)
  BY <1>1, GroupAssumption
<1>3. Mul(o, Mul(Inv(o), q)) = Mul(Mul(o, Inv(o)), q)
  BY <1>1, GroupAssumption
<1> QED
  BY <1>1, <1>2, <1>3, GroupAssumption

\* If the maps tracked by show the model from the last pose p, as a scan
\* begun at o has it, then the next pose is that of the camera seen from o.
LEMMA TrackedPose ==
  ASSUME NEW o \in Pose, NEW p \in Pose, NEW c \in Pose
  PROVE  Mul(p, Mul(Inv(Mul(o, p)), c)) = Mul(Inv(o), c)
<1> DEFINE q == Mul(Inv(Mul(o, p)), c)
<1>1. Mul(o, p) \in Pose /\ Inv(Mul(o, p)) \in Pose
  BY GroupAssumption
<1>2. q \in Pose /\ Mul(p, q) \in Pose
  BY <1>1, GroupAssumption
<1>3. Mul(o, Mul(p, q)) = Mul(Mul(o, p), q)
  BY <1>2, GroupAssumption
<1>4. Mul(Mul(o, p), q) = c
  BY <1>1, GoAndReturn
<1>5. Mul(Inv(o), Mul(o, Mul(p, q))) = Mul(p, q)
  BY <1>2, GoAndReturn
<1> QED
  BY <1>3, <1>4, <1>5

\* A frame taken at c and integrated at the pose of c seen from o puts the
\* surface where the scan begun at o has it.
LEMMA ImpliedOrigin ==
  ASSUME NEW o \in Pose, NEW c \in Pose
  PROVE  Mul(c, Inv(Mul(Inv(o), c))) = o
<1> DEFINE p == Mul(Inv(o), c)
<1>1. p \in Pose /\ Inv(p) \in Pose
  BY GroupAssumption
<1>2. Mul(o, p) = c
  BY GoAndReturn
<1>3. Mul(Mul(o, p), Inv(p)) = Mul(o, Mul(p, Inv(p)))
  BY <1>1, GroupAssumption
<1>4. Mul(o, Mul(p, Inv(p))) = o
  BY <1>1, GroupAssumption
<1> QED
  BY <1>2, <1>3, <1>4

\* The inverse of standing still.
LEMMA IdentityInverse == Inv(Identity) = Identity
<1>1. Mul(Identity, Inv(Identity)) = Inv(Identity)
  BY GroupAssumption
<1> QED
  BY <1>1, GroupAssumption

-----------------------------------------------------------------------------
(* Types.                                                                  *)

\* The maps measured, drawn or swapped are maps of places.
LEMMA MapTypes ==
  ASSUME TypeOK, NEW c \in Pose
  PROVE  /\ Measured(c) \in Frames
         /\ Predicted(c) \in Frames
         /\ Last \in Pose
         /\ \A affine \in Pose : NextPose(affine) \in Pose
         /\ Integrated(c, Last) \subseteq Pose
<1>1. Len(poses) \in Nat \ {0} /\ Last \in Pose
  BY DEF TypeOK, Last
<1>2. Measured(c) \in Frames /\ Predicted(c) \in Frames
  BY DEF TypeOK, Frames, Measured, Predicted
<1>3. \A affine \in Pose : NextPose(affine) \in Pose
  BY <1>1, GroupAssumption DEF NextPose
<1>4. Integrated(c, Last) \subseteq Pose
  BY <1>1, GroupAssumption DEF TypeOK, Integrated
<1> QED
  BY <1>1, <1>2, <1>3, <1>4

\* What ICP may find is a motion.
LEMMA EstimateTypes ==
  ASSUME TypeOK, NEW frame \in Frames
  PROVE  Estimates(frame) \subseteq Pose
<1> SUFFICES ASSUME NEW m \in Read, prev[m] # NoMap, frame[m] # NoMap
             PROVE  Mul(Inv(prev[m]), frame[m]) \in Pose
  BY DEF Estimates
<1>1. m \in Maps
  BY DEF Read
<1>2. prev[m] \in Pose /\ frame[m] \in Pose
  BY <1>1 DEF TypeOK, Frames
<1> QED
  BY <1>2, GroupAssumption

\* TypeOK is inductive: the state of the Scanner keeps its types.
LEMMA TypeStep == TypeOK /\ [Next]_vars => TypeOK'
<1> SUFFICES ASSUME TypeOK, [Next]_vars PROVE TypeOK'
  OBVIOUS
<1>1. ASSUME NEW c \in Pose, FirstFrame(c) PROVE TypeOK'
  <2>1. Measured(c) \in Frames /\ Integrated(c, Last) \subseteq Pose
    BY MapTypes
  <2>2. frame_counter' \in Nat /\ images' \in Pose /\ result' = FALSE
    BY <1>1 DEF FirstFrame
  <2>3. seen' \in Seq(Pose)
    BY <1>1 DEF FirstFrame
  <2>4. poses' \in Seq(Pose) /\ poses' # <<>>
    BY <1>1 DEF FirstFrame, TypeOK
  <2>5. volume' \subseteq Pose /\ prev' \in Frames /\ curr' \in Frames
    BY <1>1, <2>1 DEF FirstFrame, SwappedMaps, TypeOK
  <2> QED
    BY <2>2, <2>3, <2>4, <2>5 DEF TypeOK
<1>2. ASSUME reset
      PROVE  /\ frame_counter' \in Nat /\ volume' \subseteq Pose
             /\ poses' \in Seq(Pose) /\ poses' # <<>> /\ seen' \in Seq(Pose)
  BY <1>2, GroupAssumption DEF reset
<1>3. ASSUME NEW c \in Pose, LoseTrack(c) PROVE TypeOK'
  <2>1. Measured(c) \in Frames
    BY MapTypes
  <2>2. reset
    BY <1>3 DEF LoseTrack
  <2>3. /\ curr' \in Frames /\ prev' \in Frames
        /\ images' \in Pose /\ result' = FALSE
    BY <1>3, <2>1 DEF LoseTrack, TypeOK
  <2> QED
    BY <1>2, <2>2, <2>3 DEF TypeOK
<1>4. ASSUME NEW c \in Pose, Track(c) PROVE TypeOK'
  <2>1. Measured(c) \in Frames
    BY MapTypes
  <2>2. PICK affine \in Estimates(Measured(c)) :
          /\ poses' = Append(poses, NextPose(affine))
          /\ volume' = IF affine \in Still THEN volume
                       ELSE Integrated(c, NextPose(affine))
          /\ \E o \in volume' : prev' = Predicted(Mul(o, NextPose(affine)))
    BY <1>4 DEF Track
  <2>3. affine \in Pose
    BY <2>1, EstimateTypes
  <2>4. NextPose(affine) \in Pose
    BY <2>3, <1>4, MapTypes
  <2>5. poses' \in Seq(Pose) /\ poses' # <<>>
    <3>1. poses' = Append(poses, NextPose(affine))
      BY <2>2
    <3> QED
      BY <3>1, <2>4 DEF TypeOK
  <2>6. volume' \subseteq Pose
    <3>1. Integrated(c, NextPose(affine)) \subseteq Pose
      BY <2>4, GroupAssumption DEF Integrated, TypeOK
    <3> QED
      BY <2>2, <3>1 DEF TypeOK
  <2>7. prev' \in Frames
    <3>1. PICK o \in volume' : prev' = Predicted(Mul(o, NextPose(affine)))
      BY <2>2
    <3>2. Mul(o, NextPose(affine)) \in Pose
      BY <2>4, <2>6, GroupAssumption
    <3> QED
      BY <3>1, <3>2, MapTypes
  <2>8. /\ curr' \in Frames /\ frame_counter' \in Nat
        /\ images' \in Pose /\ result' = TRUE
    BY <1>4, <2>1 DEF Track, TypeOK
  <2>9. seen' \in Seq(Pose)
    BY <1>4 DEF Track, TypeOK
  <2> QED
    BY <2>5, <2>6, <2>7, <2>8, <2>9 DEF TypeOK
<1>5. CASE Reset
  <2>1. UNCHANGED <<curr, prev, images, result>> /\ reset
    BY <1>5 DEF Reset
  <2> QED
    BY <2>1, <1>2 DEF TypeOK
<1>6. CASE UNCHANGED vars
  BY <1>6 DEF vars, TypeOK
<1> QED
  BY <1>1, <1>3, <1>4, <1>5, <1>6 DEF Next

\* The constructor's state has its types.
LEMMA TypeInit == Init => TypeOK
<1> SUFFICES ASSUME Init PROVE TypeOK
  OBVIOUS
<1>1. curr \in Frames /\ prev \in Frames
  BY DEF Init, Frames
<1>2. poses \in Seq(Pose) /\ poses # <<>> /\ seen \in Seq(Pose)
  BY GroupAssumption DEF Init
<1> QED
  BY <1>1, <1>2 DEF Init, TypeOK

\* The Scanner's state is always well typed: in particular poses_.back(),
\* which every frame and getCameraPose() read, always exists.
THEOREM TypeCorrect == Spec => []TypeOK
<1> QED
  BY TypeInit, TypeStep, PTL DEF Spec

-----------------------------------------------------------------------------
(* The scan.                                                               *)

\* ICP reads maps of used levels only, level 0 is used, and some map is read.
LEMMA LevelsRead ==
  /\ \A m \in Read : m \in Maps /\ m[2] \in UsedLevels
  /\ 0 \in UsedLevels
  /\ Read # {}
<1>1. Levels \subseteq Nat /\ 0 \in Levels
  BY ParamsAssumption DEF Levels
<1>2. PICK k \in Levels : Iters[k] > 0
  BY IterationsAssumption
<1>3. 0 \in UsedLevels
  BY <1>1, <1>2 DEF UsedLevels
<1>4. ASSUME NEW m \in Read PROVE m \in Maps /\ m[2] \in UsedLevels
  <2>1. m \in Maps /\ Iters[m[2]] > 0
    BY DEF Read
  <2>2. m[2] \in Levels
    BY <2>1 DEF Maps
  <2>3. \A l \in Levels : l >= l
    BY <1>1
  <2> QED
    BY <2>1, <2>2, <2>3 DEF UsedLevels
<1>5. <<"points", k>> \in Read
  <2>1. <<"points", k>> \in Maps
    BY <1>2 DEF Maps
  <2> QED
    BY <2>1, <1>2 DEF Read
<1> QED
  BY <1>3, <1>4, <1>5

\* While a scan is under way, ICP finds one motion at the most, and it leads
\* to the camera's pose as seen from the first frame of the scan.
LEMMA EstimateIsExact ==
  ASSUME TypeOK, ScanInv, frame_counter > 0, NEW c \in Pose,
         NEW affine \in Estimates(Measured(c))
  PROVE  NextPose(affine) = Mul(Inv(seen[1]), c)
<1>1. PICK m \in Read : affine = Mul(Inv(prev[m]), Measured(c)[m])
  BY DEF Estimates
<1>2. m \in Maps /\ m[2] \in UsedLevels
  BY LevelsRead
<1>3. Measured(c)[m] = c
  BY <1>2 DEF Measured
<1>4. prev[m] = Mul(seen[1], Last)
  BY <1>2 DEF ScanInv
<1>5. seen[1] \in Pose
  BY DEF ScanInv, OnePosePerFrame, TypeOK
<1>6. Last \in Pose
  BY MapTypes
<1> QED
  BY <1>1, <1>3, <1>4, <1>5, <1>6, TrackedPose DEF NextPose

\* A tracked frame is placed where the scan has its origin, and is drawn as
\* the camera sees it.
LEMMA TrackStep ==
  ASSUME TypeOK, ScanInv, NEW c \in Pose, Track(c)
  PROVE  /\ frame_counter > 0 /\ seen[1] \in Pose
         /\ poses' = Append(poses, Mul(Inv(seen[1]), c))
         /\ volume' = {seen[1]}
         /\ prev' = Predicted(c)
<1>1. PICK affine \in Estimates(Measured(c)) :
        /\ poses' = Append(poses, NextPose(affine))
        /\ volume' = IF affine \in Still THEN volume
                     ELSE Integrated(c, NextPose(affine))
        /\ \E o \in volume' : prev' = Predicted(Mul(o, NextPose(affine)))
  BY DEF Track
<1>2. frame_counter > 0
  BY DEF Track, TypeOK
<1>3. seen[1] \in Pose
  BY <1>2 DEF ScanInv, OnePosePerFrame, TypeOK
<1>4. NextPose(affine) = Mul(Inv(seen[1]), c)
  BY <1>2, EstimateIsExact
<1>5. volume = {seen[1]}
  BY <1>2 DEF ScanInv
<1>6. Integrated(c, NextPose(affine)) = {seen[1]}
  <2>1. Mul(c, Inv(NextPose(affine))) = seen[1]
    BY <1>3, <1>4, ImpliedOrigin
  <2> QED
    BY <2>1, <1>5 DEF Integrated
<1>7. volume' = {seen[1]}
  BY <1>1, <1>5, <1>6
<1>8. Mul(seen[1], NextPose(affine)) = c
  BY <1>3, <1>4, GoAndReturn
<1> QED
  BY <1>1, <1>2, <1>3, <1>4, <1>7, <1>8

\* The invariant holds when the Scanner is constructed.
LEMMA ScanInit == Init => ScanInv
  BY DEF Init, ScanInv, OnePosePerFrame

\* The invariant is inductive.
LEMMA ScanStep == TypeOK /\ ScanInv /\ [Next]_vars => ScanInv'
<1> SUFFICES ASSUME TypeOK, ScanInv, [Next]_vars PROVE ScanInv'
  OBVIOUS
<1>1. ASSUME NEW c \in Pose, FirstFrame(c) PROVE ScanInv'
  <2>1. poses = <<Identity>> /\ volume = {} /\ Last = Identity
    <3>1. frame_counter = 0
      BY <1>1 DEF FirstFrame
    <3>2. poses = <<Identity>> /\ volume = {}
      BY <3>1 DEF ScanInv
    <3> QED
      BY <3>2 DEF Last
  <2>2. poses' = <<Identity>> /\ seen' = <<c>> /\ frame_counter' = 1
    BY <1>1, <2>1 DEF FirstFrame
  <2>3. OnePosePerFrame'
    BY <2>2 DEF OnePosePerFrame
  <2>4. volume' = {c}
    <3>1. Mul(c, Inv(Identity)) = c
      BY IdentityInverse, GroupAssumption
    <3> QED
      BY <1>1, <2>1, <3>1 DEF FirstFrame, Integrated
  <2>5. \A i \in 1 .. Len(poses') : poses'[i] = Mul(Inv(seen'[1]), seen'[i])
    <3>1. Mul(Inv(c), c) = Identity
      BY GroupAssumption
    <3> QED
      BY <2>2, <3>1
  <2>6. ASSUME NEW m \in Maps, m[2] \in UsedLevels
        PROVE  prev'[m] = Mul(seen'[1], Last')
    <3>1. Last' = Identity /\ seen'[1] = c
      BY <2>2 DEF Last
    <3>2. prev'[m] = c
      BY <1>1, <2>6 DEF FirstFrame, SwappedMaps, Measured
    <3> QED
      BY <3>1, <3>2, GroupAssumption
  <2> QED
    BY <2>2, <2>3, <2>4, <2>5, <2>6 DEF ScanInv
<1>2. ASSUME reset
      PROVE  /\ OnePosePerFrame' /\ frame_counter' = 0
             /\ poses' = <<Identity>> /\ volume' = {}
  BY <1>2 DEF reset, OnePosePerFrame
<1>3. ASSUME NEW c \in Pose, LoseTrack(c) PROVE ScanInv'
  <2> QED
    BY <1>2, <1>3 DEF LoseTrack, ScanInv
<1>4. ASSUME NEW c \in Pose, Track(c) PROVE ScanInv'
  <2>1. /\ frame_counter > 0 /\ seen[1] \in Pose
        /\ poses' = Append(poses, Mul(Inv(seen[1]), c))
        /\ volume' = {seen[1]} /\ prev' = Predicted(c)
    BY <1>4, TrackStep
  <2>2. /\ seen' = Append(seen, c) /\ frame_counter' = frame_counter + 1
        /\ images' = c
    BY <1>4 DEF Track
  <2>3. /\ frame_counter \in Nat \ {0}
        /\ Len(seen) = frame_counter /\ Len(poses) = frame_counter
        /\ seen \in Seq(Pose) /\ poses \in Seq(Pose)
    BY <2>1 DEF ScanInv, OnePosePerFrame, TypeOK
  <2>4. Mul(Inv(seen[1]), c) \in Pose
    BY <2>1, GroupAssumption
  <2>5. OnePosePerFrame'
    BY <2>1, <2>2, <2>3, <2>4 DEF OnePosePerFrame
  <2>6. seen'[1] = seen[1]
    BY <2>2, <2>3
  <2>7. ASSUME NEW i \in 1 .. Len(poses')
        PROVE  poses'[i] = Mul(Inv(seen'[1]), seen'[i])
    <3>1. Len(poses') = Len(poses) + 1
      BY <2>1, <2>3, <2>4
    <3>2. CASE i \in 1 .. Len(poses)
      <4>1. poses'[i] = poses[i] /\ seen'[i] = seen[i]
        BY <3>2, <2>1, <2>2, <2>3, <2>4
      <4>2. poses[i] = Mul(Inv(seen[1]), seen[i])
        BY <3>2, <2>1 DEF ScanInv
      <4> QED
        BY <4>1, <4>2, <2>6
    <3>3. CASE i = Len(poses) + 1
      <4>1. poses'[i] = Mul(Inv(seen[1]), c) /\ seen'[i] = c
        BY <3>3, <2>1, <2>2, <2>3, <2>4
      <4> QED
        BY <4>1, <2>6
    <3> QED
      BY <3>1, <3>2, <3>3, <2>3
  <2>8. Mul(seen'[1], Last') = c
    <3>1. Last' = Mul(Inv(seen[1]), c)
      BY <2>1, <2>3, <2>4 DEF Last
    <3> QED
      BY <3>1, <2>1, <2>6, GoAndReturn
  <2>9. \A m \in Maps : m[2] \in UsedLevels => prev'[m] = c
    BY <2>1 DEF Predicted
  <2>10. frame_counter' > 0
    BY <2>2, <2>3
  <2> QED
    BY <2>1, <2>5, <2>6, <2>7, <2>8, <2>9, <2>10 DEF ScanInv
<1>5. CASE Reset
  <2> QED
    BY <1>2, <1>5 DEF Reset, ScanInv
<1>6. CASE UNCHANGED vars
  BY <1>6 DEF vars, ScanInv, OnePosePerFrame, Last
<1> QED
  BY <1>1, <1>3, <1>4, <1>5, <1>6 DEF Next

\* In every reachable state of the Scanner, ScanInv holds.
LEMMA ScanInvariant == Spec => [](TypeOK /\ ScanInv)
<1>1. Init => TypeOK /\ ScanInv
  BY TypeInit, ScanInit
<1>2. TypeOK /\ ScanInv /\ [Next]_vars => (TypeOK /\ ScanInv)'
  BY TypeStep, ScanStep
<1> QED
  BY <1>1, <1>2, PTL DEF Spec

\* The trajectory has one pose for every frame of the scan.
THEOREM PosesMatchFrames == Spec => []OnePosePerFrame
<1>1. ScanInv => OnePosePerFrame
  BY DEF ScanInv
<1> QED
  BY <1>1, ScanInvariant, PTL

\* ICP reads the model as seen from the last pose, and no stale map.
THEOREM TrackingIsCurrent == Spec => []TracksLastPose
<1>1. ScanInv => TracksLastPose
  <2> SUFFICES ASSUME ScanInv, frame_counter > 0
               PROVE  /\ volume # {}
                      /\ \A o \in volume, m \in Read : prev[m] = Mul(o, Last)
    BY DEF TracksLastPose
  <2>1. volume = {seen[1]}
    BY DEF ScanInv
  <2>2. \A m \in Read : prev[m] = Mul(seen[1], Last)
    BY LevelsRead DEF ScanInv
  <2> QED
    BY <2>1, <2>2
<1> QED
  BY <1>1, ScanInvariant, PTL

\* The frames in the volume agree where the surface is.
THEOREM SurfacesCoincide == Spec => []OneSurface
<1>1. TypeOK /\ ScanInv => OneSurface
  <2> SUFFICES ASSUME TypeOK, ScanInv PROVE OneSurface
    OBVIOUS
  <2>1. volume = {} \/ volume = {seen[1]}
    <3>1. frame_counter = 0 \/ frame_counter > 0
      BY DEF TypeOK
    <3> QED
      BY <3>1 DEF ScanInv
  <2> QED
    BY <2>1 DEF OneSurface
<1> QED
  BY <1>1, ScanInvariant, PTL

\* A call that returns true leaves the view from where its image was taken.
LEMMA TrackedColours ==
  ASSUME TypeOK, ScanInv, NEW c \in Pose, Track(c)
  PROVE  \A m \in Maps : m[2] = 0 => prev'[m] = c
<1>1. prev' = Predicted(c)
  BY TrackStep
<1> QED
  BY <1>1, LevelsRead DEF Predicted

\* The colour image goes with the maps it may be painted on.
THEOREM ColoursGoWithMaps == Spec => []ColoursMatch
<1>1. Init => ColoursMatch
  BY DEF Init, ColoursMatch
<1>2. TypeOK /\ ScanInv /\ ColoursMatch /\ [Next]_vars => ColoursMatch'
  <2> SUFFICES ASSUME TypeOK, ScanInv, ColoursMatch, [Next]_vars
               PROVE  ColoursMatch'
    OBVIOUS
  <2>1. ASSUME NEW c \in Pose, FirstFrame(c) \/ LoseTrack(c) PROVE ColoursMatch'
    BY <2>1 DEF FirstFrame, LoseTrack, ColoursMatch
  <2>2. ASSUME NEW c \in Pose, Track(c) PROVE ColoursMatch'
    <3>1. images' = c
      BY <2>2 DEF Track
    <3> QED
      BY <2>2, <3>1, TrackedColours DEF ColoursMatch
  <2>3. CASE Reset \/ UNCHANGED vars
    BY <2>3 DEF Reset, vars, ColoursMatch
  <2> QED
    BY <2>1, <2>2, <2>3 DEF Next
<1> QED
  BY <1>1, <1>2, ScanInvariant, PTL DEF Spec

-----------------------------------------------------------------------------
(* The Scanner implements Tracking.                                        *)

\* Each step of the Scanner is a step of Tracking, or changes nothing there.
LEMMA StepRefines ==
  TypeOK /\ ScanInv /\ [Next]_vars => [Tracker!Next]_Tracker!vars
<1> SUFFICES ASSUME TypeOK, ScanInv, [Next]_vars
             PROVE  [Tracker!Next]_Tracker!vars
  OBVIOUS
<1> USE DEF Tracker!Next, Tracker!vars
<1>1. ASSUME NEW c \in Pose, FirstFrame(c) PROVE Tracker!Begin(c)
  <2>1. frame_counter = 0 /\ poses = <<Identity>>
    BY <1>1 DEF FirstFrame, ScanInv
  <2>2. seen = <<>>
    BY <2>1 DEF ScanInv, OnePosePerFrame, TypeOK
  <2> QED
    BY <1>1, <2>1, <2>2 DEF FirstFrame, Tracker!Begin
<1>2. ASSUME NEW c \in Pose, LoseTrack(c) PROVE Tracker!GiveUp(FALSE)
  BY <1>2 DEF LoseTrack, reset, Tracker!GiveUp
<1>3. ASSUME NEW c \in Pose, Track(c) PROVE Tracker!Follow(c)
  <2>1. frame_counter > 0 /\ poses' = Append(poses, Mul(Inv(seen[1]), c))
    BY <1>3, TrackStep
  <2>2. seen # <<>>
    BY <2>1 DEF ScanInv, OnePosePerFrame, TypeOK
  <2>3. seen' = Append(seen, c) /\ result' = TRUE
    BY <1>3 DEF Track
  <2> QED
    BY <2>1, <2>2, <2>3 DEF Tracker!Follow
<1>4. CASE Reset
  <2>1. Tracker!GiveUp(result)
    BY <1>4 DEF Reset, reset, Tracker!GiveUp
  <2> QED
    BY <2>1
<1>5. CASE UNCHANGED vars
  BY <1>5 DEF vars
<1> QED
  BY <1>1, <1>2, <1>3, <1>4, <1>5 DEF Next

\* The Scanner keeps its caller's contract: the poses it tells are those of
\* the camera relative to the first frame, until a call returns FALSE.
THEOREM ImplementsTracking == Spec => TrackingSpec
<1>1. Init => Tracker!Init
  BY DEF Init, Tracker!Init
<1>2. TypeOK /\ ScanInv /\ [Next]_vars => [Tracker!Next]_Tracker!vars
  BY StepRefines
<1> QED
  BY <1>1, <1>2, ScanInvariant, PTL DEF Spec, TrackingSpec, Tracker!Spec

-----------------------------------------------------------------------------
(* The application.                                                        *)

allVars == <<vars, appVars>>

\* What the application knows between its steps: the frame it has grabbed was
\* taken at a place, and after a call that returned true the scanner's view
\* and its image are from there.
LoopInv ==
  /\ step = "start" => device = NoMap
  /\ step = "scan" => device \in Pose
  /\ step = "show" /\ result =>
       /\ frame_counter > 0
       /\ images = device /\ prev[<<"points", 0>>] = device

\* Why the application works: the Scanner's invariant, in which nothing is
\* said of images_, for an upload changes it under the scanner's hands.
AppInv == TypeOK /\ ScanInv /\ LoopInv

\* The map that is drawn is one of level 0, which is always used.
LEMMA DrawnMap == <<"points", 0>> \in Maps /\ 0 \in UsedLevels
<1>1. 0 \in UsedLevels
  BY LevelsRead
<1>2. 0 \in Levels
  BY <1>1 DEF UsedLevels
<1> QED
  BY <1>1, <1>2 DEF Maps

\* A scanner that nobody calls stays as it is.
LEMMA CoreUnchanged ==
  ASSUME TypeOK, ScanInv, UNCHANGED vars
  PROVE  TypeOK' /\ ScanInv'
<1>1. [Next]_vars
  OBVIOUS
<1> QED
  BY <1>1, TypeStep, ScanStep

\* An upload leaves the scan alone, though it changes the scanner's image.
LEMMA GrabStep ==
  ASSUME TypeOK, ScanInv, NEW c \in Pose, Grab(c)
  PROVE  TypeOK' /\ ScanInv'
<1>1. UNCHANGED <<frame_counter, poses, volume, curr, prev, result, seen>>
  BY DEF Grab
<1>2. images' \in Pose \cup {NoMap}
  BY DEF Grab
<1>3. TypeOK'
  BY <1>1, <1>2 DEF TypeOK
<1>4. OnePosePerFrame' /\ Last' = Last
  BY <1>1 DEF ScanInv, OnePosePerFrame, Last
<1> QED
  BY <1>1, <1>3, <1>4 DEF ScanInv

\* A call of the scanner keeps its invariant, and leaves what Show needs.
LEMMA ScanKeeps ==
  ASSUME AppInv, Scan
  PROVE  /\ AppInv' /\ device \in Pose
         /\ FirstFrame(device) \/ LoseTrack(device) \/ Track(device)
<1>1. /\ step = "scan" /\ step' = "show" /\ UNCHANGED device
      /\ FirstFrame(device) \/ LoseTrack(device) \/ Track(device)
  BY DEF Scan
<1>2. device \in Pose
  BY <1>1 DEF AppInv, LoopInv
<1>3. [Next]_vars
  BY <1>1, <1>2 DEF Next
<1>4. TypeOK' /\ ScanInv'
  BY <1>3, TypeStep, ScanStep DEF AppInv
<1>5. LoopInv'
  <2>1. CASE FirstFrame(device) \/ LoseTrack(device)
    BY <2>1, <1>1 DEF LoopInv, FirstFrame, LoseTrack
  <2>2. CASE Track(device)
    <3>1. images' = device /\ frame_counter' = frame_counter + 1
      BY <2>2 DEF Track
    <3>2. frame_counter' > 0
      BY <3>1 DEF AppInv, TypeOK
    <3>3. prev'[<<"points", 0>>] = device
      BY <2>2, <1>2, TrackedColours, DrawnMap DEF AppInv
    <3> QED
      BY <1>1, <3>1, <3>2, <3>3 DEF LoopInv
  <2> QED
    BY <1>1, <2>1, <2>2
<1> QED
  BY <1>1, <1>2, <1>4, <1>5 DEF AppInv

\* The steps of the program that leave the scanner alone.
Outside == Start \/ GrabFails \/ Show \/ NoKey \/ EndSpin \/ User

\* They do not come to a call, or to what a call leaves to be shown.
LEMMA OutsideStep ==
  ASSUME Outside
  PROVE  /\ UNCHANGED <<vars, device>>
         /\ step' \notin {"start", "scan", "show"}
  BY DEF Outside, User, Start, GrabFails, Show, NoKey, EndSpin, MoveViewer,
         ToggleInteractive, EmptyCloud, TakeCloud, SaveMesh, Asked, vars

\* A step of the program is one of those, an upload or a call.
LEMMA StepsOfApp ==
  AppNext <=> Outside \/ Scan \/ \E c \in Pose : Grab(c)
  BY DEF AppNext, Loop, Outside

\* AppInv is inductive.
LEMMA AppStep == AppInv /\ [AppNext]_allVars => AppInv'
<1> SUFFICES ASSUME AppInv, [AppNext]_allVars PROVE AppInv'
  OBVIOUS
<1>1. CASE Outside
  <2>1. UNCHANGED <<vars, device>> /\ step' \notin {"start", "scan", "show"}
    BY <1>1, OutsideStep
  <2>2. LoopInv'
    BY <2>1 DEF LoopInv
  <2> QED
    BY <2>1, <2>2, CoreUnchanged DEF AppInv
<1>2. CASE Scan
  BY <1>2, ScanKeeps
<1>3. ASSUME NEW c \in Pose, Grab(c) PROVE AppInv'
  <2>1. step' = "scan" /\ device' = c
    BY <1>3 DEF Grab
  <2> QED
    BY <1>3, <2>1, GrabStep DEF AppInv, LoopInv
<1>4. CASE UNCHANGED allVars
  <2>1. UNCHANGED vars /\ UNCHANGED <<step, device>>
    BY <1>4 DEF allVars, appVars
  <2>2. LoopInv'
    BY <2>1 DEF AppInv, LoopInv, vars
  <2> QED
    BY <2>1, <2>2, CoreUnchanged DEF AppInv
<1> QED
  BY <1>1, <1>2, <1>3, <1>4, StepsOfApp

LEMMA AppBegins == AppInit => AppInv
  BY TypeInit, ScanInit DEF AppInit, AppInv, LoopInv

\* In every reachable state of the program, AppInv holds.
LEMMA AppInvariant == AppSpec => []AppInv
<1> USE DEF allVars
<1> QED
  BY AppBegins, AppStep, PTL DEF AppSpec

-----------------------------------------------------------------------------
(* What the program shows.                                                 *)

\* The last pose is where the camera is, seen from where the scan began.
LEMMA LastPose ==
  ASSUME TypeOK, ScanInv
  PROVE  Last = IF seen = <<>> THEN Identity
                ELSE Mul(Inv(seen[1]), seen[Len(seen)])
<1>1. CASE frame_counter = 0
  <2>1. seen = <<>> /\ poses = <<Identity>>
    BY <1>1 DEF ScanInv, OnePosePerFrame, TypeOK
  <2> QED
    BY <2>1 DEF Last
<1>2. CASE frame_counter > 0
  <2>1. Len(seen) = frame_counter /\ Len(poses) = frame_counter
    BY <1>2 DEF ScanInv, OnePosePerFrame
  <2>2. seen # <<>> /\ Len(poses) \in 1 .. Len(poses)
    BY <1>2, <2>1 DEF TypeOK
  <2>3. poses[Len(poses)] = Mul(Inv(seen[1]), seen[Len(poses)])
    BY <1>2, <2>2 DEF ScanInv
  <2> QED
    BY <2>1, <2>2, <2>3 DEF Last
<1> QED
  BY <1>1, <1>2 DEF TypeOK

\* A step that shows nothing has not come to the key.
LEMMA KeyOnlyFromShow ==
  ASSUME [AppNext]_allVars
  PROVE  Show \/ step' # "key" \/ UNCHANGED allVars
  BY DEF AppNext, Loop, User, Start, GrabFails, Grab, Scan, NoKey, EndSpin,
         MoveViewer, ToggleInteractive, EmptyCloud, TakeCloud, SaveMesh, Asked

\* What is drawn is drawn from where the camera is, or from where the viewer
\* is, in the colours of the frame, or in none.
LEMMA ShowDraws ==
  ASSUME AppInv, Show
  PROVE  SceneIsTrue' /\ ViewerIsCamera'
<1>1. /\ step = "show" /\ UNCHANGED vars
      /\ UNCHANGED device /\ UNCHANGED interactive
      /\ scene' \in IF ~result THEN {NoScene}
                    ELSE IF interactive THEN RenderedFrom(viewer) ELSE Rendered
      /\ viewer' = IF interactive THEN viewer ELSE getCameraPose(-1)
  BY DEF Show, userVars
<1>2. UNCHANGED <<result, seen>>
  BY <1>1 DEF vars
<1>3. result => volume = {seen[1]} /\ images = device
                /\ prev[<<"points", 0>>] = device
  BY <1>1 DEF AppInv, LoopInv, ScanInv
<1>4. SceneIsTrue'
  <2>1. CASE ~result
    BY <2>1, <1>1, <1>2 DEF SceneIsTrue, NoScene
  <2>2. CASE result /\ interactive
    <3>1. scene' = [points |-> Mul(seen[1], viewer), colours |-> NoMap]
      BY <2>2, <1>1, <1>3 DEF RenderedFrom
    <3>2. viewer' = viewer /\ interactive' = interactive
      BY <2>2, <1>1
    <3> QED
      BY <2>2, <3>1, <3>2, <1>2 DEF SceneIsTrue
  <2>3. CASE result /\ ~interactive
    <3>1. scene' = [points |-> device, colours |-> device]
      BY <2>3, <1>1, <1>3 DEF Rendered
    <3>2. device' = device /\ interactive' = interactive
      BY <1>1
    <3> QED
      BY <2>3, <3>1, <3>2, <1>2 DEF SceneIsTrue
  <2> QED
    BY <2>1, <2>2, <2>3
<1>5. ViewerIsCamera'
  <2>1. getCameraPose(-1) = Last
    BY DEF getCameraPose, Last
  <2>2. Last = IF seen = <<>> THEN Identity
               ELSE Mul(Inv(seen[1]), seen[Len(seen)])
    BY LastPose DEF AppInv
  <2>3. ~interactive' => viewer' = Last
    BY <1>1, <2>1
  <2> QED
    BY <2>2, <2>3, <1>2 DEF ViewerIsCamera
<1> QED
  BY <1>4, <1>5

\* The window shows the scanned surface from where the camera is, painted with
\* the frame taken there, or from where the viewer is.
THEOREM SceneAlwaysTrue == AppSpec => []SceneIsTrue
<1>1. AppInit => SceneIsTrue
  BY DEF AppInit, SceneIsTrue, NoScene
<1>2. AppInv /\ SceneIsTrue /\ [AppNext]_allVars => SceneIsTrue'
  <2> SUFFICES ASSUME AppInv, SceneIsTrue, [AppNext]_allVars
               PROVE  SceneIsTrue'
    OBVIOUS
  <2>1. CASE Show
    BY <2>1, ShowDraws
  <2>2. CASE ~Show /\ step' # "key" /\ AppNext
    <3>1. scene' = NoScene \/ scene' = scene
      BY <2>2 DEF AppNext, Loop, User, Start, GrabFails, Grab, Scan, NoKey,
         EndSpin, MoveViewer, ToggleInteractive, EmptyCloud, TakeCloud,
         SaveMesh, Asked
    <3> QED
      BY <2>2, <3>1 DEF SceneIsTrue, NoScene
  <2>3. CASE UNCHANGED allVars
    BY <2>3 DEF allVars, vars, appVars, userVars, SceneIsTrue
  <2> QED
    BY <2>1, <2>2, <2>3, KeyOnlyFromShow
<1> USE DEF allVars
<1> QED
  BY <1>1, <1>2, AppInvariant, PTL DEF AppSpec

\* The viewer follows the camera while the user leaves it alone.
THEOREM ViewerFollowsCamera == AppSpec => []ViewerIsCamera
<1>1. AppInit => ViewerIsCamera
  BY DEF AppInit, ViewerIsCamera
<1>2. AppInv /\ ViewerIsCamera /\ [AppNext]_allVars => ViewerIsCamera'
  <2> SUFFICES ASSUME AppInv, ViewerIsCamera, [AppNext]_allVars
               PROVE  ViewerIsCamera'
    OBVIOUS
  <2>1. CASE Show
    BY <2>1, ShowDraws
  <2>2. CASE step' # "key"
    BY <2>2 DEF ViewerIsCamera
  <2>3. CASE UNCHANGED allVars
    BY <2>3 DEF allVars, vars, appVars, userVars, ViewerIsCamera
  <2> QED
    BY <2>1, <2>2, <2>3, KeyOnlyFromShow
<1> USE DEF allVars
<1> QED
  BY <1>1, <1>2, AppInvariant, PTL DEF AppSpec

\* Asking for points ends the program only when a scan was just lost.
THEOREM PointsWhenScanned == AppSpec => []PointsWhileScanning
<1>1. AppInit => PointsWhileScanning
  BY DEF AppInit, PointsWhileScanning
<1>2. AppInv /\ PointsWhileScanning /\ [AppNext]_allVars => PointsWhileScanning'
  <2> SUFFICES ASSUME AppInv, PointsWhileScanning, [AppNext]_allVars
               PROVE  PointsWhileScanning'
    OBVIOUS
  <2>1. CASE Start
    <3>1. device' = NoMap
      BY <2>1 DEF Start, AppInv, LoopInv
    <3> QED
      BY <3>1 DEF PointsWhileScanning
  <2>2. CASE EmptyCloud
    <3>1. volume = {} /\ UNCHANGED vars
      BY <2>2 DEF EmptyCloud
    <3>2. frame_counter = 0
      <4>1. frame_counter > 0 => volume = {seen[1]}
        BY DEF AppInv, ScanInv
      <4>2. frame_counter \in Nat
        BY DEF AppInv, TypeOK
      <4> QED
        BY <3>1, <4>1, <4>2
    <3>3. seen = <<>>
      <4>1. OnePosePerFrame /\ seen \in Seq(Pose)
        BY DEF AppInv, ScanInv, TypeOK
      <4> QED
        BY <4>1, <3>2 DEF OnePosePerFrame
    <3> QED
      BY <3>1, <3>3 DEF vars, PointsWhileScanning
  <2>3. CASE AppNext /\ ~Start /\ ~EmptyCloud
    <3>1. step' # "failed"
      BY <2>3 DEF AppNext, Loop, User, GrabFails, Grab, Scan, Show, NoKey,
         EndSpin, MoveViewer, ToggleInteractive, TakeCloud, SaveMesh
    <3> QED
      BY <3>1 DEF PointsWhileScanning
  <2>4. CASE UNCHANGED allVars
    BY <2>4 DEF allVars, vars, appVars, PointsWhileScanning
  <2> QED
    BY <2>1, <2>2, <2>3, <2>4
<1> USE DEF allVars
<1> QED
  BY <1>1, <1>2, AppInvariant, PTL DEF AppSpec

-----------------------------------------------------------------------------
(* What the Scanner promises, in the program.                              *)

\* Within the program the maps tracked by are never stale.
THEOREM TrackingIsCurrentInApp == AppSpec => []TracksLastPose
<1>1. AppInv => TracksLastPose
  <2> SUFFICES ASSUME AppInv, frame_counter > 0
               PROVE  /\ volume # {}
                      /\ \A o \in volume, m \in Read : prev[m] = Mul(o, Last)
    BY DEF TracksLastPose
  <2>1. volume = {seen[1]}
    BY DEF AppInv, ScanInv
  <2>2. \A m \in Read : prev[m] = Mul(seen[1], Last)
    BY LevelsRead DEF AppInv, ScanInv
  <2> QED
    BY <2>1, <2>2
<1> QED
  BY <1>1, AppInvariant, PTL

\* The program sees the Scanner keep its contract: an upload is no step of it.
THEOREM AppImplementsTracking == AppSpec => TrackingSpec
<1>1. AppInit => Tracker!Init
  BY DEF AppInit, Init, Tracker!Init
<1>2. AppInv /\ [AppNext]_allVars => [Tracker!Next]_Tracker!vars
  <2> SUFFICES ASSUME AppInv, [AppNext]_allVars
               PROVE  [Tracker!Next]_Tracker!vars
    OBVIOUS
  <2>1. CASE Outside \/ UNCHANGED allVars
    <3>1. UNCHANGED vars
      BY <2>1, OutsideStep DEF allVars
    <3> QED
      BY <3>1 DEF vars, Tracker!vars
  <2>2. CASE Scan
    <3>1. [Next]_vars
      BY <2>2, ScanKeeps DEF Next
    <3> QED
      BY <3>1, StepRefines DEF AppInv
  <2>3. ASSUME NEW c \in Pose, Grab(c) PROVE UNCHANGED Tracker!vars
    BY <2>3 DEF Grab, Tracker!vars
  <2> QED
    BY <2>1, <2>2, <2>3, StepsOfApp
<1> USE DEF allVars
<1> QED
  BY <1>1, <1>2, AppInvariant, PTL DEF AppSpec, TrackingSpec, Tracker!Spec
=============================================================================
