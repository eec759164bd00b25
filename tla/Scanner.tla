------------------------------- MODULE Scanner -------------------------------
(***************************************************************************)
(* vm::scanner::Scanner, the frame loop: measure the maps of the new       *)
(* frame, estimate its motion against the maps of the model as seen from   *)
(* the last pose, integrate it into the volume, and look at the volume     *)
(* from the new pose.                                                      *)
(*                                                                         *)
(* A vertex or normal map is abstracted to the place it is seen from.  For *)
(* a measured map that is where the camera is.  The volume is abstracted   *)
(* to the origins its frames imply: a frame taken at c and integrated at   *)
(* pose p puts the surface where a scan begun at c * inv(p) has it, and a  *)
(* ray cast at pose p draws the view from o * p for such an origin o.      *)
(* Motions form a group, which need not be commutative.  ICP fails, or     *)
(* finds the motion between two maps it has read exactly: drift is not     *)
(* modelled.                                                               *)
(***************************************************************************)
EXTENDS Naturals, Sequences

CONSTANTS
  Pose, Mul(_, _), Inv(_), Identity,  (* the group of rigid motions        *)
  MaxLevels,     (* MAX_PYRAMID_LEVELS                                     *)
  IcpIterNum,    (* icp_iter_num: the iterations asked for, level 0 first  *)
  Still,         (* the motions below tsdf_min_camera_movement             *)
  NoMap,         (* what a map holds before it is written                  *)
  MaxFrames      (* bound: frames of one scan                              *)

ASSUME GroupAssumption ==
  /\ \A p, q \in Pose : Mul(p, q) \in Pose /\ Inv(p) \in Pose
  /\ Identity \in Pose
  /\ \A p, q, r \in Pose : Mul(Mul(p, q), r) = Mul(p, Mul(q, r))
  /\ \A p \in Pose : Mul(p, Identity) = p /\ Mul(Identity, p) = p
  /\ \A p \in Pose : Mul(p, Inv(p)) = Identity /\ Mul(Inv(p), p) = Identity

ASSUME ParamsAssumption ==
  /\ MaxLevels \in Nat \ {0} /\ MaxFrames \in Nat
  /\ IcpIterNum \in Seq(Nat)
  /\ Still \subseteq Pose /\ NoMap \notin Pose

Levels == 0 .. MaxLevels - 1

\* setIterationsNum: cut off, or padded with 0, to MAX_PYRAMID_LEVELS.
Iters == [l \in Levels |-> IF l < Len(IcpIterNum) THEN IcpIterNum[l + 1] ELSE 0]

\* The levels below getUsedLevelsNum(): up to the last with iterations.
UsedLevels == {l \in Levels : \E k \in Levels : k >= l /\ Iters[k] > 0}

\* Without an iteration on any level ICP looks at nothing and succeeds with
\* the identity; default_params asks for {10, 5, 4, 0}.
ASSUME IterationsAssumption == \E l \in Levels : Iters[l] > 0

\* A frame: its vertex maps (points_pyr) and its normal maps, by level.
Maps   == {"points", "normals"} \X Levels
Frames == [Maps -> Pose \cup {NoMap}]

VARIABLES
  frame_counter,
  poses,         (* the poses of the frames of this scan, the last one last *)
  volume,        (* the origins implied by the frames integrated            *)
  curr, prev,    (* the maps measured, and those to track the next frame by *)
  images,        (* where the last colour image was taken                   *)
  result,        (* what the last call of operator() returned               *)
  seen           (* history: where the frames of this scan were taken       *)

vars == <<frame_counter, poses, volume, curr, prev, images, result, seen>>

Last == poses[Len(poses)]  \* poses_.back()

resetEmpty ==  \* mutant: no pose is pushed
  /\ frame_counter' = 0
  /\ poses' = <<>>
  /\ volume' = {}
  /\ seen' = <<>>

\* reset(): the scan starts over, its first pose being the origin.
reset ==
  /\ frame_counter' = 0
  /\ poses' = <<Identity>>
  /\ volume' = {}
  /\ seen' = <<>>

\* The constructor: buffers without contents, and a reset.
Init ==
  /\ frame_counter = 0 /\ poses = <<Identity>> /\ volume = {} /\ seen = <<>>
  /\ curr = [m \in Maps |-> NoMap] /\ prev = [m \in Maps |-> NoMap]
  /\ images = NoMap /\ result = FALSE

-----------------------------------------------------------------------------
(* The steps of operator().                                                *)

\* curr_ after the filter, the pyramid and computePointNormals.
Measured(c) == [m \in Maps |-> IF m[2] \in UsedLevels THEN c ELSE curr[m]]

PredictedTop(v) ==  \* mutant: resizePointsNormals is left out
  [m \in Maps |-> IF m[2] = 0 THEN v ELSE prev[m]]

\* prev_ after a ray cast into level 0 and resizePointsNormals below it.
Predicted(v) == [m \in Maps |-> IF m[2] \in UsedLevels THEN v ELSE prev[m]]

\* The volume after the frame taken at c is integrated at pose p.
Integrated(c, p) == volume \cup {Mul(c, Inv(p))}

\* The maps of the levels ICP iterates on, and the motions (from the new
\* frame to prev_) it may find between a new frame and these.
Read == {m \in Maps : Iters[m[2]] > 0}
Estimates(frame) ==
  {Mul(Inv(prev[m]), frame[m]) :
     m \in {n \in Read : prev[n] # NoMap /\ frame[n] # NoMap}}

NextPoseSwapped(affine) == Mul(affine, Last)  \* mutant: affine * poses_.back()
NextPose(affine) == Mul(Last, affine)

\* prev_ after the swaps that end the first frame.
SwappedMaps(c) == Measured(c)

-----------------------------------------------------------------------------
(* operator() for a frame taken at c, by the branch it takes.              *)

FirstFrameSkipped(c) ==  \* mutant: the first frame is not integrated
  /\ frame_counter = 0
  /\ volume' = volume
  /\ prev' = SwappedMaps(c) /\ curr' = prev
  /\ frame_counter' = 1
  /\ images' = c /\ result' = FALSE
  /\ seen' = <<c>>
  /\ UNCHANGED poses

\* The first frame of a scan is integrated, and becomes the one to track by.
FirstFrame(c) ==
  /\ frame_counter = 0
  /\ volume' = Integrated(c, Last)
  /\ prev' = SwappedMaps(c) /\ curr' = prev
  /\ frame_counter' = 1
  /\ images' = c /\ result' = FALSE
  /\ seen' = <<c>>
  /\ UNCHANGED poses

\* ICP does not find the frame: the system of some iteration is singular.
LoseTrack(c) ==
  /\ frame_counter > 0
  /\ curr' = Measured(c)
  /\ images' = c /\ result' = FALSE
  /\ reset
  /\ UNCHANGED prev

\* ICP finds the frame.
Track(c) ==
  /\ 0 < frame_counter /\ frame_counter < MaxFrames
  /\ curr' = Measured(c)
  /\ \E affine \in Estimates(Measured(c)) :
       /\ poses' = Append(poses, NextPose(affine))
       /\ volume' = IF affine \in Still THEN volume
                    ELSE Integrated(c, NextPose(affine))
       /\ \E o \in volume' : prev' = Predicted(Mul(o, NextPose(affine)))
  /\ frame_counter' = frame_counter + 1
  /\ images' = c /\ result' = TRUE
  /\ seen' = Append(seen, c)

\* The caller starts again.
Reset == reset /\ UNCHANGED <<curr, prev, images, result>>

Next ==
  \/ \E c \in Pose : FirstFrame(c) \/ LoseTrack(c) \/ Track(c)
  \/ Reset

Spec == Init /\ [][Next]_vars

-----------------------------------------------------------------------------
(* Properties.                                                             *)

\* Type correctness.  There always is a pose to return and to track from.
TypeOK ==
  /\ frame_counter \in Nat
  /\ poses \in Seq(Pose) /\ poses # <<>>
  /\ volume \subseteq Pose
  /\ curr \in Frames /\ prev \in Frames
  /\ images \in Pose \cup {NoMap} /\ result \in BOOLEAN
  /\ seen \in Seq(Pose)

\* There is one pose for every frame of the scan, whatever was lost or reset
\* before (frame_counter_ and poses_ are kept apart).
OnePosePerFrame ==
  /\ Len(seen) = frame_counter
  /\ Len(poses) = IF frame_counter = 0 THEN 1 ELSE frame_counter

\* What ICP reads of prev_ is the model as seen from the last pose: the
\* first frame's own maps or a ray cast of the volume, on every level read,
\* and never a map of an earlier scan, which a failure leaves in prev_.
TracksLastPose ==
  frame_counter > 0 =>
    /\ volume # {}
    /\ \A o \in volume, m \in Read : prev[m] = Mul(o, Last)

\* All frames in the volume agree where the surface is: none was integrated
\* at another's pose, and none is left of an earlier scan.
OneSurface == \A o, n \in volume : o = n

\* After a call that returned true, prev_ shows the scene from where the
\* colour image was taken: renderImage may paint the one with the other.
ColoursMatch == result => \A m \in Maps : m[2] = 0 => prev[m] = images

\* Why all of this holds: the volume has the origin of the first frame of the
\* scan, every pose is the camera's seen from there, and the maps to track by
\* are the view of the model from the last pose.
ScanInv ==
  /\ OnePosePerFrame
  /\ frame_counter = 0 => poses = <<Identity>> /\ volume = {}
  /\ frame_counter > 0 =>
       /\ volume = {seen[1]}
       /\ \A i \in 1 .. Len(poses) : poses[i] = Mul(Inv(seen[1]), seen[i])
       /\ \A m \in Maps :
            m[2] \in UsedLevels => prev[m] = Mul(seen[1], Last)

\* The poses told are those of the camera, relative to the first frame, and
\* every failure is told by the result.
Tracker == INSTANCE Tracking WITH cams <- seen

TrackingSpec == Tracker!Spec
=============================================================================
