------------------------------ MODULE Tracking ------------------------------
(***************************************************************************)
(* What a caller of the Scanner counts on.  The scanner follows a camera   *)
(* it never sees the pose of: each frame extends the trajectory by one     *)
(* pose, relative to the first frame of the scan, or ends the scan.        *)
(***************************************************************************)
EXTENDS Naturals, Sequences

CONSTANTS
  Pose,      (* the rigid motions: places a camera may be in               *)
  Mul(_, _), (* Mul(p, q): first q, then p                                 *)
  Inv(_),    (* Inv(p): the motion back                                    *)
  Identity

VARIABLES
  cams,      (* where the camera really was, in each frame of the scan     *)
  poses,     (* the trajectory told to the caller                          *)
  result     (* what the last call returned: is there a picture to show?   *)

vars == <<cams, poses, result>>

Init == cams = <<>> /\ poses = <<Identity>> /\ result = FALSE

\* The first frame of a scan: its pose is the origin.
Begin(c) ==
  /\ cams = <<>>
  /\ cams' = <<c>> /\ poses' = <<Identity>> /\ result' = FALSE

\* A further frame: the camera's pose, seen from where the scan began.
Follow(c) ==
  /\ cams # <<>>
  /\ cams' = Append(cams, c)
  /\ poses' = Append(poses, Mul(Inv(cams[1]), c))
  /\ result' = TRUE

\* The camera is lost, or the caller starts again.
GiveUp(r) ==
  /\ cams' = <<>> /\ poses' = <<Identity>>
  /\ result' = r

Next ==
  \/ \E c \in Pose : Begin(c) \/ Follow(c)
  \/ \E r \in {FALSE, result} : GiveUp(r)

Spec == Init /\ [][Next]_vars
=============================================================================
