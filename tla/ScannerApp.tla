----------------------------- MODULE ScannerApp -----------------------------
(***************************************************************************)
(* ScannerApp, the program around the Scanner: its constructor and the     *)
(* loop of execute(), with the OpenNISource it grabs frames from, the      *)
(* window it draws the scene to, the 3D viewer, and the files of a saved   *)
(* mesh.  The steps of the Scanner are those of module Scanner.            *)
(*                                                                         *)
(* The image on the device has one owner more than it seems: after its     *)
(* first call the scanner holds a handle to the same memory, so that an    *)
(* upload changes the scanner's images_.  Depth and image of a frame are   *)
(* taken at one place (the streams are registered).  Whatever the camera   *)
(* sees has a surface: a volume is without points only if it is empty.     *)
(***************************************************************************)
EXTENDS Integers, Scanner

VARIABLES
  step,        (* where execute() is, or how the program came to its end    *)
  has_image,   (* has the source an image generator?                        *)
  device,      (* image_device_: where the image in it was taken            *)
  interactive, (* iteractive_mode_                                          *)
  exit,        (* exit_                                                     *)
  viewer,      (* the pose of the 3D viewer                                 *)
  scene,       (* what this iteration drew in the window: the place its     *)
               (* points are seen from, and that of their colours           *)
  spoiled      (* history: was a file of the last save not written whole?   *)

userVars == <<interactive, exit>>
appVars  == <<step, has_image, device, userVars, viewer, scene, spoiled>>

\* A file has the first words of these, all that combine_mesh looks for; a
\* missing file reads like one with none.
Ply == <<"vertex", "end_header", "rows">>
NoScene == [points |-> NoMap, colours |-> NoMap]

AppInit ==
  /\ Init
  /\ step = "start" /\ has_image \in BOOLEAN /\ device = NoMap
  /\ interactive = FALSE /\ exit = FALSE /\ viewer = Identity
  /\ scene = NoScene /\ spoiled = FALSE

-----------------------------------------------------------------------------
(* main and the steps of execute().                                        *)

\* main opens the source, or the program ends there; with too many arguments
\* none is opened, and setRegistration has nothing to ask.
Start ==
  /\ step = "start" /\ step' \in {"grab", "failed"}
  /\ UNCHANGED <<vars, has_image, device, userVars, viewer, scene, spoiled>>

\* No further frame; or a frame without an image, and cvtColor throws.
GrabFails ==
  /\ step = "grab" /\ step' = "returned"
  /\ UNCHANGED <<vars, has_image, device, userVars, viewer, scene, spoiled>>

\* A frame taken at c is grabbed and uploaded.
Grab(c) ==
  /\ step = "grab" /\ has_image
  /\ step' = "scan" /\ device' = c
  /\ images' = IF images = NoMap THEN NoMap ELSE c
  /\ UNCHANGED <<frame_counter, poses, volume, curr, prev, result, seen,
                 has_image, userVars, viewer, scene, spoiled>>

\* The scanner is called.
Scan ==
  /\ step = "scan" /\ step' = "show"
  /\ FirstFrame(device) \/ LoseTrack(device) \/ Track(device)
  /\ UNCHANGED <<has_image, device, userVars, viewer, scene, spoiled>>

\* getCameraPose: a negative time asks for the last pose.
getCameraPose(time) ==
  poses[IF time > Len(poses) \/ time < 0 THEN Len(poses) ELSE time + 1]

\* renderImage from prev_, painted with images_, and from a pose of its own.
Rendered == {[points |-> prev[<<"points", 0>>], colours |-> images]}
RenderedFrom(pose) ==
  {[points |-> Mul(o, pose), colours |-> NoMap] : o \in volume}

ShowAnyway ==  \* mutant: the result of operator() is not looked at
  /\ step = "show" /\ step' = "key"
  /\ scene' \in IF interactive THEN RenderedFrom(viewer) ELSE Rendered
  /\ viewer' = IF interactive THEN viewer ELSE getCameraPose(-1)
  /\ UNCHANGED <<vars, has_image, device, userVars, spoiled>>

ShowTracked ==  \* mutant: the viewer is only set when there is a picture
  /\ step = "show" /\ step' = "key"
  /\ scene' \in IF ~result THEN {NoScene}
                ELSE IF interactive THEN RenderedFrom(viewer) ELSE Rendered
  /\ viewer' = IF interactive \/ ~result THEN viewer ELSE getCameraPose(-1)
  /\ UNCHANGED <<vars, has_image, device, userVars, spoiled>>

\* show_raycasted, if there is something to show, and setViewerPose.
Show ==
  /\ step = "show" /\ step' = "key"
  /\ scene' \in IF ~result THEN {NoScene}
                ELSE IF interactive THEN RenderedFrom(viewer) ELSE Rendered
  /\ viewer' = IF interactive THEN viewer ELSE getCameraPose(-1)
  /\ UNCHANGED <<vars, has_image, device, userVars, spoiled>>

\* waitKey sees no key, or one that ends the loop.
NoKey ==
  /\ step = "key" /\ step' = "spin" /\ scene' = NoScene
  /\ exit' \in BOOLEAN
  /\ UNCHANGED <<vars, has_image, device, interactive, viewer, spoiled>>

\* spinOnce ends: the loop goes on unless it is to stop, or the viewer was
\* closed.
EndSpin ==
  /\ step = "spin" /\ step' \in {"returned"} \cup IF exit THEN {} ELSE {"grab"}
  /\ UNCHANGED <<vars, has_image, device, userVars, viewer, scene, spoiled>>

-----------------------------------------------------------------------------
(* What the user asks for, by a key to the windows (waitKey) or to the     *)
(* viewer (KeyboardCallback, within spinOnce).                             *)

Asked == step \in {"key", "spin"} /\ scene' = NoScene

\* The user turns the viewer (what is not interactive is turned back by the
\* next iteration before anything looks at it).
MoveViewer ==
  /\ step = "spin" /\ interactive /\ viewer' \in Pose
  /\ UNCHANGED <<vars, step, has_image, device, userVars, scene, spoiled>>

\* 'i'.
ToggleInteractive ==
  /\ Asked /\ step' = "spin" /\ interactive' = ~interactive
  /\ UNCHANGED <<vars, has_image, device, exit, viewer, spoiled>>

\* 't' and 's' with an empty volume: the kernels that colour the points are
\* launched for none, and the program ends with an error.
EmptyCloud ==
  /\ Asked /\ volume = {} /\ step' = "failed"
  /\ UNCHANGED <<vars, has_image, device, userVars, viewer, spoiled>>

\* 't': the cloud is fetched, with colours and normals, and put in the viewer.
TakeCloud ==
  /\ Asked /\ volume # {} /\ step' = "spin"
  /\ UNCHANGED <<vars, has_image, device, userVars, viewer, spoiled>>

\* The words of a file after a save: all, if it was written whole, and else
\* those it was given or had before.
Contents == 0 .. Len(Ply)
Whole    == Len(Ply)

\* Where a file is read on from after reading word by word from i up to w:
\* nowhere, if there is no such word, for the loop does not look for the end.
Nowhere == Len(Ply) + 2
After(file, i, w) ==
  IF \E j \in i .. file : Ply[j] = w
  THEN 1 + CHOOSE j \in i .. file : Ply[j] = w
  ELSE Nowhere

\* mutant: the header is read to its end before the number of vertices.
CombineEndsSwapped(norm, tex) ==
  /\ After(norm, After(norm, 1, "end_header"), "vertex") # Nowhere
  /\ After(tex, 1, "end_header") # Nowhere

\* Do the loops of combine_mesh end?
CombineEnds(norm, tex) ==
  /\ After(norm, After(norm, 1, "vertex"), "end_header") # Nowhere
  /\ After(tex, 1, "end_header") # Nowhere

\* 's': the points go to a file with their colours and to one with their
\* tangent colours, and combine_mesh makes one of the two.
SaveMesh ==
  /\ Asked /\ volume # {}
  /\ \E color \in Contents, tangent \in Contents :
       /\ step' = (IF CombineEnds(tangent, color) THEN "spin" ELSE "hung")
       /\ spoiled' = (color # Whole \/ tangent # Whole)
  /\ UNCHANGED <<vars, has_image, device, userVars, viewer>>

-----------------------------------------------------------------------------
Loop == Scan \/ Show \/ NoKey \/ EndSpin
User == MoveViewer \/ ToggleInteractive \/ EmptyCloud \/ TakeCloud \/ SaveMesh

AppNext == Start \/ GrabFails \/ (\E c \in Pose : Grab(c)) \/ Loop \/ User

\* waitKey and spinOnce last three milliseconds; the source may never have
\* another frame.
AppSpec == AppInit /\ [][AppNext]_<<vars, appVars>> /\ WF_<<vars, appVars>>(Loop)

-----------------------------------------------------------------------------
(* Properties.                                                             *)

\* The scene is shown as it is.  A picture has the colours of the image taken
\* where its points are seen from (though uploads change images_), which is
\* where the last frame was taken; an interactive one shows the surface of
\* this scan from where the viewer is.
SceneIsTrue ==
  /\ scene.colours # NoMap => scene.points = scene.colours
  /\ step = "key" /\ result =>
       scene.points = IF interactive THEN Mul(seen[1], viewer) ELSE device

\* The viewer, unless the user has it, is where the camera is, seen from where
\* the scan began, and at the origin as soon as the scan is lost.
ViewerIsCamera ==
  step = "key" /\ ~interactive =>
    viewer = IF seen = <<>> THEN Identity
             ELSE Mul(Inv(seen[1]), seen[Len(seen)])

\* Once frames are scanned, asking for points ends the program only if the
\* last frame was lost: a scan of one frame already has points.
PointsWhileScanning == step = "failed" /\ device # NoMap => seen = <<>>

\* An iteration comes to an end, and combine_mesh holds it up for good only if
\* a file that it reads was not written.
IterationEnds ==
  step = "scan" ~> (step \in {"grab", "returned", "failed"} \/ spoiled)
=============================================================================
