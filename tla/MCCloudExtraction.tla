------------------------- MODULE MCCloudExtraction -------------------------
(***************************************************************************)
(* Volumes for model checking CloudExtraction.                             *)
(***************************************************************************)
EXTENDS CloudExtraction

\* What reset() leaves: no voxel has been seen.
Empty == [v \in Voxels |-> "unseen"]

\* A wall facing the camera: one point in each column, all in layer 0.
Wall == [v \in Voxels |-> IF v[3] = 0 THEN "pos" ELSE "neg"]

\* A wall at the far end: one point in each column, all in the last layer.
FarWall == [v \in Voxels |-> IF v[3] = DimZ - 1 THEN "neg" ELSE "pos"]

\* As many sign changes as there can be: every edge is a point.
Noise == [v \in Voxels |-> IF (v[1] + v[2] + v[3]) % 2 = 0 THEN "pos" ELSE "neg"]

\* The rim of what was seen: neighbours unseen, cut off or on the surface.
Rim ==
  [v \in Voxels |->
     IF v[3] = 0 THEN "neg"
     ELSE IF v[3] > 1 THEN "far"
     ELSE IF v[1] = 0 THEN "pos" ELSE IF v[2] = 0 THEN "zero" ELSE "unseen"]

AllVolumes == {Empty, Wall, FarWall, Noise, Rim}
=============================================================================
