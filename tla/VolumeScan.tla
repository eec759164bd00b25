----------------------------- MODULE VolumeScan -----------------------------
(***************************************************************************)
(* What one warp of the extraction kernel (FullScan6, tsdf_volume.cu)      *)
(* finds in one layer of the TSDF volume, and where the warp packs it.     *)
(*                                                                         *)
(* A voxel is abstracted to what the kernel's tests tell apart: "unseen"   *)
(* (weight 0), "far" (the distance is exactly 1, its clamped maximum),     *)
(* "pos", "neg" and "zero" (the sign of the stored distance otherwise).    *)
(* A point of the cloud is named by the voxel edge it lies on; where on    *)
(* the edge it lies is not modelled.                                       *)
(***************************************************************************)
EXTENDS Integers, FiniteSets

CONSTANTS
  DimX, DimY, DimZ,  (* the volume's size in voxels                        *)
  WarpSize,          (* CTA_SIZE_X: threads of a warp, one row of a block  *)
  CtaRows            (* CTA_SIZE_Y: warps of a block                       *)

ASSUME GeometryAssumption ==
  /\ DimX \in Nat \ {0} /\ DimY \in Nat \ {0} /\ DimZ \in Nat \ {0}
  /\ WarpSize \in Nat \ {0} /\ CtaRows \in Nat \ {0}

-----------------------------------------------------------------------------
(* The launch geometry: a grid of blocks over the x-y plane, a block being *)
(* CtaRows warps, each warp a row of WarpSize threads.                     *)

divUp(total, grain) == (total + grain - 1) \div grain

GridX == divUp(DimX, WarpSize)
GridY == divUp(DimY, CtaRows)

Blocks == (0 .. GridX - 1) \X (0 .. GridY - 1)
Rows   == 0 .. CtaRows - 1
Lanes  == 0 .. WarpSize - 1
Warps  == Blocks \X Rows

\* The x and the y coordinate of a thread.
ThreadX(w, lane) == lane + w[1][1] * WarpSize
ThreadY(w)       == w[2] + w[1][2] * CtaRows

\* A warp all of whose rows lie outside the volume returns at once.  The
\* grid is rounded up by less than a block, so no warp lies outside in x.
InVolume(w) == ThreadY(w) < DimY

\* Thread 0 of a block is lane 0 of its row 0.
Lead(b) == <<b, 0>>

-----------------------------------------------------------------------------
(* Zero crossings.                                                         *)

Samples == {"unseen", "far", "pos", "neg", "zero"}
Voxels  == (0 .. DimX - 1) \X (0 .. DimY - 1) \X (0 .. DimZ - 1)
Axes    == {1, 2, 3}

LayersShort == 0 .. DimZ - 3  \* mutant: one layer too few
Layers == 0 .. DimZ - 2

\* The next voxel along an axis; the code reads it only inside the volume.
Neighbour(v, a) == [v EXCEPT ![a] = @ + 1]

CrossesUntested(vol, v, a) ==  \* mutant: the tests on Wn and Fn are left out
  /\ Neighbour(v, a) \in Voxels
  /\ vol[v] \in {"pos", "neg"} /\ vol[v] # vol[Neighbour(v, a)]

\* Both voxels carry a usable distance and the distances differ in sign.
Crosses(vol, v, a) ==
  /\ Neighbour(v, a) \in Voxels
  /\ {vol[v], vol[Neighbour(v, a)]} = {"pos", "neg"}

\* The points the threads of warp w collect in layer z, as <<lane, axis>>
\* pairs: the dx, dy and dz tests of one iteration of the kernel's loop.
WarpPoints(vol, w, z) ==
  {p \in Lanes \X Axes :
     LET v == <<ThreadX(w, p[1]), ThreadY(w), z>>
     IN  v \in Voxels /\ Crosses(vol, v, p[2])}

\* The largest number of points a warp can collect in one layer.
MaxWarpPoints == 3 * WarpSize

\* Where the exclusive scan over the lanes' counts, and the order of the
\* tests within a lane, place point p among the points S of its warp.
Before(p, q)  == p[1] < q[1] \/ (p[1] = q[1] /\ p[2] < q[2])
PackedIndex(S, p) == Cardinality({q \in S : Before(q, p)})

\* The edge a point of warp w in layer z stands for.
EdgeOf(w, z, p) == <<<<ThreadX(w, p[1]), ThreadY(w), z>>, p[2]>>

-----------------------------------------------------------------------------
\* The edges a scan is to report, said of the volume alone: those between a
\* voxel before and one behind the surface, up to the last layer but one.
SurfaceEdges(vol) ==
  {e \in Voxels \X Axes :
     \E n \in Voxels :
       /\ n = [e[1] EXCEPT ![e[2]] = @ + 1]
       /\ e[1][3] < DimZ - 1
       /\ \/ vol[e[1]] = "pos" /\ vol[n] = "neg"
          \/ vol[e[1]] = "neg" /\ vol[n] = "pos"}
=============================================================================
