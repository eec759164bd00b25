----------------------------- MODULE CloudFetch -----------------------------
(***************************************************************************)
(* What a caller of TsdfVolume::fetchCloud counts on: a fetch reads the    *)
(* volume as it is when the fetch begins, and yields each point of the     *)
(* surface once, or as many different ones as the buffer holds.            *)
(***************************************************************************)
EXTENDS Integers, FiniteSets

CONSTANTS
  Volumes,     (* what the volume may hold when a fetch begins             *)
  Surface,     (* Surface[v]: the points of the surface in volume v        *)
  Size         (* points the caller's buffer has room for                  *)

VARIABLES
  pending,     (* a fetch is in progress                                   *)
  volume,      (* what the volume holds                                    *)
  cloud        (* what the last fetch returned, from index 0 on            *)

vars == <<pending, volume, cloud>>

Minimum(m, n) == IF m < n THEN m ELSE n

\* c lists different points of S, all of them unless the buffer is too small.
Lists(c, S) ==
  /\ DOMAIN c = 0 .. Minimum(Size, Cardinality(S)) - 1
  /\ \A i \in DOMAIN c : c[i] \in S
  /\ \A i, j \in DOMAIN c : c[i] = c[j] => i = j

Init ==
  /\ pending = FALSE
  /\ volume \in Volumes
  /\ cloud = <<>>

Request ==
  /\ ~pending
  /\ pending' = TRUE
  /\ volume' \in Volumes
  /\ UNCHANGED cloud

Reply ==
  /\ pending
  /\ pending' = FALSE
  /\ Lists(cloud', Surface[volume])
  /\ UNCHANGED volume

Next == Request \/ Reply

Spec == Init /\ [][Next]_vars
=============================================================================
