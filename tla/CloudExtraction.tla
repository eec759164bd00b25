--------------------------- MODULE CloudExtraction ---------------------------
(***************************************************************************)
(* TsdfVolume::fetchCloud: the host launches the extraction kernel over    *)
(* the volume, waits for it and copies the number of points back.  On the  *)
(* device every warp walks up its column of voxels, claims room in the     *)
(* output by an atomic addition to global_count and stores its points; and *)
(* thread 0 of each block then counts the block as done, the last of them  *)
(* publishing the count and resetting the counters.                        *)
(*                                                                         *)
(* Warps interleave freely.  The threads of one warp run in lockstep, as   *)
(* on the architectures the project is compiled for (sm_20 to sm_30), so a *)
(* warp is one process; its stores of one layer are one step.              *)
(***************************************************************************)
EXTENDS VolumeScan

CONSTANTS
  Volumes,   (* what the volume may hold when a fetch begins               *)
  Size,      (* points the output buffer has room for (output.size)        *)
  NoPoint    (* what the buffer holds before it is written                 *)

ASSUME BufferAssumption ==
  /\ Volumes \subseteq [Voxels -> Samples]
  /\ Size \in Nat \ {0}
  /\ NoPoint \notin Voxels \X Axes

VARIABLES
  host,              (* the host thread: "idle", "running" or "exited"     *)
  volume,            (* the voxels, by position                            *)
  buffer,            (* the caller's cloud buffer                          *)
  cloud,             (* the points the last fetch returned                 *)
  global_count,      (* device globals, which outlive a launch             *)
  output_count,
  blocks_done,
  pc,                (* where each warp is                                 *)
  z,                 (* its loop variable                                  *)
  total_warp,        (* the points of its last non-empty layer             *)
  old_global_count,  (* the slot it claimed for the first of them          *)
  \* History, read by properties only:
  fresh,             (* the slots stored by the launch in progress         *)
  start_count        (* global_count when that launch began                *)

counters == <<global_count, output_count, blocks_done>>
locals   == <<z, total_warp, old_global_count>>
history  == <<fresh, start_count>>
vars     == <<host, volume, buffer, cloud, counters, pc, locals, history>>

Minimum(m, n) == IF m < n THEN m ELSE n
Maximum(m, n) == IF m < n THEN n ELSE m

Slots     == 0 .. Size - 1
Points    == Voxels \X Axes
NumBlocks == GridX * GridY

Init ==
  /\ host = "idle"
  /\ volume \in Volumes
  /\ buffer = [s \in Slots |-> NoPoint]
  /\ cloud = <<>>
  /\ global_count = 0 /\ output_count = 0 /\ blocks_done = 0
  /\ pc = [w \in Warps |-> "done"]
  /\ z = [w \in Warps |-> 0]
  /\ total_warp = [w \in Warps |-> 0]
  /\ old_global_count = [w \in Warps |-> 0]
  /\ fresh = {} /\ start_count = 0

-----------------------------------------------------------------------------
(* The host.                                                               *)

\* fetchCloud is called and the kernel starts.  Frames integrated, or a
\* reset, may have changed the volume since the last fetch.
Launch ==
  /\ host = "idle"
  /\ host' = "running"
  /\ volume' \in Volumes
  /\ pc' = [w \in Warps |-> IF InVolume(w) THEN "scan" ELSE "done"]
  /\ z' = [w \in Warps |-> 0]
  /\ total_warp' = [w \in Warps |-> 0]
  /\ old_global_count' = [w \in Warps |-> 0]
  /\ fresh' = {} /\ start_count' = global_count
  /\ UNCHANGED <<buffer, cloud, counters>>

KernelDone == \A w \in Warps : pc[w] = "done"

\* cudaDeviceSynchronize, the copy of output_count, and the view returned.
Return ==
  /\ host = "running" /\ KernelDone
  /\ host' = "idle"
  /\ cloud' = [i \in 0 .. output_count - 1 |-> buffer[i]]
  /\ UNCHANGED <<volume, buffer, counters, pc, locals, history>>

\* Some warp stored past the end of the buffer.
Overran == \E w \in Warps : old_global_count[w] + total_warp[w] > Size

\* A store past the end of the buffer may have hit memory that is not
\* mapped: then the synchronisation fails and cudaSafeCall ends the program.
Fail ==
  /\ host = "running" /\ KernelDone /\ Overran
  /\ host' = "exited"
  /\ UNCHANGED <<volume, buffer, cloud, counters, pc, locals, history>>

-----------------------------------------------------------------------------
(* One warp of the kernel.                                                 *)

Found(w) == WarpPoints(volume, w, z[w])

AfterLoopAll(w) == "arrive"  \* mutant: the test ftid == 0 is left out

\* Behind the loop only thread 0 of the block has something left to do.
AfterLoop(w) == IF w = Lead(w[1]) THEN "arrive" ELSE "done"

SkipLayerStuck(w) ==  \* mutant: z is not advanced past an empty layer
  /\ pc[w] = "scan" /\ z[w] \in Layers
  /\ Found(w) = {}
  /\ UNCHANGED vars

\* A layer without a point.
SkipLayer(w) ==
  /\ pc[w] = "scan" /\ z[w] \in Layers
  /\ Found(w) = {}
  /\ z' = [z EXCEPT ![w] = @ + 1]
  /\ UNCHANGED <<host, volume, buffer, cloud, counters, pc, total_warp,
                 old_global_count, history>>

\* A layer with points: lane 0 adds their number to global_count.
Claim(w) ==
  /\ pc[w] = "scan" /\ z[w] \in Layers
  /\ Found(w) # {}
  /\ total_warp' = [total_warp EXCEPT ![w] = Cardinality(Found(w))]
  /\ old_global_count' = [old_global_count EXCEPT ![w] = global_count]
  /\ global_count' = global_count + Cardinality(Found(w))
  /\ pc' = [pc EXCEPT ![w] = "store"]
  /\ UNCHANGED <<host, volume, buffer, cloud, output_count, blocks_done, z,
                 history>>

\* The slots a warp has claimed, and whether they reach the buffer's end.
Claimed(w) == old_global_count[w] .. old_global_count[w] + total_warp[w] - 1
FullBefore(w) == old_global_count[w] >= Size  \* mutant: leaves total_warp out
Full(w)    == total_warp[w] > 0 /\ old_global_count[w] + total_warp[w] >= Size

\* The warp stores its points, without a look at the size of the output; the
\* buffer shows those inside it.  It leaves the loop if the output is full.
Store(w) ==
  /\ pc[w] = "store"
  /\ buffer' =
       [s \in Slots |->
          IF s \in Claimed(w)
          THEN EdgeOf(w, z[w],
                      CHOOSE p \in Found(w) :
                        old_global_count[w] + PackedIndex(Found(w), p) = s)
          ELSE buffer[s]]
  /\ fresh' = fresh \cup (Claimed(w) \cap Slots)
  /\ \/ /\ Full(w)
        /\ pc' = [pc EXCEPT ![w] = AfterLoop(w)]
        /\ UNCHANGED z
     \/ /\ ~Full(w)
        /\ pc' = [pc EXCEPT ![w] = "scan"]
        /\ z' = [z EXCEPT ![w] = @ + 1]
  /\ UNCHANGED <<host, volume, cloud, counters, total_warp, old_global_count,
                 start_count>>

\* The loop ends above the last layer.
LeaveLoop(w) ==
  /\ pc[w] = "scan" /\ z[w] \notin Layers
  /\ pc' = [pc EXCEPT ![w] = AfterLoop(w)]
  /\ UNCHANGED <<host, volume, buffer, cloud, counters, locals, history>>

\* Thread 0 counts its block.  atomicInc wraps to 0 above total_blocks.  It
\* does not wait for the other warps of its block.
Arrive(w) ==
  /\ pc[w] = "arrive"
  /\ blocks_done' = IF blocks_done >= NumBlocks THEN 0 ELSE blocks_done + 1
  /\ pc' = [pc EXCEPT ![w] =
              IF blocks_done = NumBlocks - 1 THEN "publish" ELSE "done"]
  /\ UNCHANGED <<host, volume, buffer, cloud, global_count, output_count,
                 locals, history>>

PublishUncapped(w) ==  \* mutant: the count is published as it is
  /\ pc[w] = "publish"
  /\ output_count' = global_count
  /\ blocks_done' = 0
  /\ pc' = [pc EXCEPT ![w] = "reset"]
  /\ UNCHANGED <<host, volume, buffer, cloud, global_count, locals, history>>

\* Thread 0 of the block counted last publishes the number of points ...
Publish(w) ==
  /\ pc[w] = "publish"
  /\ output_count' = Minimum(Size, global_count)
  /\ blocks_done' = 0
  /\ pc' = [pc EXCEPT ![w] = "reset"]
  /\ UNCHANGED <<host, volume, buffer, cloud, global_count, locals, history>>

\* ... and resets the count, by a plain store.
Reset(w) ==
  /\ pc[w] = "reset"
  /\ global_count' = 0
  /\ pc' = [pc EXCEPT ![w] = "done"]
  /\ UNCHANGED <<host, volume, buffer, cloud, output_count, blocks_done,
                 locals, history>>

WarpStep(w) ==
  \/ SkipLayer(w) \/ Claim(w) \/ Store(w) \/ LeaveLoop(w)
  \/ Arrive(w) \/ Publish(w) \/ Reset(w)

Next ==
  \/ Launch \/ Return \/ Fail
  \/ \E w \in Warps : WarpStep(w)

Spec == Init /\ [][Next]_vars

\* The device runs every warp of a launched grid, and the host waits for it.
Fairness ==
  /\ \A w \in Warps : WF_vars(WarpStep(w))
  /\ WF_vars(Return \/ Fail)

FairSpec == Spec /\ Fairness

-----------------------------------------------------------------------------
(* Properties.                                                             *)

\* Type correctness.  A count may pass the end of the buffer, so only the
\* published one is bounded by Size.
TypeOK ==
  /\ host \in {"idle", "running", "exited"}
  /\ volume \in Volumes
  /\ buffer \in [Slots -> Points \cup {NoPoint}]
  /\ global_count \in Nat /\ output_count \in 0 .. Size
  /\ blocks_done \in 0 .. NumBlocks
  /\ pc \in [Warps -> {"scan", "store", "arrive", "publish", "reset", "done"}]
  /\ z \in [Warps -> 0 .. DimZ]
  /\ total_warp \in [Warps -> 0 .. MaxWarpPoints]
  /\ old_global_count \in [Warps -> Nat]
  /\ fresh \subseteq Slots /\ start_count \in Nat

\* Until some block's thread 0 has reset them, or is yet to get there, the
\* counters belong to the launch in progress.
BeforeReset == \E b \in Blocks : pc[Lead(b)] # "done"

Storing == {w \in Warps : pc[w] = "store"}

\* While the counters belong to the launch, the slots from its first count
\* up to global_count are handed out without a gap and without an overlap:
\* each has been stored, or is claimed by exactly one warp about to store
\* it (the atomicAdd of FullScan6, and the use of its old value).
SlotsPartitioned ==
  BeforeReset =>
    /\ (start_count .. global_count - 1) \cap Slots =
         fresh \cup (Slots \cap UNION {Claimed(w) : w \in Storing})
    /\ \A v \in Storing : Claimed(v) \cap fresh = {}
    /\ \A v, w \in Storing : v # w => Claimed(v) \cap Claimed(w) = {}

\* Why the slots are partitioned: the claims of the warps about to store lie
\* between the launch's first count and global_count, one behind the other.
ClaimsInv ==
  BeforeReset =>
    /\ \A v \in Storing :
         /\ start_count <= old_global_count[v]
         /\ old_global_count[v] + total_warp[v] <= global_count
         /\ Claimed(v) \cap fresh = {}
    /\ \A v, w \in Storing :
         v # w => \/ old_global_count[v] + total_warp[v] <= old_global_count[w]
                  \/ old_global_count[w] + total_warp[w] <= old_global_count[v]
    /\ start_count <= global_count
    /\ \A s \in Slots :
         s \in start_count .. global_count - 1
           <=> s \in fresh \/ \E v \in Storing : s \in Claimed(v)

\* The epilogue of a launch is run by one thread, after the thread 0 of every
\* block has arrived; and no launch leaves a block counted ("last block").
OneEpilogue ==
  /\ \A v \in Warps : pc[v] \in {"publish", "reset"} =>
       \A b \in Blocks : v # Lead(b) => pc[Lead(b)] = "done"
  /\ host # "running" => blocks_done = 0

\* The blocks whose thread 0 has counted itself, or has nothing left to do.
Arrived == {b \in Blocks : pc[Lead(b)] \in {"publish", "reset", "done"}}

\* Why there is one epilogue: blocks_done is the number of the arrived blocks
\* until all have arrived, and is put back to 0 by the block that was last.
EpilogueInv ==
  /\ \A w \in Warps : pc[w] \in {"arrive", "publish", "reset"} => w = Lead(w[1])
  /\ host # "running" => KernelDone
  /\ Arrived # Blocks =>
       /\ blocks_done = Cardinality(Arrived)
       /\ \A b \in Blocks : pc[Lead(b)] \notin {"publish", "reset"}
  /\ Arrived = Blocks =>
       \/ blocks_done = 0 /\ \A b \in Blocks : pc[Lead(b)] # "publish"
       \/ \E b \in Blocks : pc[Lead(b)] = "publish"
  /\ \A b, c \in Blocks :
       pc[Lead(b)] \in {"publish", "reset"} /\ b # c => pc[Lead(c)] = "done"

\* The warps whose last claim reached the end of the buffer.
FullWarps == {w \in Warps : old_global_count[w] + total_warp[w] >= Size}

\* The warps do not look at the size before they store, yet each of them
\* claims at most once past it: the counter, and so the stores, go beyond
\* the buffer (or the count the launch began with) by at most one layer of
\* each warp that found the buffer full.
OverrunBounded ==
  global_count <=
    Maximum(start_count, Size - 1) + MaxWarpPoints * Cardinality(FullWarps)

\* Why that is so: a warp that still scans has not seen the buffer full.
OverrunInv ==
  /\ OverrunBounded
  /\ \A w \in Warps :
       /\ pc[w] = "scan" => w \notin FullWarps
       /\ pc[w] = "store" => total_warp[w] > 0

\* A fetch that began with the count at 0 returns points of the surface only,
\* each once, even if warps were still storing when the count was published.
SoundCloud ==
  [][(host = "running" /\ host' = "idle" /\ start_count = 0) =>
       \A i, j \in DOMAIN cloud' :
         /\ cloud'[i] \in SurfaceEdges(volume)
         /\ cloud'[i] = cloud'[j] => i = j]_vars

\* Between two launches the counters are as the first launch found them (the
\* comment "prepare for future scans").
PreparedForFutureScans ==
  host # "running" => global_count = 0 /\ blocks_done = 0

\* A fetch ends, by its return or by that of the program.
FetchReturns == host = "running" ~> host # "running"

\* What the caller counts on.
Fetch ==
  INSTANCE CloudFetch WITH
    pending <- host # "idle",
    Surface <- [v \in Volumes |-> SurfaceEdges(v)]

FetchSpec == Fetch!Spec
=============================================================================
