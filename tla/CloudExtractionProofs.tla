----------------------- MODULE CloudExtractionProofs -----------------------
(***************************************************************************)
(* Safety of the extraction kernel for every volume, buffer size and grid. *)
(***************************************************************************)
EXTENDS CloudExtraction, FiniteSetTheorems, TLAPS

-----------------------------------------------------------------------------
(* The launch geometry and the packing scan of VolumeScan.                 *)

\* divUp rounds up: it is positive, and one block less does not cover n.
LEMMA DivUpCovers ==
  ASSUME NEW n \in Nat \ {0}, NEW c \in Nat \ {0}
  PROVE  /\ divUp(n, c) \in Nat \ {0}
         /\ (divUp(n, c) - 1) * c < n
<1> DEFINE q == (n + c - 1) \div c
<1>1. /\ q \in Int
      /\ q * c <= n + c - 1
      /\ n + c - 1 < (q + 1) * c
  OBVIOUS
<1>2. q >= 1
  <2> SUFFICES ASSUME q <= 0 PROVE FALSE
    BY <1>1
  <2>1. (q + 1) * c <= c
    BY <1>1
  <2> QED
    BY <1>1, <2>1
<1>3. (q - 1) * c = q * c - c
  BY <1>1
<1> QED
  BY <1>1, <1>2, <1>3 DEF divUp

\* The grid is finite, and its size is what the kernel computes from gridDim.
LEMMA GridFinite ==
  /\ GridX \in Nat \ {0} /\ GridY \in Nat \ {0}
  /\ IsFiniteSet(Blocks)
  /\ Cardinality(Blocks) = GridX * GridY
  /\ IsFiniteSet(Warps)
<1>1. GridX \in Nat \ {0} /\ GridY \in Nat \ {0}
  BY DivUpCovers, GeometryAssumption DEF GridX, GridY
<1>2. /\ IsFiniteSet(0 .. GridX - 1) /\ Cardinality(0 .. GridX - 1) = GridX
      /\ IsFiniteSet(0 .. GridY - 1) /\ Cardinality(0 .. GridY - 1) = GridY
  BY <1>1, FS_Interval
<1>3. IsFiniteSet(Blocks) /\ Cardinality(Blocks) = GridX * GridY
  <2> DEFINE X == 0 .. GridX - 1
             Y == 0 .. GridY - 1
  <2> HIDE DEF X, Y
  <2>1. IsFiniteSet(X) /\ IsFiniteSet(Y)
    BY <1>2 DEF X, Y
  <2>2. IsFiniteSet(X \X Y) /\ Cardinality(X \X Y) = Cardinality(X) * Cardinality(Y)
    BY <2>1, FS_Product
  <2> QED
    BY <1>2, <2>2 DEF Blocks, X, Y
<1>4. IsFiniteSet(Rows)
  BY FS_Interval, GeometryAssumption DEF Rows
<1> QED
  BY <1>1, <1>3, <1>4, FS_Product DEF Warps

\* Row 0 of every block lies inside the volume: its thread 0 always runs.
LEMMA LeadInVolume ==
  ASSUME NEW b \in Blocks
  PROVE  Lead(b) \in Warps /\ InVolume(Lead(b)) /\ Lead(b)[1] = b
<1>1. Lead(b) \in Warps /\ Lead(b)[1] = b /\ Lead(b)[2] = 0
  BY GeometryAssumption DEF Lead, Warps, Rows
<1>2. b[2] \in 0 .. GridY - 1
  BY DEF Blocks
<1>3. (GridY - 1) * CtaRows < DimY /\ GridY \in Nat
  BY DivUpCovers, GeometryAssumption DEF GridY
<1>4. b[2] * CtaRows <= (GridY - 1) * CtaRows
  BY <1>2, <1>3, GeometryAssumption
<1> QED
  BY <1>1, <1>2, <1>3, <1>4, GeometryAssumption DEF InVolume, ThreadY

-----------------------------------------------------------------------------
LEMMA AxesFinite == IsFiniteSet(Axes) /\ Cardinality(Axes) = 3
<1>1. Axes = 1 .. 3
  BY DEF Axes
<1>2. ASSUME NEW k \in Nat
      PROVE  IsFiniteSet(1 .. k) /\ Cardinality(1 .. k) = k
  BY FS_Interval
<1>3. 3 \in Nat
  OBVIOUS
<1>4. IsFiniteSet(1 .. 3) /\ Cardinality(1 .. 3) = 3
  BY <1>2, <1>3, Zenon
<1> QED
  BY <1>1, <1>4, Zenon

\* The threads of a warp collect three points each at the most.
LEMMA WarpPointsBounded ==
  ASSUME NEW S \in SUBSET (Lanes \X Axes)
  PROVE  IsFiniteSet(S) /\ Cardinality(S) \in 0 .. MaxWarpPoints
<1>1. IsFiniteSet(Lanes) /\ Cardinality(Lanes) = WarpSize
  BY FS_Interval, GeometryAssumption DEF Lanes
<1>2. IsFiniteSet(Axes) /\ Cardinality(Axes) = 3
  BY AxesFinite
<1>3. /\ IsFiniteSet(Lanes \X Axes)
      /\ Cardinality(Lanes \X Axes) = WarpSize * 3
  BY <1>1, <1>2, FS_Product
<1>4. IsFiniteSet(S) /\ Cardinality(S) <= WarpSize * 3
  BY <1>3, FS_Subset
<1> QED
  BY <1>4, FS_CardinalityType, GeometryAssumption DEF MaxWarpPoints

\* The scan packs the points of a warp: every index below their number is
\* the place of one of them, and no two share a place.
LEMMA ScanPacks ==
  ASSUME NEW S \in SUBSET (Lanes \X Axes)
  PROVE  /\ \A p \in S : PackedIndex(S, p) \in 0 .. Cardinality(S) - 1
         /\ \A p, q \in S : PackedIndex(S, p) = PackedIndex(S, q) => p = q
         /\ \A i \in 0 .. Cardinality(S) - 1 : \E p \in S : PackedIndex(S, p) = i
<1> DEFINE Preds(p) == {q \in S : Before(q, p)}
           n == Cardinality(S)
<1>1. IsFiniteSet(S) /\ n \in Nat
  BY WarpPointsBounded
<1>2. ASSUME NEW p \in S
      PROVE  IsFiniteSet(Preds(p)) /\ Cardinality(Preds(p)) \in 0 .. n - 1
  <2>1. Preds(p) \in SUBSET S /\ p \in S /\ p \notin Preds(p)
    <3>1. ~Before(p, p)
      BY DEF Before, Lanes, Axes
    <3> QED
      BY <3>1
  <2>2. /\ IsFiniteSet(Preds(p)) /\ Cardinality(Preds(p)) <= n
        /\ Cardinality(Preds(p)) # n
    BY <1>1, <2>1, FS_Subset
  <2> QED
    BY <1>1, <2>2, FS_CardinalityType
<1>3. ASSUME NEW p \in S, NEW q \in S, Before(p, q)
      PROVE  Cardinality(Preds(p)) # Cardinality(Preds(q))
  <2>1. Preds(p) \in SUBSET Preds(q)
    BY <1>3 DEF Before, Lanes, Axes
  <2>2. p \in Preds(q) /\ p \notin Preds(p)
    BY <1>3 DEF Before, Lanes, Axes
  <2> QED
    BY <1>2, <2>1, <2>2, FS_Subset
<1>4. \A p, q \in S : p # q => Before(p, q) \/ Before(q, p)
  BY DEF Before, Lanes, Axes
<1>5. \A p, q \in S : Cardinality(Preds(p)) = Cardinality(Preds(q)) => p = q
  BY <1>3, <1>4
<1> DEFINE f == [p \in S |-> Cardinality(Preds(p))]
<1>6. f \in Injection(S, 0 .. n - 1)
  BY <1>2, <1>5 DEF Injection, IsInjective
<1>7. IsFiniteSet(0 .. n - 1) /\ Cardinality(0 .. n - 1) = n
  <2> HIDE DEF n
  <2>1. 0 \in Int /\ n - 1 \in Int
    BY <1>1
  <2> QED
    BY <1>1, <2>1, FS_Interval
<1>8. f \in Surjection(S, 0 .. n - 1)
  BY <1>1, <1>6, <1>7, FS_Injection
<1>9. \A i \in 0 .. n - 1 : \E p \in S : f[p] = i
  BY <1>8 DEF Surjection
<1> QED
  BY <1>2, <1>5, <1>9 DEF PackedIndex

-----------------------------------------------------------------------------
(* The warps.                                                              *)

\* The sizes and sets of the scan have their types.
LEMMA ScanTypes ==
  /\ NumBlocks \in Nat \ {0}
  /\ \A w \in Warps : w[1] \in Blocks /\ Lead(w[1]) \in Warps
<1>1. NumBlocks \in Nat \ {0}
  BY GridFinite DEF NumBlocks
<1>2. \A w \in Warps : w[1] \in Blocks
  BY DEF Warps
<1> QED
  BY <1>1, <1>2, LeadInVolume

\* What a warp finds in a layer has a size, and each slot of a claim of that
\* size gets an edge of the volume.
LEMMA FoundFacts ==
  ASSUME NEW w \in Warps
  PROVE  /\ IsFiniteSet(Found(w))
         /\ Cardinality(Found(w)) \in 0 .. MaxWarpPoints
         /\ Found(w) # {} => Cardinality(Found(w)) > 0
         /\ \A p \in Found(w) : EdgeOf(w, z[w], p) \in Points
<1>1. Found(w) \in SUBSET (Lanes \X Axes)
  BY DEF Found, WarpPoints
<1>2. IsFiniteSet(Found(w)) /\ Cardinality(Found(w)) \in 0 .. MaxWarpPoints
  BY <1>1, WarpPointsBounded
<1>3. Found(w) # {} => Cardinality(Found(w)) # 0
  BY <1>2, FS_EmptySet
<1>4. \A p \in Found(w) : EdgeOf(w, z[w], p) \in Points
  BY DEF Found, WarpPoints, EdgeOf, Points
<1> QED
  BY <1>2, <1>3, <1>4, GeometryAssumption DEF MaxWarpPoints

-----------------------------------------------------------------------------
\* What a warp about to store holds is what it found in the layer it is at.
ClaimMatches ==
  \A w \in Warps : pc[w] = "store" => /\ total_warp[w] = Cardinality(Found(w))
                                      /\ z[w] \in Layers

TypeInv == TypeOK /\ ClaimMatches

\* Each slot of a claim is that of a point found.
LEMMA ClaimedPoints ==
  ASSUME TypeInv, NEW w \in Warps, pc[w] = "store"
  PROVE  \A s \in Claimed(w) : \E p \in Found(w) :
           old_global_count[w] + PackedIndex(Found(w), p) = s
<1>1. Found(w) \in SUBSET (Lanes \X Axes)
  BY DEF Found, WarpPoints
<1>2. /\ total_warp[w] = Cardinality(Found(w)) /\ Cardinality(Found(w)) \in Nat
      /\ old_global_count[w] \in Nat
  BY FoundFacts, GeometryAssumption DEF TypeInv, TypeOK, ClaimMatches, MaxWarpPoints
<1> SUFFICES ASSUME NEW s \in Claimed(w)
             PROVE  \E p \in Found(w) :
                      old_global_count[w] + PackedIndex(Found(w), p) = s
  OBVIOUS
<1>3. s \in Int /\ s - old_global_count[w] \in 0 .. Cardinality(Found(w)) - 1
  BY <1>2 DEF Claimed
<1>4. PICK p \in Found(w) : PackedIndex(Found(w), p) = s - old_global_count[w]
  BY <1>1, <1>3, ScanPacks
<1>5. old_global_count[w] + PackedIndex(Found(w), p) = s
  BY <1>2, <1>3, <1>4
<1> QED
  BY <1>5

\* TypeOK, with what a warp found matching its claim, holds throughout.
THEOREM TypeInvariant == Spec => []TypeInv
<1>1. Init => TypeInv
  BY GridFinite, ScanTypes, GeometryAssumption, BufferAssumption
     DEF Init, TypeInv, TypeOK, ClaimMatches, MaxWarpPoints
<1>2. TypeInv /\ [Next]_vars => TypeInv'
  <2> SUFFICES ASSUME TypeInv, [Next]_vars PROVE TypeInv'
    OBVIOUS
  <2> USE GeometryAssumption, BufferAssumption, ScanTypes DEF TypeInv, TypeOK
  <2>1. CASE Launch
    BY <2>1 DEF Launch, counters, ClaimMatches, MaxWarpPoints
  <2>2. CASE Return
    BY <2>2 DEF Return, counters, locals, history, ClaimMatches, Found
  <2>3. CASE Fail
    BY <2>3 DEF Fail, counters, locals, history, ClaimMatches, Found
  <2>4. ASSUME NEW w \in Warps, SkipLayer(w) PROVE TypeInv'
    BY <2>4 DEF SkipLayer, counters, history, ClaimMatches, Found, Layers
  <2>5. ASSUME NEW w \in Warps, Claim(w) PROVE TypeInv'
    BY <2>5, FoundFacts DEF Claim, history, ClaimMatches, Found
  <2>6. ASSUME NEW w \in Warps, Store(w) PROVE TypeInv'
    <3>1. \A s \in Claimed(w) : \E p \in Found(w) :
            old_global_count[w] + PackedIndex(Found(w), p) = s
      BY <2>6, ClaimedPoints DEF Store
    <3>2. buffer' \in [Slots -> Points \cup {NoPoint}]
      <4>1. \A s \in Claimed(w) :
              EdgeOf(w, z[w],
                     CHOOSE p \in Found(w) :
                       old_global_count[w] + PackedIndex(Found(w), p) = s) \in Points
        BY <3>1, FoundFacts
      <4> QED
        BY <2>6, <4>1 DEF Store
    <3>3. /\ fresh' \subseteq Slots
          /\ pc' \in [Warps -> {"scan", "store", "arrive", "publish", "reset", "done"}]
          /\ z' \in [Warps -> 0 .. DimZ]
      <4>1. fresh' \subseteq Slots
        BY <2>6 DEF Store
      <4>2. pc' \in [Warps -> {"scan", "store", "arrive", "publish", "reset", "done"}]
        BY <2>6 DEF Store, AfterLoop
      <4>3. z[w] + 1 \in 0 .. DimZ
        BY <2>6 DEF Store, ClaimMatches, Layers
      <4>4. z' \in [Warps -> 0 .. DimZ]
        BY <2>6, <4>3 DEF Store
      <4> QED
        BY <4>1, <4>2, <4>4
    <3>4. ClaimMatches'
      BY <2>6 DEF Store, AfterLoop, ClaimMatches, Found
    <3> QED
      BY <2>6, <3>2, <3>3, <3>4 DEF Store, counters
  <2>7. ASSUME NEW w \in Warps, LeaveLoop(w) PROVE TypeInv'
    BY <2>7 DEF LeaveLoop, AfterLoop, counters, locals, history, ClaimMatches, Found
  <2>8. ASSUME NEW w \in Warps, Arrive(w) PROVE TypeInv'
    BY <2>8 DEF Arrive, locals, history, ClaimMatches, Found
  <2>9. ASSUME NEW w \in Warps, Publish(w) PROVE TypeInv'
    BY <2>9 DEF Publish, Minimum, locals, history, ClaimMatches, Found
  <2>10. ASSUME NEW w \in Warps, Reset(w) PROVE TypeInv'
    BY <2>10 DEF Reset, locals, history, ClaimMatches, Found
  <2>11. CASE UNCHANGED vars
    BY <2>11 DEF vars, counters, locals, history, ClaimMatches, Found
  <2> QED
    BY <2>1, <2>2, <2>3, <2>4, <2>5, <2>6, <2>7, <2>8, <2>9, <2>10, <2>11
       DEF Next, WarpStep
<1> QED
  BY <1>1, <1>2, PTL DEF Spec

\* Every variable stays in the set TypeOK gives it.
THEOREM TypeCorrect == Spec => []TypeOK
<1>1. TypeInv => TypeOK
  BY DEF TypeInv
<1> QED
  BY <1>1, TypeInvariant, PTL

-----------------------------------------------------------------------------
(* The epilogue.                                                           *)

\* A step by which the number of arrived blocks grows: the counter follows.
LEMMA ArriveCounts ==
  ASSUME NEW A \in SUBSET Blocks, NEW b \in Blocks \ A
  PROVE  /\ Cardinality(A) \in Nat /\ Cardinality(A) < NumBlocks
         /\ Cardinality(A \cup {b}) = Cardinality(A) + 1
         /\ Cardinality(A) = NumBlocks - 1 <=> A \cup {b} = Blocks
<1>1. IsFiniteSet(Blocks) /\ Cardinality(Blocks) = NumBlocks
  BY GridFinite DEF NumBlocks
<1>2. IsFiniteSet(A) /\ Cardinality(A) \in Nat
  BY <1>1, FS_Subset, FS_CardinalityType
<1>3. /\ IsFiniteSet(A \cup {b})
      /\ Cardinality(A \cup {b}) = Cardinality(A) + 1
  BY <1>2, FS_AddElement
<1>4. /\ Cardinality(A \cup {b}) <= NumBlocks
      /\ Cardinality(A \cup {b}) = NumBlocks => A \cup {b} = Blocks
  <2>1. A \cup {b} \in SUBSET Blocks
    OBVIOUS
  <2> QED
    BY <1>1, <2>1, FS_Subset
<1> DEFINE m == Cardinality(A)
           n == Cardinality(A \cup {b})
           all == A \cup {b} = Blocks
<1>5. all => n = NumBlocks
  BY <1>1
<1>6. m \in Nat /\ n = m + 1 /\ n <= NumBlocks /\ (n = NumBlocks => all)
  BY <1>2, <1>3, <1>4
<1>7. NumBlocks \in Nat
  BY ScanTypes
<1> HIDE DEF m, n, all
<1>8. m < NumBlocks /\ (m = NumBlocks - 1 <=> n = NumBlocks)
  BY <1>6, <1>7
<1>9. m = NumBlocks - 1 <=> all
  BY <1>5, <1>6, <1>8
<1> QED
  BY <1>6, <1>8, <1>9 DEF m, n, all

\* Before the first block arrives none has, and there is one to come.
LEMMA NoBlockArrived == Cardinality({}) = 0 /\ Blocks # {}
<1>1. IsFiniteSet(Blocks) /\ Cardinality(Blocks) = NumBlocks /\ NumBlocks # 0
  BY GridFinite, ScanTypes DEF NumBlocks
<1> QED
  BY <1>1, FS_EmptySet

\* A step that moves no thread 0 to or from the epilogue, and no counter.
LEMMA EpilogueFrame ==
  ASSUME TypeOK, EpilogueInv, NEW w \in Warps,
         pc[w] \in {"scan", "store"},
         pc' = [pc EXCEPT ![w] = "scan"] \/ pc' = [pc EXCEPT ![w] = "store"]
           \/ pc' = [pc EXCEPT ![w] = AfterLoop(w)],
         UNCHANGED <<host, blocks_done>>
  PROVE  EpilogueInv'
<1>1. \A b \in Blocks : Lead(b) \in Warps /\ Lead(b)[1] = b
  BY LeadInVolume
<1>2. pc'[w] \in {"scan", "store", "arrive"} \/ (pc'[w] = "done" /\ w # Lead(w[1]))
  BY DEF AfterLoop, TypeOK
<1>3. \A v \in Warps : v # w => pc'[v] = pc[v]
  BY DEF TypeOK
<1>4. \A b \in Blocks : \/ pc'[Lead(b)] = pc[Lead(b)]
                        \/ /\ pc[Lead(b)] \in {"scan", "store"}
                           /\ pc'[Lead(b)] \in {"scan", "store", "arrive"}
  BY <1>1, <1>2, <1>3
<1>5. Arrived' = Arrived
  BY <1>4 DEF Arrived
<1>6. host = "running"
  BY DEF EpilogueInv, KernelDone
<1>7. /\ \A b \in Blocks : pc'[Lead(b)] = "publish" <=> pc[Lead(b)] = "publish"
      /\ \A b \in Blocks : pc'[Lead(b)] = "reset" <=> pc[Lead(b)] = "reset"
      /\ \A b \in Blocks : pc'[Lead(b)] = "done" <=> pc[Lead(b)] = "done"
  BY <1>4
<1>8. \A v \in Warps : pc'[v] \in {"arrive", "publish", "reset"} => v = Lead(v[1])
  BY <1>2, <1>3 DEF EpilogueInv, AfterLoop, TypeOK
<1> QED
  BY <1>5, <1>6, <1>7, <1>8 DEF EpilogueInv

\* The strengthening of OneEpilogue holds throughout: blocks_done counts the
\* blocks whose thread 0 has arrived, modulo their number.
THEOREM EpilogueInvariant == Spec => []EpilogueInv
<1>1. Init => EpilogueInv
  <2> SUFFICES ASSUME Init PROVE EpilogueInv
    OBVIOUS
  <2>1. Arrived = Blocks /\ \A b \in Blocks : pc[Lead(b)] = "done"
    BY LeadInVolume DEF Init, Arrived
  <2> QED
    BY <2>1 DEF Init, EpilogueInv, KernelDone
<1>2. TypeOK /\ EpilogueInv /\ [Next]_vars => EpilogueInv'
  <2> SUFFICES ASSUME TypeOK, EpilogueInv, [Next]_vars PROVE EpilogueInv'
    OBVIOUS
  <2>0. \A b \in Blocks : Lead(b) \in Warps /\ Lead(b)[1] = b /\ InVolume(Lead(b))
    BY LeadInVolume
  <2>1. CASE Launch
    <3>1. \A b \in Blocks : pc'[Lead(b)] = "scan"
      BY <2>0, <2>1 DEF Launch
    <3>2. Arrived' = {}
      BY <3>1 DEF Arrived
    <3>3. blocks_done' = 0
      <4>1. KernelDone
        BY <2>1 DEF Launch, EpilogueInv
      <4>2. Arrived = Blocks /\ \A b \in Blocks : pc[Lead(b)] # "publish"
        BY <2>0, <4>1 DEF KernelDone, Arrived
      <4> QED
        BY <2>1, <4>2 DEF Launch, EpilogueInv, counters
    <3>4. \A w \in Warps : pc'[w] \in {"scan", "done"}
      BY <2>1 DEF Launch
    <3> QED
      BY <2>1, <3>1, <3>2, <3>3, <3>4, NoBlockArrived DEF Launch, EpilogueInv
  <2>2. CASE Return \/ Fail
    BY <2>2 DEF Return, Fail, EpilogueInv, Arrived, KernelDone, counters
  <2>3. ASSUME NEW w \in Warps, SkipLayer(w) PROVE EpilogueInv'
    BY <2>3 DEF SkipLayer, EpilogueInv, Arrived, KernelDone, counters
  <2>4. ASSUME NEW w \in Warps, Claim(w) \/ Store(w) \/ LeaveLoop(w)
        PROVE  EpilogueInv'
    BY <2>4, EpilogueFrame DEF Claim, Store, LeaveLoop, counters
  <2>5. ASSUME NEW w \in Warps, Arrive(w) PROVE EpilogueInv'
    <3> DEFINE b == w[1]
    <3>1. b \in Blocks /\ w = Lead(b)
      BY <2>5, ScanTypes DEF Arrive, EpilogueInv
    <3>2. b \notin Arrived /\ Arrived \in SUBSET Blocks
      BY <2>5, <3>1 DEF Arrive, Arrived
    <3>3. /\ blocks_done = Cardinality(Arrived)
          /\ \A c \in Blocks : pc[Lead(c)] \notin {"publish", "reset"}
      BY <3>1, <3>2 DEF EpilogueInv
    <3>4. \A c \in Blocks : c # b => Lead(c) # w
      BY <2>0, <3>1
    <3>5. \A v \in Warps : v # w => pc'[v] = pc[v]
      BY <2>5 DEF Arrive, TypeOK
    <3>6. pc'[w] = IF blocks_done = NumBlocks - 1 THEN "publish" ELSE "done"
      BY <2>5 DEF Arrive, TypeOK
    <3>7. Arrived' = Arrived \cup {b}
      BY <2>0, <3>1, <3>4, <3>5, <3>6 DEF Arrived
    <3>8. /\ blocks_done' = Cardinality(Arrived')
          /\ blocks_done = NumBlocks - 1 <=> Arrived' = Blocks
      BY <2>5, <3>1, <3>2, <3>3, <3>7, ArriveCounts, ScanTypes DEF Arrive
    <3>9. host = "running" /\ host' = host
      BY <2>5 DEF Arrive, EpilogueInv, KernelDone
    <3>10. \A v \in Warps : pc'[v] \in {"arrive", "publish", "reset"} => v = Lead(v[1])
      BY <3>1, <3>5 DEF EpilogueInv
    <3>11. CASE blocks_done = NumBlocks - 1
      <4>1. pc'[Lead(b)] = "publish"
        BY <3>1, <3>6, <3>11
      <4>2. \A c \in Blocks : c # b => pc'[Lead(c)] = "done"
        <5> SUFFICES ASSUME NEW c \in Blocks, c # b PROVE pc'[Lead(c)] = "done"
          OBVIOUS
        <5>1. c \in Arrived
          BY <3>7, <3>8, <3>11
        <5>2. pc'[Lead(c)] = pc[Lead(c)]
          BY <2>0, <3>4, <3>5
        <5> QED
          BY <3>3, <5>1, <5>2 DEF Arrived
      <4> QED
        BY <3>1, <3>8, <3>9, <3>10, <3>11, <4>1, <4>2 DEF EpilogueInv
    <3>12. CASE blocks_done # NumBlocks - 1
      <4>1. \A c \in Blocks : pc'[Lead(c)] \notin {"publish", "reset"}
        BY <2>0, <3>1, <3>3, <3>4, <3>5, <3>6, <3>12
      <4> QED
        BY <3>8, <3>9, <3>10, <3>12, <4>1 DEF EpilogueInv
    <3> QED
      BY <3>11, <3>12
  <2>6. ASSUME NEW w \in Warps, Publish(w) \/ Reset(w) PROVE EpilogueInv'
    <3> DEFINE b == w[1]
    <3>1. b \in Blocks /\ w = Lead(b) /\ pc[w] \in {"publish", "reset"}
      BY <2>6, ScanTypes DEF Publish, Reset, EpilogueInv
    <3>2. Arrived = Blocks
      BY <3>1 DEF EpilogueInv
    <3>3. /\ \A v \in Warps : v # w => pc'[v] = pc[v]
          /\ pc'[w] \in {"reset", "done"}
      BY <2>6 DEF Publish, Reset, TypeOK
    <3>4. \A c \in Blocks : c # b => pc[Lead(c)] = "done" /\ pc'[Lead(c)] = "done"
      BY <2>0, <3>1, <3>3 DEF EpilogueInv
    <3>5. Arrived' = Blocks
      BY <3>1, <3>3, <3>4 DEF Arrived
    <3>6. blocks_done' = 0
      <4>1. CASE Publish(w)
        BY <4>1 DEF Publish
      <4>2. CASE Reset(w)
        <5>1. \A c \in Blocks : pc[Lead(c)] # "publish"
          BY <3>1, <3>4, <4>2 DEF Reset
        <5> QED
          BY <3>2, <4>2, <5>1 DEF Reset, EpilogueInv
      <4> QED
        BY <2>6, <4>1, <4>2
    <3>7. host = "running" /\ host' = host
      BY <2>6, <3>1 DEF Publish, Reset, EpilogueInv, KernelDone
    <3>8. \A v \in Warps : pc'[v] \in {"arrive", "publish", "reset"} => v = Lead(v[1])
      BY <3>1, <3>3 DEF EpilogueInv
    <3> QED
      BY <3>1, <3>3, <3>4, <3>5, <3>6, <3>7, <3>8 DEF EpilogueInv
  <2>7. CASE UNCHANGED vars
    BY <2>7 DEF vars, counters, EpilogueInv, Arrived, KernelDone
  <2> QED
    BY <2>1, <2>2, <2>3, <2>4, <2>5, <2>6, <2>7 DEF Next, WarpStep
<1> QED
  BY <1>1, <1>2, TypeCorrect, PTL DEF Spec

\* One thread runs the epilogue of a launch, once every block's thread 0 has
\* arrived, and no block stays counted: the atomicInc of FullScan6.
THEOREM EpilogueOnce == Spec => []OneEpilogue
<1>1. EpilogueInv => OneEpilogue
  <2> SUFFICES ASSUME EpilogueInv PROVE OneEpilogue
    OBVIOUS
  <2>0. \A b \in Blocks : Lead(b) \in Warps /\ Lead(b)[1] = b
    BY LeadInVolume
  <2>1. \A v \in Warps : pc[v] \in {"publish", "reset"} =>
          \A b \in Blocks : v # Lead(b) => pc[Lead(b)] = "done"
    BY ScanTypes DEF EpilogueInv
  <2>2. host # "running" => blocks_done = 0
    BY <2>0 DEF EpilogueInv, KernelDone, Arrived
  <2> QED
    BY <2>1, <2>2 DEF OneEpilogue
<1> QED
  BY <1>1, EpilogueInvariant, PTL

-----------------------------------------------------------------------------
(* The claims.                                                             *)

\* Two steps that leave every claim alone: one that starts no store and
\* keeps the launch before its reset, and one that changes nothing.
LEMMA ClaimsFrame ==
  ASSUME ClaimsInv, BeforeReset, Storing' = Storing,
         UNCHANGED <<global_count, total_warp, old_global_count, fresh, start_count>>
  PROVE  ClaimsInv'
BY DEF ClaimsInv, Claimed

\* The strengthening of SlotsPartitioned holds throughout.
THEOREM ClaimsInvariant == Spec => []ClaimsInv
<1>1. Init => ClaimsInv
  BY LeadInVolume DEF Init, ClaimsInv, BeforeReset
<1>2. TypeInv /\ EpilogueInv /\ ClaimsInv /\ [Next]_vars => ClaimsInv'
  <2> SUFFICES ASSUME TypeInv, EpilogueInv, ClaimsInv, [Next]_vars
               PROVE  ClaimsInv'
    OBVIOUS
  <2>0. /\ TypeOK
        /\ \A b \in Blocks : Lead(b) \in Warps /\ Lead(b)[1] = b
    BY LeadInVolume DEF TypeInv
  <2>1. CASE Launch
    <3>1. Storing' = {}
      BY <2>1 DEF Launch, Storing
    <3> QED
      BY <2>0, <2>1, <3>1 DEF Launch, ClaimsInv, counters, TypeOK
  <2>2. CASE Return \/ Fail
    BY <2>2 DEF Return, Fail, ClaimsInv, BeforeReset, Storing, Claimed, counters,
                locals, history
  <2>3. ASSUME NEW w \in Warps, SkipLayer(w) PROVE ClaimsInv'
    BY <2>3 DEF SkipLayer, ClaimsInv, BeforeReset, Storing, Claimed, counters, history
  <2>4. ASSUME NEW w \in Warps, Claim(w) PROVE ClaimsInv'
    <3> DEFINE n == Cardinality(Found(w))
    <3> SUFFICES ASSUME BeforeReset' PROVE ClaimsInv'
      BY DEF ClaimsInv
    <3>1. BeforeReset
      BY <2>0, <2>4 DEF BeforeReset, Claim, TypeOK
    <3>2. n \in Nat /\ global_count \in Nat /\ start_count \in Nat /\ Slots \subseteq Nat
      BY <2>0, FoundFacts, BufferAssumption DEF TypeOK, MaxWarpPoints, Slots
    <3>3. /\ old_global_count'[w] = global_count /\ total_warp'[w] = n
          /\ global_count' = global_count + n
          /\ start_count' = start_count /\ fresh' = fresh
      BY <2>0, <2>4 DEF Claim, TypeOK, history
    <3>4. \A v \in Warps : v # w => /\ old_global_count'[v] = old_global_count[v]
                                    /\ total_warp'[v] = total_warp[v]
      BY <2>0, <2>4 DEF Claim, TypeOK
    <3>5. Storing' = Storing \cup {w} /\ w \notin Storing /\ Storing \subseteq Warps
      BY <2>0, <2>4 DEF Claim, Storing, TypeOK
    <3>6. Claimed(w)' = global_count .. global_count + n - 1
      BY <3>3 DEF Claimed
    <3>7. \A v \in Storing : Claimed(v)' = Claimed(v)
      BY <3>4, <3>5 DEF Claimed
    <3>8. \A v \in Storing : /\ old_global_count[v] \in Nat /\ total_warp[v] \in Nat
                             /\ old_global_count[v] + total_warp[v] <= global_count
                             /\ start_count <= old_global_count[v]
                             /\ Claimed(v) \cap fresh = {}
      BY <2>0, <3>1, <3>5, GeometryAssumption DEF ClaimsInv, TypeOK, MaxWarpPoints
    <3>9. \A s \in Slots : s \in fresh => s < global_count
      BY <3>1, <3>2 DEF ClaimsInv
    <3>10. Claimed(w)' \cap fresh' = {}
      BY <2>0, <3>2, <3>3, <3>6, <3>9 DEF TypeOK
    <3>11. \A v \in Storing' :
             /\ start_count' <= old_global_count'[v]
             /\ old_global_count'[v] + total_warp'[v] <= global_count'
             /\ Claimed(v)' \cap fresh' = {}
      <4>1. start_count <= global_count
        BY <3>1 DEF ClaimsInv
      <4> SUFFICES ASSUME NEW v \in Storing'
                   PROVE  /\ start_count' <= old_global_count'[v]
                          /\ old_global_count'[v] + total_warp'[v] <= global_count'
                          /\ Claimed(v)' \cap fresh' = {}
        OBVIOUS
      <4>2. CASE v = w
        BY <3>2, <3>3, <3>10, <4>1, <4>2
      <4>3. CASE v # w
        BY <3>2, <3>3, <3>4, <3>5, <3>7, <3>8, <4>3
      <4> QED
        BY <4>2, <4>3
    <3>12. \A u, v \in Storing' :
             u # v =>
               \/ old_global_count'[u] + total_warp'[u] <= old_global_count'[v]
               \/ old_global_count'[v] + total_warp'[v] <= old_global_count'[u]
      BY <3>1, <3>3, <3>4, <3>5, <3>8 DEF ClaimsInv
    <3>13. \A s \in Slots :
             s \in start_count' .. global_count' - 1
               <=> s \in fresh' \/ \E v \in Storing' : s \in Claimed(v)'
      <4> SUFFICES ASSUME NEW s \in Slots
                   PROVE  s \in start_count' .. global_count' - 1
                            <=> s \in fresh' \/ \E v \in Storing' : s \in Claimed(v)'
        OBVIOUS
      <4>1. s \in start_count .. global_count - 1
              <=> s \in fresh \/ \E v \in Storing : s \in Claimed(v)
        BY <3>1 DEF ClaimsInv
      <4>2. s \in start_count' .. global_count' - 1
              <=> s \in start_count .. global_count - 1 \/ s \in Claimed(w)'
        BY <3>1, <3>2, <3>3, <3>6 DEF ClaimsInv
      <4>3. (\E v \in Storing' : s \in Claimed(v)')
              <=> (\E v \in Storing : s \in Claimed(v)) \/ s \in Claimed(w)'
        BY <3>5, <3>7
      <4> QED
        BY <3>3, <4>1, <4>2, <4>3
    <3>14. start_count' <= global_count'
      BY <3>1, <3>2, <3>3 DEF ClaimsInv
    <3> QED
      BY <3>11, <3>12, <3>13, <3>14 DEF ClaimsInv
  <2>5. ASSUME NEW w \in Warps, Store(w) PROVE ClaimsInv'
    <3> SUFFICES ASSUME BeforeReset' PROVE ClaimsInv'
      BY DEF ClaimsInv
    <3>1. BeforeReset
      BY <2>0, <2>5 DEF BeforeReset, Store, AfterLoop, TypeOK
    <3>2. /\ UNCHANGED <<global_count, total_warp, old_global_count, start_count>>
          /\ fresh' = fresh \cup (Claimed(w) \cap Slots)
          /\ \A v \in Warps : Claimed(v)' = Claimed(v)
      BY <2>5 DEF Store, counters, Claimed
    <3>3. Storing' = Storing \ {w} /\ w \in Storing /\ Storing \subseteq Warps
      BY <2>0, <2>5 DEF Store, AfterLoop, Storing, TypeOK
    <3>4. \A v \in Storing : v # w => Claimed(v) \cap Claimed(w) = {}
      <4> SUFFICES ASSUME NEW v \in Storing, v # w
                   PROVE  Claimed(v) \cap Claimed(w) = {}
        OBVIOUS
      <4>1. \/ old_global_count[v] + total_warp[v] <= old_global_count[w]
            \/ old_global_count[w] + total_warp[w] <= old_global_count[v]
        BY <3>1, <3>3 DEF ClaimsInv
      <4>2. /\ old_global_count[v] \in Nat /\ total_warp[v] \in Nat
            /\ old_global_count[w] \in Nat /\ total_warp[w] \in Nat
        BY <2>0, <3>3, GeometryAssumption DEF TypeOK, MaxWarpPoints
      <4> QED
        BY <4>1, <4>2 DEF Claimed
    <3>5. \A v \in Storing' : Claimed(v)' \cap fresh' = {}
      BY <3>1, <3>2, <3>3, <3>4 DEF ClaimsInv
    <3>6. \A s \in Slots :
            s \in fresh' \/ (\E v \in Storing' : s \in Claimed(v)')
              <=> s \in fresh \/ (\E v \in Storing : s \in Claimed(v))
      BY <3>2, <3>3
    <3> QED
      BY <3>1, <3>2, <3>3, <3>5, <3>6 DEF ClaimsInv
  <2>6. ASSUME NEW w \in Warps, LeaveLoop(w) \/ Arrive(w) \/ Publish(w)
        PROVE  ClaimsInv'
    <3> SUFFICES ASSUME BeforeReset' PROVE ClaimsInv'
      BY DEF ClaimsInv
    <3>1. BeforeReset
      BY <2>0, <2>6 DEF BeforeReset, LeaveLoop, AfterLoop, Arrive, Publish, TypeOK
    <3>2. Storing' = Storing
      BY <2>0, <2>6 DEF Storing, LeaveLoop, AfterLoop, Arrive, Publish, TypeOK
    <3> QED
      BY <2>6, <3>1, <3>2, ClaimsFrame DEF LeaveLoop, Arrive, Publish, counters,
                                           locals, history
  <2>7. ASSUME NEW w \in Warps, Reset(w) PROVE ClaimsInv'
    <3>1. w[1] \in Blocks /\ w = Lead(w[1])
      BY <2>7, ScanTypes DEF Reset, EpilogueInv
    <3>2. \A c \in Blocks : pc'[Lead(c)] = "done"
      BY <2>0, <2>7, <3>1 DEF Reset, EpilogueInv, TypeOK
    <3> QED
      BY <3>2 DEF ClaimsInv, BeforeReset
  <2>8. CASE UNCHANGED vars
    BY <2>8 DEF vars, counters, locals, history, ClaimsInv, BeforeReset, Storing, Claimed
  <2> QED
    BY <2>1, <2>2, <2>3, <2>4, <2>5, <2>6, <2>7, <2>8 DEF Next, WarpStep
<1> QED
  BY <1>1, <1>2, TypeInvariant, EpilogueInvariant, PTL DEF Spec

\* The slots handed out by a launch are, until the counters are reset, each
\* stored or claimed by one warp: the atomicAdd hands out no slot twice.
THEOREM SlotsHandedOutOnce == Spec => []SlotsPartitioned
<1>1. TypeOK /\ ClaimsInv => SlotsPartitioned
  <2> SUFFICES ASSUME TypeOK, ClaimsInv, BeforeReset
               PROVE  /\ (start_count .. global_count - 1) \cap Slots =
                            fresh \cup (Slots \cap UNION {Claimed(w) : w \in Storing})
                      /\ \A v \in Storing : Claimed(v) \cap fresh = {}
                      /\ \A v, w \in Storing : v # w => Claimed(v) \cap Claimed(w) = {}
    BY DEF SlotsPartitioned
  <2>1. \A s \in Slots :
          s \in start_count .. global_count - 1
            <=> s \in fresh \/ \E v \in Storing : s \in Claimed(v)
    BY DEF ClaimsInv
  <2>2. (start_count .. global_count - 1) \cap Slots =
          fresh \cup (Slots \cap UNION {Claimed(w) : w \in Storing})
    BY <2>1 DEF TypeOK
  <2>3. \A v, w \in Storing : v # w => Claimed(v) \cap Claimed(w) = {}
    <3> SUFFICES ASSUME NEW v \in Storing, NEW w \in Storing, v # w
                 PROVE  Claimed(v) \cap Claimed(w) = {}
      OBVIOUS
    <3>1. \/ old_global_count[v] + total_warp[v] <= old_global_count[w]
          \/ old_global_count[w] + total_warp[w] <= old_global_count[v]
      BY DEF ClaimsInv
    <3>2. /\ old_global_count[v] \in Nat /\ total_warp[v] \in Nat
          /\ old_global_count[w] \in Nat /\ total_warp[w] \in Nat
      BY GeometryAssumption DEF TypeOK, MaxWarpPoints, Storing
    <3> QED
      BY <3>1, <3>2 DEF Claimed
  <2> QED
    BY <2>2, <2>3 DEF ClaimsInv
<1> QED
  BY <1>1, TypeCorrect, ClaimsInvariant, PTL

-----------------------------------------------------------------------------
(* The overrun.                                                            *)

\* The warps that found the buffer full are finitely many.
LEMMA FullWarpsFinite ==
  ASSUME NEW S \in SUBSET Warps
  PROVE  IsFiniteSet(S) /\ Cardinality(S) \in Nat
BY GridFinite, FS_Subset, FS_CardinalityType

\* Steps that move no claim: whoever scans afterwards scanned before, or has
\* just stored without seeing the buffer full.
LEMMA OverrunFrame ==
  ASSUME TypeOK, OverrunInv,
         UNCHANGED <<global_count, start_count, total_warp, old_global_count>>,
         \A w \in Warps : /\ pc'[w] = "scan" => pc[w] = "scan" \/ w \notin FullWarps
                          /\ pc'[w] = "store" => pc[w] = "store"
  PROVE  OverrunInv'
<1>1. FullWarps' = FullWarps
  BY DEF FullWarps
<1>2. OverrunBounded'
  BY <1>1 DEF OverrunInv, OverrunBounded, Maximum
<1>3. \A w \in Warps : /\ pc'[w] = "scan" => w \notin FullWarps'
                       /\ pc'[w] = "store" => total_warp'[w] > 0
  BY <1>1 DEF OverrunInv
<1> QED
  BY <1>2, <1>3 DEF OverrunInv

\* The strengthening of OverrunBounded holds throughout.
THEOREM OverrunInvariant == Spec => []OverrunInv
<1> USE GeometryAssumption, BufferAssumption
<1>0. MaxWarpPoints \in Nat
  BY DEF MaxWarpPoints
<1>1. Init => OverrunInv
  <2> SUFFICES ASSUME Init PROVE OverrunInv
    OBVIOUS
  <2>1. FullWarps = {}
    BY DEF Init, FullWarps
  <2>2. Cardinality(FullWarps) = 0
    BY <2>1, FS_EmptySet
  <2> QED
    BY <1>0, <2>1, <2>2 DEF Init, OverrunInv, OverrunBounded, Maximum
<1>2. TypeInv /\ OverrunInv /\ [Next]_vars => OverrunInv'
  <2> SUFFICES ASSUME TypeInv, OverrunInv, [Next]_vars PROVE OverrunInv'
    OBVIOUS
  <2>0. TypeOK
    BY DEF TypeInv
  <2>1. CASE Launch
    <3>1. FullWarps' = {}
      BY <2>1 DEF Launch, FullWarps
    <3>2. Cardinality(FullWarps') = 0
      BY <3>1, FS_EmptySet
    <3>3. global_count' = global_count /\ start_count' = global_count
      BY <2>1 DEF Launch, counters
    <3>4. OverrunBounded'
      BY <1>0, <2>0, <3>2, <3>3 DEF OverrunBounded, Maximum, TypeOK
    <3> QED
      BY <2>1, <3>1, <3>4 DEF Launch, OverrunInv
  <2>2. CASE Return \/ Fail
    BY <2>0, <2>2, OverrunFrame DEF Return, Fail, counters, locals, history
  <2>3. ASSUME NEW w \in Warps, SkipLayer(w) PROVE OverrunInv'
    BY <2>0, <2>3, OverrunFrame DEF SkipLayer, counters, history
  <2>4. ASSUME NEW w \in Warps, Claim(w) PROVE OverrunInv'
    <3> DEFINE n == Cardinality(Found(w))
               bound == Maximum(start_count, Size - 1)
               c == Cardinality(FullWarps)
               d == Cardinality(FullWarps')
    <3>1. n \in 1 .. MaxWarpPoints
      BY <2>4, <1>0, FoundFacts DEF Claim
    <3>2. /\ global_count' = global_count + n /\ start_count' = start_count
          /\ old_global_count'[w] = global_count /\ total_warp'[w] = n
          /\ pc'[w] = "store"
          /\ \A v \in Warps : v # w => /\ old_global_count'[v] = old_global_count[v]
                                       /\ total_warp'[v] = total_warp[v]
                                       /\ pc'[v] = pc[v]
      BY <2>0, <2>4 DEF Claim, TypeOK, history
    <3>3. w \notin FullWarps
      BY <2>4 DEF Claim, OverrunInv
    <3>4. FullWarps' = IF global_count + n >= Size THEN FullWarps \cup {w} ELSE FullWarps
      BY <3>2, <3>3 DEF FullWarps
    <3>5. IsFiniteSet(FullWarps) /\ c \in Nat
      BY FullWarpsFinite DEF FullWarps
    <3>6. /\ global_count + n >= Size => d = c + 1
          /\ global_count + n < Size => d = c
      <4>1. global_count \in Nat /\ n \in Nat /\ Size \in Nat
        BY <1>0, <2>0, <3>1 DEF TypeOK
      <4>2. Cardinality(FullWarps \cup {w}) = c + 1
        BY <3>3, <3>5, FS_AddElement
      <4> HIDE DEF n
      <4>3. global_count + n >= Size => FullWarps' = FullWarps \cup {w}
        BY <3>4
      <4>4. global_count + n < Size => FullWarps' = FullWarps
        BY <3>4, <4>1
      <4> QED
        BY <4>2, <4>3, <4>4
    <3>7. /\ bound \in Nat /\ Size - 1 <= bound
          /\ global_count \in Nat /\ global_count <= bound + MaxWarpPoints * c
      BY <2>0 DEF Maximum, TypeOK, OverrunInv, OverrunBounded
    <3>8. global_count + n <= bound + MaxWarpPoints * d
      <4> HIDE DEF n, bound, c, d
      <4>1. CASE global_count + n >= Size
        <5>1. MaxWarpPoints * d = MaxWarpPoints * c + MaxWarpPoints
          BY <1>0, <3>5, <3>6, <4>1
        <5>2. MaxWarpPoints * c \in Nat
          BY <1>0, <3>5
        <5> QED
          BY <1>0, <3>1, <3>7, <5>1, <5>2
      <4>2. CASE global_count + n < Size
        <5>1. MaxWarpPoints * d \in Nat
          BY <1>0, <3>5, <3>6, <4>2
        <5> QED
          BY <3>1, <3>7, <4>2, <5>1
      <4> QED
        BY <1>0, <3>1, <3>7, <4>1, <4>2
    <3>9. OverrunBounded'
      BY <3>2, <3>8 DEF OverrunBounded, Maximum
    <3>10. \A v \in Warps : /\ pc'[v] = "scan" => v \notin FullWarps'
                            /\ pc'[v] = "store" => total_warp'[v] > 0
      BY <3>1, <3>2, <3>4 DEF OverrunInv
    <3> QED
      BY <3>9, <3>10 DEF OverrunInv
  <2>5. ASSUME NEW w \in Warps, Store(w) PROVE OverrunInv'
    <3>1. ~Full(w) => w \notin FullWarps
      BY <2>5 DEF Store, OverrunInv, Full, FullWarps
    <3>2. \A v \in Warps : /\ pc'[v] = "scan" => pc[v] = "scan" \/ v \notin FullWarps
                           /\ pc'[v] = "store" => pc[v] = "store"
      BY <2>0, <2>5, <3>1 DEF Store, AfterLoop, TypeOK
    <3> QED
      BY <2>0, <2>5, <3>2, OverrunFrame DEF Store, counters
  <2>6. ASSUME NEW w \in Warps, LeaveLoop(w) \/ Arrive(w) \/ Publish(w)
        PROVE  OverrunInv'
    <3>1. \A v \in Warps : pc'[v] \in {"scan", "store"} => pc'[v] = pc[v]
      BY <2>0, <2>6 DEF LeaveLoop, AfterLoop, Arrive, Publish, TypeOK
    <3> QED
      BY <2>0, <2>6, <3>1, OverrunFrame DEF LeaveLoop, Arrive, Publish, counters,
                                           locals, history
  <2>7. ASSUME NEW w \in Warps, Reset(w) PROVE OverrunInv'
    <3>1. FullWarps' = FullWarps /\ global_count' = 0 /\ start_count' = start_count
      BY <2>7 DEF Reset, FullWarps, locals, history
    <3>2. MaxWarpPoints * Cardinality(FullWarps) \in Nat
      BY <1>0, FullWarpsFinite DEF FullWarps
    <3>3. OverrunBounded'
      BY <2>0, <3>1, <3>2 DEF OverrunBounded, Maximum, TypeOK
    <3> QED
      BY <2>0, <2>7, <3>1, <3>3 DEF Reset, OverrunInv, TypeOK, locals
  <2>8. CASE UNCHANGED vars
    BY <2>8 DEF vars, counters, locals, history, OverrunInv, OverrunBounded, FullWarps
  <2> QED
    BY <2>1, <2>2, <2>3, <2>4, <2>5, <2>6, <2>7, <2>8 DEF Next, WarpStep
<1> QED
  BY <1>1, <1>2, TypeInvariant, PTL DEF Spec

\* The stores of a launch pass the end of the buffer by at most one layer of
\* each warp that found it full: each leaves its loop at its first such claim.
THEOREM OverrunIsBounded == Spec => []OverrunBounded
<1>1. OverrunInv => OverrunBounded
  BY DEF OverrunInv
<1> QED
  BY <1>1, OverrunInvariant, PTL

-----------------------------------------------------------------------------
(* What is stored.                                                         *)

\* A number has one quotient and one remainder.
LEMMA OneQuotient ==
  ASSUME NEW n \in Nat \ {0}, NEW a \in 0 .. n - 1, NEW b \in 0 .. n - 1,
         NEW i \in Nat, NEW j \in Nat, a + i * n = b + j * n
  PROVE  a = b /\ i = j
<1>1. ASSUME NEW k \in Nat, NEW l \in Nat, k < l PROVE k * n + n <= l * n
  <2>1. (l - k - 1) * n >= 0
    BY <1>1
  <2>2. (l - k - 1) * n = l * n - k * n - n
    BY <1>1
  <2>3. l * n \in Int /\ k * n \in Int
    OBVIOUS
  <2> QED
    BY <2>1, <2>2, <2>3
<1>2. i * n \in Int /\ j * n \in Int
  OBVIOUS
<1>3. ~(i < j)
  BY <1>1, <1>2
<1>4. ~(j < i)
  BY <1>1, <1>2
<1> QED
  BY <1>2, <1>3, <1>4

\* No two points of the launch lie on the same edge.
LEMMA OwnEdges ==
  ASSUME NEW v \in Warps, NEW w \in Warps, NEW k, NEW l,
         NEW p \in Lanes \X Axes, NEW q \in Lanes \X Axes,
         EdgeOf(v, k, p) = EdgeOf(w, l, q)
  PROVE  v = w /\ k = l /\ p = q
<1>1. /\ ThreadX(v, p[1]) = ThreadX(w, q[1]) /\ ThreadY(v) = ThreadY(w)
      /\ k = l /\ p[2] = q[2]
  BY DEF EdgeOf
<1>2. /\ p[1] \in 0 .. WarpSize - 1 /\ q[1] \in 0 .. WarpSize - 1
      /\ v[2] \in 0 .. CtaRows - 1 /\ w[2] \in 0 .. CtaRows - 1
      /\ v[1][1] \in Nat /\ w[1][1] \in Nat /\ v[1][2] \in Nat /\ w[1][2] \in Nat
  BY DEF Lanes, Warps, Rows, Blocks
<1>3. p[1] = q[1] /\ v[1][1] = w[1][1]
  <2> DEFINE a == p[1]
             b == q[1]
             i == v[1][1]
             j == w[1][1]
  <2>1. /\ WarpSize \in Nat \ {0} /\ a + i * WarpSize = b + j * WarpSize
        /\ a \in 0 .. WarpSize - 1 /\ b \in 0 .. WarpSize - 1 /\ i \in Nat /\ j \in Nat
    BY <1>1, <1>2, GeometryAssumption DEF ThreadX
  <2> HIDE DEF a, b, i, j
  <2>2. a = b /\ i = j
    BY <2>1, OneQuotient
  <2> QED
    BY <2>2 DEF a, b, i, j
<1>4. v[2] = w[2] /\ v[1][2] = w[1][2]
  <2> DEFINE a == v[2]
             b == w[2]
             i == v[1][2]
             j == w[1][2]
  <2>1. /\ CtaRows \in Nat \ {0} /\ a + i * CtaRows = b + j * CtaRows
        /\ a \in 0 .. CtaRows - 1 /\ b \in 0 .. CtaRows - 1 /\ i \in Nat /\ j \in Nat
    BY <1>1, <1>2, GeometryAssumption DEF ThreadY
  <2> HIDE DEF a, b, i, j
  <2>2. a = b /\ i = j
    BY <2>1, OneQuotient
  <2> QED
    BY <2>2 DEF a, b, i, j
<1>5. v = <<<<v[1][1], v[1][2]>>, v[2]>> /\ w = <<<<w[1][1], w[1][2]>>, w[2]>>
  BY DEF Warps, Blocks
<1>6. p = <<p[1], p[2]>> /\ q = <<q[1], q[2]>>
  OBVIOUS
<1> QED
  BY <1>1, <1>3, <1>4, <1>5, <1>6

\* A point that a warp finds is one of the surface.
LEMMA FoundOnSurface ==
  ASSUME NEW w \in Warps, z[w] \in Layers, NEW p \in Found(w)
  PROVE  EdgeOf(w, z[w], p) \in SurfaceEdges(volume)
<1> DEFINE v == <<ThreadX(w, p[1]), ThreadY(w), z[w]>>
<1>1. /\ p \in Lanes \X Axes /\ v \in Voxels /\ Neighbour(v, p[2]) \in Voxels
      /\ {volume[v], volume[Neighbour(v, p[2])]} = {"pos", "neg"}
  BY DEF Found, WarpPoints, Crosses
<1>2. z[w] < DimZ - 1
  BY GeometryAssumption DEF Layers
<1>3. \/ volume[v] = "pos" /\ volume[Neighbour(v, p[2])] = "neg"
      \/ volume[v] = "neg" /\ volume[Neighbour(v, p[2])] = "pos"
  BY <1>1
<1>4. EdgeOf(w, z[w], p) = <<v, p[2]>> /\ v[3] = z[w]
  BY DEF EdgeOf
<1> HIDE DEF v
<1> DEFINE a == p[2]
           e == <<v, a>>
           n == [v EXCEPT ![a] = @ + 1]
<1>5. e \in Voxels \X Axes /\ e[1] = v /\ e[2] = a
  BY <1>1
<1>6. n \in Voxels /\ (\/ volume[v] = "pos" /\ volume[n] = "neg"
                       \/ volume[v] = "neg" /\ volume[n] = "pos")
  BY <1>1, <1>3 DEF Neighbour
<1>7. v[3] < DimZ - 1
  BY <1>2, <1>4
<1> HIDE DEF a, e
<1>8. e \in SurfaceEdges(volume)
  BY <1>5, <1>6, <1>7 DEF SurfaceEdges
<1> QED
  BY <1>4, <1>8 DEF a, e

\* The stored edges are of the surface, each in one slot only, and a warp that
\* goes on is above the layers it has stored edges of.
StoredInv ==
  /\ \A s \in fresh : buffer[s] \in SurfaceEdges(volume)
  /\ \A s, t \in fresh : buffer[s] = buffer[t] => s = t
  /\ \A s \in fresh, w \in Warps, l \in Layers, p \in Lanes \X Axes :
       buffer[s] = EdgeOf(w, l, p) /\ pc[w] \in {"scan", "store"} => l < z[w]

\* The published slots of a launch that began with the count at 0 are stored,
\* or a warp is about to store them.
PublishedInv ==
  start_count = 0 /\ Arrived = Blocks /\ (\A b \in Blocks : pc[Lead(b)] # "publish") =>
    \A s \in 0 .. output_count - 1 :
      s \in fresh \/ \E v \in Storing : s \in Claimed(v)

\* What a store leaves in the slots.
LEMMA StoreFills ==
  ASSUME TypeInv, NEW w \in Warps, Store(w)
  PROVE  /\ fresh' = fresh \cup (Claimed(w) \cap Slots) /\ fresh \subseteq Slots
         /\ \A s \in Slots : s \notin Claimed(w) => buffer'[s] = buffer[s]
         /\ \A s \in Slots \cap Claimed(w) : \E p \in Found(w) :
              /\ buffer'[s] = EdgeOf(w, z[w], p)
              /\ old_global_count[w] + PackedIndex(Found(w), p) = s
<1>1. pc[w] = "store" /\ fresh' = fresh \cup (Claimed(w) \cap Slots)
  BY DEF Store
<1>2. \A s \in Claimed(w) : \E p \in Found(w) :
        old_global_count[w] + PackedIndex(Found(w), p) = s
  BY <1>1, ClaimedPoints
<1>3. \A s \in Slots : s \notin Claimed(w) => buffer'[s] = buffer[s]
  BY DEF Store
<1>4. \A s \in Slots \cap Claimed(w) :
        buffer'[s] = EdgeOf(w, z[w], CHOOSE p \in Found(w) :
                              old_global_count[w] + PackedIndex(Found(w), p) = s)
  BY DEF Store
<1> QED
  BY <1>1, <1>2, <1>3, <1>4 DEF TypeInv, TypeOK

LEMMA StoreKeepsStored ==
  ASSUME TypeInv, StoredInv, NEW w \in Warps, Store(w)
  PROVE  StoredInv'
<1>1. /\ fresh' = fresh \cup (Claimed(w) \cap Slots) /\ fresh \subseteq Slots
      /\ \A s \in Slots : s \notin Claimed(w) => buffer'[s] = buffer[s]
      /\ \A s \in Slots \cap Claimed(w) : \E p \in Found(w) :
           /\ buffer'[s] = EdgeOf(w, z[w], p)
           /\ old_global_count[w] + PackedIndex(Found(w), p) = s
  BY StoreFills
<1>2. /\ pc[w] = "store" /\ z[w] \in Layers /\ volume' = volume
      /\ \A p \in Found(w) : p \in Lanes \X Axes
  BY DEF Store, TypeInv, ClaimMatches, Found, WarpPoints
<1>3. \A s \in fresh' : \/ s \in fresh /\ buffer'[s] = buffer[s]
                        \/ \E p \in Found(w) :
                             /\ buffer'[s] = EdgeOf(w, z[w], p)
                             /\ old_global_count[w] + PackedIndex(Found(w), p) = s
  BY <1>1
<1>4. \A s \in fresh, p \in Found(w) : buffer[s] # EdgeOf(w, z[w], p)
  <2>1. ~(z[w] < z[w])
    BY <1>2, GeometryAssumption DEF Layers
  <2> QED
    BY <1>2, <2>1 DEF StoredInv
<1>5. \A s \in fresh' : buffer'[s] \in SurfaceEdges(volume')
  BY <1>2, <1>3, FoundOnSurface DEF StoredInv
<1>6. ASSUME NEW s \in fresh', NEW t \in fresh', buffer'[s] = buffer'[t]
      PROVE  s = t
  <2>1. CASE s \in fresh /\ buffer'[s] = buffer[s]
    <3>1. t \in fresh /\ buffer'[t] = buffer[t]
      BY <1>3, <1>4, <1>6, <2>1
    <3> QED
      BY <1>6, <2>1, <3>1 DEF StoredInv
  <2>2. ASSUME NEW p \in Found(w), buffer'[s] = EdgeOf(w, z[w], p),
               old_global_count[w] + PackedIndex(Found(w), p) = s
        PROVE  s = t
    <3>1. PICK q \in Found(w) : /\ buffer'[t] = EdgeOf(w, z[w], q)
                                /\ old_global_count[w] + PackedIndex(Found(w), q) = t
      BY <1>3, <1>4, <1>6, <2>2
    <3>2. p = q
      <4>1. p \in Lanes \X Axes /\ q \in Lanes \X Axes
        BY <1>2
      <4>2. EdgeOf(w, z[w], p) = EdgeOf(w, z[w], q)
        BY <1>6, <2>2, <3>1
      <4> QED
        BY <4>1, <4>2, OwnEdges
    <3> QED
      BY <2>2, <3>1, <3>2
  <2> QED
    BY <1>3, <2>1, <2>2
<1>7. ASSUME NEW s \in fresh', NEW v \in Warps, NEW l \in Layers, NEW p \in Lanes \X Axes,
             buffer'[s] = EdgeOf(v, l, p), pc'[v] \in {"scan", "store"}
      PROVE  l < z'[v]
  <2>1. /\ v # w => pc'[v] = pc[v] /\ z'[v] = z[v]
        /\ v = w => pc[v] = "store" /\ z'[v] = z[w] + 1
    BY <1>2, <1>7 DEF Store, AfterLoop, TypeInv, TypeOK
  <2>2. CASE s \in fresh /\ buffer'[s] = buffer[s]
    <3>1. l < z[v]
      BY <1>7, <2>1, <2>2 DEF StoredInv
    <3> QED
      BY <1>2, <2>1, <3>1 DEF Layers
  <2>3. CASE \E q \in Found(w) : buffer'[s] = EdgeOf(w, z[w], q)
    <3>1. PICK q \in Lanes \X Axes : EdgeOf(v, l, p) = EdgeOf(w, z[w], q)
      BY <1>2, <1>7, <2>3
    <3>2. v = w /\ l = z[w]
      BY <3>1, OwnEdges
    <3>3. l \in Int
      BY GeometryAssumption DEF Layers
    <3> QED
      BY <2>1, <3>2, <3>3
  <2> QED
    BY <1>3, <2>2, <2>3
<1> QED
  BY <1>5, <1>6, <1>7 DEF StoredInv

LEMMA StoredStep == TypeInv /\ StoredInv /\ [Next]_vars => StoredInv'
<1> SUFFICES ASSUME TypeInv, StoredInv, [Next]_vars PROVE StoredInv'
  OBVIOUS
<1>1. CASE Launch
  BY <1>1 DEF Launch, StoredInv
<1>2. ASSUME UNCHANGED <<fresh, buffer, volume>>,
             \A w \in Warps : pc'[w] \in {"scan", "store"} =>
               pc[w] \in {"scan", "store"} /\ z'[w] \in {z[w], z[w] + 1}
      PROVE  StoredInv'
  <2>1. \A w \in Warps : z[w] \in Nat /\ Layers \subseteq Int
    BY GeometryAssumption DEF TypeInv, TypeOK, Layers
  <2> QED
    BY <1>2, <2>1 DEF StoredInv
<1>3. CASE Return \/ Fail \/ UNCHANGED vars
  BY <1>2, <1>3 DEF Return, Fail, locals, history, vars
<1>4. ASSUME NEW w \in Warps, SkipLayer(w) \/ Claim(w) \/ LeaveLoop(w)
      PROVE  StoredInv'
  BY <1>2, <1>4 DEF SkipLayer, Claim, LeaveLoop, AfterLoop, locals, history, TypeInv, TypeOK
<1>5. ASSUME NEW w \in Warps, Arrive(w) \/ Publish(w) \/ Reset(w)
      PROVE  StoredInv'
  BY <1>2, <1>5 DEF Arrive, Publish, Reset, locals, history, TypeInv, TypeOK
<1> QED
  BY <1>1, <1>3, <1>4, <1>5, StoreKeepsStored DEF Next, WarpStep

\* Who arrives when all others have is to publish.
LEMMA LastPublishes ==
  ASSUME TypeInv, EpilogueInv, NEW w \in Warps, Arrive(w), Arrived' = Blocks
  PROVE  \E b \in Blocks : pc'[Lead(b)] = "publish"
<1> DEFINE b == w[1]
<1>0. /\ TypeOK /\ \A v \in Warps : v[1] \in Blocks
      /\ \A c \in Blocks : Lead(c) \in Warps /\ Lead(c)[1] = c
  BY LeadInVolume, ScanTypes DEF TypeInv
<1>1. b \in Blocks /\ w = Lead(b)
  BY <1>0 DEF Arrive, EpilogueInv
<1>2. b \notin Arrived /\ Arrived \in SUBSET Blocks
  BY <1>1 DEF Arrive, Arrived
<1>3. \A v \in Warps : v # w => pc'[v] = pc[v]
  BY <1>0 DEF Arrive, TypeOK
<1>4. \A c \in Blocks : c # b => c \in Arrived
  BY <1>0, <1>1, <1>3 DEF Arrived
<1>5. blocks_done = NumBlocks - 1
  <2>1. b \in Blocks \ Arrived /\ Arrived \cup {b} = Blocks
    BY <1>1, <1>2, <1>4
  <2>2. Cardinality(Arrived) = NumBlocks - 1
    BY <1>2, <2>1, ArriveCounts
  <2> QED
    BY <2>1, <2>2 DEF EpilogueInv
<1>6. pc'[w] = "publish"
  BY <1>0, <1>5 DEF Arrive, TypeOK
<1> QED
  BY <1>1, <1>6

LEMMA PublishedStep ==
  TypeInv /\ EpilogueInv /\ ClaimsInv /\ PublishedInv /\ [Next]_vars => PublishedInv'
<1> SUFFICES ASSUME TypeInv, EpilogueInv, ClaimsInv, PublishedInv, [Next]_vars,
                    start_count' = 0, Arrived' = Blocks,
                    \A b \in Blocks : pc'[Lead(b)] # "publish",
                    NEW s \in 0 .. output_count' - 1
             PROVE  s \in fresh' \/ \E v \in Storing' : s \in Claimed(v)'
  BY DEF PublishedInv
<1>0. /\ TypeOK /\ NumBlocks \in Nat \ {0} /\ Size \in Nat \ {0}
      /\ \A b \in Blocks : Lead(b) \in Warps /\ Lead(b)[1] = b /\ InVolume(Lead(b))
      /\ \A w \in Warps : w[1] \in Blocks
  BY LeadInVolume, ScanTypes, BufferAssumption DEF TypeInv
<1>1. CASE Launch
  <2>1. \A b \in Blocks : pc'[Lead(b)] = "scan"
    BY <1>0, <1>1 DEF Launch
  <2> QED
    BY <2>1, NoBlockArrived DEF Arrived
\* Whoever leaves the published slots as they are.
<1>2. ASSUME start_count' = start_count, output_count' = output_count,
             Arrived = Blocks, \A b \in Blocks : pc[Lead(b)] # "publish",
             fresh \subseteq fresh',
             \A v \in Storing : \/ v \in Storing' /\ Claimed(v)' = Claimed(v)
                                \/ Claimed(v) \cap Slots \subseteq fresh'
      PROVE  s \in fresh' \/ \E v \in Storing' : s \in Claimed(v)'
  <2>1. s \in 0 .. output_count - 1 /\ s \in Slots
    BY <1>0, <1>2 DEF TypeOK, Slots
  <2>2. s \in fresh \/ \E v \in Storing : s \in Claimed(v)
    BY <1>2, <2>1 DEF PublishedInv
  <2> QED
    BY <1>2, <2>1, <2>2
<1>3. CASE Return \/ Fail \/ UNCHANGED vars
  BY <1>2, <1>3 DEF Return, Fail, counters, locals, history, vars, Arrived, Storing, Claimed
<1>4. ASSUME NEW w \in Warps, SkipLayer(w)
      PROVE  s \in fresh' \/ \E v \in Storing' : s \in Claimed(v)'
  BY <1>2, <1>4 DEF SkipLayer, counters, history, Arrived, Storing, Claimed
<1>5. ASSUME NEW w \in Warps, Claim(w) \/ Store(w) \/ LeaveLoop(w)
      PROVE  s \in fresh' \/ \E v \in Storing' : s \in Claimed(v)'
  <2>1. /\ pc[w] \in {"scan", "store"} /\ UNCHANGED <<start_count, output_count>>
        /\ \A v \in Warps : v # w => pc'[v] = pc[v]
        /\ pc'[w] \in {"scan", "store", "arrive"} \/ w # Lead(w[1])
    BY <1>0, <1>5 DEF Claim, Store, LeaveLoop, AfterLoop, counters, history, TypeOK
  <2>2. \A b \in Blocks : w # Lead(b)
    BY <1>0, <2>1 DEF Arrived
  <2>3. Arrived = Blocks /\ \A b \in Blocks : pc[Lead(b)] # "publish"
    BY <1>0, <2>1, <2>2 DEF Arrived
  <2>4. fresh \subseteq fresh'
    BY <1>5 DEF Claim, Store, LeaveLoop, history
  <2>5. \A v \in Storing : \/ v \in Storing' /\ Claimed(v)' = Claimed(v)
                           \/ Claimed(v) \cap Slots \subseteq fresh'
    <3>1. CASE Claim(w)
      BY <1>0, <3>1 DEF Claim, Storing, Claimed, TypeOK
    <3>2. CASE Store(w)
      BY <1>0, <2>1, <3>2 DEF Store, Storing, Claimed, TypeOK
    <3>3. CASE LeaveLoop(w)
      BY <1>0, <2>1, <3>3 DEF LeaveLoop, Storing, Claimed, locals, TypeOK
    <3> QED
      BY <1>5, <3>1, <3>2, <3>3
  <2> QED
    BY <1>2, <2>1, <2>3, <2>4, <2>5
<1>6. ASSUME NEW w \in Warps, Arrive(w) PROVE FALSE
  BY <1>6, LastPublishes
<1>7. ASSUME NEW w \in Warps, Publish(w)
      PROVE  s \in fresh' \/ \E v \in Storing' : s \in Claimed(v)'
  <2>1. BeforeReset
    BY <1>0, <1>7 DEF Publish, EpilogueInv, BeforeReset
  <2>2. /\ UNCHANGED <<fresh, total_warp, old_global_count, start_count>>
        /\ output_count' = Minimum(Size, global_count)
    BY <1>7 DEF Publish, locals, history
  <2>3. Storing' = Storing
    BY <1>0, <1>7 DEF Publish, Storing, TypeOK
  <2>4. s \in Slots /\ s \in start_count .. global_count - 1
    BY <1>0, <2>2 DEF Minimum, Slots, TypeOK
  <2>5. s \in fresh \/ \E v \in Storing : s \in Claimed(v)
    BY <2>1, <2>4 DEF ClaimsInv
  <2> QED
    BY <2>2, <2>3, <2>5 DEF Claimed
<1>8. ASSUME NEW w \in Warps, Reset(w)
      PROVE  s \in fresh' \/ \E v \in Storing' : s \in Claimed(v)'
  <2>1. w[1] \in Blocks /\ w = Lead(w[1])
    BY <1>0, <1>8 DEF Reset, EpilogueInv
  <2>2. Arrived = Blocks /\ \A b \in Blocks : pc[Lead(b)] # "publish"
    <3>1. Arrived = Blocks
      BY <1>8, <2>1 DEF Reset, EpilogueInv
    <3>2. \A b \in Blocks : b # w[1] => pc[Lead(b)] = "done"
      BY <1>8, <2>1 DEF Reset, EpilogueInv
    <3> QED
      BY <1>8, <2>1, <3>1, <3>2 DEF Reset
  <2>3. Storing \subseteq Storing' /\ \A v \in Storing : Claimed(v)' = Claimed(v)
    BY <1>0, <1>8 DEF Reset, Storing, Claimed, locals, TypeOK
  <2> QED
    BY <1>2, <1>8, <2>2, <2>3 DEF Reset, history
<1> QED
  BY <1>1, <1>3, <1>4, <1>5, <1>6, <1>7, <1>8 DEF Next, WarpStep

\* What a fetch returns that began with the count at 0.
LEMMA ReturnedCloud ==
  ASSUME StoredInv, PublishedInv, start_count = 0, Return
  PROVE  /\ cloud' = [i \in 0 .. output_count - 1 |-> buffer[i]]
         /\ \A i \in 0 .. output_count - 1 : cloud'[i] \in SurfaceEdges(volume)
         /\ \A i, j \in 0 .. output_count - 1 : cloud'[i] = cloud'[j] => i = j
<1>1. \A w \in Warps : pc[w] = "done"
  BY DEF Return, KernelDone
<1>2. Arrived = Blocks /\ Storing = {} /\ \A b \in Blocks : pc[Lead(b)] # "publish"
  BY <1>1, LeadInVolume DEF Arrived, Storing
<1>3. \A s \in 0 .. output_count - 1 : s \in fresh
  BY <1>2 DEF PublishedInv
<1>4. cloud' = [i \in 0 .. output_count - 1 |-> buffer[i]]
  BY DEF Return
<1> QED
  BY <1>3, <1>4 DEF StoredInv

LEMMA StoredInvariant == Spec => [](StoredInv /\ PublishedInv)
<1>1. Init => StoredInv /\ PublishedInv
  BY DEF Init, StoredInv, PublishedInv
<1> QED
  BY <1>1, StoredStep, PublishedStep, TypeInvariant, EpilogueInvariant,
     ClaimsInvariant, PTL DEF Spec

\* A fetch that begins with the count at 0 returns points of the surface, each
\* once, although warps may store while its count is published.
THEOREM CloudIsSound == Spec => SoundCloud
<1>1. StoredInv /\ PublishedInv /\ [Next]_vars =>
        [(host = "running" /\ host' = "idle" /\ start_count = 0) =>
           \A i, j \in DOMAIN cloud' :
             /\ cloud'[i] \in SurfaceEdges(volume)
             /\ cloud'[i] = cloud'[j] => i = j]_vars
  <2> SUFFICES ASSUME StoredInv, PublishedInv, [Next]_vars,
                      host = "running", host' = "idle", start_count = 0,
                      NEW i \in DOMAIN cloud', NEW j \in DOMAIN cloud'
               PROVE  /\ cloud'[i] \in SurfaceEdges(volume)
                      /\ cloud'[i] = cloud'[j] => i = j
    OBVIOUS
  <2>1. Return
    BY DEF Next, WarpStep, Launch, Fail, SkipLayer, Claim, Store, LeaveLoop, Arrive,
           Publish, Reset, vars
  <2>2. DOMAIN cloud' = 0 .. output_count - 1
    BY <2>1, ReturnedCloud
  <2> QED
    BY <2>1, <2>2, ReturnedCloud
<1> QED
  BY <1>1, StoredInvariant, PTL DEF Spec, SoundCloud

-----------------------------------------------------------------------------
(* All that there is to store.                                             *)

\* The grid has a place for every coordinate.
LEMMA DivUpPlaces ==
  ASSUME NEW n \in Nat \ {0}, NEW c \in Nat \ {0}, NEW x \in 0 .. n - 1
  PROVE  \E i \in 0 .. divUp(n, c) - 1, a \in 0 .. c - 1 : x = a + i * c
<1> DEFINE q == (n + c - 1) \div c
           i == x \div c
           a == x % c
<1>1. q \in Int /\ n + c - 1 < (q + 1) * c
  OBVIOUS
<1>2. i \in Int /\ a \in 0 .. c - 1 /\ x = c * i + a
  OBVIOUS
<1> HIDE DEF q, i, a
<1>3. i >= 0
  <2> SUFFICES ASSUME i <= -1 PROVE FALSE
    BY <1>2
  <2>1. c * i <= c * (-1)
    BY <1>2
  <2> QED
    BY <1>2, <2>1
<1>4. i < q
  <2> SUFFICES ASSUME q <= i PROVE FALSE
    BY <1>1, <1>2
  <2>1. c * q <= c * i
    BY <1>1, <1>2
  <2>2. (q + 1) * c = c * q + c /\ c * q \in Int /\ c * i \in Int
    BY <1>1, <1>2
  <2> QED
    BY <1>1, <1>2, <2>1, <2>2
<1>5. c * i = i * c
  BY <1>2
<1>6. i \in 0 .. q - 1 /\ x = a + i * c
  BY <1>1, <1>2, <1>3, <1>4, <1>5
<1> QED
  BY <1>2, <1>6 DEF divUp, q

\* Each point of the surface is found by a warp that runs, at the layer of its
\* voxel.
LEMMA SurfaceIsScanned ==
  ASSUME NEW vol, NEW e \in SurfaceEdges(vol)
  PROVE  \E w \in Warps, l \in Layers, p \in Lanes \X Axes :
           e = EdgeOf(w, l, p) /\ InVolume(w)
<1> DEFINE x == e[1][1]
           y == e[1][2]
           l == e[1][3]
<1>1. /\ e \in Voxels \X Axes /\ l < DimZ - 1
      /\ x \in 0 .. DimX - 1 /\ y \in 0 .. DimY - 1 /\ l \in 0 .. DimZ - 1
  BY DEF SurfaceEdges, Voxels
<1>2. e = <<e[1], e[2]>> /\ e[1] = <<x, y, l>> /\ e[2] \in Axes
  BY <1>1 DEF Voxels
<1> HIDE DEF x, y, l
<1>3. PICK i \in 0 .. GridX - 1, a \in Lanes : x = a + i * WarpSize
  BY <1>1, DivUpPlaces, GeometryAssumption DEF GridX, Lanes
<1>4. PICK j \in 0 .. GridY - 1, r \in Rows : y = r + j * CtaRows
  BY <1>1, DivUpPlaces, GeometryAssumption DEF GridY, Rows
<1> DEFINE w == <<<<i, j>>, r>>
           p == <<a, e[2]>>
<1>5. w \in Warps /\ p \in Lanes \X Axes
  BY <1>2 DEF Warps, Blocks
<1>6. ThreadX(w, p[1]) = x /\ ThreadY(w) = y
  BY <1>3, <1>4 DEF ThreadX, ThreadY
<1>7. e = EdgeOf(w, l, p)
  BY <1>2, <1>6 DEF EdgeOf
<1>8. InVolume(w)
  BY <1>1, <1>6, GeometryAssumption DEF InVolume
<1>9. l \in Layers
  BY <1>1, GeometryAssumption DEF Layers
<1> QED
  BY <1>5, <1>7, <1>8, <1>9

\* What lies on the surface is found, and lies in a row of the volume.
LEMMA SurfaceIsFound ==
  ASSUME NEW vol, NEW w \in Warps, NEW l \in Layers, NEW p \in Lanes \X Axes,
         EdgeOf(w, l, p) \in SurfaceEdges(vol)
  PROVE  p \in WarpPoints(vol, w, l) /\ InVolume(w)
<1> DEFINE v == <<ThreadX(w, p[1]), ThreadY(w), l>>
           a == p[2]
           n == [v EXCEPT ![a] = @ + 1]
<1>1. EdgeOf(w, l, p) = <<v, a>>
  BY DEF EdgeOf
<1> HIDE DEF v, a
<1>2. /\ v \in Voxels /\ n \in Voxels
      /\ \/ vol[v] = "pos" /\ vol[n] = "neg"
         \/ vol[v] = "neg" /\ vol[n] = "pos"
  BY <1>1 DEF SurfaceEdges
<1>3. n = Neighbour(v, a)
  BY DEF Neighbour
<1> HIDE DEF n
<1>4. Crosses(vol, v, a)
  BY <1>2, <1>3 DEF Crosses
<1>5. p \in WarpPoints(vol, w, l)
  BY <1>2, <1>4 DEF WarpPoints, v, a
<1>6. InVolume(w)
  <2>1. ThreadY(w) \in 0 .. DimY - 1
    BY <1>2 DEF v, Voxels
  <2> QED
    BY <2>1, GeometryAssumption DEF InVolume
<1> QED
  BY <1>5, <1>6

LEMMA SurfaceFinite ==
  ASSUME NEW vol
  PROVE  IsFiniteSet(SurfaceEdges(vol)) /\ Cardinality(SurfaceEdges(vol)) \in Nat
<1> DEFINE X == 0 .. DimX - 1
           Y == 0 .. DimY - 1
           Z == 0 .. DimZ - 1
           f == [v \in Voxels |-> <<<<v[1], v[2]>>, v[3]>>]
<1>1. IsFiniteSet(X) /\ IsFiniteSet(Y) /\ IsFiniteSet(Z)
  BY FS_Interval, GeometryAssumption
<1>2. Voxels = X \X Y \X Z
  BY DEF Voxels
<1> HIDE DEF X, Y, Z
<1>3. IsFiniteSet((X \X Y) \X Z)
  BY <1>1, FS_Product
<1>4. f \in Injection(Voxels, (X \X Y) \X Z)
  <2>1. f \in [Voxels -> (X \X Y) \X Z]
    BY <1>2
  <2>2. \A u, v \in Voxels : f[u] = f[v] => u = v
    BY <1>2
  <2> QED
    BY <2>1, <2>2 DEF Injection, IsInjective
<1>5. IsFiniteSet(Voxels)
  BY <1>3, <1>4, FS_Injection
<1>6. IsFiniteSet(Axes)
  BY AxesFinite
<1>7. IsFiniteSet(Voxels \X Axes)
  BY <1>5, <1>6, FS_Product
<1>8. SurfaceEdges(vol) \in SUBSET (Voxels \X Axes)
  BY DEF SurfaceEdges
<1> QED
  BY <1>7, <1>8, FS_Subset, FS_CardinalityType

-----------------------------------------------------------------------------
(* The refinement.  It holds as long as the epilogue is in order: no block *)
(* is counted as done while a warp of it may still claim room.             *)

Orderly ==
  \A b \in Arrived, r \in Rows : pc[<<b, r>>] \notin {"scan", "store"}

\* The layers a warp has claimed the points of, and what these are.
Reached(w, l) == l < z[w] \/ (l = z[w] /\ pc[w] # "scan")

Passed ==
  {e \in SurfaceEdges(volume) :
     \E w \in Warps, l \in Layers, p \in Lanes \X Axes :
       e = EdgeOf(w, l, p) /\ Reached(w, l)}

\* Until it is reset the count is that of the points passed, and includes every
\* warp's last claim; a warp has left its loop above all layers, or because the
\* buffer was full.
CountInv ==
  /\ start_count = 0
  /\ ~BeforeReset => global_count = 0
  /\ BeforeReset =>
       /\ global_count = Cardinality(Passed)
       /\ \A w \in Warps : old_global_count[w] + total_warp[w] <= global_count
  /\ host = "running" =>
       \A w \in Warps :
         InVolume(w) /\ pc[w] \notin {"scan", "store"} =>
           z[w] \notin Layers \/ w \in FullWarps

\* What is published is the size of the surface, or that of the buffer.
OutputInv ==
  host = "running" /\ Arrived = Blocks /\ (\A b \in Blocks : pc[Lead(b)] # "publish") =>
    output_count = Minimum(Size, Cardinality(SurfaceEdges(volume)))

\* A point of a warp is passed when the warp has reached its layer.
LEMMA PassedIsReached ==
  ASSUME NEW w \in Warps, NEW l \in Layers, NEW p \in Lanes \X Axes,
         EdgeOf(w, l, p) \in SurfaceEdges(volume)
  PROVE  EdgeOf(w, l, p) \in Passed <=> Reached(w, l)
<1>1. ASSUME EdgeOf(w, l, p) \in Passed PROVE Reached(w, l)
  <2>1. PICK v \in Warps, k \in Layers, q \in Lanes \X Axes :
          EdgeOf(w, l, p) = EdgeOf(v, k, q) /\ Reached(v, k)
    BY <1>1 DEF Passed
  <2>2. w = v /\ l = k
    BY <2>1, OwnEdges
  <2> QED
    BY <2>1, <2>2
<1> QED
  BY <1>1 DEF Passed

LEMMA PassedFinite ==
  /\ Passed \in SUBSET SurfaceEdges(volume)
  /\ IsFiniteSet(Passed) /\ Cardinality(Passed) \in Nat
<1>1. Passed \in SUBSET SurfaceEdges(volume)
  BY DEF Passed
<1> QED
  BY <1>1, SurfaceFinite, FS_Subset, FS_CardinalityType

\* Steps that reach no layer with points.
LEMMA SamePassed ==
  ASSUME volume' = volume,
         \A w \in Warps, l \in Layers, p \in Lanes \X Axes :
           EdgeOf(w, l, p) \in SurfaceEdges(volume) =>
             (Reached(w, l)' <=> Reached(w, l))
  PROVE  Passed' = Passed
BY DEF Passed

\* A claim is for as many points as it passes.
LEMMA ClaimPasses ==
  ASSUME TypeInv, NEW w \in Warps, Claim(w)
  PROVE  Cardinality(Passed') = Cardinality(Passed) + Cardinality(Found(w))
<1> DEFINE F == {EdgeOf(w, z[w], p) : p \in Found(w)}
           f == [p \in Found(w) |-> EdgeOf(w, z[w], p)]
<1>1. /\ z[w] \in Layers /\ volume' = volume /\ z' = z
      /\ pc[w] = "scan" /\ pc' = [pc EXCEPT ![w] = "store"]
  BY DEF Claim
<1>2. /\ pc'[w] = "store" /\ \A v \in Warps : v # w => pc'[v] = pc[v]
      /\ \A p \in Found(w) : p \in Lanes \X Axes
      /\ \A p \in Lanes \X Axes : p \in Found(w) <=> p \in WarpPoints(volume, w, z[w])
      /\ z[w] \in Nat
  BY <1>1 DEF TypeInv, TypeOK, Found, WarpPoints
<1>3. F \subseteq SurfaceEdges(volume)
  BY <1>1, FoundOnSurface
<1>4. \A v \in Warps, l \in Layers : Reached(v, l)' <=> Reached(v, l) \/ (v = w /\ l = z[w])
  BY <1>1, <1>2 DEF Reached
<1>5. Passed' = Passed \cup F
  <2>1. ASSUME NEW e \in Passed' PROVE e \in Passed \cup F
    <3>1. PICK v \in Warps, l \in Layers, p \in Lanes \X Axes :
            e = EdgeOf(v, l, p) /\ Reached(v, l)'
      BY <2>1 DEF Passed
    <3>2. e \in SurfaceEdges(volume)
      BY <1>1, <2>1 DEF Passed
    <3>3. CASE Reached(v, l)
      BY <3>1, <3>2, <3>3 DEF Passed
    <3>4. CASE v = w /\ l = z[w]
      <4>1. p \in Found(w)
        BY <1>2, <3>1, <3>2, <3>4, SurfaceIsFound
      <4> QED
        BY <3>1, <3>4, <4>1
    <3> QED
      BY <1>4, <3>1, <3>3, <3>4
  <2>2. ASSUME NEW e \in Passed PROVE e \in Passed'
    BY <1>1, <1>4, <2>2 DEF Passed
  <2>3. ASSUME NEW p \in Found(w) PROVE EdgeOf(w, z[w], p) \in Passed'
    <3>1. EdgeOf(w, z[w], p) \in SurfaceEdges(volume)
      BY <1>3
    <3>2. Reached(w, z[w])'
      BY <1>1, <1>4
    <3> QED
      BY <1>1, <1>2, <3>1, <3>2 DEF Passed
  <2> QED
    BY <2>1, <2>2, <2>3
<1>6. Passed \cap F = {}
  <2> SUFFICES ASSUME NEW p \in Found(w), EdgeOf(w, z[w], p) \in Passed PROVE FALSE
    OBVIOUS
  <2>1. Reached(w, z[w])
    BY <1>1, <1>2, <1>3, PassedIsReached
  <2> QED
    BY <1>1, <1>2, <2>1 DEF Reached
<1>7. IsFiniteSet(F) /\ Cardinality(F) = Cardinality(Found(w))
  <2>1. f \in [Found(w) -> F] /\ \A e \in F : \E p \in Found(w) : f[p] = e
    OBVIOUS
  <2>2. \A p, q \in Found(w) : f[p] = f[q] => p = q
    BY <1>2, OwnEdges
  <2>3. f \in Injection(Found(w), F) /\ f \in Surjection(Found(w), F)
    BY <2>1, <2>2 DEF Injection, IsInjective, Surjection
  <2> QED
    BY <2>3, FoundFacts, FS_Surjection
<1> HIDE DEF F
<1>8. /\ Cardinality(Passed \cup F) =
           Cardinality(Passed) + Cardinality(F) - Cardinality(Passed \cap F)
      /\ Cardinality(Passed \cap F) = 0
  BY <1>6, <1>7, PassedFinite, FS_Union, FS_EmptySet
<1>9. Cardinality(Passed) \in Nat /\ Cardinality(F) \in Nat
  BY <1>7, PassedFinite, FS_CardinalityType
<1> QED
  BY <1>5, <1>7, <1>8, <1>9

\* A warp in its loop belongs to a block that is not counted yet.
LEMMA LoopBeforeArrival ==
  ASSUME Orderly, NEW w \in Warps, pc[w] \in {"scan", "store"}
  PROVE  w[1] \in Blocks /\ w[1] \notin Arrived /\ BeforeReset
<1>1. w[1] \in Blocks /\ w[2] \in Rows /\ w = <<w[1], w[2]>>
  BY DEF Warps
<1>2. w[1] \notin Arrived
  BY <1>1 DEF Orderly
<1>3. pc[Lead(w[1])] # "done"
  BY <1>1, <1>2 DEF Arrived
<1> QED
  BY <1>1, <1>2, <1>3 DEF BeforeReset

\* In the loop no block comes to be counted.
LEMMA LoopStep ==
  ASSUME TypeInv, Orderly, NEW w \in Warps, pc[w] \in {"scan", "store"},
         \/ pc' = [pc EXCEPT ![w] = "scan"] \/ pc' = [pc EXCEPT ![w] = "store"]
         \/ pc' = [pc EXCEPT ![w] = AfterLoop(w)] \/ pc' = pc
  PROVE  BeforeReset' /\ Arrived' # Blocks
<1> DEFINE b == w[1]
<1>1. b \in Blocks /\ b \notin Arrived /\ Lead(b) \in Warps
  BY LoopBeforeArrival, LeadInVolume
<1>2. /\ \A v \in Warps : v # w => pc'[v] = pc[v]
      /\ pc'[w] \in {"scan", "store", "arrive"} \/ w # Lead(b)
  BY DEF AfterLoop, TypeInv, TypeOK
<1>3. pc[Lead(b)] \notin {"publish", "reset", "done"}
  BY <1>1 DEF Arrived
<1>4. pc'[Lead(b)] \notin {"publish", "reset", "done"}
  BY <1>1, <1>2, <1>3
<1> QED
  BY <1>1, <1>4 DEF BeforeReset, Arrived

\* Steps that claim nothing, and after which who has left his loop has a reason.
LEMMA CountFrame ==
  ASSUME CountInv, BeforeReset, host' = "running", host = "running",
         UNCHANGED <<global_count, start_count, total_warp, old_global_count>>,
         BeforeReset', Passed' = Passed,
         \A w \in Warps : InVolume(w) /\ pc'[w] \notin {"scan", "store"} =>
           \/ pc[w] \notin {"scan", "store"} /\ z'[w] = z[w]
           \/ z'[w] \notin Layers \/ w \in FullWarps
  PROVE  CountInv'
<1>1. FullWarps' = FullWarps
  BY DEF FullWarps
<1>2. \A w \in Warps : InVolume(w) /\ pc'[w] \notin {"scan", "store"} =>
        z'[w] \notin Layers \/ w \in FullWarps'
  BY <1>1 DEF CountInv
<1>3. /\ start_count' = 0 /\ global_count' = Cardinality(Passed')
      /\ \A w \in Warps : old_global_count'[w] + total_warp'[w] <= global_count'
  BY DEF CountInv
<1> QED
  BY <1>2, <1>3 DEF CountInv

\* When all blocks are counted all points are passed, or the buffer is full.
LEMMA AllPassed ==
  ASSUME TypeInv, CountInv, Orderly, Arrived = Blocks, BeforeReset, host = "running"
  PROVE  Minimum(Size, global_count) = Minimum(Size, Cardinality(SurfaceEdges(volume)))
<1> DEFINE n == Cardinality(SurfaceEdges(volume))
           m == Cardinality(Passed)
<1>1. \A w \in Warps : pc[w] \notin {"scan", "store"}
  BY LoopBeforeArrival
<1>2. /\ n \in Nat /\ m \in Nat /\ m <= n
      /\ m = global_count /\ Size \in Nat
  BY SurfaceFinite, PassedFinite, FS_Subset, BufferAssumption DEF CountInv
<1>3. CASE \E w \in Warps : w \in FullWarps
  <2>1. PICK w \in Warps : old_global_count[w] + total_warp[w] >= Size
    BY <1>3 DEF FullWarps
  <2>2. /\ old_global_count[w] \in Nat /\ total_warp[w] \in Nat
        /\ old_global_count[w] + total_warp[w] <= global_count
    BY GeometryAssumption DEF TypeInv, TypeOK, CountInv, MaxWarpPoints
  <2> HIDE DEF n, m
  <2>3. global_count >= Size
    BY <1>2, <2>1, <2>2
  <2> QED
    BY <1>2, <2>3 DEF Minimum, n
<1>4. CASE \A w \in Warps : w \notin FullWarps
  <2>1. ASSUME NEW e \in SurfaceEdges(volume) PROVE e \in Passed
    <3>1. PICK w \in Warps, l \in Layers, p \in Lanes \X Axes :
            e = EdgeOf(w, l, p) /\ InVolume(w)
      BY SurfaceIsScanned
    <3>2. z[w] \notin Layers
      BY <1>1, <1>4, <3>1 DEF CountInv
    <3>3. z[w] \in Nat /\ l < z[w]
      BY <3>2, GeometryAssumption DEF Layers, TypeInv, TypeOK
    <3> QED
      BY <3>1, <3>3 DEF Passed, Reached
  <2>2. Passed = SurfaceEdges(volume)
    BY <2>1, PassedFinite
  <2> QED
    BY <1>2, <2>2
<1> QED
  BY <1>3, <1>4

ExactInv == CountInv /\ OutputInv

LEMMA ExactAtLaunch ==
  ASSUME TypeInv, EpilogueInv, ExactInv, Launch
  PROVE  ExactInv'
<1>0. \A b \in Blocks : Lead(b) \in Warps /\ InVolume(Lead(b))
  BY LeadInVolume
<1>1. global_count = 0
  <2>1. ~BeforeReset
    BY <1>0 DEF EpilogueInv, Launch, KernelDone, BeforeReset
  <2> QED
    BY <2>1 DEF ExactInv, CountInv
<1>2. /\ global_count' = 0 /\ start_count' = 0 /\ host' = "running"
      /\ \A w \in Warps : /\ pc'[w] = IF InVolume(w) THEN "scan" ELSE "done"
                          /\ z'[w] = 0 /\ old_global_count'[w] = 0 /\ total_warp'[w] = 0
  BY <1>1 DEF Launch, counters
<1>3. Passed' = {}
  <2> SUFFICES ASSUME NEW e \in Passed' PROVE FALSE
    OBVIOUS
  <2>1. PICK w \in Warps, l \in Layers, p \in Lanes \X Axes :
          e = EdgeOf(w, l, p) /\ Reached(w, l)'
    BY DEF Passed
  <2>2. EdgeOf(w, l, p) \in SurfaceEdges(volume')
    BY <2>1 DEF Passed
  <2>3. InVolume(w)
    BY <2>2, SurfaceIsFound
  <2>4. l < 0 /\ l \in Nat
    BY <1>2, <2>1, <2>3, GeometryAssumption DEF Reached, Layers
  <2> QED
    BY <2>4
<1>4. Cardinality(Passed') = 0
  BY <1>3, FS_EmptySet
<1>5. CountInv'
  BY <1>2, <1>4 DEF CountInv
<1>6. Arrived' # Blocks
  <2>1. \A b \in Blocks : pc'[Lead(b)] = "scan"
    BY <1>0, <1>2
  <2> QED
    BY <2>1, NoBlockArrived DEF Arrived
<1> QED
  BY <1>5, <1>6 DEF ExactInv, OutputInv

LEMMA ExactInLoop ==
  ASSUME TypeInv, EpilogueInv, ExactInv, Orderly, NEW w \in Warps,
         SkipLayer(w) \/ Claim(w) \/ Store(w) \/ LeaveLoop(w)
  PROVE  ExactInv'
<1>0. TypeOK /\ pc[w] \in {"scan", "store"}
  BY DEF SkipLayer, Claim, Store, LeaveLoop, TypeInv
<1>1. BeforeReset' /\ Arrived' # Blocks
  BY <1>0, LoopStep DEF SkipLayer, Claim, Store, LeaveLoop
<1>2. BeforeReset
  BY <1>0, LoopBeforeArrival
<1>3. host = "running" /\ host' = "running" /\ volume' = volume
  BY <1>0 DEF EpilogueInv, KernelDone, SkipLayer, Claim, Store, LeaveLoop
<1>4. CASE SkipLayer(w)
  <2>1. Passed' = Passed
    <3> SUFFICES ASSUME NEW v \in Warps, NEW l \in Layers, NEW p \in Lanes \X Axes,
                        EdgeOf(v, l, p) \in SurfaceEdges(volume)
                 PROVE  Reached(v, l)' <=> Reached(v, l)
      BY <1>3, SamePassed
    <3>1. CASE v = w /\ l = z[w]
      BY <1>4, <3>1, SurfaceIsFound DEF SkipLayer, Found
    <3>2. CASE v # w
      BY <1>0, <1>4, <3>2 DEF SkipLayer, Reached, TypeOK
    <3>3. CASE v = w /\ l # z[w]
      <4>1. z'[w] = z[w] + 1 /\ pc' = pc /\ pc[w] = "scan" /\ z[w] \in Nat
        BY <1>0, <1>4 DEF SkipLayer, TypeOK
      <4>2. l \in Nat
        BY GeometryAssumption DEF Layers
      <4> QED
        BY <3>3, <4>1, <4>2 DEF Reached
    <3> QED
      BY <3>1, <3>2, <3>3
  <2>2. \A v \in Warps : pc'[v] \notin {"scan", "store"} =>
          pc[v] \notin {"scan", "store"} /\ z'[v] = z[v]
    BY <1>0, <1>4 DEF SkipLayer, TypeOK
  <2>3. CountInv'
    BY <1>1, <1>2, <1>3, <1>4, <2>1, <2>2, CountFrame
       DEF SkipLayer, ExactInv, counters, history
  <2> QED
    BY <1>1, <2>3 DEF ExactInv, OutputInv
<1>5. CASE Claim(w)
  <2> DEFINE n == Cardinality(Found(w))
  <2>1. n \in Nat /\ global_count \in Nat
    BY <1>0, FoundFacts, GeometryAssumption DEF MaxWarpPoints, TypeOK
  <2>2. /\ global_count' = global_count + n /\ start_count' = start_count
        /\ \A v \in Warps : /\ v # w => /\ old_global_count'[v] = old_global_count[v]
                                        /\ total_warp'[v] = total_warp[v]
                                        /\ pc'[v] = pc[v] /\ z'[v] = z[v]
                            /\ v = w => /\ old_global_count'[v] = global_count
                                        /\ total_warp'[v] = n /\ pc'[v] = "store"
    BY <1>0, <1>5 DEF Claim, TypeOK, history
  <2>3. global_count' = Cardinality(Passed')
    BY <1>2, <1>5, <2>2, ClaimPasses DEF ExactInv, CountInv
  <2>4. \A v \in Warps : old_global_count'[v] + total_warp'[v] <= global_count'
    <3>1. \A v \in Warps : /\ old_global_count[v] \in Nat /\ total_warp[v] \in Nat
                           /\ old_global_count[v] + total_warp[v] <= global_count
      BY <1>0, <1>2, GeometryAssumption DEF TypeOK, ExactInv, CountInv, MaxWarpPoints
    <3> HIDE DEF n
    <3> QED
      BY <2>1, <2>2, <3>1
  <2>5. \A v \in Warps : InVolume(v) /\ pc'[v] \notin {"scan", "store"} =>
          z'[v] \notin Layers \/ v \in FullWarps'
    BY <1>3, <2>2 DEF ExactInv, CountInv, FullWarps
  <2>6. start_count' = 0
    BY <2>2 DEF ExactInv, CountInv
  <2> QED
    BY <1>1, <2>3, <2>4, <2>5, <2>6 DEF ExactInv, CountInv, OutputInv
<1>6. CASE Store(w)
  <2>1. /\ pc[w] = "store" /\ z[w] \in Nat
        /\ \A v \in Warps : v # w => pc'[v] = pc[v] /\ z'[v] = z[v]
        /\ \/ Full(w) /\ pc'[w] # "scan" /\ z'[w] = z[w]
           \/ ~Full(w) /\ pc'[w] = "scan" /\ z'[w] = z[w] + 1
    BY <1>0, <1>6 DEF Store, AfterLoop, TypeOK
  <2>2. Passed' = Passed
    <3> SUFFICES ASSUME NEW v \in Warps, NEW l \in Layers
                 PROVE  Reached(v, l)' <=> Reached(v, l)
      BY <1>3, SamePassed
    <3>1. l \in Nat
      BY GeometryAssumption DEF Layers
    <3> QED
      BY <2>1, <3>1 DEF Reached
  <2>3. Full(w) => w \in FullWarps
    BY DEF Full, FullWarps
  <2>4. \A v \in Warps : pc'[v] \notin {"scan", "store"} =>
          (pc[v] \notin {"scan", "store"} /\ z'[v] = z[v]) \/ v \in FullWarps
    BY <2>1, <2>3
  <2>5. CountInv'
    BY <1>1, <1>2, <1>3, <1>6, <2>2, <2>4, CountFrame DEF Store, ExactInv, counters
  <2> QED
    BY <1>1, <2>5 DEF ExactInv, OutputInv
<1>7. CASE LeaveLoop(w)
  <2>1. /\ pc[w] = "scan" /\ z[w] \notin Layers /\ z' = z
        /\ pc'[w] # "scan" /\ \A v \in Warps : v # w => pc'[v] = pc[v]
    BY <1>0, <1>7 DEF LeaveLoop, AfterLoop, TypeOK, locals
  <2>2. Passed' = Passed
    <3> SUFFICES ASSUME NEW v \in Warps, NEW l \in Layers
                 PROVE  Reached(v, l)' <=> Reached(v, l)
      BY <1>3, SamePassed
    <3> QED
      BY <2>1 DEF Reached
  <2>3. \A v \in Warps : pc'[v] \notin {"scan", "store"} =>
          (pc[v] \notin {"scan", "store"} /\ z'[v] = z[v]) \/ z'[v] \notin Layers
    BY <2>1
  <2>4. CountInv'
    BY <1>1, <1>2, <1>3, <1>7, <2>2, <2>3, CountFrame
       DEF LeaveLoop, ExactInv, counters, locals, history
  <2> QED
    BY <1>1, <2>4 DEF ExactInv, OutputInv
<1> QED
  BY <1>4, <1>5, <1>6, <1>7

LEMMA ExactInEpilogue ==
  ASSUME TypeInv, EpilogueInv, ExactInv, Orderly, NEW w \in Warps,
         Arrive(w) \/ Publish(w) \/ Reset(w)
  PROVE  ExactInv'
<1>0. /\ TypeOK /\ w[1] \in Blocks /\ w = Lead(w[1])
      /\ \A b \in Blocks : Lead(b) \in Warps /\ Lead(b)[1] = b
  BY ScanTypes, LeadInVolume DEF Arrive, Publish, Reset, EpilogueInv, TypeInv
<1>1. /\ pc[w] \in {"arrive", "publish", "reset"} /\ BeforeReset
      /\ \A v \in Warps : v # w => pc'[v] = pc[v]
      /\ pc'[w] \in {"publish", "reset", "done"}
      /\ UNCHANGED <<start_count, total_warp, old_global_count, volume, z, host>>
  BY <1>0 DEF Arrive, Publish, Reset, BeforeReset, TypeOK, locals, history
<1>2. host = "running"
  BY <1>1 DEF EpilogueInv, KernelDone
<1>3. Passed' = Passed
  BY <1>1, SamePassed DEF Reached
<1>4. \A v \in Warps : pc'[v] \notin {"scan", "store"} =>
        pc[v] \notin {"scan", "store"} /\ z'[v] = z[v]
  BY <1>1
<1>5. CASE Arrive(w)
  <2>1. Arrived' = Blocks => \E b \in Blocks : pc'[Lead(b)] = "publish"
    BY <1>5, LastPublishes
  <2>2. BeforeReset'
    <3>1. CASE Arrived' = Blocks
      BY <2>1, <3>1 DEF BeforeReset
    <3>2. CASE Arrived' # Blocks
      BY <3>2 DEF Arrived, BeforeReset
    <3> QED
      BY <3>1, <3>2
  <2>3. CountInv'
    BY <1>1, <1>2, <1>3, <1>4, <1>5, <2>2, CountFrame DEF Arrive, ExactInv
  <2> QED
    BY <2>1, <2>3 DEF ExactInv, OutputInv
<1>6. CASE Publish(w)
  <2>1. pc'[w] = "reset"
    BY <1>0, <1>6 DEF Publish, TypeOK
  <2>2. BeforeReset'
    BY <1>0, <2>1 DEF BeforeReset
  <2>3. CountInv'
    BY <1>1, <1>2, <1>3, <1>4, <1>6, <2>2, CountFrame DEF Publish, ExactInv
  <2>4. Arrived = Blocks
    BY <1>0, <1>6 DEF Publish, EpilogueInv
  <2>5. output_count' = Minimum(Size, Cardinality(SurfaceEdges(volume)))
    BY <1>1, <1>2, <1>6, <2>4, AllPassed DEF Publish, ExactInv
  <2> QED
    BY <1>1, <2>3, <2>5 DEF ExactInv, OutputInv
<1>7. CASE Reset(w)
  <2>1. \A b \in Blocks : b # w[1] => pc[Lead(b)] = "done"
    BY <1>0, <1>7 DEF Reset, EpilogueInv
  <2>2. ~BeforeReset'
    <3>1. pc'[w] = "done"
      BY <1>0, <1>7 DEF Reset, TypeOK
    <3> QED
      BY <1>0, <1>1, <2>1, <3>1 DEF BeforeReset
  <2>3. global_count' = 0 /\ output_count' = output_count
    BY <1>7 DEF Reset
  <2>4. CountInv'
    <3>1. FullWarps' = FullWarps
      BY <1>1 DEF FullWarps
    <3> QED
      BY <1>1, <1>2, <1>4, <2>2, <2>3, <3>1 DEF ExactInv, CountInv
  <2>5. Arrived = Blocks /\ \A b \in Blocks : pc[Lead(b)] # "publish"
    BY <1>0, <1>7, <2>1 DEF Reset, EpilogueInv
  <2>6. output_count' = Minimum(Size, Cardinality(SurfaceEdges(volume')))
    BY <1>1, <1>2, <2>3, <2>5 DEF ExactInv, OutputInv
  <2> QED
    BY <2>4, <2>6 DEF ExactInv, OutputInv
<1> QED
  BY <1>5, <1>6, <1>7

LEMMA ExactStep ==
  TypeInv /\ EpilogueInv /\ ExactInv /\ Orderly /\ [Next]_vars => ExactInv'
<1> SUFFICES ASSUME TypeInv, EpilogueInv, ExactInv, Orderly, [Next]_vars
             PROVE  ExactInv'
  OBVIOUS
<1>1. CASE Return \/ Fail
  <2>1. /\ host' # "running" /\ Passed' = Passed /\ BeforeReset' = BeforeReset
        /\ UNCHANGED <<global_count, start_count, total_warp, old_global_count>>
    BY <1>1 DEF Return, Fail, counters, locals, history, Passed, Reached, BeforeReset
  <2> QED
    BY <2>1 DEF ExactInv, CountInv, OutputInv
<1>2. CASE UNCHANGED vars
  <2>1. Passed' = Passed /\ FullWarps' = FullWarps /\ BeforeReset' = BeforeReset
        /\ Arrived' = Arrived
    BY <1>2 DEF vars, counters, locals, history, Passed, Reached, FullWarps,
                BeforeReset, Arrived
  <2>2. UNCHANGED <<host, volume, global_count, output_count, pc, z, total_warp,
                    old_global_count, start_count>>
    BY <1>2 DEF vars, counters, locals, history
  <2> QED
    BY <2>1, <2>2 DEF ExactInv, CountInv, OutputInv
<1> QED
  BY <1>1, <1>2, ExactAtLaunch, ExactInLoop, ExactInEpilogue DEF Next, WarpStep

LEMMA StepIsOfFetch ==
  ASSUME TypeOK, StoredInv, PublishedInv, ExactInv, [Next]_vars
  PROVE  [Fetch!Next]_Fetch!vars
<1>1. CASE Launch
  BY <1>1 DEF Launch, Fetch!Next, Fetch!Request
<1>2. CASE Return
  <2> DEFINE E == SurfaceEdges(volume)
  <2>1. /\ cloud' = [i \in 0 .. output_count - 1 |-> buffer[i]]
        /\ \A i \in 0 .. output_count - 1 : cloud'[i] \in E
        /\ \A i, j \in 0 .. output_count - 1 : cloud'[i] = cloud'[j] => i = j
    BY <1>2, ReturnedCloud DEF ExactInv, CountInv
  <2>2. output_count = Minimum(Size, Cardinality(E))
    <3>1. Arrived = Blocks /\ \A b \in Blocks : pc[Lead(b)] # "publish"
      BY <1>2, LeadInVolume DEF Return, KernelDone, Arrived
    <3> QED
      BY <1>2, <3>1 DEF Return, ExactInv, OutputInv
  <2>3. output_count = Fetch!Minimum(Size, Cardinality(E))
    BY <2>2 DEF Minimum, Fetch!Minimum
  <2>4. DOMAIN cloud' = 0 .. Fetch!Minimum(Size, Cardinality(E)) - 1
    BY <2>1, <2>3
  <2>5. Fetch!Lists(cloud', E)
    <3>1. Fetch!Cardinality(E) = Cardinality(E)
      BY Zenon DEF Fetch!Cardinality, Cardinality
    <3> QED
      BY <2>1, <2>3, <2>4, <3>1 DEF Fetch!Lists
  <2>6. [v \in Volumes |-> SurfaceEdges(v)][volume] = E
    BY DEF TypeOK
  <2>7. host # "idle" /\ ~(host' # "idle") /\ volume' = volume
    BY <1>2 DEF Return
  <2> HIDE DEF E
  <2> QED
    BY <2>5, <2>6, <2>7 DEF Fetch!Next, Fetch!Reply
<1>3. CASE Fail
  BY <1>3 DEF Fail, Fetch!vars
<1>4. ASSUME NEW w \in Warps, WarpStep(w) PROVE UNCHANGED Fetch!vars
  BY <1>4 DEF WarpStep, SkipLayer, Claim, Store, LeaveLoop, Arrive, Publish, Reset,
              Fetch!vars
<1>5. CASE UNCHANGED vars
  BY <1>5 DEF vars, Fetch!vars
<1> QED
  BY <1>1, <1>2, <1>3, <1>4, <1>5 DEF Next

\* Whatever the grid: a fetch yields each point of the surface once, or as many
\* as the buffer holds, unless thread 0 of a block counts it as done while a
\* warp of it has not left its loop.
THEOREM ImplementsFetch == Spec /\ []Orderly => FetchSpec
<1>1. Init => ExactInv /\ Fetch!Init
  <2> SUFFICES ASSUME Init PROVE ExactInv /\ Fetch!Init
    OBVIOUS
  <2>1. ~BeforeReset
    BY LeadInVolume DEF Init, BeforeReset
  <2> QED
    BY <2>1 DEF Init, ExactInv, CountInv, OutputInv, Fetch!Init
<1>2. TypeOK /\ (StoredInv /\ PublishedInv) /\ ExactInv /\ [Next]_vars =>
        [Fetch!Next]_Fetch!vars
  BY StepIsOfFetch
<1> QED
  BY <1>1, <1>2, ExactStep, TypeInvariant, TypeCorrect, EpilogueInvariant,
     StoredInvariant, PTL DEF Spec, FetchSpec, Fetch!Spec

\* In blocks of one warp thread 0 is of the warp it waits for.
THEOREM OneWarpBlocksAreExact ==
  ASSUME CtaRows = 1
  PROVE  Spec => FetchSpec
<1>1. Orderly
  BY DEF Orderly, Arrived, Rows, Lead
<1> QED
  BY <1>1, ImplementsFetch, PTL
=============================================================================
