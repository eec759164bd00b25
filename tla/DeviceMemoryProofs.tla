-------------------------- MODULE DeviceMemoryProofs --------------------------
(***************************************************************************)
(* For every set of handles, buffers and sizes, of bytes as well as of     *)
(* rows and columns: counters count owners, and a buffer lives exactly as  *)
(* long as it is owned.                                                    *)
(***************************************************************************)
EXTENDS DeviceMemory, FiniteSetTheorems, TLAPS

\* The three invariants together are inductive.
MemoryInv == TypeOK /\ CountsOwners /\ Ownership

-----------------------------------------------------------------------------
(* Owners.                                                                 *)

\* The owners of a buffer are a finite set of handles.
LEMMA OwnersFinite ==
  ASSUME NEW b PROVE IsFiniteSet(Owners(b)) /\ Cardinality(Owners(b)) \in Nat
<1>1. Owners(b) \subseteq Handles
  BY DEF Owners
<1>2. IsFiniteSet(Owners(b))
  BY <1>1, FS_Subset, SizesAssumption DEF SizesAssumption
<1> QED
  BY <1>2, FS_CardinalityType

\* What one handle more or less does to the number of owners.
LEMMA OneMoreOneLess ==
  ASSUME NEW b, NEW h
  PROVE  LET S == Owners(b) IN
         /\ IsFiniteSet(S \ {h}) /\ IsFiniteSet(S \cup {h})
         /\ Cardinality(S \ {h}) =
              IF h \in S THEN Cardinality(S) - 1 ELSE Cardinality(S)
         /\ Cardinality(S \cup {h}) =
              IF h \in S THEN Cardinality(S) ELSE Cardinality(S) + 1
         /\ Cardinality(S) = 0 <=> S = {}
         /\ Cardinality(S \ {h}) = 0 <=> S \ {h} = {}
<1>1. IsFiniteSet(Owners(b))
  BY OwnersFinite
<1>2. IsFiniteSet(Owners(b) \ {h})
  BY <1>1, FS_RemoveElement
<1> QED
  BY <1>1, <1>2, FS_AddElement, FS_RemoveElement, FS_EmptySet

\* When one handle changes, only it can start or stop being an owner.
LEMMA OwnersAfter ==
  ASSUME TypeOK, NEW h \in Handles, NEW v \in Handle,
         handle' = [handle EXCEPT ![h] = v], NEW b \in Buffers
  PROVE  Owners(b)' = IF v.refcount = b THEN Owners(b) \cup {h}
                      ELSE Owners(b) \ {h}
BY DEF TypeOK, Owners, Ref, Handle

\* Two different counters can be counted up and down in either order.
LEMMA UpAndDown ==
  ASSUME NEW c \in [Buffers -> Nat], NEW r \in Buffers, NEW s \in Buffers,
         r # s
  PROVE  [[c EXCEPT ![r] = @ + 1] EXCEPT ![s] = @ - 1] =
         [[c EXCEPT ![s] = @ - 1] EXCEPT ![r] = @ + 1]
OBVIOUS

-----------------------------------------------------------------------------
(* Letting go of a handle.                                                 *)

\* Releasing h leaves counters that count the other owners, and a heap where
\* a buffer is allocated exactly if it has another owner.
LEMMA Releases ==
  ASSUME MemoryInv, NEW h \in Handles, NEW b \in Buffers
  PROVE  /\ Dropped(count, h) \in [Buffers -> Nat]
         /\ Freed(count, h) \in [Buffers -> Allocatable \cup {Zero}]
         /\ Dropped(count, h)[b] = Cardinality(Owners(b) \ {h})
         /\ Freed(count, h)[b] # Zero <=> Owners(b) \ {h} # {}
         /\ Freed(count, h)[b] # Zero => Freed(count, h)[b] = heap[b]
<1> USE DEF MemoryInv, TypeOK, Handle
<1>1. /\ \A c \in Buffers : Cardinality(Owners(c)) \in Nat
      /\ \A c \in Buffers : Cardinality(Owners(c)) = 0 <=> Owners(c) = {}
  BY OwnersFinite, OneMoreOneLess
<1>2. CASE ~Counted(h)
  <2>1. h \notin Owners(b) /\ Owners(b) \ {h} = Owners(b)
    BY <1>2, SizesAssumption DEF Counted, Ref, Owners, SizesAssumption
  <2>2. Dropped(count, h) = count /\ Freed(count, h) = heap
    BY <1>2 DEF Dropped, Freed
  <2> QED
    BY <2>1, <2>2 DEF CountsOwners, Ownership
<1>3. CASE Counted(h)
  <2> DEFINE r == Ref(h)
  <2>1. r \in Buffers /\ h \in Owners(r)
    BY <1>3 DEF Counted, Ref, Owners
  <2>2. count[r] \in Nat /\ count[r] # 0
    BY <2>1, <1>1 DEF CountsOwners
  <2>3. Dropped(count, h) = [count EXCEPT ![r] = @ - 1]
    BY <1>3 DEF Dropped
  <2>4. Freed(count, h) = IF count[r] = 1 THEN [heap EXCEPT ![r] = Zero]
                          ELSE heap
    BY <1>3 DEF Freed
  <2> HIDE DEF r
  <2>5. b # r => h \notin Owners(b) /\ Owners(b) \ {h} = Owners(b)
    BY DEF Owners, r
  <2>6. Cardinality(Owners(r) \ {h}) = count[r] - 1
    BY <2>1, OneMoreOneLess DEF CountsOwners
  <2>7. Owners(r) \ {h} = {} <=> count[r] = 1
    <3>1. Cardinality(Owners(r) \ {h}) = 0 <=> Owners(r) \ {h} = {}
      BY OneMoreOneLess
    <3> QED
      BY <2>2, <2>6, <3>1
  <2>8. Dropped(count, h) \in [Buffers -> Nat]
    BY <2>1, <2>2, <2>3
  <2>9. heap[r] # Zero
    BY <2>1 DEF Ownership
  <2>10. CASE b = r
    BY <2>1, <2>2, <2>3, <2>4, <2>6, <2>7, <2>8, <2>9, <2>10
  <2>11. CASE b # r
    BY <2>1, <2>2, <2>3, <2>4, <2>5, <2>8, <2>11 DEF CountsOwners, Ownership
  <2> QED
    BY <2>10, <2>11
<1> QED
  BY <1>2, <1>3

\* What release() makes of the owners, and what create() and an assignment
\* from a handle of another buffer do on top of it.
LEMMA LetsGo ==
  ASSUME MemoryInv, NEW h \in Handles, NEW v \in Handle,
         handle' = [handle EXCEPT ![h] = v],
         \/ /\ v.refcount = Null
            /\ count' = Dropped(count, h) /\ heap' = Freed(count, h)
         \/ /\ v.refcount \in Buffers
            /\ Freed(count, h)[v.refcount] = Zero
            /\ v.data = v.refcount
            /\ v.size \in Allocatable
            /\ heap' = [Freed(count, h) EXCEPT ![v.refcount] = v.size]
            /\ count' = [Dropped(count, h) EXCEPT ![v.refcount] = 1]
         \/ /\ v.refcount \in Buffers /\ v.refcount # Ref(h)
            /\ v.data = v.refcount
            /\ v.size = heap[v.refcount]
            /\ Owners(v.refcount) # {}
            /\ heap' = Freed(count, h)
            /\ count' = [Dropped(count, h) EXCEPT ![v.refcount] = @ + 1]
  PROVE  MemoryInv'
<1> USE SizesAssumption DEF SizesAssumption
<1>1. TypeOK /\ CountsOwners /\ Ownership
  BY DEF MemoryInv
<1>2. \A b \in Buffers :
        /\ Dropped(count, h) \in [Buffers -> Nat]
        /\ Freed(count, h) \in [Buffers -> Allocatable \cup {Zero}]
        /\ Dropped(count, h)[b] = Cardinality(Owners(b) \ {h})
        /\ Freed(count, h)[b] # Zero <=> Owners(b) \ {h} # {}
        /\ Freed(count, h)[b] # Zero => Freed(count, h)[b] = heap[b]
  BY Releases
<1>3. \A b \in Buffers : Owners(b)' = IF v.refcount = b THEN Owners(b) \cup {h}
                                      ELSE Owners(b) \ {h}
  BY <1>1, OwnersAfter
<1>4. TypeOK'
  <2>1. handle' \in [Handles -> Handle]
    BY <1>1 DEF TypeOK
  <2>2. CASE Buffers = {}
    BY <1>1, <2>1, <2>2 DEF TypeOK, Dropped, Freed, Counted, Ref, Handle
  <2>3. CASE Buffers # {}
    <3>1. /\ Dropped(count, h) \in [Buffers -> Nat]
          /\ Freed(count, h) \in [Buffers -> Allocatable \cup {Zero}]
      BY <1>2, <2>3
    <3>2. /\ count' \in [Buffers -> Nat]
          /\ heap' \in [Buffers -> Allocatable \cup {Zero}]
      BY <3>1
    <3> QED
      BY <2>1, <3>2 DEF TypeOK
  <2> QED
    BY <2>2, <2>3
<1>5. \A b \in Buffers : /\ count'[b] = Cardinality(Owners(b)')
                         /\ heap'[b] # Zero <=> Owners(b)' # {}
  <2> TAKE b \in Buffers
  <2>1. CASE v.refcount = b /\ Freed(count, h)[b] = Zero
    <3>1. Owners(b) \ {h} = {} /\ Owners(b)' = {h}
      BY <1>2, <1>3, <2>1
    <3>2. b = Ref(h) \/ Owners(b) = {}
      BY <3>1 DEF Owners
    <3>3. count'[b] = 1 /\ heap'[b] # Zero
      BY <1>2, <2>1, <3>2
    <3> QED
      BY <3>1, <3>3, FS_Singleton
  <2>3. CASE v.refcount = b /\ Freed(count, h)[b] # Zero
    <3>1. /\ b # Ref(h) /\ heap' = Freed(count, h)
          /\ count' = [Dropped(count, h) EXCEPT ![b] = @ + 1]
      BY <2>3
    <3>2. h \notin Owners(b) /\ Owners(b) \ {h} = Owners(b)
      BY <3>1 DEF Owners
    <3>3. Owners(b)' = Owners(b) \cup {h}
      BY <1>3, <2>3
    <3>4. count'[b] = Cardinality(Owners(b)) + 1
      BY <1>2, <3>1, <3>2
    <3> QED
      BY <2>3, <3>1, <3>2, <3>3, <3>4, OneMoreOneLess
  <2>2. CASE v.refcount # b
    <3>1. Owners(b)' = Owners(b) \ {h}
      BY <1>3, <2>2
    <3>2. count'[b] = Dropped(count, h)[b] /\ heap'[b] = Freed(count, h)[b]
      BY <1>2, <2>2
    <3> QED
      BY <1>2, <3>1, <3>2
  <2> QED
    BY <2>1, <2>2, <2>3
<1>6. ASSUME NEW g \in Handles, Counted(g)'
      PROVE  handle'[g].data = Ref(g)' /\ handle'[g].size = heap'[Ref(g)']
  <2>1. CASE g = h
    <3>1. handle'[g] = v
      BY <1>1, <2>1 DEF TypeOK
    <3>2. v.refcount # Null
      BY <1>6, <3>1 DEF Counted, Ref
    <3>3. v.data = v.refcount /\ v.refcount \in Buffers
      BY <3>2
    <3>4. v.size = heap'[v.refcount]
      <4>1. CASE v.refcount # Ref(h) /\ Owners(v.refcount) # {}
                 /\ v.size = heap[v.refcount] /\ heap' = Freed(count, h)
        <5>1. Owners(v.refcount) \ {h} # {}
          BY <4>1 DEF Owners
        <5> QED
          BY <1>2, <3>3, <4>1, <5>1
      <4>2. CASE heap' = [Freed(count, h) EXCEPT ![v.refcount] = v.size]
        BY <1>2, <3>3, <4>2
      <4> QED
        BY <3>2, <4>1, <4>2
    <3> QED
      BY <3>1, <3>3, <3>4 DEF Ref
  <2>2. CASE g # h
    <3>1. handle'[g] = handle[g] /\ Ref(g)' = Ref(g) /\ Counted(g)
      BY <1>1, <1>6, <2>2 DEF TypeOK, Counted, Ref
    <3>2. Ref(g) \in Buffers /\ g \in Owners(Ref(g)) \ {h}
      BY <1>1, <2>2, <3>1 DEF TypeOK, Handle, Counted, Ref, Owners
    <3>3. Freed(count, h)[Ref(g)] = heap[Ref(g)] /\ heap[Ref(g)] # Zero
      BY <1>2, <3>2
    <3>4. heap'[Ref(g)] = heap[Ref(g)]
      BY <1>2, <3>2, <3>3
    <3> QED
      BY <1>1, <3>1, <3>4 DEF Ownership
  <2> QED
    BY <2>1, <2>2
<1> QED
  BY <1>4, <1>5, <1>6 DEF MemoryInv, CountsOwners, Ownership

-----------------------------------------------------------------------------
(* One lemma for each operation.                                           *)

\* release() keeps the invariant, and so does what else begins with it.
LEMMA ReleaseKeeps ==
  ASSUME MemoryInv, NEW h \in Handles, release(h)
  PROVE  MemoryInv'
<1>1. Empty \in Handle
  BY SizesAssumption DEF SizesAssumption, Empty, Handle
<1> QED
  BY <1>1, LetsGo DEF release, Empty

\* create() keeps it: the address it gets is free once h is released.
LEMMA CreateKeeps ==
  ASSUME MemoryInv, NEW h \in Handles, NEW n \in Sizes, create(h, n)
  PROVE  MemoryInv'
<1>1. CASE UNCHANGED vars
  BY <1>1 DEF vars, MemoryInv, TypeOK, CountsOwners, Ownership, Owners,
              Counted, Ref
<1>2. ASSUME n \in Allocatable, NEW b \in Buffers,
             Freed(count, h)[b] = Zero,
             handle' = [handle EXCEPT
                          ![h] = [data |-> b, size |-> n, refcount |-> b]],
             heap' = [Freed(count, h) EXCEPT ![b] = n],
             count' = [Dropped(count, h) EXCEPT ![b] = 1]
      PROVE  MemoryInv'
  <2> DEFINE v == [data |-> b, size |-> n, refcount |-> b]
  <2>1. v \in Handle /\ v.refcount = b /\ v.data = b /\ v.size = n
    BY DEF Handle
  <2> HIDE DEF v
  <2>2. handle' = [handle EXCEPT ![h] = v]
    BY <1>2 DEF v
  <2> QED
    BY <1>2, <2>1, <2>2, LetsGo
<1> QED
  BY <1>1, <1>2 DEF create

\* Constructing a view keeps it: a view owns nothing.
LEMMA ViewKeeps ==
  ASSUME MemoryInv, NEW h \in Handles, NEW g \in Handles, NEW n \in Sizes,
         View(h, g, n)
  PROVE  MemoryInv'
<1> USE SizesAssumption DEF SizesAssumption
<1> DEFINE v == [data |-> handle[g].data, size |-> n, refcount |-> Null]
<1>1. v \in Handle /\ v.refcount = Null
  BY DEF MemoryInv, TypeOK, Handle
<1>2. ~Counted(h)
  BY DEF View, Empty, Counted, Ref
<1>3. Dropped(count, h) = count /\ Freed(count, h) = heap
  BY <1>2 DEF Dropped, Freed
<1>4. /\ handle' = [handle EXCEPT ![h] = v]
      /\ count' = count /\ heap' = heap
  BY DEF View
<1> HIDE DEF v
<1> QED
  BY <1>1, <1>3, <1>4, LetsGo

\* Assignment keeps it, also between handles of one buffer, which is why the
\* copy is counted before the old buffer is released.
LEMMA AssignKeeps ==
  ASSUME MemoryInv, NEW h \in Handles, NEW g \in Handles, Assign(h, g)
  PROVE  MemoryInv'
<1> USE SizesAssumption DEF SizesAssumption
<1>1. TypeOK /\ CountsOwners /\ Ownership /\ h # g /\ handle[g] \in Handle
  BY DEF MemoryInv, TypeOK, Assign
<1>2. CASE ~Counted(g)
  <2>1. Added(g) = count /\ handle[g].refcount = Null
    BY <1>2 DEF Added, Counted, Ref
  <2> QED
    BY <1>1, <2>1, LetsGo DEF Assign
<1>3. ASSUME Counted(g)
      PROVE  /\ Ref(g) \in Buffers /\ g \in Owners(Ref(g))
             /\ count[Ref(g)] \in Nat \ {0}
             /\ Added(g) = [count EXCEPT ![Ref(g)] = @ + 1]
  <2>1. Ref(g) \in Buffers /\ g \in Owners(Ref(g))
    BY <1>1, <1>3 DEF Counted, Ref, Owners, Handle
  <2>2. Cardinality(Owners(Ref(g))) # 0
    BY <2>1, OneMoreOneLess
  <2> QED
    BY <1>1, <1>3, <2>1, <2>2 DEF CountsOwners, TypeOK, Added
<1>4. CASE Counted(g) /\ Ref(g) = Ref(h)
  <2>1. Counted(h)
    BY <1>4 DEF Counted
  <2>2. count' = count
    BY <1>1, <1>3, <1>4, <2>1 DEF Assign, Dropped, TypeOK
  <2>3. heap' = heap
    BY <1>1, <1>3, <1>4, <2>1 DEF Assign, Freed, TypeOK
  <2>4. handle[g] = handle[h]
    BY <1>1, <1>4, <2>1 DEF Ownership, TypeOK, Handle, Ref
  <2>5. handle' = handle
    BY <1>1, <2>4 DEF Assign, TypeOK
  <2> QED
    BY <1>1, <2>2, <2>3, <2>5
    DEF MemoryInv, TypeOK, CountsOwners, Ownership, Owners, Counted, Ref
<1>5. CASE Counted(g) /\ Ref(g) # Ref(h)
  <2> DEFINE v == handle[g]
  <2>1. v.refcount = Ref(g) /\ v.data = Ref(g) /\ v.size = heap[Ref(g)]
    BY <1>1, <1>5 DEF Ownership, Ref
  <2>2. count' = [Dropped(count, h) EXCEPT ![Ref(g)] = @ + 1]
    <3>1. CASE ~Counted(h)
      BY <1>3, <1>5, <3>1 DEF Assign, Dropped
    <3>2. CASE Counted(h)
      <4>1. Ref(h) \in Buffers
        BY <1>1, <3>2 DEF TypeOK, Handle, Counted, Ref
      <4>2. count' = [Added(g) EXCEPT ![Ref(h)] = @ - 1]
        BY <3>2 DEF Assign, Dropped
      <4>3. Dropped(count, h) = [count EXCEPT ![Ref(h)] = @ - 1]
        BY <3>2 DEF Dropped
      <4>4. Added(g) = [count EXCEPT ![Ref(g)] = @ + 1]
            /\ count \in [Buffers -> Nat] /\ Ref(g) \in Buffers
        BY <1>1, <1>3, <1>5 DEF TypeOK
      <4>5. [[count EXCEPT ![Ref(g)] = @ + 1] EXCEPT ![Ref(h)] = @ - 1] =
            [[count EXCEPT ![Ref(h)] = @ - 1] EXCEPT ![Ref(g)] = @ + 1]
        BY <1>5, <4>1, <4>4, UpAndDown
      <4> QED
        BY <4>2, <4>3, <4>4, <4>5
    <3> QED
      BY <3>1, <3>2
  <2>3. heap' = Freed(count, h)
    <3>1. CASE ~Counted(h)
      BY <3>1 DEF Assign, Freed
    <3>2. CASE Counted(h)
      <4>1. Ref(h) \in Buffers
        BY <1>1, <3>2 DEF TypeOK, Handle, Counted, Ref
      <4> QED
        BY <1>1, <1>3, <1>5, <3>2, <4>1 DEF Assign, Freed, TypeOK
    <3> QED
      BY <3>1, <3>2
  <2>4. handle' = [handle EXCEPT ![h] = v]
    BY DEF Assign
  <2>5. v \in Handle /\ v.refcount \in Buffers /\ v.refcount # Ref(h)
    BY <1>1, <1>3, <1>5, <2>1
  <2>6. v.data = v.refcount /\ v.size = heap[v.refcount]
        /\ Owners(v.refcount) # {}
    BY <1>3, <1>5, <2>1
  <2>7. count' = [Dropped(count, h) EXCEPT ![v.refcount] = @ + 1]
    BY <2>1, <2>2
  <2> HIDE DEF v
  <2> QED
    BY <2>3, <2>4, <2>5, <2>6, <2>7, LetsGo
<1> QED
  BY <1>2, <1>4, <1>5

\* Swapping keeps it: the owners of a buffer change names, not number.
LEMMA SwapKeeps ==
  ASSUME MemoryInv, NEW h \in Handles, NEW g \in Handles, Swap(h, g)
  PROVE  MemoryInv'
<1> USE DEF MemoryInv
<1>1. /\ handle' = [handle EXCEPT ![h] = handle[g], ![g] = handle[h]]
      /\ heap' = heap /\ count' = count /\ TypeOK
  BY DEF Swap
<1>2. TypeOK'
  BY <1>1, SizesAssumption DEF TypeOK, Swap, SizesAssumption
<1>3. \A k \in Handles : handle'[k] = IF k = h THEN handle[g]
                                      ELSE IF k = g THEN handle[h]
                                      ELSE handle[k]
  BY <1>1 DEF TypeOK
<1>4. ASSUME NEW b \in Buffers
      PROVE  /\ Cardinality(Owners(b)') = Cardinality(Owners(b))
             /\ Owners(b)' = {} <=> Owners(b) = {}
  <2>1. CASE Ref(h) = Ref(g)
    <3>1. Owners(b)' = Owners(b)
      BY <1>3, <2>1 DEF Owners, Ref
    <3> QED
      BY <3>1
  <2>2. CASE Ref(h) # b /\ Ref(g) # b
    <3>1. Owners(b)' = Owners(b)
      BY <1>3, <2>2 DEF Owners, Ref
    <3> QED
      BY <3>1
  <2>3. CASE Ref(h) = b /\ Ref(g) # b
    <3>1. /\ h \in Owners(b) /\ g \notin Owners(b) \ {h}
          /\ Owners(b)' = (Owners(b) \ {h}) \cup {g}
      BY <1>3, <2>3 DEF Owners, Ref
    <3>2. /\ IsFiniteSet(Owners(b)) /\ Cardinality(Owners(b)) \in Nat
          /\ IsFiniteSet(Owners(b) \ {h})
          /\ Cardinality(Owners(b) \ {h}) = Cardinality(Owners(b)) - 1
      BY <3>1, OwnersFinite, FS_RemoveElement
    <3>3. Cardinality(Owners(b)') = Cardinality(Owners(b) \ {h}) + 1
      BY <3>1, <3>2, FS_AddElement
    <3>4. Owners(b)' # {} /\ Owners(b) # {}
      BY <3>1
    <3> QED
      BY <3>2, <3>3, <3>4
  <2>4. CASE Ref(h) # b /\ Ref(g) = b
    <3>1. /\ g \in Owners(b) /\ h \notin Owners(b) \ {g}
          /\ Owners(b)' = (Owners(b) \ {g}) \cup {h}
      BY <1>3, <2>4 DEF Owners, Ref
    <3>2. /\ IsFiniteSet(Owners(b)) /\ Cardinality(Owners(b)) \in Nat
          /\ IsFiniteSet(Owners(b) \ {g})
          /\ Cardinality(Owners(b) \ {g}) = Cardinality(Owners(b)) - 1
      BY <3>1, OwnersFinite, FS_RemoveElement
    <3>3. Cardinality(Owners(b)') = Cardinality(Owners(b) \ {g}) + 1
      BY <3>1, <3>2, FS_AddElement
    <3>4. Owners(b)' # {} /\ Owners(b) # {}
      BY <3>1
    <3> QED
      BY <3>2, <3>3, <3>4
  <2> QED
    BY <2>1, <2>2, <2>3, <2>4
<1>5. Ownership'
  <2>1. \A b \in Buffers : heap'[b] # Zero <=> Owners(b)' # {}
    BY <1>1, <1>4 DEF Ownership
  <2>2. ASSUME NEW k \in Handles, Counted(k)'
        PROVE  handle'[k].data = Ref(k)' /\ handle'[k].size = heap'[Ref(k)']
    <3>1. PICK j \in Handles : handle'[k] = handle[j]
      BY <1>3
    <3>2. Ref(k)' = Ref(j) /\ Counted(j)
      BY <2>2, <3>1 DEF Counted, Ref
    <3> QED
      BY <1>1, <3>1, <3>2 DEF Ownership
  <2> QED
    BY <2>1, <2>2 DEF Ownership
<1> QED
  BY <1>1, <1>2, <1>4, <1>5 DEF CountsOwners

\* copyTo() is a release() or a create().
LEMMA CopyToKeeps ==
  ASSUME MemoryInv, NEW h \in Handles, NEW g \in Handles, CopyTo(h, g)
  PROVE  MemoryInv'
<1>1. handle[g].size \in Sizes
  BY DEF MemoryInv, TypeOK, Handle
<1> QED
  BY <1>1, ReleaseKeeps, CreateKeeps DEF CopyTo

-----------------------------------------------------------------------------
(* The theorems.                                                           *)

\* The invariant holds throughout.
THEOREM MemoryInvariant == Spec => []MemoryInv
<1>1. Init => MemoryInv
  <2> SUFFICES ASSUME Init PROVE MemoryInv
    OBVIOUS
  <2>1. TypeOK
    BY SizesAssumption
    DEF SizesAssumption, Init, TypeOK, Handle, Empty
  <2>2. \A h \in Handles : Ref(h) = Null
    BY DEF Init, Ref, Empty
  <2>3. \A b \in Buffers : Owners(b) = {}
    BY <2>2, SizesAssumption DEF SizesAssumption, Owners
  <2>4. CountsOwners
    BY <2>3, FS_EmptySet DEF Init, CountsOwners
  <2>5. Ownership
    BY <2>2, <2>3 DEF Init, Ownership, Counted
  <2> QED
    BY <2>1, <2>4, <2>5 DEF MemoryInv
<1>2. MemoryInv /\ [Next]_vars => MemoryInv'
  <2> SUFFICES ASSUME MemoryInv, [Next]_vars PROVE MemoryInv'
    OBVIOUS
  <2>1. ASSUME NEW h \in Handles, Release(h) PROVE MemoryInv'
    BY <2>1, ReleaseKeeps DEF Release
  <2>2. ASSUME NEW h \in Handles, NEW n \in Sizes, Create(h, n)
        PROVE  MemoryInv'
    BY <2>2, CreateKeeps DEF Create
  <2>3. ASSUME NEW h \in Handles, NEW g \in Handles, Assign(h, g)
        PROVE  MemoryInv'
    BY <2>3, AssignKeeps
  <2>4. ASSUME NEW h \in Handles, NEW g \in Handles, Swap(h, g)
        PROVE  MemoryInv'
    BY <2>4, SwapKeeps
  <2>5. ASSUME NEW h \in Handles, NEW g \in Handles, CopyTo(h, g)
        PROVE  MemoryInv'
    BY <2>5, CopyToKeeps
  <2>6. ASSUME NEW h \in Handles, NEW g \in Handles, NEW n \in Sizes,
               View(h, g, n)
        PROVE  MemoryInv'
    BY <2>6, ViewKeeps
  <2>7. CASE UNCHANGED vars
    BY <2>7 DEF vars, MemoryInv, TypeOK, CountsOwners, Ownership, Owners,
                Counted, Ref
  <2> QED
    BY <2>1, <2>2, <2>3, <2>4, <2>5, <2>6, <2>7 DEF Next
<1> QED
  BY <1>1, <1>2, PTL DEF Spec

\* The state of handles and heap keeps its types.
THEOREM TypeCorrect == Spec => []TypeOK
<1>1. MemoryInv => TypeOK
  BY DEF MemoryInv
<1> QED
  BY <1>1, MemoryInvariant, PTL

\* The counter of every buffer is the number of its owners, whatever the
\* program does with its handles.
THEOREM CountersCountOwners == Spec => []CountsOwners
<1>1. MemoryInv => CountsOwners
  BY DEF MemoryInv
<1> QED
  BY <1>1, MemoryInvariant, PTL

\* No buffer leaks, is freed twice or is freed while a handle owns it.
THEOREM BuffersLiveWhileOwned == Spec => []Ownership
<1>1. MemoryInv => Ownership
  BY DEF MemoryInv
<1> QED
  BY <1>1, MemoryInvariant, PTL
=============================================================================
