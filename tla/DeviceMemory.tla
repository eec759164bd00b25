----------------------------- MODULE DeviceMemory -----------------------------
(***************************************************************************)
(* DeviceMemory and DeviceMemory2D, the handles of buffers in GPU memory   *)
(* behind every DeviceArray.  A handle made by create() owns its buffer    *)
(* together with its copies, and counts them; a handle made from a pointer *)
(* is a view that owns nothing.  The two classes differ only in what a     *)
(* size is: a number of bytes, or rows and bytes to a row.                 *)
(*                                                                         *)
(* Handles are variables of the program, used by one thread; one that is   *)
(* destroyed, or not yet constructed, is the same as an empty one.         *)
(* A cudaMalloc that fails ends the program.                               *)
(***************************************************************************)
EXTENDS Naturals, FiniteSets

CONSTANTS
  Handles,
  Buffers,      (* device addresses, used again when they are free         *)
  Sizes,
  Zero,         (* the size of an empty handle                             *)
  Allocatable,  (* the sizes create() allocates: in the code, above 0      *)
  Within,       (* pairs of sizes, the first of which fits in the second   *)
  Null

ASSUME SizesAssumption ==
  /\ IsFiniteSet(Handles)
  /\ Zero \in Sizes /\ Allocatable \subseteq Sizes \ {Zero}
  /\ Null \notin Handles \cup Buffers

VARIABLES
  handle,       (* what each handle holds: data_, sizeBytes_ and refcount_ *)
  heap,         (* the size of the buffer at an address, Zero if free      *)
  count         (* *refcount_ of the buffer at an address                  *)

vars == <<handle, heap, count>>

\* A handle's counter is named by the buffer it was made with.
Handle == [data : Buffers \cup {Null}, size : Sizes,
           refcount : Buffers \cup {Null}]
Empty  == [data |-> Null, size |-> Zero, refcount |-> Null]

Ref(h)     == handle[h].refcount
Counted(h) == Ref(h) # Null

Init ==
  /\ handle = [h \in Handles |-> Empty]
  /\ heap = [b \in Buffers |-> Zero]
  /\ count = [b \in Buffers |-> 0]

-----------------------------------------------------------------------------
(* release() and create().                                                 *)

AddedNever(g) == count  \* mutant: a copy is not counted

\* The counters after g has been copied, and the counters and the heap when
\* h is released and the counters are c.
Added(g)   == IF Counted(g) THEN [count EXCEPT ![Ref(g)] = @ + 1] ELSE count
Dropped(c, h) == IF Counted(h) THEN [c EXCEPT ![Ref(h)] = @ - 1] ELSE c

FreedNew(c, h) ==  \* mutant: the new value of the counter is compared with 1
  IF Counted(h) /\ c[Ref(h)] - 1 = 1 THEN [heap EXCEPT ![Ref(h)] = Zero]
  ELSE heap

Freed(c, h) ==
  IF Counted(h) /\ c[Ref(h)] = 1 THEN [heap EXCEPT ![Ref(h)] = Zero] ELSE heap

release(h) ==
  /\ handle' = [handle EXCEPT ![h] = Empty]
  /\ count' = Dropped(count, h)
  /\ heap' = Freed(count, h)

\* A size the handle has already, or that is not above 0, changes nothing.
create(h, n) ==
  \/ /\ n = handle[h].size \/ n \notin Allocatable
     /\ UNCHANGED vars
  \/ /\ n # handle[h].size /\ n \in Allocatable
     /\ \E b \in Buffers :
          /\ Freed(count, h)[b] = Zero
          /\ handle' = [handle EXCEPT
                          ![h] = [data |-> b, size |-> n, refcount |-> b]]
          /\ heap' = [Freed(count, h) EXCEPT ![b] = n]
          /\ count' = [Dropped(count, h) EXCEPT ![b] = 1]

-----------------------------------------------------------------------------
(* What a program does with handles.                                       *)

\* create(), a constructor with a size, and upload(), which begins so.
Create(h, n) == create(h, n)

\* release() and the destructor.
Release(h) == release(h)

\* The constructor from a pointer, into the buffer of another handle.
View(h, g, n) ==
  /\ handle[h] = Empty /\ handle[g].data # Null
  /\ <<n, handle[g].size>> \in Within
  /\ handle' = [handle EXCEPT
                  ![h] = [data |-> handle[g].data, size |-> n, refcount |-> Null]]
  /\ UNCHANGED <<heap, count>>

\* Assignment; and the copy constructor, where h is empty.
Assign(h, g) ==
  /\ h # g
  /\ count' = Dropped(Added(g), h)
  /\ heap' = Freed(Added(g), h)
  /\ handle' = [handle EXCEPT ![h] = handle[g]]

Swap(h, g) ==
  /\ handle' = [handle EXCEPT ![h] = handle[g], ![g] = handle[h]]
  /\ UNCHANGED <<heap, count>>

\* copyTo() from g to h.
CopyTo(h, g) ==
  \/ handle[g].data = Null /\ release(h)
  \/ handle[g].data # Null /\ create(h, handle[g].size)

Next ==
  \E h \in Handles :
    \/ Release(h)
    \/ \E n \in Sizes : Create(h, n)
    \/ \E g \in Handles :
         \/ Assign(h, g) \/ Swap(h, g) \/ CopyTo(h, g)
         \/ \E n \in Sizes : View(h, g, n)

Spec == Init /\ [][Next]_vars

-----------------------------------------------------------------------------
(* Properties.                                                             *)

\* Type correctness.
TypeOK ==
  /\ handle \in [Handles -> Handle]
  /\ heap \in [Buffers -> Allocatable \cup {Zero}]
  /\ count \in [Buffers -> Nat]

Owners(b) == {h \in Handles : Ref(h) = b}

\* The counter of a buffer is the number of handles that own it.
CountsOwners == \A b \in Buffers : count[b] = Cardinality(Owners(b))

\* A buffer is allocated as long as a handle owns it and no longer: none
\* leaks, none is freed twice or while it is owned; and its owners know its
\* address and its size.
Ownership ==
  /\ \A b \in Buffers : heap[b] # Zero <=> Owners(b) # {}
  /\ \A h \in Handles :
       Counted(h) => handle[h].data = Ref(h) /\ handle[h].size = heap[Ref(h)]
=============================================================================
