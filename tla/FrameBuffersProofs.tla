-------------------------- MODULE FrameBuffersProofs --------------------------
(***************************************************************************)
(* For any number of buffers (at least three), packets of a frame, losses  *)
(* and changes of format: every buffer counts its owners, there is always  *)
(* one to go on with, and the flag of new data tells of a stable buffer.   *)
(* If the pool has memory of its own, nothing writes to what the reader    *)
(* was given, and only whole frames are published.                         *)
(***************************************************************************)
EXTENDS Integers, FrameBuffers, TLAPS

-----------------------------------------------------------------------------
(* Pools and the three that have buffers of one.                           *)

PoolStates ==
  [refs : UNION {[S -> Nat] : S \in SUBSET Nat},
   destroy : SUBSET Nat, free : SUBSET Nat, next : Nat]

\* How many of x, y and z are b.
Num(b, x, y, z) ==
  (IF x = b THEN 1 ELSE 0) + (IF y = b THEN 1 ELSE 0) + (IF z = b THEN 1 ELSE 0)

\* The owners of buffers are x, y and z, each of one or none; the buffers that
\* are not to be destroyed are the latest.
PoolOK(p, x, y, z) ==
  /\ p \in PoolStates
  /\ DOMAIN p.refs \subseteq 0 .. p.next - 1
  /\ \A c \in {x, y, z} : c \in DOMAIN p.refs \/ c = NoBuffer
  /\ \A b \in DOMAIN p.refs : p.refs[b] = Num(b, x, y, z)
  /\ p.free = {b \in DOMAIN p.refs : p.refs[b] = 0}
  /\ p.destroy \subseteq DOMAIN p.refs /\ p.free \cap p.destroy = {}
  /\ p.next >= NumBuffers
  /\ DOMAIN p.refs \ p.destroy = p.next - NumBuffers .. p.next - 1

LEMMA PoolFields ==
  ASSUME NEW p \in PoolStates
  PROVE  /\ \A b \in DOMAIN p.refs : \A n \in Nat :
              [p EXCEPT !.refs[b] = n].refs = [p.refs EXCEPT ![b] = n]
         /\ DOMAIN p.refs \subseteq Nat /\ p.refs \in [DOMAIN p.refs -> Nat]
         /\ p.destroy \subseteq Nat /\ p.free \subseteq Nat /\ p.next \in Nat
         /\ p = [refs |-> p.refs, destroy |-> p.destroy, free |-> p.free, next |-> p.next]
  BY DEF PoolStates

\* A pool put together of its parts.
Made(r, d, f, n) == [refs |-> r, destroy |-> d, free |-> f, next |-> n]

LEMMA MadeFields ==
  ASSUME NEW S \in SUBSET Nat, NEW r \in [S -> Nat],
         NEW d \in SUBSET Nat, NEW f \in SUBSET Nat, NEW n \in Nat
  PROVE  /\ Made(r, d, f, n) \in PoolStates
         /\ Made(r, d, f, n).refs = r /\ Made(r, d, f, n).destroy = d
         /\ Made(r, d, f, n).free = f /\ Made(r, d, f, n).next = n
  BY DEF Made, PoolStates

LEMMA AnyOrder ==
  ASSUME NEW p, NEW x, NEW y, NEW z, PoolOK(p, x, y, z)
  PROVE  PoolOK(p, y, x, z) /\ PoolOK(p, z, y, x)
<1>1. \A b : Num(b, x, y, z) = Num(b, y, x, z) /\ Num(b, x, y, z) = Num(b, z, y, x)
  BY DEF Num
<1> QED
  BY <1>1 DEF PoolOK

\* Without one of the owners.
LEMMA DroppedOK ==
  ASSUME NEW p, NEW x, NEW y, NEW z, PoolOK(p, x, y, z)
  PROVE  PoolOK(Dropped(p, x), NoBuffer, y, z)
<1>1. /\ DOMAIN p.refs \in SUBSET Nat /\ p.refs \in [DOMAIN p.refs -> Nat]
      /\ p.destroy \in SUBSET Nat /\ p.free \in SUBSET Nat /\ p.next \in Nat
      /\ p = Made(p.refs, p.destroy, p.free, p.next)
  BY PoolFields DEF PoolOK, Made
<1>2. CASE x = NoBuffer
  BY <1>2 DEF Dropped
<1>3. CASE x # NoBuffer
  <2>1. x \in DOMAIN p.refs /\ p.refs[x] = Num(x, x, y, z) /\ x \in Nat /\ p.refs[x] \in Nat
    BY <1>1, <1>3 DEF PoolOK
  <2>2. NoBuffer \notin DOMAIN p.refs
    BY <1>1, PoolAssumption DEF PoolAssumption
  <2>3. \A b \in DOMAIN p.refs :
          Num(b, NoBuffer, y, z) = IF b = x THEN p.refs[b] - 1 ELSE p.refs[b]
    BY <2>1, <2>2 DEF PoolOK, Num
  <2>4. CASE p.refs[x] > 1
    <3> DEFINE r == [p.refs EXCEPT ![x] = p.refs[x] - 1]
               q == Made(r, p.destroy, p.free, p.next)
    <3>1. Dropped(p, x) = q
      <4>1. Dropped(p, x) = [p EXCEPT !.refs[x] = p.refs[x] - 1]
        BY <1>3, <2>4 DEF Dropped
      <4> QED
        BY <1>1, <4>1 DEF Made
    <3>2. r \in [DOMAIN p.refs -> Nat] /\ DOMAIN r = DOMAIN p.refs
      BY <1>1, <2>1, <2>4
    <3>3. \A b \in DOMAIN p.refs : r[b] = Num(b, NoBuffer, y, z)
      BY <1>1, <2>1, <2>3, <3>2
    <3>4. {b \in DOMAIN p.refs : r[b] = 0} = {b \in DOMAIN p.refs : p.refs[b] = 0}
      BY <1>1, <2>1, <2>4
    <3> HIDE DEF r
    <3>5. /\ q \in PoolStates /\ q.refs = r /\ q.destroy = p.destroy
          /\ q.free = p.free /\ q.next = p.next
      BY <1>1, <3>2, MadeFields
    <3> HIDE DEF q
    <3> QED
      BY <3>1, <3>2, <3>3, <3>4, <3>5 DEF PoolOK
  <2>5. CASE ~(p.refs[x] > 1) /\ x \in p.destroy
    <3> DEFINE D == DOMAIN p.refs \ {x}
               r == [c \in D |-> p.refs[c]]
               d == p.destroy \ {x}
               q == Made(r, d, p.free, p.next)
    <3>1. Dropped(p, x) = q
      <4>1. Dropped(p, x) = [p EXCEPT !.refs = r, !.destroy = d]
        BY <1>3, <2>5 DEF Dropped
      <4> HIDE DEF r, d
      <4> QED
        BY <1>1, <4>1 DEF Made
    <3>2. r \in [D -> Nat] /\ DOMAIN r = D /\ D \in SUBSET Nat /\ d \in SUBSET Nat
      BY <1>1
    <3>3. p.refs[x] = 1 /\ y # x /\ z # x /\ x \notin p.free
      BY <2>1, <2>5 DEF Num, PoolOK
    <3>4. \A b \in D : r[b] = p.refs[b] /\ r[b] = Num(b, NoBuffer, y, z)
      BY <2>3
    <3>5. p.free = {b \in D : r[b] = 0}
      BY <3>3, <3>4 DEF PoolOK
    <3>6. D \ d = DOMAIN p.refs \ p.destroy
      BY <2>5
    <3>7. \A c \in {NoBuffer, y, z} : c \in D \/ c = NoBuffer
      BY <3>3 DEF PoolOK
    <3>8. d \subseteq D /\ p.free \cap d = {} /\ D \subseteq DOMAIN p.refs
      BY DEF PoolOK
    <3> HIDE DEF r, d, D
    <3>9. /\ q \in PoolStates /\ q.refs = r /\ q.destroy = d
          /\ q.free = p.free /\ q.next = p.next
      BY <1>1, <3>2, MadeFields
    <3> HIDE DEF q
    <3> QED
      BY <3>1, <3>2, <3>4, <3>5, <3>6, <3>7, <3>8, <3>9 DEF PoolOK
  <2>6. CASE ~(p.refs[x] > 1) /\ x \notin p.destroy
    <3> DEFINE r == [p.refs EXCEPT ![x] = 0]
               f == p.free \cup {x}
               q == Made(r, p.destroy, f, p.next)
    <3>1. Dropped(p, x) = q
      <4>1. Dropped(p, x) = [p EXCEPT !.refs[x] = 0, !.free = f]
        BY <1>3, <2>6 DEF Dropped
      <4> HIDE DEF f
      <4> QED
        BY <1>1, <4>1 DEF Made
    <3>2. r \in [DOMAIN p.refs -> Nat] /\ DOMAIN r = DOMAIN p.refs /\ f \in SUBSET Nat
      BY <1>1, <2>1
    <3>3. p.refs[x] = 1 /\ y # x /\ z # x
      BY <2>1, <2>6 DEF Num
    <3>4. \A b \in DOMAIN p.refs : r[b] = Num(b, NoBuffer, y, z)
      BY <1>1, <2>1, <2>3, <3>2, <3>3
    <3>5. f = {b \in DOMAIN p.refs : r[b] = 0}
      BY <1>1, <2>1, <3>2 DEF PoolOK
    <3>6. f \cap p.destroy = {}
      BY <2>6 DEF PoolOK
    <3> HIDE DEF r, f
    <3>7. /\ q \in PoolStates /\ q.refs = r /\ q.destroy = p.destroy
          /\ q.free = f /\ q.next = p.next
      BY <1>1, <3>2, MadeFields
    <3> HIDE DEF q
    <3> QED
      BY <3>1, <3>2, <3>4, <3>5, <3>6, <3>7 DEF PoolOK
  <2> QED
    BY <2>4, <2>5, <2>6
<1> QED
  BY <1>2, <1>3

\* With another owner, of a buffer that has one.
LEMMA SharedOK ==
  ASSUME NEW p, NEW x, NEW y, PoolOK(p, x, y, NoBuffer)
  PROVE  PoolOK(Shared(p, y), x, y, y)
<1>1. /\ DOMAIN p.refs \in SUBSET Nat /\ p.refs \in [DOMAIN p.refs -> Nat]
      /\ p.destroy \in SUBSET Nat /\ p.free \in SUBSET Nat /\ p.next \in Nat
      /\ p = Made(p.refs, p.destroy, p.free, p.next)
  BY PoolFields DEF PoolOK, Made
<1>2. CASE y = NoBuffer
  BY <1>2 DEF Shared
<1>3. CASE y # NoBuffer
  <2> DEFINE r == [p.refs EXCEPT ![y] = p.refs[y] + 1]
             q == Made(r, p.destroy, p.free, p.next)
  <2>1. /\ y \in DOMAIN p.refs /\ p.refs[y] = Num(y, x, y, NoBuffer) /\ p.refs[y] \in Nat
        /\ NoBuffer \notin DOMAIN p.refs
    BY <1>1, <1>3, PoolAssumption DEF PoolOK, PoolAssumption
  <2>2. Shared(p, y) = q
    <3>1. Shared(p, y) = [p EXCEPT !.refs[y] = p.refs[y] + 1]
      BY <1>3 DEF Shared
    <3> QED
      BY <1>1, <3>1 DEF Made
  <2>3. r \in [DOMAIN p.refs -> Nat] /\ DOMAIN r = DOMAIN p.refs
    BY <1>1, <2>1
  <2>4. \A b \in DOMAIN p.refs :
          Num(b, x, y, y) = IF b = y THEN p.refs[b] + 1 ELSE p.refs[b]
    BY <1>3, <2>1 DEF PoolOK, Num
  <2>5. \A b \in DOMAIN p.refs : r[b] = Num(b, x, y, y)
    BY <1>1, <2>1, <2>3, <2>4
  <2>6. p.refs[y] > 0
    BY <2>1 DEF Num
  <2>7. {b \in DOMAIN p.refs : r[b] = 0} = {b \in DOMAIN p.refs : p.refs[b] = 0}
    BY <1>1, <2>1, <2>6
  <2> HIDE DEF r
  <2>8. /\ q \in PoolStates /\ q.refs = r /\ q.destroy = p.destroy
        /\ q.free = p.free /\ q.next = p.next
    BY <1>1, <2>3, MadeFields
  <2> HIDE DEF q
  <2> QED
    BY <2>2, <2>3, <2>5, <2>7, <2>8 DEF PoolOK
<1> QED
  BY <1>2, <1>3

\* A free buffer is taken: nobody else has it.
LEMMA TakenOK ==
  ASSUME NEW p, NEW y, NEW z, PoolOK(p, NoBuffer, y, z), NEW b \in p.free
  PROVE  /\ PoolOK(Taken(p, b), b, y, z)
         /\ b \in Nat /\ b # y /\ b # z
<1>1. /\ DOMAIN p.refs \in SUBSET Nat /\ p.refs \in [DOMAIN p.refs -> Nat]
      /\ p.destroy \in SUBSET Nat /\ p.free \in SUBSET Nat /\ p.next \in Nat
      /\ p = Made(p.refs, p.destroy, p.free, p.next)
  BY PoolFields DEF PoolOK, Made
<1> DEFINE r == [p.refs EXCEPT ![b] = 1]
           f == p.free \ {b}
           q == Made(r, p.destroy, f, p.next)
<1>2. /\ b \in DOMAIN p.refs /\ p.refs[b] = 0 /\ b \in Nat /\ b # NoBuffer
      /\ NoBuffer \notin DOMAIN p.refs
  BY <1>1, PoolAssumption DEF PoolOK, PoolAssumption
<1>3. b # y /\ b # z
  BY <1>2 DEF PoolOK, Num
<1>4. Taken(p, b) = q
  <2>1. Taken(p, b) = [p EXCEPT !.refs[b] = 1, !.free = f]
    BY DEF Taken
  <2> HIDE DEF f
  <2> QED
    BY <1>1, <2>1 DEF Made
<1>5. r \in [DOMAIN p.refs -> Nat] /\ DOMAIN r = DOMAIN p.refs /\ f \in SUBSET Nat
  BY <1>1, <1>2
<1>6. \A c \in DOMAIN p.refs : Num(c, b, y, z) = IF c = b THEN 1 ELSE p.refs[c]
  BY <1>2, <1>3 DEF PoolOK, Num
<1>7. \A c \in DOMAIN p.refs : r[c] = Num(c, b, y, z)
  BY <1>1, <1>2, <1>5, <1>6
<1>8. f = {c \in DOMAIN p.refs : r[c] = 0}
  BY <1>1, <1>2 DEF PoolOK
<1>9. f \cap p.destroy = {}
  BY DEF PoolOK
<1>10. \A c \in {b, y, z} : c \in DOMAIN p.refs \/ c = NoBuffer
  BY <1>2 DEF PoolOK
<1> HIDE DEF r, f
<1>11. /\ q \in PoolStates /\ q.refs = r /\ q.destroy = p.destroy
       /\ q.free = f /\ q.next = p.next
  BY <1>1, <1>5, MadeFields
<1> HIDE DEF q
<1> QED
  BY <1>2, <1>3, <1>4, <1>5, <1>7, <1>8, <1>9, <1>10, <1>11 DEF PoolOK

\* The buffers are replaced: those of owners are to be destroyed.
LEMMA ChangedOK ==
  ASSUME NEW p, NEW x, NEW y, NEW z, PoolOK(p, x, y, z)
  PROVE  PoolOK(Changed(p), x, y, z) /\ Changed(p).next = p.next + NumBuffers
<1>1. /\ DOMAIN p.refs \in SUBSET Nat /\ p.refs \in [DOMAIN p.refs -> Nat]
      /\ p.next \in Nat /\ NumBuffers \in Nat /\ NumBuffers >= 3
  BY PoolFields, PoolAssumption DEF PoolOK, PoolAssumption
<1> DEFINE locked == {b \in DOMAIN p.refs : p.refs[b] > 0}
           F == Fresh(p.next)
           D == locked \cup F
           r == [b \in D |-> IF b \in locked THEN p.refs[b] ELSE 0]
           n == p.next + NumBuffers
           q == Made(r, locked, F, n)
<1>2. Changed(p) = q
  BY DEF Changed, Made
<1>3. F = p.next .. p.next + NumBuffers - 1 /\ F \in SUBSET Nat
  BY <1>1 DEF Fresh
<1>4. locked \in SUBSET Nat /\ locked \subseteq 0 .. p.next - 1 /\ locked \cap F = {}
  BY <1>1, <1>3 DEF PoolOK
<1>5. D \in SUBSET Nat /\ r \in [D -> Nat] /\ DOMAIN r = D /\ n \in Nat /\ n >= NumBuffers
  BY <1>1, <1>3, <1>4
<1>6. NoBuffer \notin Nat
  BY PoolAssumption DEF PoolAssumption
<1>7. \A c \in {x, y, z} : c \in locked \/ c = NoBuffer
  <2>1. \A c \in {x, y, z} : c \in DOMAIN p.refs => p.refs[c] > 0
    BY <1>1 DEF PoolOK, Num
  <2> QED
    BY <2>1 DEF PoolOK
<1>8. \A b \in F : r[b] = 0 /\ Num(b, x, y, z) = 0
  <2> TAKE b \in F
  <2>1. r[b] = 0 /\ b # NoBuffer /\ b \notin locked
    BY <1>3, <1>4, <1>6
  <2>2. x # b /\ y # b /\ z # b
    BY <1>7, <2>1
  <2> QED
    BY <2>1, <2>2 DEF Num
<1>9. \A b \in locked : r[b] = p.refs[b] /\ r[b] = Num(b, x, y, z) /\ r[b] > 0
  BY DEF PoolOK
<1>10. F = {b \in D : r[b] = 0}
  BY <1>8, <1>9
<1>11. D \subseteq 0 .. n - 1 /\ D \ locked = n - NumBuffers .. n - 1
  BY <1>1, <1>3, <1>4
<1>12. locked \subseteq D /\ F \cap locked = {}
  BY <1>4
<1>13. \A b \in D : r[b] = Num(b, x, y, z)
  BY <1>8, <1>9
<1>14. \A c \in {x, y, z} : c \in D \/ c = NoBuffer
  BY <1>7
<1>15. /\ D \in SUBSET Nat /\ r \in [D -> Nat] /\ locked \in SUBSET Nat
       /\ F \in SUBSET Nat /\ n \in Nat
  BY <1>3, <1>4, <1>5
<1> HIDE DEF r, D, F, locked, n
<1>16. /\ q \in PoolStates /\ q.refs = r /\ q.destroy = locked /\ q.free = F /\ q.next = n
  BY <1>15, MadeFields
<1> HIDE DEF q
<1> QED
  BY <1>2, <1>5, <1>10, <1>11, <1>12, <1>13, <1>14, <1>16 DEF PoolOK, n

\* Two owners leave one of three buffers free.
LEMMA OneIsFree ==
  ASSUME NEW p, NEW y, NEW z, PoolOK(p, NoBuffer, y, z)
  PROVE  p.free # {}
<1>1. p.next \in Nat /\ NumBuffers \in Nat /\ NumBuffers >= 3 /\ p.next >= NumBuffers
  BY PoolFields, PoolAssumption DEF PoolOK, PoolAssumption
<1> DEFINE a == p.next - 1
           b == p.next - 2
           c == p.next - 3
<1>2. /\ a \in DOMAIN p.refs /\ b \in DOMAIN p.refs /\ c \in DOMAIN p.refs
      /\ a \in Nat /\ b \in Nat /\ c \in Nat
  BY <1>1 DEF PoolOK
<1>3. NoBuffer # a /\ NoBuffer # b /\ NoBuffer # c
  BY <1>2, PoolAssumption DEF PoolAssumption
<1>4. a # b /\ a # c /\ b # c
  BY <1>1
<1>5. \E d \in {a, b, c} : y # d /\ z # d /\ NoBuffer # d
  BY <1>3, <1>4
<1>6. PICK d \in {a, b, c} : Num(d, NoBuffer, y, z) = 0
  BY <1>5 DEF Num
<1> QED
  BY <1>2, <1>6 DEF PoolOK

-----------------------------------------------------------------------------
(* The two threads.                                                        *)

\* The lock is held where it is, and a change of the stream has it, or has
\* stopped the other thread, until the flag has a buffer again to tell of.
Threads ==
  /\ lock = "usb" <=> usb = "notify"
  /\ lock = "reader" <=> reader = "format"
  /\ "on" \in DOMAIN processor
  /\ reader = "resolution" => usb # "notify" /\ ~processor.on
  /\ reader \in {"format", "resolution"} => ~flag
  /\ flag \/ reader = "read" \/ usb = "notify" => stable # NoBuffer

\* Whom the buffers belong to; the one that is written to is nobody else's.
BuffersInv ==
  /\ PoolOK(pool, working, stable, Owned)
  /\ ~manager
  /\ working \in Nat /\ working # stable /\ working # Owned

IInv == BuffersInv /\ Threads

LEMMA NewPoolOK == PoolOK(NewPool, NoBuffer, NoBuffer, NoBuffer)
<1> DEFINE F == Fresh(0)
           r == [b \in F |-> 0]
<1>1. NumBuffers \in Nat /\ NumBuffers >= 3 /\ NoBuffer \notin Nat
  BY PoolAssumption DEF PoolAssumption
<1>2. F = 0 .. NumBuffers - 1 /\ F \in SUBSET Nat
  BY <1>1 DEF Fresh
<1>3. r \in [F -> Nat] /\ DOMAIN r = F /\ F = {b \in F : r[b] = 0}
  OBVIOUS
<1>4. \A b \in F : r[b] = Num(b, NoBuffer, NoBuffer, NoBuffer)
  BY <1>1, <1>2 DEF Num
<1>5. NewPool = Made(r, {}, F, NumBuffers)
  BY DEF NewPool, Made
<1>6. F \ {} = NumBuffers - NumBuffers .. NumBuffers - 1
  BY <1>1, <1>2
<1> HIDE DEF r, F
<1>7. /\ NewPool \in PoolStates /\ NewPool.refs = r /\ NewPool.destroy = {}
      /\ NewPool.free = F /\ NewPool.next = NumBuffers
  BY <1>1, <1>2, <1>3, <1>5, MadeFields
<1> QED
  BY <1>1, <1>2, <1>3, <1>4, <1>6, <1>7 DEF PoolOK

LEMMA InvInit == Init => IInv
<1> SUFFICES ASSUME Init PROVE IInv
  OBVIOUS
<1>1. NumBuffers \in Nat /\ NumBuffers >= 3 /\ NoBuffer \notin Nat
  BY PoolAssumption DEF PoolAssumption
<1>2. PoolOK(Changed(NewPool), NoBuffer, NoBuffer, NoBuffer)
  BY NewPoolOK, ChangedOK
<1>3. Changed(NewPool).free = Fresh(NumBuffers)
  BY DEF Changed, NewPool
<1>4. NumBuffers \in Fresh(NumBuffers)
  BY <1>1 DEF Fresh
<1>5. PoolOK(pool, NumBuffers, NoBuffer, NoBuffer)
  BY <1>2, <1>3, <1>4, TakenOK DEF Init
<1> QED
  BY <1>1, <1>5 DEF Init, IInv, BuffersInv, Threads, Owned, NewProcessor

\* The frame in the working buffer becomes the stable one.
LEMMA PublishOK ==
  ASSUME BuffersInv, Publish, UNCHANGED readerVars
  PROVE  BuffersInv' /\ stable' # NoBuffer
<1> DEFINE rest == Dropped(pool, stable)
<1>1. PoolOK(rest, NoBuffer, working, Owned)
  BY DroppedOK, AnyOrder DEF BuffersInv
<1>2. rest.free # {}
  BY <1>1, OneIsFree
<1> HIDE DEF rest
<1>3. ~manager' /\ stable' = working /\ \E b \in rest.free : working' = b /\ pool' = Taken(rest, b)
  BY <1>2 DEF Publish, rest
<1>4. Owned' = Owned
  BY DEF readerVars, Owned
<1>5. PoolOK(pool', working', working, Owned) /\ working' \in Nat
      /\ working' # working /\ working' # Owned
  BY <1>1, <1>3, TakenOK
<1>6. working # NoBuffer
  BY PoolAssumption DEF BuffersInv, PoolAssumption
<1> QED
  BY <1>3, <1>4, <1>5, <1>6 DEF BuffersInv

\* The reader has new buffers made.
LEMMA ReallocateOK ==
  ASSUME BuffersInv, Reallocate, reader # "read", reader' # "read"
  PROVE  BuffersInv' /\ stable' = NoBuffer
<1> DEFINE new   == Changed(pool)
           one   == Dropped(new, working)
           rest  == Dropped(one, stable)
<1>1. PoolOK(new, working, stable, held)
  BY ChangedOK DEF BuffersInv, Owned
<1>2. PoolOK(one, stable, NoBuffer, held)
  BY <1>1, DroppedOK, AnyOrder
<1>3. PoolOK(rest, NoBuffer, NoBuffer, held)
  BY <1>2, DroppedOK
<1> HIDE DEF new, one, rest
<1>4. /\ \E b \in rest.free : working' = b /\ pool' = Taken(rest, b)
      /\ ~manager /\ manager' = manager /\ stable' = NoBuffer /\ held' = held
  BY DEF Reallocate, new, one, rest
<1>5. PoolOK(pool', working', NoBuffer, held) /\ working' \in Nat
      /\ working' # NoBuffer /\ working' # held
  BY <1>3, <1>4, TakenOK
<1> QED
  BY <1>4, <1>5 DEF BuffersInv, Owned

LEMMA InvStep == IInv /\ [Next]_vars => IInv'
<1> SUFFICES ASSUME IInv, [Next]_vars PROVE IInv'
  OBVIOUS
<1> USE DEF IInv
<1>1. ASSUME UNCHANGED bufferVars, UNCHANGED <<held, reader>> PROVE BuffersInv'
  BY <1>1 DEF bufferVars, BuffersInv, Owned
<1>2. CASE Middle
  <2>1. BuffersInv'
    BY <1>1, <1>2 DEF Middle, readerVars
  <2>2. Threads'
    BY <1>2 DEF Middle, Packet, Processed, Threads, bufferVars, readerVars
  <2> QED
    BY <2>1, <2>2
<1>3. CASE EndCorrupted
  <2>1. BuffersInv'
    BY <1>1, <1>3 DEF EndCorrupted, readerVars
  <2>2. Threads'
    BY <1>3 DEF EndCorrupted, Packet, Processed, Threads, bufferVars, readerVars
  <2> QED
    BY <2>1, <2>2
<1>4. CASE EndOfFrame
  <2>1. BuffersInv' /\ stable' # NoBuffer
    BY <1>4, PublishOK DEF EndOfFrame
  <2>2. /\ processor.on /\ lock = "nobody" /\ "on" \in DOMAIN processor'
        /\ UNCHANGED <<readerVars, flag>>
    BY <1>4 DEF EndOfFrame, Packet, Processed, Threads
  <2>3. usb' = "notify" /\ lock' = "usb"
    BY <1>4, <2>1 DEF EndOfFrame, BuffersInv
  <2> QED
    BY <2>1, <2>2, <2>3 DEF Threads, readerVars
<1>5. CASE Notify
  <2>1. BuffersInv'
    BY <1>1, <1>5 DEF Notify, readerVars
  <2>2. Threads'
    BY <1>5 DEF Notify, Threads, bufferVars, readerVars
  <2> QED
    BY <2>1, <2>2
<1>6. CASE Lose
  <2>1. BuffersInv'
    BY <1>1, <1>6 DEF Lose, readerVars
  <2>2. Threads'
    BY <1>6 DEF Lose, Threads, bufferVars, readerVars
  <2> QED
    BY <2>1, <2>2
<1>7. CASE BeginRead
  <2>1. PoolOK(Dropped(pool, held), NoBuffer, stable, working)
    BY <1>7, DroppedOK, AnyOrder DEF BeginRead, BuffersInv, Owned
  <2>2. PoolOK(pool', working, stable, NoBuffer)
    BY <1>7, <2>1, AnyOrder DEF BeginRead
  <2>3. BuffersInv'
    BY <1>7, <2>2, PoolAssumption DEF BeginRead, BuffersInv, Owned, PoolAssumption
  <2>4. Threads'
    BY <1>7 DEF BeginRead, Threads, usbVars
  <2> QED
    BY <2>3, <2>4
<1>8. CASE ReadStable
  <2>1. PoolOK(pool', working, stable, stable)
    BY <1>8, SharedOK DEF ReadStable, BuffersInv, Owned
  <2>2. BuffersInv'
    BY <1>8, <2>1 DEF ReadStable, BuffersInv, Owned
  <2>3. Threads'
    BY <1>8 DEF ReadStable, Threads, usbVars
  <2> QED
    BY <2>2, <2>3
<1>9. CASE EndRead
  <2>1. BuffersInv'
    BY <1>9 DEF EndRead, BuffersInv, Owned, bufferVars
  <2>2. Threads'
    BY <1>9 DEF EndRead, Threads, bufferVars, usbVars
  <2> QED
    BY <2>1, <2>2
<1>10. CASE BeginFormat
  <2>1. BuffersInv'
    BY <1>10 DEF BeginFormat, BuffersInv, Owned, bufferVars
  <2>2. Threads'
    BY <1>10 DEF BeginFormat, Threads, bufferVars, usbVars
  <2> QED
    BY <2>1, <2>2
<1>11. CASE BeginResolution
  <2>1. BuffersInv'
    BY <1>11 DEF BeginResolution, BuffersInv, Owned, bufferVars
  <2>2. usb' = usb /\ usb # "notify"
    BY <1>11 DEF BeginResolution, Threads
  <2>3. stable' = stable /\ lock' = lock /\ ~flag' /\ reader' = "resolution" /\ reader = "idle"
    BY <1>11 DEF BeginResolution, bufferVars
  <2>4. lock = "nobody"
    BY <1>11 DEF BeginResolution
  <2>5. "on" \in DOMAIN processor' /\ ~processor'.on
    BY <1>11 DEF BeginResolution, Threads
  <2> QED
    BY <2>1, <2>2, <2>3, <2>4, <2>5 DEF Threads
<1>12. CASE EndFormat
  <2>1. BuffersInv' /\ stable' = NoBuffer
    BY <1>12, ReallocateOK DEF EndFormat
  <2>2. Threads'
    BY <1>12, <2>1 DEF EndFormat, Threads, NewProcessor
  <2> QED
    BY <2>1, <2>2
<1>13. CASE EndResolution
  <2>1. BuffersInv' /\ stable' = NoBuffer
    BY <1>13, ReallocateOK DEF EndResolution
  <2>2. Threads'
    BY <1>13, <2>1 DEF EndResolution, Threads, NewProcessor
  <2> QED
    BY <2>1, <2>2
<1>14. CASE UNCHANGED vars
  BY <1>14 DEF vars, bufferVars, readerVars, usbVars, BuffersInv, Threads, Owned
<1> QED
  BY <1>2, <1>3, <1>4, <1>5, <1>6, <1>7, <1>8, <1>9, <1>10, <1>11, <1>12, <1>13, <1>14
     DEF Next, Usb, Reader

-----------------------------------------------------------------------------
(* The theorems.                                                           *)

\* Every buffer counts its owners, the free ones are nobody's, and one that is
\* to be destroyed goes with its last owner.
THEOREM BuffersCountOwners == Spec => []RefsCountOwners
<1>1. IInv => RefsCountOwners
  <2> SUFFICES ASSUME IInv PROVE RefsCountOwners
    OBVIOUS
  <2>1. PoolOK(pool, working, stable, Owned)
    BY DEF IInv, BuffersInv
  <2>2. \A b : Ones(b) = Num(b, working, stable, Owned)
    BY DEF Ones, Num
  <2> QED
    BY <2>1, <2>2 DEF RefsCountOwners, PoolOK
<1> QED
  BY <1>1, InvInit, InvStep, PTL DEF Spec

\* MarkWriteBufferAsStable always finds a buffer to go on with, so it never
\* returns without leaving the manager's lock.
THEOREM AlwaysABufferLeft == Spec => []NeverExhausted
<1>1. IInv => NeverExhausted
  BY DEF IInv, BuffersInv, NeverExhausted
<1> QED
  BY <1>1, InvInit, InvStep, PTL DEF Spec

\* The flag of new data tells of a stable buffer, whenever the stream changes.
THEOREM FlagTellsOfStable == Spec => []FlagMeansStable
<1>1. IInv => FlagMeansStable
  BY DEF IInv, Threads, FlagMeansStable
<1> QED
  BY <1>1, InvInit, InvStep, PTL DEF Spec

-----------------------------------------------------------------------------
(* What the reader was given.                                              *)

\* The pieces of memory are enough for the buffers made.
MemoryInv ==
  /\ DOMAIN memory = Memories
  /\ config \in 0 .. MaxChanges
  /\ reader \in {"format", "resolution"} => config < MaxChanges
  /\ pool.next = (config + 2) * NumBuffers

LEMMA NextKept ==
  ASSUME NEW p, NEW x, NEW y, NEW z, PoolOK(p, x, y, z), NEW b
  PROVE  /\ Dropped(p, x).next = p.next
         /\ Shared(p, y).next = p.next
         /\ Taken(p, b).next = p.next
<1>1. p = [refs |-> p.refs, destroy |-> p.destroy, free |-> p.free, next |-> p.next]
  BY PoolFields DEF PoolOK
<1>2. Dropped(p, x).next = p.next
  BY <1>1 DEF Dropped
<1>3. Shared(p, y).next = p.next
  BY <1>1 DEF Shared
<1>4. Taken(p, b).next = p.next
  BY <1>1 DEF Taken
<1> QED
  BY <1>2, <1>3, <1>4

LEMMA MemoryInit == Init => MemoryInv
<1> SUFFICES ASSUME Init PROVE MemoryInv
  OBVIOUS
<1>1. NumBuffers \in Nat /\ MaxChanges \in Nat
  BY PoolAssumption, BoundsAssumption DEF PoolAssumption, BoundsAssumption
<1>2. PoolOK(Changed(NewPool), NoBuffer, NoBuffer, NoBuffer)
      /\ Changed(NewPool).next = NumBuffers + NumBuffers
  BY NewPoolOK, ChangedOK DEF NewPool
<1>3. pool.next = NumBuffers + NumBuffers
  BY <1>2, NextKept DEF Init
<1>4. NumBuffers + NumBuffers = (0 + 2) * NumBuffers
  BY <1>1
<1> QED
  BY <1>1, <1>3, <1>4 DEF Init, MemoryInv

\* A step makes as many buffers as a pool has, or none.
LEMMA MadeByChange ==
  ASSUME IInv, Next
  PROVE  \/ pool'.next = pool.next /\ config' = config
         \/ /\ pool'.next = pool.next + NumBuffers /\ config' = config + 1
            /\ reader \in {"format", "resolution"} /\ reader' = "idle"
<1>1. PoolOK(pool, working, stable, Owned)
  BY DEF IInv, BuffersInv
<1>2. ASSUME Publish PROVE pool'.next = pool.next
  <2> DEFINE rest == Dropped(pool, stable)
  <2>1. PoolOK(rest, NoBuffer, working, Owned) /\ rest.next = pool.next
    BY <1>1, DroppedOK, AnyOrder, NextKept
  <2> HIDE DEF rest
  <2>2. pool' = pool \/ \E b : pool' = Taken(rest, b)
    BY <1>2 DEF Publish, rest
  <2> QED
    BY <2>1, <2>2, NextKept
<1>3. ASSUME Reallocate, reader # "read"
      PROVE  pool'.next = pool.next + NumBuffers /\ config' = config + 1
  <2> DEFINE new  == Changed(pool)
             one  == Dropped(new, working)
             rest == Dropped(one, stable)
  <2>1. PoolOK(new, working, stable, Owned) /\ new.next = pool.next + NumBuffers
    BY <1>1, ChangedOK
  <2>2. PoolOK(one, stable, NoBuffer, Owned) /\ one.next = new.next
    BY <2>1, DroppedOK, AnyOrder, NextKept
  <2>3. PoolOK(rest, NoBuffer, NoBuffer, Owned) /\ rest.next = one.next
    BY <2>2, DroppedOK, NextKept
  <2> HIDE DEF new, one, rest
  <2>4. config' = config + 1 /\ \E b : pool' = Taken(rest, b)
    BY <1>3 DEF Reallocate, new, one, rest
  <2> QED
    BY <2>1, <2>2, <2>3, <2>4, NextKept
<1>4. CASE Middle \/ EndCorrupted \/ Notify \/ Lose \/ EndRead \/ BeginFormat \/ BeginResolution
  BY <1>4 DEF Middle, EndCorrupted, Notify, Lose, EndRead, BeginFormat, BeginResolution,
              bufferVars, readerVars
<1>5. CASE EndOfFrame
  BY <1>2, <1>5 DEF EndOfFrame, readerVars
<1>6. CASE BeginRead
  <2>1. PoolOK(pool, held, stable, working)
    BY <1>1, <1>6, AnyOrder DEF BeginRead, Owned
  <2> QED
    BY <1>6, <2>1, NextKept DEF BeginRead
<1>7. CASE ReadStable
  BY <1>1, <1>7, NextKept DEF ReadStable
<1>8. CASE EndFormat \/ EndResolution
  BY <1>3, <1>8 DEF EndFormat, EndResolution
<1> QED
  BY <1>4, <1>5, <1>6, <1>7, <1>8 DEF Next, Usb, Reader

LEMMA MemoryStep == IInv /\ MemoryInv /\ [Next]_vars => MemoryInv'
<1> SUFFICES ASSUME IInv, MemoryInv, [Next]_vars PROVE MemoryInv'
  OBVIOUS
<1>1. NumBuffers \in Nat /\ MaxChanges \in Nat
  BY PoolAssumption, BoundsAssumption DEF PoolAssumption, BoundsAssumption
<1>2. DOMAIN memory' = Memories
  <2>1. ASSUME Packet PROVE DOMAIN memory' = Memories
    <3>1. memory' = memory \/ \E m, x : memory' = [memory EXCEPT ![m][Before + 1] = x]
      BY <2>1 DEF Packet, Written
    <3> QED
      BY <3>1 DEF MemoryInv
  <2>2. Packet \/ memory' = memory
    BY DEF Next, Usb, Reader, Middle, EndCorrupted, EndOfFrame, Notify, Lose, BeginRead,
           ReadStable, EndRead, EndFormat, EndResolution, Reallocate, BeginFormat,
           BeginResolution, usbVars, vars
  <2> QED
    BY <2>1, <2>2 DEF MemoryInv
<1>3. CASE UNCHANGED vars
  BY <1>2, <1>3 DEF vars, bufferVars, readerVars, MemoryInv
<1>4. CASE Next
  <2>1. reader' \in {"format", "resolution"} =>
          config' = config /\ (reader \in {"format", "resolution"} \/ config < MaxChanges)
    BY <1>4 DEF Next, Usb, Reader, Middle, EndCorrupted, EndOfFrame, Notify, Lose, BeginRead,
                ReadStable, EndRead, EndFormat, EndResolution, BeginFormat,
                BeginResolution, readerVars
  <2>2. CASE pool'.next = pool.next /\ config' = config
    BY <1>2, <2>1, <2>2 DEF MemoryInv
  <2>3. CASE /\ pool'.next = pool.next + NumBuffers /\ config' = config + 1
             /\ reader \in {"format", "resolution"} /\ reader' = "idle"
    <3>1. config \in Nat /\ config + 1 \in 0 .. MaxChanges
      BY <1>1, <2>3 DEF MemoryInv
    <3>2. (config + 2) * NumBuffers + NumBuffers = (config + 1 + 2) * NumBuffers
      BY <1>1, <3>1
    <3> QED
      BY <1>2, <2>3, <3>1, <3>2 DEF MemoryInv
  <2> QED
    BY <1>4, <2>2, <2>3, MadeByChange
<1> QED
  BY <1>3, <1>4

\* A pool with memory of its own gives each buffer a piece of its own.
LEMMA OwnMemory ==
  ASSUME ~External, IInv, MemoryInv, NEW b \in {working, stable, Owned}, b # NoBuffer
  PROVE  Memory(b) = b /\ b \in Memories
<1>1. /\ NumBuffers \in Nat /\ MaxChanges \in Nat /\ config \in Nat /\ config <= MaxChanges
      /\ pool.next = (config + 2) * NumBuffers
  BY PoolAssumption, BoundsAssumption DEF PoolAssumption, BoundsAssumption, MemoryInv
<1>2. b \in Nat /\ b <= pool.next - 1
  <2>1. PoolOK(pool, working, stable, Owned)
    BY DEF IInv, BuffersInv
  <2>2. b \in DOMAIN pool.refs /\ pool.next \in Nat
    BY <2>1, PoolFields DEF PoolOK
  <2> QED
    BY <2>1, <2>2 DEF PoolOK
<1>3. (config + 2) * NumBuffers <= (MaxChanges + 2) * NumBuffers
  BY <1>1
<1>4. (MaxChanges + 2) * NumBuffers \in Nat
  BY <1>1
<1>5. b \in Memories
  <2> DEFINE m == (MaxChanges + 2) * NumBuffers
  <2>1. pool.next <= m /\ m \in Nat /\ pool.next \in Int
    BY <1>1, <1>3, <1>4
  <2> HIDE DEF m
  <2>2. b \in 0 .. m - 1
    BY <1>2, <2>1
  <2> QED
    BY <2>2 DEF Memories, m
<1> QED
  BY <1>5 DEF Memory

\* If the pool has memory of its own, nothing is written to the frame that the
\* reader was given until its next read, whatever comes from the device and
\* however the stream changes.
THEOREM HeldStaysUntouched ==
  ASSUME ~External PROVE Spec => HeldUntouched
<1>1. IInv /\ MemoryInv /\ [Next]_vars =>
        [held # NoBuffer /\ reader # "read" /\ held' = held /\ reader' # "read" =>
           memory'[Memory(held)] = memory[Memory(held)]]_vars
  <2> SUFFICES ASSUME IInv, MemoryInv, Next, held # NoBuffer, reader # "read"
               PROVE  memory'[Memory(held)] = memory[Memory(held)]
    OBVIOUS
  <2>1. Memory(held) \in DOMAIN memory /\ Memory(held) # Memory(working)
    <3>1. Owned = held /\ working # held /\ working # NoBuffer
      BY PoolAssumption DEF Owned, IInv, BuffersInv, PoolAssumption
    <3>2. Memory(held) = held /\ held \in Memories /\ Memory(working) = working
      BY <3>1, OwnMemory
    <3> QED
      BY <3>1, <3>2 DEF MemoryInv
  <2>2. ASSUME Packet PROVE memory'[Memory(held)] = memory[Memory(held)]
    <3>1. \/ memory' = memory
          \/ \E x : memory' = [memory EXCEPT ![Memory(working)][Before + 1] = x]
      BY <2>2 DEF Packet, Written
    <3> QED
      BY <2>1, <3>1
  <2>3. Packet \/ memory' = memory
    BY DEF Next, Usb, Reader, Middle, EndCorrupted, EndOfFrame, Notify, Lose, BeginRead,
           ReadStable, EndRead, EndFormat, EndResolution, Reallocate, BeginFormat,
           BeginResolution, usbVars
  <2> QED
    BY <2>2, <2>3
<1> QED
  BY <1>1, InvInit, InvStep, MemoryInit, MemoryStep, PTL DEF Spec, HeldUntouched

-----------------------------------------------------------------------------
(* Frames.                                                                 *)

DeviceStates ==
  [frame : Nat \ {0}, part : 1 .. Parts, id : 0 .. IdMod - 1, gap : Nat, hidden : BOOLEAN]

ProcessorStates == [on : BOOLEAN, lastId : 0 .. IdMod - 1, corrupted : BOOLEAN]

Contents == {Nothing} \cup (Nat \X Nat \X Nat)

FrameTypes ==
  /\ device \in DeviceStates /\ processor \in ProcessorStates
  /\ size \in 0 .. Parts
  /\ memory \in [Memories -> [1 .. Parts -> Contents]]

\* The ids tell how many packets were lost since the last one.
Linked ==
  /\ device.gap = 0 =>
       \/ device.id = processor.lastId + 1
       \/ device.id = 0 /\ processor.lastId = IdMod - 1
  /\ device.gap > 0 =>
       \/ device.id = processor.lastId + 1 + device.gap
       \/ device.id = device.gap /\ processor.lastId = IdMod - 1

\* The working buffer has the parts before the next one, in order; or fewer,
\* and then the frame will be too short.
InOrder ==
  device.gap = 0 /\ ~processor.corrupted /\ device.part # 1 =>
    /\ size <= device.part - 1
    /\ size = device.part - 1 =>
         \A i \in 1 .. size :
           memory[Memory(working)][i] = <<config, device.frame, i>>

FrameInv == ~device.hidden => (size = 0 \/ Linked) /\ InOrder

LEMMA FollowingFields ==
  ASSUME device \in DeviceStates
  PROVE  LET d == Following(device)
         IN  /\ d \in DeviceStates
             /\ d.gap = 0 /\ d.hidden = device.hidden
             /\ d.id = IF device.id = IdMod - 1 THEN 0 ELSE device.id + 1
             /\ device.part = Parts => d.part = 1
             /\ device.part # Parts => d.part = device.part + 1 /\ d.frame = device.frame
<1>1. IdMod \in Nat \ {0} /\ Parts \in Nat /\ Parts >= 2
  BY PacketAssumption DEF PacketAssumption
<1> DEFINE f == IF device.part = Parts THEN device.frame + 1 ELSE device.frame
           p == IF device.part = Parts THEN 1 ELSE device.part + 1
           n == (device.id + 1) % IdMod
<1>2. device.id \in 0 .. IdMod - 1 /\ device.part \in 1 .. Parts /\ device.frame \in Nat \ {0}
      /\ device.hidden \in BOOLEAN
  BY DEF DeviceStates
<1>3. n = IF device.id = IdMod - 1 THEN 0 ELSE device.id + 1
  <2>1. CASE device.id = IdMod - 1
    <3>1. IdMod % IdMod = 0
      BY <1>1
    <3>2. device.id + 1 = IdMod
      BY <1>1, <2>1
    <3> QED
      BY <2>1, <3>1, <3>2
  <2>2. CASE device.id # IdMod - 1
    <3>1. device.id + 1 \in 0 .. IdMod - 1
      BY <1>1, <1>2, <2>2
    <3>2. \A k \in 0 .. IdMod - 1 : k % IdMod = k
      BY <1>1
    <3> QED
      BY <2>2, <3>1, <3>2
  <2> QED
    BY <2>1, <2>2
<1>4. n \in 0 .. IdMod - 1
  BY <1>1, <1>2, <1>3
<1>5. f \in Nat \ {0} /\ p \in 1 .. Parts
  BY <1>1, <1>2
<1>6. Following(device) =
        [frame |-> f, part |-> p, id |-> n, gap |-> 0, hidden |-> device.hidden]
  <2>1. Following(device) =
          [device EXCEPT !.frame = f, !.part = p, !.id = n, !.gap = 0]
    BY DEF Following
  <2> HIDE DEF f, p, n
  <2> QED
    BY <2>1 DEF DeviceStates
<1> HIDE DEF n
<1>7. Following(device) \in DeviceStates
  BY <1>2, <1>4, <1>5, <1>6 DEF DeviceStates
<1> QED
  BY <1>3, <1>6, <1>7

LEMMA ProcessedFields ==
  ASSUME FrameTypes, NEW c \in BOOLEAN
  PROVE  /\ Processed(c) \in ProcessorStates
         /\ Processed(c).lastId = device.id /\ Processed(c).corrupted = c
<1> DEFINE g == [processor EXCEPT !.lastId = device.id]
           h == [g EXCEPT !.corrupted = c]
<1>1. device.id \in 0 .. IdMod - 1 /\ processor \in ProcessorStates
  BY DEF FrameTypes, DeviceStates
<1>2. g \in ProcessorStates /\ g.lastId = device.id
  BY <1>1 DEF ProcessorStates
<1>3. Processed(c) = h
  BY DEF Processed
<1> HIDE DEF g
<1>4. h \in ProcessorStates /\ h.lastId = g.lastId
  BY <1>2 DEF ProcessorStates
<1>5. h.corrupted = c
  BY <1>2 DEF ProcessorStates
<1> QED
  BY <1>2, <1>3, <1>4, <1>5

\* A packet that was lost shows, if anything has been assembled.
LEMMA GapShows ==
  ASSUME FrameTypes, FrameInv, ~device.hidden, device.gap > 0, ~Lost
  PROVE  size = 0
<1>1. /\ device.id \in 0 .. IdMod - 1 /\ processor.lastId \in 0 .. IdMod - 1
      /\ device.gap \in Nat /\ IdMod \in Nat
  BY PacketAssumption DEF PacketAssumption, FrameTypes, DeviceStates, ProcessorStates
<1>2. ASSUME Linked PROVE FALSE
  BY <1>1, <1>2 DEF Linked, Lost
<1> QED
  BY <1>2 DEF FrameInv

\* What a packet leaves in the working buffer.
LEMMA PacketWritten ==
  ASSUME FrameTypes, Memory(working) \in Memories, config \in Nat, Packet
  PROVE  /\ memory' \in [Memories -> [1 .. Parts -> Contents]]
         /\ \A m \in Memories : m # Memory(working) => memory'[m] = memory[m]
         /\ ~Corrupted /\ Fits =>
              /\ memory'[Memory(working)][Before + 1] = <<config, device.frame, device.part>>
              /\ \A i \in 1 .. Parts : i # Before + 1 =>
                   memory'[Memory(working)][i] = memory[Memory(working)][i]
              /\ Before + 1 \in 1 .. Parts
         /\ Before \in 0 .. Parts /\ After \in 0 .. Parts
<1> DEFINE m == Memory(working)
           x == <<config, device.frame, device.part>>
<1>1. size \in 0 .. Parts /\ Parts \in Nat
  BY PacketAssumption DEF PacketAssumption, FrameTypes
<1>2. Before \in 0 .. Parts /\ After \in 0 .. Parts
  BY <1>1 DEF Before, After, Fits
<1>3. x \in Contents
  BY PacketAssumption DEF PacketAssumption, FrameTypes, DeviceStates, Contents
<1>4. CASE ~(~Corrupted /\ Fits)
  BY <1>2, <1>4 DEF Packet, Written, FrameTypes
<1>5. CASE ~Corrupted /\ Fits
  <2> DEFINE b == Before + 1
             row == [memory[m] EXCEPT ![b] = x]
  <2>1. b \in 1 .. Parts
    BY <1>1, <1>2, <1>5 DEF Fits
  <2>2. memory' = [memory EXCEPT ![m] = row]
    BY <1>5 DEF Packet, Written
  <2> HIDE DEF m, x, b
  <2>3. m \in Memories /\ memory[m] \in [1 .. Parts -> Contents]
    BY DEF FrameTypes, m
  <2>4. /\ row \in [1 .. Parts -> Contents] /\ row[b] = x
        /\ \A i \in 1 .. Parts : i # b => row[i] = memory[m][i]
    BY <1>3, <2>1, <2>3
  <2> HIDE DEF row
  <2>5. /\ memory' \in [Memories -> [1 .. Parts -> Contents]] /\ memory'[m] = row
        /\ \A k \in Memories : k # m => memory'[k] = memory[k]
    BY <2>2, <2>3, <2>4 DEF FrameTypes
  <2> QED
    BY <1>2, <2>1, <2>4, <2>5 DEF m, x, b
<1> QED
  BY <1>4, <1>5

\* The next packet after one.
LEMMA PacketOrder ==
  ASSUME FrameTypes, FrameInv, Memory(working) \in Memories, config \in Nat,
         Packet, UNCHANGED config, ~device.hidden, ~Corrupted, Fits
  PROVE  /\ After <= device.part
         /\ After = device.part =>
              \A i \in 1 .. After :
                memory'[Memory(working)][i] = <<config, device.frame, i>>
<1>1. /\ device.part \in 1 .. Parts /\ size \in 0 .. Parts /\ device.gap \in Nat
      /\ Parts \in Nat /\ After = Before + 1
  BY PacketAssumption DEF PacketAssumption, FrameTypes, DeviceStates, After
<1>2. /\ memory'[Memory(working)][Before + 1] = <<config, device.frame, device.part>>
      /\ \A i \in 1 .. Parts : i # Before + 1 =>
           memory'[Memory(working)][i] = memory[Memory(working)][i]
      /\ Before + 1 \in 1 .. Parts
  BY PacketWritten
<1>3. CASE device.part = 1
  <2>1. Before = 0
    BY <1>3 DEF Before
  <2> QED
    BY <1>1, <1>2, <1>3, <2>1
<1>4. CASE device.part # 1
  <2>1. ~Lost /\ ~processor.corrupted /\ Before = size
    BY <1>4 DEF Corrupted, Before
  <2>2. CASE device.gap > 0
    <3>1. size = 0
      BY <2>1, <2>2, GapShows
    <3> QED
      BY <1>1, <1>4, <2>1, <3>1
  <2>3. CASE device.gap = 0
    <3>1. /\ size <= device.part - 1
          /\ size = device.part - 1 =>
               \A i \in 1 .. size :
                 memory[Memory(working)][i] = <<config, device.frame, i>>
      BY <1>4, <2>1, <2>3 DEF FrameInv, InOrder
    <3>2. ASSUME After = device.part, NEW i \in 1 .. After
          PROVE  memory'[Memory(working)][i] = <<config, device.frame, i>>
      <4>1. CASE i = After
        BY <1>1, <1>2, <2>1, <3>2, <4>1
      <4>2. CASE i # After
        <5>1. i \in 1 .. size /\ i \in 1 .. Parts /\ i # Before + 1 /\ size = device.part - 1
          BY <1>1, <2>1, <3>2, <4>2
        <5> QED
          BY <1>2, <3>1, <5>1
      <4> QED
        BY <4>1, <4>2
    <3> QED
      BY <1>1, <2>1, <3>1, <3>2
  <2> QED
    BY <1>1, <2>2, <2>3
<1> QED
  BY <1>3, <1>4

\* After a packet its id is the last one.
LEMMA PacketLinked ==
  ASSUME FrameTypes, device' = Following(device), processor'.lastId = device.id
  PROVE  Linked'
<1>1. /\ device'.gap = 0
      /\ device'.id = IF device.id = IdMod - 1 THEN 0 ELSE device.id + 1
  BY FollowingFields DEF FrameTypes
<1> QED
  BY <1>1 DEF Linked

\* A packet lost, of which the ids will tell.
LEMMA LoseKeeps ==
  ASSUME FrameTypes, Lose
  PROVE  FrameTypes' /\ (FrameInv => FrameInv')
<1> DEFINE f == Following(device)
           g == device.gap + 1
           x == f.hidden \/ device.id = IdMod - 1
           d == [f EXCEPT !.gap = g]
           e == [d EXCEPT !.hidden = x]
<1>1. UNCHANGED <<bufferVars, readerVars, memory, size, processor>> /\ device' = e
  BY DEF Lose
<1>2. /\ f \in DeviceStates /\ f.hidden = device.hidden
      /\ f.id = IF device.id = IdMod - 1 THEN 0 ELSE device.id + 1
  BY FollowingFields DEF FrameTypes
<1>3. g \in Nat /\ g > 0 /\ g = device.gap + 1 /\ device.gap \in Nat
  BY DEF FrameTypes, DeviceStates
<1>4. x \in BOOLEAN /\ (~x => ~device.hidden /\ device.id # IdMod - 1)
  BY <1>2
<1> HIDE DEF f, g, x
<1>5. d \in DeviceStates /\ d.gap = g /\ d.id = f.id
  BY <1>2, <1>3 DEF DeviceStates
<1> HIDE DEF d
<1>6. e \in DeviceStates /\ e.gap = g /\ e.id = f.id
  BY <1>4, <1>5 DEF DeviceStates
<1>7. e.hidden = x
  BY <1>5 DEF DeviceStates
<1> HIDE DEF e
<1>8. FrameTypes'
  BY <1>1, <1>6 DEF FrameTypes
<1>9. ASSUME ~device'.hidden, Linked PROVE Linked'
  <2>1. ~x /\ device'.id = device.id + 1 /\ device'.gap = device.gap + 1
    BY <1>1, <1>2, <1>3, <1>4, <1>6, <1>7, <1>9
  <2>2. device.id \in Int /\ processor.lastId \in Int /\ IdMod \in Int /\ processor' = processor
    BY <1>1, PacketAssumption
       DEF PacketAssumption, FrameTypes, DeviceStates, ProcessorStates
  <2> QED
    BY <1>3, <1>9, <2>1, <2>2 DEF Linked
<1>10. ASSUME FrameInv, ~device'.hidden PROVE (size' = 0 \/ Linked') /\ InOrder'
  <2>1. size = 0 \/ Linked
    BY <1>1, <1>4, <1>7, <1>10 DEF FrameInv
  <2>2. InOrder'
    BY <1>1, <1>3, <1>6 DEF InOrder
  <2> QED
    BY <1>1, <1>9, <1>10, <2>1, <2>2
<1> QED
  BY <1>8, <1>10 DEF FrameInv

\* The threads are where they can be; the rest of what TypeOK asks for.
ThreadTypes ==
  /\ held \in Buffers /\ manager \in BOOLEAN /\ flag \in BOOLEAN
  /\ lock \in {"nobody", "usb", "reader"} /\ usb \in {"packets", "notify"}
  /\ reader \in {"idle", "read", "mark", "format", "resolution"}

\* Whoever gives the memory, there is a piece for the working buffer.
LEMMA WorkingMemory ==
  ASSUME IInv, MemoryInv
  PROVE  Memory(working) \in Memories
<1>1. working \in Nat /\ working # NoBuffer
  BY PoolAssumption DEF IInv, BuffersInv, PoolAssumption
<1>2. CASE ~External
  BY <1>1, <1>2, OwnMemory
<1>3. CASE External
  <2> DEFINE m == (MaxChanges + 2) * NumBuffers
  <2>1. NumBuffers \in Nat \ {0} /\ MaxChanges \in Nat
    BY PoolAssumption, BoundsAssumption DEF PoolAssumption, BoundsAssumption
  <2>2. working % NumBuffers \in 0 .. NumBuffers - 1
    BY <1>1, <2>1
  <2>3. m \in Nat /\ NumBuffers <= m
    <3>1. m = MaxChanges * NumBuffers + NumBuffers + NumBuffers
      BY <2>1
    <3>2. MaxChanges * NumBuffers \in Nat
      BY <2>1
    <3> QED
      BY <2>1, <3>1, <3>2
  <2> HIDE DEF m
  <2>4. working % NumBuffers \in 0 .. m - 1
    BY <2>1, <2>2, <2>3
  <2> QED
    BY <1>3, <2>4 DEF Memory, Memories, m
<1> QED
  BY <1>2, <1>3

LEMMA ThreadTypesStep == ThreadTypes /\ BuffersInv /\ [Next]_vars => ThreadTypes'
<1> SUFFICES ASSUME ThreadTypes, BuffersInv, [Next]_vars PROVE ThreadTypes'
  OBVIOUS
<1> USE DEF ThreadTypes
<1>1. CASE Middle \/ EndCorrupted \/ Lose
  BY <1>1 DEF Middle, EndCorrupted, Lose, bufferVars, readerVars
<1>2. CASE EndOfFrame
  BY <1>2 DEF EndOfFrame, Publish, readerVars
<1>3. CASE Notify \/ BeginRead \/ EndRead
  BY <1>3 DEF Notify, BeginRead, EndRead, bufferVars, usbVars, readerVars
<1>4. CASE ReadStable
  <2>1. stable \in Buffers
    <3>1. stable \in DOMAIN pool.refs \/ stable = NoBuffer
      BY DEF BuffersInv, PoolOK
    <3>2. DOMAIN pool.refs \subseteq Nat
      BY PoolFields DEF BuffersInv, PoolOK
    <3> QED
      BY <3>1, <3>2 DEF Buffers
  <2> QED
    BY <1>4, <2>1 DEF ReadStable, usbVars
<1>5. CASE BeginFormat \/ BeginResolution
  BY <1>5 DEF BeginFormat, BeginResolution, bufferVars, usbVars
<1>6. CASE EndFormat \/ EndResolution
  BY <1>6 DEF EndFormat, EndResolution, Reallocate
<1>7. CASE UNCHANGED vars
  BY <1>7 DEF vars, bufferVars, usbVars, readerVars
<1> QED
  BY <1>1, <1>2, <1>3, <1>4, <1>5, <1>6, <1>7 DEF Next, Usb, Reader

LEMMA FrameTypesStep == IInv /\ MemoryInv /\ FrameTypes /\ [Next]_vars => FrameTypes'
<1> SUFFICES ASSUME IInv, MemoryInv, FrameTypes, [Next]_vars PROVE FrameTypes'
  OBVIOUS
<1>1. Memory(working) \in Memories /\ config \in Nat /\ Parts \in Nat /\ Parts >= 2
  BY WorkingMemory, BoundsAssumption, PacketAssumption
     DEF MemoryInv, BoundsAssumption, PacketAssumption
<1>2. ASSUME Packet
      PROVE  /\ memory' \in [Memories -> [1 .. Parts -> Contents]]
             /\ device' \in DeviceStates /\ After \in 0 .. Parts
  BY <1>1, <1>2, PacketWritten, FollowingFields DEF Packet, FrameTypes
<1>3. CASE Middle
  <2>1. processor' \in ProcessorStates
    BY <1>3, ProcessedFields DEF Middle, Corrupted
  <2> QED
    BY <1>2, <1>3, <2>1 DEF Middle, FrameTypes
<1>4. CASE EndCorrupted
  <2>1. processor' \in ProcessorStates /\ size' = 0 /\ Packet
    BY <1>4, ProcessedFields DEF EndCorrupted
  <2> QED
    BY <1>1, <1>2, <2>1 DEF FrameTypes
<1>5. CASE EndOfFrame
  <2>1. processor' \in ProcessorStates /\ size' = 0 /\ Packet
    BY <1>5, ProcessedFields DEF EndOfFrame
  <2> QED
    BY <1>1, <1>2, <2>1 DEF FrameTypes
<1>6. CASE Lose
  BY <1>6, LoseKeeps
<1>7. CASE Notify \/ BeginResolution
  <2>1. UNCHANGED <<memory, size, device>>
    BY <1>7 DEF Notify, BeginResolution
  <2>2. processor' \in ProcessorStates
    <3>1. CASE Notify
      BY <3>1 DEF Notify, FrameTypes
    <3>2. CASE BeginResolution
      BY <3>2 DEF BeginResolution, FrameTypes, ProcessorStates
    <3> QED
      BY <1>7, <3>1, <3>2
  <2> QED
    BY <2>1, <2>2 DEF FrameTypes
<1>8. CASE BeginRead \/ ReadStable \/ EndRead \/ BeginFormat \/ UNCHANGED vars
  BY <1>8 DEF BeginRead, ReadStable, EndRead, BeginFormat, usbVars, vars, FrameTypes
<1>9. CASE EndFormat \/ EndResolution
  <2>1. size' = 0 /\ memory' = memory /\ processor' = NewProcessor
    BY <1>9 DEF EndFormat, EndResolution, Reallocate
  <2>2. device' \in DeviceStates
    <3>1. CASE EndFormat
      BY <3>1 DEF EndFormat, FrameTypes
    <3>2. CASE EndResolution
      <4> DEFINE f == device.frame + 1
                 d == [device EXCEPT !.frame = f]
                 e == [d EXCEPT !.part = 1]
      <4>1. device' = [e EXCEPT !.gap = 0]
        BY <3>2 DEF EndResolution
      <4>2. f \in Nat \ {0} /\ device \in DeviceStates
        BY DEF FrameTypes, DeviceStates
      <4> HIDE DEF f
      <4>3. d \in DeviceStates
        BY <4>2 DEF DeviceStates
      <4> HIDE DEF d
      <4>4. e \in DeviceStates
        BY <1>1, <4>3 DEF DeviceStates
      <4> HIDE DEF e
      <4> QED
        BY <4>1, <4>4 DEF DeviceStates
    <3> QED
      BY <1>9, <3>1, <3>2
  <2>3. NewProcessor \in ProcessorStates
    BY PacketAssumption DEF PacketAssumption, NewProcessor, ProcessorStates
  <2> QED
    BY <1>1, <2>1, <2>2, <2>3 DEF FrameTypes
<1> QED
  BY <1>3, <1>4, <1>5, <1>6, <1>7, <1>8, <1>9 DEF Next, Usb, Reader

LEMMA FrameInit == Init => FrameTypes /\ FrameInv
<1> SUFFICES ASSUME Init PROVE FrameTypes /\ FrameInv
  OBVIOUS
<1>1. Parts \in Nat /\ Parts >= 2 /\ IdMod \in Nat \ {0}
  BY PacketAssumption DEF PacketAssumption
<1>2. device \in DeviceStates
  BY <1>1 DEF Init, DeviceStates
<1>3. processor \in ProcessorStates
  BY <1>1 DEF Init, NewProcessor, ProcessorStates
<1>4. memory \in [Memories -> [1 .. Parts -> Contents]]
  BY DEF Init, Contents
<1>5. size = 0 /\ device.part = 1
  BY DEF Init
<1> QED
  BY <1>1, <1>2, <1>3, <1>4, <1>5 DEF FrameTypes, FrameInv, InOrder

LEMMA FrameStep ==
  ASSUME ~External
  PROVE  IInv /\ MemoryInv /\ FrameTypes /\ FrameInv /\ WholeFrames /\ [Next]_vars =>
           FrameTypes' /\ FrameInv' /\ WholeFrames'
<1> SUFFICES ASSUME IInv, MemoryInv, FrameTypes, FrameInv, WholeFrames, [Next]_vars
             PROVE  FrameTypes' /\ FrameInv' /\ WholeFrames'
  OBVIOUS
<1>0. FrameTypes'
  BY FrameTypesStep
<1>1. /\ Memory(working) = working /\ working \in Memories
      /\ stable # NoBuffer =>
           Memory(stable) = stable /\ stable \in Memories /\ stable # working
      /\ config \in Nat
  <2>1. working # NoBuffer /\ working # stable
    BY PoolAssumption DEF IInv, BuffersInv, PoolAssumption
  <2> QED
    BY <2>1, OwnMemory, BoundsAssumption DEF MemoryInv, BoundsAssumption
<1>2. Parts \in Nat /\ Parts >= 2 /\ device.part \in 1 .. Parts /\ device.frame \in Nat \ {0}
  BY PacketAssumption DEF PacketAssumption, FrameTypes, DeviceStates
<1>3. ASSUME Packet
      PROVE  /\ memory' \in [Memories -> [1 .. Parts -> Contents]]
             /\ stable # NoBuffer => memory'[Memory(stable)] = memory[Memory(stable)]
             /\ device' = Following(device) /\ device' \in DeviceStates
             /\ device'.hidden = device.hidden /\ After \in 0 .. Parts
  BY <1>1, <1>3, PacketWritten, FollowingFields DEF Packet, FrameTypes
<1>4. CASE Middle
  <2> DEFINE c == Corrupted \/ ~Fits
  <2>1. /\ Packet /\ device.part # Parts /\ size' = After /\ processor' = Processed(c)
        /\ UNCHANGED <<bufferVars, readerVars>>
    BY <1>4 DEF Middle
  <2>2. processor' \in ProcessorStates /\ processor'.lastId = device.id
        /\ processor'.corrupted = c
    BY <2>1, ProcessedFields DEF Corrupted
  <2>3. FrameTypes'
    BY <1>0
  <2>4. Linked'
    BY <1>3, <2>1, <2>2, PacketLinked
  <2>5. ASSUME ~device'.hidden PROVE InOrder'
    <3>1. CASE c
      BY <2>2, <3>1 DEF InOrder
    <3>2. CASE ~c
      <4>1. /\ After <= device.part
            /\ After = device.part =>
                 \A i \in 1 .. After :
                   memory'[Memory(working)][i] = <<config, device.frame, i>>
        BY <1>1, <1>3, <2>1, <2>5, <3>2, PacketOrder DEF readerVars
      <4>2. device'.part = device.part + 1 /\ device'.frame = device.frame
        BY <1>3, <2>1, FollowingFields DEF FrameTypes
      <4>3. UNCHANGED <<working, config>>
        BY <2>1 DEF bufferVars, readerVars
      <4>4. Memory(working') = Memory(working)
        BY <4>3
      <4> QED
        BY <1>2, <2>1, <4>1, <4>2, <4>3, <4>4 DEF InOrder
    <3> QED
      BY <3>1, <3>2
  <2>6. WholeFrames'
    BY <1>3, <2>1 DEF WholeFrames, Whole, bufferVars, readerVars, Memory
  <2> QED
    BY <2>3, <2>4, <2>5, <2>6 DEF FrameInv
<1>5. CASE EndCorrupted
  <2>1. /\ Packet /\ device.part = Parts /\ size' = 0 /\ processor' = Processed(TRUE)
        /\ UNCHANGED <<bufferVars, readerVars>>
    BY <1>5 DEF EndCorrupted
  <2>2. processor' \in ProcessorStates /\ processor'.lastId = device.id
        /\ processor'.corrupted = TRUE
    BY <2>1, ProcessedFields
  <2>3. FrameTypes'
    BY <1>0
  <2>4. Linked' /\ InOrder'
    BY <1>3, <2>1, <2>2, PacketLinked DEF InOrder
  <2>5. WholeFrames'
    BY <1>3, <2>1 DEF WholeFrames, Whole, bufferVars, readerVars, Memory
  <2> QED
    BY <2>3, <2>4, <2>5 DEF FrameInv
<1>6. CASE EndOfFrame
  <2>1. /\ Packet /\ device.part = Parts /\ ~Spoiled /\ size' = 0
        /\ processor' = Processed(FALSE) /\ Publish /\ UNCHANGED readerVars
    BY <1>6 DEF EndOfFrame
  <2>2. processor' \in ProcessorStates /\ processor'.lastId = device.id
    BY <2>1, ProcessedFields
  <2>3. FrameTypes'
    BY <1>0
  <2>4. device'.part = 1
    BY <1>3, <2>1, FollowingFields DEF FrameTypes
  <2>5. Linked' /\ InOrder'
    BY <1>3, <2>1, <2>2, <2>4, PacketLinked DEF InOrder
  <2>6. stable' = working \/ stable' = stable
    BY <2>1 DEF Publish
  <2>7. ASSUME stable' = stable PROVE WholeFrames'
    BY <1>3, <2>1, <2>7 DEF WholeFrames, Whole, readerVars, Memory
  <2>8. ASSUME stable' = working, ~device'.hidden PROVE WholeFrames'
    <3>1. ~Corrupted /\ Fits /\ After = Parts
      BY <2>1 DEF Spoiled
    <3>2. \A i \in 1 .. Parts :
            memory'[Memory(working)][i] = <<config, device.frame, i>>
      BY <1>1, <1>3, <2>1, <2>8, <3>1, PacketOrder DEF readerVars
    <3>3. memory'[Memory(working)] \in [1 .. Parts -> Contents]
      BY <1>1, <1>3, <2>1
    <3>4. memory'[Memory(working)] = [i \in 1 .. Parts |-> <<config, device.frame, i>>]
      BY <3>2, <3>3
    <3>5. device.frame \in 1 .. MaxFrames
      BY <1>2, <2>1, BoundsAssumption DEF Packet, BoundsAssumption
    <3>6. config' = config /\ Memory(stable') = Memory(working)
      BY <2>1, <2>8 DEF readerVars
    <3> QED
      BY <3>4, <3>5, <3>6 DEF WholeFrames, Whole, Memory
  <2>9. WholeFrames'
    BY <2>6, <2>7, <2>8 DEF WholeFrames
  <2> QED
    BY <2>3, <2>5, <2>9 DEF FrameInv
<1>7. CASE Lose
  <2>1. WholeFrames'
    <3>1. device.hidden => device'.hidden
      <4> DEFINE f == Following(device)
                 d == [f EXCEPT !.gap = device.gap + 1]
                 x == f.hidden \/ device.id = IdMod - 1
      <4>1. f \in DeviceStates /\ f.hidden = device.hidden
        BY FollowingFields DEF FrameTypes
      <4>2. device' = [d EXCEPT !.hidden = x]
        BY <1>7 DEF Lose
      <4> HIDE DEF f
      <4>3. "hidden" \in DOMAIN d
        BY <4>1 DEF DeviceStates
      <4> HIDE DEF d
      <4> QED
        BY <4>1, <4>2, <4>3
    <3> QED
      BY <1>7, <3>1 DEF Lose, WholeFrames, Whole, bufferVars, readerVars, Memory
  <2> QED
    BY <1>7, <2>1, LoseKeeps
<1>8. ASSUME UNCHANGED <<usbVars, working, stable, config>>
      PROVE  FrameTypes' /\ FrameInv' /\ WholeFrames'
  <2>1. FrameTypes' /\ Linked' = Linked
    BY <1>8 DEF FrameTypes, Linked, usbVars
  <2>2. InOrder' = InOrder /\ WholeFrames' = WholeFrames
    BY <1>8 DEF InOrder, WholeFrames, Whole, Memory, usbVars
  <2> QED
    BY <1>8, <2>1, <2>2 DEF FrameInv, usbVars
<1>9. CASE Notify \/ BeginResolution
  <2>1. UNCHANGED <<memory, size, device, working, stable, config>>
    BY <1>9 DEF Notify, BeginResolution, bufferVars, readerVars
  <2>2. /\ processor' \in ProcessorStates /\ processor'.lastId = processor.lastId
        /\ processor'.corrupted = processor.corrupted
    <3>1. CASE Notify
      BY <3>1 DEF Notify, FrameTypes
    <3>2. CASE BeginResolution
      BY <3>2 DEF BeginResolution, FrameTypes, ProcessorStates
    <3> QED
      BY <1>9, <3>1, <3>2
  <2>3. FrameTypes'
    BY <2>1, <2>2 DEF FrameTypes
  <2>4. Linked' = Linked
    BY <2>1, <2>2 DEF Linked
  <2>5. InOrder' = InOrder
    BY <2>1, <2>2 DEF InOrder, Memory
  <2>6. WholeFrames' = WholeFrames
    BY <2>1 DEF WholeFrames, Whole, Memory
  <2> QED
    BY <2>1, <2>3, <2>4, <2>5, <2>6 DEF FrameInv
<1>10. CASE BeginRead \/ ReadStable \/ EndRead \/ BeginFormat \/ UNCHANGED vars
  BY <1>8, <1>10 DEF BeginRead, ReadStable, EndRead, BeginFormat, bufferVars, readerVars, vars
<1>11. CASE EndFormat \/ EndResolution
  <2>1. /\ size' = 0 /\ stable' = NoBuffer /\ memory' = memory /\ processor' = NewProcessor
    BY <1>11 DEF EndFormat, EndResolution, Reallocate
  <2>2. InOrder'
    <3>1. device'.part \in 1 .. Parts
      BY <1>0 DEF FrameTypes, DeviceStates
    <3> QED
      BY <1>2, <2>1, <3>1 DEF InOrder
  <2> QED
    BY <1>0, <2>1, <2>2 DEF FrameInv, WholeFrames
<1> QED
  BY <1>4, <1>5, <1>6, <1>7, <1>9, <1>10, <1>11 DEF Next, Usb, Reader

\* If the pool has memory of its own, only whole frames of the format in force
\* become stable, whatever is lost, except packets right before the ids start
\* again.
THEOREM FramesAreWhole ==
  ASSUME ~External PROVE Spec => []WholeFrames
<1>1. Init => WholeFrames
  BY DEF Init, WholeFrames
<1> QED
  BY <1>1, InvInit, InvStep, MemoryInit, MemoryStep, FrameInit, FrameStep, PTL DEF Spec

\* Type correctness, whoever gives the memory.
THEOREM TypeCorrect == Spec => []TypeOK
<1>1. Init => ThreadTypes
  BY DEF Init, ThreadTypes, Buffers
<1>2. IInv /\ MemoryInv /\ FrameTypes /\ ThreadTypes => TypeOK
  <2> SUFFICES ASSUME IInv, MemoryInv, FrameTypes, ThreadTypes PROVE TypeOK
    OBVIOUS
  <2>1. PoolOK(pool, working, stable, Owned) /\ working \in Nat
    BY DEF IInv, BuffersInv
  <2>2. /\ pool.refs \in [DOMAIN pool.refs -> Nat] /\ pool.next \in Nat
        /\ DOMAIN pool.refs \subseteq Nat
    BY <2>1, PoolFields DEF PoolOK
  <2>3. /\ DOMAIN pool.refs \subseteq 0 .. pool.next - 1
        /\ pool.destroy \subseteq DOMAIN pool.refs /\ pool.free \subseteq DOMAIN pool.refs
        /\ stable \in Buffers
    BY <2>1, <2>2 DEF PoolOK, Buffers
  <2>4. /\ size \in 0 .. Parts /\ DOMAIN memory = Memories /\ config \in 0 .. MaxChanges
        /\ processor.on \in BOOLEAN /\ processor.corrupted \in BOOLEAN
        /\ processor.lastId \in 0 .. IdMod - 1
        /\ device.part \in 1 .. Parts /\ device.id \in 0 .. IdMod - 1
    BY DEF FrameTypes, MemoryInv, ProcessorStates, DeviceStates
  <2> QED
    BY <2>1, <2>2, <2>3, <2>4 DEF ThreadTypes, TypeOK
<1>3. IInv => BuffersInv
  BY DEF IInv
<1> QED
  BY <1>1, <1>2, <1>3, InvInit, InvStep, MemoryInit, MemoryStep, FrameInit,
     FrameTypesStep, ThreadTypesStep, PTL DEF Spec
=============================================================================
