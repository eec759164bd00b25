---------------------------- MODULE FrameBuffers ----------------------------
(***************************************************************************)
(* How the SensorKinect driver hands frames from its USB thread to the     *)
(* thread that reads a stream (XnFrameBufferManager over an XnBufferPool). *)
(* The USB thread assembles the packets of a frame in the working buffer   *)
(* and then makes it the stable one; the reader takes a reference to the   *)
(* stable buffer and keeps it until its next read.  A change of the output *)
(* format replaces buffers and processor under the processor's lock; a     *)
(* change of the resolution closes the stream first.                       *)
(*                                                                         *)
(* Each packet brings one part of a frame; the first is the start-of-frame *)
(* packet and the last the end-of-frame packet.  Memory is a row of parts, *)
(* each <<config, frame, part>>, where config counts the changes of format *)
(* and resolution.  Which of the free buffers GetBuffer takes (the first   *)
(* of a list) is left open.                                                *)
(***************************************************************************)
EXTENDS Naturals, Sequences

CONSTANTS
  NumBuffers,  (* buffers of the pool: 3, or as many as an external pool has *)
  External,    (* does the caller give the memory (XnExternalBufferPool)?    *)
  Parts,       (* packets of a frame                                         *)
  IdMod,       (* packet ids count from 0 to IdMod - 1 (2^16)                *)
  NoBuffer,
  MaxFrames,   (* bound: frames the device sends                             *)
  MaxChanges,  (* bound: changes of format or resolution                     *)
  MaxGap       (* bound: packets lost in a row                               *)

ASSUME BoundsAssumption ==
  MaxFrames \in Nat /\ MaxChanges \in Nat /\ MaxGap \in Nat /\ MaxGap < IdMod
ASSUME PoolAssumption == NumBuffers \in Nat /\ NumBuffers >= 3 /\ NoBuffer \notin Nat
ASSUME PacketAssumption == Parts \in Nat /\ Parts >= 2 /\ IdMod \in Nat \ {0}

\* Buffers are numbered as they are made: NumBuffers when the pool is, as many
\* when the buffer manager is, and as many with every change of size.
Memories == 0 .. (MaxChanges + 2) * NumBuffers - 1

VARIABLES
  pool,      (* the XnBufferPool                                             *)
  memory,    (* the parts in each piece of memory                            *)
  size,      (* the parts in the working buffer (its m_nSize)                *)
  working, stable,
  manager,   (* is m_hLock of the buffer manager left locked?                *)
  flag,      (* m_bNewDataAvailable                                          *)
  processor, (* the state of the data processor                              *)
  lock,      (* who has the lock of the processor's holder                   *)
  usb,       (* is the USB thread between publishing and notifying?          *)
  device,    (* the next packet: its frame, part and id, the number lost     *)
             (* before it, and (history) was one ever lost at an id restart? *)
  reader,    (* where the reading thread is                                  *)
  held,      (* pLockedBuffer: the buffer of the reader's stream data        *)
  config     (* changes of format or resolution so far                       *)

bufferVars == <<pool, working, stable, manager>>
readerVars == <<reader, held, config>>
usbVars    == <<memory, size, processor, usb, device>>
vars == <<bufferVars, usbVars, readerVars, flag, lock>>

-----------------------------------------------------------------------------
(* XnBufferPool.  refs has the buffers of m_AllBuffers for its domain.     *)

Fresh(next) == next .. next + NumBuffers - 1

\* ChangeBufferSize: FreeAll(FALSE) and AllocateBuffers.
Changed(p) ==
  LET locked == {b \in DOMAIN p.refs : p.refs[b] > 0}
  IN  [refs    |-> [b \in locked \cup Fresh(p.next) |->
                      IF b \in locked THEN p.refs[b] ELSE 0],
       destroy |-> locked,
       free    |-> Fresh(p.next),
       next    |-> p.next + NumBuffers]

DroppedAlways(p, b) ==  \* mutant: a buffer is returned while others have it
  IF b = NoBuffer THEN p
  ELSE [p EXCEPT !.refs[b] = 0, !.free = @ \cup {b}]

DroppedListed(p, b) ==  \* mutant: a destroyed buffer stays on the list
  IF b = NoBuffer THEN p
  ELSE IF p.refs[b] > 1 THEN [p EXCEPT !.refs[b] = @ - 1]
  ELSE IF b \in p.destroy
  THEN [p EXCEPT !.refs = [c \in DOMAIN p.refs \ {b} |-> p.refs[c]]]
  ELSE [p EXCEPT !.refs[b] = 0, !.free = @ \cup {b}]

\* DecRef.
Dropped(p, b) ==
  IF b = NoBuffer THEN p
  ELSE IF p.refs[b] > 1 THEN [p EXCEPT !.refs[b] = @ - 1]
  ELSE IF b \in p.destroy
  THEN [p EXCEPT !.refs = [c \in DOMAIN p.refs \ {b} |-> p.refs[c]],
                 !.destroy = @ \ {b}]
  ELSE [p EXCEPT !.refs[b] = 0, !.free = @ \cup {b}]

\* AddRef.
Shared(p, b) ==
  IF b = NoBuffer THEN p ELSE [p EXCEPT !.refs[b] = @ + 1]

\* GetBuffer, when b is the first of the free ones.
Taken(p, b) == [p EXCEPT !.refs[b] = 1, !.free = @ \ {b}]

\* An external pool hands out the same memory after every change of size.
Memory(b) == IF External THEN b % NumBuffers ELSE b

-----------------------------------------------------------------------------
Nothing == <<>>  \* memory nobody has written

NewProcessor == [on |-> TRUE, lastId |-> 0, corrupted |-> FALSE]

NewPool == [refs |-> [b \in Fresh(0) |-> 0], destroy |-> {},
            free |-> Fresh(0), next |-> NumBuffers]

\* The stream is open: the pool was sized when it was made, and again when
\* the buffer manager was, and a working buffer is taken.  The reader's
\* stream data still has memory of its own.
Init ==
  /\ pool = Taken(Changed(NewPool), NumBuffers) /\ working = NumBuffers
  /\ stable = NoBuffer /\ manager = FALSE
  /\ memory = [m \in Memories |-> [i \in 1 .. Parts |-> Nothing]] /\ size = 0
  /\ flag = FALSE /\ processor = NewProcessor
  /\ lock = "nobody" /\ usb = "packets"
  /\ device = [frame |-> 1, part |-> 1, id |-> 0, gap |-> 0,
               hidden |-> FALSE]
  /\ reader = "idle" /\ held = NoBuffer /\ config = 0

-----------------------------------------------------------------------------
(* The USB thread.                                                         *)

\* The packet that follows one.
Following(d) ==
  [d EXCEPT !.frame = IF d.part = Parts THEN @ + 1 ELSE @,
            !.part  = IF d.part = Parts THEN 1 ELSE @ + 1,
            !.id    = (@ + 1) % IdMod,
            !.gap   = 0]

\* ProcessData: a packet is missing, unless its id says that ids start again.
Lost == device.id # processor.lastId + 1 /\ device.id # 0

\* m_bFrameCorrupted when the contents of the packet are processed: a packet
\* lost corrupts the frame, and the start of a frame is a fresh start.
Corrupted == (processor.corrupted \/ Lost) /\ device.part # 1

\* The size of the write buffer then.
Before == IF device.part = 1 THEN 0 ELSE size

\* CheckWriteBufferForOverflow.
Fits == Before < Parts

\* The size of the write buffer after the packet.
After == IF ~Corrupted /\ Fits THEN Before + 1 ELSE Before

Written ==
  IF Corrupted \/ ~Fits THEN memory
  ELSE [memory EXCEPT ![Memory(working)][Before + 1] =
          <<config, device.frame, device.part>>]

\* OnEndOfFrame: a frame of another size than expected is corrupt.
SpoiledUnsized == Corrupted \/ ~Fits  \* mutant: the size is not checked
Spoiled == Corrupted \/ ~Fits \/ After # Parts

Processed(c) == [processor EXCEPT !.lastId = device.id, !.corrupted = c]

\* A packet comes while nobody else has the processor.
Packet ==
  /\ usb = "packets" /\ lock = "nobody" /\ processor.on
  /\ device.frame <= MaxFrames
  /\ memory' = Written /\ device' = Following(device)

\* A packet within a frame.
Middle ==
  /\ Packet /\ device.part # Parts
  /\ size' = After /\ processor' = Processed(Corrupted \/ ~Fits)
  /\ UNCHANGED <<bufferVars, readerVars, flag, lock, usb>>

\* The last packet of a corrupted frame: the working buffer is used again.
EndCorrupted ==
  /\ Packet /\ device.part = Parts /\ Spoiled
  /\ size' = 0 /\ processor' = Processed(TRUE)
  /\ UNCHANGED <<bufferVars, readerVars, flag, lock, usb>>

PublishAnyway ==  \* mutant: the previous stable buffer is not released
  /\ ~manager /\ stable' = working
  /\ manager' = (pool.free = {})
  /\ \E b \in IF pool.free = {} THEN {working} ELSE pool.free :
       /\ working' = b
       /\ pool' = IF pool.free = {} THEN pool ELSE Taken(pool, b)

\* MarkWriteBufferAsStable: with no buffer to work in next, the frame is given
\* up, and m_hLock is not left.
Publish ==
  LET rest   == Dropped(pool, stable)
      failed == rest.free = {}
  IN  /\ ~manager
      /\ manager' = failed
      /\ stable' = IF failed THEN stable ELSE working
      /\ \E b \in IF failed THEN {working} ELSE rest.free :
           /\ working' = b
           /\ pool' = IF failed THEN pool ELSE Taken(rest, b)

\* The last packet of a frame that is whole.
EndOfFrame ==
  /\ Packet /\ device.part = Parts /\ ~Spoiled
  /\ Publish
  /\ size' = 0 /\ processor' = Processed(FALSE)
  /\ usb' = (IF manager' THEN "packets" ELSE "notify")
  /\ lock' = (IF manager' THEN "nobody" ELSE "usb")
  /\ UNCHANGED <<readerVars, flag>>

\* The new frame event reaches the stream, and the processor is left.
Notify ==
  /\ usb = "notify" /\ usb' = "packets"
  /\ flag' = TRUE /\ lock' = "nobody"
  /\ UNCHANGED <<bufferVars, readerVars, memory, size, processor, device>>

\* A packet does not arrive.
Lose ==
  /\ usb = "packets" /\ processor.on
  /\ device.frame <= MaxFrames /\ device.gap < MaxGap
  /\ device' = [Following(device) EXCEPT !.gap = device.gap + 1,
                   !.hidden = @ \/ device.id = IdMod - 1]
  /\ UNCHANGED <<bufferVars, readerVars, memory, size, processor, flag, lock, usb>>

-----------------------------------------------------------------------------
(* The reading thread: XnFrameStream::Read.                                *)

\* There is new data: the buffer of the last read is let go.
BeginRead ==
  /\ reader = "idle" /\ flag
  /\ reader' = "read" /\ pool' = Dropped(pool, held)
  /\ UNCHANGED <<usbVars, working, stable, manager, held, config, flag, lock>>

\* ReadLastStableBuffer.
ReadStable ==
  /\ reader = "read" /\ ~manager
  /\ reader' = "mark" /\ held' = stable /\ pool' = Shared(pool, stable)
  /\ UNCHANGED <<usbVars, working, stable, manager, config, flag, lock>>

\* "we don't have new info": also if there is by now.
EndRead ==
  /\ reader = "mark"
  /\ reader' = "idle" /\ flag' = FALSE
  /\ UNCHANGED <<bufferVars, usbVars, held, config, lock>>

-----------------------------------------------------------------------------
(* The same thread changes the stream.                                     *)

BeginFormatUnlocked ==  \* mutant: the flag is reset before the lock is taken
  /\ reader = "idle" /\ config < MaxChanges
  /\ reader' = "format" /\ flag' = FALSE
  /\ UNCHANGED <<bufferVars, usbVars, held, config, lock>>

\* SetOutputFormat of an open stream begins: the processor is locked, and when
\* the size changes what was new is no more.
BeginFormat ==
  /\ reader = "idle" /\ config < MaxChanges
  /\ lock = "nobody" /\ lock' = "reader"
  /\ reader' = "format" /\ flag' = FALSE
  /\ UNCHANGED <<bufferVars, usbVars, held, config>>

\* SetResolution closes the stream: the processor goes, and so does the thread
\* that reads from USB.
BeginResolution ==
  /\ reader = "idle" /\ config < MaxChanges
  /\ lock = "nobody"
  /\ processor' = [processor EXCEPT !.on = FALSE]
  /\ reader' = "resolution" /\ flag' = FALSE
  /\ UNCHANGED <<bufferVars, memory, size, usb, device, held, config, lock>>

\* Reallocate, with nothing else to take a buffer.
Reallocate ==
  LET rest == Dropped(Dropped(Changed(pool), working), stable)
  IN  /\ ~manager
      /\ \E b \in rest.free : working' = b /\ pool' = Taken(rest, b)
      /\ stable' = NoBuffer /\ size' = 0
      /\ config' = config + 1
      /\ UNCHANGED <<manager, memory, held>>

EndFormatLocked ==  \* mutant: the processor is not unlocked
  /\ reader = "format" /\ reader' = "idle"
  /\ Reallocate
  /\ processor' = NewProcessor
  /\ UNCHANGED <<usb, device, flag, lock>>

\* The buffers are replaced and a processor of the new format takes over.
EndFormat ==
  /\ reader = "format" /\ reader' = "idle"
  /\ Reallocate
  /\ processor' = NewProcessor
  /\ lock' = "nobody"
  /\ UNCHANGED <<usb, device, flag>>

\* The buffers are replaced and the stream is opened: it starts with a frame.
EndResolution ==
  /\ reader = "resolution" /\ reader' = "idle"
  /\ Reallocate
  /\ processor' = NewProcessor
  /\ device' = [device EXCEPT !.frame = @ + 1, !.part = 1, !.gap = 0]
  /\ UNCHANGED <<usb, flag, lock>>

Usb    == Middle \/ EndCorrupted \/ EndOfFrame \/ Notify
Reader == BeginRead \/ ReadStable \/ EndRead \/ EndFormat \/ EndResolution

Next == Usb \/ Lose \/ Reader \/ BeginFormat \/ BeginResolution

Spec == Init /\ [][Next]_vars

\* The threads run while they can.  Nobody owes a packet lost or a change.
FairSpec == Spec /\ WF_vars(Usb) /\ WF_vars(Reader)

-----------------------------------------------------------------------------
(* Properties.                                                             *)

Buffers == Nat \cup {NoBuffer}

\* Type correctness.
TypeOK ==
  /\ pool.refs \in [DOMAIN pool.refs -> Nat]
  /\ pool.next \in Nat /\ DOMAIN pool.refs \subseteq 0 .. pool.next - 1
  /\ pool.destroy \subseteq DOMAIN pool.refs /\ pool.free \subseteq DOMAIN pool.refs
  /\ working \in Nat /\ stable \in Buffers /\ held \in Buffers
  /\ manager \in BOOLEAN /\ flag \in BOOLEAN
  /\ size \in 0 .. Parts
  /\ DOMAIN memory = Memories
  /\ processor.on \in BOOLEAN /\ processor.corrupted \in BOOLEAN
  /\ processor.lastId \in 0 .. IdMod - 1
  /\ lock \in {"nobody", "usb", "reader"} /\ usb \in {"packets", "notify"}
  /\ device.part \in 1 .. Parts /\ device.id \in 0 .. IdMod - 1
  /\ reader \in {"idle", "read", "mark", "format", "resolution"}
  /\ config \in 0 .. MaxChanges

\* The buffer the reader has a reference to (a read lets go of it first).
Owned == IF reader = "read" THEN NoBuffer ELSE held

Ones(b) == (IF working = b THEN 1 ELSE 0) + (IF stable = b THEN 1 ELSE 0)
           + (IF Owned = b THEN 1 ELSE 0)

\* Every buffer counts those who have it; the free ones are those nobody has,
\* and a buffer to be destroyed is gone with its last owner.
RefsCountOwners ==
  /\ {working, stable, Owned} \ {NoBuffer} \subseteq DOMAIN pool.refs
  /\ \A b \in DOMAIN pool.refs : pool.refs[b] = Ones(b)
  /\ pool.free = {b \in DOMAIN pool.refs : pool.refs[b] = 0}
  /\ pool.free \cap pool.destroy = {}

\* MarkWriteBufferAsStable always finds a buffer to go on with (its failure is
\* an assertion that is never reached), so m_hLock is never left locked.
NeverExhausted == ~manager

\* What the reader was given is not written to until its next read.
HeldUntouched ==
  [][held # NoBuffer /\ reader # "read" /\ held' = held /\ reader' # "read" =>
       memory'[Memory(held)] = memory[Memory(held)]]_vars

\* A read that begins finds a stable buffer: the flag is not left standing
\* when a change has thrown the buffers away.
FlagMeansStable == flag \/ reader = "read" => stable # NoBuffer

\* The frame in a buffer: all its parts, of one frame, of this configuration.
Whole(b) ==
  \E f \in 1 .. MaxFrames :
    memory[Memory(b)] = [i \in 1 .. Parts |-> <<config, f, i>>]

\* Only whole frames, of the format in force, become stable, whatever is lost,
\* except packets lost right before the ids start again, which no id tells of.
WholeFrames == stable # NoBuffer /\ ~device.hidden => Whole(stable)

\* Neither the device nor the reader is held up for good: whoever waits for a
\* lock gets it.
StreamGoesOn ==
  <>(device.frame > MaxFrames) /\ (reader # "idle" ~> reader = "idle")
=============================================================================
