--------------------------- MODULE MCDeviceMemory ---------------------------
(***************************************************************************)
(* Sizes for model checking DeviceMemory: numbers of bytes.                *)
(***************************************************************************)
EXTENDS DeviceMemory, TLC

Bytes      == 0 .. 2
BytesUsed  == 1 .. 2
BytesFit   == {p \in Bytes \X Bytes : p[1] <= p[2]}

Symmetries == Permutations(Handles) \cup Permutations(Buffers)
=============================================================================
