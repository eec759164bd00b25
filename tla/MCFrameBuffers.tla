--------------------------- MODULE MCFrameBuffers ---------------------------
(***************************************************************************)
(* FrameBuffers with the pool of three that GetTripleBuffer makes.         *)
(***************************************************************************)
EXTENDS FrameBuffers
=============================================================================
