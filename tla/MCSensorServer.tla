--------------------------- MODULE MCSensorServer ---------------------------
(***************************************************************************)
(* The clients for model checking SensorServer.                            *)
(***************************************************************************)
EXTENDS SensorServer
=============================================================================
