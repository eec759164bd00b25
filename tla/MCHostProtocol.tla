--------------------------- MODULE MCHostProtocol ---------------------------
(***************************************************************************)
(* Two processes for model checking HostProtocol: one reads data from the   *)
(* device, the other sets its parameters.                                  *)
(***************************************************************************)
EXTENDS HostProtocol

CONSTANTS Reader, Setter

TwoHosts == {Reader, Setter}

OneEach(u) == IF u = Reader THEN {"get"} ELSE {"set"}
=============================================================================
