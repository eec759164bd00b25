--------------------------- MODULE MCIsolatedBuild ---------------------------
(***************************************************************************)
(* A workspace for model checking IsolatedBuild: an alpine project, and a  *)
(* plain one that depends on it.                                           *)
(***************************************************************************)
EXTENDS IsolatedBuild

BaseAndLib == {"base", "lib"}
PlainLib   == {"lib"}
WithDeps   == {{"base"}, {"base", "lib"}}
BaseFirst  == [s \in WithDeps |-> IF "lib" \in s THEN <<"base", "lib">> ELSE <<"base">>]
=============================================================================
