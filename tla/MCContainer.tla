---------------------------- MODULE MCContainer ----------------------------
(***************************************************************************)
(* Container with each mode, a command of the caller's, and no arguments;  *)
(* PORT unset, at its default, and at the port of the tcp mode.            *)
(***************************************************************************)
EXTENDS Container

MCArguments == { <<>>, <<"http">>, <<"tcp">>, <<"stdio">>, <<"sh", "-c">> }
MCPorts == {"8000", "8001"}

=============================================================================
