---------------------------- MODULE MCPingDriver ----------------------------
(* Model-checking instances of PingDriver. *)
EXTENDS PingDriver
=============================================================================
