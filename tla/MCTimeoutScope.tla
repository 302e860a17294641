---------------------------- MODULE MCTimeoutScope ----------------------------
(* TimeoutScope on every kind of pinger. *)
EXTENDS TimeoutScope

MCKinds == {"wrapped", "check", "watch", "quic"}
=============================================================================
