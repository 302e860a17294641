--------------------------- MODULE MCDatagramPing ---------------------------
(* Model-checking instances of DatagramPing. *)
EXTENDS DatagramPing, TLC

CONSTANTS c1, c2, okServer, errorServer, noServer

\* A client of protocol k and one of protocol l; a testserver responder for
\* k, a server that answers everything with an error, and a closed port.
World(k, l) ==
  [proto |-> (c1 :> k @@ c2 :> l),
   service |-> (okServer :> k @@ errorServer :> "failing" @@ noServer :> "closed")]

\* Each protocol side by side with UDP, which has nothing to correlate.
Mixed == {World(k, "udp") : k \in {"dns", "ntp", "stun", "turn"}}
=============================================================================
