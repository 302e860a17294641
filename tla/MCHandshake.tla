----------------------------- MODULE MCHandshake -----------------------------
(* Handshake on every pinger that holds a conversation. *)
EXTENDS Handshake

MCProtocols == {"tcp", "rtsp", "rtmp", "mqtt", "ws",
                "http", "post", "hls", "tls", "grpc", "watch"}
=============================================================================
