--------------------------- MODULE MCStreamReaders ---------------------------
(* Model-checking instances of StreamReaders. *)
EXTENDS StreamReaders

Headers == <<"CRLF", "CRLF">>

Packet(type, body) == <<type>> \o encode_varint(Len(body)) \o body

\* A CONNACK with a packet behind it, one whose length takes four bytes, a
\* refusal, one that is too short, an endless length, another packet.
Packets ==
  { Packet("CONNACK", <<"flags", "accepted">>) \o Packet("PINGRESP", <<>>),
    Packet("CONNACK", <<"flags", "accepted">> \o [i \in 1..10 |-> "p"]) \o <<"PINGRESP">>,
    Packet("CONNACK", <<"flags", "refused", "p">>),
    Packet("CONNACK", <<"flags">>),
    <<"CONNACK", "0+", "1+", "0+", "0+", "1", "p">>,
    Packet("PINGRESP", <<>>) }

\* Success and failure in HTTP and RTSP, a body, an endless header, another
\* protocol, and silence.
AllResponses ==
  { HttpHead \o Okay \o Headers \o <<"body">>,
    HttpHead \o Partial \o Headers,
    HttpHead \o NotFound \o Headers,
    HttpHead \o NotImplemented \o Headers,
    RtspOk \o Headers \o <<"body">>,
    <<"RT", "SP/1.0 ">> \o NotFound \o Headers,
    RtspOk \o <<"CRLF", "h", "h", "h", "h", "h">>,
    <<"SSH">>,
    <<>> } \cup Packets
=============================================================================
