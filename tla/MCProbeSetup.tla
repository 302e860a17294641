---------------------------- MODULE MCProbeSetup ----------------------------
(* Targets, names, TURN answers and playlists to set up probes with. *)
EXTENDS ProbeSetup

MCCommands == {"tcp", "udp", "http", "ws", "dns", "mqtt", "grpc", "hls", "tls",
               "ntp", "stun", "turn", "rtsp", "rtmp", "quic"}

Schemes ==
  [tcp  |-> {"", "http"},          udp  |-> {"", "dns"},
   http |-> {"", "http", "https", "HTTPS", "ws"},
   ws   |-> {"", "ws", "wss"},     dns  |-> {"", "dns", "https"},
   mqtt |-> {"", "mqtt", "mqtts", "MQTTS", "https"},
   grpc |-> {"", "grpc", "grpcs", "http", "https", "mqtt"},
   hls  |-> {"", "http", "https", "HTTPS", "rtmp"},
   tls  |-> {"", "tls", "https", "HTTPS", "wss", "mqtts"},
   ntp  |-> {"", "dns"},           stun |-> {"", "wss"},
   turn |-> {""},                  rtsp |-> {"", "rtsp", "rtsps", "RTSPS", "http"},
   rtmp |-> {"", "rtmp", "rtmps", "https"},
   quic |-> {"", "quic", "QUIC", "https", "h3", "http"}]

\* 65536 and 65616 are cut to the ports 0 and 80.
Ports == {NoPort, BarePort, LongPort, Port(0), Port(80), Port(8080), Port(65536), Port(65616)}

AllTargets(c) ==
  {Target(s, k, h, p, <<>>) : s \in Schemes[c], k \in BOOLEAN, h \in {"", "h", V6, NoName}, p \in Ports}
    \cup {Target(s, FALSE, "h", p, <<"a", "m">>) : s \in Schemes[c], p \in {NoPort, Port(8080)}}

\* The targets for the subcommands that have details to vary.
Plain == {Target("", FALSE, "h", p, <<>>) : p \in {NoPort, Port(8080)}}
Playlists == {Target(s, FALSE, "h", p, path) : s \in {"", "https"}, p \in {NoPort, Port(8080)},
                                               path \in {<<>>, <<"m">>, <<"a", "m">>}}

\* Names of up to four labels of up to three bytes, the empty label included.
Names == UNION {[1..n -> 0..3] : n \in 1..4}

Other(len) == [type |-> 8, len |-> len, class |-> 4, number |-> 1]
Code(len, class, number) == [type |-> 9, len |-> len, class |-> class, number |-> number]

\* Attributes with and without padding; ERROR-CODEs that are too short, right,
\* right but for the reserved bits, and of another code.
Attrs == {Other(n) : n \in {0, 3, 4, 5, 8}}
           \cup {Code(3, 4, 1), Code(4, 4, 1), Code(6, 12, 1), Code(4, 4, 38)}

Datagrams ==
  {[attrs |-> s, cut |-> k] : s \in UNION {[1..n -> Attrs] : n \in 0..2}, k \in 0..24}

\* Cut at most at the end.
Received(d) == d.cut <= Total(Extent(d.attrs))

Refs == {Rooted(<<"v">>), Sibling(<<"s">>), Sibling(<<"d", "s">>),
         Absolute(Target("https", FALSE, "cdn", NoPort, <<"x", "s">>)),
         Absolute(Target("http", FALSE, "cdn", BarePort, <<"s">>))}

M3u == Tag("#EXTM3U")
StreamInf == Tag("#EXT-X-STREAM-INF")
Inf == Tag("#EXTINF")
Comment == Tag("#")
Stray == Line(Sibling(<<"stray">>))

\* Playlists that lead to r, with tags between and a stray line before, that
\* lead nowhere, that are no playlist, and an empty body.
Masters(r) == {<<M3u, StreamInf, Comment, Line(r), StreamInf, Stray>>, <<M3u, Stray, StreamInf, Line(r)>>}
Medias(r) == {<<M3u, Inf, Line(r), Inf, Stray>>, <<M3u, Stray, Inf, Comment, Line(r)>>, <<Inf, Line(r)>>}
DeadEnds == {<<M3u, StreamInf, Comment>>, <<M3u, Stray>>, <<>>}

Texts == UNION {Masters(r) \cup Medias(r) : r \in Refs} \cup DeadEnds

Details(c) ==
  CASE c = "dns"  -> Names
    [] c = "turn" -> {d \in Datagrams : Received(d)}
    [] c = "hls"  -> {<<a, b, <<>>>> : a, b \in Texts}
    [] OTHER      -> {<<>>}

\* All targets with one detail, and all details with a few targets.
Usual(c) ==
  CASE c = "dns"  -> <<1>>
    [] c = "turn" -> [attrs |-> <<Code(4, 4, 1)>>, cut |-> 8]
    [] c = "hls"  -> <<<<M3u, Inf, Line(Sibling(<<"s">>))>>, <<>>, <<>>>>
    [] OTHER      -> <<>>

Job(t, d) == [target |-> t, detail |-> d]

MCJobsOf(c) ==
  {Job(t, Usual(c)) : t \in AllTargets(c)}
    \cup {Job(t, d) : t \in IF c = "hls" THEN Playlists ELSE Plain, d \in Details(c)}

MCAnswers == {<<>>, <<"v4">>, <<"v6">>, <<"v6", "v4">>}
=============================================================================
