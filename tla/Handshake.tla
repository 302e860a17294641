------------------------------ MODULE Handshake ------------------------------
(***************************************************************************)
(* The pingers that hold a conversation over one connection against the    *)
(* thread (for gRPC: the task) testserver runs for it, or against a        *)
(* stranger: a server about which nothing is known.  "post" is HttpPinger  *)
(* with a request TCP may cut in two, "hls" one fetch of HlsPinger, "grpc" *)
(* GrpcPinger and "watch" GrpcStreamPinger.                                *)
(*                                                                         *)
(* Each end is a table of rules.  A rule says, for the read the program is *)
(* suspended in (at) and the unit that read returns (on), what it writes   *)
(* (say) before it goes on (to).  Where a table has no rule, the code      *)
(* returns Err (the pinger) or from its closure (the server's thread).     *)
(* A unit is what one read_exact, one packet or one frame holds; the two   *)
(* units of an RTSP or HLS request, of a POST and of an HLS answer are two *)
(* segments of it.                                                         *)
(*                                                                         *)
(* The connection is TCP: two FIFO channels, closed by FIN, or by RST when *)
(* data is left unread or arrives after the close.  After a RST the other  *)
(* end reads what is left or fails; which of the two is not determined.    *)
(* The path may break with a reset, or silently: then nothing arrives any  *)
(* more, neither data nor FIN (what had arrived is read before the loss),  *)
(* until the kernel gives up retransmitting or the path comes back.        *)
(***************************************************************************)
EXTENDS Integers, Sequences, FiniteSets, SequencesExt

CONSTANTS
  Protocols,   \* the pingers under study
  Peers,       \* subset of {"testserver", "stranger"}
  MaxSay       \* how much a stranger says

ASSUME HandshakeAssumption ==
  /\ Protocols \subseteq {"tcp", "rtsp", "rtmp", "mqtt", "ws",
                         "http", "post", "hls", "tls", "grpc", "watch"}
  /\ Peers \subseteq {"testserver", "stranger"}
  /\ MaxSay \in Nat

VARIABLES
  proto, peer,
  client,    \* the await ping() is suspended in, or "returned"
  server,    \* the read the thread is suspended in, "listen" or "gone"
  up, down,  \* what is under way to the server, to the client
  cend,      \* the client's side of the connection: open, fin, rst
  send,      \* the server's side
  out,       \* what ping() returned
  served,    \* history: the units the server has taken
  heard,     \* history: the units the client has taken
  said,      \* history: how many units a stranger has sent
  cut        \* the path: whole, silent or broken

vars == <<proto, peer, client, server, up, down, cend, send, out, served, heard, said, cut>>

----------------------------------------------------------------------------
(* The pingers *)

Rule(at, on, say, to) == [at |-> at, on |-> on, say |-> say, to |-> to]

\* level4.rs TcpPinger: a read of anything is the answer.
tcp_client == {Rule("read", m, <<>>, "ok") : m \in {"byte", "unwelcome"}}

\* rtsp.rs: OPTIONS, then its 200.
rtsp_client == {Rule("validate", "200 OK", <<>>, "ok")}

\* rtmp.rs run_handshake: S0 of version 3, then S1 and S2, which are read
\* whatever they hold, then C2.
rtmp_client ==
  {Rule("s0", "S0", <<>>, "s1")}
    \cup {Rule("s1", m, <<>>, "s2") : m \in {"S0", "S1", "S2", "unwelcome"}}
    \cup {Rule("s2", m, <<"C2">>, "ok") : m \in {"S0", "S1", "S2", "unwelcome"}}

\* MUTANT of mqtt_client: the first packet is not checked to be a CONNACK.
mqtt_client_lax ==
  {Rule("connack", "CONNACK", <<"PINGREQ">>, "pingresp"),
   Rule("connack", "PINGRESP", <<"PINGREQ">>, "pingresp"),
   Rule("pingresp", "PINGRESP", <<"DISCONNECT">>, "ok")}

\* mqtt.rs run_session; DISCONNECT is best effort.
mqtt_client ==
  {Rule("connack", "CONNACK", <<"PINGREQ">>, "pingresp"),
   Rule("pingresp", "PINGRESP", <<"DISCONNECT">>, "ok")}

\* MUTANT of ws_client: the server's own ping is not answered.
ws_client_mute ==
  {Rule("upgrade", "101", <<"Ping">>, "pong"),
   Rule("pong", "Pong", <<"Close">>, "ok"),
   Rule("pong", "Ping", <<>>, "pong"),
   Rule("pong", "Text", <<>>, "pong")}

\* websocket.rs run_handshake_and_ping; the close is best effort.
ws_client ==
  {Rule("upgrade", "101", <<"Ping">>, "pong"),
   Rule("pong", "Pong", <<"Close">>, "ok"),
   Rule("pong", "Ping", <<"Pong">>, "pong"),
   Rule("pong", "Text", <<>>, "pong")}

\* http.rs run_exchange: one read of a status line that passes.
http_client == {Rule("status", "200", <<>>, "ok")}

\* hls.rs fetch_response_body: reads to the end and judges then, by the
\* status alone.
hls_client ==
  {Rule("head", m, <<>>, IF m = "200" THEN "body" ELSE "bad") : m \in {"200", "body", "unwelcome"}}
    \cup {Rule(at, m, <<>>, at) : at \in {"body", "bad"}, m \in {"200", "body", "unwelcome"}}

\* tls_handshake.rs: the server's flight, certificate included, is verified.
tls_client == {Rule("hello", "flight", <<"Finished">>, "ok")}

\* grpc.rs GrpcPinger: the call is answered; the body must be SERVING.
grpc_client ==
  {Rule("check", "headers", <<>>, "body"),
   Rule("body", "SERVING", <<>>, "ok")}

\* grpc.rs GrpcStreamPinger: the call is answered, then the first message.
watch_client ==
  {Rule("watch", "headers", <<>>, "first"),
   Rule("first", "SERVING", <<>>, "ok")}

ClientRules(p) ==
  CASE p = "tcp"  -> tcp_client
    [] p = "rtsp" -> rtsp_client
    [] p = "rtmp" -> rtmp_client
    [] p = "mqtt" -> mqtt_client
    [] p = "ws"   -> ws_client
    [] p \in {"http", "post"} -> http_client
    [] p = "hls"  -> hls_client
    [] p = "tls"  -> tls_client
    [] p = "grpc" -> grpc_client
    [] p = "watch" -> watch_client

\* What each pinger writes first, and the read it then waits in.
Opening(p) ==
  CASE p = "tcp"  -> [say |-> <<"byte">>, to |-> "read"]
    [] p = "rtsp" -> [say |-> <<"OPTIONS", "headers">>, to |-> "validate"]
    [] p = "rtmp" -> [say |-> <<"C0", "C1">>, to |-> "s0"]
    [] p = "mqtt" -> [say |-> <<"CONNECT">>, to |-> "connack"]
    [] p = "ws"   -> [say |-> <<"GET">>, to |-> "upgrade"]
    [] p = "http" -> [say |-> <<"request">>, to |-> "status"]
    [] p = "post" -> [say |-> <<"request", "payload">>, to |-> "status"]
    [] p = "hls"  -> [say |-> <<"GET", "fields">>, to |-> "head"]
    [] p = "tls"  -> [say |-> <<"ClientHello">>, to |-> "hello"]
    [] p = "grpc" -> [say |-> <<"Check">>, to |-> "check"]
    [] p = "watch" -> [say |-> <<"Watch">>, to |-> "watch"]

----------------------------------------------------------------------------
(* The threads of testserver *)

tcp_echo == {Rule("read", "byte", <<"byte">>, "gone")}

\* MUTANT of rtsp_ok: answers what the first read returned.
rtsp_one_read == {Rule("read", "OPTIONS", <<"200 OK">>, "gone")}

rtsp_ok ==
  {Rule("read", "OPTIONS", <<>>, "rest"),
   Rule("rest", "headers", <<"200 OK">>, "gone")}

\* MUTANT of rtmp_ok: S2 is sent once C2 has been read.
rtmp_s2_last ==
  {Rule("c0", "C0", <<>>, "c1"),
   Rule("c1", "C1", <<"S0", "S1">>, "c2"),
   Rule("c2", "C2", <<"S2">>, "gone")}

rtmp_ok ==
  {Rule("c0", "C0", <<>>, "c1"),
   Rule("c1", "C1", <<"S0", "S1", "S2">>, "c2"),
   Rule("c2", "C2", <<>>, "gone")}

\* MUTANT of handle_mqtt_session: a PINGRESP comes with every CONNACK.
mqtt_eager ==
  {Rule("first", "CONNECT", <<"CONNACK", "PINGRESP">>, "loop"),
   Rule("loop", "PINGREQ", <<"PINGRESP">>, "loop")}

\* DISCONNECT, like every other packet type, ends the session.
handle_mqtt_session ==
  {Rule("first", "CONNECT", <<"CONNACK">>, "loop"),
   Rule("loop", "PINGREQ", <<"PINGRESP">>, "loop")}

\* Ping is answered, Close breaks the loop, anything else is ignored.
ws_ok ==
  {Rule("accept", "GET", <<"101">>, "loop"),
   Rule("loop", "Ping", <<"Pong">>, "loop"),
   Rule("loop", "Pong", <<>>, "loop"),
   Rule("loop", "Text", <<>>, "loop")}

\* One read, whatever it returns, then the answer.
http_ok == {Rule("read", m, <<"200">>, "gone") : m \in {"request", "payload"}}

\* One read as well, and its first line is looked at: of a request cut short,
\* the path may be there or not (404).
handle_hls ==
  {Rule("read", "fields", <<"200", "body">>, "gone"),
   Rule("read", "GET", <<"200", "body">>, "gone"),
   Rule("read", "GET", <<"unwelcome">>, "gone")}

\* The read drives the handshake, then waits for a request.
https_ok ==
  {Rule("read", "ClientHello", <<"flight">>, "flown"),
   Rule("flown", "Finished", <<>>, "request")}

\* tonic's health service; "" is SERVING.
grpc_ok ==
  {Rule("read", "Check", <<"headers", "SERVING">>, "read"),
   Rule("read", "Watch", <<"headers", "SERVING">>, "read")}

ServerRules(p) ==
  CASE p = "tcp"  -> tcp_echo
    [] p = "rtsp" -> rtsp_ok
    [] p = "rtmp" -> rtmp_ok
    [] p = "mqtt" -> handle_mqtt_session
    [] p = "ws"   -> ws_ok
    [] p \in {"http", "post"} -> http_ok
    [] p = "hls"  -> handle_hls
    [] p = "tls"  -> https_ok
    [] p \in {"grpc", "watch"} -> grpc_ok

FirstRead(p) ==
  CASE p = "rtmp" -> "c0"
    [] p = "mqtt" -> "first"
    [] p = "ws"   -> "accept"
    [] OTHER      -> "read"

\* What a stranger speaking p may say: what its rules know, and one unit
\* (a wrong version, a refused CONNECT, a Close frame) no rule accepts.
Vocabulary(p) ==
  {r.on : r \in ClientRules(p)} \cup {"unwelcome"}
    \cup IF p \in {"grpc", "watch"} THEN {"NOT_SERVING"} ELSE {}

\* What a unit answers and cannot be said without: the accept key of the
\* upgrade, the server's TLS flight, the frames of a call.  (A forged one is
\* the unwelcome unit.)
Prompt(m) ==
  CASE m = "101" -> {"GET"}
    [] m = "flight" -> {"ClientHello"}
    [] m \in {"headers", "SERVING", "NOT_SERVING"} -> {"Check", "Watch"}
    [] OTHER -> {}

\* How much one read of the thread may return: the one read of start_http_ok
\* and of handle_hls takes what has arrived, up to its buffer.
ReadSizes(p, n) == IF p \in {"post", "hls"} THEN 1..n ELSE {1}

----------------------------------------------------------------------------
(* The connection *)

\* Closing with data unread resets the connection.
Dropped(unread) == IF unread = <<>> THEN "fin" ELSE "rst"

\* Writing to a closed socket draws a reset.
Answered(end, say) == IF end # "open" /\ say # <<>> THEN "rst" ELSE end

Carried(chan, end, say) == IF end = "open" THEN chan \o say ELSE chan

Arriving == cut # "silent"

Talking == client \notin {"dial", "returned"}
Reading == Talking /\ client # "write"
Serving == server \notin {"listen", "gone"}

\* MUTANT of Return: the verdict is dropped.
ReturnSilent(o) == client' = "returned" /\ UNCHANGED out

\* ping() returns.
Return(o) ==
  /\ client' = "returned"
  /\ out' = o

----------------------------------------------------------------------------
(* The client *)

\* connect (and TLS) succeeds: listener.incoming() yields, a thread starts.
Connect ==
  /\ client = "dial"
  /\ client' = "write"
  /\ server' = FirstRead(proto)
  /\ UNCHANGED <<proto, peer, up, down, cend, send, out, served, heard, said, cut>>

\* The first write, an await of its own: the timer may strike before it.
Open ==
  /\ client = "write"
  /\ client' = Opening(proto).to
  /\ up' = Carried(up, send, Opening(proto).say)
  /\ send' = Answered(send, Opening(proto).say)
  /\ UNCHANGED <<proto, peer, server, down, cend, out, served, heard, said, cut>>

\* A unit no rule accepts: Err, and the stream is dropped.
Refused ==
  /\ Return("err")
  /\ cend' = Dropped(Tail(down))
  /\ UNCHANGED <<up, send>>

\* The read returns a unit.
ClientTake ==
  /\ Reading /\ down # <<>> /\ Arriving
  /\ LET m == Head(down)
         rules == {r \in ClientRules(proto) : r.at = client /\ r.on = m}
     IN  \/ rules = {} /\ Refused
         \/ \E r \in rules :
              /\ up' = Carried(up, send, r.say)
              /\ send' = Answered(send, r.say)
              /\ IF r.to = "ok"
                 THEN Return("ok") /\ cend' = Dropped(Tail(down))
                 ELSE client' = r.to /\ UNCHANGED <<out, cend>>
  /\ down' = Tail(down)
  /\ heard' = Append(heard, Head(down))
  /\ UNCHANGED <<proto, peer, server, served, said, cut>>

\* read_exact, next or the RTSP loop at the end of the stream; TcpPinger
\* does not look at how much it read, and an HLS fetch ends here.
ClientEof ==
  /\ Reading /\ down = <<>> /\ send = "fin" /\ cut = "whole"
  /\ Return(IF proto = "tcp" \/ (proto = "hls" /\ client = "body") THEN "ok" ELSE "err")
  /\ cend' = "fin"
  /\ UNCHANGED <<proto, peer, server, up, down, send, served, heard, said, cut>>

\* connect is refused; a read or write meets a reset connection.
ClientError ==
  /\ client = "dial" \/ (Talking /\ Arriving /\ (send = "rst" \/ cut = "broken"))
  /\ Return("err")
  /\ cend' = "rst"
  /\ UNCHANGED <<proto, peer, server, up, down, send, served, heard, said, cut>>

\* tonic's timer ends with the head of the answer: none watches the body of a
\* check or the first message of a watch.
Timed == ~(proto = "grpc" /\ client = "body") /\ ~(proto = "watch" /\ client = "first")

\* with_timeout (or tonic) drops the future, and the stream with it.
TimeOut ==
  /\ client # "returned" /\ Timed
  /\ Return("timedout")
  /\ cend' = Dropped(down)
  /\ UNCHANGED <<proto, peer, server, up, down, send, served, heard, said, cut>>

----------------------------------------------------------------------------
(* The server *)

\* The thread's closure ends and its stream is dropped.
Leave(unread) ==
  /\ server' = "gone"
  /\ send' = IF send = "rst" THEN "rst" ELSE Dropped(unread)

ServerTake ==
  /\ peer = "testserver" /\ Serving /\ up # <<>> /\ Arriving
  /\ \E n \in ReadSizes(proto, Len(up)) :
       LET left == SubSeq(up, n + 1, Len(up))
           rules == {r \in ServerRules(proto) : r.at = server /\ r.on = up[n]}
       IN  /\ \/ /\ rules = {}
                 /\ Leave(left)
                 /\ UNCHANGED <<down, cend>>
              \/ \E r \in rules :
                   /\ down' = Carried(down, cend, r.say)
                   /\ cend' = Answered(cend, r.say)
                   /\ IF r.to = "gone"
                      THEN Leave(left)
                      ELSE server' = r.to /\ UNCHANGED send
           /\ up' = left
           /\ served' = served \o SubSeq(up, 1, n)
  /\ UNCHANGED <<proto, peer, client, out, heard, said, cut>>

\* MUTANT of ServerEof: only a reset ends the thread, not an empty read.
ServerEofIgnored ==
  /\ peer = "testserver" /\ Serving /\ Arriving
  /\ cend = "rst"
  /\ Leave(up)
  /\ UNCHANGED <<proto, peer, client, up, down, cend, out, served, heard, said, cut>>

\* A read ends the thread when the client is gone: at once after a reset,
\* once everything has been read after a FIN.  (start_http_ok then writes its
\* answer all the same, to nobody.)
ServerEof ==
  /\ peer = "testserver" /\ Serving /\ Arriving
  /\ \/ cend = "fin" /\ up = <<>>
     \/ cend = "rst" \/ cut = "broken"
  /\ Leave(up)
  /\ UNCHANGED <<proto, peer, client, up, down, cend, out, served, heard, said, cut>>

\* A stranger says anything at any time, takes what comes, and hangs up.
StrangerSay(m) ==
  /\ peer = "stranger" /\ Serving /\ said < MaxSay
  /\ m \in Vocabulary(proto)
  /\ Prompt(m) = {} \/ Range(served) \cap Prompt(m) # {}
  /\ said' = said + 1
  /\ down' = Carried(down, cend, <<m>>)
  /\ cend' = Answered(cend, <<m>>)
  /\ UNCHANGED <<proto, peer, client, server, up, send, out, served, heard, cut>>

StrangerTake ==
  /\ peer = "stranger" /\ Serving /\ up # <<>> /\ Arriving
  /\ up' = Tail(up)
  /\ served' = Append(served, Head(up))
  /\ UNCHANGED <<proto, peer, client, server, down, cend, send, out, heard, said, cut>>

StrangerLeave ==
  /\ peer = "stranger" /\ Serving
  /\ Leave(up)
  /\ UNCHANGED <<proto, peer, client, up, down, cend, out, served, heard, said, cut>>

\* The path breaks, with a reset to both ends or with nothing; a silent loss
\* may still come to a reset.
Cut ==
  /\ \/ cut = "whole" /\ server # "listen" /\ (Talking \/ Serving)
        /\ cut' \in {"broken", "silent"}
     \/ cut = "silent" /\ cut' = "broken"
  /\ UNCHANGED <<proto, peer, client, server, up, down, cend, send, out, served, heard, said>>

----------------------------------------------------------------------------

Init ==
  /\ proto \in Protocols /\ peer \in Peers
  /\ client = "dial" /\ server = "listen"
  /\ up = <<>> /\ down = <<>>
  /\ cend = "open" /\ send = "open"
  /\ out = "none" /\ served = <<>> /\ heard = <<>> /\ said = 0 /\ cut = "whole"

Thread == ServerTake \/ ServerEof

Done == client = "returned" /\ UNCHANGED vars

Next ==
  \/ Connect \/ Open \/ ClientTake \/ ClientEof \/ ClientError \/ TimeOut
  \/ Thread
  \/ \E m \in Vocabulary(proto) : StrangerSay(m)
  \/ StrangerTake \/ StrangerLeave
  \/ Cut
  \/ Done

Spec == Init /\ [][Next]_vars

\* The OS schedules a thread whose blocking read can return; the runtime
\* fires an expired timer.  Nothing obliges a stranger or the network.
FairSpec == Spec /\ WF_vars(Thread) /\ WF_vars(TimeOut)

----------------------------------------------------------------------------
(* Properties *)

\* Every variable has its type; a ping that has returned has a verdict.
TypeOK ==
  /\ proto \in Protocols /\ peer \in Peers
  /\ client \in {"dial", "write", "returned", Opening(proto).to}
        \cup {r.at : r \in ClientRules(proto)} \cup {r.to : r \in ClientRules(proto)}
  /\ server \in {"listen", "gone"} \cup {r.at : r \in ServerRules(proto)}
        \cup {r.to : r \in ServerRules(proto)}
  /\ \A i \in 1..Len(down) : down[i] \in Vocabulary(proto)
  /\ cend \in {"open", "fin", "rst"} /\ send \in {"open", "fin", "rst"}
  /\ out \in {"none", "ok", "err", "timedout"}
  /\ said \in 0..MaxSay /\ cut \in {"whole", "silent", "broken"}
  /\ client = "returned" <=> out # "none"

\* A pinger and its test server never wait for each other: while both are
\* suspended in a read, something is under way to one of them.
NoMutualWait ==
  peer = "testserver" /\ Reading /\ Serving => up # <<>> \/ down # <<>>

\* What the server must have taken before the pinger may call it alive.
Evidence(p) ==
  CASE p = "tcp"  -> <<"byte">>
    [] p = "rtsp" -> <<"OPTIONS", "headers">>
    [] p = "rtmp" -> <<"C0", "C1">>
    [] p = "mqtt" -> <<"CONNECT", "PINGREQ">>
    [] p = "ws"   -> <<"GET", "Ping">>
    [] p \in {"http", "post"} -> <<"request">>
    [] p = "hls"  -> <<"GET">>
    [] p = "tls"  -> <<"ClientHello">>
    [] p = "grpc" -> <<"Check">>
    [] p = "watch" -> <<"Watch">>

\* Success against the test server is a full round trip: the server had read
\* everything the pinger's probe consists of before the pinger returned Ok.
SuccessIsServed ==
  peer = "testserver" /\ out = "ok" => IsPrefix(Evidence(proto), served)

\* Against the test server a ping fails only if the network broke the
\* connection or the timer fired: the server's closing never destroys the
\* answer on its way.  (A refused dial has no server thread.)  The exception
\* is a request that arrives in two segments at start_http_ok or handle_hls,
\* whose one read got the first: the answer may then be lost to the reset,
\* and handle_hls may not even have found the path in it.
NoSpuriousFailure ==
  peer = "testserver" /\ out = "err" =>
    \/ cut # "whole" \/ server = "listen"
    \/ proto = "post" /\ served = <<"request">>
    \/ proto = "hls" /\ served = <<"GET">>

\* What a server may interpose without the pinger minding.
Chatter == {"Text", "Ping"}

Script(p) ==
  CASE p = "rtsp" -> <<"200 OK">>
    [] p = "mqtt" -> <<"CONNACK", "PINGRESP">>
    [] p = "ws"   -> <<"101", "Pong">>
    [] p \in {"http", "post"} -> <<"200">>
    [] p = "tls"  -> <<"flight">>
    [] p \in {"grpc", "watch"} -> <<"headers", "SERVING">>

\* The units of s are those of the script, in order, and chatter.
Spells(s, script) ==
  \E at \in [1..Len(script) -> 1..Len(s)] :
    /\ \A i, j \in 1..Len(script) : i < j => at[i] < at[j]
    /\ \A i \in 1..Len(script) : s[at[i]] = script[i]
    /\ \A k \in 1..Len(s) : s[k] \in Chatter \/ \E i \in 1..Len(script) : at[i] = k

\* Success needs the whole handshake, in order and with nothing foreign in
\* it, whatever the server is.  (TcpPinger takes anything for an answer; an
\* HLS fetch takes any body after a good status; RtmpPinger looks at the
\* version in S0 and only counts the bytes of S1 and S2.)
SuccessHeardScript ==
  out = "ok" =>
    CASE proto = "tcp" -> TRUE
      [] proto = "rtmp" -> Len(heard) = 3 /\ Head(heard) = "S0"
      [] proto = "hls" -> heard # <<>> /\ Head(heard) = "200"
      [] OTHER -> Spells(heard, Script(proto))

Times(m, s) == Cardinality({i \in 1..Len(s) : s[i] = m})

\* As long as the server listens, each of its own pings has been answered by
\* one pong, also when the frames cross.  (A frame in place of the upgrade's
\* answer is an error.)
ServerPingsAnswered ==
  proto = "ws" /\ send = "open" /\ out # "err" =>
    Times("Pong", served \o up) = Times("Ping", heard)

\* Every thread testserver spawns ends, however the ping ended: no
\* conversation leaves a thread blocked in a read.  The exception is a silent
\* loss of the path: the threads read without a timeout and hear nothing of it.
EveryThreadEnds ==
  (peer = "testserver" /\ client = "returned") ~> ~Serving \/ cut = "silent"

\* websocket.rs, step 4: "wait for the matching PONG frame".
PongAnswersPing ==
  proto = "ws" /\ out = "ok" => Contains(served, "Ping")
=============================================================================
