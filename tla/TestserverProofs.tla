-------------------------- MODULE TestserverProofs --------------------------
(***************************************************************************)
(* The pingers and testserver agree: no pinger and its thread wait for     *)
(* each other, no answer is lost to a close, and a success is a full round *)
(* trip.  The argument has two halves.  Scenes lists, for each pinger, the *)
(* moments of its conversation; Agreed says that each end knows what it    *)
(* reads in each of them and leads to the next, which is settled by the    *)
(* two tables alone.  The steps of the specification then keep the         *)
(* conversation in one of its scenes, until the ping returns: also when    *)
(* the timer strikes, and when the path breaks, or is lost silently, and   *)
(* the server leaves in the middle of it.                                  *)
(***************************************************************************)
EXTENDS HandshakeProofs

\* A moment of the conversation with testserver: the read each end is in, what
\* is under way to the server and to the pinger, and what the server has taken.
Scene(c, s, u, d, v) == [client |-> c, server |-> s, up |-> u, down |-> d, served |-> v]

\* The whole conversation, for each pinger.
Scenes(p) ==
  CASE p = "tcp" ->
         {Scene("write", "read", <<>>, <<>>, <<>>),
          Scene("read", "read", <<"byte">>, <<>>, <<>>),
          Scene("read", "gone", <<>>, <<"byte">>, <<"byte">>)}
    [] p = "rtsp" ->
         {Scene("write", "read", <<>>, <<>>, <<>>),
          Scene("validate", "read", <<"OPTIONS", "headers">>, <<>>, <<>>),
          Scene("validate", "rest", <<"headers">>, <<>>, <<"OPTIONS">>),
          Scene("validate", "gone", <<>>, <<"200 OK">>, <<"OPTIONS", "headers">>)}
    [] p = "rtmp" ->
         {Scene("write", "c0", <<>>, <<>>, <<>>),
          Scene("s0", "c0", <<"C0", "C1">>, <<>>, <<>>),
          Scene("s0", "c1", <<"C1">>, <<>>, <<"C0">>),
          Scene("s0", "c2", <<>>, <<"S0", "S1", "S2">>, <<"C0", "C1">>),
          Scene("s1", "c2", <<>>, <<"S1", "S2">>, <<"C0", "C1">>),
          Scene("s2", "c2", <<>>, <<"S2">>, <<"C0", "C1">>)}
    [] p = "mqtt" ->
         {Scene("write", "first", <<>>, <<>>, <<>>),
          Scene("connack", "first", <<"CONNECT">>, <<>>, <<>>),
          Scene("connack", "loop", <<>>, <<"CONNACK">>, <<"CONNECT">>),
          Scene("pingresp", "loop", <<"PINGREQ">>, <<>>, <<"CONNECT">>),
          Scene("pingresp", "loop", <<>>, <<"PINGRESP">>, <<"CONNECT", "PINGREQ">>)}
    [] p = "ws" ->
         {Scene("write", "accept", <<>>, <<>>, <<>>),
          Scene("upgrade", "accept", <<"GET">>, <<>>, <<>>),
          Scene("upgrade", "loop", <<>>, <<"101">>, <<"GET">>),
          Scene("pong", "loop", <<"Ping">>, <<>>, <<"GET">>),
          Scene("pong", "loop", <<>>, <<"Pong">>, <<"GET", "Ping">>)}
    [] p = "http" ->
         {Scene("write", "read", <<>>, <<>>, <<>>),
          Scene("status", "read", <<"request">>, <<>>, <<>>),
          Scene("status", "gone", <<>>, <<"200">>, <<"request">>)}
    [] p = "post" ->
         {Scene("write", "read", <<>>, <<>>, <<>>),
          Scene("status", "read", <<"request", "payload">>, <<>>, <<>>),
          Scene("status", "gone", <<"payload">>, <<"200">>, <<"request">>),
          Scene("status", "gone", <<>>, <<"200">>, <<"request", "payload">>)}
    [] p = "hls" ->
         {Scene("write", "read", <<>>, <<>>, <<>>),
          Scene("head", "read", <<"GET", "fields">>, <<>>, <<>>),
          Scene("head", "gone", <<>>, <<"200", "body">>, <<"GET", "fields">>),
          Scene("body", "gone", <<>>, <<"body">>, <<"GET", "fields">>),
          Scene("body", "gone", <<>>, <<>>, <<"GET", "fields">>),
          Scene("head", "gone", <<"fields">>, <<"200", "body">>, <<"GET">>),
          Scene("body", "gone", <<"fields">>, <<"body">>, <<"GET">>),
          Scene("body", "gone", <<"fields">>, <<>>, <<"GET">>),
          Scene("head", "gone", <<"fields">>, <<"unwelcome">>, <<"GET">>),
          Scene("bad", "gone", <<"fields">>, <<>>, <<"GET">>)}
    [] p = "tls" ->
         {Scene("write", "read", <<>>, <<>>, <<>>),
          Scene("hello", "read", <<"ClientHello">>, <<>>, <<>>),
          Scene("hello", "flown", <<>>, <<"flight">>, <<"ClientHello">>)}
    [] p = "grpc" ->
         {Scene("write", "read", <<>>, <<>>, <<>>),
          Scene("check", "read", <<"Check">>, <<>>, <<>>),
          Scene("check", "read", <<>>, <<"headers", "SERVING">>, <<"Check">>),
          Scene("body", "read", <<>>, <<"SERVING">>, <<"Check">>)}
    [] p = "watch" ->
         {Scene("write", "read", <<>>, <<>>, <<>>),
          Scene("watch", "read", <<"Watch">>, <<>>, <<>>),
          Scene("watch", "read", <<>>, <<"headers", "SERVING">>, <<"Watch">>),
          Scene("first", "read", <<>>, <<"SERVING">>, <<"Watch">>)}

\* The one rule a table has for a unit at a read.
TheRule(table, at, on, r) == r \in table /\ \A q \in table : q.at = at /\ q.on = on <=> q = r

\* The pinger's first write leads to the next scene.
Begins(p, x) ==
  x.client = "write" =>
    /\ x.down = <<>>
    /\ Scene(Opening(p).to, x.server, x.up \o Opening(p).say, x.down, x.served) \in Scenes(p)

\* What is under way to the server after a write; to a server that has left,
\* nothing is written.
Written(x, say) == IF x.server = "gone" THEN x.up ELSE x.up \o say

\* The pinger knows the unit it reads next: it succeeds, on the evidence the
\* server has, or goes on to the next scene.
ClientGoesOn(p, x) ==
  x.down # <<>> =>
    \E r \in ClientRules(p) :
      /\ TheRule(ClientRules(p), x.client, Head(x.down), r)
      /\ x.server = "gone" => r.say = <<>>
      /\ IF r.to = "ok" THEN IsPrefix(Evidence(p), x.served)
         ELSE Scene(r.to, x.server, Written(x, r.say), Tail(x.down), x.served) \in Scenes(p)

\* The server's thread knows what it reads next, however much that is, and
\* whatever it answers leads to the next scene.
ServerGoesOn(p, x) ==
  x.up # <<>> /\ x.server # "gone" =>
    \A n \in ReadSizes(p, Len(x.up)) :
      /\ \E r \in ServerRules(p) : r.at = x.server /\ r.on = x.up[n]
      /\ \A r \in ServerRules(p) :
           r.at = x.server /\ r.on = x.up[n] =>
             Scene(x.client, r.to, SubSeq(x.up, n + 1, Len(x.up)), x.down \o r.say,
                   x.served \o SubSeq(x.up, 1, n)) \in Scenes(p)

\* The one read of start_http_ok or of handle_hls got a part of the request.
Short(p, v) == (p = "post" /\ v = <<"request">>) \/ (p = "hls" /\ v = <<"GET">>)

\* Someone has something to read, and a server that leaves has left an answer.
Alive(p, x) ==
  /\ x.client \notin {"dial", "returned"} /\ x.server # "listen"
  /\ x.server # "gone" => x.client = "write" \/ x.up # <<>> \/ x.down # <<>>
  /\ x.server = "gone" =>
       /\ x.client # "write"
       /\ x.up # <<>> => Short(p, x.served)
       /\ x.down = <<>> /\ x.up = <<>> =>
            p = "hls" /\ x.client = "body" /\ IsPrefix(Evidence(p), x.served)

Plays(p, x) == Begins(p, x) /\ ClientGoesOn(p, x) /\ ServerGoesOn(p, x) /\ Alive(p, x)

\* The two tables agree: every scene leads to another one, or to success.
Agreed(p) ==
  /\ Scene("write", FirstRead(p), <<>>, <<>>, <<>>) \in Scenes(p)
  /\ \A x \in Scenes(p) : Plays(p, x)

----------------------------------------------------------------------------
(* The inductive invariant *)

\* Each end closes its side when it leaves, and only then.
Closing ==
  /\ Talking => cend = "open"
  /\ Serving => send = "open"
  /\ client = "dial" =>
       /\ server = "listen" /\ up = <<>> /\ down = <<>> /\ served = <<>> /\ cut = "whole"
       /\ cend = "open" /\ send = "open"
  /\ Talking => server # "listen"

\* The conversation is at x; once the network has broken the connection, the
\* server may have left it.
Playing(x) ==
  /\ client = x.client /\ down = x.down /\ served = x.served
  /\ Serving \/ cut = "whole" => server = x.server /\ up = x.up
  /\ server = "gone" /\ cut = "whole" => send = Dropped(x.up)

InScene == Talking => \E x \in Scenes(proto) : Playing(x)

\* How a ping may have ended.
Ended ==
  /\ out = "ok" => IsPrefix(Evidence(proto), served)
  /\ out = "err" => \/ cut # "whole"
                    \/ server = "listen"
                    \/ Short(proto, served) /\ server = "gone"

TestserverInv == peer = "testserver" => Closing /\ InScene /\ Ended

----------------------------------------------------------------------------
(* The steps *)

LEMMA SceneIs ==
  ASSUME NEW c, NEW s, NEW u, NEW d, NEW v
  PROVE  /\ Scene(c, s, u, d, v).client = c /\ Scene(c, s, u, d, v).server = s
         /\ Scene(c, s, u, d, v).up = u /\ Scene(c, s, u, d, v).down = d
         /\ Scene(c, s, u, d, v).served = v
BY DEF Scene

LEMMA PrefixGrows ==
  ASSUME NEW S, NEW e, Len(e) \in Nat, NEW s \in Seq(S), NEW t \in Seq(S), IsPrefix(e, s)
  PROVE  IsPrefix(e, s \o t)
<1>1. Len(s) \in Nat /\ Len(t) \in Nat /\ Len(e) <= Len(s) /\ s \o t \in Seq(S)
      /\ Len(s \o t) = Len(s) + Len(t)
  BY DEF IsPrefix
<1>2. \A i \in 1..Len(e) : (s \o t)[i] = s[i]
  BY <1>1
<1>3. SubSeq(s \o t, 1, Len(e)) = SubSeq(s, 1, Len(e))
  <2>1. SubSeq(s \o t, 1, Len(e)) = [i \in 1..Len(e) |-> (s \o t)[i]]
    BY <1>1
  <2>2. SubSeq(s, 1, Len(e)) = [i \in 1..Len(e) |-> s[i]]
    BY <1>1
  <2> QED
    BY <1>2, <2>1, <2>2
<1> QED
  BY <1>1, <1>3 DEF IsPrefix

ServerInv == Closing /\ InScene /\ Ended

\* At x, and x is one of the scenes.
LEMMA AtScene ==
  ASSUME ServerInv, Agreed(proto), Talking
  PROVE  \E x \in Scenes(proto) : Playing(x) /\ Plays(proto, x)
BY DEF ServerInv, InScene, Agreed

LEMMA ConnectKeeps ==
  ASSUME TypeOK, ServerInv, Agreed(proto), Connect
  PROVE  ServerInv'
<1> DEFINE x == Scene("write", FirstRead(proto), <<>>, <<>>, <<>>)
<1>1. x \in Scenes(proto) /\ Alive(proto, x)
  BY DEF Agreed, Plays
<1>2. x.client = "write" /\ x.server = FirstRead(proto) /\ x.up = <<>> /\ x.down = <<>> /\ x.served = <<>>
  BY SceneIs
<1> HIDE DEF x
<1>3. FirstRead(proto) \notin {"listen", "gone"}
  BY <1>1, <1>2, Zenon DEF Alive
<1>4. /\ server' = FirstRead(proto) /\ client' = "write" /\ proto' = proto
      /\ up' = up /\ down' = down /\ served' = served /\ cend' = cend /\ send' = send
      /\ cut' = cut /\ out' = out /\ client = "dial"
  BY DEF Connect
<1>5. /\ server = "listen" /\ up = <<>> /\ down = <<>> /\ served = <<>> /\ cut = "whole"
      /\ cend = "open" /\ send = "open"
  BY <1>4 DEF ServerInv, Closing
<1>6. Closing'
  BY <1>3, <1>4, <1>5 DEF Closing, Talking, Serving
<1>7. InScene'
  <2>1. /\ client' = x.client /\ down' = x.down /\ served' = x.served
        /\ server' = x.server /\ up' = x.up /\ server' # "gone"
    BY <1>2, <1>3, <1>4, <1>5
  <2> QED
    BY <1>1, <1>4, <2>1, Zenon DEF InScene, Playing
<1>8. Ended'
  <2>1. out = "none"
    BY <1>4 DEF TypeOK
  <2> QED
    BY <1>4, <2>1 DEF Ended
<1> QED
  BY <1>6, <1>7, <1>8 DEF ServerInv

LEMMA OpenKeeps ==
  ASSUME TypeOK, ServerInv, Agreed(proto), Open
  PROVE  ServerInv'
<1>1. /\ client = "write" /\ client' = Opening(proto).to /\ proto' = proto
      /\ up' = Carried(up, send, Opening(proto).say) /\ send' = Answered(send, Opening(proto).say)
      /\ server' = server /\ down' = down /\ served' = served /\ cend' = cend /\ cut' = cut
      /\ out' = out
  BY DEF Open
<1>2. Talking /\ out = "none"
  BY <1>1 DEF Talking, TypeOK
<1>3. PICK x \in Scenes(proto) : Playing(x) /\ Plays(proto, x)
  BY <1>2, AtScene
<1> DEFINE y == Scene(Opening(proto).to, x.server, x.up \o Opening(proto).say, x.down, x.served)
<1>4. y \in Scenes(proto) /\ Alive(proto, y)
  <2>1. y \in Scenes(proto)
    BY <1>1, <1>3 DEF Plays, Begins, Playing
  <2> QED
    BY <2>1 DEF Agreed, Plays
<1>5. /\ y.client = Opening(proto).to /\ y.server = x.server /\ y.up = x.up \o Opening(proto).say
      /\ y.down = x.down /\ y.served = x.served
  BY DEF Scene
<1> HIDE DEF y
<1>6. Opening(proto).to \notin {"dial", "returned"}
  BY <1>4, <1>5, Zenon DEF Alive
<1>7. Talking'
  BY <1>1, <1>6 DEF Talking
<1>8. cend = "open" /\ server # "listen" /\ (Serving => send = "open")
  BY <1>2 DEF ServerInv, Closing
<1>9. /\ x.server # "gone" /\ x.client = client /\ x.down = down /\ x.served = served
      /\ (Serving \/ cut = "whole") => (x.server = server /\ x.up = up)
  BY <1>1, <1>3 DEF Playing, Plays, Alive
<1>10. Closing'
  BY <1>1, <1>6, <1>8 DEF Closing, Talking, Serving, Answered
<1>11. InScene'
  <2>1. CASE Serving
    <3>1. up' = up \o Opening(proto).say /\ server' = server /\ server # "gone"
      BY <1>1, <1>8, <2>1 DEF Carried, Serving
    <3> QED
      BY <1>1, <1>4, <1>5, <1>9, <2>1, <3>1, Zenon DEF InScene, Playing
  <2>2. CASE ~Serving
    <3>1. server = "gone"
      BY <1>8, <2>2 DEF Serving
    <3>2. cut # "whole"
      BY <1>9, <3>1
    <3>3. ~Serving' /\ cut' # "whole"
      BY <1>1, <2>2, <3>2 DEF Serving
    <3> QED
      BY <1>1, <1>4, <1>5, <1>9, <3>3, Zenon DEF InScene, Playing
  <2> QED
    BY <2>1, <2>2
<1>12. Ended'
  BY <1>1, <1>2 DEF Ended
<1> QED
  BY <1>10, <1>11, <1>12 DEF ServerInv

LEMMA ClientTakeKeeps ==
  ASSUME TypeOK, ServerInv, Agreed(proto), ClientTake
  PROVE  ServerInv'
<1>1. /\ Reading /\ down # <<>> /\ down' = Tail(down)
      /\ proto' = proto /\ server' = server /\ served' = served /\ cut' = cut
  BY DEF ClientTake
<1>2. Talking /\ client # "write" /\ out = "none"
  BY <1>1 DEF Reading, Talking, TypeOK
<1>3. PICK x \in Scenes(proto) : Playing(x) /\ Plays(proto, x)
  BY <1>2, AtScene
<1>4. /\ x.client = client /\ x.down = down /\ x.served = served
      /\ (Serving \/ cut = "whole") => (x.server = server /\ x.up = up)
      /\ (server = "gone" /\ cut = "whole") => send = Dropped(x.up)
  BY <1>3 DEF Playing
<1>5. PICK r \in ClientRules(proto) :
        /\ TheRule(ClientRules(proto), client, Head(down), r)
        /\ x.server = "gone" => r.say = <<>>
        /\ IF r.to = "ok" THEN IsPrefix(Evidence(proto), served)
           ELSE Scene(r.to, x.server, Written(x, r.say), Tail(down), served) \in Scenes(proto)
  BY <1>1, <1>3, <1>4, Zenon DEF Plays, ClientGoesOn
<1>6. /\ up' = Carried(up, send, r.say) /\ send' = Answered(send, r.say)
      /\ IF r.to = "ok" THEN Return("ok") /\ cend' = Dropped(Tail(down))
         ELSE client' = r.to /\ out' = out /\ cend' = cend
  <2>1. {q \in ClientRules(proto) : q.at = client /\ q.on = Head(down)} = {r}
    BY <1>5, Zenon DEF TheRule
  <2> QED
    BY <2>1 DEF ClientTake
<1>7. cend = "open" /\ server # "listen" /\ (Serving => send = "open")
  BY <1>2 DEF ServerInv, Closing
<1>8. (Serving => send' = "open") /\ (Serving <=> Serving')
  BY <1>1, <1>6, <1>7 DEF Answered, Serving
<1>9. CASE r.to = "ok"
  <2>1. client' = "returned" /\ out' = "ok"
    BY <1>6, <1>9 DEF Return
  <2>2. Closing' /\ InScene'
    BY <1>8, <2>1 DEF Closing, InScene, Talking
  <2>3. Ended'
    BY <1>1, <1>5, <1>9, <2>1 DEF Ended
  <2> QED
    BY <2>2, <2>3 DEF ServerInv
<1>10. CASE r.to # "ok"
  <2> DEFINE y == Scene(r.to, x.server, Written(x, r.say), Tail(down), served)
  <2>1. y \in Scenes(proto) /\ Alive(proto, y)
    <3>1. y \in Scenes(proto)
      BY <1>5, <1>10
    <3> QED
      BY <3>1 DEF Agreed, Plays
  <2>2. /\ y.client = r.to /\ y.server = x.server /\ y.up = Written(x, r.say)
        /\ y.down = Tail(down) /\ y.served = served
    BY DEF Scene
  <2> HIDE DEF y
  <2>3. r.to \notin {"dial", "returned"}
    BY <2>1, <2>2, Zenon DEF Alive
  <2>4. client' = r.to /\ out' = "none" /\ cend' = "open"
    BY <1>2, <1>6, <1>7, <1>10
  <2>5. Closing'
    BY <1>1, <1>7, <1>8, <2>3, <2>4 DEF Closing, Talking
  <2>6. InScene'
    <3>1. CASE Serving
      <4>1. up' = up \o r.say /\ server # "gone"
        BY <1>6, <1>7, <3>1 DEF Carried, Serving
      <4>2. y.up = up' /\ y.server = server'
        BY <1>1, <1>4, <2>2, <3>1, <4>1 DEF Written
      <4> QED
        BY <1>1, <2>1, <2>2, <2>4, <4>1, <4>2, Zenon DEF InScene, Playing
    <3>2. CASE ~Serving /\ cut # "whole"
      BY <1>1, <1>8, <2>1, <2>2, <2>4, <3>2, Zenon DEF InScene, Playing
    <3>3. CASE ~Serving /\ cut = "whole"
      <4>1. server = "gone" /\ x.server = "gone" /\ x.up = up /\ send = Dropped(x.up)
        BY <1>4, <1>7, <3>3 DEF Serving
      <4>2. send # "open" /\ r.say = <<>>
        BY <1>5, <4>1 DEF Dropped
      <4>3. up' = up /\ send' = send
        BY <1>6, <4>2 DEF Carried, Answered
      <4>4. y.up = up' /\ y.server = server' /\ send' = Dropped(y.up)
        BY <1>1, <2>2, <4>1, <4>3 DEF Written
      <4> QED
        BY <1>1, <2>1, <2>2, <2>4, <4>4, Zenon DEF InScene, Playing
    <3> QED
      BY <3>1, <3>2, <3>3
  <2>7. Ended'
    BY <2>4 DEF Ended
  <2> QED
    BY <2>5, <2>6, <2>7 DEF ServerInv
<1> QED
  BY <1>9, <1>10

LEMMA ClientEofKeeps ==
  ASSUME TypeOK, ServerInv, Agreed(proto), ClientEof
  PROVE  ServerInv'
<1>1. /\ Reading /\ down = <<>> /\ send = "fin" /\ cut = "whole" /\ client' = "returned"
      /\ out' = IF proto = "tcp" \/ (proto = "hls" /\ client = "body") THEN "ok" ELSE "err"
      /\ proto' = proto /\ server' = server /\ served' = served /\ send' = send
  BY DEF ClientEof, Return
<1>2. Talking
  BY <1>1 DEF Reading, Talking
<1>3. PICK x \in Scenes(proto) : Playing(x) /\ Plays(proto, x)
  BY <1>2, AtScene
<1>4. server = "gone"
  BY <1>1, <1>2 DEF ServerInv, Closing, Serving
<1>5. /\ x.server = "gone" /\ x.down = <<>> /\ x.client = client /\ x.served = served
      /\ x.up = <<>>
  BY <1>1, <1>3, <1>4 DEF Playing, Dropped
<1>6. proto = "hls" /\ client = "body" /\ IsPrefix(Evidence(proto), served)
  BY <1>3, <1>5, Zenon DEF Plays, Alive
<1>7. Closing' /\ InScene'
  BY <1>1, <1>4 DEF Closing, InScene, Talking, Serving
<1>8. Ended'
  BY <1>1, <1>6 DEF Ended
<1> QED
  BY <1>7, <1>8 DEF ServerInv

LEMMA ClientErrorKeeps ==
  ASSUME TypeOK, ServerInv, Agreed(proto), ClientError
  PROVE  ServerInv'
<1>1. /\ client = "dial" \/ (Talking /\ (send = "rst" \/ cut # "whole"))
      /\ client' = "returned" /\ out' = "err"
      /\ proto' = proto /\ server' = server /\ served' = served /\ send' = send /\ cut' = cut
  BY DEF ClientError, Return
<1>2. Closing' /\ InScene'
  BY <1>1 DEF ServerInv, Closing, InScene, Talking, Serving
<1>3. CASE client = "dial"
  BY <1>1, <1>2, <1>3 DEF ServerInv, Closing, Ended
<1>4. CASE cut # "whole"
  BY <1>1, <1>2, <1>4 DEF ServerInv, Ended
<1>5. CASE Talking /\ send = "rst" /\ cut = "whole"
  <2>1. PICK x \in Scenes(proto) : Playing(x) /\ Plays(proto, x)
    BY <1>5, AtScene
  <2>2. server = "gone"
    BY <1>5 DEF ServerInv, Closing, Serving
  <2>3. x.server = "gone" /\ x.served = served /\ Dropped(x.up) = "rst"
    BY <1>5, <2>1, <2>2 DEF Playing
  <2>4. x.up # <<>>
    BY <2>3 DEF Dropped
  <2>5. Short(proto, served)
    BY <2>1, <2>3, <2>4, Zenon DEF Plays, Alive
  <2>6. Ended'
    BY <1>1, <2>2, <2>5 DEF Ended
  <2> QED
    BY <1>2, <2>6 DEF ServerInv
<1> QED
  BY <1>1, <1>3, <1>4, <1>5

LEMMA TimeOutKeeps ==
  ASSUME ServerInv, TimeOut
  PROVE  ServerInv'
BY DEF ServerInv, TimeOut, Return, Closing, InScene, Ended, Talking, Serving

LEMMA CutKeeps ==
  ASSUME TypeOK, ServerInv, Agreed(proto), Cut
  PROVE  ServerInv'
<1>1. /\ server # "listen" \/ cut # "whole"
      /\ cut' # "whole" /\ client' = client /\ server' = server /\ up' = up /\ down' = down
      /\ cend' = cend /\ send' = send /\ out' = out /\ served' = served /\ proto' = proto
  BY DEF Cut
<1>2. client # "dial"
  BY <1>1 DEF ServerInv, Closing
<1>3. Closing' /\ Ended'
  BY <1>1, <1>2 DEF ServerInv, Closing, Ended, Talking, Serving
<1>4. Serving' <=> Serving
  BY <1>1 DEF Serving
<1>5. ASSUME Talking PROVE InScene'
  <2>1. PICK x \in Scenes(proto) : Playing(x) /\ Plays(proto, x)
    BY <1>5, AtScene
  <2> QED
    BY <1>1, <1>4, <2>1, Zenon DEF InScene, Playing
<1>6. ASSUME ~Talking PROVE InScene'
  BY <1>1, <1>6 DEF InScene, Talking
<1> QED
  BY <1>3, <1>5, <1>6 DEF ServerInv

\* What the server takes is added to what it has taken.
LEMMA StillEnded ==
  ASSUME Ended, Serving, Len(Evidence(proto)) \in Nat, NEW S, served \in Seq(S),
         NEW t \in Seq(S), served' = served \o t, proto' = proto, out' = out, cut' = cut
  PROVE  Ended'
<1>1. out = "ok" => IsPrefix(Evidence(proto), served')
  BY PrefixGrows DEF Ended
<1>2. out = "err" => cut # "whole"
  BY DEF Ended, Serving
<1> QED
  BY <1>1, <1>2 DEF Ended

LEMMA ServerTakeKeeps ==
  ASSUME TypeOK, Typed, ServerInv, Agreed(proto), Len(Evidence(proto)) \in Nat, ServerTake
  PROVE  ServerInv'
<1>1. /\ Serving /\ up # <<>> /\ proto' = proto /\ client' = client /\ out' = out /\ cut' = cut
  BY DEF ServerTake
<1>2. PICK n \in ReadSizes(proto, Len(up)) :
        LET left == SubSeq(up, n + 1, Len(up))
            rules == {r \in ServerRules(proto) : r.at = server /\ r.on = up[n]}
        IN  /\ \/ /\ rules = {}
                  /\ Leave(left)
                  /\ UNCHANGED <<down, cend>>
               \/ \E r \in rules :
                    /\ down' = Carried(down, cend, r.say)
                    /\ cend' = Answered(cend, r.say)
                    /\ IF r.to = "gone"
                       THEN Leave(left)
                       ELSE server' = r.to /\ UNCHANGED send
            /\ up' = left
            /\ served' = served \o SubSeq(up, 1, n)
  BY Zenon DEF ServerTake
<1>3. n \in 1..Len(up)
  <2>1. Len(up) \in Nat /\ Len(up) >= 1
    BY <1>1 DEF Typed
  <2> QED
    BY <2>1 DEF ReadSizes
<1>4. /\ SubSeq(up, 1, n) \in Seq(Uttered(proto)) /\ served \in Seq(Uttered(proto))
  BY <1>3, Taken DEF Typed
<1>5. Ended'
  BY <1>1, <1>2, <1>4, StillEnded DEF ServerInv
<1>6. send = "open" /\ (Talking => cend = "open") /\ client # "dial"
  BY <1>1 DEF ServerInv, Closing, Serving
<1>7. CASE ~Talking
  <2>1. client' = "returned"
    BY <1>1, <1>6, <1>7 DEF Talking
  <2>2. Serving' => send' = "open"
    BY <1>2, <1>6 DEF Serving, Leave
  <2>3. Closing' /\ InScene'
    BY <2>1, <2>2 DEF Closing, InScene, Talking
  <2> QED
    BY <1>5, <2>3 DEF ServerInv
<1>8. CASE Talking
  <2>1. PICK x \in Scenes(proto) : Playing(x) /\ Plays(proto, x)
    BY <1>8, AtScene
  <2>2. /\ x.client = client /\ x.down = down /\ x.served = served
        /\ x.server = server /\ x.up = up /\ server # "gone"
    BY <1>1, <2>1 DEF Playing, Serving
  <2>3. /\ \E r \in ServerRules(proto) : r.at = server /\ r.on = up[n]
        /\ \A r \in ServerRules(proto) :
             r.at = server /\ r.on = up[n] =>
               Scene(client, r.to, SubSeq(up, n + 1, Len(up)), down \o r.say,
                     served \o SubSeq(up, 1, n)) \in Scenes(proto)
    BY <1>1, <2>1, <2>2, Zenon DEF Plays, ServerGoesOn
  <2>4. PICK r \in ServerRules(proto) :
          /\ r.at = server /\ r.on = up[n]
          /\ down' = Carried(down, cend, r.say)
          /\ cend' = Answered(cend, r.say)
          /\ IF r.to = "gone" THEN Leave(SubSeq(up, n + 1, Len(up))) ELSE server' = r.to /\ send' = send
    BY <1>2, <2>3, Zenon
  <2>5. /\ down' = down \o r.say /\ cend' = "open"
        /\ IF r.to = "gone" THEN Leave(SubSeq(up, n + 1, Len(up))) ELSE server' = r.to /\ send' = send
        /\ up' = SubSeq(up, n + 1, Len(up)) /\ served' = served \o SubSeq(up, 1, n)
    BY <1>2, <1>6, <1>8, <2>4 DEF Carried, Answered
  <2>6. PICK y : y = Scene(client', r.to, up', down', served')
    OBVIOUS
  <2>7. y.client = client' /\ y.server = r.to /\ y.up = up' /\ y.down = down' /\ y.served = served'
    BY <2>6 DEF Scene
  <2>8. y \in Scenes(proto) /\ Alive(proto, y)
    <3>1. y \in Scenes(proto)
      BY <1>1, <2>3, <2>4, <2>5, <2>6, Zenon
    <3> QED
      BY <3>1 DEF Agreed, Plays
  <2>9. r.to # "listen"
    BY <2>7, <2>8, Zenon DEF Alive
  <2>10. server' = r.to /\ (r.to = "gone" => send' = Dropped(up')) /\ (r.to # "gone" => send' = "open")
    BY <1>6, <2>5 DEF Leave
  <2>11. Closing'
    BY <1>1, <1>6, <2>5, <2>9, <2>10 DEF Closing, Talking, Serving
  <2>12. InScene'
    BY <1>1, <2>7, <2>8, <2>10, Zenon DEF InScene, Playing
  <2> QED
    BY <1>5, <2>11, <2>12 DEF ServerInv
<1> QED
  BY <1>7, <1>8

LEMMA ServerEofKeeps ==
  ASSUME TypeOK, ServerInv, Agreed(proto), ServerEof
  PROVE  ServerInv'
<1>1. /\ Serving /\ server' = "gone" /\ client' = client /\ up' = up /\ down' = down /\ cend' = cend
      /\ out' = out /\ served' = served /\ proto' = proto /\ cut' = cut
      /\ cend \in {"fin", "rst"} \/ cut # "whole"
  BY DEF ServerEof, Leave
<1>2. Closing' /\ Ended'
  BY <1>1 DEF ServerInv, Closing, Ended, Talking, Serving
<1>3. ASSUME Talking PROVE InScene'
  <2>1. cut # "whole"
    BY <1>1, <1>3 DEF ServerInv, Closing
  <2>2. PICK x \in Scenes(proto) : Playing(x) /\ Plays(proto, x)
    BY <1>3, AtScene
  <2>3. ~Serving'
    BY <1>1 DEF Serving
  <2> QED
    BY <1>1, <2>1, <2>2, <2>3, Zenon DEF InScene, Playing
<1>4. ASSUME ~Talking PROVE InScene'
  BY <1>1, <1>4 DEF InScene, Talking
<1> QED
  BY <1>2, <1>3, <1>4 DEF ServerInv

LEMMA StepKeeps ==
  ASSUME peer = "testserver", HandshakeInv, ServerInv, Agreed(proto),
         Len(Evidence(proto)) \in Nat, [Next]_vars
  PROVE  ServerInv'
<1>0. TypeOK /\ Typed
  BY DEF HandshakeInv
<1>1. CASE Connect \/ Open
  BY <1>0, <1>1, ConnectKeeps, OpenKeeps
<1>2. CASE ClientTake \/ ClientEof
  BY <1>0, <1>2, ClientTakeKeeps, ClientEofKeeps
<1>3. CASE ClientError \/ TimeOut
  BY <1>0, <1>3, ClientErrorKeeps, TimeOutKeeps
<1>4. CASE Thread
  BY <1>0, <1>4, ServerTakeKeeps, ServerEofKeeps DEF Thread
<1>5. ASSUME \/ \E m \in Vocabulary(proto) : StrangerSay(m)
             \/ StrangerTake \/ StrangerLeave
      PROVE  FALSE
  BY <1>5 DEF StrangerSay, StrangerTake, StrangerLeave
<1>6. CASE Cut
  BY <1>0, <1>6, CutKeeps
<1>7. CASE UNCHANGED vars
  BY <1>7 DEF vars, ServerInv, Closing, InScene, Playing, Ended, Talking, Serving
<1> QED
  BY <1>1, <1>2, <1>3, <1>4, <1>5, <1>6, <1>7 DEF Next, Done

----------------------------------------------------------------------------
(* What the tables say *)

LEMMA Heads ==
  /\ \A a : <<a>>[1] = a
  /\ \A a, b : <<a, b>>[1] = a /\ <<a, b>>[2] = b
  /\ \A a : Head(<<a>>) = a /\ Tail(<<a>>) = <<>> /\ <<a>> # <<>>
  /\ \A a, b : Head(<<a, b>>) = a /\ Tail(<<a, b>>) = <<b>> /\ <<a, b>> # <<>>
  /\ \A a, b, c : Head(<<a, b, c>>) = a /\ Tail(<<a, b, c>>) = <<b, c>> /\ <<a, b, c>> # <<>>
OBVIOUS

LEMMA Joins ==
  /\ <<>> \o <<>> = <<>>
  /\ \A a : <<>> \o <<a>> = <<a>>
  /\ \A a, b : <<>> \o <<a, b>> = <<a, b>>
  /\ \A a, b, c : <<>> \o <<a, b, c>> = <<a, b, c>>
  /\ \A a, b : <<a>> \o <<b>> = <<a, b>>
<1>1. ASSUME NEW a, NEW b, NEW c
      PROVE  <<>> \o <<>> = <<>> /\ <<>> \o <<a>> = <<a>> /\ <<>> \o <<a, b>> = <<a, b>>
             /\ <<>> \o <<a, b, c>> = <<a, b, c>>
  <2>1. /\ <<>> \in Seq({a, b, c}) /\ <<a>> \in Seq({a, b, c}) /\ <<a, b>> \in Seq({a, b, c})
        /\ <<a, b, c>> \in Seq({a, b, c})
    BY Tuples
  <2> QED
    BY <2>1, ConcatEmptySeq, Zenon
<1>2. ASSUME NEW a, NEW b PROVE <<a>> \o <<b>> = <<a, b>>
  <2>1. <<a>> \in Seq({a, b}) /\ b \in {a, b}
    BY Tuples
  <2>2. Append(<<a>>, b) = <<a>> \o <<b>>
    BY <2>1, AppendIsConcat, Zenon
  <2> QED
    BY <2>2, Longer, Zenon
<1> QED
  BY <1>1, <1>2, Zenon

LEMMA Takes ==
  /\ \A a : SubSeq(<<a>>, 1, 1) = <<a>> /\ SubSeq(<<a>>, 1 + 1, Len(<<a>>)) = <<>>
  /\ \A a, b : SubSeq(<<a, b>>, 1, 1) = <<a>> /\ SubSeq(<<a, b>>, 1 + 1, Len(<<a, b>>)) = <<b>>
  /\ \A a, b : SubSeq(<<a, b>>, 1, 2) = <<a, b>> /\ SubSeq(<<a, b>>, 2 + 1, Len(<<a, b>>)) = <<>>
<1>1. ASSUME NEW a
      PROVE  SubSeq(<<a>>, 1, 1) = <<a>> /\ SubSeq(<<a>>, 1 + 1, Len(<<a>>)) = <<>>
  <2>1. <<a>> \in Seq({a}) /\ <<a>> # <<>> /\ Len(<<a>>) = 1 /\ Tail(<<a>>) = <<>> /\ 1 + 1 = 2
    BY Tuples
  <2> QED
    BY <2>1, SubSeqFull, TailIsSubSeq, Zenon
<1>2. ASSUME NEW a, NEW b
      PROVE  /\ SubSeq(<<a, b>>, 1, 1) = <<a>> /\ SubSeq(<<a, b>>, 1 + 1, Len(<<a, b>>)) = <<b>>
             /\ SubSeq(<<a, b>>, 1, 2) = <<a, b>> /\ SubSeq(<<a, b>>, 2 + 1, Len(<<a, b>>)) = <<>>
  <2>1. /\ <<a, b>> \in Seq({a, b}) /\ <<a, b>> # <<>> /\ Len(<<a, b>>) = 2 /\ Tail(<<a, b>>) = <<b>>
        /\ 1 + 1 = 2 /\ 2 + 1 = 3
    BY Tuples
  <2>2. SubSeq(<<a, b>>, 1, 2) = <<a, b>> /\ SubSeq(<<a, b>>, 1 + 1, Len(<<a, b>>)) = <<b>>
    BY <2>1, SubSeqFull, TailIsSubSeq, Zenon
  <2>3. SubSeq(<<a, b>>, 2 + 1, Len(<<a, b>>)) = <<>>
    BY <2>1, SubSeqEmpty
  <2>4. SubSeq(<<a, b>>, 1, 1) = <<a>>
    <3>1. /\ <<a>> \in Seq({a, b}) /\ <<b>> \in Seq({a, b})
          /\ Len(<<a>>) = 1 /\ 1 \in 1..1
      BY Tuples
    <3>2. SubSeq(<<a>> \o <<b>>, 1, 1) = SubSeq(<<a>>, 1, 1)
      BY <3>1, SubSeqOfConcat1
    <3> QED
      BY <1>1, <3>2, Joins, Zenon
  <2> QED
    BY <2>2, <2>3, <2>4
<1> QED
  BY <1>1, <1>2, Zenon

LEMMA Starts ==
  /\ \A a : IsPrefix(<<a>>, <<a>>)
  /\ \A a, b : IsPrefix(<<a, b>>, <<a, b>>)
  /\ \A a, b : IsPrefix(<<a>>, <<a, b>>)
<1>1. ASSUME NEW a, NEW b
      PROVE  IsPrefix(<<a>>, <<a>>) /\ IsPrefix(<<a, b>>, <<a, b>>) /\ IsPrefix(<<a>>, <<a, b>>)
  <2>1. Len(<<a>>) = 1 /\ Len(<<a, b>>) = 2 /\ 1 <= 1 /\ 1 <= 2 /\ 2 <= 2
    OBVIOUS
  <2>2. /\ SubSeq(<<a>>, 1, 1) = <<a>> /\ SubSeq(<<a, b>>, 1, 1) = <<a>>
        /\ SubSeq(<<a, b>>, 1, 2) = <<a, b>>
    BY Takes, Zenon
  <2> QED
    BY <2>1, <2>2, Zenon DEF IsPrefix
<1> QED
  BY <1>1, Zenon

LEMMA EvidenceIs ==
  /\ Evidence("tcp") = <<"byte">> /\ Evidence("rtsp") = <<"OPTIONS", "headers">>
  /\ Evidence("rtmp") = <<"C0", "C1">> /\ Evidence("mqtt") = <<"CONNECT", "PINGREQ">>
  /\ Evidence("ws") = <<"GET", "Ping">> /\ Evidence("http") = <<"request">>
  /\ Evidence("post") = <<"request">> /\ Evidence("hls") = <<"GET">>
  /\ Evidence("tls") = <<"ClientHello">> /\ Evidence("grpc") = <<"Check">>
  /\ Evidence("watch") = <<"Watch">>
BY DEF Evidence

LEMMA EvidenceLength == \A p \in AllProtocols : Len(Evidence(p)) \in Nat
<1>1. \A a, b : Len(<<a>>) \in Nat /\ Len(<<a, b>>) \in Nat
  OBVIOUS
<1> QED
  BY <1>1, EvidenceIs, Zenon DEF AllProtocols

\* A scene is played if what its position asks for is given: the pinger about
\* to write, ...
LEMMA WritesFirst ==
  ASSUME NEW p, NEW s, s \notin {"listen", "gone"}, NEW u,
         Opening(p).say = u, <<>> \o u = u,
         Scene(Opening(p).to, s, u, <<>>, <<>>) \in Scenes(p)
  PROVE  Plays(p, Scene("write", s, <<>>, <<>>, <<>>))
<1> DEFINE x == Scene("write", s, <<>>, <<>>, <<>>)
<1>1. x.client = "write" /\ x.server = s /\ x.up = <<>> /\ x.down = <<>> /\ x.served = <<>>
  BY DEF Scene
<1> HIDE DEF x
<1>2. Begins(p, x)
  BY <1>1, Zenon DEF Begins
<1>3. ClientGoesOn(p, x) /\ ServerGoesOn(p, x) /\ Alive(p, x)
  BY <1>1, Zenon DEF ClientGoesOn, ServerGoesOn, Alive
<1>4. Plays(p, x)
  BY <1>2, <1>3 DEF Plays
<1> QED
  BY <1>4 DEF x

\* ... the server about to read one unit, ...
LEMMA ServerReads ==
  ASSUME NEW p, p \notin {"post", "hls"}, NEW c, c \notin {"dial", "returned", "write"},
         NEW s, s \notin {"listen", "gone"}, NEW u, NEW v, NEW a, NEW l, NEW w,
         u # <<>>, u[1] = a, SubSeq(u, 1, 1) = <<a>>, SubSeq(u, 1 + 1, Len(u)) = l,
         v \o <<a>> = w, NEW r, TheRule(ServerRules(p), s, a, r), <<>> \o r.say = r.say,
         Scene(c, r.to, l, r.say, w) \in Scenes(p)
  PROVE  Plays(p, Scene(c, s, u, <<>>, v))
<1> DEFINE x == Scene(c, s, u, <<>>, v)
<1>1. x.client = c /\ x.server = s /\ x.up = u /\ x.down = <<>> /\ x.served = v
  BY DEF Scene
<1> HIDE DEF x
<1>2. Begins(p, x) /\ ClientGoesOn(p, x) /\ Alive(p, x)
  BY <1>1, Zenon DEF Begins, ClientGoesOn, Alive
<1>3. ServerGoesOn(p, x)
  <2>1. ReadSizes(p, Len(x.up)) = {1} /\ r \in ServerRules(p)
    BY DEF ReadSizes, TheRule
  <2> QED
    BY <1>1, <2>1, Zenon DEF ServerGoesOn, TheRule
<1>4. Plays(p, x)
  BY <1>2, <1>3 DEF Plays
<1> QED
  BY <1>4 DEF x

\* ... or the pinger.
LEMMA ClientReads ==
  ASSUME NEW p, NEW c, c \notin {"dial", "returned", "write"},
         NEW s, s # "listen", NEW u, NEW d, NEW v, u = <<>> \/ (s = "gone" /\ Short(p, v)), d # <<>>,
         NEW r, TheRule(ClientRules(p), c, Head(d), r), <<>> \o r.say = r.say,
         s = "gone" => r.say = <<>>, NEW w, w = IF s = "gone" THEN u ELSE r.say,
         IF r.to = "ok" THEN IsPrefix(Evidence(p), v) ELSE Scene(r.to, s, w, Tail(d), v) \in Scenes(p)
  PROVE  Plays(p, Scene(c, s, u, d, v))
<1> DEFINE x == Scene(c, s, u, d, v)
<1>1. x.client = c /\ x.server = s /\ x.up = u /\ x.down = d /\ x.served = v
  BY DEF Scene
<1> HIDE DEF x
<1>2. Begins(p, x) /\ ServerGoesOn(p, x) /\ Alive(p, x)
  BY <1>1, Zenon DEF Begins, ServerGoesOn, Alive
<1>3. ClientGoesOn(p, x)
  <2>1. r \in ClientRules(p)
    BY DEF TheRule
  <2>2. Written(x, r.say) = w
    BY <1>1, Zenon DEF Written
  <2> QED
    BY <1>1, <2>1, <2>2, Zenon DEF ClientGoesOn
<1>4. Plays(p, x)
  BY <1>2, <1>3 DEF Plays
<1> QED
  BY <1>4 DEF x

\* The same for what is under way in fact.
LEMMA ServerReadsOne ==
  ASSUME NEW p, p \notin {"post", "hls"}, NEW c, c \notin {"dial", "returned", "write"},
         NEW s, s \notin {"listen", "gone"}, NEW a, NEW v, NEW say, NEW to,
         TheRule(ServerRules(p), s, a, Rule(s, a, say, to)), <<>> \o say = say,
         Scene(c, to, <<>>, say, v \o <<a>>) \in Scenes(p)
  PROVE  Plays(p, Scene(c, s, <<a>>, <<>>, v))
<1>1. PICK r : r = Rule(s, a, say, to)
  OBVIOUS
<1>2. r.say = say /\ r.to = to
  BY <1>1 DEF Rule
<1>3. PICK u : u = <<a>>
  OBVIOUS
<1>4. u # <<>> /\ u[1] = a /\ SubSeq(u, 1, 1) = <<a>> /\ SubSeq(u, 1 + 1, Len(u)) = <<>>
  BY <1>3, Heads, Takes, Zenon
<1>5. Plays(p, Scene(c, s, u, <<>>, v))
  BY <1>1, <1>2, <1>4, ServerReads, Zenon
<1> QED
  BY <1>3, <1>5, Zenon

LEMMA ServerReadsFirst ==
  ASSUME NEW p, p \notin {"post", "hls"}, NEW c, c \notin {"dial", "returned", "write"},
         NEW s, s \notin {"listen", "gone"}, NEW a, NEW b, NEW v, NEW say, NEW to,
         TheRule(ServerRules(p), s, a, Rule(s, a, say, to)), <<>> \o say = say,
         Scene(c, to, <<b>>, say, v \o <<a>>) \in Scenes(p)
  PROVE  Plays(p, Scene(c, s, <<a, b>>, <<>>, v))
<1>1. PICK r : r = Rule(s, a, say, to)
  OBVIOUS
<1>2. r.say = say /\ r.to = to
  BY <1>1 DEF Rule
<1>3. PICK u : u = <<a, b>>
  OBVIOUS
<1>4. u # <<>> /\ u[1] = a /\ SubSeq(u, 1, 1) = <<a>> /\ SubSeq(u, 1 + 1, Len(u)) = <<b>>
  BY <1>3, Heads, Takes, Zenon
<1>5. Plays(p, Scene(c, s, u, <<>>, v))
  BY <1>1, <1>2, <1>4, ServerReads, Zenon
<1> QED
  BY <1>3, <1>5, Zenon

\* One read, of a request that may have been cut in two.
LEMMA ServerReadsEither ==
  ASSUME NEW p, p \in {"post", "hls"}, NEW c, c \notin {"dial", "returned", "write"},
         NEW s, s \notin {"listen", "gone"}, NEW a, NEW b,
         \E r \in ServerRules(p) : r.at = s /\ r.on = a,
         \E r \in ServerRules(p) : r.at = s /\ r.on = b,
         \A r \in ServerRules(p) :
           r.on = a => Scene(c, r.to, <<b>>, <<>> \o r.say, <<a>>) \in Scenes(p),
         \A r \in ServerRules(p) :
           r.on = b => Scene(c, r.to, <<>>, <<>> \o r.say, <<a, b>>) \in Scenes(p)
  PROVE  Plays(p, Scene(c, s, <<a, b>>, <<>>, <<>>))
<1>1. PICK u : u = <<a, b>>
  OBVIOUS
<1> DEFINE x == Scene(c, s, u, <<>>, <<>>)
<1>2. x.client = c /\ x.server = s /\ x.up = u /\ x.down = <<>> /\ x.served = <<>>
  BY DEF Scene
<1> HIDE DEF x
<1>3. /\ u # <<>> /\ u[1] = a /\ u[2] = b
      /\ SubSeq(u, 1, 1) = <<a>> /\ SubSeq(u, 1 + 1, Len(u)) = <<b>>
      /\ SubSeq(u, 1, 2) = u /\ SubSeq(u, 2 + 1, Len(u)) = <<>>
  BY <1>1, Heads, Takes, ZenonT(40)
<1>4. <<>> \o <<a>> = <<a>> /\ <<>> \o u = u
  BY <1>1, Joins, Zenon
<1>5. ReadSizes(p, Len(u)) = {1, 2}
  <2>1. Len(u) = 2
    BY <1>1
  <2> QED
    BY <2>1 DEF ReadSizes
<1>6. Begins(p, x) /\ ClientGoesOn(p, x) /\ Alive(p, x)
  BY <1>2, <1>3, Zenon DEF Begins, ClientGoesOn, Alive
<1> DEFINE Goes(n) ==
             /\ \E r \in ServerRules(p) : r.at = s /\ r.on = u[n]
             /\ \A r \in ServerRules(p) :
                  r.at = s /\ r.on = u[n] =>
                    Scene(c, r.to, SubSeq(u, n + 1, Len(u)), <<>> \o r.say,
                          <<>> \o SubSeq(u, 1, n)) \in Scenes(p)
<1>7. Goes(1)
  BY <1>3, <1>4, Zenon
<1>8. Goes(2)
  BY <1>1, <1>3, <1>4, Zenon
<1>9. \A n \in ReadSizes(p, Len(u)) : Goes(n)
  <2> HIDE DEF Goes
  <2> QED
    BY <1>5, <1>7, <1>8, Zenon
<1>10. ServerGoesOn(p, x)
  BY <1>2, <1>9, Zenon DEF ServerGoesOn
<1>11. Plays(p, x)
  BY <1>6, <1>10 DEF Plays
<1> QED
  BY <1>1, <1>11, Zenon DEF x

LEMMA ClientSucceeds ==
  ASSUME NEW p, NEW c, c \notin {"dial", "returned", "write"},
         NEW s, s # "listen", NEW u, NEW a, NEW v, u = <<>> \/ (s = "gone" /\ Short(p, v)), NEW say,
         TheRule(ClientRules(p), c, a, Rule(c, a, say, "ok")), <<>> \o say = say,
         s = "gone" => say = <<>>, IsPrefix(Evidence(p), v)
  PROVE  Plays(p, Scene(c, s, u, <<a>>, v))
<1>1. PICK r : r = Rule(c, a, say, "ok")
  OBVIOUS
<1>2. r.say = say /\ r.to = "ok"
  BY <1>1 DEF Rule
<1>3. PICK d : d = <<a>>
  OBVIOUS
<1>4. d # <<>> /\ Head(d) = a
  BY <1>3, Heads, Zenon
<1>5. Plays(p, Scene(c, s, u, d, v))
  BY <1>1, <1>2, <1>4, ClientReads, Zenon
<1> QED
  BY <1>3, <1>5, Zenon

LEMMA ClientGoesAhead ==
  ASSUME NEW p, NEW c, c \notin {"dial", "returned", "write"},
         NEW s, s # "listen", NEW d, d # <<>>, NEW a, Head(d) = a, NEW e, Tail(d) = e, NEW v,
         NEW say, NEW to, to # "ok",
         TheRule(ClientRules(p), c, a, Rule(c, a, say, to)), <<>> \o say = say,
         s = "gone" => say = <<>>, Scene(to, s, say, e, v) \in Scenes(p)
  PROVE  Plays(p, Scene(c, s, <<>>, d, v))
<1>1. PICK r : r = Rule(c, a, say, to)
  OBVIOUS
<1>2. r.say = say /\ r.to = to
  BY <1>1 DEF Rule
<1>3. say = IF s = "gone" THEN <<>> ELSE r.say
  BY <1>2, Zenon
<1> QED
  BY <1>1, <1>2, <1>3, ClientReads, Zenon

\* A fetch goes on after the server has left.
LEMMA FetchGoesAhead ==
  ASSUME NEW c, c \notin {"dial", "returned", "write"}, NEW u, NEW v,
         u = <<>> \/ v = <<"GET">>, NEW d, d # <<>>, NEW a, Head(d) = a, NEW e, Tail(d) = e,
         NEW to, to # "ok", TheRule(ClientRules("hls"), c, a, Rule(c, a, <<>>, to)),
         Scene(to, "gone", u, e, v) \in Scenes("hls")
  PROVE  Plays("hls", Scene(c, "gone", u, d, v))
<1>1. PICK r : r = Rule(c, a, <<>>, to)
  OBVIOUS
<1>2. r.say = <<>> /\ r.to = to
  BY <1>1 DEF Rule
<1>3. <<>> \o <<>> = <<>>
  BY Joins, Zenon
<1>4. PICK s : s = "gone"
  OBVIOUS
<1>5. u = <<>> \/ (s = "gone" /\ Short("hls", v))
  BY <1>4, Zenon DEF Short
<1>6. u = IF s = "gone" THEN u ELSE r.say
  BY <1>4, Zenon
<1>7. s # "listen"
  BY <1>4
<1>8. Plays("hls", Scene(c, s, u, d, v))
  BY <1>1, <1>2, <1>3, <1>4, <1>5, <1>6, <1>7, ClientReads, Zenon
<1> QED
  BY <1>4, <1>8, Zenon

\* Tables of one and of two rules.
LEMMA OneRule ==
  ASSUME NEW a, NEW o, NEW s, NEW t
  PROVE  TheRule({Rule(a, o, s, t)}, a, o, Rule(a, o, s, t))
<1>1. PICK r : r = Rule(a, o, s, t)
  OBVIOUS
<1>2. r.at = a /\ r.on = o
  BY <1>1, RuleIs
<1> QED
  BY <1>1, <1>2, Zenon DEF TheRule

LEMMA TwoRules ==
  ASSUME NEW a, NEW o, NEW s, NEW t, NEW b, NEW n, NEW w, NEW z, a # b
  PROVE  /\ TheRule({Rule(a, o, s, t), Rule(b, n, w, z)}, a, o, Rule(a, o, s, t))
         /\ TheRule({Rule(a, o, s, t), Rule(b, n, w, z)}, b, n, Rule(b, n, w, z))
<1>1. PICK r : r = Rule(a, o, s, t)
  OBVIOUS
<1>2. PICK q : q = Rule(b, n, w, z)
  OBVIOUS
<1>3. r.at = a /\ r.on = o /\ q.at = b /\ q.on = n /\ r # q
  BY <1>1, <1>2, RuleIs
<1> QED
  BY <1>1, <1>2, <1>3, Zenon DEF TheRule

\* The conversations, one by one.
LEMMA TcpAgreed == Agreed("tcp")
<1>1. Scenes("tcp") =
         {Scene("write", "read", <<>>, <<>>, <<>>),
          Scene("read", "read", <<"byte">>, <<>>, <<>>),
          Scene("read", "gone", <<>>, <<"byte">>, <<"byte">>)}
  BY DEF Scenes
<1>2. FirstRead("tcp") = "read" /\ Opening("tcp").say = <<"byte">> /\ Opening("tcp").to = "read"
  BY DEF FirstRead, Opening
<1>3. Plays("tcp", Scene("write", "read", <<>>, <<>>, <<>>))
  BY <1>1, <1>2, Joins, WritesFirst, Zenon
<1>4. Plays("tcp", Scene("read", "read", <<"byte">>, <<>>, <<>>))
  <2>1. TheRule(ServerRules("tcp"), "read", "byte", Rule("read", "byte", <<"byte">>, "gone"))
    BY Tables, RuleIs DEF TheRule, tcp_echo
  <2>2. Scene("read", "gone", <<>>, <<"byte">>, <<>> \o <<"byte">>) \in Scenes("tcp")
    BY <1>1, Joins, Zenon
  <2>3. <<>> \o <<"byte">> = <<"byte">>
    BY Joins, Zenon
  <2> QED
    BY <2>1, <2>2, <2>3, ServerReadsOne, Zenon
<1>5. Plays("tcp", Scene("read", "gone", <<>>, <<"byte">>, <<"byte">>))
  <2>1. TheRule(ClientRules("tcp"), "read", "byte", Rule("read", "byte", <<>>, "ok"))
    BY Tables, RuleIs DEF TheRule, tcp_client
  <2>2. <<>> \o <<>> = <<>>
    BY Joins, Zenon
  <2>3. IsPrefix(Evidence("tcp"), <<"byte">>)
    BY EvidenceIs, Starts, Zenon
  <2> QED
    BY <2>1, <2>2, <2>3, ClientSucceeds, Zenon
<1> QED
  BY <1>1, <1>2, <1>3, <1>4, <1>5, Zenon DEF Agreed

LEMMA RtspAgreed == Agreed("rtsp")
<1>1. Scenes("rtsp") =
         {Scene("write", "read", <<>>, <<>>, <<>>),
          Scene("validate", "read", <<"OPTIONS", "headers">>, <<>>, <<>>),
          Scene("validate", "rest", <<"headers">>, <<>>, <<"OPTIONS">>),
          Scene("validate", "gone", <<>>, <<"200 OK">>, <<"OPTIONS", "headers">>)}
  BY DEF Scenes
<1>2. FirstRead("rtsp") = "read" /\ Opening("rtsp").say = <<"OPTIONS", "headers">> /\ Opening("rtsp").to = "validate"
  BY DEF FirstRead, Opening
<1>3. Plays("rtsp", Scene("write", "read", <<>>, <<>>, <<>>))
  BY <1>1, <1>2, Joins, WritesFirst, Zenon
<1>4. Plays("rtsp", Scene("validate", "read", <<"OPTIONS", "headers">>, <<>>, <<>>))
  <2>1. TheRule(ServerRules("rtsp"), "read", "OPTIONS", Rule("read", "OPTIONS", <<>>, "rest"))
    <3>1. "read" # "rest"
      OBVIOUS
    <3>2. PICK say : say = <<"200 OK">>
      OBVIOUS
    <3>3. rtsp_ok = {Rule("read", "OPTIONS", <<>>, "rest"), Rule("rest", "headers", say, "gone")}
      BY <3>2, Zenon DEF rtsp_ok
    <3>4. TheRule(rtsp_ok, "read", "OPTIONS", Rule("read", "OPTIONS", <<>>, "rest"))
      BY <3>1, <3>3, TwoRules, Zenon
    <3> QED
      BY <3>2, <3>4, Tables, Zenon
  <2>2. Scene("validate", "rest", <<"headers">>, <<>>, <<>> \o <<"OPTIONS">>) \in Scenes("rtsp")
    BY <1>1, Joins, Zenon
  <2>3. <<>> \o <<>> = <<>>
    BY Joins, Zenon
  <2> QED
    BY <2>1, <2>2, <2>3, ServerReadsFirst, Zenon
<1>5. Plays("rtsp", Scene("validate", "rest", <<"headers">>, <<>>, <<"OPTIONS">>))
  <2>1. TheRule(ServerRules("rtsp"), "rest", "headers", Rule("rest", "headers", <<"200 OK">>, "gone"))
    <3>1. "read" # "rest"
      OBVIOUS
    <3>2. PICK say : say = <<"200 OK">>
      OBVIOUS
    <3>3. rtsp_ok = {Rule("read", "OPTIONS", <<>>, "rest"), Rule("rest", "headers", say, "gone")}
      BY <3>2, Zenon DEF rtsp_ok
    <3>4. TheRule(rtsp_ok, "rest", "headers", Rule("rest", "headers", say, "gone"))
      BY <3>1, <3>3, TwoRules, Zenon
    <3> QED
      BY <3>2, <3>4, Tables, Zenon
  <2>2. Scene("validate", "gone", <<>>, <<"200 OK">>, <<"OPTIONS">> \o <<"headers">>) \in Scenes("rtsp")
    BY <1>1, Joins, Zenon
  <2>3. <<>> \o <<"200 OK">> = <<"200 OK">>
    BY Joins, Zenon
  <2> QED
    BY <2>1, <2>2, <2>3, ServerReadsOne, Zenon
<1>6. Plays("rtsp", Scene("validate", "gone", <<>>, <<"200 OK">>, <<"OPTIONS", "headers">>))
  <2>1. TheRule(ClientRules("rtsp"), "validate", "200 OK", Rule("validate", "200 OK", <<>>, "ok"))
    BY Tables, OneRule, TwoRules, Zenon DEF rtsp_client
  <2>2. <<>> \o <<>> = <<>>
    BY Joins, Zenon
  <2>3. IsPrefix(Evidence("rtsp"), <<"OPTIONS", "headers">>)
    BY EvidenceIs, Starts, Zenon
  <2> QED
    BY <2>1, <2>2, <2>3, ClientSucceeds, Zenon
<1> QED
  BY <1>1, <1>2, <1>3, <1>4, <1>5, <1>6, Zenon DEF Agreed

LEMMA RtmpAgreed == Agreed("rtmp")
<1>1. Scenes("rtmp") =
         {Scene("write", "c0", <<>>, <<>>, <<>>),
          Scene("s0", "c0", <<"C0", "C1">>, <<>>, <<>>),
          Scene("s0", "c1", <<"C1">>, <<>>, <<"C0">>),
          Scene("s0", "c2", <<>>, <<"S0", "S1", "S2">>, <<"C0", "C1">>),
          Scene("s1", "c2", <<>>, <<"S1", "S2">>, <<"C0", "C1">>),
          Scene("s2", "c2", <<>>, <<"S2">>, <<"C0", "C1">>)}
  BY DEF Scenes
<1>2. FirstRead("rtmp") = "c0" /\ Opening("rtmp").say = <<"C0", "C1">> /\ Opening("rtmp").to = "s0"
  BY DEF FirstRead, Opening
<1>3. Plays("rtmp", Scene("write", "c0", <<>>, <<>>, <<>>))
  BY <1>1, <1>2, Joins, WritesFirst, Zenon
<1>4. Plays("rtmp", Scene("s0", "c0", <<"C0", "C1">>, <<>>, <<>>))
  <2>1. TheRule(ServerRules("rtmp"), "c0", "C0", Rule("c0", "C0", <<>>, "c1"))
    BY Tables, RuleIs DEF TheRule, rtmp_ok
  <2>2. Scene("s0", "c1", <<"C1">>, <<>>, <<>> \o <<"C0">>) \in Scenes("rtmp")
    BY <1>1, Joins, Zenon
  <2>3. <<>> \o <<>> = <<>>
    BY Joins, Zenon
  <2> QED
    BY <2>1, <2>2, <2>3, ServerReadsFirst, Zenon
<1>5. Plays("rtmp", Scene("s0", "c1", <<"C1">>, <<>>, <<"C0">>))
  <2>1. TheRule(ServerRules("rtmp"), "c1", "C1", Rule("c1", "C1", <<"S0", "S1", "S2">>, "c2"))
    BY Tables, RuleIs DEF TheRule, rtmp_ok
  <2>2. Scene("s0", "c2", <<>>, <<"S0", "S1", "S2">>, <<"C0">> \o <<"C1">>) \in Scenes("rtmp")
    BY <1>1, Joins, Zenon
  <2>3. <<>> \o <<"S0", "S1", "S2">> = <<"S0", "S1", "S2">>
    BY Joins, Zenon
  <2> QED
    BY <2>1, <2>2, <2>3, ServerReadsOne, Zenon
<1>6. Plays("rtmp", Scene("s0", "c2", <<>>, <<"S0", "S1", "S2">>, <<"C0", "C1">>))
  <2>1. TheRule(ClientRules("rtmp"), "s0", "S0", Rule("s0", "S0", <<>>, "s1"))
    BY Tables, RuleIs DEF TheRule, rtmp_client
  <2>2. <<>> \o <<>> = <<>>
    BY Joins, Zenon
  <2>3. Scene("s1", "c2", <<>>, <<"S1", "S2">>, <<"C0", "C1">>) \in Scenes("rtmp")
    BY <1>1, Zenon
  <2>4. <<"S0", "S1", "S2">> # <<>> /\ Head(<<"S0", "S1", "S2">>) = "S0" /\ Tail(<<"S0", "S1", "S2">>) = <<"S1", "S2">>
    BY Heads
  <2> QED
    BY <2>1, <2>2, <2>3, <2>4, ClientGoesAhead, Zenon
<1>7. Plays("rtmp", Scene("s1", "c2", <<>>, <<"S1", "S2">>, <<"C0", "C1">>))
  <2>1. TheRule(ClientRules("rtmp"), "s1", "S1", Rule("s1", "S1", <<>>, "s2"))
    BY Tables, RuleIs DEF TheRule, rtmp_client
  <2>2. <<>> \o <<>> = <<>>
    BY Joins, Zenon
  <2>3. Scene("s2", "c2", <<>>, <<"S2">>, <<"C0", "C1">>) \in Scenes("rtmp")
    BY <1>1, Zenon
  <2>4. <<"S1", "S2">> # <<>> /\ Head(<<"S1", "S2">>) = "S1" /\ Tail(<<"S1", "S2">>) = <<"S2">>
    BY Heads, Zenon
  <2> QED
    BY <2>1, <2>2, <2>3, <2>4, ClientGoesAhead, Zenon
<1>8. Plays("rtmp", Scene("s2", "c2", <<>>, <<"S2">>, <<"C0", "C1">>))
  <2>1. TheRule(ClientRules("rtmp"), "s2", "S2", Rule("s2", "S2", <<"C2">>, "ok"))
    BY Tables, RuleIs DEF TheRule, rtmp_client
  <2>2. <<>> \o <<"C2">> = <<"C2">>
    BY Joins, Zenon
  <2>3. IsPrefix(Evidence("rtmp"), <<"C0", "C1">>)
    BY EvidenceIs, Starts, Zenon
  <2> QED
    BY <2>1, <2>2, <2>3, ClientSucceeds, Zenon
<1> QED
  BY <1>1, <1>2, <1>3, <1>4, <1>5, <1>6, <1>7, <1>8, Zenon DEF Agreed

LEMMA MqttAgreed == Agreed("mqtt")
<1>1. Scenes("mqtt") =
         {Scene("write", "first", <<>>, <<>>, <<>>),
          Scene("connack", "first", <<"CONNECT">>, <<>>, <<>>),
          Scene("connack", "loop", <<>>, <<"CONNACK">>, <<"CONNECT">>),
          Scene("pingresp", "loop", <<"PINGREQ">>, <<>>, <<"CONNECT">>),
          Scene("pingresp", "loop", <<>>, <<"PINGRESP">>, <<"CONNECT", "PINGREQ">>)}
  BY DEF Scenes
<1>2. FirstRead("mqtt") = "first" /\ Opening("mqtt").say = <<"CONNECT">> /\ Opening("mqtt").to = "connack"
  BY DEF FirstRead, Opening
<1>3. Plays("mqtt", Scene("write", "first", <<>>, <<>>, <<>>))
  BY <1>1, <1>2, Joins, WritesFirst, Zenon
<1>4. Plays("mqtt", Scene("connack", "first", <<"CONNECT">>, <<>>, <<>>))
  <2>1. TheRule(ServerRules("mqtt"), "first", "CONNECT", Rule("first", "CONNECT", <<"CONNACK">>, "loop"))
    BY Tables, RuleIs DEF TheRule, handle_mqtt_session
  <2>2. Scene("connack", "loop", <<>>, <<"CONNACK">>, <<>> \o <<"CONNECT">>) \in Scenes("mqtt")
    BY <1>1, Joins, Zenon
  <2>3. <<>> \o <<"CONNACK">> = <<"CONNACK">>
    BY Joins, Zenon
  <2> QED
    BY <2>1, <2>2, <2>3, ServerReadsOne, Zenon
<1>5. Plays("mqtt", Scene("connack", "loop", <<>>, <<"CONNACK">>, <<"CONNECT">>))
  <2>1. TheRule(ClientRules("mqtt"), "connack", "CONNACK", Rule("connack", "CONNACK", <<"PINGREQ">>, "pingresp"))
    BY Tables, RuleIs DEF TheRule, mqtt_client
  <2>2. <<>> \o <<"PINGREQ">> = <<"PINGREQ">>
    BY Joins, Zenon
  <2>3. Scene("pingresp", "loop", <<"PINGREQ">>, <<>>, <<"CONNECT">>) \in Scenes("mqtt")
    BY <1>1, Zenon
  <2>4. <<"CONNACK">> # <<>> /\ Head(<<"CONNACK">>) = "CONNACK" /\ Tail(<<"CONNACK">>) = <<>>
    BY Heads, Zenon
  <2> QED
    BY <2>1, <2>2, <2>3, <2>4, ClientGoesAhead, Zenon
<1>6. Plays("mqtt", Scene("pingresp", "loop", <<"PINGREQ">>, <<>>, <<"CONNECT">>))
  <2>1. TheRule(ServerRules("mqtt"), "loop", "PINGREQ", Rule("loop", "PINGREQ", <<"PINGRESP">>, "loop"))
    BY Tables, RuleIs DEF TheRule, handle_mqtt_session
  <2>2. Scene("pingresp", "loop", <<>>, <<"PINGRESP">>, <<"CONNECT">> \o <<"PINGREQ">>) \in Scenes("mqtt")
    BY <1>1, Joins, Zenon
  <2>3. <<>> \o <<"PINGRESP">> = <<"PINGRESP">>
    BY Joins, Zenon
  <2> QED
    BY <2>1, <2>2, <2>3, ServerReadsOne, Zenon
<1>7. Plays("mqtt", Scene("pingresp", "loop", <<>>, <<"PINGRESP">>, <<"CONNECT", "PINGREQ">>))
  <2>1. TheRule(ClientRules("mqtt"), "pingresp", "PINGRESP", Rule("pingresp", "PINGRESP", <<"DISCONNECT">>, "ok"))
    BY Tables, RuleIs DEF TheRule, mqtt_client
  <2>2. <<>> \o <<"DISCONNECT">> = <<"DISCONNECT">>
    BY Joins, Zenon
  <2>3. IsPrefix(Evidence("mqtt"), <<"CONNECT", "PINGREQ">>)
    BY EvidenceIs, Starts, Zenon
  <2> QED
    BY <2>1, <2>2, <2>3, ClientSucceeds, Zenon
<1> QED
  BY <1>1, <1>2, <1>3, <1>4, <1>5, <1>6, <1>7, Zenon DEF Agreed

LEMMA WsAgreed == Agreed("ws")
<1>1. Scenes("ws") =
         {Scene("write", "accept", <<>>, <<>>, <<>>),
          Scene("upgrade", "accept", <<"GET">>, <<>>, <<>>),
          Scene("upgrade", "loop", <<>>, <<"101">>, <<"GET">>),
          Scene("pong", "loop", <<"Ping">>, <<>>, <<"GET">>),
          Scene("pong", "loop", <<>>, <<"Pong">>, <<"GET", "Ping">>)}
  BY DEF Scenes
<1>2. FirstRead("ws") = "accept" /\ Opening("ws").say = <<"GET">> /\ Opening("ws").to = "upgrade"
  BY DEF FirstRead, Opening
<1>3. Plays("ws", Scene("write", "accept", <<>>, <<>>, <<>>))
  BY <1>1, <1>2, Joins, WritesFirst, Zenon
<1>4. Plays("ws", Scene("upgrade", "accept", <<"GET">>, <<>>, <<>>))
  <2>1. TheRule(ServerRules("ws"), "accept", "GET", Rule("accept", "GET", <<"101">>, "loop"))
    BY Tables, RuleIs DEF TheRule, ws_ok
  <2>2. Scene("upgrade", "loop", <<>>, <<"101">>, <<>> \o <<"GET">>) \in Scenes("ws")
    BY <1>1, Joins, Zenon
  <2>3. <<>> \o <<"101">> = <<"101">>
    BY Joins, Zenon
  <2> QED
    BY <2>1, <2>2, <2>3, ServerReadsOne, Zenon
<1>5. Plays("ws", Scene("upgrade", "loop", <<>>, <<"101">>, <<"GET">>))
  <2>1. TheRule(ClientRules("ws"), "upgrade", "101", Rule("upgrade", "101", <<"Ping">>, "pong"))
    BY Tables, RuleIs DEF TheRule, ws_client
  <2>2. <<>> \o <<"Ping">> = <<"Ping">>
    BY Joins, Zenon
  <2>3. Scene("pong", "loop", <<"Ping">>, <<>>, <<"GET">>) \in Scenes("ws")
    BY <1>1, Zenon
  <2>4. <<"101">> # <<>> /\ Head(<<"101">>) = "101" /\ Tail(<<"101">>) = <<>>
    BY Heads, Zenon
  <2> QED
    BY <2>1, <2>2, <2>3, <2>4, ClientGoesAhead, Zenon
<1>6. Plays("ws", Scene("pong", "loop", <<"Ping">>, <<>>, <<"GET">>))
  <2>1. TheRule(ServerRules("ws"), "loop", "Ping", Rule("loop", "Ping", <<"Pong">>, "loop"))
    BY Tables, RuleIs DEF TheRule, ws_ok
  <2>2. Scene("pong", "loop", <<>>, <<"Pong">>, <<"GET">> \o <<"Ping">>) \in Scenes("ws")
    BY <1>1, Joins, Zenon
  <2>3. <<>> \o <<"Pong">> = <<"Pong">>
    BY Joins, Zenon
  <2> QED
    BY <2>1, <2>2, <2>3, ServerReadsOne, Zenon
<1>7. Plays("ws", Scene("pong", "loop", <<>>, <<"Pong">>, <<"GET", "Ping">>))
  <2>1. TheRule(ClientRules("ws"), "pong", "Pong", Rule("pong", "Pong", <<"Close">>, "ok"))
    BY Tables, RuleIs DEF TheRule, ws_client
  <2>2. <<>> \o <<"Close">> = <<"Close">>
    BY Joins, Zenon
  <2>3. IsPrefix(Evidence("ws"), <<"GET", "Ping">>)
    BY EvidenceIs, Starts, Zenon
  <2> QED
    BY <2>1, <2>2, <2>3, ClientSucceeds, Zenon
<1> QED
  BY <1>1, <1>2, <1>3, <1>4, <1>5, <1>6, <1>7, Zenon DEF Agreed

LEMMA HttpAgreed == Agreed("http")
<1>1. Scenes("http") =
         {Scene("write", "read", <<>>, <<>>, <<>>),
          Scene("status", "read", <<"request">>, <<>>, <<>>),
          Scene("status", "gone", <<>>, <<"200">>, <<"request">>)}
  BY DEF Scenes
<1>2. FirstRead("http") = "read" /\ Opening("http").say = <<"request">> /\ Opening("http").to = "status"
  BY DEF FirstRead, Opening
<1>3. Plays("http", Scene("write", "read", <<>>, <<>>, <<>>))
  BY <1>1, <1>2, Joins, WritesFirst, Zenon
<1>4. Plays("http", Scene("status", "read", <<"request">>, <<>>, <<>>))
  <2>1. TheRule(ServerRules("http"), "read", "request", Rule("read", "request", <<"200">>, "gone"))
    BY Tables, RuleIs DEF TheRule, http_ok
  <2>2. Scene("status", "gone", <<>>, <<"200">>, <<>> \o <<"request">>) \in Scenes("http")
    BY <1>1, Joins, Zenon
  <2>3. <<>> \o <<"200">> = <<"200">>
    BY Joins, Zenon
  <2> QED
    BY <2>1, <2>2, <2>3, ServerReadsOne, Zenon
<1>5. Plays("http", Scene("status", "gone", <<>>, <<"200">>, <<"request">>))
  <2>1. TheRule(ClientRules("http"), "status", "200", Rule("status", "200", <<>>, "ok"))
    BY Tables, RuleIs DEF TheRule, http_client
  <2>2. <<>> \o <<>> = <<>>
    BY Joins, Zenon
  <2>3. IsPrefix(Evidence("http"), <<"request">>)
    BY EvidenceIs, Starts, Zenon
  <2> QED
    BY <2>1, <2>2, <2>3, ClientSucceeds, Zenon
<1> QED
  BY <1>1, <1>2, <1>3, <1>4, <1>5, Zenon DEF Agreed

LEMMA TlsAgreed == Agreed("tls")
<1>1. Scenes("tls") =
         {Scene("write", "read", <<>>, <<>>, <<>>),
          Scene("hello", "read", <<"ClientHello">>, <<>>, <<>>),
          Scene("hello", "flown", <<>>, <<"flight">>, <<"ClientHello">>)}
  BY DEF Scenes
<1>2. FirstRead("tls") = "read" /\ Opening("tls").say = <<"ClientHello">> /\ Opening("tls").to = "hello"
  BY DEF FirstRead, Opening
<1>3. Plays("tls", Scene("write", "read", <<>>, <<>>, <<>>))
  BY <1>1, <1>2, Joins, WritesFirst, Zenon
<1>4. Plays("tls", Scene("hello", "read", <<"ClientHello">>, <<>>, <<>>))
  <2>1. TheRule(ServerRules("tls"), "read", "ClientHello", Rule("read", "ClientHello", <<"flight">>, "flown"))
    BY Tables, RuleIs DEF TheRule, https_ok
  <2>2. Scene("hello", "flown", <<>>, <<"flight">>, <<>> \o <<"ClientHello">>) \in Scenes("tls")
    BY <1>1, Joins, Zenon
  <2>3. <<>> \o <<"flight">> = <<"flight">>
    BY Joins, Zenon
  <2> QED
    BY <2>1, <2>2, <2>3, ServerReadsOne, Zenon
<1>5. Plays("tls", Scene("hello", "flown", <<>>, <<"flight">>, <<"ClientHello">>))
  <2>1. TheRule(ClientRules("tls"), "hello", "flight", Rule("hello", "flight", <<"Finished">>, "ok"))
    BY Tables, RuleIs DEF TheRule, tls_client
  <2>2. <<>> \o <<"Finished">> = <<"Finished">>
    BY Joins, Zenon
  <2>3. IsPrefix(Evidence("tls"), <<"ClientHello">>)
    BY EvidenceIs, Starts, Zenon
  <2> QED
    BY <2>1, <2>2, <2>3, ClientSucceeds, Zenon
<1> QED
  BY <1>1, <1>2, <1>3, <1>4, <1>5, Zenon DEF Agreed

LEMMA GrpcAgreed == Agreed("grpc")
<1>1. Scenes("grpc") =
         {Scene("write", "read", <<>>, <<>>, <<>>),
          Scene("check", "read", <<"Check">>, <<>>, <<>>),
          Scene("check", "read", <<>>, <<"headers", "SERVING">>, <<"Check">>),
          Scene("body", "read", <<>>, <<"SERVING">>, <<"Check">>)}
  BY DEF Scenes
<1>2. FirstRead("grpc") = "read" /\ Opening("grpc").say = <<"Check">> /\ Opening("grpc").to = "check"
  BY DEF FirstRead, Opening
<1>3. Plays("grpc", Scene("write", "read", <<>>, <<>>, <<>>))
  BY <1>1, <1>2, Joins, WritesFirst, Zenon
<1>4. Plays("grpc", Scene("check", "read", <<"Check">>, <<>>, <<>>))
  <2>1. TheRule(ServerRules("grpc"), "read", "Check", Rule("read", "Check", <<"headers", "SERVING">>, "read"))
    BY Tables, RuleIs DEF TheRule, grpc_ok
  <2>2. Scene("check", "read", <<>>, <<"headers", "SERVING">>, <<>> \o <<"Check">>) \in Scenes("grpc")
    BY <1>1, Joins, Zenon
  <2>3. <<>> \o <<"headers", "SERVING">> = <<"headers", "SERVING">>
    BY Joins, Zenon
  <2> QED
    BY <2>1, <2>2, <2>3, ServerReadsOne, Zenon
<1>5. Plays("grpc", Scene("check", "read", <<>>, <<"headers", "SERVING">>, <<"Check">>))
  <2>1. TheRule(ClientRules("grpc"), "check", "headers", Rule("check", "headers", <<>>, "body"))
    BY Tables, RuleIs DEF TheRule, grpc_client
  <2>2. <<>> \o <<>> = <<>>
    BY Joins, Zenon
  <2>3. Scene("body", "read", <<>>, <<"SERVING">>, <<"Check">>) \in Scenes("grpc")
    BY <1>1, Zenon
  <2>4. <<"headers", "SERVING">> # <<>> /\ Head(<<"headers", "SERVING">>) = "headers" /\ Tail(<<"headers", "SERVING">>) = <<"SERVING">>
    BY Heads, Zenon
  <2> QED
    BY <2>1, <2>2, <2>3, <2>4, ClientGoesAhead, Zenon
<1>6. Plays("grpc", Scene("body", "read", <<>>, <<"SERVING">>, <<"Check">>))
  <2>1. TheRule(ClientRules("grpc"), "body", "SERVING", Rule("body", "SERVING", <<>>, "ok"))
    BY Tables, RuleIs DEF TheRule, grpc_client
  <2>2. <<>> \o <<>> = <<>>
    BY Joins, Zenon
  <2>3. IsPrefix(Evidence("grpc"), <<"Check">>)
    BY EvidenceIs, Starts, Zenon
  <2> QED
    BY <2>1, <2>2, <2>3, ClientSucceeds, Zenon
<1> QED
  BY <1>1, <1>2, <1>3, <1>4, <1>5, <1>6, Zenon DEF Agreed

LEMMA WatchAgreed == Agreed("watch")
<1>1. Scenes("watch") =
         {Scene("write", "read", <<>>, <<>>, <<>>),
          Scene("watch", "read", <<"Watch">>, <<>>, <<>>),
          Scene("watch", "read", <<>>, <<"headers", "SERVING">>, <<"Watch">>),
          Scene("first", "read", <<>>, <<"SERVING">>, <<"Watch">>)}
  BY DEF Scenes
<1>2. FirstRead("watch") = "read" /\ Opening("watch").say = <<"Watch">> /\ Opening("watch").to = "watch"
  BY DEF FirstRead, Opening
<1>3. Plays("watch", Scene("write", "read", <<>>, <<>>, <<>>))
  BY <1>1, <1>2, Joins, WritesFirst, Zenon
<1>4. Plays("watch", Scene("watch", "read", <<"Watch">>, <<>>, <<>>))
  <2>1. TheRule(ServerRules("watch"), "read", "Watch", Rule("read", "Watch", <<"headers", "SERVING">>, "read"))
    BY Tables, RuleIs DEF TheRule, grpc_ok
  <2>2. Scene("watch", "read", <<>>, <<"headers", "SERVING">>, <<>> \o <<"Watch">>) \in Scenes("watch")
    BY <1>1, Joins, Zenon
  <2>3. <<>> \o <<"headers", "SERVING">> = <<"headers", "SERVING">>
    BY Joins, Zenon
  <2> QED
    BY <2>1, <2>2, <2>3, ServerReadsOne, Zenon
<1>5. Plays("watch", Scene("watch", "read", <<>>, <<"headers", "SERVING">>, <<"Watch">>))
  <2>1. TheRule(ClientRules("watch"), "watch", "headers", Rule("watch", "headers", <<>>, "first"))
    BY Tables, RuleIs DEF TheRule, watch_client
  <2>2. <<>> \o <<>> = <<>>
    BY Joins, Zenon
  <2>3. Scene("first", "read", <<>>, <<"SERVING">>, <<"Watch">>) \in Scenes("watch")
    BY <1>1, Zenon
  <2>4. <<"headers", "SERVING">> # <<>> /\ Head(<<"headers", "SERVING">>) = "headers" /\ Tail(<<"headers", "SERVING">>) = <<"SERVING">>
    BY Heads, Zenon
  <2> QED
    BY <2>1, <2>2, <2>3, <2>4, ClientGoesAhead, Zenon
<1>6. Plays("watch", Scene("first", "read", <<>>, <<"SERVING">>, <<"Watch">>))
  <2>1. TheRule(ClientRules("watch"), "first", "SERVING", Rule("first", "SERVING", <<>>, "ok"))
    BY Tables, RuleIs DEF TheRule, watch_client
  <2>2. <<>> \o <<>> = <<>>
    BY Joins, Zenon
  <2>3. IsPrefix(Evidence("watch"), <<"Watch">>)
    BY EvidenceIs, Starts, Zenon
  <2> QED
    BY <2>1, <2>2, <2>3, ClientSucceeds, Zenon
<1> QED
  BY <1>1, <1>2, <1>3, <1>4, <1>5, <1>6, Zenon DEF Agreed

\* start_http_ok's one read takes the request, or the request and its body.
LEMMA PostAgreed == Agreed("post")
<1>1. Scenes("post") =
         {Scene("write", "read", <<>>, <<>>, <<>>),
          Scene("status", "read", <<"request", "payload">>, <<>>, <<>>),
          Scene("status", "gone", <<"payload">>, <<"200">>, <<"request">>),
          Scene("status", "gone", <<>>, <<"200">>, <<"request", "payload">>)}
  BY DEF Scenes
<1>2. FirstRead("post") = "read" /\ Opening("post").say = <<"request", "payload">> /\ Opening("post").to = "status"
  BY DEF FirstRead, Opening
<1>3. Plays("post", Scene("write", "read", <<>>, <<>>, <<>>))
  BY <1>1, <1>2, Joins, WritesFirst, Zenon
<1>4. Plays("post", Scene("status", "read", <<"request", "payload">>, <<>>, <<>>))
  <2>1. \A r \in http_ok : r.say = <<"200">> /\ r.to = "gone"
    BY RuleIs DEF http_ok
  <2>2. /\ \E r \in http_ok : r.at = "read" /\ r.on = "request"
        /\ \E r \in http_ok : r.at = "read" /\ r.on = "payload"
    <3>1. \A m \in {"request", "payload"} : Rule("read", m, <<"200">>, "gone") \in http_ok
      BY DEF http_ok
    <3>2. \A m : Rule("read", m, <<"200">>, "gone").at = "read" /\ Rule("read", m, <<"200">>, "gone").on = m
      BY RuleIs
    <3> QED
      BY <3>1, <3>2
  <2>3. <<>> \o <<"200">> = <<"200">>
    BY Joins, Zenon
  <2>4. /\ Scene("status", "gone", <<"payload">>, <<"200">>, <<"request">>) \in Scenes("post")
        /\ Scene("status", "gone", <<>>, <<"200">>, <<"request", "payload">>) \in Scenes("post")
    BY <1>1, Zenon
  <2>5. ASSUME NEW r \in ServerRules("post")
        PROVE  /\ Scene("status", r.to, <<"payload">>, <<>> \o r.say, <<"request">>) \in Scenes("post")
               /\ Scene("status", r.to, <<>>, <<>> \o r.say, <<"request", "payload">>) \in Scenes("post")
    BY <2>1, <2>3, <2>4, Tables, Zenon
  <2>6. /\ \E r \in ServerRules("post") : r.at = "read" /\ r.on = "request"
        /\ \E r \in ServerRules("post") : r.at = "read" /\ r.on = "payload"
    BY <2>2, Tables, Zenon
  <2> QED
    BY <2>5, <2>6, ServerReadsEither, Zenon
<1>5. TheRule(ClientRules("post"), "status", "200", Rule("status", "200", <<>>, "ok"))
  BY Tables, RuleIs DEF TheRule, http_client
<1>6. /\ <<>> \o <<>> = <<>>
      /\ IsPrefix(Evidence("post"), <<"request">>)
      /\ IsPrefix(Evidence("post"), <<"request", "payload">>)
  BY Joins, EvidenceIs, Starts, Zenon
<1>7. Plays("post", Scene("status", "gone", <<"payload">>, <<"200">>, <<"request">>))
  <2>1. Short("post", <<"request">>)
    BY Zenon DEF Short
  <2> QED
    BY <1>5, <1>6, <2>1, ClientSucceeds, Zenon
<1>8. Plays("post", Scene("status", "gone", <<>>, <<"200">>, <<"request", "payload">>))
  BY <1>5, <1>6, ClientSucceeds, Zenon
<1> QED
  BY <1>1, <1>2, <1>3, <1>4, <1>7, <1>8, Zenon DEF Agreed

\* A fetch reads to the end of the stream: its last scene has nothing left.
LEMMA HlsAgreed == Agreed("hls")
<1>1. Scenes("hls") =
         {Scene("write", "read", <<>>, <<>>, <<>>),
          Scene("head", "read", <<"GET", "fields">>, <<>>, <<>>),
          Scene("head", "gone", <<>>, <<"200", "body">>, <<"GET", "fields">>),
          Scene("body", "gone", <<>>, <<"body">>, <<"GET", "fields">>),
          Scene("body", "gone", <<>>, <<>>, <<"GET", "fields">>),
          Scene("head", "gone", <<"fields">>, <<"200", "body">>, <<"GET">>),
          Scene("body", "gone", <<"fields">>, <<"body">>, <<"GET">>),
          Scene("body", "gone", <<"fields">>, <<>>, <<"GET">>),
          Scene("head", "gone", <<"fields">>, <<"unwelcome">>, <<"GET">>),
          Scene("bad", "gone", <<"fields">>, <<>>, <<"GET">>)}
  BY DEF Scenes
<1>2. FirstRead("hls") = "read" /\ Opening("hls").say = <<"GET", "fields">> /\ Opening("hls").to = "head"
  BY DEF FirstRead, Opening
<1>3. Plays("hls", Scene("write", "read", <<>>, <<>>, <<>>))
  BY <1>1, <1>2, Joins, WritesFirst, Zenon
<1>4. Plays("hls", Scene("head", "read", <<"GET", "fields">>, <<>>, <<>>))
  <2>1. /\ \A r \in handle_hls : r.to = "gone"
        /\ \A r \in handle_hls : r.on = "fields" => r.say = <<"200", "body">>
        /\ \A r \in handle_hls : r.say = <<"200", "body">> \/ r.say = <<"unwelcome">>
    BY RuleIs DEF handle_hls
  <2>2. /\ \E r \in handle_hls : r.at = "read" /\ r.on = "GET"
        /\ \E r \in handle_hls : r.at = "read" /\ r.on = "fields"
    <3>1. /\ Rule("read", "GET", <<"unwelcome">>, "gone") \in handle_hls
          /\ Rule("read", "fields", <<"200", "body">>, "gone") \in handle_hls
      BY Zenon DEF handle_hls
    <3>2. /\ Rule("read", "GET", <<"unwelcome">>, "gone").at = "read"
          /\ Rule("read", "GET", <<"unwelcome">>, "gone").on = "GET"
          /\ Rule("read", "fields", <<"200", "body">>, "gone").at = "read"
          /\ Rule("read", "fields", <<"200", "body">>, "gone").on = "fields"
      BY RuleIs
    <3> QED
      BY <3>1, <3>2
  <2>3. <<>> \o <<"200", "body">> = <<"200", "body">> /\ <<>> \o <<"unwelcome">> = <<"unwelcome">>
    BY Joins, Zenon
  <2>4. /\ Scene("head", "gone", <<"fields">>, <<"200", "body">>, <<"GET">>) \in Scenes("hls")
        /\ Scene("head", "gone", <<"fields">>, <<"unwelcome">>, <<"GET">>) \in Scenes("hls")
        /\ Scene("head", "gone", <<>>, <<"200", "body">>, <<"GET", "fields">>) \in Scenes("hls")
    BY <1>1, Zenon
  <2>5. ASSUME NEW r \in ServerRules("hls")
        PROVE  Scene("head", r.to, <<"fields">>, <<>> \o r.say, <<"GET">>) \in Scenes("hls")
    BY <2>1, <2>3, <2>4, Tables, Zenon
  <2>6. ASSUME NEW r \in ServerRules("hls"), r.on = "fields"
        PROVE  Scene("head", r.to, <<>>, <<>> \o r.say, <<"GET", "fields">>) \in Scenes("hls")
    BY <2>1, <2>3, <2>4, <2>6, Tables, Zenon
  <2>7. /\ \E r \in ServerRules("hls") : r.at = "read" /\ r.on = "GET"
        /\ \E r \in ServerRules("hls") : r.at = "read" /\ r.on = "fields"
    BY <2>2, Tables, Zenon
  <2> QED
    BY <2>5, <2>6, <2>7, ServerReadsEither, Zenon
<1>5. /\ TheRule(ClientRules("hls"), "head", "200", Rule("head", "200", <<>>, "body"))
      /\ TheRule(ClientRules("hls"), "body", "body", Rule("body", "body", <<>>, "body"))
      /\ TheRule(ClientRules("hls"), "head", "unwelcome", Rule("head", "unwelcome", <<>>, "bad"))
  BY Tables, RuleIs DEF TheRule, hls_client
<1>6. ASSUME NEW c, NEW u, NEW v, u # <<>> => v = <<"GET">>,
             c \notin {"dial", "returned", "write"},
             u = <<>> => c = "body" /\ IsPrefix(Evidence("hls"), v)
      PROVE  Plays("hls", Scene(c, "gone", u, <<>>, v))
  <2> DEFINE x == Scene(c, "gone", u, <<>>, v)
  <2>1. x.client = c /\ x.server = "gone" /\ x.up = u /\ x.down = <<>> /\ x.served = v
    BY DEF Scene
  <2> HIDE DEF x
  <2>2. Begins("hls", x) /\ ClientGoesOn("hls", x) /\ ServerGoesOn("hls", x)
    BY <1>6, <2>1, Zenon DEF Begins, ClientGoesOn, ServerGoesOn
  <2>3. Alive("hls", x)
    BY <1>6, <2>1, Zenon DEF Alive, Short
  <2>4. Plays("hls", x)
    BY <2>2, <2>3 DEF Plays
  <2> QED
    BY <2>4 DEF x
<1>7. IsPrefix(Evidence("hls"), <<"GET", "fields">>) /\ <<"fields">> # <<>>
  BY EvidenceIs, Starts, Heads, Zenon
<1>8. Plays("hls", Scene("head", "gone", <<>>, <<"200", "body">>, <<"GET", "fields">>))
  <2>1. Scene("body", "gone", <<>>, <<"body">>, <<"GET", "fields">>) \in Scenes("hls")
    BY <1>1, Zenon
  <2>2. PICK d : d = <<"200", "body">>
    OBVIOUS
  <2>3. d # <<>> /\ Head(d) = "200" /\ Tail(d) = <<"body">>
    BY <2>2, Heads, Zenon
  <2>4. Plays("hls", Scene("head", "gone", <<>>, d, <<"GET", "fields">>))
    BY <1>5, <2>1, <2>3, FetchGoesAhead, Zenon
  <2> QED
    BY <2>2, <2>4, Zenon
<1>9. Plays("hls", Scene("body", "gone", <<>>, <<"body">>, <<"GET", "fields">>))
  <2>1. Scene("body", "gone", <<>>, <<>>, <<"GET", "fields">>) \in Scenes("hls")
    BY <1>1, Zenon
  <2>2. PICK d : d = <<"body">>
    OBVIOUS
  <2>3. d # <<>> /\ Head(d) = "body" /\ Tail(d) = <<>>
    BY <2>2, Heads, Zenon
  <2>4. Plays("hls", Scene("body", "gone", <<>>, d, <<"GET", "fields">>))
    BY <1>5, <2>1, <2>3, FetchGoesAhead, Zenon
  <2> QED
    BY <2>2, <2>4, Zenon
<1>10. Plays("hls", Scene("body", "gone", <<>>, <<>>, <<"GET", "fields">>))
  BY <1>6, <1>7, Zenon
<1>11. Plays("hls", Scene("head", "gone", <<"fields">>, <<"200", "body">>, <<"GET">>))
  <2>1. Scene("body", "gone", <<"fields">>, <<"body">>, <<"GET">>) \in Scenes("hls")
    BY <1>1, Zenon
  <2>2. PICK d : d = <<"200", "body">>
    OBVIOUS
  <2>3. d # <<>> /\ Head(d) = "200" /\ Tail(d) = <<"body">>
    BY <2>2, Heads, Zenon
  <2>4. Plays("hls", Scene("head", "gone", <<"fields">>, d, <<"GET">>))
    BY <1>5, <2>1, <2>3, FetchGoesAhead, Zenon
  <2> QED
    BY <2>2, <2>4, Zenon
<1>12. Plays("hls", Scene("body", "gone", <<"fields">>, <<"body">>, <<"GET">>))
  <2>1. Scene("body", "gone", <<"fields">>, <<>>, <<"GET">>) \in Scenes("hls")
    BY <1>1, Zenon
  <2>2. PICK d : d = <<"body">>
    OBVIOUS
  <2>3. d # <<>> /\ Head(d) = "body" /\ Tail(d) = <<>>
    BY <2>2, Heads, Zenon
  <2>4. Plays("hls", Scene("body", "gone", <<"fields">>, d, <<"GET">>))
    BY <1>5, <2>1, <2>3, FetchGoesAhead, Zenon
  <2> QED
    BY <2>2, <2>4, Zenon
<1>13. Plays("hls", Scene("body", "gone", <<"fields">>, <<>>, <<"GET">>))
  BY <1>6, <1>7, Zenon
<1>14. Plays("hls", Scene("head", "gone", <<"fields">>, <<"unwelcome">>, <<"GET">>))
  <2>1. Scene("bad", "gone", <<"fields">>, <<>>, <<"GET">>) \in Scenes("hls")
    BY <1>1, Zenon
  <2>2. PICK d : d = <<"unwelcome">>
    OBVIOUS
  <2>3. d # <<>> /\ Head(d) = "unwelcome" /\ Tail(d) = <<>>
    BY <2>2, Heads, Zenon
  <2>4. Plays("hls", Scene("head", "gone", <<"fields">>, d, <<"GET">>))
    BY <1>5, <2>1, <2>3, FetchGoesAhead, Zenon
  <2> QED
    BY <2>2, <2>4, Zenon
<1>15. Plays("hls", Scene("bad", "gone", <<"fields">>, <<>>, <<"GET">>))
  BY <1>6, <1>7, Zenon
<1>16. \A x \in Scenes("hls") : Plays("hls", x)
  BY <1>1, <1>3, <1>4, <1>8, <1>9, <1>10, <1>11, <1>12, <1>13, <1>14, <1>15, Zenon
<1> QED
  BY <1>1, <1>2, <1>16, Zenon DEF Agreed

\* Each pinger agrees with the thread testserver runs for it.
LEMMA AllAgreed == \A p \in AllProtocols : Agreed(p)
BY TcpAgreed, RtspAgreed, RtmpAgreed, MqttAgreed, WsAgreed, HttpAgreed, PostAgreed,
   HlsAgreed, TlsAgreed, GrpcAgreed, WatchAgreed, Zenon DEF AllProtocols

----------------------------------------------------------------------------
(* The theorems *)

\* The conversation with testserver is in one of its scenes until the ping
\* returns.
LEMMA TestserverInvCorrect == Spec => []TestserverInv
<1>1. Init => TestserverInv
  BY DEF Init, TestserverInv, Closing, InScene, Ended, Talking, Serving
<1>2. HandshakeInv /\ TestserverInv /\ [Next]_vars => TestserverInv'
  <2> SUFFICES ASSUME HandshakeInv, TestserverInv, [Next]_vars, peer' = "testserver"
               PROVE  ServerInv'
    BY DEF TestserverInv, ServerInv
  <2>1. peer = "testserver"
    BY DEF Next, Thread, Done, vars, Connect, Open, ClientTake, ClientEof, ClientError, TimeOut,
           ServerTake, ServerEof, StrangerSay, StrangerTake, StrangerLeave, Cut
  <2>2. proto \in AllProtocols
    BY HandshakeAssumption DEF HandshakeInv, TypeOK, AllProtocols
  <2> QED
    BY <2>1, <2>2, AllAgreed, EvidenceLength, StepKeeps, Zenon DEF TestserverInv, ServerInv
<1> QED
  BY <1>1, <1>2, HandshakeInvCorrect, PTL DEF Spec

\* No pinger and its testserver thread ever wait for each other: while both are
\* suspended in a read, something is under way to one of them.
THEOREM MutualWaitCorrect == Spec => []NoMutualWait
<1>1. HandshakeInv /\ TestserverInv => NoMutualWait
  <2> SUFFICES ASSUME HandshakeInv, TestserverInv, peer = "testserver", Reading, Serving
               PROVE  up # <<>> \/ down # <<>>
    BY DEF NoMutualWait
  <2>1. proto \in AllProtocols
    BY HandshakeAssumption DEF HandshakeInv, TypeOK, AllProtocols
  <2>2. PICK x \in Scenes(proto) : Playing(x)
    BY DEF TestserverInv, InScene, Reading
  <2>3. Alive(proto, x)
    BY <2>1, AllAgreed, Zenon DEF Agreed, Plays
  <2> QED
    BY <2>2, <2>3 DEF Playing, Alive, Reading, Serving
<1> QED
  BY <1>1, HandshakeInvCorrect, TestserverInvCorrect, PTL

\* A ping of testserver succeeds only after the server has taken the whole
\* probe: success is a full round trip, for every protocol.
THEOREM ServedCorrect == Spec => []SuccessIsServed
<1>1. TestserverInv => SuccessIsServed
  BY DEF TestserverInv, Ended, SuccessIsServed
<1> QED
  BY <1>1, TestserverInvCorrect, PTL

\* A ping of testserver fails only for the network or a refused dial: no close
\* of the server destroys an answer on its way, but for a request in two
\* segments at start_http_ok or handle_hls.
THEOREM FailureCorrect == Spec => []NoSpuriousFailure
<1>1. TestserverInv => NoSpuriousFailure
  BY DEF TestserverInv, Ended, NoSpuriousFailure, Short
<1> QED
  BY <1>1, TestserverInvCorrect, PTL

=============================================================================
