------------------------- MODULE DatagramPingProofs -------------------------
(***************************************************************************)
(* Proofs about DatagramPing, for any number of clients, servers, ports and*)
(* pings: sockets are owned by one ping and given back, and what a ping    *)
(* makes of the datagrams that reach it.  Two layers: first the sockets,   *)
(* then the names and ids of what travels.                                 *)
(***************************************************************************)
EXTENDS DatagramPing, FiniteSetTheorems, TLAPS

\* What a pinger sends.
Query == [from : Port, to : Server, proto : Protocols, role : {"query"},
          id : Nat, ping : Nat]

(***************************************************************************)
(* The sockets                                                             *)
(***************************************************************************)

\* A ping has a socket from bind to its return, connected once connect has
\* been called, and no verdict before it returns.
Holds(c) ==
  /\ (port[c] # None) <=> (pc[c] \in {"connect", "send", "recv"})
  /\ Waits(c) => target[c] # None /\ outcome[c] = None /\ got[c] = None
  /\ pc[c] = "idle" => outcome[c] = None
  /\ pc[c] = "connect" => peer[port[c]] = Anyone
  /\ pc[c] \in {"send", "recv"} => peer[port[c]] = target[c]

Apart ==
  \A c, e \in Client : c # e /\ port[c] # None => port[e] # port[c]

\* A port is open exactly when some ping holds it; a closed one has no queue.
Tenanted(p) ==
  IF peer[p] = None
  THEN queue[p] = <<>> /\ \A c \in Client : port[c] # p
  ELSE \E c \in Client : port[c] = p

SockInv ==
  /\ TypeOK
  /\ reqs \subseteq Query
  /\ \A c \in Client : Holds(c)
  /\ Apart
  /\ \A p \in Port : Tenanted(p)

(***************************************************************************)
(* The names and ids of what travels                                       *)
(***************************************************************************)

\* A ping's name is its own, and no datagram bears a name not yet given.
Named ==
  /\ \A c \in Client : ping[c] <= pings /\ (pc[c] # "idle" => ping[c] > 0)
  /\ \A c, e \in Client : c # e /\ ping[c] = ping[e] => ping[c] = 0
  /\ \A d \in reqs \cup reps : d.ping \in 1..pings

\* A datagram of the ping a client is at repeats that ping's protocol, id
\* and target.
Matched(c) ==
  /\ \A r \in reqs : r.ping = ping[c] =>
       r.proto = Proto(c) /\ r.id = WireId(c) /\ r.to = target[c]
  /\ \A d \in reps : d.ping = ping[c] =>
       d.proto = Proto(c) /\ d.id = WireId(c) /\ d.from = target[c]

\* A success is sent only by a service that speaks the protocol.
Sincere ==
  \A d \in reps : d.role = "answer" => world.service[d.from] = d.proto

\* What is queued was sent; once connected, what is not the target's was
\* there before.
Queued ==
  /\ \A p \in Port : \A i \in 1..Len(queue[p]) : queue[p][i] \in reps
  /\ \A c \in Client : pc[c] \in {"send", "recv"} /\ early[c] = 0 =>
       \A i \in 1..Len(queue[port[c]]) : queue[port[c]][i].from = target[c]

\* How a verdict was reached: by a datagram some server sent, validated
\* against the ping's own id.
Judged(c) ==
  /\ got[c] # None => /\ got[c] \in reps
                      /\ got[c].from # target[c] => early[c] > 0
  /\ outcome[c] = "ok" => got[c] # None /\ Valid(c, got[c])
  /\ outcome[c] = "err" /\ got[c] # None =>
       got[c].role = "unreachable" \/ ~Valid(c, got[c])

NameInv ==
  /\ Named
  /\ \A c \in Client : Matched(c)
  /\ Sincere
  /\ Queued
  /\ \A c \in Client : Judged(c)

\* The id a pinger of protocol p makes of the n-th reading of the clock.
IdOf(p, st, n) == IF p = "dns" THEN random_id(st[n]) ELSE random_transaction_id(st[n])

\* Every id is cut from the reading of its own ping.
Timed ==
  /\ Len(stamps) = pings
  /\ \A c \in Client : ping[c] > 0 => id[c] = IdOf(Proto(c), stamps, ping[c])
  /\ \A d \in reqs \cup reps :
       d.proto \in {"dns", "stun", "turn"} => d.id = IdOf(d.proto, stamps, d.ping)

(***************************************************************************)
(* First layer: the sockets                                                *)
(***************************************************************************)

\* No ping, no socket, no datagram: the sockets are in order.
LEMMA InitSock == Init => SockInv
<1> SUFFICES ASSUME Init PROVE SockInv
  OBVIOUS
<1> USE DatagramAssumption DEF Init
<1>1. TypeOK
  BY DEF TypeOK
<1>2. /\ reqs \subseteq Query
      /\ \A c \in Client : Holds(c)
      /\ Apart
      /\ \A p \in Port : Tenanted(p)
  BY DEF Holds, Waits, Apart, Tenanted
<1> QED
  BY <1>1, <1>2 DEF SockInv

\* What every proof below knows of a ping that has a socket.
LEMMA SocketFacts ==
  ASSUME SockInv, NEW c \in Client
  PROVE  /\ pc[c] \in {"connect", "send", "recv"} => port[c] \in Port
         /\ Waits(c) => target[c] \in Server
         /\ Proto(c) \in Protocols
         /\ \A s \in Server :
              world.service[s] \in Protocols \cup {"closed", "failing"}
<1>1. TypeOK /\ Holds(c)
  BY DEF SockInv
<1>2. world \in [proto : [Client -> Protocols],
                 service : [Server -> Protocols \cup {"closed", "failing"}]]
  BY <1>1, DatagramAssumption DEF TypeOK
<1>3. port[c] \in Port \cup {None} /\ target[c] \in Server \cup {None}
  BY <1>1 DEF TypeOK
<1> QED
  BY <1>1, <1>2, <1>3 DEF Holds, Proto

\* The clock's readings, and the ids cut from them, are natural numbers.
LEMMA IdNat ==
  ASSUME TypeOK, NEW c \in Client, NEW now \in Readings
  PROVE  now \in Nat /\ FreshId(c, now) \in Nat
<1>1. now \in Nat
  <2>1. CASE stamps = <<>>
    BY <2>1 DEF Readings
  <2>2. CASE stamps # <<>>
    <3>1. stamps \in Seq(Nat) /\ Len(stamps) \in 1..Len(stamps)
      BY <2>2 DEF TypeOK
    <3>2. stamps[Len(stamps)] \in Nat
      BY <3>1
    <3> QED
      BY <2>2, <3>2, DatagramAssumption DEF Readings
  <2> QED
    BY <2>1, <2>2
<1>2. now % IdSpace \in Nat
  BY <1>1, DatagramAssumption
<1> QED
  BY <1>1, <1>2 DEF FreshId, random_id, random_transaction_id

\* The call of ping(), up to bind, opens no socket.
LEMMA StartSock ==
  ASSUME SockInv, NEW c \in Client, NEW s \in Server, Start(c, s)
  PROVE  SockInv'
<1> USE DatagramAssumption
<1>1. TypeOK /\ Holds(c)
  BY DEF SockInv
<1>2. TypeOK'
  <2>1. PICK now \in Readings :
          stamps' = Append(stamps, now) /\ id' = [id EXCEPT ![c] = FreshId(c, now)]
    BY DEF Start
  <2>2. stamps' \in Seq(Nat) /\ id' \in [Client -> Nat]
    BY <1>1, <2>1, IdNat DEF TypeOK
  <2> QED
    BY <1>1, <2>2 DEF Start, TypeOK
<1>3. UNCHANGED <<world, port, peer, queue, reqs, reps>>
  BY DEF Start
<1>4. ASSUME NEW e \in Client
      PROVE  Holds(e)'
  <2>1. CASE e = c
    <3>1. /\ pc'[c] = "bind" /\ target'[c] = s /\ outcome'[c] = None
          /\ got'[c] = None /\ port[c] = None
      BY <1>1 DEF Start, TypeOK, Holds, Idle
    <3> QED
      BY <1>3, <2>1, <3>1 DEF Holds, Waits
  <2>2. CASE e # c
    <3>1. /\ pc'[e] = pc[e] /\ target'[e] = target[e] /\ outcome'[e] = outcome[e]
          /\ got'[e] = got[e]
      BY <1>1, <2>2 DEF Start, TypeOK
    <3> QED
      BY <1>3, <3>1 DEF SockInv, Holds, Waits
  <2> QED
    BY <2>1, <2>2
<1> QED
  BY <1>2, <1>3, <1>4 DEF SockInv, Apart, Tenanted

\* UdpSocket::bind takes a port no other ping holds.
LEMMA BindSock ==
  ASSUME SockInv, NEW c \in Client, NEW p \in Port, Bind(c, p)
  PROVE  SockInv'
<1> USE DatagramAssumption
<1>1. TypeOK /\ Holds(c) /\ Tenanted(p)
  BY DEF SockInv
<1>2. TypeOK'
  BY <1>1 DEF Bind, TypeOK
<1>3. /\ pc[c] = "bind" /\ pc'[c] = "connect" /\ port[c] = None /\ port'[c] = p
      /\ peer[p] = None /\ peer'[p] = Anyone
      /\ \A e \in Client : e # c => pc'[e] = pc[e] /\ port'[e] = port[e]
      /\ \A q \in Port : q # p => peer'[q] = peer[q]
      /\ \A e \in Client : port[e] # p
      /\ UNCHANGED <<target, outcome, got, queue, reqs>>
  BY <1>1 DEF Bind, TypeOK, Holds, Tenanted
<1>4. ASSUME NEW e \in Client
      PROVE  Holds(e)'
  <2>1. CASE e = c
    BY <1>1, <1>3, <2>1 DEF Holds, Waits
  <2>2. CASE e # c
    <3>1. Holds(e) /\ port[e] \in Port \cup {None}
      BY <1>1 DEF SockInv, TypeOK
    <3> QED
      BY <1>3, <2>2, <3>1 DEF Holds, Waits
  <2> QED
    BY <2>1, <2>2
<1>5. Apart'
  BY <1>3 DEF SockInv, Apart
<1>6. ASSUME NEW q \in Port
      PROVE  Tenanted(q)'
  <2>1. CASE q = p
    BY <1>3, <2>1 DEF Tenanted
  <2>2. CASE q # p
    <3>1. \A e \in Client : port'[e] = q <=> port[e] = q
      BY <1>3, <2>2
    <3> QED
      BY <1>3, <2>2, <3>1 DEF SockInv, Tenanted
  <2> QED
    BY <2>1, <2>2
<1> QED
  BY <1>2, <1>3, <1>4, <1>5, <1>6 DEF SockInv

\* socket.connect fixes the source the ping's own socket takes.
LEMMA ConnectSock ==
  ASSUME SockInv, NEW c \in Client, Connect(c)
  PROVE  SockInv'
<1> USE DatagramAssumption
<1>1. TypeOK /\ Holds(c) /\ port[c] \in Port /\ target[c] \in Server
  BY SocketFacts DEF SockInv, Connect, Waits
<1>2. TypeOK'
  <2>1. queue[port[c]] \in Seq(Datagram)
    BY <1>1 DEF TypeOK
  <2>2. Len(queue[port[c]]) \in Nat
    BY <2>1
  <2> QED
    BY <1>1, <2>2 DEF Connect, TypeOK
<1>3. /\ pc[c] = "connect" /\ pc'[c] = "send" /\ peer'[port[c]] = target[c]
      /\ \A e \in Client : e # c => pc'[e] = pc[e]
      /\ \A q \in Port : q # port[c] => peer'[q] = peer[q]
      /\ UNCHANGED <<target, outcome, got, port, queue, reqs>>
  BY <1>1 DEF Connect, TypeOK
<1>4. ASSUME NEW e \in Client
      PROVE  Holds(e)'
  <2>1. CASE e = c
    BY <1>1, <1>3, <2>1 DEF Holds, Waits
  <2>2. CASE e # c
    <3>1. Holds(e) /\ port[e] \in Port \cup {None} /\ port[e] # port[c]
      BY <1>1, <2>2 DEF SockInv, TypeOK, Apart
    <3> QED
      BY <1>3, <2>2, <3>1 DEF Holds, Waits
  <2> QED
    BY <2>1, <2>2
<1>5. Apart'
  BY <1>3 DEF SockInv, Apart
<1>6. ASSUME NEW q \in Port
      PROVE  Tenanted(q)'
  <2>1. CASE q = port[c]
    BY <1>1, <1>3, <2>1 DEF Tenanted
  <2>2. CASE q # port[c]
    BY <1>3, <2>2 DEF SockInv, Tenanted
  <2> QED
    BY <2>1, <2>2
<1> QED
  BY <1>2, <1>3, <1>4, <1>5, <1>6 DEF SockInv

\* A request that is sent is one of the pinger's kind.
LEMMA RequestIsQuery ==
  ASSUME SockInv, NEW c \in Client, pc[c] = "send"
  PROVE  Request(c) \in Query
<1>1. TypeOK /\ port[c] \in Port /\ target[c] \in Server /\ Proto(c) \in Protocols
  BY SocketFacts DEF SockInv, Waits
<1>2. id[c] \in Nat /\ ping[c] \in Nat
  BY <1>1 DEF TypeOK
<1>3. WireId(c) \in Nat
  BY <1>2 DEF WireId
<1> QED
  BY <1>1, <1>2, <1>3 DEF Request, Query

\* Sending leaves every socket as it is.
LEMMA SendSock ==
  ASSUME SockInv, NEW c \in Client, Send(c)
  PROVE  SockInv'
<1>1. TypeOK /\ Holds(c)
  BY DEF SockInv
<1>2. reqs' \subseteq Query
  BY RequestIsQuery DEF Send, SockInv
<1>3. TypeOK'
  BY <1>1 DEF Send, TypeOK
<1>4. /\ pc[c] = "send" /\ pc'[c] = "recv"
      /\ \A e \in Client : e # c => pc'[e] = pc[e]
      /\ UNCHANGED <<target, outcome, got, port, peer, queue>>
  BY <1>1 DEF Send, TypeOK
<1>5. ASSUME NEW e \in Client
      PROVE  Holds(e)'
  <2>1. CASE e = c
    BY <1>1, <1>4, <2>1 DEF Holds, Waits
  <2>2. CASE e # c
    BY <1>4, <2>2 DEF SockInv, Holds, Waits
  <2> QED
    BY <2>1, <2>2
<1> QED
  BY <1>2, <1>3, <1>4, <1>5 DEF SockInv, Apart, Tenanted

\* Dropping the socket closes the ping's own port and no other.
LEMMA ReturnSock ==
  ASSUME SockInv, NEW c \in Client, NEW o \in {"ok", "err", "timedout"},
         NEW d \in Datagram \cup {None}, Waits(c), Return(c, o, d)
  PROVE  SockInv'
<1> USE DatagramAssumption
<1>1. TypeOK /\ Holds(c)
  BY DEF SockInv
<1>2. TypeOK'
  <2>1. /\ peer' \in [Port -> Server \cup {None, Anyone}]
        /\ queue' \in [Port -> Seq(Datagram)]
    BY <1>1 DEF Return, TypeOK
  <2> QED
    BY <1>1, <2>1 DEF Return, TypeOK
<1>3. /\ pc'[c] = "returned" /\ port'[c] = None
      /\ \A e \in Client : e # c => /\ pc'[e] = pc[e] /\ port'[e] = port[e]
                                    /\ outcome'[e] = outcome[e] /\ got'[e] = got[e]
      /\ \A q \in Port : q # port[c] => peer'[q] = peer[q] /\ queue'[q] = queue[q]
      /\ \A q \in Port : q = port[c] => peer'[q] = None /\ queue'[q] = <<>>
      /\ UNCHANGED <<target, reqs>>
  BY <1>1 DEF Return, TypeOK
<1>4. ASSUME NEW e \in Client
      PROVE  Holds(e)'
  <2>1. CASE e = c
    BY <1>3, <2>1 DEF Holds, Waits
  <2>2. CASE e # c
    <3>1. /\ Holds(e) /\ port[e] \in Port \cup {None}
          /\ port[e] # None => port[e] # port[c]
      BY <1>1, <2>2 DEF SockInv, TypeOK, Apart
    <3> QED
      BY <1>3, <2>2, <3>1 DEF Holds, Waits
  <2> QED
    BY <2>1, <2>2
<1>5. Apart'
  BY <1>3 DEF SockInv, Apart
<1>6. ASSUME NEW q \in Port
      PROVE  Tenanted(q)'
  <2>1. CASE q = port[c]
    <3>1. \A e \in Client : e # c => port[e] # q
      BY <2>1 DEF SockInv, Apart
    <3> QED
      BY <1>3, <2>1, <3>1 DEF Tenanted
  <2>2. CASE q # port[c]
    <3>1. \A e \in Client : port'[e] = q <=> port[e] = q
      BY <1>3, <2>2
    <3> QED
      BY <1>3, <2>2, <3>1 DEF SockInv, Tenanted
  <2> QED
    BY <2>1, <2>2
<1> QED
  BY <1>2, <1>3, <1>4, <1>5, <1>6 DEF SockInv

\* The datagram recv takes is one of the queue, and its verdict a result.
LEMMA RecvReturns ==
  ASSUME SockInv, NEW c \in Client, Recv(c)
  PROVE  LET d == Head(queue[port[c]])
         IN  /\ port[c] \in Port /\ queue[port[c]] \in Seq(Datagram)
             /\ Len(queue[port[c]]) > 0
             /\ d \in Datagram /\ d = queue[port[c]][1] /\ Waits(c)
             /\ \E o \in {"ok", "err"} :
                  /\ Return(c, o, d)
                  /\ o = "ok" => d.role # "unreachable" /\ Valid(c, d)
                  /\ o = "err" => d.role = "unreachable" \/ ~Valid(c, d)
<1> DEFINE d == Head(queue[port[c]])
<1>1. port[c] \in Port /\ Waits(c) /\ queue[port[c]] # <<>>
  BY SocketFacts DEF Recv, Waits
<1>2. queue[port[c]] \in Seq(Datagram)
  BY <1>1 DEF SockInv, TypeOK
<1>3. Len(queue[port[c]]) > 0 /\ d \in Datagram /\ d = queue[port[c]][1]
  BY <1>1, <1>2
<1>4. \E o \in {"ok", "err"} :
        /\ Return(c, o, d)
        /\ o = "ok" => d.role # "unreachable" /\ Valid(c, d)
        /\ o = "err" => d.role = "unreachable" \/ ~Valid(c, d)
  BY Zenon DEF Recv
<1> QED
  BY <1>1, <1>2, <1>3, <1>4

\* The role a responder gives a reply is one a datagram can have, and it is a
\* success only if the service speaks the request's protocol.
LEMMA RoleIs ==
  ASSUME NEW v \in Protocols \cup {"closed", "failing"}, NEW r
  PROVE  /\ Role(v, r) \in {"none", "query", "answer", "error", "garbled",
                            "unreachable"}
         /\ Role(v, r) = "answer" => v = r.proto
<1>1. /\ Role("udp", r) = udp_echo(r) /\ Role("dns", r) = dns_ok(r)
      /\ Role("ntp", r) = ntp_ok(r) /\ Role("stun", r) = stun_ok(r)
      /\ Role("turn", r) = turn_ok(r) /\ Role("failing", r) = "error"
      /\ Role("closed", r) = "unreachable"
  BY Zenon DEF Role
<1> QED
  BY <1>1 DEF Protocols, udp_echo, dns_ok, ntp_ok, stun_ok, turn_ok, Heed

\* A reply is a datagram.
LEMMA ReplyIsDatagram ==
  ASSUME SockInv, NEW r \in reqs, Respond(r)
  PROVE  Reply(r) \in Datagram
<1>1. r \in Query /\ TypeOK
  BY DEF SockInv
<1>2. world.service[r.to] \in Protocols \cup {"closed", "failing"}
  <2>1. world \in [proto : [Client -> Protocols],
                   service : [Server -> Protocols \cup {"closed", "failing"}]]
    BY <1>1, DatagramAssumption DEF TypeOK
  <2> QED
    BY <1>1, <2>1 DEF Query
<1>3. Role(world.service[r.to], r)
        \in {"query", "answer", "error", "garbled", "unreachable"}
  BY <1>2, RoleIs DEF Respond
<1> QED
  BY <1>1, <1>3 DEF Reply, Query, Datagram

\* A responder touches no socket of the pingers.
LEMMA RespondSock ==
  ASSUME SockInv, NEW r \in reqs, Respond(r)
  PROVE  SockInv'
<1>1. TypeOK /\ Reply(r) \in Datagram
  BY ReplyIsDatagram DEF SockInv
<1>2. TypeOK'
  BY <1>1 DEF Respond, TypeOK
<1> QED
  BY <1>2 DEF Respond, SockInv, Holds, Waits, Apart, Tenanted

\* The kernel delivers only to a port that is open.
LEMMA DeliverSock ==
  ASSUME SockInv, NEW d \in reps, Deliver(d)
  PROVE  SockInv'
<1>1. TypeOK /\ d \in Datagram /\ d.to \in Port /\ d.from \in Server
  BY DEF SockInv, TypeOK, Datagram
<1>2. peer[d.to] # None
  BY <1>1, DatagramAssumption DEF Deliver
<1>3. queue[d.to] \in Seq(Datagram)
  BY <1>1 DEF TypeOK
<1>4. Append(queue[d.to], d) \in Seq(Datagram) /\ <<d>> \o queue[d.to] \in Seq(Datagram)
  BY <1>1, <1>3
<1>5. TypeOK'
  BY <1>1, <1>4 DEF Deliver, TypeOK
<1>6. ASSUME NEW q \in Port
      PROVE  Tenanted(q)'
  BY <1>1, <1>2 DEF Deliver, SockInv, TypeOK, Tenanted
<1> QED
  BY <1>5, <1>6 DEF Deliver, SockInv, Holds, Waits, Apart

\* Every step keeps the sockets in order.
LEMMA NextSock == SockInv /\ [Next]_vars => SockInv'
<1> SUFFICES ASSUME SockInv, [Next]_vars PROVE SockInv'
  OBVIOUS
<1>1. CASE UNCHANGED vars
  BY <1>1 DEF vars, SockInv, TypeOK, Holds, Waits, Apart, Tenanted
<1>2. ASSUME NEW c \in Client, Recv(c) PROVE SockInv'
  BY <1>2, RecvReturns, ReturnSock
<1>3. ASSUME NEW c \in Client, TimeOut(c) PROVE SockInv'
  BY <1>3, ReturnSock DEF TimeOut
<1>4. ASSUME NEW c \in Client, IoError(c) PROVE SockInv'
  BY <1>4, ReturnSock DEF IoError, Waits
<1>5. ASSUME NEW c \in Client, Task(c) PROVE SockInv'
  BY <1>2, <1>3, <1>4, <1>5, BindSock, ConnectSock, SendSock DEF Task
<1> QED
  BY <1>1, <1>5, StartSock, RespondSock, DeliverSock DEF Next, Quiet

\* Every behaviour keeps the sockets in order.
LEMMA SockInvariance == Spec => []SockInv
BY InitSock, NextSock, PTL DEF Spec

\* Type correctness: no responder sends what it cannot build, no ping reads
\* from a socket it does not have.
THEOREM DatagramTypeCorrect == Spec => []TypeOK
<1>1. SockInv => TypeOK
  BY DEF SockInv
<1> QED
  BY <1>1, SockInvariance, PTL

\* A port belongs to one ping at a time and is given back, for any number of
\* clients and ports.
THEOREM NoPortLeakCorrect == Spec => []NoPortLeak
<1>1. SockInv => NoPortLeak
  <2> SUFFICES ASSUME SockInv, NEW p \in Port
               PROVE  IF peer[p] = None
                      THEN queue[p] = <<>> /\ \A c \in Client : port[c] # p
                      ELSE Cardinality({c \in Client : port[c] = p /\ ~Idle(c)}) = 1
    BY DEF NoPortLeak
  <2>1. Tenanted(p) /\ Apart
    BY DEF SockInv
  <2>2. CASE peer[p] # None
    <3>1. PICK c \in Client : port[c] = p
      BY <2>1, <2>2 DEF Tenanted
    <3>2. ~Idle(c) /\ \A e \in Client : e # c => port[e] # p
      BY <2>1, <3>1, DatagramAssumption DEF SockInv, Holds, Apart, Idle
    <3>3. {e \in Client : port[e] = p /\ ~Idle(e)} = {c}
      BY <3>1, <3>2
    <3> QED
      BY <2>2, <3>3, FS_Singleton
  <2> QED
    BY <2>1, <2>2 DEF Tenanted
<1> QED
  BY <1>1, SockInvariance, PTL

(***************************************************************************)
(* Second layer: names and ids                                             *)
(***************************************************************************)

\* Nothing has been sent: there is nothing to confuse.
LEMMA InitName == Init => NameInv
<1> SUFFICES ASSUME Init PROVE NameInv
  OBVIOUS
<1> USE DatagramAssumption DEF Init
<1>1. Named /\ Sincere /\ Queued
  BY DEF Named, Sincere, Queued, Waits
<1>2. ASSUME NEW c \in Client PROVE Matched(c) /\ Judged(c)
  BY DEF Matched, Judged
<1> QED
  BY <1>1, <1>2 DEF NameInv

\* A ping whose own variables a step leaves alone keeps its validation.
LEMMA ValidSame ==
  ASSUME NEW e \in Client, world' = world, id'[e] = id[e], got'[e] = got[e]
  PROVE  Valid(e, got[e])' <=> Valid(e, got[e])
BY Zenon DEF Valid, dns_valid, ntp_valid, validate_binding_response,
             validate_allocate_error_response, validate_response_header, Proto

\* A verdict stays justified while the ping that reached it is the last.
LEMMA JudgedFrame ==
  ASSUME NEW e \in Client, Judged(e), world' = world, id'[e] = id[e],
         got'[e] = got[e], outcome'[e] = outcome[e], target'[e] = target[e],
         early'[e] = early[e], reps \subseteq reps'
  PROVE  Judged(e)'
<1>1. Valid(e, got[e])' <=> Valid(e, got[e])
  BY ValidSame
<1> QED
  BY <1>1 DEF Judged

\* A ping still under way has no verdict to justify.
LEMMA JudgedNone ==
  ASSUME NEW e \in Client, got[e] = None, outcome[e] = None
  PROVE  Judged(e)
BY DatagramAssumption DEF Judged

\* What travels still matches a ping whose own variables did not change.
LEMMA MatchedFrame ==
  ASSUME NEW e \in Client, Matched(e), world' = world, id'[e] = id[e],
         ping'[e] = ping[e], target'[e] = target[e], reqs' = reqs, reps' = reps
  PROVE  Matched(e)'
BY DEF Matched, WireId, HasId, Proto

\* A new ping has a name no datagram bears.
LEMMA StartName ==
  ASSUME SockInv, NameInv, NEW c \in Client, NEW s \in Server, Start(c, s)
  PROVE  NameInv'
<1>1. TypeOK /\ Named
  BY DEF SockInv, NameInv
<1>2. /\ pc'[c] = "bind" /\ ping'[c] = pings + 1 /\ pings' = pings + 1
      /\ got'[c] = None /\ outcome'[c] = None
      /\ \A e \in Client : e # c =>
           /\ pc'[e] = pc[e] /\ ping'[e] = ping[e] /\ target'[e] = target[e]
           /\ id'[e] = id[e] /\ early'[e] = early[e] /\ got'[e] = got[e]
           /\ outcome'[e] = outcome[e]
      /\ UNCHANGED <<world, port, peer, queue, reqs, reps>>
  BY <1>1 DEF Start, TypeOK
<1>3. pings \in Nat /\ \A e \in Client : ping[e] \in Nat
  BY <1>1 DEF TypeOK
<1>4. Named'
  <2>1. \A e \in Client : ping'[e] <= pings' /\ (pc'[e] # "idle" => ping'[e] > 0)
    BY <1>1, <1>2, <1>3 DEF Named, Waits
  <2>2. \A e, f \in Client : e # f /\ ping'[e] = ping'[f] => ping'[e] = 0
    <3> SUFFICES ASSUME NEW e \in Client, NEW f \in Client, e # f,
                        ping'[e] = ping'[f]
                 PROVE  ping'[e] = 0
      OBVIOUS
    <3>1. ping[e] <= pings /\ ping[f] <= pings
      BY <1>1 DEF Named
    <3>2. e # c /\ f # c
      BY <1>2, <1>3, <3>1
    <3> QED
      BY <1>1, <1>2, <3>2 DEF Named
  <2>3. \A d \in reqs' \cup reps' : d.ping \in 1..pings'
    BY <1>1, <1>2, <1>3 DEF Named
  <2> QED
    BY <2>1, <2>2, <2>3 DEF Named
<1>5. ASSUME NEW e \in Client PROVE Matched(e)' /\ Judged(e)'
  <2>1. CASE e = c
    <3>1. \A d \in reqs' \cup reps' : d.ping # ping'[c]
      BY <1>1, <1>2, <1>3 DEF Named
    <3>2. Matched(c)'
      BY <3>1 DEF Matched
    <3>3. Judged(c)'
      BY <1>2, DatagramAssumption DEF Judged
    <3> QED
      BY <2>1, <3>2, <3>3
  <2>2. CASE e # c
    BY <1>2, <2>2, MatchedFrame, JudgedFrame DEF NameInv
  <2> QED
    BY <2>1, <2>2
<1>6. Sincere'
  BY <1>2 DEF NameInv, Sincere
<1>7. Queued'
  BY <1>2 DEF NameInv, Queued
<1> QED
  BY <1>4, <1>5, <1>6, <1>7 DEF NameInv

\* Binding names nothing new.
LEMMA BindName ==
  ASSUME SockInv, NameInv, NEW c \in Client, NEW p \in Port, Bind(c, p)
  PROVE  NameInv'
<1>1. TypeOK /\ Named
  BY DEF SockInv, NameInv
<1>2. /\ pc[c] = "bind" /\ pc'[c] = "connect"
      /\ \A e \in Client : e # c => pc'[e] = pc[e] /\ port'[e] = port[e]
      /\ UNCHANGED <<world, pings, ping, target, id, queue, early, reqs, reps,
                     outcome, got>>
  BY <1>1 DEF Bind, TypeOK
<1>3. Named' /\ Sincere'
  BY <1>2 DEF NameInv, Named, Sincere, Waits
<1>4. \A e \in Client : Matched(e)' /\ Judged(e)'
  BY <1>2, MatchedFrame, JudgedFrame DEF NameInv
<1>5. Queued'
  BY <1>2 DEF NameInv, Queued
<1> QED
  BY <1>3, <1>4, <1>5 DEF NameInv

\* connect counts what is queued: if nothing is, no stranger is.
LEMMA ConnectName ==
  ASSUME SockInv, NameInv, NEW c \in Client, Connect(c)
  PROVE  NameInv'
<1>1. TypeOK /\ Named /\ port[c] \in Port /\ Holds(c)
  BY SocketFacts DEF SockInv, NameInv, Connect
<1>2. /\ pc[c] = "connect" /\ pc'[c] = "send"
      /\ early'[c] = Len(queue[port[c]])
      /\ \A e \in Client : e # c => pc'[e] = pc[e] /\ early'[e] = early[e]
      /\ UNCHANGED <<world, pings, ping, target, id, port, queue, reqs, reps,
                     outcome, got>>
  BY <1>1 DEF Connect, TypeOK
<1>3. Named' /\ Sincere'
  BY <1>2 DEF NameInv, Named, Sincere, Waits
<1>4. ASSUME NEW e \in Client PROVE Matched(e)' /\ Judged(e)'
  <2>1. Matched(e)'
    BY <1>2, MatchedFrame DEF NameInv
  <2>2. CASE e = c
    <3>1. got'[c] = None /\ outcome'[c] = None
      BY <1>1, <1>2 DEF Holds, Waits
    <3> QED
      BY <2>1, <2>2, <3>1, DatagramAssumption DEF Judged
  <2>3. CASE e # c
    BY <1>2, <2>1, <2>3, JudgedFrame DEF NameInv
  <2> QED
    BY <2>2, <2>3
<1>5. Queued'
  <2>1. \A p \in Port : \A i \in 1..Len(queue'[p]) : queue'[p][i] \in reps'
    BY <1>2 DEF NameInv, Queued
  <2>2. ASSUME NEW e \in Client, pc'[e] \in {"send", "recv"}, early'[e] = 0,
               NEW i \in 1..Len(queue'[port'[e]])
        PROVE  queue'[port'[e]][i].from = target'[e]
    <3>1. CASE e = c
      BY <1>2, <2>2, <3>1
    <3>2. CASE e # c
      BY <1>2, <2>2, <3>2 DEF NameInv, Queued
    <3> QED
      BY <3>1, <3>2
  <2> QED
    BY <2>1, <2>2 DEF Queued
<1> QED
  BY <1>3, <1>4, <1>5 DEF NameInv

\* A request bears its ping's name, protocol, id and target.
LEMMA SendName ==
  ASSUME SockInv, NameInv, NEW c \in Client, Send(c)
  PROVE  NameInv'
<1> DEFINE r == Request(c)
<1>1. TypeOK /\ Named /\ Holds(c)
  BY DEF SockInv, NameInv
<1>2. /\ pc[c] = "send" /\ pc'[c] = "recv" /\ reqs' = reqs \cup {r}
      /\ \A e \in Client : e # c => pc'[e] = pc[e]
      /\ UNCHANGED <<world, pings, ping, target, id, port, queue, early, reps,
                     outcome, got>>
  BY <1>1 DEF Send, TypeOK
<1>3. /\ ping[c] \in Nat /\ pings \in Nat /\ ping[c] > 0 /\ ping[c] <= pings
  BY <1>1, <1>2 DEF TypeOK, Named, Waits
<1>4. r.ping = ping[c] /\ r.proto = Proto(c) /\ r.id = WireId(c) /\ r.to = target[c]
  BY DEF Request
<1> HIDE DEF r
<1>5. Named'
  <2>1. \A d \in reqs' \cup reps' : d.ping \in 1..pings'
    BY <1>1, <1>2, <1>3, <1>4 DEF Named
  <2>2. /\ \A e \in Client : ping'[e] <= pings' /\ (pc'[e] # "idle" => ping'[e] > 0)
        /\ \A e, f \in Client : e # f /\ ping'[e] = ping'[f] => ping'[e] = 0
    BY <1>1, <1>2 DEF Named, Waits
  <2> QED
    BY <2>1, <2>2 DEF Named
<1>6. ASSUME NEW e \in Client PROVE Matched(e)'
  <2>1. Matched(e) /\ Proto(e)' = Proto(e) /\ WireId(e)' = WireId(e)
    BY <1>2 DEF NameInv, Proto, WireId, HasId
  <2>2. CASE e = c
    BY <1>2, <1>4, <2>1, <2>2 DEF Matched
  <2>3. CASE e # c
    <3>1. r.ping # ping[e]
      BY <1>1, <1>3, <1>4, <2>3 DEF Named
    <3> QED
      BY <1>2, <2>1, <3>1 DEF Matched
  <2> QED
    BY <2>2, <2>3
<1>7. \A e \in Client : Judged(e)'
  BY <1>2, JudgedFrame DEF NameInv
<1>8. Sincere' /\ Queued'
  BY <1>2 DEF NameInv, Sincere, Queued
<1> QED
  BY <1>5, <1>6, <1>7, <1>8 DEF NameInv

\* A return is justified by the datagram it was reached with.
LEMMA ReturnName ==
  ASSUME SockInv, NameInv, NEW c \in Client, NEW o \in {"ok", "err", "timedout"},
         NEW d, Waits(c), Return(c, o, d),
         d # None => d \in reps /\ (d.from # target[c] => early[c] > 0),
         o = "ok" => d # None /\ Valid(c, d),
         o = "err" /\ d # None => d.role = "unreachable" \/ ~Valid(c, d)
  PROVE  NameInv'
<1>1. TypeOK /\ Named /\ Holds(c)
  BY DEF SockInv, NameInv
<1>2. /\ pc'[c] = "returned" /\ outcome'[c] = o /\ got'[c] = d
      /\ \A e \in Client : e # c => /\ pc'[e] = pc[e] /\ port'[e] = port[e]
                                    /\ outcome'[e] = outcome[e] /\ got'[e] = got[e]
      /\ \A q \in Port : q # port[c] => queue'[q] = queue[q]
      /\ \A q \in Port : q = port[c] => queue'[q] = <<>>
      /\ UNCHANGED <<world, pings, ping, target, id, early, reqs, reps>>
  BY <1>1 DEF Return, TypeOK
<1>3. Named' /\ Sincere'
  BY <1>2 DEF NameInv, Named, Sincere, Waits
<1>4. ASSUME NEW e \in Client PROVE Matched(e)' /\ Judged(e)'
  <2>1. Matched(e)'
    BY <1>2, MatchedFrame DEF NameInv
  <2>2. CASE e = c
    <3>1. Valid(c, got[c])' <=> Valid(c, d)
      BY <1>2, Zenon DEF Valid, dns_valid, ntp_valid, validate_binding_response,
         validate_allocate_error_response, validate_response_header, Proto
    <3> QED
      BY <1>2, <2>1, <2>2, <3>1 DEF Judged
  <2>3. CASE e # c
    BY <1>2, <2>1, <2>3, JudgedFrame DEF NameInv
  <2> QED
    BY <2>2, <2>3
<1>5. Queued'
  <2>1. ASSUME NEW q \in Port, NEW i \in 1..Len(queue'[q])
        PROVE  queue'[q][i] \in reps'
    <3>1. q # port[c]
      BY <1>2, <2>1
    <3> QED
      BY <1>2, <2>1, <3>1 DEF NameInv, Queued
  <2>2. ASSUME NEW e \in Client, pc'[e] \in {"send", "recv"}, early'[e] = 0,
               NEW i \in 1..Len(queue'[port'[e]])
        PROVE  queue'[port'[e]][i].from = target'[e]
    <3>1. e # c /\ pc[e] \in {"send", "recv"}
      BY <1>2, <2>2
    <3>2. port[e] \in Port /\ port[e] # None
      BY <3>1, SocketFacts, DatagramAssumption
    <3>3. port[e] # port[c]
      BY <3>1, <3>2 DEF SockInv, Apart
    <3> QED
      BY <1>2, <2>2, <3>1, <3>2, <3>3 DEF NameInv, Queued
  <2> QED
    BY <2>1, <2>2 DEF Queued
<1> QED
  BY <1>3, <1>4, <1>5 DEF NameInv

\* The first datagram decides.
LEMMA RecvName ==
  ASSUME SockInv, NameInv, NEW c \in Client, Recv(c)
  PROVE  NameInv'
<1> DEFINE d == Head(queue[port[c]])
<1>1. /\ port[c] \in Port /\ queue[port[c]] \in Seq(Datagram)
      /\ Len(queue[port[c]]) > 0
      /\ d \in Datagram /\ d = queue[port[c]][1] /\ Waits(c)
      /\ \E o \in {"ok", "err"} :
           /\ Return(c, o, d)
           /\ o = "ok" => d.role # "unreachable" /\ Valid(c, d)
           /\ o = "err" => d.role = "unreachable" \/ ~Valid(c, d)
  BY RecvReturns
<1> HIDE DEF d
<1>2. 1 \in 1..Len(queue[port[c]])
  BY <1>1
<1>3. d \in reps /\ d # None
  BY <1>1, <1>2, DatagramAssumption DEF NameInv, Queued
<1>4. early[c] \in Nat /\ pc[c] = "recv"
  BY DEF SockInv, TypeOK, Recv
<1>5. d.from # target[c] => early[c] > 0
  <2>1. early[c] = 0 => d.from = target[c]
    BY <1>1, <1>2, <1>4 DEF NameInv, Queued
  <2> QED
    BY <1>4, <2>1
<1> QED
  BY <1>1, <1>3, <1>5, ReturnName

\* A reply repeats its request, from the address the request went to.
LEMMA RespondName ==
  ASSUME SockInv, NameInv, NEW r \in reqs, Respond(r)
  PROVE  NameInv'
<1> DEFINE d == Reply(r)
<1>1. /\ d.ping = r.ping /\ d.proto = r.proto /\ d.id = r.id /\ d.from = r.to
      /\ d.role = Role(world.service[r.to], r)
  BY DEF Reply
<1>2. /\ reps' = reps \cup {d}
      /\ UNCHANGED <<world, pings, pc, ping, target, id, port, queue, early, reqs,
                     outcome, got>>
  BY DEF Respond
<1>3. r \in Query /\ TypeOK
  BY DEF SockInv
<1>4. world.service[r.to] \in Protocols \cup {"closed", "failing"}
  <2>1. world \in [proto : [Client -> Protocols],
                   service : [Server -> Protocols \cup {"closed", "failing"}]]
    BY <1>3, DatagramAssumption DEF TypeOK
  <2> QED
    BY <1>3, <2>1 DEF Query
<1> HIDE DEF d
<1>5. Named'
  BY <1>1, <1>2 DEF NameInv, Named, Waits
<1>6. ASSUME NEW e \in Client PROVE Matched(e)' /\ Judged(e)'
  <2>1. Matched(e) /\ Proto(e)' = Proto(e) /\ WireId(e)' = WireId(e)
    BY <1>2 DEF NameInv, Proto, WireId, HasId
  <2>2. Matched(e)'
    BY <1>1, <1>2, <2>1 DEF Matched
  <2>3. Judged(e)'
    BY <1>2, JudgedFrame DEF NameInv
  <2> QED
    BY <2>2, <2>3
<1>7. Sincere'
  <2>1. d.role = "answer" => world.service[d.from] = d.proto
    BY <1>1, <1>4, RoleIs
  <2> QED
    BY <1>2, <2>1 DEF NameInv, Sincere
<1>8. Queued'
  BY <1>2 DEF NameInv, Queued
<1> QED
  BY <1>5, <1>6, <1>7, <1>8 DEF NameInv

\* A queue with one datagram more, at either end, holds no other new one.
LEMMA Enqueued ==
  ASSUME NEW q \in Seq(Datagram), NEW d \in Datagram,
         NEW n \in {Append(q, d), <<d>> \o q}, NEW i \in 1..Len(n)
  PROVE  n[i] = d \/ \E j \in 1..Len(q) : n[i] = q[j]
<1>1. CASE n = Append(q, d)
  BY <1>1
<1>2. CASE n = <<d>> \o q
  <2>1. Len(n) = Len(q) + 1 /\ n[1] = d /\ \A k \in 2..Len(n) : n[k] = q[k - 1]
    BY <1>2
  <2>2. CASE i = 1
    BY <2>1, <2>2
  <2>3. CASE i # 1
    <3>1. i \in 2..Len(n) /\ i - 1 \in 1..Len(q)
      BY <2>1, <2>3
    <3> QED
      BY <2>1, <3>1
  <2> QED
    BY <2>2, <2>3
<1> QED
  BY <1>1, <1>2

\* A connected socket is given only what its target sent.
LEMMA DeliverName ==
  ASSUME SockInv, NameInv, NEW d \in reps, Deliver(d)
  PROVE  NameInv'
<1> DEFINE n == IF d.role = "unreachable" THEN <<d>> \o queue[d.to]
                ELSE Append(queue[d.to], d)
<1>1. TypeOK /\ d \in Datagram /\ d.to \in Port /\ d.from \in Server
  BY DEF SockInv, TypeOK, Datagram
<1>2. /\ queue' = [queue EXCEPT ![d.to] = n]
      /\ UNCHANGED <<world, pings, pc, ping, target, id, port, early, reqs, reps,
                     outcome, got>>
  BY DEF Deliver
<1>3. queue[d.to] \in Seq(Datagram) /\ n \in {Append(queue[d.to], d), <<d>> \o queue[d.to]}
  BY <1>1 DEF TypeOK
<1> HIDE DEF n
<1>4. /\ queue'[d.to] = n
      /\ \A q \in Port : q # d.to => queue'[q] = queue[q]
  BY <1>1, <1>2 DEF TypeOK
<1>5. Named' /\ Sincere'
  BY <1>2 DEF NameInv, Named, Sincere, Waits
<1>6. \A e \in Client : Matched(e)' /\ Judged(e)'
  BY <1>2, MatchedFrame, JudgedFrame DEF NameInv
<1>7. Queued'
  <2>1. ASSUME NEW q \in Port, NEW i \in 1..Len(queue'[q])
        PROVE  queue'[q][i] \in reps'
    <3>1. CASE q = d.to
      <4>1. queue'[q][i] = d \/ \E j \in 1..Len(queue[d.to]) : queue'[q][i] = queue[d.to][j]
        BY <1>1, <1>3, <1>4, <2>1, <3>1, Enqueued
      <4> QED
        BY <1>1, <1>2, <4>1 DEF NameInv, Queued
    <3>2. CASE q # d.to
      BY <1>2, <1>4, <2>1, <3>2 DEF NameInv, Queued
    <3> QED
      BY <3>1, <3>2
  <2>2. ASSUME NEW e \in Client, pc'[e] \in {"send", "recv"}, early'[e] = 0,
               NEW i \in 1..Len(queue'[port'[e]])
        PROVE  queue'[port'[e]][i].from = target'[e]
    <3>1. /\ pc[e] \in {"send", "recv"} /\ early[e] = 0 /\ port[e] \in Port
          /\ peer[port[e]] = target[e] /\ target[e] \in Server
      BY <1>2, <2>2, SocketFacts DEF SockInv, Holds, Waits
    <3>2. \A j \in 1..Len(queue[port[e]]) : queue[port[e]][j].from = target[e]
      BY <3>1 DEF NameInv, Queued
    <3>3. CASE port[e] = d.to
      <4>1. d.from = target[e]
        BY <3>1, <3>3, DatagramAssumption DEF Deliver
      <4>2. queue'[port'[e]][i] = d
            \/ \E j \in 1..Len(queue[d.to]) : queue'[port'[e]][i] = queue[d.to][j]
        <5>1. queue'[port'[e]] = n /\ i \in 1..Len(n)
          BY <1>2, <1>4, <2>2, <3>3
        <5> QED
          BY <1>1, <1>3, <5>1, Enqueued
      <4> QED
        BY <1>2, <3>2, <3>3, <4>1, <4>2
    <3>4. CASE port[e] # d.to
      BY <1>2, <1>4, <2>2, <3>1, <3>2, <3>4
    <3> QED
      BY <3>3, <3>4
  <2> QED
    BY <2>1, <2>2 DEF Queued
<1> QED
  BY <1>5, <1>6, <1>7 DEF NameInv

\* Every step keeps names, ids and verdicts in order.
LEMMA NextName == SockInv /\ NameInv /\ [Next]_vars => NameInv'
<1> SUFFICES ASSUME SockInv, NameInv, [Next]_vars PROVE NameInv'
  OBVIOUS
<1>1. CASE UNCHANGED vars
  <2>1. Named' /\ Sincere' /\ Queued'
    BY <1>1 DEF vars, NameInv, Named, Sincere, Queued, Waits
  <2>2. \A e \in Client : Matched(e)' /\ Judged(e)'
    BY <1>1, MatchedFrame, JudgedFrame DEF vars, NameInv
  <2> QED
    BY <2>1, <2>2 DEF NameInv
<1>2. ASSUME NEW c \in Client, TimeOut(c) PROVE NameInv'
  BY <1>2, ReturnName DEF TimeOut
<1>3. ASSUME NEW c \in Client, IoError(c) PROVE NameInv'
  BY <1>3, ReturnName DEF IoError, Waits
<1>4. ASSUME NEW c \in Client, Task(c) PROVE NameInv'
  BY <1>2, <1>3, <1>4, BindName, ConnectName, SendName, RecvName DEF Task
<1> QED
  BY <1>1, <1>4, StartName, RespondName, DeliverName DEF Next, Quiet

\* Every behaviour keeps names, ids and verdicts in order.
LEMMA NameInvariance == Spec => []NameInv
BY InitName, NextName, SockInvariance, PTL DEF Spec

(***************************************************************************)
(* Third layer: ids and the readings they are cut from                     *)
(***************************************************************************)

\* Before the first ping nothing has been read.
LEMMA InitTimed == Init => Timed
BY DEF Init, Timed

\* Each ping reads the clock once, and its datagrams carry that reading.
LEMMA StartTimed ==
  ASSUME SockInv, NameInv, Timed, NEW c \in Client, NEW s \in Server, Start(c, s)
  PROVE  Timed'
<1>1. TypeOK /\ Named /\ stamps \in Seq(Nat) /\ pings \in Nat /\ Len(stamps) = pings
  BY DEF SockInv, NameInv, TypeOK, Timed
<1>2. PICK now \in Readings :
        stamps' = Append(stamps, now) /\ id' = [id EXCEPT ![c] = FreshId(c, now)]
  BY DEF Start
<1>3. now \in Nat
  BY <1>1, IdNat
<1>4. /\ pings' = pings + 1 /\ ping'[c] = pings + 1 /\ id'[c] = FreshId(c, now)
      /\ \A e \in Client : e # c => ping'[e] = ping[e] /\ id'[e] = id[e]
      /\ UNCHANGED <<world, reqs, reps>>
  BY <1>1, <1>2 DEF Start, TypeOK
<1>5. /\ Len(stamps') = pings + 1 /\ stamps'[pings + 1] = now
      /\ \A n \in 1..pings : stamps'[n] = stamps[n]
  BY <1>1, <1>2, <1>3
<1>6. \A p : \A n \in 1..pings : IdOf(p, stamps', n) = IdOf(p, stamps, n)
  BY <1>5 DEF IdOf
<1>7. ASSUME NEW e \in Client, ping'[e] > 0
      PROVE  id'[e] = IdOf(Proto(e)', stamps', ping'[e])
  <2>1. CASE e = c
    BY <1>4, <1>5, <2>1 DEF FreshId, IdOf, Proto
  <2>2. CASE e # c
    <3>1. ping[e] \in 1..pings
      BY <1>1, <1>4, <1>7, <2>2 DEF Named, TypeOK
    <3>2. id[e] = IdOf(Proto(e), stamps, ping[e])
      BY <1>1, <3>1 DEF Timed
    <3> QED
      BY <1>4, <1>6, <2>2, <3>1, <3>2 DEF Proto
  <2> QED
    BY <2>1, <2>2
<1>8. ASSUME NEW d \in reqs' \cup reps', d.proto \in {"dns", "stun", "turn"}
      PROVE  d.id = IdOf(d.proto, stamps', d.ping)
  <2>1. d.ping \in 1..pings /\ d.id = IdOf(d.proto, stamps, d.ping)
    BY <1>1, <1>4, <1>8 DEF Named, Timed
  <2> QED
    BY <1>6, <2>1
<1> QED
  BY <1>4, <1>5, <1>7, <1>8 DEF Timed

\* A step that reads no clock and sends nothing changes no id.
LEMMA TimedFrame ==
  ASSUME Timed, UNCHANGED <<world, stamps, pings, ping, id, reqs, reps>>
  PROVE  Timed'
BY DEF Timed, Proto

\* A request carries its ping's id.
LEMMA SendTimed ==
  ASSUME SockInv, NameInv, Timed, NEW c \in Client, Send(c)
  PROVE  Timed'
<1> DEFINE r == Request(c)
<1>1. r.ping = ping[c] /\ r.proto = Proto(c) /\ r.id = WireId(c)
  BY DEF Request
<1>2. reqs' = reqs \cup {r} /\ UNCHANGED <<world, stamps, pings, ping, id, reps>>
  BY DEF Send
<1> HIDE DEF r
<1>3. ping[c] > 0
  BY DEF Send, Waits, NameInv, Named
<1>4. r.proto \in {"dns", "stun", "turn"} => r.id = IdOf(r.proto, stamps, r.ping)
  BY <1>1, <1>3 DEF Timed, WireId, HasId
<1> QED
  BY <1>2, <1>4 DEF Timed, Proto

\* A reply carries its request's id.
LEMMA RespondTimed ==
  ASSUME Timed, NEW r \in reqs, Respond(r)
  PROVE  Timed'
<1> DEFINE a == Reply(r)
<1>1. a.ping = r.ping /\ a.proto = r.proto /\ a.id = r.id
  BY DEF Reply
<1>2. reps' = reps \cup {a} /\ UNCHANGED <<world, stamps, pings, ping, id, reqs>>
  BY DEF Respond
<1> HIDE DEF a
<1> QED
  BY <1>1, <1>2 DEF Timed, Proto

\* Every step keeps ids the readings of their pings.
LEMMA NextTimed == SockInv /\ NameInv /\ Timed /\ [Next]_vars => Timed'
<1> SUFFICES ASSUME SockInv, NameInv, Timed, [Next]_vars PROVE Timed'
  OBVIOUS
<1>1. ASSUME NEW c \in Client, Task(c), ~Send(c) PROVE Timed'
  BY <1>1, TimedFrame DEF Task, Bind, Connect, Recv, TimeOut, IoError, Return
<1>2. ASSUME NEW d \in reps, Deliver(d) PROVE Timed'
  BY <1>2, TimedFrame DEF Deliver
<1>3. CASE UNCHANGED vars
  BY <1>3, TimedFrame DEF vars
<1> QED
  BY <1>1, <1>2, <1>3, StartTimed, SendTimed, RespondTimed DEF Next, Quiet

\* Every behaviour keeps ids the readings of their pings.
LEMMA TimedInvariance == Spec => []Timed
BY InitTimed, NextTimed, SockInvariance, NameInvariance, PTL DEF Spec

(***************************************************************************)
(* The verdicts                                                            *)
(***************************************************************************)

\* What a successful validation says of the datagram.
LEMMA ValidFacts ==
  ASSUME NEW c \in Client, NEW d, Valid(c, d), HasId(c)
  PROVE  d.proto = Proto(c) /\ d.role = "answer" /\ d.id = id[c]
<1>1. CASE Proto(c) = "dns"
  <2>1. Valid(c, d) <=> dns_valid(c, d)
    BY <1>1, Zenon DEF Valid
  <2> QED
    BY <1>1, <2>1 DEF dns_valid
<1>2. CASE Proto(c) = "stun"
  <2>1. Valid(c, d) <=> validate_binding_response(c, d)
    BY <1>2, Zenon DEF Valid
  <2> QED
    BY <1>2, <2>1 DEF validate_binding_response, validate_response_header
<1>3. CASE Proto(c) = "turn"
  <2>1. Valid(c, d) <=> validate_allocate_error_response(c, d)
    BY <1>3, Zenon DEF Valid
  <2> QED
    BY <1>3, <2>1 DEF validate_allocate_error_response, validate_response_header
<1> QED
  BY <1>1, <1>2, <1>3 DEF HasId

\* Its own answer is what every pinger validates.
LEMMA OwnAnswerValid ==
  ASSUME NEW c \in Client, Proto(c) \in Protocols, NEW d,
         d.proto = Proto(c), d.role = "answer", d.id = WireId(c)
  PROVE  Valid(c, d)
<1>1. CASE Proto(c) = "udp"
  BY <1>1, Zenon DEF Valid
<1>2. CASE Proto(c) = "ntp"
  <2>1. ntp_valid(c, d)
    BY <1>2 DEF ntp_valid
  <2> QED
    BY <1>2, <2>1, Zenon DEF Valid
<1>3. CASE HasId(c)
  <2>1. /\ Proto(c) = "dns" => dns_valid(c, d)
        /\ validate_binding_response(c, d)
        /\ validate_allocate_error_response(c, d)
    BY <1>3 DEF WireId, dns_valid, validate_binding_response,
                validate_allocate_error_response, validate_response_header
  <2>2. Proto(c) = "dns" \/ Proto(c) = "stun" \/ Proto(c) = "turn"
    BY <1>3 DEF HasId
  <2> QED
    BY <2>1, <2>2, Zenon DEF Valid
<1> QED
  BY <1>1, <1>2, <1>3 DEF Protocols, HasId

\* The answer of a responder of the right kind is never rejected.
THEOREM RejectionCorrect == Spec => []RejectionIsForeign
<1>1. SockInv /\ NameInv => RejectionIsForeign
  <2> SUFFICES ASSUME SockInv, NameInv, NEW c \in Client, outcome[c] = "err",
                      got[c] # None, got[c].ping = ping[c], got[c].role = "answer"
               PROVE  FALSE
    BY DEF RejectionIsForeign
  <2>1. Judged(c) /\ Matched(c) /\ Proto(c) \in Protocols
    BY SocketFacts DEF NameInv
  <2>2. got[c].proto = Proto(c) /\ got[c].id = WireId(c)
    BY <2>1 DEF Judged, Matched
  <2>3. Valid(c, got[c])
    BY <2>1, <2>2, OwnAnswerValid
  <2> QED
    BY <2>1, <2>3 DEF Judged
<1> QED
  BY <1>1, SockInvariance, NameInvariance, PTL

\* A stranger's datagram decides only if it was queued before connect.
THEOREM StrangerCorrect == Spec => []StrangerOnlyBeforeConnect
<1>1. NameInv => StrangerOnlyBeforeConnect
  BY DEF NameInv, Judged, StrangerOnlyBeforeConnect
<1> QED
  BY <1>1, NameInvariance, PTL

\* What decides a success of a pinger with an id: its target's answer to this
\* ping, or a DNS, STUN or TURN answer to another whose id is the same.
LEMMA OwnAnswer ==
  ASSUME SockInv, NameInv, Timed, NEW c \in Client, outcome[c] = "ok", HasId(c)
  PROVE  /\ ping[c] \in 1..pings /\ got[c].ping \in 1..pings
         /\ world.service[got[c].from] = Proto(c)
         /\ got[c].ping = ping[c] => got[c].from = target[c]
         /\ IdOf(Proto(c), stamps, got[c].ping) = IdOf(Proto(c), stamps, ping[c])
<1> DEFINE d == got[c]
<1>1. TypeOK /\ Judged(c) /\ Matched(c) /\ Named /\ Sincere
  BY DEF SockInv, NameInv
<1>2. d \in reps /\ Valid(c, d)
  BY <1>1 DEF Judged
<1>3. d.proto = Proto(c) /\ d.role = "answer" /\ d.id = id[c]
  BY <1>2, ValidFacts
<1>4. ping[c] \in Nat /\ pings \in Nat /\ d.ping \in 1..pings /\ ping[c] <= pings
  BY <1>1, <1>2 DEF TypeOK, Named
<1> HIDE DEF d
<1>5. ping[c] > 0
  BY <1>1, DatagramAssumption DEF SockInv, Holds, Named
<1>6. IdOf(Proto(c), stamps, d.ping) = IdOf(Proto(c), stamps, ping[c])
  <2>1. /\ d.id = IdOf(d.proto, stamps, d.ping)
        /\ id[c] = IdOf(Proto(c), stamps, ping[c])
    BY <1>2, <1>3, <1>5 DEF Timed, HasId
  <2> QED
    BY <1>3, <2>1
<1>7. d.ping = ping[c] => d.from = target[c]
  BY <1>1, <1>2 DEF Matched
<1>8. world.service[d.from] = Proto(c)
  BY <1>1, <1>2, <1>3 DEF Sincere
<1> QED
  BY <1>4, <1>5, <1>6, <1>7, <1>8 DEF d

\* A DNS, STUN or TURN ping succeeds only on the answer its target gave to its
\* own request, or on that to a ping which cut the same id from the clock: for
\* STUN and TURN one that read the same instant.  However datagrams are delayed,
\* reordered, duplicated or reach a reused port, and however the clock runs.
THEOREM SuccessCorrect == Spec => []SuccessIsOwnAnswer
<1>1. SockInv /\ NameInv /\ Timed => SuccessIsOwnAnswer
  <2> SUFFICES ASSUME SockInv, NameInv, Timed, NEW c \in Client, outcome[c] = "ok",
                      HasId(c), got[c].ping # ping[c]
               PROVE  /\ world.service[got[c].from] = Proto(c)
                      /\ IF Proto(c) = "dns"
                         THEN random_id(stamps[got[c].ping]) = random_id(stamps[ping[c]])
                         ELSE stamps[got[c].ping] = stamps[ping[c]]
    BY OwnAnswer DEF SuccessIsOwnAnswer
  <2>1. /\ world.service[got[c].from] = Proto(c)
        /\ IdOf(Proto(c), stamps, got[c].ping) = IdOf(Proto(c), stamps, ping[c])
    BY OwnAnswer
  <2> QED
    BY <2>1 DEF IdOf, random_transaction_id
<1> QED
  BY <1>1, SockInvariance, NameInvariance, TimedInvariance, PTL
=============================================================================
