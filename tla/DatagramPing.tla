---------------------------- MODULE DatagramPing ----------------------------
(***************************************************************************)
(* The pingers that exchange one UDP datagram each way (UdpPinger,         *)
(* DnsPinger, NtpPinger, StunPinger, TurnPinger) against the responders of *)
(* testserver.  They share one shape:                                      *)
(*                                                                         *)
(*   read the clock for an id; bind an ephemeral port; connect; send the   *)
(*   request; take the FIRST datagram received and validate it; and all    *)
(*   of it from bind on under with_timeout, which drops the socket.        *)
(*                                                                         *)
(* The network may lose, delay, reorder and duplicate: a datagram once     *)
(* sent stays available for delivery for ever and need never be delivered. *)
(* An ephemeral port may be given out again as soon as it is free, so that *)
(* a datagram meant for an earlier socket can reach a later one.  Between  *)
(* bind and connect (an await: the name is looked up there) the socket     *)
(* takes datagrams from anyone, and connect does not empty its queue.      *)
(***************************************************************************)
EXTENDS Integers, Sequences, FiniteSets

CONSTANTS
  Client,     \* tasks that ping, one ping after the other
  Server,     \* addresses
  Port,       \* ephemeral local ports
  Worlds,     \* which pinger each client is, what runs at each address
  None,
  Steps,      \* by how much the clock may advance from one ping to the next
  IdSpace,    \* number of distinct DNS ids, 2^16
  QueueCap,   \* BOUND: datagrams a socket's buffer holds
  MaxPings    \* BOUND: pings started in all

Protocols == {"udp", "dns", "ntp", "stun", "turn"}

\* A socket that is bound but not connected accepts any source address.
Anyone == "anyone"

\* What a server sends.
Datagram == [from : Server, to : Port, proto : Protocols,
             role : {"query", "answer", "error", "garbled", "unreachable"},
             id : Nat, ping : Nat]

ASSUME DatagramAssumption ==
  /\ Worlds \subseteq [proto : [Client -> Protocols],
                       service : [Server -> Protocols \cup {"closed", "failing"}]]
  /\ Steps \subseteq Nat
  /\ IdSpace \in Nat \ {0}
  /\ QueueCap \in Nat \ {0}
  /\ MaxPings \in Nat
  /\ None \notin Server \cup Port \cup Datagram \cup {Anyone, "ok", "err", "timedout"}
  /\ Anyone \notin Server

VARIABLES
  world,     \* the member of Worlds at hand
  stamps,    \* SystemTime::now() as ping number n read it, for its id
  pings,     \* pings started so far; the number of a ping is its name
  pc,        \* where ping() is
  ping,      \* HISTORY: the name of the client's current or last ping
  target,    \* the endpoint
  id,        \* `id` / `txid`
  port,      \* the local port of `socket`
  peer,      \* per port: closed, bound (takes anyone) or connected to
  queue,     \* per port: the socket's receive buffer
  early,     \* HISTORY: datagrams already queued when connect was called
  reqs,      \* requests sent
  reps,      \* replies sent
  outcome,   \* what the last ping() returned
  got        \* HISTORY: the datagram that decided it

vars == <<world, stamps, pings, pc, ping, target, id, port, peer, queue, early,
          reqs, reps, outcome, got>>

----------------------------------------------------------------------------
(* Ids and messages *)

Proto(c) == world.proto[c]

HasId(c) == Proto(c) \in {"dns", "stun", "turn"}

\* What the clock may show to the next ping; the first one reads zero.
Readings ==
  IF stamps = <<>> THEN {0} ELSE {stamps[Len(stamps)] + k : k \in Steps}

\* dns.rs: (nanos ^ secs) as u16, a function of the clock alone: readings whose
\* low 16 bits agree give the same id, however far apart they are.
random_id(now) == now % IdSpace

\* stun.rs: seconds and nanoseconds side by side, and nothing else.
random_transaction_id(now) == now

FreshId(c, now) ==
  IF Proto(c) = "dns" THEN random_id(now) ELSE random_transaction_id(now)

\* build_header: the id goes out as it was generated.
WireId(c) == IF HasId(c) THEN id[c] ELSE 0

\* MUTANT of Request: the id on the wire is not the one kept for validation.
RequestOtherId(c) ==
  [from |-> port[c], to |-> target[c], proto |-> Proto(c), role |-> "query",
   id |-> WireId(c) + 1, ping |-> ping[c]]

\* The datagram; one byte for UDP.  `ping` is history, not on the wire.
Request(c) ==
  [from |-> port[c], to |-> target[c], proto |-> Proto(c), role |-> "query",
   id |-> WireId(c), ping |-> ping[c]]

\* dns.rs validate_response.  The question is repeated by whoever repeats
\* the id: one client asks one question.
dns_valid(c, d) == d.id = id[c] /\ d.proto = "dns" /\ d.role = "answer"

\* ntp.rs validate_response: length, mode and version, nothing to correlate.
ntp_valid(c, d) == d.proto = "ntp" /\ d.role = "answer"

\* MUTANT of validate_response_header: the id is not compared.
header_any_id(c, d) == d.proto = Proto(c) /\ d.role \in {"answer", "error"}

\* Message type, cookie and transaction id.
validate_response_header(c, d) ==
  d.proto = Proto(c) /\ d.role \in {"answer", "error"} /\ d.id = id[c]

\* stun.rs: a Binding Success, and not another type of message.
validate_binding_response(c, d) == validate_response_header(c, d) /\ d.role = "answer"

\* turn.rs: an Allocate Error whose ERROR-CODE is 401, the "answer".
validate_allocate_error_response(c, d) ==
  validate_response_header(c, d) /\ d.role = "answer"

\* UdpPinger takes any datagram at all.
Valid(c, d) ==
  CASE Proto(c) = "udp"  -> TRUE
    [] Proto(c) = "dns"  -> dns_valid(c, d)
    [] Proto(c) = "ntp"  -> ntp_valid(c, d)
    [] Proto(c) = "stun" -> validate_binding_response(c, d)
    [] Proto(c) = "turn" -> validate_allocate_error_response(c, d)

\* The responders of testserver: what each makes of a request.  One byte of
\* UDP is too short for all but the echo and the request is dropped; so is
\* what is not 48 bytes long at the NTP server.  A request of another
\* protocol becomes bytes that no validation accepts.
udp_echo(r) == "query"

Heed(own, r) ==
  IF r.proto = "udp" THEN "none" ELSE IF r.proto = own THEN "answer" ELSE "garbled"

dns_ok(r) == Heed("dns", r)
ntp_ok(r) == IF r.proto = "ntp" THEN "answer" ELSE "none"
stun_ok(r) == Heed("stun", r)
turn_ok(r) == Heed("turn", r)

\* "failing" is a real server that answers with an error: an RCODE, a code
\* other than 401.  A closed port draws an ICMP error.
Role(service, r) ==
  CASE service = "udp"     -> udp_echo(r)
    [] service = "dns"     -> dns_ok(r)
    [] service = "ntp"     -> ntp_ok(r)
    [] service = "stun"    -> stun_ok(r)
    [] service = "turn"    -> turn_ok(r)
    [] service = "failing" -> "error"
    [] service = "closed"  -> "unreachable"

Reply(r) ==
  [from |-> r.to, to |-> r.from, proto |-> r.proto,
   role |-> Role(world.service[r.to], r), id |-> r.id, ping |-> r.ping]

----------------------------------------------------------------------------
(* ping() *)

Idle(c) == pc[c] \in {"idle", "returned"}

\* The call, up to the await of bind: the id is read from the clock, which may
\* have advanced by any amount since another ping read it, or by nothing.
Start(c, s) ==
  /\ Idle(c)
  /\ pings < MaxPings
  /\ pings' = pings + 1
  /\ pc' = [pc EXCEPT ![c] = "bind"]
  /\ ping' = [ping EXCEPT ![c] = pings + 1]
  /\ target' = [target EXCEPT ![c] = s]
  /\ \E now \in Readings :
       /\ stamps' = Append(stamps, now)
       /\ id' = [id EXCEPT ![c] = FreshId(c, now)]
  /\ early' = [early EXCEPT ![c] = 0]
  /\ outcome' = [outcome EXCEPT ![c] = None]
  /\ got' = [got EXCEPT ![c] = None]
  /\ UNCHANGED <<world, port, peer, queue, reqs, reps>>

\* UdpSocket::bind("0.0.0.0:0"): the system picks a free port.
Bind(c, p) ==
  /\ pc[c] = "bind"
  /\ peer[p] = None
  /\ pc' = [pc EXCEPT ![c] = "connect"]
  /\ port' = [port EXCEPT ![c] = p]
  /\ peer' = [peer EXCEPT ![p] = Anyone]
  /\ UNCHANGED <<world, stamps, pings, ping, target, id, queue, early, reqs, reps,
                 outcome, got>>

\* MUTANT of Connect: the socket is left unconnected.
ConnectNot(c) ==
  /\ pc[c] = "connect"
  /\ pc' = [pc EXCEPT ![c] = "send"]
  /\ early' = [early EXCEPT ![c] = Len(queue[port[c]])]
  /\ UNCHANGED <<world, stamps, pings, ping, target, id, port, peer, queue, reqs,
                 reps, outcome, got>>

\* socket.connect(&endpoint): from here on the kernel filters by source.
Connect(c) ==
  /\ pc[c] = "connect"
  /\ pc' = [pc EXCEPT ![c] = "send"]
  /\ peer' = [peer EXCEPT ![port[c]] = target[c]]
  /\ early' = [early EXCEPT ![c] = Len(queue[port[c]])]
  /\ UNCHANGED <<world, stamps, pings, ping, target, id, port, queue, reqs, reps,
                 outcome, got>>

Send(c) ==
  /\ pc[c] = "send"
  /\ pc' = [pc EXCEPT ![c] = "recv"]
  /\ reqs' = reqs \cup {Request(c)}
  /\ UNCHANGED <<world, stamps, pings, ping, target, id, port, peer, queue, early,
                 reps, outcome, got>>

\* MUTANT of Return: the socket outlives the ping.
ReturnLeaks(c, o, d) ==
  /\ pc' = [pc EXCEPT ![c] = "returned"]
  /\ outcome' = [outcome EXCEPT ![c] = o]
  /\ got' = [got EXCEPT ![c] = d]
  /\ port' = [port EXCEPT ![c] = None]
  /\ UNCHANGED <<world, stamps, pings, ping, target, id, peer, queue, early, reqs,
                 reps>>

\* ping() returns o; the socket, if there is one, is dropped with its queue.
Return(c, o, d) ==
  /\ pc' = [pc EXCEPT ![c] = "returned"]
  /\ outcome' = [outcome EXCEPT ![c] = o]
  /\ got' = [got EXCEPT ![c] = d]
  /\ port' = [port EXCEPT ![c] = None]
  /\ peer' = [p \in Port |-> IF p = port[c] THEN None ELSE peer[p]]
  /\ queue' = [p \in Port |-> IF p = port[c] THEN <<>> ELSE queue[p]]
  /\ UNCHANGED <<world, stamps, pings, ping, target, id, early, reqs, reps>>

\* socket.recv(&mut buf), once: the first datagram decides.  An ICMP error
\* surfaces as an Err of recv.
Recv(c) ==
  /\ pc[c] = "recv"
  /\ queue[port[c]] # <<>>
  /\ LET d == Head(queue[port[c]])
     IN  Return(c, IF d.role # "unreachable" /\ Valid(c, d) THEN "ok" ELSE "err", d)

\* MUTANT of Waits: no timeout once the request has been sent.
WaitsNotForReply(c) == pc[c] \in {"bind", "connect", "send"}

Waits(c) == pc[c] \in {"bind", "connect", "send", "recv"}

\* The timer of with_timeout fires, at any of the awaits.
TimeOut(c) == Waits(c) /\ Return(c, "timedout", None)

\* bind finds no port, the name does not resolve, send fails.
IoError(c) == pc[c] \in {"bind", "connect", "send"} /\ Return(c, "err", None)

----------------------------------------------------------------------------
(* The network and the servers *)

\* MUTANT of Respond: the length of the request is not checked.
RespondUnchecked(r) ==
  /\ reps' = reps \cup {Reply(r)}
  /\ UNCHANGED <<world, stamps, pings, pc, ping, target, id, port, peer, queue, early,
                 reqs, outcome, got>>

\* A responder's loop: one datagram in, at most one out.
Respond(r) ==
  /\ Role(world.service[r.to], r) # "none"
  /\ reps' = reps \cup {Reply(r)}
  /\ UNCHANGED <<world, stamps, pings, pc, ping, target, id, port, peer, queue, early,
                 reqs, outcome, got>>

\* The kernel queues a datagram on the socket that has its port, if the
\* socket takes its source.  An ICMP error concerns only a connected socket
\* and is reported before anything queued.
Deliver(d) ==
  /\ peer[d.to] = d.from \/ (peer[d.to] = Anyone /\ d.role # "unreachable")
  /\ Len(queue[d.to]) < QueueCap
  /\ queue' = [queue EXCEPT ![d.to] = IF d.role = "unreachable" THEN <<d>> \o @
                                      ELSE Append(@, d)]
  /\ UNCHANGED <<world, stamps, pings, pc, ping, target, id, port, peer, early, reqs,
                 reps, outcome, got>>

Init ==
  /\ world \in Worlds
  /\ stamps = <<>> /\ pings = 0
  /\ pc = [c \in Client |-> "idle"]
  /\ ping = [c \in Client |-> 0]
  /\ target = [c \in Client |-> None]
  /\ id = [c \in Client |-> 0]
  /\ port = [c \in Client |-> None]
  /\ peer = [p \in Port |-> None]
  /\ queue = [p \in Port |-> <<>>]
  /\ early = [c \in Client |-> 0]
  /\ reqs = {} /\ reps = {}
  /\ outcome = [c \in Client |-> None]
  /\ got = [c \in Client |-> None]

Task(c) ==
  \/ \E p \in Port : Bind(c, p)
  \/ Connect(c) \/ Send(c) \/ Recv(c) \/ TimeOut(c) \/ IoError(c)

Quiet == (\A c \in Client : Idle(c)) /\ pings = MaxPings /\ UNCHANGED vars

Next ==
  \/ \E c \in Client, s \in Server : Start(c, s)
  \/ \E c \in Client : Task(c)
  \/ \E r \in reqs : Respond(r)
  \/ \E d \in reps : Deliver(d)
  \/ Quiet

Spec == Init /\ [][Next]_vars

\* Only the runtime is fair: a timer that has expired wakes its task.
FairSpec == Spec /\ \A c \in Client : WF_vars(TimeOut(c))

----------------------------------------------------------------------------
(* Properties *)

\* Every variable has its type: no responder sends what it cannot build.
TypeOK ==
  /\ world \in Worlds
  /\ stamps \in Seq(Nat) /\ pings \in Nat
  /\ pc \in [Client -> {"idle", "bind", "connect", "send", "recv", "returned"}]
  /\ ping \in [Client -> Nat] /\ id \in [Client -> Nat] /\ early \in [Client -> Nat]
  /\ target \in [Client -> Server \cup {None}]
  /\ port \in [Client -> Port \cup {None}]
  /\ peer \in [Port -> Server \cup {None, Anyone}]
  /\ queue \in [Port -> Seq(Datagram)]
  /\ reps \subseteq Datagram
  /\ outcome \in [Client -> {None, "ok", "err", "timedout"}]
  /\ got \in [Client -> Datagram \cup {None}]

\* A DNS, STUN or TURN ping that succeeds was answered: the server it was
\* aimed at received THIS ping's request and answered it with success.  A late
\* datagram of another ping on a reused port never makes it succeed, with one
\* exception: the two pings cut the same id from the clock.  For DNS the low 16
\* bits may agree at any two instants, at the second ping already; for STUN and
\* TURN both must have read the very same instant, since the "per-call
\* entropy" of the comment at random_transaction_id is not there.
SuccessIsOwnAnswer ==
  \A c \in Client :
    outcome[c] = "ok" /\ HasId(c) =>
      \/ /\ got[c].ping = ping[c]
         /\ got[c].from = target[c]
         /\ world.service[target[c]] = Proto(c)
      \/ /\ got[c].ping # ping[c] /\ world.service[got[c].from] = Proto(c)
         /\ IF Proto(c) = "dns"
            THEN random_id(stamps[got[c].ping]) = random_id(stamps[ping[c]])
            ELSE stamps[got[c].ping] = stamps[ping[c]]

\* The answer of a responder of the right kind is never rejected: a ping
\* that receives something and fails received another ping's datagram first,
\* or what it was sent was not a success.
RejectionIsForeign ==
  \A c \in Client :
    outcome[c] = "err" /\ got[c] # None =>
      \/ got[c].ping # ping[c]
      \/ got[c].role # "answer"

\* A verdict is taken from a datagram of another address than the target
\* only if it slipped in between bind and connect.
StrangerOnlyBeforeConnect ==
  \A c \in Client :
    got[c] # None /\ got[c].from # target[c] => early[c] > 0

\* A port belongs to one task at a time and is given back: a socket is open
\* exactly as long as the ping that bound it runs (with_timeout drops it).
NoPortLeak ==
  \A p \in Port :
    IF peer[p] = None
    THEN queue[p] = <<>> /\ \A c \in Client : port[c] # p
    ELSE Cardinality({c \in Client : port[c] = p /\ ~Idle(c)}) = 1

\* Every ping returns, whatever is lost.
EveryPingReturns ==
  \A c \in Client : pc[c] = "bind" ~> pc[c] = "returned"
=============================================================================
