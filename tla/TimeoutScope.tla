----------------------------- MODULE TimeoutScope -----------------------------
(***************************************************************************)
(* What the timeout of a pinger covers.  ping() is a sequence of awaits;   *)
(* each is under a timer of the whole call, under one of its own, or under *)
(* none:                                                                   *)
(*   wrapped  every pinger on util::with_timeout: one timer, armed first;  *)
(*   check    GrpcPinger: tonic's connect_timeout is over the TCP connect  *)
(*            alone, not the name lookup before it nor the TLS handshake   *)
(*            after it, and its request timeout over the response head,    *)
(*            not the message that follows;                                *)
(*   watch    GrpcStreamPinger: the same, with the stream's first message; *)
(*   quic     QuicPinger: resolve_first, the handshake under               *)
(*            tokio::time::timeout, then endpoint.wait_idle().             *)
(* Timers expire on the tick; the lag of a poll is PingDriver's subject.   *)
(***************************************************************************)
EXTENDS Integers, Sequences

CONSTANTS
  Kinds,     \* the pingers under study
  Timeouts,  \* their `timeout`, in ticks
  Horizon    \* BOUND: an await without a timer is watched this long

ASSUME ScopeAssumption ==
  /\ Kinds \subseteq {"wrapped", "check", "watch", "quic"}
  /\ Timeouts \subseteq Nat /\ Horizon \in Nat

VARIABLES
  kind, timeout,
  now,     \* ticks since ping() was called
  at,      \* the await ping() is suspended in
  armed,   \* when that await's own timer was armed
  loose,   \* HISTORY: ticks spent in awaits under no timer
  out      \* what ping() returned

vars == <<kind, timeout, now, at, armed, loose, out>>

----------------------------------------------------------------------------

Await(what, timer) == [what |-> what, timer |-> timer]

\* util.rs with_timeout around the pinger's I/O.
with_timeout == <<Await("connect", "whole"), Await("exchange", "whole")>>

\* grpc.rs: endpoint.connect() is the first three awaits (without TLS the
\* third is over at once), client.check() the other two.
GrpcCheck == <<Await("lookup", "none"), Await("connect", "own"), Await("tls", "none"),
               Await("check", "own"), Await("body", "none")>>

\* The same with client.watch() and stream.message().
GrpcWatch == <<Await("lookup", "none"), Await("connect", "own"), Await("tls", "none"),
               Await("watch", "own"), Await("message", "none")>>

\* MUTANT of Quic: the handshake is left to quinn's idle timeout.
QuicUncapped == <<Await("resolve_first", "none"), Await("connecting", "none"),
                  Await("wait_idle", "none")>>

Quic == <<Await("resolve_first", "none"), Await("connecting", "own"),
          Await("wait_idle", "none")>>

Awaits(k) ==
  CASE k = "wrapped" -> with_timeout
    [] k = "check"   -> GrpcCheck
    [] k = "watch"   -> GrpcWatch
    [] k = "quic"    -> Quic

Here == Awaits(kind)[at]
Pending == out = "none"

\* MUTANT of Since: every timer of the call is armed with its await.
SinceAwait == armed

\* When the timer over the present await was armed.
Since == IF Here.timer = "whole" THEN 0 ELSE armed

Expired == Here.timer # "none" /\ now >= Since + timeout

Tick ==
  /\ Pending /\ ~Expired /\ now < Horizon
  /\ now' = now + 1
  /\ loose' = IF Here.timer = "none" THEN loose + 1 ELSE loose
  /\ UNCHANGED <<kind, timeout, at, armed, out>>

\* MUTANT of Proceed: ping() does not return after its last await.
ProceedPast ==
  /\ Pending
  /\ at' = at + 1 /\ armed' = now
  /\ UNCHANGED <<kind, timeout, now, loose, out>>

\* The await completes; the inner future is looked at before the timer.
Proceed ==
  /\ Pending
  /\ IF at = Len(Awaits(kind))
     THEN out' = "ok" /\ UNCHANGED <<at, armed>>
     ELSE at' = at + 1 /\ armed' = now /\ UNCHANGED out
  /\ UNCHANGED <<kind, timeout, now, loose>>

\* wait_idle returns nothing; every other await may fail.
Fail ==
  /\ Pending /\ Here.what # "wait_idle"
  /\ out' = "err"
  /\ UNCHANGED <<kind, timeout, now, at, armed, loose>>

TimeOut ==
  /\ Pending /\ Expired
  /\ out' = "timedout"
  /\ UNCHANGED <<kind, timeout, now, at, armed, loose>>

Init ==
  /\ kind \in Kinds /\ timeout \in Timeouts
  /\ now = 0 /\ at = 1 /\ armed = 0 /\ loose = 0 /\ out = "none"

Done == (~Pending \/ now = Horizon) /\ UNCHANGED vars

Next == Tick \/ Proceed \/ Fail \/ TimeOut \/ Done

Spec == Init /\ [][Next]_vars

----------------------------------------------------------------------------
(* Properties *)

\* The shape of the state: the await is one of the pinger's, and its timer
\* was armed in the past.
TypeOK ==
  /\ kind \in Kinds /\ timeout \in Timeouts
  /\ now \in 0..Horizon /\ armed \in 0..now /\ loose \in 0..now
  /\ at \in 1..Len(Awaits(kind))
  /\ out \in {"none", "ok", "err", "timedout"}

\* Where the time of a ping goes.  A pinger on with_timeout spends one timeout
\* in all.  QuicPinger and the gRPC pingers may outlast their timers, but only
\* in the awaits that have none: what is left is one timeout for QUIC and two
\* for gRPC, whose second timer starts afresh.
BoundedPings ==
  /\ kind = "wrapped" => loose = 0 /\ now <= timeout
  /\ kind = "quic" => now - loose <= timeout
  /\ kind \in {"check", "watch"} => now - loose <= 2 * timeout

\* quic.rs keeps its "single hard cap" on the handshake, however long the
\* name took to resolve, and a resolver's delay is not charged to it.
HandshakeCapped ==
  kind = "quic" /\ Here.what = "connecting"
    => now - armed <= timeout /\ (out = "timedout" => now - armed = timeout)

\* zpinger/README.md: "The whole `ping()` call respects the timeout".
WholePingRespectsTimeout == now <= timeout
=============================================================================
