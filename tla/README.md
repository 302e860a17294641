# knock_knock: a verification development

knock_knock is a layer-7 ping.  `zpinger` is a library of pingers, one per
protocol; `knockknock` is a command line tool and `knockknock-mcp` an MCP server
on top of it; `testserver` answers every protocol for the tests.  This directory
holds TLA+ modules that model the parts of it that keep state, wait, race or
count, TLC instances of them, and TLAPS proofs of all the safety properties the
passing runs check, for every value of the constants.

## 1. Inventory

| Part | State it keeps | Operations | What is hard |
|---|---|---|---|
| Ping loops: `main` (knockknock/src/main.rs), `run_pings` (knockknock-mcp.rs) | one counter (losses in `main`, answers in `run_pings`), the sum of times, the log | launch / tool call, one turn, report | each loop derives one number from the other; several calls run at once; a late poll races the timer |
| `timed`, `with_timeout` (pinger.rs, util.rs) | start instant, timer | poll: inner future first, timer second | answer and timeout in the same poll |
| UDP exchange: `UdpPinger`, `DnsPinger`, `NtpPinger`, `StunPinger`, `TurnPinger` | a socket on an ephemeral port, an id | bind, connect, send, recv once, validate | loss, delay, duplication, port reuse, the bind-connect window |
| Stream readers: `TcpPinger`, `HttpPinger`, `RtspPinger`, `HlsPinger`'s fetch, `MqttPinger`'s `read_packet` | a buffer | connect, write, read until a stop condition, judge | fragmentation, end of stream, endless headers |
| Conversations: `RtmpPinger`, `MqttPinger`, `WebSocketPinger`, and the request-answer ones (tcp, http, hls, rtsp, tls, grpc) | the read they are suspended in | handshake steps | waiting in a circle, units out of order, reset while an answer is in flight |
| gRPC, QUIC, TLS pingers | external (tonic, quinn, rustls) | a few awaits | which await is under which timer; a name with addresses of both families |
| HLS walk | the current playlist | master, media playlist, segment | relative URLs, nested masters |
| Codecs: MQTT varint, STUN/TURN attributes, DNS names | none | encode, parse | carries, lengths past the end |
| Targets: `URI::parse`, `resolve`, default ports | none | parse, banner, dial | address shown vs address dialled, port cut to 16 bits |
| testserver | one thread per connection, one loop per UDP socket | read, answer, drop | threads without a read timeout, close with unread data |

The loops call a pinger through `timed`; a pinger wraps its I/O in
`with_timeout`, which drops the future, and with it socket or stream, when the
timer fires.  Pingers and test servers meet only on the network.  There is no
state that outlives a process, hence no crash recovery.

## 2. Modules

| Module | Models | Used by |
|---|---|---|
| `PingTally` | the promise of a session: every ping won or lost once, a true verdict | abstract specification of `PingDriver` |
| `PingDriver` | both loops, `timed`, `with_timeout`, argument defaults and reports, as concurrent sessions in discrete time | `MCPingDriver`, `PingDriverProofs` |
| `Sums` | running sums of a sequence: totals, lengths, offsets; operators only | `PingDriver`, `ProbeSetup` |
| `DatagramPing` | the five UDP pingers, the responders, the kernel's port table and an unreliable network | `MCDatagramPing`, `DatagramPingProofs` |
| `StreamReaders` | how tcp, http, rtsp, hls and mqtt read a response, under every fragmentation | `MCStreamReaders`, `StreamReadersProofs` |
| `Handshake` | tcp, http, hls, rtsp, rtmp, mqtt, ws, tls and grpc conversations composed with testserver's threads or with an arbitrary server, over TCP with FIN and RST | `MCHandshake`, `HandshakeProofs` |
| `TimeoutScope` | which awaits of a ping its timeout covers | `MCTimeoutScope`, `TimeoutScopeProofs` |
| `Targets` | what a target text becomes: `URI::parse`, every pinger's endpoint, the banner's, playlist references; operators only | `ProbeSetup` |
| `ProbeSetup` | one ping's own computations in order: banner, endpoint, address family, DNS name, TURN attributes, the HLS walk | `MCProbeSetup`, `ProbeSetupProofs` |

A module `XProofs` holds the invariants and theorems of `X` and adds nothing to the
specification.  `TestserverProofs` holds those of `Handshake` that are about testserver
alone, and `SumsProofs`, besides the facts about sums, the induction principle that the
others use.

`PROJECT.json` maps every definition to the lines it stands for.  Definitions
whose comment begins with MUTANT are not part of any specification: each is a
plausible mistake in the definition it is named after, and shows that the
property it is listed with can fail.

### PingDriver

A session is one run of the tool (`Cli`) or one tool call (`Mcp`).  `Launch` is
`main` up to the await of `resolve`, `Resolved` its return, `Call` a tool's
handler up to the loop.  A count beyond the capacity of a `Vec` ends that call by
panic; one within it and beyond the memory at hand aborts the process, and with it
every call it serves (`CallAborts`).  What is pinged is one of four `Kinds`: a pinger
in `with_timeout`, the HLS pinger, whose playlists may hold a URL on which `get_uri`
panics (`PollPanics`), a target on which it panics at once (in `resolve` for the
tool, in the first poll for a call), and the gRPC and QUIC pingers, which have awaits
without a timer and may hang.  `StartPing` is the first half of `timed`; `InnerReady`
is the network; `PollReady` and `PollTimeout` are the two ways a poll of
`with_timeout` ends, and contain the whole match arm of the loop; `Report`
computes the report from the one counter the loop kept.  `Tick` advances the
clock, but never more than `Lag` past the instant that wakes a task: `Lag` is
the scheduling delay, and everything is proved for every value of it.  The
history variable `answered` counts answers that were there by their deadline.

The timeout covers the whole ping for every pinger on `with_timeout` (`Capped`) and
not for gRPC and QUIC: the bounds on time and `EverySessionReports` are stated for
the former, and `TimeoutScope` is about the difference.

### DatagramPing

`Start` .. `Recv` are the awaits of `ping()`; `TimeOut` may strike at each of
them and, like every return, gives the port back and discards its queue.
Requests and replies are sets that only grow: a datagram may arrive late, twice,
after its successor or never.  `peer[p]` is what the kernel knows of port p: free,
bound (accepts anyone), or connected.  Messages are abstracted to protocol,
role and id; `ping`, the name of the ping a datagram belongs to, is history and
never compared by the code.  There is one operator per validation
(`dns_valid`, `ntp_valid`, ...) and one per responder (`udp_echo`, `dns_ok`, ...).
Ids are a function of the clock, as in the code: `stamps[n]` is what ping n read, and
the clock advances between two readings by any member of `Steps`.  `random_id` keeps 16
bits of a reading (`IdSpace` values in the model), so two DNS pings at different
instants may share an id, the second ping with the first already; which readings
collide is what `%` says in the model and an exclusive or in the code.  A transaction
id is the whole reading: two STUN or TURN pings share one only if they read the same
instant, which a clock that may stand still between two pings allows (`0 \in Steps`).
The comment at `random_transaction_id` speaks of "per-call entropy"; there is none.

### StreamReaders

A response is a sequence of tokens, cut where a status line can be cut without
the readers telling the difference; `Read(n)` returns any n tokens that have
arrived.  `Enough` is the stop condition of each reader, `Accepts` its judgement
(`http_ok`, `rtsp_ok`, `hls_ok`, `connack_ok`).  The server may stop, close, reset
or stay silent at any point.  For mqtt the tokens are bytes: the length's digits are
written and read as `encode_varint` and `read_packet` do, in base 2 instead of 128,
and `Wants` is the number of bytes the suspended `read_exact` still asks for.
`MqttTakesOnePacket` compares the two: whatever length the server has written with
`encode_varint`, `read_packet` takes that many bytes after it and no more.

### Handshake

Each end is a set of rules (suspended in, unit read, units written, suspended in
next); a unit without a rule is the code's error path.  `Dropped` and `Answered` are
TCP's: closing with unread data, or writing to a closed peer, resets the
connection, and after a reset the other end may or may not still read what was
on its way.  The peer is a testserver thread or a stranger, which says anything
from the protocol's vocabulary in any order, except that it cannot make up what a
library checks against the request (`Prompt`: the accept key of a websocket upgrade, a
TLS flight, the frames of a call).  A request of `post` (HTTP with a payload) and of
`hls` may reach the single read of `start_http_ok` and of `handle_hls` in two segments
(`ReadSizes`): the thread then answers, `handle_hls` perhaps with 404, and closes on
unread data.  RTMP's S1 and S2 and TcpPinger's answer are read whatever they hold.
The path may break with a reset to both ends, or silently (`Cut`): then nothing
arrives, and the threads, which read without a timeout, wait until the kernel gives up.
`tls`, `grpc` and `watch` are as fine as the flights and messages the pinger's awaits
can tell apart; records and HTTP/2 frames are the libraries'.

### TimeoutScope

`ping()` as a sequence of awaits, each under a timer of the whole call, one of
its own, or none.  tonic's `connect_timeout` covers the TCP connect, neither the lookup
nor the TLS handshake; its `timeout` covers the response head, neither the body of a
check nor the messages of a stream.  `wait_idle` is quinn's.  The history variable
`loose` adds up the time spent under no timer.

### Targets and ProbeSetup

A target is a record of what the regular expression of `URI::parse` tells apart:
scheme, credentials, host (missing, a name, a name that TLS refuses, an IPv6 literal),
port (none, a bare colon, digits, more digits than an `i32` holds) and path.  `Endpoint` is what
each pinger makes of it, `Banner` what `main` and `resolve` make of it.

`ProbeSetup` takes a subcommand from the front end (`LookUp` is `main` up to the
"DNS lookup" line, `Tool` the handler of a tool, which has no banner) to its
verdict: `Prepare` computes the endpoint, `EncodeLabel` and `EncodeEnd` are
`encode_name`, `Dial` is the connect, `Refused` its failure or that of a fetch after it
(a bad status, a playlist that is no UTF-8), `WalkAttr` is one turn of `find_error_code`,
and `Follow` one step of the HLS walk, which leads back to `Prepare`.  What comes
from outside (the resolver's answer, a TURN datagram and where it is cut, the
playlists) is chosen in `Init` and stays the same during the ping.  The other
protocols end at the connect, where `DatagramPing`, `StreamReaders` and
`Handshake` take over.  Nobody is reached at port 0; tonic's reading of a URL
without a host, of a foreign scheme or of a port outside 1..65535 is not followed
(`Unknown`).

## 3. Runs

| Run | Expect | Shows |
|---|---|---|
| `driver_pair` | pass | A tool run and a tool call side by side: `Ledger` (counter = log), `AnswerInTimeCounts`, `TotalIsSum`, `ReportHonest` (numbers add up, percentages in range, count 0 included), `RefinesTally` |
| `driver_time` | pass | `ElapsedBounded`, `TotalWithinWall`, `ReportInTime`, and `EverySessionReports` under fairness, with hanging, panicking and aborted sessions beside them |
| `datagram_mixed` | pass | `SuccessIsOwnAnswer`, `RejectionIsForeign`, `StrangerOnlyBeforeConnect`, `NoPortLeak`, `EveryPingReturns` |
| `stream_readers` | pass | `LoopVerdictIsWhole`, `RtspStopsAtTerminator`, `RtspBufferBounded`, `MqttTakesOnePacket` (the next packet begins where this one's length says), `EveryReadReturns` |
| `stream_http` | violation | the verdict of HttpPinger depends on where TCP cut the status line |
| `stream_tcp` | violation | TcpPinger succeeds without a byte |
| `handshake` | pass | `NoMutualWait`, `SuccessIsServed`, `NoSpuriousFailure`, `SuccessHeardScript`, `ServerPingsAnswered`, `EveryThreadEnds` |
| `handshake_pong` | violation | an unsolicited PONG, sent after the upgrade, passes for the matching one |
| `timeout_scope` | pass | `BoundedPings` (one timeout for `with_timeout`; QUIC and gRPC outlast theirs only in awaits without a timer), `HandshakeCapped` |
| `timeout_whole` | violation | QUIC and gRPC pings outlast their timeout |
| `probe_setup` | pass | `BannerIsDialled`, `PortAsAsked`, `NameRoundTrips`, `TurnVerdictIsFirst`, `RelativeStaysHome`, `HlsReachesSegment` |
| `resolve_panic` | violation | the banner's `resolve` panics on `host:`, on an overlong port and on every IPv6 literal |

Each violation run is a finding of `PROJECT.json`, with the sentence of the
repository that the run refutes.  `resolve_panic` is a crash of the tool; the
others are places where a comment promises more than the code does.

Exceptions that the properties state, because the code has them:

* `BannerIsDialled` leaves out `tls` at a target that has a colon and neither a
  port nor an https scheme (`tls://host`): the banner says port 80, the pinger
  dials 443.
* `NoSpuriousFailure` leaves out `post` and `hls` when the server's one read returned
  only the first segment: the answer may then be lost to the reset, or be a 404.
* `EveryThreadEnds` leaves out a path that is lost silently: nothing tells the thread.
* `SuccessHeardScript` asks of RTMP a good S0 and two more blobs, of HLS a good status,
  of TCP nothing: these pingers look at no more.
* `SuccessIsOwnAnswer` leaves out two DNS pings whose ids coincide and two STUN or TURN
  pings that read the same instant: the late answer to the one passes for the other's.  UDP and NTP have no id and no such property.
* `EverySessionReports` leaves out sessions on whose target, or on a URL of whose
  playlist, `get_uri` panics, and calls of a server process that was aborted; it is
  not stated for gRPC and QUIC, which may wait for ever.
* `NameRoundTrips` leaves out the root name ".", which RFC 1035 allows and
  `encode_name` refuses: trimmed of its dots it is one empty label.
* `PortAsAsked` is about ports 1 to 65535; larger ones are cut to 16 bits by
  every pinger that uses `get_uri`.

### Bounds

* `driver_pair`, `driver_time`: one session of each kind, since sessions share
  nothing but the clock; two turns, so that one turn can disturb the next; a
  timeout of one tick and a lag of one tick, so that an answer can come before,
  at and after the deadline and be polled late.  Count 0 (tool only: the MCP
  server raises it to 1), a count above `VecCapacity` and one between `Memory` and it
  are included.  `driver_pair` pings an HLS stream or an illegible target, `driver_time`
  also a pinger without a timer; "capped" behaves as "playlist" does without its panic.
* `datagram_mixed`: three pings and one port, so that a port is reused twice and a
  datagram of the first ping can meet the third; a queue of one, since only the
  first datagram is ever read.  One client is each of DNS, NTP, STUN and TURN, the
  other UDP; three servers answer, fail, or are closed.  The clock advances by 0 or 1
  and there are two DNS ids, so that the second ping may share the first one's id or
  not, and the third may share it at another instant.
* `stream_readers`: responses of up to ten tokens, reads of up to three, a limit of
  seven: a terminator can fall across reads and the limit in the middle of a read.
* `handshake`: a stranger says up to four units, one more than the longest script.
* `probe_setup`: all fifteen subcommands; per subcommand the schemes it knows, some in
  capitals, and one it refuses; no host, a name, a name TLS refuses, an IPv6 literal; no port, a bare colon, an overlong port, 0, 80, 8080,
  65536 and 65616 (cut to 0 and to 80); resolver answers with no, one and both
  families.  A label holds 2 bytes and a name 9 in place of 63 and 255, against
  names of up to four labels of up to three bytes, so that both limits are met and
  passed by one.  TURN answers have up to two attributes, padded and unpadded, and
  are cut at every byte.  A pair of playlists is any two of 28: masters, media
  playlists, with stray lines and comments, dead ends, and references of each
  kind.  All of it is sequential, so larger inputs only repeat these cases.
* `stream_readers` (mqtt): lengths in base 2 of one, two and four digits and an
  endless one, each packet with another right behind it or too short to judge.
* `timeout_scope`: timeouts 0, 1 and 3 against a horizon of 9, three times the
  longest timeout.

### Fairness

Assumed only of what the program's own runtime provides: a woken task is polled,
an expired timer wakes its task (tokio), a thread whose blocking read can return
is scheduled (the OS), the system resolver returns, time passes.  No fairness is
assumed of the network or of a server: none on `InnerReady`, `Respond`, `Deliver`,
`Write`, `StrangerSay`, `Cut`.  What is assumed of TCP is what `EveryThreadEnds` states:
while the path is not silently lost, a FIN or a reset of the client reaches the thread.

## 4. Proofs

Every theorem is checked by TLAPS for every value of the constants that satisfies
the module's named assumption; every inductive invariant was checked by TLC on the
instance of its module's run before it was proved.  `PROJECT.json` lists the
theorems with the property each one states.

| Module | Assumption on the constants | Theorems |
|---|---|---|
| `PingDriverProofs` | `ConstantsAssumption`: natural numbers, disjoint kinds of session, a `None` that is not a number | `TypeCorrect`, `LedgerCorrect`, `AnswerInTimeCorrect`, `ReportInTimeCorrect`, `ElapsedCorrect`, `TotalCorrect`, `TotalIsSumCorrect`, `ReportHonestCorrect`, `TallyRefined` |
| `DatagramPingProofs` | `DatagramAssumption`: an id space and a queue that are not empty, `None` and `Anyone` different from addresses and datagrams | `DatagramTypeCorrect`, `NoPortLeakCorrect`, `RejectionCorrect`, `StrangerCorrect`, `SuccessCorrect` |
| `StreamReadersProofs` | `StreamAssumption`: responses are sequences, a read can return something, the limit of the RTSP reader holds a status line | `StreamTypeCorrect`, `TerminatorCorrect`, `BufferCorrect`, `VerdictCorrect`, `PacketCorrect`, `OnePacketCorrect` |
| `HandshakeProofs` | `HandshakeAssumption`: the protocols and peers are those of the model, a stranger says any number of units | `ConversationTypeCorrect`, `ScriptCorrect`, `PongsCorrect` |
| `TestserverProofs` | the same | `MutualWaitCorrect`, `ServedCorrect`, `FailureCorrect` |
| `TimeoutScopeProofs` | `ScopeAssumption`: any timeouts, any horizon | `ScopeTypeCorrect`, `BoundedPingsCorrect`, `HandshakeCapCorrect` |
| `ProbeSetupProofs` | `SetupAssumption`: targets, references, playlists and TURN answers have the fields of `IsTarget`, `IsRef`, `IsPlaylist`, `IsAnswer`, a name is its labels' lengths; any number of them, of any length and depth; any limits but 0 | `SetupTypeCorrect`, `PortCorrect`, `RelativeCorrect`, `SegmentCorrect`, `BannerCorrect`, `NameCorrect`, `TurnCorrect` |

`SuccessCorrect` assumes nothing of the clock but that it does not run backwards: a
ping that succeeds on another ping's answer cut the same id from its reading, and a
STUN or TURN ping read the very instant the other one read, however many pings there are.

### Induction

The library's induction theorems take the statement as an operator, which the
installed provers cannot instantiate.  `SumsProofs` states the principle for a set
instead (`Induct`: a set with 0 in it and with n + 1 wherever n is in it holds all
natural numbers, since the numbers outside would have a least one); a proof by
induction names the set of the n for which its claim holds.  A recursive function of a
model is taken in two steps: one induction shows that some function solves its equation
(`SumsExist`, `SpellingExists`, `ReadsExist`, `FlattenExists`), so that the definition,
which chooses one, is what it says; a second one shows what every solution computes.

### PingDriver

The inductive invariant is `IInv == TypeOK /\ \A s : Sound(s)`, of four parts.
`LedgerOf` is not inductive alone: that a turn never exceeds the count needs to
know that a ping runs only while a turn is owed (`Phased`).  The time bound needs
`Paced`, an account of the time each phase may have taken: no phase outlives its
wake-up by more than `Lag`, because `Tick` is blocked, so the n-th turn of a pinger
in `with_timeout` ends within n * (timeout + 2 Lag); a session that hangs blocks nothing.  `AnswerInTimeCounts` needs `Credited`: an answer
that is not yet counted is the one the running ping is about to be polled for,
which is where the order of the two checks in `with_timeout` enters.  A step
concerns one session; the lemma `Frame` disposes of the others, and there is one
lemma per action.

`Settled` is a second invariant, relative to `IInv`: the total fits before the last
reading of the clock (`Walled`), every logged time was bounded when it was logged
(`Logged`), and a report is what `display_statistic` or the tool's summary
computed from numbers that have not changed since (`Reported`).  `ReportHonest`
follows from the last by arithmetic on the two integer divisions.  The refinement
maps each action of the driver to a win, a loss, a start or a verdict of
`PingTally`, to its giving up one session (a panic) or several (an abort), or to a
stutter; that a turn is won exactly when `Successes` grows
needs `Ledger`.  `TotalIsSum` is inductive by `TotalAppend`: the loop adds to its total
what it appends to its log.

### DatagramPing

Two layers.  `SockInv` is about sockets: who holds a port, what the kernel knows of
it, and that no two pings hold the same one; it is inductive without looking into
any datagram, and gives `NoPortLeak`.  `NameInv`, relative to it, is about what
travels: every datagram belongs to a ping that was made, one that belongs to the
ping a client is at repeats that ping's protocol, id and target (`Matched`), and a
verdict was reached by validating a datagram some server sent (`Judged`).
`Timed` adds that an id, on the wire and in the pinger, is cut from the reading of its
ping: an equal transaction id means an equal reading, and an equal DNS id 16 equal bits
of two readings, which is what the exception of the property says.

### StreamReaders

`StreamInv` says that the buffer is a beginning of what the server sent, that a
verdict is that of the buffer, and that a reader stopped because it had everything
or met its stop condition (`Stopped`).  The heart of the argument is about the
judgements, not the steps: where a stop condition holds of a beginning, no
continuation changes the verdict (`RtspSeesStatus`, `MqttSeesPacket`).  For MQTT
this needs `Metered`, that `read_exact` never asks for a negative number of bytes.
`OnePacketCorrect` adds what the digits mean: `VarintRead` shows by induction over the
number that `remaining` puts together what `encode_varint` took apart, and that the
first byte without a continuation bit is its last.

### Handshake

`HandshakeInv` says which units can be under way (`Typed`) and that what a pinger has
heard spells the part of its script that leads to the read it is suspended in
(`Following`).  Each row of each table is examined once (`ClientFits`,
`ServerSpeaks`): it leads one unit further in the script, or is chatter and leads
nowhere.  `ServerPingsAnswered` is inductive relative to it: while the server
listens, what it has taken and what is under way to it, put together, change only at
the end and only by what the pinger writes.

`NoMutualWait`, `SuccessIsServed` and `NoSpuriousFailure` are about testserver.
`TestserverProofs` lists the moments of each of the eleven conversations (`Scenes`: the
read each end is in, what is under way each way, what the thread has taken).  `AllAgreed`
looks at the two tables only: in each scene each end knows what it reads, and reading it
leads to another scene or to a success.  `TestserverInv` then says that a conversation
is in one of its scenes until the ping returns (`InScene`), that each end closes its side
when it leaves and only then (`Closing`), and what a ping that has returned has behind it
(`Ended`).  The
hard steps are the ones beside the script: the timer, a connection the network breaks, a
close on unread data, after which what was on its way may or may not still be read.

### TimeoutScope

`Bounded` is an account of the time spent under timers, `now - loose`: under a timer of
the whole call it is all the time there is, and no more than the timeout; under a timer
of its own an await adds at most one timeout to what the awaits before it have added,
and an await without a timer adds nothing.  gRPC has two timed awaits, QUIC one.

### ProbeSetup

First the tables of `Targets`: `BannerMeets` shows that `main` and the pinger choose
the same host and port, command by command; `DialShape` that a port that is dialled
is of 16 bits and the target's own if it has one.  `SetupInv` carries them along a
ping: every connection is one its URL leads to (`Hops`), the fetches of a walk come
in their order (`Staged`), and each URL is what the playlist before it says
(`Chained`).  `Announced`, relative to it, ties the banner to the target, which
`main` and the pinger read separately.

`NameCorrect` and `TurnCorrect` are about bytes.  `NameInv`: the labels that are done lie
in the name at the running sums of their widths (`Laid`), the others are in `rest`; so a
reader who starts at the first byte comes to each of them in turn (`DecodedIs`), and the
length of the whole is the sum `WithinLimits` compares with the limit.  `WalkInv`: `rest` is
what was received from the start of some attribute on, with no ERROR-CODE before it
(`At`, `Walked`).  That the bytes of attribute i are at its offset is `FlattenIs` and
`BodyIs`; `MissingExpected`, `OverrunExpected` and `CodeExpected` relate what one turn of
the loop finds to the verdict `Expected` computes from the list of attributes and the cut.

### Model-checked only

All liveness (`EverySessionReports`, `EveryPingReturns`, `EveryReadReturns`,
`EveryThreadEnds`): fairness is beyond the prover.

## 5. Not modelled

* The insides of tonic, quinn, rustls and tungstenite: external; the models use
  what the code relies on.  For QUIC that leaves the handshake and testserver's
  `start_quic_ok` out altogether; target, address, socket and timers are modelled.
* The fixed layout of the DNS, NTP and STUN headers: a message is its kind and its
  id.
* Query strings: `build_request` and `build_get` send the path alone, which is in
  the hazard list and not in a property.  `URI::get_url` has no caller.
* The MCP transport, command line parsing and output: text around the loops.
* testserver's launcher: binds or exits, keeps no state.

## 6. Plan

Done: the driver with its abstract specification; the three ways of exchanging
messages (datagrams, streams, conversations); the scope of timeouts; targets,
codecs and the HLS walk; and a theorem for every safety property of the passing runs.

Left, in this order:

1. `DatagramPing` with concurrent pings on several ports of one host: what a shared
   transaction id can cost where a port is reused at once.
2. Query strings in `Targets`, to state what `build_request` and `build_get` drop.
3. The testserver launcher, if it grows state of its own.
