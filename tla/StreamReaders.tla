---------------------------- MODULE StreamReaders ----------------------------
(***************************************************************************)
(* How the pingers that speak over a byte stream read a response:          *)
(*   tcp   TcpPinger: one read, its result is not looked at;               *)
(*   http  HttpPinger: ONE read, then the status line is judged;           *)
(*   rtsp  RtspPinger: reads until the end of the headers, the end of the  *)
(*         stream or a full buffer, then the status line is judged;        *)
(*   hls   HlsPinger's fetch: reads to the end of the stream;              *)
(*   mqtt  MqttPinger's read_packet for the CONNACK: a byte, the bytes of  *)
(*         the remaining length one by one, then exactly that many.        *)
(* TCP (and TLS) keep order but no boundaries: a read returns any non-empty*)
(* prefix of what has arrived.  The server may stop in mid-response, close,*)
(* reset, or keep the connection open without a word.                      *)
(*                                                                         *)
(* A response is a sequence of tokens, the pieces a status line can be cut *)
(* into without the readers telling the difference; of an MQTT packet, its *)
(* bytes.                                                                  *)
(***************************************************************************)
EXTENDS Integers, Sequences, SequencesExt, FiniteSetsExt

CONSTANTS
  Readers,          \* kinds of reader under study
  Responses,        \* what servers may answer: sequences of tokens
  Chunk,            \* tokens one read may return
  MaxResponseBytes  \* rtsp.rs MAX_RESPONSE_BYTES, in tokens

ASSUME StreamAssumption ==
  /\ Readers \subseteq {"tcp", "http", "rtsp", "hls", "mqtt"}
  /\ \A r \in Responses : r \in Seq(Range(r))
  /\ Chunk \in Nat \ {0}
  /\ MaxResponseBytes \in Nat \ (0..3)   \* it holds RtspOk

VARIABLES
  reader,    \* the kind of pinger
  response,  \* what the server means to say
  sent,      \* tokens of it that have arrived at the client's socket
  conn,      \* the server's side of the connection
  pc,        \* where ping() is
  buf,       \* what the reader has taken off the stream
  out        \* what ping() returned

vars == <<reader, response, sent, conn, pc, buf, out>>

----------------------------------------------------------------------------
(* The judgements *)

CRLF == "CRLF"
HttpHead == <<"HT", "TP/">>                \* "HTTP/"
RtspOk == <<"RT", "SP/1.0 ", "20", "0">>   \* "RTSP/1.0 200"
NotFound == <<"40", "4">>
NotImplemented == <<"50", "1">>
Okay == <<"20", "0">>
Partial == <<"20", "6">>

Occurs(pattern, s) == pattern \in SubSeqs(s)

\* The first element of split("\r\n"), of lines(): all of s if none ended.
StatusLine(s) ==
  LET i == SelectInSeq(s, LAMBDA t : t = CRLF)
  IN  IF i = 0 THEN s ELSE SubSeq(s, 1, i - 1)

\* find_header_terminator, the search of fetch_response_body: "\r\n\r\n".
find_header_terminator(s) == Occurs(<<CRLF, CRLF>>, s)

\* run_exchange after its read.
http_ok(s) ==
  LET line == StatusLine(s)
  IN  /\ IsPrefix(HttpHead, line)
      /\ ~Occurs(NotFound, line) /\ ~Occurs(NotImplemented, line)

\* rtsp.rs validate_response after its loop.
rtsp_ok(s) == IsPrefix(RtspOk, s)

\* fetch_response_body after its loop.
hls_ok(s) ==
  LET line == StatusLine(s)
  IN  /\ find_header_terminator(s)
      /\ IsPrefix(HttpHead, line)
      /\ Occurs(Okay, line) \/ Occurs(Partial, line)

\* A byte of the remaining length carries a digit, to the base 2 in place of
\* 128, and a + if another byte follows.
Digits == {"0", "1", "0+", "1+"}
Digit(b) == IF b \in {"1", "1+"} THEN 1 ELSE 0
More(b) == b \in {"0+", "1+"}
Byte(digit, more) ==
  IF more THEN IF digit = 1 THEN "1+" ELSE "0+"
  ELSE IF digit = 1 THEN "1" ELSE "0"

\* Low digits first, as build_connect writes them.
encode_varint(n) ==
  LET enc[v \in 0..n] ==
        IF v < 2 THEN <<Byte(v, FALSE)>> ELSE <<Byte(v % 2, TRUE)>> \o enc[v \div 2]
  IN  enc[n]

\* How many bytes the remaining length of s takes, as far as they are there.
LengthBytes(s) ==
  LET last == {i \in 2..Len(s) : i <= 5 /\ ~More(s[i])}
  IN  IF last = {} THEN 0 ELSE Min(last) - 1

\* The digit of the i-th byte of the remaining length.
DigitAt(s, i) == IF i <= LengthBytes(s) THEN Digit(s[1 + i]) ELSE 0

\* MUTANT of remaining: the first byte is taken for the highest.
remaining_high_first(s) ==
  FoldLeft(LAMBDA sum, i : sum * 2 + Digit(s[1 + i]), 0, [i \in 1..LengthBytes(s) |-> i])

\* remaining += digit * multiplier, for each of at most four bytes.
remaining(s) == DigitAt(s, 1) + 2 * DigitAt(s, 2) + 4 * DigitAt(s, 3) + 8 * DigitAt(s, 4)

\* read_packet: the length is not known after four bytes.
TooLong(s) == Len(s) >= 5 /\ LengthBytes(s) = 0

\* read_packet: how many bytes its current read_exact still waits for.
Wants(s) ==
  IF LengthBytes(s) = 0 THEN IF TooLong(s) THEN 0 ELSE 1
  ELSE 1 + LengthBytes(s) + remaining(s) - Len(s)

\* validate_connack, of the packet s begins with; a stream that ends before
\* the packet does is an error of read_exact.
connack_ok(s) ==
  LET at == 1 + LengthBytes(s)
  IN  /\ LengthBytes(s) > 0 /\ Wants(s) <= 0
      /\ s[1] = "CONNACK"
      /\ remaining(s) >= 2
      /\ s[at + 2] = "accepted"

Accepts(kind, s) ==
  CASE kind = "tcp"  -> TRUE
    [] kind = "http" -> http_ok(s)
    [] kind = "rtsp" -> rtsp_ok(s)
    [] kind = "hls"  -> hls_ok(s)
    [] kind = "mqtt" -> connack_ok(s)

----------------------------------------------------------------------------
(* The client *)

Finish(o) == pc' = "returned" /\ out' = o /\ UNCHANGED <<reader, response, sent, conn>>

Judge(s) == Finish(IF Accepts(reader, s) THEN "ok" ELSE "rejected")

\* TcpStream::connect, the TLS handshake, write_all of the request.
Request ==
  /\ pc = "connect"
  /\ pc' = "read"
  /\ UNCHANGED <<reader, response, sent, conn, buf, out>>

\* MUTANT of Enough: the terminator is looked for in the last chunk only.
EnoughInChunk(s, n) ==
  \/ reader \in {"tcp", "http"}
  \/ reader = "mqtt" /\ Wants(s) = 0
  \/ /\ reader = "rtsp"
     /\ \/ find_header_terminator(SubSeq(s, Len(s) - n + 1, Len(s)))
        \/ Len(s) >= MaxResponseBytes

\* MUTANT of Enough: one read is thought to return all of a response.
EnoughOneRead(s, n) ==
  reader \in {"tcp", "http", "rtsp"} \/ (reader = "mqtt" /\ Wants(s) = 0)

\* MUTANT of Enough: the buffer has no limit.
EnoughUnlimited(s, n) ==
  \/ reader \in {"tcp", "http"}
  \/ reader = "mqtt" /\ Wants(s) = 0
  \/ reader = "rtsp" /\ find_header_terminator(s)

\* Whether the reader stops after a read of n tokens has made its buffer s.
Enough(s, n) ==
  \/ reader \in {"tcp", "http"}
  \/ reader = "mqtt" /\ Wants(s) = 0
  \/ /\ reader = "rtsp"
     /\ find_header_terminator(s) \/ Len(s) >= MaxResponseBytes

\* MUTANT of Read: each read overwrites the last.
ReadOver(n) ==
  /\ pc = "read"
  /\ n <= Chunk
  /\ Len(buf) + n <= sent
  /\ buf' = SubSeq(response, Len(buf) + 1, Len(buf) + n)
  /\ IF Enough(buf', n)
     THEN Judge(buf')
     ELSE UNCHANGED <<reader, response, sent, conn, pc, out>>

\* read() returns n > 0; read_exact asks for what it still lacks.
Read(n) ==
  /\ pc = "read"
  /\ n <= Chunk
  /\ reader = "mqtt" => n <= Wants(buf)
  /\ Len(buf) + n <= sent
  /\ buf' = SubSeq(response, 1, Len(buf) + n)
  /\ IF Enough(buf', n)
     THEN Judge(buf')
     ELSE UNCHANGED <<reader, response, sent, conn, pc, out>>

\* read() returns 0: the server closed and everything has been taken.
ReadEof ==
  /\ pc = "read"
  /\ conn = "fin"
  /\ Len(buf) = sent
  /\ Judge(buf)
  /\ UNCHANGED buf

\* connect is refused, TLS fails, the connection is reset.
IoError ==
  /\ \/ pc = "connect"
     \/ pc = "read" /\ conn = "rst"
  /\ Finish("io")
  /\ UNCHANGED buf

\* MUTANT of Pending: the timeout covers the connect only.
PendingConnect == pc = "connect"

Pending == pc \in {"connect", "read"}

TimeOut == Pending /\ Finish("timedout") /\ UNCHANGED buf

----------------------------------------------------------------------------
(* The server, once it has the request *)

Write ==
  /\ pc = "read" /\ conn = "open"
  /\ sent < Len(response)
  /\ sent' = sent + 1
  /\ UNCHANGED <<reader, response, conn, pc, buf, out>>

Close(how) ==
  /\ pc = "read" /\ conn = "open"
  /\ conn' = how
  /\ UNCHANGED <<reader, response, sent, pc, buf, out>>

Init ==
  /\ reader \in Readers
  /\ response \in Responses
  /\ sent = 0 /\ conn = "open"
  /\ pc = "connect" /\ buf = <<>> /\ out = "none"

Done == pc = "returned" /\ UNCHANGED vars

Next ==
  \/ Request
  \/ \E n \in 1..Chunk : Read(n)
  \/ ReadEof
  \/ IoError
  \/ TimeOut
  \/ Write
  \/ \E how \in {"fin", "rst"} : Close(how)
  \/ Done

Spec == Init /\ [][Next]_vars

\* The runtime wakes a task whose timer has expired; the server owes nothing.
FairSpec == Spec /\ WF_vars(TimeOut)

----------------------------------------------------------------------------
(* Properties *)

\* Every variable has its type; the reader holds a prefix of what arrived.
TypeOK ==
  /\ reader \in Readers /\ response \in Responses
  /\ sent \in 0..Len(response)
  /\ conn \in {"open", "fin", "rst"}
  /\ pc \in {"connect", "read", "returned"}
  /\ IsPrefix(buf, response) /\ Len(buf) <= sent
  /\ out \in {"none", "ok", "rejected", "io", "timedout"}

\* All that the server ever says on this connection.
Said == IF conn = "open" THEN response ELSE SubSeq(response, 1, sent)

Judged == out \in {"ok", "rejected"}

\* The readers that loop (RTSP, HLS, MQTT) judge what the server said, not how TCP
\* cut it: the verdict is that of the whole stream, even when they stop
\* before its end.
LoopVerdictIsWhole ==
  reader \in {"rtsp", "hls", "mqtt"} /\ Judged => (out = "ok") <=> Accepts(reader, Said)

\* RTSP stops as soon as the headers are complete, wherever the cuts fall: a
\* server that keeps the connection open is not waited for.
RtspStopsAtTerminator ==
  reader = "rtsp" /\ pc = "read" => ~find_header_terminator(buf)

\* The RTSP buffer stays below the limit plus one read.
RtspBufferBounded ==
  reader = "rtsp" => Len(buf) < MaxResponseBytes + Chunk

\* If the server's first packet has a body of n bytes and its length is written
\* as encode_varint writes it, then read_packet has taken that packet when it
\* succeeds, to the byte and however it was cut: the next packet is read from
\* its beginning.
MqttTakesOnePacket ==
  reader = "mqtt" /\ out = "ok" =>
    \A n \in 0..Len(response) :
      LET header == <<"CONNACK">> \o encode_varint(n)
      IN  IsPrefix(header, response) => Len(buf) = Len(header) + n

\* Every ping over a stream returns, even from a server that never answers.
EveryReadReturns == pc = "connect" ~> pc = "returned"

\* http.rs: run_exchange will "validate the response status line".
HttpVerdictIsWhole ==
  reader = "http" /\ Judged => (out = "ok") <=> http_ok(Said)

\* level4.rs: TcpPinger "waits for any response byte before closing".
TcpSuccessSawByte ==
  reader = "tcp" /\ out = "ok" => buf # <<>>
=============================================================================
