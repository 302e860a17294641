------------------------------- MODULE Targets -------------------------------
(***************************************************************************)
(* What the program makes of the target a user types: URI::parse, the      *)
(* address each pinger derives from it, the address main looks up for its  *)
(* "DNS lookup" banner, and the URLs an HLS playlist refers to.            *)
(*                                                                         *)
(* A target text is a record of the pieces the regular expression of       *)
(* URI::parse can tell apart; a path is the sequence of its segments       *)
(* ("" is <<>>, "/" is <<"">>, "/a/b" is <<"a", "b">>).                    *)
(***************************************************************************)
EXTENDS Integers, Sequences, SequencesExt, FiniteSetsExt

V6 == "[::1]"          \* an IPv6 literal in brackets
NoName == "-h"         \* a host that is no DNS name: the resolver may know it, TLS does not

\* What stands between the host and the path.
NoPort == [text |-> "none", n |-> 0]
BarePort == [text |-> "empty", n |-> 0]         \* a colon and no digit
LongPort == [text |-> "overlong", n |-> 0]      \* beyond 2^31 - 1
Port(n) == [text |-> "digits", n |-> n]
PortText == [text : {"none", "empty", "overlong"}, n : {0}] \cup [text : {"digits"}, n : Nat]

Target(scheme, creds, host, port, path) ==
  [scheme |-> scheme, creds |-> creds, host |-> host, port |-> port, path |-> path]

----------------------------------------------------------------------------
(* uri.rs *)

\* The domain stops at the first colon, so a bracketed literal is cut after
\* "[" and its port text is empty; parse::<i32>().unwrap() then panics, as it
\* does on a bare colon and on a number that is no i32.
get_uri(t) ==
  [panics |-> \/ t.host = V6
              \/ t.host # "" /\ t.port.text \in {"empty", "overlong"},
   scheme |-> t.scheme,
   domain |-> t.host,
   port   |-> IF t.host = "" THEN 0 ELSE t.port.n,
   path   |-> t.path]

\* The schemes that are also tried in capitals.
to_ascii_lowercase(s) ==
  CASE s = "HTTPS" -> "https"
    [] s = "MQTTS" -> "mqtts"
    [] s = "RTSPS" -> "rtsps"
    [] s = "QUIC"  -> "quic"
    [] OTHER       -> s

----------------------------------------------------------------------------
(* What ping() makes of its target *)

Verdict(does, host, port, tls) == [does |-> does, host |-> host, port |-> port, tls |-> tls]
Err == Verdict("err", "", 0, FALSE)
Panic == Verdict("panic", "", 0, FALSE)
Unknown == Verdict("unknown", "", 0, FALSE)   \* left to a library

\* MUTANT of port_or: the default wins over the port of the target.
port_or_default(port, default) == default

\* MUTANT of port_or: the port is not cut to 16 bits.
port_or_wide(port, default) == IF port > 0 THEN port ELSE default

\* What a u16 holds: two bytes.
Word == 256 * 256
U16 == 0..(Word - 1)

\* uri.port as u16
port_or(port, default) == IF port > 0 THEN port % Word ELSE default

\* With TLS the domain must also pass ServerName::try_from.
endpoint_for(u, default, tls) ==
  IF u.panics THEN Panic
  ELSE IF u.domain = "" \/ (tls /\ u.domain = NoName) THEN Err
  ELSE Verdict("dial", u.domain, port_or(u.port, default), tls)

\* The pingers that choose between a plain and a TLS connection by scheme.
ByScheme(t, plain, port, secure, tls_port) ==
  LET u == get_uri(t)
      s == to_ascii_lowercase(u.scheme)
  IN  IF u.panics THEN Panic
      ELSE IF s \in plain THEN endpoint_for(u, port, FALSE)
      ELSE IF s \in secure THEN endpoint_for(u, tls_port, TRUE)
      ELSE Err

http_endpoint(t) == ByScheme(t, {"", "http"}, 80, {"https"}, 443)
ws_endpoint(t)   == ByScheme(t, {"ws"}, 80, {"wss"}, 443)
mqtt_endpoint(t) == ByScheme(t, {"", "mqtt"}, 1883, {"mqtts"}, 8883)
hls_endpoint(t)  == ByScheme(t, {"", "http"}, 80, {"https"}, 443)
rtsp_endpoint(t) == ByScheme(t, {"", "rtsp"}, 554, {"rtsps"}, 322)
rtmp_endpoint(t) == ByScheme(t, {"", "rtmp"}, 1935, {"rtmps"}, 443)
quic_endpoint(t) == ByScheme(t, {}, 0, {"", "quic", "https", "h3"}, 443)

\* The pingers that ignore the scheme.
dns_endpoint(t)  == endpoint_for(get_uri(t), 53, FALSE)
ntp_endpoint(t)  == endpoint_for(get_uri(t), 123, FALSE)
stun_endpoint(t) == endpoint_for(get_uri(t), 3478, FALSE)
tls_endpoint(t)  == endpoint_for(get_uri(t), 443, TRUE)

\* TcpStream::connect and UdpSocket::connect get the text as it is: it must
\* be host:port and nothing else.
raw_endpoint(t) ==
  IF /\ t.scheme = "" /\ ~t.creds /\ t.path = <<>> /\ t.host # ""
     /\ t.port.text = "digits" /\ t.port.n \in U16
  THEN Verdict("dial", t.host, t.port.n, FALSE)
  ELSE Err

\* normalize_endpoint, then tonic's reading of the URL: no port is the
\* scheme's own; what it does without a host, with another scheme's name or
\* with a port outside 1..65535 is not followed here.
grpc_endpoint(t) ==
  LET u == get_uri(t)
      s == IF t.scheme = "grpcs" THEN "https"
           ELSE IF t.scheme \in {"", "grpc"} THEN "http" ELSE t.scheme
  IN  IF u.panics THEN Panic
      ELSE IF t = Target("", FALSE, "", NoPort, <<>>) THEN Err
      ELSE IF u.domain = "" \/ s \notin {"http", "https"} THEN Unknown
      ELSE IF u.domain = NoName /\ s = "https" THEN Err
      ELSE IF t.port.text = "none" THEN Verdict("dial", u.domain, IF s = "https" THEN 443 ELSE 80, s = "https")
      ELSE IF u.port \in U16 /\ u.port # 0 THEN Verdict("dial", u.domain, u.port, s = "https")
      ELSE Unknown

Endpoint(cmd, t) ==
  CASE cmd \in {"tcp", "udp"}   -> raw_endpoint(t)
    [] cmd = "http"             -> http_endpoint(t)
    [] cmd = "ws"               -> ws_endpoint(t)
    [] cmd = "dns"              -> dns_endpoint(t)
    [] cmd = "mqtt"             -> mqtt_endpoint(t)
    [] cmd = "grpc"             -> grpc_endpoint(t)
    [] cmd = "hls"              -> hls_endpoint(t)
    [] cmd = "tls"              -> tls_endpoint(t)
    [] cmd = "ntp"              -> ntp_endpoint(t)
    [] cmd \in {"stun", "turn"} -> stun_endpoint(t)
    [] cmd = "rtsp"             -> rtsp_endpoint(t)
    [] cmd = "rtmp"             -> rtmp_endpoint(t)
    [] cmd = "quic"             -> quic_endpoint(t)

----------------------------------------------------------------------------
(* The banner *)

\* format!("{}:{default_port}", uri.domain) drops all but the domain.
default_port_target(t, default) ==
  IF get_uri(t).port = 0 /\ t.host # ""
  THEN Target("", FALSE, t.host, Port(default), <<>>)
  ELSE t

Rescheme(t, scheme) == Target(scheme, t.creds, t.host, t.port, t.path)

HasColon(t) == t.scheme # "" \/ t.creds \/ t.port.text # "none" \/ t.host = V6

\* MUTANT of resolve_target: only the schemeless target gets its port.
resolve_target_plain(cmd, t) ==
  CASE cmd = "dns" -> default_port_target(t, 53)
    [] cmd = "mqtt" -> default_port_target(t, 1883)
    [] OTHER -> t

\* The default ports main fills in, for a scheme in small letters.
PatchedPort(s) ==
  [dns  |-> 53,   mqtt |-> IF s = "mqtts" THEN 8883 ELSE 1883,
   ntp  |-> 123,  stun |-> 3478,  turn |-> 3478,
   rtsp |-> IF s = "rtsps" THEN 322 ELSE 554,
   rtmp |-> IF s = "rtmps" THEN 443 ELSE 1935,
   quic |-> 443]

\* main's patching of the target before it calls resolve.
resolve_target(cmd, t) ==
  LET port == PatchedPort(to_ascii_lowercase(t.scheme))
  IN  IF \/ cmd = "grpc" /\ t.scheme = "grpcs"
         \/ cmd = "quic" /\ t.scheme = "quic"
         \/ cmd = "tls" /\ ~HasColon(t)
      THEN Rescheme(t, "https")
      ELSE IF cmd = "grpc" /\ t.scheme = "grpc" THEN Rescheme(t, "http")
      ELSE IF cmd \in DOMAIN port THEN default_port_target(t, port[cmd])
      ELSE t

\* zpinger::resolve up to its lookup; an empty Vec is Err here.
resolve(t) ==
  LET u == get_uri(t)
      default == IF to_ascii_lowercase(u.scheme) \in {"https", "wss"} THEN 443 ELSE 80
  IN  endpoint_for(u, default, FALSE)

\* main: default_port_target and the scheme are read from get_uri as well.
Banner(cmd, t) ==
  IF get_uri(t).panics THEN Panic ELSE resolve(resolve_target(cmd, t))

----------------------------------------------------------------------------
(* hls.rs: a playlist is a sequence of lines, tags and references.  A      *)
(* reference is a whole URL, or a path from the root, or a path from the   *)
(* playlist's directory.                                                   *)

Absolute(t) == [kind |-> "absolute", url |-> t, path |-> <<>>]
Rooted(path) == [kind |-> "rooted", url |-> <<>>, path |-> path]
Sibling(path) == [kind |-> "sibling", url |-> <<>>, path |-> path]
NoRef == [kind |-> "none", url |-> <<>>, path |-> <<>>]

Tag(name) == [tag |-> name, ref |-> NoRef]     \* a line that begins with #
Line(ref) == [tag |-> "", ref |-> ref]         \* one that does not

\* The first reference after the first line with the tag.
FirstAfter(text, tag) ==
  LET after == {i \in 1..Len(text) : text[i].tag = "" /\ \E j \in 1..(i - 1) : text[j].tag = tag}
  IN  IF after = {} THEN NoRef ELSE text[Min(after)].ref

first_variant_url(text) == FirstAfter(text, "#EXT-X-STREAM-INF")

\* MUTANT of first_segment_url: the first line that is no comment.
first_uri_line(text) == FirstAfter(text, "#EXTM3U")

first_segment_url(text) == FirstAfter(text, "#EXTINF")

\* MUTANT of resolve_relative: the domain in place of the host loses the port.
resolve_relative_domain(base, ref) ==
  IF ref.kind = "absolute" THEN ref.url
  ELSE Target(IF base.scheme = "" THEN "http" ELSE base.scheme, FALSE, base.host, NoPort,
              IF ref.kind = "rooted" \/ base.path = <<>> THEN ref.path
              ELSE Front(base.path) \o ref.path)

\* Only asked for a base that has been fetched, so its host is not empty.
resolve_relative(base, ref) ==
  IF ref.kind = "absolute" THEN ref.url
  ELSE Target(IF base.scheme = "" THEN "http" ELSE base.scheme, FALSE, base.host, base.port,
              IF ref.kind = "rooted" \/ base.path = <<>> THEN ref.path
              ELSE Front(base.path) \o ref.path)
=============================================================================
