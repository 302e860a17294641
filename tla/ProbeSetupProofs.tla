-------------------------- MODULE ProbeSetupProofs --------------------------
(***************************************************************************)
(* Proofs about one ping's addresses and walks, for every set of targets,  *)
(* playlists and resolver answers.                                         *)
(*                                                                         *)
(* The first half is about the tables of Targets: BannerMeets says that    *)
(* main and the pinger choose the same host and port, DialShape that the   *)
(* port is of 16 bits and the target's own if it has one.  The second half *)
(* carries these facts along a ping.  SetupInv is inductive: every         *)
(* connection made is one its URL leads to (Hops), the fetches of an HLS   *)
(* walk come in their order (Staged) and each URL is what the playlist     *)
(* before it says (Chained).  Announced ties the banner to the target.     *)
(*                                                                         *)
(* Two parts follow about bytes.  The labels of a DNS name lie in its      *)
(* encoding at the running sums of their widths (Laid), so Decoded reads   *)
(* them back one by one.  The attributes of a TURN answer lie at the       *)
(* running sums of theirs (Flattened), so each turn of find_error_code     *)
(* stands at one of them (At) with no ERROR-CODE behind it (Walked).       *)
(***************************************************************************)
EXTENDS ProbeSetup, SumsProofs, SequenceTheorems

AllCommands == {"tcp", "udp", "http", "ws", "dns", "mqtt", "grpc", "hls", "tls",
                "ntp", "stun", "turn", "rtsp", "rtmp", "quic"}

\* The default ports; where a proof does not care for the number it uses the
\* name.
HttpPort == 80
TlsPort == 443
DnsPort == 53
NtpPort == 123
StunPort == 3478
MqttPort == 1883
MqttsPort == 8883
RtspPort == 554
RtspsPort == 322
RtmpPort == 1935
Defaults == {HttpPort, TlsPort, DnsPort, NtpPort, StunPort, MqttPort, MqttsPort,
             RtspPort, RtspsPort, RtmpPort}

----------------------------------------------------------------------------
(* What the tables say, command by command *)

\* ping()'s address, by subcommand.
LEMMA EndpointIs ==
  ASSUME NEW t
  PROVE  /\ Endpoint("tcp", t) = raw_endpoint(t)
         /\ Endpoint("udp", t) = raw_endpoint(t)
         /\ Endpoint("http", t) = http_endpoint(t)
         /\ Endpoint("ws", t) = ws_endpoint(t)
         /\ Endpoint("dns", t) = dns_endpoint(t)
         /\ Endpoint("mqtt", t) = mqtt_endpoint(t)
         /\ Endpoint("grpc", t) = grpc_endpoint(t)
         /\ Endpoint("hls", t) = hls_endpoint(t)
         /\ Endpoint("tls", t) = tls_endpoint(t)
         /\ Endpoint("ntp", t) = ntp_endpoint(t)
         /\ Endpoint("stun", t) = stun_endpoint(t)
         /\ Endpoint("turn", t) = stun_endpoint(t)
         /\ Endpoint("rtsp", t) = rtsp_endpoint(t)
         /\ Endpoint("rtmp", t) = rtmp_endpoint(t)
         /\ Endpoint("quic", t) = quic_endpoint(t)
BY Zenon DEF Endpoint

\* The pingers that ignore the scheme, and those that do not.
LEMMA OneDefaultIs ==
  ASSUME NEW t
  PROVE  /\ dns_endpoint(t) = endpoint_for(get_uri(t), DnsPort, FALSE)
         /\ ntp_endpoint(t) = endpoint_for(get_uri(t), NtpPort, FALSE)
         /\ stun_endpoint(t) = endpoint_for(get_uri(t), StunPort, FALSE)
         /\ tls_endpoint(t) = endpoint_for(get_uri(t), TlsPort, TRUE)
BY DEF dns_endpoint, ntp_endpoint, stun_endpoint, tls_endpoint, DnsPort, NtpPort, StunPort, TlsPort

LEMMA TwoDefaultsAre ==
  ASSUME NEW t
  PROVE  /\ http_endpoint(t) = ByScheme(t, {"", "http"}, HttpPort, {"https"}, TlsPort)
         /\ ws_endpoint(t) = ByScheme(t, {"ws"}, HttpPort, {"wss"}, TlsPort)
         /\ hls_endpoint(t) = ByScheme(t, {"", "http"}, HttpPort, {"https"}, TlsPort)
         /\ mqtt_endpoint(t) = ByScheme(t, {"", "mqtt"}, MqttPort, {"mqtts"}, MqttsPort)
         /\ rtsp_endpoint(t) = ByScheme(t, {"", "rtsp"}, RtspPort, {"rtsps"}, RtspsPort)
         /\ rtmp_endpoint(t) = ByScheme(t, {"", "rtmp"}, RtmpPort, {"rtmps"}, TlsPort)
         /\ quic_endpoint(t) = ByScheme(t, {}, 0, {"", "quic", "https", "h3"}, TlsPort)
BY DEF http_endpoint, ws_endpoint, hls_endpoint, mqtt_endpoint, rtsp_endpoint, rtmp_endpoint,
       quic_endpoint, HttpPort, TlsPort, MqttPort, MqttsPort, RtspPort, RtspsPort, RtmpPort

\* The schemes main and resolve write themselves are in small letters.
LEMMA LowerIs ==
  /\ to_ascii_lowercase("") = ""
  /\ to_ascii_lowercase("http") = "http"
  /\ to_ascii_lowercase("https") = "https"
  /\ to_ascii_lowercase("grpc") = "grpc"
  /\ to_ascii_lowercase("quic") = "quic"
BY Zenon DEF to_ascii_lowercase

\* main's patch of the target, by subcommand.
LEMMA PatchIs ==
  ASSUME NEW t
  PROVE  /\ \A c \in {"tcp", "udp", "http", "ws", "hls"} : resolve_target(c, t) = t
         /\ resolve_target("dns", t) = default_port_target(t, DnsPort)
         /\ resolve_target("ntp", t) = default_port_target(t, NtpPort)
         /\ resolve_target("stun", t) = default_port_target(t, StunPort)
         /\ resolve_target("turn", t) = default_port_target(t, StunPort)
         /\ resolve_target("mqtt", t) = default_port_target(t,
              IF to_ascii_lowercase(t.scheme) = "mqtts" THEN MqttsPort ELSE MqttPort)
         /\ resolve_target("rtsp", t) = default_port_target(t,
              IF to_ascii_lowercase(t.scheme) = "rtsps" THEN RtspsPort ELSE RtspPort)
         /\ resolve_target("rtmp", t) = default_port_target(t,
              IF to_ascii_lowercase(t.scheme) = "rtmps" THEN TlsPort ELSE RtmpPort)
BY DEF resolve_target, PatchedPort, DnsPort, NtpPort, StunPort, MqttPort, MqttsPort,
       RtspPort, RtspsPort, RtmpPort, TlsPort

\* ... and where the patch depends on the scheme or on a colon.
LEMMA PatchCases ==
  ASSUME NEW t
  PROVE  /\ t.scheme = "grpcs" => resolve_target("grpc", t) = Rescheme(t, "https")
         /\ t.scheme = "grpc" => resolve_target("grpc", t) = Rescheme(t, "http")
         /\ t.scheme \notin {"grpc", "grpcs"} => resolve_target("grpc", t) = t
         /\ ~HasColon(t) => resolve_target("tls", t) = Rescheme(t, "https")
         /\ HasColon(t) => resolve_target("tls", t) = t
         /\ t.scheme = "quic" => resolve_target("quic", t) = Rescheme(t, "https")
         /\ t.scheme # "quic" => resolve_target("quic", t) = default_port_target(t, TlsPort)
BY DEF resolve_target, PatchedPort, TlsPort

----------------------------------------------------------------------------
(* Addresses *)

\* The pieces of a parsed target.
LEMMA UriIs ==
  ASSUME NEW t, t.host # "", ~get_uri(t).panics
  PROVE  /\ get_uri(t).scheme = t.scheme /\ get_uri(t).domain = t.host
         /\ get_uri(t).port = t.port.n
         /\ t.host # V6 /\ t.port.text \notin {"empty", "overlong"}
BY DEF get_uri

\* A port is a number, and an absent one is 0.
LEMMA PortIs ==
  ASSUME NEW t, t.port \in PortText
  PROVE  t.port.n \in Nat /\ (t.port.text # "digits" => t.port.n = 0)
<1>1. CASE t.port \in [text : {"none", "empty", "overlong"}, n : {0}]
  <2>1. t.port.n \in {0}
    BY <1>1, Zenon
  <2> QED
    BY <2>1
<1>2. CASE t.port \in [text : {"digits"}, n : Nat]
  BY <1>2, Zenon
<1> QED
  BY <1>1, <1>2, Zenon DEF PortText

LEMMA WordIs == Word \in Nat /\ Word > 0
BY DEF Word

LEMMA U16Is ==
  ASSUME NEW n
  PROVE  n \in U16 <=> n \in Nat /\ n < Word
BY WordIs DEF U16

LEMMA ModIs ==
  ASSUME NEW n \in Nat, NEW b \in Nat, b > 0
  PROVE  n % b \in Nat /\ n % b < b /\ (n < b => n % b = n)
OBVIOUS

\* as u16 leaves a port that fits alone.
LEMMA PortOr ==
  ASSUME NEW n \in Nat, NEW d \in U16
  PROVE  /\ port_or(n, d) \in U16
         /\ n \in U16 /\ n # 0 => port_or(n, d) = n
         /\ n = 0 => port_or(n, d) = d
<1>0. n % Word \in Nat /\ n % Word < Word /\ (n < Word => n % Word = n)
  BY WordIs, ModIs
<1>1. n % Word \in U16
  BY <1>0, U16Is
<1>2. ASSUME n \in U16 PROVE n % Word = n
  BY <1>0, <1>2, U16Is
<1>3. CASE n = 0
  BY <1>3 DEF port_or
<1>4. CASE n > 0
  BY <1>1, <1>2, <1>4 DEF port_or
<1> QED
  BY <1>3, <1>4

LEMMA VerdictIs ==
  ASSUME NEW v, NEW h, NEW x, NEW tls, v = Verdict("dial", h, x, tls)
  PROVE  v.does = "dial" /\ v.host = h /\ v.port = x /\ v.tls = tls
BY DEF Verdict

\* Who dials has a host, and a port that is the target's or the default.
LEMMA EndpointFor ==
  ASSUME NEW t, NEW d, NEW tls, endpoint_for(get_uri(t), d, tls).does = "dial"
  PROVE  /\ ~get_uri(t).panics /\ t.host # ""
         /\ endpoint_for(get_uri(t), d, tls) = Verdict("dial", t.host, port_or(t.port.n, d), tls)
BY DEF endpoint_for, Verdict, Err, Panic, get_uri

LEMMA BySchemeIs ==
  ASSUME NEW t, NEW plain, NEW port, NEW secure, NEW tls_port,
         NEW e, e = ByScheme(t, plain, port, secure, tls_port), e.does = "dial"
  PROVE  /\ ~get_uri(t).panics /\ t.host # ""
         /\ \/ /\ to_ascii_lowercase(t.scheme) \in plain
               /\ e = Verdict("dial", t.host, port_or(t.port.n, port), FALSE)
            \/ /\ to_ascii_lowercase(t.scheme) \notin plain
               /\ to_ascii_lowercase(t.scheme) \in secure
               /\ e = Verdict("dial", t.host, port_or(t.port.n, tls_port), TRUE)
<1> DEFINE s == to_ascii_lowercase(get_uri(t).scheme)
<1>1. get_uri(t).scheme = t.scheme
  BY DEF get_uri
<1>2. Err.does # "dial" /\ Panic.does # "dial"
  BY DEF Err, Panic, Verdict
<1>3. /\ ~get_uri(t).panics
      /\ \/ s \in plain /\ e = endpoint_for(get_uri(t), port, FALSE)
         \/ s \notin plain /\ s \in secure /\ e = endpoint_for(get_uri(t), tls_port, TRUE)
  BY <1>2 DEF ByScheme
<1> QED
  BY <1>1, <1>3, EndpointFor

LEMMA ByPlainScheme ==
  ASSUME NEW t, NEW plain, NEW port, NEW secure, NEW tls_port,
         NEW e, e = ByScheme(t, plain, port, secure, tls_port), e.does = "dial",
         to_ascii_lowercase(t.scheme) \in plain
  PROVE  e = Verdict("dial", t.host, port_or(t.port.n, port), FALSE)
BY BySchemeIs, ZenonT(40)

LEMMA BySecureScheme ==
  ASSUME NEW t, NEW plain, NEW port, NEW secure, NEW tls_port,
         NEW e, e = ByScheme(t, plain, port, secure, tls_port), e.does = "dial",
         to_ascii_lowercase(t.scheme) \notin plain
  PROVE  e = Verdict("dial", t.host, port_or(t.port.n, tls_port), TRUE)
<1>1. get_uri(t).scheme = t.scheme
  BY DEF get_uri
<1>2. Err.does # "dial" /\ Panic.does # "dial"
  BY DEF Err, Panic, Verdict
<1>3. e = endpoint_for(get_uri(t), tls_port, TRUE)
  BY <1>1, <1>2 DEF ByScheme
<1> QED
  BY <1>3, EndpointFor

LEMMA DefaultIs ==
  ASSUME NEW d \in Defaults
  PROVE  d \in U16 /\ d \in Nat /\ d # 0
BY SMTT(30) DEF Defaults, U16, Word, HttpPort, TlsPort, DnsPort, NtpPort, StunPort, MqttPort, MqttsPort,
       RtspPort, RtspsPort, RtmpPort

LEMMA NamedDefaults ==
  /\ HttpPort \in Defaults /\ TlsPort \in Defaults /\ DnsPort \in Defaults
  /\ NtpPort \in Defaults /\ StunPort \in Defaults /\ MqttPort \in Defaults
  /\ MqttsPort \in Defaults /\ RtspPort \in Defaults /\ RtspsPort \in Defaults
  /\ RtmpPort \in Defaults
BY Zenon DEF Defaults

\* A port that is given makes the default irrelevant.
LEMMA DefaultIrrelevant ==
  ASSUME NEW n \in Nat, n # 0, NEW d, NEW e
  PROVE  port_or(n, d) = port_or(n, e)
BY DEF port_or

\* The default of resolve.
SchemePort(t) == IF to_ascii_lowercase(t.scheme) \in {"https", "wss"} THEN TlsPort ELSE HttpPort

LEMMA ResolveDef ==
  ASSUME NEW t
  PROVE  resolve(t) = endpoint_for(get_uri(t), SchemePort(t), FALSE)
<1>1. get_uri(t).scheme = t.scheme
  BY DEF get_uri
<1> QED
  BY <1>1 DEF resolve, SchemePort, HttpPort, TlsPort

\* resolve of a target with a host, and of one main has patched a port into.
LEMMA ResolveIs ==
  ASSUME NEW t, t.host # "", ~get_uri(t).panics
  PROVE  resolve(t) = Verdict("dial", t.host, port_or(t.port.n, SchemePort(t)), FALSE)
<1>1. endpoint_for(get_uri(t), SchemePort(t), FALSE)
        = Verdict("dial", t.host, port_or(t.port.n, SchemePort(t)), FALSE)
  BY UriIs DEF endpoint_for
<1> QED
  BY <1>1, ResolveDef

\* What main prints for a target it has patched: the target's own port, or
\* the patch.
LEMMA PatchedIs ==
  ASSUME NEW t, t.port \in PortText, t.host # "", ~get_uri(t).panics, NEW d \in Defaults
  PROVE  resolve(default_port_target(t, d)) = Verdict("dial", t.host, port_or(t.port.n, d), FALSE)
<1>1. t.port.n \in Nat /\ d \in Nat /\ d # 0 /\ d \in U16
  BY PortIs, DefaultIs, Zenon
<1>2. get_uri(t).port = t.port.n /\ t.host # V6
  BY UriIs, Zenon
<1>3. CASE t.port.n = 0
  <2> DEFINE p == Target("", FALSE, t.host, Port(d), <<>>)
  <2>1. default_port_target(t, d) = p
    BY <1>2, <1>3, Zenon DEF default_port_target
  <2>2. p.host = t.host /\ p.port.n = d /\ p.port.text = "digits"
    BY Zenon DEF Target, Port
  <2> HIDE DEF p
  <2>3. ~get_uri(p).panics
    BY <1>2, <2>2 DEF get_uri
  <2>4. resolve(p) = Verdict("dial", p.host, port_or(p.port.n, SchemePort(p)), FALSE)
    BY <2>2, <2>3, ResolveIs, Zenon
  <2>5. SchemePort(p) \in U16
    BY NamedDefaults, DefaultIs, Zenon DEF SchemePort
  <2>6. port_or(d, SchemePort(p)) = d /\ port_or(t.port.n, d) = d
    BY <1>1, <1>3, <2>5, PortOr, Zenon
  <2> QED
    BY <2>1, <2>2, <2>4, <2>6, Zenon
<1>4. CASE t.port.n # 0
  <2>1. default_port_target(t, d) = t
    BY <1>2, <1>4, Zenon DEF default_port_target
  <2>2. port_or(t.port.n, SchemePort(t)) = port_or(t.port.n, d)
    BY <1>1, <1>4, DefaultIrrelevant, Zenon
  <2> QED
    BY <2>1, <2>2, ResolveIs, Zenon
<1> QED
  BY <1>3, <1>4, Zenon

----------------------------------------------------------------------------
(* The banner and the pinger agree *)

\* The same host and port, for the banner and for the connect.
Meets(c, t) ==
  \E port, tls : /\ Endpoint(c, t) = Verdict("dial", t.host, port, tls)
                 /\ Banner(c, t) = Verdict("dial", t.host, port, FALSE)

\* Where main's default for the banner is the pinger's, they agree.
LEMMA MeetsPatched ==
  ASSUME NEW c, NEW t, t.port \in PortText, t.host # "", ~get_uri(t).panics,
         NEW d \in Defaults, NEW tls,
         resolve_target(c, t) = default_port_target(t, d),
         Endpoint(c, t) = Verdict("dial", t.host, port_or(t.port.n, d), tls)
  PROVE  Meets(c, t)
<1>1. Banner(c, t) = resolve(default_port_target(t, d))
  BY Zenon DEF Banner
<1>2. Banner(c, t) = Verdict("dial", t.host, port_or(t.port.n, d), FALSE)
  BY <1>1, PatchedIs, Zenon
<1> QED
  BY <1>2, Zenon DEF Meets

\* The same for a target main leaves alone or gives another scheme.
LEMMA MeetsScheme ==
  ASSUME NEW c, NEW t, t.host # "", ~get_uri(t).panics,
         NEW p, p.host = t.host, p.port = t.port, resolve_target(c, t) = p, NEW tls,
         Endpoint(c, t) = Verdict("dial", t.host, port_or(t.port.n, SchemePort(p)), tls)
  PROVE  Meets(c, t)
<1>1. Banner(c, t) = resolve(p)
  BY Zenon DEF Banner
<1>2. ~get_uri(p).panics
  BY Zenon DEF get_uri
<1>3. resolve(p) = Verdict("dial", p.host, port_or(p.port.n, SchemePort(p)), FALSE)
  BY <1>2, ResolveIs, Zenon
<1>4. Banner(c, t) = Verdict("dial", t.host, port_or(t.port.n, SchemePort(p)), FALSE)
  BY <1>1, <1>3, Zenon
<1> QED
  BY <1>4, Zenon DEF Meets

LEMMA RescopedIs ==
  ASSUME NEW t, NEW s
  PROVE  Rescheme(t, s).host = t.host /\ Rescheme(t, s).port = t.port /\ Rescheme(t, s).scheme = s
BY DEF Rescheme, Target

\* dns, ntp, stun, turn: one default, whatever the scheme.
LEMMA OneDefaultMeets ==
  ASSUME NEW t, t.port \in PortText, NEW c \in {"dns", "ntp", "stun", "turn"},
         Endpoint(c, t).does = "dial"
  PROVE  Meets(c, t)
<1>1. PICK d \in Defaults : Endpoint(c, t) = endpoint_for(get_uri(t), d, FALSE)
                              /\ resolve_target(c, t) = default_port_target(t, d)
  <2>1. CASE c = "dns"
    BY <2>1, EndpointIs, OneDefaultIs, PatchIs, NamedDefaults, ZenonT(40)
  <2>2. CASE c = "ntp"
    BY <2>2, EndpointIs, OneDefaultIs, PatchIs, NamedDefaults, ZenonT(40)
  <2>3. CASE c = "stun"
    BY <2>3, EndpointIs, OneDefaultIs, PatchIs, NamedDefaults, ZenonT(40)
  <2>4. CASE c = "turn"
    BY <2>4, EndpointIs, OneDefaultIs, PatchIs, NamedDefaults, ZenonT(40)
  <2> QED
    BY <2>1, <2>2, <2>3, <2>4, Zenon
<1>2. endpoint_for(get_uri(t), d, FALSE).does = "dial"
  BY <1>1, Zenon
<1>3. /\ t.host # "" /\ ~get_uri(t).panics
      /\ Endpoint(c, t) = Verdict("dial", t.host, port_or(t.port.n, d), FALSE)
  BY <1>1, <1>2, EndpointFor, Zenon
<1> QED
  BY <1>1, <1>3, MeetsPatched, Zenon

\* mqtt, rtsp, rtmp: a default for each scheme, in the pinger and again in main.
LEMMA TwoDefaults ==
  ASSUME NEW t, t.port \in PortText, NEW c, NEW plain, NEW secure,
         to_ascii_lowercase(t.scheme) \in plain => to_ascii_lowercase(t.scheme) \notin secure,
         NEW d \in Defaults, NEW e \in Defaults,
         Endpoint(c, t) = ByScheme(t, plain, d, secure, e),
         resolve_target(c, t) = default_port_target(t,
           IF to_ascii_lowercase(t.scheme) \in secure THEN e ELSE d),
         Endpoint(c, t).does = "dial"
  PROVE  Meets(c, t)
<1>2. ~get_uri(t).panics /\ t.host # ""
  BY BySchemeIs, Zenon
<1>3. CASE to_ascii_lowercase(t.scheme) \in plain
  <2>1. Endpoint(c, t) = Verdict("dial", t.host, port_or(t.port.n, d), FALSE)
    BY <1>3, ByPlainScheme, Zenon
  <2>2. resolve_target(c, t) = default_port_target(t, d)
    BY <1>3, Zenon
  <2> QED
    BY <1>2, <2>1, <2>2, MeetsPatched, Zenon
<1>4. CASE to_ascii_lowercase(t.scheme) \notin plain
  <2>0. to_ascii_lowercase(t.scheme) \in secure
    BY <1>4, BySchemeIs, Zenon
  <2>1. Endpoint(c, t) = Verdict("dial", t.host, port_or(t.port.n, e), TRUE)
    BY <1>4, BySecureScheme, Zenon
  <2>2. resolve_target(c, t) = default_port_target(t, e)
    BY <2>0, Zenon
  <2> QED
    BY <1>2, <2>1, <2>2, MeetsPatched, Zenon
<1> QED
  BY <1>3, <1>4, Zenon

LEMMA TwoDefaultsMeet ==
  ASSUME NEW t, t.port \in PortText, NEW c \in {"mqtt", "rtsp", "rtmp"},
         Endpoint(c, t).does = "dial"
  PROVE  Meets(c, t)
<1> DEFINE s == to_ascii_lowercase(t.scheme)
<1>1. CASE c = "mqtt"
  <2>1. /\ Endpoint(c, t) = ByScheme(t, {"", "mqtt"}, MqttPort, {"mqtts"}, MqttsPort)
        /\ resolve_target(c, t) = default_port_target(t, IF s \in {"mqtts"} THEN MqttsPort ELSE MqttPort)
    BY <1>1, EndpointIs, TwoDefaultsAre, PatchIs
  <2>2. s \in {"", "mqtt"} => s \notin {"mqtts"}
    BY Zenon
  <2> QED
    BY <2>1, <2>2, NamedDefaults, TwoDefaults
<1>2. CASE c = "rtsp"
  <2>1. /\ Endpoint(c, t) = ByScheme(t, {"", "rtsp"}, RtspPort, {"rtsps"}, RtspsPort)
        /\ resolve_target(c, t) = default_port_target(t, IF s \in {"rtsps"} THEN RtspsPort ELSE RtspPort)
    BY <1>2, EndpointIs, TwoDefaultsAre, PatchIs
  <2>2. s \in {"", "rtsp"} => s \notin {"rtsps"}
    BY Zenon
  <2> QED
    BY <2>1, <2>2, NamedDefaults, TwoDefaults
<1>3. CASE c = "rtmp"
  <2>1. /\ Endpoint(c, t) = ByScheme(t, {"", "rtmp"}, RtmpPort, {"rtmps"}, TlsPort)
        /\ resolve_target(c, t) = default_port_target(t, IF s \in {"rtmps"} THEN TlsPort ELSE RtmpPort)
    BY <1>3, EndpointIs, TwoDefaultsAre, PatchIs
  <2>2. s \in {"", "rtmp"} => s \notin {"rtmps"}
    BY Zenon
  <2> QED
    BY <2>1, <2>2, NamedDefaults, TwoDefaults
<1> QED
  BY <1>1, <1>2, <1>3, Zenon

\* http, ws, hls: the defaults of resolve are the pinger's.
LEMMA HttpMeets ==
  ASSUME NEW t, NEW c \in {"http", "ws", "hls"}, Endpoint(c, t).does = "dial"
  PROVE  Meets(c, t)
<1> DEFINE s == to_ascii_lowercase(t.scheme)
<1>1. resolve_target(c, t) = t
  BY PatchIs
<1>2. PICK plain, secure :
        /\ Endpoint(c, t) = ByScheme(t, plain, HttpPort, secure, TlsPort)
        /\ s \in plain => s \notin {"https", "wss"}
        /\ s \in secure => s \in {"https", "wss"}
  <2>1. CASE c \in {"http", "hls"}
    <3>1. Endpoint(c, t) = ByScheme(t, {"", "http"}, HttpPort, {"https"}, TlsPort)
      BY <2>1, EndpointIs, TwoDefaultsAre
    <3>2. s \in {"", "http"} => s \notin {"https", "wss"}
      BY Zenon
    <3> QED
      BY <3>1, <3>2, Zenon
  <2>2. CASE c = "ws"
    <3>1. Endpoint(c, t) = ByScheme(t, {"ws"}, HttpPort, {"wss"}, TlsPort)
      BY <2>2, EndpointIs, TwoDefaultsAre
    <3>2. s \in {"ws"} => s \notin {"https", "wss"}
      BY Zenon
    <3> QED
      BY <3>1, <3>2, Zenon
  <2> QED
    BY <2>1, <2>2, Zenon
<1>3. ~get_uri(t).panics /\ t.host # ""
  BY <1>2, BySchemeIs, Zenon
<1>4. CASE s \in plain
  <2>1. Endpoint(c, t) = Verdict("dial", t.host, port_or(t.port.n, HttpPort), FALSE)
    BY <1>2, <1>4, ByPlainScheme, Zenon
  <2>2. SchemePort(t) = HttpPort
    BY <1>2, <1>4, Zenon DEF SchemePort
  <2> QED
    BY <1>1, <1>3, <2>1, <2>2, MeetsScheme, Zenon
<1>5. CASE s \notin plain
  <2>1. s \in secure
    BY <1>2, <1>5, BySchemeIs, Zenon
  <2>2. Endpoint(c, t) = Verdict("dial", t.host, port_or(t.port.n, TlsPort), TRUE)
    BY <1>2, <1>5, BySecureScheme, Zenon
  <2>3. SchemePort(t) = TlsPort
    BY <1>2, <2>1, Zenon DEF SchemePort
  <2> QED
    BY <1>1, <1>3, <2>2, <2>3, MeetsScheme, Zenon
<1> QED
  BY <1>4, <1>5, Zenon

\* quic: main writes https for quic, and fills in 443 for every other scheme.
LEMMA QuicMeets ==
  ASSUME NEW t, t.port \in PortText, Endpoint("quic", t).does = "dial"
  PROVE  Meets("quic", t)
<1>1. Endpoint("quic", t) = ByScheme(t, {}, 0, {"", "quic", "https", "h3"}, TlsPort)
  BY EndpointIs, TwoDefaultsAre
<1>2. /\ ~get_uri(t).panics /\ t.host # ""
      /\ Endpoint("quic", t) = Verdict("dial", t.host, port_or(t.port.n, TlsPort), TRUE)
  <2>1. ~get_uri(t).panics /\ t.host # ""
    BY <1>1, BySchemeIs, Zenon
  <2>2. to_ascii_lowercase(t.scheme) \notin {}
    OBVIOUS
  <2>3. Endpoint("quic", t) = Verdict("dial", t.host, port_or(t.port.n, TlsPort), TRUE)
    BY <1>1, <2>2, BySecureScheme, Zenon
  <2> QED
    BY <2>1, <2>3, Zenon
<1>3. CASE t.scheme = "quic"
  <2> DEFINE p == Rescheme(t, "https")
  <2>1. resolve_target("quic", t) = p
    BY <1>3, PatchCases, Zenon
  <2>2. p.host = t.host /\ p.port = t.port /\ p.scheme = "https"
    BY RescopedIs, Zenon
  <2>3. SchemePort(p) = TlsPort
    BY <2>2, LowerIs, Zenon DEF SchemePort
  <2> HIDE DEF p
  <2> QED
    BY <1>2, <2>1, <2>2, <2>3, MeetsScheme, Zenon
<1>4. CASE t.scheme # "quic"
  <2>1. resolve_target("quic", t) = default_port_target(t, TlsPort)
    BY <1>4, PatchCases, Zenon
  <2> QED
    BY <1>2, <2>1, NamedDefaults, MeetsPatched, Zenon
<1> QED
  BY <1>3, <1>4, Zenon

\* tls: main makes https of a target without a colon; with one, the port or
\* the scheme decides, and where neither does the banner only guesses.
Guesses(t) ==
  HasColon(t) /\ t.port.n = 0 /\ to_ascii_lowercase(t.scheme) \notin {"https", "wss"}

LEMMA TlsMeets ==
  ASSUME NEW t, t.port \in PortText, Endpoint("tls", t).does = "dial", ~Guesses(t)
  PROVE  Meets("tls", t)
<1>1. Endpoint("tls", t) = endpoint_for(get_uri(t), TlsPort, TRUE)
  BY EndpointIs, OneDefaultIs, Zenon
<1>2. endpoint_for(get_uri(t), TlsPort, TRUE).does = "dial"
  BY <1>1, Zenon
<1>3. /\ ~get_uri(t).panics /\ t.host # ""
      /\ Endpoint("tls", t) = Verdict("dial", t.host, port_or(t.port.n, TlsPort), TRUE)
  BY <1>1, <1>2, EndpointFor, Zenon
<1>4. CASE ~HasColon(t)
  <2> DEFINE p == Rescheme(t, "https")
  <2>1. resolve_target("tls", t) = p
    BY <1>4, PatchCases, Zenon
  <2>2. p.host = t.host /\ p.port = t.port /\ p.scheme = "https"
    BY RescopedIs, Zenon
  <2>3. SchemePort(p) = TlsPort
    BY <2>2, LowerIs, Zenon DEF SchemePort
  <2> HIDE DEF p
  <2> QED
    BY <1>3, <2>1, <2>2, <2>3, MeetsScheme, Zenon
<1>5. CASE HasColon(t)
  <2>1. resolve_target("tls", t) = t
    BY <1>5, PatchCases, Zenon
  <2>2. port_or(t.port.n, SchemePort(t)) = port_or(t.port.n, TlsPort)
    <3>1. CASE t.port.n # 0
      <4>1. t.port.n \in Nat
        BY PortIs, Zenon
      <4> QED
        BY <3>1, <4>1, DefaultIrrelevant, Zenon
    <3>2. CASE to_ascii_lowercase(t.scheme) \in {"https", "wss"}
      BY <3>2, Zenon DEF SchemePort
    <3> QED
      BY <1>5, <3>1, <3>2, Zenon DEF Guesses
  <2> QED
    BY <1>3, <2>1, <2>2, MeetsScheme, Zenon
<1> QED
  BY <1>4, <1>5, Zenon

\* A port that fits and is not 0 is its own, whatever the default.
LEMMA OwnPort ==
  ASSUME NEW t, t.port \in PortText, t.port.n \in U16, t.port.n # 0, NEW p
  PROVE  port_or(t.port.n, SchemePort(p)) = t.port.n
<1>1. SchemePort(p) \in U16
  BY NamedDefaults, DefaultIs, Zenon DEF SchemePort
<1>2. t.port.n \in Nat
  BY PortIs, Zenon
<1> QED
  BY <1>1, <1>2, PortOr, Zenon

\* tcp, udp: host:port and nothing else.
LEMMA RawMeets ==
  ASSUME NEW t, t.port \in PortText, NEW c \in {"tcp", "udp"}, ~get_uri(t).panics,
         Endpoint(c, t).does = "dial", Endpoint(c, t).port # 0
  PROVE  Meets(c, t)
<1>1. Endpoint(c, t) = raw_endpoint(t) /\ resolve_target(c, t) = t
  BY EndpointIs, PatchIs
<1>2. Err.does # "dial"
  BY DEF Err, Verdict
<1>3. /\ t.host # "" /\ t.port.n \in U16
      /\ Endpoint(c, t) = Verdict("dial", t.host, t.port.n, FALSE)
  BY <1>1, <1>2, Zenon DEF raw_endpoint
<1>4. t.port.n # 0
  <2>1. Verdict("dial", t.host, t.port.n, FALSE).port = t.port.n
    BY DEF Verdict
  <2> QED
    BY <1>3, <2>1, Zenon
<1>5. port_or(t.port.n, SchemePort(t)) = t.port.n
  BY <1>3, <1>4, OwnPort, Zenon
<1> QED
  BY <1>1, <1>3, <1>5, MeetsScheme, Zenon

\* grpc: tonic's default is that of the scheme main writes for it.
LEMMA GrpcIs ==
  ASSUME NEW t, Endpoint("grpc", t).does = "dial"
  PROVE  LET s == IF t.scheme = "grpcs" THEN "https"
                  ELSE IF t.scheme \in {"", "grpc"} THEN "http" ELSE t.scheme
         IN  /\ ~get_uri(t).panics /\ t.host # "" /\ s \in {"http", "https"}
             /\ \/ /\ t.port.text = "none"
                   /\ Endpoint("grpc", t) = Verdict("dial", t.host,
                        IF s = "https" THEN TlsPort ELSE HttpPort, s = "https")
                \/ /\ get_uri(t).port \in U16 /\ get_uri(t).port # 0
                   /\ Endpoint("grpc", t) = Verdict("dial", t.host, get_uri(t).port, s = "https")
<1> DEFINE s == IF t.scheme = "grpcs" THEN "https"
                ELSE IF t.scheme \in {"", "grpc"} THEN "http" ELSE t.scheme
<1>1. Endpoint("grpc", t) = grpc_endpoint(t)
  BY EndpointIs, Zenon
<1>2. Err.does # "dial" /\ Panic.does # "dial" /\ Unknown.does # "dial"
  BY DEF Err, Panic, Unknown, Verdict
<1>3. get_uri(t).domain = t.host
  BY DEF get_uri
<1>4. ~get_uri(t).panics /\ ~(t.host = "" \/ s \notin {"http", "https"})
  BY <1>1, <1>2, <1>3 DEF grpc_endpoint
<1>5. CASE t.port.text = "none"
  <2>1. Endpoint("grpc", t) = Verdict("dial", t.host, IF s = "https" THEN 443 ELSE 80, s = "https")
    BY <1>1, <1>2, <1>3, <1>4, <1>5, ZenonT(40) DEF grpc_endpoint
  <2> QED
    BY <1>4, <1>5, <2>1 DEF TlsPort, HttpPort
<1>6. CASE t.port.text # "none"
  <2>1. /\ get_uri(t).port \in U16 /\ get_uri(t).port # 0
        /\ Endpoint("grpc", t) = Verdict("dial", t.host, get_uri(t).port, s = "https")
    BY <1>1, <1>2, <1>3, <1>4, <1>6 DEF grpc_endpoint
  <2> QED
    BY <1>4, <2>1, Zenon
<1> QED
  BY <1>5, <1>6, Zenon

LEMMA GrpcMeets ==
  ASSUME NEW t, t.port \in PortText, Endpoint("grpc", t).does = "dial"
  PROVE  Meets("grpc", t)
<1> DEFINE s == IF t.scheme = "grpcs" THEN "https"
                ELSE IF t.scheme \in {"", "grpc"} THEN "http" ELSE t.scheme
<1>1. /\ ~get_uri(t).panics /\ t.host # "" /\ s \in {"http", "https"}
      /\ \/ /\ t.port.text = "none"
            /\ Endpoint("grpc", t) = Verdict("dial", t.host,
                 IF s = "https" THEN TlsPort ELSE HttpPort, s = "https")
         \/ /\ get_uri(t).port \in U16 /\ get_uri(t).port # 0
            /\ Endpoint("grpc", t) = Verdict("dial", t.host, get_uri(t).port, s = "https")
  BY GrpcIs, Zenon
<1>2. PICK p : /\ resolve_target("grpc", t) = p /\ p.host = t.host /\ p.port = t.port
               /\ SchemePort(p) = IF s = "https" THEN TlsPort ELSE HttpPort
  <2>1. CASE t.scheme = "grpcs"
    <3>1. s = "https"
      BY <2>1, Zenon
    <3>2. SchemePort(Rescheme(t, "https")) = TlsPort
      BY RescopedIs, LowerIs, ZenonT(40) DEF SchemePort
    <3> QED
      BY <2>1, <3>1, <3>2, PatchCases, RescopedIs, Zenon
  <2>2. CASE t.scheme = "grpc"
    <3>1. s = "http"
      BY <2>2, Zenon
    <3>2. SchemePort(Rescheme(t, "http")) = HttpPort
      BY RescopedIs, LowerIs, ZenonT(40) DEF SchemePort
    <3>3. SchemePort(Rescheme(t, "http")) = IF s = "https" THEN TlsPort ELSE HttpPort
      BY <3>1, <3>2, Zenon
    <3>4. resolve_target("grpc", t) = Rescheme(t, "http")
      BY <2>2, PatchCases, Zenon
    <3>5. Rescheme(t, "http").host = t.host /\ Rescheme(t, "http").port = t.port
      BY RescopedIs, Zenon
    <3> HIDE DEF s
    <3> QED
      BY <3>3, <3>4, <3>5, Zenon
  <2>3. CASE t.scheme \notin {"grpc", "grpcs"}
    <3>1. resolve_target("grpc", t) = t
      BY <2>3, PatchCases, Zenon
    <3>2. t.scheme \in {"", "http", "https"}
      BY <1>1, <2>3, Zenon
    <3>3. s = "https" <=> t.scheme = "https"
      BY <3>2, Zenon
    <3>4. to_ascii_lowercase(t.scheme) = t.scheme
      BY <3>2, LowerIs, Zenon
    <3>5. SchemePort(t) = IF s = "https" THEN TlsPort ELSE HttpPort
      BY <3>2, <3>3, <3>4, Zenon DEF SchemePort
    <3> QED
      BY <3>1, <3>5, Zenon
  <2> QED
    BY <2>1, <2>2, <2>3, Zenon
<1> HIDE DEF s
<1>3. t.port.n \in Nat /\ SchemePort(p) \in U16
  BY PortIs, NamedDefaults, DefaultIs, Zenon DEF SchemePort
<1>4. Endpoint("grpc", t) = Verdict("dial", t.host, port_or(t.port.n, SchemePort(p)), s = "https")
  <2>1. CASE t.port.text = "none"
                /\ Endpoint("grpc", t) = Verdict("dial", t.host, SchemePort(p), s = "https")
    <3>1. t.port.text # "digits"
      BY <2>1, Zenon
    <3>2. t.port.n = 0
      BY <3>1, PortIs, Zenon
    <3>3. port_or(t.port.n, SchemePort(p)) = SchemePort(p)
      BY <1>3, <3>2, PortOr, Zenon
    <3> QED
      BY <2>1, <3>3, Zenon
  <2>2. CASE /\ get_uri(t).port \in U16 /\ get_uri(t).port # 0
             /\ Endpoint("grpc", t) = Verdict("dial", t.host, get_uri(t).port, s = "https")
    <3>1. get_uri(t).port = t.port.n
      BY <1>1, UriIs, Zenon
    <3>2. port_or(t.port.n, SchemePort(p)) = t.port.n
      BY <2>2, <3>1, OwnPort, Zenon
    <3> QED
      BY <2>2, <3>1, <3>2, Zenon
  <2> QED
    BY <1>1, <1>2, <2>1, <2>2, Zenon
<1> QED
  BY <1>1, <1>2, <1>4, MeetsScheme, Zenon

\* For every subcommand and every target: if the pinger dials, and the banner
\* has not ended the program, the banner names the address dialled.
LEMMA BannerMeets ==
  ASSUME NEW t, t.port \in PortText, NEW c \in AllCommands, ~get_uri(t).panics,
         Endpoint(c, t).does = "dial", Endpoint(c, t).port # 0, ~(c = "tls" /\ Guesses(t))
  PROVE  Meets(c, t)
<1>1. CASE c \in {"tcp", "udp"}
  BY <1>1, RawMeets, Zenon
<1>2. CASE c \in {"http", "ws", "hls"}
  BY <1>2, HttpMeets, Zenon
<1>3. CASE c \in {"dns", "ntp", "stun", "turn"}
  BY <1>3, OneDefaultMeets, Zenon
<1>4. CASE c \in {"mqtt", "rtsp", "rtmp"}
  BY <1>4, TwoDefaultsMeet, Zenon
<1>5. CASE c = "grpc"
  BY <1>5, GrpcMeets, Zenon
<1>6. CASE c = "tls"
  BY <1>6, TlsMeets, Zenon
<1>7. CASE c = "quic"
  BY <1>7, QuicMeets, Zenon
<1> QED
  BY <1>1, <1>2, <1>3, <1>4, <1>5, <1>6, <1>7, ZenonT(40) DEF AllCommands

----------------------------------------------------------------------------
(* What is dialled fits 16 bits and is what was asked for *)

PortFits(t, port) == port \in U16 /\ (t.port.n \in U16 /\ t.port.n # 0 => port = t.port.n)

Dials(c, t) ==
  \E port, tls : /\ Endpoint(c, t) = Verdict("dial", t.host, port, tls)
                 /\ PortFits(t, port)

LEMMA DefaultFits ==
  ASSUME NEW t, t.port \in PortText, NEW d \in Defaults
  PROVE  PortFits(t, port_or(t.port.n, d))
<1>1. t.port.n \in Nat /\ d \in U16
  BY PortIs, DefaultIs, Zenon
<1> QED
  BY <1>1, PortOr, Zenon DEF PortFits

LEMMA OneDefaultDials ==
  ASSUME NEW t, t.port \in PortText, NEW c, NEW d \in Defaults, NEW tls,
         Endpoint(c, t) = endpoint_for(get_uri(t), d, tls), Endpoint(c, t).does = "dial"
  PROVE  t.host # "" /\ Dials(c, t)
<1>1. endpoint_for(get_uri(t), d, tls).does = "dial"
  BY Zenon
<1>2. t.host # "" /\ Endpoint(c, t) = Verdict("dial", t.host, port_or(t.port.n, d), tls)
  BY <1>1, EndpointFor, Zenon
<1> QED
  BY <1>2, DefaultFits, Zenon DEF Dials

LEMMA TwoDefaultsDial ==
  ASSUME NEW t, t.port \in PortText, NEW c, NEW plain, NEW secure,
         NEW d \in Defaults, NEW e \in Defaults,
         Endpoint(c, t) = ByScheme(t, plain, d, secure, e), Endpoint(c, t).does = "dial"
  PROVE  t.host # "" /\ Dials(c, t)
<1>1. t.host # ""
  BY BySchemeIs, Zenon
<1>2. CASE to_ascii_lowercase(t.scheme) \in plain
  <2>1. Endpoint(c, t) = Verdict("dial", t.host, port_or(t.port.n, d), FALSE)
    BY <1>2, ByPlainScheme, Zenon
  <2> QED
    BY <1>1, <2>1, DefaultFits, Zenon DEF Dials
<1>3. CASE to_ascii_lowercase(t.scheme) \notin plain
  <2>1. Endpoint(c, t) = Verdict("dial", t.host, port_or(t.port.n, e), TRUE)
    BY <1>3, BySecureScheme, Zenon
  <2> QED
    BY <1>1, <2>1, DefaultFits, Zenon DEF Dials
<1> QED
  BY <1>2, <1>3, Zenon

\* Every pinger dials the host of its target, at a port of 16 bits, and at the
\* target's own port if that is one.
LEMMA DialShape ==
  ASSUME NEW t, t.port \in PortText, NEW c \in AllCommands, Endpoint(c, t).does = "dial"
  PROVE  t.host # "" /\ Dials(c, t)
<1>1. CASE c \in {"tcp", "udp"}
  <2>1. Endpoint(c, t) = raw_endpoint(t)
    BY <1>1, EndpointIs, Zenon
  <2>2. Err.does # "dial"
    BY DEF Err, Verdict
  <2>3. /\ t.host # "" /\ t.port.n \in U16
        /\ Endpoint(c, t) = Verdict("dial", t.host, t.port.n, FALSE)
    BY <2>1, <2>2, Zenon DEF raw_endpoint
  <2> QED
    BY <2>3, Zenon DEF Dials, PortFits
<1>2. CASE c = "dns"
  BY <1>2, EndpointIs, OneDefaultIs, NamedDefaults, OneDefaultDials, Zenon
<1>3. CASE c = "ntp"
  BY <1>3, EndpointIs, OneDefaultIs, NamedDefaults, OneDefaultDials, Zenon
<1>4. CASE c = "stun"
  BY <1>4, EndpointIs, OneDefaultIs, NamedDefaults, OneDefaultDials, Zenon
<1>5. CASE c = "turn"
  BY <1>5, EndpointIs, OneDefaultIs, NamedDefaults, OneDefaultDials, Zenon
<1>6. CASE c = "tls"
  BY <1>6, EndpointIs, OneDefaultIs, NamedDefaults, OneDefaultDials, Zenon
<1>7. CASE c \in {"http", "hls"}
  <2>1. Endpoint(c, t) = ByScheme(t, {"", "http"}, HttpPort, {"https"}, TlsPort)
    BY <1>7, EndpointIs, TwoDefaultsAre
  <2> QED
    BY <2>1, NamedDefaults, TwoDefaultsDial
<1>8. CASE c = "ws"
  <2>1. Endpoint(c, t) = ByScheme(t, {"ws"}, HttpPort, {"wss"}, TlsPort)
    BY <1>8, EndpointIs, TwoDefaultsAre
  <2> QED
    BY <2>1, NamedDefaults, TwoDefaultsDial
<1>9. CASE c = "mqtt"
  <2>1. Endpoint(c, t) = ByScheme(t, {"", "mqtt"}, MqttPort, {"mqtts"}, MqttsPort)
    BY <1>9, EndpointIs, TwoDefaultsAre
  <2> QED
    BY <2>1, NamedDefaults, TwoDefaultsDial
<1>10. CASE c = "rtsp"
  <2>1. Endpoint(c, t) = ByScheme(t, {"", "rtsp"}, RtspPort, {"rtsps"}, RtspsPort)
    BY <1>10, EndpointIs, TwoDefaultsAre
  <2> QED
    BY <2>1, NamedDefaults, TwoDefaultsDial
<1>11. CASE c = "rtmp"
  <2>1. Endpoint(c, t) = ByScheme(t, {"", "rtmp"}, RtmpPort, {"rtmps"}, TlsPort)
    BY <1>11, EndpointIs, TwoDefaultsAre
  <2> QED
    BY <2>1, NamedDefaults, TwoDefaultsDial
<1>12. CASE c = "quic"
  <2>1. Endpoint(c, t) = ByScheme(t, {}, 0, {"", "quic", "https", "h3"}, TlsPort)
    BY <1>12, EndpointIs, TwoDefaultsAre
  <2>2. t.host # ""
    BY <2>1, BySchemeIs, Zenon
  <2>3. to_ascii_lowercase(t.scheme) \notin {}
    OBVIOUS
  <2>4. Endpoint(c, t) = Verdict("dial", t.host, port_or(t.port.n, TlsPort), TRUE)
    BY <2>1, <2>3, BySecureScheme, Zenon
  <2> QED
    BY <2>2, <2>4, NamedDefaults, DefaultFits, Zenon DEF Dials
<1>13. CASE c = "grpc"
  <2> DEFINE s == IF t.scheme = "grpcs" THEN "https"
                  ELSE IF t.scheme \in {"", "grpc"} THEN "http" ELSE t.scheme
             d == IF s = "https" THEN TlsPort ELSE HttpPort
  <2>1. /\ ~get_uri(t).panics /\ t.host # ""
        /\ \/ t.port.text = "none" /\ Endpoint(c, t) = Verdict("dial", t.host, d, s = "https")
           \/ /\ get_uri(t).port \in U16 /\ get_uri(t).port # 0
              /\ Endpoint(c, t) = Verdict("dial", t.host, get_uri(t).port, s = "https")
    BY <1>13, GrpcIs, Zenon
  <2>2. d \in U16
    BY NamedDefaults, DefaultIs, Zenon
  <2> HIDE DEF s, d
  <2>3. get_uri(t).port = t.port.n
    BY <2>1, UriIs, Zenon
  <2>4. CASE t.port.text = "none" /\ Endpoint(c, t) = Verdict("dial", t.host, d, s = "https")
    <3>1. t.port.text # "digits"
      BY <2>4, Zenon
    <3>2. t.port.n = 0
      BY <3>1, PortIs, Zenon
    <3>3. PortFits(t, d)
      BY <2>2, <3>2, Zenon DEF PortFits
    <3> QED
      BY <2>1, <2>4, <3>3, Zenon DEF Dials
  <2>5. CASE /\ get_uri(t).port \in U16 /\ get_uri(t).port # 0
             /\ Endpoint(c, t) = Verdict("dial", t.host, get_uri(t).port, s = "https")
    <3>1. PortFits(t, get_uri(t).port)
      BY <2>3, <2>5, Zenon DEF PortFits
    <3> QED
      BY <2>1, <2>5, <3>1, Zenon DEF Dials
  <2> QED
    BY <2>1, <2>4, <2>5, Zenon
<1> QED
  BY <1>1, <1>2, <1>3, <1>4, <1>5, <1>6, <1>7, <1>8, <1>9, <1>10, <1>11, <1>12, <1>13, Zenon
     DEF AllCommands

\* main's patched target has a port like any other.
LEMMA PatchTyped ==
  ASSUME NEW t, t.port \in PortText, NEW c
  PROVE  resolve_target(c, t).port \in PortText
<1>1. \A s : Rescheme(t, s).port \in PortText
  BY RescopedIs, Zenon
<1>2. \A d \in Nat : default_port_target(t, d).port \in PortText
  BY DEF default_port_target, Target, Port, PortText
<1>3. \A s : \A x \in DOMAIN PatchedPort(s) : PatchedPort(s)[x] \in Nat
  BY DEF PatchedPort
<1> QED
  BY <1>1, <1>2, <1>3 DEF resolve_target

\* The banner's addresses have a host and a port of 16 bits.
LEMMA BannerShape ==
  ASSUME NEW t, t.port \in PortText, NEW c, Banner(c, t).does = "dial"
  PROVE  Banner(c, t).host # "" /\ Banner(c, t).port \in U16
<1> DEFINE p == resolve_target(c, t)
           x == port_or(p.port.n, SchemePort(p))
           b == Banner(c, t)
<1>1. Panic.does # "dial"
  BY DEF Panic, Verdict
<1>2. b = endpoint_for(get_uri(p), SchemePort(p), FALSE)
  BY <1>1, ResolveDef, Zenon DEF Banner
<1>3. p.port \in PortText
  BY PatchTyped, Zenon
<1>4. SchemePort(p) \in Defaults
  BY NamedDefaults, Zenon DEF SchemePort
<1>5. x \in U16
  <2> HIDE DEF p
  <2> QED
    BY <1>3, <1>4, DefaultFits, Zenon DEF PortFits
<1>6. endpoint_for(get_uri(p), SchemePort(p), FALSE).does = "dial"
  BY <1>2, Zenon
<1>7. p.host # "" /\ b = Verdict("dial", p.host, x, FALSE)
  <2> HIDE DEF p, b
  <2> QED
    BY <1>2, <1>6, EndpointFor, Zenon
<1> HIDE DEF p, x, b
<1>8. b.host = p.host /\ b.port = x
  BY <1>7 DEF Verdict
<1>9. b.host # "" /\ b.port \in U16
  BY <1>5, <1>7, <1>8, Zenon
<1> QED
  BY <1>9, Zenon DEF b
----------------------------------------------------------------------------
(* Lookups, playlists and histories *)

LEMMA OneElement ==
  ASSUME NEW S, NEW a \in S
  PROVE  <<a>> \in Seq(S)
OBVIOUS

LEMMA LookupTyped ==
  ASSUME answers \in Seq({"v4", "v6"}), NEW host
  PROVE  lookup_host(host) \in Seq({"v4", "v6"})
<1>1. <<"v6">> \in Seq({"v4", "v6"})
  BY OneElement, Zenon
<1> QED
  BY <1>1, Zenon DEF lookup_host

\* Who connects, connects to an address that was looked up.
LEMMA ReachableIs ==
  ASSUME answers \in Seq({"v4", "v6"}), NEW e, NEW fam, fam \in Reachable(e)
  PROVE  e.port # 0 /\ fam \in Range(lookup_host(e.host))
<1> DEFINE s == lookup_host(e.host)
<1>1. s \in Seq({"v4", "v6"})
  BY LookupTyped
<1>2. s # <<>> /\ e.port # 0
  BY DEF Reachable
<1> HIDE DEF s
<1>3. resolve_first(s) \in Range(s)
  BY <1>1, <1>2 DEF resolve_first, Contains, Range
<1>4. fam \in Range(s)
  BY <1>2, <1>3 DEF Reachable, s
<1> QED
  BY <1>2, <1>4, Zenon DEF s

LEMMA LookupRange ==
  ASSUME answers \in Seq({"v4", "v6"}), NEW host
  PROVE  Range(lookup_host(host)) \subseteq {"v4", "v6"}
<1>1. lookup_host(host) \in Seq({"v4", "v6"})
  BY LookupTyped
<1> QED
  BY <1>1 DEF Range

\* The natural numbers are well ordered, so Min is what it says, and so is Max
\* of a set with a bound.
LEMMA MinIs ==
  ASSUME NEW S, S \subseteq Nat, S # {}
  PROVE  Min(S) \in S /\ \A y \in S : Min(S) <= y
<1>1. PICK x \in S : \A y \in S : x <= y
  BY Least
<1> QED
  BY <1>1 DEF Min

LEMMA MaxIs ==
  ASSUME NEW n \in Nat, NEW S, S \subseteq 1..n, S # {}
  PROVE  Max(S) \in S /\ \A y \in S : y <= Max(S)
<1> DEFINE T == {n - y : y \in S}
<1>1. T \subseteq Nat /\ T # {}
  <2>1. PICK y : y \in S
    BY Zenon
  <2>2. n - y \in T
    BY <2>1, Zenon
  <2>3. \A u \in S : n - u \in Nat
    OBVIOUS
  <2> QED
    BY <2>2, <2>3, Zenon
<1> HIDE DEF T
<1>2. PICK z \in T : \A u \in T : z <= u
  BY <1>1, Least
<1>3. PICK x \in S : z = n - x
  BY <1>2, Zenon DEF T
<1>4. \A y \in S : x >= y
  <2> TAKE y \in S
  <2>1. n - x <= n - y
    BY <1>2, <1>3, Zenon DEF T
  <2> QED
    BY <2>1
<1>5. Max(S) \in S /\ \A y \in S : Max(S) >= y
  BY <1>4, Zenon DEF Max
<1> QED
  BY <1>5

LEMMA InRange ==
  ASSUME NEW n \in Nat
  PROVE  /\ \A i \in 2..n : i \in 1..n
         /\ \A i \in 1..n : \A j \in 1..(i - 1) : j \in 1..n
         /\ \A m \in 2..n : \A j \in 1..(m - 1) : \A k \in j..(m - 1) : k \in 1..n
OBVIOUS

\* Of positions L and P with no one in common: the first of L after one of P
\* has one of P before it with none of L between.
LEMMA Nearest ==
  ASSUME NEW n \in Nat, NEW L \in SUBSET (1..n), NEW P \in SUBSET (1..n), L \cap P = {},
         NEW S, \A i : i \in S <=> i \in L /\ \E j \in 1..(i - 1) : j \in P, S # {}
  PROVE  /\ Min(S) \in 2..n
         /\ \E j \in 1..(Min(S) - 1) : j \in P /\ \A k \in j..(Min(S) - 1) : k \notin L
<1> DEFINE m == Min(S)
<1>1. m \in S /\ \A y \in S : m <= y
  <2>1. \A i \in S : i \in 1..n
    BY Zenon
  <2>2. 1..n \subseteq Nat
    OBVIOUS
  <2>3. S \subseteq Nat
    BY <2>1, <2>2, Zenon
  <2> QED
    BY <2>3, MinIs, Zenon
<1> HIDE DEF m
<1>2. PICK j \in 1..(m - 1) : j \in P
  BY <1>1
<1>3. m \in 2..n /\ j \in 1..n
  <2>1. m \in 1..n
    BY <1>1, Zenon
  <2> QED
    BY <1>2, <2>1
<1>4. ASSUME NEW k \in j..(m - 1), k \in L PROVE FALSE
  <2>1. k \in Int /\ j <= k /\ k < m /\ j # k
    BY <1>2, <1>3, <1>4
  <2>2. j \in 1..(k - 1)
    BY <1>3, <2>1
  <2>3. k \in S
    BY <1>2, <1>4, <2>2
  <2>4. m <= k
    BY <1>1, <2>3
  <2> QED
    BY <1>3, <2>1, <2>4
<1>5. m \in 2..n /\ \E i \in 1..(m - 1) : i \in P /\ \A k \in i..(m - 1) : k \notin L
  BY <1>2, <1>3, <1>4
<1> QED
  BY <1>5 DEF m

\* FirstAfter finds the line nearest to a tag before it, or nothing.
LEMMA FirstAfterIs ==
  ASSUME NEW text, IsPlaylist(text), NEW tag, tag # "", FirstAfter(text, tag).kind # "none"
  PROVE  \E i \in 2..Len(text) :
           /\ text[i].ref = FirstAfter(text, tag)
           /\ \E j \in 1..(i - 1) : /\ text[j].tag = tag
                                    /\ \A k \in j..(i - 1) : text[k].tag # ""
<1> DEFINE n == Len(text)
           L == {i \in 1..n : text[i].tag = ""}
           P == {i \in 1..n : text[i].tag = tag}
           after == {i \in 1..n : text[i].tag = "" /\ \E j \in 1..(i - 1) : text[j].tag = tag}
           m == Min(after)
<1>0. n \in Nat
  BY LenProperties, Zenon DEF IsPlaylist
<1>1. after # {} /\ FirstAfter(text, tag) = text[m].ref
  <2>1. NoRef.kind = "none"
    BY DEF NoRef
  <2> QED
    BY <2>1, Zenon DEF FirstAfter
<1>2. L \cap P = {} /\ L \in SUBSET (1..n) /\ P \in SUBSET (1..n)
  BY Zenon
<1>3. \A i : i \in after <=> i \in L /\ \E j \in 1..(i - 1) : j \in P
  <2>1. ASSUME NEW i \in 1..n, NEW j \in 1..(i - 1) PROVE j \in 1..n
    <3> HIDE DEF n
    <3> QED
      BY <1>0, <2>1, InRange, Zenon
  <2> QED
    BY <2>1, Zenon
<1> HIDE DEF n, L, P, after
<1>4. /\ m \in 2..n
      /\ \E j \in 1..(m - 1) : j \in P /\ \A k \in j..(m - 1) : k \notin L
  BY <1>0, <1>1, <1>2, <1>3, Nearest
<1> HIDE DEF m
<1>5. PICK j \in 1..(m - 1) : j \in P /\ \A k \in j..(m - 1) : k \notin L
  BY <1>4, Zenon
<1>6. ASSUME NEW k \in j..(m - 1) PROVE text[k].tag # ""
  <2>1. k \in 1..n
    BY <1>0, <1>4, <1>5, <1>6, InRange, Zenon
  <2> QED
    BY <1>5, <2>1, Zenon DEF L
<1>7. text[j].tag = tag
  BY <1>5, Zenon DEF P
<1> QED
  BY <1>1, <1>4, <1>5, <1>6, <1>7, Zenon DEF n

\* ... and what it finds is a reference.
LEMMA FirstAfterRef ==
  ASSUME NEW text, IsPlaylist(text), NEW tag, tag # "", FirstAfter(text, tag).kind # "none"
  PROVE  IsRef(FirstAfter(text, tag))
<1>1. PICK i \in 2..Len(text) : text[i].ref = FirstAfter(text, tag)
  BY FirstAfterIs
<1>2. i \in 1..Len(text)
  <2>1. Len(text) \in Nat
    BY LenProperties, Zenon DEF IsPlaylist
  <2> QED
    BY <1>1, <2>1, InRange, Zenon
<1> QED
  BY <1>1, <1>2, Zenon DEF IsPlaylist

\* All but the last.
LEMMA FrontIs ==
  ASSUME NEW S, NEW s \in Seq(S), s # <<>>
  PROVE  /\ Front(s) \in Seq(S) /\ Len(Front(s)) = Len(s) - 1
         /\ \A i \in 1..(Len(s) - 1) : Front(s)[i] = s[i]
<1> DEFINE n == Len(s) - 1
<1>1. Len(s) \in Nat \ {0}
  BY EmptySeq
<1>2. n \in Nat /\ \A i \in 1..n : s[i] \in S
  BY <1>1
<1>3. Front(s) = SubSeq(s, 1, n)
  BY DEF Front
<1> HIDE DEF n
<1>4. /\ SubSeq(s, 1, n) \in Seq(S)
      /\ Len(SubSeq(s, 1, n)) = IF 1 <= n THEN n - 1 + 1 ELSE 0
      /\ \A i \in 1..(n - 1 + 1) : SubSeq(s, 1, n)[i] = s[1 + i - 1]
  BY <1>2, SubSeqProperties
<1>5. n - 1 + 1 = n /\ (~(1 <= n) => n = 0) /\ \A i \in 1..n : 1 + i - 1 = i
  BY <1>2
<1>6. /\ SubSeq(s, 1, n) \in Seq(S) /\ Len(SubSeq(s, 1, n)) = n
      /\ \A i \in 1..n : SubSeq(s, 1, n)[i] = s[i]
  BY <1>4, <1>5, Zenon
<1> QED
  BY <1>3, <1>6, Zenon DEF n

\* What a URL and a reference make is a URL again.
LEMMA RelativeTyped ==
  ASSUME NEW base, IsTarget(base), NEW ref, IsRef(ref), ref.kind # "none"
  PROVE  IsTarget(resolve_relative(base, ref))
<1> DEFINE S == STRING
<1>1. CASE ref.kind = "absolute"
  BY <1>1 DEF resolve_relative, IsRef
<1>2. CASE ref.kind \in {"rooted", "sibling"}
  <2> DEFINE path == IF ref.kind = "rooted" \/ base.path = <<>> THEN ref.path
                     ELSE Front(base.path) \o ref.path
             new == Target(IF base.scheme = "" THEN "http" ELSE base.scheme, FALSE,
                           base.host, base.port, path)
  <2>1. resolve_relative(base, ref) = new
    BY <1>2 DEF resolve_relative
  <2>2. new.port = base.port /\ new.path = path
    <3> HIDE DEF path
    <3> QED
      BY DEF Target
  <2>3. base.path \in Seq(S) /\ ref.path \in Seq(S) /\ base.port \in PortText
    BY <1>2 DEF IsTarget, IsRef
  <2>4. path \in Seq(S)
    <3> HIDE DEF S
    <3>1. base.path # <<>> => Front(base.path) \in Seq(S)
      BY <2>3, FrontIs
    <3> QED
      BY <2>3, <3>1
  <2> HIDE DEF new, path
  <2> QED
    BY <2>1, <2>2, <2>3, <2>4 DEF IsTarget
<1> QED
  BY <1>1, <1>2 DEF IsRef

\* A sequence one longer than another.
Lengthened(s, e, t) ==
  /\ t \in Seq(Range(t)) /\ Len(s) \in Nat /\ Len(t) = Len(s) + 1 /\ t # <<>>
  /\ \A i \in 1..Len(s) : t[i] = s[i]
  /\ t[Len(t)] = e

LEMMA HistoryGrows ==
  ASSUME NEW s, s \in Seq(Range(s)), NEW e, NEW t, t = Append(s, e)
  PROVE  Lengthened(s, e, t)
<1> DEFINE S == Range(s) \cup {e}
<1>1. s \in Seq(S) /\ e \in S
  <2>1. Range(s) \subseteq S
    OBVIOUS
  <2> HIDE DEF S
  <2>2. s \in Seq(S)
    BY <2>1
  <2> QED
    BY <2>2 DEF S
<1> HIDE DEF S
<1>2. /\ t \in Seq(S) /\ Len(s) \in Nat /\ Len(t) = Len(s) + 1
      /\ \A i \in 1..Len(s) : t[i] = s[i]
      /\ t[Len(t)] = e
  BY <1>1
<1>3. t \in Seq(Range(t))
  <2>1. DOMAIN t = 1..Len(t) /\ \A i \in 1..Len(t) : t[i] \in Range(t)
    BY <1>2 DEF Range
  <2> QED
    BY <1>2, <2>1
<1>4. t # <<>>
  BY <1>2
<1> QED
  BY <1>2, <1>3, <1>4, Zenon DEF Lengthened

\* The front of two paths put together.
LEMMA FrontOfConcat ==
  ASSUME NEW S, NEW x \in Seq(S), NEW y \in Seq(S), y # <<>>
  PROVE  Front(x \o y) = x \o Front(y)
<1> DEFINE l == Front(x \o y)
           r == x \o Front(y)
<1>0. Len(y) \in Nat \ {0} /\ Len(x) \in Nat /\ x \o y \in Seq(S) /\ Len(x \o y) = Len(x) + Len(y)
  BY EmptySeq
<1>1. x \o y # <<>>
  BY <1>0
<1>2. /\ l \in Seq(S) /\ Len(l) = Len(x) + Len(y) - 1
      /\ \A i \in 1..(Len(x) + Len(y) - 1) : l[i] = (x \o y)[i]
  <2> DEFINE z == x \o y
  <2>1. z \in Seq(S) /\ z # <<>> /\ Len(z) = Len(x) + Len(y)
    BY <1>0, <1>1
  <2> HIDE DEF z
  <2>2. /\ Front(z) \in Seq(S) /\ Len(Front(z)) = Len(z) - 1
        /\ \A i \in 1..(Len(z) - 1) : Front(z)[i] = z[i]
    BY <2>1, FrontIs, Zenon
  <2>3. /\ Front(z) \in Seq(S) /\ Len(Front(z)) = Len(x) + Len(y) - 1
        /\ \A i \in 1..(Len(x) + Len(y) - 1) : Front(z)[i] = z[i]
    BY <2>1, <2>2
  <2> QED
    BY <2>3, Zenon DEF z
<1> DEFINE f == Front(y)
<1>3. /\ f \in Seq(S) /\ Len(f) = Len(y) - 1
      /\ \A i \in 1..(Len(y) - 1) : f[i] = y[i]
  BY FrontIs, Zenon
<1> HIDE DEF f
<1>4. r \in Seq(S) /\ Len(r) = Len(x) + Len(y) - 1
  <2>1. x \o f \in Seq(S) /\ Len(x \o f) = Len(x) + Len(f)
    BY <1>3, ConcatProperties
  <2>2. Len(x) + Len(f) = Len(x) + Len(y) - 1
    BY <1>0, <1>3
  <2> QED
    BY <2>1, <2>2, Zenon DEF f
<1>5. ASSUME NEW i \in 1..(Len(x) + Len(y) - 1) PROVE l[i] = r[i]
  <2>0. Len(x) + Len(f) = Len(x) + Len(y) - 1
    BY <1>0, <1>3
  <2>1. CASE i <= Len(x)
    <3>1. (x \o y)[i] = x[i] /\ (x \o f)[i] = x[i]
      BY <1>0, <1>3, <2>0, <2>1
    <3> QED
      BY <1>2, <3>1, Zenon DEF f
  <2>2. CASE i > Len(x)
    <3>1. (x \o y)[i] = y[i - Len(x)]
      BY <1>0, <2>2
    <3>2. (x \o f)[i] = f[i - Len(x)]
      BY <1>0, <1>3, <2>0, <2>2
    <3>3. i - Len(x) \in 1..(Len(y) - 1)
      BY <1>0, <2>2
    <3> QED
      BY <1>2, <1>3, <3>1, <3>2, <3>3, Zenon DEF f
  <2>3. i <= Len(x) \/ i > Len(x)
    BY <1>0
  <2> QED
    BY <2>1, <2>2, <2>3, Zenon
<1> HIDE DEF l, r
<1>6. l = r
  BY <1>2, <1>4, <1>5, SeqEqual
<1> QED
  BY <1>6 DEF l, r

----------------------------------------------------------------------------
(* The invariant *)

\* What Init has chosen does not change.
Given ==
  /\ front \in {"cli", "mcp"} /\ cmd \in Commands
  /\ IsTarget(target) /\ answers \in Seq({"v4", "v6"})
  /\ cmd = "hls" => IsPlaylist(detail[1]) /\ IsPlaylist(detail[2])

\* ping() connects to the address it computed from the URL at hand.
Aimed ==
  /\ IsTarget(url)
  /\ pc \in {"encode", "dial"} => to = Endpoint(cmd, url) /\ to.does = "dial"

\* Every connection was made to an address its URL leads to.
Hopped(c, d) ==
  /\ IsTarget(d.url)
  /\ Endpoint(c, d.url).does = "dial"
  /\ d.addr.host = Endpoint(c, d.url).host
  /\ d.addr.port = Endpoint(c, d.url).port
  /\ d.tls = Endpoint(c, d.url).tls

Hops ==
  /\ dialled \in Seq(Range(dialled))
  /\ \A i \in 1..Len(dialled) : Hopped(cmd, dialled[i])

\* The order of the fetches: the entry, the variant of a master, the segment.
Master(d) == first_variant_url(d[1]).kind # "none"

Before(d, role) ==
  IF role = "entry" THEN 0 ELSE IF role = "variant" THEN 1 ELSE IF Master(d) THEN 2 ELSE 1

Staged ==
  /\ via.role \in {"entry", "variant", "segment"}
  /\ via.role = "variant" => Master(detail)
  /\ via.role = "segment" => via.ref = first_segment_url(detail[Before(detail, "segment")])
                             /\ via.ref.kind # "none"
  /\ pc = "follow" => cmd = "hls"
  /\ cmd = "hls" => pc \notin {"encode", "walk"}
  /\ pc \in {"start", "prepare", "encode", "dial"} => Len(dialled) = Before(detail, via.role)
  /\ pc = "follow" => Len(dialled) = Before(detail, via.role) + 1
  /\ cmd = "hls" /\ out = "reached" => via.role = "segment" /\ Len(dialled) = Before(detail, via.role) + 1

\* Each URL after the first is what its playlist's reference says.
Led(base, is, ref) == is = resolve_relative(base, ref) /\ IsRef(ref) /\ ref.kind # "none"

Chained ==
  /\ pc \in {"start", "prepare", "encode", "dial"} =>
       IF dialled = <<>> THEN url = target
       ELSE cmd = "hls" /\ Led(dialled[Len(dialled)].url, url, via.ref)
  /\ pc = "follow" \/ (cmd = "hls" /\ out = "reached") =>
       dialled[Len(dialled)].url = url /\ dialled[Len(dialled)].via = via
  /\ \A i \in 2..Len(dialled) :
       cmd = "hls" => Led(dialled[i - 1].url, dialled[i].url, dialled[i].via.ref)

\* What main has printed stays in force until the ping is over.
Lookups(e, addrs) ==
  {[host |-> e.host, port |-> e.port, fam |-> f] :
     f \in Range(IF e.host = V6 THEN <<"v6">> ELSE addrs)}

Announced ==
  /\ pc = "start" => dialled = <<>>
  /\ front = "cli" /\ pc \notin {"start", "done"} =>
       /\ ~get_uri(target).panics
       /\ banner = IF Banner(cmd, target).does = "dial" THEN Lookups(Banner(cmd, target), answers)
                   ELSE {}

SetupInv == TypeOK /\ Given /\ Aimed /\ Hops /\ Staged /\ Chained

----------------------------------------------------------------------------
(* Which action changes what *)

\* No step changes what Init has chosen.
LEMMA InputKept ==
  ASSUME [Next]_vars
  PROVE  UNCHANGED <<front, cmd, target, detail, answers>>
<1>1. CASE LookUp
  BY <1>1, Zenon DEF LookUp, input
<1>2. CASE Tool
  BY <1>2, Zenon DEF Tool, input
<1>3. CASE Prepare
  BY <1>3, Zenon DEF Prepare, input
<1>4. CASE EncodeLabel
  BY <1>4, Zenon DEF EncodeLabel, input
<1>5. CASE EncodeEnd
  BY <1>5, Zenon DEF EncodeEnd, input
<1>6. CASE \E fam \in {"v4", "v6"} : Dial(fam)
  BY <1>6, Zenon DEF Dial, input
<1>7. CASE Refused
  BY <1>7, Zenon DEF Refused, input
<1>8. CASE WalkAttr
  BY <1>8, Zenon DEF WalkAttr, input
<1>9. CASE Follow
  BY <1>9, Zenon DEF Follow, input
<1>10. CASE Done
  BY <1>10, Zenon DEF Done, vars
<1>11. CASE UNCHANGED vars
  BY <1>11, Zenon DEF vars
<1> QED
  BY <1>1, <1>2, <1>3, <1>4, <1>5, <1>6, <1>7, <1>8, <1>9, <1>10, <1>11, Zenon DEF Next

LEMMA GivenKept ==
  ASSUME Given, [Next]_vars
  PROVE  Given'
BY InputKept, Zenon DEF Given

\* The steps between two connections: none of them changes the history, the
\* URL or the fetch, and the ping goes on or is over.
Quiet ==
  /\ UNCHANGED <<url, via, dialled>>
  /\ \/ UNCHANGED <<pc, out>>
     \/ pc' = "done" /\ out' # "none" /\ (out' = "reached" => pc = "walk")
     \/ UNCHANGED out /\ pc = "start" /\ pc' = "prepare"
     \/ UNCHANGED out /\ pc = "encode" /\ pc' = "dial"
     \/ UNCHANGED out /\ pc = "prepare" /\ cmd = "dns" /\ pc' = "encode"
     \/ UNCHANGED out /\ pc = "prepare" /\ cmd # "dns" /\ pc' = "dial"

Outcomes == {"none", "panic", "unknown", "badtarget", "badname", "unreachable",
             "reached", "missing", "overrun", "short", "code", "notplaylist", "nosegment"}

LEMMA LookUpQuiet ==
  ASSUME LookUp
  PROVE  Quiet /\ out' \in {out, "panic"} /\ UNCHANGED to
<1>1. CASE Banner(cmd, target).does = "panic"
  BY <1>1, Zenon DEF LookUp, Finish, Quiet
<1>2. CASE Banner(cmd, target).does # "panic"
  BY <1>2, Zenon DEF LookUp, Quiet
<1> QED
  BY <1>1, <1>2, Zenon

LEMMA ToolQuiet ==
  ASSUME Tool
  PROVE  Quiet /\ UNCHANGED <<out, to, banner>>
BY Zenon DEF Tool, Quiet

LEMMA PrepareQuiet ==
  ASSUME Prepare
  PROVE  /\ Quiet /\ out' \in {out, "badname", "badtarget", "panic", "unknown"}
         /\ UNCHANGED banner /\ pc = "prepare" /\ pc' \in {"encode", "dial", "done"}
         /\ \/ pc' = "done" /\ UNCHANGED to
            \/ to' = Endpoint(cmd, url) /\ to'.does = "dial"
<1> DEFINE e == Endpoint(cmd, url)
           empty == cmd = "dns" /\ detail = <<0>>
<1>1. CASE empty
  BY <1>1, Zenon DEF Prepare, Finish, Quiet
<1>2. CASE ~empty /\ e.does \in {"err", "panic", "unknown"}
  <2>1. pc' = "done" /\ out' = (IF e.does = "err" THEN "badtarget" ELSE e.does) /\ UNCHANGED to
    BY <1>2, Zenon DEF Prepare, Finish
  <2>2. out' \in {"badtarget", "panic", "unknown"}
    BY <1>2, <2>1, Zenon
  <2>3. UNCHANGED <<url, via, dialled, banner>> /\ pc = "prepare"
    BY Zenon DEF Prepare
  <2> QED
    BY <2>1, <2>2, <2>3, Zenon DEF Quiet
<1>3. CASE ~empty /\ e.does = "dial"
  <2>1. /\ pc = "prepare" /\ to' = e /\ UNCHANGED <<out, url, via, dialled, banner>>
        /\ pc' = IF cmd = "dns" THEN "encode" ELSE "dial"
    BY <1>3, Zenon DEF Prepare
  <2>2. to'.does = "dial"
    BY <1>3, <2>1, Zenon
  <2> QED
    BY <2>1, <2>2, Zenon DEF Quiet
<1>4. empty \/ e.does \in {"err", "panic", "unknown", "dial"}
  BY Zenon DEF Prepare
<1> QED
  BY <1>1, <1>2, <1>3, <1>4, Zenon

LEMMA EncodeLabelQuiet ==
  ASSUME EncodeLabel
  PROVE  Quiet /\ out' \in {out, "badname"} /\ UNCHANGED <<to, banner>>
<1>1. CASE Head(rest) \in 1..MaxLabel
  BY <1>1, Zenon DEF EncodeLabel, Quiet
<1>2. CASE Head(rest) \notin 1..MaxLabel
  BY <1>2, Zenon DEF EncodeLabel, Finish, Quiet
<1> QED
  BY <1>1, <1>2, Zenon

LEMMA EncodeEndQuiet ==
  ASSUME EncodeEnd
  PROVE  Quiet /\ out' \in {out, "badname"} /\ UNCHANGED <<to, banner>>
<1>1. CASE Len(name') > MaxName
  BY <1>1, Zenon DEF EncodeEnd, Finish, Quiet
<1>2. CASE ~(Len(name') > MaxName)
  BY <1>2, Zenon DEF EncodeEnd, Quiet
<1> QED
  BY <1>1, <1>2, Zenon

LEMMA RefusedQuiet ==
  ASSUME Refused
  PROVE  Quiet /\ out' = "unreachable" /\ UNCHANGED <<to, banner>>
BY Zenon DEF Refused, Finish, Quiet

LEMMA WalkAttrQuiet ==
  ASSUME WalkAttr
  PROVE  Quiet /\ out' \in {out, "missing", "overrun", "short", "code", "reached"}
         /\ UNCHANGED <<to, banner>>
<1>1. UNCHANGED <<url, via, dialled, to, banner>> /\ pc = "walk"
  BY Zenon DEF WalkAttr
<1>2. \/ UNCHANGED <<pc, out>>
      \/ pc' = "done" /\ out' \in {"missing", "overrun", "short", "code", "reached"}
  BY DEF WalkAttr, Finish
<1> QED
  BY <1>1, <1>2, Zenon DEF Quiet

LEMMA StutterQuiet ==
  ASSUME Done \/ UNCHANGED vars
  PROVE  Quiet /\ UNCHANGED <<out, to, banner>>
BY Zenon DEF Done, vars, Quiet

LEMMA DialIs ==
  ASSUME NEW fam, Dial(fam)
  PROVE  /\ pc = "dial" /\ fam \in Reachable(to)
         /\ dialled' = Append(dialled, Hop(fam))
         /\ UNCHANGED <<url, to, via, banner>>
         /\ \/ cmd = "turn" /\ pc' = "walk" /\ UNCHANGED out
            \/ cmd = "hls" /\ pc' = "follow" /\ UNCHANGED out
            \/ cmd \notin {"turn", "hls"} /\ pc' = "done" /\ out' = "reached"
<1>1. CASE cmd = "turn"
  BY <1>1, Zenon DEF Dial
<1>2. CASE cmd = "hls"
  BY <1>2, Zenon DEF Dial
<1>3. CASE cmd \notin {"turn", "hls"}
  BY <1>3, Zenon DEF Dial, Finish
<1> QED
  BY <1>1, <1>2, <1>3, Zenon

LEMMA FollowIs ==
  ASSUME Follow, NEW text, text = detail[Len(dialled)]
  PROVE  /\ pc = "follow" /\ UNCHANGED <<to, dialled, banner>>
         /\ \/ /\ pc' = "done" /\ out' = "reached" /\ via.role = "segment"
               /\ UNCHANGED <<url, via>>
            \/ /\ pc' = "done" /\ out' \in {"notplaylist", "nosegment"}
               /\ UNCHANGED <<url, via>>
            \/ /\ pc' = "prepare" /\ UNCHANGED out /\ via.role = "entry"
               /\ first_variant_url(text).kind # "none"
               /\ url' = resolve_relative(url, first_variant_url(text))
               /\ via' = Fetch("variant", first_variant_url(text))
            \/ /\ pc' = "prepare" /\ UNCHANGED out /\ via.role # "segment"
               /\ via.role = "entry" => first_variant_url(text).kind = "none"
               /\ first_segment_url(text).kind # "none"
               /\ url' = resolve_relative(url, first_segment_url(text))
               /\ via' = Fetch("segment", first_segment_url(text))
<1>0. pc = "follow" /\ UNCHANGED <<to, dialled, banner>>
  BY Zenon DEF Follow
<1>1. CASE via.role = "segment"
  BY <1>0, <1>1, Zenon DEF Follow, Finish
<1>2. CASE via.role = "entry" /\ (text = <<>> \/ Head(text).tag # "#EXTM3U")
  BY <1>0, <1>2, Zenon DEF Follow, Finish
<1> DEFINE go == /\ via.role # "segment"
                 /\ ~(via.role = "entry" /\ (text = <<>> \/ Head(text).tag # "#EXTM3U"))
           to_variant == via.role = "entry" /\ first_variant_url(text).kind # "none"
<1>3. CASE go /\ to_variant
  BY <1>0, <1>3, Zenon DEF Follow
<1>4. CASE go /\ ~to_variant /\ first_segment_url(text).kind = "none"
  BY <1>0, <1>4, Zenon DEF Follow, Finish
<1>5. CASE go /\ ~to_variant /\ first_segment_url(text).kind # "none"
  BY <1>0, <1>5, Zenon DEF Follow
<1> QED
  BY <1>1, <1>2, <1>3, <1>4, <1>5, Zenon

----------------------------------------------------------------------------
(* The invariant holds *)

LEMMA InitInv == Init => SetupInv
<1> SUFFICES ASSUME Init PROVE SetupInv
  OBVIOUS
<1>1. PICK job \in JobsOf(cmd) : target = job.target /\ detail = job.detail
  BY Zenon DEF Init
<1>2. Given
  <2>1. cmd \in Commands /\ front \in {"cli", "mcp"} /\ answers \in Answers
    BY Zenon DEF Init
  <2>2. IsTarget(target) /\ answers \in Seq({"v4", "v6"})
    BY <1>1, <2>1, SetupAssumption, Zenon
  <2>3. cmd = "hls" => IsPlaylist(detail[1]) /\ IsPlaylist(detail[2])
    BY <1>1, <2>1, SetupAssumption, Zenon
  <2> QED
    BY <2>1, <2>2, <2>3, Zenon DEF Given
<1>3. TypeOK
  <2>1. to.port \in U16
    <3>1. Err.port = 0
      BY DEF Err, Verdict
    <3>2. 0 \in U16
      BY WordIs, U16Is
    <3> QED
      BY <3>1, <3>2, Zenon DEF Init
  <2> QED
    BY <2>1, Zenon DEF Init, TypeOK
<1>4. Aimed
  BY <1>2, Zenon DEF Init, Aimed, Given
<1>5. dialled = <<>> /\ Len(dialled) = 0 /\ dialled \in Seq(Range(dialled))
  BY EmptySeq, Zenon DEF Init
<1>6. Hops
  BY <1>5 DEF Hops
<1>7. via.role = "entry"
  BY DEF Init, Fetch
<1>8. Staged
  <2>1. Before(detail, via.role) = 0
    BY <1>7, Zenon DEF Before
  <2>2. pc = "start" /\ out = "none"
    BY Zenon DEF Init
  <2> QED
    BY <1>5, <1>7, <2>1, <2>2, Zenon DEF Staged
<1>9. Chained
  <2>1. \A i \in 2..Len(dialled) : FALSE
    BY <1>5
  <2> QED
    BY <2>1, <1>5, Zenon DEF Init, Chained
<1> QED
  BY <1>2, <1>3, <1>4, <1>6, <1>8, <1>9, Zenon DEF SetupInv

\* A target ends at a port of 16 bits.
LEMMA DialPort ==
  ASSUME Given, NEW t, IsTarget(t), Endpoint(cmd, t).does = "dial"
  PROVE  /\ Endpoint(cmd, t).port \in U16 /\ Endpoint(cmd, t).host = t.host
         /\ t.port.n \in U16 /\ t.port.n # 0 => Endpoint(cmd, t).port = t.port.n
<1>1. cmd \in AllCommands /\ t.port \in PortText
  BY SetupAssumption, Zenon DEF Given, IsTarget, AllCommands
<1>2. PICK port, tls : Endpoint(cmd, t) = Verdict("dial", t.host, port, tls) /\ PortFits(t, port)
  BY <1>1, DialShape, Zenon DEF Dials
<1>3. Endpoint(cmd, t).host = t.host /\ Endpoint(cmd, t).port = port
  <2> DEFINE e == Endpoint(cmd, t)
  <2>1. e = Verdict("dial", t.host, port, tls)
    BY <1>2, Zenon
  <2> HIDE DEF e
  <2>2. e.host = t.host /\ e.port = port
    BY <2>1 DEF Verdict
  <2> QED
    BY <2>2, Zenon DEF e
<1> QED
  BY <1>2, <1>3, Zenon DEF PortFits

LEMMA TypeKept ==
  ASSUME SetupInv, [Next]_vars
  PROVE  TypeOK'
<1> DEFINE PCs == {"start", "prepare", "encode", "dial", "walk", "follow", "done"}
           Fine == \A a \in banner : a.host # "" /\ a.port \in U16 /\ a.fam \in {"v4", "v6"}
<1>0. UNCHANGED <<front, cmd, target, detail, answers>>
  BY InputKept
<1>1. /\ front \in {"cli", "mcp"} /\ cmd \in Commands
      /\ pc \in PCs /\ Fine /\ to.port \in U16 /\ out \in Outcomes /\ (pc = "done" <=> out # "none")
  BY Zenon DEF SetupInv, TypeOK, Outcomes
<1>2. SUFFICES pc' \in PCs /\ Fine' /\ to'.port \in U16 /\ out' \in Outcomes
                 /\ (pc' = "done" <=> out' # "none")
  BY <1>0, <1>1, Zenon DEF TypeOK, Outcomes
<1>3. ASSUME Quiet PROVE pc' \in PCs /\ (pc' = "done" <=> out' # "none")
  BY <1>1, <1>3, Zenon DEF Quiet
<1>4. ASSUME UNCHANGED banner PROVE Fine'
  BY <1>1, <1>4, Zenon
<1> HIDE DEF PCs, Fine
<1>5. ASSUME UNCHANGED to PROVE to'.port \in U16
  BY <1>1, <1>5, Zenon
<1>6. CASE LookUp
  <2>1. Quiet /\ out' \in {out, "panic"} /\ UNCHANGED to
    BY <1>6, LookUpQuiet, Zenon
  <2>2. Fine'
    <3> DEFINE b == Banner(cmd, target)
    <3>1. UNCHANGED banner \/ (b.does = "dial" /\ banner' = Addresses(b)) \/ banner' = {}
      BY <1>6, Zenon DEF LookUp
    <3>2. ASSUME b.does = "dial", NEW a \in Addresses(b)
          PROVE  a.host # "" /\ a.port \in U16 /\ a.fam \in {"v4", "v6"}
      <4>1. target.port \in PortText /\ answers \in Seq({"v4", "v6"})
        BY Zenon DEF SetupInv, Given, IsTarget
      <4>2. b.host # "" /\ b.port \in U16
        BY <3>2, <4>1, BannerShape, Zenon
      <4> HIDE DEF b
      <4>3. PICK f \in Range(lookup_host(b.host)) : a = [host |-> b.host, port |-> b.port, fam |-> f]
        BY <3>2, Zenon DEF Addresses
      <4>4. a.host = b.host /\ a.port = b.port /\ a.fam = f
        BY <4>3, Zenon
      <4>5. f \in {"v4", "v6"}
        BY <4>1, <4>3, LookupRange, Zenon
      <4> QED
        BY <4>2, <4>4, <4>5, Zenon
    <3> HIDE DEF b
    <3> QED
      BY <3>1, <3>2, <1>4, Zenon DEF Fine
  <2> QED
    BY <1>1, <1>3, <1>5, <2>1, <2>2, Zenon DEF Outcomes
<1>7. CASE Tool
  BY <1>1, <1>3, <1>4, <1>5, <1>7, ToolQuiet, Zenon
<1>8. CASE Prepare
  <2>1. Quiet /\ out' \in {out, "badname", "badtarget", "panic", "unknown"} /\ UNCHANGED banner
    BY <1>8, PrepareQuiet, Zenon
  <2>2. to'.port \in U16
    <3>1. CASE UNCHANGED to
      BY <3>1, <1>5, Zenon
    <3>2. CASE to' = Endpoint(cmd, url) /\ to'.does = "dial"
      BY <3>2, DialPort, Zenon DEF SetupInv, Aimed
    <3> QED
      BY <1>8, <3>1, <3>2, PrepareQuiet, Zenon
  <2> QED
    BY <1>1, <1>3, <1>4, <2>1, <2>2, Zenon DEF Outcomes
<1>9. CASE EncodeLabel
  BY <1>1, <1>3, <1>4, <1>5, <1>9, EncodeLabelQuiet, Zenon DEF Outcomes
<1>10. CASE EncodeEnd
  BY <1>1, <1>3, <1>4, <1>5, <1>10, EncodeEndQuiet, Zenon DEF Outcomes
<1>11. CASE \E fam \in {"v4", "v6"} : Dial(fam)
  <2>1. pc = "dial" /\ UNCHANGED <<to, banner>>
        /\ \/ pc' = "walk" /\ UNCHANGED out
           \/ pc' = "follow" /\ UNCHANGED out
           \/ pc' = "done" /\ out' = "reached"
    BY <1>11, DialIs, Zenon
  <2> QED
    BY <1>1, <1>4, <1>5, <2>1, Zenon DEF Outcomes, PCs
<1>12. CASE Refused
  BY <1>1, <1>3, <1>4, <1>5, <1>12, RefusedQuiet, Zenon DEF Outcomes
<1>13. CASE WalkAttr
  BY <1>1, <1>3, <1>4, <1>5, <1>13, WalkAttrQuiet, Zenon DEF Outcomes
<1>14. CASE Follow
  <2>1. pc = "follow" /\ UNCHANGED <<to, banner>>
        /\ \/ pc' = "done" /\ out' \in {"reached", "notplaylist", "nosegment"}
           \/ pc' = "prepare" /\ UNCHANGED out
    BY <1>14, FollowIs, Zenon
  <2> QED
    BY <1>1, <1>4, <1>5, <2>1, Zenon DEF Outcomes, PCs
<1>15. CASE Done \/ UNCHANGED vars
  BY <1>1, <1>3, <1>4, <1>5, <1>15, StutterQuiet, Zenon
<1> QED
  BY <1>6, <1>7, <1>8, <1>9, <1>10, <1>11, <1>12, <1>13, <1>14, <1>15, Zenon DEF Next

\* The text of the entry and of the variant is a playlist.
LEMMA FollowStage ==
  ASSUME SetupInv, Follow
  PROVE  /\ cmd = "hls" /\ via.role \in {"entry", "variant", "segment"} /\ out = "none"
         /\ via.role = "entry" => Len(dialled) = 1 /\ IsPlaylist(detail[1])
         /\ via.role = "variant" => Len(dialled) = 2 /\ IsPlaylist(detail[2]) /\ Master(detail)
         /\ Len(dialled) = Before(detail, via.role) + 1
<1>1. pc = "follow" /\ Staged /\ Given /\ out = "none"
  BY FollowIs, Zenon DEF SetupInv, TypeOK
<1>2. /\ cmd = "hls" /\ Len(dialled) = Before(detail, via.role) + 1
      /\ via.role \in {"entry", "variant", "segment"} /\ (via.role = "variant" => Master(detail))
  BY <1>1, Zenon DEF Staged
<1>3. IsPlaylist(detail[1]) /\ IsPlaylist(detail[2])
  BY <1>1, <1>2, Zenon DEF Given
<1>4. 0 + 1 = 1 /\ 1 + 1 = 2
  OBVIOUS
<1>5. /\ via.role = "entry" => Before(detail, via.role) = 0
      /\ via.role = "variant" => Before(detail, via.role) = 1
  BY Zenon DEF Before
<1> QED
  BY <1>1, <1>2, <1>3, <1>4, <1>5, Zenon

\* The next URL is what a reference of the text at hand says.
LEMMA FollowLed ==
  ASSUME SetupInv, Follow, pc' = "prepare"
  PROVE  Led(url, url', via'.ref)
<1>1. PICK text : text = detail[Len(dialled)]
  OBVIOUS
<1>2. IsPlaylist(text) \/ via.role = "segment"
  BY <1>1, FollowStage, Zenon
<1>3. PICK tag \in {"#EXT-X-STREAM-INF", "#EXTINF"}, role \in {"variant", "segment"} :
        /\ via.role # "segment" /\ FirstAfter(text, tag).kind # "none"
        /\ url' = resolve_relative(url, FirstAfter(text, tag))
        /\ via' = Fetch(role, FirstAfter(text, tag))
  <2> DEFINE v == first_variant_url(text)
             s == first_segment_url(text)
  <2>1. /\ via.role # "segment"
        /\ \/ v.kind # "none" /\ url' = resolve_relative(url, v) /\ via' = Fetch("variant", v)
           \/ s.kind # "none" /\ url' = resolve_relative(url, s) /\ via' = Fetch("segment", s)
    BY <1>1, FollowIs, Zenon
  <2>2. v = FirstAfter(text, "#EXT-X-STREAM-INF") /\ s = FirstAfter(text, "#EXTINF")
    BY Zenon DEF first_variant_url, first_segment_url
  <2> HIDE DEF v, s
  <2> QED
    BY <2>1, <2>2, Zenon
<1>4. PICK r : r = FirstAfter(text, tag)
  OBVIOUS
<1>5. via'.ref = r
  BY <1>3, <1>4 DEF Fetch
<1>6. tag # ""
  BY <1>3, Zenon
<1>7. IsRef(r)
  BY <1>2, <1>3, <1>4, <1>6, FirstAfterRef, Zenon
<1> QED
  BY <1>3, <1>4, <1>5, <1>7, Zenon DEF Led

LEMMA AimedKept ==
  ASSUME SetupInv, [Next]_vars
  PROVE  Aimed'
<1>0. UNCHANGED <<front, cmd, target, detail, answers>>
  BY InputKept
<1>1. /\ IsTarget(url) /\ (pc \in {"encode", "dial"} => to = Endpoint(cmd, url) /\ to.does = "dial")
  BY Zenon DEF SetupInv, Aimed
<1>2. ASSUME Quiet, UNCHANGED to, pc' \in {"encode", "dial"} => pc \in {"encode", "dial"}
      PROVE  Aimed'
  <2>1. UNCHANGED url
    BY <1>2, Zenon DEF Quiet
  <2> QED
    BY <1>0, <1>1, <1>2, <2>1, Zenon DEF Aimed
<1>3. CASE LookUp \/ Tool
  <2>1. Quiet /\ UNCHANGED to
    BY <1>3, LookUpQuiet, ToolQuiet, Zenon
  <2>2. pc' \in {"prepare", "done"}
    BY <1>3, Zenon DEF LookUp, Tool, Finish
  <2> QED
    BY <1>2, <2>1, <2>2, Zenon
<1>4. CASE Prepare
  <2>1. UNCHANGED url
    BY <1>4, PrepareQuiet, Zenon DEF Quiet
  <2>2. \/ pc' = "done"
        \/ to' = Endpoint(cmd, url) /\ to'.does = "dial"
    BY <1>4, PrepareQuiet, Zenon
  <2> QED
    BY <1>0, <1>1, <2>1, <2>2, Zenon DEF Aimed
<1>5. CASE EncodeLabel \/ EncodeEnd \/ Refused \/ WalkAttr \/ Done \/ UNCHANGED vars
  <2>1. Quiet /\ UNCHANGED to
    BY <1>5, EncodeLabelQuiet, EncodeEndQuiet, RefusedQuiet, WalkAttrQuiet, StutterQuiet, Zenon
  <2>2. pc # "prepare" \/ UNCHANGED pc
    BY <1>5, Zenon DEF EncodeLabel, EncodeEnd, Refused, WalkAttr, Done, vars
  <2>3. pc' \in {"encode", "dial"} => pc \in {"encode", "dial"}
    BY <2>1, <2>2, Zenon DEF Quiet
  <2> QED
    BY <1>2, <2>1, <2>3, Zenon
<1>6. CASE \E fam \in {"v4", "v6"} : Dial(fam)
  <2>1. UNCHANGED url /\ pc' \in {"walk", "follow", "done"}
    BY <1>6, DialIs, Zenon
  <2> QED
    BY <1>1, <2>1, Zenon DEF Aimed
<1>7. CASE Follow
  <2>1. pc' \in {"done", "prepare"} /\ (pc' = "done" => UNCHANGED url)
    BY <1>7, FollowIs, Zenon
  <2>2. IsTarget(url')
    <3>1. CASE pc' = "done"
      BY <1>1, <2>1, <3>1, Zenon
    <3>2. CASE pc' = "prepare"
      BY <1>1, <1>7, <3>2, FollowLed, RelativeTyped, Zenon DEF Led
    <3> QED
      BY <2>1, <3>1, <3>2, Zenon
  <2> QED
    BY <2>1, <2>2, Zenon DEF Aimed
<1> QED
  BY <1>3, <1>4, <1>5, <1>6, <1>7, Zenon DEF Next

LEMMA HopIs ==
  ASSUME NEW fam, NEW d, d = Hop(fam)
  PROVE  /\ d.url = url /\ d.via = via /\ d.tls = to.tls
         /\ d.addr.host = to.host /\ d.addr.port = to.port /\ d.addr.fam = fam
BY DEF Hop

LEMMA HopsKept ==
  ASSUME SetupInv, [Next]_vars
  PROVE  Hops'
<1>0. UNCHANGED <<front, cmd, target, detail, answers>>
  BY InputKept
<1>1. /\ dialled \in Seq(Range(dialled))
      /\ \A i \in 1..Len(dialled) : Hopped(cmd, dialled[i])
  BY Zenon DEF SetupInv, Hops
<1>2. CASE UNCHANGED dialled
  BY <1>0, <1>1, <1>2, Zenon DEF Hops
<1>3. CASE \E fam \in {"v4", "v6"} : Dial(fam)
  <2>1. PICK fam \in {"v4", "v6"} : Dial(fam)
    BY <1>3, Zenon
  <2>2. PICK d : d = Hop(fam)
    OBVIOUS
  <2>3. pc = "dial" /\ fam \in Reachable(to) /\ dialled' = Append(dialled, d)
    BY <2>1, <2>2, DialIs, Zenon
  <2>4. to = Endpoint(cmd, url) /\ to.does = "dial" /\ IsTarget(url)
    BY <2>3, Zenon DEF SetupInv, Aimed
  <2>6. /\ d.url = url /\ d.tls = to.tls
        /\ d.addr.host = to.host /\ d.addr.port = to.port /\ d.addr.fam = fam
    BY <2>2, HopIs
  <2>7. Hopped(cmd, d)
    BY <2>4, <2>6, Zenon DEF Hopped
  <2>8. /\ dialled' \in Seq(Range(dialled')) /\ Len(dialled) \in Nat /\ Len(dialled') = Len(dialled) + 1
        /\ \A i \in 1..Len(dialled) : dialled'[i] = dialled[i]
        /\ dialled'[Len(dialled')] = d
    <3>1. Lengthened(dialled, d, dialled')
      BY <1>1, <2>3, HistoryGrows, Zenon
    <3> QED
      BY <3>1, Zenon DEF Lengthened
  <2>9. ASSUME NEW i \in 1..Len(dialled') PROVE Hopped(cmd, dialled'[i])
    <3>1. i \in 1..Len(dialled) \/ i = Len(dialled')
      BY <2>8
    <3> QED
      BY <1>1, <2>7, <2>8, <3>1, Zenon
  <2> QED
    BY <1>0, <2>8, <2>9, Zenon DEF Hops
<1>4. CASE Follow
  BY <1>2, <1>4, FollowIs, Zenon
<1>5. CASE Quiet
  BY <1>2, <1>5, Zenon DEF Quiet
<1> QED
  BY <1>3, <1>4, <1>5, LookUpQuiet, ToolQuiet, PrepareQuiet, EncodeLabelQuiet, EncodeEndQuiet,
     RefusedQuiet, WalkAttrQuiet, StutterQuiet, Zenon DEF Next

LEMMA FetchIs ==
  ASSUME NEW f, NEW role, NEW ref, f = Fetch(role, ref)
  PROVE  f.role = role /\ f.ref = ref
BY DEF Fetch

LEMMA StagedKept ==
  ASSUME SetupInv, [Next]_vars
  PROVE  Staged'
<1>0. UNCHANGED <<front, cmd, target, detail, answers>>
  BY InputKept
<1>1. Staged /\ Hops /\ (pc = "done" <=> out # "none")
  BY Zenon DEF SetupInv, TypeOK
<1>2. CASE Quiet
  <2>1. UNCHANGED <<url, via, dialled>>
    BY <1>2, Zenon DEF Quiet
  <2>2. /\ pc' = "follow" => pc = "follow"
        /\ pc' \in {"start", "prepare", "encode", "dial"} => pc \in {"start", "prepare", "encode", "dial"}
        /\ cmd = "hls" => pc' \notin {"encode", "walk"}
        /\ cmd = "hls" /\ out' = "reached" => out = "reached"
    BY <1>1, <1>2, Zenon DEF Quiet, Staged
  <2> QED
    BY <1>0, <1>1, <2>1, <2>2, Zenon DEF Staged
<1>3. CASE \E fam \in {"v4", "v6"} : Dial(fam)
  <2>1. PICK fam \in {"v4", "v6"} : Dial(fam)
    BY <1>3, Zenon
  <2>2. PICK d : d = Hop(fam)
    OBVIOUS
  <2>3. /\ pc = "dial" /\ dialled' = Append(dialled, d) /\ UNCHANGED via
        /\ \/ cmd = "turn" /\ pc' = "walk" /\ UNCHANGED out
           \/ cmd = "hls" /\ pc' = "follow" /\ UNCHANGED out
           \/ cmd \notin {"turn", "hls"} /\ pc' = "done" /\ out' = "reached"
    BY <2>1, <2>2, DialIs, Zenon
  <2>4. Lengthened(dialled, d, dialled')
    BY <1>1, <2>3, HistoryGrows, Zenon DEF Hops
  <2>5. Len(dialled') = Before(detail, via.role) + 1
    BY <1>1, <2>3, <2>4, Zenon DEF Staged, Lengthened
  <2>6. cmd = "hls" => out' = "none"
    BY <1>1, <2>3, Zenon
  <2>7. pc' \notin {"start", "prepare", "encode", "dial"} /\ (pc' = "follow" => cmd = "hls")
        /\ (cmd = "hls" => pc' \notin {"encode", "walk"})
    BY <2>3, Zenon
  <2> QED
    BY <1>0, <1>1, <2>3, <2>5, <2>6, <2>7, Zenon DEF Staged
<1>4. CASE Follow
  <2>1. /\ cmd = "hls" /\ out = "none" /\ via.role \in {"entry", "variant", "segment"}
        /\ via.role = "entry" => Len(dialled) = 1
        /\ via.role = "variant" => Len(dialled) = 2 /\ Master(detail)
        /\ Len(dialled) = Before(detail, via.role) + 1
    BY <1>4, FollowStage, Zenon
  <2>2. PICK text : text = detail[Len(dialled)]
    OBVIOUS
  <2>3. UNCHANGED dialled
    BY <1>4, FollowIs, Zenon
  <2>4. CASE pc' = "done" /\ UNCHANGED via /\ (out' = "reached" => via.role = "segment")
    BY <1>0, <1>1, <2>1, <2>3, <2>4, Zenon DEF Staged
  <2>5. CASE /\ pc' = "prepare" /\ UNCHANGED out /\ via.role = "entry"
             /\ first_variant_url(text).kind # "none"
             /\ via' = Fetch("variant", first_variant_url(text))
    <3>1. via'.role = "variant" /\ Len(dialled) = 1 /\ Master(detail)
      BY <2>1, <2>2, <2>5, FetchIs, Zenon DEF Master
    <3>2. Len(dialled) = Before(detail, via'.role)
      BY <3>1, Zenon DEF Before
    <3> QED
      BY <1>0, <2>1, <2>3, <2>5, <3>1, <3>2, Zenon DEF Staged
  <2>6. CASE /\ pc' = "prepare" /\ UNCHANGED out /\ via.role # "segment"
             /\ via.role = "entry" => first_variant_url(text).kind = "none"
             /\ first_segment_url(text).kind # "none"
             /\ via' = Fetch("segment", first_segment_url(text))
    <3>1. via'.role = "segment" /\ via'.ref = first_segment_url(text)
      <4>1. via' = Fetch("segment", first_segment_url(text))
        BY <2>6, Zenon
      <4> QED
        BY <4>1, FetchIs
    <3>4. Len(dialled) = Before(detail, "segment")
      <4>1. via.role = "entry" => Len(dialled) = 1 /\ ~Master(detail)
        BY <2>1, <2>2, <2>6, Zenon DEF Master
      <4>2. via.role = "variant" => Len(dialled) = 2 /\ Master(detail)
        BY <2>1, Zenon
      <4> QED
        BY <2>1, <2>6, <4>1, <4>2, Zenon DEF Before
    <3> QED
      BY <1>0, <2>1, <2>2, <2>3, <2>6, <3>1, <3>4, Zenon DEF Staged
  <2> QED
    BY <1>4, <2>2, <2>4, <2>5, <2>6, FollowIs, Zenon
<1> QED
  BY <1>2, <1>3, <1>4, LookUpQuiet, ToolQuiet, PrepareQuiet, EncodeLabelQuiet, EncodeEndQuiet,
     RefusedQuiet, WalkAttrQuiet, StutterQuiet, Zenon DEF Next

LEMMA ChainedKept ==
  ASSUME SetupInv, [Next]_vars
  PROVE  Chained'
<1>0. UNCHANGED <<front, cmd, target, detail, answers>>
  BY InputKept
<1>1. Chained /\ Staged /\ Hops /\ (pc = "done" <=> out # "none")
  BY Zenon DEF SetupInv, TypeOK
<1>2. CASE Quiet
  <2>1. UNCHANGED <<url, via, dialled>>
    BY <1>2, Zenon DEF Quiet
  <2>2. /\ pc' = "follow" => pc = "follow"
        /\ pc' \in {"start", "prepare", "encode", "dial"} => pc \in {"start", "prepare", "encode", "dial"}
        /\ cmd = "hls" /\ out' = "reached" => out = "reached"
    BY <1>1, <1>2, Zenon DEF Quiet, Staged
  <2> QED
    BY <1>0, <1>1, <2>1, <2>2, Zenon DEF Chained
<1>3. CASE \E fam \in {"v4", "v6"} : Dial(fam)
  <2>1. PICK fam \in {"v4", "v6"} : Dial(fam)
    BY <1>3, Zenon
  <2>2. PICK d : d = Hop(fam)
    OBVIOUS
  <2>3. /\ pc = "dial" /\ dialled' = Append(dialled, d) /\ UNCHANGED <<via, url>>
        /\ pc' \in {"walk", "follow", "done"}
    BY <2>1, <2>2, DialIs, Zenon
  <2>4. Lengthened(dialled, d, dialled') /\ d.url = url /\ d.via = via
    <3>1. d.url = url /\ d.via = via
      BY <2>2, HopIs
    <3> QED
      BY <1>1, <2>3, <3>1, HistoryGrows, Zenon DEF Hops
  <2>5. dialled'[Len(dialled')].url = url /\ dialled'[Len(dialled')].via = via
    BY <2>4, Zenon DEF Lengthened
  <2>6. ASSUME NEW i \in 2..Len(dialled'), cmd = "hls"
        PROVE  Led(dialled'[i - 1].url, dialled'[i].url, dialled'[i].via.ref)
    <3>1. Len(dialled) \in Nat /\ Len(dialled') = Len(dialled) + 1
      BY <2>4, Zenon DEF Lengthened
    <3>2. i - 1 \in 1..Len(dialled) /\ (i \in 2..Len(dialled) \/ i = Len(dialled'))
           /\ (i \in 2..Len(dialled) => i \in 1..Len(dialled))
           /\ (i = Len(dialled') => i - 1 = Len(dialled) /\ Len(dialled) # 0)
      BY <2>6, <3>1
    <3>3. dialled'[i - 1] = dialled[i - 1]
      BY <2>4, <3>2, Zenon DEF Lengthened
    <3>4. CASE i \in 2..Len(dialled)
      BY <1>1, <2>4, <2>6, <3>2, <3>3, <3>4, Zenon DEF Lengthened, Chained
    <3>5. CASE i = Len(dialled')
      <4>1. dialled # <<>>
        BY <3>2, <3>5, EmptySeq, Zenon
      <4>2. Led(dialled[Len(dialled)].url, url, via.ref)
        BY <1>1, <2>3, <4>1, Zenon DEF Chained
      <4>3. dialled'[i].url = url /\ dialled'[i].via = via
        BY <2>5, <3>5, Zenon
      <4> QED
        BY <3>2, <3>3, <3>5, <4>2, <4>3, Zenon
    <3> QED
      BY <3>2, <3>4, <3>5, Zenon
  <2> QED
    BY <1>0, <2>3, <2>5, <2>6, Zenon DEF Chained
<1>4. CASE Follow
  <2>1. cmd = "hls" /\ Len(dialled) = Before(detail, via.role) + 1
    BY <1>4, FollowStage, Zenon
  <2>2. pc = "follow" /\ UNCHANGED dialled
    BY <1>4, FollowIs, Zenon
  <2>3. dialled[Len(dialled)].url = url /\ dialled[Len(dialled)].via = via
    BY <1>1, <2>2, Zenon DEF Chained
  <2>4. CASE pc' = "done" /\ UNCHANGED <<url, via>>
    BY <1>0, <1>1, <2>2, <2>3, <2>4, Zenon DEF Chained
  <2>5. CASE pc' = "prepare" /\ UNCHANGED out
    <3>1. dialled # <<>>
      <4>1. Before(detail, via.role) \in {0, 1, 2}
        BY Zenon DEF Before
      <4>2. Len(dialled) # 0
        BY <2>1, <4>1
      <4> QED
        BY <4>2, EmptySeq, Zenon
    <3>2. Led(url, url', via'.ref)
      BY <1>4, <2>5, FollowLed, Zenon
    <3>3. out' = "none"
      BY <1>1, <2>2, <2>5, Zenon
    <3> QED
      BY <1>0, <1>1, <2>1, <2>2, <2>3, <2>5, <3>1, <3>2, <3>3, Zenon DEF Chained
  <2> QED
    BY <1>4, <2>4, <2>5, FollowIs, Zenon
<1> QED
  BY <1>2, <1>3, <1>4, LookUpQuiet, ToolQuiet, PrepareQuiet, EncodeLabelQuiet, EncodeEndQuiet,
     RefusedQuiet, WalkAttrQuiet, StutterQuiet, Zenon DEF Next

LEMMA SetupInvariant == Spec => []SetupInv
<1>1. SetupInv /\ [Next]_vars => SetupInv'
  BY GivenKept, TypeKept, AimedKept, HopsKept, StagedKept, ChainedKept, Zenon DEF SetupInv
<1> QED
  BY <1>1, InitInv, PTL DEF Spec

\* Every variable of a ping keeps its type, and the ports are of 16 bits, for
\* all targets, names, answers and playlists.
THEOREM SetupTypeCorrect == Spec => []TypeOK
<1>1. SetupInv => TypeOK
  BY Zenon DEF SetupInv
<1> QED
  BY <1>1, SetupInvariant, PTL

\* Every pinger dials the port its target or its playlist names, if it is one.
THEOREM PortCorrect == Spec => []PortAsAsked
<1>1. SetupInv => PortAsAsked
  <2> SUFFICES ASSUME SetupInv, NEW i \in 1..Len(dialled),
                      dialled[i].url.port.n \in U16, dialled[i].url.port.n # 0
               PROVE  dialled[i].addr.port = dialled[i].url.port.n
    BY Zenon DEF PortAsAsked
  <2>1. Given /\ Hopped(cmd, dialled[i])
    BY Zenon DEF SetupInv, Hops
  <2> QED
    BY <2>1, DialPort, Zenon DEF Hopped
<1> QED
  BY <1>1, SetupInvariant, PTL

\* The scheme a relative reference gets is of the playlist's kind, plain or TLS.
LEMMA SameServer ==
  ASSUME NEW was, NEW is, is.host = was.host, is.port = was.port,
         is.scheme = (IF was.scheme = "" THEN "http" ELSE was.scheme),
         Endpoint("hls", was).does = "dial", Endpoint("hls", is).does = "dial"
  PROVE  Endpoint("hls", is) = Endpoint("hls", was)
<1> DEFINE plain == {"", "http"}
           secure == {"https"}
<1>1. /\ Endpoint("hls", was) = ByScheme(was, plain, HttpPort, secure, TlsPort)
      /\ Endpoint("hls", is) = ByScheme(is, plain, HttpPort, secure, TlsPort)
  BY EndpointIs, TwoDefaultsAre
<1>2. to_ascii_lowercase(is.scheme) \in plain <=> to_ascii_lowercase(was.scheme) \in plain
  <2>1. CASE was.scheme = ""
    BY <2>1, LowerIs, Zenon
  <2>2. CASE was.scheme # ""
    BY <2>2, Zenon
  <2> QED
    BY <2>1, <2>2, Zenon
<1> HIDE DEF plain, secure
<1>3. CASE to_ascii_lowercase(was.scheme) \in plain
  <2>1. Endpoint("hls", was) = Verdict("dial", was.host, port_or(was.port.n, HttpPort), FALSE)
    BY <1>1, <1>3, ByPlainScheme, Zenon
  <2>2. Endpoint("hls", is) = Verdict("dial", is.host, port_or(is.port.n, HttpPort), FALSE)
    BY <1>1, <1>2, <1>3, ByPlainScheme, ZenonT(40)
  <2> QED
    BY <2>1, <2>2, Zenon
<1>4. CASE to_ascii_lowercase(was.scheme) \notin plain
  <2>1. Endpoint("hls", was) = Verdict("dial", was.host, port_or(was.port.n, TlsPort), TRUE)
    BY <1>1, <1>4, BySecureScheme, Zenon
  <2>2. Endpoint("hls", is) = Verdict("dial", is.host, port_or(is.port.n, TlsPort), TRUE)
    BY <1>1, <1>2, <1>4, BySecureScheme, Zenon
  <2> QED
    BY <2>1, <2>2, Zenon
<1> QED
  BY <1>3, <1>4, Zenon

\* What a relative reference becomes.
LEMMA RelativeIs ==
  ASSUME NEW base, IsTarget(base), NEW ref, IsRef(ref), ref.kind # "absolute",
         NEW is, is = resolve_relative(base, ref)
  PROVE  /\ is.host = base.host /\ is.port = base.port
         /\ is.scheme = (IF base.scheme = "" THEN "http" ELSE base.scheme)
         /\ ref.kind = "sibling" /\ base.path # <<>>
              => Front(is.path) = Front(base.path) \o Front(ref.path)
<1> DEFINE s == IF base.scheme = "" THEN "http" ELSE base.scheme
           p == IF ref.kind = "rooted" \/ base.path = <<>> THEN ref.path
                ELSE Front(base.path) \o ref.path
<1>1. is = Target(s, FALSE, base.host, base.port, p)
  BY Zenon DEF resolve_relative
<1>2. is.host = base.host /\ is.port = base.port /\ is.scheme = s /\ is.path = p
  <2> HIDE DEF s, p
  <2> QED
    BY <1>1 DEF Target
<1>3. ASSUME ref.kind = "sibling", base.path # <<>>
      PROVE  Front(p) = Front(base.path) \o Front(ref.path)
  <2> DEFINE S == STRING
  <2>1. base.path \in Seq(S) /\ ref.path \in Seq(S) /\ ref.path # <<>>
    BY <1>3, Zenon DEF IsTarget, IsRef
  <2>2. p = Front(base.path) \o ref.path
    BY <1>3, Zenon
  <2> HIDE DEF S, p
  <2>3. Front(base.path) \in Seq(S)
    BY <1>3, <2>1, FrontIs, Zenon
  <2> QED
    BY <2>1, <2>2, <2>3, FrontOfConcat, Zenon
<1> HIDE DEF p
<1> QED
  BY <1>2, <1>3, Zenon

\* A relative reference stays on the playlist's server, port and scheme, and
\* in its directory, for playlists of any length and paths of any depth.
THEOREM RelativeCorrect == Spec => []RelativeStaysHome
<1>1. SetupInv => RelativeStaysHome
  <2> SUFFICES ASSUME SetupInv, cmd = "hls", NEW i \in 2..Len(dialled),
                      dialled[i].via.ref.kind # "absolute"
               PROVE  LET was == dialled[i - 1]
                          is == dialled[i]
                      IN  /\ is.addr.host = was.addr.host /\ is.addr.port = was.addr.port
                          /\ is.tls = was.tls
                          /\ is.via.ref.kind = "sibling" /\ was.url.path # <<>>
                               => Front(is.url.path) = Front(was.url.path) \o Front(is.via.ref.path)
    BY Zenon DEF RelativeStaysHome
  <2>1. PICK was, is : was = dialled[i - 1] /\ is = dialled[i]
    OBVIOUS
  <2>2. i \in 1..Len(dialled) /\ i - 1 \in 1..Len(dialled)
    <3>1. Len(dialled) \in Nat
      BY LenProperties, Zenon DEF SetupInv, Hops
    <3> QED
      BY <3>1
  <2>3. Hopped(cmd, was) /\ Hopped(cmd, is)
    BY <2>1, <2>2, Zenon DEF SetupInv, Hops
  <2>4. Led(was.url, is.url, is.via.ref)
    BY <2>1, Zenon DEF SetupInv, Chained
  <2>5. IsTarget(was.url) /\ IsRef(is.via.ref) /\ is.url = resolve_relative(was.url, is.via.ref)
    BY <2>3, <2>4, Zenon DEF Hopped, Led
  <2>6. is.via.ref.kind # "absolute"
    BY <2>1, Zenon
  <2>7. /\ is.url.host = was.url.host /\ is.url.port = was.url.port
        /\ is.url.scheme = (IF was.url.scheme = "" THEN "http" ELSE was.url.scheme)
        /\ is.via.ref.kind = "sibling" /\ was.url.path # <<>>
             => Front(is.url.path) = Front(was.url.path) \o Front(is.via.ref.path)
    <3>1. PICK base, next, ref : base = was.url /\ next = is.url /\ ref = is.via.ref
      OBVIOUS
    <3>2. /\ next.host = base.host /\ next.port = base.port
          /\ next.scheme = (IF base.scheme = "" THEN "http" ELSE base.scheme)
          /\ ref.kind = "sibling" /\ base.path # <<>>
               => Front(next.path) = Front(base.path) \o Front(ref.path)
      <4>1. IsTarget(base) /\ IsRef(ref) /\ ref.kind # "absolute" /\ next = resolve_relative(base, ref)
        BY <2>5, <2>6, <3>1, Zenon
      <4> QED
        BY <4>1, RelativeIs, ZenonT(40)
    <3> QED
      BY <3>1, <3>2, Zenon
  <2>8. Endpoint("hls", was.url).does = "dial" /\ Endpoint("hls", is.url).does = "dial"
    BY <2>3, Zenon DEF Hopped
  <2>9. Endpoint("hls", is.url) = Endpoint("hls", was.url)
    BY <2>7, <2>8, SameServer, Zenon
  <2>10. is.addr.host = was.addr.host /\ is.addr.port = was.addr.port /\ is.tls = was.tls
    BY <2>3, <2>9, Zenon DEF Hopped
  <2> QED
    BY <2>1, <2>7, <2>10, Zenon
<1> QED
  BY <1>1, SetupInvariant, PTL

\* A stream that is reached was walked in full, to the segment its media
\* playlist names, for playlists of any length.
THEOREM SegmentCorrect == Spec => []HlsReachesSegment
<1>1. SetupInv => HlsReachesSegment
  <2> SUFFICES ASSUME SetupInv, cmd = "hls", out = "reached"
               PROVE  HlsReachesSegment
    BY Zenon DEF HlsReachesSegment
  <2>1. PICK n, media, ref : /\ n = Len(dialled) /\ media = detail[n - 1]
                             /\ ref = dialled[n].via.ref
    OBVIOUS
  <2>2. via.role = "segment" /\ n = Before(detail, "segment") + 1
    BY <2>1, Zenon DEF SetupInv, Staged
  <2>3. n - 1 = Before(detail, "segment") /\ n = IF Master(detail) THEN 3 ELSE 2
    BY <2>2 DEF Before
  <2>4. /\ ref = via.ref /\ ref.kind # "none"
        /\ ref = first_segment_url(detail[Before(detail, "segment")])
    BY <2>1, <2>2, Zenon DEF SetupInv, Staged, Chained
  <2>5. IsPlaylist(media)
    <3>1. n - 1 = 1 \/ n - 1 = 2
      BY <2>3
    <3> QED
      BY <2>1, <3>1, Zenon DEF SetupInv, Given
  <2>6. ref = FirstAfter(media, "#EXTINF")
    BY <2>1, <2>3, <2>4, Zenon DEF first_segment_url
  <2>7. \E i \in 2..Len(media) :
           /\ media[i].ref = ref
           /\ \E j \in 1..(i - 1) : /\ media[j].tag = "#EXTINF"
                                    /\ \A k \in j..(i - 1) : media[k].tag # ""
    <3>1. "#EXTINF" # "" /\ FirstAfter(media, "#EXTINF").kind # "none"
      BY <2>4, <2>6, Zenon
    <3> QED
      BY <2>5, <2>6, <3>1, FirstAfterIs, Zenon
  <2> DEFINE Walked(len, text, at) ==
               /\ len = IF Master(detail) THEN 3 ELSE 2
               /\ \E i \in 2..Len(text) :
                    /\ text[i].ref = at
                    /\ \E j \in 1..(i - 1) : /\ text[j].tag = "#EXTINF"
                                             /\ \A k \in j..(i - 1) : text[k].tag # ""
  <2>8. Walked(n, media, ref)
    BY <2>3, <2>7, Zenon
  <2>9. Walked(Len(dialled), detail[Len(dialled) - 1], dialled[Len(dialled)].via.ref) => HlsReachesSegment
    BY Zenon DEF HlsReachesSegment, Master
  <2> HIDE DEF Walked
  <2> QED
    BY <2>1, <2>8, <2>9, Zenon
<1> QED
  BY <1>1, SetupInvariant, PTL

----------------------------------------------------------------------------
(* The banner *)


LEMMA LookupsAre ==
  ASSUME NEW e
  PROVE  Addresses(e) = Lookups(e, answers)
BY Zenon DEF Addresses, Lookups, lookup_host

LEMMA AnnouncedKept ==
  ASSUME SetupInv, Announced, [Next]_vars
  PROVE  Announced'
<1>0. UNCHANGED <<front, cmd, target, detail, answers>>
  BY InputKept
<1>1. ASSUME UNCHANGED banner, pc' \notin {"start", "done"} => pc \notin {"start", "done"},
             pc' = "start" => pc = "start" /\ UNCHANGED dialled
      PROVE  Announced'
  BY <1>0, <1>1, Zenon DEF Announced
<1>2. CASE LookUp
  <2>1. PICK b : b = Banner(cmd, target)
    OBVIOUS
  <2>2. CASE b.does = "panic"
    BY <1>2, <2>1, <2>2, Zenon DEF LookUp, Finish, Announced
  <2>3. CASE b.does # "panic"
    <3>1. banner' = IF b.does = "dial" THEN Lookups(b, answers) ELSE {}
      BY <1>2, <2>1, <2>3, LookupsAre, Zenon DEF LookUp
    <3>2. ~get_uri(target).panics
      <4>1. Panic.does = "panic"
        BY DEF Panic, Verdict
      <4> QED
        BY <2>1, <2>3, <4>1, Zenon DEF Banner
    <3> QED
      BY <1>0, <1>2, <2>1, <2>3, <3>1, <3>2, Zenon DEF Announced, LookUp
  <2> QED
    BY <2>2, <2>3, Zenon
<1>3. CASE Tool
  BY <1>0, <1>3, Zenon DEF Tool, Announced
<1>4. CASE Prepare
  BY <1>1, <1>4, PrepareQuiet, Zenon
<1>5. CASE EncodeLabel \/ EncodeEnd \/ Refused \/ WalkAttr
  <2>1. UNCHANGED banner /\ pc \notin {"start", "done"} /\ pc' # "start"
    BY <1>5, EncodeLabelQuiet, EncodeEndQuiet, RefusedQuiet, WalkAttrQuiet, Zenon
       DEF Quiet, EncodeLabel, EncodeEnd, Refused, WalkAttr
  <2> QED
    BY <1>1, <2>1, Zenon
<1>6. CASE \E fam \in {"v4", "v6"} : Dial(fam)
  <2>1. UNCHANGED banner /\ pc = "dial" /\ pc' # "start"
    BY <1>6, DialIs, Zenon
  <2> QED
    BY <1>1, <2>1, Zenon
<1>7. CASE Follow
  <2>1. UNCHANGED banner /\ pc = "follow" /\ pc' # "start"
    BY <1>7, FollowIs, Zenon
  <2> QED
    BY <1>1, <2>1, Zenon
<1>8. CASE Done \/ UNCHANGED vars
  BY <1>1, <1>8, Zenon DEF Done, vars
<1> QED
  BY <1>2, <1>3, <1>4, <1>5, <1>6, <1>7, <1>8, Zenon DEF Next

LEMMA BannerKept ==
  ASSUME SetupInv, Announced, BannerIsDialled, [Next]_vars
  PROVE  BannerIsDialled'
<1>0. UNCHANGED <<front, cmd, target, detail, answers>>
  BY InputKept
<1>1. CASE UNCHANGED <<dialled, banner>>
  BY <1>0, <1>1, Zenon DEF BannerIsDialled, BannerGuesses
<1>2. CASE \E fam \in {"v4", "v6"} : Dial(fam)
  <2> SUFFICES ASSUME front = "cli", ~BannerGuesses
               PROVE  dialled'[1].addr \in banner'
    BY <1>0, Zenon DEF BannerIsDialled, BannerGuesses
  <2>1. PICK fam \in {"v4", "v6"} : Dial(fam)
    BY <1>2, Zenon
  <2>2. PICK d : d = Hop(fam)
    OBVIOUS
  <2>3. /\ pc = "dial" /\ fam \in Reachable(to) /\ dialled' = Append(dialled, d)
        /\ UNCHANGED banner
    BY <2>1, <2>2, DialIs, Zenon
  <2>4. Lengthened(dialled, d, dialled')
    BY <2>3, HistoryGrows, Zenon DEF SetupInv, Hops
  <2>5. CASE dialled # <<>>
    <3>1. 1 \in 1..Len(dialled)
      <4>1. Len(dialled) \in Nat \ {0}
        BY <2>5, EmptySeq, Zenon DEF SetupInv, Hops
      <4> QED
        BY <4>1
    <3>2. dialled'[1] = dialled[1]
      BY <2>4, <3>1, Zenon DEF Lengthened
    <3> QED
      BY <2>3, <2>5, <3>2, Zenon DEF BannerIsDialled
  <2>6. CASE dialled = <<>>
    <3>1. dialled'[1] = d
      <4>1. Len(dialled) = 0 /\ 0 + 1 = 1
        BY <2>6, EmptySeq
      <4> QED
        BY <2>4, <4>1, Zenon DEF Lengthened
    <3>2. url = target /\ to = Endpoint(cmd, target) /\ to.does = "dial"
      BY <2>3, <2>6, Zenon DEF SetupInv, Chained, Aimed
    <3>3. /\ target.port \in PortText /\ cmd \in AllCommands /\ ~get_uri(target).panics
          /\ answers \in Seq({"v4", "v6"})
          /\ banner = IF Banner(cmd, target).does = "dial" THEN Lookups(Banner(cmd, target), answers)
                      ELSE {}
      BY <2>3, SetupAssumption, Zenon DEF SetupInv, Given, Announced, IsTarget, AllCommands
    <3>4. to.port # 0 /\ fam \in Range(lookup_host(to.host))
      BY <2>3, <3>3, ReachableIs, Zenon
    <3>5. ~(cmd = "tls" /\ Guesses(target))
      BY Zenon DEF BannerGuesses, Guesses
    <3>6. Meets(cmd, target)
      BY <3>2, <3>3, <3>4, <3>5, BannerMeets, Zenon
    <3>7. PICK port, tls : /\ to = Verdict("dial", target.host, port, tls)
                           /\ Banner(cmd, target) = Verdict("dial", target.host, port, FALSE)
      BY <3>2, <3>6, Zenon DEF Meets
    <3>8. PICK b : b = Banner(cmd, target)
      OBVIOUS
    <3>9. b.does = "dial" /\ b.host = to.host /\ b.port = to.port
      BY <3>7, <3>8 DEF Verdict
    <3>10. banner = Addresses(b)
      BY <3>3, <3>8, <3>9, LookupsAre, Zenon
    <3>11. d.addr = [host |-> to.host, port |-> to.port, fam |-> fam]
      BY <2>2 DEF Hop
    <3>12. d.addr = [host |-> b.host, port |-> b.port, fam |-> fam]
      BY <3>9, <3>11, Zenon
    <3>13. d.addr \in Addresses(b)
      BY <3>4, <3>9, <3>12, Zenon DEF Addresses
    <3> QED
      BY <2>3, <3>1, <3>10, <3>13, Zenon
  <2> QED
    BY <2>5, <2>6, Zenon
<1>3. CASE Follow
  BY <1>1, <1>3, FollowIs, Zenon
<1>4. CASE LookUp
  <2>1. pc = "start" /\ UNCHANGED dialled
    BY <1>4, Zenon DEF LookUp
  <2>2. dialled = <<>>
    BY <2>1, Zenon DEF Announced
  <2> QED
    BY <2>1, <2>2, Zenon DEF BannerIsDialled
<1>5. CASE Quiet /\ UNCHANGED banner
  BY <1>1, <1>5, Zenon DEF Quiet
<1> QED
  BY <1>2, <1>3, <1>4, <1>5, ToolQuiet, PrepareQuiet, EncodeLabelQuiet, EncodeEndQuiet,
     RefusedQuiet, WalkAttrQuiet, StutterQuiet, Zenon DEF Next

\* The banner names the address that is dialled first, for every subcommand
\* and every target but those where TlsPinger's banner guesses.
THEOREM BannerCorrect == Spec => []BannerIsDialled
<1>1. Init => Announced /\ BannerIsDialled
  BY Zenon DEF Init, Announced, BannerIsDialled
<1>2. SetupInv /\ Announced /\ BannerIsDialled /\ [Next]_vars => Announced' /\ BannerIsDialled'
  BY AnnouncedKept, BannerKept, Zenon
<1> QED
  BY <1>1, <1>2, SetupInvariant, PTL DEF Spec

----------------------------------------------------------------------------
(* A name and its encoding *)

\* What the labels take, each with its length in front.
Widths(labels) == [i \in 1..Len(labels) |-> labels[i] + 1]

\* Where a label begins, less one.
Lead(labels) == Running(Widths(labels))

\* The first k labels lie one after the other in the bytes.
Laid(labels, k, bytes) ==
  /\ bytes \in Seq(Nat) /\ Len(bytes) >= Lead(labels)[k]
  /\ \A i \in 1..k : labels[i] \in 1..MaxLabel /\ bytes[Lead(labels)[i - 1] + 1] = labels[i]

\* ... and nothing else does.
Encoded(labels, k, bytes) == Laid(labels, k, bytes) /\ Len(bytes) = Lead(labels)[k]

LEMMA LeadIs ==
  ASSUME NEW labels \in Seq(Nat)
  PROVE  /\ Widths(labels) \in Seq(Nat) /\ Len(Widths(labels)) = Len(labels)
         /\ Lead(labels)[0] = 0
         /\ \A k \in 0..Len(labels) : Lead(labels)[k] \in Nat
         /\ \A k \in 1..Len(labels) : Lead(labels)[k] = Lead(labels)[k - 1] + (labels[k] + 1)
<1> DEFINE w == Widths(labels)
<1>1. w \in Seq(Nat) /\ Len(w) = Len(labels) /\ \A k \in 1..Len(labels) : w[k] = labels[k] + 1
  BY DEF Widths
<1> HIDE DEF w
<1>2. Sums(Running(w), w)
  BY <1>1, RunningIs, Zenon
<1> QED
  BY <1>1, <1>2 DEF Sums, w, Lead

LEMMA LeadUp ==
  ASSUME NEW labels \in Seq(Nat), NEW i \in 0..Len(labels), NEW j \in i..Len(labels)
  PROVE  Lead(labels)[i] <= Lead(labels)[j]
<1>1. Widths(labels) \in Seq(Nat) /\ Len(Widths(labels)) = Len(labels)
  BY LeadIs
<1> QED
  BY <1>1, RunningUp, Zenon DEF Lead

LEMMA Joined ==
  ASSUME NEW S, NEW s \in Seq(S), NEW t \in Seq(S)
  PROVE  /\ \A i \in 1..Len(s) : (s \o t)[i] = s[i]
         /\ \A i \in 1..Len(t) : (s \o t)[Len(s) + i] = t[i]
OBVIOUS

LEMMA LaidNext ==
  ASSUME NEW labels \in Seq(Nat), NEW k \in 0..(Len(labels) - 1), NEW bytes, Encoded(labels, k, bytes),
         labels[k + 1] \in 1..MaxLabel
  PROVE  Encoded(labels, k + 1, bytes \o Label(labels[k + 1]))
<1> DEFINE n == labels[k + 1]
           lab == Label(n)
           off == Lead(labels)
           all == bytes \o lab
<1>0. n \in Nat /\ n >= 1 /\ k + 1 \in 1..Len(labels) /\ (k + 1) - 1 = k /\ k \in Nat
      /\ k \in 0..Len(labels)
  BY SetupAssumption DEF SetupAssumption
<1>1. lab \in Seq(Nat) /\ Len(lab) = n + 1 /\ lab[1] = n
  <2> HIDE DEF n
  <2> QED
    BY <1>0 DEF Label
<1>2. off[k] \in Nat /\ off[k + 1] = off[k] + (n + 1) /\ bytes \in Seq(Nat) /\ Len(bytes) = off[k]
  BY <1>0, LeadIs, Zenon DEF Encoded, Laid
<1> HIDE DEF lab, n, off
<1>3. all \in Seq(Nat) /\ Len(all) = off[k + 1]
  <2>1. all \in Seq(Nat) /\ Len(all) = Len(bytes) + Len(lab)
    BY <1>1, <1>2, ConcatProperties, Zenon
  <2> QED
    BY <1>0, <1>1, <1>2, <2>1
<1>7. \A x \in 1..Len(lab) : (bytes \o lab)[Len(bytes) + x] = lab[x]
  <2>1. bytes \in Seq(Nat) /\ lab \in Seq(Nat)
    BY <1>1, <1>2
  <2> QED
    BY <2>1, Joined
<1>4. ASSUME NEW i \in 1..(k + 1) PROVE labels[i] \in 1..MaxLabel /\ all[off[i - 1] + 1] = labels[i]
  <2>1. CASE i = k + 1
    <3>1. i - 1 = k
      BY <1>0, <2>1
    <3>2. all[Len(bytes) + 1] = lab[1]
      <4>1. 1 \in 1..Len(lab)
        BY <1>0, <1>1
      <4> QED
        BY <4>1, <1>7
    <3> QED
      BY <1>1, <1>2, <2>1, <3>1, <3>2, Zenon DEF n
  <2>2. CASE i # k + 1
    <3>1. i \in 1..k /\ i \in 1..Len(labels) /\ i \in 0..Len(labels) /\ k \in i..Len(labels)
          /\ i - 1 \in 0..Len(labels)
      BY <1>0, <2>2
    <3>2. labels[i] \in 1..MaxLabel /\ bytes[off[i - 1] + 1] = labels[i]
      BY <3>1, Zenon DEF Encoded, Laid, off
    <3>3. off[i] = off[i - 1] + (labels[i] + 1) /\ off[i - 1] \in Nat /\ off[i] \in Nat
      BY <3>1, LeadIs, Zenon DEF off
    <3>4. off[i] <= off[k]
      BY <3>1, LeadUp, Zenon DEF off
    <3> labels[i] \in Nat
      BY <3>1
    <3>5. off[i - 1] + 1 \in 1..Len(bytes)
      <4>1. \A a, b, c, x \in Nat : b = a + (x + 1) /\ b <= c => a + 1 \in 1..c
        OBVIOUS
      <4> QED
        BY <1>2, <3>3, <3>4, <4>1, ZenonT(40)
    <3> QED
      BY <1>1, <1>2, <3>2, <3>5, Joined, ZenonT(40)
  <2> QED
    BY <2>1, <2>2, Zenon
<1>5. Len(all) >= off[k + 1]
  BY <1>2, <1>3, <1>0
<1>6. Laid(labels, k + 1, all)
  BY <1>3, <1>4, <1>5, Zenon DEF Laid, off
<1> QED
  BY <1>3, <1>6, Zenon DEF Encoded, off, lab, n

\* What the server reads from byte i on, if f is what it reads from later ones.
Reads(f, i, bytes) ==
  IF i > Len(bytes) \/ bytes[i] = 0 THEN <<>>
  ELSE IF bytes[i] > MaxLabel \/ i + bytes[i] + 1 > Len(bytes) THEN <<-1>>
  ELSE <<bytes[i]>> \o f[i + bytes[i] + 1]

LEMMA ReadsSame ==
  ASSUME NEW bytes \in Seq(Nat), NEW i \in 1..(Len(bytes) + 1), NEW f, NEW g,
         \A j \in (i + 1)..(Len(bytes) + 1) : f[j] = g[j]
  PROVE  Reads(f, i, bytes) = Reads(g, i, bytes)
<1>1. CASE i > Len(bytes) \/ bytes[i] = 0
  BY <1>1, Zenon DEF Reads
<1>2. CASE ~(i > Len(bytes) \/ bytes[i] = 0)
  <2>1. i \in 1..Len(bytes) /\ bytes[i] \in Nat
    BY <1>2
  <2>2. CASE bytes[i] > MaxLabel \/ i + bytes[i] + 1 > Len(bytes)
    BY <1>2, <2>2, Zenon DEF Reads
  <2>3. CASE ~(bytes[i] > MaxLabel \/ i + bytes[i] + 1 > Len(bytes))
    <3>1. i + bytes[i] + 1 \in (i + 1)..(Len(bytes) + 1)
      BY <2>1, <2>3, SMTT(30)
    <3> QED
      BY <1>2, <2>3, <3>1, Zenon DEF Reads
  <2> QED
    BY <2>2, <2>3, Zenon
<1> QED
  BY <1>1, <1>2, Zenon

\* The recursion of Decoded goes forward in the bytes, so it is well founded.
LEMMA ReadsExist ==
  ASSUME NEW bytes \in Seq(Nat)
  PROVE  \E f : f = [i \in 1..(Len(bytes) + 1) |-> Reads(f, i, bytes)]
<1> DEFINE N == Len(bytes) + 1
           Good(f, d) == /\ f = [i \in 1..N |-> f[i]]
                         /\ \A i \in 1..N : i > N - d => f[i] = Reads(f, i, bytes)
           S == {d \in Nat : \E f : Good(f, d)}
<1>0. N \in Nat
  OBVIOUS
<1>1. 0 \in S
  <2> DEFINE f == [i \in 1..N |-> 0]
  <2>1. \A i \in 1..N : ~(i > N - 0)
    BY <1>0
  <2>2. f = [i \in 1..N |-> f[i]]
    OBVIOUS
  <2>3. Good(f, 0)
    BY <2>1, <2>2, Zenon
  <2> QED
    BY <2>3
<1>2. ASSUME NEW d \in Nat, d \in S PROVE d + 1 \in S
  <2>1. PICK f : Good(f, d)
    BY <1>2
  <2> DEFINE g == [i \in 1..N |-> IF i = N - d THEN Reads(f, i, bytes) ELSE f[i]]
  <2>2. g = [i \in 1..N |-> g[i]]
    OBVIOUS
  <2>3. ASSUME NEW i \in 1..N, i > N - (d + 1) PROVE g[i] = Reads(g, i, bytes)
    <3>1. \A j \in (i + 1)..N : j \in 1..N /\ j # N - d
      BY <1>0, <2>3
    <3>2. \A j \in (i + 1)..(Len(bytes) + 1) : f[j] = g[j]
      BY <3>1, Zenon
    <3>3. Reads(f, i, bytes) = Reads(g, i, bytes)
      <4> HIDE DEF g
      <4>1. i \in 1..(Len(bytes) + 1)
        OBVIOUS
      <4> QED
        BY <3>2, <4>1, ReadsSame, Zenon
    <3>4. i = N - d \/ i > N - d
      BY <1>0, <2>3
    <3>5. CASE i = N - d
      BY <3>3, <3>5, Zenon
    <3>6. CASE i # N - d
      <4>1. f[i] = Reads(f, i, bytes)
        BY <2>1, <3>4, <3>6, Zenon
      <4> QED
        BY <3>3, <3>6, <4>1, Zenon
    <3> QED
      BY <3>5, <3>6, Zenon
  <2>4. Good(g, d + 1)
    BY <2>2, <2>3, Zenon
  <2>5. d + 1 \in Nat
    OBVIOUS
  <2> QED
    BY <2>4, <2>5, Zenon
<1>3. \A d \in Nat : d \in S
  <2> HIDE DEF S
  <2> QED
    BY <1>1, <1>2, Induct, Zenon
<1>4. PICK f : Good(f, N)
  BY <1>0, <1>3, Zenon
<1>5. \A i \in 1..N : i > N - N
  BY <1>0
<1>6. \A i \in 1..N : f[i] = Reads(f, i, bytes)
  BY <1>4, <1>5, Zenon
<1>7. f = [i \in 1..N |-> Reads(f, i, bytes)]
  BY <1>4, <1>6, Zenon
<1> QED
  BY <1>7, Zenon

\* What the labels of an encoding are followed by.
Closed(labels, bytes) ==
  /\ Laid(labels, Len(labels), bytes) /\ Len(bytes) = Lead(labels)[Len(labels)] + 1
  /\ bytes[Len(bytes)] = 0

LEMMA DecodedIs ==
  ASSUME NEW labels \in Seq(Nat), NEW bytes, Closed(labels, bytes)
  PROVE  Decoded(bytes) = labels
<1> DEFINE m == Len(labels)
           off == Lead(labels)
           R == CHOOSE f : f = [i \in 1..(Len(bytes) + 1) |-> Reads(f, i, bytes)]
<1>0. /\ bytes \in Seq(Nat) /\ Len(bytes) = off[m] + 1 /\ bytes[off[m] + 1] = 0
      /\ m \in Nat
  <2>1. m \in Nat
    OBVIOUS
  <2> QED
    BY <2>1, Zenon DEF Closed, Laid
<1>1. R = [i \in 1..(Len(bytes) + 1) |-> Reads(R, i, bytes)]
  BY <1>0, ReadsExist, Zenon
<1>2. Decoded(bytes) = R[1]
  BY DEF Decoded, Reads
<1> HIDE DEF R
<1>3. /\ off[0] = 0 /\ \A k \in 0..m : off[k] \in Nat
      /\ \A k \in 1..m : off[k] = off[k - 1] + (labels[k] + 1)
  BY LeadIs, Zenon
<1>4. \A k \in 1..m : labels[k] \in 1..MaxLabel /\ bytes[off[k - 1] + 1] = labels[k]
  BY Zenon DEF Closed, Laid
<1>5. \A k \in 0..m : off[k] <= off[m]
  <2> TAKE k \in 0..m
  <2>1. m \in k..m
    BY <1>0
  <2> QED
    BY <2>1, LeadUp, Zenon
<1> HIDE DEF off
<1> DEFINE S == {d \in Nat : d <= m => R[off[m - d] + 1] = SubSeq(labels, (m - d) + 1, m)}
<1>6. 0 \in S
  <2>1. off[m] \in Nat /\ m - 0 = m /\ off[m] + 1 \in 1..(Len(bytes) + 1)
    <3>1. off[m] \in Nat
      BY <1>0, <1>3
    <3> QED
      BY <1>0, <3>1
  <2>2. R[off[m] + 1] = Reads(R, off[m] + 1, bytes)
    BY <1>1, <2>1, Zenon
  <2>3. Reads(R, off[m] + 1, bytes) = <<>>
    BY <1>0, Zenon DEF Reads
  <2>4. SubSeq(labels, m + 1, m) = <<>>
    BY <1>0, SubSeqEmpty
  <2> QED
    BY <2>1, <2>2, <2>3, <2>4, Zenon
<1>7. ASSUME NEW d \in Nat, d \in S PROVE d + 1 \in S
  <2> SUFFICES ASSUME d + 1 <= m
               PROVE  R[off[m - (d + 1)] + 1] = SubSeq(labels, (m - (d + 1)) + 1, m)
    <3>1. d + 1 \in Nat
      OBVIOUS
    <3> QED
      BY <3>1, Zenon
  <2>0. PICK k : k = m - d
    OBVIOUS
  <2>1. k \in 1..m /\ k - 1 = m - (d + 1) /\ (m - (d + 1)) + 1 = k /\ d <= m /\ k \in 0..m
        /\ k - 1 \in 0..m /\ m \in k..m
    BY <1>0, <2>0
  <2>2. R[off[k] + 1] = SubSeq(labels, k + 1, m)
    BY <1>7, <2>0, <2>1, Zenon
  <2>3. PICK i : i = off[k - 1] + 1
    OBVIOUS
  <2>4. /\ bytes[i] = labels[k] /\ labels[k] \in 1..MaxLabel /\ labels[k] \in Nat
        /\ off[k] = off[k - 1] + (labels[k] + 1) /\ off[k - 1] \in Nat /\ off[k] \in Nat
        /\ off[k] <= off[m] /\ off[m] \in Nat
    <3>1. labels[k] \in Nat /\ m \in 0..m
      BY <1>0, <2>1, SMTT(30)
    <3> QED
      BY <1>3, <1>4, <1>5, <2>1, <2>3, <3>1, Zenon
  <2>5. /\ i + bytes[i] + 1 = off[k] + 1 /\ i \in 1..(Len(bytes) + 1)
        /\ ~(i > Len(bytes)) /\ bytes[i] # 0
        /\ ~(bytes[i] > MaxLabel \/ i + bytes[i] + 1 > Len(bytes))
    <3>1. MaxLabel \in Nat
      BY SetupAssumption, Zenon DEF SetupAssumption
    <3>2. Len(bytes) \in Nat
      BY <1>0
    <3>3. PICK a \in Nat, x \in Nat, b \in Nat, c \in Nat, n \in Nat :
            a = off[k - 1] /\ x = labels[k] /\ b = off[k] /\ c = off[m] /\ n = Len(bytes)
      BY <2>4, <3>2, Zenon
    <3>4. /\ i = a + 1 /\ bytes[i] = x /\ x \in 1..MaxLabel /\ b = a + (x + 1)
          /\ n = c + 1 /\ b <= c
      BY <1>0, <2>3, <2>4, <3>3, Zenon
    <3>5. /\ (a + 1) + x + 1 = b + 1 /\ a + 1 \in 1..(n + 1) /\ ~(a + 1 > n) /\ x # 0
          /\ ~(x > MaxLabel) /\ ~((a + 1) + x + 1 > n)
      BY <3>1, <3>4
    <3> QED
      BY <3>3, <3>4, <3>5, Zenon
  <2>6. R[i] = Reads(R, i, bytes)
    BY <1>1, <2>5, Zenon
  <2>7. Reads(R, i, bytes) = <<labels[k]>> \o R[off[k] + 1]
    BY <2>4, <2>5, Zenon DEF Reads
  <2>8. SubSeq(labels, k, m) = <<labels[k]>> \o SubSeq(labels, k + 1, m)
    BY <2>1, SubSeqRecursiveFirst, Zenon
  <2> QED
    BY <2>1, <2>2, <2>3, <2>6, <2>7, <2>8, Zenon
<1>8. \A d \in Nat : d \in S
  <2> HIDE DEF S
  <2> QED
    BY <1>6, <1>7, Induct, Zenon
<1>9. R[off[m - m] + 1] = SubSeq(labels, (m - m) + 1, m) /\ m - m = 0
  BY <1>0, <1>8
<1>10. SubSeq(labels, 1, m) = labels
  BY SubSeqFull, Zenon
<1> QED
  BY <1>2, <1>3, <1>9, <1>10

LEMMA ClosedNext ==
  ASSUME NEW labels \in Seq(Nat), NEW bytes, Encoded(labels, Len(labels), bytes)
  PROVE  /\ Closed(labels, Append(bytes, 0))
         /\ Len(Append(bytes, 0)) = Total(Widths(labels)) + 1
<1> DEFINE m == Len(labels)
           all == Append(bytes, 0)
           off == Lead(labels)
<1>0. m \in Nat /\ m \in 0..m
  OBVIOUS
<1>1. bytes \in Seq(Nat) /\ Len(bytes) = off[m] /\ off[m] \in Nat
  BY <1>0, LeadIs, Zenon DEF Encoded, Laid
<1>2. /\ all \in Seq(Nat) /\ Len(all) = off[m] + 1 /\ all[Len(all)] = 0
      /\ \A x \in 1..off[m] : all[x] = bytes[x]
  <2>1. /\ all \in Seq(Nat) /\ Len(all) = Len(bytes) + 1 /\ all[Len(all)] = 0
        /\ \A x \in 1..Len(bytes) : all[x] = bytes[x]
    <3>1. bytes \in Seq(Nat)
      BY <1>1
    <3> QED
      BY <3>1
  <2> QED
    BY <1>1, <2>1, Zenon
<1>3. ASSUME NEW i \in 1..m PROVE labels[i] \in 1..MaxLabel /\ all[off[i - 1] + 1] = labels[i]
  <2>1. i \in 0..m /\ i - 1 \in 0..m /\ m \in i..m /\ labels[i] \in Nat
    BY <1>0
  <2>2. labels[i] \in 1..MaxLabel /\ bytes[off[i - 1] + 1] = labels[i]
    BY Zenon DEF Encoded, Laid
  <2>3. /\ off[i] = off[i - 1] + (labels[i] + 1) /\ off[i - 1] \in Nat /\ off[i] \in Nat
        /\ off[i] <= off[m]
    BY <2>1, LeadIs, LeadUp, Zenon
  <2>4. off[i - 1] + 1 \in 1..off[m]
    <3> HIDE DEF off
    <3>1. \A a, b, c, x \in Nat : b = a + (x + 1) /\ b <= c => a + 1 \in 1..c
      OBVIOUS
    <3> QED
      BY <1>1, <2>1, <2>3, <3>1, Zenon
  <2> QED
    BY <1>2, <2>2, <2>4, Zenon
<1>4. Len(all) >= off[m]
  BY <1>1, <1>2
<1>5. Closed(labels, all)
  BY <1>2, <1>3, <1>4, Zenon DEF Closed, Laid
<1>6. Total(Widths(labels)) = off[m]
  BY LeadIs, Zenon DEF Total, Lead
<1> QED
  BY <1>2, <1>5, <1>6, Zenon

LEMMA ClosedLegal ==
  ASSUME NEW labels \in Seq(Nat), NEW bytes, Closed(labels, bytes), Len(bytes) <= MaxName
  PROVE  WithinLimits(labels)
<1>1. Total(Widths(labels)) = Lead(labels)[Len(labels)]
  BY LeadIs, Zenon DEF Total, Lead
<1>2. Len(bytes) = Total(Widths(labels)) + 1
  BY <1>1, Zenon DEF Closed
<1>3. \A i \in 1..Len(labels) : labels[i] \in 1..MaxLabel
  BY Zenon DEF Closed, Laid
<1>4. Total(Widths(labels)) + 1 <= MaxName
  BY <1>2, Zenon
<1> QED
  BY <1>3, <1>4, Zenon DEF WithinLimits, Widths

LEMMA TrimmedTyped ==
  ASSUME NEW labels \in Seq(Nat)
  PROVE  Trimmed(labels) \in Seq(Nat)
<1> DEFINE full == {i \in 1..Len(labels) : labels[i] > 0}
<1>1. CASE full = {}
  BY <1>1 DEF Trimmed
<1>2. CASE full # {}
  <2>1. full \subseteq 1..Len(labels) /\ Len(labels) \in Nat
    OBVIOUS
  <2> HIDE DEF full
  <2>2. Max(full) \in full
    BY <1>2, <2>1, MaxIs, Zenon
  <2>3. PICK x \in 1..Len(labels) : x = Max(full)
    BY <2>1, <2>2, Zenon
  <2>4. SubSeq(labels, 1, x) \in Seq(Nat)
    OBVIOUS
  <2>5. Trimmed(labels) = SubSeq(labels, 1, Max(full))
    BY <1>2, Zenon DEF Trimmed, full
  <2> QED
    BY <2>3, <2>4, <2>5, Zenon
<1> QED
  BY <1>1, <1>2, Zenon

LEMMA EmptyIsNot == ~WithinLimits(Trimmed(<<0>>))
<1>1. {i \in 1..Len(<<0>>) : <<0>>[i] > 0} = {}
  OBVIOUS
<1>2. Trimmed(<<0>>) = <<0>>
  BY <1>1, Zenon DEF Trimmed
<1>3. 1 \in 1..Len(<<0>>) /\ <<0>>[1] = 0
  OBVIOUS
<1>4. 0 \notin 1..MaxLabel
  BY SetupAssumption DEF SetupAssumption
<1> QED
  BY <1>2, <1>3, <1>4, Zenon DEF WithinLimits

----------------------------------------------------------------------------
(* The encoding of the question *)

\* The labels that are done lie in the name, the others are left to do.
Named(l, p, n, r, o) ==
  /\ p \in {"start", "prepare"} => n = <<>>
  /\ p = "encode" => \E k \in 0..Len(l) : r = SubSeq(l, k + 1, Len(l)) /\ Encoded(l, k, n)
  /\ p = "dial" => Closed(l, n) /\ Len(n) <= MaxName
  /\ o = "badname" => ~WithinLimits(l)

NameInv == cmd = "dns" => detail \in Seq(Nat) /\ Named(Trimmed(detail), pc, name, rest, out)

LEMMA NameInit == Init => NameInv
<1> SUFFICES ASSUME Init, cmd = "dns" PROVE NameInv
  BY Zenon DEF NameInv
<1>1. PICK job \in JobsOf(cmd) : target = job.target /\ detail = job.detail
  BY Zenon DEF Init
<1>2. detail \in Seq(Nat)
  BY <1>1, SetupAssumption, Zenon DEF Init, SetupAssumption
<1>3. pc = "start" /\ name = <<>> /\ out = "none"
  BY Zenon DEF Init
<1> QED
  BY <1>2, <1>3, Zenon DEF NameInv, Named

LEMMA NameEncode ==
  ASSUME NEW l \in Seq(Nat), l = Trimmed(detail), EncodeLabel, Named(l, pc, name, rest, out)
  PROVE  Named(l, pc', name', rest', out')
<1> DEFINE m == Len(l)
<1>1. PICK k \in 0..m : rest = SubSeq(l, k + 1, m) /\ Encoded(l, k, name)
  BY Zenon DEF EncodeLabel, Named
<1>2. pc = "encode" /\ rest # <<>>
  BY Zenon DEF EncodeLabel
<1>3. k # m
  <2>1. m \in Nat /\ m < m + 1 /\ m + 1 \in Int /\ m \in Int
    OBVIOUS
  <2>2. SubSeq(l, m + 1, m) = <<>>
    BY <2>1, SubSeqEmpty, Zenon
  <2> QED
    BY <1>1, <1>2, <2>2, Zenon
<1>4. k \in 0..(m - 1) /\ k + 1 \in 1..m /\ m \in (k + 1)..m /\ k + 1 \in 0..m
  BY <1>3
<1>5. Head(rest) = l[k + 1] /\ Tail(rest) = SubSeq(l, (k + 1) + 1, m)
  BY <1>1, <1>4, HeadTailOfSubSeq, Zenon
<1>6. CASE Head(rest) \in 1..MaxLabel
  <2>1. name' = name \o Label(Head(rest)) /\ rest' = Tail(rest) /\ UNCHANGED <<pc, out>>
    BY <1>6, Zenon DEF EncodeLabel
  <2>2. Encoded(l, k + 1, name \o Label(l[k + 1]))
    BY <1>1, <1>4, <1>5, <1>6, LaidNext, Zenon
  <2> QED
    BY <1>2, <1>4, <1>5, <2>1, <2>2, Zenon DEF Named
<1>7. CASE Head(rest) \notin 1..MaxLabel
  <2>1. pc' = "done" /\ out' = "badname"
    BY <1>7, Zenon DEF EncodeLabel, Finish
  <2>2. ~WithinLimits(l)
    BY <1>4, <1>5, <1>7, Zenon DEF WithinLimits
  <2> QED
    BY <2>1, <2>2, Zenon DEF Named
<1> QED
  BY <1>6, <1>7, Zenon

LEMMA NameEnd ==
  ASSUME NEW l \in Seq(Nat), l = Trimmed(detail), EncodeEnd, Named(l, pc, name, rest, out),
         out = "none"
  PROVE  Named(l, pc', name', rest', out')
<1> DEFINE m == Len(l)
<1>1. PICK k \in 0..m : rest = SubSeq(l, k + 1, m) /\ Encoded(l, k, name)
  BY Zenon DEF EncodeEnd, Named
<1>2. pc = "encode" /\ rest = <<>> /\ name' = Append(name, 0)
  BY Zenon DEF EncodeEnd
<1>3. k = m
  BY <1>1, <1>2
<1>4. Closed(l, name') /\ Len(name') = Total(Widths(l)) + 1
  BY <1>1, <1>2, <1>3, ClosedNext, Zenon
<1>5. name' \in Seq(Nat) /\ Len(name') \in Nat /\ MaxName \in Nat
  <2>1. name' \in Seq(Nat)
    BY <1>4, Zenon DEF Closed, Laid
  <2> QED
    BY <2>1, SetupAssumption DEF SetupAssumption
<1>6. CASE Len(name') > MaxName
  <2>1. pc' = "done" /\ out' = "badname"
    BY <1>6, Zenon DEF EncodeEnd, Finish
  <2>2. ~(Len(name') <= MaxName)
    BY <1>5, <1>6
  <2>3. ~WithinLimits(l)
    BY <1>4, <2>2, Zenon DEF WithinLimits, Widths
  <2> QED
    BY <2>1, <2>3, Zenon DEF Named
<1>7. CASE ~(Len(name') > MaxName)
  <2>1. pc' = "dial" /\ UNCHANGED out
    BY <1>7, Zenon DEF EncodeEnd
  <2>2. Len(name') <= MaxName
    BY <1>5, <1>7
  <2> QED
    BY <1>4, <2>1, <2>2, Zenon DEF Named
<1> QED
  BY <1>6, <1>7, Zenon

LEMMA NamePrepare ==
  ASSUME NEW l \in Seq(Nat), l = Trimmed(detail), cmd = "dns", Prepare,
         Named(l, pc, name, rest, out), out = "none"
  PROVE  Named(l, pc', name', rest', out')
<1> DEFINE e == Endpoint(cmd, url)
<1>0. pc = "prepare" /\ name = <<>> /\ name' = name
  BY Zenon DEF Prepare, Named
<1>1. CASE detail = <<0>>
  <2>1. pc' = "done" /\ out' = "badname"
    BY <1>1, Zenon DEF Prepare, Finish
  <2>2. ~WithinLimits(l)
    BY <1>1, EmptyIsNot, Zenon
  <2> QED
    BY <2>1, <2>2, Zenon DEF Named
<1>2. CASE detail # <<0>> /\ e.does \in {"err", "panic", "unknown"}
  <2>1. pc' = "done" /\ out' = (IF e.does = "err" THEN "badtarget" ELSE e.does)
    BY <1>2, Zenon DEF Prepare, Finish
  <2>2. out' # "badname"
    BY <1>2, <2>1, Zenon
  <2> QED
    BY <2>1, <2>2, Zenon DEF Named
<1>3. CASE detail # <<0>> /\ e.does = "dial"
  <2>1. pc' = "encode" /\ rest' = l /\ UNCHANGED out
    BY <1>3, Zenon DEF Prepare
  <2>2. 0 \in 0..Len(l) /\ l = SubSeq(l, 0 + 1, Len(l))
    OBVIOUS
  <2>3. Encoded(l, 0, <<>>)
    <3>1. <<>> \in Seq(Nat) /\ Len(<<>>) = 0 /\ 1..0 = {} /\ 0 >= 0
      OBVIOUS
    <3>2. Lead(l)[0] = 0
      BY LeadIs, Zenon
    <3> QED
      BY <3>1, <3>2, Zenon DEF Encoded, Laid
  <2> QED
    BY <1>0, <2>1, <2>2, <2>3, Zenon DEF Named
<1>4. detail = <<0>> \/ e.does \in {"err", "panic", "unknown", "dial"}
  BY Zenon DEF Prepare
<1> QED
  BY <1>1, <1>2, <1>3, <1>4, Zenon

LEMMA NameKept ==
  ASSUME SetupInv, NameInv, [Next]_vars
  PROVE  NameInv'
<1>0. detail' = detail /\ cmd' = cmd
  BY InputKept, Zenon
<1> SUFFICES ASSUME cmd = "dns" PROVE NameInv'
  BY <1>0, Zenon DEF NameInv
<1>1. PICK l \in Seq(Nat) : l = Trimmed(detail) /\ Named(l, pc, name, rest, out)
  BY TrimmedTyped, Zenon DEF NameInv
<1>2. detail \in Seq(Nat) /\ Trimmed(detail') = l /\ detail' \in Seq(Nat)
  BY <1>0, <1>1, Zenon DEF NameInv
<1> SUFFICES Named(l, pc', name', rest', out')
  BY <1>2, Zenon DEF NameInv
<1>3. pc # "done" => out = "none"
  BY Zenon DEF SetupInv, TypeOK
<1>4. CASE LookUp
  <2>1. pc = "start" /\ name' = name
    BY <1>4, Zenon DEF LookUp
  <2>2. pc' \in {"prepare", "done"} /\ out' \in {out, "panic"}
    BY <1>4, <2>1, Zenon DEF LookUp, Finish
  <2> QED
    BY <1>1, <1>3, <2>1, <2>2, Zenon DEF Named
<1>5. CASE Tool
  <2>1. pc = "start" /\ pc' = "prepare" /\ name' = name /\ out' = out
    BY <1>5, Zenon DEF Tool
  <2> QED
    BY <1>1, <2>1, Zenon DEF Named
<1>6. CASE Prepare
  <2>1. out = "none"
    BY <1>3, <1>6, Zenon DEF Prepare
  <2> QED
    BY <1>1, <1>6, <2>1, NamePrepare, Zenon
<1>7. CASE EncodeLabel
  BY <1>1, <1>7, NameEncode, Zenon
<1>8. CASE EncodeEnd
  <2>1. out = "none"
    BY <1>3, <1>8, Zenon DEF EncodeEnd
  <2> QED
    BY <1>1, <1>8, <2>1, NameEnd, Zenon
<1>9. CASE \E fam \in {"v4", "v6"} : Dial(fam)
  <2>1. pc' = "done" /\ out' = "reached"
    BY <1>9, DialIs, Zenon
  <2> QED
    BY <2>1, Zenon DEF Named
<1>10. CASE Refused
  <2>1. pc' = "done" /\ out' = "unreachable"
    BY <1>10, Zenon DEF Refused, Finish
  <2> QED
    BY <2>1, Zenon DEF Named
<1>11. CASE WalkAttr
  <2>1. pc = "walk" /\ out = "none"
    BY <1>3, <1>11, Zenon DEF WalkAttr
  <2>2. pc' \in {"walk", "done"} /\ out' # "badname"
    BY <1>11, <2>1, WalkAttrQuiet, Zenon DEF Quiet
  <2> QED
    BY <2>2, Zenon DEF Named
<1>12. CASE Follow
  <2>1. pc = "follow"
    BY <1>12, Zenon DEF Follow
  <2> QED
    BY <2>1, Zenon DEF SetupInv, Staged
<1>13. CASE Done \/ UNCHANGED vars
  <2>1. UNCHANGED <<pc, name, rest, out>>
    BY <1>13, Zenon DEF Done, vars
  <2> QED
    BY <1>1, <2>1, Zenon
<1> QED
  BY <1>4, <1>5, <1>6, <1>7, <1>8, <1>9, <1>10, <1>11, <1>12, <1>13, Zenon DEF Next

\* encode_name loses nothing: a server that reads the question finds the name
\* that was asked for, and what is refused, the root apart, breaks a limit of
\* RFC 1035, for names of any number of labels.
THEOREM NameCorrect == Spec => []NameRoundTrips
<1>1. NameInv => NameRoundTrips
  <2> SUFFICES ASSUME NameInv, cmd = "dns"
               PROVE  /\ pc = "dial" => Decoded(name) = Trimmed(detail) /\ LegalName(detail)
                      /\ out = "badname" => detail = Root \/ ~LegalName(detail)
    BY Zenon DEF NameRoundTrips
  <2>1. Trimmed(detail) \in Seq(Nat)
    BY TrimmedTyped, Zenon DEF NameInv
  <2>2. ASSUME pc = "dial" PROVE Closed(Trimmed(detail), name) /\ Len(name) <= MaxName
    BY <2>2, Zenon DEF NameInv, Named
  <2>3. out = "badname" => ~WithinLimits(Trimmed(detail))
    BY Zenon DEF NameInv, Named
  <2> QED
    BY <2>1, <2>2, <2>3, DecodedIs, ClosedLegal, Zenon DEF LegalName
<1>2. SetupInv /\ NameInv /\ [Next]_vars => NameInv'
  BY NameKept
<1> QED
  BY <1>1, <1>2, NameInit, SetupInvariant, PTL DEF Spec

----------------------------------------------------------------------------
(* The bytes of a TURN answer *)

LEMMA PaddedIs ==
  ASSUME NEW n \in Nat
  PROVE  Padded(n) \in Nat /\ Padded(n) >= n /\ Padded(4 + n) = 4 + Padded(n)
<1>1. PICK q \in Nat : q = (n + 3) \div 4
  OBVIOUS
<1>2. 4 * q >= n
  BY <1>1
<1>3. ((4 + n) + 3) \div 4 = q + 1
  BY <1>1
<1> QED
  BY <1>1, <1>2, <1>3 DEF Padded

\* The fields of an attribute where find_error_code looks for them.
Fields(a, b) ==
  /\ b \in Seq(Octet) /\ Len(b) = 4 + Padded(a.len)
  /\ b[1] = 0 /\ b[2] = a.type /\ b[3] = 0 /\ b[4] = a.len
  /\ a.len >= 4 => b[7] = a.class /\ b[8] = a.number

LEMMA AttributeIs ==
  ASSUME NEW a \in AttributeShape
  PROVE  Fields(a, Attribute(a))
<1> DEFINE p == Padded(a.len)
           v(i) == CASE i = 3 /\ i <= a.len -> a.class
                     [] i = 4 /\ i <= a.len -> a.number
                     [] OTHER -> 0
           tail == [i \in 1..p |-> v(i)]
           head == <<0, a.type, 0, a.len>>
<1>1. a.type \in Octet /\ a.len \in Octet /\ a.class \in Octet /\ a.number \in Octet /\ 0 \in Octet
  BY DEF AttributeShape, Octet
<1>2. a.len \in Nat
  BY <1>1 DEF Octet
<1>3. p \in Nat /\ p >= a.len
  BY <1>2, PaddedIs
<1> HIDE DEF p
<1>4. \A i \in 1..p : v(i) \in Octet
  BY <1>1
<1>5. a.len >= 4 => v(3) = a.class /\ v(4) = a.number
  BY <1>2
<1> HIDE DEF v
<1>6. tail \in Seq(Octet) /\ Len(tail) = p
  BY <1>3, <1>4
<1>7. a.len >= 4 => 3 \in 1..p /\ 4 \in 1..p
  BY <1>2, <1>3
<1>8. a.len >= 4 => tail[3] = a.class /\ tail[4] = a.number
  BY <1>5, <1>7, Zenon
<1>9. head \in Seq(Octet) /\ Len(head) = 4
      /\ head[1] = 0 /\ head[2] = a.type /\ head[3] = 0 /\ head[4] = a.len
  <2>1. PICK t \in Octet, l \in Octet : t = a.type /\ l = a.len
    BY <1>1, Zenon
  <2>2. PICK h : h = <<0, t, 0, l>>
    OBVIOUS
  <2>3. h \in Seq(Octet) /\ Len(h) = 4 /\ h[1] = 0 /\ h[2] = t /\ h[3] = 0 /\ h[4] = l
    BY <1>1, <2>2
  <2> QED
    BY <2>1, <2>2, <2>3, Zenon
<1> HIDE DEF head, tail
<1>10. /\ head \o tail \in Seq(Octet) /\ Len(head \o tail) = 4 + p
       /\ (head \o tail)[1] = head[1] /\ (head \o tail)[2] = head[2]
       /\ (head \o tail)[3] = head[3] /\ (head \o tail)[4] = head[4]
       /\ p >= 4 => (head \o tail)[7] = tail[3] /\ (head \o tail)[8] = tail[4]
  <2>1. head \in Seq(Octet) /\ tail \in Seq(Octet)
    BY <1>6, <1>9
  <2>2. head \o tail \in Seq(Octet) /\ Len(head \o tail) = Len(head) + Len(tail)
    BY <2>1, ConcatProperties, Zenon
  <2>3. /\ \A x \in 1..Len(head) : (head \o tail)[x] = head[x]
        /\ \A x \in 1..Len(tail) : (head \o tail)[Len(head) + x] = tail[x]
    BY <2>1, Joined
  <2>4. Len(head) = 4 /\ Len(tail) = p
    BY <1>6, <1>9
  <2>5. /\ (head \o tail)[1] = head[1] /\ (head \o tail)[2] = head[2]
        /\ (head \o tail)[3] = head[3] /\ (head \o tail)[4] = head[4]
    <3>1. 1 \in 1..4 /\ 2 \in 1..4 /\ 3 \in 1..4 /\ 4 \in 1..4
      OBVIOUS
    <3> QED
      BY <2>3, <2>4, <3>1, Zenon
  <2>6. p >= 4 => (head \o tail)[4 + 3] = tail[3] /\ (head \o tail)[4 + 4] = tail[4]
    <3>1. p >= 4 => 3 \in 1..p /\ 4 \in 1..p
      BY <1>3
    <3> QED
      BY <2>3, <2>4, <3>1, Zenon
  <2> QED
    BY <2>2, <2>4, <2>5, <2>6
<1>11. a.len >= 4 => p >= 4
  BY <1>2, <1>3
<1>12. Attribute(a) = head \o tail
  BY Zenon DEF Attribute, head, tail, v, p
<1> QED
  BY <1>8, <1>9, <1>10, <1>11, <1>12, Zenon DEF Fields, p

\* The sequences one after the other, each at its offset.
Flattened(f, k, seqs, w) ==
  /\ f \in Seq(Octet) /\ Len(f) = Running(w)[k]
  /\ \A j \in 1..k : \A x \in 1..w[j] : f[Running(w)[j - 1] + x] = seqs[j][x]

LEMMA FlattenNext ==
  ASSUME NEW n \in Nat, NEW seqs \in [1..n -> Seq(Octet)], NEW w \in Seq(Nat), Len(w) = n,
         \A j \in 1..n : w[j] = Len(seqs[j]),
         NEW k \in 1..n, NEW f, Flattened(f, k - 1, seqs, w)
  PROVE  Flattened(f \o seqs[k], k, seqs, w)
<1> DEFINE off == Running(w)
           g == f \o seqs[k]
<1>1. /\ off[k] = off[k - 1] + w[k] /\ off[k] \in Nat /\ off[k - 1] \in Nat
  <2>1. Sums(off, w)
    BY RunningIs
  <2> HIDE DEF off
  <2> QED
    BY <2>1 DEF Sums
<1>2. f \in Seq(Octet) /\ seqs[k] \in Seq(Octet) /\ Len(f) = off[k - 1] /\ Len(seqs[k]) = w[k]
  BY Zenon DEF Flattened
<1>3. g \in Seq(Octet) /\ Len(g) = off[k]
  <2>1. g \in Seq(Octet) /\ Len(g) = Len(f) + Len(seqs[k])
    BY <1>2, ConcatProperties, Zenon
  <2> QED
    BY <1>1, <1>2, <2>1, Zenon
<1>4. /\ \A x \in 1..Len(f) : g[x] = f[x]
      /\ \A x \in 1..Len(seqs[k]) : g[Len(f) + x] = seqs[k][x]
  <2>1. f \in Seq(Octet) /\ seqs[k] \in Seq(Octet)
    BY <1>2, Zenon
  <2>2. PICK s : s = seqs[k]
    OBVIOUS
  <2>3. s \in Seq(Octet)
    BY <2>1, <2>2, Zenon
  <2>4. /\ \A x \in 1..Len(f) : (f \o s)[x] = f[x]
        /\ \A x \in 1..Len(s) : (f \o s)[Len(f) + x] = s[x]
    BY <2>1, <2>3, Joined
  <2> QED
    BY <2>2, <2>4, Zenon
<1>5. ASSUME NEW j \in 1..k, NEW x \in 1..w[j] PROVE g[off[j - 1] + x] = seqs[j][x]
  <2>1. CASE j = k
    BY <1>2, <1>4, <1>5, <2>1, Zenon
  <2>2. CASE j # k
    <3>1. /\ j \in 1..(k - 1) /\ j \in 1..n /\ j \in 0..Len(w) /\ k - 1 \in j..Len(w) /\ j - 1 \in 0..Len(w)
          /\ j \in 1..Len(w) /\ j \in (j - 1)..Len(w)
      BY <2>2
    <3>2. f[off[j - 1] + x] = seqs[j][x]
      BY <3>1, Zenon DEF Flattened
    <3>3. off[j] = off[j - 1] + w[j]
      BY <3>1, RunningIs, Zenon DEF Sums
    <3>4. off[j - 1] \in Nat /\ off[j] \in Nat /\ off[j] <= off[k - 1]
      BY <3>1, RunningUp, Zenon
    <3>5. PICK a \in Nat, b \in Nat, c \in Nat, d \in Nat :
             a = off[j - 1] /\ b = off[j] /\ c = off[k - 1] /\ d = w[j]
      <4>1. w[j] \in Nat
        BY <3>1
      <4> QED
        BY <1>1, <3>4, <4>1, Zenon
    <3>6. b = a + d /\ b <= c /\ x \in 1..d
      BY <3>3, <3>4, <3>5, Zenon
    <3>7. a + x \in 1..c
      BY <3>6
    <3>8. off[j - 1] + x \in 1..Len(f)
      BY <1>2, <3>5, <3>7, Zenon
    <3> QED
      BY <1>4, <3>2, <3>8, Zenon
  <2> QED
    BY <2>1, <2>2, Zenon
<1> QED
  BY <1>3, <1>5, Zenon DEF Flattened

\* One turn of FlattenSeq's recursion.
Flatten(f, i, seqs) == IF i = 1 THEN seqs[i] ELSE f[i - 1] \o seqs[i]

LEMMA FlattenExists ==
  ASSUME NEW n \in Nat, NEW seqs
  PROVE  \E f : f = [i \in 1..n |-> Flatten(f, i, seqs)]
<1> DEFINE Good(f, d) == /\ f = [i \in 1..n |-> f[i]]
                         /\ \A i \in 1..n : i <= d => f[i] = Flatten(f, i, seqs)
           S == {d \in Nat : \E f : Good(f, d)}
<1>1. 0 \in S
  <2> DEFINE f == [i \in 1..n |-> 0]
  <2>1. \A i \in 1..n : ~(i <= 0)
    OBVIOUS
  <2>2. f = [i \in 1..n |-> f[i]]
    OBVIOUS
  <2>3. Good(f, 0)
    BY <2>1, <2>2, Zenon
  <2> QED
    BY <2>3
<1>2. ASSUME NEW d \in Nat, d \in S PROVE d + 1 \in S
  <2>1. PICK f : Good(f, d)
    BY <1>2
  <2> DEFINE g == [i \in 1..n |-> IF i = d + 1 THEN Flatten(f, i, seqs) ELSE f[i]]
  <2>2. g = [i \in 1..n |-> g[i]]
    OBVIOUS
  <2>3. ASSUME NEW i \in 1..n, i <= d + 1 PROVE g[i] = Flatten(g, i, seqs)
    <3>1. i # 1 => i - 1 \in 1..n /\ i - 1 # d + 1
      BY <2>3
    <3>2. i # 1 => g[i - 1] = f[i - 1]
      BY <3>1, Zenon
    <3>3. Flatten(f, i, seqs) = Flatten(g, i, seqs)
      <4> HIDE DEF g
      <4> QED
        BY <3>2, Zenon DEF Flatten
    <3>4. i = d + 1 \/ i <= d
      BY <2>3
    <3>5. CASE i = d + 1
      BY <3>3, <3>5, Zenon
    <3>6. CASE i # d + 1
      <4>1. f[i] = Flatten(f, i, seqs)
        BY <2>1, <3>4, <3>6, Zenon
      <4> QED
        BY <3>3, <3>6, <4>1, Zenon
    <3> QED
      BY <3>5, <3>6, Zenon
  <2>4. Good(g, d + 1)
    BY <2>2, <2>3, Zenon
  <2>5. d + 1 \in Nat
    OBVIOUS
  <2> QED
    BY <2>4, <2>5, Zenon
<1>3. \A d \in Nat : d \in S
  <2> HIDE DEF S
  <2> QED
    BY <1>1, <1>2, Induct, Zenon
<1>4. PICK f : Good(f, n)
  BY <1>3, Zenon
<1>5. \A i \in 1..n : i <= n
  OBVIOUS
<1>6. \A i \in 1..n : f[i] = Flatten(f, i, seqs)
  BY <1>4, <1>5, Zenon
<1>7. f = [i \in 1..n |-> Flatten(f, i, seqs)]
  BY <1>4, <1>6, Zenon
<1> QED
  BY <1>7, Zenon

LEMMA FlattenIs ==
  ASSUME NEW n \in Nat, NEW seqs \in [1..n -> Seq(Octet)], NEW w \in Seq(Nat), Len(w) = n,
         \A j \in 1..n : w[j] = Len(seqs[j])
  PROVE  Flattened(FlattenSeq(seqs), n, seqs, w)
<1> DEFINE R == CHOOSE f : f = [i \in 1..n |-> Flatten(f, i, seqs)]
<1>0. Flattened(<<>>, 0, seqs, w)
  <2>1. Running(w)[0] = 0
    BY RunningIs, Zenon DEF Sums
  <2>2. <<>> \in Seq(Octet) /\ Len(<<>>) = 0 /\ 1..0 = {}
    OBVIOUS
  <2> QED
    BY <2>1, <2>2, Zenon DEF Flattened
<1>1. Len(seqs) = n
  OBVIOUS
<1>2. CASE n = 0
  <2>1. seqs = <<>>
    BY <1>2
  <2>2. FlattenSeq(seqs) = seqs
    BY <1>1, <1>2, Zenon DEF FlattenSeq
  <2> QED
    BY <1>0, <1>2, <2>1, <2>2, Zenon
<1>3. CASE n # 0
  <2>1. R = [i \in 1..n |-> Flatten(R, i, seqs)]
    BY FlattenExists, Zenon
  <2>2. FlattenSeq(seqs) = R[n]
    BY <1>1, <1>3, Zenon DEF FlattenSeq, Flatten
  <2> HIDE DEF R
  <2> DEFINE S == {k \in Nat : k + 1 <= n => Flattened(R[k + 1], k + 1, seqs, w)}
  <2>3. 0 \in S
    <3>1. 1 \in 1..n /\ 1 - 1 = 0 /\ 0 + 1 = 1
      BY <1>3
    <3>2. R[1] = seqs[1]
      BY <2>1, <3>1, Zenon DEF Flatten
    <3>3. <<>> \o seqs[1] = seqs[1]
      <4>1. seqs[1] \in Seq(Octet)
        BY <3>1, Zenon
      <4> QED
        BY <4>1, ConcatEmptySeq, Zenon
    <3>4. Flattened(<<>> \o seqs[1], 1, seqs, w)
      BY <1>0, <3>1, FlattenNext, Zenon
    <3> QED
      BY <3>1, <3>2, <3>3, <3>4, Zenon
  <2>4. ASSUME NEW k \in Nat, k \in S PROVE k + 1 \in S
    <3> SUFFICES ASSUME (k + 1) + 1 <= n PROVE Flattened(R[(k + 1) + 1], (k + 1) + 1, seqs, w)
      <4>1. k + 1 \in Nat
        OBVIOUS
      <4> QED
        BY <4>1, Zenon
    <3>1. PICK i : i = (k + 1) + 1
      OBVIOUS
    <3>2. i \in 1..n /\ i # 1 /\ i - 1 = k + 1 /\ k + 1 <= n
      BY <3>1
    <3>3. Flattened(R[i - 1], i - 1, seqs, w)
      BY <2>4, <3>2, Zenon
    <3>4. R[i] = R[i - 1] \o seqs[i]
      BY <2>1, <3>2, Zenon DEF Flatten
    <3>5. Flattened(R[i - 1] \o seqs[i], i, seqs, w)
      BY <3>2, <3>3, FlattenNext, Zenon
    <3> QED
      BY <3>1, <3>4, <3>5, Zenon
  <2>5. \A k \in Nat : k \in S
    <3> HIDE DEF S
    <3> QED
      BY <2>3, <2>4, Induct, Zenon
  <2>6. n - 1 \in Nat /\ (n - 1) + 1 = n /\ n <= n
    BY <1>3
  <2>7. Flattened(R[n], n, seqs, w)
    BY <2>5, <2>6, Zenon
  <2> QED
    BY <2>2, <2>7, Zenon
<1> QED
  BY <1>2, <1>3, Zenon

\* Where an attribute ends, its padding left out.
Ends(attrs, i) == Offset(attrs, i) + 4 + attrs[i].len

LEMMA LengthIs ==
  ASSUME NEW attrs \in Seq(AttributeShape), NEW i \in 1..Len(attrs)
  PROVE  /\ attrs[i] \in AttributeShape /\ attrs[i].len \in Nat
         /\ Padded(attrs[i].len) \in Nat /\ Padded(attrs[i].len) >= attrs[i].len
<1>1. attrs[i] \in AttributeShape
  OBVIOUS
<1>2. attrs[i].len \in Octet
  BY <1>1 DEF AttributeShape
<1>3. attrs[i].len \in Nat
  <2>1. Octet \subseteq Nat
    BY DEF Octet
  <2> QED
    BY <1>2, <2>1, Zenon
<1> QED
  BY <1>1, <1>3, PaddedIs, Zenon

LEMMA ExtentIs ==
  ASSUME NEW attrs \in Seq(AttributeShape)
  PROVE  /\ Extent(attrs) \in Seq(Nat) /\ Len(Extent(attrs)) = Len(attrs)
         /\ \A i \in 1..Len(attrs) : Extent(attrs)[i] = 4 + Padded(attrs[i].len)
<1>1. \A i \in 1..Len(attrs) : 4 + Padded(attrs[i].len) \in Nat
  <2> TAKE i \in 1..Len(attrs)
  <2>1. Padded(attrs[i].len) \in Nat
    BY LengthIs, Zenon
  <2> QED
    BY <2>1
<1> QED
  BY <1>1 DEF Extent

LEMMA OffsetIs ==
  ASSUME NEW attrs \in Seq(AttributeShape)
  PROVE  /\ Offset(attrs, 1) = 0
         /\ \A i \in 1..(Len(attrs) + 1) : Offset(attrs, i) \in Nat
         /\ Total(Extent(attrs)) = Offset(attrs, Len(attrs) + 1)
<1> DEFINE w == Extent(attrs)
<1>1. w \in Seq(Nat) /\ Len(w) = Len(attrs)
  BY ExtentIs, Zenon
<1> HIDE DEF w
<1>2. Sums(Running(w), w)
  BY <1>1, RunningIs, Zenon
<1>3. Len(attrs) \in Nat /\ (Len(attrs) + 1) - 1 = Len(attrs) /\ 1 - 1 = 0
      /\ \A i \in 1..(Len(attrs) + 1) : i - 1 \in 0..Len(attrs)
  OBVIOUS
<1>4. Running(w)[0] = 0 /\ \A i \in 0..Len(attrs) : Running(w)[i] \in Nat
  BY <1>1, <1>2 DEF Sums
<1> QED
  BY <1>1, <1>3, <1>4, Zenon DEF Offset, Total, w

LEMMA OffsetNext ==
  ASSUME NEW attrs \in Seq(AttributeShape), NEW i \in 1..Len(attrs)
  PROVE  /\ Offset(attrs, i + 1) = Offset(attrs, i) + (4 + Padded(attrs[i].len))
         /\ Ends(attrs, i) \in Nat /\ Offset(attrs, i) + 4 <= Ends(attrs, i)
         /\ Ends(attrs, i) <= Offset(attrs, i + 1)
<1> DEFINE w == Extent(attrs)
<1>1. w \in Seq(Nat) /\ Len(w) = Len(attrs) /\ w[i] = 4 + Padded(attrs[i].len)
  BY ExtentIs, Zenon
<1> HIDE DEF w
<1>2. Running(w)[i] = Running(w)[i - 1] + w[i]
  BY <1>1, RunningIs, Zenon DEF Sums
<1>3. (i + 1) - 1 = i /\ i \in 1..(Len(attrs) + 1) /\ i + 1 \in 1..(Len(attrs) + 1)
  OBVIOUS
<1>4. Offset(attrs, i + 1) = Offset(attrs, i) + (4 + Padded(attrs[i].len))
  BY <1>1, <1>2, <1>3, Zenon DEF Offset, w
<1>5. PICK a \in Nat, b \in Nat, l \in Nat, p \in Nat :
        /\ a = Offset(attrs, i) /\ b = Offset(attrs, i + 1)
        /\ l = attrs[i].len /\ p = Padded(attrs[i].len)
  BY <1>3, LengthIs, OffsetIs, Zenon
<1>6. b = a + (4 + p) /\ p >= l
  BY <1>4, <1>5, LengthIs, Zenon
<1>7. (a + 4) + l \in Nat /\ a + 4 <= (a + 4) + l /\ (a + 4) + l <= b
  BY <1>6
<1> QED
  BY <1>4, <1>5, <1>7, Zenon DEF Ends

LEMMA OffsetUp ==
  ASSUME NEW attrs \in Seq(AttributeShape), NEW i \in 1..(Len(attrs) + 1),
         NEW j \in i..(Len(attrs) + 1)
  PROVE  Offset(attrs, i) <= Offset(attrs, j)
<1>1. Extent(attrs) \in Seq(Nat) /\ Len(Extent(attrs)) = Len(attrs)
  BY ExtentIs, Zenon
<1>2. i - 1 \in 0..Len(attrs) /\ j - 1 \in (i - 1)..Len(attrs)
  OBVIOUS
<1> QED
  BY <1>1, <1>2, RunningUp, Zenon DEF Offset

\* Of two attributes the first ends before the second begins.
LEMMA EndsBefore ==
  ASSUME NEW attrs \in Seq(AttributeShape), NEW i \in 1..Len(attrs),
         NEW j \in (i + 1)..(Len(attrs) + 1)
  PROVE  Ends(attrs, i) <= Offset(attrs, j)
<1>1. i + 1 \in 1..(Len(attrs) + 1) /\ j \in 1..(Len(attrs) + 1)
  OBVIOUS
<1>2. PICK a \in Nat, b \in Nat, c \in Nat :
        a = Ends(attrs, i) /\ b = Offset(attrs, i + 1) /\ c = Offset(attrs, j)
  BY <1>1, OffsetIs, OffsetNext, Zenon
<1>3. a <= b /\ b <= c
  BY <1>1, <1>2, OffsetNext, OffsetUp, Zenon
<1>4. a <= c
  BY <1>3
<1> QED
  BY <1>2, <1>4, Zenon

----------------------------------------------------------------------------
(* The verdict that is expected *)

LEMMA MinOfTwo ==
  ASSUME NEW a \in Nat, NEW b \in Nat
  PROVE  Min({a, b}) = IF a <= b THEN a ELSE b
<1>1. {a, b} \subseteq Nat /\ {a, b} # {}
  OBVIOUS
<1>2. Min({a, b}) \in {a, b} /\ \A y \in {a, b} : Min({a, b}) <= y
  BY <1>1, MinIs, Zenon
<1>3. PICK m : m = Min({a, b})
  OBVIOUS
<1>4. m \in {a, b} /\ m <= a /\ m <= b
  BY <1>2, <1>3, Zenon
<1>5. m = IF a <= b THEN a ELSE b
  BY <1>4
<1> QED
  BY <1>3, <1>5, Zenon

\* The place of the first ERROR-CODE, or one past the end.
FirstError(attrs, e) ==
  /\ e \in 1..(Len(attrs) + 1)
  /\ \A j \in 1..Len(attrs) : j < e => attrs[j].type # 9
  /\ e <= Len(attrs) => attrs[e].type = 9

\* The cut lies in the value of an attribute up to e.
Overruns(attrs, cut, e) ==
  \E i \in 1..Len(attrs) : i <= e /\ Offset(attrs, i) + 4 <= cut /\ cut < Ends(attrs, i)

\* What an ERROR-CODE that is there says.
Judged(a) ==
  IF a.len < 4 THEN "short"
  ELSE IF 100 * (a.class % 8) + a.number = 401 THEN "reached" ELSE "code"

LEMMA ExpectedIs ==
  ASSUME NEW attrs \in Seq(AttributeShape), NEW cut
  PROVE  \E e : /\ FirstError(attrs, e)
                /\ Expected(attrs, cut) =
                     IF Overruns(attrs, cut, e) THEN "overrun"
                     ELSE IF e > Len(attrs) \/ cut < Ends(attrs, e) THEN "missing"
                     ELSE Judged(attrs[e])
<1> DEFINE n == Len(attrs)
           errors == {i \in 1..n : attrs[i].type = 9}
           e == IF errors = {} THEN n + 1 ELSE Min(errors)
           m == Min({e, n})
<1>0. n \in Nat
  OBVIOUS
<1>1. FirstError(attrs, e)
  <2>1. CASE errors = {}
    <3>1. n + 1 \in 1..(n + 1) /\ ~(n + 1 <= n)
      BY <1>0
    <3>2. e = n + 1
      BY <2>1, Zenon
    <3> HIDE DEF e
    <3> QED
      BY <2>1, <3>1, <3>2, Zenon DEF FirstError
  <2>2. CASE errors # {}
    <3>1. errors \subseteq Nat
      OBVIOUS
    <3>2. Min(errors) \in errors /\ \A y \in errors : Min(errors) <= y
      <4> HIDE DEF errors
      <4> QED
        BY <2>2, <3>1, MinIs, Zenon
    <3>3. PICK x : x = Min(errors)
      OBVIOUS
    <3>4. x \in 1..n /\ attrs[x].type = 9 /\ \A y \in errors : x <= y
      BY <3>2, <3>3, Zenon
    <3>5. \A j \in 1..n : j < x => ~(x <= j)
      BY <1>0, <3>4
    <3>6. \A j \in 1..n : j < x => attrs[j].type # 9
      BY <3>4, <3>5, Zenon
    <3>7. x \in 1..(n + 1)
      BY <1>0, <3>4
    <3>8. FirstError(attrs, x)
      BY <3>4, <3>6, <3>7, Zenon DEF FirstError
    <3> QED
      BY <2>2, <3>3, <3>8, Zenon
  <2> QED
    BY <2>1, <2>2, Zenon
<1>2. e \in Nat
  <2> HIDE DEF e
  <2>1. e \in 1..(n + 1)
    BY <1>1, Zenon DEF FirstError
  <2> QED
    BY <2>1
<1>3. Expected(attrs, cut) =
        IF \E i \in 1..m : Offset(attrs, i) + 4 <= cut /\ cut < Ends(attrs, i) THEN "overrun"
        ELSE IF e > n \/ cut < Ends(attrs, m) THEN "missing"
        ELSE Judged(attrs[e])
  BY Zenon DEF Expected, Ends, Judged
<1> HIDE DEF e
<1>4. m = IF e <= n THEN e ELSE n
  BY <1>0, <1>2, MinOfTwo, Zenon
<1> HIDE DEF m
<1>5. \A i : i \in 1..m <=> i \in 1..n /\ i <= e
  BY <1>0, <1>2, <1>4
<1>6. (\E i \in 1..m : Offset(attrs, i) + 4 <= cut /\ cut < Ends(attrs, i))
        <=> Overruns(attrs, cut, e)
  BY <1>5, Zenon DEF Overruns
<1>7. e > n \/ m = e
  BY <1>0, <1>2, <1>4
<1>8. Expected(attrs, cut) =
        IF Overruns(attrs, cut, e) THEN "overrun"
        ELSE IF e > n \/ cut < Ends(attrs, e) THEN "missing"
        ELSE Judged(attrs[e])
  BY <1>3, <1>6, <1>7, Zenon
<1> QED
  BY <1>1, <1>8, Zenon

\* find_error_code has come to attribute i and found no ERROR-CODE before it.
Walked(attrs, cut, i) ==
  /\ i \in 1..(Len(attrs) + 1) /\ Offset(attrs, i) <= cut
  /\ \A j \in 1..Len(attrs) : j < i => attrs[j].type # 9

\* What it has passed was all received.
LEMMA NotBefore ==
  ASSUME NEW attrs \in Seq(AttributeShape), NEW cut \in Nat, NEW i, Walked(attrs, cut, i),
         NEW j \in 1..Len(attrs), j < i
  PROVE  ~(cut < Ends(attrs, j))
<1>1. i \in 1..(Len(attrs) + 1) /\ Offset(attrs, i) <= cut
  BY Zenon DEF Walked
<1>2. i \in (j + 1)..(Len(attrs) + 1)
  BY <1>1
<1>3. PICK a \in Nat, b \in Nat : a = Ends(attrs, j) /\ b = Offset(attrs, i)
  BY <1>1, OffsetIs, OffsetNext, Zenon
<1>4. a <= b /\ b <= cut
  BY <1>1, <1>2, <1>3, EndsBefore, Zenon
<1>5. ~(cut < a)
  BY <1>4
<1> QED
  BY <1>3, <1>5, Zenon

\* Nothing is received of an attribute after the one that was cut.
LEMMA NotAfter ==
  ASSUME NEW attrs \in Seq(AttributeShape), NEW cut \in Nat, NEW i \in 1..Len(attrs),
         cut < Offset(attrs, i + 1), NEW j \in 1..Len(attrs), i < j
  PROVE  ~(Offset(attrs, j) + 4 <= cut) /\ cut < Ends(attrs, j)
<1>1. i + 1 \in 1..(Len(attrs) + 1) /\ j \in (i + 1)..(Len(attrs) + 1) /\ j \in 1..(Len(attrs) + 1)
  OBVIOUS
<1>2. PICK a \in Nat, b \in Nat, c \in Nat :
        a = Offset(attrs, i + 1) /\ b = Offset(attrs, j) /\ c = Ends(attrs, j)
  BY <1>1, OffsetIs, OffsetNext, Zenon
<1>3. cut < a /\ a <= b /\ b + 4 <= c
  BY <1>1, <1>2, OffsetUp, OffsetNext, Zenon
<1>4. ~(b + 4 <= cut) /\ cut < c
  BY <1>3
<1> QED
  BY <1>2, <1>4, Zenon

\* The first ERROR-CODE is not among those that were passed.
LEMMA ErrorAhead ==
  ASSUME NEW attrs \in Seq(AttributeShape), NEW cut, NEW i, Walked(attrs, cut, i),
         NEW e, FirstError(attrs, e)
  PROVE  e > Len(attrs) \/ i <= e
<1>1. e \in 1..(Len(attrs) + 1) /\ i \in 1..(Len(attrs) + 1)
  BY Zenon DEF Walked, FirstError
<1>2. e <= Len(attrs) => e \in 1..Len(attrs)
  BY <1>1
<1>3. ~(e <= Len(attrs) /\ e < i)
  BY <1>2, Zenon DEF Walked, FirstError
<1> QED
  BY <1>1, <1>3

LEMMA MissingExpected ==
  ASSUME NEW attrs \in Seq(AttributeShape), NEW cut \in Nat, NEW i, Walked(attrs, cut, i),
         \/ i > Len(attrs)
         \/ cut < Offset(attrs, i) + 4
         \/ /\ attrs[i].type # 9 /\ ~(cut < Ends(attrs, i)) /\ cut < Offset(attrs, i + 1)
  PROVE  Expected(attrs, cut) = "missing"
<1>1. PICK e : /\ FirstError(attrs, e)
               /\ Expected(attrs, cut) =
                    IF Overruns(attrs, cut, e) THEN "overrun"
                    ELSE IF e > Len(attrs) \/ cut < Ends(attrs, e) THEN "missing"
                    ELSE Judged(attrs[e])
  BY ExpectedIs, Zenon
<1>2. i \in 1..(Len(attrs) + 1) /\ e \in 1..(Len(attrs) + 1)
  BY <1>1, Zenon DEF Walked, FirstError
<1>3. e > Len(attrs) \/ i <= e
  BY <1>1, ErrorAhead, Zenon
<1>4. CASE i > Len(attrs)
  <2>1. e > Len(attrs) /\ \A j \in 1..Len(attrs) : j < i
    BY <1>2, <1>3, <1>4
  <2>2. ~Overruns(attrs, cut, e)
    BY <2>1, NotBefore, Zenon DEF Overruns
  <2> QED
    BY <1>1, <2>1, <2>2, Zenon
<1>5. CASE ~(i > Len(attrs))
  <2>1. i \in 1..Len(attrs)
    BY <1>2, <1>5
  <2>2. cut < Offset(attrs, i + 1)
    <3>1. CASE cut < Offset(attrs, i) + 4
      <4>1. i + 1 \in 1..(Len(attrs) + 1)
        BY <2>1
      <4>2. PICK a \in Nat, b \in Nat, c \in Nat :
              a = Offset(attrs, i) /\ b = Ends(attrs, i) /\ c = Offset(attrs, i + 1)
        BY <1>2, <2>1, <4>1, OffsetIs, OffsetNext, Zenon
      <4>3. cut < a + 4 /\ a + 4 <= b /\ b <= c
        BY <2>1, <3>1, <4>2, OffsetNext, Zenon
      <4>4. cut < c
        BY <4>3
      <4> QED
        BY <4>2, <4>4, Zenon
    <3> QED
      BY <1>5, <3>1, Zenon
  <2>3. ~(Offset(attrs, i) + 4 <= cut) \/ ~(cut < Ends(attrs, i))
    <3>1. CASE cut < Offset(attrs, i) + 4
      <4>1. Offset(attrs, i) \in Nat
        BY <1>2, OffsetIs, Zenon
      <4> QED
        BY <3>1, <4>1
    <3> QED
      BY <1>5, <3>1, Zenon
  <2>4. ASSUME NEW j \in 1..Len(attrs)
        PROVE  ~(Offset(attrs, j) + 4 <= cut) \/ ~(cut < Ends(attrs, j))
    <3>1. j < i \/ j = i \/ i < j
      BY <2>1
    <3> QED
      BY <2>1, <2>2, <2>3, <3>1, NotBefore, NotAfter, Zenon
  <2>5. ~Overruns(attrs, cut, e)
    BY <2>4, Zenon DEF Overruns
  <2>6. e > Len(attrs) \/ cut < Ends(attrs, e)
    <3>1. CASE e = i /\ e <= Len(attrs)
      <4>1. cut < Offset(attrs, i) + 4
        BY <1>1, <1>5, <3>1, Zenon DEF FirstError
      <4>2. PICK a \in Nat, b \in Nat : a = Offset(attrs, i) /\ b = Ends(attrs, i)
        BY <1>2, <2>1, OffsetIs, OffsetNext, Zenon
      <4>3. cut < a + 4 /\ a + 4 <= b
        BY <2>1, <4>1, <4>2, OffsetNext, Zenon
      <4>4. cut < b
        BY <4>3
      <4> QED
        BY <3>1, <4>2, <4>4, Zenon
    <3>2. CASE e # i /\ e <= Len(attrs)
      <4>1. i < e /\ e \in 1..Len(attrs)
        BY <1>2, <1>3, <2>1, <3>2
      <4> QED
        BY <2>1, <2>2, <4>1, NotAfter, Zenon
    <3>3. e > Len(attrs) \/ e <= Len(attrs)
      BY <1>2
    <3> QED
      BY <3>1, <3>2, <3>3, Zenon
  <2> QED
    BY <1>1, <2>5, <2>6, Zenon
<1> QED
  BY <1>4, <1>5, Zenon

LEMMA OverrunExpected ==
  ASSUME NEW attrs \in Seq(AttributeShape), NEW cut \in Nat, NEW i, Walked(attrs, cut, i),
         ~(i > Len(attrs)), ~(cut < Offset(attrs, i) + 4), cut < Ends(attrs, i)
  PROVE  Expected(attrs, cut) = "overrun"
<1>1. PICK e : /\ FirstError(attrs, e)
               /\ Expected(attrs, cut) =
                    IF Overruns(attrs, cut, e) THEN "overrun"
                    ELSE IF e > Len(attrs) \/ cut < Ends(attrs, e) THEN "missing"
                    ELSE Judged(attrs[e])
  BY ExpectedIs, Zenon
<1>2. i \in 1..(Len(attrs) + 1) /\ e \in 1..(Len(attrs) + 1)
  BY <1>1, Zenon DEF Walked, FirstError
<1>3. e > Len(attrs) \/ i <= e
  BY <1>1, ErrorAhead, Zenon
<1>4. i \in 1..Len(attrs) /\ i <= e
  BY <1>2, <1>3
<1>5. Offset(attrs, i) + 4 <= cut
  <2>1. Offset(attrs, i) \in Nat
    BY <1>2, OffsetIs, Zenon
  <2> QED
    BY <2>1
<1> QED
  BY <1>1, <1>4, <1>5, Zenon DEF Overruns

LEMMA CodeExpected ==
  ASSUME NEW attrs \in Seq(AttributeShape), NEW cut \in Nat, NEW i, Walked(attrs, cut, i),
         ~(i > Len(attrs)), ~(cut < Ends(attrs, i)), attrs[i].type = 9
  PROVE  Expected(attrs, cut) = Judged(attrs[i])
<1>1. PICK e : /\ FirstError(attrs, e)
               /\ Expected(attrs, cut) =
                    IF Overruns(attrs, cut, e) THEN "overrun"
                    ELSE IF e > Len(attrs) \/ cut < Ends(attrs, e) THEN "missing"
                    ELSE Judged(attrs[e])
  BY ExpectedIs, Zenon
<1>2. i \in 1..(Len(attrs) + 1) /\ e \in 1..(Len(attrs) + 1)
  BY <1>1, Zenon DEF Walked, FirstError
<1>3. e > Len(attrs) \/ i <= e
  BY <1>1, ErrorAhead, Zenon
<1>4. i \in 1..Len(attrs)
  BY <1>2
<1>5. ~(i < e)
  BY <1>1, <1>4, Zenon DEF FirstError
<1>6. e = i /\ ~(e > Len(attrs))
  BY <1>2, <1>3, <1>5
<1>7. \A j \in 1..Len(attrs) : j <= e => j < i \/ j = i
  BY <1>2, <1>6
<1>8. ~Overruns(attrs, cut, e)
  BY <1>7, NotBefore, Zenon DEF Overruns
<1> QED
  BY <1>1, <1>6, <1>8, Zenon

----------------------------------------------------------------------------
(* The walk along the attributes *)

LEMMA Dropped ==
  ASSUME NEW S, NEW b \in Seq(S), NEW p \in 0..Len(b), NEW q \in 0..(Len(b) - p)
  PROVE  /\ SubSeq(b, p + 1, Len(b)) \in Seq(S) /\ Len(SubSeq(b, p + 1, Len(b))) = Len(b) - p
         /\ \A x \in 1..(Len(b) - p) : SubSeq(b, p + 1, Len(b))[x] = b[p + x]
         /\ SubSeq(SubSeq(b, p + 1, Len(b)), q + 1, Len(b) - p) = SubSeq(b, (p + q) + 1, Len(b))
OBVIOUS

\* The bytes received, by attribute.
LEMMA BodyIs ==
  ASSUME NEW d, IsAnswer(d)
  PROVE  /\ Body(d) \in Seq(Octet) /\ Len(Body(d)) = d.cut
         /\ \A j \in 1..Len(d.attrs) : \A x \in 1..(4 + Padded(d.attrs[j].len)) :
              Offset(d.attrs, j) + x <= d.cut =>
                Body(d)[Offset(d.attrs, j) + x] = Attribute(d.attrs[j])[x]
<1> DEFINE attrs == d.attrs
           n == Len(attrs)
           seqs == [i \in 1..n |-> Attribute(attrs[i])]
           w == Extent(attrs)
           f == FlattenSeq(seqs)
<1>1. attrs \in Seq(AttributeShape) /\ d.cut \in 0..Total(w)
  BY Zenon DEF IsAnswer
<1>2. n \in Nat
  BY <1>1
<1>3. \A i \in 1..n : attrs[i] \in AttributeShape
  BY <1>1, LengthIs, Zenon
<1>4. \A i \in 1..n : /\ Attribute(attrs[i]) \in Seq(Octet)
                      /\ Len(Attribute(attrs[i])) = 4 + Padded(attrs[i].len)
  BY <1>3, AttributeIs, Zenon DEF Fields
<1>5. w \in Seq(Nat) /\ Len(w) = n /\ \A i \in 1..n : w[i] = 4 + Padded(attrs[i].len)
  BY <1>1, ExtentIs, Zenon
<1>6. seqs \in [1..n -> Seq(Octet)] /\ \A i \in 1..n : seqs[i] = Attribute(attrs[i])
  BY <1>4, Zenon
<1>7. Body(d) = SubSeq(f, 1, d.cut)
  BY Zenon DEF Body
<1> HIDE DEF seqs, w
<1>8. Flattened(f, n, seqs, w)
  <2>1. \A j \in 1..n : w[j] = Len(seqs[j])
    BY <1>4, <1>5, <1>6, Zenon
  <2> QED
    BY <1>2, <1>5, <1>6, <2>1, FlattenIs, Zenon
<1>9. f \in Seq(Octet) /\ Len(f) = Total(w)
  BY <1>5, <1>8, Zenon DEF Flattened, Total
<1> HIDE DEF f
<1>10. PICK c : c = d.cut
  OBVIOUS
<1>11. c \in 0..Len(f)
  BY <1>1, <1>9, <1>10, Zenon DEF w
<1>12. PICK b : b = SubSeq(f, 1, c)
  OBVIOUS
<1>13. b \in Seq(Octet) /\ Len(b) = c /\ \A x \in 1..c : b[x] = f[x]
  BY <1>9, <1>11, <1>12
<1>14. b = Body(d)
  BY <1>7, <1>10, <1>12, Zenon
<1>15. ASSUME NEW j \in 1..n, NEW x \in 1..(4 + Padded(attrs[j].len)), Offset(attrs, j) + x <= c
       PROVE  b[Offset(attrs, j) + x] = Attribute(attrs[j])[x]
  <2>1. Offset(attrs, j) \in Nat /\ c \in Nat /\ x \in Nat /\ x >= 1
    <3>1. j \in 1..(n + 1)
      BY <1>2
    <3>2. Offset(attrs, j) \in Nat
      BY <1>1, <3>1, OffsetIs, Zenon
    <3>3. Padded(attrs[j].len) \in Nat
      BY <1>1, LengthIs, Zenon
    <3>4. c \in Nat
      BY <1>9, <1>11
    <3> QED
      BY <3>2, <3>3, <3>4
  <2>2. Offset(attrs, j) + x \in 1..c
    BY <1>15, <2>1
  <2>3. x \in 1..w[j]
    BY <1>5, Zenon
  <2>4. f[Running(w)[j - 1] + x] = seqs[j][x]
    BY <1>8, <2>3, Zenon DEF Flattened
  <2>5. Offset(attrs, j) = Running(w)[j - 1]
    BY Zenon DEF Offset, w
  <2> QED
    BY <1>6, <1>13, <2>2, <2>4, <2>5, Zenon
<1> QED
  BY <1>10, <1>13, <1>14, <1>15, Zenon

\* The walk stands at attribute i of d.
At(d, i, r) ==
  /\ Walked(d.attrs, d.cut, i)
  /\ r = SubSeq(Body(d), Offset(d.attrs, i) + 1, Len(Body(d)))

LEMMA AtLength ==
  ASSUME NEW d, IsAnswer(d), NEW i, NEW r, At(d, i, r)
  PROVE  /\ d.attrs \in Seq(AttributeShape) /\ d.cut \in Nat /\ i \in 1..(Len(d.attrs) + 1)
         /\ Offset(d.attrs, i) \in 0..d.cut /\ Len(r) = d.cut - Offset(d.attrs, i)
         /\ \A x \in 1..Len(r) : r[x] = Body(d)[Offset(d.attrs, i) + x]
<1>1. d.attrs \in Seq(AttributeShape) /\ d.cut \in 0..Total(Extent(d.attrs))
  BY Zenon DEF IsAnswer
<1>2. i \in 1..(Len(d.attrs) + 1) /\ Offset(d.attrs, i) <= d.cut
  BY Zenon DEF At, Walked
<1>3. PICK o \in Nat, b \in Seq(Octet) : o = Offset(d.attrs, i) /\ b = Body(d)
  BY <1>1, <1>2, OffsetIs, BodyIs, Zenon
<1>4. PICK c : c = d.cut
  OBVIOUS
<1>5. Len(b) = c /\ o <= c /\ r = SubSeq(b, o + 1, Len(b))
  BY <1>2, <1>3, <1>4, BodyIs, Zenon DEF At
<1>6. c \in Nat /\ o \in 0..Len(b) /\ 0 \in 0..(Len(b) - o)
  BY <1>3, <1>5
<1>7. Len(r) = Len(b) - o /\ \A x \in 1..(Len(b) - o) : r[x] = b[o + x]
  BY <1>3, <1>5, <1>6, Dropped, Zenon
<1> QED
  BY <1>1, <1>2, <1>3, <1>4, <1>5, <1>6, <1>7, Zenon

\* What find_error_code reads there are the fields of attribute i.
Holds(a, r) ==
  /\ r[1] * 256 + r[2] = a.type /\ r[3] * 256 + r[4] = a.len
  /\ a.len >= 4 /\ ~(Len(r) < 4 + a.len) => r[7] = a.class /\ r[8] = a.number

LEMMA AtFields ==
  ASSUME NEW d, IsAnswer(d), NEW i \in 1..Len(d.attrs), NEW r, At(d, i, r), ~(Len(r) < 4)
  PROVE  Holds(d.attrs[i], r)
<1> DEFINE a == d.attrs[i]
           o == Offset(d.attrs, i)
<1>1. /\ d.attrs \in Seq(AttributeShape) /\ d.cut \in Nat /\ o \in 0..d.cut
      /\ Len(r) = d.cut - o /\ \A x \in 1..Len(r) : r[x] = Body(d)[o + x]
  <2>1. d.attrs \in Seq(AttributeShape) /\ d.cut \in Nat /\ o \in 0..d.cut /\ Len(r) = d.cut - o
    BY AtLength, Zenon
  <2>2. \A x \in 1..Len(r) : r[x] = Body(d)[o + x]
    <3> TAKE x \in 1..Len(r)
    <3>1. r[x] = Body(d)[Offset(d.attrs, i) + x]
      BY AtLength
    <3> QED
      BY <3>1
  <2> QED
    BY <2>1, <2>2, Zenon
<1>2. a \in AttributeShape /\ a.len \in Nat /\ Padded(a.len) \in Nat /\ Padded(a.len) >= a.len
  BY <1>1, LengthIs, Zenon
<1>3. PICK k \in Nat, p \in Nat, l \in Nat, c \in Nat :
        k = Len(r) /\ p = Padded(a.len) /\ l = a.len /\ c = d.cut
  <2>1. Len(r) \in Nat
    <3>1. PICK q, c : q = o /\ c = d.cut
      OBVIOUS
    <3>2. c \in Nat /\ q \in 0..c /\ Len(r) = c - q
      BY <1>1, <3>1, Zenon
    <3> QED
      BY <3>2
  <2> QED
    BY <1>1, <1>2, <2>1, Zenon
<1>4. ASSUME NEW x \in 1..(4 + p), x <= k PROVE r[x] = Attribute(a)[x]
  <2>1. x \in 1..k
    BY <1>4
  <2>2. o + x <= c
    <3>1. PICK q : q = o
      OBVIOUS
    <3>2. q \in 0..c /\ k = c - q
      BY <1>1, <1>3, <3>1, Zenon
    <3>3. q + x <= c
      BY <1>4, <3>2
    <3> QED
      BY <3>1, <3>3, Zenon
  <2>3. Body(d)[o + x] = Attribute(a)[x]
    BY <1>3, <2>2, BodyIs, Zenon
  <2> QED
    BY <1>1, <1>3, <2>1, <2>3, Zenon
<1>5. Fields(a, Attribute(a))
  BY <1>2, AttributeIs, Zenon
<1>6. 1 \in 1..(4 + p) /\ 2 \in 1..(4 + p) /\ 3 \in 1..(4 + p) /\ 4 \in 1..(4 + p)
      /\ ~(k < 4) /\ 1 <= k /\ 2 <= k /\ 3 <= k /\ 4 <= k
  <2>1. ~(k < 4)
    BY <1>3, Zenon
  <2> QED
    BY <2>1
<1>7. r[1] = 0 /\ r[2] = a.type /\ r[3] = 0 /\ r[4] = a.len
  BY <1>4, <1>5, <1>6, Zenon DEF Fields
<1>8. r[1] * 256 + r[2] = a.type /\ r[3] * 256 + r[4] = a.len
  <2>1. a.type \in Int
    <3>1. a.type \in Octet
      BY <1>2 DEF AttributeShape
    <3>2. Octet \subseteq Int
      BY DEF Octet
    <3> QED
      BY <3>1, <3>2, Zenon
  <2>2. \A y \in Int : 0 * 256 + y = y
    OBVIOUS
  <2>3. a.len \in Int
    BY <1>2
  <2> QED
    BY <1>7, <2>1, <2>2, <2>3, ZenonT(40)
<1>9. ASSUME a.len >= 4, ~(Len(r) < 4 + a.len) PROVE r[7] = a.class /\ r[8] = a.number
  <2>1. l >= 4 /\ ~(k < 4 + l) /\ p >= l
    BY <1>2, <1>3, <1>9, Zenon
  <2>2. 7 \in 1..(4 + p) /\ 8 \in 1..(4 + p) /\ 7 <= k /\ 8 <= k
    BY <2>1
  <2> QED
    BY <1>4, <1>5, <1>9, <2>2, Zenon DEF Fields
<1> QED
  BY <1>8, <1>9, Zenon DEF Holds

\* One turn of find_error_code, by what it reads first.
LEMMA WalkAttrIs ==
  ASSUME WalkAttr, NEW type, NEW len, ~(Len(rest) < 4) =>
           type = rest[1] * 256 + rest[2] /\ len = rest[3] * 256 + rest[4]
  PROVE  \/ Len(rest) < 4 /\ Finish("missing")
         \/ ~(Len(rest) < 4) /\ Len(rest) < 4 + len /\ Finish("overrun")
         \/ /\ ~(Len(rest) < 4) /\ ~(Len(rest) < 4 + len) /\ type = 9
            /\ Finish(IF len < 4 THEN "short"
                      ELSE IF (rest[7] % 8) * 100 + rest[8] = 401 THEN "reached" ELSE "code")
         \/ /\ ~(Len(rest) < 4) /\ ~(Len(rest) < 4 + len) /\ type # 9
            /\ Len(rest) < Padded(4 + len) /\ Finish("missing")
         \/ /\ ~(Len(rest) < 4) /\ ~(Len(rest) < 4 + len) /\ type # 9
            /\ ~(Len(rest) < Padded(4 + len))
            /\ rest' = SubSeq(rest, Padded(4 + len) + 1, Len(rest)) /\ UNCHANGED <<pc, out>>
<1>1. CASE Len(rest) < 4
  BY <1>1, Zenon DEF WalkAttr
<1>2. CASE ~(Len(rest) < 4)
  <2>1. type = rest[1] * 256 + rest[2] /\ len = rest[3] * 256 + rest[4]
    BY <1>2, Zenon
  <2>2. CASE Len(rest) < 4 + len
    BY <1>2, <2>1, <2>2, Zenon DEF WalkAttr
  <2>3. CASE ~(Len(rest) < 4 + len) /\ type = 9
    BY <1>2, <2>1, <2>3, ZenonT(40) DEF WalkAttr
  <2>4. CASE ~(Len(rest) < 4 + len) /\ type # 9
    BY <1>2, <2>1, <2>4, ZenonT(40) DEF WalkAttr, Skipped
  <2> QED
    BY <2>2, <2>3, <2>4, Zenon
<1> QED
  BY <1>1, <1>2, Zenon

\* The walk goes on to the next attribute, or ends with the expected verdict.
LEMMA WalkStep ==
  ASSUME WalkAttr, NEW d, IsAnswer(d), NEW i, At(d, i, rest)
  PROVE  \/ pc' = "done" /\ out' = Expected(d.attrs, d.cut)
         \/ UNCHANGED <<pc, out>> /\ At(d, i + 1, rest')
<1>1. PICK attrs, cut, o, n : attrs = d.attrs /\ cut = d.cut /\ o = Offset(d.attrs, i) /\ n = Len(rest)
  OBVIOUS
<1>2. /\ attrs \in Seq(AttributeShape) /\ cut \in Nat /\ i \in 1..(Len(attrs) + 1)
      /\ o \in 0..cut /\ n = cut - o /\ o = Offset(attrs, i) /\ Walked(attrs, cut, i)
  <2>1. /\ d.attrs \in Seq(AttributeShape) /\ d.cut \in Nat /\ i \in 1..(Len(d.attrs) + 1)
        /\ Offset(d.attrs, i) \in 0..d.cut /\ Len(rest) = d.cut - Offset(d.attrs, i)
    BY AtLength, Zenon
  <2> QED
    BY <1>1, <2>1, Zenon DEF At
<1>3. CASE i > Len(attrs)
  <2>1. i = Len(attrs) + 1
    BY <1>2, <1>3
  <2>2. cut \in 0..o
    <3>1. Total(Extent(attrs)) = o
      BY <1>2, <2>1, OffsetIs, Zenon
    <3> QED
      BY <1>1, <3>1, Zenon DEF IsAnswer
  <2>3. n < 4
    BY <1>2, <2>2
  <2>4. pc' = "done" /\ out' = "missing"
    BY <1>1, <2>3, Zenon DEF WalkAttr, Finish
  <2>5. Expected(attrs, cut) = "missing"
    BY <1>2, <1>3, MissingExpected, Zenon
  <2> QED
    BY <1>1, <2>4, <2>5, Zenon
<1>4. CASE ~(i > Len(attrs))
  <2>1. i \in 1..Len(attrs)
    BY <1>2, <1>4
  <2>2. PICK a : a = attrs[i]
    OBVIOUS
  <2>3. PICK l \in Nat, p \in Nat, next \in Nat, end \in Nat :
          l = a.len /\ p = Padded(a.len) /\ next = Offset(attrs, i + 1) /\ end = Ends(attrs, i)
    <3>1. i + 1 \in 1..(Len(attrs) + 1)
      BY <2>1
    <3> QED
      BY <1>2, <2>1, <2>2, <3>1, LengthIs, OffsetIs, OffsetNext, Zenon
  <2>4. /\ Padded(4 + l) = 4 + p /\ next = o + (4 + p) /\ end = o + 4 + l
    BY <1>2, <2>1, <2>2, <2>3, PaddedIs, OffsetNext, Zenon DEF Ends
  <2>5. ~(n < 4) => a.type = rest[1] * 256 + rest[2] /\ l = rest[3] * 256 + rest[4]
    <3> SUFFICES ASSUME ~(n < 4)
                 PROVE  a.type = rest[1] * 256 + rest[2] /\ l = rest[3] * 256 + rest[4]
      OBVIOUS
    <3>1. ~(Len(rest) < 4) /\ a = d.attrs[i] /\ i \in 1..Len(d.attrs)
      BY <1>1, <2>1, <2>2, Zenon
    <3>2. rest[1] * 256 + rest[2] = a.type /\ rest[3] * 256 + rest[4] = a.len
      <4>1. Holds(d.attrs[i], rest)
        BY <3>1, AtFields
      <4> QED
        BY <3>1, <4>1, Zenon DEF Holds
    <3> QED
      BY <2>3, <3>2, Zenon
  <2>6. /\ n < 4 <=> cut < o + 4
        /\ n < 4 + l <=> cut < end
        /\ n < 4 + p <=> cut < next
    <3>1. cut \in Nat /\ o \in 0..cut /\ n = cut - o
      BY <1>2, Zenon
    <3>2. next = o + (4 + p) /\ end = o + 4 + l
      BY <2>4, Zenon
    <3>3. n \in Int /\ o \in Nat
      BY <3>1
    <3> QED
      BY <3>1, <3>2, <3>3
  <2>7. CASE n < 4
    <3>1. pc' = "done" /\ out' = "missing"
      BY <1>1, <2>7, Zenon DEF WalkAttr, Finish
    <3>2. cut < Offset(attrs, i) + 4
      BY <1>2, <2>6, <2>7, Zenon
    <3>3. Expected(attrs, cut) = "missing"
      BY <1>2, <3>2, MissingExpected, Zenon
    <3> QED
      BY <1>1, <3>1, <3>3, Zenon
  <2>8. CASE ~(n < 4)
    <3>0. \/ n < 4 + l /\ Finish("overrun")
          \/ /\ ~(n < 4 + l) /\ a.type = 9
             /\ Finish(IF l < 4 THEN "short"
                       ELSE IF (rest[7] % 8) * 100 + rest[8] = 401 THEN "reached" ELSE "code")
          \/ /\ ~(n < 4 + l) /\ a.type # 9 /\ n < 4 + p /\ Finish("missing")
          \/ /\ ~(n < 4 + l) /\ a.type # 9 /\ ~(n < 4 + p)
             /\ rest' = SubSeq(rest, (4 + p) + 1, n) /\ UNCHANGED <<pc, out>>
      <4>1. ~(Len(rest) < 4) => a.type = rest[1] * 256 + rest[2] /\ l = rest[3] * 256 + rest[4]
        BY <1>1, <2>5, Zenon
      <4>2. n = Len(rest) /\ Padded(4 + l) = 4 + p
        BY <1>1, <2>4, Zenon
      <4>3. PICK y : y = a.type
        OBVIOUS
      <4>4. ~(Len(rest) < 4) => y = rest[1] * 256 + rest[2] /\ l = rest[3] * 256 + rest[4]
        BY <4>1, <4>3, Zenon
      <4>5. \/ Len(rest) < 4 /\ Finish("missing")
            \/ ~(Len(rest) < 4) /\ Len(rest) < 4 + l /\ Finish("overrun")
            \/ /\ ~(Len(rest) < 4) /\ ~(Len(rest) < 4 + l) /\ y = 9
               /\ Finish(IF l < 4 THEN "short"
                         ELSE IF (rest[7] % 8) * 100 + rest[8] = 401 THEN "reached" ELSE "code")
            \/ /\ ~(Len(rest) < 4) /\ ~(Len(rest) < 4 + l) /\ y # 9
               /\ Len(rest) < Padded(4 + l) /\ Finish("missing")
            \/ /\ ~(Len(rest) < 4) /\ ~(Len(rest) < 4 + l) /\ y # 9
               /\ ~(Len(rest) < Padded(4 + l))
               /\ rest' = SubSeq(rest, Padded(4 + l) + 1, Len(rest)) /\ UNCHANGED <<pc, out>>
        BY <4>4, WalkAttrIs, ZenonT(40)
      <4> QED
        BY <2>8, <4>2, <4>3, <4>5, Zenon
    <3>1. CASE n < 4 + l /\ Finish("overrun")
      <4>1. cut < Ends(attrs, i) /\ ~(cut < Offset(attrs, i) + 4)
        BY <1>2, <2>3, <2>6, <2>8, <3>1, Zenon
      <4>2. Expected(attrs, cut) = "overrun"
        BY <1>2, <1>4, <4>1, OverrunExpected, Zenon
      <4> QED
        BY <1>1, <3>1, <4>2, Zenon DEF Finish
    <3>2. CASE /\ ~(n < 4 + l) /\ a.type = 9
               /\ Finish(IF l < 4 THEN "short"
                         ELSE IF (rest[7] % 8) * 100 + rest[8] = 401 THEN "reached" ELSE "code")
      <4>1. ~(cut < Ends(attrs, i))
        BY <2>3, <2>6, <3>2, Zenon
      <4>2. Expected(attrs, cut) = Judged(a)
        <5>1. attrs[i].type = 9
          BY <2>2, <3>2, Zenon
        <5>2. Expected(attrs, cut) = Judged(attrs[i])
          BY <1>2, <1>4, <4>1, <5>1, CodeExpected, Zenon
        <5> QED
          BY <2>2, <5>2, Zenon
      <4>3. ~(l < 4) => (rest[7] % 8) * 100 + rest[8] = 100 * (a.class % 8) + a.number
        <5>1. ~(l < 4) => a.len >= 4 /\ ~(Len(rest) < 4 + a.len)
          <6>1. ~(l < 4) => l >= 4
            OBVIOUS
          <6> QED
            BY <1>1, <2>3, <3>2, <6>1, Zenon
        <5>2. ~(l < 4) => rest[7] = a.class /\ rest[8] = a.number
          <6> SUFFICES ASSUME ~(l < 4) PROVE rest[7] = a.class /\ rest[8] = a.number
            OBVIOUS
          <6>1. /\ ~(Len(rest) < 4) /\ a = d.attrs[i] /\ i \in 1..Len(d.attrs)
                /\ a.len >= 4 /\ ~(Len(rest) < 4 + a.len)
            BY <1>1, <2>1, <2>2, <2>8, <5>1, Zenon
          <6>2. Holds(d.attrs[i], rest)
            BY <6>1, AtFields
          <6> QED
            BY <6>1, <6>2, Zenon DEF Holds
        <5>3. \A x \in Octet : (x % 8) * 100 = 100 * (x % 8)
          BY DEF Octet
        <5>4. a.class \in Octet
          <6>1. a \in AttributeShape
            BY <1>2, <2>1, <2>2, LengthIs, Zenon
          <6> QED
            BY <6>1 DEF AttributeShape
        <5> QED
          BY <5>2, <5>3, <5>4, Zenon
      <4>4. Judged(a) = IF l < 4 THEN "short"
                        ELSE IF (rest[7] % 8) * 100 + rest[8] = 401 THEN "reached" ELSE "code"
        BY <2>3, <4>3, Zenon DEF Judged
      <4> QED
        BY <1>1, <3>2, <4>2, <4>4, Zenon DEF Finish
    <3>3. CASE /\ ~(n < 4 + l) /\ a.type # 9 /\ n < 4 + p /\ Finish("missing")
      <4>1. attrs[i].type # 9 /\ ~(cut < Ends(attrs, i)) /\ cut < Offset(attrs, i + 1)
        BY <2>2, <2>3, <2>6, <3>3, Zenon
      <4>2. Expected(attrs, cut) = "missing"
        BY <1>2, <4>1, MissingExpected, Zenon
      <4> QED
        BY <1>1, <3>3, <4>2, Zenon DEF Finish
    <3>4. CASE /\ ~(n < 4 + l) /\ a.type # 9 /\ ~(n < 4 + p)
               /\ rest' = SubSeq(rest, (4 + p) + 1, n) /\ UNCHANGED <<pc, out>>
      <4>1. i + 1 \in 1..(Len(attrs) + 1) /\ \A j \in 1..Len(attrs) : j < i + 1 => j < i \/ j = i
        BY <2>1
      <4>2. next <= cut
        <5>1. ~(cut < next)
          BY <2>6, <3>4, Zenon
        <5> QED
          BY <1>2, <5>1
      <4>3. Walked(attrs, cut, i + 1)
        BY <1>2, <2>2, <2>3, <3>4, <4>1, <4>2, Zenon DEF Walked
      <4>4. PICK b : b = Body(d)
        OBVIOUS
      <4>5. b \in Seq(Octet) /\ Len(b) = cut /\ rest = SubSeq(b, o + 1, Len(b))
        BY <1>1, <4>4, BodyIs, Zenon DEF At
      <4>6. o \in 0..Len(b) /\ 4 + p \in 0..(Len(b) - o) /\ n = Len(b) - o
        <5>1. cut \in Nat /\ o \in 0..cut /\ n = cut - o /\ next = o + (4 + p) /\ Len(b) = cut
          BY <1>2, <2>4, <4>5, Zenon
        <5>2. o \in 0..cut /\ 4 + p \in 0..(cut - o) /\ n = cut - o
          BY <4>2, <5>1
        <5> QED
          BY <5>1, <5>2, Zenon
      <4>7. SubSeq(SubSeq(b, o + 1, Len(b)), (4 + p) + 1, Len(b) - o) = SubSeq(b, (o + (4 + p)) + 1, Len(b))
        BY <4>5, <4>6, Dropped, Zenon
      <4>8. rest' = SubSeq(b, next + 1, Len(b))
        BY <2>4, <3>4, <4>5, <4>6, <4>7, Zenon
      <4>9. At(d, i + 1, rest')
        BY <1>1, <2>3, <4>3, <4>4, <4>8, Zenon DEF At
      <4> QED
        BY <3>4, <4>9, Zenon
    <3> QED
      BY <3>0, <3>1, <3>2, <3>3, <3>4, Zenon
  <2> QED
    BY <2>7, <2>8, Zenon
<1> QED
  BY <1>3, <1>4, Zenon

\* A walk begins at the first attribute.
LEMMA WalkStart ==
  ASSUME NEW d, IsAnswer(d)
  PROVE  At(d, 1, Body(d))
<1>1. PICK b : b = Body(d)
  OBVIOUS
<1>2. d.attrs \in Seq(AttributeShape) /\ b \in Seq(Octet) /\ Len(b) = d.cut
  BY <1>1, BodyIs, Zenon DEF IsAnswer
<1>3. Offset(d.attrs, 1) = 0
  BY <1>2, OffsetIs, Zenon
<1>4. /\ 1 \in 1..(Len(d.attrs) + 1) /\ 0 <= Len(b) /\ b = SubSeq(b, 0 + 1, Len(b))
      /\ \A j \in 1..Len(d.attrs) : ~(j < 1)
  BY <1>2
<1>5. Walked(d.attrs, d.cut, 1)
  BY <1>2, <1>3, <1>4, Zenon DEF Walked
<1> QED
  BY <1>1, <1>3, <1>4, <1>5, Zenon DEF At

\* The walk stands at some attribute, and a walk that is over said what the
\* attributes and the cut make of the answer.
WalkInv ==
  cmd = "turn" =>
    /\ IsAnswer(detail)
    /\ pc = "walk" => \E i \in 1..(Len(detail.attrs) + 1) : At(detail, i, rest)
    /\ pc = "done" /\ dialled # <<>> => out = Expected(detail.attrs, detail.cut)

LEMMA WalkInit == Init => WalkInv
<1> SUFFICES ASSUME Init, cmd = "turn" PROVE WalkInv
  BY Zenon DEF WalkInv
<1>1. PICK job \in JobsOf(cmd) : target = job.target /\ detail = job.detail
  BY Zenon DEF Init
<1>2. IsAnswer(detail)
  BY <1>1, SetupAssumption, Zenon DEF Init, SetupAssumption
<1>3. pc = "start"
  BY Zenon DEF Init
<1> QED
  BY <1>2, <1>3, Zenon DEF WalkInv

LEMMA WalkKept ==
  ASSUME SetupInv, WalkInv, [Next]_vars
  PROVE  WalkInv'
<1>0. detail' = detail /\ cmd' = cmd
  BY InputKept, Zenon
<1> SUFFICES ASSUME cmd = "turn" PROVE WalkInv'
  BY <1>0, Zenon DEF WalkInv
<1>1. IsAnswer(detail)
  BY Zenon DEF WalkInv
<1>2. pc \in {"start", "prepare", "encode", "dial"} => dialled = <<>>
  BY Zenon DEF SetupInv, Chained
<1>3. CASE WalkAttr
  <2>1. PICK i : At(detail, i, rest)
    BY <1>3, Zenon DEF WalkInv, WalkAttr
  <2>2. \/ pc' = "done" /\ out' = Expected(detail.attrs, detail.cut)
        \/ UNCHANGED <<pc, out>> /\ At(detail, i + 1, rest')
    BY <1>1, <1>3, <2>1, WalkStep, Zenon
  <2>3. pc = "walk"
    BY <1>3, Zenon DEF WalkAttr
  <2>4. At(detail, i + 1, rest') => i + 1 \in 1..(Len(detail.attrs) + 1)
    BY Zenon DEF At, Walked
  <2> QED
    BY <1>0, <1>1, <2>2, <2>3, <2>4, Zenon DEF WalkInv
<1>4. CASE \E fam \in {"v4", "v6"} : Dial(fam)
  <2>1. pc' = "walk" /\ rest' = Body(detail)
    BY <1>4, Zenon DEF Dial
  <2>2. At(detail, 1, rest')
    BY <1>1, <2>1, WalkStart, Zenon
  <2>3. 1 \in 1..(Len(detail.attrs) + 1)
    BY <2>2, Zenon DEF At, Walked
  <2> QED
    BY <1>0, <1>1, <2>1, <2>2, <2>3, Zenon DEF WalkInv
<1>5. CASE Follow
  BY <1>5, Zenon DEF Follow, SetupInv, Staged
<1>6. CASE Done \/ UNCHANGED vars
  <2>1. UNCHANGED <<cmd, detail, pc, rest, dialled, out>>
    BY <1>6, Zenon DEF Done, vars
  <2> QED
    BY <2>1, Zenon DEF WalkInv
<1>7. CASE Quiet /\ pc \in {"start", "prepare", "encode", "dial"}
  <2>1. dialled' = <<>> /\ pc' # "walk"
    BY <1>2, <1>7, Zenon DEF Quiet
  <2> QED
    BY <1>0, <1>1, <2>1, Zenon DEF WalkInv
<1>8. CASE LookUp \/ Tool \/ Prepare \/ EncodeLabel \/ EncodeEnd \/ Refused
  <2>1. pc \in {"start", "prepare", "encode", "dial"}
    BY <1>8, Zenon DEF LookUp, Tool, Prepare, EncodeLabel, EncodeEnd, Refused, SetupInv, Staged
  <2> QED
    BY <1>7, <1>8, <2>1, LookUpQuiet, ToolQuiet, PrepareQuiet, EncodeLabelQuiet, EncodeEndQuiet,
       RefusedQuiet, Zenon
<1> QED
  BY <1>3, <1>4, <1>5, <1>6, <1>8, Zenon DEF Next

\* find_error_code judges a TURN answer by its first ERROR-CODE, for answers
\* of any number of attributes, cut at any byte.
THEOREM TurnCorrect == Spec => []TurnVerdictIsFirst
<1>1. WalkInv => TurnVerdictIsFirst
  BY Zenon DEF WalkInv, TurnVerdictIsFirst
<1>2. SetupInv /\ WalkInv /\ [Next]_vars => WalkInv'
  BY WalkKept
<1> QED
  BY <1>1, <1>2, WalkInit, SetupInvariant, PTL DEF Spec
=============================================================================
