------------------------------ MODULE ProbeSetup ------------------------------
(***************************************************************************)
(* One ping from the command line or from a tool call, as far as the       *)
(* program's own computations go: the target becomes the banner and the    *)
(* address that is dialled, a DNS name becomes a question, the attributes  *)
(* of a TURN answer become a verdict, and the URLs of HLS playlists are    *)
(* followed.  What travels over the network is chosen in Init.             *)
(***************************************************************************)
EXTENDS Targets, Sums

CONSTANTS
  Commands,       \* the subcommands under study
  JobsOf(_),      \* what a subcommand is given: a target, and a name (dns),
                  \* an answer (turn) or two playlists (hls)
  Answers,        \* what the resolver may say: sequences of address families
  MaxLabel,       \* 63, scaled
  MaxName         \* 255, scaled

\* What the pieces of a target and the lines of a playlist are.  The line of
\* a relative reference is not empty, so it has a segment.
IsTarget(t) == t.port \in PortText /\ t.path \in Seq(STRING)
IsRef(r) ==
  /\ r.kind \in {"absolute", "rooted", "sibling", "none"}
  /\ r.kind = "absolute" => IsTarget(r.url)
  /\ r.kind \in {"rooted", "sibling"} => r.path \in Seq(STRING) \ {<<>>}
IsPlaylist(text) == text \in Seq(Range(text)) /\ \A i \in 1..Len(text) : IsRef(text[i].ref)

\* The attributes of a TURN answer: one byte of each field matters.  What is
\* received is the answer up to some byte of it.
Octet == 0..255
AttributeShape == [type : Octet, len : Octet, class : Octet, number : Octet]
Padded(n) == 4 * ((n + 3) \div 4)
Extent(attrs) == [i \in 1..Len(attrs) |-> 4 + Padded(attrs[i].len)]
IsAnswer(d) == d.attrs \in Seq(AttributeShape) /\ d.cut \in 0..Total(Extent(d.attrs))

ASSUME SetupAssumption ==
  /\ Commands \subseteq {"tcp", "udp", "http", "ws", "dns", "mqtt", "grpc", "hls", "tls",
                         "ntp", "stun", "turn", "rtsp", "rtmp", "quic"}
  /\ \A c \in Commands : \A job \in JobsOf(c) : IsTarget(job.target)
  /\ "hls" \in Commands =>
       \A job \in JobsOf("hls") : IsPlaylist(job.detail[1]) /\ IsPlaylist(job.detail[2])
  /\ "dns" \in Commands => \A job \in JobsOf("dns") : job.detail \in Seq(Nat)
  /\ "turn" \in Commands => \A job \in JobsOf("turn") : IsAnswer(job.detail)
  /\ Answers \subseteq Seq({"v4", "v6"})
  /\ MaxLabel \in Nat \ {0} /\ MaxName \in Nat \ {0}

VARIABLES
  front,    \* "cli" or "mcp"
  cmd, target, detail, answers,
  pc,
  banner,   \* the addresses main has printed
  url,      \* what is to be dialled next
  to,       \* the endpoint ping() computed from it
  via,      \* hls: what is being fetched, and the reference that led to it
  rest,     \* labels or attributes still to be worked on
  name,     \* the encoded question name
  dialled,  \* history: the URLs connected to, with their addresses
  out       \* how the ping ended

input == <<front, cmd, target, detail, answers>>
vars == <<front, cmd, target, detail, answers, pc, banner, url, to, via, rest, name, dialled, out>>

Datagram == {"udp", "dns", "ntp", "stun", "turn"}

Finish(o) == pc' = "done" /\ out' = o

----------------------------------------------------------------------------
(* Looking up and dialling *)

\* lookup_host; a literal is its own answer.
lookup_host(host) == IF host = V6 THEN <<"v6">> ELSE answers

Addresses(e) ==
  {[host |-> e.host, port |-> e.port, fam |-> f] : f \in Range(lookup_host(e.host))}

\* The first IPv4 address, or else the first of all.
resolve_first(s) == IF Contains(s, "v4") THEN "v4" ELSE Head(s)

\* The addresses a connect may end up with: QUIC has chosen one, and binds a
\* socket of its family; a UDP socket bound to 0.0.0.0 refuses the IPv6 ones
\* and takes the next; TcpStream::connect tries one after the other.  Nobody
\* is reached at port 0.
Reachable(e) ==
  LET s == lookup_host(e.host)
  IN  IF s = <<>> \/ e.port = 0 THEN {}
      ELSE IF cmd = "quic" THEN {resolve_first(s)}
      ELSE IF cmd \in Datagram THEN Range(s) \cap {"v4"}
      ELSE Range(s)

----------------------------------------------------------------------------
(* main, or the handler of a tool *)

\* main: build_pinger, the patched target, resolve, "DNS lookup".
LookUp ==
  /\ pc = "start" /\ front = "cli"
  /\ LET b == Banner(cmd, target)
     IN  IF b.does = "panic"
         THEN Finish("panic") /\ UNCHANGED banner
         ELSE /\ pc' = "prepare" /\ UNCHANGED out
              /\ banner' = IF b.does = "dial" THEN Addresses(b) ELSE {}
  /\ UNCHANGED <<input, url, to, via, rest, name, dialled>>

\* A tool builds its pinger and goes straight to run_pings.
Tool ==
  /\ pc = "start" /\ front = "mcp"
  /\ pc' = "prepare"
  /\ UNCHANGED <<input, banner, url, to, via, rest, name, dialled, out>>

----------------------------------------------------------------------------
(* ping() up to its connect *)

\* A name as the lengths of its labels; trailing dots are trimmed, and what
\* is left of "" or "..." is one empty label.
Trimmed(labels) ==
  LET full == {i \in 1..Len(labels) : labels[i] > 0}
  IN  IF full = {} THEN <<0>> ELSE SubSeq(labels, 1, Max(full))

Prepare ==
  /\ pc = "prepare"
  /\ LET e == Endpoint(cmd, url)
     IN  \/ /\ cmd = "dns" /\ detail = <<0>>          \* the empty query
            /\ Finish("badname") /\ UNCHANGED <<to, rest>>
         \/ /\ ~(cmd = "dns" /\ detail = <<0>>)
            /\ e.does \in {"err", "panic", "unknown"}
            /\ Finish(IF e.does = "err" THEN "badtarget" ELSE e.does)
            /\ UNCHANGED <<to, rest>>
         \/ /\ ~(cmd = "dns" /\ detail = <<0>>)
            /\ e.does = "dial"
            /\ pc' = IF cmd = "dns" THEN "encode" ELSE "dial"
            /\ rest' = IF cmd = "dns" THEN Trimmed(detail) ELSE rest
            /\ to' = e
            /\ UNCHANGED out
  /\ UNCHANGED <<input, banner, url, via, name, dialled>>

Label(n) == <<n>> \o [i \in 1..n |-> 0]

\* MUTANT of EncodeLabel: the limit of a label is off by one.
EncodeLabelLong ==
  /\ pc = "encode" /\ rest # <<>>
  /\ IF Head(rest) \in 1..(MaxLabel + 1)
     THEN name' = name \o Label(Head(rest)) /\ rest' = Tail(rest) /\ UNCHANGED <<pc, out>>
     ELSE Finish("badname") /\ UNCHANGED <<name, rest>>
  /\ UNCHANGED <<input, banner, url, to, via, dialled>>

\* encode_name: one turn of its loop.
EncodeLabel ==
  /\ pc = "encode" /\ rest # <<>>
  /\ IF Head(rest) \in 1..MaxLabel
     THEN name' = name \o Label(Head(rest)) /\ rest' = Tail(rest) /\ UNCHANGED <<pc, out>>
     ELSE Finish("badname") /\ UNCHANGED <<name, rest>>
  /\ UNCHANGED <<input, banner, url, to, via, dialled>>

\* encode_name: the root label and the limit of the whole.
EncodeEnd ==
  /\ pc = "encode" /\ rest = <<>>
  /\ name' = Append(name, 0)
  /\ IF Len(name') > MaxName THEN Finish("badname") ELSE pc' = "dial" /\ UNCHANGED out
  /\ UNCHANGED <<input, banner, url, to, via, rest, dialled>>

Hop(fam) ==
  [url |-> url, via |-> via, tls |-> to.tls,
   addr |-> [host |-> to.host, port |-> to.port, fam |-> fam]]

\* The bytes of a TURN answer's attributes, as many as were received.
Attribute(a) ==
  <<0, a.type, 0, a.len>>
    \o [i \in 1..Padded(a.len) |->
          CASE i = 3 /\ i <= a.len -> a.class
            [] i = 4 /\ i <= a.len -> a.number
            [] OTHER -> 0]

Body(d) == SubSeq(FlattenSeq([i \in 1..Len(d.attrs) |-> Attribute(d.attrs[i])]), 1, d.cut)

\* connect succeeds (for UDP: the address is set); the answer is at hand.
Dial(fam) ==
  /\ pc = "dial"
  /\ fam \in Reachable(to)
  /\ dialled' = Append(dialled, Hop(fam))
  /\ CASE cmd = "turn" -> pc' = "walk" /\ rest' = Body(detail) /\ UNCHANGED out
       [] cmd = "hls"  -> pc' = "follow" /\ UNCHANGED <<rest, out>>
       [] OTHER        -> Finish("reached") /\ UNCHANGED rest
  /\ UNCHANGED <<input, banner, url, to, via, name>>

\* No address, or none that answers; or an HLS fetch that has connected gets
\* a status other than 200 or 206, or a playlist that is no UTF-8.
Refused ==
  /\ pc \in {"dial", "follow"}
  /\ Finish("unreachable")
  /\ UNCHANGED <<input, banner, url, to, via, rest, name, dialled>>

----------------------------------------------------------------------------
(* turn.rs find_error_code *)

\* MUTANT of Skipped: the padding is forgotten.
SkippedUnpadded(total) == total

\* Attributes are padded to the nearest 4-byte boundary.
Skipped(total) == Padded(total)

\* One turn of the loop.
WalkAttr ==
  /\ pc = "walk"
  /\ IF Len(rest) < 4 THEN Finish("missing") /\ UNCHANGED rest
     ELSE LET attr_type == rest[1] * 256 + rest[2]
              attr_len  == rest[3] * 256 + rest[4]
              total     == 4 + attr_len
          IN  IF Len(rest) < total THEN Finish("overrun") /\ UNCHANGED rest
              ELSE IF attr_type = 9
              THEN /\ Finish(IF attr_len < 4 THEN "short"
                             ELSE IF (rest[7] % 8) * 100 + rest[8] = 401 THEN "reached" ELSE "code")
                   /\ UNCHANGED rest
              ELSE IF Len(rest) < Skipped(total) THEN Finish("missing") /\ UNCHANGED rest
              ELSE rest' = SubSeq(rest, Skipped(total) + 1, Len(rest)) /\ UNCHANGED <<pc, out>>
  /\ UNCHANGED <<input, banner, url, to, via, name, dialled>>

----------------------------------------------------------------------------
(* hls.rs ping: from the entry to the variant, if any, to the segment *)

Fetch(role, ref) == [role |-> role, ref |-> ref]

\* The fetch has succeeded: what its text says to fetch next.  Only the entry must
\* begin with #EXTM3U and only the entry may be a master; the segment's bytes
\* are not looked at.
Follow ==
  /\ pc = "follow"
  /\ LET text == detail[Len(dialled)]
         to_variant == via.role = "entry" /\ first_variant_url(text).kind # "none"
         ref == IF to_variant THEN first_variant_url(text) ELSE first_segment_url(text)
     IN  IF via.role = "segment"
         THEN Finish("reached") /\ UNCHANGED <<url, via>>
         ELSE IF via.role = "entry" /\ (text = <<>> \/ Head(text).tag # "#EXTM3U")
         THEN Finish("notplaylist") /\ UNCHANGED <<url, via>>
         ELSE IF ref.kind = "none"
         THEN Finish("nosegment") /\ UNCHANGED <<url, via>>
         ELSE /\ url' = resolve_relative(url, ref)
              /\ via' = Fetch(IF to_variant THEN "variant" ELSE "segment", ref)
              /\ pc' = "prepare" /\ UNCHANGED out
  /\ UNCHANGED <<input, banner, to, rest, name, dialled>>

----------------------------------------------------------------------------

Init ==
  /\ front \in {"cli", "mcp"} /\ cmd \in Commands
  /\ \E job \in JobsOf(cmd) : target = job.target /\ detail = job.detail
  /\ answers \in Answers
  /\ pc = "start" /\ banner = {} /\ url = target /\ to = Err
  /\ via = Fetch("entry", NoRef)
  /\ rest = <<>> /\ name = <<>> /\ dialled = <<>> /\ out = "none"

Done == pc = "done" /\ UNCHANGED vars

Next ==
  \/ LookUp \/ Tool \/ Prepare
  \/ EncodeLabel \/ EncodeEnd
  \/ \E fam \in {"v4", "v6"} : Dial(fam)
  \/ Refused
  \/ WalkAttr
  \/ Follow
  \/ Done

Spec == Init /\ [][Next]_vars

----------------------------------------------------------------------------
(* Properties *)

\* Every variable has its type; a ping that is done has said how it ended.
TypeOK ==
  /\ front \in {"cli", "mcp"} /\ cmd \in Commands
  /\ pc \in {"start", "prepare", "encode", "dial", "walk", "follow", "done"}
  /\ \A a \in banner : a.host # "" /\ a.port \in U16 /\ a.fam \in {"v4", "v6"}
  /\ to.port \in U16
  /\ out \in {"none", "panic", "unknown", "badtarget", "badname", "unreachable",
              "reached", "missing", "overrun", "short", "code", "notplaylist", "nosegment"}
  /\ pc = "done" <=> out # "none"

\* The TLS pinger ignores the scheme, the banner does not.
BannerGuesses == cmd = "tls" /\ HasColon(target) /\ target.port.n = 0
                   /\ to_ascii_lowercase(target.scheme) \notin {"https", "wss"}

\* The banner names the address the pinger then dials, for every subcommand,
\* scheme, spelling and port, though main and the pingers choose the default
\* port in different places.  (TlsPinger at a target with a colon and neither
\* port nor https: the banner says 80, the pinger dials 443.)
BannerIsDialled ==
  front = "cli" /\ dialled # <<>> /\ ~BannerGuesses => dialled[1].addr \in banner

\* A port from 1 to 65535 is dialled as written by all pingers, also when the
\* playlist's relative references are followed.
PortAsAsked ==
  \A i \in 1..Len(dialled) :
    LET asked == dialled[i].url.port.n
    IN  asked \in U16 /\ asked # 0 => dialled[i].addr.port = asked

\* What a DNS server reads: labels up to the first length 0, -1 if malformed.
Decoded(bytes) ==
  LET starts[i \in 1..Len(bytes) + 1] ==
        IF i > Len(bytes) \/ bytes[i] = 0 THEN <<>>
        ELSE IF bytes[i] > MaxLabel \/ i + bytes[i] + 1 > Len(bytes) THEN <<-1>>
        ELSE <<bytes[i]>> \o starts[i + bytes[i] + 1]
  IN  starts[1]

\* The limits of RFC 1035, for a name that is not the root.
WithinLimits(labels) ==
  /\ \A i \in 1..Len(labels) : labels[i] \in 1..MaxLabel
  /\ Total([i \in 1..Len(labels) |-> labels[i] + 1]) + 1 <= MaxName

\* The text ".": the name of the root, two empty labels.
Root == <<0, 0>>

\* What RFC 1035 allows; a trailing dot is part of how a name is written.
LegalName(labels) == labels = Root \/ WithinLimits(Trimmed(labels))

\* The name that goes out is read back as the name that was asked for, and
\* what is refused is ruled out by RFC 1035.  (The root "." is legal and is
\* refused all the same: encode_name trims it to the empty text, which splits
\* into one empty label.)
NameRoundTrips ==
  cmd = "dns" =>
    /\ pc = "dial" => Decoded(name) = Trimmed(detail) /\ LegalName(detail)
    /\ out = "badname" => detail = Root \/ ~LegalName(detail)

\* Where an attribute begins.
Offset(attrs, i) == Running(Extent(attrs))[i - 1]

\* The verdict, from the list of attributes and the place of the cut.
Expected(attrs, cut) ==
  LET n == Len(attrs)
      errors == {i \in 1..n : attrs[i].type = 9}
      e == IF errors = {} THEN n + 1 ELSE Min(errors)
      End(i) == Offset(attrs, i) + 4 + attrs[i].len
  IN  IF \E i \in 1..Min({e, n}) : Offset(attrs, i) + 4 <= cut /\ cut < End(i) THEN "overrun"
      ELSE IF e > n \/ cut < End(Min({e, n})) THEN "missing"
      ELSE IF attrs[e].len < 4 THEN "short"
      ELSE IF 100 * (attrs[e].class % 8) + attrs[e].number = 401 THEN "reached"
      ELSE "code"

\* A TURN answer cut anywhere (the buffer holds 255 bytes), with attributes of
\* any length before the ERROR-CODE, is judged by its first ERROR-CODE, never
\* by bytes that were cut off or that belong to another attribute.
TurnVerdictIsFirst ==
  cmd = "turn" /\ dialled # <<>> /\ pc = "done" => out = Expected(detail.attrs, detail.cut)

\* A relative reference stays on the server, port and scheme of the playlist
\* it was found in, and below that playlist's directory: the segment is looked
\* for beside the variant, not beside the entry.
RelativeStaysHome ==
  cmd = "hls" =>
    \A i \in 2..Len(dialled) :
      LET was == dialled[i - 1]
          is  == dialled[i]
          ref == is.via.ref
      IN  ref.kind # "absolute" =>
            /\ is.addr.host = was.addr.host /\ is.addr.port = was.addr.port /\ is.tls = was.tls
            /\ ref.kind = "sibling" /\ was.url.path # <<>>
                 => Front(is.url.path) = Front(was.url.path) \o Front(ref.path)

\* A ping of a stream that succeeds has fetched the entry, the variant exactly
\* if the entry is a master, and a segment: the reference that follows an
\* #EXTINF of the media playlist and no other.
HlsReachesSegment ==
  cmd = "hls" /\ out = "reached" =>
    LET n == Len(dialled)
        media == detail[n - 1]
        isMaster == first_variant_url(detail[1]).kind # "none"
    IN  /\ n = IF isMaster THEN 3 ELSE 2
        /\ \E i \in 2..Len(media) :
             /\ media[i].ref = dialled[n].via.ref
             /\ \E j \in 1..(i - 1) :
                  /\ media[j].tag = "#EXTINF"
                  /\ \A k \in j..(i - 1) : media[k].tag # ""

\* zpinger's README: `resolve` returns an empty Vec on failure "rather than
\* panicking": the banner never ends the program before its first connect.
ResolveNeverPanics == front = "cli" /\ dialled = <<>> => out # "panic"
=============================================================================
