--------------------------- MODULE HandshakeProofs ---------------------------
(***************************************************************************)
(* Proofs about the conversations, for a stranger that says any number of  *)
(* units.  HandshakeInv is inductive: what a pinger has heard spells the   *)
(* part of its script that leads to the read it is suspended in            *)
(* (Following), which needs to know which units can be under way (Typed).  *)
(* The pongs of the websocket pinger are counted relative to it: while the *)
(* server listens, what it has taken and what is under way to it, put      *)
(* together, only grow at the end, by what the pinger writes.              *)
(*                                                                         *)
(* What each row of the tables does is settled once, by ClientFits and     *)
(* ServerSpeaks; the steps cite only those two.                            *)
(***************************************************************************)
EXTENDS Handshake, SequenceTheorems, FiniteSetTheorems, TLAPS

AllProtocols == {"tcp", "rtsp", "rtmp", "mqtt", "ws",
                 "http", "post", "hls", "tls", "grpc", "watch"}

\* What a pinger may write.
Uttered(p) ==
  CASE p = "tcp"  -> {"byte"}
    [] p = "rtsp" -> {"OPTIONS", "headers"}
    [] p = "rtmp" -> {"C0", "C1", "C2"}
    [] p = "mqtt" -> {"CONNECT", "PINGREQ", "DISCONNECT"}
    [] p = "ws"   -> {"GET", "Ping", "Pong", "Close"}
    [] p \in {"http", "post"} -> {"request", "payload"}
    [] p = "hls"  -> {"GET", "fields"}
    [] p = "tls"  -> {"ClientHello", "Finished"}
    [] p = "grpc" -> {"Check"}
    [] p = "watch" -> {"Watch"}

\* Both ends write only what their tables say.
Typed ==
  /\ up \in Seq(Uttered(proto)) /\ served \in Seq(Uttered(proto))
  /\ down \in Seq(Vocabulary(proto)) /\ heard \in Seq(Vocabulary(proto))

\* The part of the script that leads to a read.
Told(at) ==
  CASE at = "pingresp" -> <<"CONNACK">>
    [] at = "pong" -> <<"101">>
    [] at \in {"first", "body"} -> <<"headers">>
    [] OTHER -> <<>>

Following ==
  /\ proto \notin {"tcp", "rtmp", "hls"} =>
       /\ client # "returned" => Spells(heard, Told(client))
       /\ out = "ok" => Spells(heard, Script(proto))
  /\ proto = "rtmp" =>
       /\ client \in {"dial", "write", "s0"} => heard = <<>>
       /\ client = "s1" => Len(heard) = 1 /\ Head(heard) = "S0"
       /\ client = "s2" => Len(heard) = 2 /\ Head(heard) = "S0"
       /\ out = "ok" => Len(heard) = 3 /\ Head(heard) = "S0"
  /\ proto = "hls" =>
       /\ client \in {"dial", "write", "head"} => heard = <<>>
       /\ client = "body" \/ out = "ok" => heard # <<>> /\ Head(heard) = "200"

HandshakeInv == TypeOK /\ Typed /\ Following

----------------------------------------------------------------------------
(* Sequences *)

LEMMA Tuples ==
  ASSUME NEW S
  PROVE  /\ <<>> \in Seq(S)
         /\ \A a \in S : <<a>> \in Seq(S)
         /\ \A a, b \in S : <<a, b>> \in Seq(S)
         /\ \A a, b, c \in S : <<a, b, c>> \in Seq(S)
OBVIOUS

\* A read takes from the front.
LEMMA Taken ==
  ASSUME NEW S, NEW s \in Seq(S), NEW n \in 1..Len(s)
  PROVE  /\ SubSeq(s, 1, n) \in Seq(S) /\ SubSeq(s, n + 1, Len(s)) \in Seq(S)
<1>1. Len(s) \in Nat /\ n \in Nat /\ n <= Len(s) /\ n + 1 \in Nat
  BY LenProperties
<1>2. (\A i \in 1..n : s[i] \in S) /\ (\A i \in (n + 1)..Len(s) : s[i] \in S)
  BY <1>1
<1> QED
  BY <1>1, <1>2, SubSeqProperties

\* The positions of a script of l units in a sequence of n.
Placed(s, w, at, n, l) ==
  /\ \A i, j \in 1..l : i < j => at[i] < at[j]
  /\ \A i \in 1..l : s[at[i]] = w[i]
  /\ \A k \in 1..n : s[k] \in Chatter \/ \E i \in 1..l : at[i] = k

LEMMA SpellsIs ==
  ASSUME NEW s, NEW w, NEW n, NEW l, Len(s) = n, Len(w) = l
  PROVE  Spells(s, w) <=> \E at \in [1..l -> 1..n] : Placed(s, w, at, n, l)
<1>1. Spells(s, w) <=> \E at \in [1..Len(w) -> 1..Len(s)] : Placed(s, w, at, Len(s), Len(w))
  BY Zenon DEF Spells, Placed
<1> QED
  BY <1>1

\* Scripts: the empty one, chatter, and one more unit.
LEMMA SpellsNothing == Spells(<<>>, <<>>)
<1>1. Len(<<>>) = 0
  BY EmptySeq
<1>2. PICK at : at \in [1..0 -> 1..0]
  <2>1. [i \in 1..0 |-> 0] \in [1..0 -> 1..0]
    OBVIOUS
  <2> QED
    BY <2>1, Zenon
<1>3. \A k \in 1..0 : FALSE
  OBVIOUS
<1>4. Placed(<<>>, <<>>, at, 0, 0)
  BY <1>3, Zenon DEF Placed
<1> QED
  BY <1>1, <1>2, <1>4, SpellsIs

LEMMA SpellsChatter ==
  ASSUME NEW S, NEW s \in Seq(S), NEW T, NEW w \in Seq(T), Spells(s, w),
         NEW m \in S, m \in Chatter, NEW t, t = Append(s, m)
  PROVE  Spells(t, w)
<1>0. PICK n, l : n = Len(s) /\ l = Len(w)
  BY Zenon
<1>1. n \in Nat /\ l \in Nat /\ Len(t) = n + 1 /\ t[n + 1] = m /\ \A k \in 1..n : t[k] = s[k]
  BY <1>0
<1>2. PICK at \in [1..l -> 1..n] : Placed(s, w, at, n, l)
  BY <1>0, SpellsIs, Zenon
<1>3. at \in [1..l -> 1..(n + 1)] /\ \A i \in 1..l : at[i] \in 1..n
  BY <1>1
<1>4. \A i \in 1..l : t[at[i]] = w[i]
  BY <1>1, <1>2, <1>3, Zenon DEF Placed
<1>5. ASSUME NEW k \in 1..(n + 1) PROVE t[k] \in Chatter \/ \E i \in 1..l : at[i] = k
  <2>1. k \in 1..n \/ k = n + 1
    BY <1>1
  <2> QED
    BY <1>1, <1>2, <2>1, Zenon DEF Placed
<1>6. Placed(t, w, at, n + 1, l)
  BY <1>2, <1>4, <1>5, Zenon DEF Placed
<1> QED
  BY <1>0, <1>1, <1>3, <1>6, SpellsIs, Zenon

LEMMA SpellsNext ==
  ASSUME NEW S, NEW s \in Seq(S), NEW T, NEW w \in Seq(T), Spells(s, w),
         NEW m \in S, m \in T, NEW t, t = Append(s, m), NEW v, v = Append(w, m)
  PROVE  Spells(t, v)
<1>0. PICK n, l : n = Len(s) /\ l = Len(w)
  BY Zenon
<1>1. /\ n \in Nat /\ l \in Nat
      /\ Len(t) = n + 1 /\ t[n + 1] = m /\ \A k \in 1..n : t[k] = s[k]
      /\ Len(v) = l + 1 /\ v[l + 1] = m /\ \A k \in 1..l : v[k] = w[k]
  BY <1>0
<1>2. PICK at \in [1..l -> 1..n] : Placed(s, w, at, n, l)
  BY <1>0, SpellsIs, Zenon
<1> DEFINE to == [i \in 1..(l + 1) |-> IF i = l + 1 THEN n + 1 ELSE at[i]]
<1>3. /\ \A i \in 1..l : i \in 1..(l + 1) /\ i # l + 1
      /\ \A i \in 1..(l + 1) : i \in 1..l \/ i = l + 1
      /\ \A k \in 1..(n + 1) : k \in 1..n \/ k = n + 1
      /\ l + 1 \in 1..(l + 1) /\ n + 1 \in 1..(n + 1)
  BY <1>1
<1>4. to[l + 1] = n + 1 /\ \A i \in 1..l : to[i] = at[i] /\ at[i] \in 1..n
  BY <1>3
<1>5. to \in [1..(l + 1) -> 1..(n + 1)]
  BY <1>1
<1> HIDE DEF to
<1>6. ASSUME NEW i \in 1..(l + 1), NEW j \in 1..(l + 1), i < j PROVE to[i] < to[j]
  <2>1. i \in 1..l
    BY <1>1, <1>6
  <2>2. CASE j \in 1..l
    BY <1>2, <1>4, <1>6, <2>1, <2>2 DEF Placed
  <2>3. CASE j = l + 1
    <3>1. to[i] \in 1..n /\ to[j] = n + 1
      BY <1>4, <2>1, <2>3
    <3> QED
      BY <1>1, <3>1
  <2> QED
    BY <1>3, <2>2, <2>3
<1>7. ASSUME NEW i \in 1..(l + 1) PROVE t[to[i]] = v[i]
  <2>1. CASE i \in 1..l
    <3>1. to[i] = at[i] /\ at[i] \in 1..n /\ s[at[i]] = w[i] /\ v[i] = w[i]
      BY <1>1, <1>2, <1>4, <2>1, Zenon DEF Placed
    <3>2. t[at[i]] = s[at[i]]
      BY <1>1, <3>1, Zenon
    <3> QED
      BY <3>1, <3>2, Zenon
  <2>2. CASE i = l + 1
    BY <1>1, <1>4, <2>2, Zenon
  <2> QED
    BY <1>3, <2>1, <2>2
<1>8. ASSUME NEW k \in 1..(n + 1) PROVE t[k] \in Chatter \/ \E i \in 1..(l + 1) : to[i] = k
  <2>1. CASE k \in 1..n
    BY <1>1, <1>2, <1>3, <1>4, <2>1, Zenon DEF Placed
  <2>2. CASE k = n + 1
    BY <1>3, <1>4, <2>2, Zenon
  <2> QED
    BY <1>3, <2>1, <2>2
<1>9. Placed(t, v, to, n + 1, l + 1)
  BY <1>6, <1>7, <1>8, Zenon DEF Placed
<1> QED
  BY <1>1, <1>5, <1>9, SpellsIs, Zenon

\* One more unit is counted once.
Tallied(m, s, x, t) ==
  /\ Times(m, s) \in Nat
  /\ x = m => Times(m, t) = Times(m, s) + 1
  /\ x # m => Times(m, t) = Times(m, s)

LEMMA TimesNext ==
  ASSUME NEW S, NEW s \in Seq(S), NEW x \in S, NEW m, NEW t, t = Append(s, x)
  PROVE  Tallied(m, s, x, t)
<1> DEFINE n == Len(s)
           I == {i \in 1..n : s[i] = m}
           J == {i \in 1..(n + 1) : t[i] = m}
<1>0. /\ n \in Nat /\ Len(t) = n + 1 /\ t[n + 1] = x /\ \A k \in 1..n : t[k] = s[k]
  OBVIOUS
<1> HIDE DEF n
<1>1. IsFiniteSet(1..n)
  BY <1>0, FS_Interval
<1>2. IsFiniteSet(I) /\ Cardinality(I) \in Nat
  <2>1. I \subseteq 1..n
    OBVIOUS
  <2> HIDE DEF I
  <2> QED
    BY <1>1, <2>1, FS_Subset, FS_CardinalityType
<1>3. Times(m, s) = Cardinality(I) /\ Times(m, t) = Cardinality(J)
  BY <1>0, Zenon DEF Times, n
<1>4. /\ \A i \in 1..(n + 1) : i \in 1..n \/ i = n + 1
      /\ \A i \in 1..n : i \in 1..(n + 1) /\ i # n + 1
      /\ n + 1 \in 1..(n + 1) /\ n + 1 \notin 1..n
  BY <1>0
<1>5. CASE x = m
  <2>1. J = I \cup {n + 1}
    BY <1>0, <1>4, <1>5, Zenon
  <2>2. n + 1 \notin I
    BY <1>4
  <2> HIDE DEF I, J
  <2>3. Cardinality(I \cup {n + 1}) = Cardinality(I) + 1
    BY <1>2, <2>2, FS_AddElement
  <2> QED
    BY <1>2, <1>3, <1>5, <2>1, <2>3, Zenon DEF Tallied
<1>6. CASE x # m
  <2>1. J = I
    BY <1>0, <1>4, <1>6, Zenon
  <2> HIDE DEF I, J
  <2> QED
    BY <1>2, <1>3, <1>6, <2>1, Zenon DEF Tallied
<1> QED
  BY <1>5, <1>6

\* What is on its way and what has been taken, together, only grow at the end.
LEMMA MoveOne ==
  ASSUME NEW S, NEW s \in Seq(S), NEW u \in Seq(S), u # <<>>
  PROVE  /\ Append(s, Head(u)) \o Tail(u) = s \o u
         /\ (s \o SubSeq(u, 1, 1)) \o SubSeq(u, 1 + 1, Len(u)) = s \o u
<1>0. Len(u) \in Nat /\ 1 <= Len(u) /\ Head(u) \in S /\ Tail(u) \in Seq(S) /\ u[1] \in S
  OBVIOUS
<1>1. Append(s, Head(u)) \o Tail(u) = s \o u
  <2>1. Append(s, Head(u)) \in Seq(S)
    BY <1>0
  <2>2. Append(s, Head(u)) \o Tail(u) \in Seq(S) /\ s \o u \in Seq(S)
    BY <1>0, <2>1
  <2>3. Len(Append(s, Head(u)) \o Tail(u)) = Len(s \o u)
    BY <1>0, <2>1
  <2>4. \A i \in 1..Len(s \o u) : (Append(s, Head(u)) \o Tail(u))[i] = (s \o u)[i]
    BY <1>0, <2>1
  <2> QED
    BY <2>2, <2>3, <2>4, SeqEqual
<1>2. SubSeq(u, 1, 1) = <<Head(u)>> /\ SubSeq(u, 1 + 1, Len(u)) = Tail(u)
  <2>1. SubSeq(u, 1, 1) = <<Head(u)>>
    <3>1. SubSeq(u, 1, 1) \in Seq(S) /\ Len(SubSeq(u, 1, 1)) = 1 /\ SubSeq(u, 1, 1)[1] = u[1]
      BY <1>0, SubSeqProperties
    <3>2. <<Head(u)>> \in Seq(S) /\ Len(<<Head(u)>>) = 1 /\ <<Head(u)>>[1] = u[1]
      BY <1>0
    <3>3. PICK a, b : a = SubSeq(u, 1, 1) /\ b = <<Head(u)>>
      BY Zenon
    <3>4. /\ a \in Seq(S) /\ b \in Seq(S) /\ Len(a) = 1 /\ Len(b) = 1
          /\ a[1] = u[1] /\ b[1] = u[1]
      BY <3>1, <3>2, <3>3, Zenon
    <3>5. \A i \in 1..Len(a) : a[i] = b[i]
      BY <3>4
    <3>6. a = b
      BY <3>4, <3>5, SeqEqual
    <3> QED
      BY <3>3, <3>6, Zenon
  <2>2. SubSeq(u, 1 + 1, Len(u)) = Tail(u)
    <3>1. PICK a, b : a = SubSeq(u, 1 + 1, Len(u)) /\ b = Tail(u)
      BY Zenon
    <3>2. a \in Seq(S) /\ Len(a) = Len(u) - 1 /\ \A i \in 1..(Len(u) - 1) : a[i] = u[i + 1]
      <4>1. \A i \in (1 + 1)..Len(u) : u[i] \in S
        BY <1>0
      <4>2. 1 + 1 \in Nat /\ Len(u) - (1 + 1) + 1 = Len(u) - 1
        BY <1>0
      <4> QED
        BY <1>0, <3>1, <4>1, <4>2, SubSeqProperties
    <3>3. b \in Seq(S) /\ Len(b) = Len(u) - 1 /\ \A i \in 1..(Len(u) - 1) : b[i] = u[i + 1]
      BY <1>0, <3>1
    <3>4. a = b
      BY <3>2, <3>3, SeqEqual
    <3> QED
      BY <3>1, <3>4, Zenon
  <2> QED
    BY <2>1, <2>2
<1>3. s \o <<Head(u)>> = Append(s, Head(u))
  BY <1>0
<1> QED
  BY <1>1, <1>2, <1>3, Zenon

LEMMA ConcatOne ==
  ASSUME NEW S, NEW s \in Seq(S), NEW u \in Seq(S), NEW x \in S
  PROVE  s \o (u \o <<x>>) = Append(s \o u, x) /\ u \o <<>> = u
OBVIOUS

----------------------------------------------------------------------------
(* What the tables say *)

\* Where a rule leads: one unit further in the script, to its end, or nowhere.
Leads(p, at, on, to) ==
  /\ p \notin {"tcp", "rtmp", "hls"} =>
       IF to = "ok" THEN Script(p) = Append(Told(at), on)
       ELSE \/ Told(to) = Append(Told(at), on)
            \/ on \in Chatter /\ Told(to) = Told(at)
  /\ p = "rtmp" => \/ at = "s0" /\ on = "S0" /\ to = "s1"
                   \/ at = "s1" /\ to = "s2"
                   \/ at = "s2" /\ to = "ok"
  /\ p = "hls" => /\ to \in {"body", "bad"}
                  /\ to = "body" => at = "body" \/ (at = "head" /\ on = "200")

\* A rule of the websocket pinger answers a ping, and nothing else, by a pong.
Pongs(p, on, say) ==
  p = "ws" => \/ say = <<>> /\ on # "Ping"
              \/ \E x \in Uttered(p) : say = <<x>> /\ (x = "Pong" <=> on = "Ping")

Fits(p, r) ==
  /\ r.say \in Seq(Uttered(p))
  /\ r.to \notin {"dial", "write", "returned"}
  /\ Leads(p, r.at, r.on, r.to)
  /\ Pongs(p, r.on, r.say)

LEMMA RuleIs ==
  ASSUME NEW a, NEW o, NEW s, NEW t
  PROVE  /\ Rule(a, o, s, t).at = a /\ Rule(a, o, s, t).on = o
         /\ Rule(a, o, s, t).say = s /\ Rule(a, o, s, t).to = t
BY DEF Rule

LEMMA RuleFits ==
  ASSUME NEW p, NEW a, NEW o, NEW s, NEW t,
         s \in Seq(Uttered(p)), t \notin {"dial", "write", "returned"},
         Leads(p, a, o, t), Pongs(p, o, s)
  PROVE  Fits(p, Rule(a, o, s, t))
BY RuleIs DEF Fits

\* Longer by one.
LEMMA Longer ==
  /\ \A a : Append(<<>>, a) = <<a>>
  /\ \A a, b : Append(<<a>>, b) = <<a, b>>
  /\ \A a, b, c : Append(<<a, b>>, c) = <<a, b, c>>
<1>1. ASSUME NEW a PROVE Append(<<>>, a) = <<a>>
  <2>1. <<>> \in Seq({a}) /\ <<a>> \in Seq({a}) /\ a \in {a}
    BY Tuples
  <2> QED
    BY <2>1
<1>2. ASSUME NEW a, NEW b PROVE Append(<<a>>, b) = <<a, b>>
  <2>1. <<a>> \in Seq({a, b}) /\ <<a, b>> \in Seq({a, b}) /\ b \in {a, b}
    BY Tuples
  <2>2. PICK s : s = Append(<<a>>, b)
    BY Zenon
  <2>3. s \in Seq({a, b}) /\ Len(s) = 2 /\ s[1] = a /\ s[2] = b
    BY <2>1, <2>2
  <2>4. PICK t : t = <<a, b>>
    BY Zenon
  <2>5. t \in Seq({a, b}) /\ Len(t) = 2 /\ t[1] = a /\ t[2] = b
    BY <2>1, <2>4
  <2>6. \A i \in 1..2 : i = 1 \/ i = 2
    OBVIOUS
  <2>7. s = t
    BY <2>3, <2>5, <2>6, SeqEqual
  <2> QED
    BY <2>2, <2>4, <2>7, Zenon
<1>3. ASSUME NEW a, NEW b, NEW c PROVE Append(<<a, b>>, c) = <<a, b, c>>
  <2>1. <<a, b>> \in Seq({a, b, c}) /\ <<a, b, c>> \in Seq({a, b, c}) /\ c \in {a, b, c}
    BY Tuples
  <2>2. PICK s : s = Append(<<a, b>>, c)
    BY Zenon
  <2>3. s \in Seq({a, b, c}) /\ Len(s) = 3 /\ s[1] = a /\ s[2] = b /\ s[3] = c
    BY <2>1, <2>2
  <2>4. PICK t : t = <<a, b, c>>
    BY Zenon
  <2>5. t \in Seq({a, b, c}) /\ Len(t) = 3 /\ t[1] = a /\ t[2] = b /\ t[3] = c
    BY <2>1, <2>4
  <2>6. \A i \in 1..3 : i = 1 \/ i = 2 \/ i = 3
    OBVIOUS
  <2>7. s = t
    BY <2>3, <2>5, <2>6, SeqEqual
  <2> QED
    BY <2>2, <2>4, <2>7, Zenon
<1> QED
  BY <1>1, <1>2, <1>3, Zenon

LEMMA TcpFits == \A r \in tcp_client : Fits("tcp", r)
<1>1. <<>> \in Seq(Uttered("tcp"))
  BY Tuples
<1>2. \A m : Leads("tcp", "read", m, "ok") /\ Pongs("tcp", m, <<>>)
  BY DEF Leads, Pongs
<1>3. \A m : Fits("tcp", Rule("read", m, <<>>, "ok"))
  BY <1>1, <1>2, RuleFits
<1> QED
  BY <1>3, Zenon DEF tcp_client

LEMMA RtspFits == \A r \in rtsp_client : Fits("rtsp", r)
<1>1. <<>> \in Seq(Uttered("rtsp"))
  BY Tuples
<1>2. Leads("rtsp", "validate", "200 OK", "ok") /\ Pongs("rtsp", "200 OK", <<>>)
  BY Longer DEF Leads, Pongs, Told, Script
<1> QED
  BY <1>1, <1>2, RuleFits DEF rtsp_client

LEMMA RtmpFits == \A r \in rtmp_client : Fits("rtmp", r)
<1>1. <<>> \in Seq(Uttered("rtmp")) /\ <<"C2">> \in Seq(Uttered("rtmp"))
  <2>1. "C2" \in Uttered("rtmp")
    BY DEF Uttered
  <2> QED
    BY <2>1, Tuples
<1>2. Leads("rtmp", "s0", "S0", "s1") /\ Pongs("rtmp", "S0", <<>>)
  BY DEF Leads, Pongs
<1>3. \A m : Leads("rtmp", "s1", m, "s2") /\ Pongs("rtmp", m, <<>>)
  BY DEF Leads, Pongs
<1>4. \A m : Leads("rtmp", "s2", m, "ok") /\ Pongs("rtmp", m, <<"C2">>)
  BY DEF Leads, Pongs
<1>5. Fits("rtmp", Rule("s0", "S0", <<>>, "s1"))
  BY <1>1, <1>2, RuleFits
<1>6. \A m : Fits("rtmp", Rule("s1", m, <<>>, "s2"))
  BY <1>1, <1>3, RuleFits
<1>7. \A m : Fits("rtmp", Rule("s2", m, <<"C2">>, "ok"))
  BY <1>1, <1>4, RuleFits
<1> QED
  BY <1>5, <1>6, <1>7, Zenon DEF rtmp_client

LEMMA MqttFits == \A r \in mqtt_client : Fits("mqtt", r)
<1>1. <<"PINGREQ">> \in Seq(Uttered("mqtt")) /\ <<"DISCONNECT">> \in Seq(Uttered("mqtt"))
  <2>1. "PINGREQ" \in Uttered("mqtt") /\ "DISCONNECT" \in Uttered("mqtt")
    BY DEF Uttered
  <2> QED
    BY <2>1, Tuples
<1>2. Leads("mqtt", "connack", "CONNACK", "pingresp") /\ Pongs("mqtt", "CONNACK", <<"PINGREQ">>)
  BY Longer DEF Leads, Pongs, Told
<1>3. Leads("mqtt", "pingresp", "PINGRESP", "ok") /\ Pongs("mqtt", "PINGRESP", <<"DISCONNECT">>)
  BY Longer DEF Leads, Pongs, Told, Script
<1> QED
  BY <1>1, <1>2, <1>3, RuleFits DEF mqtt_client

LEMMA WsFits == \A r \in ws_client : Fits("ws", r)
<1>1. "Ping" \in Uttered("ws") /\ "Pong" \in Uttered("ws") /\ "Close" \in Uttered("ws")
  BY DEF Uttered
<1>2. /\ <<>> \in Seq(Uttered("ws")) /\ <<"Ping">> \in Seq(Uttered("ws"))
      /\ <<"Pong">> \in Seq(Uttered("ws")) /\ <<"Close">> \in Seq(Uttered("ws"))
  BY <1>1, Tuples
<1>3. Leads("ws", "upgrade", "101", "pong") /\ Leads("ws", "pong", "Pong", "ok")
  BY Longer DEF Leads, Told, Script
<1>4. Leads("ws", "pong", "Ping", "pong") /\ Leads("ws", "pong", "Text", "pong")
  BY DEF Leads, Told, Chatter
<1>5. /\ Pongs("ws", "101", <<"Ping">>) /\ Pongs("ws", "Pong", <<"Close">>)
      /\ Pongs("ws", "Ping", <<"Pong">>) /\ Pongs("ws", "Text", <<>>)
  BY <1>1 DEF Pongs
<1> QED
  BY <1>2, <1>3, <1>4, <1>5, RuleFits DEF ws_client

LEMMA HttpFits == \A p \in {"http", "post"} : \A r \in http_client : Fits(p, r)
<1> TAKE p \in {"http", "post"}
<1>1. <<>> \in Seq(Uttered(p))
  BY Tuples
<1>2. Leads(p, "status", "200", "ok") /\ Pongs(p, "200", <<>>)
  BY Longer DEF Leads, Pongs, Told, Script
<1> QED
  BY <1>1, <1>2, RuleFits DEF http_client

LEMMA HlsFits == \A r \in hls_client : Fits("hls", r)
<1>1. <<>> \in Seq(Uttered("hls"))
  BY Tuples
<1>2. \A m : Pongs("hls", m, <<>>)
  BY DEF Pongs
<1>3. ASSUME NEW m PROVE Leads("hls", "head", m, IF m = "200" THEN "body" ELSE "bad")
  BY DEF Leads
<1>4. ASSUME NEW at \in {"body", "bad"}, NEW m PROVE Leads("hls", at, m, at)
  BY DEF Leads
<1>5. ASSUME NEW m PROVE (IF m = "200" THEN "body" ELSE "bad") \notin {"dial", "write", "returned"}
  OBVIOUS
<1>6. ASSUME NEW m PROVE Fits("hls", Rule("head", m, <<>>, IF m = "200" THEN "body" ELSE "bad"))
  BY <1>1, <1>2, <1>3, <1>5, RuleFits
<1>7. ASSUME NEW at \in {"body", "bad"}, NEW m PROVE Fits("hls", Rule(at, m, <<>>, at))
  BY <1>1, <1>2, <1>4, RuleFits
<1> TAKE r \in hls_client
<1>8. \/ \E m : r = Rule("head", m, <<>>, IF m = "200" THEN "body" ELSE "bad")
      \/ \E at \in {"body", "bad"} : \E m : r = Rule(at, m, <<>>, at)
  BY DEF hls_client
<1> QED
  BY <1>6, <1>7, <1>8, Zenon

LEMMA TlsFits == \A r \in tls_client : Fits("tls", r)
<1>1. <<"Finished">> \in Seq(Uttered("tls"))
  <2>1. "Finished" \in Uttered("tls")
    BY DEF Uttered
  <2> QED
    BY <2>1, Tuples
<1>2. Leads("tls", "hello", "flight", "ok") /\ Pongs("tls", "flight", <<"Finished">>)
  BY Longer DEF Leads, Pongs, Told, Script
<1> QED
  BY <1>1, <1>2, RuleFits DEF tls_client

LEMMA GrpcFits == \A r \in grpc_client : Fits("grpc", r)
<1>1. <<>> \in Seq(Uttered("grpc"))
  BY Tuples
<1>2. Leads("grpc", "check", "headers", "body") /\ Pongs("grpc", "headers", <<>>)
  BY Longer DEF Leads, Pongs, Told
<1>3. Leads("grpc", "body", "SERVING", "ok") /\ Pongs("grpc", "SERVING", <<>>)
  BY Longer DEF Leads, Pongs, Told, Script
<1> QED
  BY <1>1, <1>2, <1>3, RuleFits DEF grpc_client

LEMMA WatchFits == \A r \in watch_client : Fits("watch", r)
<1>1. <<>> \in Seq(Uttered("watch"))
  BY Tuples
<1>2. Leads("watch", "watch", "headers", "first") /\ Pongs("watch", "headers", <<>>)
  BY Longer DEF Leads, Pongs, Told
<1>3. Leads("watch", "first", "SERVING", "ok") /\ Pongs("watch", "SERVING", <<>>)
  BY Longer DEF Leads, Pongs, Told, Script
<1> QED
  BY <1>1, <1>2, <1>3, RuleFits DEF watch_client

\* The pinger of each protocol has its table.
LEMMA Tables ==
  /\ ClientRules("tcp") = tcp_client /\ ServerRules("tcp") = tcp_echo
  /\ ClientRules("rtsp") = rtsp_client /\ ServerRules("rtsp") = rtsp_ok
  /\ ClientRules("rtmp") = rtmp_client /\ ServerRules("rtmp") = rtmp_ok
  /\ ClientRules("mqtt") = mqtt_client /\ ServerRules("mqtt") = handle_mqtt_session
  /\ ClientRules("ws") = ws_client /\ ServerRules("ws") = ws_ok
  /\ ClientRules("http") = http_client /\ ServerRules("http") = http_ok
  /\ ClientRules("post") = http_client /\ ServerRules("post") = http_ok
  /\ ClientRules("hls") = hls_client /\ ServerRules("hls") = handle_hls
  /\ ClientRules("tls") = tls_client /\ ServerRules("tls") = https_ok
  /\ ClientRules("grpc") = grpc_client /\ ServerRules("grpc") = grpc_ok
  /\ ClientRules("watch") = watch_client /\ ServerRules("watch") = grpc_ok
BY DEF ClientRules, ServerRules

LEMMA ClientFits ==
  ASSUME NEW p \in AllProtocols, NEW r \in ClientRules(p)
  PROVE  Fits(p, r)
BY Tables, TcpFits, RtspFits, RtmpFits, MqttFits, WsFits, HttpFits, HlsFits,
   TlsFits, GrpcFits, WatchFits, Zenon DEF AllProtocols

\* What a pinger opens with.
Opens(p, o) ==
  /\ o.say \in Seq(Uttered(p))
  /\ o.to \notin {"dial", "write", "returned"}
  /\ Told(o.to) = <<>>
  /\ p = "hls" => o.to = "head"
  /\ p = "rtmp" => o.to = "s0"
  /\ p = "ws" => o.say = <<"GET">>

LEMMA OpeningIs ==
  ASSUME NEW p \in AllProtocols
  PROVE  Opens(p, Opening(p))
<1>1. CASE p = "tcp"
  <2>1. "byte" \in Uttered(p)
    BY <1>1 DEF Uttered
  <2>2. <<"byte">> \in Seq(Uttered(p))
    BY <2>1, Tuples
  <2> QED
    BY <1>1, <2>2 DEF Opens, Opening, Told
<1>2. CASE p = "rtsp"
  <2>1. "OPTIONS" \in Uttered(p) /\ "headers" \in Uttered(p)
    BY <1>2 DEF Uttered
  <2>2. <<"OPTIONS", "headers">> \in Seq(Uttered(p))
    BY <2>1, Tuples
  <2> QED
    BY <1>2, <2>2 DEF Opens, Opening, Told
<1>3. CASE p = "rtmp"
  <2>1. "C0" \in Uttered(p) /\ "C1" \in Uttered(p)
    BY <1>3 DEF Uttered
  <2>2. <<"C0", "C1">> \in Seq(Uttered(p))
    BY <2>1, Tuples
  <2> QED
    BY <1>3, <2>2 DEF Opens, Opening, Told
<1>4. CASE p = "mqtt"
  <2>1. "CONNECT" \in Uttered(p)
    BY <1>4 DEF Uttered
  <2>2. <<"CONNECT">> \in Seq(Uttered(p))
    BY <2>1, Tuples
  <2> QED
    BY <1>4, <2>2 DEF Opens, Opening, Told
<1>5. CASE p = "ws"
  <2>1. "GET" \in Uttered(p)
    BY <1>5 DEF Uttered
  <2>2. <<"GET">> \in Seq(Uttered(p))
    BY <2>1, Tuples
  <2> QED
    BY <1>5, <2>2 DEF Opens, Opening, Told
<1>10. CASE p = "hls"
  <2>1. "GET" \in Uttered(p) /\ "fields" \in Uttered(p)
    BY <1>10 DEF Uttered
  <2>2. <<"GET", "fields">> \in Seq(Uttered(p))
    BY <2>1, Tuples
  <2> QED
    BY <1>10, <2>2 DEF Opens, Opening, Told
<1>6. CASE p \in {"http", "post"}
  <2>1. "request" \in Uttered(p) /\ "payload" \in Uttered(p)
    BY <1>6 DEF Uttered
  <2>2. <<"request">> \in Seq(Uttered(p)) /\ <<"request", "payload">> \in Seq(Uttered(p))
    BY <2>1, Tuples
  <2> QED
    BY <1>6, <2>2 DEF Opens, Opening, Told
<1>7. CASE p = "tls"
  <2>1. "ClientHello" \in Uttered(p)
    BY <1>7 DEF Uttered
  <2>2. <<"ClientHello">> \in Seq(Uttered(p))
    BY <2>1, Tuples
  <2> QED
    BY <1>7, <2>2 DEF Opens, Opening, Told
<1>8. CASE p = "grpc"
  <2>1. "Check" \in Uttered(p)
    BY <1>8 DEF Uttered
  <2>2. <<"Check">> \in Seq(Uttered(p))
    BY <2>1, Tuples
  <2> QED
    BY <1>8, <2>2 DEF Opens, Opening, Told
<1>9. CASE p = "watch"
  <2>1. "Watch" \in Uttered(p)
    BY <1>9 DEF Uttered
  <2>2. <<"Watch">> \in Seq(Uttered(p))
    BY <2>1, Tuples
  <2> QED
    BY <1>9, <2>2 DEF Opens, Opening, Told
<1> QED
  BY <1>1, <1>2, <1>3, <1>4, <1>5, <1>6, <1>7, <1>8, <1>9, <1>10, Zenon DEF AllProtocols

\* What a pinger's rules know is in the vocabulary.
LEMMA Known ==
  ASSUME NEW p, NEW a, NEW o, NEW s, NEW t, Rule(a, o, s, t) \in ClientRules(p)
  PROVE  o \in Vocabulary(p)
<1>1. Rule(a, o, s, t).on = o
  BY RuleIs
<1>2. o \in {r.on : r \in ClientRules(p)}
  BY <1>1, Zenon
<1> QED
  BY <1>2, Zenon DEF Vocabulary

\* testserver's thread answers in the vocabulary of its pinger.
Speaks(p, r) == r.on \in Uttered(p) => r.say \in Seq(Vocabulary(p))

LEMMA RuleSpeaks ==
  ASSUME NEW p, NEW a, NEW o, NEW s, NEW t, o \in Uttered(p) => s \in Seq(Vocabulary(p))
  PROVE  Speaks(p, Rule(a, o, s, t))
BY RuleIs DEF Speaks

LEMMA Spoken ==
  /\ "byte" \in Vocabulary("tcp") /\ "200 OK" \in Vocabulary("rtsp")
  /\ "S0" \in Vocabulary("rtmp") /\ "S1" \in Vocabulary("rtmp") /\ "S2" \in Vocabulary("rtmp")
  /\ "CONNACK" \in Vocabulary("mqtt") /\ "PINGRESP" \in Vocabulary("mqtt")
  /\ "101" \in Vocabulary("ws") /\ "Pong" \in Vocabulary("ws")
  /\ "200" \in Vocabulary("http") /\ "200" \in Vocabulary("post")
  /\ "200" \in Vocabulary("hls") /\ "body" \in Vocabulary("hls")
  /\ "unwelcome" \in Vocabulary("hls") /\ "flight" \in Vocabulary("tls")
  /\ "headers" \in Vocabulary("grpc") /\ "SERVING" \in Vocabulary("grpc")
  /\ "headers" \in Vocabulary("watch") /\ "SERVING" \in Vocabulary("watch")
<1>1. "byte" \in Vocabulary("tcp") /\ "200 OK" \in Vocabulary("rtsp")
  <2>1. Rule("read", "byte", <<>>, "ok") \in tcp_client
    BY DEF tcp_client
  <2> QED
    BY <2>1, Tables, Known, Zenon DEF rtsp_client
<1>2. "S0" \in Vocabulary("rtmp") /\ "S1" \in Vocabulary("rtmp") /\ "S2" \in Vocabulary("rtmp")
  <2>1. \A m \in {"S0", "S1", "S2"} : Rule("s1", m, <<>>, "s2") \in rtmp_client
    BY DEF rtmp_client
  <2> QED
    BY <2>1, Tables, Known, Zenon
<1>3. "CONNACK" \in Vocabulary("mqtt") /\ "PINGRESP" \in Vocabulary("mqtt")
  BY Tables, Known, Zenon DEF mqtt_client
<1>4. "101" \in Vocabulary("ws") /\ "Pong" \in Vocabulary("ws")
  BY Tables, Known, Zenon DEF ws_client
<1>5. "200" \in Vocabulary("http") /\ "200" \in Vocabulary("post")
  BY Tables, Known, Zenon DEF http_client
<1>6. /\ "200" \in Vocabulary("hls") /\ "body" \in Vocabulary("hls")
      /\ "unwelcome" \in Vocabulary("hls")
  <2>1. \A m \in {"200", "body", "unwelcome"} : Rule("body", m, <<>>, "body") \in hls_client
    <3> TAKE m \in {"200", "body", "unwelcome"}
    <3>1. "body" \in {"body", "bad"}
      OBVIOUS
    <3> QED
      BY <3>1 DEF hls_client
  <2> QED
    BY <2>1, Tables, Known, Zenon
<1>7. /\ "flight" \in Vocabulary("tls")
      /\ "headers" \in Vocabulary("grpc") /\ "SERVING" \in Vocabulary("grpc")
  BY Tables, Known, Zenon DEF tls_client, grpc_client
<1>8. "headers" \in Vocabulary("watch") /\ "SERVING" \in Vocabulary("watch")
  BY Tables, Known, Zenon DEF watch_client
<1> QED
  BY <1>1, <1>2, <1>3, <1>4, <1>5, <1>6, <1>7, <1>8

LEMMA ServerSpeaks ==
  ASSUME NEW p \in AllProtocols, NEW r \in ServerRules(p)
  PROVE  Speaks(p, r)
<1>0. <<>> \in Seq(Vocabulary(p))
  BY Tuples
<1>1. CASE p = "tcp"
  <2>1. <<"byte">> \in Seq(Vocabulary(p))
    BY <1>1, Spoken, Tuples
  <2>3. \A q \in tcp_echo : Speaks(p, q)
    BY <1>0, <2>1, RuleSpeaks DEF tcp_echo
  <2> QED
    BY <1>1, <2>3, Tables, Zenon
<1>2. CASE p = "rtsp"
  <2>1. <<"200 OK">> \in Seq(Vocabulary(p))
    BY <1>2, Spoken, Tuples
  <2>3. \A q \in rtsp_ok : Speaks(p, q)
    BY <1>0, <2>1, RuleSpeaks DEF rtsp_ok
  <2> QED
    BY <1>2, <2>3, Tables, Zenon
<1>3. CASE p = "rtmp"
  <2>1. <<"S0", "S1", "S2">> \in Seq(Vocabulary(p))
    BY <1>3, Spoken, Tuples
  <2>3. \A q \in rtmp_ok : Speaks(p, q)
    BY <1>0, <2>1, RuleSpeaks DEF rtmp_ok
  <2> QED
    BY <1>3, <2>3, Tables, Zenon
<1>4. CASE p = "mqtt"
  <2>1. <<"CONNACK">> \in Seq(Vocabulary(p)) /\ <<"PINGRESP">> \in Seq(Vocabulary(p))
    BY <1>4, Spoken, Tuples
  <2>3. \A q \in handle_mqtt_session : Speaks(p, q)
    BY <1>0, <2>1, RuleSpeaks DEF handle_mqtt_session
  <2> QED
    BY <1>4, <2>3, Tables, Zenon
<1>5. CASE p = "ws"
  <2>1. <<"101">> \in Seq(Vocabulary(p)) /\ <<"Pong">> \in Seq(Vocabulary(p))
    BY <1>5, Spoken, Tuples
  <2>3. \A q \in ws_ok : Speaks(p, q)
    BY <1>0, <2>1, RuleSpeaks DEF ws_ok
  <2> QED
    BY <1>5, <2>3, Tables, Zenon
<1>6. CASE p = "http"
  <2>1. <<"200">> \in Seq(Vocabulary(p))
    BY <1>6, Spoken, Tuples
  <2>3. \A q \in http_ok : Speaks(p, q)
    BY <1>0, <2>1, RuleSpeaks DEF http_ok
  <2> QED
    BY <1>6, <2>3, Tables, Zenon
<1>7. CASE p = "post"
  <2>1. <<"200">> \in Seq(Vocabulary(p))
    BY <1>7, Spoken, Tuples
  <2>3. \A q \in http_ok : Speaks(p, q)
    BY <1>0, <2>1, RuleSpeaks DEF http_ok
  <2> QED
    BY <1>7, <2>3, Tables, Zenon
<1>8. CASE p = "hls"
  <2>1. <<"200", "body">> \in Seq(Vocabulary(p)) /\ <<"unwelcome">> \in Seq(Vocabulary(p))
    BY <1>8, Spoken, Tuples
  <2>3. \A q \in handle_hls : Speaks(p, q)
    BY <1>0, <2>1, RuleSpeaks DEF handle_hls
  <2> QED
    BY <1>8, <2>3, Tables, Zenon
<1>9. CASE p = "tls"
  <2>1. <<"flight">> \in Seq(Vocabulary(p))
    BY <1>9, Spoken, Tuples
  <2>3. \A q \in https_ok : Speaks(p, q)
    BY <1>0, <2>1, RuleSpeaks DEF https_ok
  <2> QED
    BY <1>9, <2>3, Tables, Zenon
<1>10. CASE p \in {"grpc", "watch"}
  <2>1. <<"headers", "SERVING">> \in Seq(Vocabulary(p))
    BY <1>10, Spoken, Tuples
  <2>3. \A q \in grpc_ok : Speaks(p, q)
    BY <1>0, <2>1, RuleSpeaks DEF grpc_ok
  <2> QED
    BY <1>10, <2>3, Tables, Zenon
<1> QED
  BY <1>1, <1>2, <1>3, <1>4, <1>5, <1>6, <1>7, <1>8, <1>9, <1>10, Zenon DEF AllProtocols

\* A thread starts in a read its table knows.
LEMMA FirstReadIs ==
  ASSUME NEW p \in AllProtocols
  PROVE  FirstRead(p) \in {r.at : r \in ServerRules(p)}
<1>0. ASSUME NEW a, NEW o, NEW s, NEW t, Rule(a, o, s, t) \in ServerRules(p), FirstRead(p) = a
      PROVE  FirstRead(p) \in {r.at : r \in ServerRules(p)}
  <2>1. Rule(a, o, s, t).at = a
    BY RuleIs
  <2> QED
    BY <1>0, <2>1, Zenon
<1>1. CASE p = "rtmp"
  <2>1. FirstRead(p) = "c0"
    BY <1>1 DEF FirstRead
  <2> QED
    BY <1>0, <1>1, <2>1, Tables, Zenon DEF rtmp_ok
<1>2. CASE p = "mqtt"
  <2>1. FirstRead(p) = "first"
    BY <1>2 DEF FirstRead
  <2> QED
    BY <1>0, <1>2, <2>1, Tables, Zenon DEF handle_mqtt_session
<1>3. CASE p = "ws"
  <2>1. FirstRead(p) = "accept"
    BY <1>3 DEF FirstRead
  <2> QED
    BY <1>0, <1>3, <2>1, Tables, Zenon DEF ws_ok
<1>4. CASE p \notin {"rtmp", "mqtt", "ws"}
  <2>1. FirstRead(p) = "read"
    BY <1>4 DEF FirstRead
  <2>2. CASE p = "tcp"
    BY <1>0, <2>1, <2>2, Tables, Zenon DEF tcp_echo
  <2>3. CASE p = "rtsp"
    BY <1>0, <2>1, <2>3, Tables, Zenon DEF rtsp_ok
  <2>4. CASE p \in {"http", "post"}
    BY <1>0, <2>1, <2>4, Tables, Zenon DEF http_ok
  <2>5. CASE p = "hls"
    BY <1>0, <2>1, <2>5, Tables, Zenon DEF handle_hls
  <2>6. CASE p = "tls"
    BY <1>0, <2>1, <2>6, Tables, Zenon DEF https_ok
  <2>7. CASE p \in {"grpc", "watch"}
    BY <1>0, <2>1, <2>7, Tables, Zenon DEF grpc_ok
  <2> QED
    BY <1>4, <2>2, <2>3, <2>4, <2>5, <2>6, <2>7, Zenon DEF AllProtocols
<1> QED
  BY <1>1, <1>2, <1>3, <1>4, Zenon

----------------------------------------------------------------------------
(* The steps *)

LEMMA Ends ==
  ASSUME NEW e \in {"open", "fin", "rst"}, NEW s
  PROVE  /\ Dropped(s) \in {"fin", "rst"}
         /\ Answered(e, s) \in {"open", "fin", "rst"}
         /\ Answered(e, s) = "open" => e = "open"
BY DEF Dropped, Answered

LEMMA Conveyed ==
  ASSUME NEW S, NEW c \in Seq(S), NEW s \in Seq(S), NEW e
  PROVE  Carried(c, e, s) \in Seq(S)
BY DEF Carried

LEMMA HeadTail ==
  ASSUME NEW S, NEW s \in Seq(S), s # <<>>
  PROVE  /\ Head(s) \in S /\ Tail(s) \in Seq(S)
         /\ \A t \in Seq(S) : Append(t, Head(s)) \in Seq(S)
OBVIOUS

\* What ServerTake takes.
LEMMA ReadIs ==
  ASSUME NEW S, NEW p, NEW s \in Seq(S), s # <<>>, NEW n \in ReadSizes(p, Len(s)),
         NEW t \in Seq(S)
  PROVE  /\ SubSeq(s, n + 1, Len(s)) \in Seq(S) /\ t \o SubSeq(s, 1, n) \in Seq(S)
         /\ s[n] \in S
         /\ p \notin {"post", "hls"} => n = 1
<1>1. n \in 1..Len(s) /\ (p \notin {"post", "hls"} => n = 1)
  BY DEF ReadSizes
<1>2. SubSeq(s, 1, n) \in Seq(S) /\ SubSeq(s, n + 1, Len(s)) \in Seq(S)
  BY <1>1, Taken
<1> QED
  BY <1>1, <1>2

LEMMA InvProtocol ==
  ASSUME HandshakeInv PROVE proto \in AllProtocols
BY HandshakeAssumption DEF HandshakeInv, TypeOK, AllProtocols

\* No step changes the protocol.
LEMMA SameProtocol ==
  ASSUME [Next]_vars PROVE proto' = proto /\ peer' = peer
<1>1. CASE Connect \/ Open \/ ClientTake \/ ClientEof \/ ClientError \/ TimeOut
  BY <1>1, Zenon DEF Connect, Open, ClientTake, ClientEof, ClientError, TimeOut
<1>2. CASE Thread
  BY <1>2, Zenon DEF Thread, ServerTake, ServerEof
<1>3. CASE \E m \in Vocabulary(proto) : StrangerSay(m)
  BY <1>3, Zenon DEF StrangerSay
<1>4. CASE StrangerTake \/ StrangerLeave \/ Cut
  BY <1>4, Zenon DEF StrangerTake, StrangerLeave, Cut
<1>5. CASE Done \/ UNCHANGED vars
  BY <1>5, Zenon DEF Done, vars
<1> QED
  BY <1>1, <1>2, <1>3, <1>4, <1>5, Zenon DEF Next

\* Both ends write only what their tables say.
LEMMA TypedNext ==
  ASSUME HandshakeInv, [Next]_vars
  PROVE  Typed'
<1>0. PICK p \in AllProtocols : p = proto
  BY InvProtocol
<1>1. proto' = p
  BY <1>0, SameProtocol
<1>2. /\ up \in Seq(Uttered(p)) /\ served \in Seq(Uttered(p))
      /\ down \in Seq(Vocabulary(p)) /\ heard \in Seq(Vocabulary(p))
  BY <1>0, Zenon DEF HandshakeInv, Typed
<1> SUFFICES /\ up' \in Seq(Uttered(p)) /\ served' \in Seq(Uttered(p))
             /\ down' \in Seq(Vocabulary(p)) /\ heard' \in Seq(Vocabulary(p))
  BY <1>1, Zenon DEF Typed
<1>3. CASE UNCHANGED <<up, served, down, heard>>
  BY <1>2, <1>3
<1>4. CASE Open
  <2>1. Opening(p).say \in Seq(Uttered(p))
    BY OpeningIs DEF Opens
  <2>2. up' = Carried(up, send, Opening(p).say) /\ UNCHANGED <<served, down, heard>>
    BY <1>0, <1>4, Zenon DEF Open
  <2> QED
    BY <1>2, <2>1, <2>2, Conveyed
<1>5. CASE ClientTake
  <2>1. /\ down # <<>> /\ down' = Tail(down) /\ heard' = Append(heard, Head(down))
        /\ served' = served
        /\ up' = up \/ \E r \in ClientRules(p) : up' = Carried(up, send, r.say)
    BY <1>0, <1>5, Zenon DEF ClientTake, Refused
  <2>2. \A r \in ClientRules(p) : r.say \in Seq(Uttered(p))
    BY ClientFits DEF Fits
  <2>3. up' \in Seq(Uttered(p))
    BY <1>2, <2>1, <2>2, Conveyed
  <2> QED
    BY <1>2, <2>1, <2>3, HeadTail
<1>6. CASE ServerTake
  <2>1. PICK n \in ReadSizes(p, Len(up)) :
          /\ up' = SubSeq(up, n + 1, Len(up)) /\ served' = served \o SubSeq(up, 1, n)
          /\ \/ down' = down
             \/ \E r \in ServerRules(p) : r.on = up[n] /\ down' = Carried(down, cend, r.say)
    BY <1>0, <1>6, Zenon DEF ServerTake
  <2>2. up # <<>> /\ heard' = heard
    BY <1>6, Zenon DEF ServerTake
  <2>3. up[n] \in Uttered(p)
    BY <1>2, <2>2, ReadIs
  <2>4. \A r \in ServerRules(p) : r.on = up[n] => r.say \in Seq(Vocabulary(p))
    BY <2>3, ServerSpeaks DEF Speaks
  <2>5. down' \in Seq(Vocabulary(p))
    BY <1>2, <2>1, <2>4, Conveyed
  <2> QED
    BY <1>2, <2>1, <2>2, <2>5, ReadIs
<1>7. CASE \E m \in Vocabulary(proto) : StrangerSay(m)
  <2>1. PICK m \in Vocabulary(p) : down' = Carried(down, cend, <<m>>) /\ UNCHANGED <<up, served, heard>>
    BY <1>0, <1>7, Zenon DEF StrangerSay
  <2>2. <<m>> \in Seq(Vocabulary(p))
    OBVIOUS
  <2> QED
    BY <1>2, <2>1, <2>2, Conveyed
<1>8. CASE StrangerTake
  <2>1. up # <<>> /\ up' = Tail(up) /\ served' = Append(served, Head(up)) /\ UNCHANGED <<down, heard>>
    BY <1>8, Zenon DEF StrangerTake
  <2> QED
    BY <1>2, <2>1, HeadTail
<1>9. CASE Connect \/ ClientEof \/ ClientError \/ TimeOut \/ ServerEof \/ StrangerLeave \/ Cut
  BY <1>3, <1>9, Zenon DEF Connect, ClientEof, ClientError, TimeOut, ServerEof, StrangerLeave, Cut
<1>10. CASE Done \/ UNCHANGED vars
  BY <1>3, <1>10, Zenon DEF Done, vars
<1> QED
  BY <1>4, <1>5, <1>6, <1>7, <1>8, <1>9, <1>10, Zenon DEF Next, Thread

\* The reads of the two tables.
Clients(p) ==
  {"dial", "write", "returned", Opening(p).to}
    \cup {r.at : r \in ClientRules(p)} \cup {r.to : r \in ClientRules(p)}

Servers(p) ==
  {"listen", "gone"} \cup {r.at : r \in ServerRules(p)} \cup {r.to : r \in ServerRules(p)}

Endings == {"open", "fin", "rst"}

Paths == {"whole", "silent", "broken"}

LEMMA TypeFacts ==
  ASSUME TypeOK, NEW p, p = proto
  PROVE  /\ client \in Clients(p) /\ server \in Servers(p)
         /\ cend \in Endings /\ send \in Endings
         /\ out \in {"none", "ok", "err", "timedout"}
         /\ said \in 0..MaxSay /\ cut \in Paths
         /\ client = "returned" <=> out # "none"
BY Zenon DEF TypeOK, Clients, Servers, Endings, Paths

\* The client goes on, stays, or returns a verdict.
Moves(p, c, o, c2, o2) ==
  \/ c2 = c /\ o2 = o
  \/ c2 = "returned" /\ o2 \in {"ok", "err", "timedout"}
  \/ c2 \in Clients(p) /\ c2 # "returned" /\ c # "returned" /\ o2 = o

LEMMA MovesOn ==
  ASSUME NEW p, NEW c \in Clients(p), NEW o \in {"none", "ok", "err", "timedout"},
         c = "returned" <=> o # "none", NEW c2, NEW o2, Moves(p, c, o, c2, o2)
  PROVE  /\ c2 \in Clients(p) /\ o2 \in {"none", "ok", "err", "timedout"}
         /\ c2 = "returned" <=> o2 # "none"
<1>1. "returned" \in Clients(p)
  BY DEF Clients
<1> QED
  BY <1>1 DEF Moves

LEMMA Returning ==
  ASSUME NEW o \in {"ok", "err", "timedout"}, Return(o), NEW p
  PROVE  Moves(p, client, out, client', out')
BY DEF Return, Moves

LEMMA Staying ==
  ASSUME UNCHANGED <<client, out>>, NEW p
  PROVE  Moves(p, client, out, client', out')
BY DEF Moves

LEMMA ClientMoves ==
  ASSUME HandshakeInv, [Next]_vars, NEW p, p = proto
  PROVE  Moves(p, client, out, client', out')
<1>0. p \in AllProtocols
  BY InvProtocol
<1>1. CASE Connect
  <2>1. client = "dial" /\ client' = "write" /\ out' = out
    BY <1>1, Zenon DEF Connect
  <2> QED
    BY <2>1 DEF Moves, Clients
<1>2. CASE Open
  <2>1. client = "write" /\ client' = Opening(p).to /\ out' = out
    BY <1>2, Zenon DEF Open
  <2>2. Opening(p).to # "returned"
    BY <1>0, OpeningIs DEF Opens
  <2>3. Opening(p).to \in Clients(p)
    BY Zenon DEF Clients
  <2> QED
    BY <2>1, <2>2, <2>3 DEF Moves
<1>3. CASE ClientTake
  <2>1. client # "returned"
    BY <1>3, Zenon DEF ClientTake, Reading, Talking
  <2>2. \/ Return("err") \/ Return("ok")
        \/ \E r \in ClientRules(p) : client' = r.to /\ out' = out
    BY <1>3, Zenon DEF ClientTake, Refused
  <2>3. ASSUME NEW r \in ClientRules(p), client' = r.to, out' = out
        PROVE  Moves(p, client, out, client', out')
    <3>1. r.to # "returned"
      BY <1>0, ClientFits DEF Fits
    <3>2. r.to \in Clients(p)
      BY Zenon DEF Clients
    <3> QED
      BY <2>1, <2>3, <3>1, <3>2 DEF Moves
  <2> QED
    BY <2>2, <2>3, Returning
<1>4. CASE ClientEof
  <2>1. \E o \in {"ok", "err"} : Return(o)
    BY <1>4 DEF ClientEof
  <2> QED
    BY <2>1, Returning
<1>5. CASE ClientError \/ TimeOut
  <2>1. Return("err") \/ Return("timedout")
    BY <1>5, Zenon DEF ClientError, TimeOut
  <2> QED
    BY <2>1, Returning
<1>6. CASE Thread
  BY <1>6, Staying, Zenon DEF Thread, ServerTake, ServerEof
<1>7. CASE \E m \in Vocabulary(proto) : StrangerSay(m)
  BY <1>7, Staying, Zenon DEF StrangerSay
<1>8. CASE StrangerTake \/ StrangerLeave \/ Cut
  BY <1>8, Staying, Zenon DEF StrangerTake, StrangerLeave, Cut
<1>9. CASE Done \/ UNCHANGED vars
  BY <1>9, Staying, Zenon DEF Done, vars
<1> QED
  BY <1>1, <1>2, <1>3, <1>4, <1>5, <1>6, <1>7, <1>8, <1>9, Zenon DEF Next

LEMMA ServerMoves ==
  ASSUME HandshakeInv, [Next]_vars, NEW p, p = proto
  PROVE  server' \in Servers(p)
<1>0. p \in AllProtocols /\ server \in Servers(p)
  BY InvProtocol, TypeFacts DEF HandshakeInv
<1>1. CASE Connect
  <2>1. server' = FirstRead(p)
    BY <1>1, Zenon DEF Connect
  <2> QED
    BY <1>0, <2>1, FirstReadIs, Zenon DEF Servers
<1>2. CASE ServerTake
  <2>1. server' = "gone" \/ \E r \in ServerRules(p) : server' = r.to
    BY <1>2, Zenon DEF ServerTake, Leave
  <2> QED
    BY <2>1, Zenon DEF Servers
<1>3. CASE ServerEof \/ StrangerLeave
  <2>1. server' = "gone"
    BY <1>3, Zenon DEF ServerEof, StrangerLeave, Leave
  <2> QED
    BY <2>1, Zenon DEF Servers
<1>4. CASE Open \/ ClientTake \/ ClientEof \/ ClientError \/ TimeOut
  BY <1>0, <1>4, Zenon DEF Open, ClientTake, ClientEof, ClientError, TimeOut
<1>5. CASE \E m \in Vocabulary(proto) : StrangerSay(m)
  BY <1>0, <1>5, Zenon DEF StrangerSay
<1>6. CASE StrangerTake \/ Cut \/ Done \/ UNCHANGED vars
  BY <1>0, <1>6, Zenon DEF StrangerTake, Cut, Done, vars
<1> QED
  BY <1>1, <1>2, <1>3, <1>4, <1>5, <1>6, Zenon DEF Next, Thread

LEMMA EndsNext ==
  ASSUME HandshakeInv, [Next]_vars
  PROVE  /\ cend' \in Endings /\ send' \in Endings
         /\ said' \in 0..MaxSay /\ cut' \in Paths
<1>0. /\ cend \in Endings /\ send \in Endings /\ said \in 0..MaxSay /\ cut \in Paths
  BY TypeFacts DEF HandshakeInv
<1>1. /\ \A s : Dropped(s) \in Endings
      /\ \A e \in Endings : \A s : Answered(e, s) \in Endings
  BY Ends DEF Endings
<1>2. \A s : Leave(s) => send' \in Endings
  <2>1. "rst" \in Endings
    BY DEF Endings
  <2> QED
    BY <1>1, <2>1, Zenon DEF Leave
<1>3. CASE Connect
  BY <1>0, <1>3, Zenon DEF Connect
<1>4. CASE Open
  BY <1>0, <1>1, <1>4, Zenon DEF Open
<1>5. CASE ClientTake
  <2>1. \/ cend' = Dropped(Tail(down)) \/ cend' = cend
    BY <1>5, Zenon DEF ClientTake, Refused
  <2>2. send' = send \/ \E r \in ClientRules(proto) : send' = Answered(send, r.say)
    BY <1>5, Zenon DEF ClientTake, Refused
  <2>3. said' = said /\ cut' = cut
    BY <1>5, Zenon DEF ClientTake
  <2> QED
    BY <1>0, <1>1, <2>1, <2>2, <2>3, Zenon
<1>6. CASE ClientEof \/ ClientError
  <2>1. /\ cend' = "fin" \/ cend' = "rst"
        /\ UNCHANGED <<send, said, cut>>
    BY <1>6, Zenon DEF ClientEof, ClientError
  <2> QED
    BY <1>0, <2>1 DEF Endings
<1>7. CASE TimeOut
  BY <1>0, <1>1, <1>7, Zenon DEF TimeOut
<1>8. CASE ServerTake
  <2>1. cend' = cend \/ \E r \in ServerRules(proto) : cend' = Answered(cend, r.say)
    BY <1>8, Zenon DEF ServerTake
  <2>2. send' = send \/ \E s : Leave(s)
    BY <1>8, Zenon DEF ServerTake
  <2>3. said' = said /\ cut' = cut
    BY <1>8, Zenon DEF ServerTake
  <2> QED
    BY <1>0, <1>1, <1>2, <2>1, <2>2, <2>3, Zenon
<1>9. CASE ServerEof \/ StrangerLeave
  BY <1>0, <1>2, <1>9, Zenon DEF ServerEof, StrangerLeave
<1>10. CASE \E m \in Vocabulary(proto) : StrangerSay(m)
  <2>1. PICK m \in Vocabulary(proto) : StrangerSay(m)
    BY <1>10
  <2>2. said < MaxSay /\ said' = said + 1
    BY <2>1, Zenon DEF StrangerSay
  <2>3. said' \in 0..MaxSay
    BY <1>0, <2>2, HandshakeAssumption
  <2>4. cend' = Answered(cend, <<m>>) /\ send' = send /\ cut' = cut
    BY <2>1, Zenon DEF StrangerSay
  <2> QED
    BY <1>0, <1>1, <2>3, <2>4, Zenon
<1>11. CASE StrangerTake \/ Done \/ UNCHANGED vars
  BY <1>0, <1>11, Zenon DEF StrangerTake, Done, vars
<1>12. CASE Cut
  <2>1. UNCHANGED <<cend, send, said>> /\ cut' \in {"broken", "silent"}
    BY <1>12 DEF Cut
  <2> QED
    BY <1>0, <2>1 DEF Paths
<1> QED
  BY <1>3, <1>4, <1>5, <1>6, <1>7, <1>8, <1>9, <1>10, <1>11, <1>12, Zenon DEF Next, Thread

LEMMA TypeNext ==
  ASSUME HandshakeInv, [Next]_vars
  PROVE  TypeOK'
<1>0. PICK p \in AllProtocols : p = proto
  BY InvProtocol
<1>1. proto' = p /\ proto' \in Protocols /\ peer' \in Peers
  BY <1>0, SameProtocol DEF HandshakeInv, TypeOK
<1>2. /\ client' \in Clients(p) /\ out' \in {"none", "ok", "err", "timedout"}
      /\ client' = "returned" <=> out' # "none"
  <2>1. /\ client \in Clients(p) /\ out \in {"none", "ok", "err", "timedout"}
        /\ client = "returned" <=> out # "none"
    BY <1>0, TypeFacts DEF HandshakeInv
  <2>2. Moves(p, client, out, client', out')
    BY <1>0, ClientMoves
  <2> QED
    BY <2>1, <2>2, MovesOn
<1>3. server' \in Servers(p)
  BY <1>0, ServerMoves
<1>4. \A i \in 1..Len(down') : down'[i] \in Vocabulary(p)
  <2>1. down' \in Seq(Vocabulary(p))
    BY <1>1, TypedNext, Zenon DEF Typed
  <2> QED
    BY <2>1
<1> QED
  BY <1>1, <1>2, <1>3, <1>4, EndsNext, Zenon DEF TypeOK, Clients, Servers, Endings, Paths

\* The part of a script that has been told, and any unit, are of one kind.
LEMMA ToldIs ==
  ASSUME NEW at, NEW m
  PROVE  Told(at) \in Seq({"CONNACK", "101", "headers", m})
<1> DEFINE T == {"CONNACK", "101", "headers", m}
<1>1. "CONNACK" \in T /\ "101" \in T /\ "headers" \in T
  OBVIOUS
<1> HIDE DEF T
<1>2. /\ <<>> \in Seq(T) /\ <<"CONNACK">> \in Seq(T)
      /\ <<"101">> \in Seq(T) /\ <<"headers">> \in Seq(T)
  BY <1>1, Tuples
<1>3. Told(at) \in Seq(T)
  BY <1>2 DEF Told
<1> QED
  BY <1>3 DEF T

\* A pinger with a script: a step that takes nothing.
LEMMA FollowQuiet ==
  ASSUME HandshakeInv, [Next]_vars, heard' = heard, proto \notin {"tcp", "rtmp", "hls"},
         client' # "returned" => client # "returned" /\ Told(client') = Told(client),
         out' = "ok" => out = "ok"
  PROVE  /\ client' # "returned" => Spells(heard', Told(client'))
         /\ out' = "ok" => Spells(heard', Script(proto))
<1>1. /\ client # "returned" => Spells(heard, Told(client))
      /\ out = "ok" => Spells(heard, Script(proto))
  BY Zenon DEF HandshakeInv, Following
<1> QED
  BY <1>1, Zenon

\* A pinger with a script takes a unit.
LEMMA FollowTake ==
  ASSUME HandshakeInv, ClientTake, NEW p, p = proto, p \notin {"tcp", "rtmp", "hls"}
  PROVE  /\ client' # "returned" => Spells(heard', Told(client'))
         /\ out' = "ok" => Spells(heard', Script(p))
<1>0. p \in AllProtocols /\ client # "returned" /\ out = "none"
  BY InvProtocol, TypeFacts, Zenon DEF HandshakeInv, ClientTake, Reading, Talking
<1>1. PICK s : s = heard
  OBVIOUS
<1>2. PICK c : c = client
  OBVIOUS
<1>3. Spells(s, Told(c))
  BY <1>0, <1>1, <1>2, Zenon DEF HandshakeInv, Following
<1>4. PICK m : m = Head(down)
  OBVIOUS
<1>5. s \in Seq(Vocabulary(p)) /\ m \in Vocabulary(p)
  <2>1. down # <<>> /\ down \in Seq(Vocabulary(p)) /\ heard \in Seq(Vocabulary(p))
    BY Zenon DEF HandshakeInv, Typed, ClientTake
  <2> QED
    BY <1>1, <1>4, <2>1, HeadTail
<1>6. PICK t : t = heard' /\ t = Append(s, m)
  BY <1>1, <1>4, Zenon DEF ClientTake
<1>7. /\ \A v : v = Append(Told(c), m) => Spells(t, v)
      /\ m \in Chatter => Spells(t, Told(c))
  <2>1. Told(c) \in Seq({"CONNACK", "101", "headers", m})
    BY ToldIs
  <2>2. m \in {"CONNACK", "101", "headers", m}
    OBVIOUS
  <2>3. ASSUME NEW v, v = Append(Told(c), m) PROVE Spells(t, v)
    BY <1>3, <1>5, <1>6, <2>1, <2>2, <2>3, SpellsNext
  <2>4. ASSUME m \in Chatter PROVE Spells(t, Told(c))
    BY <1>3, <1>5, <1>6, <2>1, <2>4, SpellsChatter
  <2> QED
    BY <2>3, <2>4
<1>8. CASE Return("err")
  <2>1. client' = "returned" /\ out' = "err"
    BY <1>8, Zenon DEF Return
  <2> QED
    BY <2>1
<1>9. ASSUME NEW r \in ClientRules(p), r.at = c, r.on = m,
             IF r.to = "ok" THEN Return("ok") ELSE client' = r.to /\ UNCHANGED <<out, cend>>
      PROVE  /\ client' # "returned" => Spells(heard', Told(client'))
             /\ out' = "ok" => Spells(heard', Script(p))
  <2>1. Leads(p, c, m, r.to)
    BY <1>0, <1>9, ClientFits DEF Fits
  <2>2. CASE r.to = "ok"
    <3>1. client' = "returned" /\ Script(p) = Append(Told(c), m)
      BY <1>9, <2>1, <2>2, Zenon DEF Return, Leads
    <3> QED
      BY <1>6, <1>7, <3>1, Zenon
  <2>3. CASE r.to # "ok"
    <3>1. client' = r.to /\ out' = out
      BY <1>9, <2>3, Zenon
    <3>2. out' # "ok"
      BY <1>0, <3>1
    <3>3. Told(r.to) = Append(Told(c), m) \/ (m \in Chatter /\ Told(r.to) = Told(c))
      BY <2>1, <2>3, Zenon DEF Leads
    <3> QED
      BY <1>6, <1>7, <3>1, <3>2, <3>3, Zenon
  <2> QED
    BY <2>2, <2>3
<1>10. Return("err") \/ \E r \in ClientRules(p) :
         /\ r.at = c /\ r.on = m
         /\ IF r.to = "ok" THEN Return("ok") ELSE client' = r.to /\ UNCHANGED <<out, cend>>
  BY <1>2, <1>4, Zenon DEF ClientTake, Refused
<1> QED
  BY <1>8, <1>9, <1>10, Zenon

LEMMA FollowScript ==
  ASSUME HandshakeInv, [Next]_vars, proto \notin {"tcp", "rtmp", "hls"}
  PROVE  /\ client' # "returned" => Spells(heard', Told(client'))
         /\ out' = "ok" => Spells(heard', Script(proto))
<1>0. PICK p \in AllProtocols : p = proto
  BY InvProtocol
<1>1. CASE UNCHANGED <<heard, client, out>>
  BY <1>1, FollowQuiet, Zenon
<1>2. CASE heard' = heard /\ client' = "returned" /\ out' # "ok"
  BY <1>2, FollowQuiet, Zenon
<1>3. CASE Connect
  <2>1. client = "dial" /\ client' = "write" /\ heard' = heard /\ out' = out
    BY <1>3, Zenon DEF Connect
  <2>2. client # "returned" /\ Told(client') = Told(client)
    BY <2>1 DEF Told
  <2> QED
    BY <2>1, <2>2, FollowQuiet, Zenon
<1>4. CASE Open
  <2>1. client = "write" /\ client' = Opening(p).to /\ heard' = heard /\ out' = out
    BY <1>0, <1>4, Zenon DEF Open
  <2>2. Told(Opening(p).to) = <<>> /\ Told("write") = <<>>
    BY OpeningIs DEF Opens, Told
  <2>3. client # "returned" /\ Told(client') = Told(client)
    BY <2>1, <2>2
  <2> QED
    BY <2>1, <2>3, FollowQuiet, Zenon
<1>5. CASE ClientTake
  BY <1>0, <1>5, FollowTake, Zenon
<1>6. CASE ClientEof
  <2>1. heard' = heard /\ client' = "returned" /\ out' = "err"
    BY <1>6 DEF ClientEof, Return
  <2> QED
    BY <1>2, <2>1
<1>7. CASE ClientError \/ TimeOut
  <2>1. heard' = heard /\ client' = "returned" /\ (out' = "err" \/ out' = "timedout")
    BY <1>7, Zenon DEF ClientError, TimeOut, Return
  <2> QED
    BY <1>2, <2>1
<1>8. CASE Thread
  BY <1>1, <1>8, Zenon DEF Thread, ServerTake, ServerEof
<1>9. CASE \E m \in Vocabulary(proto) : StrangerSay(m)
  BY <1>1, <1>9, Zenon DEF StrangerSay
<1>10. CASE StrangerTake \/ StrangerLeave \/ Cut \/ Done \/ UNCHANGED vars
  BY <1>1, <1>10, Zenon DEF StrangerTake, StrangerLeave, Cut, Done, vars
<1> QED
  BY <1>3, <1>4, <1>5, <1>6, <1>7, <1>8, <1>9, <1>10, Zenon DEF Next

\* An RTMP handshake: S0 is the first thing read, and then units are counted.
Shaking(c, o, s) ==
  /\ c \in {"dial", "write", "s0"} => s = <<>>
  /\ c = "s1" => Len(s) = 1 /\ Head(s) = "S0"
  /\ c = "s2" => Len(s) = 2 /\ Head(s) = "S0"
  /\ o = "ok" => Len(s) = 3 /\ Head(s) = "S0"

LEMMA ShakeTake ==
  ASSUME HandshakeInv, ClientTake, NEW p, p = proto, p = "rtmp"
  PROVE  Shaking(client', out', heard')
<1>0. p \in AllProtocols /\ client \notin {"dial", "write", "returned"} /\ out = "none"
  BY InvProtocol, TypeFacts, Zenon DEF HandshakeInv, ClientTake, Reading, Talking
<1>1. Shaking(client, out, heard)
  BY Zenon DEF HandshakeInv, Following, Shaking
<1>2. down # <<>> /\ down \in Seq(Vocabulary(p)) /\ heard \in Seq(Vocabulary(p))
  BY Zenon DEF HandshakeInv, Typed, ClientTake
<1>3. heard' = Append(heard, Head(down)) /\ Head(down) \in Vocabulary(p)
  BY <1>2, HeadTail DEF ClientTake
<1>4. /\ Len(heard') = Len(heard) + 1
      /\ heard = <<>> => Head(heard') = Head(down) /\ Len(heard') = 1
      /\ heard # <<>> => Head(heard') = Head(heard)
      /\ Len(heard) \in {1, 2} => heard # <<>>
  BY <1>2, <1>3
<1>5. CASE Return("err")
  BY <1>5 DEF Return, Shaking
<1>6. ASSUME NEW r \in ClientRules(p), r.at = client, r.on = Head(down),
             IF r.to = "ok" THEN Return("ok") ELSE client' = r.to /\ UNCHANGED <<out, cend>>
      PROVE  Shaking(client', out', heard')
  <2>1. \/ client = "s0" /\ Head(down) = "S0" /\ r.to = "s1"
        \/ client = "s1" /\ r.to = "s2"
        \/ client = "s2" /\ r.to = "ok"
    <3>1. Leads(p, r.at, r.on, r.to)
      BY <1>0, ClientFits DEF Fits
    <3> QED
      BY <1>6, <3>1, Zenon DEF Leads
  <2>2. CASE client = "s0" /\ Head(down) = "S0" /\ r.to = "s1"
    <3>1. client' = "s1" /\ out' = "none"
      BY <1>0, <1>6, <2>2
    <3>2. Len(heard') = 1 /\ Head(heard') = "S0"
      BY <1>1, <1>4, <2>2 DEF Shaking
    <3> QED
      BY <3>1, <3>2 DEF Shaking
  <2>3. CASE client = "s1" /\ r.to = "s2"
    <3>1. client' = "s2" /\ out' = "none"
      BY <1>0, <1>6, <2>3
    <3>2. Len(heard') = 2 /\ Head(heard') = "S0"
      <4>1. Len(heard) = 1 /\ Head(heard) = "S0"
        BY <1>1, <2>3 DEF Shaking
      <4> QED
        BY <1>4, <4>1
    <3> QED
      BY <3>1, <3>2 DEF Shaking
  <2>4. CASE client = "s2" /\ r.to = "ok"
    <3>1. client' = "returned"
      BY <1>6, <2>4 DEF Return
    <3>2. Len(heard') = 3 /\ Head(heard') = "S0"
      <4>1. Len(heard) = 2 /\ Head(heard) = "S0"
        BY <1>1, <2>4 DEF Shaking
      <4> QED
        BY <1>4, <4>1
    <3> QED
      BY <3>1, <3>2 DEF Shaking
  <2> QED
    BY <2>1, <2>2, <2>3, <2>4
<1>7. Return("err") \/ \E r \in ClientRules(p) :
         /\ r.at = client /\ r.on = Head(down)
         /\ IF r.to = "ok" THEN Return("ok") ELSE client' = r.to /\ UNCHANGED <<out, cend>>
  BY Zenon DEF ClientTake, Refused
<1> QED
  BY <1>5, <1>6, <1>7, Zenon

LEMMA ShakeNext ==
  ASSUME HandshakeInv, [Next]_vars, proto = "rtmp"
  PROVE  Shaking(client', out', heard')
<1>0. PICK p \in AllProtocols : p = proto
  BY InvProtocol
<1>1. Shaking(client, out, heard)
  BY Zenon DEF HandshakeInv, Following, Shaking
<1>2. CASE UNCHANGED <<heard, client, out>>
  BY <1>1, <1>2, Zenon
<1>3. CASE Connect
  <2>1. client = "dial" /\ client' = "write" /\ heard' = heard /\ out' = out
    BY <1>3, Zenon DEF Connect
  <2> QED
    BY <1>1, <2>1 DEF Shaking
<1>4. CASE Open
  <2>1. client = "write" /\ client' = Opening(p).to /\ heard' = heard /\ out' = out
    BY <1>0, <1>4, Zenon DEF Open
  <2>2. Opening(p).to = "s0"
    BY <1>0, OpeningIs DEF Opens
  <2> QED
    BY <1>1, <2>1, <2>2 DEF Shaking
<1>5. CASE ClientTake
  BY <1>0, <1>5, ShakeTake
<1>6. CASE ClientEof
  <2>1. heard' = heard /\ client' = "returned" /\ out' = "err"
    BY <1>6 DEF ClientEof, Return
  <2> QED
    BY <1>1, <2>1 DEF Shaking
<1>7. CASE ClientError \/ TimeOut
  <2>1. heard' = heard /\ client' = "returned" /\ (out' = "err" \/ out' = "timedout")
    BY <1>7, Zenon DEF ClientError, TimeOut, Return
  <2> QED
    BY <1>1, <2>1 DEF Shaking
<1>8. CASE Thread
  BY <1>2, <1>8, Zenon DEF Thread, ServerTake, ServerEof
<1>9. CASE \E m \in Vocabulary(proto) : StrangerSay(m)
  BY <1>2, <1>9, Zenon DEF StrangerSay
<1>10. CASE StrangerTake \/ StrangerLeave \/ Cut \/ Done \/ UNCHANGED vars
  BY <1>2, <1>10, Zenon DEF StrangerTake, StrangerLeave, Cut, Done, vars
<1> QED
  BY <1>3, <1>4, <1>5, <1>6, <1>7, <1>8, <1>9, <1>10, Zenon DEF Next

\* An HLS fetch: nothing has been read before the head, and the body and the
\* success are after a good status.
Fetching(c, o, s) ==
  /\ c \in {"dial", "write", "head"} => s = <<>>
  /\ c = "body" \/ o = "ok" => s # <<>> /\ Head(s) = "200"

LEMMA FetchTake ==
  ASSUME HandshakeInv, ClientTake, NEW p, p = proto, p = "hls"
  PROVE  Fetching(client', out', heard')
<1>0. p \in AllProtocols /\ client \notin {"dial", "write", "returned"} /\ out = "none"
  BY InvProtocol, TypeFacts, Zenon DEF HandshakeInv, ClientTake, Reading, Talking
<1>1. Fetching(client, out, heard)
  BY Zenon DEF HandshakeInv, Following, Fetching
<1>2. down # <<>> /\ down \in Seq(Vocabulary(p)) /\ heard \in Seq(Vocabulary(p))
  BY Zenon DEF HandshakeInv, Typed, ClientTake
<1>3. heard' = Append(heard, Head(down)) /\ Head(down) \in Vocabulary(p)
  BY <1>2, HeadTail DEF ClientTake
<1>4. /\ heard' # <<>>
      /\ heard = <<>> => Head(heard') = Head(down)
      /\ heard # <<>> => Head(heard') = Head(heard)
  BY <1>2, <1>3
<1>5. CASE Return("err")
  BY <1>5 DEF Return, Fetching
<1>6. ASSUME NEW r \in ClientRules(p), r.at = client, r.on = Head(down),
             IF r.to = "ok" THEN Return("ok") ELSE client' = r.to /\ UNCHANGED <<out, cend>>
      PROVE  Fetching(client', out', heard')
  <2>1. Leads(p, r.at, r.on, r.to)
    BY <1>0, ClientFits DEF Fits
  <2>2. /\ r.to \in {"body", "bad"}
        /\ r.to = "body" => r.at = "body" \/ (r.at = "head" /\ r.on = "200")
    BY <2>1, Zenon DEF Leads
  <2>3. r.to # "ok"
    BY <2>2
  <2>4. client' = r.to /\ out' = out
    BY <1>6, <2>3, Zenon
  <2>5. out' # "ok" /\ client' \notin {"dial", "write", "head"}
    BY <1>0, <2>2, <2>4
  <2>6. client' = "body" => Head(heard') = "200"
    BY <1>1, <1>4, <1>6, <2>2, <2>4 DEF Fetching
  <2> QED
    BY <1>4, <2>5, <2>6, Zenon DEF Fetching
<1>7. Return("err") \/ \E r \in ClientRules(p) :
         /\ r.at = client /\ r.on = Head(down)
         /\ IF r.to = "ok" THEN Return("ok") ELSE client' = r.to /\ UNCHANGED <<out, cend>>
  BY Zenon DEF ClientTake, Refused
<1> QED
  BY <1>5, <1>6, <1>7, Zenon

LEMMA FetchNext ==
  ASSUME HandshakeInv, [Next]_vars, proto = "hls"
  PROVE  Fetching(client', out', heard')
<1>0. PICK p \in AllProtocols : p = proto
  BY InvProtocol
<1>1. Fetching(client, out, heard)
  BY Zenon DEF HandshakeInv, Following, Fetching
<1>2. CASE UNCHANGED <<heard, client, out>>
  BY <1>1, <1>2, Zenon
<1>3. CASE Connect
  <2>1. client = "dial" /\ client' = "write" /\ heard' = heard /\ out' = out
    BY <1>3, Zenon DEF Connect
  <2> QED
    BY <1>1, <2>1 DEF Fetching
<1>4. CASE Open
  <2>1. client = "write" /\ client' = Opening(p).to /\ heard' = heard /\ out' = out
    BY <1>0, <1>4, Zenon DEF Open
  <2>2. Opening(p).to = "head"
    BY <1>0, OpeningIs DEF Opens
  <2> QED
    BY <1>1, <2>1, <2>2 DEF Fetching
<1>5. CASE ClientTake
  BY <1>0, <1>5, FetchTake
<1>6. CASE ClientEof
  <2>1. heard' = heard /\ client' = "returned" /\ (out' = "ok" => client = "body")
    BY <1>6 DEF ClientEof, Return
  <2> QED
    BY <1>1, <2>1 DEF Fetching
<1>7. CASE ClientError \/ TimeOut
  <2>1. heard' = heard /\ client' = "returned" /\ (out' = "err" \/ out' = "timedout")
    BY <1>7, Zenon DEF ClientError, TimeOut, Return
  <2> QED
    BY <1>1, <2>1 DEF Fetching
<1>8. CASE Thread
  BY <1>2, <1>8, Zenon DEF Thread, ServerTake, ServerEof
<1>9. CASE \E m \in Vocabulary(proto) : StrangerSay(m)
  BY <1>2, <1>9, Zenon DEF StrangerSay
<1>10. CASE StrangerTake \/ StrangerLeave \/ Cut \/ Done \/ UNCHANGED vars
  BY <1>2, <1>10, Zenon DEF StrangerTake, StrangerLeave, Cut, Done, vars
<1> QED
  BY <1>3, <1>4, <1>5, <1>6, <1>7, <1>8, <1>9, <1>10, Zenon DEF Next

LEMMA FollowingNext ==
  ASSUME HandshakeInv, [Next]_vars
  PROVE  Following'
<1>1. proto' = proto
  BY SameProtocol
<1>2. ASSUME proto \notin {"tcp", "rtmp", "hls"}
      PROVE  /\ client' # "returned" => Spells(heard', Told(client'))
             /\ out' = "ok" => Spells(heard', Script(proto'))
  BY <1>1, <1>2, FollowScript, Zenon
<1>3. ASSUME proto = "hls" PROVE Fetching(client', out', heard')
  BY <1>3, FetchNext
<1>4. ASSUME proto = "rtmp" PROVE Shaking(client', out', heard')
  BY <1>4, ShakeNext
<1> QED
  BY <1>1, <1>2, <1>3, <1>4, Zenon DEF Following, Fetching, Shaking

LEMMA HandshakeInvInit == Init => HandshakeInv
<1> SUFFICES ASSUME Init PROVE HandshakeInv
  OBVIOUS
<1>0. /\ proto \in Protocols /\ peer \in Peers /\ client = "dial" /\ server = "listen"
      /\ up = <<>> /\ down = <<>> /\ cend = "open" /\ send = "open"
      /\ out = "none" /\ served = <<>> /\ heard = <<>> /\ said = 0 /\ cut = "whole"
  BY Zenon DEF Init
<1>1. Typed
  BY <1>0, Tuples DEF Typed
<1>2. TypeOK
  <2>1. \A i \in 1..Len(down) : down[i] \in Vocabulary(proto)
    BY <1>1 DEF Typed
  <2>2. said \in 0..MaxSay
    BY <1>0, HandshakeAssumption
  <2> QED
    BY <1>0, <2>1, <2>2 DEF TypeOK
<1>3. Following
  <2>1. Told("dial") = <<>>
    BY DEF Told
  <2> QED
    BY <1>0, <2>1, SpellsNothing DEF Following
<1> QED
  BY <1>1, <1>2, <1>3 DEF HandshakeInv

LEMMA HandshakeInvCorrect == Spec => []HandshakeInv
<1>1. HandshakeInv /\ [Next]_vars => HandshakeInv'
  BY TypeNext, TypedNext, FollowingNext, Zenon DEF HandshakeInv
<1> QED
  BY <1>1, HandshakeInvInit, PTL DEF Spec

\* The conversation keeps its types, however much a stranger says: both ends
\* are in a read their tables know, every unit under way to the pinger is one
\* its peer can say, and a ping has a verdict exactly when it has returned.
THEOREM ConversationTypeCorrect == Spec => []TypeOK
<1>1. HandshakeInv => TypeOK
  BY Zenon DEF HandshakeInv
<1> QED
  BY <1>1, HandshakeInvCorrect, PTL

\* A pinger returns Ok only after the whole handshake of its protocol, in
\* order, with nothing foreign in it, whatever the server says, how often,
\* and wherever the connection breaks; RtmpPinger after a version byte and as
\* many bytes as S1 and S2 have.
THEOREM ScriptCorrect == Spec => []SuccessHeardScript
<1>1. HandshakeInv => SuccessHeardScript
  <2> SUFFICES ASSUME Following PROVE SuccessHeardScript
    BY Zenon DEF HandshakeInv
  <2>1. out = "ok" /\ proto \notin {"tcp", "rtmp", "hls"} => Spells(heard, Script(proto))
    BY Zenon DEF Following
  <2>2. out = "ok" /\ proto = "hls" => heard # <<>> /\ Head(heard) = "200"
    BY Zenon DEF Following
  <2>3. out = "ok" /\ proto = "rtmp" => Len(heard) = 3 /\ Head(heard) = "S0"
    BY Zenon DEF Following
  <2> QED
    BY <2>1, <2>2, <2>3 DEF SuccessHeardScript
<1> QED
  BY <1>1, HandshakeInvCorrect, PTL

----------------------------------------------------------------------------
(* The pongs of the websocket pinger *)

Balanced(s, h) == Times("Pong", s) = Times("Ping", h)

LEMMA LeaveShuts ==
  ASSUME NEW s, Leave(s) PROVE send' # "open"
BY DEF Leave, Dropped

\* The write of one unit, and the read of one.
LEMMA BalancedNext ==
  ASSUME NEW S, NEW T, NEW s \in Seq(S), NEW x \in S, NEW h \in Seq(T), NEW y \in T,
         Balanced(s, h)
  PROVE  /\ x # "Pong" => Balanced(Append(s, x), h)
         /\ y # "Ping" => Balanced(s, Append(h, y))
         /\ (x = "Pong" <=> y = "Ping") => Balanced(Append(s, x), Append(h, y))
<1>1. PICK s2, h2 : s2 = Append(s, x) /\ h2 = Append(h, y)
  OBVIOUS
<1>2. Tallied("Pong", s, x, s2)
  BY <1>1, TimesNext, Zenon
<1>3. Tallied("Ping", h, y, h2)
  BY <1>1, TimesNext, Zenon
<1>4. /\ x # "Pong" => Balanced(s2, h)
      /\ y # "Ping" => Balanced(s, h2)
      /\ (x = "Pong" <=> y = "Ping") => Balanced(s2, h2)
  BY <1>2, <1>3, Zenon DEF Balanced, Tallied
<1> QED
  BY <1>1, <1>4, Zenon

LEMMA PongsNext ==
  ASSUME HandshakeInv, ServerPingsAnswered, [Next]_vars,
         proto = "ws", send' = "open", out' # "err"
  PROVE  Balanced(served' \o up', heard')
<1>0. PICK p \in AllProtocols : p = proto /\ p = "ws"
  BY InvProtocol
<1>1. /\ up \in Seq(Uttered(p)) /\ served \in Seq(Uttered(p))
      /\ down \in Seq(Vocabulary(p)) /\ heard \in Seq(Vocabulary(p))
  BY <1>0, Zenon DEF HandshakeInv, Typed
<1>2. client # "returned" => out = "none"
  BY TypeFacts, Zenon DEF HandshakeInv
<1>3. send \in {"open", "fin", "rst"}
  BY Zenon DEF HandshakeInv, TypeOK
<1>4. ASSUME send = "open", out # "err" PROVE Balanced(served \o up, heard)
  BY <1>4, Zenon DEF ServerPingsAnswered, Balanced
<1>5. CASE UNCHANGED <<up, served, heard, send>> /\ (out' = out \/ client # "returned")
  <2>1. send = "open" /\ out # "err"
    BY <1>2, <1>5
  <2> QED
    BY <1>4, <1>5, <2>1, Zenon
<1>6. CASE Open
  <2>1. /\ client = "write" /\ up' = Carried(up, send, Opening(p).say)
        /\ send' = Answered(send, Opening(p).say) /\ UNCHANGED <<served, heard, out>>
    BY <1>0, <1>6, Zenon DEF Open
  <2>2. send = "open" /\ out # "err"
    <3>1. send = "open"
      BY <1>3, <2>1, Ends
    <3> QED
      BY <2>1, <3>1
  <2>3. Opening(p).say = <<"GET">>
    BY <1>0, OpeningIs DEF Opens
  <2>4. "GET" \in Uttered(p)
    BY <1>0 DEF Uttered
  <2>5. up' = up \o <<"GET">>
    BY <2>1, <2>2, <2>3, Zenon DEF Carried
  <2>6. served' \o up' = Append(served \o up, "GET")
    BY <1>1, <2>1, <2>4, <2>5, ConcatOne
  <2>7. served \o up \in Seq(Uttered(p))
    BY <1>1
  <2>8. Balanced(Append(served \o up, "GET"), heard)
    <3>1. PICK s : s = served \o up
      OBVIOUS
    <3>2. PICK h : h = heard
      OBVIOUS
    <3>3. Balanced(s, h)
      BY <1>4, <2>2, <3>1, <3>2
    <3>4. Times("Pong", Append(s, "GET")) = Times("Pong", s)
      <4>1. PICK t : t = Append(s, "GET")
        OBVIOUS
      <4>2. s \in Seq(Uttered(p)) /\ "GET" # "Pong"
        BY <2>7, <3>1
      <4>3. Tallied("Pong", s, "GET", t)
        BY <2>4, <4>1, <4>2, TimesNext, Zenon
      <4> QED
        BY <4>1, <4>2, <4>3, Zenon DEF Tallied
    <3> QED
      BY <3>1, <3>2, <3>3, <3>4, Zenon DEF Balanced
  <2> QED
    BY <2>1, <2>6, <2>8, Zenon
<1>7. CASE ClientTake
  <2>1. /\ down # <<>> /\ client # "returned" /\ heard' = Append(heard, Head(down))
        /\ served' = served
    BY <1>7, Zenon DEF ClientTake, Reading, Talking
  <2>2. ~Return("err")
    BY Zenon DEF Return
  <2>3. PICK r \in ClientRules(p) :
          r.on = Head(down) /\ up' = Carried(up, send, r.say) /\ send' = Answered(send, r.say)
    BY <1>0, <1>7, <2>2, Zenon DEF ClientTake, Refused
  <2>4. send = "open" /\ out # "err"
    <3>1. send = "open"
      BY <1>3, <2>3, Ends
    <3> QED
      BY <1>2, <2>1, <3>1
  <2>5. up' = up \o r.say
    BY <2>3, <2>4, Zenon DEF Carried
  <2>6. PICK s, h, y : s = served \o up /\ h = heard /\ y = Head(down)
    OBVIOUS
  <2>7. s \in Seq(Uttered(p)) /\ h \in Seq(Vocabulary(p)) /\ y \in Vocabulary(p)
    BY <1>1, <2>1, <2>6, HeadTail
  <2>8. Balanced(s, h)
    BY <1>4, <2>4, <2>6
  <2>9. Pongs(p, r.on, r.say)
    BY ClientFits DEF Fits
  <2>10. CASE r.say = <<>> /\ r.on # "Ping"
    <3>1. up' = up
      BY <1>1, <2>5, <2>10
    <3>2. served' \o up' = s /\ heard' = Append(h, y)
      BY <2>1, <2>6, <3>1, Zenon
    <3>3. y # "Ping"
      BY <2>3, <2>6, <2>10
    <3>4. "GET" \in Uttered(p)
      BY <1>0 DEF Uttered
    <3>5. Balanced(s, Append(h, y))
      BY <2>7, <2>8, <3>3, <3>4, BalancedNext
    <3> QED
      BY <3>2, <3>5, Zenon
  <2>11. ASSUME NEW x \in Uttered(p), r.say = <<x>>, x = "Pong" <=> r.on = "Ping"
         PROVE  Balanced(served' \o up', heard')
    <3>1. served' \o up' = Append(s, x) /\ heard' = Append(h, y)
      BY <1>1, <2>1, <2>5, <2>6, <2>11, ConcatOne, SMTT(30)
    <3>2. x = "Pong" <=> y = "Ping"
      BY <2>3, <2>6, <2>11
    <3>3. Balanced(Append(s, x), Append(h, y))
      BY <2>7, <2>8, <3>2, BalancedNext
    <3> QED
      BY <3>1, <3>3, Zenon
  <2> QED
    BY <1>0, <2>9, <2>10, <2>11, Zenon DEF Pongs
<1>8. CASE ServerTake
  <2>1. PICK n \in ReadSizes(p, Len(up)) :
          /\ up' = SubSeq(up, n + 1, Len(up)) /\ served' = served \o SubSeq(up, 1, n)
          /\ send' = send \/ \E s : Leave(s)
    BY <1>0, <1>8, Zenon DEF ServerTake
  <2>2. up # <<>> /\ heard' = heard /\ out' = out
    BY <1>8, Zenon DEF ServerTake
  <2>3. n = 1
    BY <1>0, <1>1, <2>2, ReadIs
  <2>4. served' \o up' = served \o up
    BY <1>1, <2>1, <2>2, <2>3, MoveOne, Zenon
  <2>5. send = "open" /\ out # "err"
    BY <2>1, <2>2, LeaveShuts
  <2> QED
    BY <1>4, <2>2, <2>4, <2>5, Zenon
<1>9. CASE StrangerTake
  <2>1. /\ up # <<>> /\ up' = Tail(up) /\ served' = Append(served, Head(up))
        /\ UNCHANGED <<heard, out, send>>
    BY <1>9, Zenon DEF StrangerTake
  <2>2. served' \o up' = served \o up
    BY <1>1, <2>1, MoveOne, Zenon
  <2>3. send = "open" /\ out # "err"
    BY <2>1
  <2> QED
    BY <1>4, <2>1, <2>2, <2>3, Zenon
<1>10. CASE ClientEof
  <2>1. send = "fin" /\ send' = send
    BY <1>10, Zenon DEF ClientEof
  <2> QED
    BY <2>1
<1>11. CASE ClientError
  BY <1>11, Zenon DEF ClientError, Return
<1>12. CASE ServerEof \/ StrangerLeave
  <2>1. \E s : Leave(s)
    BY <1>12, Zenon DEF ServerEof, StrangerLeave
  <2> QED
    BY <2>1, LeaveShuts
<1>13. CASE Connect \/ TimeOut \/ Cut
  BY <1>5, <1>13, Zenon DEF Connect, TimeOut, Cut
<1>14. CASE \E m \in Vocabulary(proto) : StrangerSay(m)
  BY <1>5, <1>14, Zenon DEF StrangerSay
<1>15. CASE Done \/ UNCHANGED vars
  BY <1>5, <1>15, Zenon DEF Done, vars
<1> QED
  BY <1>6, <1>7, <1>8, <1>9, <1>10, <1>11, <1>12, <1>13, <1>14, <1>15, Zenon DEF Next, Thread

\* As long as the server listens and the pinger has not failed, the websocket
\* pinger has written one pong for each ping it has read, however many the
\* server sends and however they cross.
THEOREM PongsCorrect == Spec => []ServerPingsAnswered
<1>1. Init => ServerPingsAnswered
  <2> SUFFICES ASSUME Init PROVE ServerPingsAnswered
    OBVIOUS
  <2>1. served \o up = <<>> /\ heard = <<>>
    BY DEF Init
  <2>2. {i \in 1..Len(<<>>) : <<>>[i] = "Pong"} = {} /\ {i \in 1..Len(<<>>) : <<>>[i] = "Ping"} = {}
    OBVIOUS
  <2>3. Times("Pong", <<>>) = Times("Ping", <<>>)
    BY <2>2, Zenon DEF Times
  <2> QED
    BY <2>1, <2>3, Zenon DEF ServerPingsAnswered
<1>2. HandshakeInv /\ ServerPingsAnswered /\ [Next]_vars => ServerPingsAnswered'
  BY PongsNext, SameProtocol, Zenon DEF ServerPingsAnswered, Balanced
<1> QED
  BY <1>1, <1>2, HandshakeInvCorrect, PTL DEF Spec
=============================================================================
