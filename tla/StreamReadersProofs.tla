------------------------- MODULE StreamReadersProofs -------------------------
(***************************************************************************)
(* Proofs about StreamReaders, for every set of responses, every size of a *)
(* read and every limit that holds a status line.                          *)
(*                                                                         *)
(* The readers stop on a beginning of the stream and answer for all of it. *)
(* That this is sound rests on two facts about the judgements, proved      *)
(* first (RtspSeesStatus, MqttSeesPacket): where a stop condition holds of *)
(* a beginning, no continuation changes the verdict.  The invariant        *)
(* StreamInv then says that a verdict is that of the buffer and that the   *)
(* buffer is everything or meets its stop condition.                       *)
(*                                                                         *)
(* The last part is about numbers: encode_varint writes digits that        *)
(* read_packet puts together again, by induction over the number.          *)
(***************************************************************************)
EXTENDS StreamReaders, SumsProofs, SequenceTheorems

\* The tokens of the responses, and those the readers look for.
Token == {CRLF} \cup {RtspOk[i] : i \in 1..4} \cup (UNION {Range(r) : r \in Responses})

LEMMA ResponseTokens == Responses \subseteq Seq(Token)
<1> SUFFICES ASSUME NEW r \in Responses PROVE r \in Seq(Token)
  OBVIOUS
<1>1. r \in Seq(Range(r))
  BY StreamAssumption
<1>2. Range(r) \subseteq Token
  BY DEF Token
<1> HIDE DEF Token
<1>3. Len(r) \in Nat /\ r = [i \in 1..Len(r) |-> r[i]] /\ \A i \in 1..Len(r) : r[i] \in Range(r)
  BY <1>1
<1> QED
  BY <1>2, <1>3

\* What SubSeq(s, 1, n) holds.
LEMMA Cut ==
  ASSUME NEW s \in Seq(Token), NEW n \in 0..Len(s)
  PROVE  /\ SubSeq(s, 1, n) \in Seq(Token)
         /\ Len(SubSeq(s, 1, n)) = n
         /\ \A i \in 1..n : SubSeq(s, 1, n)[i] = s[i]
<1>1. /\ SubSeq(s, 1, n) \in Seq(Token)
      /\ Len(SubSeq(s, 1, n)) = IF 1 <= n THEN n - 1 + 1 ELSE 0
      /\ \A i \in 1..(n - 1 + 1) : SubSeq(s, 1, n)[i] = s[1 + i - 1]
  BY SubSeqProperties
<1> QED
  BY <1>1


\* s is the beginning of t, token by token.
Begins(s, t) == Len(s) <= Len(t) /\ \A i \in 1..Len(s) : s[i] = t[i]

\* IsPrefix, whose definition compares subsequences, says no more than that.
LEMMA PrefixIsBegins ==
  ASSUME NEW s \in Seq(Token), NEW t \in Seq(Token)
  PROVE  IsPrefix(s, t) <=> Begins(s, t)
<1>1. SubSeq(s, 1, Len(s)) = s
  BY SubSeqFull
<1>2. IsPrefix(s, t) <=> Len(s) <= Len(t) /\ s = SubSeq(t, 1, Len(s))
  BY <1>1 DEF IsPrefix
<1>3. CASE Len(s) <= Len(t)
  <2>1. Len(s) \in 0..Len(t)
    BY <1>3
  <2> DEFINE u == SubSeq(t, 1, Len(s))
  <2>2. /\ u \in Seq(Token)
        /\ Len(u) = Len(s)
        /\ \A i \in 1..Len(s) : u[i] = t[i]
    BY <2>1, Cut
  <2> HIDE DEF u
  <2>3. s = u <=> \A i \in 1..Len(s) : s[i] = u[i]
    BY <2>2, SeqEqual
  <2> QED
    BY <1>2, <1>3, <2>2, <2>3 DEF Begins, u
<1>4. CASE ~(Len(s) <= Len(t))
  BY <1>2, <1>4 DEF Begins
<1> QED
  BY <1>3, <1>4

\* find_header_terminator finds two line ends next to each other.
LEMMA TerminatorAt ==
  ASSUME NEW s \in Seq(Token)
  PROVE  find_header_terminator(s) <=>
           \E i \in 1..(Len(s) - 1) : s[i] = CRLF /\ s[i + 1] = CRLF
<1> DEFINE two == <<CRLF, CRLF>>
<1>1. two \in Seq(Token) /\ Len(two) = 2 /\ two[1] = CRLF /\ two[2] = CRLF
  <2>1. CRLF \in Token
    BY DEF Token
  <2> QED
    BY <2>1
<1>2. ASSUME NEW i \in 0..Len(s), NEW j \in 0..Len(s), two = SubSeq(s, i + 1, j)
      PROVE  \E k \in 1..(Len(s) - 1) : s[k] = CRLF /\ s[k + 1] = CRLF
  <2>1. \A k \in (i + 1)..j : s[k] \in Token
    OBVIOUS
  <2>2. /\ Len(two) = IF i + 1 <= j THEN j - (i + 1) + 1 ELSE 0
        /\ \A k \in 1..(j - (i + 1) + 1) : two[k] = s[(i + 1) + k - 1]
    BY <1>2, <2>1, SubSeqProperties
  <2>3. j = i + 2
    BY <1>1, <2>2
  <2>4. two[1] = s[i + 1] /\ two[2] = s[i + 2]
    BY <2>2, <2>3
  <2>5. i + 1 \in 1..(Len(s) - 1) /\ (i + 1) + 1 = i + 2
    BY <2>3
  <2> QED
    BY <1>1, <2>4, <2>5
<1>3. ASSUME NEW i \in 1..(Len(s) - 1), s[i] = CRLF, s[i + 1] = CRLF
      PROVE  two = SubSeq(s, (i - 1) + 1, i + 1) /\ i - 1 \in 0..Len(s) /\ i + 1 \in 0..Len(s)
  <2> DEFINE u == SubSeq(s, (i - 1) + 1, i + 1)
  <2>0. (i - 1) + 1 = i /\ i - 1 \in 0..Len(s) /\ i + 1 \in 0..Len(s)
    OBVIOUS
  <2>1. \A k \in i..(i + 1) : s[k] \in Token
    BY <2>0
  <2>2. /\ u \in Seq(Token)
        /\ Len(u) = IF i <= i + 1 THEN (i + 1) - i + 1 ELSE 0
        /\ \A k \in 1..((i + 1) - i + 1) : u[k] = s[i + k - 1]
    BY <2>0, <2>1, SubSeqProperties
  <2> HIDE DEF u
  <2>3. Len(u) = 2 /\ u[1] = s[i] /\ u[2] = s[i + 1]
    BY <2>2
  <2>4. u = two
    BY <1>1, <1>3, <2>2, <2>3, SeqEqual
  <2> QED
    BY <2>0, <2>4 DEF u
<1>4. find_header_terminator(s) <=>
        \E i, j \in 0..Len(s) : two = SubSeq(s, i + 1, j)
  BY DEF find_header_terminator, Occurs, SubSeqs
<1> HIDE DEF two
<1> QED
  BY <1>2, <1>3, <1>4

----------------------------------------------------------------------------
(* RTSP: what the reader has when it stops is enough to judge. *)

\* The status line begins with four tokens that end no line, and the limit
\* leaves room for them: whoever stopped at the end of the headers, or at the
\* limit, has seen them if they are there.
LEMMA RtspSeesStatus ==
  ASSUME NEW s \in Seq(Token), NEW t \in Seq(Token), Begins(s, t),
         find_header_terminator(s) \/ Len(s) >= 4
  PROVE  rtsp_ok(s) <=> rtsp_ok(t)
<1>1. /\ RtspOk \in Seq(Token) /\ Len(RtspOk) = 4
      /\ \A i \in 1..4 : RtspOk[i] # CRLF
  <2>1. RtspOk[1] # CRLF /\ RtspOk[2] # CRLF /\ RtspOk[3] # CRLF /\ RtspOk[4] # CRLF
    BY DEF RtspOk, CRLF
  <2>2. Len(RtspOk) = 4 /\ RtspOk = [i \in 1..4 |-> RtspOk[i]]
    BY DEF RtspOk
  <2>3. \A i \in 1..4 : RtspOk[i] \in Token
    BY DEF Token
  <2>4. RtspOk \in Seq(Token)
    BY <2>2, <2>3
  <2> QED
    BY <2>1, <2>2, <2>4
<1>2. /\ rtsp_ok(s) <=> Begins(RtspOk, s)
      /\ rtsp_ok(t) <=> Begins(RtspOk, t)
  BY <1>1, PrefixIsBegins DEF rtsp_ok
<1>3. rtsp_ok(s) => rtsp_ok(t)
  BY <1>1, <1>2 DEF Begins
<1>4. ASSUME rtsp_ok(t) PROVE Len(s) >= 4
  <2>1. SUFFICES ASSUME Len(s) < 4 PROVE FALSE
    OBVIOUS
  <2>2. PICK i \in 1..(Len(s) - 1) : s[i] = CRLF
    BY <2>1, TerminatorAt
  <2>3. i \in 1..4 /\ i \in 1..Len(s) /\ s[i] = t[i] /\ t[i] = RtspOk[i]
    BY <1>1, <1>2, <1>4, <2>1, <2>2 DEF Begins
  <2> QED
    BY <1>1, <2>2, <2>3
<1>5. rtsp_ok(t) => rtsp_ok(s)
  BY <1>1, <1>2, <1>4 DEF Begins
<1> QED
  BY <1>3, <1>5

----------------------------------------------------------------------------
(* MQTT: the remaining length is settled by the bytes that spell it. *)

\* The byte that ends the length: the first of the four without a continuation bit.
EndsAt(s, i) ==
  /\ i \in 1..4 /\ i < Len(s)
  /\ ~More(s[i + 1])
  /\ \A j \in 2..i : More(s[j])

\* What LengthBytes says.
LEMMA LengthBytesEnds ==
  ASSUME NEW s \in Seq(Token)
  PROVE  /\ LengthBytes(s) \in 0..4
         /\ LengthBytes(s) > 0 => EndsAt(s, LengthBytes(s))
         /\ \A i \in 1..4 : EndsAt(s, i) => LengthBytes(s) = i
         /\ LengthBytes(s) = 0 => \A i \in 2..5 : i <= Len(s) => More(s[i])
<1> DEFINE last == {i \in 2..Len(s) : i <= 5 /\ ~More(s[i])}
<1>1. LengthBytes(s) = IF last = {} THEN 0 ELSE Min(last) - 1
  BY DEF LengthBytes
<1>2. last \subseteq 2..5
  OBVIOUS
<1>3. \A i \in 2..5 : i \in last <=> i <= Len(s) /\ ~More(s[i])
  OBVIOUS
<1> HIDE DEF last
<1>4. ASSUME last # {}
      PROVE  Min(last) \in last /\ \A y \in last : Min(last) <= y
  <2>1. \E x \in last : \A y \in last : x <= y
    <3>1. CASE 2 \in last
      BY <1>2, <3>1
    <3>2. CASE 2 \notin last /\ 3 \in last
      BY <1>2, <3>2
    <3>3. CASE 2 \notin last /\ 3 \notin last /\ 4 \in last
      BY <1>2, <3>3
    <3>4. CASE 2 \notin last /\ 3 \notin last /\ 4 \notin last
      <4>1. \A y \in last : y = 5
        BY <1>2, <3>4
      <4> QED
        BY <1>4, <4>1
    <3> QED
      BY <3>1, <3>2, <3>3, <3>4
  <2> QED
    BY <2>1 DEF Min
<1>5. CASE last = {}
  <2>1. LengthBytes(s) = 0
    BY <1>1, <1>5
  <2>2. \A i \in 2..5 : i <= Len(s) => More(s[i])
    BY <1>3, <1>5
  <2>3. ASSUME NEW i \in 1..4, EndsAt(s, i) PROVE FALSE
    BY <2>2, <2>3 DEF EndsAt
  <2> QED
    BY <2>1, <2>2, <2>3
<1>6. CASE last # {}
  <2> DEFINE m == Min(last)
  <2>1. m \in last /\ (\A y \in last : m <= y) /\ LengthBytes(s) = m - 1 /\ m \in 2..5
    BY <1>1, <1>2, <1>4, <1>6
  <2> HIDE DEF m
  <2>2. m <= Len(s) /\ ~More(s[m])
    BY <1>3, <2>1
  <2>3. \A j \in 2..(m - 1) : More(s[j])
    <3> SUFFICES ASSUME NEW j \in 2..(m - 1) PROVE More(s[j])
      OBVIOUS
    <3>1. j \in 2..5 /\ j < m /\ j <= Len(s)
      BY <2>1, <2>2
    <3> QED
      BY <1>3, <2>1, <3>1
  <2>4. EndsAt(s, m - 1)
    BY <2>1, <2>2, <2>3 DEF EndsAt
  <2>5. ASSUME NEW i \in 1..4, EndsAt(s, i) PROVE m - 1 = i
    <3>1. i + 1 \in last
      BY <1>3, <2>5 DEF EndsAt
    <3>2. m <= i + 1
      BY <2>1, <3>1
    <3>3. CASE m < i + 1
      BY <2>1, <2>2, <2>5, <3>3 DEF EndsAt
    <3> QED
      BY <2>1, <3>2, <3>3
  <2> QED
    BY <2>1, <2>4, <2>5
<1> QED
  BY <1>5, <1>6

\* Once the length is complete in s it is the same in every continuation, and
\* so is the number it spells; a length that is too long stays so.
LEMMA LengthSettled ==
  ASSUME NEW s \in Seq(Token), NEW t \in Seq(Token), Begins(s, t)
  PROVE  /\ LengthBytes(s) > 0 => LengthBytes(t) = LengthBytes(s) /\ remaining(t) = remaining(s)
         /\ TooLong(s) => LengthBytes(t) = 0
<1>1. ASSUME LengthBytes(s) > 0 PROVE LengthBytes(t) = LengthBytes(s)
  BY <1>1, LengthBytesEnds DEF EndsAt, Begins
<1>2. ASSUME LengthBytes(s) > 0 PROVE remaining(t) = remaining(s)
  <2>1. \A i \in 1..4 : DigitAt(t, i) = DigitAt(s, i)
    <3> SUFFICES ASSUME NEW i \in 1..4 PROVE DigitAt(t, i) = DigitAt(s, i)
      OBVIOUS
    <3>1. CASE i <= LengthBytes(s)
      <4>1. 1 + i \in 1..Len(s)
        BY <1>2, <3>1, LengthBytesEnds DEF EndsAt
      <4>2. s[1 + i] = t[1 + i]
        BY <4>1 DEF Begins
      <4> QED
        BY <1>1, <1>2, <3>1, <4>2 DEF DigitAt
    <3>2. CASE ~(i <= LengthBytes(s))
      BY <1>1, <1>2, <3>2 DEF DigitAt
    <3> QED
      BY <3>1, <3>2
  <2> QED
    BY <2>1 DEF remaining
<1>3. ASSUME TooLong(s) PROVE LengthBytes(t) = 0
  <2>1. \A i \in 2..5 : More(t[i])
    BY <1>3, LengthBytesEnds DEF TooLong, Begins
  <2> QED
    BY <2>1, LengthBytesEnds DEF EndsAt
<1> QED
  BY <1>1, <1>2, <1>3

\* remaining and Wants are numbers.
LEMMA WantsIsInt ==
  ASSUME NEW s \in Seq(Token)
  PROVE  remaining(s) \in Nat /\ Wants(s) \in Int
<1>1. \A i \in 1..4 : DigitAt(s, i) \in 0..1
  BY DEF DigitAt, Digit
<1>2. remaining(s) \in Nat
  BY <1>1 DEF remaining
<1> QED
  BY <1>2, LengthBytesEnds DEF Wants

\* read_packet stops with what it needs: no later byte changes the verdict on
\* the packet.
LEMMA MqttSeesPacket ==
  ASSUME NEW s \in Seq(Token), NEW t \in Seq(Token), Begins(s, t), Wants(s) = 0
  PROVE  connack_ok(s) <=> connack_ok(t)
<1>1. LengthBytes(s) \in 0..4 /\ LengthBytes(t) \in 0..4 /\ remaining(s) \in Nat
  BY LengthBytesEnds, WantsIsInt
<1>2. CASE LengthBytes(s) = 0
  <2>1. TooLong(s)
    BY <1>2 DEF Wants
  <2>2. LengthBytes(t) = 0
    BY <2>1, LengthSettled
  <2> QED
    BY <1>2, <2>2 DEF connack_ok
<1>3. CASE LengthBytes(s) > 0
  <2>1. LengthBytes(t) = LengthBytes(s) /\ remaining(t) = remaining(s)
    BY <1>3, LengthSettled
  <2>2. 1 + LengthBytes(s) + remaining(s) = Len(s) /\ Len(s) <= Len(t)
    BY <1>1, <1>3 DEF Wants, Begins
  <2>3. Wants(t) <= 0
    BY <1>1, <1>3, <2>1, <2>2 DEF Wants
  <2>4. s[1] = t[1]
    BY <1>1, <1>3, <2>2 DEF Begins
  <2>5. remaining(s) >= 2 => s[(1 + LengthBytes(s)) + 2] = t[(1 + LengthBytes(t)) + 2]
    BY <1>1, <1>3, <2>1, <2>2 DEF Begins
  <2> HIDE DEF remaining
  <2> QED
    BY <1>3, <2>1, <2>3, <2>4, <2>5 DEF connack_ok
<1> QED
  BY <1>1, <1>2, <1>3


----------------------------------------------------------------------------
(* The inductive invariant *)

\* The buffer is a beginning of what has arrived.
Held == Len(buf) \in 0..sent /\ buf = SubSeq(response, 1, Len(buf))

\* Nothing is read before the request is out, nothing returned while reading.
Phased ==
  /\ pc = "connect" => buf = <<>>
  /\ pc # "returned" => out = "none"

\* While RTSP is still reading, neither of its stop conditions holds.
Reading == reader = "rtsp" /\ pc # "returned" =>
  ~find_header_terminator(buf) /\ Len(buf) < MaxResponseBytes

\* MQTT never takes a byte of what follows the packet.
Metered == reader = "mqtt" => Wants(buf) >= 0

\* A verdict is that of the reader's buffer; and the buffer is all there is,
\* or one of the stop conditions holds of it.
Stopped == Judged =>
  /\ pc = "returned"
  /\ (out = "ok") <=> Accepts(reader, buf)
  /\ \/ buf = Said
     \/ reader \in {"tcp", "http"}
     \/ reader = "mqtt" /\ Wants(buf) = 0
     \/ reader = "rtsp" /\ (find_header_terminator(buf) \/ Len(buf) >= MaxResponseBytes)

StreamInv ==
  /\ TypeOK
  /\ Held
  /\ Phased
  /\ Reading
  /\ RtspBufferBounded
  /\ Metered
  /\ Stopped

\* The buffer's type, and that every later byte leaves it as it is.
LEMMA Typed ==
  ASSUME response \in Responses, sent \in 0..Len(response), Held
  PROVE  /\ response \in Seq(Token) /\ buf \in Seq(Token)
         /\ Len(buf) \in Nat /\ Len(buf) <= sent /\ sent \in Nat
         /\ Begins(buf, response)
<1>1. response \in Seq(Token)
  BY ResponseTokens
<1>2. Len(buf) \in 0..Len(response)
  BY <1>1 DEF Held
<1>3. buf \in Seq(Token) /\ \A i \in 1..Len(buf) : buf[i] = response[i]
  BY <1>1, <1>2, Cut DEF Held
<1> QED
  BY <1>1, <1>2, <1>3 DEF Held, Begins

\* ... and so it begins all that the server ever says.
LEMMA SaidBegins ==
  ASSUME response \in Responses, sent \in 0..Len(response), Held
  PROVE  Said \in Seq(Token) /\ Begins(buf, Said)
<1>1. CASE conn = "open"
  BY <1>1, Typed DEF Said
<1>2. CASE conn # "open"
  <2>1. /\ SubSeq(response, 1, sent) \in Seq(Token)
        /\ Len(SubSeq(response, 1, sent)) = sent
        /\ \A i \in 1..sent : SubSeq(response, 1, sent)[i] = response[i]
    BY Typed, Cut
  <2> QED
    BY <1>2, <2>1, Typed DEF Said, Begins
<1> QED
  BY <1>1, <1>2

\* The part of TypeOK about the buffer.
LEMMA HeldIsPrefix ==
  ASSUME response \in Responses, sent \in 0..Len(response), Held
  PROVE  IsPrefix(buf, response) /\ Len(buf) <= sent
BY Typed, PrefixIsBegins

\* read_exact of no more than is wanted leaves no less than nothing wanted.
LEMMA WantsAfter ==
  ASSUME NEW s \in Seq(Token), NEW t \in Seq(Token), Begins(s, t),
         NEW n \in Nat \ {0}, Len(t) = Len(s) + n, n <= Wants(s)
  PROVE  Wants(t) >= 0
<1>1. /\ LengthBytes(s) \in 0..4 /\ LengthBytes(t) \in 0..4
      /\ remaining(s) \in Nat /\ remaining(t) \in Nat
  BY LengthBytesEnds, WantsIsInt
<1>2. CASE LengthBytes(s) > 0
  <2>1. LengthBytes(t) = LengthBytes(s) /\ remaining(t) = remaining(s)
    BY <1>2, LengthSettled
  <2> QED
    BY <1>1, <1>2, <2>1, SMTT(30) DEF Wants
<1>3. CASE LengthBytes(s) = 0
  <2>1. n = 1 /\ Len(s) < 5
    BY <1>3 DEF Wants, TooLong
  <2>2. CASE LengthBytes(t) = 0
    BY <2>2 DEF Wants
  <2>3. CASE LengthBytes(t) > 0
    <3> DEFINE k == LengthBytes(t)
    <3>1. k \in 1..4 /\ k < Len(t) /\ ~More(t[k + 1]) /\ \A j \in 2..k : More(t[j])
      BY <1>1, <2>3, LengthBytesEnds DEF EndsAt
    <3>2. CASE k < Len(s)
      <4>1. EndsAt(s, k)
        <5> HIDE DEF k
        <5>1. \A j \in 2..(k + 1) : s[j] = t[j]
          BY <3>1, <3>2 DEF Begins
        <5>2. ~More(s[k + 1]) /\ \A j \in 2..k : More(s[j])
          BY <3>1, <5>1
        <5> QED
          BY <3>1, <3>2, <5>2 DEF EndsAt
      <4> QED
        BY <1>3, <3>1, <4>1, LengthBytesEnds
    <3>3. CASE k = Len(s)
      BY <1>1, <2>1, <2>3, <3>3 DEF Wants
    <3> QED
      BY <2>1, <3>1, <3>2, <3>3
  <2> QED
    BY <1>1, <2>2, <2>3
<1> QED
  BY <1>1, <1>2, <1>3

----------------------------------------------------------------------------
(* StreamInv is an invariant *)

\* A connection that is still being set up has read nothing.
LEMMA InitInv == Init => StreamInv
<1> SUFFICES ASSUME Init PROVE StreamInv
  OBVIOUS
<1>1. response \in Seq(Token) /\ Len(response) \in Nat /\ buf = <<>> /\ Len(buf) = 0
  BY ResponseTokens DEF Init
<1>2. buf \in Seq(Token)
  BY <1>1
<1>3. Held
  <2>1. SubSeq(response, 1, 0) = <<>>
    BY SubSeqEmpty
  <2> QED
    BY <1>1, <2>1 DEF Held, Init
<1>4. TypeOK
  <2>1. response \in Responses /\ sent \in 0..Len(response)
    BY <1>1 DEF Init
  <2> QED
    BY <1>3, <2>1, HeldIsPrefix DEF TypeOK, Init
<1>5. Phased
  BY <1>1 DEF Phased, Init
<1>6. Reading /\ RtspBufferBounded
  <2>1. ~find_header_terminator(buf)
    <3>1. find_header_terminator(buf) =>
            \E i \in 1..(Len(buf) - 1) : buf[i] = CRLF /\ buf[i + 1] = CRLF
      BY <1>2, TerminatorAt
    <3>2. 1..(Len(buf) - 1) = {}
      BY <1>1
    <3> QED
      BY <3>1, <3>2
  <2> QED
    BY <1>1, <2>1, StreamAssumption DEF Reading, RtspBufferBounded
<1>7. Metered
  <2>1. LengthBytes(buf) = 0
    <3>1. /\ LengthBytes(buf) \in 0..4
          /\ LengthBytes(buf) > 0 => EndsAt(buf, LengthBytes(buf))
      BY <1>2, LengthBytesEnds
    <3>2. ~EndsAt(buf, LengthBytes(buf))
      BY <1>1, <3>1 DEF EndsAt
    <3> QED
      BY <3>1, <3>2
  <2> QED
    BY <2>1 DEF Metered, Wants
<1>8. Stopped
  BY DEF Stopped, Judged, Init
<1> QED
  BY <1>3, <1>4, <1>5, <1>6, <1>7, <1>8 DEF StreamInv

\* What a step that reads nothing keeps.
LEMMA BufferKept ==
  ASSUME StreamInv, UNCHANGED <<reader, response, buf>>, sent' \in sent..Len(response)
  PROVE  Held' /\ RtspBufferBounded' /\ Metered' /\ IsPrefix(buf, response)' /\ (Len(buf) <= sent)'
<1>1. /\ response \in Responses /\ sent \in 0..Len(response) /\ Held
      /\ Len(response) \in Nat
  BY ResponseTokens DEF StreamInv, TypeOK
<1>2. Held' /\ RtspBufferBounded' /\ Metered'
  BY <1>1, Typed DEF StreamInv, Held, RtspBufferBounded, Metered
<1> QED
  BY <1>1, <1>2, HeldIsPrefix, Typed

\* Request.
LEMMA RequestInv == StreamInv /\ Request => StreamInv'
<1> SUFFICES ASSUME StreamInv, Request PROVE StreamInv'
  OBVIOUS
<1>1. sent' \in sent..Len(response)
  BY ResponseTokens DEF StreamInv, TypeOK, Request
<1>2. Held' /\ RtspBufferBounded' /\ Metered' /\ IsPrefix(buf, response)' /\ (Len(buf) <= sent)'
  BY <1>1, BufferKept DEF Request
<1>3. TypeOK'
  BY <1>2 DEF StreamInv, TypeOK, Request
<1>4. Phased' /\ Reading' /\ Stopped'
  BY DEF StreamInv, Phased, Reading, Stopped, Judged, Request
<1> QED
  BY <1>2, <1>3, <1>4 DEF StreamInv

\* Write: the server's next token arrives.
LEMMA WriteInv == StreamInv /\ Write => StreamInv'
<1> SUFFICES ASSUME StreamInv, Write PROVE StreamInv'
  OBVIOUS
<1>1. sent' \in sent..Len(response) /\ sent' \in 0..Len(response)
  BY ResponseTokens DEF StreamInv, TypeOK, Write
<1>2. Held' /\ RtspBufferBounded' /\ Metered' /\ IsPrefix(buf, response)' /\ (Len(buf) <= sent)'
  BY <1>1, BufferKept DEF Write
<1>3. TypeOK'
  BY <1>1, <1>2 DEF StreamInv, TypeOK, Write
<1>4. Phased' /\ Reading' /\ Stopped'
  BY DEF StreamInv, Phased, Reading, Stopped, Judged, Write
<1> QED
  BY <1>2, <1>3, <1>4 DEF StreamInv

\* Close and reset: only while the reader reads, so no verdict changes.
LEMMA CloseInv ==
  ASSUME StreamInv, NEW how \in {"fin", "rst"}, Close(how)
  PROVE  StreamInv'
<1>1. sent' \in sent..Len(response)
  BY ResponseTokens DEF StreamInv, TypeOK, Close
<1>2. Held' /\ RtspBufferBounded' /\ Metered' /\ IsPrefix(buf, response)' /\ (Len(buf) <= sent)'
  BY <1>1, BufferKept DEF Close
<1>3. TypeOK'
  BY <1>2 DEF StreamInv, TypeOK, Close
<1>4. Phased' /\ Reading' /\ Stopped'
  BY DEF StreamInv, Phased, Reading, Stopped, Judged, Close
<1> QED
  BY <1>2, <1>3, <1>4 DEF StreamInv

\* IoError and TimeOut end the ping without a verdict.
LEMMA FailInv ==
  ASSUME StreamInv, NEW o \in {"io", "timedout"}, Finish(o), UNCHANGED buf
  PROVE  StreamInv'
<1>1. sent' \in sent..Len(response)
  BY ResponseTokens DEF StreamInv, TypeOK, Finish
<1>2. Held' /\ RtspBufferBounded' /\ Metered' /\ IsPrefix(buf, response)' /\ (Len(buf) <= sent)'
  BY <1>1, BufferKept DEF Finish
<1>3. TypeOK'
  BY <1>2 DEF StreamInv, TypeOK, Finish
<1>4. Phased' /\ Reading' /\ Stopped'
  BY DEF StreamInv, Phased, Reading, Stopped, Judged, Finish
<1> QED
  BY <1>2, <1>3, <1>4 DEF StreamInv

\* ReadEof: the server closed and the buffer is all it said.
LEMMA ReadEofInv == StreamInv /\ ReadEof => StreamInv'
<1> SUFFICES ASSUME StreamInv, ReadEof PROVE StreamInv'
  OBVIOUS
<1> DEFINE verdict == IF Accepts(reader, buf) THEN "ok" ELSE "rejected"
<1>0. /\ pc' = "returned" /\ out' = verdict
      /\ UNCHANGED <<reader, response, sent, conn, buf>>
  BY DEF ReadEof, Judge, Finish
<1>1. sent' \in sent..Len(response)
  BY <1>0, ResponseTokens DEF StreamInv, TypeOK
<1>2. Held' /\ RtspBufferBounded' /\ Metered' /\ IsPrefix(buf, response)' /\ (Len(buf) <= sent)'
  BY <1>0, <1>1, BufferKept
<1>3. TypeOK'
  BY <1>0, <1>2 DEF StreamInv, TypeOK
<1>4. Phased' /\ Reading'
  BY <1>0 DEF Phased, Reading
<1>5. buf = Said
  BY DEF StreamInv, Held, ReadEof, Said
<1>6. Stopped'
  BY <1>0, <1>5 DEF Stopped, Said
<1> QED
  BY <1>2, <1>3, <1>4, <1>6 DEF StreamInv

\* Read: the buffer grows; it is judged when a stop condition holds of it.
LEMMA ReadInv ==
  ASSUME StreamInv, NEW n \in 1..Chunk, Read(n)
  PROVE  StreamInv'
<1> DEFINE verdict == IF Accepts(reader, buf') THEN "ok" ELSE "rejected"
<1>0. /\ UNCHANGED <<reader, response, sent, conn>>
      /\ \/ Enough(buf', n) /\ pc' = "returned" /\ out' = verdict
         \/ ~Enough(buf', n) /\ UNCHANGED <<pc, out>>
      /\ pc = "read" /\ out = "none"
  BY DEF StreamInv, Phased, Read, Judge, Finish
<1> HIDE DEF verdict
<1>1. /\ response \in Responses /\ sent \in 0..Len(response) /\ Held
      /\ response \in Seq(Token) /\ buf \in Seq(Token)
      /\ Len(buf) \in Nat /\ Len(response) \in Nat /\ n \in Nat \ {0} /\ n <= Chunk
      /\ Chunk \in Nat /\ MaxResponseBytes \in Nat /\ Begins(buf, response)
  BY Typed, StreamAssumption DEF StreamInv, TypeOK
<1>2. Len(buf) + n \in 0..Len(response) /\ Len(buf) + n <= sent /\ buf' = SubSeq(response, 1, Len(buf) + n)
  BY <1>1 DEF Read
<1>3. /\ buf' \in Seq(Token) /\ Len(buf') = Len(buf) + n
      /\ \A i \in 1..(Len(buf) + n) : buf'[i] = response[i]
  BY <1>1, <1>2, Cut
<1>4. Begins(buf, buf')
  BY <1>1, <1>3 DEF Begins
<1>5. Held'
  BY <1>0, <1>1, <1>2, <1>3 DEF Held
<1>6. IsPrefix(buf, response)' /\ (Len(buf) <= sent)'
  <2>1. (response \in Responses /\ sent \in 0..Len(response) /\ Held)'
    BY <1>0, <1>1, <1>5
  <2>2. IsPrefix(buf', response') <=> Begins(buf', response')
    BY <1>0, <1>1, <1>3, PrefixIsBegins
  <2>3. Begins(buf', response')
    BY <1>0, <1>2, <1>3 DEF Begins
  <2> QED
    BY <1>0, <1>2, <1>3, <2>2, <2>3
<1>7. TypeOK'
  BY <1>0, <1>6 DEF StreamInv, TypeOK, verdict
<1>8. Phased'
  BY <1>0 DEF Phased, verdict
<1>9. Reading'
  BY <1>0, <1>1, <1>3 DEF Reading, Enough
<1>10. RtspBufferBounded'
  BY <1>0, <1>1, <1>3 DEF StreamInv, Reading, RtspBufferBounded
<1>11. Metered'
  <2> SUFFICES ASSUME reader = "mqtt" PROVE Wants(buf') >= 0
    BY <1>0 DEF Metered
  <2>1. n <= Wants(buf)
    BY DEF Read
  <2> QED
    BY <1>1, <1>3, <1>4, <2>1, WantsAfter
<1>12. Stopped'
  <2>1. CASE ~Enough(buf', n)
    BY <1>0, <2>1 DEF Stopped, Judged
  <2>2. CASE Enough(buf', n)
    <3>1. pc' = "returned" /\ out' = verdict /\ reader' = reader
      BY <1>0, <2>2
    <3>2. (out' = "ok") <=> Accepts(reader', buf')
      BY <3>1 DEF verdict
    <3>3. \/ reader' \in {"tcp", "http"}
          \/ reader' = "mqtt" /\ Wants(buf') = 0
          \/ reader' = "rtsp" /\ (find_header_terminator(buf') \/ Len(buf') >= MaxResponseBytes)
      BY <2>2, <3>1 DEF Enough
    <3> QED
      BY <3>1, <3>2, <3>3 DEF Stopped
  <2> QED
    BY <2>1, <2>2
<1> QED
  BY <1>5, <1>7, <1>8, <1>9, <1>10, <1>11, <1>12 DEF StreamInv

LEMMA StreamInvariant == Spec => []StreamInv
<1>1. Init => StreamInv
  BY InitInv
<1>2. StreamInv /\ [Next]_vars => StreamInv'
  <2> SUFFICES ASSUME StreamInv, [Next]_vars PROVE StreamInv'
    OBVIOUS
  <2>1. CASE Request
    BY <2>1, RequestInv
  <2>2. ASSUME NEW n \in 1..Chunk, Read(n) PROVE StreamInv'
    BY <2>2, ReadInv
  <2>3. CASE ReadEof
    BY <2>3, ReadEofInv
  <2>4. CASE IoError
    BY <2>4, FailInv DEF IoError
  <2>5. CASE TimeOut
    BY <2>5, FailInv DEF TimeOut
  <2>6. CASE Write
    BY <2>6, WriteInv
  <2>7. ASSUME NEW how \in {"fin", "rst"}, Close(how) PROVE StreamInv'
    BY <2>7, CloseInv, ZenonT(40)
  <2>8. CASE UNCHANGED vars
    BY <2>8, ZenonT(60) DEF vars, StreamInv, TypeOK, Held, Phased, Reading, RtspBufferBounded, Metered,
                Stopped, Judged, Said
  <2>9. CASE Done
    BY <2>8, <2>9 DEF Done
  <2> QED
    BY <2>1, <2>2, <2>3, <2>4, <2>5, <2>6, <2>7, <2>8, <2>9 DEF Next
<1> QED
  BY <1>1, <1>2, PTL DEF Spec

----------------------------------------------------------------------------
(* The theorems *)

\* Whatever a server sends and however it is cut, a reader holds a beginning
\* of what arrived, and every variable has its type.
THEOREM StreamTypeCorrect == Spec => []TypeOK
<1>1. StreamInv => TypeOK
  BY DEF StreamInv
<1> QED
  BY <1>1, StreamInvariant, PTL

\* RTSP never reads on past complete headers, whatever the response, the
\* size of a read and the limit.
THEOREM TerminatorCorrect == Spec => []RtspStopsAtTerminator
<1>1. StreamInv => RtspStopsAtTerminator
  BY DEF StreamInv, Reading, RtspStopsAtTerminator
<1> QED
  BY <1>1, StreamInvariant, PTL

\* Its buffer never grows past the limit by more than one read.
THEOREM BufferCorrect == Spec => []RtspBufferBounded
<1>1. StreamInv => RtspBufferBounded
  BY DEF StreamInv
<1> QED
  BY <1>1, StreamInvariant, PTL

\* The verdict of the looping readers is that of the whole stream: no cut, no
\* later byte and no early stop changes what RTSP, HLS and MQTT answer.
THEOREM VerdictCorrect == Spec => []LoopVerdictIsWhole
<1>1. StreamInv => LoopVerdictIsWhole
  <2> SUFFICES ASSUME StreamInv, reader \in {"rtsp", "hls", "mqtt"}, Judged
               PROVE  Accepts(reader, buf) <=> Accepts(reader, Said)
    BY DEF StreamInv, Stopped, LoopVerdictIsWhole
  <2>1. buf \in Seq(Token) /\ Said \in Seq(Token) /\ Begins(buf, Said) /\ Len(buf) \in Nat
    BY Typed, SaidBegins DEF StreamInv, TypeOK
  <2>2. CASE buf = Said
    BY <2>2
  <2>3. CASE reader = "mqtt" /\ Wants(buf) = 0
    <3>1. connack_ok(buf) <=> connack_ok(Said)
      BY <2>1, <2>3, MqttSeesPacket
    <3>2. \A s : Accepts("mqtt", s) <=> connack_ok(s)
      BY Zenon DEF Accepts
    <3> QED
      BY <2>3, <3>1, <3>2
  <2>4. CASE reader = "rtsp" /\ (find_header_terminator(buf) \/ Len(buf) >= MaxResponseBytes)
    <3>1. find_header_terminator(buf) \/ Len(buf) >= 4
      BY <2>1, <2>4, StreamAssumption
    <3>2. rtsp_ok(buf) <=> rtsp_ok(Said)
      BY <2>1, <3>1, RtspSeesStatus
    <3>3. \A s : Accepts("rtsp", s) <=> rtsp_ok(s)
      BY Zenon DEF Accepts
    <3> QED
      BY <2>4, <3>2, <3>3
  <2> QED
    BY <2>2, <2>3, <2>4 DEF StreamInv, Stopped
<1> QED
  BY <1>1, StreamInvariant, PTL

\* read_packet takes one packet to the byte: what it returns successfully is a
\* header, the bytes of its length and exactly as many as they say, whatever
\* encoding of the length the server chose.
LEMMA PacketExact ==
  ASSUME StreamInv, reader = "mqtt", out = "ok"
  PROVE  LengthBytes(buf) > 0 /\ Len(buf) = 1 + LengthBytes(buf) + remaining(buf)
<1>1. buf \in Seq(Token) /\ Len(buf) \in Nat
  BY Typed DEF StreamInv, TypeOK
<1>2. LengthBytes(buf) \in 0..4 /\ remaining(buf) \in Nat
  BY <1>1, LengthBytesEnds, WantsIsInt
<1>3. Wants(buf) >= 0
  BY DEF StreamInv, Metered
<1>4. Accepts("mqtt", buf)
  BY DEF StreamInv, Stopped, Judged
<1>5. connack_ok(buf)
  BY <1>4, Zenon DEF Accepts
<1> QED
  BY <1>1, <1>2, <1>3, <1>5 DEF connack_ok, Wants

\* A packet that read_packet returns is a header, the bytes of its length and
\* exactly as many bytes as they say.
THEOREM PacketCorrect ==
  Spec => [](reader = "mqtt" /\ out = "ok" => Len(buf) = 1 + LengthBytes(buf) + remaining(buf))
<1>1. StreamInv =>
        (reader = "mqtt" /\ out = "ok" => Len(buf) = 1 + LengthBytes(buf) + remaining(buf))
  BY PacketExact
<1> QED
  BY <1>1, StreamInvariant, PTL

----------------------------------------------------------------------------
(* MQTT: what encode_varint writes is what read_packet reads. *)

\* One turn of encode_varint's recursion.
Spelt(e, v) == IF v < 2 THEN <<Byte(v, FALSE)>> ELSE <<Byte(v % 2, TRUE)>> \o e[v \div 2]

LEMMA Half == \A v \in Nat : v >= 2 => v \div 2 \in 0..(v - 1) /\ v % 2 \in 0..1 /\ v = 2 * (v \div 2) + (v % 2)
OBVIOUS

LEMMA ByteIs ==
  ASSUME NEW d \in 0..1
  PROVE  /\ Byte(d, TRUE) \in Digits /\ More(Byte(d, TRUE)) /\ Digit(Byte(d, TRUE)) = d
         /\ Byte(d, FALSE) \in Digits /\ ~More(Byte(d, FALSE)) /\ Digit(Byte(d, FALSE)) = d
BY DEF Byte, More, Digit, Digits

LEMMA OneByte == \A b \in Digits : <<b>> \in Seq(Digits)
OBVIOUS

LEMMA SpeltSeq ==
  ASSUME NEW f, NEW v \in Nat, v >= 2 => f[v \div 2] \in Seq(Digits)
  PROVE  Spelt(f, v) \in Seq(Digits)
<1>1. CASE v < 2
  <2>1. v \in 0..1
    BY <1>1
  <2>2. <<Byte(v, FALSE)>> \in Seq(Digits)
    BY <2>1, ByteIs, OneByte, Zenon
  <2> QED
    BY <1>1, <2>2, Zenon DEF Spelt
<1>2. CASE ~(v < 2)
  <2>1. v >= 2 /\ v % 2 \in 0..1
    BY <1>2, Half
  <2>2. <<Byte(v % 2, TRUE)>> \in Seq(Digits) /\ f[v \div 2] \in Seq(Digits)
    BY <2>1, ByteIs, OneByte, Zenon
  <2>3. <<Byte(v % 2, TRUE)>> \o f[v \div 2] \in Seq(Digits)
    BY <2>2, ConcatProperties, Zenon
  <2> QED
    BY <1>2, <2>3, Zenon DEF Spelt
<1> QED
  BY <1>1, <1>2

\* The recursion has a solution, up to any number.
Spells(n, f) == f \in [0..n -> Seq(Digits)] /\ \A v \in 0..n : f[v] = Spelt(f, v)

LEMMA SpellingExists == \A n \in Nat : \E f : Spells(n, f)
<1> DEFINE S == {n \in Nat : \E f : Spells(n, f)}
<1>1. \E f : Spells(0, f)
  <2> DEFINE f == [v \in 0..0 |-> <<Byte(0, FALSE)>>]
  <2>1. \A v \in 0..0 : Spelt(f, v) = <<Byte(0, FALSE)>>
    <3>1. \A v \in 0..0 : v = 0 /\ v < 2
      OBVIOUS
    <3> QED
      BY <3>1, Zenon DEF Spelt
  <2>2. <<Byte(0, FALSE)>> \in Seq(Digits)
    <3>1. 0 \in 0..1
      OBVIOUS
    <3> QED
      BY <3>1, ByteIs, OneByte, Zenon
  <2>3. Spells(0, f)
    BY <2>1, <2>2, Zenon DEF Spells
  <2> QED
    BY <2>3
<1>2. ASSUME NEW n \in Nat, \E f : Spells(n, f) PROVE \E g : Spells(n + 1, g)
  <2>1. PICK f : Spells(n, f)
    BY <1>2
  <2> DEFINE g == [v \in 0..(n + 1) |-> IF v = n + 1 THEN Spelt(f, n + 1) ELSE f[v]]
  <2>2. \A v \in 0..n : g[v] = f[v]
    OBVIOUS
  <2>3. g[n + 1] = Spelt(f, n + 1)
    OBVIOUS
  <2>4. \A v \in 0..(n + 1) : Spelt(g, v) = Spelt(f, v)
    <3> SUFFICES ASSUME NEW v \in 0..(n + 1), ~(v < 2) PROVE g[v \div 2] = f[v \div 2]
      BY DEF Spelt
    <3>1. v \div 2 \in 0..n
      BY Half
    <3> HIDE DEF g
    <3> QED
      BY <2>2, <3>1, Zenon
  <2>5. Spelt(f, n + 1) \in Seq(Digits)
    <3>1. n + 1 >= 2 => (n + 1) \div 2 \in 0..n
      BY Half
    <3>2. f \in [0..n -> Seq(Digits)]
      BY <2>1 DEF Spells
    <3>3. n + 1 >= 2 => f[(n + 1) \div 2] \in Seq(Digits)
      BY <3>1, <3>2, Zenon
    <3>4. n + 1 \in Nat
      OBVIOUS
    <3> QED
      BY <3>3, <3>4, SpeltSeq, Zenon
  <2>6. g \in [0..(n + 1) -> Seq(Digits)]
    BY <2>1, <2>5 DEF Spells
  <2>7. ASSUME NEW v \in 0..(n + 1) PROVE g[v] = Spelt(g, v)
    <3>1. v \in 0..n \/ v = n + 1
      OBVIOUS
    <3>2. \A w \in 0..n : f[w] = Spelt(f, w)
      BY <2>1, Zenon DEF Spells
    <3> HIDE DEF g
    <3> QED
      BY <2>2, <2>3, <2>4, <3>1, <3>2, Zenon
  <2>8. Spells(n + 1, g)
    BY <2>6, <2>7, Zenon DEF Spells
  <2> QED
    BY <2>8
<1>3. 0 \in S /\ \A n \in Nat : n \in S => n + 1 \in S
  BY <1>1, <1>2
<1>4. \A n \in Nat : n \in S
  <2> HIDE DEF S
  <2> QED
    BY <1>3, Induct, Zenon
<1> QED
  BY <1>4, Zenon

\* encode_varint(n) is one such solution at n; all agree, but one is enough.
LEMMA VarintIs ==
  ASSUME NEW n \in Nat
  PROVE  \E f : Spells(n, f) /\ encode_varint(n) = f[n]
<1> DEFINE Def(g, v) == IF v < 2 THEN <<Byte(v, FALSE)>> ELSE <<Byte(v % 2, TRUE)>> \o g[v \div 2]
           E == CHOOSE g : g = [v \in 0..n |-> Def(g, v)]
<1>1. PICK f : Spells(n, f)
  BY SpellingExists
<1>2. f = [v \in 0..n |-> Def(f, v)]
  BY <1>1, Zenon DEF Spells, Spelt
<1>3. E = [v \in 0..n |-> Def(E, v)]
  BY <1>2, Zenon
<1>4. encode_varint(n) = E[n]
  BY Zenon DEF encode_varint
<1> HIDE DEF E
<1>5. E = f
  <2> DEFINE S == {m \in Nat : \A v \in 0..n : v <= m => E[v] = f[v]}
  <2>1. \A v \in 0..n : E[v] = Spelt(E, v) /\ f[v] = Spelt(f, v)
    BY <1>1, <1>3, Zenon DEF Spells, Spelt
  <2>2. ASSUME NEW v \in 0..n, v < 2 PROVE E[v] = f[v]
    <3>1. Spelt(E, v) = <<Byte(v, FALSE)>> /\ Spelt(f, v) = <<Byte(v, FALSE)>>
      BY <2>2, Zenon DEF Spelt
    <3> QED
      BY <2>1, <3>1, Zenon
  <2>3. 0 \in S
    <3>1. \A v \in 0..n : v <= 0 => v < 2
      OBVIOUS
    <3> QED
      BY <2>2, <3>1, Zenon
  <2>4. ASSUME NEW m \in Nat, m \in S PROVE m + 1 \in S
    <3> SUFFICES ASSUME NEW v \in 0..n, v <= m + 1, ~(v < 2) PROVE E[v] = f[v]
      BY <2>2
    <3>1. v \div 2 \in 0..n /\ v \div 2 <= m
      BY Half
    <3>2. E[v \div 2] = f[v \div 2]
      BY <2>4, <3>1, Zenon
    <3> QED
      BY <2>1, <3>2, Zenon DEF Spelt
  <2>5. \A m \in Nat : m \in S
    <3> HIDE DEF S
    <3> QED
      BY <2>3, <2>4, Induct, Zenon
  <2>6. \A v \in 0..n : E[v] = f[v]
    BY <2>5
  <2> QED
    BY <1>1, <1>3, <2>6, Zenon DEF Spells
<1> QED
  BY <1>1, <1>4, <1>5, Zenon

\* w is the last byte of a length, or a byte and the bytes u behind it.
Final(w, d) == Len(w) = 1 /\ ~More(w[1]) /\ Digit(w[1]) = d
Goes(w, d, u) ==
  /\ Len(w) = 1 + Len(u) /\ More(w[1]) /\ Digit(w[1]) = d
  /\ \A i \in 1..Len(u) : w[1 + i] = u[i]

LEMMA SpeltIs ==
  ASSUME NEW n \in Nat, NEW f, Spells(n, f), NEW v \in 0..n
  PROVE  /\ Len(f[v]) \in Nat
         /\ v < 2 => Final(f[v], v)
         /\ ~(v < 2) => Goes(f[v], v % 2, f[v \div 2]) /\ v \div 2 \in 0..n
<1>1. f \in [0..n -> Seq(Digits)] /\ f[v] = Spelt(f, v)
  BY Zenon DEF Spells
<1>2. f[v] \in Seq(Digits)
  BY <1>1, Zenon
<1>3. Len(f[v]) \in Nat
  BY <1>2
<1>4. ASSUME v < 2 PROVE Final(f[v], v)
  <2>1. f[v] = <<Byte(v, FALSE)>>
    BY <1>1, <1>4, Zenon DEF Spelt
  <2>2. v \in 0..1
    BY <1>4
  <2>3. PICK b : b = Byte(v, FALSE)
    OBVIOUS
  <2>4. ~More(b) /\ Digit(b) = v
    BY <2>2, <2>3, ByteIs, Zenon
  <2>5. f[v] = <<b>> /\ Len(<<b>>) = 1 /\ <<b>>[1] = b
    BY <2>1, <2>3
  <2> QED
    BY <2>4, <2>5, Zenon DEF Final
<1>5. ASSUME ~(v < 2) PROVE Goes(f[v], v % 2, f[v \div 2]) /\ v \div 2 \in 0..n
  <2>1. f[v] = <<Byte(v % 2, TRUE)>> \o f[v \div 2]
    BY <1>1, <1>5, Zenon DEF Spelt
  <2>2. v % 2 \in 0..1 /\ v \div 2 \in 0..n
    BY <1>5, Half
  <2>3. PICK b : b = Byte(v % 2, TRUE)
    OBVIOUS
  <2>4. More(b) /\ Digit(b) = v % 2 /\ b \in Digits
    BY <2>2, <2>3, ByteIs, Zenon
  <2>5. PICK u : u = f[v \div 2]
    OBVIOUS
  <2>6. u \in Seq(Digits)
    BY <1>1, <2>2, <2>5, Zenon
  <2>7. PICK w : w = <<b>> \o u
    OBVIOUS
  <2>8. <<b>> \in Seq(Digits) /\ Len(<<b>>) = 1 /\ <<b>>[1] = b
    BY <2>4
  <2>9. /\ Len(w) = 1 + Len(u) /\ w[1] = b
        /\ \A i \in 1..Len(u) : w[1 + i] = u[i]
    BY <2>6, <2>7, <2>8, ConcatProperties
  <2>10. Goes(w, v % 2, u)
    BY <2>4, <2>9, Zenon DEF Goes
  <2> QED
    BY <2>1, <2>2, <2>3, <2>5, <2>7, <2>10, Zenon
<1> QED
  BY <1>3, <1>4, <1>5

\* r has the bytes w after its first.
Bears(r, w) == 1 + Len(w) <= Len(r) /\ \A i \in 1..Len(w) : r[1 + i] = w[i]

\* A length of at most four bytes is read as it was written; a longer one is
\* not read at all.
LEMMA VarintRead ==
  ASSUME NEW r \in Seq(Token), NEW n \in Nat, Bears(r, encode_varint(n)), LengthBytes(r) > 0
  PROVE  LengthBytes(r) = Len(encode_varint(n)) /\ remaining(r) = n
<1>1. PICK f : Spells(n, f) /\ encode_varint(n) = f[n]
  BY VarintIs
<1> DEFINE n1 == n \div 2
           n2 == n1 \div 2
           n3 == n2 \div 2
<1>2. /\ n1 \in Nat /\ n2 \in Nat /\ n3 \in Nat
      /\ n = 2 * n1 + (n % 2) /\ n1 = 2 * n2 + (n1 % 2) /\ n2 = 2 * n3 + (n2 % 2)
  OBVIOUS
<1>3. LengthBytes(r) \in 0..4 /\ EndsAt(r, LengthBytes(r))
      /\ \A i \in 1..4 : EndsAt(r, i) => LengthBytes(r) = i
  BY LengthBytesEnds
<1>4. Len(r) \in Nat
  OBVIOUS
<1>5. Bears(r, f[n]) /\ n \in 0..n
  BY <1>1
<1> HIDE DEF n1, n2, n3
<1>6. CASE n < 2
  <2>1. Final(f[n], n)
    BY <1>1, <1>5, <1>6, SpeltIs, Zenon
  <2>2. EndsAt(r, 1) /\ Digit(r[2]) = n
    BY <1>4, <1>5, <2>1 DEF EndsAt, Final, Bears
  <2>3. LengthBytes(r) = 1
    BY <1>3, <2>2
  <2>4. remaining(r) = n
    BY <2>2, <2>3 DEF remaining, DigitAt
  <2> QED
    BY <1>1, <2>1, <2>3, <2>4 DEF Final
<1>7. CASE ~(n < 2)
  <2>1. Goes(f[n], n % 2, f[n1]) /\ n1 \in 0..n /\ Len(f[n1]) \in Nat
    BY <1>1, <1>5, <1>7, SpeltIs, Zenon DEF n1
  <2>2. CASE n1 < 2
    <3>1. Final(f[n1], n1)
      BY <1>1, <2>1, <2>2, SpeltIs, Zenon
    <3>2. EndsAt(r, 2) /\ Digit(r[2]) = n % 2 /\ Digit(r[3]) = n1 /\ Len(f[n]) = 2
      BY <1>4, <1>5, <2>1, <3>1 DEF EndsAt, Final, Goes, Bears
    <3>3. LengthBytes(r) = 2
      BY <1>3, <3>2
    <3>4. remaining(r) = n
      BY <1>2, <3>2, <3>3 DEF remaining, DigitAt
    <3> QED
      BY <1>1, <3>2, <3>3, <3>4
  <2>3. CASE ~(n1 < 2)
    <3>1. Goes(f[n1], n1 % 2, f[n2]) /\ n2 \in 0..n /\ Len(f[n2]) \in Nat
      BY <1>1, <2>1, <2>3, SpeltIs, Zenon DEF n2
    <3>2. CASE n2 < 2
      <4>1. Final(f[n2], n2)
        BY <1>1, <3>1, <3>2, SpeltIs, Zenon
      <4>2. /\ EndsAt(r, 3) /\ Digit(r[2]) = n % 2 /\ Digit(r[3]) = n1 % 2 /\ Digit(r[4]) = n2
            /\ Len(f[n]) = 3
        BY <1>4, <1>5, <2>1, <3>1, <4>1 DEF EndsAt, Final, Goes, Bears
      <4>3. LengthBytes(r) = 3
        BY <1>3, <4>2
      <4>4. remaining(r) = n
        <5>1. /\ DigitAt(r, 1) = n % 2 /\ DigitAt(r, 2) = n1 % 2 /\ DigitAt(r, 3) = n2
              /\ DigitAt(r, 4) = 0
          BY <4>2, <4>3 DEF DigitAt
        <5> QED
          BY <1>2, <5>1 DEF remaining
      <4> QED
        BY <1>1, <4>2, <4>3, <4>4
    <3>3. CASE ~(n2 < 2)
      <4>1. Goes(f[n2], n2 % 2, f[n3]) /\ n3 \in 0..n /\ Len(f[n3]) \in Nat
        BY <1>1, <3>1, <3>3, SpeltIs, Zenon DEF n3
      <4>2. CASE n3 < 2
        <5>1. Final(f[n3], n3)
          BY <1>1, <4>1, <4>2, SpeltIs, Zenon
        <5>2. /\ EndsAt(r, 4) /\ Digit(r[2]) = n % 2 /\ Digit(r[3]) = n1 % 2 /\ Digit(r[4]) = n2 % 2
              /\ Digit(r[5]) = n3 /\ Len(f[n]) = 4
          BY <1>4, <1>5, <2>1, <3>1, <4>1, <5>1 DEF EndsAt, Final, Goes, Bears
        <5>3. LengthBytes(r) = 4
          BY <1>3, <5>2
        <5>4. remaining(r) = n
          <6>1. /\ DigitAt(r, 1) = n % 2 /\ DigitAt(r, 2) = n1 % 2 /\ DigitAt(r, 3) = n2 % 2
                /\ DigitAt(r, 4) = n3
            BY <5>2, <5>3 DEF DigitAt
          <6> QED
            BY <1>2, <6>1 DEF remaining
        <5> QED
          BY <1>1, <5>2, <5>3, <5>4
      <4>3. CASE ~(n3 < 2)
        <5>1. Goes(f[n3], n3 % 2, f[n3 \div 2]) /\ Len(f[n3 \div 2]) \in Nat
          BY <1>1, <4>1, <4>3, SpeltIs, Zenon
        <5>2. More(r[2]) /\ More(r[3]) /\ More(r[4]) /\ More(r[5])
          <6>1. /\ Len(f[n]) = 1 + Len(f[n1]) /\ Len(f[n1]) = 1 + Len(f[n2])
                /\ Len(f[n2]) = 1 + Len(f[n3]) /\ Len(f[n3]) = 1 + Len(f[n3 \div 2])
            BY <2>1, <3>1, <4>1, <5>1, Zenon DEF Goes
          <6>2. PICK l \in Nat : l = Len(f[n3 \div 2])
            BY <5>1
          <6>3. /\ Len(f[n3]) = 1 + l /\ Len(f[n2]) = 2 + l /\ Len(f[n1]) = 3 + l /\ Len(f[n]) = 4 + l
            BY <6>1, <6>2
          <6>4. r[2] = f[n][1] /\ r[3] = f[n][2] /\ r[4] = f[n][3] /\ r[5] = f[n][4]
            <7>1. \A i \in 1..(4 + l) : r[1 + i] = f[n][i]
              BY <1>5, <6>3, Zenon DEF Bears
            <7> QED
              BY <7>1
          <6>5. f[n][2] = f[n1][1] /\ f[n][3] = f[n1][2] /\ f[n][4] = f[n1][3]
            <7>1. \A i \in 1..(3 + l) : f[n][1 + i] = f[n1][i]
              BY <2>1, <6>3, Zenon DEF Goes
            <7> QED
              BY <7>1
          <6>6. f[n1][2] = f[n2][1] /\ f[n1][3] = f[n2][2]
            <7>1. \A i \in 1..(2 + l) : f[n1][1 + i] = f[n2][i]
              BY <3>1, <6>3, Zenon DEF Goes
            <7> QED
              BY <7>1
          <6>7. f[n2][2] = f[n3][1]
            <7>1. \A i \in 1..(1 + l) : f[n2][1 + i] = f[n3][i]
              BY <4>1, <6>3, Zenon DEF Goes
            <7> QED
              BY <7>1
          <6> QED
            BY <2>1, <3>1, <4>1, <5>1, <6>4, <6>5, <6>6, <6>7, Zenon DEF Goes
        <5> QED
          BY <1>3, <5>2 DEF EndsAt
      <4> QED
        BY <4>2, <4>3
    <3> QED
      BY <3>2, <3>3
  <2> QED
    BY <2>2, <2>3
<1> QED
  BY <1>6, <1>7

\* What begins a sequence, in any set of tokens.
LEMMA PrefixGives ==
  ASSUME NEW S, NEW s \in Seq(S), NEW t \in Seq(S), IsPrefix(s, t)
  PROVE  Begins(s, t)
<1>1. Len(s) <= Len(t) /\ SubSeq(s, 1, Len(s)) = SubSeq(t, 1, Len(s))
  BY Zenon DEF IsPrefix
<1>2. SubSeq(s, 1, Len(s)) = s /\ Len(s) \in Nat
  BY SubSeqFull
<1>3. PICK u : u = SubSeq(t, 1, Len(s))
  OBVIOUS
<1>4. \A i \in 1..Len(s) : u[i] = t[i]
  BY <1>1, <1>2, <1>3
<1> QED
  BY <1>1, <1>2, <1>3, <1>4, Zenon DEF Begins

\* Where the server writes a length as encode_varint does, for a body of any
\* size, a successful read_packet has taken the header and the body, and no
\* byte of what comes after them.
THEOREM OnePacketCorrect == Spec => []MqttTakesOnePacket
<1> DEFINE Exact == reader = "mqtt" /\ out = "ok" =>
                      LengthBytes(buf) > 0 /\ Len(buf) = 1 + LengthBytes(buf) + remaining(buf)
<1>1. StreamInv => Exact
  BY PacketExact
<1>2. StreamInv /\ Exact => MqttTakesOnePacket
  <2> SUFFICES ASSUME StreamInv, Exact, reader = "mqtt", out = "ok", NEW n \in 0..Len(response),
                      IsPrefix(<<"CONNACK">> \o encode_varint(n), response)
               PROVE  Len(buf) = Len(<<"CONNACK">> \o encode_varint(n)) + n
    BY DEF MqttTakesOnePacket
  <2>1. /\ buf \in Seq(Token) /\ response \in Seq(Token) /\ Len(response) \in Nat
        /\ Begins(buf, response)
    BY Typed DEF StreamInv, TypeOK
  <2>2. n \in Nat
    BY <2>1
  <2>3. PICK w : w = encode_varint(n)
    OBVIOUS
  <2>4. w \in Seq(Digits)
    <3>1. PICK f : Spells(n, f) /\ w = f[n]
      BY <2>2, <2>3, VarintIs, Zenon
    <3>2. n \in 0..n
      BY <2>2
    <3> QED
      BY <3>1, <3>2, Zenon DEF Spells
  <2> DEFINE All == Token \cup Digits \cup {"CONNACK"}
             h == <<"CONNACK">>
  <2>5. h \in Seq(All) /\ Len(h) = 1
    OBVIOUS
  <2>6. w \in Seq(All) /\ response \in Seq(All) /\ Len(w) \in Nat
    BY <2>1, <2>4
  <2> HIDE DEF All, h
  <2>7. /\ h \o w \in Seq(All) /\ Len(h \o w) = 1 + Len(w)
        /\ \A i \in 1..Len(w) : (h \o w)[1 + i] = w[i]
    <3>1. /\ h \o w \in Seq(All) /\ Len(h \o w) = Len(h) + Len(w)
          /\ \A i \in 1..(Len(h) + Len(w)) :
               (h \o w)[i] = IF i <= Len(h) THEN h[i] ELSE w[i - Len(h)]
      BY <2>5, <2>6, ConcatProperties, Zenon
    <3>2. PICK x : x = h \o w
      OBVIOUS
    <3>3. \A i \in 1..(1 + Len(w)) : x[i] = IF i <= 1 THEN h[i] ELSE w[i - 1]
      BY <2>5, <3>1, <3>2, Zenon
    <3>4. ASSUME NEW i \in 1..Len(w) PROVE x[1 + i] = w[i]
      <4>1. 1 + i \in 1..(1 + Len(w)) /\ ~(1 + i <= 1) /\ (1 + i) - 1 = i
        BY <2>6
      <4> QED
        BY <3>3, <4>1, Zenon
    <3> QED
      BY <2>5, <3>1, <3>2, <3>4, Zenon
  <2>8. PICK x : x = h \o w
    OBVIOUS
  <2>9. Begins(x, response)
    BY <2>3, <2>6, <2>7, <2>8, PrefixGives, Zenon DEF h
  <2>10. Bears(response, w)
    <3>1. /\ Len(x) = 1 + Len(w) /\ 1 + Len(w) <= Len(response)
          /\ \A i \in 1..Len(w) : x[1 + i] = w[i] /\ 1 + i \in 1..Len(x)
      BY <2>6, <2>7, <2>8, <2>9 DEF Begins
    <3> QED
      BY <2>9, <3>1, Zenon DEF Bears, Begins
  <2>11. /\ LengthBytes(buf) > 0 /\ Len(buf) = 1 + LengthBytes(buf) + remaining(buf)
    OBVIOUS
  <2>12. LengthBytes(response) = LengthBytes(buf) /\ remaining(response) = remaining(buf)
    BY <2>1, <2>11, LengthSettled
  <2>13. LengthBytes(response) = Len(w) /\ remaining(response) = n
    BY <2>1, <2>2, <2>3, <2>10, <2>11, <2>12, VarintRead, Zenon
  <2>14. Len(buf) = (1 + Len(w)) + n
    BY <2>2, <2>6, <2>11, <2>12, <2>13
  <2> QED
    BY <2>3, <2>7, <2>14, Zenon DEF h
<1> QED
  BY <1>1, <1>2, StreamInvariant, PTL
=============================================================================
